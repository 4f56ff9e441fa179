-------------------------------- MODULE Overdue --------------------------------
(***************************************************************************)
(* The overdue alert of the upload worker (internal/recording/uploader.go):*)
(* recordings that wait for S3 for hours open one incident, and its end is *)
(* reported when none do any longer.  Both of the worker's goroutines      *)
(* check, one after every delivery, the other every minute, because a      *)
(* delivery may block.  The incident outlives the process in the event     *)
(* log; the channel shows the last thing it was told.                      *)
(***************************************************************************)
EXTENDS Naturals

CONSTANTS MaxFaults, MaxRuns, None  \* bounds: calls that fail, lives of the process

Workers == {"deliver", "watch"}

VARIABLES
  late,           \* a ready ticket has waited too long
  overdueMu,
  at, seen,       \* per goroutine: its step, and the state it evaluated
  overdueOpen,
  cancelled,      \* stop was called
  closed,         \* the alerts and the event log are closed
  files,          \* the event log: the newest overdue event of the active and of the rotated file
  queue, told,    \* uploadQueues of a channel, and what the channel was given last
  logOff, toldOff, \* history: an event was lost or forgotten, an alert was lost with its process
  faults, runs

vars == <<late, overdueMu, at, seen, overdueOpen, cancelled, closed, files, queue, told, logOff, toldOff, faults, runs>>

Fault   == faults < MaxFaults /\ faults' = faults + 1
NoFault == UNCHANGED faults

\* UploadOverdueOpen: the newest event of the retained logs.
UploadOverdueOpen(log) == IF log.active # None THEN log.active ELSE log.rotated = TRUE

-------------------------------------------------------------------------------
\* A recording becomes overdue.
Wait ==
  /\ ~late /\ late' = TRUE
  /\ UNCHANGED <<overdueMu, at, seen, overdueOpen, cancelled, closed, files, queue, told, logOff, toldOff, faults, runs>>

\* deliver: an upload ends one way or another, also one that stop interrupted, and the
\* check follows; or it notices the stop.
Process ==
  /\ at["deliver"] = "rest"
  /\ late' \in {late, FALSE} /\ at' = [at EXCEPT !["deliver"] = "check"]
  /\ UNCHANGED <<overdueMu, seen, overdueOpen, cancelled, closed, files, queue, told, logOff, toldOff, faults, runs>>

\* watchOverdue: the ticker, also once when it comes with the stop.
Tick ==
  /\ at["watch"] = "rest" /\ at' = [at EXCEPT !["watch"] = "check"]
  /\ UNCHANGED <<late, overdueMu, seen, overdueOpen, cancelled, closed, files, queue, told, logOff, toldOff, faults, runs>>

End(g) ==
  /\ cancelled /\ at[g] = "rest" /\ at' = [at EXCEPT ![g] = "end"]
  /\ UNCHANGED <<late, overdueMu, seen, overdueOpen, cancelled, closed, files, queue, told, logOff, toldOff, faults, runs>>

\* checkOverdue, under its lock: the tickets and the time,
Evaluate(g) ==
  /\ at[g] = "check" /\ overdueMu = None
  /\ overdueMu' = g /\ seen' = [seen EXCEPT ![g] = late] /\ at' = [at EXCEPT ![g] = "apply"]
  /\ UNCHANGED <<late, overdueOpen, cancelled, closed, files, queue, told, logOff, toldOff, faults, runs>>

\* the transition,
Apply(g) ==
  /\ at[g] = "apply" /\ overdueOpen' = seen[g]
  /\ IF seen[g] # overdueOpen
     THEN at' = [at EXCEPT ![g] = "log"] /\ UNCHANGED overdueMu
     ELSE at' = [at EXCEPT ![g] = "rest"] /\ overdueMu' = None
  /\ UNCHANGED <<late, seen, cancelled, closed, files, queue, told, logOff, toldOff, faults, runs>>

\* its event,
Log(g) ==
  /\ at[g] = "log" /\ at' = [at EXCEPT ![g] = "tell"]
  /\ \/ ~closed /\ NoFault /\ files' = [files EXCEPT !.active = seen[g]] /\ logOff' = FALSE
     \/ UNCHANGED files /\ logOff' = TRUE /\ IF closed THEN NoFault ELSE Fault
  /\ UNCHANGED <<late, overdueMu, seen, overdueOpen, cancelled, closed, queue, told, toldOff, runs>>

\* and HandleUploadsOverdue: a state the channel has not sent yet is replaced.
Tell(g) ==
  /\ at[g] = "tell" /\ at' = [at EXCEPT ![g] = "rest"] /\ overdueMu' = None
  /\ IF closed THEN toldOff' = TRUE /\ UNCHANGED queue ELSE queue' = seen[g] /\ toldOff' = FALSE
  /\ UNCHANGED <<late, seen, overdueOpen, cancelled, closed, files, told, logOff, faults, runs>>

\* The channel's worker.
Send ==
  /\ queue # None /\ told' = queue /\ queue' = None
  /\ UNCHANGED <<late, overdueMu, at, seen, overdueOpen, cancelled, closed, files, logOff, toldOff, faults, runs>>

\* The log is full: the file of before the last rotation is forgotten.
Rotate ==
  /\ files' = [active |-> None, rotated |-> files.active]
  /\ logOff' = (logOff \/ UploadOverdueOpen(files') # UploadOverdueOpen(files))
  /\ UNCHANGED <<late, overdueMu, at, seen, overdueOpen, cancelled, closed, queue, told, toldOff, faults, runs>>

\* uploader.stop, and what the encoder closes after it: an upload that does not end in
\* time is left behind.
Stop ==
  /\ ~cancelled /\ cancelled' = TRUE
  /\ UNCHANGED <<late, overdueMu, at, seen, overdueOpen, closed, files, queue, told, logOff, toldOff, faults, runs>>

Close ==
  /\ cancelled /\ ~closed /\ closed' = TRUE
  /\ queue' = None /\ toldOff' = (toldOff \/ queue # None)
  /\ UNCHANGED <<late, overdueMu, at, seen, overdueOpen, cancelled, files, told, logOff, faults, runs>>

\* The process ends here or anywhere else; the next one asks the log, which may not be
\* readable, before it starts.
StartUploads ==
  /\ runs < MaxRuns /\ runs' = runs + 1
  /\ \/ NoFault /\ overdueOpen' = UploadOverdueOpen(files)
     \/ Fault /\ overdueOpen' = FALSE
  /\ logOff' = (overdueOpen' # UploadOverdueOpen(files)) /\ toldOff' = (overdueOpen' # told)
  /\ overdueMu' = None /\ at' = [deliver |-> "rest", watch |-> "check"] /\ seen' = [g \in Workers |-> FALSE]
  /\ cancelled' = FALSE /\ closed' = FALSE /\ queue' = None
  /\ UNCHANGED <<late, files, told>>

Init ==
  /\ late = FALSE /\ overdueMu = None /\ overdueOpen = FALSE
  /\ at = [deliver |-> "rest", watch |-> "check"] /\ seen = [g \in Workers |-> FALSE]
  /\ cancelled = FALSE /\ closed = FALSE /\ files = [active |-> None, rotated |-> None]
  /\ queue = None /\ told = FALSE /\ logOff = FALSE /\ toldOff = FALSE /\ faults = 0 /\ runs = 1

Check(g) == Evaluate(g) \/ Apply(g) \/ Log(g) \/ Tell(g) \/ End(g)

Next == Wait \/ Process \/ Tick \/ (\E g \in Workers : Check(g)) \/ Send \/ Rotate \/ Stop \/ Close \/ StartUploads

Spec == Init /\ [][Next]_vars

-------------------------------------------------------------------------------
(* Properties                                                              *)

\* Between checks the event log, across rotations and restarts, and a channel that has
\* caught up both have the incident as the worker has it: a clear never overtakes its
\* alert.  What a failed call, a forgotten file or the end of a process takes along is
\* made up for by the next transition.
OverdueFollows ==
  (\A g \in Workers : at[g] \in {"rest", "check", "end"}) =>
    /\ ~logOff => UploadOverdueOpen(files) = overdueOpen
    /\ queue = None /\ ~toldOff => told = overdueOpen

\* Once the check after a delivery is over, an incident is open only while a recording is
\* overdue, whatever the other goroutine saw before.
ClearsInTime == (\A g \in Workers : at[g] \in {"rest", "end"}) /\ overdueOpen => late
===============================================================================
