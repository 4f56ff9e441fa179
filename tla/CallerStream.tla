----------------------------- MODULE CallerStream -----------------------------
(***************************************************************************)
(* One stream in caller mode (internal/streaming/manager.go): the entry of *)
(* its ID in Manager.streams, the goroutines that start it and then watch  *)
(* and retry it, Stop and StopAll, the FFmpeg processes and their writers. *)
(* One action is one section under m.mu, or one step another goroutine can *)
(* see.  Of the encoder only what the manager asks it is here.             *)
(***************************************************************************)
EXTENDS Naturals

CONSTANTS
  Entries,     \* bound: Stream structs that exist at once
  Workers,     \* goroutines that start the stream and become its monitor
  Users,       \* goroutines that call Stop
  All,         \* the goroutine of StopAll
  None,        \* no entry
  MaxRetries   \* of the stream's configuration

VARIABLE
  m            \* the manager, its goroutines and the encoder around it

Stoppers == Users \cup {All}
Retries  == 0 .. (MaxRetries + 1)    \* more failures than MaxRetries are all alike

\* A Stream.  A placeholder (pub = FALSE) and the entry that replaces it when the
\* process runs are one: nobody who sees the first keeps it for long.
Blank == [state |-> "none", pub |-> FALSE, cancelled |-> FALSE, proc |-> "none", writer |-> FALSE,
          open |-> FALSE, retry |-> 0, kept |-> 0,
          stops |-> 0, over |-> FALSE]        \* history: the events of Stop, retries given up

IdleWorker  == [pc |-> "idle", own |-> None, old |-> None, monitor |-> FALSE, chan |-> FALSE]
IdleStopper == [pc |-> "idle", entry |-> None]

Init ==
  m = [cur |-> None,                          \* m.streams[streamID]
       entry |-> [x \in Entries |-> Blank],
       work |-> [w \in Workers |-> IdleWorker],
       stop |-> [s \in Stoppers |-> IdleStopper],
       enc |-> "stopped", enabled |-> TRUE,   \* the encoder, the configuration
       wish |-> "off"]                        \* history: the last of Stop and start

\* Nothing refers to a dead entry any more.
Garbage(v, x) ==
  /\ v.cur # x /\ v.entry[x].proc # "alive" /\ ~v.entry[x].writer
  /\ \A w \in Workers : x \notin {v.work[w].own, v.work[w].old}
  /\ \A s \in Stoppers : v.stop[s].entry # x

\* The retries of an entry that is no longer managed are never read again.
Forgotten(e) == [e EXCEPT !.retry = 0, !.kept = 0, !.over = FALSE]

Becomes(v) ==
  m' = [v EXCEPT !.entry = [x \in Entries |->
         IF Garbage(v, x) THEN Blank ELSE IF v.cur # x THEN Forgotten(v.entry[x]) ELSE v.entry[x]]]

Unused == {x \in Entries : m.entry[x] = Blank}

Goto(v, w, pc) == [v EXCEPT !.work[w].pc = pc]
Quit(v, w)     == [v EXCEPT !.work[w] = IdleWorker]

At(w, pc) == m.work[w].pc = pc
Own(w)    == m.work[w].own

\* owns: the entry is the managed one and no Stop is in progress.
Owns(x) == m.cur = x /\ m.entry[x].state # "stopping"

\* Mutated form of Cancel: the audio channel is left open.
CancelProcess(v, x) == IF x = None THEN v ELSE [v EXCEPT !.entry[x].cancelled = TRUE]

\* stopStreamResources cancels the process and closes the audio channel ...
Cancel(v, x) ==
  IF x = None THEN v ELSE [v EXCEPT !.entry[x].cancelled = TRUE, !.entry[x].open = FALSE]

\* ... and waits for the process and the writer.
Released(x) ==
  x # None => ~m.entry[x].writer /\ (m.entry[x].pub => m.entry[x].proc # "alive")

-------------------------------------------------------------------------------
(* Start                                                                   *)

\* startStream: the encoder runs and the stream is enabled.
Start(w) ==
  /\ At(w, "idle") /\ m.enc = "running" /\ m.enabled
  /\ Becomes([m EXCEPT !.work[w] = [IdleWorker EXCEPT !.pc = "claim", !.chan = TRUE]])

\* The predicate StartIfActive is given: a monitor's asks whether the encoder
\* runs, a start's also whether it is still the same run.
Active(w) == m.enc = "running" /\ (m.work[w].monitor \/ m.work[w].chan)

Busy(x) == x # None /\ m.entry[x].state \in {"running", "starting"}

\* Mutated form of MayClaim: the predicate is not asked again under the lock.
MayClaimUnchecked(w) == ~Busy(m.cur) /\ (m.work[w].monitor => m.cur = Own(w))

\* Mutated form of MayClaim: a monitor does not ask for its own entry.
MayClaimAny(w) == Active(w) /\ ~Busy(m.cur)

\* claimStream's checks; a monitor only replaces the entry it owns.
MayClaim(w) == Active(w) /\ ~Busy(m.cur) /\ (m.work[w].monitor => m.cur = Own(w))

\* claimStream: a placeholder takes over the retries of the entry before it.
Claim(w) ==
  LET x == m.cur
      n == CHOOSE y \in Unused : TRUE
      retry == IF x = None THEN 0 ELSE m.entry[x].retry
  IN /\ At(w, "claim")
     /\ \/ ~MayClaim(w) /\ Becomes(IF m.work[w].monitor THEN Goto(m, w, "remove") ELSE Quit(m, w))
        \/ /\ MayClaim(w) /\ Unused # {}
           /\ Becomes([m EXCEPT
                !.cur = n, !.entry[n] = [Blank EXCEPT !.state = "starting", !.retry = retry],
                !.work[w] = [@ EXCEPT !.pc = "release", !.own = n, !.old = x],
                !.wish = IF m.work[w].monitor THEN @ ELSE "on"])

\* The lock is free again; the resources of the old entry are stopped.
Release(w) == At(w, "release") /\ Becomes(Goto(Cancel(m, m.work[w].old), w, "drain"))

Drain(w) ==
  /\ At(w, "drain") /\ Released(m.work[w].old)
  /\ Becomes([m EXCEPT !.work[w].pc = "exec", !.work[w].old = None])

\* startCaller: FFmpeg starts, unless it cannot or the claim was cancelled.
Exec(w, ok) ==
  LET x == Own(w) IN
  /\ At(w, "exec")
  /\ IF ok /\ ~m.entry[x].cancelled
     THEN Becomes([Goto(m, w, "publish") EXCEPT !.entry[x].proc = "alive",
                                                !.entry[x].kept = m.entry[x].retry])
     ELSE Becomes([Quit(m, w) EXCEPT !.cur = IF @ = x THEN None ELSE @])

\* The process replaces its placeholder, or is killed when that has gone.  A start
\* then launches its monitor; a monitor goes on with the new entry.
Publish(w) ==
  LET x == Own(w) IN
  /\ At(w, "publish")
  /\ IF m.cur # x THEN Becomes(Goto(Cancel(m, x), w, "reap"))
     ELSE Becomes([Goto(m, w, IF m.work[w].monitor THEN "top" ELSE "begin") EXCEPT
            !.entry[x] = [@ EXCEPT !.state = "running", !.pub = TRUE, !.writer = TRUE, !.open = TRUE,
                                   !.retry = m.entry[x].kept, !.kept = 0]])

Reap(w) == At(w, "reap") /\ m.entry[Own(w)].proc # "alive" /\ Becomes(Quit(m, w))

-------------------------------------------------------------------------------
(* MonitorAndRetry                                                         *)

\* The monitor takes the entry of the moment it starts; a placeholder has no process
\* to wait for.
Begin(w) ==
  /\ At(w, "begin")
  /\ Becomes(IF m.cur = None \/ ~m.entry[m.cur].pub THEN Quit(m, w)
             ELSE [m EXCEPT !.work[w] = [@ EXCEPT !.pc = "top", !.own = m.cur, !.monitor = TRUE]])

Top(w) ==
  /\ At(w, "top")
  /\ Becomes(IF m.work[w].chan THEN Goto(m, w, "wait") ELSE Quit(m, w))

MarkExited(w) ==
  LET x == Own(w) IN
  /\ At(w, "wait") /\ m.entry[x].proc # "alive"
  /\ Becomes(IF Owns(x) THEN [Goto(m, w, "exit") EXCEPT !.entry[x].state = "stopped"] ELSE Quit(m, w))

\* ResetRetry, IncrementRetry and SetError act on the entry that has the ID now.
Retry(v, n) == IF v.cur = None THEN v ELSE [v EXCEPT !.entry[v.cur].retry = n]
SetError(v) == IF v.cur = None THEN v ELSE [v EXCEPT !.entry[v.cur].state = "error"]
RetryCount == IF m.cur = None THEN 0 ELSE m.entry[m.cur].retry

\* A count above MaxRetries stays the same.
Incremented == IF RetryCount > MaxRetries THEN RetryCount ELSE RetryCount + 1

\* Mutated form of HandleExit: a stream that ended normally is not started again.
HandleExitOnce(w) ==
  LET x == m.entry[Own(w)] IN
  /\ At(w, "exit")
  /\ \/ x.cancelled /\ Becomes(Goto(m, w, "check"))
     \/ ~x.cancelled /\ x.proc = "ended" /\ Becomes(Quit(m, w))
     \/ ~x.cancelled /\ x.proc = "failed" /\ Becomes(Goto(m, w, "fail"))

\* handleStreamExit reads why the process ended, ...
HandleExit(w) ==
  LET x == m.entry[Own(w)] IN
  /\ At(w, "exit")
  /\ \/ x.cancelled /\ Becomes(Goto(m, w, "check"))
     \/ ~x.cancelled /\ x.proc = "ended" /\ Becomes(Goto(m, w, "reset"))
     \/ ~x.cancelled /\ x.proc = "failed" /\ Becomes(Goto(m, w, "fail"))

\* ... and acts on it later: an exit without an error starts counting again, an
\* error is recorded; ...
Record(w) ==
  \/ At(w, "reset") /\ Becomes(Goto(Retry(m, 0), w, "check"))
  \/ At(w, "fail") /\ Becomes(Goto(SetError(m), w, "report"))

\* ... and counted, unless the run was long enough to start counting again.
Report(w, long) ==
  /\ At(w, "report")
  /\ Becomes(Goto(Retry(m, IF long THEN 0 ELSE Incremented), w, "check"))

\* shouldContinueRetry, before and after the wait.
Check(w) ==
  /\ At(w, "check") \/ At(w, "recheck")
  /\ Becomes(IF ~Owns(Own(w)) \/ m.enc # "running" \/ ~m.enabled THEN Goto(m, w, "remove")
             ELSE Goto(m, w, IF At(w, "check") THEN "count" ELSE "recount"))

\* Its last condition: an exhausted stream keeps its entry and its error.
Count(w) ==
  /\ At(w, "count") \/ At(w, "recount")
  /\ Becomes(IF RetryCount > MaxRetries THEN [Quit(m, w) EXCEPT !.entry[Own(w)].over = TRUE]
             ELSE Goto(m, w, IF At(w, "count") THEN "backoff" ELSE "claim"))

Backoff(w) ==
  /\ At(w, "backoff")
  /\ \/ ~m.work[w].chan /\ Becomes(Quit(m, w))
     \/ Becomes(Goto(m, w, "recheck"))

RemoveIfOwned(w) ==
  LET x == Own(w) IN
  /\ At(w, "remove")
  /\ Becomes(IF Owns(x) THEN [Goto(Cancel(m, x), w, "drop") EXCEPT !.cur = None] ELSE Quit(m, w))

Drop(w) == At(w, "drop") /\ Released(Own(w)) /\ Becomes(Quit(m, w))

-------------------------------------------------------------------------------
(* Stop and StopAll                                                        *)

\* Where a stopper goes when Stop has returned.
Returned(s) == [pc |-> IF s = All THEN "clear" ELSE "idle", entry |-> None]

\* No entry, or a concurrent Stop owns the shutdown and its event.
NothingToStop(x) == x # None => m.entry[x].state = "stopping"

\* Stop: a running entry stays in the map while it stops, any other one goes.
Stop(s) ==
  LET x == m.cur
      running == m.entry[x].state = "running"
      v == [Cancel(m, x) EXCEPT !.wish = "off"]
  IN /\ m.stop[s].pc = IF s = All THEN "begin" ELSE "idle"
     /\ \/ NothingToStop(x) /\ Becomes([m EXCEPT !.wish = "off", !.stop[s] = Returned(s)])
        \/ /\ ~NothingToStop(x) /\ running
           /\ Becomes([v EXCEPT !.entry[x].state = "stopping", !.stop[s] = [pc |-> "kill", entry |-> x]])
        \/ /\ ~NothingToStop(x) /\ ~running
           /\ Becomes([v EXCEPT !.cur = None, !.stop[s] = [pc |-> "release", entry |-> x]])

\* The process has exited, if need be killed, and the writer is done.
Emptied(x) == Released(x)

\* stream_stopped, then the entry goes.
Emit(s) ==
  LET x == m.stop[s].entry IN
  /\ m.stop[s].pc \in {"kill", "release"} /\ Emptied(x)
  /\ Becomes([m EXCEPT !.entry[x].stops = @ + 1,
                       !.stop[s] = IF @.pc = "kill" THEN [@ EXCEPT !.pc = "delete"] ELSE Returned(s)])

Delete(s) ==
  /\ m.stop[s].pc = "delete"
  /\ Becomes([m EXCEPT !.cur = IF @ = m.stop[s].entry THEN None ELSE @, !.stop[s] = Returned(s)])

\* StopAll clears the map when every Stop has returned; the encoder's stop ends.
Clear ==
  /\ m.stop[All].pc = "clear"
  /\ Becomes([m EXCEPT !.cur = None, !.stop[All] = IdleStopper, !.enc = "stopped"])

-------------------------------------------------------------------------------
(* The encoder, FFmpeg and the writers                                     *)

\* The source of the encoder comes, goes and comes back.
EncoderTurns(from, to) ==
  /\ <<from, to>> \in {<<"stopped", "starting">>, <<"starting", "running">>, <<"running", "starting">>}
  /\ m.enc = from /\ Becomes([m EXCEPT !.enc = to])

\* Encoder.stop closes the stop channel and calls StopAll.
EncoderStops ==
  /\ m.enc \in {"starting", "running"}
  /\ Becomes([m EXCEPT !.enc = "stopping", !.stop[All].pc = "begin",
                       !.work = [w \in Workers |-> [m.work[w] EXCEPT !.chan = FALSE]]])

SetEnabled(b) == m.enabled # b /\ Becomes([m EXCEPT !.enabled = b])

\* FFmpeg exits by itself, or because its context was cancelled.
Exits(x, how) ==
  /\ m.entry[x].proc = "alive" /\ (m.entry[x].cancelled => how = "failed")
  /\ Becomes([m EXCEPT !.entry[x].proc = how])

\* runWriter: the pipe is broken; or the channel was closed.
WriterFails(x) ==
  LET fails == m.cur = x /\ m.entry[x].state = "running" IN
  /\ m.entry[x].writer /\ m.entry[x].proc # "alive"
  /\ Becomes([m EXCEPT !.entry[x].writer = FALSE, !.entry[x].state = IF fails THEN "error" ELSE @])

WriterEnds(x) ==
  /\ m.entry[x].writer /\ ~m.entry[x].open
  /\ Becomes([m EXCEPT !.entry[x].writer = FALSE])

-------------------------------------------------------------------------------
Work(w) ==
  \/ Claim(w) \/ Release(w) \/ Drain(w) \/ Publish(w) \/ Reap(w) \/ Begin(w) \/ Top(w)
  \/ \E b \in BOOLEAN : Exec(w, b) \/ Report(w, b)
  \/ MarkExited(w) \/ HandleExit(w) \/ Record(w) \/ Check(w) \/ Count(w) \/ Backoff(w) \/ RemoveIfOwned(w) \/ Drop(w)

Shutdown == Stop(All) \/ Clear \/ \E s \in Stoppers : Emit(s) \/ Delete(s)

Environment ==
  \/ \E w \in Workers : Start(w)
  \/ \E s \in Users : Stop(s)
  \/ \E a, b \in {"stopped", "starting", "running"} : EncoderTurns(a, b)
  \/ EncoderStops
  \/ \E b \in BOOLEAN : SetEnabled(b)
  \/ \E x \in Entries : Exits(x, "ended") \/ Exits(x, "failed") \/ WriterFails(x)

Next ==
  \/ \E w \in Workers : Work(w)
  \/ Shutdown \/ Environment
  \/ \E x \in Entries : WriterEnds(x)

Spec == Init /\ [][Next]_m

\* What ends without anybody's help: a cancelled process is killed; a writer whose
\* process is dead is not blocked in a write.
Ending(x) ==
  \/ m.entry[x].cancelled /\ Exits(x, "failed")
  \/ m.entry[x].proc # "alive" /\ WriterEnds(x)

\* A Stop that has begun, and StopAll.
StopWork(s) == Emit(s) \/ Delete(s) \/ (s = All /\ (Stop(s) \/ Clear))

\* Goroutines go on.
Fairness ==
  /\ \A w \in Workers : WF_m(Work(w))
  /\ \A s \in Stoppers : WF_m(StopWork(s))
  /\ \A x \in Entries : WF_m(Ending(x))

FairSpec == Spec /\ Fairness

-------------------------------------------------------------------------------
(* Properties                                                              *)

\* Type invariant.
TypeOK ==
  m \in [cur : Entries \cup {None},
         entry : [Entries -> [state : {"none", "starting", "running", "stopping", "stopped", "error"},
                              pub : BOOLEAN, cancelled : BOOLEAN, writer : BOOLEAN, open : BOOLEAN,
                              proc : {"none", "alive", "ended", "failed"},
                              retry : Retries, kept : Retries, stops : Nat,
                              over : BOOLEAN]],
         work : [Workers -> [pc : {"idle", "claim", "release", "drain", "exec", "publish", "reap", "begin", "top",
                                   "wait", "exit", "reset", "fail", "report", "check", "count", "backoff", "recheck",
                                   "recount", "remove", "drop"},
                             own : Entries \cup {None}, old : Entries \cup {None},
                             monitor : BOOLEAN, chan : BOOLEAN]],
         stop : [Stoppers -> [pc : {"idle", "begin", "kill", "release", "delete", "clear"},
                              entry : Entries \cup {None}]],
         enc : {"stopped", "starting", "running", "stopping"}, enabled : BOOLEAN,
         wish : {"on", "off"}]

\* A process that nobody has told to end, and no claim is about to.
Live(x) ==
  /\ m.entry[x].proc = "alive" /\ ~m.entry[x].cancelled
  /\ \A w \in Workers : m.work[w].old # x

\* A process that nobody has told to end is the one of the managed entry: none is
\* forgotten by a start that lost its claim, a replaced entry or StopAll's clear,
\* and there are never two.
NoOrphan == \A x \in Entries : Live(x) => m.cur = x

\* start: a retry monitor cannot revive a stream that Stop has removed; only a
\* start that claims it afterwards brings it back.
StopHolds == m.wish = "off" => \A x \in Entries : ~Live(x)

\* Stop: by the time stream_stopped is emitted the process has exited and its
\* writer is done, whoever replaces, marks or watches the entry meanwhile.
StoppedIsOver ==
  \A x \in Entries : m.entry[x].stops > 0 =>
    ~m.entry[x].writer /\ (m.entry[x].pub => m.entry[x].proc # "alive")

\* The comment at Stop (manager.go 599): every managed entry emits exactly one
\* stream_stopped event before Stop returns.
StoppedOnce == \A x \in Entries : m.entry[x].stops <= 1

\* A Stop, or StopAll, has begun and not returned.
InStop(s) == m.stop[s].pc # "idle"

\* A managed stream has no process although it should, and retries are left.
Waits ==
  /\ m.cur # None /\ m.entry[m.cur].pub /\ m.entry[m.cur].proc # "alive"
  /\ m.enc = "running" /\ m.enabled /\ ~m.entry[m.cur].over
===============================================================================
