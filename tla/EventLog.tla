-------------------------------- MODULE EventLog -------------------------------
(***************************************************************************)
(* The event log on disk: eventlog.Logger on util.RollingWriter, one       *)
(* active file and one rotated file, written under the logger's mutex and  *)
(* read by ReadLast without it.  A file is a sequence of lines; an event   *)
(* is its number.  Disk steps may fail, writes may be torn, the process    *)
(* may be killed.                                                          *)
(***************************************************************************)
EXTENDS Integers, Sequences, SequencesExt

CONSTANTS
  MaxSize,      \* lines an active file may hold before it is rotated
  ReadN,        \* n of ReadLast
  MaxAttempts,  \* maxReadAttempts
  MaxEvents, MaxFaults, MaxCrashes, MaxReads    \* bounds

VARIABLES
  files,    \* the content of every file by inode
  active, rotated,    \* the inodes of the two paths, 0 for none
  w,        \* the writer: pc, file, written, trunc (pendingTrunc), blocked (rename failed)
  reader,   \* a call of ReadLast
  logged,   \* history: events whose Log returned no error
  count,    \* events, faults, crashes and reads so far
  unsure    \* history: a torn line could be neither measured nor terminated

vars == <<files, active, rotated, w, reader, logged, count, unsure>>

-------------------------------------------------------------------------------
\* A line: its event, whether its JSON is whole and whether its newline is there.
Line(n, whole, ended) == [n |-> n, whole |-> whole, ended |-> ended]

Content(i) == IF i = 0 THEN <<>> ELSE files[i]

\* parseEventLine accepts a line that is whole and not glued to a torn one.
Readable(c, i) ==
  /\ c[i].whole
  /\ i > 1 => c[i - 1].ended
  /\ i < Len(c) => c[i].ended

\* readLinesReverse and parseEventLine: the events of a file, newest first
Events(c) == Reverse(SelectSeq([i \in 1..Len(c) |-> IF Readable(c, i) THEN c[i].n ELSE 0], LAMBDA n : n > 0))

Retained == ToSet(Events(Content(rotated))) \union ToSet(Events(Content(active)))

\* A step of the disk may fail while faults are left.
Outcome(ok) == ok \/ count.faults < MaxFaults
Counted(ok) == count' = IF ok THEN count ELSE [count EXCEPT !.faults = @ + 1]

\* openLocked, which creates a missing file
Opened ==
  /\ active' = IF active = 0 THEN Len(files) + 1 ELSE active
  /\ files' = IF active = 0 THEN Append(files, <<>>) ELSE files

-------------------------------------------------------------------------------
\* Logger.Log and RollingWriter.Write, up to the retry of an open that failed before.
LogBegin ==
  /\ w.pc = "idle" /\ count.events < MaxEvents
  /\ count' = [count EXCEPT !.events = @ + 1]
  /\ w' = [w EXCEPT !.pc = IF w.file = 0 THEN "open" ELSE "undo"]
  /\ UNCHANGED <<files, active, rotated, reader, logged, unsure>>

Open(ok) ==
  /\ w.pc = "open" /\ Outcome(ok) /\ Counted(ok)
  /\ IF ok THEN /\ Opened
                /\ w' = [w EXCEPT !.pc = "undo", !.file = active', !.written = Len(files'[active'])]
           ELSE /\ w' = [w EXCEPT !.pc = "idle"]
                /\ UNCHANGED <<files, active>>
  /\ UNCHANGED <<rotated, reader, logged, unsure>>

\* Mutated form of TornLeft: a torn line is left where it is.
TornStays(x) == FALSE

\* pendingTrunc: a torn line that could not be truncated away is still there.
TornLeft(x) == x.trunc >= 0 /\ x.written > x.trunc

\* Write up to the look at the size.
Undo(ok) ==
  /\ w.pc = "undo" /\ Outcome(ok) /\ Counted(ok)
  /\ TornLeft(w) \/ ok
  /\ LET size == IF TornLeft(w) THEN w.trunc ELSE w.written IN
     IF ok THEN /\ files' = IF TornLeft(w) THEN [files EXCEPT ![w.file] = SubSeq(@, 1, w.trunc)] ELSE files
                /\ w' = [w EXCEPT !.written = size, !.trunc = -1,
                                  !.pc = IF size > 0 /\ size + 1 > MaxSize THEN "close" ELSE "write"]
           ELSE /\ w' = [w EXCEPT !.pc = "idle", !.file = 0]
                /\ UNCHANGED files
  /\ UNCHANGED <<active, rotated, reader, logged, unsure>>

\* rotateLocked: close, ...
RotateClose(ok) ==
  /\ w.pc = "close" /\ Outcome(ok) /\ Counted(ok)
  /\ w' = [w EXCEPT !.file = 0, !.pc = IF ok THEN "remove" ELSE "idle"]
  /\ UNCHANGED <<files, active, rotated, reader, logged, unsure>>

\* ... remove the rotated file, whose failure is ignored, ...
RotateRemove(ok) ==
  /\ w.pc = "remove" /\ Outcome(ok) /\ Counted(ok)
  /\ rotated' = IF ok THEN 0 ELSE rotated
  /\ w' = [w EXCEPT !.pc = "rename"]
  /\ UNCHANGED <<files, active, reader, logged, unsure>>

\* ... rename the active one, which may be blocked, ...
RotateRename(ok) ==
  /\ w.pc = "rename" /\ Outcome(ok) /\ Counted(ok)
  /\ rotated' = IF ok THEN active ELSE rotated
  /\ active' = IF ok THEN 0 ELSE active
  /\ w' = [w EXCEPT !.pc = "reopen", !.blocked = ~ok]
  /\ UNCHANGED <<files, reader, logged, unsure>>

\* ... and open the next one.
RotateOpen(ok) ==
  /\ w.pc = "reopen" /\ Outcome(ok) /\ Counted(ok)
  /\ IF ok THEN /\ Opened
                /\ w' = [w EXCEPT !.pc = "write", !.file = active',
                                  !.written = IF w.blocked THEN 0 ELSE Len(files'[active'])]
           ELSE /\ w' = [w EXCEPT !.pc = "idle"]
                /\ UNCHANGED <<files, active>>
  /\ UNCHANGED <<rotated, reader, logged, unsure>>

\* The write of the line.
Append1(line) == [files EXCEPT ![w.file] = Append(@, line)]

Write ==
  /\ w.pc = "write"
  /\ files' = Append1(Line(count.events, TRUE, TRUE))
  /\ w' = [w EXCEPT !.pc = "idle", !.written = @ + 1]
  /\ logged' = logged \union {count.events}
  /\ UNCHANGED <<active, rotated, reader, count, unsure>>

\* A write that fails: nothing is written, or a torn line that is truncated away at once,
\* or later, or whose size cannot be found.
WriteFails(left) ==
  /\ w.pc = "write" /\ count.faults < MaxFaults
  /\ count' = [count EXCEPT !.faults = @ + 1]
  /\ files' = IF left = "nothing" THEN files ELSE Append1(Line(count.events, FALSE, FALSE))
  /\ w' = [w EXCEPT !.pc = "idle", !.file = 0,
                    !.trunc = IF left = "later" THEN Len(files[w.file]) ELSE @]
  /\ unsure' = (unsure \/ left = "unknown")
  /\ UNCHANGED <<active, rotated, reader, logged>>

\* The process is killed, in the middle of a write perhaps, and starts again:
\* terminateLogTail ends an unterminated last line, then the writer opens the file.
Idle == [pc |-> "off", attempt |-> 0, opened |-> <<0, 0>>, events |-> <<>>, known |-> {}]

Torn == {Line(count.events, FALSE, FALSE), Line(count.events, TRUE, FALSE), Line(count.events, TRUE, TRUE)}

Left == {files} \union (IF w.pc = "write" THEN {Append1(line) : line \in Torn} ELSE {})

Terminated(c) == IF c = <<>> THEN c ELSE [c EXCEPT ![Len(c)].ended = TRUE]

Crash(ok) ==
  /\ count.crashes < MaxCrashes /\ Outcome(ok)
  /\ count' = [count EXCEPT !.crashes = @ + 1, !.faults = IF ok THEN @ ELSE @ + 1]
  /\ unsure' = (unsure \/ ~ok)
  /\ \E disk \in Left :
       LET tidy == [i \in DOMAIN disk |-> IF ok /\ i = active THEN Terminated(disk[i]) ELSE disk[i]]
       IN /\ active' = IF active = 0 THEN Len(disk) + 1 ELSE active
          /\ files' = IF active = 0 THEN Append(tidy, <<>>) ELSE tidy
  /\ w' = [pc |-> "idle", file |-> active', written |-> Len(files'[active']), trunc |-> -1, blocked |-> FALSE]
  /\ reader' = Idle
  /\ UNCHANGED <<rotated, logged>>

-------------------------------------------------------------------------------
\* ReadLast: an attempt opens both paths, ...
ReadBegin ==
  /\ reader.pc = "off" /\ count.reads < MaxReads
  /\ count' = [count EXCEPT !.reads = @ + 1]
  /\ reader' = [Idle EXCEPT !.pc = "rotated", !.attempt = 1, !.known = logged]
  /\ UNCHANGED <<files, active, rotated, w, logged, unsure>>

ReadStep(r) ==
  /\ reader' = r
  /\ UNCHANGED <<files, active, rotated, w, logged, count, unsure>>

OpenRotated == reader.pc = "rotated" /\ ReadStep([reader EXCEPT !.pc = "active", !.opened[1] = rotated])

OpenActive == reader.pc = "active" /\ ReadStep([reader EXCEPT !.pc = "first", !.opened[2] = active])

\* ... reads the active path and, if that is not enough, the rotated one, ...
ReadActive ==
  /\ reader.pc = "first"
  /\ LET got == Events(Content(active)) IN
       ReadStep([reader EXCEPT !.pc = IF Len(got) > ReadN THEN "check" ELSE "second", !.events = got])

ReadRotated ==
  /\ reader.pc = "second"
  /\ ReadStep([reader EXCEPT !.pc = "check", !.events = @ \o Events(Content(rotated))])

\* stillNames: the path names the file that was opened, or is still missing.
StillNames(opened, now) == opened = now

\* ... and is repeated if one of the paths names another file by now.
Retry ==
  IF reader.attempt < MaxAttempts
  THEN [reader EXCEPT !.pc = "rotated", !.attempt = @ + 1, !.events = <<>>]
  ELSE [Idle EXCEPT !.pc = "failed"]

CheckRotated ==
  /\ reader.pc = "check"
  /\ ReadStep([reader EXCEPT !.pc = IF StillNames(reader.opened[1], rotated) THEN "checkActive" ELSE "checkBad"])

CheckActive ==
  /\ reader.pc \in {"checkActive", "checkBad"}
  /\ ReadStep(IF reader.pc = "checkActive" /\ StillNames(reader.opened[2], active)
              THEN [reader EXCEPT !.pc = "done"] ELSE Retry)

ReadEnd == reader.pc \in {"done", "failed"} /\ ReadStep(Idle)

-------------------------------------------------------------------------------
Init ==
  /\ files = <<<<>>>> /\ active = 1 /\ rotated = 0
  /\ w = [pc |-> "idle", file |-> 1, written |-> 0, trunc |-> -1, blocked |-> FALSE]
  /\ reader = Idle
  /\ logged = {}
  /\ count = [events |-> 0, faults |-> 0, crashes |-> 0, reads |-> 0]
  /\ unsure = FALSE

Next ==
  \/ LogBegin \/ Write
  \/ \E ok \in BOOLEAN : \/ Open(ok) \/ Undo(ok) \/ RotateClose(ok) \/ RotateRemove(ok)
                         \/ RotateRename(ok) \/ RotateOpen(ok) \/ Crash(ok)
  \/ \E left \in {"nothing", "later", "unknown"} : WriteFails(left)
  \/ ReadBegin \/ OpenRotated \/ OpenActive \/ ReadActive \/ ReadRotated
  \/ CheckRotated \/ CheckActive \/ ReadEnd

Spec == Init /\ [][Next]_vars

-------------------------------------------------------------------------------
\* ReadLast: a result is in order, and holds every event logged before the call that the
\* files still hold, newest first, up to the n asked for: a rotation or a truncation in
\* between neither repeats nor skips events.
ReadIsConsistent ==
  reader.pc = "done" =>
    LET got == reader.events IN
    /\ \A i \in 1..(Len(got) - 1) : got[i] > got[i + 1]
    /\ \A n \in reader.known \intersect Retained :
         n \in ToSet(got) \/ (Len(got) > ReadN /\ n < got[Len(got)])

\* Log: an event whose write returned no error stays readable until a rotation drops its
\* generation; a torn line before or after it does not take it along. Exempt are runs
\* in which a torn line could be neither measured nor terminated.
LoggedStaysReadable ==
  ~unsure =>
    \A i \in {active, rotated} \ {0} : \A k \in 1..Len(files[i]) :
      files[i][k].n \in logged => Readable(files[i], k)
===============================================================================
