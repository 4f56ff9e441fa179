-------------------------------- MODULE Debounce -------------------------------
(***************************************************************************)
(* The debouncer behind the silence and the imbalance detector             *)
(* (internal/audio/debounce.go), as operators on its record.  A time stamp *)
(* is modelled by its age; Zero is the zero time.                          *)
(***************************************************************************)
EXTENDS Integers

CONSTANTS
  Duration,    \* ticks the condition must hold before an incident is confirmed
  Recovery,    \* ticks it must be gone before the incident has recovered
  Gap          \* bound: how far beyond Recovery a wait is measured

Zero == -1

\* newSilenceDetector, NewImbalanceDetector
NewDebouncer == [start |-> Zero, recovery |-> Zero, active |-> FALSE, seq |-> 0]

\* One tick of the clock. Ages beyond what a comparison tells apart stay equal.
Older(d) ==
  [d EXCEPT !.start = IF @ = Zero \/ @ = Duration THEN @ ELSE @ + 1,
            !.recovery = IF @ = Zero \/ @ = Recovery + Gap THEN @ ELSE @ + 1]

\* incidentSeq: the next number; the wrap to 1 is 2^32 incidents away.
NextSeq(n) == n + 1

\* The part of update for a condition that holds.
Holds(d) ==
  LET fresh == d.start = Zero
      begun == [d EXCEPT !.recovery = Zero, !.start = IF fresh THEN 0 ELSE @,
                         !.seq = IF fresh THEN NextSeq(@) ELSE @]
      enters == ~d.active /\ begun.start >= Duration
  IN [d |-> [begun EXCEPT !.active = @ \/ enters], id |-> begun.seq,
      justEntered |-> enters, justRecovered |-> FALSE, took |-> 0]

\* The part of update for a condition that does not hold.
Gone(d) ==
  LET waited == IF d.recovery = Zero THEN 0 ELSE d.recovery
      over   == d.active /\ waited >= Recovery
  IN [d |-> IF over \/ ~d.active
            THEN [d EXCEPT !.start = Zero, !.active = FALSE,
                           !.recovery = IF over THEN Zero ELSE @]
            ELSE [d EXCEPT !.recovery = waited],
      id |-> IF d.active THEN d.seq ELSE 0,
      justEntered |-> FALSE, justRecovered |-> over, took |-> waited]

\* A threshold edit restarts the timers, but not a confirmed incident.
RestartTimers(d) ==
  [d EXCEPT !.start = IF d.active THEN @ ELSE Zero, !.recovery = Zero]

\* Update of a detector: restartTimers if its thresholds were edited, then update.
Update(d, holds, edited) ==
  LET e == IF edited THEN RestartTimers(d) ELSE d
  IN IF holds THEN Holds(e) ELSE Gone(e)

\* Mutated form of ResetDetector: the sequence does not survive.
ResetForgets(d) == NewDebouncer

\* The incident number survives a reset.
ResetDetector(d) == [NewDebouncer EXCEPT !.seq = d.seq]
===============================================================================
