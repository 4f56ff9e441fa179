--------------------------------- MODULE Dante ---------------------------------
(***************************************************************************)
(* The Dante receiver (internal/dante/receiver.go, media.go): one          *)
(* goroutine turns media packets, which the network delays, repeats,       *)
(* reorders and loses, into a continuous PCM stream for a pipe.  A packet  *)
(* that is missing is waited for, and then replaced by silence.  Packets   *)
(* of a flow have one length, which is the unit of positions here; times   *)
(* are ages that a tick advances.                                          *)
(***************************************************************************)
EXTENDS Naturals, Sequences, FiniteSets, FiniteSetsExt

CONSTANTS
  GapWait,   \* a gap is given up after this long
  Timeout,   \* reception ends this long after the last valid packet
  MaxGap,    \* a longer gap ends reception
  Batch,     \* size of the output buffer
  MaxPos     \* bound: positions

VARIABLES
  pc,        \* run: "turn", "read", "flush", "drain", "close", "stop" or "done"
  proc,      \* mediaProcessor: whether it has started, expected, pending ages
  quiet,     \* age of lastValid
  buf,       \* bufferedOutput
  got,       \* what the reader has read
  pipe,      \* "open", "eof" or "error"
  cancelled, interrupt,  \* the context; its AfterFunc: "armed", "ran" or "stopped"
  err,       \* the error run ends with, or none
  reader,    \* "reads", "away", or how its pipe ended
  closing,   \* Close was called and has not returned
  start,     \* history: position of the first packet
  accepted   \* history: packets that were taken

vars == <<pc, proc, quiet, buf, got, pipe, cancelled, interrupt, err, reader, closing, start, accepted>>

Silence == 0
Positions == 1..MaxPos

Ages(p) == {p.pending[x] : x \in DOMAIN p.pending}

Without(pending, ps) == [x \in DOMAIN pending \ ps |-> pending[x]]

\* The age that decides whether a gap is given up: that of the oldest pending packet.
GapAge(p) == Max(Ages(p))

\* Where output goes on after a gap: at the first pending packet.
NextFirst(p) == Min(DOMAIN p.pending)

\* advance: [p] is the processor, [out] what it appends, [ok] unless the gap is too
\* long.  One round of it takes the expected packet or ends a gap; after the last
\* one a round changes nothing.
Round(s) ==
  LET p == s.p
      q == [p EXCEPT !.pending = Without(@, {x \in DOMAIN @ : x < p.expected})]
      missing == NextFirst(q) - q.expected
  IN IF p.expected \in DOMAIN p.pending
     THEN [s EXCEPT !.out = Append(@, p.expected),
                    !.p.pending = Without(@, {p.expected}), !.p.expected = @ + 1]
     ELSE IF q.pending = <<>> \/ GapAge(q) < GapWait THEN [s EXCEPT !.p = q]
     ELSE IF missing > MaxGap THEN [s EXCEPT !.p = q, !.ok = FALSE]
     ELSE [s EXCEPT !.out = @ \o [i \in 1..missing |-> Silence], !.p = [q EXCEPT !.expected = NextFirst(q)]]

\* Each pending packet takes a round, and one more if there is a gap before it.
Advanced(s) ==
  LET rounds == 2 * Cardinality(DOMAIN s.p.pending) + 1
      after[n \in 0..rounds] == IF n = 0 THEN s ELSE Round(after[n - 1])
  IN after[rounds]

\* The processor advances and its output is buffered; a full buffer has to be read
\* before the loop goes on.
Advance(p, next) ==
  LET s == Advanced([p |-> p, out |-> <<>>, ok |-> TRUE])
  IN /\ proc' = s.p /\ buf' = buf \o s.out
     /\ pc' = IF ~s.ok THEN "drain" ELSE IF Len(buf') >= Batch THEN "flush" ELSE next
     /\ err' = IF s.ok THEN err ELSE "gap"

-------------------------------------------------------------------------------
(* run and receiveMedia                                                    *)

\* A pass of the loop up to its read: the context, the media timeout, the gap.
Turn ==
  /\ pc = "turn"
  /\ CASE cancelled -> pc' = "drain" /\ UNCHANGED <<proc, buf, err>>
       [] ~cancelled /\ quiet >= Timeout -> pc' = "drain" /\ err' = "timeout" /\ UNCHANGED <<proc, buf>>
       [] OTHER -> Advance(proc, "read")
  /\ UNCHANGED <<quiet, got, pipe, cancelled, interrupt, reader, closing, start, accepted>>

\* A packet that is late or a repetition leaves lastValid as it is.
Takes(x) == ~proc.started \/ (x >= proc.expected /\ x \notin DOMAIN proc.pending)

Receive(x) ==
  /\ pc = "read" /\ interrupt # "ran"
  /\ start' = IF proc.started THEN start ELSE x
  /\ accepted' = IF Takes(x) THEN accepted \cup {x} ELSE accepted
  /\ quiet' = IF Takes(x) THEN 0 ELSE quiet
  /\ LET p == IF proc.started THEN proc ELSE [proc EXCEPT !.started = TRUE, !.expected = x]
     IN Advance(IF Takes(x) THEN [p EXCEPT !.pending = [y \in DOMAIN @ \cup {x} |-> IF y = x THEN 0 ELSE @[y]]]
                ELSE p, "turn")
  /\ UNCHANGED <<got, pipe, cancelled, interrupt, reader, closing>>

\* The read deadline passes; or reading, or a keepalive that blocks, fails.
NoPacket ==
  /\ pc = "read"
  /\ \/ pc' = "turn" /\ UNCHANGED err
     \/ pc' = "drain" /\ err' = "failed"
  /\ UNCHANGED <<proc, quiet, buf, got, pipe, cancelled, interrupt, reader, closing, start, accepted>>

\* The pipe hands the buffer to a reader that reads; closed, it fails the write.
Flushed ==
  \/ /\ pipe = "open" /\ reader = "reads"
     /\ got' = got \o buf /\ buf' = <<>> /\ UNCHANGED err
  \/ /\ pipe # "open"
     /\ err' = IF err = "none" THEN "failed" ELSE err
     /\ UNCHANGED <<got, buf>>

Flush ==
  /\ pc = "flush" /\ Flushed
  /\ pc' = IF pipe = "open" THEN "turn" ELSE "drain"
  /\ UNCHANGED <<proc, quiet, pipe, cancelled, interrupt, reader, closing, start, accepted>>

\* The end of reception: without a cancellation the buffer is still delivered.
MayCloseUnread == TRUE
MayClose       == cancelled \/ buf = <<>>

Drain ==
  /\ pc = "drain"
  /\ \/ MayClose /\ err' = (IF cancelled THEN "none" ELSE err) /\ pc' = "close" /\ UNCHANGED <<got, buf>>
     \/ ~MayClose /\ Flushed /\ pc' = "close"
  /\ UNCHANGED <<proc, quiet, pipe, cancelled, interrupt, reader, closing, start, accepted>>

\* stopInterrupt; the pipe is closed with the error, unless it was closed before.
ClosePipe ==
  /\ pc = "close" /\ pc' = "stop"
  /\ interrupt' = IF interrupt = "armed" THEN "stopped" ELSE interrupt
  /\ pipe' = IF pipe # "open" THEN pipe ELSE IF err = "none" THEN "eof" ELSE "error"
  /\ UNCHANGED <<proc, quiet, buf, got, cancelled, err, reader, closing, start, accepted>>

\* The stop request is answered, or not within a second.
StopFlow ==
  /\ pc = "stop" /\ pc' = "done" /\ cancelled' = TRUE
  /\ UNCHANGED <<proc, quiet, buf, got, pipe, interrupt, err, reader, closing, start, accepted>>

\* interrupt: the AfterFunc of the context.
ClosedBoth(p) == IF p = "open" THEN "eof" ELSE p

Interrupt ==
  /\ cancelled /\ interrupt = "armed" /\ interrupt' = "ran"
  /\ pipe' = ClosedBoth(pipe)
  /\ UNCHANGED <<pc, proc, quiet, buf, got, cancelled, err, reader, closing, start, accepted>>

-------------------------------------------------------------------------------
(* The capture                                                             *)

\* The source context ends, with or without a call of Close.
Cancel ==
  /\ ~closing /\ pc # "done"
  /\ cancelled' = TRUE /\ closing' \in BOOLEAN
  /\ UNCHANGED <<pc, proc, quiet, buf, got, pipe, interrupt, err, reader, start, accepted>>

CloseReturns ==
  /\ closing /\ pc = "done" /\ closing' = FALSE
  /\ UNCHANGED <<pc, proc, quiet, buf, got, pipe, cancelled, interrupt, err, reader, start, accepted>>

\* The reader pauses, comes back, or sees the end of the pipe.
Reader ==
  /\ reader \in {"reads", "away"}
  /\ reader' \in {"reads", "away"} \cup ({pipe} \ {"open"})
  /\ UNCHANGED <<pc, proc, quiet, buf, got, pipe, cancelled, interrupt, err, closing, start, accepted>>

\* Time passes.  The read deadline wakes the loop, so no time passes in "turn".
Tick ==
  /\ pc \in {"read", "flush"}
  /\ pc' = IF pc = "read" THEN "turn" ELSE pc
  /\ quiet' = IF quiet < Timeout THEN quiet + 1 ELSE quiet
  /\ proc' = [proc EXCEPT !.pending = [x \in DOMAIN @ |-> IF @[x] < GapWait THEN @[x] + 1 ELSE @[x]]]
  /\ UNCHANGED <<buf, got, pipe, cancelled, interrupt, err, reader, closing, start, accepted>>

Init ==
  /\ pc = "turn" /\ proc = [started |-> FALSE, expected |-> 0, pending |-> <<>>] /\ quiet = 0
  /\ buf = <<>> /\ got = <<>> /\ pipe = "open" /\ cancelled = FALSE /\ interrupt = "armed" /\ err = "none"
  /\ reader = "reads" /\ closing = FALSE /\ start = 0 /\ accepted = {}

Run  == Turn \/ NoPacket \/ Flush \/ Drain \/ ClosePipe \/ StopFlow
Next == Run \/ (\E x \in Positions : Receive(x)) \/ Interrupt \/ Cancel \/ CloseReturns \/ Reader \/ Tick

Spec == Init /\ [][Next]_vars

\* The goroutine, the AfterFunc and a Close that may return are scheduled.  Nothing is
\* assumed of the network or the reader.
Fairness == WF_vars(Run) /\ WF_vars(Interrupt) /\ WF_vars(CloseReturns)

-------------------------------------------------------------------------------
(* Properties                                                              *)

\* advance: the output is gapless from the first packet on, and a packet that was
\* taken is in its place: never silence, never twice, whatever the network did.
Timeline ==
  LET out == got \o buf
  IN proc.started =>
       /\ Len(out) = proc.expected - start
       /\ \A i \in DOMAIN out :
            LET x == start + i - 1 IN out[i] = (IF x \in accepted THEN x ELSE Silence)

\* advance, receiveMedia: audio that has arrived waits no longer than GapWait for audio
\* that has not, however many later packets keep arriving.
GapGivenUp == pc = "read" => \A x \in DOMAIN proc.pending : proc.pending[x] < GapWait

\* run: a reader that sees reception fail has read all the audio before.
EndComplete == reader = "error" => buf = <<>>

\* Close, also while the goroutine is writing to a pipe that nobody reads.
CloseEnds == closing ~> ~closing
===============================================================================
