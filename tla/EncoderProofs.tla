----------------------------- MODULE EncoderProofs ----------------------------
(***************************************************************************)
(* Proofs about Encoder for any finite number of goroutines, of calls, of  *)
(* inputs, of edits and of faults, with a stream or without.  Everything   *)
(* follows from one inductive invariant, IInv: what the goroutines that    *)
(* run Start, Stop and restarts may be doing, and what the source loops    *)
(* may.  A step of a loop leaves the first part alone, a step of a call    *)
(* that starts no loop the second, and a step of a start of the stream     *)
(* both; that is how the proofs below are laid out.  The last section      *)
(* makes what CallerStreamProofs proves a property of MCEncoder.           *)
(***************************************************************************)
EXTENDS MCEncoder, FiniteSetTheorems, TLAPS

-------------------------------------------------------------------------------
(* The inductive invariant                                                 *)

\* Goroutines that may still start a source loop.
MayStart == {c \in Procs : call[c].runs = "restart" /\ call[c].pc # "end"}
\* Where a goroutine can be in its call: only restarts go through the gate, nobody
\* is in syncRecording before the end of a restart, and restarting says that the
\* background restart is under way.  No generation is ahead of the encoder's.
CallsShape ==
  /\ \A c \in Procs :
       /\ call[c].pc = "idle" <=> call[c].runs = "nothing"
       /\ call[c].pc \in {"gate", "stop", "stopDone", "start"} => call[c].runs = "restart"
       /\ call[c].pc = "idle" \/ (call[c].runs = "restart" /\ call[c].pc # "end") => call[c].sync = "no"
       /\ call[c].gen <= e.gen
  /\ call[Background].runs \in {"nothing", "restart"}
  /\ e.restarting <=> call[Background].pc # "idle"
  /\ e.restartAgain => e.restarting
  /\ e.restartAgainGen <= e.gen
  /\ e.gen <= calls
\* The starts that are under way, and the one a request collapsed into.
StartsLeft == Cardinality(MayStart)
AgainLeft  == IF e.restartAgain THEN 1 ELSE 0
\* Every start of the loop has used up a call or a saved input: what bounds the
\* number of stop channels.
StartsCounted ==
  /\ asked <= input /\ requests <= input
  /\ e.stopChan + StartsLeft + requests + AgainLeft <= calls + input
\* Only the loop of the last start may be under way; it is over when the encoder
\* says it is stopped, and has a source when it says it runs.
OneLoop ==
  /\ \A s \in Starts :
       /\ s > e.stopChan => loop[s].pc = "none"
       /\ s < e.stopChan => loop[s].pc = "done"
       /\ s = e.stopChan => loop[s].pc # "none"
  /\ e.state # "stopped" => e.stopChan \in Starts
  /\ e.state = "stopped" => \A s \in Starts : loop[s].pc \in {"none", "done"}
  /\ e.state = "running" => loop[e.stopChan].pc \in {"running", "restoring", "steady", "ended"}
\* A source that is published again has failed since: what bounds sourceRunID.
RunsCounted ==
  /\ e.sourceRunID <= e.stopChan + faults
  /\ ~IsStopping /\ loop[e.stopChan].pc \in {"top", "opening", "ended", "losing", "backoff"} => e.sourceRunID < e.stopChan + faults
\* After an explicit Stop the encoder is stopping or stopped, and every restart
\* that is under way or was collapsed expects an older generation.
StopHolds ==
  wish = "off" =>
    /\ IsStopping /\ e.operatorStopped
    /\ \A c \in Procs : call[c].runs = "restart" => call[c].gen # e.gen
    /\ e.restartAgain => e.restartAgainGen # e.gen
\* One goroutine at a time applies a wish, and the last wish is applied, is read
\* by the one who is applying, or is ahead of one who is still queued.
WishApplies ==
  /\ \A c, d \in Procs : call[c].sync \in {"on","off"} /\ call[d].sync \in {"on","off"} => c = d
  /\ \/ \E c \in Procs : call[c].sync = "queued"
     \/ \E c \in Procs : call[c].sync = (IF e.recordingWanted THEN "on" ELSE "off")
     \/ recording = e.recordingWanted /\ \A c \in Procs : call[c].sync = "no"
\* An outage that the loop opened or ended differs from the last event only while
\* the loop is about to report it.
OutageReported ==
  /\ \A s \in Starts : loop[s].pc = "losing" => e.inputLost /\ heard # "lost"
  /\ \A s \in Starts : loop[s].pc = "restoring" => ~e.inputLost /\ heard = "lost"
  /\ (\A s \in Starts : loop[s].pc \notin {"losing", "restoring"}) => (heard = "lost" <=> e.inputLost)
\* While a source with an input older than asked for is open, the encoder is being
\* stopped, or a restart of this generation has not come to its stop yet.
RestartComes ==
  (\E s \in Starts : loop[s].pc \in Open /\ loop[s].input < asked) =>
    \/ IsStopping \/ (e.restartAgain /\ e.restartAgainGen = e.gen)
    \/ \E c \in Procs : call[c].pc \in {"gate", "stop"} /\ call[c].gen = e.gen

CallsInv == CallsShape /\ StartsCounted /\ StopHolds /\ WishApplies /\ StreamsEnd
LoopInv == OneLoop /\ RunsCounted /\ OutageReported /\ RestartComes
IInv == TypeOK /\ CallsInv /\ LoopInv

-------------------------------------------------------------------------------
(* Steps of the source loop                                                *)

\* What a step of the loop leaves to the calls.
LoopFrame ==
  /\ UNCHANGED <<call, gate, recording, stream, input, requests, calls, edits, wish, asked>>
  /\ e' \in EncoderFields
  /\ e'.gen = e.gen /\ e'.operatorStopped = e.operatorStopped /\ e'.recordingWanted = e.recordingWanted
  /\ e'.stopChan = e.stopChan /\ e'.consumersStopped = e.consumersStopped /\ e'.restarting = e.restarting
  /\ e'.restartAgain = e.restartAgain /\ e'.restartAgainGen = e.restartAgainGen
  /\ IsStopping' <=> IsStopping

\* A step of a loop keeps what is known of the calls.
LEMMA LoopKeepsCalls == ASSUME IInv, LoopFrame PROVE CallsInv'
<1>1. CallsShape'
  BY DEF IInv, CallsInv, CallsShape, LoopFrame
<1>2. StartsCounted'
  BY DEF IInv, CallsInv, StartsCounted, LoopFrame, StartsLeft, AgainLeft, MayStart
<1>3. StopHolds'
  BY DEF IInv, CallsInv, StopHolds, LoopFrame
<1>4. WishApplies'
  BY DEF IInv, CallsInv, WishApplies, LoopFrame
<1>5. StreamsEnd'
  BY DEF IInv, CallsInv, StreamsEnd, LoopFrame
<1>. QED BY <1>1, <1>2, <1>3, <1>4, <1>5 DEF CallsInv

\* The loop that runs, and what the invariant says of it.
AtLoop(s) ==
  /\ s = e.stopChan
  /\ \A q \in Starts \ {s} : loop[q].pc \in {"none", "done"}
  /\ e.state # "stopped"
  /\ e.state = "running" => loop[s].pc \in {"running", "restoring", "steady", "ended"}
  /\ ~IsStopping /\ loop[s].pc \in {"top", "opening", "ended", "losing", "backoff"}
       => e.sourceRunID < e.stopChan + faults
  /\ loop[s].pc = "losing" => e.inputLost /\ heard # "lost"
  /\ loop[s].pc = "restoring" => ~e.inputLost /\ heard = "lost"
  /\ loop[s].pc \notin {"losing", "restoring"} => (heard = "lost" <=> e.inputLost)

\* A loop that is under way is that of the last start.
LEMMA CurrentLoop ==
  ASSUME IInv, NEW s \in Starts, loop[s].pc \notin {"none", "done"}
  PROVE  AtLoop(s)
<1>1. s = e.stopChan /\ e.state # "stopped" /\ \A q \in Starts \ {s} : loop[q].pc \in {"none", "done"}
  BY DEF IInv, LoopInv, OneLoop, TypeOK, Starts, EncoderFields
<1>. QED BY <1>1 DEF IInv, LoopInv, OneLoop, RunsCounted, OutageReported, AtLoop

\* A step that moves the loop from s.pc to pc.
Moves(s, pc) ==
  /\ loop' = [loop EXCEPT ![s].pc = pc] /\ LoopFrame
  /\ pc \in (Open \cup {"top", "ended", "losing", "backoff", "done"}) \ {"opening"}
  /\ starter' \subseteq StarterFields /\ faults' \in 0..MaxFaults /\ heard' \in {"none", "lost", "restored"}

\* The invariant survives when the loop goes to pc and e, heard and faults agree
\* with where it is then.
LEMMA LoopMoves ==
  ASSUME IInv, NEW s \in Starts, s = e.stopChan, \A q \in Starts \ {s} : loop[q].pc \in {"none", "done"},
         NEW pc, Moves(s, pc),
         e'.state # "stopped",
         e'.state = "running" => pc \in {"running", "restoring", "steady", "ended"},
         e'.sourceRunID <= e.stopChan + faults',
         ~IsStopping' /\ pc \in {"top", "ended", "losing", "backoff"} => e'.sourceRunID < e.stopChan + faults',
         pc = "losing" => e'.inputLost /\ heard' # "lost",
         pc = "restoring" => ~e'.inputLost /\ heard' = "lost",
         pc \notin {"losing", "restoring"} => (heard' = "lost" <=> e'.inputLost),
         pc \in Open => loop[s].pc \in Open
  PROVE  IInv'
<1>1. /\ loop' \in [Starts -> LoopFields]
      /\ loop'[s].pc = pc /\ loop'[s].input = loop[s].input /\ \A q \in Starts \ {s} : loop'[q] = loop[q]
  BY DEF Moves, IInv, TypeOK, LoopFields
<1>2. TypeOK'
  BY <1>1 DEF Moves, LoopFrame, IInv, TypeOK
<1>3. OneLoop'
  <2>1. e'.stopChan = s
    BY DEF Moves, LoopFrame
  <2>2. s \in Int /\ \A q \in Starts : q \in Int
    BY DEF Starts
  <2>3. pc # "none"
    BY DEF Moves, Open
  <2>4. \A q \in Starts \ {s} : (q > s => loop[q].pc = "none") /\ (q < s => loop[q].pc = "done")
    BY DEF IInv, LoopInv, OneLoop
  <2>. QED BY <1>1, <2>1, <2>2, <2>3, <2>4 DEF OneLoop
<1>4. RunsCounted'
  BY <1>1 DEF Moves, LoopFrame, RunsCounted, Open
<1>5. OutageReported'
  BY <1>1 DEF OutageReported
<1>6. RestartComes'
  <2>1. \A q \in Starts : loop'[q].pc \in Open /\ loop'[q].input < asked
                            => loop[q].pc \in Open /\ loop[q].input < asked
    BY <1>1
  <2>2. /\ asked' = asked /\ call' = call /\ (IsStopping' <=> IsStopping)
        /\ e'.gen = e.gen /\ e'.restartAgain = e.restartAgain /\ e'.restartAgainGen = e.restartAgainGen
    BY DEF Moves, LoopFrame
  <2>. QED BY <2>1, <2>2 DEF IInv, LoopInv, RestartComes
<1>. QED BY <1>2, <1>3, <1>4, <1>5, <1>6, LoopKeepsCalls DEF IInv, LoopInv, Moves

\* A source is opened for the input of now, which is as new as any asked for.
LEMMA OpensSourceInv == ASSUME IInv, NEW s \in Starts, OpensSource(s) PROVE IInv'
<1>1. AtLoop(s) /\ LoopFrame
  BY CurrentLoop DEF OpensSource, LoopFrame, IsStopping, Goto, streams, api, IInv, TypeOK
<1>2. UNCHANGED <<e, starter, faults, heard>>
  BY DEF OpensSource, streams, api
<1>3. CASE IsStopping
  <2>1. Moves(s, "done")
    BY <1>1, <1>2, <1>3 DEF OpensSource, Goto, Moves, IInv, TypeOK
  <2>. QED BY <1>1, <1>2, <1>3, <2>1, LoopMoves DEF AtLoop, OpensSource, IInv, LoopInv, RunsCounted, IsStopping, Open
<1>4. CASE ~IsStopping
  <2>1. loop' = [loop EXCEPT ![s] = [pc |-> "opening", input |-> input]]
    BY <1>4 DEF OpensSource
  <2>2. loop'[s] = [pc |-> "opening", input |-> input] /\ \A q \in Starts \ {s} : loop'[q] = loop[q]
    BY <2>1 DEF IInv, TypeOK
  <2>3. TypeOK'
    BY <1>1, <1>2, <2>1 DEF LoopFrame, IInv, TypeOK, LoopFields, Open
  <2>4. OneLoop'
    BY <1>1, <1>2, <1>4, <2>2 DEF AtLoop, IInv, LoopInv, OneLoop, OpensSource
  <2>5. RunsCounted'
    BY <1>1, <1>2, <1>4, <2>2 DEF AtLoop, OpensSource, IInv, LoopInv, RunsCounted
  <2>6. OutageReported'
    BY <1>1, <1>2, <2>2 DEF AtLoop, OpensSource, OutageReported
  <2>7. RestartComes'
    <3>1. ~(input < asked)
      BY DEF IInv, CallsInv, StartsCounted, TypeOK, Inputs
    <3>. QED BY <1>1, <1>2, <2>2, <3>1 DEF LoopFrame, IInv, LoopInv, RestartComes
  <2>. QED BY <1>1, <2>3, <2>4, <2>5, <2>6, <2>7, LoopKeepsCalls DEF IInv, LoopInv
<1>. QED BY <1>3, <1>4

\* openSource fails.
LEMMA OpenFailsInv == ASSUME IInv, NEW s \in Starts, OpenFails(s) PROVE IInv'
<1>1. AtLoop(s) /\ UNCHANGED <<e, faults, heard>>
  BY CurrentLoop DEF OpenFails, api
<1>2. Moves(s, "ended")
  BY DEF OpenFails, Moves, LoopFrame, IsStopping, Goto, streams, api, IInv, TypeOK
<1>. QED BY <1>1, <1>2, LoopMoves DEF AtLoop, OpenFails, IInv, LoopInv, RunsCounted, IsStopping, Open

\* publishSource: the encoder runs, with one more run.
LEMMA PublishSourceInv == ASSUME IInv, NEW s \in Starts, PublishSource(s) PROVE IInv'
<1>1. AtLoop(s) /\ UNCHANGED <<faults, heard>>
  BY CurrentLoop DEF PublishSource, api
<1>2. CASE IsStopping
  <2>1. Moves(s, "ended") /\ UNCHANGED e
    BY <1>2 DEF PublishSource, Moves, LoopFrame, IsStopping, Goto, api, IInv, TypeOK
  <2>. QED BY <1>1, <1>2, <2>1, LoopMoves DEF AtLoop, PublishSource, IInv, LoopInv, RunsCounted, IsStopping, Open
<1>3. CASE ~IsStopping
  <2>1. e' = [e EXCEPT !.sourceRunID = @ + 1, !.sourceStdout = TRUE, !.state = "running"]
    BY <1>3 DEF PublishSource
  <2>2. e.sourceRunID < e.stopChan + faults
    BY <1>1, <1>3 DEF AtLoop, PublishSource
  <2>3. e.sourceRunID + 1 \in Runs
    BY <2>2, EncoderAssumption DEF IInv, TypeOK, EncoderFields, Starts, Runs
  <2>4. LoopFrame
    BY <1>3, <2>1, <2>3 DEF PublishSource, LoopFrame, IsStopping, api, IInv, TypeOK, EncoderFields
  <2>5. DelayedStart \subseteq StarterFields
    BY <2>3, EncoderAssumption DEF DelayedStart, StarterFields, IInv, TypeOK, EncoderFields
  <2>6. Moves(s, "running")
    BY <1>3, <2>4, <2>5 DEF PublishSource, Goto, Moves, api, IInv, TypeOK, Open
  <2>7. e'.sourceRunID = e.sourceRunID + 1 /\ e'.state = "running" /\ e'.inputLost = e.inputLost
    BY <2>1 DEF IInv, TypeOK, EncoderFields
  <2>8. e'.sourceRunID <= e.stopChan + faults
    BY <2>2, <2>7 DEF IInv, TypeOK, EncoderFields, Starts, Runs
  <2>. QED BY <1>1, <1>3, <2>6, <2>7, <2>8, LoopMoves DEF AtLoop, PublishSource, Open
<1>. QED BY <1>2, <1>3

\* confirmInput: an outage that ends is about to be reported.
LEMMA ConfirmInputInv == ASSUME IInv, NEW s \in Starts, ConfirmInput(s) PROVE IInv'
<1>1. AtLoop(s) /\ UNCHANGED <<faults, heard, starter>>
  BY CurrentLoop DEF ConfirmInput, api, streams
<1>2. CASE e.state # "running"
  <2>1. Moves(s, "steady") /\ UNCHANGED e
    BY <1>2 DEF ConfirmInput, Moves, LoopFrame, IsStopping, Goto, api, streams, IInv, TypeOK, Open
  <2>. QED BY <1>1, <1>2, <2>1, LoopMoves DEF AtLoop, ConfirmInput, IInv, LoopInv, RunsCounted, IsStopping, Open
<1>3. CASE e.state = "running"
  <2>1. e' = [e EXCEPT !.inputLost = FALSE]
    BY <1>3 DEF ConfirmInput
  <2>2. LoopFrame
    BY <1>3, <2>1 DEF ConfirmInput, LoopFrame, IsStopping, api, streams, IInv, TypeOK, EncoderFields
  <2>3. Moves(s, IF e.inputLost THEN "restoring" ELSE "steady")
    BY <1>1, <1>3, <2>2 DEF ConfirmInput, Goto, Moves, IInv, TypeOK, Open
  <2>4. e'.sourceRunID = e.sourceRunID /\ e'.state = "running" /\ e'.inputLost = FALSE
    BY <1>3, <2>1 DEF IInv, TypeOK, EncoderFields
  <2>. QED BY <1>1, <1>3, <2>3, <2>4, LoopMoves DEF AtLoop, ConfirmInput, IInv, LoopInv, RunsCounted, Open
<1>. QED BY <1>2, <1>3

\* input_restored is reported.
LEMMA ReportRestoredInv == ASSUME IInv, NEW s \in Starts, ReportRestored(s) PROVE IInv'
<1>1. AtLoop(s) /\ UNCHANGED <<e, faults>> /\ heard' = "restored"
  BY CurrentLoop DEF ReportRestored, api
<1>2. Moves(s, "steady")
  BY DEF ReportRestored, Moves, LoopFrame, IsStopping, Goto, streams, api, IInv, TypeOK, Open
<1>. QED BY <1>1, <1>2, LoopMoves DEF AtLoop, ReportRestored, IInv, LoopInv, RunsCounted, IsStopping, Open

\* A source ends, cancelled or by itself.
LEMMA SourceEndsInv ==
  ASSUME IInv, NEW s \in Starts, NEW cancelled \in BOOLEAN, SourceEnds(s, cancelled) PROVE IInv'
<1>1. AtLoop(s) /\ UNCHANGED <<heard, starter>> /\ loop[s].pc \in {"running", "steady"}
  BY CurrentLoop DEF SourceEnds, streams
<1>2. e' = [e EXCEPT !.sourceStdout = FALSE]
  BY DEF SourceEnds
<1>3. /\ e'.sourceRunID = e.sourceRunID /\ e'.state = e.state /\ e'.inputLost = e.inputLost
      /\ (IsStopping' <=> IsStopping)
  BY <1>2 DEF IInv, TypeOK, EncoderFields, IsStopping
<1>4. LoopFrame
  BY <1>2, <1>3 DEF SourceEnds, LoopFrame, streams, IInv, TypeOK, EncoderFields
<1>5. faults' \in 0..MaxFaults /\ (faults' = faults + 1 \/ (IsStopping /\ faults' = faults))
  BY EncoderAssumption DEF SourceEnds, IInv, TypeOK
<1>6. Moves(s, "ended")
  BY <1>1, <1>4, <1>5 DEF SourceEnds, Goto, Moves, IInv, TypeOK
<1>7. e.sourceRunID <= e.stopChan + faults /\ e.sourceRunID \in Int /\ e.stopChan \in Int /\ faults \in Int
  BY DEF IInv, LoopInv, RunsCounted, TypeOK, EncoderFields, Runs, Starts
<1>8. /\ e'.sourceRunID <= e.stopChan + faults'
      /\ ~IsStopping' => e'.sourceRunID < e.stopChan + faults'
  BY <1>3, <1>5, <1>7
<1>. QED BY <1>1, <1>3, <1>6, <1>8, LoopMoves DEF AtLoop, Open

\* The loop sees its source gone; an outage that opens is about to be reported.
LEMMA SourceFailedInv == ASSUME IInv, NEW s \in Starts, SourceFailed(s) PROVE IInv'
<1>1. AtLoop(s) /\ UNCHANGED <<faults, heard, starter>>
  BY CurrentLoop DEF SourceFailed, api, streams
<1>2. CASE IsStopping
  <2>1. Moves(s, "done") /\ UNCHANGED e
    BY <1>2 DEF SourceFailed, Moves, LoopFrame, IsStopping, Goto, api, streams, IInv, TypeOK
  <2>. QED BY <1>1, <1>2, <2>1, LoopMoves DEF AtLoop, SourceFailed, IInv, LoopInv, RunsCounted, IsStopping, Open
<1>3. CASE ~IsStopping
  <2>1. e' = [e EXCEPT !.inputLost = TRUE, !.state = "starting"]
    BY <1>3 DEF SourceFailed
  <2>2. LoopFrame
    BY <1>3, <2>1 DEF SourceFailed, LoopFrame, IsStopping, api, streams, IInv, TypeOK, EncoderFields
  <2>3. Moves(s, IF e.inputLost THEN "backoff" ELSE "losing")
    BY <1>1, <1>3, <2>2 DEF SourceFailed, Goto, Moves, IInv, TypeOK, Open
  <2>4. e'.sourceRunID = e.sourceRunID /\ e'.state = "starting" /\ e'.inputLost = TRUE
    BY <2>1 DEF IInv, TypeOK, EncoderFields
  <2>. QED BY <1>1, <1>3, <2>3, <2>4, LoopMoves DEF AtLoop, SourceFailed, IInv, LoopInv, RunsCounted, Open
<1>. QED BY <1>2, <1>3

\* input_lost is reported.
LEMMA ReportLostInv == ASSUME IInv, NEW s \in Starts, ReportLost(s) PROVE IInv'
<1>1. AtLoop(s) /\ UNCHANGED <<e, faults>> /\ heard' = "lost"
  BY CurrentLoop DEF ReportLost, api
<1>2. Moves(s, "backoff")
  BY DEF ReportLost, Moves, LoopFrame, IsStopping, Goto, streams, api, IInv, TypeOK
<1>. QED BY <1>1, <1>2, LoopMoves DEF AtLoop, ReportLost, IInv, LoopInv, RunsCounted, IsStopping, Open

\* The loop waits, and gives up once its stop channel is closed.
LEMMA BackoffEndsInv == ASSUME IInv, NEW s \in Starts, BackoffEnds(s) PROVE IInv'
<1>1. AtLoop(s) /\ UNCHANGED <<e, faults, heard>>
  BY CurrentLoop DEF BackoffEnds, api
<1>2. Moves(s, "top") \/ (Closed(s) /\ Moves(s, "done"))
  BY DEF BackoffEnds, Moves, LoopFrame, IsStopping, Goto, streams, api, IInv, TypeOK
<1>3. Closed(s) => IsStopping
  BY <1>1 DEF Closed, AtLoop
<1>. QED BY <1>1, <1>2, <1>3, LoopMoves DEF AtLoop, BackoffEnds, IInv, LoopInv, RunsCounted, IsStopping, Open

-------------------------------------------------------------------------------
(* Steps of the stream's starts                                            *)

\* What a start of the stream leaves alone; none brings it up in a run that is
\* being stopped.
StarterFrame ==
  /\ UNCHANGED <<e, loop, call, gate, recording, input, requests, calls, faults, wish, asked, heard>>
  /\ starter' \subseteq StarterFields /\ edits' \in 0..MaxEdits /\ stream' \in BOOLEAN
  /\ IsStopping /\ stream' => stream

\* Such a step preserves the invariant.
LEMMA StarterKeeps == ASSUME IInv, StarterFrame PROVE IInv'
<1>1. TypeOK'
  BY DEF StarterFrame, IInv, TypeOK
<1>2. LoopInv'
  BY DEF StarterFrame, IInv, LoopInv, OneLoop, RunsCounted, OutageReported, RestartComes, IsStopping
<1>3. CallsInv'
  BY DEF StarterFrame, IInv, CallsInv, CallsShape, StartsCounted, StartsLeft, AgainLeft, MayStart, StopHolds, WishApplies, StreamsEnd, IsStopping
<1>. QED BY <1>1, <1>2, <1>3 DEF IInv

\* The API starts or edits the stream.
LEMMA StreamEditsInv == ASSUME IInv, StartStream \/ RestartStream PROVE IInv'
<1>1. edits' \in 0..MaxEdits
  BY EncoderAssumption DEF StartStream, RestartStream, Edited, IInv, TypeOK
<1>2. StarterFrame
  BY <1>1, EncoderAssumption DEF StartStream, RestartStream, Edited, StarterFrame, StarterFields, IInv, TypeOK, EncoderFields, Runs
<1>. QED BY <1>2, StarterKeeps

\* Steps of the starts of the stream.
LEMMA StarterStepInv == ASSUME IInv, NEW x \in starter, StarterStep(x) PROVE IInv'
<1>1. x \in StarterFields /\ e \in EncoderFields
  BY DEF IInv, TypeOK
<1>2. \A n \in {"bind", "delay", "claim"} : [x EXCEPT !.pc = n] \in StarterFields
  BY <1>1 DEF StarterFields
<1>3. [x EXCEPT !.pc = "delay", !.run = e.sourceRunID, !.chan = e.stopChan] \in StarterFields
  BY <1>1 DEF StarterFields, EncoderFields
<1>4. [x EXCEPT !.pc = "claim", !.chan = e.stopChan] \in StarterFields
  BY <1>1 DEF StarterFields, EncoderFields
<1>5. StarterFrame
  <2>1. CASE StopStream(x)
    BY <2>1, <1>2 DEF StopStream, Becomes, StarterFrame, IInv, TypeOK, api
  <2>2. CASE BindRestart(x)
    BY <2>2, <1>3 DEF BindRestart, Becomes, StarterFrame, IInv, TypeOK, api
  <2>3. CASE DelayEnds(x)
    BY <2>3, <1>4 DEF DelayEnds, Becomes, StarterFrame, IInv, TypeOK, api
  <2>4. CASE ClaimStream(x)
    BY <2>4 DEF ClaimStream, ConsumerStartAllowed, StarterFrame, IInv, TypeOK, api, IsStopping
  <2>. QED BY <2>1, <2>2, <2>3, <2>4 DEF StarterStep
<1>. QED BY <1>5, StarterKeeps

-------------------------------------------------------------------------------
(* Steps of the calls                                                      *)

\* There are finitely many goroutines.
LEMMA MayStartFinite == IsFiniteSet(Procs) /\ IsFiniteSet(MayStart) /\ Cardinality(MayStart) \in Nat
<1>1. IsFiniteSet(Procs)
  BY EncoderAssumption, FS_AddElement DEF Procs
<1>2. MayStart \subseteq Procs
  BY DEF MayStart
<1>. QED BY <1>1, <1>2, FS_Subset, FS_CardinalityType

\* The counters are numbers, and what StartsCounted says of them.
LEMMA Counts ==
  ASSUME IInv
  PROVE  /\ StartsLeft \in Nat /\ AgainLeft \in {0, 1} /\ e.stopChan \in Nat /\ requests \in Nat
         /\ calls \in Nat /\ input \in Nat /\ asked \in Nat /\ e.gen \in Nat /\ e.restartAgainGen \in Nat
         /\ asked <= input /\ requests <= input /\ input <= MaxInput /\ calls <= MaxCalls
         /\ e.stopChan + StartsLeft + requests + AgainLeft <= calls + input
BY MayStartFinite DEF IInv, CallsInv, StartsCounted, StartsLeft, AgainLeft, TypeOK, EncoderFields, Starts, Inputs

\* One goroutine more or less that may start the loop.
LEMMA OneMoreOrLess ==
  ASSUME NEW c
  PROVE  /\ MayStart' \subseteq MayStart => StartsLeft' \in Nat /\ StartsLeft' <= StartsLeft
         /\ MayStart' \subseteq MayStart \cup {c} => StartsLeft' \in Nat /\ StartsLeft' <= StartsLeft + 1
         /\ MayStart' \subseteq MayStart \ {c} /\ c \in MayStart
              => StartsLeft' \in Nat /\ StartsLeft' + 1 <= StartsLeft
<1>1. IsFiniteSet(MayStart) /\ StartsLeft \in Nat
  BY MayStartFinite DEF StartsLeft
<1>2. ASSUME NEW T, T \subseteq MayStart PROVE Cardinality(T) \in Nat /\ Cardinality(T) <= StartsLeft
  BY <1>1, <1>2, FS_Subset, FS_CardinalityType DEF StartsLeft
<1>3. ASSUME NEW T, T \subseteq MayStart \cup {c} PROVE Cardinality(T) \in Nat /\ Cardinality(T) <= StartsLeft + 1
  <2>1. IsFiniteSet(MayStart \cup {c}) /\ Cardinality(MayStart \cup {c}) \in {StartsLeft, StartsLeft + 1}
    BY <1>1, FS_AddElement DEF StartsLeft
  <2>2. IsFiniteSet(T) /\ Cardinality(T) <= Cardinality(MayStart \cup {c})
    BY <1>3, <2>1, FS_Subset
  <2>. QED BY <1>1, <2>1, <2>2, FS_CardinalityType
<1>4. ASSUME NEW T, T \subseteq MayStart \ {c}, c \in MayStart
      PROVE  Cardinality(T) \in Nat /\ Cardinality(T) + 1 <= StartsLeft
  <2>1. IsFiniteSet(MayStart \ {c}) /\ Cardinality(MayStart \ {c}) = StartsLeft - 1
    BY <1>1, <1>4, FS_RemoveElement DEF StartsLeft
  <2>2. IsFiniteSet(T) /\ Cardinality(T) <= Cardinality(MayStart \ {c})
    BY <1>4, <2>1, FS_Subset
  <2>. QED BY <1>1, <2>1, <2>2, FS_CardinalityType
<1>5. StartsLeft' = Cardinality(MayStart')
  BY DEF StartsLeft
<1>. QED BY <1>2, <1>3, <1>4, <1>5

\* What a step of a call that starts no loop leaves to the loops.
CallFrame ==
  /\ UNCHANGED <<loop, faults, edits, heard, starter>>
  /\ e' \in EncoderFields
  /\ e'.stopChan = e.stopChan /\ e'.sourceRunID = e.sourceRunID /\ e'.inputLost = e.inputLost
  /\ IsStopping => IsStopping'
  /\ e.state = "stopped" => e'.state = "stopped"
  /\ e'.state = "stopped" => e.state = "stopped" \/ loop[e.stopChan].pc = "done"
  /\ e'.state = "running" => e.state = "running"

\* A step of a call that starts no loop keeps what is known of the loops.
LEMMA CallKeepsLoop == ASSUME IInv, CallFrame PROVE OneLoop' /\ RunsCounted' /\ OutageReported'
<1>1. OneLoop'
  <2>1. e'.state = "stopped" => \A s \in Starts : loop[s].pc \in {"none", "done"}
    <3>1. SUFFICES ASSUME e'.state = "stopped", e.state # "stopped", NEW s \in Starts
                   PROVE  loop[s].pc \in {"none", "done"}
      BY DEF IInv, LoopInv, OneLoop
    <3>2. loop[e.stopChan].pc = "done" /\ e.stopChan \in Starts
      BY <3>1 DEF CallFrame, IInv, LoopInv, OneLoop
    <3>. QED BY <3>2 DEF IInv, LoopInv, OneLoop, Starts
  <2>. QED BY <2>1 DEF CallFrame, IInv, LoopInv, OneLoop
<1>2. RunsCounted'
  BY DEF CallFrame, IInv, LoopInv, RunsCounted
<1>3. OutageReported'
  BY DEF CallFrame, IInv, LoopInv, OutageReported
<1>. QED BY <1>1, <1>2, <1>3

\* start makes a loop when there is none.
LEMMA StartedLoop ==
  ASSUME IInv, e.state = "stopped", Started, e.stopChan + 1 \in Starts, UNCHANGED <<faults, heard>>
  PROVE  /\ OneLoop' /\ RunsCounted' /\ OutageReported' /\ RestartComes'
         /\ e' \in EncoderFields /\ loop' \in [Starts -> LoopFields]
         /\ e'.stopChan = e.stopChan + 1
<1>1. e' \in EncoderFields
  BY DEF Started, IInv, TypeOK, EncoderFields
<1>2. /\ e'.stopChan = e.stopChan + 1 /\ e'.sourceRunID = e.sourceRunID /\ e'.inputLost = e.inputLost
      /\ e'.state = "starting"
  BY DEF Started, IInv, TypeOK, EncoderFields
<1>3. loop' \in [Starts -> LoopFields] /\ loop'[e.stopChan + 1].pc = "top"
  BY DEF Started, IInv, TypeOK, LoopFields
<1>4. \A s \in Starts : s # e.stopChan + 1 => loop'[s] = loop[s] /\ loop[s].pc \in {"none", "done"}
  BY DEF Started, IInv, TypeOK, LoopInv, OneLoop
<1>5. OneLoop'
  <2>1. e.stopChan \in Int /\ \A s \in Starts : s \in Int
    BY DEF IInv, TypeOK, EncoderFields, Starts
  <2>2. \A s \in Starts : (s > e.stopChan => loop[s].pc = "none") /\ (s <= e.stopChan => loop[s].pc = "done")
    BY <1>4, <2>1 DEF IInv, LoopInv, OneLoop
  <2>. QED BY <1>2, <1>3, <1>4, <2>1, <2>2 DEF OneLoop
<1>6. RunsCounted'
  BY <1>2 DEF IInv, LoopInv, RunsCounted, TypeOK, EncoderFields, Runs, Starts
<1>7. OutageReported'
  <2>1. heard = "lost" <=> e.inputLost
    BY DEF IInv, LoopInv, OneLoop, OutageReported
  <2>. QED BY <1>2, <1>3, <1>4, <2>1 DEF OutageReported
<1>8. RestartComes'
  BY <1>3, <1>4 DEF RestartComes, Open
<1>. QED BY <1>1, <1>2, <1>3, <1>5, <1>6, <1>7, <1>8

\* Goroutine c goes on as k; the others stay where they are.
Becoming(c, k) ==
  /\ call' \in [Procs -> CallFields]
  /\ call'[c] = k /\ \A d \in Procs \ {c} : call'[d] = call[d]

\* One goroutine's step, in terms of where everyone is then.
LEMMA CallBecomes ==
  ASSUME IInv, NEW c \in Procs, NEW k \in CallFields, call' = [call EXCEPT ![c] = k]
  PROVE  Becoming(c, k)
BY DEF IInv, TypeOK, Becoming

\* A queued syncRecording will see the wish.
LEMMA WishQueued ==
  ASSUME IInv, NEW c \in Procs, NEW k, k.sync = "queued", Becoming(c, k)
  PROVE  WishApplies'
BY DEF IInv, CallsInv, WishApplies, Becoming

\* A step that no syncRecording is part of leaves WishApplies as it was.
LEMMA WishStays ==
  ASSUME IInv, UNCHANGED recording, e'.recordingWanted = e.recordingWanted,
         \A d \in Procs : call'[d].sync = call[d].sync
  PROVE  WishApplies'
BY DEF IInv, CallsInv, WishApplies

\* The goroutine that an idle one becomes.
LEMMA FromIdle ==
  ASSUME NEW r, NEW p, NEW g, NEW y
  PROVE  /\ [Idle EXCEPT !.runs = r, !.pc = p, !.sync = y] \in [runs : {r}, pc : {p}, gen : {0}, sync : {y}]
         /\ [Idle EXCEPT !.runs = r, !.sync = y] \in [runs : {r}, pc : {"idle"}, gen : {0}, sync : {y}]
         /\ [Idle EXCEPT !.runs = r, !.pc = p, !.gen = g] \in [runs : {r}, pc : {p}, gen : {g}, sync : {"no"}]
<1>1. [Idle EXCEPT !.runs = r, !.pc = p, !.sync = y] \in [runs : {r}, pc : {p}, gen : {0}, sync : {y}]
  BY DEF Idle
<1>2. [Idle EXCEPT !.runs = r, !.sync = y] \in [runs : {r}, pc : {"idle"}, gen : {0}, sync : {y}]
  BY DEF Idle
<1>3. [Idle EXCEPT !.runs = r, !.pc = p, !.gen = g] \in [runs : {r}, pc : {p}, gen : {g}, sync : {"no"}]
  BY DEF Idle
<1>. QED BY <1>1, <1>2, <1>3

\* Start: a new loop when there is none, or only operatorStopped cleared.
LEMMA StartInv == ASSUME IInv, NEW c \in Calls, Start(c) PROVE IInv'
<1> DEFINE k == [Idle EXCEPT !.runs = "start", !.pc = "end", !.sync = "queued"]
<1>1. c \in Procs /\ c # Background /\ call[c].pc = "idle"
  BY EncoderAssumption DEF Start, Procs
<1>2. k \in [runs : {"start"}, pc : {"end"}, gen : {0}, sync : {"queued"}]
  BY FromIdle
<1>3. call' = [call EXCEPT ![c] = k]
  BY DEF Start
<1> HIDE DEF k
<1>10. k \in CallFields
  BY <1>2, EncoderAssumption DEF CallFields
<1>4. Becoming(c, k)
  BY <1>1, <1>3, <1>10, CallBecomes
<1>5. /\ calls < MaxCalls /\ calls' = calls + 1 /\ calls' \in 0..MaxCalls /\ wish' = "on"
      /\ UNCHANGED <<edits, faults, gate, recording, stream, starter, input, requests, asked, heard>>
  BY EncoderAssumption DEF Start, Called, streams, IInv, TypeOK
<1>6. WishApplies'
  BY <1>1, <1>2, <1>4, WishQueued
<1>7. MayStart' \subseteq MayStart
  BY <1>1, <1>2, <1>4 DEF MayStart, Becoming
<1>8. StartsLeft' \in Nat /\ StartsLeft' <= StartsLeft
  BY <1>7, OneMoreOrLess
<1>9. StopHolds'
  BY <1>5 DEF StopHolds
<1>11. CASE CanStart /\ Started
  <2>1. e.stopChan + 1 \in Starts
    BY <1>5, Counts, EncoderAssumption DEF Starts
  <2>2. /\ OneLoop' /\ RunsCounted' /\ OutageReported' /\ RestartComes'
        /\ e' \in EncoderFields /\ loop' \in [Starts -> LoopFields] /\ e'.stopChan = e.stopChan + 1
    BY <1>11, <1>5, <2>1, StartedLoop DEF CanStart
  <2>3. /\ e'.gen = e.gen /\ e'.restarting = e.restarting /\ e'.restartAgain = e.restartAgain
        /\ e'.restartAgainGen = e.restartAgainGen /\ e'.state = "starting"
    BY <1>11 DEF Started, IInv, TypeOK, EncoderFields
  <2>4. TypeOK'
    BY <1>4, <1>5, <2>2 DEF IInv, TypeOK, Becoming
  <2>5. CallsShape'
    BY <1>1, <1>2, <1>4, <1>5, <2>3 DEF IInv, CallsInv, CallsShape, Becoming, TypeOK, EncoderFields, Procs
  <2>6. StartsCounted'
    BY <1>5, <1>8, <2>2, <2>3, Counts DEF StartsCounted, AgainLeft
  <2>7. StreamsEnd'
    BY <2>3 DEF StreamsEnd, IsStopping
  <2>. QED BY <1>6, <1>9, <2>2, <2>4, <2>5, <2>6, <2>7 DEF IInv, CallsInv, LoopInv
<1>12. CASE e' = [e EXCEPT !.operatorStopped = FALSE] /\ UNCHANGED loop
  <2>1. e' \in EncoderFields
    BY <1>12 DEF IInv, TypeOK, EncoderFields
  <2>2. /\ e'.gen = e.gen /\ e'.restarting = e.restarting /\ e'.restartAgain = e.restartAgain
        /\ e'.restartAgainGen = e.restartAgainGen /\ e'.state = e.state /\ e'.stopChan = e.stopChan
        /\ e'.sourceRunID = e.sourceRunID /\ e'.inputLost = e.inputLost /\ e'.consumersStopped = e.consumersStopped
    BY <1>12 DEF IInv, TypeOK, EncoderFields
  <2>3. OneLoop' /\ RunsCounted' /\ OutageReported'
    BY <1>12, <1>5, <2>1, <2>2, CallKeepsLoop DEF CallFrame, IsStopping
  <2>4. TypeOK'
    BY <1>12, <1>4, <1>5, <2>1 DEF IInv, TypeOK, Becoming
  <2>5. CallsShape'
    BY <1>1, <1>2, <1>4, <1>5, <2>2 DEF IInv, CallsInv, CallsShape, Becoming, TypeOK, EncoderFields, Procs
  <2>6. StartsCounted'
    BY <1>5, <1>8, <2>2, Counts DEF StartsCounted, AgainLeft
  <2>7. StreamsEnd'
    BY <1>5, <2>2 DEF StreamsEnd, IsStopping, IInv, CallsInv
  <2>8. RestartComes'
    BY <1>12, <1>1, <1>2, <1>4, <1>5, <2>2 DEF IInv, LoopInv, RestartComes, Becoming, IsStopping
  <2>. QED BY <1>6, <1>9, <2>3, <2>4, <2>5, <2>6, <2>7, <2>8 DEF IInv, CallsInv, LoopInv
<1>. QED BY <1>11, <1>12 DEF Start

\* A goroutine that goes on in its call, and starts no loop.
Goes(d) ==
  /\ call'[d].runs = call[d].runs /\ call'[d].gen = call[d].gen
  /\ call'[d].pc = "idle" <=> call[d].pc = "idle"
  /\ call'[d].pc \in {"gate", "stop", "stopDone", "start"} => call'[d].runs = "restart"
  /\ call'[d].pc = "idle" \/ (call'[d].runs = "restart" /\ call'[d].pc # "end") => call'[d].sync = "no"
  /\ call[d].pc = "end" => call'[d].pc = "end"
  /\ call[d].pc \in {"gate", "stop"} /\ call[d].gen = e.gen => call'[d].pc \in {"gate", "stop"} \/ IsStopping'

\* What the steps inside a call leave alone.
CallsFrame ==
  /\ call' \in [Procs -> CallFields] /\ CallFrame
  /\ UNCHANGED <<input, requests, calls, wish, asked>>
  /\ gate' \in Procs \cup {None} /\ recording' \in BOOLEAN /\ stream' \in BOOLEAN
  /\ e'.gen = e.gen /\ e'.operatorStopped = e.operatorStopped /\ e'.recordingWanted = e.recordingWanted
  /\ e'.restarting = e.restarting /\ e'.restartAgain = e.restartAgain /\ e'.restartAgainGen = e.restartAgainGen

\* A goroutine that does nothing goes on.
LEMMA StaysPut == ASSUME IInv, NEW d \in Procs, call'[d] = call[d] PROVE Goes(d)
BY DEF Goes, IInv, CallsInv, CallsShape

\* Steps inside calls preserve the invariant.
LEMMA CallsGo ==
  ASSUME IInv, CallsFrame, \A d \in Procs : Goes(d), WishApplies',
         IsStopping' /\ e'.consumersStopped => ~stream' \/ (IsStopping /\ e.consumersStopped /\ stream' = stream)
  PROVE  IInv'
<1>1. TypeOK'
  BY DEF CallsFrame, CallFrame, IInv, TypeOK
<1>2. CallsShape'
  <2>1. \A d \in Procs : call'[d].pc = "idle" <=> call'[d].runs = "nothing"
    BY DEF Goes, IInv, CallsInv, CallsShape
  <2>2. Background \in Procs
    BY DEF Procs
  <2>. QED BY <2>1, <2>2 DEF Goes, CallsFrame, IInv, CallsInv, CallsShape
<1>3. StartsCounted'
  <2>1. MayStart' \subseteq MayStart
    BY DEF MayStart, Goes
  <2>2. StartsLeft' \in Nat /\ StartsLeft' <= StartsLeft
    BY <2>1, OneMoreOrLess
  <2>. QED BY <2>2, Counts DEF StartsCounted, AgainLeft, CallsFrame, CallFrame
<1>4. StopHolds'
  BY DEF StopHolds, CallsFrame, CallFrame, Goes, IInv, CallsInv
<1>5. StreamsEnd'
  BY DEF StreamsEnd, IInv, CallsInv
<1>6. OneLoop' /\ RunsCounted' /\ OutageReported'
  BY CallKeepsLoop DEF CallsFrame
<1>7. RestartComes'
  BY DEF RestartComes, CallsFrame, CallFrame, Goes, IInv, LoopInv
<1>. QED BY <1>1, <1>2, <1>3, <1>4, <1>5, <1>6, <1>7 DEF IInv, CallsInv, LoopInv

\* A step of one goroutine that leaves the encoder as it is.
LEMMA OneGoes ==
  ASSUME IInv, NEW c \in Procs, NEW k \in CallFields, call' = [call EXCEPT ![c] = k], Becoming(c, k) => Goes(c),
         UNCHANGED <<e, loop, streams, api, heard>>,
         gate' \in Procs \cup {None}, recording' \in BOOLEAN, Becoming(c, k) => WishApplies'
  PROVE  IInv'
<1>1. Becoming(c, k)
  BY CallBecomes
<1>2. \A d \in Procs : Goes(d)
  BY <1>1, StaysPut DEF Becoming
<1>3. CallsFrame
  BY <1>1 DEF Becoming, CallsFrame, CallFrame, IsStopping, streams, api, IInv, TypeOK
<1>. QED BY <1>1, <1>2, <1>3, CallsGo DEF IsStopping, streams

\* StopAll releases those who wait for consumersStopped.
LEMMA StopAllInv == ASSUME IInv, NEW c \in Procs, StopAll(c) PROVE IInv'
<1>1. /\ e' = [e EXCEPT !.consumersStopped = TRUE] /\ stream' = FALSE
      /\ UNCHANGED <<loop, gate, recording, starter, input, requests, calls, edits, faults, wish, asked, heard>>
  BY DEF StopAll, api
<1>2. /\ e' \in EncoderFields /\ e'.state = e.state /\ e'.stopChan = e.stopChan /\ e'.sourceRunID = e.sourceRunID
      /\ e'.inputLost = e.inputLost /\ e'.gen = e.gen /\ e'.operatorStopped = e.operatorStopped
      /\ e'.recordingWanted = e.recordingWanted /\ e'.restarting = e.restarting
      /\ e'.restartAgain = e.restartAgain /\ e'.restartAgainGen = e.restartAgainGen
  BY <1>1 DEF IInv, TypeOK, EncoderFields
<1>3. \A d \in Procs : /\ [call[d] EXCEPT !.pc = "wait"] \in CallFields
                       /\ [call[d] EXCEPT !.pc = "wait"].runs = call[d].runs
                       /\ [call[d] EXCEPT !.pc = "wait"].gen = call[d].gen
                       /\ [call[d] EXCEPT !.pc = "wait"].sync = call[d].sync
                       /\ [call[d] EXCEPT !.pc = "wait"].pc = "wait"
  BY DEF IInv, TypeOK, CallFields
<1>4. \A d \in Procs : \/ call'[d] = call[d]
                       \/ call[d].pc \in {"stopAll", "consumers"} /\ call'[d] = [call[d] EXCEPT !.pc = "wait"]
  BY DEF StopAll
<1>5. call' \in [Procs -> CallFields]
  BY <1>3 DEF StopAll, IInv, TypeOK
<1>6. ASSUME NEW d \in Procs PROVE Goes(d) /\ call'[d].sync = call[d].sync
  <2>1. CASE call'[d] = call[d]
    BY <2>1, StaysPut
  <2>2. CASE call[d].pc \in {"stopAll", "consumers"} /\ call'[d] = [call[d] EXCEPT !.pc = "wait"]
    BY <1>3, <2>2 DEF Goes, IInv, CallsInv, CallsShape
  <2>. QED BY <1>4, <2>1, <2>2
<1>7. CallsFrame
  BY <1>1, <1>2, <1>5 DEF CallsFrame, CallFrame, IsStopping, IInv, TypeOK
<1>8. WishApplies'
  BY <1>1, <1>2, <1>6, WishStays
<1>. QED BY <1>1, <1>6, <1>7, <1>8, CallsGo

\* The loop is over: the encoder is stopped, and restarts go on to start.
LEMMA StopCompletesInv == ASSUME IInv, StopCompletes PROVE IInv'
<1>1. /\ e' = [e EXCEPT !.state = "stopped"] /\ e.state = "stopping" /\ loop[e.stopChan].pc = "done"
      /\ UNCHANGED <<loop, gate, recording, stream, starter, input, requests, calls, edits, faults, wish, asked, heard>>
  BY DEF StopCompletes, api, streams
<1>2. /\ e' \in EncoderFields /\ e'.state = "stopped" /\ e'.stopChan = e.stopChan /\ e'.sourceRunID = e.sourceRunID
      /\ e'.inputLost = e.inputLost /\ e'.gen = e.gen /\ e'.operatorStopped = e.operatorStopped
      /\ e'.recordingWanted = e.recordingWanted /\ e'.restarting = e.restarting
      /\ e'.restartAgain = e.restartAgain /\ e'.restartAgainGen = e.restartAgainGen
      /\ e'.consumersStopped = e.consumersStopped
  BY <1>1 DEF IInv, TypeOK, EncoderFields
<1>3. \A d \in Procs : /\ [call[d] EXCEPT !.pc = "start"] \in CallFields
                       /\ [call[d] EXCEPT !.pc = "start"].runs = call[d].runs
                       /\ [call[d] EXCEPT !.pc = "start"].gen = call[d].gen
                       /\ [call[d] EXCEPT !.pc = "start"].sync = call[d].sync
                       /\ [call[d] EXCEPT !.pc = "start"].pc = "start"
  BY DEF IInv, TypeOK, CallFields
<1>4. \A d \in Procs : \/ call'[d] = call[d]
                       \/ call[d].pc = "stopDone" /\ call'[d] = [call[d] EXCEPT !.pc = "start"]
  BY DEF StopCompletes
<1>5. call' \in [Procs -> CallFields]
  BY <1>3 DEF StopCompletes, IInv, TypeOK
<1>6. ASSUME NEW d \in Procs PROVE Goes(d) /\ call'[d].sync = call[d].sync
  <2>1. CASE call'[d] = call[d]
    BY <2>1, StaysPut
  <2>2. CASE call[d].pc \in {"stopDone"} /\ call'[d] = [call[d] EXCEPT !.pc = "start"]
    BY <1>3, <2>2 DEF Goes, IInv, CallsInv, CallsShape
  <2>. QED BY <1>4, <2>1, <2>2
<1>7. CallsFrame
  BY <1>1, <1>2, <1>5 DEF CallsFrame, CallFrame, IsStopping, IInv, TypeOK
<1>8. WishApplies'
  BY <1>1, <1>2, <1>6, WishStays
<1>. QED BY <1>1, <1>2, <1>6, <1>7, <1>8, CallsGo DEF IsStopping

\* Goroutine c with another pc, or another sync.
At(c, p)    == [call[c] EXCEPT !.pc = p]
InSync(c, y) == [call[c] EXCEPT !.sync = y]

\* Their fields.
LEMMA AtFields ==
  ASSUME IInv, NEW c \in Procs, NEW p \in {"idle", "gate", "stop", "stopAll", "consumers", "wait", "waited", "stopDone", "start", "end"},
         NEW y \in {"no", "queued", "on", "off"}
  PROVE  /\ At(c, p) \in CallFields /\ At(c, p).pc = p
         /\ At(c, p).runs = call[c].runs /\ At(c, p).gen = call[c].gen /\ At(c, p).sync = call[c].sync
         /\ InSync(c, y) \in CallFields /\ InSync(c, y).sync = y
         /\ InSync(c, y).runs = call[c].runs /\ InSync(c, y).gen = call[c].gen /\ InSync(c, y).pc = call[c].pc
BY DEF IInv, TypeOK, CallFields, At, InSync

\* WishApplies in a step of one goroutine that leaves its sync as it was.
LEMMA SyncAsBefore ==
  ASSUME IInv, NEW c \in Procs, NEW k, Becoming(c, k), k.sync = call[c].sync, UNCHANGED <<e, recording>>
  PROVE  WishApplies'
<1>1. \A d \in Procs : call'[d].sync = call[d].sync
  BY DEF Becoming
<1>. QED BY <1>1, WishStays

\* The waits of Stop and restart, and the restart gate.
LEMMA WaitsInv ==
  ASSUME IInv, NEW c \in Procs, StopWaited(c) \/ EnterGate(c) \/ RestartWaits(c)
  PROVE  IInv'
<1>1. call[c].pc \in {"wait", "waited", "stopDone"} \/ (call[c].pc = "gate" /\ call[c].runs = "restart")
  BY DEF StopWaited, EnterGate, RestartWaits, IInv, CallsInv, CallsShape
<1>2. PICK p \in {"stop", "waited", "stopDone", "start", "end"} : 
        /\ call' = [call EXCEPT ![c] = At(c, p)]
        /\ p = "stop" => call[c].pc = "gate"
        /\ p \in {"stopDone", "start", "end"} => call[c].runs = "restart"
        /\ call[c].pc = "gate" => p = "stop"
  BY DEF StopWaited, EnterGate, RestartWaits, At, IInv, CallsInv, CallsShape
<1>3. UNCHANGED <<e, loop, streams, api, heard, recording>> /\ gate' \in Procs \cup {None} /\ recording' \in BOOLEAN
  BY DEF StopWaited, EnterGate, RestartWaits, IInv, TypeOK
<1>4. /\ At(c, p) \in CallFields /\ At(c, p).pc = p
      /\ At(c, p).runs = call[c].runs /\ At(c, p).gen = call[c].gen /\ At(c, p).sync = call[c].sync
  BY AtFields
<1>5. Becoming(c, At(c, p)) => Goes(c)
  BY <1>1, <1>2, <1>4 DEF Becoming, Goes, IInv, CallsInv, CallsShape
<1>6. Becoming(c, At(c, p)) => WishApplies'
  BY <1>3, <1>4, SyncAsBefore
<1>. QED BY <1>2, <1>3, <1>4, <1>5, <1>6, OneGoes

\* syncRecording takes recordingMu and reads the wish.
LEMMA SyncReadsInv == ASSUME IInv, NEW c \in Procs, SyncReads(c) PROVE IInv'
<1> DEFINE y == IF e.recordingWanted THEN "on" ELSE "off"
<1>1. call' = [call EXCEPT ![c] = InSync(c, y)]
  BY DEF SyncReads, InSync
<1>2. UNCHANGED <<e, loop, streams, api, heard, recording, gate>> /\ gate' \in Procs \cup {None} /\ recording' \in BOOLEAN
  BY DEF SyncReads, IInv, TypeOK
<1>3. /\ InSync(c, y) \in CallFields /\ InSync(c, y).sync = y
      /\ InSync(c, y).runs = call[c].runs /\ InSync(c, y).gen = call[c].gen /\ InSync(c, y).pc = call[c].pc
  BY AtFields
<1>4. call[c].sync = "queued" /\ \A d \in Procs : call[d].sync \notin {"on", "off"}
  BY DEF SyncReads
<1>5. Becoming(c, InSync(c, y)) => Goes(c)
  BY <1>3, <1>4 DEF Becoming, Goes, IInv, CallsInv, CallsShape
<1>6. Becoming(c, InSync(c, y)) => WishApplies'
  BY <1>2, <1>3, <1>4 DEF Becoming, WishApplies, IInv, CallsInv
<1>. QED BY <1>1, <1>2, <1>3, <1>5, <1>6, OneGoes

\* syncRecording applies the wish it read, which is the last one or has one queued
\* behind it.
LEMMA SyncAppliesInv == ASSUME IInv, NEW c \in Procs, SyncApplies(c) PROVE IInv'
<1>1. call' = [call EXCEPT ![c] = InSync(c, "no")] /\ recording' = (call[c].sync = "on")
  BY DEF SyncApplies, InSync
<1>2. UNCHANGED <<e, loop, streams, api, heard, gate>> /\ gate' \in Procs \cup {None} /\ recording' \in BOOLEAN
  BY <1>1 DEF SyncApplies, IInv, TypeOK
<1>3. /\ InSync(c, "no") \in CallFields /\ InSync(c, "no").sync = "no"
      /\ InSync(c, "no").runs = call[c].runs /\ InSync(c, "no").gen = call[c].gen /\ InSync(c, "no").pc = call[c].pc
  BY AtFields
<1>4. call[c].sync \in {"on", "off"} /\ e.recordingWanted \in BOOLEAN
  BY DEF SyncApplies, IInv, TypeOK, EncoderFields
<1>5. Becoming(c, InSync(c, "no")) => Goes(c)
  BY <1>3, <1>4 DEF Becoming, Goes, IInv, CallsInv, CallsShape
<1>6. ASSUME Becoming(c, InSync(c, "no")) PROVE WishApplies'
  <2>1. \A d \in Procs \ {c} : call[d].sync \notin {"on", "off"}
    BY <1>4 DEF WishApplies, IInv, CallsInv
  <2>2. call'[c].sync = "no" /\ \A d \in Procs \ {c} : call'[d] = call[d]
    BY <1>3, <1>6 DEF Becoming
  <2>3. \A d \in Procs : call'[d].sync \in {"no", "queued"}
    BY <1>6, <2>1, <2>2 DEF Becoming, CallFields
  <2>4. CASE \E d \in Procs : call[d].sync = "queued"
    <3>1. \E d \in Procs : call'[d].sync = "queued"
      BY <1>4, <2>2, <2>4
    <3>. QED BY <2>3, <3>1 DEF WishApplies
  <2>5. CASE ~ \E d \in Procs : call[d].sync = "queued"
    <3>1. \A d \in Procs : call'[d].sync = "no"
      BY <2>2, <2>3, <2>5
    <3>2. call[c].sync = (IF e.recordingWanted THEN "on" ELSE "off")
      BY <1>4, <2>1, <2>5 DEF WishApplies, IInv, CallsInv
    <3>3. recording' = e'.recordingWanted
      <4>1. CASE e.recordingWanted
        BY <1>1, <1>2, <3>2, <4>1
      <4>2. CASE ~e.recordingWanted
        BY <1>1, <1>2, <3>2, <4>2, <1>4
      <4>. QED BY <4>1, <4>2
    <3>. QED BY <3>1, <3>3 DEF WishApplies
  <2>. QED BY <2>4, <2>5
<1>. QED BY <1>1, <1>2, <1>3, <1>5, <1>6, OneGoes

\* A stop ends the run there is: what it leaves.
LEMMA EndRunEffect ==
  ASSUME IInv, NEW c \in Procs, NEW w \in EncoderFields, NEW k \in CallFields, EndRun(w, c, k)
  PROVE  /\ e' \in EncoderFields
         /\ e'.gen = w.gen /\ e'.operatorStopped = w.operatorStopped /\ e'.recordingWanted = w.recordingWanted
         /\ e'.stopChan = w.stopChan /\ e'.sourceRunID = w.sourceRunID /\ e'.inputLost = w.inputLost
         /\ e'.restarting = w.restarting /\ e'.restartAgain = w.restartAgain
         /\ e'.restartAgainGen = w.restartAgainGen
         /\ e'.state \in {"stopping", "stopped"} /\ (e'.state = "stopped" <=> w.state = "stopped")
         /\ e'.consumersStopped => w.state \in {"stopping", "stopped"} /\ w.consumersStopped
         /\ \E n \in CallFields : /\ call' = [call EXCEPT ![c] = n] /\ Becoming(c, n)
                                  /\ n.pc \in {"stopAll", "waited", "wait", "consumers"}
                                  /\ n.runs = k.runs /\ n.gen = k.gen /\ n.sync = k.sync
<1>1. CASE w.state \in {"starting", "running"}
  <2>1. e' = [w EXCEPT !.state = "stopping", !.consumersStopped = FALSE]
    BY <1>1 DEF EndRun
  <2>2. call' = [call EXCEPT ![c] = [k EXCEPT !.pc = "stopAll"]]
    BY <1>1 DEF EndRun
  <2>3. [k EXCEPT !.pc = "stopAll"] \in [runs : {k.runs}, pc : {"stopAll"}, gen : {k.gen}, sync : {k.sync}]
    BY DEF CallFields
  <2> DEFINE n == [k EXCEPT !.pc = "stopAll"]
  <2> HIDE DEF n
  <2>4. n \in CallFields /\ n.pc = "stopAll" /\ n.runs = k.runs /\ n.gen = k.gen /\ n.sync = k.sync
    BY <2>3 DEF CallFields, n
  <2>5. call' = [call EXCEPT ![c] = n] /\ Becoming(c, n)
    BY <2>2, <2>4, CallBecomes DEF n
  <2>6. /\ e' \in EncoderFields
        /\ e'.gen = w.gen /\ e'.operatorStopped = w.operatorStopped /\ e'.recordingWanted = w.recordingWanted
        /\ e'.stopChan = w.stopChan /\ e'.sourceRunID = w.sourceRunID /\ e'.inputLost = w.inputLost
        /\ e'.restarting = w.restarting /\ e'.restartAgain = w.restartAgain
        /\ e'.restartAgainGen = w.restartAgainGen
        /\ e'.state = "stopping" /\ e'.consumersStopped = FALSE
    BY <2>1 DEF EncoderFields
  <2>. QED BY <1>1, <2>4, <2>5, <2>6
<1>2. CASE w.state \notin {"starting", "running"}
  <2>1. e' = w
    BY <1>2 DEF EndRun
  <2>2. PICK p \in {"waited", "wait", "consumers"} : call' = [call EXCEPT ![c] = [k EXCEPT !.pc = p]]
    BY <1>2 DEF EndRun
  <2>3. [k EXCEPT !.pc = p] \in [runs : {k.runs}, pc : {p}, gen : {k.gen}, sync : {k.sync}]
    BY DEF CallFields
  <2> DEFINE n == [k EXCEPT !.pc = p]
  <2> HIDE DEF n
  <2>4. n \in CallFields /\ n.pc = p /\ n.runs = k.runs /\ n.gen = k.gen /\ n.sync = k.sync
    BY <2>3 DEF CallFields, n
  <2>5. call' = [call EXCEPT ![c] = n] /\ Becoming(c, n)
    BY <2>2, <2>4, CallBecomes DEF n
  <2>6. w.state \in {"stopping", "stopped"}
    BY <1>2 DEF EncoderFields
  <2>. QED BY <2>1, <2>4, <2>5, <2>6
<1>. QED BY <1>1, <1>2

\* Stop: no restart that is under way has its generation.
LEMMA StopInv == ASSUME IInv, NEW c \in Calls, Stop(c) PROVE IInv'
<1> DEFINE w == [e EXCEPT !.gen = @ + 1, !.operatorStopped = TRUE, !.recordingWanted = FALSE]
<1> DEFINE k == [Idle EXCEPT !.runs = "stop", !.sync = "queued"]
<1>1. c \in Procs /\ c # Background /\ call[c].pc = "idle"
  BY EncoderAssumption DEF Stop, Procs
<1>2. /\ calls < MaxCalls /\ calls' = calls + 1 /\ calls' \in 0..MaxCalls /\ wish' = "off"
      /\ UNCHANGED <<loop, edits, faults, gate, recording, stream, starter, input, requests, asked, heard>>
  BY EncoderAssumption DEF Stop, Called, streams, IInv, TypeOK
<1>3. /\ w \in EncoderFields /\ w.gen = e.gen + 1 /\ w.operatorStopped /\ ~w.recordingWanted
      /\ w.stopChan = e.stopChan /\ w.sourceRunID = e.sourceRunID /\ w.inputLost = e.inputLost
      /\ w.restarting = e.restarting /\ w.restartAgain = e.restartAgain /\ w.restartAgainGen = e.restartAgainGen
      /\ w.state = e.state /\ w.consumersStopped = e.consumersStopped
  <2>1. e.gen \in 0..MaxCalls /\ e.gen <= calls /\ calls \in Nat
    BY DEF IInv, CallsInv, CallsShape, TypeOK, EncoderFields
  <2>2. e.gen + 1 \in 0..MaxCalls
    BY <1>2, <2>1, EncoderAssumption
  <2>3. e \in EncoderFields
    BY DEF IInv, TypeOK
  <2>. QED BY <2>2, <2>3 DEF EncoderFields
<1>4. k \in [runs : {"stop"}, pc : {"idle"}, gen : {0}, sync : {"queued"}]
  BY FromIdle
<1>5. EndRun(w, c, k)
  BY DEF Stop
<1> HIDE DEF w, k
<1>6. k \in CallFields
  BY <1>4, EncoderAssumption DEF CallFields
<1>7. /\ e' \in EncoderFields
      /\ e'.gen = e.gen + 1 /\ e'.operatorStopped
      /\ e'.stopChan = e.stopChan /\ e'.sourceRunID = e.sourceRunID /\ e'.inputLost = e.inputLost
      /\ e'.restarting = e.restarting /\ e'.restartAgain = e.restartAgain
      /\ e'.restartAgainGen = e.restartAgainGen
      /\ e'.state \in {"stopping", "stopped"} /\ (e'.state = "stopped" <=> e.state = "stopped")
      /\ e'.consumersStopped => e.state \in {"stopping", "stopped"} /\ e.consumersStopped
  BY <1>1, <1>3, <1>5, <1>6, EndRunEffect
<1>8. PICK n \in CallFields : /\ Becoming(c, n) /\ n.pc \in {"stopAll", "waited", "wait", "consumers"}
                              /\ n.runs = "stop" /\ n.gen = 0 /\ n.sync = "queued"
  <2>1. k.runs = "stop" /\ k.gen = 0 /\ k.sync = "queued"
    BY <1>4
  <2>. QED BY <1>1, <1>3, <1>5, <1>6, <2>1, EndRunEffect
<1>9. TypeOK'
  BY <1>2, <1>7, <1>8 DEF IInv, TypeOK, Becoming
<1>10. CallsShape'
  <2>1. e.gen \in Nat /\ e.restartAgainGen \in Nat /\ calls \in Nat /\ \A d \in Procs : call[d].gen \in Nat
    BY DEF IInv, TypeOK, EncoderFields, CallFields
  <2>. QED BY <1>1, <1>2, <1>7, <1>8, <2>1 DEF IInv, CallsInv, CallsShape, Becoming, Procs
<1>11. StartsCounted'
  <2>1. MayStart' \subseteq MayStart
    BY <1>1, <1>8 DEF MayStart, Becoming
  <2>2. StartsLeft' \in Nat /\ StartsLeft' <= StartsLeft
    BY <2>1, OneMoreOrLess
  <2>. QED BY <1>2, <1>7, <2>2, Counts DEF StartsCounted, AgainLeft
<1>12. StopHolds'
  <2>1. e.gen \in Nat /\ e.restartAgainGen \in Nat /\ \A d \in Procs : call[d].gen \in Nat /\ call[d].gen <= e.gen
    BY DEF IInv, TypeOK, EncoderFields, CallFields, CallsInv, CallsShape
  <2>2. e.restartAgainGen <= e.gen
    BY DEF IInv, CallsInv, CallsShape
  <2>. QED BY <1>7, <1>8, <2>1, <2>2 DEF StopHolds, IsStopping, Becoming
<1>13. WishApplies'
  BY <1>1, <1>8, WishQueued
<1>14. StreamsEnd'
  BY <1>2, <1>7 DEF StreamsEnd, IsStopping, IInv, CallsInv
<1>15. OneLoop' /\ RunsCounted' /\ OutageReported'
  BY <1>2, <1>7, CallKeepsLoop DEF CallFrame, IsStopping
<1>16. RestartComes'
  BY <1>7 DEF RestartComes, IsStopping
<1>. QED BY <1>9, <1>10, <1>11, <1>12, <1>13, <1>14, <1>15, <1>16 DEF IInv, CallsInv, LoopInv

\* A restart that was not superseded ends the run; another leaves it.
LEMMA RestartStopsInv == ASSUME IInv, NEW c \in Procs, RestartStops(c) PROVE IInv'
<1>1. /\ call[c].pc = "stop" /\ call[c] \in CallFields /\ e \in EncoderFields
      /\ UNCHANGED <<loop, gate, recording, streams, api, heard>> /\ gate' \in Procs \cup {None} /\ recording' \in BOOLEAN
  BY DEF RestartStops, IInv, TypeOK
<1>2. CASE Superseded(c)
  <2>1. call' = [call EXCEPT ![c] = At(c, "waited")] /\ UNCHANGED e
    BY <1>2 DEF RestartStops, At
  <2>2. /\ At(c, "waited") \in CallFields /\ At(c, "waited").pc = "waited"
        /\ At(c, "waited").runs = call[c].runs /\ At(c, "waited").gen = call[c].gen /\ At(c, "waited").sync = call[c].sync
    BY AtFields
  <2>3. Becoming(c, At(c, "waited")) => Goes(c)
    BY <1>1, <1>2, <2>2 DEF Becoming, Goes, Superseded, IInv, CallsInv, CallsShape
  <2>4. Becoming(c, At(c, "waited")) => WishApplies'
    BY <1>1, <2>1, <2>2, SyncAsBefore
  <2>. QED BY <1>1, <2>1, <2>2, <2>3, <2>4, OneGoes
<1>3. CASE ~Superseded(c)
  <2>1. EndRun(e, c, call[c])
    BY <1>3 DEF RestartStops
  <2>2. PICK n \in CallFields : /\ Becoming(c, n) /\ n.pc \in {"stopAll", "waited", "wait", "consumers"}
                                /\ n.runs = call[c].runs /\ n.gen = call[c].gen /\ n.sync = call[c].sync
    BY <1>1, <2>1, EndRunEffect
  <2>3. /\ e' \in EncoderFields
        /\ e'.gen = e.gen /\ e'.operatorStopped = e.operatorStopped /\ e'.recordingWanted = e.recordingWanted
        /\ e'.stopChan = e.stopChan /\ e'.sourceRunID = e.sourceRunID /\ e'.inputLost = e.inputLost
        /\ e'.restarting = e.restarting /\ e'.restartAgain = e.restartAgain
        /\ e'.restartAgainGen = e.restartAgainGen
        /\ e'.state \in {"stopping", "stopped"} /\ (e'.state = "stopped" <=> e.state = "stopped")
        /\ e'.consumersStopped => e.state \in {"stopping", "stopped"} /\ e.consumersStopped
    BY <1>1, <2>1, EndRunEffect
  <2>4. Goes(c)
    BY <1>1, <2>2, <2>3 DEF Becoming, Goes, IsStopping, IInv, CallsInv, CallsShape
  <2>5. \A d \in Procs : Goes(d)
    BY <2>2, <2>4, StaysPut DEF Becoming
  <2>6. CallsFrame
    BY <1>1, <2>2, <2>3 DEF CallsFrame, CallFrame, Becoming, IsStopping, streams, api, IInv, TypeOK
  <2>7. WishApplies'
    BY <1>1, <2>2, <2>3, WishStays DEF Becoming
  <2>. QED BY <1>1, <2>3, <2>5, <2>6, <2>7, CallsGo DEF IsStopping, streams
<1>. QED BY <1>2, <1>3

\* Restart uses up a call for the start it may make.
LEMMA RestartInv == ASSUME IInv, NEW c \in Calls, Restart(c) PROVE IInv'
<1> DEFINE k == [Idle EXCEPT !.runs = "restart", !.pc = "gate", !.gen = e.gen]
<1>1. c \in Procs /\ c # Background /\ call[c].pc = "idle"
  BY EncoderAssumption DEF Restart, Procs
<1>2. /\ calls < MaxCalls /\ calls' = calls + 1 /\ calls' \in 0..MaxCalls /\ wish' = "on"
      /\ UNCHANGED <<e, loop, edits, faults, gate, recording, stream, starter, input, requests, asked, heard>>
  BY EncoderAssumption DEF Restart, Called, streams, IInv, TypeOK
<1>3. k \in [runs : {"restart"}, pc : {"gate"}, gen : {e.gen}, sync : {"no"}]
  BY FromIdle
<1>4. call' = [call EXCEPT ![c] = k]
  BY DEF Restart
<1> HIDE DEF k
<1>5. e.gen \in 0..MaxCalls /\ e.gen <= calls
  BY DEF IInv, CallsInv, CallsShape, TypeOK, EncoderFields
<1>6. k \in CallFields
  BY <1>3, <1>5 DEF CallFields
<1>7. Becoming(c, k)
  BY <1>1, <1>4, <1>6, CallBecomes
<1>8. TypeOK'
  BY <1>2, <1>7 DEF IInv, TypeOK, Becoming
<1>9. CallsShape'
  BY <1>1, <1>2, <1>3, <1>5, <1>7, Counts DEF IInv, CallsInv, CallsShape, Becoming, Procs
<1>10. StartsCounted'
  <2>1. MayStart' \subseteq MayStart \cup {c}
    BY <1>7 DEF MayStart, Becoming
  <2>2. StartsLeft' \in Nat /\ StartsLeft' <= StartsLeft + 1
    BY <2>1, OneMoreOrLess
  <2>. QED BY <1>2, <2>2, Counts DEF StartsCounted, AgainLeft
<1>11. StopHolds'
  BY <1>2 DEF StopHolds
<1>12. WishApplies'
  <2>1. call[c].sync = "no"
    BY <1>1 DEF IInv, CallsInv, CallsShape
  <2>. QED BY <1>1, <1>2, <1>3, <1>7, <2>1, SyncAsBefore
<1>13. StreamsEnd'
  BY <1>2 DEF StreamsEnd, IsStopping, IInv, CallsInv
<1>14. OneLoop' /\ RunsCounted' /\ OutageReported'
  BY <1>2, CallKeepsLoop DEF CallFrame, IsStopping, IInv, TypeOK
<1>15. RestartComes'
  BY <1>1, <1>2, <1>7 DEF RestartComes, IsStopping, Becoming, IInv, LoopInv
<1>. QED BY <1>8, <1>9, <1>10, <1>11, <1>12, <1>13, <1>14, <1>15 DEF IInv, CallsInv, LoopInv

\* Another input is saved, and with it a start that may be requested.
LEMMA SaveInputInv == ASSUME IInv, NEW confirmed \in BOOLEAN, SaveInput(confirmed) PROVE IInv'
<1>1. /\ input < MaxInput /\ input' = input + 1 /\ input' \in Inputs /\ requests' \in {requests, requests + 1}
      /\ UNCHANGED <<e, loop, call, gate, recording, stream, starter, calls, edits, faults, wish, asked, heard>>
  BY EncoderAssumption DEF SaveInput, streams, Inputs, IInv, TypeOK
<1>2. StartsCounted'
  <2>1. StartsLeft' = StartsLeft /\ AgainLeft' = AgainLeft
    BY <1>1 DEF StartsLeft, MayStart, AgainLeft
  <2>. QED BY <1>1, <2>1, Counts DEF StartsCounted
<1>3. TypeOK'
  BY <1>1, <1>2, Counts, EncoderAssumption DEF IInv, TypeOK, Inputs, StartsCounted
<1>4. CallsInv'
  BY <1>1, <1>2 DEF IInv, CallsInv, CallsShape, StopHolds, WishApplies, StreamsEnd, IsStopping
<1>5. LoopInv'
  BY <1>1 DEF IInv, LoopInv, OneLoop, RunsCounted, OutageReported, RestartComes, IsStopping
<1>. QED BY <1>3, <1>4, <1>5 DEF IInv

\* A request is dropped in a stop, collapses into a restart, or starts one.
LEMMA RestartInBackgroundInv == ASSUME IInv, RestartInBackground PROVE IInv'
<1> DEFINE k == [Idle EXCEPT !.runs = "restart", !.pc = "gate", !.gen = e.gen]
<1>1. /\ requests > 0 /\ requests' = requests - 1 /\ requests' \in Inputs /\ asked' = input /\ asked' \in Inputs
      /\ UNCHANGED <<loop, gate, recording, stream, starter, input, calls, edits, faults, wish, heard>>
  BY EncoderAssumption DEF RestartInBackground, streams, Inputs, IInv, TypeOK
<1>2. CASE IsStopping /\ UNCHANGED <<e, call>>
  <2>1. TypeOK'
    BY <1>1, <1>2 DEF IInv, TypeOK
  <2>2. StartsCounted'
    <3>1. StartsLeft' = StartsLeft /\ AgainLeft' = AgainLeft
      BY <1>1, <1>2 DEF StartsLeft, MayStart, AgainLeft
    <3>. QED BY <1>1, <1>2, <3>1, Counts DEF StartsCounted
  <2>3. CallsInv'
    BY <1>1, <1>2, <2>2 DEF IInv, CallsInv, CallsShape, StopHolds, WishApplies, StreamsEnd, IsStopping
  <2>4. LoopInv'
    BY <1>1, <1>2 DEF IInv, LoopInv, OneLoop, RunsCounted, OutageReported, RestartComes, IsStopping
  <2>. QED BY <2>1, <2>3, <2>4 DEF IInv
<1>3. ASSUME e.state \in {"running", "starting"} \/ ~e.operatorStopped PROVE wish # "off"
  BY <1>3 DEF IInv, CallsInv, StopHolds, IsStopping
<1>4. CASE wish # "off" /\ e.restarting /\ Collapse /\ UNCHANGED call
  <2>1. /\ e' \in EncoderFields /\ e'.gen = e.gen /\ e'.recordingWanted = e.recordingWanted
        /\ e'.restartAgain = TRUE /\ e'.restartAgainGen = e.gen /\ e'.restarting = e.restarting
        /\ e'.state = e.state /\ e'.stopChan = e.stopChan
        /\ e'.sourceRunID = e.sourceRunID /\ e'.inputLost = e.inputLost /\ e'.consumersStopped = e.consumersStopped
    BY <1>4 DEF Collapse, IInv, TypeOK, EncoderFields
  <2>2. TypeOK'
    BY <1>1, <1>4, <2>1 DEF IInv, TypeOK
  <2>3. CallsShape'
    BY <1>1, <1>4, <2>1, Counts DEF IInv, CallsInv, CallsShape
  <2>4. StartsCounted'
    <3>1. StartsLeft' = StartsLeft /\ AgainLeft' = 1
      BY <1>1, <1>4, <2>1 DEF StartsLeft, MayStart, AgainLeft
    <3>. QED BY <1>1, <2>1, <3>1, Counts DEF StartsCounted
  <2>5. StopHolds'
    BY <1>1, <1>4 DEF StopHolds
  <2>6. WishApplies'
    BY <1>1, <1>4, <2>1, WishStays
  <2>7. StreamsEnd'
    BY <1>1, <2>1 DEF StreamsEnd, IsStopping, IInv, CallsInv
  <2>8. OneLoop' /\ RunsCounted' /\ OutageReported'
    BY <1>1, <2>1, CallKeepsLoop DEF CallFrame, IsStopping
  <2>9. RestartComes'
    BY <2>1 DEF RestartComes
  <2>. QED BY <2>2, <2>3, <2>4, <2>5, <2>6, <2>7, <2>8, <2>9 DEF IInv, CallsInv, LoopInv
<1>5. CASE /\ wish # "off" /\ ~e.restarting /\ e' = [e EXCEPT !.restarting = TRUE]
           /\ call' = [call EXCEPT ![Background] = k]
  <2>1. /\ e' \in EncoderFields /\ e'.gen = e.gen /\ e'.recordingWanted = e.recordingWanted
        /\ e'.restartAgain = e.restartAgain /\ e'.restartAgainGen = e.restartAgainGen /\ e'.restarting = TRUE
        /\ e'.state = e.state /\ e'.stopChan = e.stopChan
        /\ e'.sourceRunID = e.sourceRunID /\ e'.inputLost = e.inputLost /\ e'.consumersStopped = e.consumersStopped
    BY <1>5 DEF IInv, TypeOK, EncoderFields
  <2>2. Background \in Procs /\ call[Background].pc = "idle"
    BY <1>5 DEF IInv, CallsInv, CallsShape, Procs
  <2>3. k \in [runs : {"restart"}, pc : {"gate"}, gen : {e.gen}, sync : {"no"}]
    BY FromIdle
  <2>14. call' = [call EXCEPT ![Background] = k]
    BY <1>5
  <2> HIDE DEF k
  <2>4. k \in CallFields
    BY <2>3 DEF CallFields, IInv, TypeOK, EncoderFields
  <2>5. Becoming(Background, k)
    BY <2>2, <2>14, <2>4, CallBecomes
  <2>6. TypeOK'
    BY <1>1, <2>1, <2>5 DEF IInv, TypeOK, Becoming
  <2>7. CallsShape'
    BY <1>1, <2>1, <2>2, <2>3, <2>5, Counts DEF IInv, CallsInv, CallsShape, Becoming
  <2>8. StartsCounted'
    <3>1. MayStart' \subseteq MayStart \cup {Background}
      BY <2>5 DEF MayStart, Becoming
    <3>2. StartsLeft' \in Nat /\ StartsLeft' <= StartsLeft + 1
      BY <3>1, OneMoreOrLess
    <3>. QED BY <1>1, <2>1, <3>2, Counts DEF StartsCounted, AgainLeft
  <2>9. StopHolds'
    BY <1>1, <1>5 DEF StopHolds
  <2>10. WishApplies'
    <3>1. \A d \in Procs : call'[d].sync = call[d].sync
      BY <2>2, <2>3, <2>5 DEF Becoming, IInv, CallsInv, CallsShape
    <3>. QED BY <1>1, <2>1, <3>1, WishStays
  <2>11. StreamsEnd'
    BY <1>1, <2>1 DEF StreamsEnd, IsStopping, IInv, CallsInv
  <2>12. OneLoop' /\ RunsCounted' /\ OutageReported'
    BY <1>1, <2>1, CallKeepsLoop DEF CallFrame, IsStopping
  <2>13. RestartComes'
    BY <2>1, <2>2, <2>3, <2>5 DEF RestartComes, Becoming
  <2>. QED BY <2>6, <2>7, <2>8, <2>9, <2>10, <2>11, <2>12, <2>13 DEF IInv, CallsInv, LoopInv
<1>6. \/ IsStopping /\ UNCHANGED <<e, call>>
      \/ /\ e.state \in {"running", "starting"} \/ ~e.operatorStopped
         /\ \/ e.restarting /\ Collapse /\ UNCHANGED call
            \/ /\ ~e.restarting /\ e' = [e EXCEPT !.restarting = TRUE]
               /\ call' = [call EXCEPT ![Background] = k]
  <2>1. e.state \in {"stopped", "starting", "running", "stopping"}
    BY DEF IInv, TypeOK, EncoderFields
  <2>. QED BY <2>1 DEF RestartInBackground, IsStopping
<1>. QED BY <1>2, <1>3, <1>4, <1>5, <1>6

\* A restart starts the loop unless a Stop superseded it, or the encoder runs.
LEMMA RestartStartsInv == ASSUME IInv, NEW c \in Procs, RestartStarts(c) PROVE IInv'
<1> DEFINE running == ~Superseded(c) /\ input # 0 /\ e.state # "stopped"
<1> DEFINE y == IF running THEN "no" ELSE "queued"
<1>1. /\ call[c].pc = "start" /\ call[c].runs = "restart" /\ call[c].sync = "no" /\ call[c] \in CallFields
      /\ UNCHANGED <<gate, recording, stream, starter, input, requests, calls, edits, faults, wish, asked, heard>>
  BY DEF RestartStarts, streams, api, IInv, TypeOK, CallsInv, CallsShape
<1>2. call' = [call EXCEPT ![c].pc = "end", ![c].sync = y]
  BY DEF RestartStarts
<1>3. y \in {"no", "queued"} /\ (y = "no" <=> running)
  OBVIOUS
<1> HIDE DEF y
<1>4. call' \in [Procs -> CallFields] /\ \A d \in Procs \ {c} : call'[d] = call[d]
  BY ZenonT(60), <1>2, <1>3 DEF IInv, TypeOK, CallFields
<1>5. /\ call'[c].pc = "end" /\ call'[c].sync = y
      /\ call'[c].runs = call[c].runs /\ call'[c].gen = call[c].gen
  BY <1>2 DEF IInv, TypeOK, CallFields
<1>6. Becoming(c, call'[c])
  BY <1>4 DEF Becoming
<1>7. MayStart' \subseteq MayStart \ {c} /\ c \in MayStart
  BY <1>1, <1>4, <1>5 DEF MayStart
<1>8. StartsLeft' \in Nat /\ StartsLeft' + 1 <= StartsLeft
  BY <1>7, OneMoreOrLess
<1>9. CASE CanStart /\ ~Superseded(c)
  <2>1. Started /\ e.state = "stopped"
    BY <1>9 DEF RestartStarts, CanStart
  <2>2. e.stopChan + 1 \in Starts
    BY <1>8, Counts, EncoderAssumption DEF Starts
  <2>3. /\ OneLoop' /\ RunsCounted' /\ OutageReported' /\ RestartComes'
        /\ e' \in EncoderFields /\ loop' \in [Starts -> LoopFields] /\ e'.stopChan = e.stopChan + 1
    BY <1>1, <2>1, <2>2, StartedLoop
  <2>4. /\ e'.gen = e.gen /\ e'.restarting = e.restarting /\ e'.restartAgain = e.restartAgain
        /\ e'.restartAgainGen = e.restartAgainGen /\ e'.state = "starting"
    BY <2>1 DEF Started, IInv, TypeOK, EncoderFields
  <2>5. TypeOK'
    BY <1>1, <1>4, <2>3 DEF IInv, TypeOK
  <2>6. CallsShape'
    BY <1>1, <1>3, <1>4, <1>5, <2>4 DEF IInv, CallsInv, CallsShape, Procs
  <2>7. StartsCounted'
    BY <1>1, <1>8, <2>3, <2>4, Counts DEF StartsCounted, AgainLeft
  <2>8. StopHolds'
    BY <1>1, <1>9 DEF StopHolds, Superseded, IInv, CallsInv
  <2>9. WishApplies'
    BY <1>3, <1>5, <1>6, <2>1, WishQueued
  <2>10. StreamsEnd'
    BY <2>4 DEF StreamsEnd, IsStopping
  <2>. QED BY <2>3, <2>5, <2>6, <2>7, <2>8, <2>9, <2>10 DEF IInv, CallsInv, LoopInv
<1>10. CASE UNCHANGED <<e, loop>>
  <2>1. Goes(c)
    BY <1>1, <1>5 DEF Goes
  <2>2. \A d \in Procs : Goes(d)
    BY <1>4, <2>1, StaysPut
  <2>3. CallsFrame
    BY <1>1, <1>4, <1>10 DEF CallsFrame, CallFrame, IsStopping, IInv, TypeOK
  <2>4. WishApplies'
    <3>1. CASE y = "queued"
      BY <1>5, <1>6, <3>1, WishQueued
    <3>2. CASE y = "no"
      BY <1>1, <1>5, <1>6, <1>10, <3>2, SyncAsBefore
    <3>. QED BY <1>3, <3>1, <3>2
  <2>. QED BY <1>1, <1>10, <2>2, <2>3, <2>4, CallsGo DEF IsStopping
<1>. QED BY <1>9, <1>10 DEF RestartStarts

\* A call returns; restartUntilSettled takes up the request that was collapsed.
LEMMA ReturnsInv == ASSUME IInv, NEW c \in Procs, Returns(c) PROVE IInv'
<1> DEFINE again == c = Background /\ e.restartAgain
<1>1. /\ call[c].pc = "end" \/ (call[c].pc = "waited" /\ call[c].runs = "stop")
      /\ call[c].sync = "no" /\ call[c] \in CallFields
      /\ gate' \in Procs \cup {None}
      /\ UNCHANGED <<loop, recording, stream, starter, input, requests, calls, edits, faults, wish, asked, heard>>
  BY DEF Returns, streams, api, IInv, TypeOK
<1>2. CASE again
  <2> DEFINE k == [call[c] EXCEPT !.pc = "gate", !.gen = e.restartAgainGen]
  <2>1. call' = [call EXCEPT ![c] = k]
    BY <1>2 DEF Returns
  <2>2. k \in [runs : {call[c].runs}, pc : {"gate"}, gen : {e.restartAgainGen}, sync : {call[c].sync}]
    BY <1>1 DEF CallFields
  <2> HIDE DEF k
  <2>3. call[c].runs = "restart" /\ c = Background /\ e.restartAgain
    BY <1>1, <1>2 DEF IInv, CallsInv, CallsShape
  <2>4. k \in CallFields
    BY <1>1, <2>2 DEF CallFields, IInv, TypeOK, EncoderFields
  <2>5. Becoming(c, k) /\ k.runs = "restart" /\ k.pc = "gate" /\ k.gen = e.restartAgainGen /\ k.sync = "no"
    BY <1>1, <2>1, <2>2, <2>3, <2>4, CallBecomes
  <2>6. e' = [e EXCEPT !.restarting = TRUE, !.restartAgain = FALSE, !.restartAgainGen = 0]
    BY <1>2 DEF Returns
  <2>7. /\ e' \in EncoderFields /\ e'.gen = e.gen /\ e'.recordingWanted = e.recordingWanted
        /\ e'.restartAgain = FALSE /\ e'.restartAgainGen = 0 /\ e'.restarting = TRUE
        /\ e'.state = e.state /\ e'.stopChan = e.stopChan /\ e'.operatorStopped = e.operatorStopped
        /\ e'.sourceRunID = e.sourceRunID /\ e'.inputLost = e.inputLost /\ e'.consumersStopped = e.consumersStopped
    <3>1. e \in EncoderFields /\ 0 \in 0..MaxCalls
      BY EncoderAssumption DEF IInv, TypeOK
    <3>. QED BY <2>6, <3>1 DEF EncoderFields
  <2>8. TypeOK'
    BY <1>1, <2>5, <2>7 DEF IInv, TypeOK, Becoming
  <2>9. CallsShape'
    BY <1>1, <2>3, <2>5, <2>7, Counts DEF IInv, CallsInv, CallsShape, Becoming
  <2>10. StartsCounted'
    <3>1. MayStart' \subseteq MayStart \cup {c}
      BY <2>5 DEF MayStart, Becoming
    <3>2. StartsLeft' \in Nat /\ StartsLeft' <= StartsLeft + 1
      BY <3>1, OneMoreOrLess
    <3>3. AgainLeft = 1 /\ AgainLeft' = 0
      BY <2>3, <2>7 DEF AgainLeft
    <3>. QED BY <1>1, <2>7, <3>2, <3>3, Counts DEF StartsCounted
  <2>11. StopHolds'
    BY <1>1, <2>3, <2>5, <2>7 DEF StopHolds, IsStopping, Becoming, IInv, CallsInv
  <2>12. WishApplies'
    <3>1. \A d \in Procs : call'[d].sync = call[d].sync
      BY <1>1, <2>5 DEF Becoming
    <3>. QED BY <1>1, <2>7, <3>1, WishStays
  <2>13. StreamsEnd'
    BY <1>1, <2>7 DEF StreamsEnd, IsStopping, IInv, CallsInv
  <2>14. OneLoop' /\ RunsCounted' /\ OutageReported'
    BY <1>1, <2>7, CallKeepsLoop DEF CallFrame, IsStopping
  <2>15. RestartComes'
    BY <1>1, <2>5, <2>7 DEF RestartComes, IsStopping, Becoming, IInv, LoopInv
  <2>. QED BY <2>8, <2>9, <2>10, <2>11, <2>12, <2>13, <2>14, <2>15 DEF IInv, CallsInv, LoopInv
<1>3. CASE ~again
  <2>1. call' = [call EXCEPT ![c] = Idle]
    BY <1>3 DEF Returns
  <2>2. Idle \in CallFields /\ Idle.runs = "nothing" /\ Idle.pc = "idle" /\ Idle.gen = 0 /\ Idle.sync = "no"
    BY EncoderAssumption DEF Idle, CallFields
  <2>3. Becoming(c, Idle)
    BY <2>1, <2>2, CallBecomes
  <2>4. /\ e' \in EncoderFields /\ e'.gen = e.gen /\ e'.recordingWanted = e.recordingWanted
        /\ e'.state = e.state /\ e'.stopChan = e.stopChan /\ e'.operatorStopped = e.operatorStopped
        /\ e'.sourceRunID = e.sourceRunID /\ e'.inputLost = e.inputLost /\ e'.consumersStopped = e.consumersStopped
        /\ c # Background => UNCHANGED e
        /\ c = Background => e'.restarting = FALSE /\ e'.restartAgain = FALSE /\ e'.restartAgainGen = 0 /\ ~e.restartAgain
    <3>1. CASE c # Background
      BY <3>1 DEF Returns, IInv, TypeOK
    <3>2. CASE c = Background
      <4>1. e' = [e EXCEPT !.restarting = FALSE, !.restartAgain = FALSE, !.restartAgainGen = 0] /\ ~e.restartAgain
        BY <1>3, <3>2 DEF Returns
      <4>2. e \in EncoderFields /\ 0 \in 0..MaxCalls
        BY EncoderAssumption DEF IInv, TypeOK
      <4>. QED BY <3>2, <4>1, <4>2 DEF EncoderFields
    <3>. QED BY <3>1, <3>2
  <2>5. TypeOK'
    BY <1>1, <2>3, <2>4 DEF IInv, TypeOK, Becoming
  <2>6. CallsShape'
    <3>1. CASE c # Background
      BY <1>1, <2>2, <2>3, <2>4, <3>1, Counts DEF IInv, CallsInv, CallsShape, Becoming, Procs
    <3>2. CASE c = Background
      BY <1>1, <2>2, <2>3, <2>4, <3>2, Counts DEF IInv, CallsInv, CallsShape, Becoming, Procs
    <3>. QED BY <3>1, <3>2
  <2>7. StartsCounted'
    <3>1. MayStart' \subseteq MayStart
      BY <2>2, <2>3 DEF MayStart, Becoming
    <3>2. StartsLeft' \in Nat /\ StartsLeft' <= StartsLeft
      BY <3>1, OneMoreOrLess
    <3>3. AgainLeft' = AgainLeft
      BY <2>4 DEF AgainLeft
    <3>. QED BY <1>1, <2>4, <3>2, <3>3, Counts DEF StartsCounted
  <2>8. StopHolds'
    BY <1>1, <2>2, <2>3, <2>4 DEF StopHolds, IsStopping, Becoming, IInv, CallsInv
  <2>9. WishApplies'
    <3>1. \A d \in Procs : call'[d].sync = call[d].sync
      BY <1>1, <2>2, <2>3 DEF Becoming
    <3>. QED BY <1>1, <2>4, <3>1, WishStays
  <2>10. StreamsEnd'
    BY <1>1, <2>4 DEF StreamsEnd, IsStopping, IInv, CallsInv
  <2>11. OneLoop' /\ RunsCounted' /\ OutageReported'
    BY <1>1, <2>4, CallKeepsLoop DEF CallFrame, IsStopping
  <2>12. RestartComes'
    BY <1>1, <2>3, <2>4 DEF RestartComes, IsStopping, Becoming, IInv, LoopInv
  <2>. QED BY <2>5, <2>6, <2>7, <2>8, <2>9, <2>10, <2>11, <2>12 DEF IInv, CallsInv, LoopInv
<1>. QED BY <1>2, <1>3

-------------------------------------------------------------------------------
(* The invariant                                                           *)

\* New makes a stopped encoder.
LEMMA IInvInit == Init => IInv
<1> SUFFICES ASSUME Init PROVE IInv
  OBVIOUS
<1>1. /\ e.state = "stopped" /\ e.gen = 0 /\ ~e.operatorStopped /\ ~e.recordingWanted /\ e.stopChan = 0
      /\ e.sourceRunID = 0 /\ ~e.restarting /\ ~e.restartAgain /\ e.restartAgainGen = 0
      /\ e \in EncoderFields /\ (heard = "lost" <=> e.inputLost) /\ heard \in {"none", "lost"}
  BY EncoderAssumption DEF Init, EncoderFields, Runs
<1>2. Idle \in CallFields /\ Idle.runs = "nothing" /\ Idle.pc = "idle" /\ Idle.gen = 0 /\ Idle.sync = "no"
  BY EncoderAssumption DEF Idle, CallFields
<1>3. call = [c \in Procs |-> Idle] /\ loop = [s \in Starts |-> [pc |-> "none", input |-> 0]]
  BY DEF Init
<1>4. TypeOK
  <2>1. loop \in [Starts -> LoopFields] /\ call \in [Procs -> CallFields]
    BY <1>2, <1>3, EncoderAssumption DEF LoopFields, Inputs
  <2>2. gate \in Procs \cup {None} /\ recording \in BOOLEAN /\ stream \in BOOLEAN /\ starter \subseteq StarterFields
    BY DEF Init
  <2>3. input \in Inputs /\ requests \in Inputs /\ asked \in Inputs
    BY EncoderAssumption DEF Init, Inputs
  <2>4. calls \in 0..MaxCalls /\ edits \in 0..MaxEdits /\ faults \in 0..MaxFaults /\ wish \in {"on", "off"}
    BY EncoderAssumption DEF Init
  <2>. QED BY <1>1, <2>1, <2>2, <2>3, <2>4 DEF TypeOK
<1>5. CallsShape
  BY <1>1, <1>2, <1>3, EncoderAssumption DEF Init, CallsShape, Procs
<1>6. StartsCounted
  <2>1. MayStart = {}
    BY <1>2, <1>3 DEF MayStart
  <2>2. StartsLeft = 0 /\ AgainLeft = 0
    BY <1>1, <2>1, FS_EmptySet DEF StartsLeft, AgainLeft
  <2>. QED BY <1>1, <2>2 DEF Init, StartsCounted, Inputs
<1>7. StopHolds /\ StreamsEnd
  BY DEF Init, StopHolds, StreamsEnd
<1>8. WishApplies
  <2>1. \A c \in Procs : call[c].sync = "no"
    BY <1>2, <1>3
  <2>2. recording = FALSE /\ e.recordingWanted = FALSE
    BY DEF Init
  <2>. QED BY <2>1, <2>2 DEF WishApplies
<1>9. OneLoop
  BY <1>1, <1>3 DEF OneLoop, Starts
<1>10. RunsCounted
  BY <1>1 DEF Init, RunsCounted, IsStopping
<1>11. OutageReported /\ RestartComes
  BY <1>1, <1>3 DEF OutageReported, RestartComes, Open
<1>. QED BY <1>4, <1>5, <1>6, <1>7, <1>8, <1>9, <1>10, <1>11 DEF IInv, CallsInv, LoopInv

\* Every step preserves the invariant.
LEMMA IInvNext == IInv /\ [Next]_vars => IInv'
<1> SUFFICES ASSUME IInv, [Next]_vars PROVE IInv'
  OBVIOUS
<1>1. CASE Requests
  BY <1>1, StartInv, StopInv, RestartInv, SaveInputInv, StreamEditsInv DEF Requests
<1>2. CASE RestartInBackground
  BY <1>2, RestartInBackgroundInv
<1>3. CASE StopCompletes
  BY <1>3, StopCompletesInv
<1>4. ASSUME NEW c \in Procs, CallStep(c) PROVE IInv'
  BY <1>4, StopAllInv, WaitsInv, RestartStopsInv, RestartStartsInv, SyncReadsInv, SyncAppliesInv, ReturnsInv
     DEF CallStep
<1>5. ASSUME NEW s \in Starts, LoopStep(s) \/ ConfirmInput(s) \/ SourceEnds(s, FALSE) PROVE IInv'
  BY <1>5, OpensSourceInv, OpenFailsInv, PublishSourceInv, ReportRestoredInv, SourceEndsInv, SourceFailedInv,
     ReportLostInv, BackoffEndsInv, ConfirmInputInv DEF LoopStep
<1>6. ASSUME NEW x \in starter, StarterStep(x) PROVE IInv'
  BY <1>6, StarterStepInv
<1>7. CASE UNCHANGED vars
  <2>1. UNCHANGED <<e, loop, call, gate, recording, stream, starter, input, requests, calls, edits, faults, wish, asked, heard>>
    BY <1>7 DEF vars, streams, api
  <2>2. TypeOK'
    BY <2>1 DEF IInv, TypeOK
  <2>3. CallsInv'
    BY <2>1 DEF IInv, CallsInv, CallsShape, StartsCounted, StartsLeft, AgainLeft, MayStart, StopHolds, WishApplies, StreamsEnd, IsStopping
  <2>4. LoopInv'
    BY <2>1 DEF IInv, LoopInv, OneLoop, RunsCounted, OutageReported, RestartComes, IsStopping
  <2>. QED BY <2>2, <2>3, <2>4 DEF IInv
<1>. QED BY <1>1, <1>2, <1>3, <1>4, <1>5, <1>6, <1>7 DEF Next

\* The invariant holds throughout.
LEMMA IInvHolds == Spec => []IInv
<1>1. IInv /\ [Next]_vars => IInv'
  BY IInvNext
<1>. QED BY IInvInit, <1>1, PTL DEF Spec

\* Every variable keeps its type; the counters of starts and runs stay in bounds
\* that follow from the calls, the saved inputs and the faults.
THEOREM TypeCorrect == Spec => []TypeOK
<1>1. IInv => TypeOK
  BY DEF IInv
<1>. QED BY IInvHolds, <1>1, PTL

\* Start waits for a loop that a stop gave up on: at most one source loop is under
\* way, a stopped encoder has none and a running one has a source.
THEOREM OneSourceAtATime == Spec => []OneSource
<1>1. IInv => OneSource
  <2> SUFFICES ASSUME IInv PROVE OneSource
    OBVIOUS
  <2>1. \A s \in Starts : loop[s].pc \notin {"none", "done"} => s = e.stopChan
    BY CurrentLoop DEF AtLoop
  <2>. QED BY <2>1 DEF IInv, LoopInv, OneLoop, OneSource, Open
<1>. QED BY IInvHolds, <1>1, PTL

\* After an explicit Stop, no restart that was requested before it runs the encoder,
\* however many were collapsed or are waiting for the gate.
THEOREM StopSupersedes == Spec => []StopWins
<1>1. IInv => StopWins
  BY DEF IInv, CallsInv, StopHolds, StopWins
<1>. QED BY IInvHolds, <1>1, PTL

\* Once nobody is in syncRecording the recording manager runs exactly when the last
\* Start, Stop or restart wanted it to.
THEOREM RecordingsFollow == Spec => []RecordingFollows
<1>1. IInv => RecordingFollows
  BY DEF IInv, CallsInv, WishApplies, RecordingFollows
<1>. QED BY IInvHolds, <1>1, PTL

\* Once StopAll has run for a stop no stream runs, and no delayed or claimed start
\* brings one up before the next run.
THEOREM StreamsEndWithTheRun == Spec => []StreamsEnd
<1>1. IInv => StreamsEnd
  BY DEF IInv, CallsInv
<1>. QED BY IInvHolds, <1>1, PTL

\* input_lost and input_restored alternate, across stops, starts and a restart of
\* the process in an outage, and tell whether there is one.
THEOREM OutagesReported == Spec => []InputReported
<1>1. IInv => InputReported
  BY DEF IInv, LoopInv, OutageReported, InputReported
<1>. QED BY IInvHolds, <1>1, PTL

\* A source with an input older than a restart was requested for is being stopped,
\* or a restart that no Stop superseded will stop it.
THEOREM OldInputLeaves == Spec => []NewestInput
<1>1. IInv => NewestInput
  BY SMTT(60) DEF IInv, LoopInv, RestartComes, NewestInput, Superseded
<1>. QED BY IInvHolds, <1>1, PTL

-------------------------------------------------------------------------------
(* Beside it, the goroutines of a caller stream                            *)

P == INSTANCE CallerStreamProofs WITH Users <- {}, All <- all

\* The module with the theorems has the same system ...
LEMMA SameSystem == (C!Init <=> P!Init) /\ (C!Next <=> P!Next)
BY ZenonT(60) DEF C!Stoppers, C!Retries, C!Blank, C!IdleWorker, C!IdleStopper, C!Init, C!Garbage, C!Forgotten, C!Becomes, C!Unused, C!Goto, C!Quit, C!At, C!Own, C!Owns, C!Cancel, C!Released, C!Start, C!Active, C!Busy, C!MayClaim, C!Claim, C!Release, C!Drain, C!Exec, C!Publish, C!Reap, C!Begin, C!Top, C!MarkExited, C!Retry, C!SetError, C!RetryCount, C!Incremented, C!HandleExit, C!Record, C!Report, C!Check, C!Count, C!Backoff, C!RemoveIfOwned, C!Drop, C!Returned, C!NothingToStop, C!Stop, C!Emptied, C!Emit, C!Delete, C!Clear, C!EncoderTurns, C!EncoderStops, C!SetEnabled, C!Exits, C!WriterFails, C!WriterEnds, C!Work, C!Shutdown, C!Environment, C!Next,
   P!Stoppers, P!Retries, P!Blank, P!IdleWorker, P!IdleStopper, P!Init, P!Garbage, P!Forgotten, P!Becomes, P!Unused, P!Goto, P!Quit, P!At, P!Own, P!Owns, P!Cancel, P!Released, P!Start, P!Active, P!Busy, P!MayClaim, P!Claim, P!Release, P!Drain, P!Exec, P!Publish, P!Reap, P!Begin, P!Top, P!MarkExited, P!Retry, P!SetError, P!RetryCount, P!Incremented, P!HandleExit, P!Record, P!Report, P!Check, P!Count, P!Backoff, P!RemoveIfOwned, P!Drop, P!Returned, P!NothingToStop, P!Stop, P!Emptied, P!Emit, P!Delete, P!Clear, P!EncoderTurns, P!EncoderStops, P!SetEnabled, P!Exits, P!WriterFails, P!WriterEnds, P!Work, P!Shutdown, P!Environment, P!Next

\* ... and the same properties.
LEMMA SameProperties ==
  P!TypeOK /\ P!NoOrphan /\ P!StoppedIsOver => C!TypeOK /\ C!NoOrphan /\ C!StoppedIsOver
BY DEF C!TypeOK, C!NoOrphan, C!Live, C!StoppedIsOver, C!Retries, C!Stoppers,
       P!TypeOK, P!NoOrphan, P!Live, P!StoppedIsOver, P!Retries, P!Stoppers

\* However many goroutines start, watch and retry a stream against a StopAll: no FFmpeg
\* process is forgotten, and when stream_stopped is emitted the process has exited and its
\* writer is done (claimStream, startCaller, Stop).
THEOREM CallerIsSound == CallsSpec => []CallerSound
<1> DEFINE Inv == which = "caller" => P!Good(m)
<1>1. P!CallerAssumption
  BY CallerStreamAssumption DEF P!CallerAssumption
<1>2. CallsInit => Inv
  BY <1>1, SameSystem, P!InitGood DEF CallsInit
<1>3. Inv /\ [CallsNext]_<<which, vars, m>> => Inv'
  <2> SUFFICES ASSUME Inv, [CallsNext]_<<which, vars, m>>, which' = "caller" PROVE P!Good(m)'
    OBVIOUS
  <2>1. P!Good(m) /\ (P!Next \/ UNCHANGED m)
    BY SameSystem DEF CallsNext
  <2>2. CASE P!Next
    BY <1>1, <2>1, <2>2, P!NextKeeps
  <2>3. CASE UNCHANGED m
    BY <2>1, <2>3
  <2>. QED BY <2>1, <2>2, <2>3
<1>4. Inv => CallerSound
  BY SameProperties, P!GoodSound DEF CallerSound
<1>. QED BY <1>2, <1>3, <1>4, PTL DEF CallsSpec
===============================================================================
