------------------------------- MODULE Encoder --------------------------------
(***************************************************************************)
(* The encoder's lifecycle (internal/encoder/encoder.go): Start, Stop and  *)
(* restarts from several goroutines, the source loop that keeps an audio   *)
(* input open, the recording manager that follows recordingWanted, and the *)
(* delayed starts of the streams.  One action is one section under e.mu,   *)
(* or one step that another goroutine can see.  A wait that is bounded by  *)
(* a timer may end at any time.                                            *)
(***************************************************************************)
EXTENDS Naturals, FiniteSets

CONSTANTS
  Calls,       \* goroutines that run Start, Stop or Restart
  Background,  \* the goroutine of RestartInBackground
  None,        \* nobody holds the restart gate
  HasStream,   \* an enabled stream is configured
  MaxCalls,    \* bound: calls of Start, Stop and Restart
  MaxInput,    \* bound: audio inputs configured one after the other
  MaxEdits,    \* bound: starts and edits of the stream by the API
  MaxFaults    \* bound: sources that end by themselves after they were published

ASSUME EncoderAssumption ==
  /\ IsFiniteSet(Calls) /\ HasStream \in BOOLEAN /\ None # Background /\ {None, Background} \cap Calls = {}
  /\ MaxCalls \in Nat /\ MaxInput \in Nat /\ MaxEdits \in Nat /\ MaxFaults \in Nat

VARIABLES
  e,           \* the fields e.mu protects
  loop,        \* the source loop of each start
  call,        \* Start, Stop and restarts under way
  gate,        \* who holds restartGate
  recording,   \* recordingManager.running
  stream,      \* an enabled stream runs
  starter,     \* starts of that stream under way
  input,       \* the configured audio input, by version; 0: none
  requests,    \* handlers that saved another input and will request a restart
  calls, edits, faults,
  wish,        \* history: what the operator last asked for: "on" or "off"
  asked,       \* history: the newest input a restart was requested for
  heard        \* history: the last input event: "none", "lost" or "restored"

streams == <<stream, starter>>
api     == <<input, requests, calls, edits, faults, wish, asked>>
vars    == <<e, loop, call, gate, recording, streams, api, heard>>

Procs  == Calls \cup {Background}
Starts == 1 .. (MaxCalls + MaxInput)    \* each call or request starts at most once
Inputs == 0 .. MaxInput
Runs   == 0 .. (MaxCalls + MaxInput + MaxFaults)

\* A goroutine: what it runs, where it is, the generation it expects, and its
\* syncRecording: "no", "queued" for recordingMu, or the wish it has read.
Idle == [runs |-> "nothing", pc |-> "idle", gen |-> 0, sync |-> "no"]

\* e.stopChan is identified by the number of the start that made it.
Init ==
  /\ \E lost \in BOOLEAN :     \* New restores an open outage from the event log
       /\ e = [state |-> "stopped", gen |-> 0, operatorStopped |-> FALSE, recordingWanted |-> FALSE,
               stopChan |-> 0, sourceRunID |-> 0, sourceStdout |-> FALSE, consumersStopped |-> TRUE,
               restarting |-> FALSE, restartAgain |-> FALSE, restartAgainGen |-> 0, inputLost |-> lost]
       /\ heard = IF lost THEN "lost" ELSE "none"
  /\ loop = [s \in Starts |-> [pc |-> "none", input |-> 0]]
  /\ call = [c \in Procs |-> Idle]
  /\ gate = None /\ recording = FALSE /\ stream = FALSE /\ starter = {}
  /\ input \in {0, 1} \cap Inputs /\ requests = 0
  /\ calls = 0 /\ edits = 0 /\ faults = 0 /\ wish = "on" /\ asked = 0

Called == calls < MaxCalls /\ calls' = calls + 1 /\ UNCHANGED <<edits, faults>>
Edited == HasStream /\ edits < MaxEdits /\ edits' = edits + 1 /\ UNCHANGED <<calls, faults>>

IsStopping == e.state \in {"stopping", "stopped"}

\* The stop channel of start s is closed.
Closed(s) == s # e.stopChan \/ IsStopping

-------------------------------------------------------------------------------
(* Start, Stop and restarts                                                *)

CanStart == input # 0 /\ e.state = "stopped"

\* start, once its guards have passed: a new stop channel and source loop.
Started ==
  /\ e' = [e EXCEPT !.operatorStopped = FALSE, !.recordingWanted = TRUE, !.state = "starting",
                    !.stopChan = @ + 1]
  /\ loop' = [loop EXCEPT ![e.stopChan + 1].pc = "top"]

\* Start: an explicit one clears operatorStopped whether it succeeds or not;
\* syncRecording follows in any case.
Start(c) ==
  /\ Called /\ call[c].pc = "idle"
  /\ \/ CanStart /\ Started
     \/ ~CanStart /\ e' = [e EXCEPT !.operatorStopped = FALSE] /\ UNCHANGED loop
  /\ call' = [call EXCEPT ![c] = [Idle EXCEPT !.runs = "start", !.pc = "end", !.sync = "queued"]]
  /\ wish' = "on"
  /\ UNCHANGED <<gate, recording, streams, input, requests, asked, heard>>

\* stop, from its look at the state on: w is the encoder and k the goroutine c
\* as the part before left them.  One that finds a stop under way waits for it.
EndRun(w, c, k) ==
  LET ends == w.state \in {"starting", "running"} IN
  /\ e' = IF ends THEN [w EXCEPT !.state = "stopping", !.consumersStopped = FALSE] ELSE w
  /\ call' = [call EXCEPT ![c] =
       [k EXCEPT !.pc = IF ends THEN "stopAll"
                        ELSE IF w.state = "stopped" THEN "waited"
                        ELSE IF w.consumersStopped THEN "wait" ELSE "consumers"]]

\* Stop: recordings end alongside the streams and the source.
Stop(c) ==
  /\ Called /\ call[c].pc = "idle"
  /\ EndRun([e EXCEPT !.gen = @ + 1, !.operatorStopped = TRUE, !.recordingWanted = FALSE],
            c, [Idle EXCEPT !.runs = "stop", !.sync = "queued"])
  /\ wish' = "off"
  /\ UNCHANGED <<loop, gate, recording, streams, input, requests, asked, heard>>

\* Mutated form of StopAll: those who wait for consumersStopped are not told.
StopAllQuietly(c) ==
  /\ call[c].pc = "stopAll"
  /\ stream' = FALSE
  /\ e' = [e EXCEPT !.consumersStopped = TRUE]
  /\ call' = [call EXCEPT ![c].pc = "wait"]
  /\ UNCHANGED <<loop, gate, recording, starter, api, heard>>

\* streamManager.StopAll; whoever waits for consumersStopped goes on.
StopAll(c) ==
  /\ call[c].pc = "stopAll"
  /\ stream' = FALSE
  /\ e' = [e EXCEPT !.consumersStopped = TRUE]
  /\ call' = [d \in Procs |-> IF d = c \/ call[d].pc = "consumers"
                              THEN [call[d] EXCEPT !.pc = "wait"] ELSE call[d]]
  /\ UNCHANGED <<loop, gate, recording, starter, api, heard>>

\* waitForSourceStop: until the stop is complete, or for sourceShutdownTimeout.
StopWaited(c) ==
  /\ call[c].pc = "wait"
  /\ call' = [call EXCEPT ![c].pc = "waited"]
  /\ UNCHANGED <<e, loop, gate, recording, streams, api, heard>>

\* Mutated form of StopCompletes: the source loop is not waited for.
StopCompletesEarly ==
  /\ e.state = "stopping" /\ e.consumersStopped
  /\ e' = [e EXCEPT !.state = "stopped"]
  /\ call' = [d \in Procs |-> IF call[d].pc = "stopDone" THEN [call[d] EXCEPT !.pc = "start"] ELSE call[d]]
  /\ UNCHANGED <<loop, gate, recording, streams, api, heard>>

\* The goroutine stop leaves behind: a timed-out stop keeps Start out until the
\* old loop has ended.  Closing stopDone releases the restarts that wait for it.
StopCompletes ==
  /\ e.state = "stopping" /\ e.consumersStopped
  /\ loop[e.stopChan].pc = "done"
  /\ e' = [e EXCEPT !.state = "stopped"]
  /\ call' = [d \in Procs |-> IF call[d].pc = "stopDone" THEN [call[d] EXCEPT !.pc = "start"] ELSE call[d]]
  /\ UNCHANGED <<loop, gate, recording, streams, api, heard>>

\* Restart, which supersedes an earlier explicit Stop.
Restart(c) ==
  /\ Called /\ call[c].pc = "idle"
  /\ call' = [call EXCEPT ![c] = [Idle EXCEPT !.runs = "restart", !.pc = "gate", !.gen = e.gen]]
  /\ wish' = "on"
  /\ UNCHANGED <<e, loop, gate, recording, streams, input, requests, asked, heard>>

\* Saved settings with another audio input; a request for a restart follows
\* unless storage did not confirm the write.
SaveInput(confirmed) ==
  /\ input < MaxInput /\ input' = input + 1
  /\ requests' = IF confirmed THEN requests + 1 ELSE requests
  /\ UNCHANGED <<e, loop, call, gate, recording, streams, calls, edits, faults, wish, asked, heard>>

\* Mutated form of Collapse: a request made while a restart runs is covered by it.
CollapseIntoRunning == UNCHANGED e

\* Requests made while a restart runs collapse into one more restart.
Collapse == e' = [e EXCEPT !.restartAgain = TRUE, !.restartAgainGen = e.gen]

\* RestartInBackground.
RestartInBackground ==
  LET failedStop == e.state = "stopped" /\ ~e.operatorStopped IN
  /\ requests > 0 /\ requests' = requests - 1
  /\ asked' = input
  /\ \/ /\ e.state \notin {"running", "starting"} /\ ~failedStop
        /\ UNCHANGED <<e, call>>
     \/ /\ e.state \in {"running", "starting"} \/ failedStop
        /\ e.restarting
        /\ Collapse
        /\ UNCHANGED call
     \/ /\ e.state \in {"running", "starting"} \/ failedStop
        /\ ~e.restarting
        /\ e' = [e EXCEPT !.restarting = TRUE]
        /\ call' = [call EXCEPT ![Background] = [Idle EXCEPT !.runs = "restart", !.pc = "gate", !.gen = e.gen]]
  /\ UNCHANGED <<loop, gate, recording, streams, input, calls, edits, faults, wish, heard>>

\* restart: one at a time.
EnterGate(c) ==
  /\ call[c].pc = "gate" /\ gate = None
  /\ gate' = c
  /\ call' = [call EXCEPT ![c].pc = "stop"]
  /\ UNCHANGED <<e, loop, recording, streams, api, heard>>

\* Mutated form of Superseded: a stop in the meantime goes unnoticed.
NeverSuperseded(c) == FALSE

\* An explicit Stop came after the restart was requested.
Superseded(c) == call[c].gen # e.gen

RestartStops(c) ==
  /\ call[c].pc = "stop"
  /\ IF Superseded(c) THEN call' = [call EXCEPT ![c].pc = "waited"] /\ UNCHANGED e
     ELSE EndRun(e, c, call[c])
  /\ UNCHANGED <<loop, gate, recording, streams, api, heard>>

\* The wait for the stopDone of now, and its timeout.
RestartWaits(c) ==
  /\ call[c].runs = "restart"
  /\ \/ /\ call[c].pc = "waited"
        /\ call' = [call EXCEPT ![c].pc = IF e.state = "stopping" THEN "stopDone" ELSE "start"]
     \/ /\ call[c].pc = "stopDone"
        /\ call' = [call EXCEPT ![c].pc = "end"]
  /\ UNCHANGED <<e, loop, gate, recording, streams, api, heard>>

\* start(&generation); one that finds the encoder running leaves the recordings
\* to whoever started it.
RestartStarts(c) ==
  /\ call[c].pc = "start"
  /\ IF CanStart /\ ~Superseded(c) THEN Started ELSE UNCHANGED <<e, loop>>
  /\ LET running == ~Superseded(c) /\ input # 0 /\ e.state # "stopped" IN
     call' = [call EXCEPT ![c].pc = "end", ![c].sync = IF running THEN "no" ELSE "queued"]
  /\ UNCHANGED <<gate, recording, streams, api, heard>>

\* Mutated form of SyncReads: without recordingMu.
SyncReadsUnlocked(c) ==
  /\ call[c].sync = "queued"
  /\ call' = [call EXCEPT ![c].sync = IF e.recordingWanted THEN "on" ELSE "off"]
  /\ UNCHANGED <<e, loop, gate, recording, streams, api, heard>>

\* syncRecording: take recordingMu and read the wish; then apply it.
SyncReads(c) ==
  /\ call[c].sync = "queued" /\ \A d \in Procs : call[d].sync \in {"no", "queued"}
  /\ call' = [call EXCEPT ![c].sync = IF e.recordingWanted THEN "on" ELSE "off"]
  /\ UNCHANGED <<e, loop, gate, recording, streams, api, heard>>

SyncApplies(c) ==
  /\ call[c].sync \in {"on", "off"}
  /\ recording' = (call[c].sync = "on")
  /\ call' = [call EXCEPT ![c].sync = "no"]
  /\ UNCHANGED <<e, loop, gate, streams, api, heard>>

\* Start, Stop or restart returns; restartUntilSettled goes round again when
\* it was asked to.
Returns(c) ==
  LET again == c = Background /\ e.restartAgain IN
  /\ call[c].pc = "end" \/ (call[c].pc = "waited" /\ call[c].runs = "stop")
  /\ call[c].sync = "no"
  /\ gate' = IF gate = c THEN None ELSE gate
  /\ call' = [call EXCEPT ![c] = IF again THEN [@ EXCEPT !.pc = "gate", !.gen = e.restartAgainGen] ELSE Idle]
  /\ e' = IF c = Background THEN [e EXCEPT !.restarting = again, !.restartAgain = FALSE,
                                                !.restartAgainGen = 0] ELSE e
  /\ UNCHANGED <<loop, recording, streams, api, heard>>

-------------------------------------------------------------------------------
(* The source loop of start s                                              *)

Goto(s, pc) == loop' = [loop EXCEPT ![s].pc = pc]

\* The check at the top, reserveSource's, and openSource's look at the input.
\* What is reserved when a stop begins is cancelled by it.
OpensSource(s) ==
  /\ loop[s].pc = "top"
  /\ IF IsStopping THEN Goto(s, "done")
     ELSE loop' = [loop EXCEPT ![s] = [pc |-> "opening", input |-> input]]
  /\ UNCHANGED <<e, call, gate, recording, streams, api, heard>>

\* openSource fails, or a stop cancels it.
OpenFails(s) ==
  /\ loop[s].pc = "opening"
  /\ Goto(s, "ended")
  /\ UNCHANGED <<e, call, gate, recording, streams, api, heard>>

\* Mutated form of DelayedStart: only the first run of the encoder starts streams.
DelayedStartOnce ==
  IF HasStream /\ e.sourceRunID = 0
  THEN {[id |-> 0, pc |-> "delay", run |-> 1, chan |-> e.stopChan]} ELSE {}

\* startEnabledStreamsAfterDelay for the run about to be published.
DelayedStart ==
  IF HasStream THEN {[id |-> 0, pc |-> "delay", run |-> e.sourceRunID + 1, chan |-> e.stopChan]} ELSE {}

\* publishSource; the streams follow after a delay.  (The delayed starts of an
\* earlier run can do nothing any more and are dropped.)
PublishSource(s) ==
  /\ loop[s].pc = "opening"
  /\ IF IsStopping THEN Goto(s, "ended") /\ UNCHANGED <<e, starter>>
     ELSE /\ e' = [e EXCEPT !.sourceRunID = @ + 1, !.sourceStdout = TRUE, !.state = "running"]
          /\ starter' = {x \in starter : x.run = 0} \cup DelayedStart
          /\ Goto(s, "running")
  /\ UNCHANGED <<call, gate, recording, stream, api, heard>>

\* Mutated form of ConfirmInput: a run that is being stopped ends the outage too,
\* but does not report it.
ConfirmAnyRun(s) ==
  /\ loop[s].pc = "running"
  /\ Goto(s, IF e.inputLost /\ e.state = "running" THEN "restoring" ELSE "steady")
  /\ e' = [e EXCEPT !.inputLost = FALSE]
  /\ UNCHANGED <<call, gate, recording, streams, api, heard>>

\* confirmInput, once the run has delivered steady audio.
ConfirmInput(s) ==
  /\ loop[s].pc = "running"
  /\ \/ e.state # "running" /\ Goto(s, "steady") /\ UNCHANGED e
     \/ /\ e.state = "running"
        /\ Goto(s, IF e.inputLost THEN "restoring" ELSE "steady")
        /\ e' = [e EXCEPT !.inputLost = FALSE]
  /\ UNCHANGED <<call, gate, recording, streams, api, heard>>

ReportRestored(s) ==
  /\ loop[s].pc = "restoring"
  /\ heard' = "restored"
  /\ Goto(s, "steady")
  /\ UNCHANGED <<e, call, gate, recording, streams, api>>

\* The source ends: cancelled by a stop, or by itself, or because no audio came.
SourceEnds(s, cancelled) ==
  /\ loop[s].pc \in {"running", "steady"}
  /\ IF cancelled THEN IsStopping /\ UNCHANGED faults
     ELSE faults < MaxFaults /\ faults' = faults + 1
  /\ Goto(s, "ended")
  /\ e' = [e EXCEPT !.sourceStdout = FALSE]
  /\ UNCHANGED <<call, gate, recording, streams, input, requests, calls, edits, wish, asked, heard>>

\* Back in runSourceLoop: the first failure opens an outage.
SourceFailed(s) ==
  /\ loop[s].pc = "ended"
  /\ \/ IsStopping /\ Goto(s, "done") /\ UNCHANGED e
     \/ /\ ~IsStopping
        /\ Goto(s, IF e.inputLost THEN "backoff" ELSE "losing")
        /\ e' = [e EXCEPT !.inputLost = TRUE, !.state = "starting"]
  /\ UNCHANGED <<call, gate, recording, streams, api, heard>>

ReportLost(s) ==
  /\ loop[s].pc = "losing"
  /\ heard' = "lost"
  /\ Goto(s, "backoff")
  /\ UNCHANGED <<e, call, gate, recording, streams, api>>

BackoffEnds(s) ==
  /\ loop[s].pc = "backoff"
  /\ \/ Closed(s) /\ Goto(s, "done")
     \/ Goto(s, "top")
  /\ UNCHANGED <<e, call, gate, recording, streams, api, heard>>

-------------------------------------------------------------------------------
(* Starts of a stream                                                      *)

\* Mutated form of ConsumerStartAllowed: whether the run still runs is not asked.
ConsumerStartAllowedLate(run, chan) ==
  e.stopChan = chan /\ (run = 0 \/ e.sourceRunID = run)

ConsumerStartAllowed(run, chan) ==
  /\ e.state = "running" /\ e.stopChan = chan
  /\ run = 0 \/ (e.sourceRunID = run /\ e.sourceStdout)

Becomes(x, y) == starter' = (starter \ {x}) \cup {y}

\* StartStream by the API: run 0.
StartStream ==
  /\ Edited
  /\ ConsumerStartAllowed(0, e.stopChan)
  /\ starter' = starter \cup {[id |-> edits', pc |-> "claim", run |-> 0, chan |-> e.stopChan]}
  /\ UNCHANGED <<e, loop, call, gate, recording, stream, input, requests, wish, asked, heard>>

\* RestartStream after an edit: stop the stream; see which run there is then.
RestartStream ==
  /\ Edited
  /\ e.state \in {"running", "starting"}
  /\ starter' = starter \cup {[id |-> edits', pc |-> "stop", run |-> 0, chan |-> 0]}
  /\ UNCHANGED <<e, loop, call, gate, recording, stream, input, requests, wish, asked, heard>>

StopStream(x) ==
  /\ x.pc = "stop"
  /\ stream' = FALSE
  /\ Becomes(x, [x EXCEPT !.pc = "bind"])
  /\ UNCHANGED <<e, loop, call, gate, recording, api, heard>>

BindRestart(x) ==
  /\ x.pc = "bind"
  /\ Becomes(x, [x EXCEPT !.pc = "delay", !.run = e.sourceRunID, !.chan = e.stopChan])
  /\ UNCHANGED <<e, loop, call, gate, recording, stream, api, heard>>

\* The delay before a start ends, by its timer or by the stop channel; the start
\* then uses the stop channel of that moment.
DelayEnds(x) ==
  /\ x.pc = "delay"
  /\ \/ Closed(x.chan) /\ starter' = starter \ {x}
     \/ IF ConsumerStartAllowed(x.run, e.stopChan)
        THEN Becomes(x, [x EXCEPT !.pc = "claim", !.chan = e.stopChan])
        ELSE starter' = starter \ {x}
  /\ UNCHANGED <<e, loop, call, gate, recording, stream, api, heard>>

\* claimStream: the run is checked again under the lock StopAll takes.
ClaimStream(x) ==
  /\ x.pc = "claim"
  /\ stream' = (stream \/ ConsumerStartAllowed(x.run, x.chan))
  /\ starter' = starter \ {x}
  /\ UNCHANGED <<e, loop, call, gate, recording, api, heard>>

-------------------------------------------------------------------------------
Requests ==
  \/ \E c \in Calls : Start(c) \/ Stop(c) \/ Restart(c)
  \/ \E confirmed \in BOOLEAN : SaveInput(confirmed)
  \/ StartStream \/ RestartStream

CallStep(c) ==
  \/ StopAll(c) \/ StopWaited(c) \/ EnterGate(c) \/ RestartStops(c) \/ RestartWaits(c)
  \/ RestartStarts(c) \/ SyncReads(c) \/ SyncApplies(c) \/ Returns(c)

LoopStep(s) ==
  \/ OpensSource(s) \/ OpenFails(s) \/ PublishSource(s) \/ ReportRestored(s)
  \/ SourceEnds(s, TRUE) \/ SourceFailed(s) \/ ReportLost(s) \/ BackoffEnds(s)

StarterStep(x) == StopStream(x) \/ BindRestart(x) \/ DelayEnds(x) \/ ClaimStream(x)

Next ==
  \/ Requests \/ RestartInBackground \/ StopCompletes
  \/ \E c \in Procs : CallStep(c)
  \/ \E s \in Starts : LoopStep(s) \/ ConfirmInput(s) \/ SourceEnds(s, FALSE)
  \/ \E x \in starter : StarterStep(x)

Spec == Init /\ [][Next]_vars

\* Goroutines keep going: StopAll kills what does not end, a cancelled source
\* is killed after its WaitDelay, and timers go off.
Fairness ==
  /\ WF_vars(RestartInBackground) /\ WF_vars(StopCompletes)
  /\ \A c \in Procs : WF_vars(CallStep(c))
  /\ \A s \in Starts : WF_vars(LoopStep(s))
  /\ WF_vars(\E x \in starter : StarterStep(x))

FairSpec == Spec /\ Fairness

-------------------------------------------------------------------------------
(* Properties                                                              *)

Open == {"opening", "running", "restoring", "steady"}

EncoderFields ==
  [state : {"stopped", "starting", "running", "stopping"}, gen : 0..MaxCalls,
   operatorStopped : BOOLEAN, recordingWanted : BOOLEAN, stopChan : {0} \cup Starts, sourceRunID : Runs,
   sourceStdout : BOOLEAN, consumersStopped : BOOLEAN, restarting : BOOLEAN, restartAgain : BOOLEAN,
   restartAgainGen : 0..MaxCalls, inputLost : BOOLEAN]
LoopFields == [pc : Open \cup {"none", "top", "ended", "losing", "backoff", "done"}, input : Inputs]
CallFields ==
  [runs : {"nothing", "start", "stop", "restart"},
   pc : {"idle", "gate", "stop", "stopAll", "consumers", "wait", "waited", "stopDone", "start", "end"},
   gen : 0..MaxCalls, sync : {"no", "queued", "on", "off"}]
StarterFields == [id : 0..MaxEdits, pc : {"stop", "bind", "delay", "claim"}, run : Runs, chan : {0} \cup Starts]

\* Type invariant.
TypeOK ==
  /\ e \in EncoderFields /\ loop \in [Starts -> LoopFields] /\ call \in [Procs -> CallFields]
  /\ gate \in Procs \cup {None} /\ recording \in BOOLEAN /\ stream \in BOOLEAN
  /\ starter \subseteq StarterFields
  /\ input \in Inputs /\ requests \in Inputs
  /\ calls \in 0..MaxCalls /\ edits \in 0..MaxEdits /\ faults \in 0..MaxFaults
  /\ wish \in {"on", "off"} /\ asked \in Inputs
  /\ heard \in {"none", "lost", "restored"}

\* A timed-out stop keeps Start out until the old loop has ended: two loops never
\* open the input at once, a stopped encoder has none, and one that says it runs
\* has a source.
OneSource ==
  /\ \A s, q \in Starts : loop[s].pc \notin {"none", "done"} /\ loop[q].pc \notin {"none", "done"} => s = q
  /\ e.state = "stopped" => \A s \in Starts : loop[s].pc \in {"none", "done"}
  /\ e.state = "running" =>
       \E s \in Starts : s = e.stopChan /\ loop[s].pc \in (Open \ {"opening"}) \cup {"ended"}

\* RestartInBackground: an explicit Stop supersedes the restarts requested before
\* it; after it only a later Start or Restart runs the encoder.
StopWins == wish = "off" => IsStopping

\* R1: once nobody is in syncRecording the recordings follow the last wish,
\* however Start, Stop and restarts overtook each other; a restart never ends them.
RecordingFollows ==
  (\A c \in Procs : call[c].sync = "no") => recording = e.recordingWanted

\* No stream is left, or started late, once StopAll has run for a stop.
StreamsEnd == IsStopping /\ e.consumersStopped => ~stream

\* input_lost and input_restored alternate, across Stop, Start and restarts of
\* the process, and an outage that is open has been reported.
InputReported ==
  LET at(pc) == \E s \in Starts : loop[s].pc = pc IN
  /\ at("losing") => heard # "lost"
  /\ at("restoring") => heard = "lost"
  /\ ~at("losing") /\ ~at("restoring") => (heard = "lost" <=> e.inputLost)

\* RestartInBackground: a source with an older input than a restart was requested
\* for is being stopped, or a restart that will stop it is under way or to come.
NewestInput ==
  (\E s \in Starts : loop[s].pc \in Open /\ loop[s].input < asked) =>
    \/ IsStopping \/ e.restartAgain
    \/ \E c \in Procs : call[c].pc \in {"gate", "stop"} /\ ~Superseded(c)

\* Every Start, Stop and restart returns: the gate, recordingMu and the waits for
\* each other's stop never leave everyone waiting.
CallsReturn == \A c \in Procs : call[c].pc # "idle" ~> call[c].pc = "idle"

\* RestartStream: while the encoder runs an enabled stream comes back after an
\* edit, also when a source run begins or ends in the middle of it.
StreamComesBack == e.state = "running" ~> (stream \/ e.state # "running")
===============================================================================
