------------------------------- MODULE Recorder -------------------------------
(***************************************************************************)
(* One recorder (internal/recording: recorder.go, recorder_run.go): a loop *)
(* goroutine owns the run, and everything else posts work to it: the API,  *)
(* timers, and the helpers that prepare a segment (a file and its FFmpeg), *)
(* write audio into it and finalize it.  Posts of different goroutines     *)
(* reach the loop in any order.  One action is one function the loop runs, *)
(* or one step of a helper.  What becomes of a finalized file is Outbox.   *)
(***************************************************************************)
EXTENDS Naturals, FiniteSets

CONSTANTS
  Outs,      \* output settings (codec, storage, destination) a segment can have
  Limits,    \* whether the settings limit the duration of on-demand runs
  Jobs,      \* bound: segments under way, from preparation to finalization
  Timers,    \* bound: timers armed or fired but not yet handled
  None       \* no segment, no preparation, no timer

ASSUME RecorderAssumption ==
  Limits \subseteq BOOLEAN /\ None \notin Jobs /\ None \notin Timers /\ IsFiniteSet(Jobs)

VARIABLE
  r          \* the GenericRecorder: its run, its helpers and its capture path

Modes  == {"hourly", "ondemand"}
Config == [enabled : BOOLEAN, mode : Modes, out : Outs]

\* A segment from the request to prepare it until the loop has heard of its end.
Stages == {"free", "clock", "opening", "opened", "broken", "abandoned",
           "live", "draining", "ending", "failing", "drained", "spoiled"}

\* retire's helper is finalizing the segment; its report waits for the loop.
Finalizing == {"draining", "ending", "failing", "drained", "spoiled"}

\* A timer knows its slot and what to do; a fired one waits for the loop.
NoTimer == [id |-> None, does |-> "nothing"]

\* The settings of a segment that is no longer written to do not matter.
AnyOut == CHOOSE o \in Outs : TRUE

Init ==
  r \in [cfg : Config, limited : Limits,         \* maxMinutes is not 0
         active : {FALSE}, state : {"stopped"}, err : {FALSE},
         seg : {None}, next : {None}, retiring : {0}, restart : {FALSE},
         stopOpen : {FALSE},                       \* l.stopped is not closed
         hourly : {NoTimer}, duration : {NoTimer},
         fired : {{}},                             \* timer callbacks waiting for the loop
         recording : {FALSE}, audioCh : {None},    \* where WriteAudio puts capture
         stage : {[j \in Jobs |-> "free"]},
         out : {[j \in Jobs |-> AnyOut]},          \* job.cfg, seg.cfg
         warned : {{}},                            \* jobs that found the clock unsynchronized
         broken : {{}},                            \* writeFailed calls waiting for the loop
         closing : {"no"}]

-------------------------------------------------------------------------------
(* The loop's functions, from the recorder before to the recorder after    *)

Free(w)        == {j \in Jobs : w.stage[j] = "free"}
FreeTimers(w)  == Timers \ ({w.hourly.id, w.duration.id} \cup {t.id : t \in w.fired})

\* What the bounds leave room for.
JobRoom   == Free(r) # {}
TimerRoom == FreeTimers(r) # {}

\* arm: the timer replaces the one in its slot.
Arm(w, does) == [id |-> CHOOSE t \in FreeTimers(w) : TRUE, does |-> does]

\* prepare: the next segment, with the settings of now; it supersedes one
\* already being prepared.  Only the first one of a run waits for the clock.
Prepare(w) ==
  LET j == CHOOSE j \in Free(w) : TRUE IN
  [w EXCEPT !.next = j, !.out[j] = w.cfg.out,
            !.stage[j] = IF w.state = "starting" THEN "clock" ELSE "opening"]

StartRun(w) ==
  IF w.state \in {"stopped", "error"}
  THEN Prepare([w EXCEPT !.hourly = NoTimer, !.state = "starting"])
  ELSE w

\* Mutated form of StartHourly: a stop in progress is not followed by a start.
StartHourlyOnce(w) ==
  IF ~w.active \/ ~w.cfg.enabled \/ w.cfg.mode # "hourly" THEN w ELSE StartRun(w)

StartHourly(w) ==
  IF ~w.active \/ ~w.cfg.enabled \/ w.cfg.mode # "hourly" THEN w
  ELSE IF w.state = "stopping" THEN [w EXCEPT !.restart = TRUE]
  ELSE StartRun(w)

\* endRun: capture stops, timers are cancelled, a preparation becomes stale.
EndRun(w, state) ==
  [w EXCEPT !.state = state, !.recording = FALSE, !.next = None,
            !.hourly = NoTimer, !.duration = NoTimer]

\* Mutated form of FinishStop: segments still being finalized are not waited for.
FinishStopEarly(w) ==
  IF w.state # "stopping" THEN w
  ELSE [w EXCEPT !.state = "stopped", !.stopOpen = FALSE, !.restart = FALSE]

\* finishStop: complete the stop once no segment is being finalized.
FinishStop(w) ==
  IF w.state # "stopping" \/ w.retiring > 0 THEN w
  ELSE LET stopped == [w EXCEPT !.state = "stopped", !.stopOpen = FALSE, !.restart = FALSE] IN
       IF w.restart THEN StartHourly(stopped) ELSE stopped

\* retire: a helper finalizes segment j; how says whether its writer failed.
Retire(w, j, how) == [w EXCEPT !.retiring = @ + 1, !.stage[j] = how, !.out[j] = AnyOut]

\* The loop or a helper is done with segment j.
Release(w, j) == [w EXCEPT !.stage[j] = "free", !.out[j] = AnyOut]

Stop(w) ==
  LET quiet == [w EXCEPT !.restart = FALSE]
      ended == [EndRun(quiet, "stopping") EXCEPT !.stopOpen = TRUE, !.err = FALSE]
      idle  == [ended EXCEPT !.seg = None, !.audioCh = None]
  IN IF w.state \in {"stopped", "stopping"} THEN quiet
     ELSE FinishStop(IF w.seg = None THEN ended ELSE Retire(idle, w.seg, "draining"))

\* fail: an hourly recorder tries again at the next hour.
Fail(w) ==
  LET ended == EndRun(w, "error") IN
  IF w.cfg.mode = "hourly" THEN [ended EXCEPT !.hourly = Arm(ended, "retry")] ELSE ended

ScheduleRotation(w) == [w EXCEPT !.hourly = Arm(w, "rotate")]
ArmDurationLimit(w) == IF w.limited THEN [w EXCEPT !.duration = Arm(w, "limit")] ELSE w

\* begin: capture goes to segment j from now on.
Begin(w, j) == [w EXCEPT !.seg = j, !.err = FALSE, !.audioCh = j, !.stage[j] = "live"]

\* applyConfig, when the recorder is running and the recording mode changes.
SwitchMode(w, old) ==
  IF w.state # "running" \/ w.cfg.mode = old.mode THEN w
  ELSE IF w.cfg.mode = "hourly" THEN ScheduleRotation([w EXCEPT !.duration = NoTimer])
  ELSE ArmDurationLimit([w EXCEPT !.hourly = NoTimer, !.next = None])

\* Mutated form of SwitchOutput: only the current segment is looked at.
SwitchOutputCurrent(w, old) ==
  IF w.state = "running" /\ w.out[w.seg] # w.cfg.out THEN Prepare(w) ELSE w

\* applyConfig: a segment being prepared has the output of the old settings;
\* without one the current segment's output is what runs.
SwitchOutput(w, old) ==
  LET planned == IF w.next = None THEN w.out[w.seg] ELSE old.out IN
  IF w.state \in {"running", "starting"} /\ planned # w.cfg.out THEN Prepare(w) ELSE w

ApplyConfig(w, c) ==
  LET old == w.cfg  new == [w EXCEPT !.cfg = c] IN
  IF ~c.enabled \/ (c.mode # "hourly" /\ w.state = "error") THEN Stop(new)
  ELSE StartHourly(SwitchOutput(SwitchMode(new, old), old))

-------------------------------------------------------------------------------
(* Commands: the API and the recording manager                             *)

Alive == r.closing # "exited"

Activate ==
  /\ r.closing = "no" /\ JobRoom
  /\ r' = StartHourly([r EXCEPT !.active = TRUE])

Deactivate ==
  /\ Alive
  /\ r' = Stop([r EXCEPT !.active = FALSE])

StartOnDemand ==
  /\ Alive /\ JobRoom
  /\ r.active /\ r.cfg.mode # "hourly" /\ r.cfg.enabled
  /\ r' = StartRun(r)

StopOnDemand ==
  /\ Alive
  /\ r.cfg.mode # "hourly" /\ r.state \in {"running", "starting"}
  /\ r' = Stop(r)

Update(c) ==
  /\ Alive /\ JobRoom /\ TimerRoom
  /\ r' = ApplyConfig(r, c)

\* SetMaxDurationMinutes, of the manager; 0 is no limit.
SetMaxDuration(limited) ==
  /\ Alive
  /\ r' = [r EXCEPT !.limited = limited]

\* close, which the manager calls on a recorder it has let go of: stop; then
\* quit, when the stop is done or took too long.
CloseBegins ==
  /\ r.closing = "no"
  /\ r' = [Stop([r EXCEPT !.active = FALSE]) EXCEPT !.closing = "waiting"]

CloseQuits ==
  /\ r.closing = "waiting"
  /\ r' = [r EXCEPT !.closing = "quit"]

\* The loop's select takes the quit; other waiters of the stop are released.
LoopExits ==
  /\ r.closing = "quit"
  /\ r' = [r EXCEPT !.closing = "exited", !.stopOpen = FALSE]

-------------------------------------------------------------------------------
(* Helpers, timers and what they post                                      *)

\* waitForClock: give up when the start was cancelled; otherwise go on once the
\* clock is synchronized, with the settings of that moment if it was not at first.
ClockPoll(j, synced) ==
  /\ r.stage[j] = "clock"
  /\ \/ /\ r.next # j \/ ~Alive
        /\ r' = Release([r EXCEPT !.warned = @ \ {j}], j)
     \/ /\ r.next = j /\ Alive /\ ~synced
        /\ r' = [r EXCEPT !.warned = @ \cup {j}, !.err = TRUE]
     \/ /\ r.next = j /\ Alive /\ synced
        /\ r' = [r EXCEPT !.stage[j] = "opening", !.warned = @ \ {j},
                          !.out[j] = IF j \in r.warned THEN r.cfg.out ELSE @]

\* openSegment: reserve a file and start FFmpeg.  A removed recorder starts
\* nothing any more, and the helper cleans up what the loop cannot take.
OpenSegment(j, ok) ==
  /\ r.stage[j] = "opening"
  /\ \/ Alive /\ r' = [r EXCEPT !.stage[j] = IF ok THEN "opened" ELSE "broken"]
     \/ ~Alive /\ r' = Release(r, j)

\* The error branch of prepared: without an encoder the run has failed; the
\* current encoder keeps its file.
NotPrepared(w) ==
  IF w.seg = None THEN [Fail(w) EXCEPT !.err = TRUE]
  ELSE LET told == [w EXCEPT !.err = TRUE] IN
       IF w.cfg.mode = "hourly" THEN ScheduleRotation(told) ELSE told

\* The new segment begins; the previous one is retired after it.
TakeOn(w, j) ==
  LET begun   == Begin(w, j)
      started == [begun EXCEPT !.state = "running", !.recording = TRUE]
      running == IF w.seg # None THEN Retire(begun, w.seg, "draining")
                 ELSE IF w.cfg.mode = "hourly" THEN started ELSE ArmDurationLimit(started)
  IN IF w.cfg.mode = "hourly" THEN ScheduleRotation(running) ELSE running

\* prepared: only the latest preparation counts.
Prepared(j) ==
  LET w == [r EXCEPT !.next = None] IN
  /\ Alive /\ r.stage[j] \in {"opened", "broken"} /\ (r.next = j => TimerRoom)
  /\ r' = IF r.next # j
          THEN IF r.stage[j] = "opened" THEN [r EXCEPT !.stage[j] = "abandoned"] ELSE Release(r, j)
          ELSE IF r.stage[j] = "opened" THEN TakeOn(w, j)
          ELSE NotPrepared(Release(w, j))

\* Mutated form of Abandon: that the loop has ended goes unnoticed.
AbandonIfTold(j) ==
  /\ r.stage[j] = "abandoned"
  /\ r' = Release(r, j)

\* abandon: kill the process and discard the reservation; by the helper itself
\* when the loop has ended.
Abandon(j) ==
  /\ r.stage[j] = "abandoned" \/ (r.stage[j] \in {"opened", "broken"} /\ ~Alive)
  /\ r' = Release(r, j)

\* audioWriter: FFmpeg broke; the loop is told.
WriterFails(j) ==
  /\ r.stage[j] \in {"live", "draining"} /\ j \notin r.broken
  /\ r' = [r EXCEPT !.broken = @ \cup {j}]

\* Mutated form of WriteFailed: the current segment is failed for any other one.
WriteFailedAny(j) ==
  LET heard == [r EXCEPT !.broken = @ \ {j}, !.seg = None, !.audioCh = None] IN
  /\ Alive /\ j \in r.broken /\ TimerRoom
  /\ r' = Retire([Fail(heard) EXCEPT !.err = TRUE], j, "failing")

\* writeFailed: a segment that is not the current one is finished elsewhere.
WriteFailed(j) ==
  LET heard == [r EXCEPT !.broken = @ \ {j}]
      alone == [heard EXCEPT !.seg = None, !.audioCh = None]
  IN /\ Alive /\ j \in r.broken /\ (r.seg = j => TimerRoom)
     /\ r' = IF r.seg # j THEN [heard EXCEPT !.stage[j] = "ending"]
             ELSE Retire([Fail(alone) EXCEPT !.err = TRUE], j, "failing")

\* startSync: a failed sync of the current segment is a status warning.
SyncFails(j) ==
  /\ Alive /\ r.seg = j /\ r' = [r EXCEPT !.err = TRUE]

\* finishEncoder and finishOutput, in a helper, once the writer is done: one
\* that reports a failure waits for the loop.
FinishEncoder(j, ok) ==
  /\ \/ r.stage[j] = "draining" /\ (j \notin r.broken \/ ~Alive)
     \/ r.stage[j] = "ending" \/ (r.stage[j] = "failing" /\ ~ok)
  /\ r' = [r EXCEPT !.stage[j] = IF ok THEN "drained" ELSE "spoiled", !.broken = @ \ {j}]

\* Retire's report to the loop.
Retired(j) ==
  /\ r.stage[j] \in {"drained", "spoiled"}
  /\ \/ /\ Alive
        /\ r' = FinishStop([Release(r, j) EXCEPT !.retiring = @ - 1,
                                                 !.err = @ \/ r.stage[j] = "spoiled"])
     \/ ~Alive /\ r' = Release(r, j)

\* A timer of a slot fires: its callback is posted to the loop.
Fire(slot) ==
  /\ Alive
  /\ \/ /\ slot = "hourly" /\ r.hourly # NoTimer
        /\ \A t \in r.fired : t.id # r.hourly.id
        /\ r' = [r EXCEPT !.fired = @ \cup {r.hourly}]
     \/ /\ slot = "duration" /\ r.duration # NoTimer
        /\ \A t \in r.fired : t.id # r.duration.id
        /\ r' = [r EXCEPT !.fired = @ \cup {r.duration}]

\* arm's callback: the timer is still the one in its slot.
Current(t) == t \in {r.hourly, r.duration}

\* The loop runs a fired timer's function.
TimerRuns(t) ==
  LET heard == [r EXCEPT !.fired = @ \ {t}]
      w == IF t.does = "limit" THEN [heard EXCEPT !.duration = NoTimer]
           ELSE [heard EXCEPT !.hourly = NoTimer]
  IN /\ Alive /\ t \in r.fired /\ (Current(t) /\ t.does # "limit" => JobRoom)
     /\ r' = CASE ~Current(t) -> heard
               [] Current(t) /\ t.does = "limit"  -> Stop(w)
               [] Current(t) /\ t.does = "rotate" -> Prepare(w)
               [] Current(t) /\ t.does = "retry"  -> StartHourly(w)

-------------------------------------------------------------------------------
Commands ==
  \/ Activate \/ Deactivate \/ StartOnDemand \/ StopOnDemand
  \/ \E c \in Config : Update(c)
  \/ \E b \in Limits : SetMaxDuration(b)
  \/ CloseBegins

Helper(j) ==
  \/ \E b \in BOOLEAN : ClockPoll(j, b) \/ OpenSegment(j, b) \/ FinishEncoder(j, b)
  \/ Prepared(j) \/ Abandon(j) \/ WriteFailed(j) \/ Retired(j)

Timing == \E s \in {"hourly", "duration"} : Fire(s)

Faults == \E j \in Jobs : WriterFails(j) \/ SyncFails(j)

Next ==
  \/ Commands \/ CloseQuits \/ LoopExits
  \/ \E j \in Jobs : Helper(j)
  \/ \E t \in r.fired : TimerRuns(t)
  \/ Timing \/ Faults

Spec == Init /\ [][Next]_r

\* The runtime keeps running the helpers and the loop, timers go off, and close
\* waits for a limited time (recorderCloseTimeout).
Fairness ==
  /\ WF_r(CloseQuits) /\ WF_r(LoopExits) /\ WF_r(Timing)
  /\ \A t \in [id : Timers, does : {"rotate", "retry", "limit"}] : WF_r(TimerRuns(t))
  /\ \A j \in Jobs : WF_r(Helper(j))

FairSpec == Spec /\ Fairness

-------------------------------------------------------------------------------
(* Properties                                                              *)

TimersOf(does) == [id : Timers, does : does] \cup {NoTimer}

\* Type invariant.
TypeOK ==
  r \in [cfg : Config, limited : BOOLEAN, active : BOOLEAN,
         state : {"stopped", "starting", "running", "stopping", "error"}, err : BOOLEAN,
         seg : Jobs \cup {None}, next : Jobs \cup {None}, retiring : 0..Cardinality(Jobs),
         restart : BOOLEAN, stopOpen : BOOLEAN,
         hourly : TimersOf({"rotate", "retry"}), duration : TimersOf({"limit"}),
         fired : SUBSET [id : Timers, does : {"rotate", "retry", "limit"}],
         recording : BOOLEAN, audioCh : Jobs \cup {None},
         stage : [Jobs -> Stages], out : [Jobs -> Outs],
         warned : SUBSET Jobs, broken : SUBSET Jobs,
         closing : {"no", "waiting", "quit", "exited"}]

\* begin, make-before-break: while the recorder reports running, capture goes to
\* one live encoder, the current segment; otherwise nowhere.  Starting and
\* running runs therefore always have a segment or a preparation, which
\* applyConfig dereferences (recorder_run.go 194).
CaptureHasEncoder ==
  /\ r.recording <=> r.state = "running"
  /\ r.state = "running" <=> r.seg # None
  /\ r.audioCh = r.seg
  /\ \A j \in Jobs : r.stage[j] = "live" <=> r.seg = j
  /\ r.state = "starting" => r.next # None

\* UpdateRecorder's promise (manager.go 282): while the manager runs, an enabled
\* hourly recorder records, starts, or has a retry armed for the next hour; one
\* that stops starts again afterwards.
HourlyRuns ==
  Alive /\ r.active /\ r.cfg.enabled /\ r.cfg.mode = "hourly" =>
    \/ r.state \in {"starting", "running"}
    \/ r.state = "error" /\ r.hourly.does = "retry"
    \/ r.state = "stopping" /\ r.restart

\* A running hourly recorder rotates at the next hour or is preparing to, also
\* after a failed rotation and a change of mode; a run never has the timer of the
\* other mode, which would end or rotate it.
RunHasEnd ==
  Alive /\ r.state = "running" =>
    IF r.cfg.mode = "hourly"
    THEN r.duration = NoTimer /\ (r.hourly.does = "rotate" \/ r.next # None)
    ELSE r.hourly = NoTimer

\* The schedule is kept: a run in every hour, and an end or a rotation for every run.
KeepsSchedule == HourlyRuns /\ RunHasEnd

\* SetMaxDurationMinutes (manager.go 202): recordings in progress are not
\* affected; nor does a new file or a new setting put the limit of a run off.
LimitStays ==
  [][LET limited(w) == w.state = "running" /\ w.cfg.mode = "ondemand" IN
     limited(r) /\ r.duration # NoTimer /\ limited(r') => r'.duration = r.duration]_r

\* D3: what is recorded has the output settings of now, or will have them when
\* the preparation under way ends, or the status says that it has not.
OutputFollows ==
  Alive =>
    /\ r.next # None => r.out[r.next] = r.cfg.out
    /\ r.state = "running" /\ r.next = None => r.out[r.seg] = r.cfg.out \/ r.err

\* loop and finishStop close the stop channel while the state is stopping, and
\* closing it twice would panic; retiring counts the segments being finalized.
StopChannel ==
  Alive =>
    /\ r.stopOpen <=> r.state = "stopping"
    /\ r.retiring = Cardinality({j \in Jobs : r.stage[j] \in Finalizing})
    /\ r.state = "stopping" => r.retiring > 0

\* stop: whoever waits for a stop is released when every segment is finalized
\* and reported, unless close gave up waiting.
StopIsComplete ==
  [][(r.stopOpen /\ ~r'.stopOpen) \/ (r.state # "stopped" /\ r'.state = "stopped") =>
       r'.closing = "exited"
       \/ \A j \in Jobs : r'.stage[j] \notin {"live"} \cup Finalizing]_r

\* close: once the loop has ended no capture reaches the recorder and no encoder
\* starts; the helpers only finish what they hold.
ClosedIsQuiet ==
  [][~Alive => /\ r.seg = None /\ ~r.recording
               /\ \A j \in Jobs : r'.stage[j] # r.stage[j] =>
                    r'.stage[j] \in {"free", "drained", "spoiled"}]_r

\* What a caller of stop, close and SetMaxDurationMinutes may count on, at every step.
StopIsSound == []TypeOK /\ []StopChannel /\ StopIsComplete /\ ClosedIsQuiet /\ LimitStays

\* A stop ends, and with it every API call that waits for one.
StopEnds == r.state = "stopping" ~> (r.state # "stopping" \/ ~Alive)

\* An on-demand run with a duration limit ends at it, unless it becomes hourly.
OnDemandEnds ==
  (r.state = "running" /\ r.cfg.mode = "ondemand" /\ r.duration # NoTimer)
    ~> (r.state # "running" \/ r.cfg.mode = "hourly" \/ ~Alive)

\* No helper is left with a file and an encoder that nobody takes.
NothingLeftOpen ==
  \A j \in Jobs : r.stage[j] \in {"opened", "abandoned"} \cup Finalizing
                    ~> (r.stage[j] = "free" \/ r.seg = j)

\* A stop, a limited run, a preparation and a finalization come to their end.
RunsEnd == StopEnds /\ OnDemandEnds /\ NothingLeftOpen
===============================================================================
