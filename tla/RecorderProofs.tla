---------------------------- MODULE RecorderProofs ----------------------------
(***************************************************************************)
(* What holds of a recorder for any set of outputs, any number of segments *)
(* under way and any number of timers.  The recorder is one record that    *)
(* the loop's functions take from before to after, so every part of the    *)
(* inductive invariant is a predicate on such a record w, and each         *)
(* function has a lemma that says what it does to the parts.               *)
(***************************************************************************)
EXTENDS Recorder, FiniteSetTheorems, TLAPS

States == {"stopped", "starting", "running", "stopping", "error"}

\* TypeOK without the bound on retiring, which follows from StopChannel.
Recorders ==
  [cfg : Config, limited : BOOLEAN, active : BOOLEAN, state : States, err : BOOLEAN,
   seg : Jobs \cup {None}, next : Jobs \cup {None}, retiring : Nat,
   restart : BOOLEAN, stopOpen : BOOLEAN,
   hourly : TimersOf({"rotate", "retry"}), duration : TimersOf({"limit"}),
   fired : SUBSET [id : Timers, does : {"rotate", "retry", "limit"}],
   recording : BOOLEAN, audioCh : Jobs \cup {None},
   stage : [Jobs -> Stages], out : [Jobs -> Outs],
   warned : SUBSET Jobs, broken : SUBSET Jobs,
   closing : {"no", "waiting", "quit", "exited"}]

\* CaptureHasEncoder of w.
Capture(w) ==
  /\ w.recording <=> w.state = "running"
  /\ w.state = "running" <=> w.seg # None
  /\ w.audioCh = w.seg
  /\ \A j \in Jobs : w.stage[j] = "live" <=> w.seg = j
  /\ w.state = "starting" => w.next # None

\* Only a run has a preparation, and its job is on the way to the loop.
Plans(w) ==
  w.next # None =>
    /\ w.state \in {"starting", "running"}
    /\ w.stage[w.next] \in {"clock", "opening", "opened", "broken"}

\* A rotation and a limit belong to a run, a retry to a failed recorder.
TimersFit(w) ==
  /\ w.hourly.does = "rotate" => w.state = "running"
  /\ w.hourly.does = "retry" => w.state = "error"
  /\ w.duration # NoTimer => w.state = "running"

\* A writer that the loop has still to hear of is not finished by anyone else.
Writers(w) == \A j \in w.broken : w.stage[j] \in {"live", "draining"}

\* A recorder that is being closed starts nothing.
Closed(w) == w.closing # "no" => ~w.active /\ w.state \in {"stopped", "stopping"}

\* The jobs that retiring counts.
Ending(stage) == {j \in Jobs : stage[j] \in Finalizing}

\* retiring counts them, as long as there is a loop to do so.
Counts(w) ==
  /\ w.retiring <= Cardinality(Jobs)
  /\ w.closing # "exited" => w.retiring = Cardinality(Ending(w.stage))

\* StopChannel of w.
Stops(w) ==
  w.closing # "exited" =>
    /\ w.stopOpen <=> w.state = "stopping"
    /\ w.state = "stopping" => w.retiring > 0

\* OutputFollows of w.
Follows(w) ==
  w.closing # "exited" =>
    /\ w.next # None => w.out[w.next] = w.cfg.out
    /\ w.state = "running" /\ w.next = None => w.out[w.seg] = w.cfg.out \/ w.err

\* HourlyRuns and RunHasEnd of w.
Hourly(w) == w.active /\ w.cfg.enabled /\ w.cfg.mode = "hourly"

Scheduled(w) ==
  w.closing # "exited" /\ Hourly(w) =>
    \/ w.state \in {"starting", "running"}
    \/ w.state = "error" /\ w.hourly.does = "retry"
    \/ w.state = "stopping" /\ w.restart

Ends(w) ==
  w.closing # "exited" /\ w.state = "running" =>
    IF w.cfg.mode = "hourly"
    THEN w.duration = NoTimer /\ (w.hourly.does = "rotate" \/ w.next # None)
    ELSE w.hourly = NoTimer

Core(w) ==
  w \in Recorders /\ Plans(w) /\ TimersFit(w) /\ Writers(w) /\ Closed(w) /\ Counts(w)

Good(w) == Core(w) /\ Capture(w) /\ Stops(w) /\ Follows(w) /\ Scheduled(w) /\ Ends(w)

\* The inductive invariant.
IInv == Good(r)

\* A step of the recorder leaves a stop only when nothing is left to finalize,
\* and it does not touch the limit of a run that goes on in its mode.
Moves(w, v) ==
  /\ v.state = "stopped" /\ w.state # "stopped" => v.retiring = 0
  /\ w.state = "stopping" /\ v.state # "stopping" =>
       v.retiring = 0 /\ v.state \in {"stopped", "starting"}
  /\ w.state = "running" /\ v.state = "running"
       /\ w.cfg.mode = "ondemand" /\ v.cfg.mode = "ondemand" /\ w.duration # NoTimer
       => v.duration = w.duration

-------------------------------------------------------------------------------
(* Counting the segments that are being finalized                           *)

LEMMA EndingFinite ==
  ASSUME NEW stage
  PROVE  /\ IsFiniteSet(Ending(stage))
         /\ Cardinality(Ending(stage)) \in Nat
         /\ Cardinality(Ending(stage)) <= Cardinality(Jobs)
<1>1. IsFiniteSet(Jobs)
  BY RecorderAssumption
<1>2. Ending(stage) \subseteq Jobs
  BY DEF Ending
<1>. QED BY <1>1, <1>2, FS_Subset, FS_CardinalityType

LEMMA EndingGrows ==
  ASSUME NEW stage \in [Jobs -> Stages], NEW j \in Jobs, NEW how \in Finalizing,
         stage[j] \notin Finalizing
  PROVE  Cardinality(Ending([stage EXCEPT ![j] = how])) = Cardinality(Ending(stage)) + 1
<1>1. Ending([stage EXCEPT ![j] = how]) = Ending(stage) \cup {j} /\ j \notin Ending(stage)
  BY DEF Ending
<1>. QED BY <1>1, EndingFinite, FS_AddElement

LEMMA EndingShrinks ==
  ASSUME NEW stage \in [Jobs -> Stages], NEW j \in Jobs, NEW how, how \notin Finalizing,
         stage[j] \in Finalizing
  PROVE  Cardinality(Ending([stage EXCEPT ![j] = how])) = Cardinality(Ending(stage)) - 1
<1>1. Ending([stage EXCEPT ![j] = how]) = Ending(stage) \ {j} /\ j \in Ending(stage)
  BY DEF Ending
<1>. QED BY ZenonT(60), <1>1, EndingFinite, FS_RemoveElement

LEMMA EndingStays ==
  ASSUME NEW stage \in [Jobs -> Stages], NEW j \in Jobs, NEW how,
         how \in Finalizing <=> stage[j] \in Finalizing
  PROVE  Ending([stage EXCEPT ![j] = how]) = Ending(stage)
BY DEF Ending

LEMMA NothingEnding ==
  ASSUME NEW stage, Cardinality(Ending(stage)) = 0
  PROVE  \A j \in Jobs : stage[j] \notin Finalizing
<1>1. Ending(stage) = {}
  BY EndingFinite, FS_EmptySet
<1>. QED BY <1>1 DEF Ending

-------------------------------------------------------------------------------
(* What the loop's functions do to a recorder                               *)

Settings(w)  == <<w.cfg, w.limited, w.active, w.closing>>
Capturing(w) == <<w.seg, w.recording, w.audioCh>>
Timed(w)     == <<w.hourly, w.duration, w.fired>>
Stopping(w)  == <<w.state, w.restart, w.stopOpen, w.retiring>>

LEMMA AnyOutTyped ==
  ASSUME NEW w \in Recorders PROVE AnyOut \in Outs
BY DEF Recorders, Config, AnyOut

\* prepare: a free job becomes the next segment, with the settings of now.
LEMMA PrepareEffect ==
  ASSUME NEW w \in Recorders, Free(w) # {}
  PROVE  \E j \in Jobs :
           LET v == Prepare(w) IN
           /\ v \in Recorders
           /\ w.stage[j] = "free" /\ v.next = j
           /\ v.stage = [w.stage EXCEPT ![j] = IF w.state = "starting" THEN "clock" ELSE "opening"]
           /\ v.out = [w.out EXCEPT ![j] = w.cfg.out]
           /\ Settings(v) = Settings(w) /\ Capturing(v) = Capturing(w)
           /\ Timed(v) = Timed(w) /\ Stopping(v) = Stopping(w)
           /\ v.err = w.err /\ v.warned = w.warned /\ v.broken = w.broken
<1>. DEFINE j == CHOOSE j \in Free(w) : TRUE
<1>1. j \in Jobs /\ w.stage[j] = "free"
  BY DEF Free
<1>. HIDE DEF j
<1>2. Prepare(w) = [w EXCEPT !.next = j, !.out[j] = w.cfg.out,
                             !.stage[j] = IF w.state = "starting" THEN "clock" ELSE "opening"]
  BY DEF Prepare, j
<1>3. Prepare(w) \in Recorders
  <2>1. [w.out EXCEPT ![j] = w.cfg.out] \in [Jobs -> Outs]
    BY DEF Recorders, Config
  <2>2. [w.stage EXCEPT ![j] = IF w.state = "starting" THEN "clock" ELSE "opening"] \in [Jobs -> Stages]
    BY DEF Recorders, Stages
  <2>. QED BY ZenonT(60), <1>1, <1>2, <2>1, <2>2 DEF Recorders
<1>. QED
  BY ZenonT(60), <1>1, <1>2, <1>3 DEF Recorders, Settings, Capturing, Timed, Stopping

LEMMA EndRunEffect ==
  ASSUME NEW w \in Recorders, NEW state \in States
  PROVE  LET v == EndRun(w, state) IN
         /\ v \in Recorders
         /\ v.state = state /\ ~v.recording /\ v.next = None
         /\ v.hourly = NoTimer /\ v.duration = NoTimer /\ v.fired = w.fired
         /\ v.seg = w.seg /\ v.audioCh = w.audioCh /\ Settings(v) = Settings(w)
         /\ v.restart = w.restart /\ v.stopOpen = w.stopOpen /\ v.retiring = w.retiring
         /\ v.stage = w.stage /\ v.out = w.out
         /\ v.err = w.err /\ v.warned = w.warned /\ v.broken = w.broken
BY ZenonT(60) DEF EndRun, Recorders, TimersOf, Settings

LEMMA RetireEffect ==
  ASSUME NEW w \in Recorders, NEW j \in Jobs, NEW how \in Stages
  PROVE  LET v == Retire(w, j, how) IN
         /\ v \in Recorders
         /\ v.retiring = w.retiring + 1
         /\ v.stage = [w.stage EXCEPT ![j] = how] /\ v.out = [w.out EXCEPT ![j] = AnyOut]
         /\ Settings(v) = Settings(w) /\ Capturing(v) = Capturing(w) /\ Timed(v) = Timed(w)
         /\ v.state = w.state /\ v.restart = w.restart /\ v.stopOpen = w.stopOpen
         /\ v.next = w.next /\ v.err = w.err /\ v.warned = w.warned /\ v.broken = w.broken
<1>1. AnyOut \in Outs
  BY AnyOutTyped
<1>2. Retire(w, j, how) \in Recorders
  <2>1. [w.out EXCEPT ![j] = AnyOut] \in [Jobs -> Outs]
    BY <1>1 DEF Recorders
  <2>2. [w.stage EXCEPT ![j] = how] \in [Jobs -> Stages] /\ w.retiring + 1 \in Nat
    BY DEF Recorders
  <2>. QED BY ZenonT(60), <2>1, <2>2 DEF Retire, Recorders
<1>. QED BY <1>2 DEF Retire, Recorders, Settings, Capturing, Timed

LEMMA ReleaseEffect ==
  ASSUME NEW w \in Recorders, NEW j \in Jobs
  PROVE  LET v == Release(w, j) IN
         /\ v \in Recorders
         /\ v.stage = [w.stage EXCEPT ![j] = "free"] /\ v.out = [w.out EXCEPT ![j] = AnyOut]
         /\ Settings(v) = Settings(w) /\ Capturing(v) = Capturing(w) /\ Timed(v) = Timed(w)
         /\ Stopping(v) = Stopping(w)
         /\ v.next = w.next /\ v.err = w.err /\ v.warned = w.warned /\ v.broken = w.broken
<1>1. AnyOut \in Outs
  BY AnyOutTyped
<1>2. Release(w, j) \in Recorders
  BY ZenonT(60), <1>1 DEF Release, Recorders, Stages
<1>. QED BY <1>2 DEF Release, Recorders, Settings, Capturing, Timed, Stopping

LEMMA ArmEffect ==
  ASSUME NEW w, FreeTimers(w) # {}, NEW does
  PROVE  Arm(w, does).does = does /\ Arm(w, does) \in [id : Timers, does : {does}]
BY DEF Arm, FreeTimers

LEMMA ScheduleRotationEffect ==
  ASSUME NEW w \in Recorders, FreeTimers(w) # {}
  PROVE  LET v == ScheduleRotation(w) IN
         /\ v \in Recorders
         /\ v.hourly.does = "rotate" /\ v.duration = w.duration /\ v.fired = w.fired
         /\ Settings(v) = Settings(w) /\ Capturing(v) = Capturing(w) /\ Stopping(v) = Stopping(w)
         /\ v.stage = w.stage /\ v.out = w.out /\ v.next = w.next
         /\ v.err = w.err /\ v.warned = w.warned /\ v.broken = w.broken
<1>1. Arm(w, "rotate").does = "rotate" /\ Arm(w, "rotate") \in TimersOf({"rotate", "retry"})
  BY ArmEffect DEF TimersOf
<1>2. ScheduleRotation(w) \in Recorders
  BY <1>1 DEF ScheduleRotation, Recorders
<1>. QED BY <1>1, <1>2 DEF ScheduleRotation, Recorders, Settings, Capturing, Stopping

LEMMA ArmDurationLimitEffect ==
  ASSUME NEW w \in Recorders, FreeTimers(w) # {}
  PROVE  LET v == ArmDurationLimit(w) IN
         /\ v \in Recorders
         /\ v.hourly = w.hourly /\ v.fired = w.fired
         /\ Settings(v) = Settings(w) /\ Capturing(v) = Capturing(w) /\ Stopping(v) = Stopping(w)
         /\ v.stage = w.stage /\ v.out = w.out /\ v.next = w.next
         /\ v.err = w.err /\ v.warned = w.warned /\ v.broken = w.broken
<1>1. Arm(w, "limit") \in TimersOf({"limit"})
  BY ArmEffect DEF TimersOf
<1>2. ArmDurationLimit(w) \in Recorders
  BY <1>1 DEF ArmDurationLimit, Recorders
<1>. QED BY <1>1, <1>2 DEF ArmDurationLimit, Recorders, Settings, Capturing, Stopping

LEMMA StartRunKeeps ==
  ASSUME NEW w, Core(w), Capture(w), Stops(w), w.active,
         w.state \in {"stopped", "error"}, Free(w) # {}
  PROVE  LET v == StartRun(w) IN
         /\ Core(v) /\ Capture(v) /\ Stops(v) /\ Follows(v) /\ Ends(v)
         /\ v.state = "starting" /\ Settings(v) = Settings(w)
         /\ v.retiring = w.retiring
<1>. DEFINE x == [w EXCEPT !.hourly = NoTimer, !.state = "starting"]
            v == Prepare(x)
<1>1. w \in Recorders
  BY DEF Core
<1>2. /\ x \in Recorders /\ x.state = "starting" /\ x.hourly = NoTimer /\ x.duration = w.duration
      /\ Settings(x) = Settings(w) /\ Capturing(x) = Capturing(w)
      /\ x.stopOpen = w.stopOpen /\ x.retiring = w.retiring
      /\ x.stage = w.stage /\ x.out = w.out /\ x.broken = w.broken /\ x.cfg = w.cfg
  BY ZenonT(60), <1>1 DEF Recorders, States, TimersOf, Settings, Capturing
<1>3. Free(x) # {}
  BY <1>2 DEF Free
<1>4. StartRun(w) = v
  BY DEF StartRun
<1>. HIDE DEF x
<1>5. PICK j \in Jobs :
        /\ v \in Recorders /\ x.stage[j] = "free" /\ v.next = j
        /\ v.stage = [x.stage EXCEPT ![j] = "clock"]
        /\ v.out = [x.out EXCEPT ![j] = x.cfg.out]
        /\ Settings(v) = Settings(x) /\ Capturing(v) = Capturing(x)
        /\ Timed(v) = Timed(x) /\ Stopping(v) = Stopping(x) /\ v.broken = x.broken
  BY <1>2, <1>3, PrepareEffect
<1>. HIDE DEF v
<1>6. /\ v.state = "starting" /\ v.cfg = w.cfg /\ v.active = w.active /\ v.closing = w.closing
      /\ v.closing = "no" /\ w.state # "running" /\ w.state # "stopping"
      /\ v.seg = w.seg /\ v.recording = w.recording /\ v.audioCh = w.audioCh
      /\ v.hourly = NoTimer /\ v.duration = w.duration
      /\ v.stopOpen = w.stopOpen /\ v.retiring = w.retiring
  <2>1. w.closing = "no"
    BY DEF Core, Closed
  <2>. QED BY <2>1, <1>2, <1>5 DEF Settings, Capturing, Timed, Stopping
<1>7. v.stage = [w.stage EXCEPT ![j] = "clock"] /\ w.stage[j] = "free" /\ w.stage \in [Jobs -> Stages]
  BY <1>1, <1>2, <1>5 DEF Recorders
<1>8. Counts(v)
  <2>1. Ending(v.stage) = Ending(w.stage)
    BY <1>7, EndingStays DEF Finalizing
  <2>. QED BY <1>6, <2>1 DEF Core, Counts
<1>9. Core(v)
  <2>1. v.duration = NoTimer
    BY <1>6 DEF Core, TimersFit
  <2>2. Plans(v)
    BY <1>5, <1>6, <1>7 DEF Plans
  <2>3. TimersFit(v)
    BY <1>6, <2>1 DEF TimersFit, NoTimer
  <2>4. Writers(v)
    BY <1>1, <1>2, <1>5, <1>7 DEF Core, Writers, Recorders
  <2>5. Closed(v)
    BY <1>6 DEF Closed
  <2>. QED BY <1>5, <1>8, <2>2, <2>3, <2>4, <2>5 DEF Core
<1>10. Capture(v)
  BY <1>5, <1>6, <1>7, RecorderAssumption DEF Capture
<1>11. Stops(v) /\ Ends(v)
  BY <1>6 DEF Stops, Ends
<1>12. Follows(v)
  <2>1. v.out[j] = x.cfg.out
    BY <1>2, <1>5 DEF Recorders
  <2>. QED BY <2>1, <1>2, <1>5, <1>6 DEF Follows
<1>. QED BY <1>2, <1>4, <1>5, <1>6, <1>9, <1>10, <1>11, <1>12

LEMMA StartHourlyKeeps ==
  ASSUME NEW w, Core(w), Capture(w), Stops(w), Follows(w), Ends(w),
         w.state \in {"stopped", "error"} => Free(w) # {}
  PROVE  LET v == StartHourly(w) IN
         /\ Core(v) /\ Capture(v) /\ Stops(v) /\ Follows(v) /\ Ends(v) /\ Scheduled(v)
         /\ Settings(v) = Settings(w) /\ v.retiring = w.retiring
         /\ w.state = "running" => v = w
         /\ v.state = w.state \/ (w.state \in {"stopped", "error"} /\ v.state = "starting")
<1>1. CASE ~Hourly(w)
  BY <1>1 DEF StartHourly, Hourly, Scheduled, Core, Recorders
<1>2. CASE Hourly(w) /\ w.state = "stopping"
  <2>. DEFINE v == [w EXCEPT !.restart = TRUE]
  <2>1. /\ v \in Recorders /\ v.restart /\ v.state = w.state /\ v.stopOpen = w.stopOpen
        /\ v.retiring = w.retiring /\ Settings(v) = Settings(w) /\ Capturing(v) = Capturing(w)
        /\ v.next = w.next /\ v.stage = w.stage /\ v.out = w.out /\ v.broken = w.broken
        /\ v.hourly = w.hourly /\ v.duration = w.duration /\ v.err = w.err
        /\ v.cfg = w.cfg /\ v.closing = w.closing /\ v.active = w.active
        /\ v.seg = w.seg /\ v.recording = w.recording /\ v.audioCh = w.audioCh
    BY ZenonT(60) DEF Core, Recorders, Settings, Capturing
  <2>2. StartHourly(w) = v
    BY <1>2 DEF StartHourly, Hourly
  <2>. HIDE DEF v
  <2>3. Core(v)
    BY <2>1 DEF Core, Plans, TimersFit, Writers, Closed, Counts
  <2>4. Capture(v) /\ Stops(v) /\ Follows(v) /\ Ends(v) /\ Scheduled(v)
    BY <1>2, <2>1 DEF Capture, Stops, Follows, Ends, Scheduled
  <2>. QED BY <1>2, <2>1, <2>2, <2>3, <2>4
<1>3. CASE Hourly(w) /\ w.state \in {"stopped", "error"}
  <2>1. StartHourly(w) = StartRun(w)
    BY <1>3 DEF StartHourly, Hourly
  <2>2. w.active
    BY <1>3 DEF Hourly
  <2>. QED BY <1>3, <2>1, <2>2, StartRunKeeps DEF Scheduled
<1>4. CASE Hourly(w) /\ w.state \in {"starting", "running"}
  BY <1>4 DEF StartHourly, StartRun, Hourly, Scheduled
<1>5. w.state \in States
  BY DEF Core, Recorders
<1>. QED BY <1>1, <1>2, <1>3, <1>4, <1>5 DEF States

LEMMA FinishStopKeeps ==
  ASSUME NEW w, Core(w), Capture(w), Follows(w), Ends(w), Scheduled(w), w.closing # "exited",
         w.stopOpen <=> w.state = "stopping", w.restart => Free(w) # {}
  PROVE  LET v == FinishStop(w) IN
         /\ Core(v) /\ Capture(v) /\ Stops(v) /\ Follows(v) /\ Ends(v) /\ Scheduled(v)
         /\ Settings(v) = Settings(w)
         /\ w.state # "stopping" => v = w
         /\ v.state # w.state => v.retiring = 0 /\ v.state \in {"stopped", "starting"}
<1>1. CASE w.state # "stopping" \/ w.retiring > 0
  BY <1>1 DEF FinishStop, Stops
<1>2. CASE w.state = "stopping" /\ ~(w.retiring > 0)
  <2>. DEFINE x == [w EXCEPT !.state = "stopped", !.stopOpen = FALSE, !.restart = FALSE]
  <2>1. /\ x \in Recorders /\ x.state = "stopped" /\ ~x.stopOpen /\ ~x.restart
        /\ x.retiring = w.retiring /\ Settings(x) = Settings(w)
        /\ x.next = w.next /\ x.stage = w.stage /\ x.out = w.out /\ x.broken = w.broken
        /\ x.hourly = w.hourly /\ x.duration = w.duration /\ x.err = w.err
        /\ x.cfg = w.cfg /\ x.closing = w.closing /\ x.active = w.active
        /\ x.seg = w.seg /\ x.recording = w.recording /\ x.audioCh = w.audioCh
    BY ZenonT(60) DEF Core, Recorders, Settings, States
  <2>2. FinishStop(w) = IF w.restart THEN StartHourly(x) ELSE x
    BY <1>2 DEF FinishStop
  <2>. HIDE DEF x
  <2>3. Core(x)
    BY <1>2, <2>1 DEF Core, Plans, TimersFit, Writers, Closed, Counts
  <2>4. Capture(x) /\ Stops(x) /\ Follows(x) /\ Ends(x)
    BY <1>2, <2>1 DEF Core, Plans, Capture, Stops, Follows, Ends
  <2>5. Free(x) = Free(w) /\ x.retiring = 0
    BY <1>2, <2>1 DEF Free, Core, Recorders
  <2>6. CASE w.restart
    <3>1. Free(x) # {}
      BY <2>5, <2>6
    <3>. QED BY <1>2, <2>1, <2>2, <2>3, <2>4, <2>5, <2>6, <3>1, StartHourlyKeeps
  <2>7. CASE ~w.restart
    <3>1. Scheduled(x)
      BY <1>2, <2>1, <2>7 DEF Scheduled, Hourly
    <3>. QED BY <1>2, <2>1, <2>2, <2>3, <2>4, <2>5, <2>7, <3>1
  <2>. QED BY <2>6, <2>7 DEF Core, Recorders
<1>. QED BY <1>1, <1>2

\* stop: capture ends at once, and the state says what is still to be finalized.
LEMMA StopKeeps ==
  ASSUME NEW w, Core(w), Capture(w), Stops(w), w.closing # "exited", ~Hourly(w)
  PROVE  LET v == Stop(w) IN
         /\ Core(v) /\ Capture(v) /\ Stops(v) /\ Follows(v) /\ Ends(v) /\ Scheduled(v)
         /\ Settings(v) = Settings(w)
         /\ v.state \in {"stopped", "stopping"}
         /\ w.state = "stopping" => v.state = "stopping"
         /\ v.state = "stopped" /\ w.state # "stopped" => v.retiring = 0
<1>. DEFINE quiet == [w EXCEPT !.restart = FALSE]
            ended == [EndRun(quiet, "stopping") EXCEPT !.stopOpen = TRUE, !.err = FALSE]
            idle  == [ended EXCEPT !.seg = None, !.audioCh = None]
<1>1. /\ quiet \in Recorders /\ ~quiet.restart /\ quiet.state = w.state
      /\ quiet.stopOpen = w.stopOpen
      /\ quiet.retiring = w.retiring /\ Settings(quiet) = Settings(w)
      /\ quiet.next = w.next /\ quiet.stage = w.stage /\ quiet.out = w.out /\ quiet.broken = w.broken
      /\ quiet.hourly = w.hourly /\ quiet.duration = w.duration /\ quiet.err = w.err
      /\ quiet.cfg = w.cfg /\ quiet.closing = w.closing /\ quiet.active = w.active
      /\ quiet.seg = w.seg /\ quiet.recording = w.recording /\ quiet.audioCh = w.audioCh
  BY ZenonT(60) DEF Core, Recorders, Settings
<1>2. Stop(w) = IF w.state \in {"stopped", "stopping"} THEN quiet
                ELSE FinishStop(IF w.seg = None THEN ended ELSE Retire(idle, w.seg, "draining"))
  BY DEF Stop
<1>. HIDE DEF quiet
<1>3. CASE w.state \in {"stopped", "stopping"}
  <2>1. Core(quiet)
    BY <1>1 DEF Core, Plans, TimersFit, Writers, Closed, Counts
  <2>2. Capture(quiet) /\ Stops(quiet) /\ Follows(quiet) /\ Ends(quiet) /\ Scheduled(quiet)
    BY <1>1, <1>3 DEF Capture, Stops, Follows, Ends, Scheduled, Hourly, Core, Plans
  <2>. QED BY <1>1, <1>2, <1>3, <2>1, <2>2
<1>4. CASE w.state \notin {"stopped", "stopping"}
  <2>. DEFINE e == EndRun(quiet, "stopping")
  <2>1. /\ e \in Recorders
        /\ e.state = "stopping" /\ ~e.recording /\ e.next = None
        /\ e.hourly = NoTimer /\ e.duration = NoTimer
        /\ e.seg = w.seg /\ e.audioCh = w.audioCh /\ Settings(e) = Settings(w)
        /\ ~e.restart /\ e.retiring = w.retiring
        /\ e.stage = w.stage /\ e.out = w.out /\ e.broken = w.broken
    BY <1>1, EndRunEffect DEF States
  <2>2. ended = [e EXCEPT !.stopOpen = TRUE, !.err = FALSE]
    OBVIOUS
  <2>. HIDE DEF e
  <2>3. /\ ended \in Recorders
        /\ ended.state = "stopping" /\ ~ended.recording /\ ended.next = None
        /\ ended.hourly = NoTimer /\ ended.duration = NoTimer
        /\ ended.seg = w.seg /\ ended.audioCh = w.audioCh /\ Settings(ended) = Settings(w)
        /\ ~ended.restart /\ ended.stopOpen /\ ended.retiring = w.retiring
        /\ ended.stage = w.stage /\ ended.out = w.out /\ ended.broken = w.broken
    BY ZenonT(60), <2>1, <2>2 DEF Recorders, Settings
  <2>4. /\ w.closing = "no" /\ ended.closing = "no"
        /\ ended.active = w.active /\ ended.cfg = w.cfg
        /\ w.retiring = Cardinality(Ending(w.stage)) /\ w.retiring \in Nat
        /\ w.stage \in [Jobs -> Stages]
    BY <1>4, <2>3 DEF Core, Closed, Settings, Counts, Recorders
  <2>5. CASE w.seg = None
    <3>1. Core(ended)
      BY <2>3, <2>4 DEF Core, Plans, TimersFit, Writers, Closed, Counts, NoTimer
    <3>2. Capture(ended) /\ Follows(ended) /\ Ends(ended) /\ Scheduled(ended)
      BY <2>3, <2>4, <2>5 DEF Capture, Follows, Ends, Scheduled, Hourly
    <3>3. Stop(w) = FinishStop(ended)
      BY <1>2, <1>4, <2>5
    <3>. HIDE DEF ended
    <3>4. LET v == FinishStop(ended) IN
          /\ Core(v) /\ Capture(v) /\ Stops(v) /\ Follows(v) /\ Ends(v) /\ Scheduled(v)
          /\ Settings(v) = Settings(ended)
          /\ v.state # ended.state => v.retiring = 0 /\ v.state \in {"stopped", "starting"}
      BY <2>3, <2>4, <3>1, <3>2, FinishStopKeeps
    <3>5. FinishStop(ended).state # "starting"
      BY <2>3 DEF FinishStop, Recorders
    <3>. QED BY <1>4, <2>3, <3>3, <3>4, <3>5
  <2>6. CASE w.seg # None
    <3>. DEFINE j == w.seg
                x == Retire(idle, j, "draining")
    <3>1. /\ idle \in Recorders
          /\ idle.state = "stopping" /\ ~idle.recording /\ idle.next = None
          /\ idle.hourly = NoTimer /\ idle.duration = NoTimer
          /\ idle.seg = None /\ idle.audioCh = None /\ Settings(idle) = Settings(w)
          /\ ~idle.restart /\ idle.stopOpen /\ idle.retiring = w.retiring
          /\ idle.stage = w.stage /\ idle.out = w.out /\ idle.broken = w.broken
      <4>. HIDE DEF ended
      <4>. QED BY ZenonT(60), <2>3 DEF Recorders, Settings
    <3>. HIDE DEF idle
    <3>2. j \in Jobs /\ w.stage[j] = "live"
      BY <2>6 DEF Core, Recorders, Capture
    <3>3. /\ x \in Recorders /\ x.retiring = w.retiring + 1
          /\ x.stage = [w.stage EXCEPT ![j] = "draining"]
          /\ Settings(x) = Settings(w) /\ Capturing(x) = Capturing(idle) /\ Timed(x) = Timed(idle)
          /\ x.state = "stopping" /\ ~x.restart /\ x.stopOpen /\ x.next = None
          /\ x.broken = w.broken
      <4>1. "draining" \in Stages
        BY DEF Stages
      <4>2. /\ x \in Recorders /\ x.retiring = idle.retiring + 1
            /\ x.stage = [idle.stage EXCEPT ![j] = "draining"]
            /\ Settings(x) = Settings(idle) /\ Capturing(x) = Capturing(idle)
            /\ Timed(x) = Timed(idle)
            /\ x.state = idle.state /\ x.restart = idle.restart /\ x.stopOpen = idle.stopOpen
            /\ x.next = idle.next /\ x.broken = idle.broken
        <5>1. idle \in Recorders /\ j \in Jobs
          BY <3>1, <3>2
        <5>. HIDE DEF j
        <5>. QED BY ZenonT(60), <4>1, <5>1, RetireEffect
      <4>. QED BY <3>1, <4>2
    <3>. HIDE DEF x
    <3>4. /\ x.closing = "no" /\ x.active = w.active /\ x.cfg = w.cfg
          /\ x.seg = None /\ x.audioCh = None /\ ~x.recording
          /\ x.hourly = NoTimer /\ x.duration = NoTimer
      BY <2>4, <3>1, <3>3 DEF Settings, Capturing, Timed
    <3>5. Counts(x)
      <4>1. Cardinality(Ending(x.stage)) = Cardinality(Ending(w.stage)) + 1
        BY ZenonT(60), <2>4, <3>2, <3>3, EndingGrows DEF Finalizing
      <4>. QED BY <2>4, <3>3, <4>1, EndingFinite DEF Counts
    <3>6. Core(x)
      BY <2>4, <3>2, <3>3, <3>4, <3>5 DEF Core, Plans, TimersFit, Writers, Closed, NoTimer
    <3>7. Capture(x) /\ Stops(x) /\ Follows(x) /\ Ends(x) /\ Scheduled(x)
      <4>1. \A i \in Jobs : x.stage[i] # "live"
        BY <2>4, <3>2, <3>3 DEF Capture
      <4>2. x.retiring > 0
        BY <2>4, <3>3
      <4>. QED BY <3>3, <3>4, <4>1, <4>2, RecorderAssumption
               DEF Capture, Stops, Follows, Ends, Scheduled, Hourly
    <3>8. Stop(w) = FinishStop(x)
      BY <1>2, <1>4, <2>6 DEF x
    <3>9. FinishStop(x) = x
      BY <2>4, <3>3 DEF FinishStop
    <3>. QED BY <1>4, <3>3, <3>6, <3>7, <3>8, <3>9
  <2>. QED BY <2>5, <2>6
<1>. QED BY <1>3, <1>4

LEMMA FreeTimersGrow ==
  ASSUME NEW w, NEW x, x.fired = w.fired, x.hourly \in {w.hourly, NoTimer},
         x.duration \in {w.duration, NoTimer}, FreeTimers(w) # {}
  PROVE  FreeTimers(x) # {}
BY RecorderAssumption DEF FreeTimers, NoTimer

\* The timer of the other mode goes, and with it the rotation under way.
LEMMA SwitchModeEffect ==
  ASSUME NEW w \in Recorders, NEW old, FreeTimers(w) # {}
  PROVE  LET v == SwitchMode(w, old) IN
         /\ v \in Recorders /\ v.fired = w.fired
         /\ Settings(v) = Settings(w) /\ Capturing(v) = Capturing(w) /\ Stopping(v) = Stopping(w)
         /\ v.stage = w.stage /\ v.out = w.out /\ v.err = w.err /\ v.broken = w.broken
         /\ \/ (w.state # "running" \/ w.cfg.mode = old.mode) /\ v = w
            \/ /\ w.state = "running" /\ w.cfg.mode # old.mode /\ w.cfg.mode = "hourly"
               /\ v.hourly.does = "rotate" /\ v.duration = NoTimer /\ v.next = w.next
            \/ /\ w.state = "running" /\ w.cfg.mode # old.mode /\ w.cfg.mode # "hourly"
               /\ v.hourly = NoTimer /\ v.next = None
<1>1. CASE w.state # "running" \/ w.cfg.mode = old.mode
  BY <1>1 DEF SwitchMode
<1>2. CASE w.state = "running" /\ w.cfg.mode # old.mode /\ w.cfg.mode = "hourly"
  <2>. DEFINE x == [w EXCEPT !.duration = NoTimer]
  <2>1. /\ x \in Recorders /\ x.duration = NoTimer /\ x.fired = w.fired /\ x.hourly = w.hourly
        /\ x.next = w.next /\ x.stage = w.stage /\ x.out = w.out /\ x.err = w.err
        /\ x.broken = w.broken
        /\ Settings(x) = Settings(w) /\ Capturing(x) = Capturing(w) /\ Stopping(x) = Stopping(w)
    BY DEF Recorders, TimersOf, Settings, Capturing, Stopping
  <2>2. SwitchMode(w, old) = ScheduleRotation(x)
    BY <1>2 DEF SwitchMode
  <2>. HIDE DEF x
  <2>3. FreeTimers(x) # {}
    BY <2>1, FreeTimersGrow
  <2>. QED BY <1>2, <2>1, <2>2, <2>3, ScheduleRotationEffect
<1>3. CASE w.state = "running" /\ w.cfg.mode # old.mode /\ w.cfg.mode # "hourly"
  <2>. DEFINE x == [w EXCEPT !.hourly = NoTimer, !.next = None]
  <2>1. /\ x \in Recorders /\ x.duration = w.duration /\ x.fired = w.fired /\ x.hourly = NoTimer
        /\ x.next = None /\ x.stage = w.stage /\ x.out = w.out /\ x.err = w.err
        /\ x.broken = w.broken
        /\ Settings(x) = Settings(w) /\ Capturing(x) = Capturing(w) /\ Stopping(x) = Stopping(w)
    BY ZenonT(60) DEF Recorders, TimersOf, Settings, Capturing, Stopping
  <2>2. SwitchMode(w, old) = ArmDurationLimit(x)
    BY <1>3 DEF SwitchMode
  <2>. HIDE DEF x
  <2>3. FreeTimers(x) # {}
    BY <2>1, FreeTimersGrow
  <2>. QED BY <1>3, <2>1, <2>2, <2>3, ArmDurationLimitEffect
<1>. QED BY <1>1, <1>2, <1>3

\* A run keeps its segment or has a preparation with the output of now.
LEMMA SwitchOutputKeeps ==
  ASSUME NEW w, Core(w), Capture(w), Stops(w), Ends(w), w.closing # "exited", NEW old \in Config,
         w.next # None => w.out[w.next] = old.out, Free(w) # {}
  PROVE  LET v == SwitchOutput(w, old) IN
         /\ Core(v) /\ Capture(v) /\ Stops(v) /\ Ends(v) /\ Follows(v)
         /\ Settings(v) = Settings(w) /\ v.duration = w.duration
         /\ v.state = w.state /\ v.retiring = w.retiring
         /\ v = w \/ w.state \in {"starting", "running"}
<1>. DEFINE planned == IF w.next = None THEN w.out[w.seg] ELSE old.out
<1>1. CASE ~(w.state \in {"running", "starting"} /\ planned # w.cfg.out)
  <2>1. SwitchOutput(w, old) = w
    BY <1>1 DEF SwitchOutput
  <2>2. Follows(w)
    BY <1>1 DEF Follows, Core, Plans
  <2>. QED BY <2>1, <2>2
<1>2. CASE w.state \in {"running", "starting"} /\ planned # w.cfg.out
  <2>. DEFINE v == Prepare(w)
  <2>1. SwitchOutput(w, old) = v
    BY <1>2 DEF SwitchOutput
  <2>2. PICK j \in Jobs :
        /\ v \in Recorders /\ w.stage[j] = "free" /\ v.next = j
        /\ v.stage = [w.stage EXCEPT ![j] = IF w.state = "starting" THEN "clock" ELSE "opening"]
        /\ v.out = [w.out EXCEPT ![j] = w.cfg.out]
        /\ Settings(v) = Settings(w) /\ Capturing(v) = Capturing(w)
        /\ Timed(v) = Timed(w) /\ Stopping(v) = Stopping(w) /\ v.broken = w.broken
    BY PrepareEffect DEF Core
  <2>. HIDE DEF v
  <2>3. /\ v.cfg = w.cfg /\ v.active = w.active /\ v.closing = w.closing
        /\ v.seg = w.seg /\ v.recording = w.recording /\ v.audioCh = w.audioCh
        /\ v.hourly = w.hourly /\ v.duration = w.duration
        /\ v.state = w.state /\ v.stopOpen = w.stopOpen /\ v.retiring = w.retiring
        /\ w.stage \in [Jobs -> Stages] /\ w.out \in [Jobs -> Outs] /\ w.broken \subseteq Jobs
    BY <2>2 DEF Settings, Capturing, Timed, Stopping, Core, Recorders
  <2>4. Counts(v)
    <3>1. Ending(v.stage) = Ending(w.stage)
      BY SMTT(60), <2>2, <2>3, EndingStays DEF Finalizing
    <3>. QED BY <2>3, <3>1 DEF Core, Counts
  <2>5. v.stage[j] \in {"clock", "opening"} /\ v.out[j] = v.cfg.out
    BY <2>2, <2>3
  <2>6. Core(v)
    BY <1>2, <2>2, <2>3, <2>4, <2>5 DEF Core, Plans, TimersFit, Writers, Closed
  <2>7. Capture(v)
    BY <2>2, <2>3, <2>5, RecorderAssumption DEF Capture
  <2>8. Stops(v) /\ Ends(v) /\ Follows(v)
    BY <2>2, <2>3, <2>5, RecorderAssumption DEF Stops, Ends, Follows
  <2>. QED BY <1>2, <2>1, <2>2, <2>3, <2>6, <2>7, <2>8
<1>. QED BY <1>1, <1>2

LEMMA ApplyConfigKeeps ==
  ASSUME NEW w, Good(w), w.closing # "exited", NEW c \in Config,
         Free(w) # {}, FreeTimers(w) # {}
  PROVE  LET v == ApplyConfig(w, c) IN Good(v) /\ Moves(w, v) /\ v.closing = w.closing
<1>. DEFINE new == [w EXCEPT !.cfg = c]
            old == w.cfg
<1>1. /\ new \in Recorders /\ new.cfg = c /\ new.active = w.active /\ new.closing = w.closing
      /\ Capturing(new) = Capturing(w) /\ Stopping(new) = Stopping(w) /\ Timed(new) = Timed(w)
      /\ new.seg = w.seg /\ new.recording = w.recording /\ new.audioCh = w.audioCh
      /\ new.state = w.state /\ new.stopOpen = w.stopOpen /\ new.retiring = w.retiring
      /\ new.hourly = w.hourly /\ new.duration = w.duration /\ new.fired = w.fired
      /\ new.next = w.next /\ new.stage = w.stage /\ new.out = w.out
      /\ new.err = w.err /\ new.broken = w.broken
  BY DEF Good, Core, Recorders, Capturing, Stopping, Timed
<1>. HIDE DEF new
<1>2. old \in Config /\ w.closing # "exited" /\ FreeTimers(new) # {} /\ Free(new) # {}
  BY <1>1 DEF Good, Core, Recorders, Free, FreeTimers
<1>3. Core(new) /\ Capture(new) /\ Stops(new)
  BY <1>1 DEF Good, Core, Plans, TimersFit, Writers, Closed, Counts, Capture, Stops
<1>4. CASE ~c.enabled \/ (c.mode # "hourly" /\ w.state = "error")
  <2>1. ApplyConfig(w, c) = Stop(new)
    BY <1>1, <1>4 DEF ApplyConfig, new
  <2>2. ~Hourly(new)
    BY <1>1, <1>4 DEF Hourly
  <2>3. LET v == Stop(new) IN
        /\ Core(v) /\ Capture(v) /\ Stops(v) /\ Follows(v) /\ Ends(v) /\ Scheduled(v)
        /\ Settings(v) = Settings(new)
        /\ v.state \in {"stopped", "stopping"}
        /\ new.state = "stopping" => v.state = "stopping"
        /\ v.state = "stopped" /\ new.state # "stopped" => v.retiring = 0
    BY <1>1, <1>2, <1>3, <2>2, StopKeeps
  <2>. QED BY <1>1, <2>1, <2>3 DEF Good, Moves, Settings
<1>5. CASE ~(~c.enabled \/ (c.mode # "hourly" /\ w.state = "error"))
  <2>. DEFINE x == SwitchMode(new, old)
              y == SwitchOutput(x, old)
              v == StartHourly(y)
  <2>1. ApplyConfig(w, c) = v
    BY <1>1, <1>5 DEF ApplyConfig, new
  <2>2. /\ x \in Recorders /\ x.fired = new.fired
        /\ Settings(x) = Settings(new) /\ Capturing(x) = Capturing(new)
        /\ Stopping(x) = Stopping(new)
        /\ x.stage = new.stage /\ x.out = new.out /\ x.err = new.err /\ x.broken = new.broken
        /\ \/ (new.state # "running" \/ new.cfg.mode = old.mode) /\ x = new
           \/ /\ new.state = "running" /\ new.cfg.mode # old.mode /\ new.cfg.mode = "hourly"
              /\ x.hourly.does = "rotate" /\ x.duration = NoTimer /\ x.next = new.next
           \/ /\ new.state = "running" /\ new.cfg.mode # old.mode /\ new.cfg.mode # "hourly"
              /\ x.hourly = NoTimer /\ x.next = None
    BY SMTT(60), <1>1, <1>2, SwitchModeEffect
  <2>. HIDE DEF x
  <2>3. /\ x.cfg = c /\ x.active = w.active /\ x.closing = w.closing
        /\ x.seg = w.seg /\ x.recording = w.recording /\ x.audioCh = w.audioCh
        /\ x.state = w.state /\ x.stopOpen = w.stopOpen /\ x.retiring = w.retiring
        /\ x.stage = w.stage /\ x.out = w.out /\ x.broken = w.broken
    BY <1>1, <2>2 DEF Settings, Capturing, Stopping
  <2>4. Core(x)
    <3>1. Plans(x)
      BY <1>1, <2>2, <2>3 DEF Good, Core, Plans
    <3>2. TimersFit(x)
      BY <1>1, <2>2, <2>3 DEF Good, Core, TimersFit, NoTimer
    <3>. QED BY <2>2, <2>3, <3>1, <3>2 DEF Good, Core, Writers, Closed, Counts
  <2>5. Capture(x) /\ Stops(x)
    BY <1>1, <2>2, <2>3 DEF Good, Capture, Stops
  <2>6. Ends(x)
    BY <1>1, <1>2, <2>2, <2>3 DEF Good, Ends, Config, Modes
  <2>7. x.next # None => x.out[x.next] = old.out
    BY <1>1, <1>2, <2>2, <2>3 DEF Good, Follows
  <2>8. Free(x) # {}
    BY <1>2, <2>3 DEF Free
  <2>9. /\ Core(y) /\ Capture(y) /\ Stops(y) /\ Ends(y) /\ Follows(y)
        /\ Settings(y) = Settings(x) /\ y.duration = x.duration
        /\ y.state = x.state /\ y.retiring = x.retiring
        /\ y = x \/ x.state \in {"starting", "running"}
    <3>. HIDE DEF old
    <3>. QED BY <1>2, <2>3, <2>4, <2>5, <2>6, <2>7, <2>8, SwitchOutputKeeps
  <2>. HIDE DEF y
  <2>10. y.state \in {"stopped", "error"} => Free(y) # {}
    BY <2>8, <2>9
  <2>11. /\ Core(v) /\ Capture(v) /\ Stops(v) /\ Follows(v) /\ Ends(v) /\ Scheduled(v)
         /\ Settings(v) = Settings(y) /\ v.retiring = y.retiring
         /\ y.state = "running" => v = y
         /\ v.state = y.state \/ (y.state \in {"stopped", "error"} /\ v.state = "starting")
    BY <2>9, <2>10, StartHourlyKeeps
  <2>. HIDE DEF v
  <2>12. v.cfg = c /\ v.closing = w.closing
    BY <2>3, <2>9, <2>11 DEF Settings
  <2>13. Moves(w, v)
    BY <1>1, <2>2, <2>3, <2>9, <2>11, <2>12 DEF Moves
  <2>. QED BY <2>1, <2>11, <2>12, <2>13 DEF Good
<1>. QED BY <1>4, <1>5

LEMMA FailEffect ==
  ASSUME NEW w \in Recorders, FreeTimers(w) # {}
  PROVE  LET v == Fail(w) IN
         /\ v \in Recorders
         /\ v.state = "error" /\ ~v.recording /\ v.next = None
         /\ IF w.cfg.mode = "hourly" THEN v.hourly.does = "retry" ELSE v.hourly = NoTimer
         /\ v.duration = NoTimer /\ v.seg = w.seg /\ v.audioCh = w.audioCh
         /\ Settings(v) = Settings(w)
         /\ v.restart = w.restart /\ v.stopOpen = w.stopOpen /\ v.retiring = w.retiring
         /\ v.stage = w.stage /\ v.out = w.out /\ v.broken = w.broken
<1>. DEFINE x == EndRun(w, "error")
<1>1. /\ x \in Recorders
      /\ x.state = "error" /\ ~x.recording /\ x.next = None
      /\ x.hourly = NoTimer /\ x.duration = NoTimer /\ x.fired = w.fired
      /\ x.seg = w.seg /\ x.audioCh = w.audioCh /\ Settings(x) = Settings(w)
      /\ x.restart = w.restart /\ x.stopOpen = w.stopOpen /\ x.retiring = w.retiring
      /\ x.stage = w.stage /\ x.out = w.out /\ x.broken = w.broken
  BY EndRunEffect DEF States
<1>2. Fail(w) = IF w.cfg.mode = "hourly" THEN [x EXCEPT !.hourly = Arm(x, "retry")] ELSE x
  BY DEF Fail
<1>. HIDE DEF x
<1>3. Arm(x, "retry").does = "retry" /\ Arm(x, "retry") \in TimersOf({"rotate", "retry"})
  <2>1. FreeTimers(x) # {}
    BY <1>1, FreeTimersGrow
  <2>. QED BY <2>1, ArmEffect DEF TimersOf
<1>4. CASE w.cfg.mode = "hourly"
  BY <1>1, <1>2, <1>3, <1>4 DEF Recorders, Settings
<1>. QED BY <1>1, <1>2, <1>4

\* A job that neither captures nor is planned is released.
LEMMA ReleaseKeeps ==
  ASSUME NEW w, Good(w), NEW j \in Jobs,
         w.stage[j] \notin {"live"} \cup Finalizing, j \notin w.broken, w.next # j
  PROVE  LET v == Release(w, j) IN
         /\ Good(v) /\ Moves(w, v) /\ v.closing = w.closing
<1>. DEFINE v == Release(w, j)
<1>1. w \in Recorders /\ w.stage \in [Jobs -> Stages] /\ w.out \in [Jobs -> Outs]
  BY DEF Good, Core, Recorders
<1>2. /\ v \in Recorders
      /\ v.stage = [w.stage EXCEPT ![j] = "free"] /\ v.out = [w.out EXCEPT ![j] = AnyOut]
      /\ Settings(v) = Settings(w) /\ Capturing(v) = Capturing(w) /\ Timed(v) = Timed(w)
      /\ Stopping(v) = Stopping(w)
      /\ v.next = w.next /\ v.err = w.err /\ v.broken = w.broken
  BY <1>1, ReleaseEffect
<1>. HIDE DEF v
<1>3. /\ v.cfg = w.cfg /\ v.active = w.active /\ v.closing = w.closing
      /\ v.seg = w.seg /\ v.recording = w.recording /\ v.audioCh = w.audioCh
      /\ v.hourly = w.hourly /\ v.duration = w.duration
      /\ v.state = w.state /\ v.restart = w.restart /\ v.stopOpen = w.stopOpen
      /\ v.retiring = w.retiring
  BY <1>2 DEF Settings, Capturing, Timed, Stopping
<1>4. w.seg # j /\ (w.next # None => w.next \in Jobs) /\ (w.seg # None => w.seg \in Jobs)
      /\ w.broken \subseteq Jobs
  BY <1>1 DEF Good, Capture, Recorders
<1>5. Counts(v)
  <2>1. Ending(v.stage) = Ending(w.stage)
    BY SMTT(60), <1>1, <1>2, EndingStays DEF Finalizing
  <2>. QED BY <1>3, <2>1 DEF Good, Core, Counts
<1>6. Core(v)
  BY <1>1, <1>2, <1>3, <1>4, <1>5 DEF Good, Core, Plans, TimersFit, Writers, Closed
<1>7. Capture(v) /\ Stops(v) /\ Ends(v) /\ Scheduled(v)
  BY <1>1, <1>2, <1>3, <1>4 DEF Good, Capture, Stops, Ends, Scheduled, Hourly
<1>8. Follows(v)
  BY <1>1, <1>2, <1>3, <1>4 DEF Good, Follows, Capture
<1>9. Moves(w, v)
  BY <1>3 DEF Moves
<1>. QED BY <1>3, <1>6, <1>7, <1>8, <1>9 DEF Good, v

\* A preparation that failed: a first one fails the run, a later one only warns.
LEMMA NotPreparedKeeps ==
  ASSUME NEW w, Good(w), w.closing # "exited", NEW j \in Jobs, w.next = j,
         w.stage[j] = "broken", FreeTimers(w) # {}
  PROVE  LET v == NotPrepared(Release([w EXCEPT !.next = None], j)) IN
         /\ Good(v) /\ Moves(w, v) /\ v.closing = w.closing
<1>. DEFINE u == [w EXCEPT !.next = None]
            x == Release(u, j)
            v == NotPrepared(x)
<1>1. w \in Recorders /\ w.stage \in [Jobs -> Stages] /\ w.out \in [Jobs -> Outs]
  BY DEF Good, Core, Recorders
<1>2. /\ u \in Recorders /\ u.next = None
      /\ Settings(u) = Settings(w) /\ Capturing(u) = Capturing(w) /\ Timed(u) = Timed(w)
      /\ Stopping(u) = Stopping(w)
      /\ u.stage = w.stage /\ u.out = w.out /\ u.broken = w.broken
  BY <1>1 DEF Recorders, Settings, Capturing, Timed, Stopping
<1>. HIDE DEF u
<1>3. /\ x \in Recorders
      /\ x.stage = [u.stage EXCEPT ![j] = "free"] /\ x.out = [u.out EXCEPT ![j] = AnyOut]
      /\ Settings(x) = Settings(u) /\ Capturing(x) = Capturing(u) /\ Timed(x) = Timed(u)
      /\ Stopping(x) = Stopping(u) /\ x.next = u.next /\ x.broken = u.broken
  BY <1>2, ReleaseEffect
<1>. HIDE DEF x
<1>4. /\ x.cfg = w.cfg /\ x.active = w.active /\ x.closing = w.closing
      /\ x.seg = w.seg /\ x.recording = w.recording /\ x.audioCh = w.audioCh
      /\ x.hourly = w.hourly /\ x.duration = w.duration /\ x.fired = w.fired
      /\ x.state = w.state /\ x.restart = w.restart /\ x.stopOpen = w.stopOpen
      /\ x.retiring = w.retiring /\ x.next = None /\ x.broken = w.broken
      /\ x.stage = [w.stage EXCEPT ![j] = "free"] /\ x.out = [w.out EXCEPT ![j] = AnyOut]
  BY <1>2, <1>3 DEF Settings, Capturing, Timed, Stopping
<1>5. /\ w.state \in {"starting", "running"} /\ w.closing = "no" /\ w.seg # j
      /\ (w.seg # None => w.seg \in Jobs) /\ w.broken \subseteq Jobs /\ j # None
  BY <1>1, RecorderAssumption DEF Good, Core, Plans, Closed, Capture, Recorders
<1>6. Ending(x.stage) = Ending(w.stage)
  BY SMTT(60), <1>1, <1>4, EndingStays DEF Finalizing
<1>7. FreeTimers(x) # {}
  BY <1>4, FreeTimersGrow
<1>8. CASE w.seg = None
  <2>. DEFINE y == Fail(x)
  <2>1. /\ y \in Recorders
        /\ y.state = "error" /\ ~y.recording /\ y.next = None
        /\ IF x.cfg.mode = "hourly" THEN y.hourly.does = "retry" ELSE y.hourly = NoTimer
        /\ y.duration = NoTimer /\ y.seg = x.seg /\ y.audioCh = x.audioCh
        /\ Settings(y) = Settings(x)
        /\ y.restart = x.restart /\ y.stopOpen = x.stopOpen /\ y.retiring = x.retiring
        /\ y.stage = x.stage /\ y.out = x.out /\ y.broken = x.broken
    BY <1>3, <1>7, FailEffect
  <2>2. v = [y EXCEPT !.err = TRUE]
    BY <1>4, <1>8 DEF NotPrepared
  <2>. HIDE DEF y, v
  <2>3. /\ v \in Recorders
        /\ v.state = "error" /\ ~v.recording /\ v.next = None
        /\ IF w.cfg.mode = "hourly" THEN v.hourly.does = "retry" ELSE v.hourly = NoTimer
        /\ v.duration = NoTimer /\ v.seg = None /\ v.audioCh = w.audioCh
        /\ v.cfg = w.cfg /\ v.active = w.active /\ v.closing = w.closing
        /\ v.stopOpen = w.stopOpen /\ v.retiring = w.retiring
        /\ v.stage = x.stage /\ v.broken = w.broken
    BY ZenonT(60), <1>4, <1>8, <2>1, <2>2 DEF Recorders, Settings
  <2>4. Core(v)
    BY <1>1, <1>4, <1>5, <1>6, <2>3 DEF Good, Core, Plans, TimersFit, Writers, Closed, Counts, NoTimer
  <2>5. Capture(v)
    BY <1>1, <1>4, <1>5, <1>8, <2>3, RecorderAssumption DEF Good, Capture
  <2>6. Stops(v) /\ Follows(v) /\ Scheduled(v) /\ Ends(v)
    BY <1>5, <2>3 DEF Good, Stops, Follows, Scheduled, Hourly, Ends
  <2>7. Moves(w, v)
    BY <1>5, <2>3 DEF Moves
  <2>. QED BY <2>3, <2>4, <2>5, <2>6, <2>7 DEF Good, u, x, v
<1>9. CASE w.seg # None
  <2>. DEFINE told == [x EXCEPT !.err = TRUE]
  <2>1. /\ told \in Recorders /\ told.err
        /\ Settings(told) = Settings(x) /\ Capturing(told) = Capturing(x)
        /\ Stopping(told) = Stopping(x)
        /\ told.hourly = x.hourly /\ told.duration = x.duration /\ told.fired = x.fired
        /\ told.next = None /\ told.stage = x.stage /\ told.out = x.out /\ told.broken = x.broken
        /\ told.cfg = w.cfg
    BY ZenonT(60), <1>3, <1>4 DEF Recorders, Settings, Capturing, Stopping
  <2>2. v = IF w.cfg.mode = "hourly" THEN ScheduleRotation(told) ELSE told
    BY <1>4, <1>9, <2>1 DEF NotPrepared
  <2>. HIDE DEF told, v
  <2>3. FreeTimers(told) # {}
    BY <1>7, <2>1, FreeTimersGrow
  <2>4. /\ v \in Recorders /\ v.err /\ v.duration = told.duration
        /\ Settings(v) = Settings(told) /\ Capturing(v) = Capturing(told)
        /\ Stopping(v) = Stopping(told)
        /\ v.next = None /\ v.stage = told.stage /\ v.broken = told.broken
        /\ IF w.cfg.mode = "hourly" THEN v.hourly.does = "rotate" ELSE v.hourly = told.hourly
    BY <2>1, <2>2, <2>3, ScheduleRotationEffect
  <2>5. /\ v.cfg = w.cfg /\ v.active = w.active /\ v.closing = w.closing
        /\ v.seg = w.seg /\ v.recording = w.recording /\ v.audioCh = w.audioCh
        /\ v.duration = w.duration
        /\ v.state = w.state /\ v.restart = w.restart /\ v.stopOpen = w.stopOpen
        /\ v.retiring = w.retiring /\ v.broken = w.broken /\ v.stage = x.stage
        /\ IF w.cfg.mode = "hourly" THEN v.hourly.does = "rotate" ELSE v.hourly = w.hourly
    BY <1>4, <2>1, <2>4 DEF Settings, Capturing, Stopping
  <2>6. w.state = "running"
    BY <1>5, <1>9 DEF Good, Capture
  <2>7. Core(v)
    <3>1. TimersFit(v)
      BY <2>5, <2>6 DEF Good, Core, TimersFit
    <3>. QED BY <1>1, <1>4, <1>5, <1>6, <2>4, <2>5, <3>1
             DEF Good, Core, Plans, Writers, Closed, Counts
  <2>8. Capture(v)
    BY <1>1, <1>4, <1>5, <2>5, <2>6 DEF Good, Capture
  <2>9. Stops(v) /\ Follows(v) /\ Scheduled(v) /\ Ends(v)
    BY <1>5, <2>4, <2>5, <2>6 DEF Good, Stops, Follows, Scheduled, Hourly, Ends
  <2>10. Moves(w, v)
    BY <2>5 DEF Moves
  <2>. QED BY <2>5, <2>7, <2>8, <2>9, <2>10 DEF Good, u, x, v
<1>. QED BY <1>8, <1>9

\* The new segment takes over; the one before it is finalized from now on.
LEMMA TakeOnKeeps ==
  ASSUME NEW w, Good(w), w.closing # "exited", NEW j \in Jobs, w.next = j,
         w.stage[j] = "opened", FreeTimers(w) # {}
  PROVE  LET v == TakeOn([w EXCEPT !.next = None], j) IN
         /\ Good(v) /\ Moves(w, v) /\ v.closing = w.closing
<1>. DEFINE u == [w EXCEPT !.next = None]
            b == Begin(u, j)
            started == [b EXCEPT !.state = "running", !.recording = TRUE]
            run == IF u.seg # None THEN Retire(b, u.seg, "draining")
                   ELSE IF u.cfg.mode = "hourly" THEN started ELSE ArmDurationLimit(started)
            v == IF u.cfg.mode = "hourly" THEN ScheduleRotation(run) ELSE run
<1>1. /\ w \in Recorders /\ w.stage \in [Jobs -> Stages] /\ w.out \in [Jobs -> Outs]
      /\ w.broken \subseteq Jobs /\ w.retiring \in Nat
  BY DEF Good, Core, Recorders
<1>2. TakeOn(u, j) = v
  BY DEF TakeOn
<1>. HIDE DEF v
<1>3. /\ u \in Recorders /\ u.next = None /\ u.seg = w.seg /\ u.cfg = w.cfg /\ u.state = w.state
      /\ Settings(u) = Settings(w) /\ Timed(u) = Timed(w) /\ Stopping(u) = Stopping(w)
      /\ u.recording = w.recording /\ u.stage = w.stage /\ u.out = w.out /\ u.broken = w.broken
  BY <1>1 DEF Recorders, Settings, Timed, Stopping
<1>. HIDE DEF u
<1>4. /\ b \in Recorders /\ b.next = None /\ b.seg = j /\ b.audioCh = j /\ b.recording = w.recording
      /\ b.stage = [w.stage EXCEPT ![j] = "live"] /\ b.out = w.out /\ b.broken = w.broken
      /\ Settings(b) = Settings(w) /\ Timed(b) = Timed(w) /\ Stopping(b) = Stopping(w)
  <2>1. [u.stage EXCEPT ![j] = "live"] \in [Jobs -> Stages]
    BY <1>1, <1>3 DEF Stages
  <2>2. b \in Recorders
    BY ZenonT(60), <1>3, <2>1 DEF Begin, Recorders
  <2>. QED BY <1>3, <2>2 DEF Begin, Recorders, Settings, Timed, Stopping
<1>. HIDE DEF b
<1>5. /\ w.state \in {"starting", "running"} /\ w.closing = "no" /\ w.seg # j
      /\ (w.seg # None => w.seg \in Jobs /\ w.stage[w.seg] = "live") /\ j # None
      /\ w.out[j] = w.cfg.out /\ j \notin w.broken
      /\ w.retiring = Cardinality(Ending(w.stage)) /\ w.retiring <= Cardinality(Jobs)
      /\ w.state = "starting" => w.hourly = NoTimer /\ w.duration = NoTimer
  <2>1. w.state = "starting" => w.hourly = NoTimer /\ w.duration = NoTimer
    BY <1>1 DEF Good, Core, TimersFit, Recorders, TimersOf
  <2>. QED BY <1>1, <2>1, RecorderAssumption
           DEF Good, Core, Plans, Closed, Capture, Follows, Writers, Counts, Recorders
<1>6. /\ run \in Recorders /\ run.state = "running" /\ run.recording /\ run.next = None
      /\ run.seg = j /\ run.audioCh = j /\ Settings(run) = Settings(w)
      /\ run.stopOpen = w.stopOpen /\ run.broken = w.broken
      /\ run.hourly = w.hourly /\ run.fired = w.fired
      /\ w.cfg.mode = "hourly" \/ w.seg # None => run.duration = w.duration
      /\ IF w.seg = None
         THEN run.retiring = w.retiring /\ run.out = w.out
              /\ run.stage = [w.stage EXCEPT ![j] = "live"]
         ELSE run.retiring = w.retiring + 1 /\ run.out = [w.out EXCEPT ![w.seg] = AnyOut]
              /\ run.stage = [[w.stage EXCEPT ![j] = "live"] EXCEPT ![w.seg] = "draining"]
      /\ run.duration = w.duration \/ w.state = "starting"
  <2>1. CASE w.seg # None
    <3>. DEFINE x == Retire(b, w.seg, "draining")
    <3>1. run = x
      BY <1>3, <2>1
    <3>2. "draining" \in Stages /\ w.seg \in Jobs
      BY <1>5, <2>1 DEF Stages
    <3>3. /\ x \in Recorders /\ x.retiring = b.retiring + 1
          /\ x.stage = [b.stage EXCEPT ![w.seg] = "draining"]
          /\ x.out = [b.out EXCEPT ![w.seg] = AnyOut]
          /\ Settings(x) = Settings(b) /\ Capturing(x) = Capturing(b) /\ Timed(x) = Timed(b)
          /\ x.state = b.state /\ x.stopOpen = b.stopOpen /\ x.next = b.next
          /\ x.broken = b.broken
      BY <1>4, <3>2, RetireEffect
    <3>. HIDE DEF x, run
    <3>4. w.state = "running" /\ w.recording
      BY <2>1 DEF Good, Capture
    <3>. QED BY <1>4, <2>1, <3>1, <3>3, <3>4 DEF Settings, Capturing, Timed, Stopping
  <2>2. CASE w.seg = None
    <3>1. /\ started \in Recorders /\ started.state = "running" /\ started.recording
          /\ started.next = None /\ started.seg = j /\ started.audioCh = j
          /\ Settings(started) = Settings(w) /\ started.stopOpen = w.stopOpen
          /\ started.broken = w.broken /\ started.hourly = w.hourly /\ started.fired = w.fired
          /\ started.duration = w.duration /\ started.retiring = w.retiring
          /\ started.out = w.out /\ started.stage = [w.stage EXCEPT ![j] = "live"]
      BY ZenonT(60), <1>4 DEF Recorders, Settings, Timed, Stopping, States
    <3>2. run = IF w.cfg.mode = "hourly" THEN started ELSE ArmDurationLimit(started)
      BY <1>3, <2>2
    <3>. HIDE DEF started, run
    <3>3. w.state = "starting"
      BY <1>5, <2>2 DEF Good, Capture
    <3>4. CASE w.cfg.mode = "hourly"
      BY <2>2, <3>1, <3>2, <3>3, <3>4
    <3>5. CASE w.cfg.mode # "hourly"
      <4>1. FreeTimers(started) # {}
        BY <3>1, FreeTimersGrow
      <4>2. LET x == ArmDurationLimit(started) IN
            /\ x \in Recorders
            /\ x.hourly = started.hourly /\ x.fired = started.fired
            /\ Settings(x) = Settings(started) /\ Capturing(x) = Capturing(started)
            /\ Stopping(x) = Stopping(started)
            /\ x.stage = started.stage /\ x.out = started.out /\ x.next = started.next
            /\ x.broken = started.broken
        BY <3>1, <4>1, ArmDurationLimitEffect
      <4>. QED BY ZenonT(60), <2>2, <3>1, <3>2, <3>3, <3>5, <4>2 DEF Capturing, Stopping
    <3>. QED BY <3>4, <3>5
  <2>. QED BY <2>1, <2>2
<1>. HIDE DEF run
<1>7. /\ v \in Recorders /\ v.state = "running" /\ v.recording /\ v.next = None
      /\ v.seg = j /\ v.audioCh = j
      /\ v.cfg = w.cfg /\ v.active = w.active /\ v.closing = w.closing
      /\ v.stopOpen = w.stopOpen /\ v.broken = w.broken
      /\ v.duration = run.duration /\ v.retiring = run.retiring
      /\ v.out = run.out /\ v.stage = run.stage
      /\ IF w.cfg.mode = "hourly" THEN v.hourly.does = "rotate" ELSE v.hourly = w.hourly
  <2>1. CASE w.cfg.mode = "hourly"
    <3>1. FreeTimers(run) # {}
      <4>1. run.duration \in {w.duration, NoTimer}
        BY <1>6, <2>1
      <4>. QED BY <1>6, <4>1, FreeTimersGrow
    <3>2. LET x == ScheduleRotation(run) IN
          /\ x \in Recorders
          /\ x.hourly.does = "rotate" /\ x.duration = run.duration /\ x.fired = run.fired
          /\ Settings(x) = Settings(run) /\ Capturing(x) = Capturing(run)
          /\ Stopping(x) = Stopping(run)
          /\ x.stage = run.stage /\ x.out = run.out /\ x.next = run.next
          /\ x.broken = run.broken
      BY <1>6, <3>1, ScheduleRotationEffect
    <3>3. v = ScheduleRotation(run)
      BY <1>3, <2>1 DEF v
    <3>. QED BY ZenonT(60), <1>6, <2>1, <3>2, <3>3 DEF Settings, Capturing, Stopping
  <2>2. CASE w.cfg.mode # "hourly"
    BY <1>3, <1>6, <2>2 DEF v, Settings
  <2>. QED BY <2>1, <2>2
<1>8. v.stage[j] = "live" /\ \A i \in Jobs \ {j} : v.stage[i] # "live"
  <2>1. \A i \in Jobs : w.stage[i] = "live" <=> w.seg = i
    BY DEF Good, Capture
  <2>2. CASE w.seg = None
    <3>1. v.stage = [w.stage EXCEPT ![j] = "live"]
      BY <1>6, <1>7, <2>2
    <3>. QED BY <1>1, <2>1, <2>2, <3>1, RecorderAssumption
  <2>3. CASE w.seg # None
    <3>1. v.stage = [[w.stage EXCEPT ![j] = "live"] EXCEPT ![w.seg] = "draining"]
      BY <1>6, <1>7, <2>3
    <3>. QED BY <1>1, <1>5, <2>1, <2>3, <3>1
  <2>. QED BY <2>2, <2>3
<1>9. Counts(v)
  <2>. DEFINE s == [w.stage EXCEPT ![j] = "live"]
  <2>1. s \in [Jobs -> Stages] /\ Ending(s) = Ending(w.stage)
    <3>1. w.stage[j] \notin Finalizing /\ "live" \notin Finalizing
      BY DEF Finalizing
    <3>. QED BY <1>1, <3>1, EndingStays DEF Stages
  <2>2. CASE w.seg = None
    BY <1>5, <1>6, <1>7, <2>1, <2>2 DEF Counts
  <2>3. CASE w.seg # None
    <3>1. s[w.seg] \notin Finalizing /\ w.seg \in Jobs
      BY <1>1, <1>5, <2>3 DEF Finalizing
    <3>2. Cardinality(Ending(v.stage)) = Cardinality(Ending(s)) + 1
      <4>. HIDE DEF s
      <4>1. v.stage = [s EXCEPT ![w.seg] = "draining"]
        BY <1>6, <1>7, <2>3 DEF s
      <4>. QED BY ZenonT(60), <2>1, <3>1, <4>1, EndingGrows DEF Finalizing
    <3>. HIDE DEF s
    <3>. QED BY <1>5, <1>6, <1>7, <2>1, <2>3, <3>2, EndingFinite DEF Counts
  <2>. QED BY <2>2, <2>3
<1>10. Core(v)
  <2>1. Plans(v) /\ Closed(v)
    BY <1>5, <1>7 DEF Plans, Closed
  <2>2. TimersFit(v)
    BY <1>5, <1>7 DEF Good, Core, TimersFit, NoTimer
  <2>3. Writers(v)
    BY <1>1, <1>5, <1>6, <1>7 DEF Good, Core, Writers
  <2>. QED BY <1>7, <1>9, <2>1, <2>2, <2>3 DEF Core
<1>11. Capture(v) /\ Stops(v) /\ Scheduled(v)
  BY <1>5, <1>7, <1>8 DEF Good, Capture, Stops, Scheduled
<1>12. Follows(v)
  <2>1. v.out[j] = w.out[j]
    BY <1>1, <1>5, <1>6, <1>7
  <2>. QED BY <1>5, <1>7, <2>1 DEF Follows
<1>13. Ends(v)
  <2>1. CASE w.cfg.mode = "hourly"
    <3>1. w.duration = NoTimer
      BY <1>5, <2>1 DEF Good, Ends
    <3>. QED BY <1>6, <1>7, <2>1, <3>1 DEF Ends
  <2>2. CASE w.cfg.mode # "hourly"
    <3>1. w.hourly = NoTimer
      BY <1>5, <2>2 DEF Good, Ends
    <3>. QED BY <1>7, <2>2, <3>1 DEF Ends
  <2>. QED BY <2>1, <2>2
<1>14. Moves(w, v)
  BY <1>5, <1>6, <1>7 DEF Moves
<1>. QED BY <1>2, <1>7, <1>10, <1>11, <1>12, <1>13, <1>14 DEF Good, u

\* A writer that failed: the current one fails the run, any other one is finished.
LEMMA WriteFailedKeeps ==
  ASSUME Good(r), NEW j \in Jobs, WriteFailed(j)
  PROVE  Good(r') /\ Moves(r, r') /\ r'.closing = r.closing
<1>1. /\ r \in Recorders /\ r.stage \in [Jobs -> Stages] /\ r.out \in [Jobs -> Outs]
      /\ r.broken \subseteq Jobs /\ r.retiring \in Nat
  BY DEF Good, Core, Recorders
<1>2. r.closing # "exited" /\ j \in r.broken /\ r.stage[j] \in {"live", "draining"} /\ j # None
      /\ (r.seg = j => FreeTimers(r) # {})
  BY RecorderAssumption DEF WriteFailed, Alive, TimerRoom, Good, Core, Writers
<1>3. CASE r.seg # j
  <2>. DEFINE v == [[r EXCEPT !.broken = @ \ {j}] EXCEPT !.stage[j] = "ending"]
  <2>1. r' = v
    BY <1>3 DEF WriteFailed
  <2>2. [r.stage EXCEPT ![j] = "ending"] \in [Jobs -> Stages] /\ r.stage[j] = "draining"
        /\ r.next # j
    BY <1>1, <1>2, <1>3 DEF Stages, Good, Capture, Core, Plans
  <2>3. /\ v \in Recorders /\ v.broken = r.broken \ {j}
        /\ v.stage = [r.stage EXCEPT ![j] = "ending"]
        /\ v.cfg = r.cfg /\ v.active = r.active /\ v.closing = r.closing
        /\ v.seg = r.seg /\ v.recording = r.recording /\ v.audioCh = r.audioCh
        /\ v.hourly = r.hourly /\ v.duration = r.duration
        /\ v.state = r.state /\ v.restart = r.restart /\ v.stopOpen = r.stopOpen
        /\ v.retiring = r.retiring /\ v.next = r.next /\ v.out = r.out /\ v.err = r.err
    BY ZenonT(60), <1>1, <2>2 DEF Recorders
  <2>. HIDE DEF v
  <2>4. Counts(v)
    <3>1. Ending(v.stage) = Ending(r.stage)
      BY <1>1, <2>2, <2>3, EndingStays DEF Finalizing
    <3>. QED BY <2>3, <3>1 DEF Good, Core, Counts
  <2>5. Core(v)
    BY <1>1, <2>2, <2>3, <2>4 DEF Good, Core, Plans, TimersFit, Writers, Closed, Recorders
  <2>6. Capture(v)
    BY <1>1, <1>3, <2>2, <2>3 DEF Good, Capture
  <2>7. Stops(v) /\ Follows(v) /\ Ends(v) /\ Scheduled(v)
    BY <2>3 DEF Good, Stops, Follows, Ends, Scheduled, Hourly
  <2>. QED BY <2>1, <2>3, <2>5, <2>6, <2>7 DEF Good, Moves
<1>4. CASE r.seg = j
  <2>. DEFINE heard == [r EXCEPT !.broken = @ \ {j}]
              alone == [heard EXCEPT !.seg = None, !.audioCh = None]
              f == Fail(alone)
              g == [f EXCEPT !.err = TRUE]
              v == Retire(g, j, "failing")
  <2>1. r' = v
    BY <1>4 DEF WriteFailed
  <2>2. /\ alone \in Recorders /\ alone.broken = r.broken \ {j}
        /\ alone.seg = None /\ alone.audioCh = None /\ Settings(alone) = Settings(r)
        /\ Timed(alone) = Timed(r) /\ Stopping(alone) = Stopping(r)
        /\ alone.hourly = r.hourly /\ alone.duration = r.duration /\ alone.fired = r.fired
        /\ alone.cfg = r.cfg /\ alone.stage = r.stage /\ alone.out = r.out
    BY ZenonT(60), <1>1 DEF Recorders, Settings, Timed, Stopping
  <2>. HIDE DEF alone, v
  <2>3. FreeTimers(alone) # {}
    BY <1>2, <1>4, <2>2, FreeTimersGrow
  <2>4. /\ f \in Recorders
        /\ f.state = "error" /\ ~f.recording /\ f.next = None
        /\ IF r.cfg.mode = "hourly" THEN f.hourly.does = "retry" ELSE f.hourly = NoTimer
        /\ f.duration = NoTimer /\ f.seg = None /\ f.audioCh = None
        /\ Settings(f) = Settings(r)
        /\ f.stopOpen = alone.stopOpen /\ f.retiring = alone.retiring
        /\ f.stage = r.stage /\ f.out = r.out /\ f.broken = r.broken \ {j}
    BY <2>2, <2>3, FailEffect
  <2>. HIDE DEF f
  <2>5. /\ g \in Recorders
        /\ g.state = "error" /\ ~g.recording /\ g.next = None
        /\ IF r.cfg.mode = "hourly" THEN g.hourly.does = "retry" ELSE g.hourly = NoTimer
        /\ g.duration = NoTimer /\ g.seg = None /\ g.audioCh = None
        /\ Settings(g) = Settings(r)
        /\ g.stopOpen = r.stopOpen /\ g.retiring = r.retiring
        /\ g.stage = r.stage /\ g.broken = r.broken \ {j}
    BY ZenonT(60), <2>2, <2>4 DEF Recorders, Settings, Stopping
  <2>. HIDE DEF g
  <2>6. /\ v \in Recorders /\ v.retiring = g.retiring + 1
        /\ v.stage = [g.stage EXCEPT ![j] = "failing"]
        /\ Settings(v) = Settings(g) /\ Capturing(v) = Capturing(g) /\ Timed(v) = Timed(g)
        /\ v.state = g.state /\ v.stopOpen = g.stopOpen /\ v.next = g.next
        /\ v.broken = g.broken
    <3>1. "failing" \in Stages
      BY DEF Stages
    <3>. QED BY ZenonT(60), <2>5, <3>1, RetireEffect DEF v
  <2>7. /\ v.state = "error" /\ ~v.recording /\ v.next = None
        /\ IF r.cfg.mode = "hourly" THEN v.hourly.does = "retry" ELSE v.hourly = NoTimer
        /\ v.duration = NoTimer /\ v.seg = None /\ v.audioCh = None
        /\ v.cfg = r.cfg /\ v.active = r.active /\ v.closing = r.closing
        /\ v.stopOpen = r.stopOpen /\ v.retiring = r.retiring + 1
        /\ v.stage = [r.stage EXCEPT ![j] = "failing"] /\ v.broken = r.broken \ {j}
    BY <2>5, <2>6 DEF Settings, Capturing, Timed
  <2>8. r.state = "running" /\ r.closing = "no"
        /\ \A i \in Jobs : r.stage[i] = "live" <=> i = j
    <3>1. r.state = "running" /\ \A i \in Jobs : r.stage[i] = "live" <=> i = j
      BY <1>2, <1>4 DEF Good, Capture
    <3>. QED BY <3>1 DEF Good, Core, Closed
  <2>9. Counts(v)
    <3>1. r.stage[j] \notin Finalizing
      BY <2>8 DEF Finalizing
    <3>2. Cardinality(Ending(v.stage)) = Cardinality(Ending(r.stage)) + 1
      <4>1. "failing" \in Finalizing
        BY DEF Finalizing
      <4>. QED BY <1>1, <2>7, <3>1, <4>1, EndingGrows
    <3>. QED BY <1>2, <2>7, <3>2, EndingFinite DEF Good, Core, Counts
  <2>10. Core(v)
    <3>1. Writers(v)
      BY <1>1, <2>7 DEF Good, Core, Writers
    <3>. QED BY <2>6, <2>7, <2>8, <2>9, <3>1 DEF Core, Plans, TimersFit, Closed, NoTimer
  <2>11. Capture(v)
    BY <1>1, <2>7, <2>8, RecorderAssumption DEF Capture
  <2>12. Stops(v) /\ Follows(v) /\ Ends(v) /\ Scheduled(v)
    BY <2>7, <2>8 DEF Good, Stops, Follows, Ends, Scheduled, Hourly
  <2>. QED BY <2>1, <2>7, <2>8, <2>10, <2>11, <2>12 DEF Good, Moves
<1>. QED BY <1>3, <1>4

\* A segment that is finalized and heard of: the stop may be complete now.
LEMMA RetiredKeeps ==
  ASSUME Good(r), NEW j \in Jobs, Retired(j)
  PROVE  Good(r') /\ Moves(r, r') /\ r'.closing = r.closing
<1>1. /\ r \in Recorders /\ r.stage \in [Jobs -> Stages] /\ r.out \in [Jobs -> Outs]
      /\ r.broken \subseteq Jobs /\ r.retiring \in Nat /\ r.err \in BOOLEAN
      /\ (r.next # None => r.next \in Jobs) /\ (r.seg # None => r.seg \in Jobs)
  BY DEF Good, Core, Recorders
<1>2. r.stage[j] \in {"drained", "spoiled"}
  BY DEF Retired
<1>3. r.next # j /\ r.seg # j /\ j \notin r.broken /\ r.stage[j] \in Finalizing
  <2>1. j # None
    BY RecorderAssumption
  <2>. QED BY <1>2, <2>1 DEF Good, Core, Plans, Writers, Capture, Finalizing
<1>. DEFINE x == Release(r, j)
<1>4. /\ x \in Recorders
      /\ x.stage = [r.stage EXCEPT ![j] = "free"] /\ x.out = [r.out EXCEPT ![j] = AnyOut]
      /\ Settings(x) = Settings(r) /\ Capturing(x) = Capturing(r) /\ Timed(x) = Timed(r)
      /\ Stopping(x) = Stopping(r)
      /\ x.next = r.next /\ x.err = r.err /\ x.broken = r.broken
  BY <1>1, ReleaseEffect
<1>5. CASE r.closing # "exited"
  <2>. DEFINE y == [x EXCEPT !.retiring = @ - 1, !.err = @ \/ r.stage[j] = "spoiled"]
  <2>1. r' = FinishStop(y)
    BY <1>5 DEF Retired, Alive
  <2>2. r.retiring = Cardinality(Ending(r.stage)) /\ r.retiring > 0
        /\ Cardinality(Ending(x.stage)) = r.retiring - 1
    <3>1. r.retiring = Cardinality(Ending(r.stage))
      BY <1>5 DEF Good, Core, Counts
    <3>2. Cardinality(Ending(x.stage)) = Cardinality(Ending(r.stage)) - 1
      BY <1>1, <1>3, <1>4, EndingShrinks DEF Finalizing
    <3>. QED BY <1>1, <3>1, <3>2, EndingFinite
  <2>. HIDE DEF x
  <2>3. /\ y \in Recorders /\ y.retiring = r.retiring - 1 /\ (r.err => y.err)
        /\ y.stage = [r.stage EXCEPT ![j] = "free"] /\ y.out = [r.out EXCEPT ![j] = AnyOut]
        /\ y.broken = r.broken /\ y.next = r.next
        /\ y.cfg = r.cfg /\ y.active = r.active /\ y.closing = r.closing
        /\ y.seg = r.seg /\ y.recording = r.recording /\ y.audioCh = r.audioCh
        /\ y.hourly = r.hourly /\ y.duration = r.duration
        /\ y.state = r.state /\ y.restart = r.restart /\ y.stopOpen = r.stopOpen
    <3>1. x.retiring = r.retiring
      BY <1>4 DEF Stopping
    <3>2. x.retiring - 1 \in Nat /\ (x.err \/ r.stage[j] = "spoiled") \in BOOLEAN
      BY <1>1, <2>2, <3>1
    <3>3. y \in Recorders
      BY ZenonT(60), <1>4, <3>2 DEF Recorders
    <3>. QED BY <1>1, <1>4, <3>1, <3>3 DEF Recorders, Settings, Capturing, Timed, Stopping
  <2>. HIDE DEF y
  <2>4. Counts(y)
    <3>1. y.stage = x.stage
      BY <1>4, <2>3
    <3>. QED BY <2>2, <2>3, <3>1, EndingFinite DEF Counts
  <2>5. Core(y)
    <3>1. Plans(y) /\ Writers(y)
      BY <1>1, <1>3, <2>3 DEF Good, Core, Plans, Writers
    <3>. QED BY <2>3, <2>4, <3>1 DEF Good, Core, TimersFit, Closed
  <2>6. Capture(y)
    BY <1>1, <1>3, <2>3 DEF Good, Capture
  <2>7. Ends(y) /\ Scheduled(y) /\ (y.stopOpen <=> y.state = "stopping")
    BY <1>5, <2>3 DEF Good, Ends, Scheduled, Hourly, Stops
  <2>8. Follows(y)
    BY <1>1, <1>3, <2>3 DEF Good, Follows, Capture
  <2>9. Free(y) # {}
    BY <1>1, <2>3 DEF Free
  <2>10. LET v == FinishStop(y) IN
         /\ Core(v) /\ Capture(v) /\ Stops(v) /\ Follows(v) /\ Ends(v) /\ Scheduled(v)
         /\ Settings(v) = Settings(y)
         /\ y.state # "stopping" => v = y
         /\ v.state # y.state => v.retiring = 0 /\ v.state \in {"stopped", "starting"}
    BY <1>5, <2>3, <2>5, <2>6, <2>7, <2>8, <2>9, FinishStopKeeps
  <2>. QED BY <2>1, <2>3, <2>10 DEF Good, Moves, Settings
<1>6. CASE r.closing = "exited"
  <2>1. r' = x
    BY <1>6 DEF Retired, Alive
  <2>. HIDE DEF x
  <2>2. /\ x.cfg = r.cfg /\ x.active = r.active /\ x.closing = r.closing
        /\ x.seg = r.seg /\ x.recording = r.recording /\ x.audioCh = r.audioCh
        /\ x.hourly = r.hourly /\ x.duration = r.duration
        /\ x.state = r.state /\ x.restart = r.restart /\ x.stopOpen = r.stopOpen
        /\ x.retiring = r.retiring
    BY <1>4 DEF Settings, Capturing, Timed, Stopping
  <2>3. Core(x)
    <3>1. Plans(x) /\ Writers(x)
      BY <1>1, <1>3, <1>4, <2>2 DEF Good, Core, Plans, Writers
    <3>. QED BY <1>4, <1>6, <2>2, <3>1 DEF Good, Core, TimersFit, Closed, Counts
  <2>4. Capture(x)
    BY <1>1, <1>3, <1>4, <2>2 DEF Good, Capture
  <2>5. Stops(x) /\ Follows(x) /\ Ends(x) /\ Scheduled(x)
    BY <1>6, <2>2 DEF Stops, Follows, Ends, Scheduled
  <2>. QED BY <2>1, <2>2, <2>3, <2>4, <2>5 DEF Good, Moves
<1>. QED BY <1>5, <1>6

LEMMA TimerRunsKeeps ==
  ASSUME Good(r), NEW t \in r.fired, TimerRuns(t)
  PROVE  Good(r') /\ Moves(r, r') /\ r'.closing = r.closing
<1>. DEFINE heard == [r EXCEPT !.fired = @ \ {t}]
            w == IF t.does = "limit" THEN [heard EXCEPT !.duration = NoTimer]
                 ELSE [heard EXCEPT !.hourly = NoTimer]
<1>1. /\ r \in Recorders /\ r.closing # "exited"
      /\ t \in [id : Timers, does : {"rotate", "retry", "limit"}]
  BY DEF Good, Core, Recorders, TimerRuns, Alive
<1>2. /\ heard \in Recorders
      /\ Settings(heard) = Settings(r) /\ Capturing(heard) = Capturing(r)
      /\ Stopping(heard) = Stopping(r) /\ heard.hourly = r.hourly /\ heard.duration = r.duration
      /\ heard.next = r.next /\ heard.stage = r.stage /\ heard.out = r.out
      /\ heard.err = r.err /\ heard.broken = r.broken
  BY <1>1 DEF Recorders, Settings, Capturing, Stopping
<1>. HIDE DEF heard
<1>3. CASE ~Current(t)
  <2>1. r' = heard
    BY <1>3 DEF TimerRuns, heard
  <2>2. /\ heard.cfg = r.cfg /\ heard.active = r.active /\ heard.closing = r.closing
        /\ heard.seg = r.seg /\ heard.recording = r.recording /\ heard.audioCh = r.audioCh
        /\ heard.state = r.state /\ heard.restart = r.restart /\ heard.stopOpen = r.stopOpen
        /\ heard.retiring = r.retiring
    BY <1>2 DEF Settings, Capturing, Stopping
  <2>3. Core(heard)
    BY <1>2, <2>2 DEF Good, Core, Plans, TimersFit, Writers, Closed, Counts
  <2>4. Capture(heard) /\ Stops(heard) /\ Follows(heard) /\ Ends(heard) /\ Scheduled(heard)
    BY <1>2, <2>2 DEF Good, Capture, Stops, Follows, Ends, Scheduled, Hourly
  <2>. QED BY <1>2, <2>1, <2>2, <2>3, <2>4 DEF Good, Moves
<1>4. CASE Current(t)
  <2>1. /\ w \in Recorders
        /\ Settings(w) = Settings(r) /\ Capturing(w) = Capturing(r)
        /\ Stopping(w) = Stopping(r)
        /\ w.next = r.next /\ w.stage = r.stage /\ w.out = r.out
        /\ w.err = r.err /\ w.broken = r.broken
        /\ IF t.does = "limit" THEN w.duration = NoTimer /\ w.hourly = r.hourly
                               ELSE w.duration = r.duration /\ w.hourly = NoTimer
    BY <1>2 DEF Recorders, TimersOf, Settings, Capturing, Stopping
  <2>2. r' = CASE t.does = "limit" -> Stop(w)
               [] t.does = "rotate" -> Prepare(w)
               [] t.does = "retry" -> StartHourly(w)
    BY <1>1, <1>4 DEF TimerRuns, heard
  <2>. HIDE DEF w
  <2>3. /\ w.cfg = r.cfg /\ w.active = r.active /\ w.closing = r.closing
        /\ w.seg = r.seg /\ w.recording = r.recording /\ w.audioCh = r.audioCh
        /\ w.state = r.state /\ w.restart = r.restart /\ w.stopOpen = r.stopOpen
        /\ w.retiring = r.retiring
    BY <2>1 DEF Settings, Capturing, Stopping
  <2>4. Core(w)
    <3>1. TimersFit(w)
      BY <2>1, <2>3 DEF Good, Core, TimersFit, NoTimer
    <3>. QED BY <2>1, <2>3, <3>1 DEF Good, Core, Plans, Writers, Closed, Counts
  <2>5. Capture(w) /\ Stops(w) /\ Follows(w)
    BY <2>1, <2>3 DEF Good, Capture, Stops, Follows
  <2>6. CASE t.does = "limit"
    <3>1. t = r.duration /\ r.duration # NoTimer /\ r.state = "running"
      BY <1>1, <1>4, <2>6 DEF Current, NoTimer, Good, Core, TimersFit, Recorders, TimersOf
    <3>2. ~Hourly(w)
      BY <1>1, <2>3, <3>1 DEF Good, Ends, Hourly
    <3>3. LET v == Stop(w) IN
          /\ Core(v) /\ Capture(v) /\ Stops(v) /\ Follows(v) /\ Ends(v) /\ Scheduled(v)
          /\ Settings(v) = Settings(w)
          /\ v.state \in {"stopped", "stopping"}
          /\ v.state = "stopped" /\ w.state # "stopped" => v.retiring = 0
      BY <1>1, <2>3, <2>4, <2>5, <3>2, StopKeeps
    <3>4. r' = Stop(w)
      BY <2>2, <2>6
    <3>. QED BY <2>3, <3>1, <3>3, <3>4 DEF Good, Moves, Settings
  <2>7. CASE t.does \in {"rotate", "retry"}
    <3>1. /\ t = r.hourly /\ Free(w) # {}
          /\ IF t.does = "rotate" THEN r.state = "running" ELSE r.state = "error"
      <4>1. t = r.hourly
        BY <1>1, <1>4, <2>7 DEF Current, Recorders, TimersOf, NoTimer
      <4>2. Free(w) = Free(r)
        BY <2>1 DEF Free
      <4>. QED BY <1>4, <2>7, <4>1, <4>2 DEF TimerRuns, JobRoom, Good, Core, TimersFit
    <3>2. CASE t.does = "retry"
      <4>1. Ends(w)
        BY <2>3, <3>1, <3>2 DEF Ends
      <4>2. LET v == StartHourly(w) IN
            /\ Core(v) /\ Capture(v) /\ Stops(v) /\ Follows(v) /\ Ends(v) /\ Scheduled(v)
            /\ Settings(v) = Settings(w)
            /\ v.state = w.state \/ (w.state \in {"stopped", "error"} /\ v.state = "starting")
        BY <2>4, <2>5, <3>1, <4>1, StartHourlyKeeps
      <4>3. r' = StartHourly(w)
        BY <2>2, <3>2
      <4>. QED BY <2>3, <3>1, <3>2, <4>2, <4>3 DEF Good, Moves, Settings
    <3>3. CASE t.does = "rotate"
      <4>. DEFINE v == Prepare(w)
      <4>1. r' = v
        BY <2>2, <3>3
      <4>2. PICK j \in Jobs :
              /\ v \in Recorders /\ w.stage[j] = "free" /\ v.next = j
              /\ v.stage = [w.stage EXCEPT ![j] = IF w.state = "starting" THEN "clock" ELSE "opening"]
              /\ v.out = [w.out EXCEPT ![j] = w.cfg.out]
              /\ Settings(v) = Settings(w) /\ Capturing(v) = Capturing(w)
              /\ Timed(v) = Timed(w) /\ Stopping(v) = Stopping(w) /\ v.broken = w.broken
        BY <2>1, <3>1, PrepareEffect
      <4>. HIDE DEF v
      <4>3. /\ v.cfg = r.cfg /\ v.active = r.active /\ v.closing = r.closing
            /\ v.seg = r.seg /\ v.recording = r.recording /\ v.audioCh = r.audioCh
            /\ v.hourly = NoTimer /\ v.duration = r.duration
            /\ v.state = "running" /\ r.state = "running"
            /\ v.stopOpen = r.stopOpen /\ v.retiring = r.retiring /\ v.broken = r.broken
            /\ r.stage \in [Jobs -> Stages] /\ r.out \in [Jobs -> Outs] /\ r.broken \subseteq Jobs
            /\ r.stage[j] = "free"
        BY <1>1, <2>1, <2>3, <3>1, <3>3, <4>2
           DEF Settings, Capturing, Timed, Stopping, Recorders
      <4>4. v.stage = [r.stage EXCEPT ![j] = "opening"] /\ v.out = [r.out EXCEPT ![j] = r.cfg.out]
            /\ j # None
        BY <2>1, <2>3, <4>2, <4>3, RecorderAssumption
      <4>5. Counts(v)
        <5>1. Ending(v.stage) = Ending(r.stage)
          BY SMTT(60), <4>3, <4>4, EndingStays DEF Finalizing
        <5>. QED BY <4>3, <5>1 DEF Good, Core, Counts
      <4>6. Core(v)
        <5>1. TimersFit(v)
          BY <4>3 DEF TimersFit, NoTimer
        <5>. QED BY <4>2, <4>3, <4>4, <4>5, <5>1 DEF Good, Core, Plans, Writers, Closed
      <4>7. Capture(v)
        BY <4>3, <4>4 DEF Good, Capture
      <4>8. Follows(v)
        BY <4>2, <4>3, <4>4 DEF Follows
      <4>9. Stops(v) /\ Ends(v) /\ Scheduled(v)
        <5>1. r.cfg.mode = "hourly" => r.duration = NoTimer
          BY <1>1, <4>3 DEF Good, Ends
        <5>. QED BY <4>2, <4>3, <4>4, <5>1 DEF Good, Stops, Ends, Scheduled
      <4>. QED BY <4>1, <4>3, <4>6, <4>7, <4>8, <4>9 DEF Good, Moves
    <3>. QED BY <2>7, <3>2, <3>3
  <2>. QED BY <1>1, <2>6, <2>7
<1>. QED BY <1>3, <1>4

-------------------------------------------------------------------------------
(* Every step keeps the invariant                                           *)

LEMMA InitGood == Init => IInv
<1> SUFFICES ASSUME Init PROVE Good(r)
  BY DEF IInv
<1>1. /\ r.cfg \in Config /\ r.limited \in Limits /\ r.active = FALSE /\ r.state = "stopped"
      /\ r.err = FALSE /\ r.seg = None /\ r.next = None /\ r.retiring = 0 /\ r.restart = FALSE
      /\ r.stopOpen = FALSE /\ r.hourly = NoTimer /\ r.duration = NoTimer /\ r.fired = {}
      /\ r.recording = FALSE
      /\ r.audioCh = None /\ r.stage = [j \in Jobs |-> "free"] /\ r.out = [j \in Jobs |-> AnyOut]
      /\ r.warned = {} /\ r.broken = {} /\ r.closing = "no"
  BY DEF Init
<1>2. r \in Recorders
  <2>1. AnyOut \in Outs
    BY <1>1 DEF Config, AnyOut
  <2>2. /\ Limits \subseteq BOOLEAN /\ [j \in Jobs |-> "free"] \in [Jobs -> Stages]
        /\ [j \in Jobs |-> AnyOut] \in [Jobs -> Outs]
    BY <2>1, RecorderAssumption DEF Stages
  <2>3. r \in [cfg : Config, limited : Limits, active : {FALSE}, state : {"stopped"}, err : {FALSE},
               seg : {None}, next : {None}, retiring : {0}, restart : {FALSE}, stopOpen : {FALSE},
               hourly : {NoTimer}, duration : {NoTimer}, fired : {{}}, recording : {FALSE},
               audioCh : {None}, stage : {[j \in Jobs |-> "free"]},
               out : {[j \in Jobs |-> AnyOut]}, warned : {{}}, broken : {{}}, closing : {"no"}]
    BY DEF Init
  <2>4. /\ r.limited \in BOOLEAN /\ r.state \in States
        /\ r.seg \in Jobs \cup {None} /\ r.next \in Jobs \cup {None} /\ r.retiring \in Nat
        /\ r.hourly \in TimersOf({"rotate", "retry"}) /\ r.duration \in TimersOf({"limit"})
        /\ r.audioCh \in Jobs \cup {None}
    BY <1>1, <2>2 DEF States, TimersOf
  <2>5. r.stage \in [Jobs -> Stages] /\ r.out \in [Jobs -> Outs]
    BY <1>1, <2>2
  <2>. QED BY <1>1, <2>3, <2>4, <2>5 DEF Recorders
<1>3. Ending(r.stage) = {} /\ Cardinality({}) = 0
  BY <1>1, FS_EmptySet DEF Ending, Finalizing
<1>4. Core(r)
  <2>1. Counts(r)
    BY <1>1, <1>3, EndingFinite DEF Counts
  <2>. QED BY <1>1, <1>2, <2>1 DEF Core, Plans, TimersFit, Writers, Closed, NoTimer
<1>5. Capture(r)
  BY <1>1, RecorderAssumption DEF Capture
<1>6. Stops(r) /\ Follows(r) /\ Scheduled(r) /\ Ends(r)
  BY <1>1 DEF Stops, Follows, Scheduled, Hourly, Ends
<1>. QED BY <1>4, <1>5, <1>6 DEF Good

\* What Good says of the fields a step reads.
LEMMA GoodFields ==
  ASSUME NEW w, Good(w)
  PROVE  /\ w \in Recorders /\ w.stage \in [Jobs -> Stages] /\ w.out \in [Jobs -> Outs]
         /\ w.broken \subseteq Jobs /\ w.warned \subseteq Jobs /\ w.retiring \in Nat
         /\ w.cfg \in Config /\ w.active \in BOOLEAN
         /\ (w.next # None => w.next \in Jobs) /\ (w.seg # None => w.seg \in Jobs)
         /\ w.closing # "no" => ~w.active /\ w.state \in {"stopped", "stopping"}
BY DEF Good, Core, Recorders, Closed

\* A change of active alone; the schedule then has to be looked at.
LEMMA ActiveEffect ==
  ASSUME NEW w, Good(w), NEW a \in BOOLEAN, a => w.closing = "no"
  PROVE  LET v == [w EXCEPT !.active = a] IN
         /\ Core(v) /\ Capture(v) /\ Stops(v) /\ Follows(v) /\ Ends(v)
         /\ v.active = a /\ v.cfg = w.cfg /\ v.closing = w.closing /\ v.state = w.state
         /\ v.stage = w.stage /\ v.retiring = w.retiring /\ v.duration = w.duration
         /\ v.stopOpen = w.stopOpen
<1>. DEFINE v == [w EXCEPT !.active = a]
<1>1. /\ v \in Recorders /\ v.active = a /\ v.cfg = w.cfg /\ v.closing = w.closing
      /\ v.seg = w.seg /\ v.recording = w.recording /\ v.audioCh = w.audioCh
      /\ v.hourly = w.hourly /\ v.duration = w.duration
      /\ v.state = w.state /\ v.restart = w.restart /\ v.stopOpen = w.stopOpen
      /\ v.retiring = w.retiring /\ v.next = w.next
      /\ v.stage = w.stage /\ v.out = w.out /\ v.err = w.err /\ v.broken = w.broken
  BY GoodFields DEF Recorders
<1>. HIDE DEF v
<1>2. Core(v)
  BY <1>1 DEF Good, Core, Plans, TimersFit, Writers, Closed, Counts
<1>3. Capture(v) /\ Stops(v) /\ Follows(v) /\ Ends(v)
  BY <1>1 DEF Good, Capture, Stops, Follows, Ends
<1>. QED BY <1>1, <1>2, <1>3 DEF v

LEMMA CommandsKeep ==
  ASSUME Good(r), Commands
  PROVE  /\ Good(r') /\ Moves(r, r')
         /\ r'.closing = r.closing \/ (r.closing = "no" /\ r'.closing = "waiting")
<1>1. CASE Activate
  <2>. DEFINE w == [r EXCEPT !.active = TRUE]
  <2>1. /\ Core(w) /\ Capture(w) /\ Stops(w) /\ Follows(w) /\ Ends(w)
        /\ w.cfg = r.cfg /\ w.closing = r.closing /\ w.state = r.state
        /\ w.stage = r.stage /\ w.retiring = r.retiring /\ w.duration = r.duration
    BY <1>1, ActiveEffect DEF Activate
  <2>2. r' = StartHourly(w)
    BY <1>1 DEF Activate
  <2>. HIDE DEF w
  <2>3. Free(w) # {}
    BY <1>1, <2>1 DEF Activate, JobRoom, Free
  <2>4. LET v == StartHourly(w) IN
        /\ Core(v) /\ Capture(v) /\ Stops(v) /\ Follows(v) /\ Ends(v) /\ Scheduled(v)
        /\ Settings(v) = Settings(w) /\ v.retiring = w.retiring
        /\ w.state = "running" => v = w
        /\ v.state = w.state \/ (w.state \in {"stopped", "error"} /\ v.state = "starting")
    BY <2>1, <2>3, StartHourlyKeeps
  <2>. QED BY <2>1, <2>2, <2>4 DEF Good, Moves, Settings
<1>2. CASE Deactivate
  <2>. DEFINE w == [r EXCEPT !.active = FALSE]
  <2>1. /\ Core(w) /\ Capture(w) /\ Stops(w) /\ ~w.active
        /\ w.cfg = r.cfg /\ w.closing = r.closing /\ w.state = r.state
    BY ActiveEffect
  <2>2. r' = Stop(w) /\ w.closing # "exited" /\ ~Hourly(w)
    BY <1>2, <2>1 DEF Deactivate, Alive, Hourly
  <2>. HIDE DEF w
  <2>3. LET v == Stop(w) IN
        /\ Core(v) /\ Capture(v) /\ Stops(v) /\ Follows(v) /\ Ends(v) /\ Scheduled(v)
        /\ Settings(v) = Settings(w) /\ v.state \in {"stopped", "stopping"}
        /\ w.state = "stopping" => v.state = "stopping"
        /\ v.state = "stopped" /\ w.state # "stopped" => v.retiring = 0
    BY <2>1, <2>2, StopKeeps
  <2>. QED BY <2>1, <2>2, <2>3 DEF Good, Moves, Settings
<1>3. CASE StartOnDemand
  <2>1. CASE r.state \in {"stopped", "error"}
    <3>1. r.active /\ Free(r) # {} /\ r' = StartRun(r) /\ r.cfg.mode # "hourly"
      BY <1>3 DEF StartOnDemand, JobRoom
    <3>2. LET v == StartRun(r) IN
          /\ Core(v) /\ Capture(v) /\ Stops(v) /\ Follows(v) /\ Ends(v)
          /\ v.state = "starting" /\ Settings(v) = Settings(r)
      BY <2>1, <3>1, StartRunKeeps DEF Good
    <3>. QED BY <2>1, <3>1, <3>2 DEF Good, Moves, Settings, Scheduled
  <2>2. CASE r.state \notin {"stopped", "error"}
    BY <1>3, <2>2 DEF StartOnDemand, StartRun, Moves
  <2>. QED BY <2>1, <2>2
<1>4. CASE StopOnDemand
  <2>1. r' = Stop(r) /\ r.closing # "exited" /\ ~Hourly(r)
    BY <1>4 DEF StopOnDemand, Alive, Hourly
  <2>2. LET v == Stop(r) IN
        /\ Core(v) /\ Capture(v) /\ Stops(v) /\ Follows(v) /\ Ends(v) /\ Scheduled(v)
        /\ Settings(v) = Settings(r) /\ v.state \in {"stopped", "stopping"}
        /\ r.state = "stopping" => v.state = "stopping"
        /\ v.state = "stopped" /\ r.state # "stopped" => v.retiring = 0
    BY <2>1, StopKeeps DEF Good
  <2>. QED BY <2>1, <2>2 DEF Good, Moves, Settings
<1>5. CASE \E c \in Config : Update(c)
  BY <1>5, ApplyConfigKeeps DEF Update, Alive, JobRoom, TimerRoom
<1>6. CASE \E b \in Limits : SetMaxDuration(b)
  <2>1. PICK b \in BOOLEAN : r' = [r EXCEPT !.limited = b]
    BY <1>6, RecorderAssumption DEF SetMaxDuration
  <2>2. /\ r' \in Recorders /\ r'.active = r.active /\ r'.cfg = r.cfg /\ r'.closing = r.closing
        /\ r'.seg = r.seg /\ r'.recording = r.recording /\ r'.audioCh = r.audioCh
        /\ r'.hourly = r.hourly /\ r'.duration = r.duration
        /\ r'.state = r.state /\ r'.restart = r.restart /\ r'.stopOpen = r.stopOpen
        /\ r'.retiring = r.retiring /\ r'.next = r.next
        /\ r'.stage = r.stage /\ r'.out = r.out /\ r'.err = r.err /\ r'.broken = r.broken
    BY <2>1, GoodFields DEF Recorders
  <2>3. Core(r')
    BY <2>2 DEF Good, Core, Plans, TimersFit, Writers, Closed, Counts
  <2>4. Capture(r') /\ Stops(r') /\ Follows(r') /\ Ends(r') /\ Scheduled(r')
    BY <2>2 DEF Good, Capture, Stops, Follows, Ends, Scheduled, Hourly
  <2>. QED BY <2>2, <2>3, <2>4 DEF Good, Moves
<1>7. CASE CloseBegins
  <2>. DEFINE w == [r EXCEPT !.active = FALSE]
              v == Stop(w)
  <2>1. /\ Core(w) /\ Capture(w) /\ Stops(w) /\ ~w.active
        /\ w.cfg = r.cfg /\ w.closing = r.closing /\ w.state = r.state
    BY ActiveEffect
  <2>2. r' = [v EXCEPT !.closing = "waiting"] /\ w.closing = "no" /\ ~Hourly(w)
    BY <1>7, <2>1 DEF CloseBegins, Hourly
  <2>. HIDE DEF w
  <2>3. /\ Core(v) /\ Capture(v) /\ Stops(v) /\ Follows(v) /\ Ends(v) /\ Scheduled(v)
        /\ Settings(v) = Settings(w) /\ v.state \in {"stopped", "stopping"}
        /\ w.state = "stopping" => v.state = "stopping"
        /\ v.state = "stopped" /\ w.state # "stopped" => v.retiring = 0
    BY <2>1, <2>2, StopKeeps
  <2>. HIDE DEF v
  <2>4. /\ r' \in Recorders /\ ~r'.active /\ r'.cfg = v.cfg /\ r'.closing = "waiting"
        /\ r'.seg = v.seg /\ r'.recording = v.recording /\ r'.audioCh = v.audioCh
        /\ r'.hourly = v.hourly /\ r'.duration = v.duration
        /\ r'.state = v.state /\ r'.restart = v.restart /\ r'.stopOpen = v.stopOpen
        /\ r'.retiring = v.retiring /\ r'.next = v.next
        /\ r'.stage = v.stage /\ r'.out = v.out /\ r'.err = v.err /\ r'.broken = v.broken
        /\ v.closing = "no"
    BY <2>1, <2>2, <2>3 DEF Core, Recorders, Settings
  <2>5. Core(r')
    BY <2>3, <2>4 DEF Core, Plans, TimersFit, Writers, Closed, Counts
  <2>6. Capture(r') /\ Stops(r') /\ Follows(r') /\ Ends(r') /\ Scheduled(r')
    BY <2>3, <2>4 DEF Capture, Stops, Follows, Ends, Scheduled, Hourly
  <2>. QED BY <2>1, <2>2, <2>3, <2>4, <2>5, <2>6 DEF Good, Moves
<1>. QED BY <1>1, <1>2, <1>3, <1>4, <1>5, <1>6, <1>7 DEF Commands

LEMMA ClosingKeeps ==
  ASSUME Good(r), CloseQuits \/ LoopExits
  PROVE  /\ Good(r') /\ Moves(r, r')
         /\ r.closing # "no" /\ r'.closing # "no" /\ (r.closing = "exited" => r'.closing = "exited")
         /\ r'.state = r.state /\ r'.stage = r.stage /\ r'.seg = r.seg
         /\ r'.recording = r.recording
         /\ r'.closing = "exited" \/ r'.stopOpen = r.stopOpen
<1>1. /\ r' \in Recorders /\ r'.active = r.active /\ r'.cfg = r.cfg
      /\ r'.seg = r.seg /\ r'.recording = r.recording /\ r'.audioCh = r.audioCh
      /\ r'.hourly = r.hourly /\ r'.duration = r.duration
      /\ r'.state = r.state /\ r'.restart = r.restart
      /\ r'.retiring = r.retiring /\ r'.next = r.next
      /\ r'.stage = r.stage /\ r'.out = r.out /\ r'.err = r.err /\ r'.broken = r.broken
      /\ \/ r.closing = "waiting" /\ r'.closing = "quit" /\ r'.stopOpen = r.stopOpen
         \/ r.closing = "quit" /\ r'.closing = "exited"
  <2>1. CASE CloseQuits
    BY <2>1, GoodFields DEF Recorders, CloseQuits
  <2>2. CASE LoopExits
    <3>1. r' = [r EXCEPT !.closing = "exited", !.stopOpen = FALSE] /\ r.closing = "quit"
      BY <2>2 DEF LoopExits
    <3>2. r \in Recorders
      BY GoodFields
    <3>3. [r EXCEPT !.closing = "exited", !.stopOpen = FALSE] \in Recorders
      BY ZenonT(60), <3>2 DEF Recorders
    <3>. QED BY <3>1, <3>2, <3>3 DEF Recorders
  <2>. QED BY <2>1, <2>2
<1>2. Core(r')
  BY <1>1 DEF Good, Core, Plans, TimersFit, Writers, Closed, Counts
<1>3. Capture(r') /\ Stops(r') /\ Follows(r') /\ Ends(r') /\ Scheduled(r')
  BY <1>1 DEF Good, Capture, Stops, Follows, Ends, Scheduled, Hourly
<1>. QED BY <1>1, <1>2, <1>3 DEF Good, Moves

\* What a helper or a timer may do on its own, without the loop.
Untouched(w, v) ==
  /\ Settings(v) = Settings(w) /\ Capturing(v) = Capturing(w) /\ Stopping(v) = Stopping(w)
  /\ v.hourly = w.hourly /\ v.duration = w.duration /\ v.next = w.next
  /\ w.err => v.err

LEMMA UntouchedKeeps ==
  ASSUME NEW w, NEW v \in Recorders, Good(w), Untouched(w, v),
         Writers(v), Ending(v.stage) = Ending(w.stage),
         \A i \in Jobs : v.stage[i] = "live" <=> w.stage[i] = "live",
         w.next # None => v.stage[w.next] \in {"clock", "opening", "opened", "broken"},
         w.next # None /\ w.closing # "exited" => v.out[w.next] = w.cfg.out,
         w.seg # None => v.out[w.seg] = w.out[w.seg]
  PROVE  Good(v) /\ Moves(w, v) /\ v.closing = w.closing
<1>1. /\ v.active = w.active /\ v.cfg = w.cfg /\ v.closing = w.closing
      /\ v.seg = w.seg /\ v.recording = w.recording /\ v.audioCh = w.audioCh
      /\ v.hourly = w.hourly /\ v.duration = w.duration
      /\ v.state = w.state /\ v.restart = w.restart /\ v.stopOpen = w.stopOpen
      /\ v.retiring = w.retiring /\ v.next = w.next
  BY DEF Untouched, Settings, Capturing, Stopping
<1>2. Core(v)
  BY <1>1 DEF Good, Core, Plans, TimersFit, Closed, Counts
<1>3. Capture(v) /\ Stops(v) /\ Ends(v) /\ Scheduled(v)
  BY <1>1 DEF Good, Capture, Stops, Ends, Scheduled, Hourly
<1>4. Follows(v)
  BY <1>1 DEF Good, Follows, Capture, Untouched
<1>. QED BY <1>1, <1>2, <1>3, <1>4 DEF Good, Moves

LEMMA ClockPollKeeps ==
  ASSUME Good(r), NEW j \in Jobs, NEW synced \in BOOLEAN, ClockPoll(j, synced)
  PROVE  Good(r') /\ Moves(r, r') /\ r'.closing = r.closing
<1>1. r.stage[j] = "clock" /\ j \notin r.broken /\ j # None /\ r.seg # j
  BY RecorderAssumption DEF ClockPoll, Good, Core, Writers, Capture
<1>2. CASE r.next # j \/ ~Alive
  <2>. DEFINE w == [r EXCEPT !.warned = @ \ {j}]
  <2>1. /\ w \in Recorders /\ w.stage = r.stage /\ w.out = r.out /\ w.broken = r.broken
        /\ w.next = r.next /\ w.err = r.err /\ w.closing = r.closing
        /\ Settings(w) = Settings(r) /\ Capturing(w) = Capturing(r) /\ Stopping(w) = Stopping(r)
        /\ w.hourly = r.hourly /\ w.duration = r.duration
    BY GoodFields DEF Recorders, Settings, Capturing, Stopping
  <2>2. r' = Release(w, j)
    BY <1>2 DEF ClockPoll
  <2>. HIDE DEF w
  <2>3. Good(w) /\ Moves(r, w)
    <3>1. Untouched(r, w) /\ Writers(w)
      BY <2>1 DEF Untouched, Good, Core, Writers
    <3>. QED BY <2>1, <3>1, UntouchedKeeps DEF Good, Core, Plans, Follows
  <2>4. r.next # j
    <3>1. r.closing = "exited" => r.next = None
      BY DEF Good, Core, Plans, Closed
    <3>. QED BY <1>1, <1>2, <3>1 DEF Alive
  <2>5. /\ w.stage[j] \notin {"live"} \cup Finalizing /\ j \notin w.broken /\ w.next # j
    BY <1>1, <2>1, <2>4 DEF Finalizing
  <2>6. Good(r') /\ Moves(w, r') /\ r'.closing = w.closing
    BY <2>2, <2>3, <2>5, ReleaseKeeps
  <2>7. w.state = r.state /\ w.cfg = r.cfg
    BY <2>1 DEF Stopping, Settings
  <2>. QED BY <2>1, <2>6, <2>7 DEF Moves
<1>3. CASE r.next = j /\ Alive /\ ~synced
  <2>1. r' = [r EXCEPT !.warned = @ \cup {j}, !.err = TRUE]
    BY <1>3 DEF ClockPoll
  <2>2. /\ r' \in Recorders /\ r'.stage = r.stage /\ r'.out = r.out /\ r'.broken = r.broken
        /\ r'.closing = r.closing /\ Untouched(r, r')
    <3>1. r \in Recorders /\ r.warned \cup {j} \in SUBSET Jobs
      BY GoodFields
    <3>2. r' \in Recorders
      BY ZenonT(60), <2>1, <3>1 DEF Recorders
    <3>. QED BY <2>1, <3>1, <3>2 DEF Recorders, Untouched, Settings, Capturing, Stopping
  <2>3. Writers(r')
    BY <2>2 DEF Good, Core, Writers
  <2>. QED BY <2>2, <2>3, UntouchedKeeps DEF Good, Core, Plans, Follows
<1>4. CASE r.next = j /\ Alive /\ synced
  <2>. DEFINE o == IF j \in r.warned THEN r.cfg.out ELSE r.out[j]
  <2>1. r' = [r EXCEPT !.stage[j] = "opening", !.warned = @ \ {j}, !.out[j] = o]
    BY <1>4 DEF ClockPoll
  <2>2. o = r.cfg.out /\ o \in Outs
    BY <1>1, <1>4, GoodFields DEF Alive, Good, Follows, Config
  <2>. HIDE DEF o
  <2>3. [r.stage EXCEPT ![j] = "opening"] \in [Jobs -> Stages]
        /\ [r.out EXCEPT ![j] = o] \in [Jobs -> Outs]
    BY <2>2, GoodFields DEF Stages
  <2>4. r' \in Recorders
    <3>1. r \in Recorders /\ r.warned \ {j} \in SUBSET Jobs
      BY GoodFields
    <3>. QED BY ZenonT(60), <2>1, <2>3, <3>1 DEF Recorders
  <2>5. /\ r'.stage = [r.stage EXCEPT ![j] = "opening"] /\ r'.out = [r.out EXCEPT ![j] = o]
        /\ r'.broken = r.broken /\ r'.closing = r.closing /\ Untouched(r, r')
    BY <2>1, <2>4, GoodFields DEF Recorders, Untouched, Settings, Capturing, Stopping
  <2>6. Ending(r'.stage) = Ending(r.stage)
    BY SMTT(60), <1>1, <2>5, GoodFields, EndingStays DEF Finalizing
  <2>7. Writers(r')
    BY <1>1, <2>5, GoodFields DEF Good, Core, Writers
  <2>8. /\ \A i \in Jobs : r'.stage[i] = "live" <=> r.stage[i] = "live"
        /\ r'.stage[j] = "opening" /\ r'.out[j] = r.cfg.out
        /\ r.seg # None => r'.out[r.seg] = r.out[r.seg]
    BY <1>1, <2>2, <2>5, GoodFields
  <2>. QED BY <1>4, <2>4, <2>5, <2>6, <2>7, <2>8, UntouchedKeeps
<1>. QED BY <1>2, <1>3, <1>4 DEF ClockPoll

LEMMA OpenSegmentKeeps ==
  ASSUME Good(r), NEW j \in Jobs, NEW ok \in BOOLEAN, OpenSegment(j, ok)
  PROVE  Good(r') /\ Moves(r, r') /\ r'.closing = r.closing
<1>1. r.stage[j] = "opening" /\ j \notin r.broken /\ j # None /\ r.seg # j
  BY RecorderAssumption DEF OpenSegment, Good, Core, Writers, Capture
<1>2. CASE r.closing = "exited"
  <2>1. r.next # j /\ r' = Release(r, j)
    BY <1>1, <1>2 DEF OpenSegment, Alive, Good, Core, Plans, Closed
  <2>. QED BY <1>1, <2>1, ReleaseKeeps DEF Finalizing
<1>3. CASE r.closing # "exited"
  <2>. DEFINE how == IF ok THEN "opened" ELSE "broken"
  <2>1. r' = [r EXCEPT !.stage[j] = how]
    BY <1>3 DEF OpenSegment, Alive
  <2>2. [r.stage EXCEPT ![j] = how] \in [Jobs -> Stages] /\ how \in {"opened", "broken"}
    BY GoodFields DEF Stages
  <2>. HIDE DEF how
  <2>3. r' \in Recorders
    BY <2>1, <2>2, GoodFields DEF Recorders
  <2>4. /\ r'.stage = [r.stage EXCEPT ![j] = how] /\ r'.out = r.out
        /\ r'.broken = r.broken /\ r'.closing = r.closing /\ Untouched(r, r')
    BY <2>1, <2>2, GoodFields DEF Recorders, Untouched, Settings, Capturing, Stopping
  <2>5. Ending(r'.stage) = Ending(r.stage)
    BY SMTT(60), <1>1, <2>2, <2>4, GoodFields, EndingStays DEF Finalizing
  <2>6. Writers(r')
    BY <1>1, <2>4, GoodFields DEF Good, Core, Writers
  <2>7. \A i \in Jobs : r'.stage[i] = IF i = j THEN how ELSE r.stage[i]
    BY <2>4, GoodFields
  <2>8. r.next # None => r'.stage[r.next] \in {"clock", "opening", "opened", "broken"}
    BY <2>2, <2>7, GoodFields DEF Good, Core, Plans
  <2>9. \A i \in Jobs : r'.stage[i] = "live" <=> r.stage[i] = "live"
    BY <1>1, <2>2, <2>7
  <2>. QED BY ZenonT(60), <2>3, <2>4, <2>5, <2>6, <2>8, <2>9, UntouchedKeeps DEF Good, Follows
<1>. QED BY <1>2, <1>3

LEMMA FinishEncoderKeeps ==
  ASSUME Good(r), NEW j \in Jobs, NEW ok \in BOOLEAN, FinishEncoder(j, ok)
  PROVE  Good(r') /\ Moves(r, r') /\ r'.closing = r.closing
<1>1. r.stage[j] \in {"draining", "ending", "failing"} /\ j # None /\ r.seg # j /\ r.next # j
  BY RecorderAssumption DEF FinishEncoder, Good, Core, Capture, Plans
<1>. DEFINE how == IF ok THEN "drained" ELSE "spoiled"
<1>2. r' = [r EXCEPT !.stage[j] = how, !.broken = @ \ {j}]
  BY DEF FinishEncoder
<1>3. [r.stage EXCEPT ![j] = how] \in [Jobs -> Stages] /\ how \in {"drained", "spoiled"}
  BY GoodFields DEF Stages
<1>. HIDE DEF how
<1>4. r' \in Recorders
  <2>1. r \in Recorders /\ r.broken \ {j} \in SUBSET Jobs
    BY GoodFields
  <2>. QED BY ZenonT(60), <1>2, <1>3, <2>1 DEF Recorders
<1>5. /\ r'.stage = [r.stage EXCEPT ![j] = how] /\ r'.out = r.out
      /\ r'.broken = r.broken \ {j} /\ r'.closing = r.closing /\ Untouched(r, r')
  BY <1>2, <1>3, GoodFields DEF Recorders, Untouched, Settings, Capturing, Stopping
<1>6. Ending(r'.stage) = Ending(r.stage)
  <2>1. how \in Finalizing /\ r.stage[j] \in Finalizing
    BY <1>1, <1>3 DEF Finalizing
  <2>. QED BY <1>5, <2>1, GoodFields, EndingStays
<1>7. Writers(r')
  BY <1>5, GoodFields DEF Good, Core, Writers
<1>8. \A i \in Jobs : r'.stage[i] = IF i = j THEN how ELSE r.stage[i]
  BY <1>5, GoodFields
<1>9. r.next # None => r'.stage[r.next] \in {"clock", "opening", "opened", "broken"}
  BY <1>1, <1>8, GoodFields DEF Good, Core, Plans
<1>10. \A i \in Jobs : r'.stage[i] = "live" <=> r.stage[i] = "live"
  BY <1>1, <1>3, <1>8
<1>. QED BY ZenonT(60), <1>4, <1>5, <1>6, <1>7, <1>9, <1>10, UntouchedKeeps DEF Good, Follows

LEMMA PreparedKeeps ==
  ASSUME Good(r), NEW j \in Jobs, Prepared(j)
  PROVE  Good(r') /\ Moves(r, r') /\ r'.closing = r.closing
<1>1. r.closing # "exited" /\ r.stage[j] \in {"opened", "broken"} /\ j \notin r.broken
      /\ j # None /\ r.seg # j
  BY RecorderAssumption DEF Prepared, Alive, Good, Core, Writers, Capture
<1>2. CASE r.next = j /\ r.stage[j] = "opened"
  <2>1. r' = TakeOn([r EXCEPT !.next = None], j) /\ FreeTimers(r) # {}
    BY <1>2 DEF Prepared, TimerRoom
  <2>. QED BY <1>1, <1>2, <2>1, TakeOnKeeps
<1>3. CASE r.next = j /\ r.stage[j] = "broken"
  <2>1. r' = NotPrepared(Release([r EXCEPT !.next = None], j)) /\ FreeTimers(r) # {}
    BY <1>3 DEF Prepared, TimerRoom
  <2>. QED BY <1>1, <1>3, <2>1, NotPreparedKeeps
<1>4. CASE r.next # j /\ r.stage[j] = "broken"
  <2>1. r' = Release(r, j)
    BY <1>4 DEF Prepared
  <2>. QED BY <1>1, <1>4, <2>1, ReleaseKeeps DEF Finalizing
<1>5. CASE r.next # j /\ r.stage[j] = "opened"
  <2>1. r' = [r EXCEPT !.stage[j] = "abandoned"]
    BY <1>5 DEF Prepared
  <2>2. r \in Recorders /\ [r.stage EXCEPT ![j] = "abandoned"] \in [Jobs -> Stages]
    BY GoodFields DEF Stages
  <2>3. r' \in Recorders
    BY <2>1, <2>2 DEF Recorders
  <2>4. /\ r'.stage = [r.stage EXCEPT ![j] = "abandoned"] /\ r'.out = r.out
        /\ r'.broken = r.broken /\ r'.closing = r.closing /\ Untouched(r, r')
    BY <2>1, <2>2 DEF Recorders, Untouched, Settings, Capturing, Stopping
  <2>5. Ending(r'.stage) = Ending(r.stage)
    <3>1. r.stage[j] \notin Finalizing /\ "abandoned" \notin Finalizing
      BY <1>5 DEF Finalizing
    <3>. QED BY <2>4, <3>1, GoodFields, EndingStays
  <2>6. Writers(r')
    BY <1>1, <2>4, GoodFields DEF Good, Core, Writers
  <2>7. \A i \in Jobs : r'.stage[i] = IF i = j THEN "abandoned" ELSE r.stage[i]
    BY <2>4, GoodFields
  <2>8. r.next # None => r'.stage[r.next] \in {"clock", "opening", "opened", "broken"}
    BY <1>5, <2>7, GoodFields DEF Good, Core, Plans
  <2>9. \A i \in Jobs : r'.stage[i] = "live" <=> r.stage[i] = "live"
    BY <1>5, <2>7
  <2>. QED BY ZenonT(60), <2>3, <2>4, <2>5, <2>6, <2>8, <2>9, UntouchedKeeps DEF Good, Follows
<1>. QED BY <1>1, <1>2, <1>3, <1>4, <1>5

LEMMA AbandonKeeps ==
  ASSUME Good(r), NEW j \in Jobs, Abandon(j)
  PROVE  Good(r') /\ Moves(r, r') /\ r'.closing = r.closing
<1>1. /\ r.stage[j] \in {"abandoned", "opened", "broken"} /\ r' = Release(r, j)
      /\ r.stage[j] = "abandoned" \/ r.closing = "exited"
  BY DEF Abandon, Alive
<1>2. j \notin r.broken /\ j # None
  BY <1>1, RecorderAssumption DEF Good, Core, Writers
<1>3. r.next # j
  BY <1>1, <1>2 DEF Good, Core, Plans, Closed
<1>. QED BY <1>1, <1>2, <1>3, ReleaseKeeps DEF Finalizing

LEMMA FaultsKeep ==
  ASSUME Good(r), Faults
  PROVE  Good(r') /\ Moves(r, r') /\ r'.closing = r.closing /\ r'.stage = r.stage
<1>1. PICK j \in Jobs : WriterFails(j) \/ SyncFails(j)
  BY DEF Faults
<1>2. r' \in Recorders /\ r'.stage = r.stage /\ r'.out = r.out /\ r'.closing = r.closing
      /\ Untouched(r, r')
      /\ \/ r'.broken = r.broken
         \/ r'.broken = r.broken \cup {j} /\ r.stage[j] \in {"live", "draining"}
  <2>1. r \in Recorders /\ r.broken \cup {j} \in SUBSET Jobs
    BY GoodFields
  <2>2. CASE WriterFails(j)
    <3>1. r' = [r EXCEPT !.broken = @ \cup {j}] /\ r.stage[j] \in {"live", "draining"}
      BY <2>2 DEF WriterFails
    <3>2. r' \in Recorders
      BY <2>1, <3>1 DEF Recorders
    <3>. QED BY <2>1, <3>1, <3>2 DEF Recorders, Untouched, Settings, Capturing, Stopping
  <2>3. CASE SyncFails(j)
    <3>1. r' = [r EXCEPT !.err = TRUE]
      BY <2>3 DEF SyncFails
    <3>2. r' \in Recorders
      BY ZenonT(60), <2>1, <3>1 DEF Recorders
    <3>. QED BY <2>1, <3>1, <3>2 DEF Recorders, Untouched, Settings, Capturing, Stopping
  <2>. QED BY <1>1, <2>2, <2>3
<1>3. Writers(r')
  BY <1>2 DEF Good, Core, Writers
<1>. QED BY <1>2, <1>3, UntouchedKeeps DEF Good, Core, Plans, Follows

LEMMA TimingKeeps ==
  ASSUME Good(r), Timing
  PROVE  Good(r') /\ Moves(r, r') /\ r'.closing = r.closing /\ r'.stage = r.stage
<1>1. PICK t \in {r.hourly, r.duration} : t # NoTimer /\ r' = [r EXCEPT !.fired = @ \cup {t}]
  BY DEF Timing, Fire
<1>2. r \in Recorders /\ t \in [id : Timers, does : {"rotate", "retry", "limit"}]
  BY <1>1, GoodFields DEF Recorders, TimersOf
<1>3. r.fired \cup {t} \in SUBSET [id : Timers, does : {"rotate", "retry", "limit"}]
  BY <1>2 DEF Recorders
<1>4. r' \in Recorders
  <2>. DEFINE f == r.fired \cup {t}
  <2>1. r' = [r EXCEPT !.fired = f]
    BY <1>1
  <2>2. f \in SUBSET [id : Timers, does : {"rotate", "retry", "limit"}]
    BY <1>3
  <2>. HIDE DEF f
  <2>. QED BY <1>2, <2>1, <2>2 DEF Recorders
<1>5. r'.stage = r.stage /\ r'.out = r.out /\ r'.broken = r.broken /\ r'.closing = r.closing
      /\ Untouched(r, r')
  BY <1>1, <1>2, <1>4 DEF Recorders, Untouched, Settings, Capturing, Stopping
<1>6. Writers(r')
  BY <1>5 DEF Good, Core, Writers
<1>. QED BY <1>4, <1>5, <1>6, UntouchedKeeps DEF Good, Core, Plans, Follows

LEMMA HelperKeeps ==
  ASSUME Good(r), NEW j \in Jobs, Helper(j)
  PROVE  Good(r') /\ Moves(r, r') /\ r'.closing = r.closing
BY ClockPollKeeps, OpenSegmentKeeps, FinishEncoderKeeps, PreparedKeeps, AbandonKeeps,
   WriteFailedKeeps, RetiredKeeps DEF Helper

\* Each step keeps Good, and a loop that has ended does not come back.
LEMMA NextKeeps ==
  ASSUME Good(r), Next
  PROVE  /\ Good(r') /\ Moves(r, r')
         /\ r.closing = "exited" => r'.closing = "exited"
<1>1. CASE Commands
  <2>1. /\ Good(r') /\ Moves(r, r')
        /\ r'.closing = r.closing \/ (r.closing = "no" /\ r'.closing = "waiting")
    BY <1>1, CommandsKeep
  <2>. QED BY <2>1
<1>2. CASE CloseQuits \/ LoopExits
  BY <1>2, ClosingKeeps
<1>3. CASE \E j \in Jobs : Helper(j)
  BY <1>3, HelperKeeps
<1>4. CASE \E t \in r.fired : TimerRuns(t)
  BY <1>4, TimerRunsKeeps
<1>5. CASE Timing \/ Faults
  BY <1>5, TimingKeeps, FaultsKeep
<1>. QED BY <1>1, <1>2, <1>3, <1>4, <1>5 DEF Next

LEMMA IInvNext == IInv /\ [Next]_r => IInv'
BY NextKeeps DEF IInv

-------------------------------------------------------------------------------
(* Theorems                                                                 *)

\* A complete stop has nothing left, and nothing leaves a stop before that.
LEMMA NextStopIsComplete ==
  ASSUME IInv, IInv', Next, (r.stopOpen /\ ~r'.stopOpen) \/ (r.state # "stopped" /\ r'.state = "stopped")
  PROVE  r'.closing = "exited" \/ \A j \in Jobs : r'.stage[j] \notin {"live"} \cup Finalizing
<1> SUFFICES ASSUME r'.closing # "exited"
             PROVE  \A j \in Jobs : r'.stage[j] \notin {"live"} \cup Finalizing
  OBVIOUS
<1>1. Good(r) /\ Good(r') /\ Moves(r, r') /\ r.closing # "exited"
  BY NextKeeps DEF IInv
<1>2. r'.retiring = 0 /\ r'.state \in {"stopped", "starting"}
  BY <1>1 DEF Good, Stops, Moves
<1>3. r'.seg = None
  BY <1>1, <1>2 DEF Good, Capture
<1>4. Cardinality(Ending(r'.stage)) = 0
  BY <1>1, <1>2 DEF Good, Core, Counts
<1>5. \A j \in Jobs : r'.stage[j] # "live"
  BY <1>1, <1>3, RecorderAssumption DEF Good, Capture
<1>. QED BY <1>4, <1>5, NothingEnding

LEMMA NextClosedIsQuiet ==
  ASSUME IInv, Next, ~Alive
  PROVE  /\ r.seg = None /\ ~r.recording
         /\ \A j \in Jobs : r'.stage[j] # r.stage[j] =>
              r'.stage[j] \in {"free", "drained", "spoiled"}
<1>1. Good(r) /\ r.closing = "exited"
  BY DEF IInv, Alive
<1>2. r.seg = None /\ ~r.recording
  BY <1>1, GoodFields DEF Good, Capture
<1>3. CASE Commands \/ CloseQuits \/ LoopExits
  BY <1>1, <1>3 DEF Commands, Activate, Deactivate, StartOnDemand, StopOnDemand, Update,
     SetMaxDuration, CloseBegins, CloseQuits, LoopExits, Alive
<1>4. CASE \E t \in r.fired : TimerRuns(t)
  BY <1>1, <1>4 DEF TimerRuns, Alive
<1>5. CASE Timing \/ Faults
  <2>1. r'.stage = r.stage
    BY <1>1, <1>5, TimingKeeps, FaultsKeep
  <2>. QED BY <1>2, <2>1
<1>6. CASE \E j \in Jobs : Helper(j)
  <2>1. PICK j \in Jobs : Helper(j)
    BY <1>6
  <2>2. \E how \in {"free", "drained", "spoiled"} : r'.stage = [r.stage EXCEPT ![j] = how]
    <3>1. CASE \E w \in Recorders : w.stage = r.stage /\ r' = Release(w, j)
      BY ZenonT(60), <3>1, ReleaseEffect
    <3>2. CASE \E b \in BOOLEAN : ClockPoll(j, b)
      <4>. DEFINE w == [r EXCEPT !.warned = @ \ {j}]
      <4>1. r' = Release(w, j)
        BY <1>1, <3>2 DEF ClockPoll, Alive
      <4>2. w \in Recorders /\ w.stage = r.stage
        BY <1>1, GoodFields DEF Recorders
      <4>. QED BY <3>1, <4>1, <4>2
    <3>3. CASE (\E b \in BOOLEAN : OpenSegment(j, b)) \/ Abandon(j) \/ Retired(j)
      <4>1. r' = Release(r, j)
        BY <1>1, <3>3 DEF OpenSegment, Abandon, Retired, Alive
      <4>. QED BY <1>1, <3>1, <4>1, GoodFields
    <3>4. CASE \E b \in BOOLEAN : FinishEncoder(j, b)
      <4>1. PICK how \in {"drained", "spoiled"} :
              r' = [r EXCEPT !.stage[j] = how, !.broken = @ \ {j}]
        BY <3>4 DEF FinishEncoder
      <4>. QED BY <1>1, <4>1, GoodFields DEF Recorders
    <3>. QED BY <1>1, <2>1, <3>2, <3>3, <3>4 DEF Helper, Prepared, WriteFailed, Alive
  <2>. QED BY <1>1, <1>2, <2>2, GoodFields
<1>. QED BY <1>2, <1>3, <1>4, <1>5, <1>6 DEF Next

LEMMA Invariant == Spec => []IInv
BY InitGood, IInvNext, PTL DEF Spec

LEMMA IInvImplies == IInv => TypeOK /\ StopChannel /\ CaptureHasEncoder /\ OutputFollows /\ KeepsSchedule
<1> SUFFICES ASSUME Good(r)
             PROVE  TypeOK /\ StopChannel /\ CaptureHasEncoder /\ OutputFollows /\ KeepsSchedule
  BY DEF IInv
<1>1. TypeOK
  <2>1. r \in Recorders /\ r.retiring \in 0..Cardinality(Jobs)
    <3>1. Cardinality(Jobs) \in Nat
      BY RecorderAssumption, FS_CardinalityType
    <3>. QED BY <3>1, GoodFields DEF Good, Core, Counts
  <2>. QED BY <2>1 DEF Recorders, TypeOK, States
<1>2. StopChannel
  BY DEF Good, Core, Counts, Stops, StopChannel, Alive, Ending
<1>3. CaptureHasEncoder
  BY DEF Good, Capture, CaptureHasEncoder
<1>4. OutputFollows
  BY DEF Good, Follows, OutputFollows, Alive
<1>5. KeepsSchedule
  BY DEF Good, Scheduled, Hourly, Ends, KeepsSchedule, HourlyRuns, RunHasEnd, Alive
<1>. QED BY <1>1, <1>2, <1>3, <1>4, <1>5

\* Every reachable state of a recorder is well typed.
THEOREM TypeCorrect == Spec => []TypeOK
BY Invariant, IInvImplies, PTL

\* While a recorder reports running, capture goes to one live encoder, its current
\* segment, and otherwise nowhere (begin's make-before-break).
THEOREM OneEncoder == Spec => []CaptureHasEncoder
BY Invariant, IInvImplies, PTL

\* What is recorded has the output settings of now, or the preparation under way
\* will bring them, or the status says that it has not (applyConfig).
THEOREM NewOutputApplies == Spec => []OutputFollows
BY Invariant, IInvImplies, PTL

\* An enabled hourly recorder records in every hour or retries at the next one, and
\* every run has the timer of its own mode and no other.
THEOREM ScheduleKept == Spec => []KeepsSchedule
BY Invariant, IInvImplies, PTL

\* What a caller of stop, close and SetMaxDurationMinutes may count on: the channel of
\* a stop is closed once and not before every segment is finalized, a closed recorder
\* captures nothing and starts nothing, and no setting puts off the limit of a run.
THEOREM StopsAreSound == Spec => StopIsSound
<1>1. IInv /\ IInv' /\ [Next]_r =>
        [(r.stopOpen /\ ~r'.stopOpen) \/ (r.state # "stopped" /\ r'.state = "stopped") =>
           r'.closing = "exited"
           \/ \A j \in Jobs : r'.stage[j] \notin {"live"} \cup Finalizing]_r
  BY NextStopIsComplete
<1>2. IInv /\ [Next]_r =>
        [~Alive => /\ r.seg = None /\ ~r.recording
                   /\ \A j \in Jobs : r'.stage[j] # r.stage[j] =>
                        r'.stage[j] \in {"free", "drained", "spoiled"}]_r
  BY NextClosedIsQuiet
<1>3. IInv /\ [Next]_r =>
        [LET limited(w) == w.state = "running" /\ w.cfg.mode = "ondemand" IN
         limited(r) /\ r.duration # NoTimer /\ limited(r') => r'.duration = r.duration]_r
  BY NextKeeps DEF IInv, Moves
<1>. QED
  BY <1>1, <1>2, <1>3, Invariant, IInvImplies, PTL
     DEF Spec, StopIsSound, StopIsComplete, ClosedIsQuiet, LimitStays
===============================================================================
