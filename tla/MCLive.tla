-------------------------------- MODULE MCLive ---------------------------------
(***************************************************************************)
(* What must eventually happen, and what must hold on the way: a caller    *)
(* stream, a listener stream, an SRT fan-out, the FFmpeg process of a      *)
(* recording, a Dante receiver and the upload of a recording, side by      *)
(* side.  They share no state; each behaviour exercises one of them,       *)
(* chosen at the start; the process of a recording otherwise stays as it   *)
(* was started.                                                            *)
(***************************************************************************)
EXTENDS Process

CONSTANTS
  None, Foreign, w1, u1, all, r1, p1,
  Entries, MaxRetries,                                   \* CallerStream
  Conns, MaxClients, QueueChunks, Password, MaxChunks    \* Fanout

ASSUME CallerStreamAssumption == MaxRetries \in Nat /\ None \notin Entries
ASSUME ListenerStreamAssumption == w1 \notin {u1, all}

VARIABLES
  which,                       \* the component of this behaviour
  m,                           \* CallerStream
  l,                           \* ListenerStream
  conn, queue, done, subscribers, clientCount, writing, evicting, chunk, shutdown, snapshot, serving, sent,    \* Fanout
  pc, dProc, quiet, buf, got, dPipe, dCancelled, interrupt, err, reader, closing, start, accepted,             \* Dante
  gens, imgs, vis, ent, bytes, marker, path, mode, held, idx, phase, up, boot, unreadable, upl, obj, late,
  crashes, faults, losses, audio, puts, quarantined, gone                                                      \* Outbox

C == INSTANCE CallerStream WITH Workers <- {w1}, Users <- {u1}, All <- all
\* A listener with a Stop, or with the StopAll of an encoder that stops.
L == INSTANCE ListenerStream WITH Workers <- {w1}, Stoppers <- {u1}, All <- all, MaxRetries <- 0
A == INSTANCE ListenerStream WITH Workers <- {w1}, Stoppers <- {all}, All <- all, MaxRetries <- 0
F == INSTANCE Fanout
R == INSTANCE Dante WITH GapWait <- 2, Timeout <- 3, MaxGap <- 2, Batch <- 2, MaxPos <- 3,
                         proc <- dProc, pipe <- dPipe, cancelled <- dCancelled
O == INSTANCE Outbox WITH Recs <- {r1}, Paths <- {p1}, Modes <- {"s3", "both"}, MaxKey <- 2, MaxSeq <- 14,
                          Journaled <- TRUE, AllowExpire <- FALSE, AllowVanish <- FALSE,
                          MaxCrashes <- 1, MaxFaults <- 1, MaxLosses <- 1

fanout  == <<conn, queue, done, subscribers, clientCount, writing, evicting, chunk, shutdown, snapshot, serving, sent>>
dante   == <<pc, dProc, quiet, buf, got, dPipe, dCancelled, interrupt, err, reader, closing, start, accepted>>
outbox  == <<gens, imgs, vis, ent, bytes, marker, path, mode, held, idx, phase, up, boot, unreadable, upl, obj, late,
             crashes, faults, losses, audio, puts, quarantined, gone>>
liveVars == <<which, m, l, fanout, vars, dante, outbox>>

NoFanout ==
  /\ conn = None /\ queue = None /\ done = None /\ subscribers = None /\ clientCount = None /\ writing = None
  /\ evicting = None /\ chunk = None /\ shutdown = None /\ snapshot = None /\ serving = None /\ sent = None
NoDante ==
  /\ pc = None /\ dProc = None /\ quiet = None /\ buf = None /\ got = None /\ dPipe = None /\ dCancelled = None
  /\ interrupt = None /\ err = None /\ reader = None /\ closing = None /\ start = None /\ accepted = None
NoOutbox ==
  /\ gens = None /\ imgs = None /\ vis = None /\ ent = None /\ bytes = None /\ marker = None /\ path = None
  /\ mode = None /\ held = None /\ idx = None /\ phase = None /\ up = None /\ boot = None /\ unreadable = None
  /\ upl = None /\ obj = None /\ late = None /\ crashes = None /\ faults = None /\ losses = None
  /\ audio = None /\ puts = None /\ quarantined = None /\ gone = None

LiveInit ==
  /\ which \in {"caller", "stop", "stopAll", "fanout", "process", "dante", "outbox"}
  /\ IF which = "caller" THEN C!Init ELSE m = None
  /\ CASE which = "stop" -> L!Init [] which = "stopAll" -> A!Init [] OTHER -> l = None
  /\ IF which = "fanout" THEN F!Init ELSE NoFanout
  /\ Init
  /\ IF which = "dante" THEN R!Init ELSE NoDante
  /\ IF which = "outbox" THEN O!Init ELSE NoOutbox

LiveNext ==
  /\ UNCHANGED which
  /\ \/ which = "caller" /\ C!Next /\ UNCHANGED <<l, fanout, vars, dante, outbox>>
     \/ which = "stop" /\ L!Next /\ UNCHANGED <<m, fanout, vars, dante, outbox>>
     \/ which = "stopAll" /\ A!Next /\ UNCHANGED <<m, fanout, vars, dante, outbox>>
     \/ which = "fanout" /\ F!Next /\ UNCHANGED <<m, l, vars, dante, outbox>>
     \/ which = "process" /\ Next /\ UNCHANGED <<m, l, fanout, dante, outbox>>
     \/ which = "dante" /\ R!Next /\ UNCHANGED <<m, l, fanout, vars, outbox>>
     \/ which = "outbox" /\ O!Next /\ UNCHANGED <<m, l, fanout, vars, dante>>

\* The fairness each component states, of the component that is exercised.
CallerGoesOn ==
  /\ WF_m(which = "caller" /\ C!Work(w1))
  /\ \A s \in {u1, all} : WF_m(which = "caller" /\ C!StopWork(s))
  /\ \A x \in Entries : WF_m(which = "caller" /\ C!Ending(x))
ListenerGoesOn ==
  /\ WF_l(which = "stop" /\ L!Work(w1))
  /\ WF_l(which = "stop" /\ L!StopGoesOn(u1))
  /\ \A x \in Entries : WF_l(which = "stop" /\ L!Ending(x))
  /\ WF_l(which = "stopAll" /\ A!Work(w1))
  /\ WF_l(which = "stopAll" /\ A!StopGoesOn(all))
  /\ \A x \in Entries : WF_l(which = "stopAll" /\ A!Ending(x))
FanoutGoesOn ==
  /\ WF_fanout(which = "fanout" /\ F!ServerSteps)
  /\ \A c \in Conns : WF_fanout(which = "fanout" /\ F!ClientSteps(c))
ProcessGoesOn ==
  /\ WF_vars(which = "process" /\ Writer)
  /\ WF_vars(which = "process" /\ (Finalizer \/ WriterStuck))
  /\ WF_vars(which = "process" /\ cancelled /\ Turns("failed"))
ReceiverGoesOn ==
  /\ WF_dante(which = "dante" /\ R!Run)
  /\ WF_dante(which = "dante" /\ R!Interrupt)
  /\ WF_dante(which = "dante" /\ R!CloseReturns)
UploaderGoesOn ==
  /\ WF_outbox(which = "outbox" /\ O!UploaderNext)
  /\ WF_outbox(which = "outbox" /\ O!RecoveryNext)

LiveSpec ==
  /\ LiveInit /\ [][LiveNext]_liveVars
  /\ CallerGoesOn /\ ListenerGoesOn /\ FanoutGoesOn /\ ProcessGoesOn /\ ReceiverGoesOn /\ UploaderGoesOn

-------------------------------------------------------------------------------
\* A retry cannot revive a caller stream that Stop has removed, no process is forgotten,
\* and when stream_stopped is emitted its process has exited and its writer is done.
StopHolds == which = "caller" => C!StopHolds /\ C!NoOrphan /\ C!StoppedIsOver

\* Listener mode: no encoder run and no port is left behind by a start, a retry, a Stop
\* or StopAll, and when stream_stopped is emitted the port is free and no encoder of the
\* entry runs again.
NothingStranded ==
  /\ which = "stop" => L!NothingStranded /\ L!StoppedIsOver
  /\ which = "stopAll" => A!NothingStranded /\ A!StoppedIsOver

\* Fan-out: a slow client loses only older chunks.
ClientsStayCurrent == which = "fanout" => F!ClientsStayCurrent

\* Every Stop and StopAll returns, in both modes.
StopsReturn ==
  \A s \in {u1, all} :
    LET busy == \/ which = "caller" /\ C!InStop(s)
                \/ which = "stop" /\ L!InStop(s)
                \/ which = "stopAll" /\ A!InStop(s)
    IN busy ~> ~busy

\* A managed stream whose process has ended gets another one or gives up, in both
\* modes.
Recovers ==
  LET waits == \/ which = "caller" /\ C!Waits
               \/ which = "stop" /\ L!Waits
               \/ which = "stopAll" /\ A!Waits
  IN waits ~> ~waits

\* Fan-out: once Shutdown has begun Wait returns, and nobody is left or joins. Dante: a
\* Close returns, also when nobody reads the pipe that reception writes to.
ClosesEnd ==
  /\ (which = "fanout" /\ F!InShutdown) ~> [](which = "fanout" /\ F!Over)
  /\ (which = "dante" /\ closing) ~> (which = "dante" /\ ~closing)

\* A finished recording reaches S3 and is cleaned up, through a crash, a failing disk step
\* and a lost S3 call.
EventuallyDelivered ==
  (which = "outbox" /\ O!Handed(r1)) ~> (which = "outbox" /\ O!Settled(r1))
===============================================================================
