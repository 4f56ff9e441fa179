---------------------------- MODULE ListenerStream ----------------------------
(***************************************************************************)
(* One stream in listener mode (internal/streaming/manager.go): a fan-out  *)
(* server bound to a port and an FFmpeg encoder run that feeds it.  The    *)
(* monitor replaces only the encoder run; the entry and its port stay.     *)
(* The encoder and the configuration are what the manager asks of them.    *)
(***************************************************************************)
EXTENDS Naturals

CONSTANTS
  Entries,     \* bound: Stream structs that exist at once
  Workers,     \* goroutines that start the stream and become its monitor
  Stoppers,    \* goroutines that call Stop
  All,         \* the one of StopAll; the encoder never stops if it is no stopper
  None,        \* no entry
  MaxRetries   \* of the stream's configuration

VARIABLE
  l            \* the manager, its goroutines and the encoder around it

Agents == Workers \cup Stoppers

\* An encoderRun: attached is "it is Stream.encoder", out and writer are its two
\* goroutines, open its audio channel, eof a closed stdin.
NoRun  == [attached |-> FALSE, proc |-> "none", out |-> FALSE, writer |-> FALSE, open |-> FALSE, eof |-> FALSE]
NewRun == [NoRun EXCEPT !.proc = "alive", !.out = TRUE, !.writer = TRUE, !.open = TRUE]

\* A Stream.  The placeholder (pub = FALSE) shares its fan-out with the entry that
\* replaces it, but not the encoder run.
Blank == [state |-> "none", pub |-> FALSE, cancelled |-> FALSE, fan |-> "none", run |-> NoRun,
          retry |-> 0, stops |-> 0]           \* history: the events of Stop

\* A goroutine: its entry, the entry whose resources it stops, whether it detached
\* the run of that entry, and where it goes afterwards.
Idle == [pc |-> "idle", own |-> None, target |-> None, mine |-> FALSE, next |-> "idle", chan |-> FALSE]

Init ==
  l = [cur |-> None,                          \* m.streams[streamID]
       entry |-> [x \in Entries |-> Blank],
       agent |-> [a \in Agents |-> Idle],
       enc |-> "stopped", enabled |-> TRUE]   \* the encoder, the configuration

Garbage(v, x) ==
  /\ v.cur # x /\ v.entry[x].run.proc # "alive" /\ v.entry[x].fan \in {"none", "closed"}
  /\ \A a \in Agents : x \notin {v.agent[a].own, v.agent[a].target}

\* Of a run that is over only its place in the entry matters, and nobody reads the
\* retries of an entry that is no longer managed.
Settled(v, x) ==
  LET e == v.entry[x]
      over == ~e.run.out /\ ~e.run.writer /\ e.run.proc # "alive"
  IN [e EXCEPT !.retry = IF v.cur = x THEN @ ELSE 0,
               !.run = IF over THEN [NoRun EXCEPT !.attached = e.run.attached] ELSE @]

Becomes(v) ==
  l' = [v EXCEPT !.entry = [x \in Entries |-> IF Garbage(v, x) THEN Blank ELSE Settled(v, x)]]

Unused == {x \in Entries : l.entry[x] = Blank}

At(a, pc)      == l.agent[a].pc = pc
Own(a)         == l.agent[a].own
Target(a)      == l.agent[a].target
Goto(v, a, pc) == [v EXCEPT !.agent[a].pc = pc]
Quit(v, a)     == [v EXCEPT !.agent[a] = Idle]
Owns(x)        == l.cur = x /\ l.entry[x].state # "stopping"

-------------------------------------------------------------------------------
(* stopStreamResources, for a start, a monitor or a Stop                   *)

\* Agent a starts to stop the resources of x and then goes on at next.
Stopping(v, a, x, next) ==
  [v EXCEPT !.agent[a].pc = "detach", !.agent[a].target = x, !.agent[a].next = next]

\* The context is cancelled, the run detached unless another goroutine already did;
\* a placeholder has no run.
Detach(a) ==
  LET x == Target(a)
      mine == l.entry[x].run.attached /\ (l.entry[x].pub \/ Own(a) = x)
  IN /\ At(a, "detach")
     /\ Becomes([Goto(l, a, "reap") EXCEPT
          !.agent[a].mine = mine, !.entry[x].cancelled = TRUE,
          !.entry[x].run = IF mine THEN [@ EXCEPT !.attached = FALSE, !.open = FALSE] ELSE @])

RunOver(r) == ~r.out /\ ~r.writer /\ r.proc # "alive"

\* stopEncoderRun waits for the goroutines and the process, ...
Reap(a) ==
  /\ At(a, "reap") /\ (l.agent[a].mine => RunOver(l.entry[Target(a)].run))
  /\ Becomes(Goto(l, a, "shut"))

\* ... then the fan-out is shut down, once, ...
Shut(a) ==
  /\ At(a, "shut")
  /\ Becomes([Goto(l, a, "drain") EXCEPT !.entry[Target(a)].fan = IF @ = "bound" THEN "closing" ELSE @])

\* ... and waited for.
Drain(a) ==
  LET g == l.agent[a]
      on == [g EXCEPT !.pc = g.next, !.next = "idle", !.mine = FALSE,
                      !.target = IF g.next = "emit" THEN g.target ELSE None]
  IN /\ At(a, "drain") /\ l.entry[Target(a)].fan \in {"none", "closed"}
     /\ Becomes([l EXCEPT !.agent[a] = IF g.next = "idle" THEN Idle ELSE on])

-------------------------------------------------------------------------------
(* Start: startListenerFanout                                              *)

Start(w) ==
  /\ At(w, "idle") /\ l.enc = "running" /\ l.enabled
  /\ Becomes([l EXCEPT !.agent[w] = [Idle EXCEPT !.pc = "claim", !.chan = TRUE]])

MayClaim(w) ==
  /\ l.enc = "running" /\ l.agent[w].chan
  /\ l.cur # None => l.entry[l.cur].state \notin {"running", "starting"}

\* claimStream; what it replaces is stopped first.
Claim(w) ==
  LET n == CHOOSE y \in Unused : TRUE
      old == l.cur
      v == [l EXCEPT !.cur = n, !.agent[w].own = n, !.agent[w].pc = "bind",
                     !.entry[n] = [Blank EXCEPT !.state = "starting",
                                                !.retry = IF old = None THEN 0 ELSE l.entry[old].retry]]
  IN /\ At(w, "claim")
     /\ \/ ~MayClaim(w) /\ Becomes(Quit(l, w))
        \/ /\ MayClaim(w) /\ Unused # {}
           /\ Becomes(IF old = None THEN v ELSE Stopping(v, w, old, "bind"))

\* The port is bound under the lock Stop takes, by the owner of the claim only.
MayBind(x) == l.cur = x

PortFree(x) == \A y \in Entries \ {x} : l.entry[y].fan # "bound"

Bind(w, ok) ==
  LET x == Own(w) IN
  /\ At(w, "bind") /\ (ok => PortFree(x))
  /\ Becomes(IF ~MayBind(x) THEN Quit(l, w)
             ELSE IF ok THEN [Goto(l, w, "exec") EXCEPT !.entry[x].fan = "bound"]
             ELSE [Quit(l, w) EXCEPT !.cur = None])

\* startListenerEncoderRun; when FFmpeg does not start the fan-out goes first.
Exec(w, ok) ==
  LET x == Own(w) IN
  /\ At(w, "exec")
  /\ Becomes(IF ok /\ ~l.entry[x].cancelled
             THEN [Goto(l, w, "publish") EXCEPT !.entry[x].run = [NewRun EXCEPT !.attached = TRUE]]
             ELSE [Goto(l, w, "shut") EXCEPT !.agent[w].target = x, !.agent[w].next = "unclaim"])

Unclaim(w) ==
  At(w, "unclaim") /\ Becomes([Quit(l, w) EXCEPT !.cur = IF @ = Own(w) THEN None ELSE @])

Publish(w) ==
  LET x == Own(w) IN
  /\ At(w, "publish")
  /\ Becomes(IF l.cur # x THEN Stopping(l, w, x, "idle")
             ELSE [Goto(l, w, "begin") EXCEPT !.entry[x].pub = TRUE, !.entry[x].state = "running"])

-------------------------------------------------------------------------------
(* MonitorAndRetry: monitorListenerEncoder                                 *)

\* The monitor takes the entry of the moment it starts; a placeholder has no run.
Begin(w) ==
  /\ At(w, "begin")
  /\ Becomes(IF l.cur = None \/ ~l.entry[l.cur].pub THEN Quit(l, w)
             ELSE [Goto(l, w, "top") EXCEPT !.agent[w].own = l.cur])

Top(w) ==
  LET x == Own(w) IN
  /\ At(w, "top")
  /\ Becomes(IF l.agent[w].chan /\ Owns(x) /\ l.entry[x].run.attached THEN Goto(l, w, "wait") ELSE Quit(l, w))

\* The encoder's output has ended: this monitor takes the run, or another
\* goroutine already did.
OutputEnds(w) ==
  LET x == Own(w) IN
  /\ At(w, "wait")
  /\ \/ ~l.agent[w].chan /\ Becomes(Quit(l, w))
     \/ /\ ~l.entry[x].run.out
        /\ Becomes(IF l.entry[x].run.attached
                   THEN [Goto(l, w, "finish") EXCEPT !.entry[x].run.attached = FALSE, !.entry[x].run.open = FALSE]
                   ELSE Quit(l, w))

\* waitEncoderRunGoroutines, then CloseStdin.
Finish(w) ==
  LET x == Own(w) IN
  /\ At(w, "finish") /\ ~l.entry[x].run.out /\ ~l.entry[x].run.writer
  /\ Becomes([Goto(l, w, "exit") EXCEPT !.entry[x].run.eof = TRUE])

\* The process has exited; a stopped run is not retried.
Exited(w) ==
  LET x == Own(w) IN
  /\ At(w, "exit") /\ l.entry[x].run.proc # "alive"
  /\ Becomes(IF l.entry[x].cancelled \/ ~Owns(x) THEN Quit(l, w) ELSE Goto(l, w, "record"))

\* recordListenerEncoderFailure; a long run starts counting again.
Record(w, long) ==
  LET x == Own(w) IN
  /\ At(w, "record") \/ (At(w, "refail") /\ ~long)
  /\ Becomes([Goto(l, w, "check") EXCEPT
       !.entry[x].retry = IF l.cur # x THEN @ ELSE IF long THEN 0 ELSE IF @ > MaxRetries THEN @ ELSE @ + 1])

\* prepareListenerRetry: shouldContinueRetry, before and after the wait, ...
Check(w) ==
  /\ At(w, "check") \/ At(w, "recheck")
  /\ Becomes(IF ~Owns(Own(w)) \/ l.enc # "running" \/ ~l.enabled THEN Goto(l, w, "remove")
             ELSE Goto(l, w, IF At(w, "check") THEN "count" ELSE "recount"))

RetryCount == IF l.cur = None THEN 0 ELSE l.entry[l.cur].retry

\* Mutated form of Count: an exhausted listener keeps its port.
CountOnly(w) ==
  LET x == Own(w) IN
  /\ At(w, "count") \/ At(w, "recount")
  /\ Becomes(IF RetryCount <= MaxRetries THEN Goto(l, w, IF At(w, "count") THEN "backoff" ELSE "reserve")
             ELSE [Quit(l, w) EXCEPT !.entry[x].state = IF l.cur = x THEN "error" ELSE @])

\* ... and its last condition: an exhausted listener gives up its port, its entry
\* stays with the error.
Count(w) ==
  LET x == Own(w) IN
  /\ At(w, "count") \/ At(w, "recount")
  /\ Becomes(IF RetryCount <= MaxRetries THEN Goto(l, w, IF At(w, "count") THEN "backoff" ELSE "reserve")
             ELSE [Goto(l, w, "shut") EXCEPT !.agent[w].target = x,
                                             !.entry[x].state = IF l.cur = x THEN "error" ELSE @])

Backoff(w) ==
  /\ At(w, "backoff")
  /\ \/ ~l.agent[w].chan /\ Becomes(Quit(l, w))
     \/ Becomes(Goto(l, w, "recheck"))

MayReserve(x) == l.cur = x /\ l.entry[x].state = "running" /\ l.enc = "running"

\* reserveListenerEncoderStart: a new context that Stop can cancel.
Reserve(w) ==
  LET x == Own(w) IN
  /\ At(w, "reserve")
  /\ Becomes(IF MayReserve(x) THEN [Goto(l, w, "restart") EXCEPT !.entry[x].cancelled = FALSE]
             ELSE Goto(l, w, "remove"))

\* retryListenerEncoder: the process starts ...
Restart(w, ok) ==
  LET x == Own(w) IN
  /\ At(w, "restart")
  /\ Becomes(IF l.entry[x].cancelled THEN Quit(l, w)
             ELSE IF ok THEN [Goto(l, w, "attach") EXCEPT !.entry[x].run = NewRun]
             ELSE Goto(l, w, "refail"))

\* ... and becomes the run of the entry.  Monitors of the run before give up.
Attach(w) ==
  LET x == Own(w) IN
  /\ At(w, "attach")
  /\ Becomes([l EXCEPT !.entry[x].run.attached = TRUE,
       !.agent = [a \in Agents |-> IF a = w THEN [l.agent[a] EXCEPT !.pc = "owns"]
                                   ELSE IF At(a, "wait") /\ Own(a) = x THEN Idle ELSE l.agent[a]]])

\* Stop may have missed the new run; it is released here.
Keep(w) ==
  LET x == Own(w)
      mine == l.entry[x].run.attached
  IN /\ At(w, "owns")
     /\ Becomes(IF Owns(x) THEN Goto(l, w, "top")
                ELSE [Goto(l, w, "release") EXCEPT
                       !.agent[w].mine = mine, !.entry[x].cancelled = @ \/ mine,
                       !.entry[x].run = [@ EXCEPT !.attached = FALSE, !.open = FALSE]])

Release(w) ==
  At(w, "release") /\ (l.agent[w].mine => RunOver(l.entry[Own(w)].run)) /\ Becomes(Quit(l, w))

RemoveIfOwned(w) ==
  LET x == Own(w) IN
  /\ At(w, "remove")
  /\ Becomes(IF Owns(x) THEN [Stopping(l, w, x, "idle") EXCEPT !.cur = None] ELSE Quit(l, w))

-------------------------------------------------------------------------------
(* Stop and StopAll                                                        *)

Returned(s) == [Idle EXCEPT !.pc = IF s = All THEN "clear" ELSE "idle"]

\* Stop: a placeholder goes at once, any other entry stays until it has stopped.
Stop(s) ==
  LET x == l.cur
      c == [l EXCEPT !.entry[x].cancelled = TRUE]
  IN /\ At(s, IF s = All THEN "begin" ELSE "idle")
     /\ Becomes(IF x = None THEN [l EXCEPT !.agent[s] = Returned(s)]
                ELSE IF l.entry[x].state = "stopping" THEN [l EXCEPT !.agent[s] = Returned(s)]
                ELSE IF l.entry[x].state = "starting" THEN [Stopping(c, s, x, "emit") EXCEPT !.cur = None]
                ELSE [Stopping(c, s, x, "emit") EXCEPT !.entry[x].state = "stopping"])

\* stream_stopped, then the entry goes.
Emit(s) ==
  At(s, "emit") /\ Becomes([Goto(l, s, "delete") EXCEPT !.entry[Target(s)].stops = @ + 1])

Delete(s) ==
  At(s, "delete") /\ Becomes([l EXCEPT !.cur = IF @ = Target(s) THEN None ELSE @, !.agent[s] = Returned(s)])

Clear == All \in Stoppers /\ At(All, "clear") /\ Becomes([l EXCEPT !.cur = None, !.agent[All] = Idle, !.enc = "stopped"])

-------------------------------------------------------------------------------
(* The encoder around it, FFmpeg, the run's goroutines, the SRT server     *)

EncoderTurns(from, to) ==
  /\ <<from, to>> \in {<<"stopped", "starting">>, <<"starting", "running">>, <<"running", "starting">>}
  /\ l.enc = from /\ Becomes([l EXCEPT !.enc = to])

EncoderStops ==
  /\ All \in Stoppers /\ l.enc \in {"starting", "running"}
  /\ Becomes([l EXCEPT !.enc = "stopping",
       !.agent = [a \in Agents |-> IF a = All THEN [Idle EXCEPT !.pc = "begin"]
                                   ELSE [l.agent[a] EXCEPT !.chan = FALSE]]])

\* The stream is disabled or removed; bound: once.
Disable == l.enabled /\ Becomes([l EXCEPT !.enabled = FALSE])

\* FFmpeg exits, or closes its output and goes on.
Exits(x) == l.entry[x].run.proc = "alive" /\ Becomes([l EXCEPT !.entry[x].run.proc = "dead"])
ClosesOutput(x) ==
  /\ l.entry[x].run.out
  /\ Becomes([l EXCEPT !.entry[x].run.out = FALSE])

\* runListenerWriter ends with its channel, with stdin or with the process.
WriterEnds(x) ==
  /\ l.entry[x].run.writer /\ (~l.entry[x].run.open \/ l.entry[x].run.proc # "alive")
  /\ Becomes([l EXCEPT !.entry[x].run.writer = FALSE])

\* EscalateUntil: whoever waits for a run kills its process in the end.
Escalate(x) ==
  /\ l.entry[x].run.proc = "alive"
  /\ \E a \in Agents : \/ At(a, "reap") /\ Target(a) = x /\ l.agent[a].mine
                       \/ (At(a, "finish") \/ At(a, "release")) /\ Own(a) = x
  /\ Becomes([l EXCEPT !.entry[x].run.proc = "dead"])

\* The fan-out's listener and subscribers have ended (module Fanout).
Closed(x) == l.entry[x].fan = "closing" /\ Becomes([l EXCEPT !.entry[x].fan = "closed"])

-------------------------------------------------------------------------------
StopResources(a) == Detach(a) \/ Reap(a) \/ Shut(a) \/ Drain(a)

Work(w) ==
  \/ StopResources(w) \/ Claim(w) \/ Unclaim(w) \/ Publish(w) \/ Begin(w) \/ Top(w) \/ OutputEnds(w)
  \/ \E b \in BOOLEAN : Bind(w, b) \/ Exec(w, b) \/ Record(w, b) \/ Restart(w, b)
  \/ Finish(w) \/ Exited(w) \/ Check(w) \/ Count(w) \/ Backoff(w) \/ Reserve(w) \/ Attach(w) \/ Keep(w)
  \/ Release(w) \/ RemoveIfOwned(w)

StopWork(s) == StopResources(s) \/ Emit(s) \/ Delete(s)

Next ==
  \/ \E w \in Workers : Start(w) \/ Work(w)
  \/ \E s \in Stoppers : Stop(s) \/ StopWork(s)
  \/ Clear
  \/ \E a, b \in {"stopped", "starting", "running"} : EncoderTurns(a, b)
  \/ EncoderStops
  \/ Disable
  \/ \E x \in Entries : Exits(x) \/ ClosesOutput(x) \/ WriterEnds(x) \/ Escalate(x) \/ Closed(x)

Spec == Init /\ [][Next]_l

\* What ends without anybody's help: a cancelled process, one that is waited for or
\* whose stdin was closed, the goroutines of a dead one, a fan-out shut down.
Ending(x) ==
  \/ (l.entry[x].cancelled \/ l.entry[x].run.eof) /\ Exits(x)
  \/ l.entry[x].run.proc # "alive" /\ (ClosesOutput(x) \/ WriterEnds(x))
  \/ Escalate(x) \/ Closed(x)

\* A Stop that has begun, and StopAll.
StopGoesOn(s) == StopWork(s) \/ (s = All /\ (Stop(s) \/ Clear))

\* Goroutines go on.
Fairness ==
  /\ \A w \in Workers : WF_l(Work(w))
  /\ \A s \in Stoppers : WF_l(StopGoesOn(s))
  /\ \A x \in Entries : WF_l(Ending(x))

FairSpec == Spec /\ Fairness

-------------------------------------------------------------------------------
(* Properties                                                              *)

\* Somebody is stopping the entry or still starting it.
Handled(x) == \E a \in Agents : Target(a) = x \/ (Own(a) = x /\ l.agent[a].pc \in {"exec", "publish", "shut"})

\* An encoder run that nobody has told to end belongs to the managed entry, and the
\* port of an entry that is no longer managed, or that has given up retrying, is
\* being closed: neither is left behind by a start, a retry, a Stop or StopAll.
NothingStranded ==
  \A x \in Entries : ~Handled(x) =>
    /\ l.entry[x].run.proc = "alive" /\ ~l.entry[x].cancelled => l.cur = x
    /\ l.entry[x].fan = "bound" => l.cur = x /\ l.entry[x].state # "error"

\* When stream_stopped is emitted the port is free and no encoder of the entry will
\* run again.
StoppedIsOver ==
  \A x \in Entries : l.entry[x].stops > 0 =>
    l.entry[x].fan \in {"none", "closed"} /\ (l.entry[x].run.proc = "alive" => l.entry[x].cancelled)

\* A Stop, or StopAll, has begun and not returned.
InStop(s) == s \in Stoppers /\ ~At(s, "idle")

\* A managed listener has no encoder although it should.
Waits ==
  /\ l.cur # None /\ l.entry[l.cur].state = "running" /\ l.entry[l.cur].run.proc # "alive"
  /\ l.enc = "running" /\ l.enabled
===============================================================================
