--------------------------------- MODULE Alerts --------------------------------
(***************************************************************************)
(* Audio incidents from the detectors to the event log and to one alert    *)
(* channel: Distributor.ProcessSamples, AlertOrchestrator and what the     *)
(* encoder does to them on start, stop and close.  Channels do not share   *)
(* queues, so one stands for all; every trigger has its own queue on it.   *)
(***************************************************************************)
EXTENDS Debounce, Sequences

CONSTANTS
  Triggers,       \* {"silence", "channel_imbalance"} or a part of it
  Settings,       \* settings of the channel; "off" is a channel that is not configured
  QueueDepth,     \* inputQueueDepth, 8 in the code
  LogDepth,       \* logQueueDepth, 16 in the code
  TTL,            \* pendingRecoveryTTL in ticks
  MaxIncidents,   \* bound: candidate incidents of a trigger
  MaxEdits        \* bound: edits of the settings

Nil == "none"

VARIABLES
  det,       \* the detectors' debouncers
  o,         \* the orchestrator: incidents, their settings, recoveries that wait for a dump
  cfg,       \* the current settings and how often they were edited
  enc,       \* "running", "reset", "sending", "draining" or "stopped"
  closing,   \* Close: "no", "cancelled", "closed", "draining" or "done"
  queue,     \* the channel's alert queues
  log,       \* logQueue
  dumps,     \* incidents whose dump is captured or encoded, and callbacks under way
  feeds,     \* what the log and the channel have received
  newest,    \* history: the alert raised last and the one taken last, per trigger
  lost       \* history: a log entry was dropped

vars == <<det, o, cfg, enc, closing, queue, log, dumps, feeds, newest, lost>>

-------------------------------------------------------------------------------
\* Nothing has arrived at a feed.
NoIncident == [id |-> 0, phase |-> "none", cfg |-> Nil, dumped |-> {}]
NoFeeds == [log |-> [t \in Triggers |-> NoIncident], channel |-> [t \in Triggers |-> NoIncident]]

\* o.closed
Closed == closing \notin {"no", "cancelled"}

\* IsConfiguredForSilence and IsConfiguredForImbalance
Configured(c) == c \notin {Nil, "off"}

\* subscribedActive: the channel had the incident's start settings and wants this event.
Subscribed(active, c, kind) ==
  Configured(active) /\ Configured(c) /\ (c = "ends" => kind # "start")

\* enqueueInputAlert makes room by dropping the oldest alert; in the mutated form the
\* newest is dropped.
EnqueuedOldest(q, x) == IF Len(q) < QueueDepth THEN Append(q, x) ELSE q
Enqueued(q, x) == Append(IF Len(q) < QueueDepth THEN q ELSE Tail(q), x)

\* enqueueLog of several entries
Logged(entries) ==
  LET room == IF Closed THEN 0 ELSE LogDepth - Len(log)
      kept == SubSeq(entries, 1, IF Len(entries) < room THEN Len(entries) ELSE room)
  IN /\ log' = log \o kept
     /\ lost' = (lost \/ kept # entries)

Entry(kind, t, id) == [kind |-> kind, trigger |-> t, id |-> id]
NoAlert == [kind |-> "none", id |-> 0, cfg |-> Nil]
Alert(kind, id, c) == [kind |-> kind, id |-> id, cfg |-> c]
One(t, present, x) == IF t \in Triggers /\ present THEN <<x>> ELSE <<>>

\* enqueueOrdered for the triggers that have an alert
Alerted(alert) ==
  LET sent == {t \in Triggers : alert[t] # NoAlert /\ ~Closed}
  IN /\ queue' = [t \in Triggers |-> IF t \in sent THEN Enqueued(queue[t], alert[t]) ELSE queue[t]]
     /\ newest' = [t \in Triggers |->
                    IF t \in sent THEN [newest[t] EXCEPT !.raised = alert[t]] ELSE newest[t]]

\* handleSilenceStart and handleChannelImbalanceStart: what they keep and the alert they
\* queue, with the settings of the moment.
Opened(s, id) ==
  [s EXCEPT !.active = IF @ = Nil THEN cfg.now ELSE @, !.incident = id]
StartAlert(s, id) ==
  IF Subscribed(Opened(s, id).active, cfg.now, "start") THEN Alert("start", id, cfg.now) ELSE NoAlert

\* handleSilenceEnd and handleChannelImbalanceEnd: the alert goes out with the settings
\* of the incident's start.
Ended(s, id) ==
  [s EXCEPT !.active = Nil, !.incident = 0,
            !.pending = {p \in @ : p.id # id} \union {[id |-> id, cfg |-> s.active, age |-> 0]}]
EndAlert(s, id) ==
  IF Subscribed(s.active, s.active, "end") THEN Alert("end", id, s.active) ELSE NoAlert

\* addPendingRecoveryLocked drops the recoveries of every trigger that waited too long.
Pruned(s) == [s EXCEPT !.pending = {p \in @ : p.age <= TTL}]

\* Distributor.ProcessSamples at the end of a metering window: the detectors, then the
\* orchestrator, then the dump manager. Silence is both channels below the threshold and
\* imbalance needs one above it, so at most one condition holds.
Window(condition, edited) ==
  LET r == [t \in Triggers |-> Update(det[t], condition = t, edited)]
      opens(t) == r[t].justEntered
      ends(t)  == r[t].justRecovered
      entries(t) == One(t, opens(t), Entry("start", t, r[t].id)) \o One(t, ends(t), Entry("end", t, r[t].id))
      alert(t) ==
        CASE opens(t) -> StartAlert(o[t], r[t].id) [] ends(t) -> EndAlert(o[t], r[t].id) [] OTHER -> NoAlert
  IN /\ enc = "running"
     /\ \A t \in Triggers : r[t].d.seq <= MaxIncidents
     /\ det' = [t \in Triggers |-> r[t].d]
     /\ o' = [t \in Triggers |-> CASE opens(t) -> Opened(o[t], r[t].id)
                                   [] ends(t)  -> Pruned(Ended(o[t], r[t].id))
                                   [] OTHER    -> IF \E u \in Triggers : ends(u) THEN Pruned(o[t]) ELSE o[t]]
     /\ Alerted([t \in Triggers |-> alert(t)])
     /\ Logged((IF "silence" \in Triggers THEN entries("silence") ELSE <<>>)
               \o (IF "channel_imbalance" \in Triggers THEN entries("channel_imbalance") ELSE <<>>))
     /\ dumps' = [dumps EXCEPT !.captured = @ \union {<<t, r[t].id>> : t \in {u \in Triggers : ends(u)}}]
     /\ UNCHANGED <<cfg, enc, closing, feeds>>

\* A tick of the clock, with or without audio.
Elapse ==
  /\ det' = [t \in Triggers |-> Older(det[t])]
  /\ o' = [t \in Triggers |-> [o[t] EXCEPT !.pending =
            {[p EXCEPT !.age = IF @ <= TTL THEN @ + 1 ELSE @] : p \in o[t].pending}]]
  /\ UNCHANGED <<cfg, enc, closing, queue, log, dumps, feeds, newest, lost>>

\* OnDumpReady up to its unlock. The capture that yields the dump is in module Dumps;
\* its encoding may take any time, also beyond a stop.
DumpReady(k) ==
  LET t == k[1]
      found == {p \in o[t].pending : p.id = k[2]}
  IN /\ k \in dumps.captured
     /\ o' = [o EXCEPT ![t].pending = @ \ found]
     /\ dumps' = [captured |-> dumps.captured \ {k},
                  taken |-> dumps.taken \union
                              {<<t, p>> : p \in {q \in found : q.age <= TTL}}]
     /\ UNCHANGED <<det, cfg, enc, closing, queue, log, feeds, newest, lost>>

\* OnDumpReady from its unlock on: the alert and the log entry.
DumpSent(k) ==
  LET t == k[1]
      p == k[2]
  IN /\ k \in dumps.taken
     /\ dumps' = [dumps EXCEPT !.taken = @ \ {k}]
     /\ Alerted([u \in Triggers |->
                  IF u = t /\ Subscribed(p.cfg, p.cfg, "dump") THEN Alert("dump", p.id, p.cfg) ELSE NoAlert])
     /\ Logged(<<Entry("dump", t, p.id)>>)
     /\ UNCHANGED <<det, o, cfg, enc, closing, feeds>>

Edit(c) ==
  /\ cfg.edits < MaxEdits /\ c # cfg.now
  /\ cfg' = [now |-> c, edits |-> cfg.edits + 1]
  /\ UNCHANGED <<det, o, enc, closing, queue, log, dumps, feeds, newest, lost>>

-------------------------------------------------------------------------------
\* AlertOrchestrator.Reset: an open incident ends as stopped in the log.
Forgotten == [t \in Triggers |-> [incident |-> 0, active |-> Nil, pending |-> {}]]

StopEntries(t) ==
  IF t \notin Triggers THEN <<>> ELSE One(t, o[t].incident # 0, Entry("end", t, o[t].incident))

Reset ==
  /\ det' = [t \in Triggers |-> ResetDetector(det[t])]
  /\ o' = Forgotten
  /\ Logged(StopEntries("silence") \o StopEntries("channel_imbalance"))

\* resetDetection after the source loop has ended, up to DrainLogs.
ResetDetection ==
  /\ enc = "running"
  /\ enc' = "reset"
  /\ Reset
  /\ UNCHANGED <<cfg, closing, queue, dumps, feeds, newest>>

\* DrainLogs: it holds logMu.RLock from its look at closed until its marker is queued.
DrainBegin ==
  /\ enc = "reset"
  /\ enc' = IF Closed THEN "stopped" ELSE "sending"
  /\ UNCHANGED <<det, o, cfg, closing, queue, log, dumps, feeds, newest, lost>>

DrainSend ==
  /\ enc = "sending" /\ Len(log) < LogDepth
  /\ enc' = "draining"
  /\ log' = Append(log, [kind |-> "drain"])
  /\ UNCHANGED <<det, o, cfg, closing, queue, dumps, feeds, newest, lost>>

\* Encoder.start
Start ==
  /\ enc = "stopped"
  /\ enc' = "running"
  /\ Reset
  /\ UNCHANGED <<cfg, closing, queue, dumps, feeds, newest>>

\* Close cancels the deliveries, ...
CloseBegin ==
  /\ closing = "no"
  /\ closing' = "cancelled"
  /\ UNCHANGED <<det, o, cfg, enc, queue, log, dumps, feeds, newest, lost>>

\* ... marks the queues closed once no reader holds logMu, ...
NoReader == enc # "sending"

CloseQueues ==
  /\ closing = "cancelled" /\ NoReader
  /\ closing' = "closed"
  /\ UNCHANGED <<det, o, cfg, enc, queue, log, dumps, feeds, newest, lost>>

\* ... and waits for the log worker to reach its marker.
CloseSend ==
  /\ closing = "closed" /\ Len(log) < LogDepth
  /\ closing' = "draining"
  /\ log' = Append(log, [kind |-> "close"])
  /\ UNCHANGED <<det, o, cfg, enc, queue, dumps, feeds, newest, lost>>

\* runLogWorker: the next job; the write of an entry may fail.
Arrived(f, x, c) ==
  CASE x.kind = "start" -> [f EXCEPT !.id = x.id, !.phase = "start", !.cfg = c]
    [] x.kind = "end"   -> [f EXCEPT !.id = x.id, !.phase = "end", !.cfg = c]
    [] x.kind = "dump"  -> [(IF x.id >= f.id THEN [f EXCEPT !.id = x.id, !.phase = "end", !.cfg = c] ELSE f)
                              EXCEPT !.dumped = @ \union {[id |-> x.id, cfg |-> c]}]

LogWorker(ok) ==
  /\ log # <<>>
  /\ log' = Tail(log)
  /\ LET x == Head(log) IN
       CASE x.kind = "drain" ->
              ok /\ enc' = "stopped" /\ UNCHANGED <<closing, feeds, lost>>
         [] x.kind = "close" ->
              ok /\ closing' = "done" /\ UNCHANGED <<enc, feeds, lost>>
         [] OTHER ->
              /\ feeds' = IF ok THEN [feeds EXCEPT !.log[x.trigger] = Arrived(@, x, "log")] ELSE feeds
              /\ lost' = (lost \/ ~ok)
              /\ UNCHANGED <<enc, closing>>
  /\ UNCHANGED <<det, o, cfg, queue, dumps, newest>>

\* A channel worker delivers its next alert, which fails once Close has cancelled it.
Deliver(t, ok) ==
  /\ queue[t] # <<>>
  /\ ok => closing = "no"
  /\ LET x == Head(queue[t]) IN
       /\ queue' = [queue EXCEPT ![t] = Tail(@)]
       /\ newest' = [newest EXCEPT ![t].taken = x]
       /\ feeds' = IF ok THEN [feeds EXCEPT !.channel[t] = Arrived(@, x, x.cfg)] ELSE feeds
  /\ UNCHANGED <<det, o, cfg, enc, closing, log, dumps, lost>>

-------------------------------------------------------------------------------
Init ==
  /\ det = [t \in Triggers |-> NewDebouncer]
  /\ o = Forgotten
  /\ cfg \in [now : Settings, edits : {0}]
  /\ enc = "running" /\ closing = "no"
  /\ queue = [t \in Triggers |-> <<>>]
  /\ log = <<>>
  /\ dumps = [captured |-> {}, taken |-> {}]
  /\ feeds = NoFeeds
  /\ newest = [t \in Triggers |-> [raised |-> NoAlert, taken |-> NoAlert]]
  /\ lost = FALSE

Next ==
  \/ \E condition \in Triggers \union {Nil}, edited \in BOOLEAN : Window(condition, edited)
  \/ Elapse
  \/ \E k \in dumps.captured : DumpReady(k)
  \/ \E k \in dumps.taken : DumpSent(k)
  \/ \E c \in Settings : Edit(c)
  \/ ResetDetection \/ DrainBegin \/ DrainSend \/ Start
  \/ CloseBegin \/ CloseQueues \/ CloseSend
  \/ \E ok \in BOOLEAN : LogWorker(ok)
  \/ \E t \in Triggers, ok \in BOOLEAN : Deliver(t, ok)

Spec == Init /\ [][Next]_vars

-------------------------------------------------------------------------------
\* The log and the channel as an incident feed.
LogFeed == INSTANCE IncidentFeed WITH Ids <- 1..MaxIncidents, Cfgs <- {"log"}, feed <- feeds.log
ChannelFeed == INSTANCE IncidentFeed WITH Ids <- 1..MaxIncidents, Cfgs <- Settings, feed <- feeds.channel

\* What reaches the event log and a channel is an incident feed: in order, an end only
\* of the incident that started and with its settings, a dump once and after the end.
FeedsInOrder == LogFeed!Spec /\ ChannelFeed!Spec

\* enqueueInputAlert: however full a queue was, the alert raised last is the one the
\* channel's worker takes last.
NewestKept ==
  \A t \in Triggers :
    newest[t].raised = IF queue[t] = <<>> THEN newest[t].taken ELSE queue[t][Len(queue[t])]

\* resetDetection and Close: when they return, every queued entry is written. A stopped
\* encoder then has no open incident in the log, unless an entry was dropped or Close,
\* which makes DrainLogs a no-op, is still at it; nobody waits on the closed queue.
LogSettled ==
  /\ enc = "stopped" /\ closing \notin {"closed", "draining"} /\ ~lost =>
       \A t \in Triggers : feeds.log[t].phase # "start"
  /\ closing = "done" => log = <<>> /\ enc \notin {"sending", "draining"}
===============================================================================
