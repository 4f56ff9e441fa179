------------------------------- MODULE EventGroups -----------------------------
(***************************************************************************)
(* GroupEvents (internal/eventlog/groups.go): how the events of a window   *)
(* of the log are put together into incidents.  Any sequence of events is  *)
(* a window: entries may be lost, the window may begin anywhere, and       *)
(* processes end and start in between.  Each step processes one event.     *)
(***************************************************************************)
EXTENDS Naturals, Sequences, SequencesExt

CONSTANTS
  Alphabets,    \* the sets of events that windows are made of
  MaxEvents,    \* bound: events in a window
  MaxRuns       \* bound: process runs in a window

VARIABLES
  alphabet,     \* the events of this window
  log,          \* history: the events processed so far, in append order
  g             \* groupingState

vars == <<alphabet, log, g>>

-------------------------------------------------------------------------------
\* eventCloses
CloseType(type) ==
  CASE type = "silence_start" -> "silence_end"
    [] type = "channel_imbalance_start" -> "channel_imbalance_end"
    [] type = "input_lost" -> "input_restored"
    [] type = "recording_storage_low" -> "recording_storage_restored"
    [] type = "upload_overdue" -> "upload_overdue_cleared"
    [] type \in {"stream_error", "stream_retry"} -> "stream_stable"
    [] type \in {"upload_failed", "upload_retry"} -> "upload_completed"
    [] OTHER -> "none"

\* eventClassifications, ReasonProblem
Problem(e) ==
  e.type \in {"stream_error", "stream_retry", "silence_start", "channel_imbalance_start", "input_lost",
              "recorder_error", "upload_failed", "upload_retry", "upload_abandoned", "upload_overdue",
              "recording_storage_low"}

\* eventSourceKey: one stream, one file, one storage path and one recorder stand for all.
Source(e) ==
  CASE e.type \in {"silence_start", "silence_end", "audio_dump_ready"} -> "audio:silence"
    [] e.type \in {"channel_imbalance_start", "channel_imbalance_end"} -> "audio:imbalance"
    [] e.type \in {"input_lost", "input_restored"} -> "audio:input"
    [] e.type \in {"stream_error", "stream_retry", "stream_stable", "stream_stopped", "stream_started"} -> "stream"
    [] e.type \in {"upload_failed", "upload_retry", "upload_completed", "upload_abandoned"} -> "upload"
    [] e.type \in {"upload_overdue", "upload_overdue_cleared"} -> "recorder-uploads"
    [] e.type \in {"recording_storage_low", "recording_storage_restored"} -> "recorder-storage"
    [] OTHER -> "recorder"

\* incidentGroupKeyForEvent; events of other sources carry no incident number.
Key(e) == <<Source(e), e.id>>

\* newHistoricalIncident
Incident(e, closeType) ==
  [key |-> Key(e), close |-> closeType, first |-> e.type, stopped |-> FALSE, dump |-> FALSE, events |-> <<>>]

Added(i, n) == [i EXCEPT !.events = Append(@, n)]

\* eventClosesIncident
Closes(i, e) ==
  \/ i.close = e.type
  \/ /\ i.close = "stream_stable"
     /\ \/ e.type = "stream_stopped" /\ e.note # "ended normally"
        \/ e.type = "stream_started" /\ e.note = "listener"

-------------------------------------------------------------------------------
\* enterRun: an identified incident does not outlive its process. The code closes them in
\* the order of a map; the order matters to nothing that follows.
EnterRun(s, run) ==
  LET ended == {i \in s.open : i.key[2] # 0}
      stops == SetToSeq({[i EXCEPT !.stopped = TRUE] : i \in ended})
  IN IF run = s.run THEN s
     ELSE [s EXCEPT !.run = run, !.open = @ \ ended, !.closed = @ \o stops,
                    !.runStart = Len(s.closed) + Len(stops)]

OpenAt(s, key) == {i \in s.open : i.key = key}

\* UploadAbandoned
Abandon(s, e, n) ==
  LET known == OpenAt(s, Key(e))
      i == IF known = {} THEN Incident(e, "none") ELSE CHOOSE k \in known : TRUE
  IN [s EXCEPT !.open = @ \ known, !.failed = Append(@, Added(i, n))]

Close(s, i, e, n) ==
  [s EXCEPT !.open = @ \ {i},
            !.closed = Append(@, [Added(i, n) EXCEPT !.stopped = e.type = "stream_stopped" \/ e.note = "stopped"])]

\* A second start under a number in use: its process has ended since.
Supersede(s, i) ==
  [s EXCEPT !.open = @ \ {i}, !.closed = Append(@, [i EXCEPT !.stopped = TRUE])]

\* closed[runStart:]
FirstOfRun(s) == s.runStart + 1

\* audioIncidentForDump: the newest incident of this run that matches; a stopped one has none.
Dump(s, e, n) ==
  LET fits == {k \in FirstOfRun(s)..Len(s.closed) :
                 s.closed[k].first = "silence_start" /\ (e.id = 0 \/ s.closed[k].key[2] = e.id)}
      k == CHOOSE x \in fits : \A y \in fits : y <= x
  IN IF fits = {} \/ s.closed[k].stopped THEN s
     ELSE [s EXCEPT !.closed[k] = [Added(@, n) EXCEPT !.dump = TRUE]]

Problems(s, e, n) ==
  LET known == OpenAt(s, Key(e))
      i == IF known = {} THEN Incident(e, CloseType(e.type)) ELSE CHOOSE k \in known : TRUE
  IN [s EXCEPT !.open = (@ \ known) \union {Added(i, n)}]

\* process, for event e at place n of the window
Process(s0, e, n) ==
  LET s == EnterRun(s0, e.run)
      open == OpenAt(s, Key(e))
      closing == {i \in open : Closes(i, e)}
      stale == IF Problem(e) /\ e.id # 0 THEN open ELSE {}
      t == IF stale = {} THEN s ELSE Supersede(s, CHOOSE i \in stale : TRUE)
  IN CASE e.type = "upload_abandoned" -> Abandon(s, e, n)
       [] e.type # "upload_abandoned" /\ closing # {} -> Close(s, CHOOSE i \in closing : TRUE, e, n)
       [] e.type = "audio_dump_ready" /\ closing = {} -> Dump(t, e, n)
       [] Problem(e) /\ e.type # "upload_abandoned" /\ closing = {} -> Problems(t, e, n)
       [] OTHER -> t

\* The end of GroupEvents: incidents of a stream that is not configured any more are over.
Attention(s, streamExists) == {i \in s.open : i.key[1] = "stream" => streamExists}

Init ==
  /\ alphabet \in Alphabets
  /\ log = <<>>
  /\ g = [open |-> {}, closed |-> <<>>, failed |-> <<>>, run |-> 0, runStart |-> 0]

\* One more event, of the same process or of a later one.
Next ==
  /\ Len(log) < MaxEvents
  /\ \E a \in alphabet, next \in {0, 1} :
       LET e == [type |-> a.type, id |-> a.id, note |-> a.note,
                 run |-> next + IF log = <<>> THEN 1 ELSE log[Len(log)].run]
       IN /\ e.run <= MaxRuns
          /\ log' = Append(log, e)
          /\ g' = Process(g, e, Len(log) + 1)
  /\ UNCHANGED alphabet

Spec == Init /\ [][Next]_vars

-------------------------------------------------------------------------------
\* The reference: event j ends what event i began.
Ends(i, j) ==
  /\ i < j /\ Key(log[i]) = Key(log[j])
  /\ \/ CloseType(log[i].type) = log[j].type
     \/ log[j].type = "upload_abandoned"
     \/ /\ Source(log[i]) = "stream"
        /\ \/ log[j].type = "stream_stopped" /\ log[j].note # "ended normally"
           \/ log[j].type = "stream_started" /\ log[j].note = "listener"

\* A problem is over once it was ended, or its process has ended or used its number again.
Over(i) ==
  \E j \in (i + 1)..Len(log) :
    \/ Ends(i, j)
    \/ log[i].id # 0 /\ log[j].run # log[i].run
    \/ log[i].id # 0 /\ Key(log[i]) = Key(log[j]) /\ Problem(log[j])

\* GroupEvents: exactly the problems that are not over need attention, each in one
\* incident, however events were lost and processes restarted.
AttentionIsOpen ==
  LET live == {i \in 1..Len(log) : Problem(log[i]) /\ log[i].type # "upload_abandoned" /\ ~Over(i)}
  IN /\ \A i \in live : \E x \in Attention(g, TRUE) : x.key = Key(log[i]) /\ i \in ToSet(x.events)
     /\ \A x \in Attention(g, TRUE) : Last(x.events) \in live
     /\ \A x \in Attention(g, FALSE) : x.key[1] # "stream"

\* Every event belongs to one incident at most, and a dump only to an incident of its own
\* run and number that has recovered before it, although numbers begin again with every
\* process.
EventsBelong ==
  LET incidents == [i \in 1..Len(g.closed) |-> g.closed[i]] \o g.failed \o SetToSeq(g.open)
  IN /\ \A a, b \in 1..Len(incidents) :
          a # b => ToSet(incidents[a].events) \intersect ToSet(incidents[b].events) = {}
     /\ \A a \in 1..Len(incidents) : \A n \in ToSet(incidents[a].events) :
          log[n].type = "audio_dump_ready" =>
            /\ ~incidents[a].stopped
            /\ \E k \in ToSet(incidents[a].events) :
                 /\ k < n /\ log[k].type = "silence_end" /\ log[k].note # "stopped"
                 /\ log[k].run = log[n].run
                 /\ log[n].id \in {0, log[k].id}
===============================================================================
