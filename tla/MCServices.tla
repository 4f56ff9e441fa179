------------------------------- MODULE MCServices ------------------------------
(***************************************************************************)
(* The components whose safety is checked on their own, side by side: the  *)
(* alerts, the audio dumps, the event log and its grouping, the            *)
(* configuration, the storage monitor, the Dante receiver and the overdue  *)
(* alert of the uploads.  They share no state; each behaviour exercises    *)
(* one of them, chosen at the start; the monitor otherwise stays as it     *)
(* starts.                                                                 *)
(***************************************************************************)
EXTENDS Storage, Sequences

CONSTANTS
  Duration, Recovery, Gap, Triggers, Subscriptions, QueueDepth, LogDepth, TTL, MaxIncidents, MaxEdits,   \* Alerts
  Confirm, Return, Pauses, Before, MaxIncident, After, Audio,    \* Dumps: Debounce's Duration, Recovery and Gap
  Handlers, Tags, Alike, Requests,    \* Settings
  Failures, Kills, Lives              \* bounds of Settings, EventLog and Overdue

ASSUME AlertsAssumption ==
  /\ Duration \in Nat /\ Recovery \in Nat /\ Gap \in Nat /\ TTL \in Nat /\ MaxIncidents \in Nat /\ MaxEdits \in Nat
  /\ QueueDepth \in Nat \ {0} /\ LogDepth \in Nat \ {0}
  /\ Triggers \subseteq {"silence", "channel_imbalance"}
ASSUME DumpsAssumption ==
  /\ Confirm \in Nat /\ Return \in Nat \ {0} /\ Pauses \in Nat
  /\ Before \in Nat /\ MaxIncident \in Nat /\ After \in Nat /\ Audio \in Nat
\* A file name is told from none, and an item from what is none.
ASSUME SettingsAssumption ==
  /\ Alike # {} /\ Alike \subseteq Tags
  /\ None \notin (SUBSET Tags) \X Nat /\ None \notin {"stream", "recorder"}
  /\ Requests \in Nat
ASSUME OverdueAssumption == None \notin BOOLEAN /\ None \notin {"deliver", "watch"}

VARIABLES
  which,                                                                      \* the component of this behaviour
  aDet, o, cfg, aEnc, closing, aQueue, aLog, dumps, feeds, newest, lost,      \* Alerts
  dDet, capturer, manager, dEnc, encoding, heard, paused, owed,               \* Dumps
  files, active, rotated, w, reader, eLogged, count, unsure,                  \* EventLog
  alphabet, gLog, g,                                                          \* EventGroups
  mem, file, durable, req, rt, up, sTold, serial, faults, crashes, acked, prefixes,    \* Settings
  pc, proc, quiet, buf, got, pipe, cancelled, interrupt, err, rReader, rClosing, start, accepted,   \* Dante
  late, overdueMu, at, seen, overdueOpen, uCancelled, uClosed, uFiles, uQueue, uTold, logOff, toldOff, uFaults, uRuns    \* Overdue

-------------------------------------------------------------------------------
\* Windows of the event log, by what their events have to do with each other.
Event(type, id, note) == [type |-> type, id |-> id, note |-> note]

Windows == {
  {Event("silence_start", i, "") : i \in {0, 1}} \cup {Event("audio_dump_ready", i, "") : i \in {0, 1}}
    \cup {Event("silence_end", i, note) : i \in {0, 1}, note \in {"", "stopped"}},
  {Event(type, i, "") : type \in {"silence_start", "silence_end", "audio_dump_ready"}, i \in {1, 2}},
  {Event(type, 0, "") : type \in {"stream_error", "stream_retry", "stream_stable", "stream_stopped", "stream_started"}}
    \cup {Event("stream_stopped", 0, "ended normally"), Event("stream_started", 0, "listener")},
  {Event(type, 0, "") : type \in {"upload_failed", "upload_retry", "upload_completed", "upload_abandoned",
                                  "upload_overdue", "upload_overdue_cleared"}},
  {Event(type, 0, "") : type \in {"input_lost", "input_restored", "recording_storage_low",
                                  "recording_storage_restored", "recorder_error", "recorder_started"}}
    \cup {Event(type, 1, "") : type \in {"channel_imbalance_start", "channel_imbalance_end"}}}

A == INSTANCE Alerts WITH Settings <- Subscriptions, det <- aDet, enc <- aEnc, queue <- aQueue, log <- aLog
D == INSTANCE Dumps WITH Duration <- Confirm, Recovery <- Return, Gap <- Pauses, MaxAudio <- Audio,
                         Triggers <- {"silence", "channel_imbalance"}, det <- dDet, enc <- dEnc
E == INSTANCE EventLog WITH MaxSize <- 2, ReadN <- 2, MaxAttempts <- 2, MaxEvents <- 5, MaxFaults <- Failures,
                            MaxCrashes <- Kills, MaxReads <- 1, logged <- eLogged
G == INSTANCE EventGroups WITH Alphabets <- Windows, MaxEvents <- 5, MaxRuns <- 2, log <- gLog
S == INSTANCE Settings WITH MaxRequests <- Requests, MaxFaults <- Failures, MaxCrashes <- Kills, told <- sTold
R == INSTANCE Dante WITH GapWait <- 2, Timeout <- 3, MaxGap <- 2, Batch <- 2, MaxPos <- 6,
                         reader <- rReader, closing <- rClosing
U == INSTANCE Overdue WITH MaxFaults <- Failures, MaxRuns <- Lives, cancelled <- uCancelled, closed <- uClosed,
                           files <- uFiles, queue <- uQueue, told <- uTold, faults <- uFaults, runs <- uRuns

alerts   == <<aDet, o, cfg, aEnc, closing, aQueue, aLog, dumps, feeds, newest, lost>>
capture  == <<dDet, capturer, manager, dEnc, encoding, heard, paused, owed>>
events   == <<files, active, rotated, w, reader, eLogged, count, unsure>>
groups   == <<alphabet, gLog, g>>
settings == <<mem, file, durable, req, rt, up, sTold, serial, faults, crashes, acked, prefixes>>
dante    == <<pc, proc, quiet, buf, got, pipe, cancelled, interrupt, err, rReader, rClosing, start, accepted>>
overdue  == <<late, overdueMu, at, seen, overdueOpen, uCancelled, uClosed, uFiles, uQueue, uTold, logOff, toldOff,
              uFaults, uRuns>>
servicesVars == <<which, alerts, capture, events, groups, settings, vars, dante, overdue>>

\* A component that is not exercised has no state, except for what an action property
\* of it refers to.
NoAlerts ==
  /\ aDet = None /\ o = None /\ cfg = None /\ aEnc = None /\ closing = None /\ aQueue = None /\ aLog = None
  /\ dumps = None /\ feeds = A!NoFeeds /\ newest = None /\ lost = None
NoCapture ==
  /\ dDet = None /\ capturer = None /\ manager = None /\ dEnc = None /\ encoding = None /\ heard = None
  /\ paused = None /\ owed = None
NoEvents ==
  /\ files = None /\ active = None /\ rotated = None /\ w = None /\ reader = None /\ eLogged = None
  /\ count = None /\ unsure = None
NoGroups == alphabet = None /\ gLog = None /\ g = None
NoSettings ==
  /\ mem = None /\ file = None /\ durable = None /\ req = None /\ rt = None /\ up = None /\ sTold = None
  /\ serial = None /\ faults = None /\ crashes = None /\ acked = None /\ prefixes = None
NoDante ==
  /\ pc = None /\ proc = None /\ quiet = None /\ buf = None /\ got = None /\ pipe = None /\ cancelled = None
  /\ interrupt = None /\ err = None /\ rReader = None /\ rClosing = None /\ start = None /\ accepted = None
NoOverdue ==
  /\ late = None /\ overdueMu = None /\ at = None /\ seen = None /\ overdueOpen = None /\ uCancelled = None
  /\ uClosed = None /\ uFiles = None /\ uQueue = None /\ uTold = None /\ logOff = None /\ toldOff = None
  /\ uFaults = None /\ uRuns = None

ServicesInit ==
  /\ which \in {"alerts", "dumps", "events", "groups", "settings", "storage", "dante", "overdue"}
  /\ IF which = "alerts" THEN A!Init ELSE NoAlerts
  /\ IF which = "dumps" THEN D!Init ELSE NoCapture
  /\ IF which = "events" THEN E!Init ELSE NoEvents
  /\ IF which = "groups" THEN G!Init ELSE NoGroups
  /\ IF which = "settings" THEN S!Init ELSE NoSettings
  /\ IF which = "dante" THEN R!Init ELSE NoDante
  /\ IF which = "overdue" THEN U!Init ELSE NoOverdue
  /\ Init

ServicesNext ==
  /\ UNCHANGED which
  /\ \/ which = "alerts" /\ A!Next
        /\ UNCHANGED <<capture, events, groups, settings, vars, dante, overdue>>
     \/ which = "dumps" /\ D!Next
        /\ UNCHANGED <<alerts, events, groups, settings, vars, dante, overdue>>
     \/ which = "events" /\ E!Next
        /\ UNCHANGED <<alerts, capture, groups, settings, vars, dante, overdue>>
     \/ which = "groups" /\ G!Next
        /\ UNCHANGED <<alerts, capture, events, settings, vars, dante, overdue>>
     \/ which = "settings" /\ S!Next
        /\ UNCHANGED <<alerts, capture, events, groups, vars, dante, overdue>>
     \/ which = "storage" /\ Next
        /\ UNCHANGED <<alerts, capture, events, groups, settings, dante, overdue>>
     \/ which = "dante" /\ R!Next
        /\ UNCHANGED <<alerts, capture, events, groups, settings, vars, overdue>>
     \/ which = "overdue" /\ U!Next
        /\ UNCHANGED <<alerts, capture, events, groups, settings, vars, dante>>

ServicesSpec == ServicesInit /\ [][ServicesNext]_servicesVars

-------------------------------------------------------------------------------
\* Alerts: what reaches the event log and a channel is an incident feed.
FeedsInOrder == A!FeedsInOrder

\* Alerts: a full queue keeps the newest alert, and a reset or a Close returns only when
\* the log has what was queued, or it was dropped; and the log and the channel have the
\* overdue incident as the upload worker has it.
AlertsSettle ==
  /\ which = "alerts" => A!NewestKept /\ A!LogSettled
  /\ which = "overdue" => U!OverdueFollows /\ U!ClearsInTime

\* Dumps: a dump is the audio around its incident, and a newer incident does not take it.
DumpsSound == which = "dumps" => D!DumpIsContext /\ D!RecoveredKept

\* Event log and groups: reads are consistent across rotations and what was logged stays
\* readable; what needs attention is what is not over, an event belongs to one incident,
\* and a dump to its own.
HistorySound ==
  /\ which = "events" => E!ReadIsConsistent /\ E!LoggedStaysReadable
  /\ which = "groups" => G!AttentionIsOpen /\ G!EventsBelong

\* Configuration: memory is the file, what was acknowledged survives, a recorder keeps
\* its prefix, and browsers are told of the last change.
SavesSound ==
  which = "settings" => S!FileIsMemory /\ S!AckedSurvives /\ S!PrefixesStay /\ S!ClientsTold

\* Dante: the output is the packets in their places, a gap is given up in time, and a
\* reader that sees an error has read all the audio before it.
DanteSound == which = "dante" => R!Timeline /\ R!GapGivenUp /\ R!EndComplete
===============================================================================
