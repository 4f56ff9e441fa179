# A TLA+ model of zwfm-encoder

zwfm-encoder captures audio from a sound card or a Dante network, sends it as
SRT streams through FFmpeg, records it to disk and S3, watches it for silence
and channel imbalance, and reports to a dashboard, e-mail, webhooks and Zabbix.
It runs unattended at a radio station: what it must not do is lose a recording,
deliver one twice, stay silent after the operator asked it to run, or go on
after the operator asked it to stop.

This directory models the parts where those promises are kept by concurrent
goroutines, failing disks and lost replies. `src/...` paths below are relative to
the repository. `PROJECT.json` lists components, runs, hazards, findings, theorems
and, under `map`, the source lines behind every definition.

## 1. The system: components, state, interaction

| Component | State it keeps | Operations | Talks to | Module |
|---|---|---|---|---|
| **Encoder lifecycle** `encoder/encoder.go` | state, lifecycle generation, operator's wish, stop channels, restart flags, open outage, all under `e.mu` | Start, Stop, Restart, RestartInBackground, source loop, stream starts | everything below | `Encoder` |
| **Recording manager** `recording/manager.go` | recorders by ID, whether it runs | Start, Stop, Add/Update/RemoveRecorder | recorders, outbox, uploader | parts in `Recorder`, `Storage`, `Settings`, `Destinations` |
| **Recorder** `recorder.go`, `recorder_run.go` | one loop goroutine owns the run: state, current segment, preparation, timers, segments being finalized | activate, deactivate, start/stop on demand, update, close; posts from helpers and timers | its helpers, the outbox | `Recorder` |
| **Recording output** `recorder_segment.go` | a file, its FFmpeg, its ticket while it is written | reserve, sync, commit, fail, discard, write audio, finalize | outbox, FFmpeg | `Outbox`, `Process` |
| **Outbox** `outbox.go` | one ticket per recording as numbered generations on disk, an index in memory | newTicket, update, fail, remove, load, recover, save and remove credentials | recorders, uploader | `TicketDisk`, `Outbox`, `Destinations` |
| **Uploader** `uploader.go`, `upload.go` | the ticket in hand | deliver, upload, head, cleanup, overdue alert | outbox, S3 | `Outbox`, `Overdue` |
| **Retention** `cleanup.go` | - | daily clean-up | outbox | `Outbox` |
| **Storage monitor** `storage.go` | published state of every directory | probe, publish, log, alert | event log, alerts | `Storage` |
| **Stream manager** `streaming/manager.go` | entries by stream ID with process, writer, retry count; a fan-out and encoder runs in listener mode | Start, Stop, StopAll, MonitorAndRetry, encoder restarts | FFmpeg, SRT fan-out, encoder | `CallerStream`, `ListenerStream` |
| **SRT fan-out** `srtfanout/server.go` | subscribers and their queues | accept, publish, shut down | stream manager | `Fanout` |
| **FFmpeg processes** `ffmpeg/process.go` | stdin lock, exit result | write, close, wait, escalate | recorder, stream manager | `Process` |
| **Detectors, distributor** `audio/`, `encoder/distributor.go` | debounced conditions, incident numbers | one update per metering window | alerts, silence dumps | `Debounce` |
| **Alerts** `notify/` | incidents, bounded queues, pending recoveries | start/end of incidents, delivery, drain, close | event log, channels | `Alerts`, `IncidentFeed` |
| **Silence dumps** `silencedump/` | audio ring, captures | incident start/end, encode, reset | alerts | `Dumps` |
| **Event log** `eventlog/`, `util/rolling_writer.go` | the log file and its rotated predecessor | append, rotate, read backwards, group | dashboard, encoder start | `EventLog`, `EventGroups` |
| **Configuration, API** `config/`, `api.go` | settings in memory and in one file | read, change, save with rollback, tell managers and browsers | all | `Settings` |
| **Dante input** `dante/` | reorder buffer, output buffer | media, timeouts, Close | encoder | `Dante` |
| **Sessions** `server/` | sessions, CSRF tokens, login limits | log in, check | API | not modelled |

What is hard about it:

* *Durability.* Every change of a ticket is a new file; each create, rename,
  directory sync and removal can fail or be cut off by a power failure, and S3
  can apply a request the client has given up. The configuration and the event log
  have the same faults with other answers: a rollback, a torn line that is cut off
  or terminated later.
* *Posts in any order.* Helpers and timers post closures to the recorder's loop;
  each can arrive after the run it belongs to has ended. Dante packets arrive in any
  order or not at all.
* *Restarts.* API calls, the tray, a settings change and a failing source all
  start and stop the encoder at once; several waits have timeouts and go on
  although what they waited for has not happened.
* *Delayed starts.* Streams start seconds after the source; by then the source
  or the encoder may be gone, or have come back.
* *Two critical sections for one change.* A request changes the file in one and the
  running managers in another; a monitor learns why its process ended in one and
  marks the stream in another; a rotation renames in two steps while a reader opens.
* *Bounded queues and rings.* A slow client, a slow alert channel and a late dump
  lose something by design; which part, and in which order, is the promise.

`hazards` in `PROJECT.json` lists these at their lines with the properties
that would catch them.

## 2. The modules

### TicketDisk, Outbox: from a reserved file to an object in S3

`TicketDisk` is the outbox directory. For every ticket, `gens` is the set of
generations visible now and `imgs` the set of directory contents shown since
the last directory sync, which is what a power cut may bring back. With
`Journaled = TRUE` a cut returns to one of those moments; with `FALSE` every
creation and removal since the sync is undone or kept on its own.

`Outbox` adds the files (`vis` what a path shows, `ent` its durable entry,
`bytes` how durable the content is, `marker` the `.failed` file), the owner's copy
of each ticket (`held`), the in-memory index (`idx`), the recorder's side of a
recording (`phase`), the upload worker (`upl`), S3 (`obj`, `late`), and history
variables that only properties read (`audio`, `puts`, `quarantined`, `gone`).

One action is one handler: `Reserve` (reserveRecordingOutput), `Sync`, `Discard`,
`FinishEmpty`/`FinishBad`/`FinishCommit` (the branches of finishOutput), `Fail`,
`TakeDue`/`Put`/`Head`/`UploadDelivered`/`UploadLost`/`UploadFailed`/`Cleanup` (the
worker, split at S3 calls), `Retention`, `Load` and the `Recover...` branches of
recoverInterrupted. Each disk step in a handler picks an outcome ("ok", the sync
failed, the create failed ...). A crash *between* two steps of a handler leaves the
disk in the state the handler leaves when the later step fails, so the outcomes
cover those crashes; `Kill(torn)` adds the torn write and `PowerCut` the loss of
everything not synced. The end of an upload by a cancelled context leaves the
ticket as it was, which is what `Kill` leaves too.

S3 is external, modelled from how `upload.go` uses it: a conditional PUT
(`If-None-Match: *`) takes only a free key; its reply may be lost; a request given
up may be applied later; HEAD returns the ticket ID stored with the object.

### Destinations: the stored upload credentials

A ticket names a destination; its file holds the credentials of one recorder for one
bucket. `Update`, `Refresh` and `Add` are UpdateRecorder, the hourly refresh and
AddRecorder at a start; each then takes the steps of saveDestination (`Lock`, `Save`,
`Rename`, `Sync`, any of which can fail) and `Reserve` those of ensureDestination, with
settings that may be older by then. `images` is what a power cut may leave of the
directory, `tickets` the destinations the tickets on disk refer to, `Open` the start that
removes the others unless it could not read a ticket. Update and the save of the
configuration before it are one step here; `Settings` has them apart.

### Overdue: one incident from two goroutines

checkOverdue runs after every delivery and every minute: `Evaluate`, `Apply`, `Log` and
`Tell` are its steps under overdueMu. `files` is the newest overdue event in each of the
two log files, `queue` and `told` one channel, `StartUploads` the next process, which asks
the log. `logOff` and `toldOff` are history: an event or an alert was lost for a reason
the code accepts (a failed write, a rotation that forgets, the end of the process), until
the next transition makes up for it.

### Recorder: the loop and what posts to it

One variable `r` is the GenericRecorder. Functions the loop runs are operators
from the recorder before to the recorder after (`StartRun`, `Stop`, `Fail`,
`ApplyConfig`, `TakeOn`, ...), composed exactly as the code calls them; commands,
timers and helpers are the actions. `stage` follows each segment from the request
to prepare it (waiting for the clock, opening, opened) over the live encoder to
finalization, so that a late report of an old preparation, a writer failing on a
retired segment or a timer that fired before it was cancelled are all states the
loop can meet. What happens to the file afterwards is `Outbox`, to its audio `Process`.

### Process: a segment's audio, its writer and its FFmpeg

The audio channel, the writer goroutine, `stdinMu` (held while a write blocks on the
full pipe), FFmpeg, which reads, hangs, crashes or ends, and finishEncoder with the
escalation of WaitEscalating. `took` and `read` are history: the chunks the channel
took and the ones FFmpeg read.

### Encoder: lifecycle

`e` holds the fields `e.mu` protects; `call` the Start/Stop/restart calls under
way and where they are; `loop` the source loop of each start; `starter` the
stream starts under way. One action is one critical section of `e.mu` or one
step others can see (`StopAll`, a wait that ends, syncRecording taking
`recordingMu` and applying the wish). Stop channels are numbered by the start
that made them. The recording manager is its `running` flag, one enabled stream a
Boolean; `ClaimStream` is claimStream's check under the lock StopAll takes.
`wish`, `asked` and `heard` are history: what the operator asked for last, the input
a restart was last requested for, the last outage event.

### CallerStream and ListenerStream: one stream in the stream manager

In `CallerStream`, `m.cur` is `Manager.streams[id]`, `entry` the Stream structs that
still matter with their process and writer, `work` the goroutines that start the
stream and become its monitor, `stop` the callers of Stop and the one of StopAll. One
action is one section under `m.mu` or one step others can see: claimStream's section
(`Claim`), stopping what it replaced (`Release`, `Drain`), `Exec`, `Publish`, the
monitor from `MarkExited` over `HandleExit`, `Record` and `Report` to `Check`, `Count`,
`Backoff` and the next `Claim`; `Stop`, `Emit`, `Delete` and `Clear`. A placeholder and
the entry that replaces it are one record with `pub`.

`ListenerStream` is the other mode: the entry and its fan-out stay while the monitor
replaces only the encoder run (`run`: attached to the entry, process, output reader,
writer, audio channel, stdin). A restart first reserves the entry; Stop can cancel it
at each of the sections that follow, and the port must be free when Stop reports.

### Fanout: one listener's clients

`Connect`/`Reject` are handleConnect at the handshake, `Subscribe` handleSubscribe
later, in a goroutine of its own. `Write` takes the read lock and offers the chunk to
each subscriber; a full queue loses its oldest chunk in a step of its own (`Evict`),
between which the client may take one. Shutdown is three steps.

### Debounce, Alerts, IncidentFeed: from a metering window to an alert

`Debounce` is audio/debounce.go as operators on its record; a time stamp is an age.
`Alerts` runs them: `Window` is what Distributor.ProcessSamples does with one window,
calling `StartAlert` and `EndAlert` of the orchestrator; `DumpReady`/`DumpSent` the
dump's callback, `Elapse` the clock with the pending recoveries' time limit, `LogWorker`
and `Deliver` the two kinds of workers, `ResetDetection`, `DrainBegin` and `DrainSend`
resetDetection with DrainLogs, `Close...` Close. Queues are bounded as in the code.

`IncidentFeed` is the abstract specification: what a reader of the log, or of one
channel, may count on. Entries may be missing, but what arrives is in order, an end
belongs to the start before it and to its settings, a dump comes once and after the
end. `Alerts` implements it twice (`LogFeed`, `ChannelFeed`), checked as a property of
the `services` run and proved in `ServicesProofs`.

### Dumps: the audio around an incident

The ring with its absolute positions, the captures of both triggers, one chunk and one
metering window per step as in ProcessSamples, extraction when enough audio followed,
encodings in flight, `SetEnabled`, and Manager.Stop's two halves around its unlock. A
chunk is its number, so a dump can be compared with what was heard.

### EventLog, EventGroups

`EventLog`: inodes, the two paths, the writer with its pending truncation and blocked
rotation, each disk step with its failure, torn writes and kills; ReadLast opens both
paths, reads, and checks that the paths still name what it opened. `EventGroups`:
GroupEvents event by event over any window, with the restarts of incident numbers.

### Settings: the configuration and the requests that change it

`mem`, `file` and `durable` are the configuration in memory, in config.json and what a
power cut may leave of it. A request arrives (`handleCreateStream` ...
`handleAPIRegenerateKey`, the reading part of each handler), is applied under the
configuration's mutex with one of three outcomes of the save (`AddStream` ...
`SetRecordingAPIKey`), then tells the managers (`StopStream`, `ReadStream`,
`StartStream`, `ChangeRecorder`) and answers. `Crash` and `Load` restart the service.

### Storage, Dante

`Storage`: one check per run of the manager; a blocked probe holds the mutex and can
outlive its run. `Publish` is the rest of `checkStorage` once the last probe has answered,
`Log` one event of `logStorageChanges`, `Tell` the callback. `paths` is what was published,
`queue` the newest state for a channel, `logged` each path's state by its newest event. A
write of the log may fail (a full disk, which is what the monitor is about); the published
state and the alert do not care. `Rotate` forgets the incidents whose event is in the rotated
file (`aged`). `Restart` kills the service anywhere, also between the events of one check;
NewManager takes the open incidents it can read (`Found`, `Restored`), which may be only those
before the place of a read error. `unlogged` and `missed` are history: the paths the log is
wrong about, because a write failed, a rotation forgot the event or the new process did not
get it; and whether the channel may be behind, since the process ended with an alert on its
way or the next one started from a log that was wrong. `StorageTold` says that nothing else
makes log, channel and published state differ, and that the next event of a path, or the next
change, puts it right.
`Dante`: run's loop (`pc`), the media processor (`expected`, the ages of pending
packets), the output buffer and the pipe whose reader may be away; positions stand for
timestamps, so the output can be compared with what was sent.

### Mutated forms

A definition whose comment begins "Mutated form of X" is X with a plausible bug: a
dropped guard, a swapped order, a missing reset. It is used by no specification. It is
there to show that the properties see the bug: with X's body replaced by it, the run
named under `mutants` in `PROJECT.json` reports the property violated.

## 3. What the runs show

| Run | Result |
|---|---|
| `outbox_one` | one recording through all storage modes, 2 crashes, 2 disk failures, 1 lost S3 call, a file that may vanish: audio is kept, tickets are found, one object per ticket, the key in use is one a restart knows, what failed stays out, what is ready is durable. Beside it the stored credentials: no ticket is left without any, and the last save wins (`CredentialsKept`) |
| `outbox_names` | two recordings compete for 2 names and 3 keys that others occupy and free: `NamesSound` (a name is never given away while a ticket stands for it, every delivery is once, keys and audio are kept) |
| `recorder_loop` | every order of commands, settings, timers, preparations, writer failures and finalizations: capture has its one encoder, the output and the schedule are kept, a stop is complete and ends |
| `encoder_calls` | 2 callers and the background restart against a failing source and a changing input; a caller stream with 2 starters against StopAll |
| `encoder_live` | starts, delayed starts and edits of a stream against stops and source runs: streams end, come back, and every call returns |
| `live` | what must eventually happen in caller and listener streams, the fan-out, a segment's finalization, the Dante receiver and an upload, and what holds meanwhile |
| `services` | safety of alerts (against `IncidentFeed`), dumps, event log, event groups, configuration, storage monitor, Dante reception and the overdue alert |
| `orphan_ticket`, `key_revert`, `stopped_twice`, `dump_overwritten`, `recorder_unreachable` | find the disagreements below |

`MCOutbox` and `MCEncoder` add the symmetry sets of the two larger safety runs, whose
specifications treat the members alike; runs with fairness use none.

`MCUploads`, `MCEncoder`, `MCLive` and `MCServices` put components that share no state side by side:
`which` chooses one at the start, its variables run its `Init` and `Next`, the others'
are `None`. One component of each is extended rather than instantiated (`Encoder`,
`Process`, `Storage`, `Outbox`): its own theorems then speak of the run's definitions, and its
variables stay initial when it is not chosen. What is proved of an instantiated one
(`CallerStream`, `ListenerStream`, `Fanout`, `Alerts`, `Dumps`, `Overdue`, `Settings`, `Destinations`) is proved of
the composition, whose constants are theirs; the cfg gives them values. One run then asks one question of several
components at the cost of the sum of their states, and a property of such a run is the
conjunction of the components' properties, each named in its module. Where components do
share state they are one module: the outbox with recorder, worker and disk; a stream with the encoder's state;
the alerts with their detectors; the dumps with theirs; the configuration with the
managers it tells.

Properties of the outbox refer to the design's invariants
(`src/docs/recording-redesign.md`): `AudioKept` and `TicketFound` are I3/I9 and I6 (durable
audio is never lost, never without a ticket, and every ticket is indexed), `StoredOnce`
and `AtMostOnce` are I4, `EventuallyDelivered` is I10/R3, `ReadyIsDurable` section 4.3,
`RecordingFollows` R1, `OutputFollows` D3.

### Bounds, and why they are enough

Each bound is a guard on the environment's steps (calls, faults, crashes, input), never on
a step the code must take. `CHECK_DEADLOCK FALSE` is set because a system whose callers
have used up their calls rests; the deadlocks that matter are covered by `CallsReturn`,
`StopsReturn`, `ClosesEnd`, `FinishEnds`, `RunsEnd` and `EventuallyDelivered`.

* *Outbox.* Tickets interact only through a shared file name or S3 key, so one recording
  with many faults and two recordings with few cover the cases: the shortest
  counterexamples found need at most two crashes, two disk failures and one lost call.
  `MaxSeq` is large enough that the other bounds end a behaviour first.
* *Destinations.* Two savers and a reservation, two buckets, two credentials, two updates,
  one failing call, one kill or power cut: two saves of different age, a reservation older
  than both, and a start after a save that was cut off.
* *Overdue.* Two goroutines as in the code, two lives of the process, one failing write or
  read of the log; rotations and deliveries are not bounded.
* *Recorder.* Two segments let a preparation or a finalization run beside the current
  one, and a number is free again when its segment is finished. Two timers suffice because
  a slot holds one and at most one fired one waits beside it.
* *Encoder.* Two calls and the background restart are enough for a superseded restart, a
  collapsed one and a timed-out stop followed by a start.
* *Streams.* An entry is reused once nothing refers to it, so two let one be replaced while
  a goroutine still holds the other; the number of starts, stops and restarts is not
  bounded. Two starters with StopAll are checked for safety (`encoder_calls`), one with a
  Stop and StopAll, or with either in listener mode, for liveness (`live`). One retry in
  caller mode reaches both the retry and giving up; no retry in listener mode still
  restarts after long runs, which the code does not count.
* *Fan-out.* Two connections for one place, queues of two chunks (so that replacing the
  oldest leaves something) and three chunks, one more than a queue holds.
* *Process.* A pipe of one chunk and a channel of two, filled by four.
* *Alerts.* Queues of length one are full at once; two incidents and one edit of the
  settings let an old incident's end, dump and settings meet a new one; one trigger and
  one channel, because triggers and channels share no queue but the log's.
* *Dumps.* Both triggers, because they share the ring; one chunk before and inside, three
  after, seven in all, so that the ring wraps and captures overlap.
* *Event log.* Two lines per file and five events rotate twice during a read.
* *Event groups.* Five windows of events that have to do with each other, any five events
  of one, over two process runs.
* *Settings.* Two requests at a time, one failing save, one crash or power cut; three
  names, two of which give the same file name.
* *Storage.* Two directories and two runs: a probe of the first can outlive it; kills,
  rotations, failed writes and partial reads are not bounded.
* *Dante.* Six positions with gaps of two at most (three in the liveness run); a tick is
  half the time after which a gap is given up.

### Fairness

All of it is weak fairness of goroutines that are runnable: the upload worker and the
recovery (`deploy/encoder.service` has `Restart=always`, so a crash is followed by a
start); the recorder's loop, helpers and timers; the calls and the source loop of the
encoder; starters, monitors and stoppers of a stream (`Work`, `StopWork`), and the ends
of its goroutines once its process is dead (`Ending`); the fan-out's server and its
clients' goroutines; a segment's writer and its finalization, whose timeouts fire; the
receiver's loop and the AfterFunc of its context. A *cancelled* FFmpeg ends because
`exec.CommandContext` kills it, a cancelled source because its process is killed after
`WaitDelay`, a write to a closed connection because the connection is closed. No
fairness is assumed of users, faults, crashes, of audio or packets arriving, of
FFmpeg reading or exiting by itself, or of the reader of Dante's pipe. A wait
with a timeout may end at any moment, so no property depends on how long anything takes.

### Disagreements found

* `orphan_ticket` violates `StoredOnce` (`recorder_segment.go:262`): a reservation
  whose ticket write fails only in the directory sync removes its file and not its
  ticket. Another recording takes the name, and after a restart both tickets
  deliver its audio. I4 promises exactly once.
* `key_revert` violates `KeyKnown` (`uploader.go:304`): a new S3 key whose save failed
  only in the directory sync is taken back in memory but stays on disk; with the
  blocking object removed in the meantime, the upload uses a key a restart would
  not know.
* `stopped_twice` violates `StoppedOnce` (`streaming/manager.go:868`): a monitor that
  has passed `markExited` and read why its process ended calls `SetError` by stream
  ID. If another start replaced the entry in between, the new entry is marked as
  failed; when a Stop was just ending it, a second Stop takes it for a failed entry
  and emits `stream_stopped` again. The comment at `Stop` promises exactly one. With a
  Stop that is slower than the backoff a monitor can also start the stream again:
  `StopHolds` is therefore checked with one starter only (`live`), where no entry is
  replaced by anybody but its monitor.
* `dump_overwritten` violates `DumpIsContext` (`silencedump/dump.go:255`): the audio after
  an incident is read from the ring when recovery is confirmed, at the position where it
  began. The ring holds 35 s, the recovery time may be 60 s: the dump then ends with other
  audio. A source that pauses during recovery has the same effect with a shorter setting,
  because the wait is measured by the clock and the ring by what was heard; `services`
  uses a recovery time and pauses within the ring, and `DumpsHold` proves that this suffices.
* `recorder_unreachable` violates `RecordersReachable` (`encoder.go:1306`): a deletion
  between a creation's save and its start finds nothing to stop; the recorder then runs
  without being configured.

Met while modelling, and not made a run of their own because no line of the repository
promises otherwise, or because the case is outside what the code sets out to handle:

* `load` removes older generations of a ticket before anything has synced the newest one's
  directory entry (`outbox.go:163`). A file system that may reorder directory changes
  (`Journaled = FALSE`) can then lose the ticket; one that journals them in order cannot.
* Saving credentials that are in the file already does nothing, and a reservation goes by the
  file it sees (`outbox.go:489`, `outbox.go:510`). If the save that wrote the file failed in its
  directory sync or was killed before it, nothing syncs the entry again, and a power cut can
  take the credentials of a durable ticket; the next start stores them anew unless the
  recorder was removed or points elsewhere by then. `NoneStranded` leaves such a
  destination out (`unsynced`).
* A kill between an overdue event and its alert leaves the channel as it was until the next
  transition (`uploader.go:382`); the same holds for the storage monitor (`storage.go:64`).
* The storage monitor only warns about an event it could not write (`storage.go:178`), and a
  new process goes on with whatever part of the log it could read (`manager.go:70`). The log
  may then say "low" of a path that has recovered, or nothing of one that is low, until the
  path's next transition; after a restart from such a log so may the alert channel, which is
  not told that the incident it knows of is gone. `StorageTold` leaves these paths and this
  channel out (`unlogged`, `missed`).
* `stopListenerAfterRetryEnd` sets an error without looking whether a Stop is under way
  (`streaming/manager.go`, near line 1301).
* The fan-out compares the number of clients with its limit at the handshake and counts
  later (`srtfanout/server.go:219`): clients that connect together can exceed it.
* Incidents of uploads are grouped by S3 key (`eventlog/groups.go:569`); when a conflict
  changes the key (`uploader.go:419`) the first incident stays open until it leaves the window.
* Two requests that change different settings can undo each other's secret, which each
  reads before it waits for the mutex (`api.go:221`, `api.go:366`). A stream edit can start
  a stream as it was read before a newer edit or a deletion.
* `config_changed` is dropped for a browser whose websocket queue is full (`server.go:135`).
  `ClientsTold` is about what is broadcast.
* Manager.Stop of the dumps leaves the capturer alone if the manager never started
  (`silencedump/manager.go:91`).

## 4. What is proved

Every theorem holds for all values of the constants that satisfy the assumptions of the
modules (`TicketDiskAssumption`, `OutboxAssumption`, `RecorderAssumption` and so on: the
constants are of their types, and `None` is none of the things it stands for). Where a
theorem needs more than that, it says so in its hypotheses. A proof module extends the
module it is about; `LiveProofs`, `ServicesProofs`, `SettingsDumpsProofs` and the last
sections of `EncoderProofs` and `OutboxProofs` are about a composition (`MCLive`,
`MCServices`, `MCEncoder`, `MCUploads`). What an instantiated component assumes of its
constants is assumed there: `CallerStreamAssumption`, `ListenerStreamAssumption`,
`AlertsAssumption`, `DumpsAssumption`, `DestinationsAssumption`, `SettingsAssumption` and
`OverdueAssumption`; TLC evaluates them too. Each proof follows one plan: an inductive
invariant `IInv` in named parts, a lemma per action that the action keeps it, `IInv` implies
the property. The invariants were checked with TLC on the bounds of section 3 before they
were proved.

### OutboxProofs

For any finite set of recordings and any number of paths, keys, crashes, failures and lost
calls, journaled or not: `TypeCorrect`; `SingleOwner` (a ticket belongs to the recorder, to
recovery or to the upload worker, one at a time, which is why the code can change a ticket
without a lock); `UploadsOnce` (if objects that block a key are not removed,
`AllowExpire = FALSE`, a ticket creates at most one object); `DeliverableIsDurable` (section
4.3 of the design: what is deliverable, in memory or in anything a crash could bring back,
has no byte left to lose).

`AtMostOnce` is not inductive: a retry under a new key is harmless only because the old key
is known to hold somebody else's object. The strengthening is `IInv == TypeOK /\ OneOwner /\
KeyFrontier /\ ObjectsStay`. `KeyFrontier` says that wherever a ticket's key is found - with
its owner, in any generation a crash could bring back, in a request S3 may still apply, in an
object already created - all lower keys hold objects of others. Two objects of one ticket
would each have to lie below the other, so they are the same. `OneOwner` is needed because
only the owner's copy of a ticket may move its key; `ObjectsStay` because a key once taken
must stay taken, which is where the hypothesis comes in. (Without it `outbox_names`
model-checks the property for two recordings, without disk failures.) The proof first
establishes what each disk operation adds to the generations a restart could meet
(`WriteDisk`, `RemoveDisk`, `LoadDisk`, `LeavesSubset`), then shows the invariant preserved
in two layers: types and ownership (`OwnersNext`), then keys and objects.
`ReadyIsDurable` is proved from `DurableInv`, which says the same of all places that can make
a ticket deliverable (index, owner's copy, every generation, the worker) and that until its
recorder has finished, a ticket says nothing but "recording" anywhere (`StillRecording`).

The rest of the module says what a restart finds, on a journaled directory (`Journaled`: a power cut takes the directory
back to a state it has shown since its last sync, which is what ext4 and xfs do; a directory
whose changes reach the disk in any order loses tickets, see the remarks in section 3).

* `KeysSurvive` (`KeyKnown`; objects that block are not removed): the key of an object is
  the key in every generation a restart could load and deliver. `RestartInv` adds to ownership
  that the directory as it is counts among its images, that a name of a generation is not
  used twice, that the owner's copy is as new as the directory (`AllImages`), and that no key in
  use is above a key on disk, nor a key on disk below the owner's (`KeysPersisted`), which is
  what saving a new key before uploading under it is for. The hypothesis is needed: the run
  `key_revert` violates the property without it.
* `AudioSurvives`, `TicketsAreFound`, `QuarantineHolds`, `KeysDoNotMix` (`AudioKept`,
  `TicketFound`, `FailedStaysOut`, and, with `~AllowExpire`, `NamesSound`), for recordings
  that have file names of their own, `NamesDiffer`. The invariant, `KeptInv`, is a conjunction
  for each recording (`Sound`): uploads carry its own audio, "delivered" is said only of what
  was put, its file is at its path and nowhere else, a ticket that is still needed is in every
  image and in the index, the file and its entry stay, and a recorded failure is what every
  later process would read. A step of one recording leaves the others alone
  (`SoundUntouched`), so each action is treated for the one recording it is about.

Names carry the time to the second, and a recorder skips those it has used in the last two
hours: `NamesDiffer` is the normal case. It cannot be dropped together with disk failures:
`orphan_ticket` shows two recordings of one name stored twice. What holds for shared names
without failures is checked by `outbox_names`, for two recordings.

*The stored credentials.* `CredentialsStay` (`CredentialsKept`), in the composition `MCUploads`, for any
number of savers, buckets, updates, failing disk steps, kills and power cuts. `DestInv` says
that the mutex belongs to one saver and what that saver has read and written so far
(`ThreadFits`), that a reservation comes with credentials not newer than the last update of its
bucket, that what was renamed but not synced is either safe to lose or about to be synced by
the holder of the mutex (`Confirmed`, `TicketsSafe`: every image of the directory has
credentials for a bucket that a ticket names), and that no save goes back behind one that
succeeded (`NewestWins`, `Queued`). Without the part about the unsynced rename a power cut
could leave a ticket with an older file than the one its caller was told of.

### RecorderProofs

For any number of segments and timers: `OneEncoder` (`CaptureHasEncoder`), `NewOutputApplies`
(`OutputFollows`), `ScheduleKept` (`KeepsSchedule`) and `StopsAreSound` (`StopIsSound`, an
action property with its state part). The loop's functions are operators on the recorder, so
the invariant is a predicate `Good(w)` of a recorder, and there is one lemma per function
("StartRun keeps Good", "Fail keeps Good") that every action calling it cites, as the code's
functions are called. `Core` is what is needed beyond the properties: which stage a segment
may be in for the loop to name it, which posts may still be under way, what a timer in a slot
does, and that the segments being finalized are the ones `retiring` counts. Without these a
late post could be taken for one of the current run.

### EncoderProofs

For any set of calling goroutines and any number of runs, faults and edits: `OneSourceAtATime`
(`OneSource`), `StopSupersedes` (`StopWins`), `RecordingsFollow` (`RecordingFollows`),
`StreamsEndWithTheRun` (`StreamsEnd`), `OutagesReported` (`InputReported`), `OldInputLeaves`
(`NewestInput`). The invariant has a part for each of these and two that count: every start
of the loop has used up a call or a saved input (`StartsCounted`), and a source published
again has failed since (`RunsCounted`); these bound the stop channels and runs. `CallsShape`
says where a call can be, `OneLoop` that only the loop of the last start is under way,
`WishApplies` that the last wish for recordings is applied, is being applied, or will be read
by somebody queued for `recordingMu`, `RestartComes` that while a source with an old input is
open a restart of this generation has not come to its stop yet.

### ServicesProofs

It extends `MCServices`, so its theorems speak of the run's own definitions. Three components
of `services` are proved here, each with an invariant of its own, and two more in
`SettingsDumpsProofs`.

*The storage monitor.* `EveryoneIsTold` (`StorageTold`) and `LowIsHeld` (`LowHolds`), for any
set of directories and any number of runs: `OneCheck` says that the probe mutex belongs to the
check that is under way, `LogRight` that the log has the published state of every path but
some and those in `unlogged`, `Owes` what the check still owes the log (the events it has not
tried to write) and the channel, and that a check without a change owes the log nothing;
`AgedOpen` that the rotated file holds open incidents only, so that a restart takes over no
path as unhealthy which the log has as healthy. A failed write, a rotation and a partial read
each add to `unlogged` exactly the paths they leave wrong. So `EveryoneIsTold` needs no
assumption about the log, and says what is right whatever it does.

*The alerts implement `IncidentFeed`.* `FeedsAreIncidents` (`FeedsInOrder`), for any depth of
the queues, any durations, recoveries and time limits, any number of incidents and edits, and
with one or both triggers: every step of `Alerts` is a step or a stutter of the feed of the
log and of the feed of the channel. `AlertsAssumption` asks only that the numbers are naturals
and that a queue has a place. The feed itself is not inductive: nothing in it says what is
still waiting. `AlertsInv` therefore says for each trigger (`TriggerFits`):

* `Ordered`, of the log with its queue and of the channel with its own: each thing that waits
  may arrive now (`Arrives`), any two of them in their order (`Precedes`), and behind them may
  come the end of the open incident and the dumps that are due. Both relations are between
  pairs, so a full queue that loses its oldest entry keeps them (`Becomes`, `QueuedInOrder`).
* `DetectorFits`: the orchestrator has the incident the detector has confirmed. It gives the
  bound on what waits: the newest number that has been confirmed or was given up (`Top`), below
  that of a start the detector is still timing.
* `DumpsFit`: an incident that is over is in one place only - captured, pending, or taken by
  a dump - and once in it; this is what makes its dump single (the callback takes the pending
  recovery out of the map under the mutex).
* `SettingsFit`: all that was said or waits to be said of an incident carries the settings of
  its start, although they may be edited meanwhile.

Each action has one lemma; `WindowInv` splits by what the detector says of the window
(`OpensInv`, `EndsInv`, `NeitherInv`). The operators of `Debounce` are used through lemmas on
what they do to a detector (`UpdateEffect`, `ResetEffect` and so on), those of the queues
through `EnqueuedAlert` and `LoggedBecomes`.

*The alerts come to rest.* `AlertsSettled` (`AlertsSettle`), for the same constants. That a full
queue keeps the newest alert (`Remembered`) is `NewestKept`. That no incident is left open in
the log when a stop or a Close has returned is a statement about a moment, and nothing before
that moment says why it will be true. `SettleInv` does: every incident that is open in the log
has its end in the log's queue or an entry was dropped, and where a drain or a Close waits
for its mark, the end is in front of the mark; Close's mark is the last thing in the queue;
and a detector has an incident open only while the encoder runs, so behind a drain none can
start.

*The overdue alert.* The other part of `AlertsSettled`. `OverdueInv` says which of the two
goroutines holds `overdueMu` and how far it is; that log and channel agree with the worker's
state unless the event or the alert is still to come from that goroutine, or was lost for a
reason the code accepts; and that whenever the recordings that are overdue are gone while the
incident is open, a check that will end it is under way or due.

### SettingsDumpsProofs

*The configuration.* `SavesHold` (`SavesSound`), for any number of concurrent requests, of failing saves, of kills and
power cuts, and for any set of names, some of which share a prefix. `SavesInv` has five parts.
`FilesFit`: of all that the file may hold now or after a power cut, only the file of an
earlier release lacks prefixes, and its recorder gets the same one at every start
(`FirstPrefix`); everywhere else the recorders have prefixes, no two the same, and those they
have always had (`Named`, `Distinct`, `Settled`). `MemoryFits`: what runs is what loading the
file would give. `RequestsFit`: an ID that a request is about to create has never been used
(`Unused`), and two requests for one item are for the same kind; this is what makes the prefix
of a new recorder its first. `VersionsFit`: whatever a power cut leaves is at least as new as
what was acknowledged. `ClientsFit`: the browsers were told of what is in memory, or a request
that changed it has not announced it yet. Each of the handlers' steps has a lemma; what they
do to the configuration goes through `RequestSteps` and the lemmas on the edits (a put, a
removal, a new key), and `Crash` and `Load` through `LoadedFits`.

*The audio dumps.* `DumpsHold` (`DumpsSound`), for audio of any length, any lengths of the three
parts of a dump, any confirmation and recovery times and any pauses. Its hypothesis
`RecoveryInRing` is what `dump_overwritten` shows to be needed: a recovery is confirmed, with
the pauses in it and two chunks to spare, while the ring still has the audio after the
incident (`Longest + 2 <= Capacity`); and a chunk is shorter than that audio (`After >= 2`,
and the ring is longer than `After`), which 15 seconds are. `DumpsInv` says

* of the ring (`RingFits`) that it has every chunk of the last `Capacity` at its position
  modulo the size - that a write takes the place of nothing that is still needed is
  arithmetic (`ModDiffer`, `RingWritten`, `RingRead`);
* of a capture (`CaptureFits`) that what it took before and during the incident is what was
  heard then, and no less than its dump will need;
* of the captures of a trigger that they are apart (`Apart`, `Past`): at most one is open, it
  is the newest, and two incidents lie two chunks apart. The number a detector has given out is
  that of its open capture (`NumbersFit`), so a recovery finds the right one, also after a
  reset of the detectors, whose numbers go on;
* of what is complete and not encoded yet that it is one capture with nothing else due with
  the next chunk (`OneLeft`), or what was found recovered just now, at most one of each
  trigger (`AllFresh`). This is the heart of it: a write finishes *one* capture, of two that
  are complete one has to wait, and while it waits the ring goes on. The invariant bounds the
  wait by one chunk, because a backlog is never joined by another capture before it is gone
  (`WrittenBacklog`, `Served`), and `DumpsCut` then finds the audio still in the ring;
* of what is owed (`OwedFits`) that its capture has recovered and is there, or its dump.

`ProcessSamples` is taken apart as the code runs it: the chunk is written, one capture
finished (`TakenOn`), both detectors are older and judge the window (`UpdateSays`: an incident
`Begins`, `Recovers`, or neither), and the manager handles one trigger after the other
(`HandledIs`, `BothHandled`).

### CallerStreamProofs

For any number of goroutines that start, watch and retry the stream, any number that stop it,
any number of entries and any `MaxRetries`: `NoneForgotten` (`NoOrphan`) and `StopsAreOver`
(`StoppedIsOver`). The invariant is a predicate `Good(v)` of the manager: `WorkerFits` (where
a goroutine is agrees with the entry it starts, watches or replaces), `OneStarts` (a
placeholder is one goroutine's), `EntryFits`, `StopFits` (a stopper's entry is cancelled and
will not be published later), `Shut` (while StopAll runs nothing new is claimed and what is in
the map is cancelled) and, the heart of it, `Adrift => Replaced`: a process that runs, or is
about to, without being the managed one and without having been told to end, exists only
between claimStream's section and the stop of what it replaced, and the goroutine that will
stop it is known. `NoOrphan` alone is not inductive: nothing in it says who will tell a
replaced process. Entries nobody refers to any more are cleared by the model; `BecomesKeeps`
shows once that this disturbs nothing, so each action is treated without it.

`StopIsFinal` (`StopHolds`) needs the hypothesis `Single`, one goroutine that starts the
stream: with two, a monitor whose entry has been replaced can claim again while a Stop waits
(see `stopped_twice`), so the property is false there. `Alone` adds to `Good` that the map
holds the starter's entry or none, that an entry whose exit the monitor has marked is not
shown as running, and that after a Stop what is in the map is stopping.

Two theorems carry this over to what the runs check. A composition takes part in a step of
the stream or leaves it alone, and two instances of one module with the same parameters have
the same actions: `CallerIsSound` (`CallerSound`, with StopAll and any number of starters) in
`EncoderProofs`, `StopsAreFinal` (`StopHolds`, with a starter, a Stop and StopAll) in
`LiveProofs`.

### ListenerStreamProofs

For any number of goroutines that start, watch and retry, any that stop, any number of
entries and retries: `NothingIsStranded` (`NothingStranded`) and `StoppedStaysOver`
(`StoppedIsOver`). The hypothesis is `ListenerAssumption`: no entry is called `None`, and no
goroutine both starts and stops. A listener has two things to leave behind, the encoder of a
run and the port of the fan-out, and a restart keeps the second while it replaces the first.
The invariant `Good(v)` of the manager therefore has a part for each. `Adrift => Told`: an
encoder that runs or is about to start outside the managed entry without having been told to
end has somebody who is about to tell it. `PortKept`: a port is bound by an entry that starts
or runs, or there is somebody on the way to shut it down. Both are restored by whoever has
taken the entry out of the map, so `TargetFits` says what that goroutine may find at each
place (past the shutdown the port is free, past the drain it is closed), `WorkerFits` and
`OneStarts` that a placeholder and its port are one goroutine's until published, `EntryFits`
that an entry whose Stop has reported stays stopped, and `Over` that StopAll leaves a map in
which nothing runs. Three lemmas carry most steps: `Moves` (a goroutine moves, entries go
towards their end: `EntryGoes`), and its cases `AgentMoves` (no entry changes) and
`EntryMoves` (nobody moves); each action then shows only what it changes. The exceptions
are the steps that take an entry back into life - claim, publish, begin, reserve, restart -
which have lemmas of their own (`StarterFits`, `RunBegins`, `PortBegins`, `StreamBegins`). `NothingIsLeft` in
`LiveProofs` says it of the instances with a Stop and with StopAll that `live` checks.

### LiveProofs

`NoChunkIsLost` (`FileComplete`), for any capacity of channel and pipe: until something
went wrong that finishEncoder reports, every chunk the channel took is read, in the pipe, in
the writer's hand or in the channel (`NothingLost`). The run extends `Process`, so this is
the run's own property.

`ClientsAreCurrent` (`ClientsStayCurrent`), for any set of connections, any number of places
and any length of queue: `Ordered` says that what a client was sent and what is queued for it
increases, `UpToNow` and `Before` that nothing queued is newer than the current chunk, or as
new where Write has still to come, and `HasNewest` that everybody Write has passed ends with the newest
chunk. Losing the oldest chunk of a full queue in a step of its own, which the client may
get ahead of, keeps all of them.

### Only model-checked

* Liveness (`EventuallyDelivered`, `RunsEnd`, `CallsReturn`, `StreamComesBack`, `StopsReturn`,
  `Recovers`, `ClosesEnd`, `FinishEnds`): fairness is out of the prover's reach.
* `HistorySound` and `DanteSound`: no proof has been written. `Dante`'s advance repeats until
  nothing moves and the output buffer is cut into chunks, so what they do is a matter of
  induction over the packets; the log's reader and the grouping go over all entries of two
  files in turn, which is induction over them.

## 5. Not modelled

* `Outbox`: times, attempt counts, error texts; retention of S3
  objects other than as the environment's `Expire`; the names one recorder
  remembers for two hours (another recorder does not know them, so the model lets
  any free name be taken).
* `Recorder`: event texts, directory locks (a reservation is one step in `Outbox`).
* `Encoder`: status texts, level meters and audio times (when audio is steady is
  nondeterministic), FFmpeg's availability, Close; the inside of the stream manager; a failed
  write of `input_lost` or `input_restored`, which is only warned about: `InputReported` is
  about what is reported to the log.
* Streams: chunks in caller mode, `stream_stable`, the length of the backoff, status
  texts, the bookkeeping of several streams.
* `Alerts`: what a channel does with an alert (e-mail, webhook, Zabbix succeed or fail);
  input and heartbeat alerts, which use the same queues. One call that enqueues is
  one step.
* `Dumps`: the encoding, and the hourly removal of old files, which looks only at age.
* `EventLog`, `EventGroups`: filters, pages, texts.
* `Settings`: checks of single fields, defaults; the encoder counts as running. Sessions,
  CSRF tokens and the login limiter are maps under one mutex whose operations are one
  critical section each; notification tests and the websocket pumps are I/O.
* `Storage`: the arithmetic of the thresholds (space is one of four levels); a power cut that
  takes the newest events of the log along, which is not synced; the alert channel's own
  failures. The log's files are those of `EventLog`, here only what they say of each path.
* `Dante`: discovery and control, packets of unequal length, the wrap of timestamps; the read
  deadline, since every tick wakes the reader: that a gap is given up in time is then mostly
  a matter of `advance`, while the timeline and the end depend on all of it.
* Metering is floating-point arithmetic: which condition holds in a window is an input.
* Types and field validation, file names, tray, version check and the web interface: no
  state the other parts depend on.

## 6. Plan

Theorems next, each from an invariant a run checks already:

1. `EventGroups`: the half of `HistorySound` about what needs attention.
2. `NamesSound` for recordings that share names, without disk failures.

Modules: `Encoder` and `CallerStream` share the stream's Boolean today; a `Stream`
specification (on or off, `stream_stopped` once) implemented by both stream modules would
replace it. `Delivery` (a recording is pending, stored or quarantined), implemented by
`Outbox`. The recording manager's map of recorders with its lock, Close of the encoder,
and the sessions if they grow a step of two sections.
