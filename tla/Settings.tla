------------------------------- MODULE Settings -------------------------------
(***************************************************************************)
(* The configuration (internal/config/config.go) and the HTTP handlers     *)
(* that change it (api.go): every change is made in memory, written to a   *)
(* temporary file, renamed over config.json and confirmed by a directory   *)
(* sync, all under one mutex.  A save fails before the rename (the change  *)
(* is undone), or after it (the change stays, ErrSaveCommitted).  The      *)
(* handlers read before they change, and tell the running streams and      *)
(* recorders afterwards, each in a critical section of its own.            *)
(*                                                                         *)
(* A stream is a listener here: its tag is the address it binds.  A        *)
(* recorder's tag is its name.                                             *)
(***************************************************************************)
EXTENDS Naturals, FiniteSets

CONSTANTS
  Handlers,     \* HTTP requests that may be handled at a time
  Tags,         \* listener addresses, and recorder names
  Alike,        \* names that differ and give the same file name
  None,         \* nothing read, no prefix yet
  MaxRequests,  \* bound: requests
  MaxFaults,    \* bound: failing saves
  MaxCrashes    \* bound: kills and power cuts

VARIABLES
  mem,      \* ConfigData: items by ID, the notification secret, the API key; and how many saves made it
  file,     \* config.json
  durable,  \* what config.json may hold after a power cut
  req,      \* the handlers, and the delayed stream start each may leave behind
  rt,       \* configuration the stream and recording managers run, by ID
  up,
  told,     \* the configuration at the last config_changed broadcast
  serial, faults, crashes,
  acked,    \* history: the newest save a request was told has succeeded
  prefixes  \* history: prefixes each recorder has had

vars == <<mem, file, durable, req, rt, up, told, serial, faults, crashes, acked, prefixes>>

Idle  == [pc |-> "idle"]

\* Functions with part of the IDs as domain.
Put(f, id, x) == [i \in DOMAIN f \cup {id} |-> IF i = id THEN x ELSE f[i]]
Drop(f, id)   == [i \in DOMAIN f \ {id} |-> f[i]]
Recorders(items) == {i \in DOMAIN items : items[i].kind = "recorder"}

-------------------------------------------------------------------------------
(* Validation: AddRecorder and Load give a recorder without a prefix the   *)
(* first free one of its name: the name's characters, and -2, -3, ...      *)

FirstFree(tag, used) ==
  LET base == IF tag \in Alike THEN Alike ELSE {tag}
      taken == {p[2] : p \in {q \in used : q[1] = base}}
  IN <<base, CHOOSE n \in 1..(Cardinality(taken) + 1) : n \notin taken /\ 1..(n - 1) \subseteq taken>>

PrefixesOf(items) == {items[i].prefix : i \in Recorders(items)} \ {None}

\* The file has at most one recorder without a prefix.
Assigned(items) ==
  [i \in DOMAIN items |-> IF items[i].kind = "recorder" /\ items[i].prefix = None
                          THEN [items[i] EXCEPT !.prefix = FirstFree(items[i].tag, PrefixesOf(items))]
                          ELSE items[i]]

\* The prefixes each recorder has had.
Seen(had, items) == [i \in DOMAIN had |-> had[i] \cup {items[j].prefix : j \in Recorders(items) \cap {i}}]

Valid(items) ==
  \A i, j \in DOMAIN items :
    i # j /\ items[i].kind = items[j].kind =>
      CASE items[i].kind = "stream"   -> items[i].tag # items[j].tag \/ ~items[i].on \/ ~items[j].on
        [] items[i].kind = "recorder" -> items[i].tag # items[j].tag /\ items[i].prefix # items[j].prefix

-------------------------------------------------------------------------------
(* Saving                                                                  *)

\* saveLocked ends in three ways.
Outcomes == IF faults < MaxFaults THEN {"ok", "failed", "committed"} ELSE {"ok"}
CountFault(res) == faults' = IF res = "ok" THEN faults ELSE faults + 1

\* The file, once renamed, and what a power cut may leave of it.
Renamed(new, res) ==
  /\ file' = IF res = "failed" THEN file ELSE new
  /\ durable' = CASE res = "ok" -> {new} [] res = "committed" -> durable \cup {new} [] OTHER -> durable

\* restoreUnlessCommitted, and without the lists in the copy that is restored.
RestoreShares(new, res) == IF res = "failed" THEN [mem EXCEPT !.items = new.items] ELSE new
Restored(new, res)      == IF res = "failed" THEN mem ELSE new

\* One change under the mutex: `new' is saved, or refused when it is not valid.  The
\* managers are told of a change of a recorder that is in the file, confirmed or not,
\* and of a stream's that is confirmed.
Change(r, new) ==
  LET q == req[r]
      known == CASE q.kind = "recorder" -> {"ok", "committed"}
                 [] q.kind = "stream" /\ q.op # "delete" -> {"ok"} [] OTHER -> {}
  IN \E res \in IF Valid(new.items) THEN Outcomes ELSE {"failed"} :
       /\ mem' = Restored(new, res)
       /\ IF Valid(new.items)
          THEN Renamed(new, res) /\ CountFault(res)
          ELSE UNCHANGED <<file, durable, faults>>
       /\ prefixes' = Seen(prefixes, mem'.items)
       /\ req' = [req EXCEPT ![r] =
                    [q EXCEPT !.pc = IF res \in known THEN "runtime" ELSE "answer", !.res = res, !.ver = new.ver,
                              !.item = IF q.id \in DOMAIN new.items THEN new.items[q.id] ELSE None]]

-------------------------------------------------------------------------------
(* The handlers                                                            *)

\* preserveSecret: what the request says of the secret, and the saved one.
PreserveSecret(value, saved) ==
  CASE value = "new" -> serial + 1 [] value = "clear" -> 0 [] value = "keep" -> saved

\* A handler up to its first call that changes something.
Asks(r, op, kind, id, tag, on, secret) ==
  /\ up /\ req[r].pc = "idle" /\ serial < MaxRequests
  /\ serial' = serial + 1
  /\ req' = [req EXCEPT ![r] = [op |-> op, kind |-> kind, id |-> id, tag |-> tag, on |-> on, secret |-> secret,
                                pc |-> IF op = "delete" /\ kind = "stream" THEN "stop" ELSE "apply",
                                item |-> None, ver |-> 0, res |-> "none"]]
  /\ UNCHANGED <<mem, file, durable, rt, up, told, faults, crashes, acked, prefixes>>

handleCreateStream(r) ==
  \E t \in Tags, s \in {"new", "keep"} : Asks(r, "create", "stream", serial + 1, t, TRUE, PreserveSecret(s, 0))

\* The saved secret is read here and written by the change.  An ID that is gone is
\* refused at once.
handleUpdateStream(r) ==
  \E i \in DOMAIN mem.items \ Recorders(mem.items), t \in Tags, on \in BOOLEAN, s \in {"new", "keep", "clear"} :
    Asks(r, "update", "stream", i, t, on, PreserveSecret(s, mem.items[i].secret))

handleDeleteStream(r) ==
  \E i \in DOMAIN mem.items \ Recorders(mem.items) : Asks(r, "delete", "stream", i, None, FALSE, 0)

handleCreateRecorder(r) ==
  \E t \in Tags, s \in {"new", "keep"} : Asks(r, "create", "recorder", serial + 1, t, TRUE, PreserveSecret(s, 0))

handleUpdateRecorder(r) ==
  \E i \in Recorders(mem.items), t \in Tags, on \in BOOLEAN, s \in {"new", "keep", "clear"} :
    Asks(r, "update", "recorder", i, t, on, PreserveSecret(s, mem.items[i].secret))

handleDeleteRecorder(r) ==
  \E i \in Recorders(mem.items) : Asks(r, "delete", "recorder", i, None, FALSE, 0)

\* preserveHiddenSettings does for the settings what preserveSecret does for an item.
handleAPISettings(r) ==
  \E s \in {"new", "keep", "clear"} : Asks(r, "settings", None, None, None, FALSE, PreserveSecret(s, mem.secret))

handleAPIRegenerateKey(r) == Asks(r, "key", None, None, None, FALSE, PreserveSecret("new", 0))

Arrive(r) ==
  \/ handleCreateStream(r) \/ handleUpdateStream(r) \/ handleDeleteStream(r)
  \/ handleCreateRecorder(r) \/ handleUpdateRecorder(r) \/ handleDeleteRecorder(r)
  \/ handleAPISettings(r) \/ handleAPIRegenerateKey(r)

\* What a request makes of an item.  UpdateRecorder keeps the prefix, whatever the
\* name becomes.
Made(q, prefix) == [kind |-> q.kind, on |-> q.on, tag |-> q.tag, secret |-> q.secret, prefix |-> prefix]
Kept(q) == mem.items[q.id].prefix

Applies(r, op, kind) ==
  /\ req[r].pc = "apply" /\ req[r].op = op /\ req[r].kind = kind
  /\ UNCHANGED <<rt, up, told, serial, crashes, acked>>

There(r)    == req[r].id \in DOMAIN mem.items
With(items) == [mem EXCEPT !.items = items, !.ver = @ + 1]

AddStream(r) ==
  Applies(r, "create", "stream") /\ Change(r, With(Put(mem.items, req[r].id, Made(req[r], None))))

UpdateStream(r) ==
  /\ Applies(r, "update", "stream") /\ There(r)
  /\ Change(r, With(Put(mem.items, req[r].id, Made(req[r], None))))

RemoveStream(r) ==
  Applies(r, "delete", "stream") /\ There(r) /\ Change(r, With(Drop(mem.items, req[r].id)))

AddRecorder(r) ==
  /\ Applies(r, "create", "recorder")
  /\ Change(r, With(Assigned(Put(mem.items, req[r].id, Made(req[r], None)))))

UpdateRecorder(r) ==
  /\ Applies(r, "update", "recorder") /\ There(r)
  /\ Change(r, With(Assigned(Put(mem.items, req[r].id, Made(req[r], Kept(req[r]))))))

RemoveRecorder(r) ==
  Applies(r, "delete", "recorder") /\ There(r) /\ Change(r, With(Drop(mem.items, req[r].id)))

ApplySettings(r) ==
  Applies(r, "settings", None) /\ Change(r, [mem EXCEPT !.secret = req[r].secret, !.ver = @ + 1])

SetRecordingAPIKey(r) ==
  Applies(r, "key", None) /\ Change(r, [mem EXCEPT !.key = req[r].secret, !.ver = @ + 1])

\* The ID is gone by now.
NotFound(r) ==
  /\ req[r].pc = "apply" /\ req[r].op \in {"update", "delete"} /\ ~There(r)
  /\ Applies(r, req[r].op, req[r].kind)
  /\ req' = [req EXCEPT ![r].pc = "answer", ![r].res = "failed"]
  /\ UNCHANGED <<mem, file, durable, faults, prefixes>>

Apply(r) ==
  \/ AddStream(r) \/ UpdateStream(r) \/ RemoveStream(r) \/ AddRecorder(r) \/ UpdateRecorder(r) \/ RemoveRecorder(r)
  \/ ApplySettings(r) \/ SetRecordingAPIKey(r) \/ NotFound(r)

\* handleDeleteStream stops the stream before it removes it; RestartStream stops it
\* and leaves a goroutine that starts it again later.
StopStream(r) ==
  LET q == req[r]
  IN /\ \/ q.pc = "stop"
        \/ q.pc = "runtime" /\ q.kind = "stream" /\ q.op = "update"
     /\ rt' = Drop(rt, q.id)
     /\ req' = [req EXCEPT ![r].pc = IF q.pc = "stop" THEN "apply" ELSE "answer"]
     /\ UNCHANGED <<mem, file, durable, up, told, serial, faults, crashes, acked, prefixes>>

\* startStream reads the configuration ...
ReadStream(r) ==
  LET q == req[r]
      found == q.id \in DOMAIN mem.items /\ mem.items[q.id].on
      started == [q EXCEPT !.pc = IF q.pc = "delay" THEN "restart" ELSE "start", !.item = mem.items[q.id]]
  IN /\ \/ q.pc = "delay"
        \/ q.pc = "runtime" /\ q.kind = "stream" /\ q.op = "create"
     /\ req' = [req EXCEPT ![r] = CASE found -> started
                                    [] ~found /\ q.pc = "delay" -> Idle
                                    [] ~found /\ q.pc # "delay" -> [q EXCEPT !.pc = "answer"]]
     /\ UNCHANGED <<mem, file, durable, rt, up, told, serial, faults, crashes, acked, prefixes>>

\* ... and hands it to the stream manager, which leaves a stream that runs alone.
StartStream(r) ==
  LET q == req[r]
  IN /\ q.pc \in {"start", "restart"}
     /\ rt' = IF q.id \in DOMAIN rt THEN rt ELSE Put(rt, q.id, q.item)
     /\ req' = [req EXCEPT ![r] = IF q.pc = "start" THEN [q EXCEPT !.pc = "answer"] ELSE Idle]
     /\ UNCHANGED <<mem, file, durable, up, told, serial, faults, crashes, acked, prefixes>>

\* The recording manager adds, updates or removes a recorder.  It cannot update one it
\* does not have, and it may fail to store the upload credentials; a removal never
\* changes the answer.
ChangeRecorder(r) ==
  LET q == req[r]
      has == q.id \in DOMAIN rt
  IN /\ q.pc = "runtime" /\ q.kind = "recorder"
     /\ rt' = CASE q.op = "delete" -> Drop(rt, q.id)
                [] q.op = "create" \/ has -> Put(rt, q.id, q.item)
                [] OTHER -> rt
     /\ \E res \in (IF q.op = "update" THEN {"committed"} ELSE {}) \cup (IF q.op # "update" \/ has THEN {q.res} ELSE {}) :
          req' = [req EXCEPT ![r] = [q EXCEPT !.pc = "answer", !.res = res]]
     /\ UNCHANGED <<mem, file, durable, up, told, serial, faults, crashes, acked, prefixes>>

\* broadcastConfigChanged goes out for every change that is in the file: writeConfigError
\* sends it too.
Announces(q) == q.res \in {"ok", "committed"}

\* The broadcast, and the answer: success for a change that is done, an error or a
\* warning otherwise.
Answer(r) ==
  LET q == req[r]
  IN /\ q.pc = "answer"
     /\ told' = IF Announces(q) THEN mem.ver ELSE told
     /\ acked' = IF q.res = "ok" /\ q.ver > acked THEN q.ver ELSE acked
     /\ req' = [req EXCEPT ![r] = IF q.op = "update" /\ q.kind = "stream" /\ q.item # None /\ q.res = "ok"
                                  THEN [q EXCEPT !.pc = "delay"] ELSE Idle]
     /\ UNCHANGED <<mem, file, durable, rt, up, serial, faults, crashes, prefixes>>

-------------------------------------------------------------------------------
(* Restart                                                                 *)

\* The service is killed, and the power may fail with it.
Crash ==
  /\ up /\ crashes < MaxCrashes
  /\ up' = FALSE /\ crashes' = crashes + 1
  /\ \/ UNCHANGED <<file, durable>>
     \/ \E f \in durable : file' = f /\ durable' = {f}
  /\ req' = [r \in Handlers |-> Idle] /\ rt' = [i \in {} |-> None]
  /\ UNCHANGED <<mem, told, serial, faults, acked, prefixes>>

\* Load gives a recorder of an older file its prefix and tries to save it; a failure is
\* only logged.  Recorders and enabled streams of what was read then start.
Load ==
  LET new == [file EXCEPT !.items = Assigned(file.items)]
  IN /\ ~up /\ up' = TRUE
     /\ mem' = new /\ told' = new.ver
     /\ IF new = file THEN UNCHANGED <<file, durable, faults>>
        ELSE \E res \in Outcomes : Renamed(new, res) /\ CountFault(res)
     /\ rt' = [i \in {j \in DOMAIN new.items : new.items[j].kind = "recorder" \/ new.items[j].on} |-> new.items[i]]
     /\ prefixes' = Seen(prefixes, new.items)
     /\ UNCHANGED <<req, serial, crashes, acked>>

\* A configuration of an earlier release has a recorder and no prefixes.
Init ==
  /\ \E old \in BOOLEAN :
       file = [items |-> [i \in IF old THEN {0} ELSE {} |->
                            [kind |-> "recorder", on |-> TRUE, tag |-> CHOOSE t \in Alike : TRUE, secret |-> 0,
                             prefix |-> None]],
               secret |-> 0, key |-> 0, ver |-> 0]
  /\ mem = file /\ durable = {file}
  /\ req = [r \in Handlers |-> Idle] /\ rt = [i \in {} |-> None]
  /\ up = FALSE /\ told = 0 /\ serial = 0 /\ faults = 0 /\ crashes = 0 /\ acked = 0
  /\ prefixes = [i \in 0..MaxRequests |-> {}]

Handle(r) ==
  \/ Arrive(r) \/ Apply(r) \/ StopStream(r) \/ ReadStream(r) \/ StartStream(r) \/ ChangeRecorder(r) \/ Answer(r)

Next == (\E r \in Handlers : Handle(r)) \/ Crash \/ Load

Spec == Init /\ [][Next]_vars

-------------------------------------------------------------------------------
(* Properties                                                              *)

\* saveLocked, restoreUnlessCommitted: while the service runs, memory is what a restart
\* would load from config.json, whichever step of a save failed; so a restart changes
\* nothing and a refused change leaves nothing behind.
FileIsMemory == up => mem = [file EXCEPT !.items = Assigned(file.items)]

\* A request that was answered with success is in config.json, and stays there through
\* a power cut, also when a directory sync failed before it.
AckedSurvives == \A f \in durable \cup {file} : f.ver >= acked

\* README.md, "file_prefix ... is set once": a recorder keeps its prefix through
\* renames, failed saves and restarts, and no two recorders share one.
PrefixesStay ==
  /\ \A i \in DOMAIN prefixes : Cardinality(prefixes[i]) <= 1
  /\ up => \A i, j \in Recorders(mem.items) : i # j => mem.items[i].prefix # mem.items[j].prefix

\* When every request has been answered, the last config_changed was sent after the
\* last change that is in the file, confirmed or not.
ClientsTold == up /\ (\A r \in Handlers : req[r].pc \in {"idle", "delay", "restart"}) => told = mem.ver

\* encoder.go:1299, RemoveRecorder: a removed recorder must stop, "or it keeps recording
\* with no way to reach it": with no request in progress every recorder that runs is
\* configured.
RecordersReachable ==
  (\A r \in Handlers : req[r].pc = "idle") =>
    \A i \in DOMAIN rt : rt[i].kind = "recorder" => i \in DOMAIN mem.items
===============================================================================
