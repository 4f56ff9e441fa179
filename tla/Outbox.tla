-------------------------------- MODULE Outbox --------------------------------
(***************************************************************************)
(* From a reserved output file to an object in S3: the recording outbox    *)
(* (internal/recording: outbox.go, uploader.go, recorder_segment.go and    *)
(* the local retention of cleanup.go).  A recorder owns a ticket until it  *)
(* commits or fails the output; the one upload worker owns it afterwards.  *)
(* The service can be killed, the power can be cut, disk steps and S3      *)
(* calls can fail, and an S3 call can take effect after it was given up.   *)
(***************************************************************************)
EXTENDS TicketDisk

CONSTANTS
  Paths,        \* output file names; each stands for its own directory
  Modes,        \* storage modes in use: subset of {"local", "both", "s3"}
  None,         \* no file, no ticket, no object
  Foreign,      \* owner of the objects somebody else wrote
  AllowExpire,  \* conflicting objects may be removed from S3
  AllowVanish,  \* storage may lose a file
  MaxCrashes,   \* bound: kills and power cuts
  MaxFaults,    \* bound: failing disk steps and encoders
  MaxLosses     \* bound: failing S3 calls

ASSUME OutboxAssumption ==
  /\ None \notin Recs /\ Foreign \notin Recs /\ None # Foreign
  /\ None \notin Ticket
  /\ Modes \subseteq {"local", "both", "s3"}
  /\ AllowExpire \in BOOLEAN /\ AllowVanish \in BOOLEAN

VARIABLES
  vis, ent,     \* per path: whose file is there, whose entry is durable
  bytes,        \* per recording: "none", "cached" or "synced" file content
  marker,       \* per path: the .failed file is "none", "seen" or "kept"
  path, mode,   \* per ticket: Path; Dest and DeleteAfterUpload as a mode
  held,         \* the owner's copy of a ticket, as the last write left it
  idx,          \* state in the in-memory index, or "none"
  phase,        \* the recorder's side of a recording
  up, boot,     \* the service, and the tickets recovery has still to visit
  unreadable,   \* tickets a read error kept from loading
  upl,          \* the upload worker
  obj, late,    \* S3 objects, and requests given up that S3 may still apply
  crashes, faults, losses,
  audio,        \* history: recordings whose file got real audio, not only silence
  puts,         \* history: the objects the uploader ever created
  quarantined,  \* history: failures recorded durably
  gone          \* history: recordings whose file storage lost

fileVars == <<vis, ent, bytes, marker>>
tickVars == <<path, mode, held, idx, phase>>
sysVars  == <<up, boot, unreadable>>
s3Vars   == <<obj, late, puts>>
histVars == <<audio, quarantined, gone>>
vars == <<gens, imgs, fileVars, tickVars, sysVars, upl, s3Vars, histVars, crashes, faults, losses>>

IdleUpload == [pc |-> "idle", rec |-> None, aud |-> None, conflict |-> FALSE]

UploadPC == {"idle", "put", "head", "error", "lost", "delivered", "cleanup", "resave"}

Init ==
  /\ gens = [r \in Recs |-> {}] /\ imgs = [r \in Recs |-> {{}}]
  /\ vis = [p \in Paths |-> None] /\ ent = vis
  /\ bytes = [r \in Recs |-> "none"]
  /\ marker = [p \in Paths |-> "none"]
  /\ path \in [Recs -> Paths] /\ mode \in [Recs -> Modes]
  /\ held = [r \in Recs |-> None]
  /\ idx = [r \in Recs |-> "none"]
  /\ phase = [r \in Recs |-> "unborn"]
  /\ up = "running" /\ boot = {} /\ unreadable = {}
  /\ upl = IdleUpload
  /\ \E taken \in SUBSET {1} :
       obj = [k \in Keys |-> IF k \in taken THEN [id |-> Foreign, aud |-> Foreign]
                                            ELSE [id |-> None, aud |-> None]]
  /\ late = {}
  /\ crashes = 0 /\ faults = 0 /\ losses = 0
  /\ audio = {} /\ quarantined = {} /\ gone = {}
  /\ puts = {}

\* n more disk failures, or lost S3 calls, within the bound.
Spend(n) == faults + n <= MaxFaults /\ faults' = faults + n
Lose(n)  == losses + n <= MaxLosses /\ losses' = losses + n

Cost(o) == IF o = "ok" THEN 0 ELSE 1

HasDest(r) == mode[r] # "local"

\* outbox.write for the owner of ticket r, with the ticket changed to `change'.
Update(r, change, o) ==
  \E s \in 1 .. MaxSeq :
    LET new == [change EXCEPT !.seq = s] IN
    /\ Write(r, held[r], new, o)
    /\ held' = [held EXCEPT ![r] = Written(held[r], new, o)]

\* hasPath: a ticket keeps its name, also while its file is missing.
HasPath(p) == \E q \in Recs : idx[q] # "none" /\ path[q] = p

-------------------------------------------------------------------------------
(* The recorder's side: recorder_segment.go                                *)

NewTicket == [state |-> "recording", seq |-> 1, key |-> 1, mark |-> FALSE]

\* Mutated form of FreeName: only the directory is asked, not the outbox.
FreeNameOnDisk(p) == vis[p] = None

\* reserveOutput's choice of a name: no file there and no ticket.  (Names the
\* same recorder used in the last two hours are skipped too; another recorder
\* of the directory does not know them.)
FreeName(p) == vis[p] = None /\ ~HasPath(p)

(***************************************************************************)
(* reserveRecordingOutput under reserveOutput's directory lock: create the *)
(* file, save the destination and sync the directory ("nodir" when one of  *)
(* them fails), write the ticket.  A failure removes the file again, not   *)
(* a generation whose directory sync failed.                               *)
(***************************************************************************)
Reserve(r, o) ==
  LET p == path[r] IN
  /\ up = "running" /\ phase[r] = "unborn" /\ FreeName(p)
  /\ Spend(Cost(o))
  /\ IF o = "nodir" THEN UNCHANGED <<gens, imgs, ent>>
     ELSE /\ Write(r, [NewTicket EXCEPT !.seq = 0], NewTicket, o)
          /\ ent' = [ent EXCEPT ![p] = r]
  /\ IF o = "ok"
     THEN /\ vis'   = [vis EXCEPT ![p] = r]
          /\ held'  = [held EXCEPT ![r] = NewTicket]
          /\ idx'   = [idx EXCEPT ![r] = "recording"]
          /\ phase' = [phase EXCEPT ![r] = "reserved"]
     ELSE /\ phase' = [phase EXCEPT ![r] = "done"]
          /\ UNCHANGED <<vis, held, idx>>
  /\ UNCHANGED <<bytes, marker, path, mode, sysVars, upl, s3Vars, histVars, crashes, losses>>

\* The loop takes the segment: capture writes to it from now on.
Begin(r) ==
  /\ up = "running" /\ phase[r] = "reserved"
  /\ phase' = [phase EXCEPT ![r] = "recording"]
  /\ UNCHANGED <<gens, imgs, fileVars, path, mode, held, idx, sysVars, upl, s3Vars,
                 histVars, crashes, faults, losses>>

\* FFmpeg writes its first packets: real audio, or only filled-in silence.
Encode(r, real) ==
  /\ up = "running" /\ phase[r] = "recording" /\ bytes[r] = "none"
  /\ bytes' = [bytes EXCEPT ![r] = "cached"]
  /\ audio' = IF real THEN audio \cup {r} ELSE audio
  /\ UNCHANGED <<gens, imgs, vis, ent, marker, tickVars, sysVars, upl, s3Vars,
                 quarantined, gone, crashes, faults, losses>>

\* sync, every 30 s: make the bytes durable, then record that there are some.
\* The write of the watermark may fail without anyone hearing of it.
Sync(r, o) ==
  /\ up = "running" /\ phase[r] = "recording" /\ bytes[r] = "cached"
  /\ Spend(Cost(o))
  /\ bytes' = [bytes EXCEPT ![r] = "synced"]
  /\ Update(r, [held[r] EXCEPT !.mark = TRUE], o)
  /\ UNCHANGED <<vis, ent, marker, path, mode, idx, phase, sysVars, upl, s3Vars,
                 histVars, crashes, losses>>

\* release: the path still names the file this recorder created.
Owned(r) == vis[path[r]] = r

\* Mutated form of EmptyOutput: a failed encoder's output counts as empty.
EmptyIfFailed(r, cause) == cause \/ r \notin audio

\* Silence alone is not a recording; a failed encoder may have written audio
\* nobody counted, so then only an empty file is empty.
EmptyOutput(r, cause) == IF cause THEN bytes[r] = "none" ELSE r \notin audio

ClearTicket(r) ==
  /\ held'   = [held EXCEPT ![r] = None]
  /\ idx'    = [idx EXCEPT ![r] = "none"]
  /\ marker' = [marker EXCEPT ![path[r]] = "none"]

\* recordingOutput.remove: the file, then the ticket.  "nofile": the file
\* could not be removed.  Whatever fails, the caller quarantines the output.
RemoveOutput(r, o, cause) ==
  /\ Spend(Cost(o) + IF cause THEN 1 ELSE 0)
  /\ IF o = "nofile" THEN UNCHANGED <<gens, imgs, vis>>
     ELSE RemoveFiles(r, o) /\ vis' = [vis EXCEPT ![path[r]] = None]
  /\ IF o = "ok"
     THEN ClearTicket(r) /\ phase' = [phase EXCEPT ![r] = "done"]
     ELSE phase' = [phase EXCEPT ![r] = "failing"] /\ UNCHANGED <<held, idx, marker>>
  /\ UNCHANGED <<ent, bytes>>

\* discard: FFmpeg did not start, or the loop no longer wants the segment.
Discard(r, o) ==
  /\ up = "running" /\ phase[r] = "reserved"
  /\ \/ Owned(r) /\ RemoveOutput(r, o, FALSE)
     \/ /\ ~Owned(r) /\ o # "nofile"
        /\ Spend(Cost(o))
        /\ RemoveFiles(r, o)
        /\ IF o = "ok" THEN ClearTicket(r) ELSE UNCHANGED <<held, idx, marker>>
        /\ phase' = [phase EXCEPT ![r] = "done"]
        /\ UNCHANGED <<vis, ent, bytes>>
  /\ UNCHANGED <<path, mode, sysVars, upl, s3Vars, histVars, crashes, losses>>

\* finishOutput of an output without audio.
FinishEmpty(r, cause, o) ==
  /\ up = "running" /\ phase[r] = "recording"
  /\ Owned(r) /\ EmptyOutput(r, cause)
  /\ RemoveOutput(r, o, cause)
  /\ UNCHANGED <<path, mode, sysVars, upl, s3Vars, histVars, crashes, losses>>

\* finishOutput of an output that must not be delivered: the encoder or the
\* final fsync failed, or the file is not this recorder's any more.
FinishBad(r, cause) ==
  /\ up = "running" /\ phase[r] = "recording"
  /\ cause \/ ~Owned(r)
  /\ ~(Owned(r) /\ EmptyOutput(r, cause))
  /\ Spend(IF cause THEN 1 ELSE 0)
  /\ phase' = [phase EXCEPT ![r] = "failing"]
  /\ UNCHANGED <<gens, imgs, fileVars, path, mode, held, idx, sysVars, upl, s3Vars,
                 histVars, crashes, losses>>

\* outbox.fail: the ticket, or else a marker next to the file ("seen": its
\* directory could not be synced); the state applies in memory in any case.
Fail(r, o, mk) ==
  /\ up = "running" /\ phase[r] = "failing"
  /\ (o = "ok") => mk = "none"
  /\ Spend(Cost(o) + IF o # "ok" /\ mk # "kept" THEN 1 ELSE 0)
  /\ Update(r, [held[r] EXCEPT !.state = "failed"], o)
  /\ marker' = IF mk = "none" THEN marker ELSE [marker EXCEPT ![path[r]] = mk]
  /\ idx'   = [idx EXCEPT ![r] = "failed"]
  /\ phase' = [phase EXCEPT ![r] = "done"]
  /\ quarantined' = IF o = "ok" \/ mk = "kept" THEN quarantined \cup {r} ELSE quarantined
  /\ UNCHANGED <<vis, ent, bytes, path, mode, sysVars, upl, s3Vars, audio, gone, crashes, losses>>

\* Mutated form of FinalSync: the recording is handed on without it.
NoFinalSync(r) == bytes

\* The fsync of finishEncoder, before the output is handed on.
FinalSync(r) == [bytes EXCEPT ![r] = "synced"]

\* finishOutput of a good output, after the final fsync: commit.  In local-only
\* mode the ticket goes; otherwise it is ready, in memory also when its write
\* failed.
FinishCommit(r, o) ==
  /\ up = "running" /\ phase[r] = "recording"
  /\ Owned(r) /\ ~EmptyOutput(r, FALSE)
  /\ Spend(Cost(o))
  /\ bytes' = FinalSync(r)
  /\ phase' = [phase EXCEPT ![r] = "done"]
  /\ \/ /\ ~HasDest(r) /\ o \in RemoveOutcomes
        /\ RemoveFiles(r, o)
        /\ IF o = "ok" THEN ClearTicket(r) ELSE UNCHANGED <<held, idx, marker>>
     \/ /\ HasDest(r) /\ o \in WriteOutcomes
        /\ Update(r, [held[r] EXCEPT !.state = "ready"], o)
        /\ idx' = [idx EXCEPT ![r] = "ready"]
        /\ UNCHANGED marker
  /\ UNCHANGED <<vis, ent, path, mode, sysVars, upl, s3Vars, histVars, crashes, losses>>

-------------------------------------------------------------------------------
(* The upload worker: uploader.go                                          *)

\* update of the worker's ticket; save also publishes a state it cannot write.
Save(r, change, o) ==
  /\ Spend(Cost(o))
  /\ Update(r, change, o)
  /\ idx' = [idx EXCEPT ![r] = change.state]

\* What openRecording finds at the path decides how the upload goes on.
OpenAs(r) ==
  LET f == vis[path[r]] IN
  IF f = None THEN "head"
  ELSE IF marker[path[r]] # "none" THEN "error"
  ELSE IF bytes[f] = "none" THEN "lost" ELSE "put"

\* Mutated form of Due: a delivered ticket whose clean-up failed is forgotten.
DueForUpload(r) == idx[r] = "ready"

\* nextDue: what the worker has work for.
Due(r) == idx[r] \in {"ready", "delivered"}

\* deliver: take a due ticket; process and the opening of the file in upload.
\* A retry writes a generation, so MaxSeq also bounds how often one is taken.
TakeDue(r, destOK) ==
  /\ up = "running" /\ upl.pc = "idle" /\ Due(r)
  /\ \/ /\ idx[r] = "delivered" /\ destOK
        /\ upl' = [IdleUpload EXCEPT !.pc = "cleanup", !.rec = r]
     \/ /\ idx[r] = "ready" /\ held[r].seq + MaxKey + 2 <= MaxSeq
        /\ upl' = [IdleUpload EXCEPT !.pc = IF destOK THEN OpenAs(r) ELSE "error",
                                     !.rec = r, !.aud = vis[path[r]]]
  /\ Spend(IF destOK THEN 0 ELSE 1)
  /\ UNCHANGED <<gens, imgs, fileVars, tickVars, sysVars, s3Vars, histVars, crashes, losses>>

Object(r, a) == [id |-> r, aud |-> a]
FreeKey(k)   == obj[k].id = None
InFlight(k)  == \E l \in late : l.key = k

\* If-None-Match: * - only a free key takes the object (S3's side).
Commit(r, k, a) ==
  /\ FreeKey(k)
  /\ obj'  = [obj EXCEPT ![k] = Object(r, a)]
  /\ puts' = puts \cup {[id |-> r, key |-> k, aud |-> a]}

PutOutcomes == {"ok", "lostreply", "pending", "dropped", "taken"}

\* UploadObject under the ticket's key.  The reply can be lost, and a request
\* given up may be applied later; "taken" is a 412, or a 409 while another
\* conditional write to the key is in progress.
Put(o) ==
  LET r == upl.rec  k == held[r].key IN
  /\ up = "running" /\ upl.pc = "put"
  /\ \/ o \in {"ok", "lostreply"} /\ Commit(r, k, upl.aud) /\ UNCHANGED late
     \/ /\ o = "pending"
        /\ late' = late \cup {[rec |-> r, key |-> k, aud |-> upl.aud]}
        /\ UNCHANGED <<obj, puts>>
     \/ o = "dropped" /\ UNCHANGED s3Vars
     \/ o = "taken" /\ (~FreeKey(k) \/ InFlight(k)) /\ UNCHANGED s3Vars
  /\ upl' = [upl EXCEPT !.pc = IF o = "ok" THEN "delivered" ELSE "head",
                        !.conflict = (o = "taken")]
  /\ Lose(IF o = "ok" \/ (o = "taken" /\ ~FreeKey(k)) THEN 0 ELSE 1)
  /\ UNCHANGED <<gens, imgs, fileVars, tickVars, sysVars, histVars, crashes, faults>>

\* Mutated form of Ours: the answer of HEAD is not compared with the ticket ID.
NeverOurs(r) == FALSE

\* HeadObject after a failed upload, or instead of one when the file is gone:
\* an object with this ticket's ID is a delivery.
Ours(r) == obj[held[r].key].id = r

HeadDone(pc) ==
  /\ upl' = [upl EXCEPT !.pc = pc]
  /\ UNCHANGED <<gens, imgs, held, idx>>

\* Mutated forms of KeyAfterFailure: one suffix too far back; the new key kept.
KeyTooFarBack(r) == held[r].key - 1
KeyNotReverted(r) == held[r].key + 1

\* The key the worker goes back to when the next one could not be persisted.
KeyAfterFailure(r) == held[r].key

\* A taken key: move on to the next suffix, but only once it is persisted.
NextKey(r, o) ==
  LET change == [held[r] EXCEPT !.key = @ + 1] IN
  /\ held[r].key < MaxKey
  /\ \E s \in 1 .. MaxSeq :
       LET new == [change EXCEPT !.seq = s] IN
       /\ Write(r, held[r], new, o)
       /\ held' = [held EXCEPT ![r] =
                     IF o = "ok" THEN new
                     ELSE [Written(held[r], new, o) EXCEPT !.key = KeyAfterFailure(r)]]
  /\ upl' = [upl EXCEPT !.pc = IF o = "ok" THEN "put" ELSE "error"]
  /\ UNCHANGED idx

Head(reply, o) ==
  LET r == upl.rec  k == held[r].key IN
  /\ up = "running" /\ upl.pc = "head"
  /\ \/ /\ ~reply /\ o = "ok" /\ HeadDone("error")
     \/ /\ reply /\ Ours(r) /\ o = "ok" /\ HeadDone("delivered")
     \/ /\ reply /\ ~Ours(r) /\ o = "ok"
        /\ FreeKey(k) \/ ~upl.conflict \/ k = MaxKey
        /\ HeadDone("error")
     \/ reply /\ ~Ours(r) /\ ~FreeKey(k) /\ upl.conflict /\ NextKey(r, o)
  /\ Spend(Cost(o)) /\ Lose(IF reply THEN 0 ELSE 1)
  /\ UNCHANGED <<fileVars, path, mode, phase, sysVars, s3Vars, histVars, crashes>>

\* process, after upload returned.
Finished(pc, state, next, o) ==
  LET r == upl.rec IN
  /\ up = "running" /\ upl.pc = pc
  /\ Save(r, [held[r] EXCEPT !.state = state], o)
  /\ upl' = IF next = "idle" THEN IdleUpload ELSE [upl EXCEPT !.pc = next]
  /\ UNCHANGED <<fileVars, path, mode, phase, sysVars, s3Vars, histVars, crashes, losses>>

UploadDelivered(o) == Finished("delivered", "delivered", "cleanup", o)
UploadLost(o)      == Finished("lost", "lost", "idle", o)
UploadFailed(o)    == Finished("error", "ready", "idle", o)
CleanupFailed(o)   == Finished("resave", "delivered", "idle", o)

CleanupOutcomes == RemoveOutcomes \cup {"nofile", "nodir"}

\* cleanup of a delivered recording: the spool copy of S3-only mode and its
\* directory entry, then the ticket.  Any failure is retried later.
Cleanup(o) ==
  LET r == upl.rec  p == path[r] IN
  /\ up = "running" /\ upl.pc = "cleanup"
  /\ (mode[r] # "s3") => o \notin {"nofile", "nodir"}
  /\ Spend(Cost(o))
  /\ vis' = IF mode[r] = "s3" /\ o # "nofile" THEN [vis EXCEPT ![p] = None] ELSE vis
  /\ ent' = IF mode[r] = "s3" /\ o \notin {"nofile", "nodir"} THEN [ent EXCEPT ![p] = None]
                                                              ELSE ent
  /\ IF o \in RemoveOutcomes THEN RemoveFiles(r, o) ELSE UNCHANGED <<gens, imgs>>
  /\ IF o = "ok" THEN ClearTicket(r) ELSE UNCHANGED <<held, idx, marker>>
  /\ upl' = IF o = "ok" THEN IdleUpload ELSE [upl EXCEPT !.pc = "resave"]
  /\ UNCHANGED <<bytes, path, mode, phase, sysVars, s3Vars, histVars, crashes, losses>>

\* cleanupLocalFiles: an expired file no ticket owns; not while a ticket is
\* unreadable.
Retention(p) ==
  /\ up = "running" /\ unreadable = {}
  /\ vis[p] # None /\ ~HasPath(p) /\ phase[vis[p]] = "done"
  /\ vis' = [vis EXCEPT ![p] = None]
  /\ UNCHANGED <<gens, imgs, ent, bytes, marker, tickVars, sysVars, upl, s3Vars,
                 histVars, crashes, faults, losses>>

-------------------------------------------------------------------------------
(* S3 and storage on their own                                             *)

\* A request the client gave up is applied after all, or is not.
LateReply(l, applied) ==
  /\ late' = late \ {l}
  /\ IF applied THEN Commit(l.rec, l.key, l.aud) ELSE UNCHANGED <<obj, puts>>
  /\ UNCHANGED <<gens, imgs, fileVars, tickVars, sysVars, upl, histVars, crashes, faults, losses>>

\* S3 retention, or somebody, removes an object no ticket here stands for; it
\* outlives the requests under way.
Expire(k) ==
  /\ AllowExpire /\ late = {} /\ upl.pc = "idle"
  /\ obj[k].id # None /\ (obj[k].id \in Recs => gens[obj[k].id] = {})
  /\ obj' = [obj EXCEPT ![k] = Object(None, None)]
  /\ UNCHANGED <<gens, imgs, fileVars, tickVars, sysVars, upl, late, puts, histVars,
                 crashes, faults, losses>>

\* A file disappears: a share that lost it, an operator who removed it.
Vanish(p) ==
  /\ AllowVanish /\ vis[p] # None
  /\ vis'  = [vis EXCEPT ![p] = None]
  /\ ent'  = [ent EXCEPT ![p] = None]
  /\ gone' = gone \cup {vis[p]}
  /\ UNCHANGED <<gens, imgs, bytes, marker, tickVars, sysVars, upl, s3Vars, audio,
                 quarantined, crashes, faults, losses>>

-------------------------------------------------------------------------------
(* Crashes and recovery: openOutbox                                        *)

\* Everything in memory is lost.
Stopped ==
  /\ crashes < MaxCrashes /\ crashes' = crashes + 1
  /\ up' = "down" /\ boot' = {} /\ unreadable' = {}
  /\ held' = [r \in Recs |-> None] /\ idx' = [r \in Recs |-> "none"]
  /\ phase' = [r \in Recs |-> IF phase[r] = "unborn" THEN "unborn" ELSE "done"]
  /\ upl' = IdleUpload
  /\ UNCHANGED <<path, mode, s3Vars, quarantined, gone, faults, losses>>

\* A crash in writeSynced leaves a generation that does not parse.
Torn(r) == [state |-> "torn", seq |-> held[r].seq + 1, key |-> held[r].key, mark |-> held[r].mark]

\* The service dies, at most one of its writes torn; the kernel keeps the rest.
Kill(torn) ==
  /\ up # "down" /\ Stopped
  /\ \A r \in torn : held[r] # None /\ \A g \in gens[r] : g.seq # held[r].seq + 1
  /\ gens' = [r \in Recs |-> IF r \in torn THEN gens[r] \cup {Torn(r)} ELSE gens[r]]
  /\ imgs' = [r \in Recs |-> imgs[r] \cup {gens'[r]}]
  /\ UNCHANGED <<fileVars, audio>>

\* The power fails.  The outbox is left as G; P and M are the paths whose
\* entry and marker go back to what was synced, L the recordings whose unsynced
\* data is lost.
PowerCut(G, P, M, L) ==
  /\ Stopped
  /\ gens'  = G
  /\ imgs'  = [r \in Recs |-> {G[r]}]
  /\ vis'   = [p \in Paths |-> IF p \in P THEN ent[p] ELSE vis[p]]
  /\ ent'   = vis'
  /\ marker' = [p \in Paths |-> IF p \in M THEN "none"
                                ELSE IF marker[p] = "seen" THEN "kept" ELSE marker[p]]
  /\ bytes' = [r \in Recs |-> IF r \in L THEN "none"
                              ELSE IF bytes[r] = "cached" THEN "synced" ELSE bytes[r]]
  /\ audio' = audio \ L

Crash ==
  \/ \E torn \in {{}} \cup {{r} : r \in Recs} : Kill(torn)
  \/ \E G \in {F \in [Recs -> UNION {Leaves(r) : r \in Recs}] : \A r \in Recs : F[r] \in Leaves(r)},
        P \in SUBSET {p \in Paths : vis[p] # ent[p]},
        M \in SUBSET {p \in Paths : marker[p] = "seen"},
        L \in SUBSET {r \in Recs : bytes[r] = "cached"} : PowerCut(G, P, M, L)

\* load, then the service recovers ticket by ticket.  When the directory
\* cannot be synced openOutbox fails and recording waits for another start.
Load(bad, synced) ==
  /\ up = "down"
  /\ bad \subseteq {r \in Recs : gens[r] # {}}
  /\ Spend(Cardinality(bad) + IF synced THEN 0 ELSE 1)
  /\ LoadFiles(bad, synced)
  /\ IF synced
     THEN /\ up' = "booting" /\ unreadable' = bad
          /\ boot' = {r \in Recs \ bad : Newest(gens[r]) # {}}
          /\ held' = [r \in Recs |-> IF r \in boot' THEN CHOOSE g \in Newest(gens[r]) : TRUE
                                                    ELSE None]
     ELSE UNCHANGED <<up, unreadable, boot, held>>
  /\ UNCHANGED <<fileVars, path, mode, idx, phase, upl, s3Vars, histVars, crashes, losses>>

Visit(r) == up = "booting" /\ r \in boot /\ boot' = boot \ {r}

\* The ticket stays as it was loaded.
RecoverKeep(r) ==
  /\ idx' = [idx EXCEPT ![r] = held[r].state]
  /\ UNCHANGED <<gens, imgs, held, vis, marker>>

\* persistRecovered: the new state applies in memory if it cannot be written.
RecoverAs(r, state, o) ==
  /\ Save(r, [held[r] EXCEPT !.state = state], o)
  /\ UNCHANGED <<vis, marker>>

\* dropRecovered: a ticket that cannot be removed is kept for the next start.
RecoverDrop(r, o) ==
  /\ Spend(Cost(o))
  /\ RemoveFiles(r, o)
  /\ IF o = "ok" THEN ClearTicket(r)
     ELSE idx' = [idx EXCEPT ![r] = held[r].state] /\ UNCHANGED <<held, marker>>

Interrupted(r) == held[r].state \in {"recording", "lost"} /\ marker[path[r]] = "none"

\* recover: settled states stay, a marker is a failure whose write was lost,
\* a ready ticket is the uploader's to verify.
RecoverSettled(r, o) ==
  /\ Visit(r) /\ ~Interrupted(r)
  /\ \/ /\ held[r].state \in {"delivered", "failed"} \/ marker[path[r]] = "none"
        /\ o = "ok" /\ Spend(0) /\ RecoverKeep(r)
     \/ /\ held[r].state \in {"recording", "ready", "lost"} /\ marker[path[r]] # "none"
        /\ RecoverAs(r, "failed", o)
  /\ UNCHANGED <<ent, bytes, path, mode, phase, up, unreadable, upl, s3Vars, histVars, crashes, losses>>

\* recoverInterrupted with nothing to recover from: storage cannot be
\* checked, the file is missing, or it is empty.
RecoverWithoutAudio(r, avail, o) ==
  LET f == vis[path[r]] IN
  /\ Visit(r) /\ Interrupted(r)
  /\ \/ /\ ~avail /\ o = "ok" /\ Spend(1) /\ RecoverKeep(r)
     \/ avail /\ f = None /\ HasDest(r) /\ RecoverAs(r, "ready", o)
     \/ avail /\ f = None /\ ~HasDest(r) /\ o = "ok" /\ Spend(0) /\ RecoverKeep(r)
     \/ /\ avail /\ f # None /\ bytes[f] = "none" /\ ~held[r].mark
        /\ RecoverDrop(r, o)
        /\ vis' = [vis EXCEPT ![path[r]] = None]
     \/ avail /\ f # None /\ bytes[f] = "none" /\ held[r].mark /\ RecoverAs(r, "lost", o)
  /\ UNCHANGED <<ent, bytes, path, mode, phase, up, unreadable, upl, s3Vars, histVars, crashes, losses>>

\* recoverInterrupted of a file with content: sync it, hand it on.
RecoverAudio(r, o) ==
  LET f == vis[path[r]] IN
  /\ Visit(r) /\ Interrupted(r)
  /\ f # None /\ bytes[f] # "none"
  /\ bytes' = [bytes EXCEPT ![f] = "synced"]
  /\ \/ ~HasDest(r) /\ RecoverDrop(r, o) /\ UNCHANGED vis
     \/ HasDest(r) /\ RecoverAs(r, "ready", o)
  /\ UNCHANGED <<ent, path, mode, phase, up, unreadable, upl, s3Vars, histVars, crashes, losses>>

\* Every ticket is indexed: the manager starts its recorders and the uploads.
Serve ==
  /\ up = "booting" /\ boot = {}
  /\ up' = "running"
  /\ UNCHANGED <<gens, imgs, fileVars, tickVars, boot, unreadable, upl, s3Vars, histVars,
                 crashes, faults, losses>>

-------------------------------------------------------------------------------
RecorderNext ==
  \E r \in Recs :
    \/ \E o \in WriteOutcomes \cup {"nodir"} : Reserve(r, o)
    \/ Begin(r)
    \/ \E real \in BOOLEAN : Encode(r, real)
    \/ \E o \in WriteOutcomes : Sync(r, o)
    \/ \E o \in RemoveOutcomes \cup {"nofile"} : Discard(r, o)
    \/ \E cause \in BOOLEAN, o \in RemoveOutcomes \cup {"nofile"} : FinishEmpty(r, cause, o)
    \/ \E cause \in BOOLEAN : FinishBad(r, cause)
    \/ \E o \in WriteOutcomes, mk \in {"none", "seen", "kept"} : Fail(r, o, mk)
    \/ \E o \in WriteOutcomes \cup RemoveOutcomes : FinishCommit(r, o)

UploaderNext ==
  \/ \E r \in Recs, destOK \in BOOLEAN : TakeDue(r, destOK)
  \/ \E o \in PutOutcomes : Put(o)
  \/ \E reply \in BOOLEAN, o \in WriteOutcomes : Head(reply, o)
  \/ \E o \in WriteOutcomes :
       UploadDelivered(o) \/ UploadLost(o) \/ UploadFailed(o) \/ CleanupFailed(o)
  \/ \E o \in CleanupOutcomes : Cleanup(o)

RecoveryNext ==
  \/ \E bad \in SUBSET Recs, synced \in BOOLEAN : Load(bad, synced)
  \/ \E r \in Recs, o \in WriteOutcomes : RecoverSettled(r, o)
  \/ \E r \in Recs, avail \in BOOLEAN, o \in WriteOutcomes \cup RemoveOutcomes :
       RecoverWithoutAudio(r, avail, o)
  \/ \E r \in Recs, o \in WriteOutcomes \cup RemoveOutcomes : RecoverAudio(r, o)
  \/ Serve

EnvironmentNext ==
  \/ \E l \in late, applied \in BOOLEAN : LateReply(l, applied)
  \/ \E k \in Keys : Expire(k)
  \/ \E p \in Paths : Vanish(p) \/ Retention(p)
  \/ Crash

Next == RecorderNext \/ UploaderNext \/ RecoveryNext \/ EnvironmentNext

Spec == Init /\ [][Next]_vars

\* The worker goroutine and a started recovery keep going, and the service is
\* started again after a crash (systemd Restart=always).
Fairness == WF_vars(UploaderNext) /\ WF_vars(RecoveryNext)

FairSpec == Spec /\ Fairness

-------------------------------------------------------------------------------
(* Properties                                                              *)

\* The recording's audio is, or was, in S3.
Stored(r) == \E x \in puts : x.aud = r

DiskTyped ==
  gens \in [Recs -> SUBSET Generation] /\ imgs \in [Recs -> SUBSET SUBSET Generation]

FileTyped ==
  /\ vis \in [Paths -> Recs \cup {None}] /\ ent \in [Paths -> Recs \cup {None}]
  /\ bytes \in [Recs -> {"none", "cached", "synced"}]
  /\ marker \in [Paths -> {"none", "seen", "kept"}]

TicketTyped ==
  /\ path \in [Recs -> Paths] /\ mode \in [Recs -> Modes]
  /\ held \in [Recs -> Ticket \cup {None}]
  /\ idx \in [Recs -> States \cup {"none"}]
  /\ phase \in [Recs -> {"unborn", "reserved", "recording", "failing", "done"}]

ServiceTyped ==
  /\ up \in {"down", "booting", "running"} /\ boot \subseteq Recs /\ unreadable \subseteq Recs
  /\ upl \in [pc : UploadPC, rec : Recs \cup {None}, aud : Recs \cup {None}, conflict : BOOLEAN]

S3Typed ==
  /\ obj \in [Keys -> [id : Recs \cup {None, Foreign}, aud : Recs \cup {None, Foreign}]]
  /\ late \subseteq [rec : Recs, key : Keys, aud : Recs]
  /\ puts \subseteq [id : Recs, key : Keys, aud : Recs]

HistoryTyped ==
  /\ audio \subseteq Recs /\ quarantined \subseteq Recs /\ gone \subseteq Recs
  /\ crashes \in Nat /\ faults \in Nat /\ losses \in Nat

\* Type invariant.
TypeOK == DiskTyped /\ FileTyped /\ TicketTyped /\ ServiceTyped /\ S3Typed /\ HistoryTyped

\* I3, I9: audio that reached the durability watermark and is bound for S3 is
\* in its file or in S3, whatever crashed or failed: no clean-up of an empty or
\* delivered recording, no recovery and no retention run ever takes it.
AudioKept ==
  \A r \in audio \ gone :
    bytes[r] = "synced" /\ HasDest(r) => Stored(r) \/ vis[path[r]] = r

\* I3: from its first byte to its delivery a recording has a ticket that
\* parses and that no power cut can take, whichever writes failed.
Discoverable ==
  \A r \in audio :
    (HasDest(r) /\ ~Stored(r)) \/ phase[r] \in {"recording", "failing"}
      => \A G \in Leaves(r) : Valid(G) # {}

\* I6: while the service runs every undelivered recording bound for S3 is in
\* the index or counted as unreadable.
Counted ==
  up = "running" =>
    \A r \in audio : HasDest(r) /\ ~Stored(r) => idx[r] # "none" \/ r \in unreadable

\* A recording that is not delivered is found: by a restart, and while the service runs.
TicketFound == Discoverable /\ Counted

\* I4: each recording reaches S3 once: no audio is stored under two keys.
StoredOnce == \A x, y \in puts : x.aud = y.aud => x = y

\* I4: one ticket creates at most one object, over every retry, lost reply,
\* late request and restart.
AtMostOnce == \A x, y \in puts : x.id = y.id => x = y

\* uploader.go 303: nothing is ever uploaded under a key that a restart, from
\* whatever a power cut leaves, would not know.
KeyKnown ==
  \A x \in puts : \A g \in Loadable(x.id) : g.state \in {"recording", "ready"} => g.key = x.key

\* File names and S3 keys that recordings compete for are given to one of them: nothing
\* is stored twice, lost, or uploaded under a key a restart would not know.
NamesSound == StoredOnce /\ AudioKept /\ AtMostOnce /\ KeyKnown

\* A failure that was recorded, in the ticket or by a marker next to the file,
\* keeps the recording out of S3 for good, also through later crashes.
FailedStaysOut == \A x \in puts : x.id \notin quarantined

\* Section 4.3 of the design: a recording is never deliverable, on disk or in
\* memory, while bytes of its file could still be lost.
ReadyIsDurable ==
  \A r \in Recs :
    /\ Owned(r)
    /\ idx[r] = "ready" \/ \E g \in UNION imgs[r] : g.state = "ready"
    => bytes[r] # "cached"

\* I10, R3: a recording handed to the uploader reaches S3, and its ticket and
\* spool copy are cleaned up, however often calls fail and the service crashes,
\* unless storage loses the file or the ticket cannot be read.
Handed(r)  == r \in audio /\ Owned(r) /\ idx[r] = "ready"
Settled(r) == (Stored(r) /\ gens[r] = {}) \/ r \in unreadable \/ r \in gone
EventuallyDelivered == \A r \in Recs : Handed(r) ~> Settled(r)

-------------------------------------------------------------------------------
(* Why one ticket creates one object: the inductive strengthening           *)

\* Every generation of a ticket that a restart could meet.
AllGens(r) == gens[r] \cup UNION imgs[r]

\* A ticket has one owner: the recorder until the output is finished ...
RecorderOwns ==
  \A r \in Recs :
    /\ idx[r] # "none" => held[r] # None
    /\ phase[r] \notin {"unborn", "done"} => idx[r] = "recording"
    /\ phase[r] = "unborn" => held[r] = None /\ AllGens(r) = {}

\* ... the recovery while the service starts, when nothing else runs ...
RecoveryOwns ==
  /\ up # "running" => upl = IdleUpload /\ \A r \in Recs : phase[r] \in {"unborn", "done"}
  /\ up # "booting" => boot = {}
  /\ up = "down" => \A r \in Recs : idx[r] = "none"
  /\ \A r \in boot : held[r] # None

\* ... the upload worker while it has taken the ticket.
WorkerOwns ==
  /\ upl.pc # "idle" => upl.rec \in Recs /\ held[upl.rec] # None /\ phase[upl.rec] = "done"
  /\ upl.pc = "put" \/ upl.conflict => upl.aud \in Recs

OneOwner == RecorderOwns /\ RecoveryOwns /\ WorkerOwns

\* Somebody else's object is at every key below k.
Below(r, k) == \A j \in Keys : j < k => obj[j].id \notin {None, r}

\* Wherever ticket r's key is found - with its owner, in any generation a crash
\* could bring back, in a request still under way, in S3 - it was reached past
\* keys that others hold.
KeyFrontier ==
  \A r \in Recs :
    /\ held[r] # None => Below(r, held[r].key)
    /\ \A g \in AllGens(r) : Below(r, g.key)
    /\ \A l \in late : l.rec = r => Below(r, l.key)
    /\ \A x \in puts : x.id = r => Below(r, x.key)

\* Objects stay: what the uploader created is still under its key.
ObjectsStay == \A x \in puts : obj[x.key] = [id |-> x.id, aud |-> x.aud]

IInv == TypeOK /\ OneOwner /\ KeyFrontier /\ ObjectsStay
===============================================================================
