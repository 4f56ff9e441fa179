------------------------------ MODULE Destinations ------------------------------
(***************************************************************************)
(* The stored upload credentials (internal/recording/outbox.go and         *)
(* manager.go): a ticket names a destination, the file of one recorder's   *)
(* credentials for one bucket, and the uploader reads it for every         *)
(* attempt.  Requests, the hourly refresh and the start of the service     *)
(* store a recorder's current credentials; a reservation stores those of   *)
(* its own, perhaps older, settings when there are none; a start removes   *)
(* what no ticket refers to.  Calls fail, the service is killed and the    *)
(* power is cut between any two of them.                                   *)
(***************************************************************************)
EXTENDS Naturals

CONSTANTS
  Dests,   \* destination IDs of the recorder: its buckets
  Creds,   \* credentials; none of them is 0, which stands for no file or no settings
  Savers,  \* threads that save a recorder's destination
  Rec,     \* the reservation of an output
  MaxEdits, MaxFaults, MaxCrashes,  \* bounds: updates, calls that fail, ends of the process
  None

VARIABLES
  up,        \* "down", "booting" until the outbox is open, "up"
  listed,    \* the recorder exists
  cfg,       \* its settings
  file,      \* destinations/: the credentials by ID, 0 without a file
  images,    \* what a power cut may leave of it
  tmp,       \* the temporary files in it
  tickets,   \* destinations the tickets on disk refer to
  destMu,    \* the holder of destMu
  at, want,  \* per thread: its step, and the settings it stores
  failed,    \* history: no save succeeded since one failed
  unsynced,  \* history: destinations whose directory entry was never confirmed
  edits, faults, crashes

vars == <<up, listed, cfg, file, images, tmp, tickets, destMu, at, want, failed, unsynced, edits, faults, crashes>>

Threads == Savers \cup {Rec}

Config == [dest : Dests, cred : Creds \cup {0}]

\* A call of the operating system fails.
Fault    == faults < MaxFaults /\ faults' = faults + 1
NoFault  == UNCHANGED faults

-------------------------------------------------------------------------------
\* Manager.UpdateRecorder stores the settings, then saves the destination.
Update(p) ==
  /\ up = "up" /\ listed /\ at[p] = "rest" /\ edits < MaxEdits
  /\ \E new \in Config : cfg' = new /\ want' = [want EXCEPT ![p] = new]
  /\ at' = [at EXCEPT ![p] = "lock"] /\ edits' = edits + 1
  /\ UNCHANGED <<up, listed, file, images, tmp, tickets, destMu, failed, unsynced, faults, crashes>>

\* refreshDestinations, every hour.
Refresh(p) ==
  /\ up = "up" /\ listed /\ at[p] = "rest"
  /\ at' = [at EXCEPT ![p] = "lock"] /\ want' = [want EXCEPT ![p] = cfg]
  /\ UNCHANGED <<up, listed, cfg, file, images, tmp, tickets, destMu, failed, unsynced, edits, faults, crashes>>

\* RemoveRecorder leaves its credentials to its recordings.
Remove ==
  /\ up = "up" /\ listed /\ listed' = FALSE
  /\ UNCHANGED <<up, cfg, file, images, tmp, tickets, destMu, at, want, failed, unsynced, edits, faults, crashes>>

\* reserveRecordingOutput, with the settings its segment was given.
Reserve ==
  /\ up = "up" /\ listed /\ at[Rec] = "rest" /\ cfg.cred # 0
  /\ at' = [at EXCEPT ![Rec] = "lock"] /\ want' = [want EXCEPT ![Rec] = cfg]
  /\ UNCHANGED <<up, listed, cfg, file, images, tmp, tickets, destMu, failed, unsynced, edits, faults, crashes>>

\* Mutated form of Settings: a request saves the settings it came with.
EarlySettings(p) == want[p]

\* saveDestination reads the settings under the lock; a reservation has its own.
Settings(p) == IF p = Rec THEN want[p] ELSE cfg

\* ensureDestination leaves credentials that are there alone.
Needed(p) == IF p = Rec THEN file[want[p].dest] = 0 ELSE Settings(p).cred # 0

Idle == [dest |-> None, cred |-> 0]

\* The lock is given back; a reservation goes on to its ticket.
Unlock(p, ok) ==
  /\ destMu' = None
  /\ at' = [at EXCEPT ![p] = IF p = Rec /\ ok THEN "ticket" ELSE "rest"]
  /\ want' = IF p = Rec /\ ok THEN want ELSE [want EXCEPT ![p] = Idle]

Lock(p) ==
  /\ at[p] = "lock" /\ destMu = None
  /\ IF Needed(p)
     THEN destMu' = p /\ at' = [at EXCEPT ![p] = "save"] /\ want' = [want EXCEPT ![p] = Settings(p)]
     ELSE Unlock(p, TRUE)
  /\ UNCHANGED <<up, listed, cfg, file, images, tmp, tickets, failed, unsynced, edits, faults, crashes>>

\* What a save reports: UpdateRecorder returns it, the others log it.
Saved(p, ok) == Unlock(p, ok) /\ failed' = (IF p = Rec THEN failed ELSE ~ok)

\* saveDestinationLocked: nothing to do, a temporary file in the way, an error, or a
\* synced temporary file.
Save(p) ==
  /\ at[p] = "save"
  /\ LET d == want[p].dest
     IN \/ file[d] = want[p].cred /\ Saved(p, TRUE) /\ UNCHANGED tmp /\ NoFault
        \/ file[d] # want[p].cred /\ d \in tmp /\ tmp' = tmp \ {d} /\ Saved(p, FALSE) /\ NoFault
        \/ file[d] # want[p].cred /\ d \notin tmp /\ Fault /\ Saved(p, FALSE) /\ UNCHANGED tmp
        \/ /\ file[d] # want[p].cred /\ d \notin tmp /\ NoFault
           /\ tmp' = tmp \cup {d} /\ at' = [at EXCEPT ![p] = "rename"] /\ UNCHANGED <<destMu, want, failed>>
  /\ UNCHANGED <<up, listed, cfg, file, images, tickets, unsynced, edits, crashes>>

Rename(p) ==
  /\ at[p] = "rename"
  /\ tmp' = tmp \ {want[p].dest}
  /\ \/ Fault /\ Saved(p, FALSE) /\ UNCHANGED <<file, images>>
     \/ LET Renamed(dir) == [dir EXCEPT ![want[p].dest] = want[p].cred]
        IN /\ file' = Renamed(file) /\ images' = images \cup {Renamed(i) : i \in images}
           /\ at' = [at EXCEPT ![p] = "sync"] /\ NoFault /\ UNCHANGED <<destMu, want, failed>>
  /\ UNCHANGED <<up, listed, cfg, tickets, unsynced, edits, crashes>>

Sync(p) ==
  /\ at[p] = "sync"
  /\ \/ NoFault /\ images' = {file} /\ unsynced' = {d \in unsynced : file[d] = 0} /\ Saved(p, TRUE)
     \/ Fault /\ unsynced' = unsynced \cup {want[p].dest} /\ Saved(p, FALSE) /\ UNCHANGED images
  /\ UNCHANGED <<up, listed, cfg, file, tmp, tickets, edits, crashes>>

\* newTicket; its write may fail and leave a ticket behind or not.
NewTicket ==
  /\ at[Rec] = "ticket" /\ at' = [at EXCEPT ![Rec] = "rest"] /\ want' = [want EXCEPT ![Rec] = Idle]
  /\ tickets' \in {tickets, tickets \cup {want[Rec].dest}}
  /\ UNCHANGED <<up, listed, cfg, file, images, tmp, destMu, failed, unsynced, edits, faults, crashes>>

\* The last recording for a destination is delivered, or discarded.
Deliver ==
  /\ up = "up" /\ \E d \in tickets : tickets' = tickets \ {d}
  /\ UNCHANGED <<up, listed, cfg, file, images, tmp, destMu, at, want, failed, unsynced, edits, faults, crashes>>

-------------------------------------------------------------------------------
\* The service is killed; a power cut also takes directory entries back.
Crash ==
  /\ up # "down" /\ up' = "down" /\ crashes < MaxCrashes /\ crashes' = crashes + 1
  /\ \/ UNCHANGED <<file, images, tmp>>
     \/ \E i \in images : file' = i /\ images' = {i} /\ tmp' \in SUBSET tmp
  /\ destMu' = None /\ at' = [p \in Threads |-> "rest"] /\ want' = [p \in Threads |-> Idle]
  /\ unsynced' = unsynced \cup {want[p].dest : p \in {q \in Threads : at[q] = "sync"}}
  /\ failed' = FALSE
  /\ UNCHANGED <<listed, cfg, tickets, edits, faults>>

\* A start keeps what the tickets refer to, and everything when it could not read some.
Kept(read) == IF read = tickets THEN read ELSE Dests

\* openOutbox, removeUnreferencedDestinations.
Open ==
  /\ up = "down" /\ up' = "booting"
  /\ \E read \in SUBSET tickets : \E gone \in SUBSET (Dests \ Kept(read)) :
       LET Without(dir) == [d \in Dests |-> IF d \in gone THEN 0 ELSE dir[d]]
       IN /\ file' = Without(file) /\ images' = images \cup {Without(i) : i \in images}
          /\ tmp' \in IF Kept(read) = Dests THEN {tmp} ELSE SUBSET tmp
  /\ UNCHANGED <<listed, cfg, tickets, destMu, at, want, failed, unsynced, edits, faults, crashes>>

\* The encoder adds the recorders of the configuration.
Add(p) ==
  /\ up = "booting" /\ up' = "up"
  /\ IF listed THEN at' = [at EXCEPT ![p] = "lock"] /\ want' = [want EXCEPT ![p] = cfg] ELSE UNCHANGED <<at, want>>
  /\ UNCHANGED <<listed, cfg, file, images, tmp, tickets, destMu, failed, unsynced, edits, faults, crashes>>

Init ==
  /\ up = "down" /\ listed = TRUE /\ cfg = CHOOSE c \in Config : c.cred # 0
  /\ file = [d \in Dests |-> 0] /\ images = {file} /\ tmp = {} /\ tickets = {}
  /\ destMu = None /\ at = [p \in Threads |-> "rest"] /\ want = [p \in Threads |-> Idle]
  /\ failed = FALSE /\ unsynced = {} /\ edits = 0 /\ faults = 0 /\ crashes = 0

Store(p) == Lock(p) \/ Save(p) \/ Rename(p) \/ Sync(p)

Next ==
  \/ \E p \in Savers : Update(p) \/ Refresh(p) \/ Add(p)
  \/ \E p \in Threads : Store(p)
  \/ Remove \/ Reserve \/ NewTicket \/ Deliver \/ Crash \/ Open

Spec == Init /\ [][Next]_vars

-------------------------------------------------------------------------------
(* Properties                                                              *)

\* No recording is without the credentials it was made with or newer ones, now and
\* after any power cut: neither an update, nor a removal, nor a start that could not
\* read every ticket takes them away.  A destination whose directory entry was never
\* confirmed is the exception: a reservation goes by the file it sees.
NoneStranded == \A d \in tickets \ unsynced : \A dir \in images \cup {file} : dir[d] # 0

\* When no save is on its way and the last one succeeded, a recorder's recordings are
\* uploaded with its current credentials, whichever of several saves and reservations
\* came last.
NewestCredentials ==
  up = "up" /\ listed /\ cfg.cred # 0 /\ ~failed /\ (\A p \in Savers : at[p] = "rest") =>
    file[cfg.dest] = cfg.cred

\* Both: a recording can be uploaded, and with what the operator saved last.
CredentialsKept == NoneStranded /\ NewestCredentials
===============================================================================
