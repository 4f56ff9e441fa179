-------------------------------- MODULE Storage --------------------------------
(***************************************************************************)
(* The recording storage monitor (internal/recording/storage.go): each run *)
(* of the recording manager has a scheduler that probes the disks which    *)
(* hold recordings, publishes what it saw, logs the transitions and hands  *)
(* the whole state to the alert channels.  A probe may block for as long   *)
(* as the operating system likes, also across a stop and a new run; one    *)
(* mutex allows a single probe at a time.  The event log is on a disk too: *)
(* a write may fail, which is only warned about, a rotation forgets what   *)
(* is old, and a new process may be able to read only a part of it.        *)
(***************************************************************************)
EXTENDS Naturals

CONSTANTS
  Paths,    \* spool and recording directories
  MaxRuns,  \* bound: runs of the manager
  None

ASSUME StorageAssumption == MaxRuns \in Nat /\ None \notin 1..MaxRuns /\ None \notin {"ok", "low"}

VARIABLES
  running, run,
  probeMu,  \* the run whose check holds storageProbeMu
  check,    \* per run: its scheduler, and the observations of its check
  paths,    \* storagePaths: what was published
  queue,    \* storageQueues of a channel: the newest state, or None
  logged,   \* each path's state by the event log: by its newest event there, "ok" without one
  aged,     \* the open incidents of the log whose event is in the rotated file
  told,     \* history: what the channel was told last
  unlogged, \* history: paths whose last change the log did not get, or has forgotten, or did not give back
  missed    \* history: a change of the aggregate may have got lost on its way to the channel

vars == <<running, run, probeMu, check, paths, queue, logged, aged, told, unlogged, missed>>

Runs == 1..MaxRuns

\* Below the threshold; above it and not by the recovery margin; above both; no answer.
Levels == {"short", "near", "room", "error"}

Unhealthy(s) == s \in {"low", "error"}

\* The state of a path; one that is not monitored counts as healthy.
State(obs, p) == IF p \in DOMAIN obs THEN obs[p] ELSE "ok"

Probed(level) == CASE level = "short" -> "low" [] level = "error" -> "error" [] OTHER -> level

\* Mutated form of Held: a failed probe ends an incident.
HeldLowOnly(old, seen) ==
  [p \in DOMAIN seen |-> CASE seen[p] = "near" -> IF State(old, p) = "low" THEN "low" ELSE "ok"
                           [] seen[p] = "room" -> "ok" [] OTHER -> seen[p]]
\* holdLowUntilRecovered.
Held(old, seen) ==
  [p \in DOMAIN seen |-> CASE seen[p] = "near" -> IF Unhealthy(State(old, p)) THEN "low" ELSE "ok"
                           [] seen[p] = "room" -> "ok" [] OTHER -> seen[p]]

\* Mutated form of Changed: a path that leaves monitoring is forgotten.
ChangedSeen(old, new) == {p \in Paths \cap DOMAIN new : State(old, p) # State(new, p)}

\* logStorageChanges reports the paths whose state changed, and the ones that left
\* monitoring while they were unhealthy.
Changed(old, new) == {p \in Paths : State(old, p) # State(new, p)}

\* recordingStorageMessage: one warning for all paths.
Aggregate(obs) == IF \E p \in DOMAIN obs : Unhealthy(obs[p]) THEN "low" ELSE "ok"

\* left: the paths the check has still to probe, and later to log.
Idle(pc) == [pc |-> pc, seen |-> <<>>, left |-> {}, new |-> <<>>, changed |-> FALSE]

-------------------------------------------------------------------------------
\* Manager.Start and Stop, as far as the monitor goes.
Start ==
  /\ ~running /\ run < MaxRuns
  /\ running' = TRUE /\ run' = run + 1
  /\ check' = [check EXCEPT ![run + 1] = Idle("due")]
  /\ UNCHANGED <<probeMu, paths, queue, logged, aged, told, unlogged, missed>>

Stop ==
  /\ running /\ running' = FALSE
  /\ UNCHANGED <<run, probeMu, check, paths, queue, logged, aged, told, unlogged, missed>>

\* monitorStorage: the ticker; a scheduler whose run is over ends here.
Tick(k) ==
  /\ check[k].pc = "wait" /\ running /\ run = k
  /\ check' = [check EXCEPT ![k] = Idle("due")]
  /\ UNCHANGED <<running, run, probeMu, paths, queue, logged, aged, told, unlogged, missed>>

\* checkStorage skips its turn while another check is on its way.  storageTargets are
\* the paths of the recorders and tickets of the moment.
Begin(k) ==
  /\ check[k].pc = "due"
  /\ IF probeMu = None
     THEN \E targets \in SUBSET Paths :
            probeMu' = k /\ check' = [check EXCEPT ![k] = [Idle("probe") EXCEPT !.left = targets]]
     ELSE check' = [check EXCEPT ![k] = Idle("wait")] /\ UNCHANGED probeMu
  /\ UNCHANGED <<running, run, paths, queue, logged, aged, told, unlogged, missed>>

\* probeStorage asks for one path after the other; disks fill, clear and fail.  What it
\* sees is looked at by the rest of checkStorage only, so the last answer and that are one
\* step, however long after Begin.  An old run, blocked until now, must not publish into a
\* new one.
Publish(k) ==
  /\ check[k].pc = "probe"
  /\ \E space \in [check[k].left -> Levels] :
       IF running /\ run = k
       THEN LET seen == [p \in check[k].left |-> Probed(space[p])]
                new == Held(paths, seen)
                changed == Changed(paths, new)
            IN /\ paths' = new
               /\ check' = [check EXCEPT ![k] = [pc |-> "log", seen |-> seen, left |-> changed, new |-> new,
                                                 changed |-> changed # {}]]
               /\ UNCHANGED probeMu
       ELSE check' = [check EXCEPT ![k] = Idle("wait")] /\ probeMu' = None /\ UNCHANGED paths
  /\ UNCHANGED <<running, run, queue, logged, aged, told, unlogged, missed>>

\* logStorageChanges writes one event after the other.  One that cannot be written, on a
\* full disk perhaps, is only warned about: what was published stays, and the alert goes
\* out.
Log(k) ==
  /\ check[k].pc = "log"
  /\ \E p \in check[k].left :
       /\ check' = [check EXCEPT ![k].left = @ \ {p}]
       /\ \/ /\ logged' = [logged EXCEPT ![p] = State(check[k].new, p)]
             /\ aged' = aged \ {p} /\ unlogged' = unlogged \ {p}
          \/ UNCHANGED <<logged, aged>> /\ unlogged' = unlogged \cup {p}
  /\ UNCHANGED <<running, run, probeMu, paths, queue, told, missed>>

\* HandleRecordingStorage: a state the channel has not sent yet is replaced by this one.
Tell(k) ==
  /\ check[k].pc = "log" /\ check[k].left = {}
  /\ check' = [check EXCEPT ![k] = Idle("wait")] /\ probeMu' = None
  /\ IF check[k].changed
     THEN queue' = Aggregate(check[k].new) /\ missed' = FALSE
     ELSE UNCHANGED <<queue, missed>>
  /\ UNCHANGED <<running, run, paths, logged, aged, told, unlogged>>

\* The channel's worker.
Send ==
  /\ queue # None
  /\ told' = queue /\ queue' = None
  /\ UNCHANGED <<running, run, probeMu, check, paths, logged, aged, unlogged, missed>>

-------------------------------------------------------------------------------
Open(log) == {p \in Paths : Unhealthy(log[p])}

\* The log is full, of events of any kind: the rotated file is removed, and the active one
\* takes its place unless the rename fails.
Rotate(renamed) ==
  /\ logged' = [p \in Paths |-> IF p \in aged THEN "ok" ELSE logged[p]]
  /\ aged' = IF renamed THEN Open(logged') ELSE {}
  /\ unlogged' = unlogged \cup aged
  /\ UNCHANGED <<running, run, probeMu, check, paths, queue, told, missed>>

\* LatestStorageEvents: the open incidents it finds, all of them or those before a place
\* that cannot be read, in the active file or, after it, in the rotated one.
Found ==
  LET recent == Open(logged) \ aged
  IN (SUBSET recent) \cup {recent \cup some : some \in SUBSET aged}

\* NewManager takes them for the last observations.
Restored(log, found) == [p \in found |-> log[p]]

\* The service is killed, or closed, which does not wait for a check that is under way; and
\* starts again.
Restart ==
  /\ \E found \in Found :
       /\ paths' = Restored(logged, found)
       /\ unlogged' = Open(logged) \ found
       /\ missed' = \/ missed \/ queue # None \/ unlogged # {} \/ Open(logged) # found
                    \/ \E k \in Runs : check[k].pc = "log" /\ check[k].changed
  /\ running' = FALSE /\ probeMu' = None /\ queue' = None
  /\ check' = [k \in Runs |-> Idle("none")]
  /\ UNCHANGED <<run, logged, aged, told>>

Init ==
  /\ running = FALSE /\ run = 0 /\ probeMu = None
  /\ check = [k \in Runs |-> Idle("none")]
  /\ paths = <<>> /\ queue = None /\ logged = [p \in Paths |-> "ok"] /\ aged = {}
  /\ told = "ok" /\ unlogged = {} /\ missed = FALSE

Check(k) == Tick(k) \/ Begin(k) \/ Publish(k) \/ Log(k) \/ Tell(k)

Next ==
  \/ Start \/ Stop \/ (\E k \in Runs : Check(k)) \/ Send
  \/ (\E renamed \in BOOLEAN : Rotate(renamed)) \/ Restart

Spec == Init /\ [][Next]_vars

-------------------------------------------------------------------------------
(* Properties                                                              *)

\* Between checks the event log, across rotations, has every path's published state, also
\* of paths that left monitoring, and once the channel has caught up it was told whether
\* any path is unhealthy; across stops, new runs and probes that outlive their run.  A
\* failed write, a forgotten or unreadable event leaves the log wrong about its own path
\* only, and until that path's next event; a restart takes over what it can read, and may
\* then leave the channel behind until the next change, like an alert that the end of
\* the process took along.
StorageTold ==
  probeMu = None =>
    /\ \A p \in Paths \ unlogged : logged[p] = State(paths, p)
    /\ queue = None /\ ~missed => told = Aggregate(paths)

\* holdLowUntilRecovered: an incident of a path that stays monitored ends only on a
\* probe that found the recovery margin free, failed probes in between or not.  (A restart
\* that cannot read an incident has no such path.)
LowHolds ==
  [][\A p \in DOMAIN paths \cap DOMAIN paths' :
       Unhealthy(paths[p]) /\ ~Unhealthy(paths'[p]) => \E k \in Runs : check'[k].pc = "log" /\ check'[k].seen[p] = "room"
    ]_vars
===============================================================================
