------------------------------ MODULE TicketDisk ------------------------------
(***************************************************************************)
(* The outbox directory of internal/recording/outbox.go: every change of a *)
(* ticket is a new file <id>.<seq>.json, a GENERATION.  `gens' is what the *)
(* directory shows of a ticket, `imgs' everything it has shown since the   *)
(* last syncDir: what a power cut can bring back.                          *)
(*                                                                         *)
(* A handler is one action whose disk steps each pick an outcome.  A crash *)
(* between two steps of a handler leaves the disk that the handler leaves  *)
(* when the later step fails, so the outcomes stand for those crashes too. *)
(***************************************************************************)
EXTENDS Naturals, FiniteSets

CONSTANTS
  Recs,       \* ticket IDs, one per recording ever reserved
  MaxKey,     \* S3 keys of the shared base name: 1 is the base, n is "-n"
  MaxSeq,     \* bound: generations of one ticket the model follows
  Journaled   \* the file system applies directory changes in order

ASSUME TicketDiskAssumption ==
  /\ IsFiniteSet(Recs)
  /\ MaxKey \in Nat \ {0} /\ MaxSeq \in Nat /\ Journaled \in BOOLEAN

VARIABLES
  gens,       \* [Recs -> SUBSET Generation]: the visible directory
  imgs        \* [Recs -> SUBSET SUBSET Generation]: shown since the last sync

Keys   == 1 .. MaxKey
States == {"recording", "ready", "delivered", "failed", "lost"}

\* ticket: `mark' says SyncedBytes > 0.  Attempts, times and the last error
\* are left out: a ticket in backoff becomes due at any later moment.
Ticket == [state : States, seq : Nat, key : Keys, mark : BOOLEAN]

\* A generation torn by a crash has a name, and so a seq, but does not parse.
Generation == [state : States \cup {"torn"}, seq : Nat, key : Keys, mark : BOOLEAN]

Valid(G) == {g \in G : g.state # "torn"}

\* The highest file name, whether it parses or not: at most one generation.
Top(G) == {g \in G : \A h \in G : h.seq <= g.seq}

\* Mutated form of Newest: the comparison the other way round.
NewestFlipped(G) == {g \in Valid(G) : \A h \in Valid(G) : g.seq <= h.seq}

\* newestGeneration: the highest generation that parses; at most one.
Newest(G) == {g \in Valid(G) : \A h \in Valid(G) : h.seq <= g.seq}

\* The name write ends up creating exclusively: the first free one after seq.
NextFree(G, seq, s) ==
  /\ s > seq
  /\ \A g \in G : g.seq # s
  /\ \A q \in (seq + 1) .. (s - 1) : \E g \in G : g.seq = q

\* A step of the directory of ticket r without a sync, and syncDir, which makes
\* what every ticket shows durable.
Shows(r, G) ==
  /\ gens' = [gens EXCEPT ![r] = G]
  /\ imgs' = [imgs EXCEPT ![r] = @ \cup {G}]

\* syncDir while r shows G, and a further unsynced step to H.
SyncThenShows(r, G, H) ==
  /\ gens' = [gens EXCEPT ![r] = H]
  /\ imgs' = [q \in Recs |-> IF q = r THEN {G, H} ELSE {gens[q]}]

WriteOutcomes == {"ok", "nosync", "nocreate"}

\* The generation just before the new one, by its name.
PruneBelow(G, new) == {g \in G : g.seq + 1 # new.seq}

\* Mutated form of Write: the previous generation goes before the new one is
\* there, as with an in-place replace.
WriteOverPrevious(r, tk, new, o) ==
  LET cleared == PruneBelow(gens[r], new) IN
  /\ NextFree(gens[r], tk.seq, new.seq)
  /\ \/ o = "nocreate" /\ Shows(r, cleared)
     \/ o = "nosync"   /\ Shows(r, cleared \cup {new})
     \/ o = "ok"       /\ SyncThenShows(r, cleared \cup {new}, cleared \cup {new})

(***************************************************************************)
(* write: create the next generation; sync the directory; remove the       *)
(* generation just before it.  When the sync fails the new one is kept as  *)
(* it is and nothing is removed.                                           *)
(***************************************************************************)
Write(r, tk, new, o) ==
  LET created == gens[r] \cup {new} IN
  /\ NextFree(gens[r], tk.seq, new.seq)
  /\ \/ o = "nocreate" /\ UNCHANGED <<gens, imgs>>
     \/ o = "nosync"   /\ Shows(r, created)
     \/ o = "ok"       /\ SyncThenShows(r, created, PruneBelow(created, new))

\* What write leaves in *t: a failed create keeps the sequence number.
Written(tk, new, o) == IF o = "nocreate" THEN [new EXCEPT !.seq = tk.seq] ELSE new

RemoveOutcomes == {"ok", "nosync", "older", "keep"}

(***************************************************************************)
(* removeFiles: older generations, sync, the newest one, sync.  "keep": the*)
(* directory could not be read; "older": the older generations went but    *)
(* were not synced, or the newest could not be removed; "nosync": all went *)
(* and the last sync failed.                                               *)
(***************************************************************************)
RemoveFiles(r, o) ==
  \/ o = "keep"   /\ UNCHANGED <<gens, imgs>>
  \/ o = "older"  /\ Shows(r, Top(gens[r]))
  \/ o = "nosync" /\ SyncThenShows(r, Top(gens[r]), {})
  \/ o = "ok"     /\ SyncThenShows(r, {}, {})

\* load: only the newest valid generation stays, a ticket whose files could
\* not be read keeps them all; then the directory is synced, or is not.
LoadFiles(bad, synced) ==
  /\ gens' = [r \in Recs |-> IF r \in bad THEN gens[r] ELSE Newest(gens[r])]
  /\ imgs' = [r \in Recs |-> IF synced THEN {gens'[r]} ELSE imgs[r] \cup {gens'[r]}]

\* What a power cut can leave of a ticket: a journaled directory goes back to
\* how it was at some moment since its last sync; without a journal each
\* creation and removal since then is undone or not on its own.
Leaves(r) ==
  IF Journaled THEN imgs[r]
  ELSE {G \in SUBSET UNION imgs[r] : \A g \in UNION imgs[r] : (\A I \in imgs[r] : g \in I) => g \in G}

\* The generations a restart can take for the ticket's state.
Loadable(r) == UNION {Newest(G) : G \in Leaves(r)}
===============================================================================
