----------------------------- MODULE OutboxProofs -----------------------------
(***************************************************************************)
(* Proofs about Outbox for every number of recordings, paths, keys, crashes*)
(* and failures.  The first two sections hold journaled or not: who has a  *)
(* ticket, how often it is uploaded, and that what is deliverable is       *)
(* durable.  The others say what a restart finds on a journaled file       *)
(* system, where a power cut takes the directory back to one of the states *)
(* it has shown since its last sync: no upload under a key a restart would *)
(* not know and, for recordings with names of their own, no audio, no      *)
(* ticket and no recorded failure lost.  And beside the tickets, in        *)
(* Destinations: the credentials they are uploaded with are not lost.      *)
(***************************************************************************)
EXTENDS MCUploads, FiniteSetTheorems, TLAPS

-------------------------------------------------------------------------------
(* What the steps of the outbox directory leave                            *)

\* write adds the generation it was given and nothing else.
LEMMA WriteDisk ==
  ASSUME DiskTyped, NEW r \in Recs, NEW tk, NEW new \in Generation, NEW o, Write(r, tk, new, o)
  PROVE  /\ DiskTyped'
         /\ AllGens(r)' \subseteq AllGens(r) \cup {new}
         /\ \A q \in Recs : q # r => AllGens(q)' \subseteq AllGens(q)
<1>1. CASE o = "nocreate" /\ UNCHANGED <<gens, imgs>>
  BY <1>1 DEF DiskTyped, AllGens
<1>2. CASE o = "nosync" /\ Shows(r, gens[r] \cup {new})
  BY <1>2 DEF DiskTyped, AllGens, Shows
<1>3. CASE o = "ok" /\ SyncThenShows(r, gens[r] \cup {new}, PruneBelow(gens[r] \cup {new}, new))
  BY <1>3 DEF DiskTyped, AllGens, SyncThenShows, PruneBelow
<1>. QED BY <1>1, <1>2, <1>3 DEF Write

\* removeFiles adds nothing.
LEMMA RemoveDisk ==
  ASSUME DiskTyped, NEW r \in Recs, NEW o, RemoveFiles(r, o)
  PROVE  DiskTyped' /\ \A q \in Recs : AllGens(q)' \subseteq AllGens(q)
<1>1. CASE o = "keep" /\ UNCHANGED <<gens, imgs>>
  BY <1>1 DEF DiskTyped, AllGens
<1>2. CASE o = "older" /\ Shows(r, Top(gens[r]))
  BY <1>2 DEF DiskTyped, AllGens, Shows, Top
<1>3. CASE o = "nosync" /\ SyncThenShows(r, Top(gens[r]), {})
  BY <1>3 DEF DiskTyped, AllGens, SyncThenShows, Top
<1>4. CASE o = "ok" /\ SyncThenShows(r, {}, {})
  BY <1>4 DEF DiskTyped, AllGens, SyncThenShows
<1>. QED BY <1>1, <1>2, <1>3, <1>4 DEF RemoveFiles

\* load adds nothing.
LEMMA LoadDisk ==
  ASSUME DiskTyped, NEW bad, NEW synced, LoadFiles(bad, synced)
  PROVE  DiskTyped' /\ \A q \in Recs : AllGens(q)' \subseteq AllGens(q)
BY DEF DiskTyped, AllGens, LoadFiles, Newest, Valid

\* A power cut brings back only what the directory showed.
LEMMA LeavesSubset ==
  ASSUME NEW r \in Recs, NEW G \in Leaves(r)
  PROVE  G \subseteq UNION imgs[r]
BY DEF Leaves

\* What load takes for a ticket is one.
LEMMA LoadedTicket ==
  ASSUME DiskTyped, NEW r \in Recs, Newest(gens[r]) # {}
  PROVE  (CHOOSE g \in Newest(gens[r]) : TRUE) \in Ticket \cap gens[r]
<1>1. PICK g \in Newest(gens[r]) : TRUE
  OBVIOUS
<1>2. (CHOOSE h \in Newest(gens[r]) : TRUE) \in Newest(gens[r])
  BY <1>1
<1>3. \A h \in Newest(gens[r]) : h \in gens[r] /\ h \in Ticket
  BY DEF DiskTyped, Newest, Valid, Generation, Ticket
<1>. QED BY <1>2, <1>3

LEMMA GenerationOfTicket ==
  ASSUME NEW tk \in Ticket PROVE tk \in Generation
BY DEF Ticket, Generation

-------------------------------------------------------------------------------
(* What a write, a save and a removal do to the tickets                    *)

TicketsTyped == held \in [Recs -> Ticket \cup {None}]

\* update by the owner of r: the other tickets stay, r keeps its owner, and
\* whatever appears on disk has the state and key the ticket was changed to.
LEMMA UpdateEffect ==
  ASSUME DiskTyped, TicketsTyped, NEW r \in Recs, held[r] # None,
         NEW change \in Ticket, NEW o, Update(r, change, o)
  PROVE  /\ DiskTyped' /\ TicketsTyped'
         /\ held'[r] # None /\ held'[r].key = change.key /\ held'[r].state = change.state
         /\ \A q \in Recs \ {r} : held'[q] = held[q] /\ AllGens(q)' \subseteq AllGens(q)
         /\ \A g \in AllGens(r)' : g \in AllGens(r) \/ (g.key = change.key /\ g.state = change.state)
<1>1. PICK s \in 1 .. MaxSeq :
        /\ Write(r, held[r], [change EXCEPT !.seq = s], o)
        /\ held' = [held EXCEPT ![r] = Written(held[r], [change EXCEPT !.seq = s], o)]
  BY DEF Update
<1> DEFINE new == [change EXCEPT !.seq = s]
<1>2. new \in Ticket /\ new.key = change.key /\ new.state = change.state
  BY <1>1, TicketDiskAssumption DEF Ticket
<1>3. /\ Written(held[r], new, o) \in Ticket
      /\ Written(held[r], new, o).key = change.key /\ Written(held[r], new, o).state = change.state
  <2>1. held[r] \in Ticket
    BY DEF TicketsTyped
  <2>. QED BY <1>2, <2>1 DEF Written, Ticket
<1>4. new \in Generation
  BY <1>2, GenerationOfTicket
<1>5. Write(r, held[r], new, o)
  BY <1>1
<1>6. /\ DiskTyped' /\ AllGens(r)' \subseteq AllGens(r) \cup {new}
      /\ \A q \in Recs : q # r => AllGens(q)' \subseteq AllGens(q)
  BY <1>4, <1>5, WriteDisk
<1>7. held' = [held EXCEPT ![r] = Written(held[r], new, o)]
  BY <1>1
<1>8. Written(held[r], new, o) # None
  BY <1>3, OutboxAssumption
<1> HIDE DEF new
<1>9. /\ TicketsTyped' /\ held'[r] = Written(held[r], new, o)
      /\ \A q \in Recs \ {r} : held'[q] = held[q]
  BY <1>3, <1>7 DEF TicketsTyped
<1>. QED
  BY <1>2, <1>3, <1>6, <1>8, <1>9

\* The move to the next key: the same, with the next key or the old one in
\* memory and, if anything, the next one on disk.
LEMMA NextKeyEffect ==
  ASSUME DiskTyped, TicketsTyped, NEW r \in Recs, held[r] # None, NEW o, NextKey(r, o)
  PROVE  /\ DiskTyped' /\ TicketsTyped'
         /\ held'[r] # None /\ held'[r].key \in {held[r].key, held[r].key + 1}
         /\ held'[r].state = held[r].state
         /\ \A q \in Recs \ {r} : held'[q] = held[q] /\ AllGens(q)' \subseteq AllGens(q)
         /\ \A g \in AllGens(r)' :
              g \in AllGens(r) \/ (g.key = held[r].key + 1 /\ g.state = held[r].state)
<1> DEFINE change == [held[r] EXCEPT !.key = @ + 1]
           fresh(s) == [change EXCEPT !.seq = s]
<1>1. PICK s \in 1 .. MaxSeq :
        /\ Write(r, held[r], fresh(s), o)
        /\ held' = [held EXCEPT ![r] =
                      IF o = "ok" THEN fresh(s)
                      ELSE [Written(held[r], fresh(s), o) EXCEPT !.key = KeyAfterFailure(r)]]
  BY DEF NextKey
<1> DEFINE new == fresh(s)
<1>2. held[r] \in Ticket /\ held[r].key \in Keys /\ held[r].key + 1 \in Keys
  BY TicketDiskAssumption DEF TicketsTyped, NextKey, Ticket, Keys
<1>3. new \in Ticket /\ new.key = held[r].key + 1 /\ new.state = held[r].state
  <2>1. change \in Ticket /\ change.key = held[r].key + 1 /\ change.state = held[r].state
    BY <1>2 DEF Ticket
  <2> HIDE DEF change
  <2>. QED BY <1>1, <2>1, TicketDiskAssumption DEF Ticket
<1>4. Write(r, held[r], new, o)
  BY <1>1
<1> DEFINE mine == IF o = "ok" THEN new ELSE [Written(held[r], new, o) EXCEPT !.key = KeyAfterFailure(r)]
<1>5. held' = [held EXCEPT ![r] = mine]
  BY <1>1
<1> HIDE DEF new
<1>6. mine \in Ticket /\ mine.key \in {held[r].key, held[r].key + 1} /\ mine.state = held[r].state
  BY <1>2, <1>3 DEF Written, Ticket, KeyAfterFailure
<1> HIDE DEF mine
<1>7. /\ DiskTyped' /\ AllGens(r)' \subseteq AllGens(r) \cup {new}
      /\ \A q \in Recs : q # r => AllGens(q)' \subseteq AllGens(q)
  BY <1>3, <1>4, WriteDisk, GenerationOfTicket
<1>8. mine # None
  BY <1>6, OutboxAssumption
<1>9. TicketsTyped' /\ held'[r] = mine /\ \A q \in Recs \ {r} : held'[q] = held[q]
  BY <1>5, <1>6 DEF TicketsTyped
<1>. QED BY <1>3, <1>6, <1>7, <1>8, <1>9

\* A kill adds at most a torn generation with the key of its owner's copy.
LEMMA KillDisk ==
  ASSUME DiskTyped, TicketsTyped, NEW torn \in SUBSET Recs, Kill(torn)
  PROVE  /\ DiskTyped'
         /\ \A q \in Recs \ torn : AllGens(q)' \subseteq AllGens(q)
         /\ \A q \in torn :
              /\ held[q] # None
              /\ \A g \in AllGens(q)' : g \in AllGens(q) \/ (g.key = held[q].key /\ g.state = "torn")
<1> DEFINE IsTorn(q) == /\ held[q] # None /\ Torn(q) \in Generation
                       /\ Torn(q).key = held[q].key /\ Torn(q).state = "torn"
<1>1. \A q \in torn : IsTorn(q)
  <2> SUFFICES ASSUME NEW q \in torn PROVE IsTorn(q)
    OBVIOUS
  <2>1. held[q] # None /\ held[q] \in Ticket
    BY DEF Kill, TicketsTyped
  <2>. QED BY <2>1 DEF Torn, Ticket, Generation
<1>2. /\ gens' = [r \in Recs |-> IF r \in torn THEN gens[r] \cup {Torn(r)} ELSE gens[r]]
      /\ imgs' = [r \in Recs |-> imgs[r] \cup {gens'[r]}]
  BY DEF Kill
<1>3. DiskTyped'
  BY <1>1, <1>2 DEF DiskTyped
<1>4. \A q \in Recs \ torn : AllGens(q)' \subseteq AllGens(q)
  BY <1>2 DEF AllGens
<1>5. \A q \in torn : \A g \in AllGens(q)' : g \in AllGens(q) \/ g = Torn(q)
  BY <1>2 DEF AllGens
<1>. QED BY <1>1, <1>3, <1>4, <1>5

\* A power cut adds nothing.
LEMMA PowerCutDisk ==
  ASSUME DiskTyped, NEW G \in [Recs -> UNION {Leaves(r) : r \in Recs}],
         \A r \in Recs : G[r] \in Leaves(r), NEW P, NEW M, NEW L, PowerCut(G, P, M, L)
  PROVE  DiskTyped' /\ \A q \in Recs : AllGens(q)' \subseteq AllGens(q)
<1>1. \A q \in Recs : G[q] \subseteq UNION imgs[q]
  BY LeavesSubset
<1>2. gens' = G /\ imgs' = [r \in Recs |-> {G[r]}]
  BY DEF PowerCut
<1>3. \A q \in Recs : AllGens(q)' \subseteq UNION imgs[q]
  BY <1>1, <1>2 DEF AllGens
<1>4. \A q \in Recs : G[q] \subseteq Generation
  BY <1>1 DEF DiskTyped
<1>5. DiskTyped'
  BY <1>2, <1>4 DEF DiskTyped
<1>. QED BY <1>3, <1>5 DEF AllGens

\* removal of ticket r, completely or not.
LEMMA RemoveEffect ==
  ASSUME DiskTyped, TicketsTyped, NEW r \in Recs, NEW o, RemoveFiles(r, o),
         held' = [held EXCEPT ![r] = None] \/ held' = held
  PROVE  /\ DiskTyped' /\ TicketsTyped'
         /\ held'[r] = None \/ held'[r] = held[r]
         /\ \A q \in Recs \ {r} : held'[q] = held[q]
         /\ \A q \in Recs : AllGens(q)' \subseteq AllGens(q)
<1>1. DiskTyped' /\ \A q \in Recs : AllGens(q)' \subseteq AllGens(q)
  BY RemoveDisk
<1>. QED BY <1>1 DEF TicketsTyped

-------------------------------------------------------------------------------
(* Types, and one owner per ticket                                         *)

Owners == TypeOK /\ OneOwner

LEMMA OwnersInit == Init => Owners
<1> SUFFICES ASSUME Init PROVE Owners
  OBVIOUS
<1>1. DiskTyped /\ FileTyped /\ TicketTyped
  BY DEF Init, DiskTyped, FileTyped, TicketTyped
<1>2. ServiceTyped /\ HistoryTyped
  BY DEF Init, ServiceTyped, HistoryTyped, IdleUpload, UploadPC
<1>3. S3Typed
  BY DEF Init, S3Typed
<1>4. RecorderOwns /\ RecoveryOwns /\ WorkerOwns
  BY DEF Init, RecorderOwns, RecoveryOwns, WorkerOwns, IdleUpload, AllGens
<1>. QED BY <1>1, <1>2, <1>3, <1>4 DEF Owners, TypeOK, OneOwner

LEMMA OwnersRecorder ==
  ASSUME Owners, RecorderNext PROVE Owners'
<1> USE DEF fileVars, tickVars, sysVars, s3Vars, histVars
<1>d. DiskTyped /\ TicketsTyped /\ FileTyped /\ TicketTyped /\ ServiceTyped /\ S3Typed /\ HistoryTyped
  BY DEF Owners, TypeOK, TicketTyped, TicketsTyped
<1>o. RecorderOwns /\ RecoveryOwns /\ WorkerOwns
  BY DEF Owners, OneOwner
<1>1. ASSUME NEW r \in Recs, NEW o \in WriteOutcomes \cup {"nodir"}, Reserve(r, o) PROVE Owners'
  <2>0. NewTicket \in Ticket
    BY TicketDiskAssumption DEF NewTicket, Ticket, States, Keys
  <2>1. NewTicket \in Ticket /\ NewTicket # None
    BY <2>0, OutboxAssumption
  <2>2. /\ DiskTyped' /\ \A q \in Recs : q # r => AllGens(q)' \subseteq AllGens(q)
    <3>1. CASE o = "nodir"
      BY <1>1, <1>d, <3>1 DEF Reserve, DiskTyped, AllGens
    <3>2. CASE o # "nodir"
      BY <1>1, <1>d, <2>1, <3>2, WriteDisk, GenerationOfTicket DEF Reserve
    <3>. QED BY <3>1, <3>2
  <2>3. FileTyped'
    BY <1>1, <1>d DEF Reserve, FileTyped, TicketTyped
  <2>4. TicketTyped'
    BY <1>1, <1>d, <2>1 DEF Reserve, TicketTyped, States
  <2>5. ServiceTyped' /\ S3Typed' /\ HistoryTyped'
    BY <1>1, <1>d DEF Reserve, ServiceTyped, S3Typed, HistoryTyped, Spend, Cost
  <2>6. RecorderOwns'
    BY <1>1, <1>d, <1>o, <2>1, <2>2 DEF Reserve, RecorderOwns, TicketTyped
  <2>7. RecoveryOwns' /\ WorkerOwns'
    BY <1>1, <1>d, <1>o, <2>1 DEF Reserve, RecoveryOwns, WorkerOwns, RecorderOwns, TicketTyped
  <2>. QED BY <2>2, <2>3, <2>4, <2>5, <2>6, <2>7 DEF Owners, TypeOK, OneOwner
<1>2. ASSUME NEW r \in Recs, Begin(r) PROVE Owners'
  <2>1. DiskTyped' /\ FileTyped' /\ TicketTyped' /\ ServiceTyped' /\ S3Typed' /\ HistoryTyped'
    BY <1>2, <1>d DEF Begin, DiskTyped, FileTyped, TicketTyped, ServiceTyped, S3Typed, HistoryTyped
  <2>2. RecorderOwns' /\ RecoveryOwns' /\ WorkerOwns'
    BY <1>2, <1>d, <1>o DEF Begin, RecorderOwns, RecoveryOwns, WorkerOwns, TicketTyped, AllGens
  <2>. QED BY <2>1, <2>2 DEF Owners, TypeOK, OneOwner
<1>3. ASSUME NEW r \in Recs, NEW real \in BOOLEAN, Encode(r, real) PROVE Owners'
  <2>1. DiskTyped' /\ FileTyped' /\ TicketTyped' /\ ServiceTyped' /\ S3Typed' /\ HistoryTyped'
    BY <1>3, <1>d DEF Encode, DiskTyped, FileTyped, TicketTyped, ServiceTyped, S3Typed, HistoryTyped
  <2>2. RecorderOwns' /\ RecoveryOwns' /\ WorkerOwns'
    BY <1>3, <1>o DEF Encode, RecorderOwns, RecoveryOwns, WorkerOwns, AllGens
  <2>. QED BY <2>1, <2>2 DEF Owners, TypeOK, OneOwner
<1>4. ASSUME NEW r \in Recs, NEW o \in WriteOutcomes, Sync(r, o) PROVE Owners'
  <2>1. held[r] # None /\ held[r] \in Ticket /\ phase[r] = "recording"
    BY <1>4, <1>d, <1>o DEF Sync, RecorderOwns, TicketTyped
  <2>2. [held[r] EXCEPT !.mark = TRUE] \in Ticket
    BY <2>1 DEF Ticket
  <2>3. /\ DiskTyped' /\ TicketsTyped' /\ held'[r] # None
        /\ \A q \in Recs \ {r} : held'[q] = held[q] /\ AllGens(q)' \subseteq AllGens(q)
    BY <1>4, <1>d, <2>1, <2>2, UpdateEffect DEF Sync
  <2>4. FileTyped' /\ TicketTyped'
    BY <1>4, <1>d, <2>3 DEF Sync, FileTyped, TicketTyped, TicketsTyped
  <2>5. ServiceTyped' /\ S3Typed' /\ HistoryTyped'
    BY <1>4, <1>d DEF Sync, ServiceTyped, S3Typed, HistoryTyped, Spend, Cost
  <2>6. RecorderOwns' /\ RecoveryOwns' /\ WorkerOwns'
    BY <1>4, <1>d, <1>o, <2>1, <2>3 DEF Sync, RecorderOwns, RecoveryOwns, WorkerOwns, ServiceTyped
  <2>. QED BY <2>3, <2>4, <2>5, <2>6 DEF Owners, TypeOK, OneOwner
<1>5. ASSUME NEW r \in Recs, NEW o \in RemoveOutcomes \cup {"nofile"}, NEW cause \in BOOLEAN,
             up = "running", phase[r] \in {"reserved", "recording"},
             RemoveOutput(r, o, cause),
             UNCHANGED <<path, mode, sysVars, upl, s3Vars, histVars, crashes, losses>>
      PROVE Owners'
  <2>1. /\ DiskTyped' /\ TicketsTyped'
        /\ held'[r] = None \/ held'[r] = held[r]
        /\ \A q \in Recs \ {r} : held'[q] = held[q]
        /\ \A q \in Recs : AllGens(q)' \subseteq AllGens(q)
    <3>1. CASE o = "nofile"
      BY <1>5, <1>d, <3>1 DEF RemoveOutput, DiskTyped, TicketsTyped, AllGens
    <3>2. CASE o # "nofile"
      BY <1>5, <1>d, <3>2, RemoveEffect DEF RemoveOutput, ClearTicket
    <3>. QED BY <3>1, <3>2
  <2>2. FileTyped'
    BY <1>5, <1>d DEF RemoveOutput, ClearTicket, FileTyped, TicketTyped
  <2>3. TicketTyped'
    BY <1>5, <1>d, <2>1 DEF RemoveOutput, ClearTicket, TicketTyped, TicketsTyped
  <2>4. ServiceTyped' /\ S3Typed' /\ HistoryTyped'
    BY <1>5, <1>d DEF RemoveOutput, ServiceTyped, S3Typed, HistoryTyped, Spend, Cost
  <2>5. RecorderOwns'
    BY <1>5, <1>d, <1>o, <2>1 DEF RemoveOutput, ClearTicket, RecorderOwns, TicketTyped
  <2>6. RecoveryOwns' /\ WorkerOwns'
    BY <1>5, <1>d, <1>o, <2>1
    DEF RemoveOutput, ClearTicket, RecoveryOwns, WorkerOwns, TicketTyped, ServiceTyped
  <2>. QED BY <2>1, <2>2, <2>3, <2>4, <2>5, <2>6 DEF Owners, TypeOK, OneOwner
<1>6. ASSUME NEW r \in Recs, NEW o \in RemoveOutcomes \cup {"nofile"}, Discard(r, o) PROVE Owners'
  <2>1. CASE Owned(r)
    BY <1>5, <1>6, <2>1 DEF Discard
  <2>2. CASE ~Owned(r)
    <3>1. /\ DiskTyped' /\ TicketsTyped'
          /\ held'[r] = None \/ held'[r] = held[r]
          /\ \A q \in Recs \ {r} : held'[q] = held[q]
          /\ \A q \in Recs : AllGens(q)' \subseteq AllGens(q)
      BY <1>6, <1>d, <2>2, RemoveEffect DEF Discard, ClearTicket
    <3>2. FileTyped'
      BY ZenonT(60), <1>6, <1>d, <2>2 DEF Discard, ClearTicket, FileTyped, TicketTyped
    <3>3. TicketTyped'
      BY <1>6, <1>d, <2>2, <3>1 DEF Discard, ClearTicket, TicketTyped, TicketsTyped
    <3>4. ServiceTyped' /\ S3Typed' /\ HistoryTyped'
      <4>1. faults' \in Nat
        <5>1. Spend(Cost(o))
          BY <1>6, <2>2 DEF Discard
        <5>. QED BY <1>d, <5>1 DEF HistoryTyped, Spend, Cost
      <4>. QED BY <1>6, <1>d, <4>1 DEF Discard, ServiceTyped, S3Typed, HistoryTyped
    <3>5. RecorderOwns'
      BY ZenonT(60), <1>6, <1>d, <1>o, <2>2, <3>1 DEF Discard, ClearTicket, RecorderOwns, TicketTyped
    <3>6. RecoveryOwns' /\ WorkerOwns'
      BY <1>6, <1>d, <1>o, <2>2, <3>1
      DEF Discard, ClearTicket, RecoveryOwns, WorkerOwns, TicketTyped, ServiceTyped
    <3>. QED BY <3>1, <3>2, <3>3, <3>4, <3>5, <3>6 DEF Owners, TypeOK, OneOwner
  <2>. QED BY <2>1, <2>2
<1>7. ASSUME NEW r \in Recs, NEW cause \in BOOLEAN, NEW o \in RemoveOutcomes \cup {"nofile"},
             FinishEmpty(r, cause, o)
      PROVE Owners'
  BY <1>5, <1>7 DEF FinishEmpty
<1>8. ASSUME NEW r \in Recs, NEW cause \in BOOLEAN, FinishBad(r, cause) PROVE Owners'
  <2>1. DiskTyped' /\ FileTyped' /\ TicketTyped' /\ ServiceTyped' /\ S3Typed' /\ HistoryTyped'
    BY <1>8, <1>d
    DEF FinishBad, DiskTyped, FileTyped, TicketTyped, ServiceTyped, S3Typed, HistoryTyped, Spend
  <2>2. RecorderOwns' /\ RecoveryOwns' /\ WorkerOwns'
    BY <1>8, <1>d, <1>o
    DEF FinishBad, RecorderOwns, RecoveryOwns, WorkerOwns, TicketTyped, AllGens
  <2>. QED BY <2>1, <2>2 DEF Owners, TypeOK, OneOwner
<1>9. ASSUME NEW r \in Recs, NEW o \in WriteOutcomes, NEW mk \in {"none", "seen", "kept"},
             Fail(r, o, mk)
      PROVE Owners'
  <2>1. held[r] # None /\ held[r] \in Ticket /\ phase[r] = "failing"
    BY <1>9, <1>d, <1>o DEF Fail, RecorderOwns, TicketTyped
  <2>2. [held[r] EXCEPT !.state = "failed"] \in Ticket
    BY <2>1 DEF Ticket, States
  <2>3. /\ DiskTyped' /\ TicketsTyped' /\ held'[r] # None
        /\ \A q \in Recs \ {r} : held'[q] = held[q] /\ AllGens(q)' \subseteq AllGens(q)
    BY <1>9, <1>d, <2>1, <2>2, UpdateEffect DEF Fail
  <2>4. FileTyped' /\ TicketTyped'
    BY <1>9, <1>d, <2>3 DEF Fail, FileTyped, TicketTyped, TicketsTyped, States
  <2>5. ServiceTyped' /\ S3Typed' /\ HistoryTyped'
    BY <1>9, <1>d DEF Fail, ServiceTyped, S3Typed, HistoryTyped, Spend, Cost
  <2>6. RecorderOwns'
    BY <1>9, <1>d, <1>o, <2>1, <2>3 DEF Fail, RecorderOwns, TicketTyped
  <2>7. RecoveryOwns' /\ WorkerOwns'
    BY <1>9, <1>d, <1>o, <2>1, <2>3 DEF Fail, RecoveryOwns, WorkerOwns, TicketTyped, ServiceTyped
  <2>. QED BY <2>3, <2>4, <2>5, <2>6, <2>7 DEF Owners, TypeOK, OneOwner
<1>10. ASSUME NEW r \in Recs, NEW o \in WriteOutcomes \cup RemoveOutcomes, FinishCommit(r, o)
       PROVE Owners'
  <2>1. held[r] # None /\ held[r] \in Ticket /\ phase[r] = "recording"
    BY <1>10, <1>d, <1>o DEF FinishCommit, RecorderOwns, TicketTyped
  <2>2. [held[r] EXCEPT !.state = "ready"] \in Ticket
    BY <2>1 DEF Ticket, States
  <2>3. /\ DiskTyped' /\ TicketsTyped'
        /\ idx'[r] # "none" => held'[r] # None
        /\ \A q \in Recs \ {r} : held'[q] = held[q] /\ AllGens(q)' \subseteq AllGens(q)
    <3>1. CASE ~HasDest(r)
      BY <1>10, <1>d, <2>1, <3>1, RemoveEffect DEF FinishCommit, ClearTicket, TicketTyped
    <3>2. CASE HasDest(r)
      BY <1>10, <1>d, <2>1, <2>2, <3>2, UpdateEffect DEF FinishCommit
    <3>. QED BY <3>1, <3>2
  <2>4. FileTyped'
    BY <1>10, <1>d DEF FinishCommit, ClearTicket, FinalSync, FileTyped, TicketTyped
  <2>5. TicketTyped'
    BY <1>10, <1>d, <2>3 DEF FinishCommit, ClearTicket, TicketTyped, TicketsTyped, States
  <2>6. ServiceTyped' /\ S3Typed' /\ HistoryTyped'
    BY <1>10, <1>d DEF FinishCommit, ServiceTyped, S3Typed, HistoryTyped, Spend, Cost
  <2>7. RecorderOwns'
    BY <1>10, <1>d, <1>o, <2>1, <2>3 DEF FinishCommit, ClearTicket, RecorderOwns, TicketTyped
  <2>8. RecoveryOwns' /\ WorkerOwns'
    BY <1>10, <1>d, <1>o, <2>1, <2>3
    DEF FinishCommit, RecoveryOwns, WorkerOwns, TicketTyped, ServiceTyped
  <2>. QED BY <2>3, <2>4, <2>5, <2>6, <2>7, <2>8 DEF Owners, TypeOK, OneOwner
<1>. QED
  BY <1>1, <1>2, <1>3, <1>4, <1>6, <1>7, <1>8, <1>9, <1>10 DEF RecorderNext

\* The ticket the worker has taken.
LEMMA TakenTicket ==
  ASSUME Owners, upl.pc # "idle"
  PROVE  /\ upl.rec \in Recs /\ held[upl.rec] # None /\ held[upl.rec] \in Ticket
         /\ phase[upl.rec] = "done" /\ up = "running"
<1>1. WorkerOwns /\ RecoveryOwns /\ TicketTyped
  BY DEF Owners, OneOwner, TypeOK
<1>. QED BY <1>1 DEF WorkerOwns, RecoveryOwns, TicketTyped, IdleUpload

\* A put under key k types as an object, and as a request under way.
LEMMA CommitTyped ==
  ASSUME S3Typed, NEW r \in Recs, NEW k \in Keys, NEW a \in Recs, Commit(r, k, a)
  PROVE  /\ obj' \in [Keys -> [id : Recs \cup {None, Foreign}, aud : Recs \cup {None, Foreign}]]
         /\ puts' \subseteq [id : Recs, key : Keys, aud : Recs]
BY DEF S3Typed, Commit, Object

LEMMA OwnersUploader ==
  ASSUME Owners, UploaderNext PROVE Owners'
<1> USE DEF fileVars, tickVars, sysVars, s3Vars, histVars
<1>d. DiskTyped /\ TicketsTyped /\ FileTyped /\ TicketTyped /\ ServiceTyped /\ S3Typed /\ HistoryTyped
  BY DEF Owners, TypeOK, TicketTyped, TicketsTyped
<1>o. RecorderOwns /\ RecoveryOwns /\ WorkerOwns
  BY DEF Owners, OneOwner
<1>1. ASSUME NEW r \in Recs, NEW destOK \in BOOLEAN, TakeDue(r, destOK) PROVE Owners'
  <2>1. DiskTyped' /\ FileTyped' /\ TicketTyped' /\ S3Typed' /\ HistoryTyped'
    BY <1>1, <1>d DEF TakeDue, DiskTyped, FileTyped, TicketTyped, S3Typed, HistoryTyped, Spend
  <2>2. /\ upl'.rec = r /\ ~upl'.conflict
        /\ upl'.pc = "put" => upl'.aud \in Recs
        /\ ServiceTyped'
    <3>1. vis[path[r]] \in Recs \cup {None} /\ OpenAs(r) \in UploadPC
          /\ (OpenAs(r) = "put" => vis[path[r]] \in Recs)
      BY <1>d DEF FileTyped, TicketTyped, OpenAs, UploadPC
    <3>2. \/ upl' = [pc |-> "cleanup", rec |-> r, aud |-> None, conflict |-> FALSE]
          \/ upl' = [pc |-> IF destOK THEN OpenAs(r) ELSE "error", rec |-> r,
                     aud |-> vis[path[r]], conflict |-> FALSE]
      BY <1>1 DEF TakeDue, IdleUpload
    <3>3. up' = up /\ boot' = boot /\ unreadable' = unreadable
      BY <1>1 DEF TakeDue
    <3>4. (IF destOK THEN OpenAs(r) ELSE "error") \in UploadPC
      BY <3>1 DEF UploadPC
    <3>5. /\ upl' \in [pc : UploadPC, rec : Recs \cup {None}, aud : Recs \cup {None}, conflict : BOOLEAN]
          /\ upl'.rec = r /\ upl'.conflict = FALSE
          /\ upl'.pc = "put" => upl'.aud \in Recs
      <4> DEFINE pc == IF destOK THEN OpenAs(r) ELSE "error"
      <4>1. pc \in UploadPC /\ (pc = "put" => vis[path[r]] \in Recs)
        BY <3>1, <3>4
      <4>2. CASE upl' = [pc |-> "cleanup", rec |-> r, aud |-> None, conflict |-> FALSE]
        BY <4>2 DEF UploadPC
      <4> HIDE DEF pc
      <4>3. CASE upl' = [pc |-> pc, rec |-> r, aud |-> vis[path[r]], conflict |-> FALSE]
        BY <3>1, <4>1, <4>3
      <4>. QED BY <3>2, <4>2, <4>3 DEF pc
    <3>. QED BY <1>d, <3>3, <3>5 DEF ServiceTyped
  <2>3. held[r] # None /\ phase[r] = "done"
    BY <1>1, <1>d, <1>o DEF TakeDue, Due, RecorderOwns, TicketTyped
  <2>4. RecorderOwns' /\ RecoveryOwns' /\ WorkerOwns'
    BY <1>1, <1>o, <2>2, <2>3 DEF TakeDue, RecorderOwns, RecoveryOwns, WorkerOwns, AllGens
  <2>. QED BY <2>1, <2>2, <2>4 DEF Owners, TypeOK, OneOwner
<1>2. ASSUME NEW o \in PutOutcomes, Put(o) PROVE Owners'
  <2> DEFINE r == upl.rec
  <2>1. /\ r \in Recs /\ held[r] # None /\ held[r] \in Ticket /\ phase[r] = "done"
        /\ held[r].key \in Keys /\ upl.aud \in Recs
    BY <1>2, <1>o, TakenTicket DEF Put, WorkerOwns, Ticket
  <2>2. DiskTyped' /\ FileTyped' /\ TicketTyped' /\ HistoryTyped'
    BY <1>2, <1>d DEF Put, DiskTyped, FileTyped, TicketTyped, HistoryTyped, Lose
  <2>3. S3Typed'
    <3>1. CASE o \in {"ok", "lostreply"}
      BY <1>2, <1>d, <2>1, <3>1, CommitTyped DEF Put, S3Typed
    <3>2. CASE o \in {"pending", "dropped", "taken"}
      BY <1>2, <1>d, <2>1, <3>2 DEF Put, S3Typed
    <3>. QED BY <1>2, <3>1, <3>2 DEF PutOutcomes
  <2>4. ServiceTyped' /\ upl'.pc # "put" /\ upl'.rec = r /\ upl'.aud = upl.aud
    BY <1>2, <1>d DEF Put, ServiceTyped, UploadPC
  <2>5. RecorderOwns' /\ RecoveryOwns' /\ WorkerOwns'
    BY <1>2, <1>o, <2>1, <2>4 DEF Put, RecorderOwns, RecoveryOwns, WorkerOwns, AllGens
  <2>. QED BY <2>2, <2>3, <2>4, <2>5 DEF Owners, TypeOK, OneOwner
<1>3. ASSUME NEW reply \in BOOLEAN, NEW o \in WriteOutcomes, Head(reply, o) PROVE Owners'
  <2> DEFINE r == upl.rec
  <2>1. /\ r \in Recs /\ held[r] # None /\ held[r] \in Ticket /\ phase[r] = "done" /\ up = "running"
    BY <1>3, TakenTicket DEF Head
  <2>2. /\ DiskTyped' /\ TicketsTyped' /\ held'[r] # None
        /\ \A q \in Recs \ {r} : held'[q] = held[q] /\ AllGens(q)' \subseteq AllGens(q)
    <3>1. CASE UNCHANGED <<gens, imgs, held>>
      BY <1>d, <2>1, <3>1 DEF DiskTyped, TicketsTyped, AllGens
    <3>2. CASE NextKey(r, o)
      BY SMTT(60), <1>d, <2>1, <3>2, NextKeyEffect
    <3>. QED BY <1>3, <3>1, <3>2 DEF Head, HeadDone
  <2>3. FileTyped' /\ TicketTyped' /\ S3Typed' /\ idx' = idx
    BY ZenonT(60), <1>3, <1>d, <2>2 DEF Head, HeadDone, NextKey, FileTyped, TicketTyped, TicketsTyped, S3Typed
  <2>4. HistoryTyped'
    BY <1>3, <1>d DEF Head, HistoryTyped, Spend, Cost, Lose
  <2>5. /\ ServiceTyped' /\ upl'.rec = r /\ upl'.aud = upl.aud /\ upl'.conflict = upl.conflict
        /\ upl'.pc = "put" => upl.conflict
    BY <1>3, <1>d DEF Head, HeadDone, NextKey, ServiceTyped, UploadPC
  <2>6. RecorderOwns'
    BY <1>3, <1>o, <2>1, <2>2, <2>3 DEF Head, RecorderOwns
  <2>7. RecoveryOwns' /\ WorkerOwns'
    BY <1>3, <1>d, <1>o, <2>1, <2>2, <2>3, <2>5 DEF Head, RecoveryOwns, WorkerOwns
  <2>. QED BY <2>2, <2>3, <2>4, <2>5, <2>6, <2>7 DEF Owners, TypeOK, OneOwner
<1>4. ASSUME NEW o \in WriteOutcomes, NEW pc \in UploadPC \ {"idle"}, NEW state \in States,
             NEW next \in {"cleanup", "idle"}, Finished(pc, state, next, o)
      PROVE Owners'
  <2> DEFINE r == upl.rec
  <2>1. /\ r \in Recs /\ held[r] # None /\ held[r] \in Ticket /\ phase[r] = "done" /\ up = "running"
    BY <1>4, TakenTicket DEF Finished
  <2>2. [held[r] EXCEPT !.state = state] \in Ticket /\ [held[r] EXCEPT !.state = state].state = state
    BY <2>1 DEF Ticket
  <2>3. /\ DiskTyped' /\ TicketsTyped' /\ held'[r] # None
        /\ \A q \in Recs \ {r} : held'[q] = held[q] /\ AllGens(q)' \subseteq AllGens(q)
    BY <1>4, <1>d, <2>1, <2>2, UpdateEffect DEF Finished, Save
  <2>4. FileTyped' /\ TicketTyped'
    BY <1>4, <1>d, <2>1, <2>2, <2>3 DEF Finished, Save, FileTyped, TicketTyped, TicketsTyped
  <2>5. S3Typed' /\ HistoryTyped'
    BY <1>4, <1>d DEF Finished, Save, S3Typed, HistoryTyped, Spend, Cost
  <2>6. /\ ServiceTyped' /\ upl'.pc # "put"
        /\ upl'.pc # "idle" => upl'.rec = r /\ upl'.aud = upl.aud /\ upl'.conflict = upl.conflict
        /\ upl'.pc = "idle" => ~upl'.conflict
    BY <1>4, <1>d, <2>1 DEF Finished, ServiceTyped, UploadPC, IdleUpload
  <2>7. RecorderOwns'
    BY <1>4, <1>d, <1>o, <2>1, <2>3 DEF Finished, Save, RecorderOwns, TicketTyped
  <2>8. RecoveryOwns' /\ WorkerOwns'
    BY <1>4, <1>d, <1>o, <2>1, <2>3, <2>6 DEF Finished, Save, RecoveryOwns, WorkerOwns
  <2>. QED BY <2>3, <2>4, <2>5, <2>6, <2>7, <2>8 DEF Owners, TypeOK, OneOwner
<1>5. ASSUME NEW o \in CleanupOutcomes, Cleanup(o) PROVE Owners'
  <2> DEFINE r == upl.rec
  <2>1. /\ r \in Recs /\ held[r] # None /\ held[r] \in Ticket /\ phase[r] = "done" /\ up = "running"
    BY <1>5, TakenTicket DEF Cleanup
  <2>2. held' = [held EXCEPT ![r] = None] \/ held' = held
    BY <1>5 DEF Cleanup, ClearTicket
  <2>3. /\ DiskTyped' /\ TicketsTyped'
        /\ held'[r] = None \/ held'[r] = held[r]
        /\ \A q \in Recs \ {r} : held'[q] = held[q]
        /\ \A q \in Recs : AllGens(q)' \subseteq AllGens(q)
    <3>1. CASE o \in RemoveOutcomes
      BY <1>5, <1>d, <2>1, <2>2, <3>1, RemoveEffect DEF Cleanup
    <3>2. CASE o \notin RemoveOutcomes
      BY <1>5, <1>d, <2>1, <2>2, <3>2 DEF Cleanup, DiskTyped, TicketsTyped, AllGens
    <3>. QED BY <3>1, <3>2
  <2>4. FileTyped'
    BY <1>5, <1>d, <2>1 DEF Cleanup, ClearTicket, FileTyped, TicketTyped
  <2>5. TicketTyped'
    BY <1>5, <1>d, <2>1, <2>3 DEF Cleanup, ClearTicket, TicketTyped, TicketsTyped
  <2>6. S3Typed' /\ HistoryTyped'
    BY <1>5, <1>d DEF Cleanup, S3Typed, HistoryTyped, Spend, Cost
  <2>7. /\ ServiceTyped' /\ upl'.pc # "put"
        /\ upl'.pc # "idle" => /\ upl'.rec = r /\ upl'.aud = upl.aud /\ upl'.conflict = upl.conflict
                               /\ held' = held
        /\ upl'.pc = "idle" => ~upl'.conflict
    BY <1>5, <1>d, <2>1 DEF Cleanup, ServiceTyped, UploadPC, IdleUpload
  <2>8. RecorderOwns'
    BY <1>5, <1>d, <1>o, <2>1, <2>3 DEF Cleanup, ClearTicket, RecorderOwns, TicketTyped
  <2>9. RecoveryOwns' /\ WorkerOwns'
    BY <1>5, <1>d, <1>o, <2>1, <2>3, <2>7 DEF Cleanup, RecoveryOwns, WorkerOwns
  <2>. QED BY <2>3, <2>4, <2>5, <2>6, <2>7, <2>8, <2>9 DEF Owners, TypeOK, OneOwner
<1>6. ASSUME NEW o \in WriteOutcomes,
             UploadDelivered(o) \/ UploadLost(o) \/ UploadFailed(o) \/ CleanupFailed(o)
      PROVE Owners'
  BY <1>4, <1>6
  DEF UploadDelivered, UploadLost, UploadFailed, CleanupFailed, UploadPC, States
<1>. QED BY <1>1, <1>2, <1>3, <1>5, <1>6 DEF UploaderNext

\* What one step of recovery does to ticket r: nothing to the others, no key
\* it did not have, and it stays known unless it is removed.
RecoveryStep(r) ==
  /\ DiskTyped' /\ TicketsTyped' /\ idx' \in [Recs -> States \cup {"none"}]
  /\ faults' \in Nat
  /\ vis' \in [Paths -> Recs \cup {None}] /\ marker' \in [Paths -> {"none", "seen", "kept"}]
  /\ held'[r] # None => held'[r].key = held[r].key
  /\ idx'[r] # "none" => held'[r] # None
  /\ \A q \in Recs \ {r} : held'[q] = held[q] /\ idx'[q] = idx[q] /\ AllGens(q)' \subseteq AllGens(q)
  /\ \A g \in AllGens(r)' : g \in AllGens(r) \/ g.key = held[r].key

\* The outcomes of a visit to ticket r.
Recovers(r, o) ==
  \/ faults' \in Nat /\ RecoverKeep(r)
  \/ \E state \in States : RecoverAs(r, state, o)
  \/ RecoverDrop(r, o) /\ (UNCHANGED vis \/ vis' = [vis EXCEPT ![path[r]] = None])

LEMMA RecoveryEffect ==
  ASSUME Owners, NEW r \in Recs, NEW o, held[r] # None,
         Recovers(r, o)
  PROVE  RecoveryStep(r)
<1>d. DiskTyped /\ TicketsTyped /\ FileTyped /\ TicketTyped /\ HistoryTyped
  BY DEF Owners, TypeOK, TicketTyped, TicketsTyped
<1>1. held[r] \in Ticket /\ held[r].state \in States
  BY <1>d DEF TicketsTyped, Ticket
<1>2. CASE faults' \in Nat /\ RecoverKeep(r)
  <2>1. DiskTyped' /\ TicketsTyped' /\ idx' \in [Recs -> States \cup {"none"}]
    BY <1>d, <1>1, <1>2 DEF RecoverKeep, DiskTyped, TicketsTyped, TicketTyped
  <2>2. faults' \in Nat /\ vis' = vis /\ marker' = marker /\ held' = held
    BY <1>2 DEF RecoverKeep
  <2>. QED BY <1>d, <1>2, <2>1, <2>2 DEF RecoverKeep, RecoveryStep, FileTyped, TicketTyped, AllGens
<1>3. ASSUME NEW state \in States, RecoverAs(r, state, o) PROVE RecoveryStep(r)
  <2>1. /\ [held[r] EXCEPT !.state = state] \in Ticket
        /\ [held[r] EXCEPT !.state = state].key = held[r].key
        /\ [held[r] EXCEPT !.state = state].state = state
    BY <1>1 DEF Ticket
  <2>2. /\ DiskTyped' /\ TicketsTyped' /\ held'[r] # None /\ held'[r].key = held[r].key
        /\ \A q \in Recs \ {r} : held'[q] = held[q] /\ AllGens(q)' \subseteq AllGens(q)
        /\ \A g \in AllGens(r)' : g \in AllGens(r) \/ g.key = held[r].key
    BY <1>3, <1>d, <2>1, UpdateEffect DEF RecoverAs, Save
  <2>3. faults' \in Nat /\ vis' = vis /\ marker' = marker /\ idx' = [idx EXCEPT ![r] = state]
    BY <1>d, <1>3, <2>1 DEF RecoverAs, Save, Spend, Cost, HistoryTyped
  <2>. QED BY <1>d, <2>2, <2>3 DEF RecoveryStep, FileTyped, TicketTyped
<1>4. CASE RecoverDrop(r, o) /\ (UNCHANGED vis \/ vis' = [vis EXCEPT ![path[r]] = None])
  <2>1. held' = [held EXCEPT ![r] = None] \/ held' = held
    BY <1>4 DEF RecoverDrop, ClearTicket
  <2>2. /\ DiskTyped' /\ TicketsTyped'
        /\ held'[r] = None \/ held'[r] = held[r]
        /\ \A q \in Recs \ {r} : held'[q] = held[q]
        /\ \A q \in Recs : AllGens(q)' \subseteq AllGens(q)
    BY <1>4, <1>d, <2>1, RemoveEffect DEF RecoverDrop
  <2>3. faults' \in Nat
    BY <1>d, <1>4 DEF RecoverDrop, Spend, Cost, HistoryTyped
  <2>4. /\ vis' \in [Paths -> Recs \cup {None}] /\ marker' \in [Paths -> {"none", "seen", "kept"}]
    BY <1>d, <1>4 DEF RecoverDrop, ClearTicket, FileTyped, TicketTyped
  <2>5. /\ idx' \in [Recs -> States \cup {"none"}]
        /\ idx'[r] # "none" => held'[r] # None
        /\ \A q \in Recs \ {r} : idx'[q] = idx[q]
    BY <1>d, <1>1, <1>4 DEF RecoverDrop, ClearTicket, TicketTyped
  <2>. QED BY <2>2, <2>3, <2>4, <2>5 DEF RecoveryStep
<1>. QED BY <1>2, <1>3, <1>4 DEF Recovers

\* A visit of recovery to ticket r.
Visits(r, o) ==
  RecoverSettled(r, o) \/ (\E avail \in BOOLEAN : RecoverWithoutAudio(r, avail, o)) \/ RecoverAudio(r, o)

LEMMA VisitEffect ==
  ASSUME Owners, NEW r \in Recs, NEW o, Visits(r, o)
  PROVE  RecoveryStep(r) /\ held[r] # None /\ r \in boot /\ boot' = boot \ {r} /\ up = "booting"
<1>d. HistoryTyped
  BY DEF Owners, TypeOK
<1>1. r \in boot /\ boot' = boot \ {r} /\ up = "booting"
  BY DEF Visits, RecoverSettled, RecoverWithoutAudio, RecoverAudio, Visit
<1>2. held[r] # None
  BY <1>1 DEF Owners, OneOwner, RecoveryOwns
<1>3. CASE RecoverSettled(r, o)
  <2>1. (faults' \in Nat /\ RecoverKeep(r)) \/ RecoverAs(r, "failed", o)
    BY <1>3, <1>d DEF RecoverSettled, Spend, HistoryTyped
  <2>2. Recovers(r, o)
    BY <2>1 DEF Recovers, States
  <2>. QED BY <1>1, <1>2, <2>2, RecoveryEffect
<1>4. ASSUME NEW avail \in BOOLEAN, RecoverWithoutAudio(r, avail, o) PROVE RecoveryStep(r)
  <2>1. \/ faults' \in Nat /\ RecoverKeep(r)
        \/ RecoverAs(r, "ready", o) \/ RecoverAs(r, "lost", o)
        \/ RecoverDrop(r, o) /\ vis' = [vis EXCEPT ![path[r]] = None]
    BY <1>4, <1>d DEF RecoverWithoutAudio, Spend, HistoryTyped
  <2>2. Recovers(r, o)
    BY <2>1 DEF Recovers, States
  <2>. QED BY <1>1, <1>2, <2>2, RecoveryEffect
<1>5. CASE RecoverAudio(r, o)
  <2>1. (RecoverDrop(r, o) /\ UNCHANGED vis) \/ RecoverAs(r, "ready", o)
    BY <1>5 DEF RecoverAudio
  <2>2. Recovers(r, o)
    BY <2>1 DEF Recovers, States
  <2>. QED BY <1>1, <1>2, <2>2, RecoveryEffect
<1>. QED BY <1>1, <1>2, <1>3, <1>4, <1>5 DEF Visits

LEMMA OwnersRecovery ==
  ASSUME Owners, RecoveryNext PROVE Owners'
<1> USE DEF fileVars, tickVars, sysVars, s3Vars, histVars
<1>d. DiskTyped /\ TicketsTyped /\ FileTyped /\ TicketTyped /\ ServiceTyped /\ S3Typed /\ HistoryTyped
  BY DEF Owners, TypeOK, TicketTyped, TicketsTyped
<1>o. RecorderOwns /\ RecoveryOwns /\ WorkerOwns
  BY DEF Owners, OneOwner
<1>1. ASSUME NEW bad \in SUBSET Recs, NEW synced \in BOOLEAN, Load(bad, synced) PROVE Owners'
  <2>1. DiskTyped' /\ \A q \in Recs : AllGens(q)' \subseteq AllGens(q)
    BY <1>1, <1>d, LoadDisk DEF Load
  <2>2. /\ TicketsTyped'
        /\ \A q \in Recs : phase[q] = "unborn" => held'[q] = None
        /\ \A q \in boot' : held'[q] # None
        /\ boot' \subseteq Recs
    <3>1. CASE synced
      BY <1>1, <1>d, <1>o, <3>1, LoadedTicket, OutboxAssumption
      DEF Load, RecorderOwns, TicketsTyped, AllGens, Newest, Valid, DiskTyped
    <3>2. CASE ~synced
      BY <1>1, <1>d, <1>o, <3>2 DEF Load, RecorderOwns, RecoveryOwns, TicketsTyped, ServiceTyped
    <3>. QED BY <3>1, <3>2
  <2>3. FileTyped' /\ TicketTyped' /\ S3Typed'
    BY <1>1, <1>d, <2>2 DEF Load, FileTyped, TicketTyped, TicketsTyped, S3Typed
  <2>4. ServiceTyped'
    BY <1>1, <1>d, <2>2 DEF Load, ServiceTyped
  <2>5. HistoryTyped'
    <3>1. Cardinality(bad) \in Nat
      BY FS_Subset, FS_CardinalityType, TicketDiskAssumption
    <3>. QED BY <1>1, <1>d, <3>1 DEF Load, HistoryTyped, Spend
  <2>6. RecorderOwns'
    BY <1>1, <1>o, <2>1, <2>2 DEF Load, RecorderOwns, RecoveryOwns
  <2>7. RecoveryOwns' /\ WorkerOwns'
    BY <1>1, <1>d, <1>o, <2>2 DEF Load, RecoveryOwns, WorkerOwns, IdleUpload
  <2>. QED BY <2>1, <2>3, <2>4, <2>5, <2>6, <2>7 DEF Owners, TypeOK, OneOwner
<1>2. ASSUME NEW r \in Recs, NEW o, Visits(r, o) PROVE Owners'
  <2>1. /\ RecoveryStep(r) /\ held[r] # None /\ r \in boot /\ boot' = boot \ {r} /\ up = "booting"
    BY <1>2, VisitEffect
  <2>2. /\ UNCHANGED <<ent, path, mode, phase, up, unreadable, upl, s3Vars, histVars, crashes, losses>>
        /\ bytes' \in [Recs -> {"none", "cached", "synced"}]
    BY <1>2, <1>d DEF Visits, RecoverSettled, RecoverWithoutAudio, RecoverAudio, FileTyped, TicketTyped
  <2>3. DiskTyped' /\ FileTyped' /\ TicketTyped'
    BY <1>d, <2>1, <2>2 DEF RecoveryStep, FileTyped, TicketTyped, TicketsTyped
  <2>4. ServiceTyped' /\ S3Typed' /\ HistoryTyped'
    BY <1>d, <2>1, <2>2 DEF RecoveryStep, ServiceTyped, S3Typed, HistoryTyped
  <2>5. RecorderOwns'
    BY <1>d, <1>o, <2>1, <2>2 DEF RecoveryStep, RecorderOwns, RecoveryOwns
  <2>6. RecoveryOwns' /\ WorkerOwns'
    <3>1. \A q \in boot' : held'[q] # None
      BY <1>d, <1>o, <2>1 DEF RecoveryStep, RecoveryOwns, ServiceTyped
    <3>2. upl' = IdleUpload /\ up' = "booting" /\ phase' = phase
      BY <1>o, <2>1, <2>2 DEF RecoveryOwns
    <3>. QED BY <1>o, <2>1, <3>1, <3>2 DEF RecoveryOwns, WorkerOwns, IdleUpload
  <2>. QED BY <2>3, <2>4, <2>5, <2>6 DEF Owners, TypeOK, OneOwner
<1>3. CASE Serve
  <2>1. DiskTyped' /\ FileTyped' /\ TicketTyped' /\ ServiceTyped' /\ S3Typed' /\ HistoryTyped'
    BY <1>3, <1>d DEF Serve, DiskTyped, FileTyped, TicketTyped, ServiceTyped, S3Typed, HistoryTyped
  <2>2. RecorderOwns' /\ RecoveryOwns' /\ WorkerOwns'
    BY <1>3, <1>o DEF Serve, RecorderOwns, RecoveryOwns, WorkerOwns, AllGens
  <2>. QED BY <2>1, <2>2 DEF Owners, TypeOK, OneOwner
<1>. QED BY <1>1, <1>2, <1>3 DEF RecoveryNext, Visits

LEMMA OwnersEnvironment ==
  ASSUME Owners, EnvironmentNext PROVE Owners'
<1> USE DEF fileVars, tickVars, sysVars, s3Vars, histVars
<1>d. DiskTyped /\ TicketsTyped /\ FileTyped /\ TicketTyped /\ ServiceTyped /\ S3Typed /\ HistoryTyped
  BY DEF Owners, TypeOK, TicketTyped, TicketsTyped
<1>o. RecorderOwns /\ RecoveryOwns /\ WorkerOwns
  BY DEF Owners, OneOwner
<1>1. ASSUME NEW l \in late, NEW applied \in BOOLEAN, LateReply(l, applied) PROVE Owners'
  <2>1. DiskTyped' /\ FileTyped' /\ TicketTyped' /\ ServiceTyped' /\ HistoryTyped'
    BY <1>1, <1>d DEF LateReply, DiskTyped, FileTyped, TicketTyped, ServiceTyped, HistoryTyped
  <2>2. S3Typed'
    <3>1. l.rec \in Recs /\ l.key \in Keys /\ l.aud \in Recs
      BY <1>d DEF S3Typed
    <3>2. CASE applied
      BY <1>1, <1>d, <3>1, <3>2, CommitTyped DEF LateReply, S3Typed
    <3>3. CASE ~applied
      BY <1>1, <1>d, <3>3 DEF LateReply, S3Typed
    <3>. QED BY <3>2, <3>3
  <2>3. RecorderOwns' /\ RecoveryOwns' /\ WorkerOwns'
    BY <1>1, <1>o DEF LateReply, RecorderOwns, RecoveryOwns, WorkerOwns, AllGens
  <2>. QED BY <2>1, <2>2, <2>3 DEF Owners, TypeOK, OneOwner
<1>2. ASSUME NEW k \in Keys, Expire(k) PROVE Owners'
  <2>1. DiskTyped' /\ FileTyped' /\ TicketTyped' /\ ServiceTyped' /\ HistoryTyped'
    BY <1>2, <1>d DEF Expire, DiskTyped, FileTyped, TicketTyped, ServiceTyped, HistoryTyped
  <2>2. S3Typed'
    BY <1>2, <1>d DEF Expire, S3Typed, Object
  <2>3. RecorderOwns' /\ RecoveryOwns' /\ WorkerOwns'
    BY <1>2, <1>o DEF Expire, RecorderOwns, RecoveryOwns, WorkerOwns, AllGens
  <2>. QED BY <2>1, <2>2, <2>3 DEF Owners, TypeOK, OneOwner
<1>3. ASSUME NEW p \in Paths, Vanish(p) \/ Retention(p) PROVE Owners'
  <2>1. DiskTyped' /\ FileTyped' /\ TicketTyped'
    BY <1>3, <1>d DEF Vanish, Retention, DiskTyped, FileTyped, TicketTyped
  <2>2. ServiceTyped' /\ S3Typed' /\ HistoryTyped'
    BY <1>3, <1>d DEF Vanish, Retention, FileTyped, ServiceTyped, S3Typed, HistoryTyped
  <2>3. RecorderOwns' /\ RecoveryOwns' /\ WorkerOwns'
    BY <1>3, <1>o DEF Vanish, Retention, RecorderOwns, RecoveryOwns, WorkerOwns, AllGens
  <2>. QED BY <2>1, <2>2, <2>3 DEF Owners, TypeOK, OneOwner
<1>4. ASSUME Stopped, DiskTyped', FileTyped', audio' \subseteq Recs,
             \A q \in Recs : phase[q] = "unborn" => AllGens(q)' = {}
      PROVE Owners'
  <2>1. TicketTyped'
    BY <1>4, <1>d DEF Stopped, TicketTyped
  <2>2. ServiceTyped' /\ S3Typed' /\ HistoryTyped'
    BY <1>4, <1>d DEF Stopped, ServiceTyped, S3Typed, HistoryTyped, IdleUpload, UploadPC
  <2>3. RecorderOwns' /\ RecoveryOwns' /\ WorkerOwns'
    BY <1>4, <1>d, <1>o DEF Stopped, RecorderOwns, RecoveryOwns, WorkerOwns, IdleUpload, TicketTyped
  <2>. QED BY <1>4, <2>1, <2>2, <2>3 DEF Owners, TypeOK, OneOwner
<1>5. ASSUME NEW torn \in SUBSET Recs, Kill(torn) PROVE Owners'
  <2>1. DiskTyped' /\ \A q \in Recs \ torn : AllGens(q)' \subseteq AllGens(q)
    BY <1>5, <1>d, KillDisk
  <2>2. FileTyped' /\ audio' \subseteq Recs
    BY <1>5, <1>d DEF Kill, FileTyped, HistoryTyped
  <2>3. \A q \in Recs : phase[q] = "unborn" => AllGens(q)' = {}
    BY <1>5, <1>o, <2>1 DEF Kill, RecorderOwns
  <2>. QED BY <1>4, <1>5, <2>1, <2>2, <2>3 DEF Kill
<1>6. ASSUME NEW G \in [Recs -> UNION {Leaves(r) : r \in Recs}], \A r \in Recs : G[r] \in Leaves(r),
             NEW P \in SUBSET Paths, NEW M \in SUBSET Paths, NEW L \in SUBSET Recs,
             PowerCut(G, P, M, L)
      PROVE Owners'
  <2>1. DiskTyped' /\ \A q \in Recs : AllGens(q)' \subseteq AllGens(q)
    BY <1>6, <1>d, PowerCutDisk
  <2>2. FileTyped' /\ audio' \subseteq Recs
    BY <1>6, <1>d DEF PowerCut, FileTyped, HistoryTyped
  <2>3. \A q \in Recs : phase[q] = "unborn" => AllGens(q)' = {}
    BY <1>o, <2>1 DEF RecorderOwns
  <2>. QED BY <1>4, <1>6, <2>1, <2>2, <2>3 DEF PowerCut
<1>7. CASE Crash
  <2>1. CASE \E torn \in {{}} \cup {{r} : r \in Recs} : Kill(torn)
    BY <1>5, <2>1
  <2>. QED BY <1>6, <1>7, <2>1 DEF Crash
<1>. QED BY <1>1, <1>2, <1>3, <1>7 DEF EnvironmentNext

\* The index and the owners stay right: the step of the induction.
LEMMA OwnersNext == Owners /\ [Next]_vars => Owners'
<1> SUFFICES ASSUME Owners, [Next]_vars PROVE Owners'
  OBVIOUS
<1>1. CASE UNCHANGED vars
  BY <1>1
  DEF vars, fileVars, tickVars, sysVars, s3Vars, histVars, Owners, TypeOK, OneOwner, DiskTyped,
      FileTyped, TicketTyped, ServiceTyped, S3Typed, HistoryTyped, RecorderOwns, RecoveryOwns,
      WorkerOwns, AllGens
<1>. QED
  BY <1>1, OwnersRecorder, OwnersUploader, OwnersRecovery, OwnersEnvironment DEF Next

\* Every behaviour is type correct: with any number of recordings, paths and
\* keys, crashes and failures, on a journaled file system or not.
THEOREM TypeCorrect == Spec => []TypeOK
<1>1. Owners => TypeOK
  BY DEF Owners
<1>. QED BY <1>1, OwnersInit, OwnersNext, PTL DEF Spec

\* At every moment a ticket has at most one owner among the recorder, the
\* recovery and the upload worker, which therefore need no lock on it.
THEOREM SingleOwner == Spec => []OneOwner
<1>1. Owners => OneOwner
  BY DEF Owners
<1>. QED BY <1>1, OwnersInit, OwnersNext, PTL DEF Spec

-------------------------------------------------------------------------------
(* One ticket, one object                                                  *)

\* The keys of the tickets, with their owners and on disk, after a step.
KeysReached ==
  \A q \in Recs :
    /\ held'[q] # None => Below(q, held'[q].key)
    /\ \A g \in AllGens(q)' : Below(q, g.key)

\* A step that leaves S3 alone keeps the frontier when the keys it writes are
\* within it.
LEMMA FrontierKept ==
  ASSUME KeyFrontier, ObjectsStay, UNCHANGED <<obj, late, puts>>, KeysReached
  PROVE  KeyFrontier' /\ ObjectsStay'
<1>1. \A q \in Recs : \A k : Below(q, k) => Below(q, k)'
  BY DEF Below
<1>2. \A q \in Recs : /\ (\A l \in late' : l.rec = q => Below(q, l.key))
                      /\ (\A x \in puts' : x.id = q => Below(q, x.key))
  BY DEF KeyFrontier
<1>3. KeyFrontier'
  BY <1>1, <1>2 DEF KeyFrontier, KeysReached
<1>. QED BY <1>3 DEF ObjectsStay

\* A step that only forgets tickets and generations, or touches neither.
LEMMA FrontierForget ==
  ASSUME KeyFrontier, ObjectsStay, UNCHANGED <<obj, late, puts>>,
         \A q \in Recs : /\ held'[q] # None => held[q] # None /\ held'[q].key = held[q].key
                         /\ AllGens(q)' \subseteq AllGens(q)
  PROVE  KeyFrontier' /\ ObjectsStay'
<1>1. KeysReached
  BY DEF KeysReached, KeyFrontier
<1>. QED BY <1>1, FrontierKept

\* A step of the owner of ticket r that writes key k, and leaves k or nothing
\* in memory.
LEMMA FrontierWrite ==
  ASSUME KeyFrontier, ObjectsStay, UNCHANGED <<obj, late, puts>>,
         NEW r \in Recs, NEW k, Below(r, k),
         held'[r] # None => Below(r, held'[r].key),
         \A q \in Recs \ {r} : held'[q] = held[q] /\ AllGens(q)' \subseteq AllGens(q),
         \A g \in AllGens(r)' : g \in AllGens(r) \/ g.key = k
  PROVE  KeyFrontier' /\ ObjectsStay'
<1>1. KeysReached
  BY DEF KeysReached, KeyFrontier
<1>. QED BY <1>1, FrontierKept

\* An object created at a free key the ticket had reached.
LEMMA FrontierCommit ==
  ASSUME S3Typed, KeyFrontier, ObjectsStay, UNCHANGED <<gens, imgs, held>>, late' \subseteq late,
         NEW r \in Recs, NEW k \in Keys, NEW a \in Recs, Below(r, k), Commit(r, k, a)
  PROVE  KeyFrontier' /\ ObjectsStay'
<1>1. obj[k].id = None /\ obj' = [obj EXCEPT ![k] = [id |-> r, aud |-> a]]
  BY DEF Commit, FreeKey, Object
<1>2. obj'[k] = [id |-> r, aud |-> a] /\ \A j \in Keys \ {k} : obj'[j] = obj[j]
  BY <1>1 DEF S3Typed
<1>3. \A q \in Recs : \A j : Below(q, j) => Below(q, j)'
  <2> SUFFICES ASSUME NEW q \in Recs, NEW j, Below(q, j), NEW i \in Keys, i < j
               PROVE  obj'[i].id \notin {None, q}
    BY DEF Below
  <2>1. i # k
    BY <1>1 DEF Below
  <2>. QED BY <1>2, <2>1 DEF Below
<1>4. puts' = puts \cup {[id |-> r, key |-> k, aud |-> a]}
  BY DEF Commit
<1>5. \A q \in Recs : \A x \in puts' : x.id = q => Below(q, x.key)
  BY <1>4 DEF KeyFrontier
<1>6. KeyFrontier'
  BY <1>3, <1>5 DEF KeyFrontier, AllGens
<1>7. \A x \in puts : obj'[x.key] = [id |-> x.id, aud |-> x.aud]
  <2> SUFFICES ASSUME NEW x \in puts PROVE obj'[x.key] = [id |-> x.id, aud |-> x.aud]
    OBVIOUS
  <2>1. x.id \in Recs /\ x.key \in Keys /\ obj[x.key] = [id |-> x.id, aud |-> x.aud]
    BY DEF S3Typed, ObjectsStay
  <2>2. x.key # k
    BY <1>1, <2>1, OutboxAssumption
  <2>. QED BY <1>2, <2>1, <2>2
<1>. QED BY <1>2, <1>4, <1>6, <1>7 DEF ObjectsStay

\* The state of the induction, in parts.
LEMMA IInvParts ==
  ASSUME IInv
  PROVE  /\ Owners /\ KeyFrontier /\ ObjectsStay
         /\ DiskTyped /\ TicketsTyped /\ TicketTyped /\ ServiceTyped /\ S3Typed
         /\ RecorderOwns /\ RecoveryOwns /\ WorkerOwns
BY DEF IInv, Owners, TypeOK, OneOwner, TicketTyped, TicketsTyped

\* An update that leaves the key alone.
LEMMA FrontierUpdate ==
  ASSUME IInv, NEW r \in Recs, held[r] # None, NEW change \in Ticket, change.key = held[r].key,
         NEW o, Update(r, change, o), UNCHANGED <<obj, late, puts>>
  PROVE  KeyFrontier' /\ ObjectsStay'
<1>1. DiskTyped /\ TicketsTyped /\ KeyFrontier /\ ObjectsStay /\ Below(r, held[r].key)
  BY IInvParts DEF KeyFrontier
<1>2. /\ held'[r].key = held[r].key
      /\ \A q \in Recs \ {r} : held'[q] = held[q] /\ AllGens(q)' \subseteq AllGens(q)
      /\ \A g \in AllGens(r)' : g \in AllGens(r) \/ g.key = held[r].key
  BY <1>1, UpdateEffect
<1>. QED BY <1>1, <1>2, FrontierWrite

\* A removal.
LEMMA FrontierRemove ==
  ASSUME IInv, NEW r \in Recs, NEW o, RemoveFiles(r, o) \/ UNCHANGED <<gens, imgs>>,
         held' = [held EXCEPT ![r] = None] \/ held' = held, UNCHANGED <<obj, late, puts>>
  PROVE  KeyFrontier' /\ ObjectsStay'
<1>1. DiskTyped /\ TicketsTyped /\ KeyFrontier /\ ObjectsStay
  BY IInvParts
<1>2. \A q \in Recs : AllGens(q)' \subseteq AllGens(q)
  BY <1>1, RemoveDisk DEF AllGens
<1>3. \A q \in Recs : held'[q] # None => held[q] # None /\ held'[q].key = held[q].key
  BY <1>1 DEF TicketsTyped
<1>. QED BY <1>1, <1>2, <1>3, FrontierForget

LEMMA FrontierRecorder ==
  ASSUME IInv, RecorderNext PROVE KeyFrontier' /\ ObjectsStay'
<1> USE DEF fileVars, tickVars, sysVars, s3Vars, histVars
<1>i. /\ KeyFrontier /\ ObjectsStay /\ DiskTyped /\ TicketsTyped /\ TicketTyped /\ RecorderOwns
  BY IInvParts
<1>r. \A r \in Recs : phase[r] \notin {"unborn", "done"} => held[r] # None /\ held[r] \in Ticket
  BY <1>i DEF RecorderOwns, TicketsTyped
<1>1. ASSUME NEW r \in Recs, NEW o \in WriteOutcomes \cup {"nodir"}, Reserve(r, o)
      PROVE KeyFrontier' /\ ObjectsStay'
  <2>1. NewTicket \in Ticket /\ NewTicket.key = 1 /\ Below(r, 1)
    BY TicketDiskAssumption DEF NewTicket, Ticket, States, Keys, Below
  <2>2. /\ \A q \in Recs \ {r} : AllGens(q)' \subseteq AllGens(q)
        /\ \A g \in AllGens(r)' : g \in AllGens(r) \/ g.key = 1
    <3>1. CASE o = "nodir"
      BY <1>1, <3>1 DEF Reserve, AllGens
    <3>2. CASE o # "nodir"
      BY <1>1, <1>i, <2>1, <3>2, WriteDisk, GenerationOfTicket DEF Reserve
    <3>. QED BY <3>1, <3>2
  <2>3. /\ \A q \in Recs \ {r} : held'[q] = held[q]
        /\ held'[r] # None => held'[r].key = 1
    BY <1>1, <1>i, <2>1 DEF Reserve, RecorderOwns, TicketsTyped
  <2>. QED BY <1>1, <1>i, <2>1, <2>2, <2>3, FrontierWrite DEF Reserve
<1>2. ASSUME NEW r \in Recs, NEW x \in BOOLEAN, Begin(r) \/ Encode(r, x) \/ FinishBad(r, x)
      PROVE KeyFrontier' /\ ObjectsStay'
  BY <1>2, <1>i, FrontierForget DEF Begin, Encode, FinishBad, AllGens
<1>3. ASSUME NEW r \in Recs, NEW o \in WriteOutcomes, Sync(r, o) PROVE KeyFrontier' /\ ObjectsStay'
  <2>1. held[r] # None /\ held[r] \in Ticket
    BY <1>3, <1>r DEF Sync
  <2>2. [held[r] EXCEPT !.mark = TRUE] \in Ticket /\ [held[r] EXCEPT !.mark = TRUE].key = held[r].key
    BY <2>1 DEF Ticket
  <2>. QED BY <1>3, <2>1, <2>2, FrontierUpdate DEF Sync
<1>4. ASSUME NEW r \in Recs, NEW o \in WriteOutcomes, NEW mk, Fail(r, o, mk)
      PROVE KeyFrontier' /\ ObjectsStay'
  <2>1. held[r] # None /\ held[r] \in Ticket
    BY <1>4, <1>r DEF Fail
  <2>2. /\ [held[r] EXCEPT !.state = "failed"] \in Ticket
        /\ [held[r] EXCEPT !.state = "failed"].key = held[r].key
    BY <2>1 DEF Ticket, States
  <2>. QED BY <1>4, <2>1, <2>2, FrontierUpdate DEF Fail
<1>5. ASSUME NEW r \in Recs, NEW o, NEW cause, Discard(r, o) \/ FinishEmpty(r, cause, o)
      PROVE KeyFrontier' /\ ObjectsStay'
  <2>1. /\ RemoveFiles(r, o) \/ UNCHANGED <<gens, imgs>>
        /\ held' = [held EXCEPT ![r] = None] \/ held' = held
    BY <1>5 DEF Discard, FinishEmpty, RemoveOutput, ClearTicket
  <2>. QED BY <1>5, <2>1, FrontierRemove DEF Discard, FinishEmpty
<1>6. ASSUME NEW r \in Recs, NEW o, FinishCommit(r, o) PROVE KeyFrontier' /\ ObjectsStay'
  <2>1. held[r] # None /\ held[r] \in Ticket
    BY <1>6, <1>r DEF FinishCommit
  <2>2. /\ [held[r] EXCEPT !.state = "ready"] \in Ticket
        /\ [held[r] EXCEPT !.state = "ready"].key = held[r].key
    BY <2>1 DEF Ticket, States
  <2>3. CASE HasDest(r)
    BY <1>6, <2>1, <2>2, <2>3, FrontierUpdate DEF FinishCommit
  <2>4. CASE ~HasDest(r)
    BY <1>6, <2>4, FrontierRemove DEF FinishCommit, ClearTicket
  <2>. QED BY <2>3, <2>4
<1>. QED BY <1>1, <1>2, <1>3, <1>4, <1>5, <1>6 DEF RecorderNext

LEMMA FrontierUploader ==
  ASSUME IInv, UploaderNext PROVE KeyFrontier' /\ ObjectsStay'
<1> USE DEF fileVars, tickVars, sysVars, s3Vars, histVars
<1>i. /\ Owners /\ KeyFrontier /\ ObjectsStay /\ DiskTyped /\ TicketsTyped /\ S3Typed /\ WorkerOwns
  BY IInvParts
<1> DEFINE t == upl.rec
<1>r. upl.pc # "idle" => /\ t \in Recs /\ held[t] # None /\ held[t] \in Ticket
                         /\ held[t].key \in Keys /\ Below(t, held[t].key)
  BY <1>i, TakenTicket DEF Ticket, KeyFrontier
<1>1. ASSUME NEW r \in Recs, NEW destOK, TakeDue(r, destOK) PROVE KeyFrontier' /\ ObjectsStay'
  BY <1>1, <1>i, FrontierForget DEF TakeDue, AllGens
<1>2. ASSUME NEW o \in PutOutcomes, Put(o) PROVE KeyFrontier' /\ ObjectsStay'
  <2>1. /\ t \in Recs /\ held[t].key \in Keys /\ upl.aud \in Recs /\ Below(t, held[t].key)
    BY <1>2, <1>i, <1>r DEF Put, WorkerOwns
  <2>2. UNCHANGED <<gens, imgs, held>>
    BY <1>2 DEF Put
  <2>3. CASE o \in {"ok", "lostreply"}
    <3>1. Commit(t, held[t].key, upl.aud) /\ late' = late
      BY <1>2, <2>3 DEF Put
    <3>. QED BY <1>i, <2>1, <2>2, <3>1, FrontierCommit
  <2>4. CASE o = "pending"
    <3>1. late' = late \cup {[rec |-> t, key |-> held[t].key, aud |-> upl.aud]} /\ UNCHANGED <<obj, puts>>
      BY <1>2, <2>4 DEF Put
    <3>. QED BY <1>i, <2>1, <2>2, <3>1 DEF KeyFrontier, ObjectsStay, Below, AllGens
  <2>5. CASE o \in {"dropped", "taken"}
    <3>1. UNCHANGED <<obj, late, puts>>
      BY <1>2, <2>5 DEF Put
    <3>. QED BY <1>i, <2>2, <3>1, FrontierForget DEF AllGens
  <2>. QED BY <1>2, <2>3, <2>4, <2>5 DEF PutOutcomes
<1>3. ASSUME NEW reply \in BOOLEAN, NEW o, Head(reply, o) PROVE KeyFrontier' /\ ObjectsStay'
  <2>1. CASE UNCHANGED <<gens, imgs, held>>
    BY <1>3, <1>i, <2>1, FrontierForget DEF Head, AllGens
  <2>2. CASE ~Ours(t) /\ ~FreeKey(held[t].key) /\ NextKey(t, o)
    <3>1. PICK r \in Recs : r = t /\ held[r] # None /\ held[r].key \in Keys /\ Below(r, held[r].key)
      BY <1>3, <1>r DEF Head
    <3>2. Below(r, held[r].key + 1)
      BY <2>2, <3>1, TicketDiskAssumption DEF Below, Ours, FreeKey, Keys
    <3>3. /\ held'[r].key \in {held[r].key, held[r].key + 1}
          /\ \A q \in Recs \ {r} : held'[q] = held[q] /\ AllGens(q)' \subseteq AllGens(q)
          /\ \A g \in AllGens(r)' : g \in AllGens(r) \/ g.key = held[r].key + 1
      BY <1>i, <2>2, <3>1, NextKeyEffect
    <3>4. held'[r] # None => Below(r, held'[r].key)
      BY <3>1, <3>2, <3>3
    <3>. QED BY <1>3, <1>i, <3>2, <3>3, <3>4, FrontierWrite DEF Head
  <2>. QED BY <1>3, <2>1, <2>2 DEF Head, HeadDone
<1>4. ASSUME NEW o, NEW pc \in UploadPC \ {"idle"}, NEW state \in States, NEW next,
             Finished(pc, state, next, o)
      PROVE KeyFrontier' /\ ObjectsStay'
  <2>1. t \in Recs /\ held[t] # None /\ held[t] \in Ticket
    BY <1>4, <1>r DEF Finished
  <2>2. /\ [held[t] EXCEPT !.state = state] \in Ticket
        /\ [held[t] EXCEPT !.state = state].key = held[t].key
    BY <2>1 DEF Ticket
  <2>. QED BY <1>4, <2>1, <2>2, FrontierUpdate DEF Finished, Save
<1>5. ASSUME NEW o, UploadDelivered(o) \/ UploadLost(o) \/ UploadFailed(o) \/ CleanupFailed(o)
      PROVE KeyFrontier' /\ ObjectsStay'
  BY <1>4, <1>5 DEF UploadDelivered, UploadLost, UploadFailed, CleanupFailed, UploadPC, States
<1>6. ASSUME NEW o, Cleanup(o) PROVE KeyFrontier' /\ ObjectsStay'
  <2>1. t \in Recs
    BY <1>6, <1>r DEF Cleanup
  <2>2. /\ RemoveFiles(t, o) \/ UNCHANGED <<gens, imgs>>
        /\ held' = [held EXCEPT ![t] = None] \/ held' = held
    BY <1>6 DEF Cleanup, ClearTicket
  <2>. QED BY <1>6, <2>1, <2>2, FrontierRemove DEF Cleanup
<1>. QED BY <1>1, <1>2, <1>3, <1>5, <1>6 DEF UploaderNext

LEMMA FrontierRecovery ==
  ASSUME IInv, RecoveryNext PROVE KeyFrontier' /\ ObjectsStay'
<1> USE DEF fileVars, tickVars, sysVars, s3Vars, histVars
<1>i. /\ Owners /\ KeyFrontier /\ ObjectsStay /\ DiskTyped /\ TicketsTyped
  BY IInvParts
<1>1. ASSUME NEW bad \in SUBSET Recs, NEW synced \in BOOLEAN, Load(bad, synced)
      PROVE KeyFrontier' /\ ObjectsStay'
  <2>1. \A q \in Recs : AllGens(q)' \subseteq AllGens(q)
    BY <1>1, <1>i, LoadDisk DEF Load
  <2>2. \A q \in Recs : held'[q] # None => held'[q] \in gens[q] \/ held'[q] = held[q]
    BY <1>1, <1>i, LoadedTicket DEF Load
  <2>3. KeysReached
    BY <1>i, <2>1, <2>2 DEF KeysReached, KeyFrontier, AllGens
  <2>. QED BY <1>1, <1>i, <2>3, FrontierKept DEF Load
<1>2. ASSUME NEW r \in Recs, NEW o, Visits(r, o) PROVE KeyFrontier' /\ ObjectsStay'
  <2>1. RecoveryStep(r) /\ held[r] # None
    BY <1>2, <1>i, VisitEffect
  <2>2. UNCHANGED <<obj, late, puts>>
    BY <1>2 DEF Visits, RecoverSettled, RecoverWithoutAudio, RecoverAudio
  <2>3. Below(r, held[r].key)
    BY <1>i, <2>1 DEF KeyFrontier
  <2>. QED BY <1>i, <2>1, <2>2, <2>3, FrontierWrite DEF RecoveryStep
<1>3. CASE Serve
  BY <1>3, <1>i, FrontierForget DEF Serve, AllGens
<1>. QED BY <1>1, <1>2, <1>3 DEF RecoveryNext, Visits

LEMMA FrontierEnvironment ==
  ASSUME ~AllowExpire, IInv, EnvironmentNext PROVE KeyFrontier' /\ ObjectsStay'
<1> USE DEF fileVars, tickVars, sysVars, s3Vars, histVars
<1>i. /\ Owners /\ KeyFrontier /\ ObjectsStay /\ DiskTyped /\ TicketsTyped /\ S3Typed
  BY IInvParts
<1>1. ASSUME NEW l \in late, NEW applied \in BOOLEAN, LateReply(l, applied)
      PROVE KeyFrontier' /\ ObjectsStay'
  <2>1. l.rec \in Recs /\ l.key \in Keys /\ l.aud \in Recs /\ Below(l.rec, l.key)
    BY <1>i DEF S3Typed, KeyFrontier
  <2>2. UNCHANGED <<gens, imgs, held>> /\ late' \subseteq late
    BY <1>1 DEF LateReply
  <2>3. CASE applied
    BY <1>1, <1>i, <2>1, <2>2, <2>3, FrontierCommit DEF LateReply
  <2>4. CASE ~applied
    <3>1. UNCHANGED <<obj, puts>>
      BY <1>1, <2>4 DEF LateReply
    <3>. QED BY <1>i, <2>2, <3>1 DEF KeyFrontier, ObjectsStay, Below, AllGens
  <2>. QED BY <2>3, <2>4
<1>2. ASSUME NEW p \in Paths, Vanish(p) \/ Retention(p) PROVE KeyFrontier' /\ ObjectsStay'
  BY <1>2, <1>i, FrontierForget DEF Vanish, Retention, AllGens
<1>3. ASSUME NEW torn \in SUBSET Recs, Kill(torn) PROVE KeyFrontier' /\ ObjectsStay'
  <2>1. KeysReached
    BY <1>3, <1>i, KillDisk DEF Kill, Stopped, KeysReached, KeyFrontier
  <2>. QED BY <1>3, <1>i, <2>1, FrontierKept DEF Kill, Stopped
<1>4. ASSUME NEW G \in [Recs -> UNION {Leaves(r) : r \in Recs}], \A r \in Recs : G[r] \in Leaves(r),
             NEW P, NEW M, NEW L, PowerCut(G, P, M, L)
      PROVE KeyFrontier' /\ ObjectsStay'
  <2>1. \A q \in Recs : AllGens(q)' \subseteq AllGens(q)
    BY <1>4, <1>i, PowerCutDisk
  <2>. QED BY <1>4, <1>i, <2>1, FrontierForget DEF PowerCut, Stopped
<1>5. CASE Crash
  <2>1. CASE \E torn \in {{}} \cup {{r} : r \in Recs} : Kill(torn)
    BY <1>3, <2>1
  <2>. QED BY <1>4, <1>5, <2>1 DEF Crash
<1>6. \A k \in Keys : ~Expire(k)
  BY DEF Expire
<1>. QED BY <1>1, <1>2, <1>5, <1>6 DEF EnvironmentNext

\* The step of the induction.
LEMMA IInvNext ==
  ASSUME ~AllowExpire PROVE IInv /\ [Next]_vars => IInv'
<1> SUFFICES ASSUME IInv, [Next]_vars PROVE IInv'
  OBVIOUS
<1>1. Owners'
  BY IInvParts, OwnersNext
<1>2. KeyFrontier' /\ ObjectsStay'
  BY IInvParts, FrontierRecorder, FrontierUploader, FrontierRecovery, FrontierEnvironment,
     FrontierForget
  DEF Next, vars, s3Vars, tickVars, AllGens
<1>. QED BY <1>1, <1>2 DEF IInv, Owners

\* Whoever created two objects for a ticket passed its own.
LEMMA IInvImpliesAtMostOnce == IInv => AtMostOnce
<1> SUFFICES ASSUME IInv, NEW x \in puts, NEW y \in puts, x.id = y.id PROVE x = y
  BY DEF AtMostOnce
<1>1. KeyFrontier /\ ObjectsStay /\ S3Typed
  BY IInvParts
<1>2. /\ x \in [id : Recs, key : Keys, aud : Recs] /\ y \in [id : Recs, key : Keys, aud : Recs]
  BY <1>1 DEF S3Typed
<1>3. obj[x.key].id = x.id /\ obj[y.key].id = y.id /\ obj[x.key].aud = x.aud /\ obj[y.key].aud = y.aud
  <2>1. obj[x.key] = [id |-> x.id, aud |-> x.aud] /\ obj[y.key] = [id |-> y.id, aud |-> y.aud]
    BY <1>1 DEF ObjectsStay
  <2>. QED BY <2>1
<1>4. Below(x.id, x.key) /\ Below(y.id, y.key)
  BY <1>1, <1>2 DEF KeyFrontier
<1>5. ~(x.key < y.key) /\ ~(y.key < x.key)
  BY <1>2, <1>3, <1>4 DEF Below
<1>6. x.key = y.key
  BY <1>2, <1>5, TicketDiskAssumption DEF Keys
<1>. QED BY <1>2, <1>3, <1>6

\* I4, for the upload: as long as nobody removes objects from S3, a ticket
\* creates at most one, over every lost reply, request applied late, retry
\* under a new key, crash, restart and failing disk step.
THEOREM UploadsOnce ==
  ASSUME ~AllowExpire PROVE Spec => []AtMostOnce
<1>1. Init => IInv
  <2> SUFFICES ASSUME Init PROVE KeyFrontier /\ ObjectsStay
    BY OwnersInit DEF IInv, Owners
  <2>. QED BY DEF Init, KeyFrontier, ObjectsStay, AllGens
<1>2. IInv /\ [Next]_vars => IInv'
  BY IInvNext
<1>. QED BY <1>1, <1>2, IInvImpliesAtMostOnce, PTL DEF Spec

-------------------------------------------------------------------------------
(* A recording that can be delivered is durable                            *)

Settling == {"ready", "delivered"}

\* Somebody takes ticket r for finished: the index, its owner, a generation a
\* crash could bring back, or the worker.
Deliverable(r) ==
  \/ idx[r] \in Settling
  \/ held[r] # None /\ held[r].state \in Settling
  \/ \E g \in AllGens(r) : g.state \in Settling
  \/ upl.pc # "idle" /\ upl.rec = r

\* The file is still the recording's, and its bytes can be lost.
AtRisk(r) == Owned(r) /\ bytes[r] = "cached"

\* Until its recorder has finished, a ticket says nothing else than that.
StillRecording(r) ==
  phase[r] \in {"reserved", "recording", "failing"} =>
    /\ held[r] # None /\ held[r].state = "recording"
    /\ \A g \in AllGens(r) : g.state \in {"recording", "torn"}

DurableInv ==
  \A r \in Recs : StillRecording(r) /\ (AtRisk(r) => ~Deliverable(r))

\* What a step may do to ticket r for it to stay as durable as it was.
StaysDurable(r) ==
  /\ StillRecording(r) => StillRecording(r)'
  /\ AtRisk(r)' /\ Deliverable(r)' => AtRisk(r) /\ Deliverable(r)

LEMMA DurableStep ==
  ASSUME DurableInv, \A r \in Recs : StaysDurable(r)
  PROVE  DurableInv'
BY DEF DurableInv, StaysDurable

\* A step that leaves a ticket's owner, its files and the worker alone, or
\* only takes generations, the index entry or the owner's copy away.
LEMMA DurableForget ==
  ASSUME NEW r \in Recs, AtRisk(r)' => AtRisk(r),
         phase'[r] = phase[r] \/ phase'[r] \in {"unborn", "done"},
         held'[r] = held[r] \/ (held'[r] = None /\ phase'[r] \in {"unborn", "done"}),
         idx'[r] \in {idx[r], "none"},
         \A g \in AllGens(r)' : g \in AllGens(r) \/ g.state = "torn",
         upl'.pc # "idle" => upl'.rec = upl.rec /\ upl.pc # "idle"
  PROVE  StaysDurable(r)
BY DEF StaysDurable, StillRecording, Deliverable, Settling

\* Others than the owner of ticket r are not concerned.
LEMMA DurableOthers ==
  ASSUME NEW r \in Recs, AtRisk(r)' => AtRisk(r),
         phase'[r] = phase[r], held'[r] = held[r], idx'[r] = idx[r], AllGens(r)' \subseteq AllGens(r),
         upl'.pc # "idle" => upl'.rec # r \/ (upl.pc # "idle" /\ upl'.rec = upl.rec)
  PROVE  StaysDurable(r)
BY DEF StaysDurable, StillRecording, Deliverable, Settling

LEMMA DurableRecorder ==
  ASSUME Owners, DurableInv, RecorderNext PROVE \A q \in Recs : StaysDurable(q)
<1> USE DEF fileVars, tickVars, sysVars, s3Vars, histVars
<1>d. DiskTyped /\ TicketsTyped /\ FileTyped /\ TicketTyped
  BY DEF Owners, TypeOK, TicketTyped, TicketsTyped
<1>o. RecorderOwns /\ WorkerOwns
  BY DEF Owners, OneOwner
<1>r. \A r \in Recs : phase[r] \in {"reserved", "recording", "failing"} =>
        /\ held[r] # None /\ held[r] \in Ticket /\ held[r].state = "recording"
        /\ \A g \in AllGens(r) : g.state \in {"recording", "torn"}
        /\ idx[r] = "recording" /\ ~(upl.pc # "idle" /\ upl.rec = r)
  BY <1>d, <1>o DEF DurableInv, StillRecording, RecorderOwns, WorkerOwns, TicketsTyped
<1>u. \A r \in Recs : phase[r] \in {"reserved", "recording", "failing"} => ~Deliverable(r)
  BY <1>r DEF Deliverable, Settling
<1>1. ASSUME NEW r \in Recs, NEW o \in WriteOutcomes \cup {"nodir"}, Reserve(r, o)
      PROVE \A q \in Recs : StaysDurable(q)
  <2>1. NewTicket \in Ticket /\ NewTicket.state = "recording"
    BY TicketDiskAssumption DEF NewTicket, Ticket, States, Keys
  <2>2. AllGens(r) = {} /\ held[r] = None /\ idx[r] = "none" /\ ~(upl.pc # "idle" /\ upl.rec = r)
    BY <1>1, <1>o DEF Reserve, RecorderOwns, WorkerOwns
  <2>3. /\ \A q \in Recs \ {r} : AllGens(q)' \subseteq AllGens(q)
        /\ \A g \in AllGens(r)' : g.state = "recording"
    <3>1. CASE o = "nodir"
      BY <1>1, <2>2, <3>1 DEF Reserve, AllGens
    <3>2. CASE o # "nodir"
      BY <1>1, <1>d, <2>1, <2>2, <3>2, WriteDisk, GenerationOfTicket DEF Reserve
    <3>. QED BY <3>1, <3>2
  <2>4. StaysDurable(r)
    <3>1. /\ held'[r] \in {None, NewTicket} /\ idx'[r] \in {"none", "recording"} /\ upl' = upl
          /\ phase'[r] = "reserved" => held'[r] = NewTicket
          /\ phase'[r] \in {"reserved", "done"}
      BY <1>1, <1>d, <2>2 DEF Reserve, TicketTyped, TicketsTyped
    <3>2. StillRecording(r)' /\ ~Deliverable(r)'
      BY <2>1, <2>2, <2>3, <3>1, OutboxAssumption DEF StillRecording, Deliverable, Settling
    <3>. QED BY <3>2 DEF StaysDurable
  <2>5. \A q \in Recs \ {r} : StaysDurable(q)
    <3> SUFFICES ASSUME NEW q \in Recs \ {r} PROVE StaysDurable(q)
      OBVIOUS
    <3>1. AtRisk(q)' => AtRisk(q)
      BY <1>1, <1>d DEF Reserve, AtRisk, Owned, FileTyped, TicketTyped
    <3>2. phase'[q] = phase[q] /\ held'[q] = held[q] /\ idx'[q] = idx[q] /\ upl' = upl
      BY <1>1, <1>d DEF Reserve, TicketTyped, TicketsTyped
    <3>. QED BY <2>3, <3>1, <3>2, DurableOthers
  <2>. QED BY <2>4, <2>5
<1>2. ASSUME NEW r \in Recs, NEW x, Begin(r) \/ FinishBad(r, x)
      PROVE \A q \in Recs : StaysDurable(q)
  <2>1. /\ UNCHANGED <<gens, imgs, fileVars, path, held, idx, upl>>
        /\ phase[r] \in {"reserved", "recording"} /\ phase'[r] \in {"recording", "failing"}
        /\ \A q \in Recs \ {r} : phase'[q] = phase[q]
    BY <1>2, <1>d DEF Begin, FinishBad, TicketTyped
  <2>. QED BY <2>1 DEF StaysDurable, StillRecording, AtRisk, Owned, Deliverable, AllGens
<1>3. ASSUME NEW r \in Recs, NEW x, Encode(r, x) PROVE \A q \in Recs : StaysDurable(q)
  <2>1. UNCHANGED <<gens, imgs, vis, path, phase, held, idx, upl>> /\ ~Deliverable(r)
    BY <1>3, <1>u DEF Encode
  <2>2. \A q \in Recs \ {r} : bytes'[q] = bytes[q]
    BY <1>3, <1>d DEF Encode, FileTyped
  <2>. QED BY <2>1, <2>2 DEF StaysDurable, StillRecording, AtRisk, Owned, Deliverable, AllGens
<1>4. ASSUME NEW r \in Recs, phase[r] \in {"recording", "failing"},
             NEW change \in Ticket, NEW o, Update(r, change, o),
             UNCHANGED <<vis, path, upl>>,
             \A q \in Recs : bytes'[q] = bytes[q] \/ bytes'[q] = "synced",
             \A q \in Recs \ {r} : phase'[q] = phase[q] /\ idx'[q] = idx[q],
             \/ phase'[r] = phase[r] /\ idx'[r] = idx[r] /\ change.state = "recording"
             \/ phase'[r] = "done" /\ idx'[r] = change.state
                /\ (change.state = "failed" \/ bytes'[r] = "synced")
      PROVE \A q \in Recs : StaysDurable(q)
  <2>1. /\ held'[r] # None /\ held'[r].state = change.state
        /\ \A q \in Recs \ {r} : held'[q] = held[q] /\ AllGens(q)' \subseteq AllGens(q)
        /\ \A g \in AllGens(r)' : g \in AllGens(r) \/ g.state = change.state
    BY <1>4, <1>d, <1>r, UpdateEffect
  <2>2. \A q \in Recs : AtRisk(q)' => AtRisk(q) /\ bytes'[q] = "cached"
    BY <1>4 DEF AtRisk, Owned
  <2>3. \A q \in Recs \ {r} : StaysDurable(q)
    BY <1>4, <2>1, <2>2, DurableOthers
  <2>4. CASE phase'[r] = phase[r] /\ idx'[r] = idx[r] /\ change.state = "recording"
    BY <1>4, <1>r, <2>1, <2>2, <2>4 DEF StaysDurable, StillRecording, Deliverable, Settling
  <2>5. CASE phase'[r] = "done" /\ idx'[r] = "failed" /\ change.state = "failed"
    BY <1>4, <1>r, <2>1, <2>2, <2>5 DEF StaysDurable, StillRecording, Deliverable, Settling
  <2>6. CASE phase'[r] = "done" /\ bytes'[r] = "synced"
    <3>1. ~AtRisk(r)' /\ StillRecording(r)'
      BY <1>4, <2>2, <2>6 DEF StillRecording
    <3>. QED BY <2>3, <3>1 DEF StaysDurable
  <2>. QED BY <1>4, <2>3, <2>4, <2>5, <2>6
<1>5. ASSUME NEW r \in Recs, NEW o, Sync(r, o) PROVE \A q \in Recs : StaysDurable(q)
  <2>1. /\ [held[r] EXCEPT !.mark = TRUE] \in Ticket
        /\ [held[r] EXCEPT !.mark = TRUE].state = "recording"
    BY ZenonT(60), <1>5, <1>r DEF Sync, Ticket
  <2>2. \A q \in Recs : bytes'[q] = bytes[q] \/ bytes'[q] = "synced"
    BY <1>5, <1>d DEF Sync, FileTyped
  <2>. QED BY <1>4, <1>5, <2>1, <2>2 DEF Sync
<1>6. ASSUME NEW r \in Recs, NEW o, NEW mk, Fail(r, o, mk) PROVE \A q \in Recs : StaysDurable(q)
  <2>1. /\ [held[r] EXCEPT !.state = "failed"] \in Ticket
        /\ [held[r] EXCEPT !.state = "failed"].state = "failed"
    BY <1>6, <1>r DEF Fail, Ticket, States
  <2>2. /\ phase'[r] = "done" /\ idx'[r] = "failed"
        /\ \A q \in Recs \ {r} : phase'[q] = phase[q] /\ idx'[q] = idx[q]
    BY <1>6, <1>d DEF Fail, TicketTyped
  <2>3. phase[r] \in {"recording", "failing"} /\ UNCHANGED <<vis, path, upl, bytes>>
    BY <1>6 DEF Fail
  <2>4. Update(r, [held[r] EXCEPT !.state = "failed"], o)
    BY <1>6 DEF Fail
  <2>. QED BY <1>4, <2>1, <2>2, <2>3, <2>4
<1>7. ASSUME NEW r \in Recs, NEW o, phase[r] \in {"reserved", "recording", "failing"},
             RemoveFiles(r, o) \/ UNCHANGED <<gens, imgs>>,
             \/ phase' = [phase EXCEPT ![r] = "done"]
             \/ phase' = [phase EXCEPT ![r] = "failing"] /\ held' = held,
             held' = held \/ held' = [held EXCEPT ![r] = None],
             idx' = idx \/ idx' = [idx EXCEPT ![r] = "none"],
             UNCHANGED <<path, upl>>, 
             vis' = vis \/ vis' = [vis EXCEPT ![path[r]] = None],
             \A q \in Recs : bytes'[q] = bytes[q] \/ bytes'[q] = "synced"
      PROVE \A q \in Recs : StaysDurable(q)
  <2>1. \A q \in Recs : AllGens(q)' \subseteq AllGens(q)
    BY <1>7, <1>d, RemoveDisk DEF AllGens
  <2>2. \A q \in Recs : AtRisk(q)' => AtRisk(q)
    <3>1. \A q \in Recs : vis'[path[q]] = q => vis[path[q]] = q
      BY <1>7, <1>d, OutboxAssumption DEF FileTyped, TicketTyped
    <3>. QED BY <1>7, <3>1 DEF AtRisk, Owned
  <2>3. /\ held'[r] \in {held[r], None} /\ idx'[r] \in {idx[r], "none"}
        /\ phase'[r] = "done" \/ (phase'[r] = "failing" /\ held'[r] = held[r])
        /\ \A q \in Recs \ {r} : held'[q] = held[q] /\ idx'[q] = idx[q] /\ phase'[q] = phase[q]
    BY <1>7, <1>d DEF TicketTyped, TicketsTyped
  <2>4. StaysDurable(r)
    BY <1>7, <1>r, <2>1, <2>2, <2>3 DEF StaysDurable, StillRecording, Deliverable, Settling
  <2>5. \A q \in Recs \ {r} : StaysDurable(q)
    BY <1>7, <2>1, <2>2, <2>3, DurableOthers
  <2>. QED BY <2>4, <2>5
<1>8. ASSUME NEW r \in Recs, NEW o, NEW cause, Discard(r, o) \/ FinishEmpty(r, cause, o)
      PROVE \A q \in Recs : StaysDurable(q)
  <2>1. phase[r] \in {"reserved", "recording", "failing"} /\ UNCHANGED <<path, upl, bytes>>
    BY <1>8 DEF Discard, FinishEmpty, RemoveOutput
  <2>2. RemoveFiles(r, o) \/ UNCHANGED <<gens, imgs>>
    BY <1>8 DEF Discard, FinishEmpty, RemoveOutput
  <2>3. /\ \/ phase' = [phase EXCEPT ![r] = "done"]
           \/ phase' = [phase EXCEPT ![r] = "failing"] /\ held' = held
        /\ held' = held \/ held' = [held EXCEPT ![r] = None]
        /\ idx' = idx \/ idx' = [idx EXCEPT ![r] = "none"]
    BY <1>8 DEF Discard, FinishEmpty, RemoveOutput, ClearTicket
  <2>4. vis' = vis \/ vis' = [vis EXCEPT ![path[r]] = None]
    BY <1>8 DEF Discard, FinishEmpty, RemoveOutput
  <2>. QED BY <1>7, <2>1, <2>2, <2>3, <2>4
<1>9. ASSUME NEW r \in Recs, NEW o, FinishCommit(r, o) PROVE \A q \in Recs : StaysDurable(q)
  <2>1. /\ phase[r] = "recording" /\ phase' = [phase EXCEPT ![r] = "done"]
        /\ UNCHANGED <<vis, path, upl>>
        /\ bytes'[r] = "synced" /\ \A q \in Recs : bytes'[q] = bytes[q] \/ bytes'[q] = "synced"
    BY <1>9, <1>d DEF FinishCommit, FinalSync, FileTyped
  <2>2. CASE HasDest(r)
    <3>1. /\ [held[r] EXCEPT !.state = "ready"] \in Ticket
          /\ [held[r] EXCEPT !.state = "ready"].state = "ready"
      BY <1>r, <2>1 DEF Ticket, States
    <3>2. Update(r, [held[r] EXCEPT !.state = "ready"], o) /\ idx' = [idx EXCEPT ![r] = "ready"]
      BY <1>9, <2>2 DEF FinishCommit
    <3>3. /\ phase'[r] = "done" /\ idx'[r] = "ready"
          /\ \A q \in Recs \ {r} : phase'[q] = phase[q] /\ idx'[q] = idx[q]
      BY <1>d, <2>1, <3>2 DEF TicketTyped
    <3>. QED BY <1>4, <2>1, <3>1, <3>2, <3>3
  <2>3. CASE ~HasDest(r)
    <3>1. /\ RemoveFiles(r, o)
          /\ held' = held \/ held' = [held EXCEPT ![r] = None]
          /\ idx' = idx \/ idx' = [idx EXCEPT ![r] = "none"]
      BY <1>9, <2>3 DEF FinishCommit, ClearTicket
    <3>2. phase[r] \in {"reserved", "recording", "failing"} /\ UNCHANGED <<path, upl, vis>>
      BY <2>1
    <3>3. phase' = [phase EXCEPT ![r] = "done"] \/ (phase' = [phase EXCEPT ![r] = "failing"] /\ held' = held)
      BY <2>1
    <3>4. \A q \in Recs : bytes'[q] = bytes[q] \/ bytes'[q] = "synced"
      BY <2>1
    <3>. QED BY <1>7, <1>9, <3>1, <3>2, <3>3, <3>4
  <2>. QED BY <2>2, <2>3
<1>. QED BY <1>1, <1>2, <1>3, <1>5, <1>6, <1>8, <1>9 DEF RecorderNext

\* A step on the ticket the worker has taken, which counts as deliverable
\* already: the others stay, and no recording comes to be at risk.
LEMMA DurableTaken ==
  ASSUME Owners, DurableInv, upl.pc # "idle", upl' = IdleUpload \/ upl'.rec = upl.rec,
         \A q \in Recs : AtRisk(q)' => AtRisk(q), phase' = phase,
         \A q \in Recs \ {upl.rec} :
           held'[q] = held[q] /\ idx'[q] = idx[q] /\ AllGens(q)' \subseteq AllGens(q)
  PROVE  \A q \in Recs : StaysDurable(q)
<1>1. PICK r \in Recs : r = upl.rec /\ phase[r] = "done"
  BY TakenTicket
<1>2. StaysDurable(r)
  BY <1>1 DEF StaysDurable, StillRecording, Deliverable
<1>3. \A q \in Recs \ {r} : StaysDurable(q)
  BY <1>1, DurableOthers DEF IdleUpload
<1>. QED BY <1>2, <1>3

LEMMA DurableUploader ==
  ASSUME Owners, DurableInv, UploaderNext PROVE \A q \in Recs : StaysDurable(q)
<1> USE DEF fileVars, tickVars, sysVars, s3Vars, histVars
<1>d. DiskTyped /\ TicketsTyped /\ FileTyped /\ TicketTyped
  BY DEF Owners, TypeOK, TicketTyped, TicketsTyped
<1> DEFINE t == upl.rec
<1>t. upl.pc # "idle" => t \in Recs /\ held[t] # None /\ held[t] \in Ticket
  BY TakenTicket
<1>s. ServiceTyped
  BY DEF Owners, TypeOK
<1>1. ASSUME NEW r \in Recs, NEW destOK, TakeDue(r, destOK) PROVE \A q \in Recs : StaysDurable(q)
  <2>1. UNCHANGED <<gens, imgs, vis, bytes, path, held, idx, phase>> /\ upl'.rec = r /\ Deliverable(r)
    BY <1>1 DEF TakeDue, Due, IdleUpload, Deliverable, Settling
  <2>2. StaysDurable(r)
    BY <2>1 DEF StaysDurable, StillRecording, AtRisk, Owned, AllGens
  <2>3. \A q \in Recs \ {r} : StaysDurable(q)
    BY <2>1, DurableOthers DEF AtRisk, Owned, AllGens
  <2>. QED BY <2>2, <2>3
<1>2. ASSUME NEW o, Put(o) PROVE \A q \in Recs : StaysDurable(q)
  <2>1. UNCHANGED <<gens, imgs, vis, bytes, path, held, idx, phase>>
    BY <1>2 DEF Put
  <2>2. upl.pc # "idle" /\ upl'.rec = t
    BY <1>2 DEF Put
  <2>. QED BY <2>1, <2>2, DurableTaken DEF AtRisk, Owned, AllGens
<1>3. ASSUME NEW reply, NEW o, Head(reply, o) PROVE \A q \in Recs : StaysDurable(q)
  <2>1. UNCHANGED <<vis, bytes, path, phase, idx>> /\ upl.pc # "idle" /\ upl'.rec = t
    BY <1>3, <1>s DEF Head, HeadDone, NextKey, ServiceTyped
  <2>2. \A q \in Recs \ {t} : held'[q] = held[q] /\ AllGens(q)' \subseteq AllGens(q)
    <3>1. CASE UNCHANGED <<gens, imgs, held>>
      BY <3>1 DEF AllGens
    <3>2. CASE NextKey(t, o)
      BY <1>d, <1>t, <2>1, <3>2, NextKeyEffect
    <3>. QED BY <1>3, <3>1, <3>2 DEF Head, HeadDone
  <2>. QED BY <2>1, <2>2, DurableTaken DEF AtRisk, Owned
<1>4. ASSUME NEW o, NEW pc \in UploadPC \ {"idle"}, NEW state \in States,
             NEW next, Finished(pc, state, next, o)
      PROVE \A q \in Recs : StaysDurable(q)
  <2>1. /\ UNCHANGED <<vis, bytes, path, phase>> /\ upl.pc # "idle"
        /\ upl' = IdleUpload \/ upl'.rec = t
    BY <1>4 DEF Finished
  <2>2. [held[t] EXCEPT !.state = state] \in Ticket
    BY <1>t, <2>1 DEF Ticket
  <2>3. Save(t, [held[t] EXCEPT !.state = state], o)
    BY <1>4 DEF Finished
  <2>4. \A q \in Recs \ {t} :
          held'[q] = held[q] /\ idx'[q] = idx[q] /\ AllGens(q)' \subseteq AllGens(q)
    <3>1. \A q \in Recs \ {t} : idx'[q] = idx[q]
      BY <1>d, <2>3 DEF Save, TicketTyped
    <3>. QED BY <1>d, <1>t, <2>1, <2>2, <2>3, <3>1, UpdateEffect DEF Save
  <2>. QED BY <2>1, <2>4, DurableTaken DEF AtRisk, Owned
<1>5. ASSUME NEW o, UploadDelivered(o) \/ UploadLost(o) \/ UploadFailed(o) \/ CleanupFailed(o)
      PROVE \A q \in Recs : StaysDurable(q)
  BY <1>4, <1>5 DEF UploadDelivered, UploadLost, UploadFailed, CleanupFailed, UploadPC, States
<1>6. ASSUME NEW o, Cleanup(o) PROVE \A q \in Recs : StaysDurable(q)
  <2>1. /\ UNCHANGED <<bytes, path, phase>> /\ upl.pc # "idle"
        /\ upl' = IdleUpload \/ upl'.rec = t
        /\ vis' = vis \/ vis' = [vis EXCEPT ![path[t]] = None]
    BY <1>6 DEF Cleanup
  <2>2. \A q \in Recs : AtRisk(q)' => AtRisk(q)
    BY <1>d, <2>1, OutboxAssumption DEF FileTyped, TicketTyped, AtRisk, Owned
  <2>3. RemoveFiles(t, o) \/ UNCHANGED <<gens, imgs>>
    BY <1>6 DEF Cleanup
  <2>4. /\ held' = held \/ held' = [held EXCEPT ![t] = None]
        /\ idx' = idx \/ idx' = [idx EXCEPT ![t] = "none"]
    BY <1>6 DEF Cleanup, ClearTicket
  <2>5. \A q \in Recs : AllGens(q)' \subseteq AllGens(q)
    BY <1>d, <1>t, <2>1, <2>3, RemoveDisk DEF AllGens
  <2>6. \A q \in Recs \ {t} : held'[q] = held[q] /\ idx'[q] = idx[q]
    BY <1>d, <2>4 DEF TicketTyped, TicketsTyped
  <2>. QED BY <2>1, <2>2, <2>5, <2>6, DurableTaken
<1>. QED BY <1>1, <1>2, <1>3, <1>5, <1>6 DEF UploaderNext

\* A visit by recovery leaves the other tickets alone.
LEMMA DurableVisit ==
  ASSUME Owners, DurableInv, NEW r \in Recs, NEW o, Visits(r, o)
  PROVE \A q \in Recs : StaysDurable(q)
<1> USE DEF fileVars, tickVars, sysVars, s3Vars, histVars
<1>d. DiskTyped /\ TicketsTyped /\ FileTyped /\ TicketTyped
  BY DEF Owners, TypeOK, TicketTyped, TicketsTyped
<1>1. RecoveryStep(r) /\ held[r] # None /\ up = "booting"
  BY VisitEffect
<1>2. /\ UNCHANGED <<path, phase, upl>>
      /\ \A q \in Recs : bytes'[q] = bytes[q] \/ bytes'[q] = "synced"
      /\ vis' = vis \/ vis' = [vis EXCEPT ![path[r]] = None]
  BY <1>d DEF Visits, RecoverSettled, RecoverWithoutAudio, RecoverAudio, RecoverKeep, RecoverAs,
     RecoverDrop, FileTyped
<1>3. \A q \in Recs : AtRisk(q)' => AtRisk(q)
  <2>1. \A q \in Recs : vis'[path[q]] = q => vis[path[q]] = q
    BY <1>d, <1>2, OutboxAssumption DEF FileTyped, TicketTyped
  <2>. QED BY <1>2, <2>1 DEF AtRisk, Owned
<1>4. \A q \in Recs \ {r} : StaysDurable(q)
  BY <1>1, <1>2, <1>3, DurableOthers DEF RecoveryStep
<1>5. phase[r] \in {"unborn", "done"} /\ held[r] \in Ticket
  BY <1>d, <1>1 DEF Owners, OneOwner, RecoveryOwns, TicketsTyped
<1>6. StillRecording(r)'
  BY <1>2, <1>5 DEF StillRecording
<1>7. ASSUME RecoverKeep(r) PROVE StaysDurable(r)
  BY <1>2, <1>3, <1>6, <1>7, <1>1, <1>d DEF RecoverKeep, StaysDurable, Deliverable, AllGens, TicketTyped
<1>8. ASSUME RecoverDrop(r, o) PROVE StaysDurable(r)
  <2>1. \A q \in Recs : AllGens(q)' \subseteq AllGens(q)
    BY <1>8, <1>d, RemoveDisk DEF RecoverDrop
  <2>2. held'[r] \in {held[r], None} /\ idx'[r] \in {"none", held[r].state}
    BY <1>8, <1>d DEF RecoverDrop, ClearTicket, TicketsTyped, TicketTyped
  <2>. QED BY <1>1, <1>2, <1>3, <1>6, <2>1, <2>2 DEF StaysDurable, Deliverable, Settling
<1>9. ASSUME NEW state \in States, RecoverAs(r, state, o), state \notin Settling \/ ~AtRisk(r)'
      PROVE StaysDurable(r)
  <2>1. [held[r] EXCEPT !.state = state] \in Ticket /\ [held[r] EXCEPT !.state = state].state = state
    BY <1>5 DEF Ticket
  <2>2. /\ held'[r].state = state
        /\ \A g \in AllGens(r)' : g \in AllGens(r) \/ g.state = state
    BY <1>1, <1>9, <1>d, <2>1, UpdateEffect DEF RecoverAs, Save
  <2>3. idx'[r] = state
    BY <1>9, <1>d, <2>1 DEF RecoverAs, Save, TicketTyped
  <2>. QED BY <1>2, <1>3, <1>6, <1>9, <2>2, <2>3 DEF StaysDurable, Deliverable
<1>10. RecoverAs(r, "failed", o) \/ RecoverAs(r, "lost", o) => StaysDurable(r)
  BY <1>9 DEF States, Settling
<1>11. ASSUME RecoverAs(r, "ready", o) PROVE StaysDurable(r)
  <2>1. ~AtRisk(r)' \/ RecoverAs(r, "failed", o) \/ RecoverAs(r, "lost", o) \/ RecoverKeep(r) \/ RecoverDrop(r, o)
    <3>1. CASE RecoverSettled(r, o)
      BY <3>1 DEF RecoverSettled
    <3>2. ASSUME NEW avail, RecoverWithoutAudio(r, avail, o), vis[path[r]] = None PROVE ~AtRisk(r)'
      BY <3>2, <1>3, OutboxAssumption DEF AtRisk, Owned
    <3>3. CASE RecoverAudio(r, o)
      BY <3>3, <1>2, <1>d DEF RecoverAudio, AtRisk, Owned, FileTyped, RecoverAs
    <3>. QED BY <3>1, <3>2, <3>3 DEF Visits, RecoverWithoutAudio
  <2>. QED BY <1>7, <1>8, <1>9, <1>10, <1>11, <2>1 DEF States
<1>. QED BY <1>4, <1>7, <1>8, <1>10, <1>11
     DEF Visits, RecoverSettled, RecoverWithoutAudio, RecoverAudio

LEMMA DurableRecovery ==
  ASSUME Owners, DurableInv, RecoveryNext PROVE \A q \in Recs : StaysDurable(q)
<1> USE DEF fileVars, tickVars, sysVars, s3Vars, histVars
<1>d. DiskTyped /\ TicketsTyped
  BY DEF Owners, TypeOK, TicketTyped, TicketsTyped
<1>1. ASSUME NEW bad \in SUBSET Recs, NEW synced \in BOOLEAN, Load(bad, synced)
      PROVE \A q \in Recs : StaysDurable(q)
  <2>1. \A q \in Recs : AllGens(q)' \subseteq AllGens(q)
    BY <1>1, <1>d, LoadDisk DEF Load
  <2>2. \A q \in Recs : held'[q] # None => held'[q] \in AllGens(q) \/ held'[q] = held[q]
    BY <1>1, <1>d, LoadedTicket DEF Load, AllGens
  <2>3. UNCHANGED <<vis, bytes, path, idx, phase, upl>> /\ up = "down"
    BY <1>1 DEF Load
  <2>4. \A q \in Recs : phase[q] \in {"unborn", "done"}
    BY <2>3 DEF Owners, OneOwner, RecoveryOwns
  <2>. QED BY <2>1, <2>2, <2>3, <2>4
       DEF StaysDurable, StillRecording, Deliverable, AtRisk, Owned
<1>2. ASSUME NEW r \in Recs, NEW o, Visits(r, o) PROVE \A q \in Recs : StaysDurable(q)
  BY <1>2, DurableVisit
<1>3. CASE Serve
  BY <1>3 DEF Serve, StaysDurable, StillRecording, Deliverable, AtRisk, Owned, AllGens
<1>. QED BY <1>1, <1>2, <1>3 DEF RecoveryNext, Visits

LEMMA DurableEnvironment ==
  ASSUME Owners, DurableInv, EnvironmentNext PROVE \A q \in Recs : StaysDurable(q)
<1> USE DEF fileVars, tickVars, sysVars, s3Vars, histVars
<1>d. DiskTyped /\ TicketsTyped /\ FileTyped /\ TicketTyped
  BY DEF Owners, TypeOK, TicketTyped, TicketsTyped
<1>1. ASSUME UNCHANGED <<gens, imgs, bytes, path, held, idx, phase, upl>>,
             \A p \in Paths : vis'[p] \in {vis[p], None}
      PROVE \A q \in Recs : StaysDurable(q)
  <2>1. \A q \in Recs : AtRisk(q)' => AtRisk(q)
    BY <1>1, <1>d, OutboxAssumption DEF AtRisk, Owned, TicketTyped
  <2>. QED BY <1>1, <2>1 DEF StaysDurable, StillRecording, Deliverable, AllGens
<1>2. ASSUME NEW l, NEW applied, LateReply(l, applied) PROVE \A q \in Recs : StaysDurable(q)
  BY <1>1, <1>2 DEF LateReply
<1>3. ASSUME NEW k, Expire(k) PROVE \A q \in Recs : StaysDurable(q)
  BY <1>1, <1>3 DEF Expire
<1>4. ASSUME NEW p \in Paths, Vanish(p) \/ Retention(p) PROVE \A q \in Recs : StaysDurable(q)
  <2>1. UNCHANGED <<gens, imgs, bytes, path, held, idx, phase, upl>>
        /\ vis' = [vis EXCEPT ![p] = None]
    BY <1>4 DEF Vanish, Retention
  <2>. QED BY <1>1, <1>d, <2>1 DEF FileTyped
<1>5. ASSUME NEW torn \in SUBSET Recs, Kill(torn) PROVE \A q \in Recs : StaysDurable(q)
  <2>1. \A q \in Recs : \A g \in AllGens(q)' : g \in AllGens(q) \/ g.state = "torn"
    BY <1>5, <1>d, KillDisk
  <2>2. \A q \in Recs : AtRisk(q)' => AtRisk(q)
    BY <1>5 DEF Kill, Stopped, AtRisk, Owned
  <2>3. \A q \in Recs : phase'[q] \in {"unborn", "done"} /\ held'[q] = None /\ idx'[q] = "none"
    BY <1>5 DEF Kill, Stopped
  <2>4. upl' = IdleUpload
    BY <1>5 DEF Kill, Stopped
  <2>. QED BY <2>1, <2>2, <2>3, <2>4 DEF StaysDurable, StillRecording, Deliverable, Settling, IdleUpload
<1>6. ASSUME NEW G, NEW P, NEW M, NEW L, PowerCut(G, P, M, L) PROVE \A q \in Recs : StaysDurable(q)
  <2>1. \A q \in Recs : ~AtRisk(q)'
    BY <1>6 DEF PowerCut, AtRisk
  <2>2. \A q \in Recs : StillRecording(q)'
    BY <1>6 DEF PowerCut, Stopped, StillRecording
  <2>. QED BY <2>1, <2>2 DEF StaysDurable
<1>7. CASE Crash
  <2>1. CASE \E torn \in {{}} \cup {{r} : r \in Recs} : Kill(torn)
    BY <1>5, <2>1
  <2>. QED BY <1>6, <1>7, <2>1 DEF Crash
<1>. QED BY <1>2, <1>3, <1>4, <1>7 DEF EnvironmentNext

\* The step of the induction.
LEMMA DurableNext == Owners /\ DurableInv /\ [Next]_vars => DurableInv'
<1> SUFFICES ASSUME Owners, DurableInv, [Next]_vars PROVE DurableInv'
  OBVIOUS
<1>1. CASE UNCHANGED vars
  BY <1>1 DEF vars, fileVars, tickVars, DurableInv, StillRecording, AtRisk, Owned, Deliverable, AllGens
<1>2. CASE Next
  <2>1. \A q \in Recs : StaysDurable(q)
    BY <1>2, DurableRecorder, DurableUploader, DurableRecovery, DurableEnvironment DEF Next
  <2>. QED BY <2>1, DurableStep
<1>. QED BY <1>1, <1>2

LEMMA DurableInit == Init => DurableInv
BY DEF Init, DurableInv, StillRecording, AtRisk

\* Section 4.3 of the design, for every number of recordings, failing disk
\* steps and crashes: a recording is not deliverable while bytes of its file
\* could still be lost.  What makes it inductive is that the ticket of a file
\* at risk nowhere says more than that it is being recorded.
THEOREM DeliverableIsDurable == Spec => []ReadyIsDurable
<1>1. DurableInv => ReadyIsDurable
  BY DEF DurableInv, ReadyIsDurable, AtRisk, Deliverable, Settling, AllGens
<1>. QED BY <1>1, DurableInit, DurableNext, OwnersInit, OwnersNext, PTL DEF Spec


-------------------------------------------------------------------------------
(* The generation a restart takes                                          *)

\* The directory as it is counts among what a power cut can bring back.
Shown(r) == gens[r] \in imgs[r]

\* Generations of a ticket have different names.
NamesOnce(G) == \A g, h \in G : g.seq = h.seq => g = h
Distinct(r)  == \A I \in imgs[r] : NamesOnce(I)

\* Whatever a power cut leaves, a restart finds the ticket.
HasTicket(r) == \A I \in imgs[r] : Newest(I) # {}

\* The owner's copy is as new as the newest generation.
SeqTop(r) == held[r] # None => \A g \in gens[r] : g.seq <= held[r].seq

Images(r) == Shown(r) /\ Distinct(r) /\ SeqTop(r)

\* A step after which a restart finds of ticket r what it found before, or
\* less, but not nothing.
FindsNoMore(r) ==
  /\ Loadable(r)' \subseteq Loadable(r)
  /\ HasTicket(r) => HasTicket(r)'

LEMMA LoadableJournaled ==
  ASSUME Journaled, NEW r \in Recs
  PROVE  \A g : g \in Loadable(r) <=> \E I \in imgs[r] : g \in Newest(I)
BY DEF Loadable, Leaves

LEMMA LoadableJournaledPrime ==
  ASSUME Journaled, NEW r \in Recs
  PROVE  \A g : g \in Loadable(r)' <=> \E I \in imgs'[r] : g \in Newest(I)
BY DEF Loadable, Leaves

\* A new generation above all others is the one found, also once the one
\* before it is pruned.
LEMMA NewestCreated ==
  ASSUME NEW G \in SUBSET Generation, NEW new \in Ticket, \A g \in G : g.seq < new.seq
  PROVE  /\ Newest(G \cup {new}) = {new} /\ Newest(PruneBelow(G \cup {new}, new)) = {new}
<1>1. new.seq \in Nat /\ new.state # "torn" /\ new.seq + 1 # new.seq
  BY DEF Ticket, States
<1>2. \A g \in G : g.seq \in Nat /\ ~(new.seq <= g.seq)
  BY <1>1 DEF Generation
<1>3. Newest(G \cup {new}) = {new}
  BY <1>1, <1>2 DEF Newest, Valid
<1>4. Newest(PruneBelow(G \cup {new}, new)) = {new}
  BY <1>1, <1>2 DEF Newest, Valid, PruneBelow
<1>. QED BY <1>3, <1>4

\* The newest generation of a subset that has it, or of nothing.
LEMMA NewestTop ==
  ASSUME NEW G \in SUBSET Generation
  PROVE  /\ Newest(Top(G)) \subseteq Newest(G)
         /\ Newest({}) = {} /\ Newest(Newest(G)) = Newest(G)
         /\ Newest(G) \subseteq G /\ Top(G) \subseteq G
<1>1. \A g \in G : g.seq \in Nat
  BY DEF Generation
<1>2. Newest(Top(G)) \subseteq Newest(G)
  BY <1>1 DEF Newest, Valid, Top
<1>3. Newest(Newest(G)) = Newest(G)
  BY DEF Newest, Valid
<1>. QED BY <1>2, <1>3 DEF Newest, Valid, Top

\* A ticket the step did not touch, while the directory was synced or not.
LEMMA FindsSame ==
  ASSUME Journaled, NEW r \in Recs, Shown(r), Distinct(r), gens'[r] = gens[r],
         imgs'[r] = imgs[r] \/ imgs'[r] = {gens[r]}
  PROVE  FindsNoMore(r) /\ Shown(r)' /\ Distinct(r)'
<1>1. imgs'[r] \subseteq imgs[r] /\ gens'[r] \in imgs'[r]
  BY DEF Shown
<1>2. Loadable(r)' \subseteq Loadable(r)
  BY <1>1, LoadableJournaled, LoadableJournaledPrime
<1>. QED BY <1>1, <1>2 DEF FindsNoMore, HasTicket, Shown, Distinct

\* The name of the next generation.
LEMMA NextName ==
  ASSUME NEW G \in SUBSET Generation, NEW seq \in Nat, NEW s \in Nat, \A g \in G : g.seq <= seq,
         NextFree(G, seq, s)
  PROVE  s = seq + 1
<1>1. \A g \in G : g.seq \in Nat
  BY DEF Generation
<1>2. CASE s > seq + 1
  <2>1. seq + 1 \in (seq + 1) .. (s - 1)
    BY <1>2
  <2>2. \E g \in G : g.seq = seq + 1
    BY <2>1 DEF NextFree
  <2>. QED BY <1>1, <2>2
<1>. QED BY <1>2 DEF NextFree

\* write by the owner: a restart finds the new generation, or what it found
\* before; only the new one once its directory is synced.
LEMMA WriteFinds ==
  ASSUME Journaled, DiskTyped, \A q \in Recs : Shown(q) /\ Distinct(q),
         NEW r \in Recs, NEW tk, tk.seq \in Nat, \A g \in gens[r] : g.seq <= tk.seq,
         NEW new \in Ticket, NEW o, Write(r, tk, new, o)
  PROVE  /\ new.seq = tk.seq + 1
         /\ \A q \in Recs \ {r} :
              FindsNoMore(q) /\ Shown(q)' /\ Distinct(q)' /\ gens'[q] = gens[q]
         /\ Shown(r)' /\ Distinct(r)' /\ (HasTicket(r) => HasTicket(r)')
         /\ Loadable(r)' \subseteq Loadable(r) \cup {new}
         /\ o = "ok" => Loadable(r)' = {new} /\ HasTicket(r)'
         /\ \A g \in gens'[r] : g \in gens[r] \/ (g = new /\ o # "nocreate")
<1>1. new \in Generation /\ new.seq \in Nat /\ gens[r] \subseteq Generation
  BY GenerationOfTicket DEF DiskTyped, Ticket
<1>2. new.seq = tk.seq + 1
  BY <1>1, NextName DEF Write
<1>3. \A g \in gens[r] : g.seq < new.seq
  BY <1>1, <1>2 DEF Generation
<1> DEFINE created == gens[r] \cup {new}
           pruned == PruneBelow(created, new)
<1>4. Newest(created) = {new} /\ Newest(pruned) = {new}
  BY <1>1, <1>3, NewestCreated
<1>5. NamesOnce(created) /\ NamesOnce(pruned) /\ pruned \subseteq created
  <2>1. NamesOnce(gens[r])
    BY DEF Shown, Distinct
  <2>2. NamesOnce(created)
    BY <1>1, <1>3, <2>1 DEF NamesOnce, Generation
  <2>. QED BY <2>2 DEF NamesOnce, PruneBelow
<1>6. \/ o = "nocreate" /\ gens' = gens /\ imgs' = imgs
      \/ o = "nosync" /\ Shows(r, created)
      \/ o = "ok" /\ SyncThenShows(r, created, pruned)
  BY DEF Write
<1> HIDE DEF created, pruned
<1>7. \A q \in Recs \ {r} : gens'[q] = gens[q] /\ (imgs'[q] = imgs[q] \/ imgs'[q] = {gens[q]})
  BY <1>6 DEF Shows, SyncThenShows, DiskTyped
<1>8. \A q \in Recs \ {r} : FindsNoMore(q) /\ Shown(q)' /\ Distinct(q)'
  BY <1>7, FindsSame
<1>9. \/ o = "nocreate" /\ gens'[r] = gens[r] /\ imgs'[r] = imgs[r]
      \/ o = "nosync" /\ gens'[r] = created /\ imgs'[r] = imgs[r] \cup {created}
      \/ o = "ok" /\ gens'[r] = pruned /\ imgs'[r] = {created, pruned}
  BY <1>6 DEF Shows, SyncThenShows, DiskTyped
<1>10. /\ \A I \in imgs'[r] : I \in imgs[r] \/ I \in {created, pruned}
       /\ o = "ok" => \A I \in imgs'[r] : I \in {created, pruned}
       /\ o = "ok" => created \in imgs'[r]
  BY <1>9
<1>11. Shown(r)' /\ Distinct(r)'
  BY <1>5, <1>9, <1>10 DEF Shown, Distinct
<1>12. /\ HasTicket(r) => HasTicket(r)'
       /\ o = "ok" => HasTicket(r)'
  BY <1>4, <1>10 DEF HasTicket
<1>13. Loadable(r)' \subseteq Loadable(r) \cup {new}
  BY <1>4, <1>10, LoadableJournaled, LoadableJournaledPrime
<1>14. o = "ok" => Loadable(r)' = {new}
  BY <1>4, <1>10, LoadableJournaledPrime
<1>15. \A g \in gens'[r] : g \in gens[r] \/ (g = new /\ o # "nocreate")
  BY <1>5, <1>9 DEF created
<1>. QED BY <1>2, <1>7, <1>8, <1>11, <1>12, <1>13, <1>14, <1>15

\* removeFiles: less, and of the ticket removed perhaps nothing.
LEMMA RemoveFinds ==
  ASSUME Journaled, DiskTyped, \A q \in Recs : Shown(q) /\ Distinct(q),
         NEW r \in Recs, NEW o, RemoveFiles(r, o)
  PROVE  /\ \A q \in Recs \ {r} :
              FindsNoMore(q) /\ Shown(q)' /\ Distinct(q)' /\ gens'[q] = gens[q]
         /\ Shown(r)' /\ Distinct(r)' /\ gens'[r] \subseteq gens[r]
         /\ Loadable(r)' \subseteq Loadable(r)
<1> DEFINE top == Top(gens[r])
<1>1. gens[r] \in SUBSET Generation
  BY DEF DiskTyped
<1>2. /\ Newest(top) \subseteq Newest(gens[r]) /\ Newest({}) = {} /\ top \subseteq gens[r]
  BY <1>1, NewestTop
<1>3. NamesOnce(gens[r]) /\ NamesOnce(top) /\ NamesOnce({})
  BY <1>2 DEF Shown, Distinct, NamesOnce
<1>4. \/ gens' = gens /\ imgs' = imgs
      \/ Shows(r, top)
      \/ SyncThenShows(r, top, {}) \/ SyncThenShows(r, {}, {})
  BY DEF RemoveFiles
<1> HIDE DEF top
<1>5. \A q \in Recs \ {r} : gens'[q] = gens[q] /\ (imgs'[q] = imgs[q] \/ imgs'[q] = {gens[q]})
  BY <1>4 DEF Shows, SyncThenShows, DiskTyped
<1>6. \A q \in Recs \ {r} : FindsNoMore(q) /\ Shown(q)' /\ Distinct(q)'
  BY <1>5, FindsSame
<1>7. /\ gens'[r] \in {gens[r], top, {}} /\ gens'[r] \in imgs'[r]
      /\ \A I \in imgs'[r] : I \in imgs[r] \/ I \in {top, {}}
  BY <1>4 DEF Shows, SyncThenShows, DiskTyped, Shown
<1>8. Shown(r)' /\ Distinct(r)' /\ gens'[r] \subseteq gens[r]
  BY <1>2, <1>3, <1>7 DEF Shown, Distinct
<1>9. Loadable(r)' \subseteq Loadable(r)
  <2>1. gens[r] \in imgs[r]
    BY DEF Shown
  <2>. QED BY <1>2, <1>7, <2>1, LoadableJournaled, LoadableJournaledPrime
<1>. QED BY <1>5, <1>6, <1>8, <1>9

\* Every image a step adds to what the directory has shown of q finds what the
\* directory found before the step.
LEMMA FindsAsShown ==
  ASSUME Journaled, NEW q \in Recs, Shown(q), Distinct(q), gens'[q] \in imgs'[q],
         \A I \in imgs'[q] : I \in imgs[q] \/ (I = gens'[q] /\ NamesOnce(I) /\ Newest(I) = Newest(gens[q]))
  PROVE  FindsNoMore(q) /\ Shown(q)' /\ Distinct(q)'
<1>1. Loadable(q)' \subseteq Loadable(q)
  BY LoadableJournaled, LoadableJournaledPrime DEF Shown
<1>2. HasTicket(q) => HasTicket(q)'
  BY DEF HasTicket, Shown
<1>. QED BY <1>1, <1>2 DEF FindsNoMore, Shown, Distinct

\* load: nothing new; of a ticket that could be read, once the directory is
\* synced, only what the service takes for it.
LEMMA LoadFinds ==
  ASSUME Journaled, DiskTyped, \A q \in Recs : Shown(q) /\ Distinct(q),
         NEW bad \in SUBSET Recs, NEW synced \in BOOLEAN, LoadFiles(bad, synced), NEW q \in Recs
  PROVE  /\ FindsNoMore(q) /\ Shown(q)' /\ Distinct(q)' /\ gens'[q] \subseteq gens[q]
         /\ synced /\ q \notin bad => \A g \in Newest(gens[q]) : Loadable(q)' = {g} /\ gens'[q] = {g}
<1>1. gens[q] \in SUBSET Generation
  BY DEF DiskTyped
<1>2. Newest(Newest(gens[q])) = Newest(gens[q]) /\ Newest(gens[q]) \subseteq gens[q]
  BY <1>1, NewestTop
<1>3. /\ gens'[q] = IF q \in bad THEN gens[q] ELSE Newest(gens[q])
      /\ imgs'[q] = IF synced THEN {gens'[q]} ELSE imgs[q] \cup {gens'[q]}
  BY DEF LoadFiles
<1>4. NamesOnce(gens[q]) /\ NamesOnce(gens'[q]) /\ Newest(gens'[q]) = Newest(gens[q])
  BY <1>2, <1>3 DEF Shown, Distinct, NamesOnce
<1>5. gens'[q] \in imgs'[q]
  BY <1>3
<1>6. \A I \in imgs'[q] : I \in imgs[q] \/ (I = gens'[q] /\ NamesOnce(I) /\ Newest(I) = Newest(gens[q]))
  BY <1>3, <1>4
<1>7. FindsNoMore(q) /\ Shown(q)' /\ Distinct(q)'
  BY <1>5, <1>6, FindsAsShown
<1>8. ASSUME synced, q \notin bad, NEW g \in Newest(gens[q])
      PROVE Loadable(q)' = {g} /\ gens'[q] = {g}
  <2>1. \A h \in Newest(gens[q]) : h = g
    BY <1>1, <1>4 DEF Newest, Valid, NamesOnce, Generation
  <2>2. gens'[q] = {g} /\ imgs'[q] = {gens'[q]}
    BY <1>3, <1>8, <2>1
  <2>3. Newest(gens'[q]) = {g}
    BY <1>4, <1>8, <2>1
  <2>4. \A h : h \in Loadable(q)' <=> h \in Newest(gens'[q])
    BY <2>2, LoadableJournaledPrime
  <2>. QED BY <2>2, <2>3, <2>4
<1>. QED BY <1>2, <1>3, <1>7, <1>8

\* A kill tears at most a generation nobody loads.
LEMMA KillFinds ==
  ASSUME Journaled, DiskTyped, TicketsTyped, \A q \in Recs : Shown(q) /\ Distinct(q),
         NEW torn \in SUBSET Recs, Kill(torn), NEW q \in Recs
  PROVE  FindsNoMore(q) /\ Shown(q)' /\ Distinct(q)'
<1>1. gens[q] \in SUBSET Generation /\ NamesOnce(gens[q])
  BY DEF DiskTyped, Shown, Distinct
<1>2. /\ gens'[q] = IF q \in torn THEN gens[q] \cup {Torn(q)} ELSE gens[q]
      /\ imgs'[q] = imgs[q] \cup {gens'[q]}
  BY DEF Kill
<1>3. Newest(gens'[q]) = Newest(gens[q])
  BY <1>2 DEF Newest, Valid, Torn
<1>4. NamesOnce(gens'[q])
  <2>1. CASE q \in torn
    <3>1. held[q] # None /\ \A g \in gens[q] : g.seq # held[q].seq + 1
      BY <2>1 DEF Kill
    <3>2. Torn(q).seq = held[q].seq + 1
      BY DEF Torn
    <3> HIDE DEF Torn
    <3>. QED BY <1>1, <1>2, <2>1, <3>1, <3>2 DEF NamesOnce
  <2>. QED BY <1>1, <1>2, <2>1
<1>. QED BY <1>2, <1>3, <1>4, FindsAsShown

\* A power cut brings back one of the states the directory has shown.
LEMMA PowerCutFinds ==
  ASSUME Journaled, DiskTyped, NEW G \in [Recs -> UNION {Leaves(r) : r \in Recs}],
         \A r \in Recs : G[r] \in Leaves(r), NEW P, NEW M, NEW L, PowerCut(G, P, M, L),
         NEW q \in Recs, Distinct(q)
  PROVE  FindsNoMore(q) /\ Shown(q)' /\ Distinct(q)'
<1>1. G[q] \in imgs[q]
  BY DEF Leaves
<1>2. gens'[q] = G[q] /\ imgs'[q] = {G[q]}
  BY DEF PowerCut
<1>3. Loadable(q)' \subseteq Loadable(q)
  BY <1>1, <1>2, LoadableJournaled, LoadableJournaledPrime
<1>. QED BY <1>1, <1>2, <1>3 DEF FindsNoMore, HasTicket, Shown, Distinct

-------------------------------------------------------------------------------
(* What the owner's writes leave for a restart                             *)

AllImages == \A q \in Recs : Images(q)

LEMMA OwnerWrites ==
  ASSUME Journaled, DiskTyped, TicketsTyped, AllImages, NEW r \in Recs, held[r] # None,
         NEW new \in Ticket, NEW o, Write(r, held[r], new, o),
         NEW mine \in Ticket, held' = [held EXCEPT ![r] = mine],
         mine.seq = IF o = "nocreate" THEN held[r].seq ELSE new.seq
  PROVE  /\ AllImages' /\ (HasTicket(r) => HasTicket(r)')
         /\ \A q \in Recs \ {r} : FindsNoMore(q)
         /\ Loadable(r)' \subseteq Loadable(r) \cup {new}
         /\ o = "ok" => Loadable(r)' = {new} /\ HasTicket(r)'
<1>1. held[r] \in Ticket /\ held[r].seq \in Nat /\ (\A g \in gens[r] : g.seq <= held[r].seq)
  BY DEF TicketsTyped, AllImages, Images, SeqTop, Ticket
<1>2. /\ new.seq = held[r].seq + 1
      /\ \A q \in Recs \ {r} :
           FindsNoMore(q) /\ Shown(q)' /\ Distinct(q)' /\ gens'[q] = gens[q]
      /\ Shown(r)' /\ Distinct(r)' /\ (HasTicket(r) => HasTicket(r)')
      /\ Loadable(r)' \subseteq Loadable(r) \cup {new}
      /\ o = "ok" => Loadable(r)' = {new} /\ HasTicket(r)'
      /\ \A g \in gens'[r] : g \in gens[r] \/ (g = new /\ o # "nocreate")
  BY <1>1, WriteFinds DEF AllImages, Images
<1>3. held'[r] = mine /\ \A q \in Recs \ {r} : held'[q] = held[q]
  BY DEF TicketsTyped
<1>4. SeqTop(r)'
  <2> SUFFICES ASSUME NEW g \in gens'[r] PROVE g.seq <= mine.seq
    BY <1>3 DEF SeqTop
  <2>1. CASE g \in gens[r]
    <3>1. g.seq \in Nat /\ g.seq <= held[r].seq
      BY <1>1, <2>1 DEF DiskTyped, Generation
    <3>. QED BY <1>1, <1>2, <3>1
  <2>2. CASE g = new /\ o # "nocreate"
    BY <2>2 DEF Ticket
  <2>. QED BY <1>2, <2>1, <2>2
<1>5. \A q \in Recs \ {r} : SeqTop(q)'
  BY <1>2, <1>3 DEF SeqTop, AllImages, Images
<1>6. AllImages'
  BY <1>2, <1>4, <1>5 DEF AllImages, Images
<1>. QED BY <1>2, <1>6

\* update: whatever a restart finds that it did not find before has the state
\* and the key the ticket was changed to; once synced it finds nothing else.
LEMMA UpdateFinds ==
  ASSUME Journaled, DiskTyped, TicketsTyped, AllImages, NEW r \in Recs, held[r] # None,
         NEW change \in Ticket, NEW o, Update(r, change, o)
  PROVE  /\ AllImages' /\ (HasTicket(r) => HasTicket(r)')
         /\ \A q \in Recs \ {r} : FindsNoMore(q)
         /\ \A g \in Loadable(r)' :
              (g \in Loadable(r) /\ o # "ok") \/ (g.state = change.state /\ g.key = change.key)
<1>1. PICK s \in 1 .. MaxSeq :
        /\ Write(r, held[r], [change EXCEPT !.seq = s], o)
        /\ held' = [held EXCEPT ![r] = Written(held[r], [change EXCEPT !.seq = s], o)]
  BY DEF Update
<1> DEFINE new == [change EXCEPT !.seq = s]
           mine == Written(held[r], new, o)
<1>2. new \in Ticket /\ new.key = change.key /\ new.state = change.state
  BY <1>1, TicketDiskAssumption DEF Ticket
<1>3. /\ mine \in Ticket
      /\ mine.seq = IF o = "nocreate" THEN held[r].seq ELSE new.seq
  <2>1. held[r] \in Ticket
    BY DEF TicketsTyped
  <2>. QED BY <1>2, <2>1 DEF Written, Ticket
<1>4. Write(r, held[r], new, o) /\ held' = [held EXCEPT ![r] = mine]
  BY <1>1
<1> HIDE DEF new, mine
<1>5. /\ AllImages' /\ (HasTicket(r) => HasTicket(r)')
      /\ \A q \in Recs \ {r} : FindsNoMore(q)
      /\ Loadable(r)' \subseteq Loadable(r) \cup {new}
      /\ o = "ok" => Loadable(r)' = {new}
  BY <1>2, <1>3, <1>4, OwnerWrites
<1>. QED BY <1>2, <1>5

\* The move to the next key: the next key is in memory only when a restart
\* finds nothing else.
LEMMA NextKeyFinds ==
  ASSUME Journaled, DiskTyped, TicketsTyped, AllImages, NEW r \in Recs, held[r] # None,
         NEW o, NextKey(r, o)
  PROVE  /\ AllImages' /\ (HasTicket(r) => HasTicket(r)')
         /\ \A q \in Recs \ {r} : FindsNoMore(q)
         /\ held'[r].key = IF o = "ok" THEN held[r].key + 1 ELSE held[r].key
         /\ \A g \in Loadable(r)' :
              \/ g \in Loadable(r) /\ o # "ok"
              \/ g.state = held[r].state /\ g.key = held[r].key + 1
<1> DEFINE change == [held[r] EXCEPT !.key = @ + 1]
           fresh(s) == [change EXCEPT !.seq = s]
<1>1. PICK s \in 1 .. MaxSeq :
        /\ Write(r, held[r], fresh(s), o)
        /\ held' = [held EXCEPT ![r] =
                      IF o = "ok" THEN fresh(s)
                      ELSE [Written(held[r], fresh(s), o) EXCEPT !.key = KeyAfterFailure(r)]]
  BY DEF NextKey
<1> DEFINE new == fresh(s)
           mine == IF o = "ok" THEN new ELSE [Written(held[r], new, o) EXCEPT !.key = KeyAfterFailure(r)]
<1>2. held[r] \in Ticket /\ held[r].key \in Keys /\ held[r].key + 1 \in Keys
  BY TicketDiskAssumption DEF TicketsTyped, NextKey, Ticket, Keys
<1>3. new \in Ticket /\ new.key = held[r].key + 1 /\ new.state = held[r].state
  <2>1. change \in Ticket /\ change.key = held[r].key + 1 /\ change.state = held[r].state
    BY <1>2 DEF Ticket
  <2> HIDE DEF change
  <2>. QED BY <1>1, <2>1, TicketDiskAssumption DEF Ticket
<1>4. Write(r, held[r], new, o) /\ held' = [held EXCEPT ![r] = mine]
  BY <1>1
<1> HIDE DEF new
<1>5. /\ mine \in Ticket /\ mine.key = IF o = "ok" THEN held[r].key + 1 ELSE held[r].key
      /\ mine.seq = IF o = "nocreate" THEN held[r].seq ELSE new.seq
  BY <1>2, <1>3 DEF Written, Ticket, KeyAfterFailure
<1> HIDE DEF mine
<1>6. /\ AllImages' /\ (HasTicket(r) => HasTicket(r)')
      /\ \A q \in Recs \ {r} : FindsNoMore(q)
      /\ Loadable(r)' \subseteq Loadable(r) \cup {new}
      /\ o = "ok" => Loadable(r)' = {new}
  BY <1>3, <1>4, <1>5, OwnerWrites
<1>7. held'[r] = mine
  BY <1>4 DEF TicketsTyped
<1>. QED BY <1>3, <1>5, <1>6, <1>7

\* A removal, with or without the owner's copy.
LEMMA RemovalFinds ==
  ASSUME Journaled, DiskTyped, TicketsTyped, AllImages, NEW r \in Recs, NEW o,
         RemoveFiles(r, o) \/ UNCHANGED <<gens, imgs>>,
         held' = [held EXCEPT ![r] = None] \/ held' = held
  PROVE  /\ AllImages' /\ Loadable(r)' \subseteq Loadable(r)
         /\ \A q \in Recs \ {r} : FindsNoMore(q)
<1>1. /\ \A q \in Recs \ {r} :
           FindsNoMore(q) /\ Shown(q)' /\ Distinct(q)' /\ gens'[q] = gens[q]
      /\ Shown(r)' /\ Distinct(r)' /\ gens'[r] \subseteq gens[r]
      /\ Loadable(r)' \subseteq Loadable(r)
  <2>1. CASE RemoveFiles(r, o)
    BY <2>1, RemoveFinds DEF AllImages, Images
  <2>2. CASE UNCHANGED <<gens, imgs>>
    <3>1. \A q \in Recs : gens'[q] = gens[q] /\ imgs'[q] = imgs[q]
      BY <2>2
    <3>2. \A q \in Recs : FindsNoMore(q) /\ Shown(q)' /\ Distinct(q)'
      BY <3>1, FindsSame DEF AllImages, Images
    <3>. QED BY <3>1, <3>2 DEF FindsNoMore
  <2>. QED BY <2>1, <2>2
<1>2. \A q \in Recs : held'[q] # None => held'[q] = held[q]
  BY DEF TicketsTyped
<1>3. \A q \in Recs : SeqTop(q)'
  BY <1>1, <1>2 DEF SeqTop, AllImages, Images
<1>. QED BY <1>1, <1>3 DEF AllImages, Images

\* The creation of the ticket: a restart finds it or nothing.
LEMMA ReserveFinds ==
  ASSUME Journaled, Owners, AllImages, NEW r \in Recs, NEW o \in WriteOutcomes \cup {"nodir"},
         Reserve(r, o)
  PROVE  /\ AllImages'
         /\ \A q \in Recs \ {r} : FindsNoMore(q)
         /\ Loadable(r)' \subseteq {NewTicket}
         /\ o = "ok" => HasTicket(r)' /\ held'[r] = NewTicket
         /\ held'[r] \in {None, NewTicket} /\ \A q \in Recs \ {r} : held'[q] = held[q]
<1>d. DiskTyped /\ TicketsTyped
  BY DEF Owners, TypeOK, TicketTyped, TicketsTyped
<1>1. held[r] = None /\ gens[r] = {} /\ UNION imgs[r] = {}
  BY DEF Reserve, Owners, OneOwner, RecorderOwns, AllGens
<1>2. Loadable(r) = {}
  <2>1. \A g : g \notin Loadable(r)
    BY <1>1, LoadableJournaled DEF Newest, Valid
  <2>. QED BY <2>1
<1>3. /\ held'[r] \in {None, NewTicket} /\ \A q \in Recs \ {r} : held'[q] = held[q]
      /\ o = "ok" => held'[r] = NewTicket
      /\ o # "ok" => held'[r] = None
  BY <1>d, <1>1 DEF Reserve, TicketsTyped
<1>4. CASE o = "nodir"
  <2>1. \A q \in Recs : gens'[q] = gens[q] /\ imgs'[q] = imgs[q]
    BY <1>4 DEF Reserve
  <2>2. \A q \in Recs : FindsNoMore(q) /\ Shown(q)' /\ Distinct(q)'
    BY <2>1, FindsSame DEF AllImages, Images
  <2>3. \A q \in Recs : SeqTop(q)'
    BY <1>3, <1>4, <2>1 DEF SeqTop, AllImages, Images
  <2>4. AllImages'
    BY <2>2, <2>3 DEF AllImages, Images
  <2>. QED BY <1>2, <1>3, <1>4, <2>2, <2>4 DEF FindsNoMore
<1>5. CASE o # "nodir"
  <2> DEFINE zero == [NewTicket EXCEPT !.seq = 0]
  <2>1. Write(r, zero, NewTicket, o)
    BY <1>5 DEF Reserve
  <2>2. NewTicket \in Ticket /\ zero.seq \in Nat /\ NewTicket.seq = 1
    BY TicketDiskAssumption DEF NewTicket, Ticket, States, Keys
  <2>3. \A g \in gens[r] : g.seq <= zero.seq
    BY <1>1
  <2> HIDE DEF zero
  <2>4. /\ \A q \in Recs \ {r} :
              FindsNoMore(q) /\ Shown(q)' /\ Distinct(q)' /\ gens'[q] = gens[q]
        /\ Shown(r)' /\ Distinct(r)'
        /\ Loadable(r)' \subseteq Loadable(r) \cup {NewTicket}
        /\ o = "ok" => HasTicket(r)'
        /\ \A g \in gens'[r] : g \in gens[r] \/ (g = NewTicket /\ o # "nocreate")
    BY <1>d, <2>1, <2>2, <2>3, WriteFinds DEF AllImages, Images
  <2>5. \A q \in Recs : SeqTop(q)'
    <3>1. SeqTop(r)'
      BY <1>1, <1>3, <2>2, <2>4 DEF SeqTop
    <3>2. \A q \in Recs \ {r} : SeqTop(q)'
      BY <1>3, <2>4 DEF SeqTop, AllImages, Images
    <3>. QED BY <3>1, <3>2
  <2>6. AllImages'
    BY <2>4, <2>5 DEF AllImages, Images
  <2>. QED BY <1>2, <1>3, <2>4, <2>6
<1>. QED BY <1>4, <1>5

-------------------------------------------------------------------------------
(* No upload under a key a restart would not know                          *)

\* Key k of ticket r was used: by an object, or by a request still under way.
Uses(r, k) ==
  \/ \E x \in puts : x.id = r /\ x.key = k
  \/ \E l \in late : l.rec = r /\ l.key = k

\* The owner's copy has reached every key that was used, and a restart finds
\* no ticket that lags behind the owner's copy or a key that was used.
KeysPersisted(r) ==
  /\ \A k \in Keys : Uses(r, k) =>
       /\ held[r] # None => k <= held[r].key
       /\ \A g \in Loadable(r) : k <= g.key
  /\ held[r] # None => \A g \in Loadable(r) : held[r].key <= g.key
  /\ phase[r] # "done" => \A k \in Keys : ~Uses(r, k)

\* A step that forgets, or leaves ticket r alone.
LEMMA KeysForget ==
  ASSUME NEW r \in Recs, KeysPersisted(r), Loadable(r)' \subseteq Loadable(r),
         held'[r] \in {held[r], None}, phase'[r] # "done" => phase[r] # "done",
         \A k \in Keys : Uses(r, k)' => Uses(r, k)
  PROVE  KeysPersisted(r)'
BY DEF KeysPersisted

\* A write of the owner that stays at its key, or goes on to the next one.
LEMMA KeysWrite ==
  ASSUME NEW r \in Recs, KeysPersisted(r), held[r] # None, held[r] \in Ticket,
         \A g \in Loadable(r)' :
           (g \in Loadable(r) /\ held'[r].key = held[r].key) \/ g.key = held'[r].key
             \/ (g.key = held[r].key + 1 /\ held'[r].key = held[r].key),
         held'[r].key \in {held[r].key, held[r].key + 1},
         phase'[r] # "done" => phase[r] # "done",
         \A k \in Keys : Uses(r, k)' => Uses(r, k)
  PROVE  KeysPersisted(r)'
<1>1. held[r].key \in Keys /\ held[r].key \in Nat /\ (\A k \in Keys : k \in Nat)
  BY TicketDiskAssumption DEF Ticket, Keys
<1>2. \A k \in Keys : Uses(r, k)' => k <= held[r].key
  BY DEF KeysPersisted
<1>3. held[r].key <= held'[r].key
  BY <1>1
<1>4. \A g \in Loadable(r)' : held'[r].key <= g.key
  BY <1>1, <1>3 DEF KeysPersisted
<1>5. \A k \in Keys : Uses(r, k)' => \A g \in Loadable(r)' : k <= g.key
  <2> SUFFICES ASSUME NEW k \in Keys, Uses(r, k)', NEW g \in Loadable(r)' PROVE k <= g.key
    OBVIOUS
  <2>1. k <= held[r].key
    BY <1>2
  <2>2. CASE g \in Loadable(r)
    BY <2>2 DEF KeysPersisted
  <2>3. CASE g.key \in {held[r].key, held[r].key + 1}
    BY <1>1, <2>1, <2>3
  <2>. QED BY <2>2, <2>3
<1>6. \A k \in Keys : Uses(r, k)' => k <= held'[r].key
  BY <1>1, <1>2
<1>7. phase'[r] # "done" => \A k \in Keys : ~Uses(r, k)'
  BY DEF KeysPersisted
<1>. QED BY <1>4, <1>5, <1>6, <1>7 DEF KeysPersisted

RestartInv == Owners /\ AllImages /\ \A r \in Recs : KeysPersisted(r)

LEMMA RestartParts ==
  ASSUME RestartInv
  PROVE  /\ Owners /\ AllImages /\ DiskTyped /\ TicketsTyped /\ TicketTyped /\ S3Typed /\ ServiceTyped
         /\ RecorderOwns /\ RecoveryOwns /\ WorkerOwns
         /\ \A r \in Recs : KeysPersisted(r)
BY DEF RestartInv, Owners, TypeOK, OneOwner, TicketTyped, TicketsTyped

\* An update of ticket r that leaves its key alone, S3 untouched.
LEMMA RestartUpdate ==
  ASSUME Journaled, RestartInv, NEW r \in Recs, held[r] # None,
         NEW change \in Ticket, change.key = held[r].key, NEW o, Update(r, change, o),
         UNCHANGED <<late, puts>>,
         \A q \in Recs : phase'[q] # "done" => phase[q] # "done"
  PROVE  AllImages' /\ \A q \in Recs : KeysPersisted(q)'
<1>1. /\ AllImages'
      /\ \A q \in Recs \ {r} : FindsNoMore(q)
      /\ \A g \in Loadable(r)' :
           (g \in Loadable(r) /\ o # "ok") \/ (g.state = change.state /\ g.key = change.key)
  BY RestartParts, UpdateFinds
<1>2. held'[r].key = held[r].key /\ \A q \in Recs \ {r} : held'[q] = held[q]
  BY RestartParts, UpdateEffect
<1>3. held[r] \in Ticket
  BY RestartParts DEF TicketsTyped
<1>4. \A q \in Recs, k \in Keys : Uses(q, k)' => Uses(q, k)
  BY DEF Uses
<1>5. KeysPersisted(r)'
  BY <1>1, <1>2, <1>3, <1>4, RestartParts, KeysWrite
<1>6. \A q \in Recs \ {r} : KeysPersisted(q)'
  BY <1>1, <1>2, <1>4, RestartParts, KeysForget DEF FindsNoMore
<1>. QED BY <1>1, <1>5, <1>6

\* A removal of ticket r.
LEMMA RestartRemoval ==
  ASSUME Journaled, RestartInv, NEW r \in Recs, NEW o,
         RemoveFiles(r, o) \/ UNCHANGED <<gens, imgs>>,
         held' = [held EXCEPT ![r] = None] \/ held' = held, UNCHANGED <<late, puts>>,
         \A q \in Recs : phase'[q] # "done" => phase[q] # "done"
  PROVE  AllImages' /\ \A q \in Recs : KeysPersisted(q)'
<1>1. /\ AllImages' /\ Loadable(r)' \subseteq Loadable(r)
      /\ \A q \in Recs \ {r} : FindsNoMore(q)
  BY RestartParts, RemovalFinds
<1>2. \A q \in Recs : held'[q] \in {held[q], None}
  BY RestartParts DEF TicketsTyped
<1>3. \A q \in Recs, k \in Keys : Uses(q, k)' => Uses(q, k)
  BY DEF Uses
<1>4. \A q \in Recs : KeysPersisted(q)'
  BY <1>1, <1>2, <1>3, RestartParts, KeysForget DEF FindsNoMore
<1>. QED BY <1>1, <1>4

\* A step that leaves the directory alone; memory may be lost.
LEMMA RestartIdle ==
  ASSUME Journaled, RestartInv, UNCHANGED <<gens, imgs>>,
         \A q \in Recs : held'[q] = held[q],
         \A q \in Recs : phase'[q] # "done" => phase[q] # "done",
         \A q \in Recs, k \in Keys : Uses(q, k)' => Uses(q, k)
  PROVE  AllImages' /\ \A q \in Recs : KeysPersisted(q)'
<1>1. \A q \in Recs : gens'[q] = gens[q] /\ imgs'[q] = imgs[q]
  OBVIOUS
<1>2. \A q \in Recs : FindsNoMore(q) /\ Shown(q)' /\ Distinct(q)'
  BY <1>1, RestartParts, FindsSame DEF AllImages, Images
<1>3. \A q \in Recs : SeqTop(q)'
  BY <1>1, RestartParts DEF SeqTop, AllImages, Images
<1>4. \A q \in Recs : KeysPersisted(q)'
  BY <1>2, RestartParts, KeysForget DEF FindsNoMore
<1>. QED BY <1>2, <1>3, <1>4 DEF AllImages, Images

LEMMA RestartRecorder ==
  ASSUME Journaled, RestartInv, RecorderNext
  PROVE  AllImages' /\ \A q \in Recs : KeysPersisted(q)'
<1> USE DEF fileVars, tickVars, sysVars, s3Vars, histVars
<1>i. /\ Owners /\ AllImages /\ DiskTyped /\ TicketsTyped /\ TicketTyped /\ RecorderOwns
      /\ \A r \in Recs : KeysPersisted(r)
  BY RestartParts
<1>r. \A r \in Recs : phase[r] \notin {"unborn", "done"} => held[r] # None /\ held[r] \in Ticket
  BY <1>i DEF RecorderOwns, TicketsTyped
<1>1. ASSUME NEW r \in Recs, NEW o \in WriteOutcomes \cup {"nodir"}, Reserve(r, o)
      PROVE AllImages' /\ \A q \in Recs : KeysPersisted(q)'
  <2>1. /\ AllImages'
        /\ \A q \in Recs \ {r} : FindsNoMore(q)
        /\ Loadable(r)' \subseteq {NewTicket}
        /\ held'[r] \in {None, NewTicket} /\ \A q \in Recs \ {r} : held'[q] = held[q]
    BY <1>1, <1>i, ReserveFinds
  <2>2. UNCHANGED <<late, puts>> /\ phase[r] = "unborn" /\ \A q \in Recs \ {r} : phase'[q] = phase[q]
    BY <1>1, <1>i DEF Reserve, TicketTyped
  <2>3. \A q \in Recs, k \in Keys : Uses(q, k)' => Uses(q, k)
    BY <2>2 DEF Uses
  <2>4. \A k \in Keys : ~Uses(r, k)'
    BY <1>i, <2>2, <2>3 DEF KeysPersisted
  <2>5. KeysPersisted(r)'
    <3>1. \A g \in Loadable(r)' : g.key = 1
      BY <2>1 DEF NewTicket
    <3>2. held'[r] # None => held'[r].key = 1
      BY <2>1 DEF NewTicket
    <3>. QED BY <2>4, <3>1, <3>2 DEF KeysPersisted
  <2>6. \A q \in Recs \ {r} : KeysPersisted(q)'
    BY <1>i, <2>1, <2>2, <2>3, KeysForget DEF FindsNoMore
  <2>. QED BY <2>1, <2>5, <2>6
<1>2. ASSUME NEW r \in Recs, NEW x, Begin(r) \/ Encode(r, x) \/ FinishBad(r, x)
      PROVE AllImages' /\ \A q \in Recs : KeysPersisted(q)'
  <2>1. UNCHANGED <<gens, imgs, held, late, puts>>
    BY <1>2 DEF Begin, Encode, FinishBad
  <2>2. \A q \in Recs : phase'[q] # "done" => phase[q] # "done"
    BY <1>2, <1>i DEF Begin, Encode, FinishBad, TicketTyped
  <2>. QED BY <2>1, <2>2, RestartIdle DEF Uses
<1>3. ASSUME NEW r \in Recs, NEW o, Sync(r, o) PROVE AllImages' /\ \A q \in Recs : KeysPersisted(q)'
  <2>1. held[r] # None /\ held[r] \in Ticket
    BY <1>3, <1>r DEF Sync
  <2>2. [held[r] EXCEPT !.mark = TRUE] \in Ticket /\ [held[r] EXCEPT !.mark = TRUE].key = held[r].key
    BY <2>1 DEF Ticket
  <2>. QED BY <1>3, <2>1, <2>2, RestartUpdate DEF Sync
<1>4. ASSUME NEW r \in Recs, NEW o, NEW mk, Fail(r, o, mk)
      PROVE AllImages' /\ \A q \in Recs : KeysPersisted(q)'
  <2>1. held[r] # None /\ held[r] \in Ticket
    BY <1>4, <1>r DEF Fail
  <2>2. /\ [held[r] EXCEPT !.state = "failed"] \in Ticket
        /\ [held[r] EXCEPT !.state = "failed"].key = held[r].key
    BY <2>1 DEF Ticket, States
  <2>3. \A q \in Recs : phase'[q] # "done" => phase[q] # "done"
    BY <1>4, <1>i DEF Fail, TicketTyped
  <2>4. Update(r, [held[r] EXCEPT !.state = "failed"], o) /\ UNCHANGED <<late, puts>>
    BY <1>4 DEF Fail
  <2>. QED BY <1>4, <2>1, <2>2, <2>3, <2>4, RestartUpdate
<1>5. ASSUME NEW r \in Recs, NEW o, NEW cause, Discard(r, o) \/ FinishEmpty(r, cause, o)
      PROVE AllImages' /\ \A q \in Recs : KeysPersisted(q)'
  <2>1. /\ RemoveFiles(r, o) \/ UNCHANGED <<gens, imgs>>
        /\ held' = [held EXCEPT ![r] = None] \/ held' = held
    BY <1>5 DEF Discard, FinishEmpty, RemoveOutput, ClearTicket
  <2>2. \A q \in Recs : phase'[q] # "done" => phase[q] # "done"
    BY <1>5, <1>i DEF Discard, FinishEmpty, RemoveOutput, TicketTyped
  <2>3. UNCHANGED <<late, puts>>
    BY <1>5 DEF Discard, FinishEmpty
  <2>. QED BY <1>5, <2>1, <2>2, <2>3, RestartRemoval
<1>6. ASSUME NEW r \in Recs, NEW o, FinishCommit(r, o)
      PROVE AllImages' /\ \A q \in Recs : KeysPersisted(q)'
  <2>1. held[r] # None /\ held[r] \in Ticket
    BY <1>6, <1>r DEF FinishCommit
  <2>2. /\ [held[r] EXCEPT !.state = "ready"] \in Ticket
        /\ [held[r] EXCEPT !.state = "ready"].key = held[r].key
    BY <2>1 DEF Ticket, States
  <2>3. \A q \in Recs : phase'[q] # "done" => phase[q] # "done"
    BY <1>6, <1>i DEF FinishCommit, TicketTyped
  <2>4. CASE HasDest(r)
    BY <1>6, <2>1, <2>2, <2>3, <2>4, RestartUpdate DEF FinishCommit
  <2>5. CASE ~HasDest(r)
    BY <1>6, <2>3, <2>5, RestartRemoval DEF FinishCommit, ClearTicket
  <2>. QED BY <2>4, <2>5
<1>. QED BY <1>1, <1>2, <1>3, <1>4, <1>5, <1>6 DEF RecorderNext

LEMMA RestartUploader ==
  ASSUME Journaled, RestartInv, UploaderNext
  PROVE  AllImages' /\ \A q \in Recs : KeysPersisted(q)'
<1> USE DEF fileVars, tickVars, sysVars, s3Vars, histVars
<1>i. /\ Owners /\ AllImages /\ DiskTyped /\ TicketsTyped /\ TicketTyped /\ S3Typed
      /\ \A r \in Recs : KeysPersisted(r)
  BY RestartParts
<1> DEFINE t == upl.rec
<1>t. upl.pc # "idle" => /\ t \in Recs /\ held[t] # None /\ held[t] \in Ticket
                         /\ held[t].key \in Keys /\ phase[t] = "done"
  BY <1>i, TakenTicket DEF Ticket
<1>1. ASSUME NEW r \in Recs, NEW destOK, TakeDue(r, destOK)
      PROVE AllImages' /\ \A q \in Recs : KeysPersisted(q)'
  BY <1>1, RestartIdle DEF TakeDue, Uses
<1>2. ASSUME NEW o \in PutOutcomes, Put(o) PROVE AllImages' /\ \A q \in Recs : KeysPersisted(q)'
  <2>1. PICK r \in Recs : /\ r = t /\ held[r] # None /\ held[r] \in Ticket
                          /\ held[r].key \in Keys /\ phase[r] = "done"
    BY <1>2, <1>t DEF Put
  <2>2. UNCHANGED <<gens, imgs, held, phase>>
    BY <1>2 DEF Put
  <2>3. \A q \in Recs, k \in Keys : Uses(q, k)' => Uses(q, k) \/ (q = r /\ k = held[r].key)
    BY <1>2, <2>1 DEF Put, Uses, Commit, PutOutcomes
  <2>4. \A q \in Recs : gens'[q] = gens[q] /\ imgs'[q] = imgs[q] /\ held'[q] = held[q] /\ phase'[q] = phase[q]
    BY <2>2
  <2>5. \A q \in Recs : FindsNoMore(q) /\ Shown(q)' /\ Distinct(q)'
    BY <1>i, <2>4, FindsSame DEF AllImages, Images
  <2>6. \A q \in Recs : SeqTop(q)'
    BY <1>i, <2>4 DEF SeqTop, AllImages, Images
  <2>7. \A q \in Recs \ {r} : KeysPersisted(q)'
    BY <1>i, <2>3, <2>4, <2>5, KeysForget DEF FindsNoMore
  <2>8. KeysPersisted(r)'
    <3>1. held[r].key \in Nat
      BY <2>1, TicketDiskAssumption DEF Keys
    <3>. QED BY <1>i, <2>1, <2>3, <2>4, <2>5, <3>1 DEF FindsNoMore, KeysPersisted
  <2>. QED BY <2>5, <2>6, <2>7, <2>8 DEF AllImages, Images
<1>3. ASSUME NEW reply, NEW o, Head(reply, o) PROVE AllImages' /\ \A q \in Recs : KeysPersisted(q)'
  <2>1. PICK r \in Recs : r = t /\ held[r] # None /\ held[r] \in Ticket
    BY <1>3, <1>t DEF Head
  <2>2. UNCHANGED <<late, puts, phase>>
    BY <1>3 DEF Head
  <2>3. \A q \in Recs, k \in Keys : Uses(q, k)' => Uses(q, k)
    BY <2>2 DEF Uses
  <2>4. CASE UNCHANGED <<gens, imgs, held>>
    BY <2>2, <2>3, <2>4, RestartIdle
  <2>5. CASE NextKey(r, o)
    <3>1. /\ AllImages'
          /\ \A q \in Recs \ {r} : FindsNoMore(q)
          /\ held'[r].key = IF o = "ok" THEN held[r].key + 1 ELSE held[r].key
          /\ \A g \in Loadable(r)' :
               \/ g \in Loadable(r) /\ o # "ok"
               \/ g.state = held[r].state /\ g.key = held[r].key + 1
      BY <1>i, <2>1, <2>5, NextKeyFinds
    <3>2. \A q \in Recs \ {r} : held'[q] = held[q]
      BY <1>i, <2>1, <2>5, NextKeyEffect
    <3>3. KeysPersisted(r)'
      BY <1>i, <2>1, <2>2, <2>3, <3>1, KeysWrite
    <3>4. \A q \in Recs \ {r} : KeysPersisted(q)'
      BY <1>i, <2>2, <2>3, <3>1, <3>2, KeysForget DEF FindsNoMore
    <3>. QED BY <3>1, <3>3, <3>4
  <2>. QED BY <1>3, <2>1, <2>4, <2>5 DEF Head, HeadDone
<1>4. ASSUME NEW o, NEW pc \in UploadPC \ {"idle"}, NEW state \in States, NEW next,
             Finished(pc, state, next, o)
      PROVE AllImages' /\ \A q \in Recs : KeysPersisted(q)'
  <2>1. t \in Recs /\ held[t] # None /\ held[t] \in Ticket
    BY <1>4, <1>t DEF Finished
  <2>2. /\ [held[t] EXCEPT !.state = state] \in Ticket
        /\ [held[t] EXCEPT !.state = state].key = held[t].key
    BY <2>1 DEF Ticket
  <2>. QED BY <1>4, <2>1, <2>2, RestartUpdate DEF Finished, Save
<1>5. ASSUME NEW o, UploadDelivered(o) \/ UploadLost(o) \/ UploadFailed(o) \/ CleanupFailed(o)
      PROVE AllImages' /\ \A q \in Recs : KeysPersisted(q)'
  BY <1>4, <1>5 DEF UploadDelivered, UploadLost, UploadFailed, CleanupFailed, UploadPC, States
<1>6. ASSUME NEW o, Cleanup(o) PROVE AllImages' /\ \A q \in Recs : KeysPersisted(q)'
  <2>1. t \in Recs
    BY <1>6, <1>t DEF Cleanup
  <2>2. /\ RemoveFiles(t, o) \/ UNCHANGED <<gens, imgs>>
        /\ held' = [held EXCEPT ![t] = None] \/ held' = held
    BY <1>6 DEF Cleanup, ClearTicket
  <2>. QED BY <1>6, <2>1, <2>2, RestartRemoval DEF Cleanup
<1>. QED BY <1>1, <1>2, <1>3, <1>5, <1>6 DEF UploaderNext

LEMMA RestartVisit ==
  ASSUME Journaled, RestartInv, NEW r \in Recs, NEW o, Visits(r, o)
  PROVE  AllImages' /\ \A q \in Recs : KeysPersisted(q)'
<1> USE DEF fileVars, tickVars, sysVars, s3Vars, histVars
<1>i. Owners /\ TicketsTyped
  BY RestartParts
<1>1. held[r] # None /\ held[r] \in Ticket
  BY <1>i, VisitEffect DEF TicketsTyped
<1>2. UNCHANGED <<late, puts, phase>>
  BY DEF Visits, RecoverSettled, RecoverWithoutAudio, RecoverAudio
<1>3. CASE RecoverKeep(r)
  BY <1>2, <1>3, RestartIdle DEF RecoverKeep, Uses
<1>4. ASSUME NEW state \in States, RecoverAs(r, state, o)
      PROVE AllImages' /\ \A q \in Recs : KeysPersisted(q)'
  <2>1. /\ [held[r] EXCEPT !.state = state] \in Ticket
        /\ [held[r] EXCEPT !.state = state].key = held[r].key
    BY <1>1 DEF Ticket
  <2>. QED BY <1>1, <1>2, <1>4, <2>1, RestartUpdate DEF RecoverAs, Save
<1>5. CASE RecoverDrop(r, o)
  BY <1>2, <1>5, RestartRemoval DEF RecoverDrop, ClearTicket
<1>. QED BY <1>3, <1>4, <1>5
     DEF Visits, RecoverSettled, RecoverWithoutAudio, RecoverAudio, States

LEMMA RestartRecovery ==
  ASSUME Journaled, RestartInv, RecoveryNext
  PROVE  AllImages' /\ \A q \in Recs : KeysPersisted(q)'
<1> USE DEF fileVars, tickVars, sysVars, s3Vars, histVars
<1>i. /\ Owners /\ AllImages /\ DiskTyped /\ TicketsTyped
      /\ \A r \in Recs : KeysPersisted(r)
  BY RestartParts
<1>1. ASSUME NEW bad \in SUBSET Recs, NEW synced \in BOOLEAN, Load(bad, synced)
      PROVE AllImages' /\ \A q \in Recs : KeysPersisted(q)'
  <2>1. \A q \in Recs :
          /\ FindsNoMore(q) /\ Shown(q)' /\ Distinct(q)' /\ gens'[q] \subseteq gens[q]
          /\ synced /\ q \notin bad => \A g \in Newest(gens[q]) : Loadable(q)' = {g} /\ gens'[q] = {g}
    BY <1>1, <1>i, LoadFinds DEF Load, AllImages, Images
  <2>2. UNCHANGED <<late, puts, phase>>
    BY <1>1 DEF Load
  <2>3. ASSUME NEW q \in Recs PROVE SeqTop(q)' /\ KeysPersisted(q)'
    <3>1. \A k \in Keys : Uses(q, k)' => Uses(q, k)
      BY <2>2 DEF Uses
    <3>2. CASE held'[q] \in {held[q], None}
      <4>1. KeysPersisted(q)'
        BY <1>i, <2>1, <2>2, <3>1, <3>2, KeysForget DEF FindsNoMore
      <4>. QED BY <1>i, <2>1, <3>2, <4>1 DEF SeqTop, AllImages, Images
    <3>3. CASE synced /\ q \notin bad /\ Newest(gens[q]) # {}
               /\ held'[q] = CHOOSE g \in Newest(gens[q]) : TRUE
      <4>1. held'[q] \in Newest(gens[q]) /\ held'[q] \in Ticket
        <5>1. held'[q] \in Newest(gens[q])
          BY <3>3
        <5>. QED BY <1>i, <3>3, <5>1, LoadedTicket
      <4>2. Loadable(q)' = {held'[q]} /\ gens'[q] = {held'[q]}
        BY <2>1, <3>3, <4>1
      <4>3. held'[q] \in Loadable(q)
        BY <2>1, <4>2 DEF FindsNoMore
      <4>4. held'[q].seq \in Nat /\ held'[q].key \in Nat
        BY <4>1, TicketDiskAssumption DEF Ticket, Keys
      <4>5. SeqTop(q)'
        BY <4>2, <4>4 DEF SeqTop
      <4>6. KeysPersisted(q)'
        <5>1. \A k \in Keys : Uses(q, k) => k <= held'[q].key
          BY <1>i, <4>3 DEF KeysPersisted
        <5>2. phase[q] # "done" => \A k \in Keys : ~Uses(q, k)
          BY <1>i DEF KeysPersisted
        <5>. QED BY <2>2, <3>1, <4>2, <4>4, <5>1, <5>2 DEF KeysPersisted
      <4>. QED BY <4>5, <4>6
    <3>. QED BY <1>1, <1>i, <3>2, <3>3 DEF Load
  <2>. QED BY <2>1, <2>3 DEF AllImages, Images
<1>2. ASSUME NEW r \in Recs, NEW o, Visits(r, o) PROVE AllImages' /\ \A q \in Recs : KeysPersisted(q)'
  BY <1>2, RestartVisit
<1>3. CASE Serve
  BY <1>3, RestartIdle DEF Serve, Uses
<1>. QED BY <1>1, <1>2, <1>3 DEF RecoveryNext, Visits

LEMMA RestartEnvironment ==
  ASSUME Journaled, RestartInv, EnvironmentNext
  PROVE  AllImages' /\ \A q \in Recs : KeysPersisted(q)'
<1> USE DEF fileVars, tickVars, sysVars, s3Vars, histVars
<1>i. /\ Owners /\ AllImages /\ DiskTyped /\ TicketsTyped /\ S3Typed
      /\ \A r \in Recs : KeysPersisted(r)
  BY RestartParts
<1>1. ASSUME NEW l \in late, NEW applied \in BOOLEAN, LateReply(l, applied)
      PROVE AllImages' /\ \A q \in Recs : KeysPersisted(q)'
  <2>1. UNCHANGED <<gens, imgs, held, phase>>
    BY <1>1 DEF LateReply
  <2>2. \A q \in Recs, k \in Keys : Uses(q, k)' => Uses(q, k)
    BY <1>1 DEF LateReply, Commit, Uses
  <2>. QED BY <2>1, <2>2, RestartIdle
<1>2. ASSUME NEW k, Expire(k) PROVE AllImages' /\ \A q \in Recs : KeysPersisted(q)'
  BY <1>2, RestartIdle DEF Expire, Uses
<1>3. ASSUME NEW p, Vanish(p) \/ Retention(p) PROVE AllImages' /\ \A q \in Recs : KeysPersisted(q)'
  BY <1>3, RestartIdle DEF Vanish, Retention, Uses
<1>4. ASSUME Stopped, \A q \in Recs : FindsNoMore(q) /\ Shown(q)' /\ Distinct(q)'
      PROVE AllImages' /\ \A q \in Recs : KeysPersisted(q)'
  <2>1. /\ UNCHANGED <<late, puts>>
        /\ \A q \in Recs : held'[q] = None /\ (phase'[q] # "done" => phase[q] # "done")
    BY <1>4 DEF Stopped
  <2>2. \A q \in Recs : KeysPersisted(q)'
    BY <1>i, <1>4, <2>1, KeysForget DEF FindsNoMore, Uses
  <2>3. \A q \in Recs : SeqTop(q)'
    BY <2>1 DEF SeqTop
  <2>. QED BY <1>4, <2>2, <2>3 DEF AllImages, Images
<1>5. ASSUME NEW torn \in SUBSET Recs, Kill(torn) PROVE AllImages' /\ \A q \in Recs : KeysPersisted(q)'
  BY <1>4, <1>5, <1>i, KillFinds DEF Kill, AllImages, Images
<1>6. ASSUME NEW G \in [Recs -> UNION {Leaves(r) : r \in Recs}], \A r \in Recs : G[r] \in Leaves(r),
             NEW P, NEW M, NEW L, PowerCut(G, P, M, L)
      PROVE AllImages' /\ \A q \in Recs : KeysPersisted(q)'
  BY <1>4, <1>6, <1>i, PowerCutFinds DEF PowerCut, AllImages, Images
<1>7. CASE Crash
  <2>1. CASE \E torn \in {{}} \cup {{r} : r \in Recs} : Kill(torn)
    BY <1>5, <2>1
  <2>. QED BY <1>6, <1>7, <2>1 DEF Crash
<1>. QED BY <1>1, <1>2, <1>3, <1>7 DEF EnvironmentNext

LEMMA RestartInit ==
  ASSUME Init PROVE AllImages /\ \A q \in Recs : KeysPersisted(q)
<1>1. \A q \in Recs : Shown(q) /\ Distinct(q) /\ SeqTop(q)
  BY DEF Init, Shown, Distinct, NamesOnce, SeqTop
<1>2. \A q \in Recs : KeysPersisted(q)
  BY DEF Init, KeysPersisted, Uses
<1>. QED BY <1>1, <1>2 DEF AllImages, Images

\* The step of the induction.
LEMMA RestartNext ==
  ASSUME Journaled PROVE RestartInv /\ [Next]_vars => RestartInv'
<1> SUFFICES ASSUME RestartInv, [Next]_vars PROVE RestartInv'
  OBVIOUS
<1>1. Owners'
  BY RestartParts, OwnersNext
<1>2. AllImages' /\ \A q \in Recs : KeysPersisted(q)'
  <2>1. CASE UNCHANGED vars
    BY <2>1, RestartIdle DEF vars, tickVars, s3Vars, Uses
  <2>. QED BY <2>1, RestartRecorder, RestartUploader, RestartRecovery, RestartEnvironment DEF Next
<1>. QED BY <1>1, <1>2 DEF RestartInv

\* uploader.go 303, for every number of recordings, keys, crashes and failing
\* disk steps: nothing is uploaded under a key that a restart, after whatever
\* a power cut leaves of a journaled directory, would not know, as long as
\* nobody removes objects from S3.  (With somebody who does, the run key_revert
\* shows how the code forgets one.)
THEOREM KeysSurvive ==
  ASSUME Journaled, ~AllowExpire PROVE Spec => []KeyKnown
<1>1. Init => RestartInv
  BY OwnersInit, RestartInit DEF RestartInv
<1>2. Init => IInv
  <2> SUFFICES ASSUME Init PROVE KeyFrontier /\ ObjectsStay
    BY OwnersInit DEF IInv, Owners
  <2>. QED BY DEF Init, KeyFrontier, ObjectsStay, AllGens
<1>3. RestartInv /\ IInv => KeyKnown
  <2> SUFFICES ASSUME RestartInv, IInv, NEW x \in puts, NEW g \in Loadable(x.id)
               PROVE  g.key = x.key
    BY DEF KeyKnown
  <2>1. x.id \in Recs /\ x.key \in Keys
    BY IInvParts DEF S3Typed
  <2>2. g \in AllGens(x.id) /\ g \in Generation /\ g.key \in Keys
    <3>1. \E I \in imgs[x.id] : g \in Newest(I)
      BY <2>1, LoadableJournaled
    <3>2. g \in AllGens(x.id) /\ g \in Generation
      BY <2>1, <3>1, IInvParts DEF AllGens, Newest, Valid, DiskTyped
    <3>. QED BY <3>2 DEF Generation
  <2>3. x.key <= g.key
    BY <2>1, RestartParts DEF KeysPersisted, Uses
  <2>4. ~(x.key < g.key)
    <3>1. obj[x.key].id = x.id
      <4>1. obj[x.key] = [id |-> x.id, aud |-> x.aud]
        BY IInvParts DEF ObjectsStay
      <4>. QED BY <4>1
    <3>2. Below(x.id, g.key)
      BY <2>1, <2>2, IInvParts DEF KeyFrontier
    <3>. QED BY <2>1, <3>1, <3>2 DEF Below
  <2>. QED BY <2>1, <2>2, <2>3, <2>4, TicketDiskAssumption DEF Keys
<1>. QED BY <1>1, <1>2, <1>3, RestartNext, IInvNext, PTL DEF Spec

-------------------------------------------------------------------------------
(* Recordings whose names differ                                           *)

\* Every recording has a file name of its own.  Names carry the time of the
\* recording to the second, and a recorder skips those it has used in the last
\* two hours; what happens when two recordings do share one is checked by the
\* run outbox_names.
NamesDiffer == \A q, r \in Recs : path[q] = path[r] => q = r

WasPut(r) == \E x \in puts : x.id = r

\* What is uploaded for a ticket is its own recording.
OwnAudio(r) ==
  /\ \A x \in puts : x.id = r => x.aud = r
  /\ \A l \in late : l.rec = r => l.aud = r
  /\ upl.rec = r /\ (upl.pc = "put" \/ upl.conflict) => upl.aud = r

\* A ticket counts as delivered, anywhere, only after its object was created.
SaysDelivered(r) ==
  \/ idx[r] = "delivered"
  \/ held[r] # None /\ held[r].state = "delivered"
  \/ \E g \in Loadable(r) : g.state = "delivered"
  \/ upl.rec = r /\ upl.pc \in {"delivered", "cleanup", "resave"}
  \/ \E k \in Keys : obj[k].id = r

DeliveredIsPut(r) == SaysDelivered(r) => WasPut(r)

\* The recording's file is only at the recording's path.
InPlace(r) == \A p \in Paths : vis[p] = r \/ ent[p] = r => p = path[r]

\* Audio is in the file of a recording that has begun.
AudioWritten(r) == r \in audio => bytes[r] # "none" /\ phase[r] \notin {"unborn", "reserved"}

Undelivered(r) == r \in audio /\ HasDest(r) /\ ~WasPut(r)

\* A restart finds the ticket of every recording that still needs it ...
NeedsTicket(r) ==
  \/ phase[r] \in {"reserved", "recording"}
  \/ r \in audio /\ phase[r] = "failing"
  \/ Undelivered(r)

Findable(r) == NeedsTicket(r) => HasTicket(r)

\* ... the service knows it, or counts it as unreadable ...
Known(r) ==
  Undelivered(r) /\ up # "down" =>
    \/ idx[r] # "none" \/ r \in unreadable
    \/ up = "booting" /\ r \in boot

\* ... and its file and the file's entry stay, unless storage loses them.
FileKept(r) ==
  r \notin gone /\ (phase[r] \in {"reserved", "recording"} \/ Undelivered(r)) =>
    vis[path[r]] = r /\ ent[path[r]] = r

\* A failure that is recorded stays so: a restart finds the ticket failed, or
\* still recording next to a marker.
SaysFailed(r, t) == t.state = "failed" \/ (t.state = "recording" /\ marker[path[r]] = "kept")

StaysFailed(r) ==
  r \in quarantined =>
    /\ phase[r] = "done" /\ idx[r] \in {"none", "failed"} /\ (upl.pc = "idle" \/ upl.rec # r)
    /\ ~WasPut(r) /\ \A l \in late : l.rec # r
    /\ held[r] # None => SaysFailed(r, held[r])
    /\ \A g \in Loadable(r) : SaysFailed(r, g)

Sound(r) ==
  /\ OwnAudio(r) /\ DeliveredIsPut(r) /\ InPlace(r) /\ AudioWritten(r)
  /\ Findable(r) /\ Known(r) /\ FileKept(r) /\ StaysFailed(r)

KeptInv == RestartInv /\ DurableInv /\ NamesDiffer /\ \A r \in Recs : Sound(r)

\* A step that leaves ticket r as it is, with its file and its objects.
SameTicket(r) ==
  /\ path'[r] = path[r] /\ mode'[r] = mode[r] /\ held'[r] = held[r]
  /\ idx'[r] = idx[r] /\ phase'[r] = phase[r]
  /\ FindsNoMore(r)
  /\ up' = up /\ (r \in boot => r \in boot') /\ (r \in unreadable => r \in unreadable')

SameFile(r) ==
  /\ bytes[r] # "none" => bytes'[r] # "none"
  /\ \A p \in Paths : vis'[p] = r \/ ent'[p] = r => vis[p] = r \/ ent[p] = r
  /\ vis[path[r]] = r /\ ent[path[r]] = r => vis'[path[r]] = r /\ ent'[path[r]] = r
  /\ marker[path[r]] = "kept" => marker'[path[r]] = "kept"
  /\ r \in audio' => r \in audio
  /\ r \in gone => r \in gone'
  /\ r \in quarantined' => r \in quarantined

SameObjects(r) ==
  /\ \A x \in puts' : x.id = r => x \in puts
  /\ \A l \in late' : l.rec = r => l \in late
  /\ WasPut(r) => WasPut(r)'
  /\ \A k \in Keys : obj'[k].id = r => obj[k].id = r
  /\ upl' = upl \/ upl'.rec # r

LEMMA SoundUntouched ==
  ASSUME NEW r \in Recs, Sound(r), SameTicket(r), SameFile(r), SameObjects(r)
  PROVE  Sound(r)'
<1>1. WasPut(r)' <=> WasPut(r)
  BY DEF SameObjects, WasPut
<1>2. OwnAudio(r)' /\ InPlace(r)' /\ AudioWritten(r)'
  BY DEF Sound, SameTicket, SameFile, SameObjects, OwnAudio, InPlace, AudioWritten
<1>3. DeliveredIsPut(r)'
  BY <1>1 DEF Sound, SameTicket, SameObjects, FindsNoMore, DeliveredIsPut, SaysDelivered
<1>4. Undelivered(r)' => Undelivered(r)
  BY <1>1 DEF Undelivered, HasDest, SameTicket, SameFile
<1>5. Findable(r)' /\ Known(r)' /\ FileKept(r)'
  BY <1>4 DEF Sound, Findable, Known, FileKept, SameTicket, SameFile, FindsNoMore, NeedsTicket
<1>6. StaysFailed(r)'
  BY <1>1 DEF Sound, SameTicket, SameFile, SameObjects, FindsNoMore, StaysFailed, SaysFailed
<1>. QED BY <1>2, <1>3, <1>5, <1>6 DEF Sound

LEMMA KeptParts ==
  ASSUME KeptInv
  PROVE  /\ RestartInv /\ Owners /\ AllImages /\ DurableInv /\ NamesDiffer
         /\ DiskTyped /\ FileTyped /\ TicketsTyped /\ TicketTyped /\ ServiceTyped /\ S3Typed
         /\ HistoryTyped /\ RecorderOwns /\ RecoveryOwns /\ WorkerOwns
         /\ \A r \in Recs : Sound(r) /\ KeysPersisted(r) /\ Shown(r) /\ Distinct(r)
BY DEF KeptInv, RestartInv, AllImages, Images, Owners, TypeOK, OneOwner, TicketTyped, TicketsTyped

\* The step of ticket r leaves the others with what they have.
OthersSame(r) == \A q \in Recs \ {r} : SameTicket(q) /\ SameFile(q) /\ SameObjects(q)

AllSound == \A q \in Recs : path'[q] = path[q] /\ Sound(q)'

LEMMA SoundStep ==
  ASSUME KeptInv, NEW r \in Recs, OthersSame(r), path'[r] = path[r], Sound(r)'
  PROVE  AllSound
<1>1. \A q \in Recs \ {r} : path'[q] = path[q] /\ Sound(q)'
  BY SoundUntouched DEF OthersSame, SameTicket, KeptInv
<1>. QED BY <1>1 DEF AllSound

\* At the path of a recording is its own file, or none.
LEMMA OwnName ==
  ASSUME KeptInv, NEW r \in Recs
  PROVE  /\ vis[path[r]] \in {r, None} /\ ent[path[r]] \in {r, None} /\ path[r] \in Paths
         /\ \A q \in Recs \ {r} : path[q] # path[r]
<1>1. path[r] \in Paths
  BY KeptParts DEF TicketTyped
<1>2. \A f \in Recs : vis[path[r]] = f \/ ent[path[r]] = f => f = r
  BY <1>1, KeptParts DEF Sound, InPlace, NamesDiffer
<1>. QED BY <1>1, <1>2, KeptParts DEF FileTyped, NamesDiffer

\* A step that touches, of all files, only that of recording r.
FilesLocal(r) ==
  /\ \A p \in Paths \ {path[r]} : vis'[p] = vis[p] /\ ent'[p] = ent[p] /\ marker'[p] = marker[p]
  /\ vis'[path[r]] \in {vis[path[r]], ent[path[r]], r, None}
  /\ ent'[path[r]] \in {vis[path[r]], ent[path[r]], r, None}
  /\ \A q \in Recs \ {r} : bytes'[q] # "none" \/ bytes'[q] = bytes[q]
  /\ audio' \subseteq audio \cup {r} /\ quarantined' \subseteq quarantined \cup {r} /\ gone' = gone

LEMMA FilesOfOthers ==
  ASSUME KeptInv, NEW r \in Recs, FilesLocal(r)
  PROVE  \A q \in Recs \ {r} : SameFile(q)
<1> SUFFICES ASSUME NEW q \in Recs \ {r} PROVE SameFile(q)
  OBVIOUS
<1>1. path[q] \in Paths \ {path[r]}
  BY OwnName
<1>2. /\ vis'[path[q]] = vis[path[q]] /\ ent'[path[q]] = ent[path[q]]
      /\ marker'[path[q]] = marker[path[q]]
  BY <1>1 DEF FilesLocal
<1>3. ASSUME NEW p \in Paths, vis'[p] = q \/ ent'[p] = q PROVE vis[p] = q \/ ent[p] = q
  <2>1. CASE p = path[r]
    BY <1>3, <2>1, KeptParts, OutboxAssumption DEF FilesLocal
  <2>2. CASE p # path[r]
    BY <1>3, <2>2 DEF FilesLocal
  <2>. QED BY <2>1, <2>2
<1>. QED BY <1>2, <1>3 DEF FilesLocal, SameFile

\* What the step of ticket r leaves of the index and the service.
TicketsLocal(r) ==
  /\ \A q \in Recs : path'[q] = path[q] /\ mode'[q] = mode[q]
  /\ \A q \in Recs \ {r} :
       held'[q] = held[q] /\ idx'[q] = idx[q] /\ phase'[q] = phase[q] /\ FindsNoMore(q)
  /\ up' = up /\ unreadable' = unreadable /\ boot \subseteq boot' \cup {r}

LEMMA OthersStay ==
  ASSUME KeptInv, NEW r \in Recs, FilesLocal(r), TicketsLocal(r),
         \A q \in Recs \ {r} : SameObjects(q)
  PROVE  OthersSame(r)
<1>1. \A q \in Recs \ {r} : SameTicket(q)
  BY DEF TicketsLocal, SameTicket
<1>. QED BY <1>1, FilesOfOthers DEF OthersSame

LEMMA ObjectsStayAsTheyAre ==
  ASSUME UNCHANGED <<obj, late, puts, upl>>
  PROVE  \A q \in Recs : SameObjects(q) /\ (WasPut(q)' <=> WasPut(q)) /\ (OwnAudio(q)' <=> OwnAudio(q))
BY DEF SameObjects, WasPut, OwnAudio

\* A directory that stays as it is.
LEMMA SameDirectory ==
  ASSUME Journaled, KeptInv, UNCHANGED <<gens, imgs>>
  PROVE  \A q \in Recs : FindsNoMore(q) /\ (HasTicket(q)' <=> HasTicket(q)) /\ Loadable(q)' = Loadable(q)
<1>1. \A q \in Recs : gens'[q] = gens[q] /\ imgs'[q] = imgs[q]
  OBVIOUS
<1>2. \A q \in Recs : FindsNoMore(q)
  BY <1>1, FindsSame, KeptParts
<1>. QED BY <1>2 DEF HasTicket, Loadable, Leaves

-------------------------------------------------------------------------------
(* The recorder's steps                                                    *)

\* A ticket its recorder still owns says so everywhere, and nothing was
\* uploaded for it.
LEMMA BusyTicket ==
  ASSUME Journaled, KeptInv, NEW r \in Recs, phase[r] # "done"
  PROVE  /\ ~WasPut(r) /\ r \notin quarantined /\ (\A l \in late : l.rec # r)
         /\ upl.pc = "idle" \/ upl.rec # r
         /\ \A k \in Keys : obj[k].id # r
         /\ phase[r] = "unborn" => held[r] = None /\ idx[r] = "none" /\ Loadable(r) = {} /\ r \notin audio
         /\ phase[r] # "unborn" =>
              /\ held[r] # None /\ held[r] \in Ticket /\ held[r].state = "recording"
              /\ idx[r] = "recording"
              /\ \A g \in Loadable(r) : g.state = "recording"
<1>1. ~WasPut(r) /\ \A l \in late : l.rec # r
  <2>1. \A k \in Keys : ~Uses(r, k)
    BY KeptParts DEF KeysPersisted
  <2>. QED BY <2>1, KeptParts DEF Uses, WasPut, S3Typed
<1>2. r \notin quarantined /\ (upl.pc = "idle" \/ upl.rec # r)
  BY KeptParts DEF Sound, StaysFailed, WorkerOwns
<1>3. \A k \in Keys : obj[k].id # r
  BY <1>1, KeptParts DEF Sound, DeliveredIsPut, SaysDelivered
<1>4. \A g \in Loadable(r) : g \in AllGens(r) /\ g.state # "torn"
  BY LoadableJournaled DEF AllGens, Newest, Valid
<1>5. ASSUME phase[r] = "unborn"
      PROVE held[r] = None /\ idx[r] = "none" /\ Loadable(r) = {} /\ r \notin audio
  BY <1>4, <1>5, KeptParts DEF RecorderOwns, Sound, AudioWritten
<1>6. ASSUME phase[r] # "unborn"
      PROVE  /\ held[r] # None /\ held[r] \in Ticket /\ held[r].state = "recording"
             /\ idx[r] = "recording"
             /\ \A g \in Loadable(r) : g.state = "recording"
  <2>1. phase[r] \in {"reserved", "recording", "failing"}
    BY <1>6, KeptParts DEF TicketTyped
  <2>. QED BY <1>4, <2>1, KeptParts DEF RecorderOwns, DurableInv, StillRecording, TicketsTyped
<1>. QED BY <1>1, <1>2, <1>3, <1>5, <1>6

\* A recorder's step on ticket r: what is left to show for it.
LEMMA SoundRecorder ==
  ASSUME Journaled, KeptInv, NEW r \in Recs, phase[r] # "done",
         FilesLocal(r), TicketsLocal(r), UNCHANGED <<obj, late, puts, upl>>,
         \A p \in Paths : p # path[r] => vis'[p] # r /\ ent'[p] # r,
         idx'[r] # "delivered", held'[r] # None => held'[r].state # "delivered",
         \A g \in Loadable(r)' : g.state # "delivered",
         AudioWritten(r)', Findable(r)', Undelivered(r)' => idx'[r] # "none", FileKept(r)',
         StaysFailed(r)'
  PROVE  AllSound
<1>1. /\ \A q \in Recs : SameObjects(q) /\ (WasPut(q)' <=> WasPut(q)) /\ (OwnAudio(q)' <=> OwnAudio(q))
  BY ObjectsStayAsTheyAre
<1>2. path'[r] = path[r]
  BY DEF TicketsLocal
<1>3. OwnAudio(r)' /\ InPlace(r)' /\ Known(r)'
  BY <1>1, <1>2, KeptParts DEF Sound, InPlace, Known
<1>4. DeliveredIsPut(r)'
  <2>1. ~(upl.rec = r /\ upl.pc \in {"delivered", "cleanup", "resave"}) /\ \A k \in Keys : obj[k].id # r
    BY BusyTicket
  <2>. QED BY <2>1 DEF DeliveredIsPut, SaysDelivered
<1>5. Sound(r)'
  BY <1>3, <1>4 DEF Sound
<1>. QED BY <1>1, <1>2, <1>5, OthersStay, SoundStep

LEMMA SoundReserve ==
  ASSUME Journaled, KeptInv, NEW r \in Recs, NEW o \in WriteOutcomes \cup {"nodir"}, Reserve(r, o)
  PROVE  AllSound
<1> USE DEF fileVars, tickVars, sysVars, s3Vars, histVars
<1>1. /\ phase[r] = "unborn" /\ path[r] \in Paths
      /\ ~WasPut(r) /\ r \notin quarantined /\ held[r] = None /\ idx[r] = "none" /\ r \notin audio
  BY BusyTicket, OwnName DEF Reserve
<1>2. /\ \A q \in Recs \ {r} : FindsNoMore(q)
      /\ Loadable(r)' \subseteq {NewTicket}
      /\ o = "ok" => HasTicket(r)'
      /\ held'[r] \in {None, NewTicket} /\ \A q \in Recs \ {r} : held'[q] = held[q]
  BY KeptParts, ReserveFinds
<1>3. FilesLocal(r)
  BY <1>1, KeptParts DEF Reserve, FilesLocal, FileTyped
<1>4. TicketsLocal(r)
  BY <1>2, KeptParts DEF Reserve, TicketsLocal, TicketTyped
<1>5. /\ UNCHANGED <<obj, late, puts, upl, bytes, audio, quarantined, gone, path>>
      /\ idx'[r] \in {"none", "recording"}
      /\ phase'[r] \in {"reserved", "done"}
      /\ phase'[r] = "reserved" => o = "ok" /\ vis'[path[r]] = r /\ ent'[path[r]] = r
  BY <1>1, KeptParts DEF Reserve, TicketTyped, FileTyped
<1>6. \A p \in Paths : p # path[r] => vis'[p] # r /\ ent'[p] # r
  BY <1>3, KeptParts DEF FilesLocal, Sound, InPlace
<1>7. NewTicket.state = "recording"
  BY DEF NewTicket
<1>8. AudioWritten(r)' /\ Findable(r)' /\ FileKept(r)' /\ StaysFailed(r)' /\ ~Undelivered(r)'
  BY <1>1, <1>2, <1>5
  DEF AudioWritten, Findable, NeedsTicket, Undelivered, FileKept, StaysFailed
<1>. QED BY <1>1, <1>2, <1>3, <1>4, <1>5, <1>6, <1>7, <1>8, SoundRecorder

\* Steps on the output that leave its ticket and its name alone.
LEMMA SoundOutput ==
  ASSUME Journaled, KeptInv, NEW r \in Recs, NEW x, Begin(r) \/ Encode(r, x) \/ FinishBad(r, x)
  PROVE  AllSound
<1> USE DEF fileVars, tickVars, sysVars, s3Vars, histVars
<1>1. /\ phase[r] \in {"reserved", "recording"} /\ r \notin quarantined
      /\ held[r].state = "recording" /\ idx[r] = "recording"
      /\ \A g \in Loadable(r) : g.state = "recording"
  BY BusyTicket DEF Begin, Encode, FinishBad
<1>2. /\ UNCHANGED <<gens, imgs, vis, ent, marker, path, mode, held, idx, sysVars, upl, s3Vars,
                     quarantined, gone>>
      /\ audio' \subseteq audio \cup {r}
      /\ \A q \in Recs \ {r} : bytes'[q] = bytes[q] /\ phase'[q] = phase[q]
      /\ phase'[r] \in {"recording", "failing"}
      /\ phase'[r] = "failing" => audio' = audio /\ phase[r] = "recording"
      /\ bytes[r] # "none" => bytes'[r] # "none"
      /\ r \in audio' => r \in audio \/ bytes'[r] # "none"
  BY KeptParts DEF Begin, Encode, FinishBad, TicketTyped, FileTyped
<1>3. \A q \in Recs : FindsNoMore(q) /\ (HasTicket(q)' <=> HasTicket(q)) /\ Loadable(q)' = Loadable(q)
  BY <1>2, SameDirectory
<1>4. FilesLocal(r) /\ TicketsLocal(r)
  BY <1>2, <1>3 DEF FilesLocal, TicketsLocal
<1>5. \A p \in Paths : p # path[r] => vis'[p] # r /\ ent'[p] # r
  BY <1>2, KeptParts DEF Sound, InPlace
<1>6. AudioWritten(r)' /\ Findable(r)' /\ FileKept(r)' /\ StaysFailed(r)'
  <2>1. HasTicket(r) /\ (r \notin gone => vis[path[r]] = r /\ ent[path[r]] = r)
    BY <1>1, KeptParts DEF Sound, Findable, NeedsTicket, FileKept
  <2>2. r \in audio => bytes[r] # "none"
    BY KeptParts DEF Sound, AudioWritten
  <2>. QED BY <1>1, <1>2, <1>3, <2>1, <2>2 DEF AudioWritten, Findable, FileKept, StaysFailed
<1>. QED BY <1>1, <1>2, <1>3, <1>4, <1>5, <1>6, SoundRecorder

LEMMA SoundSync ==
  ASSUME Journaled, KeptInv, NEW r \in Recs, NEW o, Sync(r, o)
  PROVE  AllSound
<1> USE DEF fileVars, tickVars, sysVars, s3Vars, histVars
<1>1. /\ phase[r] = "recording" /\ r \notin quarantined /\ held[r] # None /\ held[r] \in Ticket
      /\ held[r].state = "recording" /\ idx[r] = "recording"
      /\ \A g \in Loadable(r) : g.state = "recording"
  BY BusyTicket DEF Sync
<1> DEFINE change == [held[r] EXCEPT !.mark = TRUE]
<1>2. change \in Ticket /\ change.state = "recording" /\ Update(r, change, o)
  BY <1>1 DEF Ticket, Sync
<1> HIDE DEF change
<1>3. /\ HasTicket(r) => HasTicket(r)'
      /\ \A q \in Recs \ {r} : FindsNoMore(q)
      /\ \A g \in Loadable(r)' : g.state = "recording"
      /\ held'[r].state = "recording" /\ \A q \in Recs \ {r} : held'[q] = held[q]
  BY <1>1, <1>2, KeptParts, UpdateFinds, UpdateEffect
<1>4. /\ UNCHANGED <<vis, ent, marker, path, mode, idx, phase, sysVars, upl, s3Vars, histVars>>
      /\ \A q \in Recs \ {r} : bytes'[q] = bytes[q]
      /\ bytes'[r] = "synced"
  BY <1>1, KeptParts DEF Sync, FileTyped
<1>5. FilesLocal(r) /\ TicketsLocal(r)
  BY <1>3, <1>4 DEF FilesLocal, TicketsLocal
<1>6. \A p \in Paths : p # path[r] => vis'[p] # r /\ ent'[p] # r
  BY <1>4, KeptParts DEF Sound, InPlace
<1>7. AudioWritten(r)' /\ Findable(r)' /\ FileKept(r)' /\ StaysFailed(r)'
  <2>1. HasTicket(r) /\ (r \notin gone => vis[path[r]] = r /\ ent[path[r]] = r)
    BY <1>1, KeptParts DEF Sound, Findable, NeedsTicket, FileKept
  <2>. QED BY <1>1, <1>3, <1>4, <2>1 DEF AudioWritten, Findable, FileKept, StaysFailed
<1>. QED BY <1>1, <1>3, <1>4, <1>5, <1>6, <1>7, SoundRecorder

\* An output that is removed has no audio to lose.
LEMMA SoundRemove ==
  ASSUME Journaled, KeptInv, NEW r \in Recs, NEW o, NEW cause,
         Discard(r, o) \/ FinishEmpty(r, cause, o)
  PROVE  AllSound
<1> USE DEF fileVars, tickVars, sysVars, s3Vars, histVars
<1>1. /\ phase[r] \in {"reserved", "recording"} /\ r \notin quarantined /\ path[r] \in Paths
      /\ held[r].state = "recording" /\ idx[r] = "recording"
      /\ \A g \in Loadable(r) : g.state = "recording"
  BY BusyTicket, OwnName DEF Discard, FinishEmpty
<1>2. r \notin audio
  BY KeptParts DEF Discard, FinishEmpty, EmptyOutput, Sound, AudioWritten
<1>3. /\ UNCHANGED <<ent, bytes, path, mode, sysVars, upl, s3Vars, histVars>>
      /\ RemoveFiles(r, o) \/ UNCHANGED <<gens, imgs>>
      /\ held' = [held EXCEPT ![r] = None] \/ held' = held
      /\ idx' = [idx EXCEPT ![r] = "none"] \/ idx' = idx
      /\ marker' = [marker EXCEPT ![path[r]] = "none"] \/ marker' = marker
      /\ vis' = [vis EXCEPT ![path[r]] = None] \/ vis' = vis
      /\ \E ph \in {"done", "failing"} : phase' = [phase EXCEPT ![r] = ph]
  BY DEF Discard, FinishEmpty, RemoveOutput, ClearTicket
<1>4. /\ Loadable(r)' \subseteq Loadable(r)
      /\ \A q \in Recs \ {r} : FindsNoMore(q)
  BY <1>3, KeptParts, RemovalFinds
<1>5. FilesLocal(r)
  BY <1>1, <1>3, KeptParts DEF FilesLocal, FileTyped
<1>6. TicketsLocal(r)
  BY <1>3, <1>4, KeptParts DEF TicketsLocal, TicketTyped, TicketsTyped
<1>7. \A p \in Paths : p # path[r] => vis'[p] # r /\ ent'[p] # r
  BY <1>5, KeptParts DEF FilesLocal, Sound, InPlace
<1>8. /\ idx'[r] \in {"none", "recording"} /\ phase'[r] \in {"done", "failing"}
      /\ held'[r] \in {None, held[r]}
  BY <1>1, <1>3, KeptParts DEF TicketTyped, TicketsTyped
<1>9. AudioWritten(r)' /\ Findable(r)' /\ FileKept(r)' /\ StaysFailed(r)' /\ ~Undelivered(r)'
  BY <1>1, <1>2, <1>3, <1>8
  DEF AudioWritten, Findable, NeedsTicket, Undelivered, FileKept, StaysFailed
<1>. QED BY <1>1, <1>3, <1>4, <1>5, <1>6, <1>7, <1>8, <1>9, SoundRecorder

LEMMA SoundFail ==
  ASSUME Journaled, KeptInv, NEW r \in Recs, NEW o, NEW mk \in {"none", "seen", "kept"}, Fail(r, o, mk)
  PROVE  AllSound
<1> USE DEF fileVars, tickVars, sysVars, s3Vars, histVars
<1>1. /\ phase[r] = "failing" /\ r \notin quarantined /\ held[r] # None /\ held[r] \in Ticket
      /\ held[r].state = "recording" /\ path[r] \in Paths
      /\ ~WasPut(r) /\ (\A l \in late : l.rec # r) /\ (upl.pc = "idle" \/ upl.rec # r)
      /\ \A g \in Loadable(r) : g.state = "recording"
  BY BusyTicket, OwnName DEF Fail
<1> DEFINE change == [held[r] EXCEPT !.state = "failed"]
<1>2. change \in Ticket /\ change.state = "failed" /\ Update(r, change, o)
  BY <1>1 DEF Ticket, States, Fail
<1> HIDE DEF change
<1>3. /\ HasTicket(r) => HasTicket(r)'
      /\ \A q \in Recs \ {r} : FindsNoMore(q)
      /\ \A g \in Loadable(r)' : g.state = "failed" \/ (g.state = "recording" /\ o # "ok")
      /\ held'[r].state = "failed" /\ \A q \in Recs \ {r} : held'[q] = held[q]
  BY <1>1, <1>2, KeptParts, UpdateFinds, UpdateEffect
<1>4. /\ UNCHANGED <<vis, ent, bytes, path, mode, sysVars, upl, s3Vars, audio, gone>>
      /\ quarantined' \subseteq quarantined \cup {r}
      /\ r \in quarantined' => o = "ok" \/ marker'[path[r]] = "kept"
      /\ \A p \in Paths \ {path[r]} : marker'[p] = marker[p]
      /\ idx'[r] = "failed" /\ phase'[r] = "done"
      /\ \A q \in Recs \ {r} : idx'[q] = idx[q] /\ phase'[q] = phase[q]
  BY <1>1, KeptParts DEF Fail, FileTyped, TicketTyped
<1>5. FilesLocal(r) /\ TicketsLocal(r)
  BY <1>3, <1>4 DEF FilesLocal, TicketsLocal
<1>6. \A p \in Paths : p # path[r] => vis'[p] # r /\ ent'[p] # r
  BY <1>4, KeptParts DEF Sound, InPlace
<1>7. WasPut(r)' <=> WasPut(r)
  BY <1>4, ObjectsStayAsTheyAre
<1>8. AudioWritten(r)' /\ Findable(r)' /\ FileKept(r)'
  <2>1. r \in audio => bytes[r] # "none" /\ HasTicket(r)
    BY <1>1, KeptParts DEF Sound, AudioWritten, Findable, NeedsTicket
  <2>2. r \notin gone /\ Undelivered(r) => vis[path[r]] = r /\ ent[path[r]] = r
    BY KeptParts DEF Sound, FileKept
  <2>. QED BY <1>3, <1>4, <1>7, <2>1, <2>2
       DEF AudioWritten, Findable, NeedsTicket, Undelivered, HasDest, FileKept
<1>9. StaysFailed(r)'
  <2>1. held'[r] # None => SaysFailed(r, held[r])'
    BY <1>3 DEF SaysFailed
  <2>2. ASSUME r \in quarantined' PROVE \A g \in Loadable(r)' : SaysFailed(r, g)'
    BY <1>3, <1>4, <2>2 DEF SaysFailed
  <2>. QED BY <1>1, <1>4, <1>7, <2>1, <2>2 DEF StaysFailed
<1>. QED BY <1>1, <1>3, <1>4, <1>5, <1>6, <1>8, <1>9, SoundRecorder

LEMMA SoundCommit ==
  ASSUME Journaled, KeptInv, NEW r \in Recs, NEW o, FinishCommit(r, o)
  PROVE  AllSound
<1> USE DEF fileVars, tickVars, sysVars, s3Vars, histVars
<1>1. /\ phase[r] = "recording" /\ r \notin quarantined /\ held[r] # None /\ held[r] \in Ticket
      /\ held[r].state = "recording" /\ idx[r] = "recording" /\ path[r] \in Paths
      /\ \A g \in Loadable(r) : g.state = "recording"
  BY BusyTicket, OwnName DEF FinishCommit
<1>2. /\ UNCHANGED <<vis, ent, path, mode, sysVars, upl, s3Vars, histVars>>
      /\ marker' = marker \/ marker' = [marker EXCEPT ![path[r]] = "none"]
      /\ \A q \in Recs \ {r} : bytes'[q] = bytes[q] /\ idx'[q] = idx[q] /\ phase'[q] = phase[q]
      /\ bytes'[r] = "synced" /\ phase'[r] = "done"
      /\ idx'[r] \in {"none", "recording", "ready"} /\ (HasDest(r) => idx'[r] = "ready")
  BY <1>1, KeptParts DEF FinishCommit, FinalSync, ClearTicket, FileTyped, TicketTyped
<1>3. /\ HasDest(r) /\ HasTicket(r) => HasTicket(r)'
      /\ \A q \in Recs \ {r} : FindsNoMore(q) /\ held'[q] = held[q]
      /\ \A g \in Loadable(r)' : g.state \in {"recording", "ready"}
      /\ held'[r] # None => held'[r].state \in {"recording", "ready"}
  <2>1. CASE HasDest(r)
    <3> DEFINE change == [held[r] EXCEPT !.state = "ready"]
    <3>1. change \in Ticket /\ change.state = "ready" /\ Update(r, change, o)
      BY <1>1, <2>1 DEF Ticket, States, FinishCommit
    <3> HIDE DEF change
    <3>. QED BY <1>1, <3>1, KeptParts, UpdateFinds, UpdateEffect
  <2>2. CASE ~HasDest(r)
    <3>1. RemoveFiles(r, o) /\ (held' = [held EXCEPT ![r] = None] \/ held' = held)
      BY <2>2 DEF FinishCommit, ClearTicket
    <3>2. Loadable(r)' \subseteq Loadable(r) /\ \A q \in Recs \ {r} : FindsNoMore(q)
      BY <3>1, KeptParts, RemovalFinds
    <3>. QED BY <1>1, <2>2, <3>1, <3>2, KeptParts DEF TicketsTyped
  <2>. QED BY <2>1, <2>2
<1>4. FilesLocal(r) /\ TicketsLocal(r)
  BY <1>1, <1>2, <1>3, KeptParts DEF FilesLocal, TicketsLocal, FileTyped
<1>5. \A p \in Paths : p # path[r] => vis'[p] # r /\ ent'[p] # r
  BY <1>2, KeptParts DEF Sound, InPlace
<1>6. WasPut(r)' <=> WasPut(r)
  BY <1>2, ObjectsStayAsTheyAre
<1>7. AudioWritten(r)' /\ Findable(r)' /\ FileKept(r)' /\ StaysFailed(r)'
      /\ (Undelivered(r)' => idx'[r] # "none")
  <2>1. HasTicket(r) /\ (r \notin gone => vis[path[r]] = r /\ ent[path[r]] = r)
    BY <1>1, KeptParts DEF Sound, Findable, NeedsTicket, FileKept
  <2>. QED BY <1>1, <1>2, <1>3, <1>6, <2>1
       DEF AudioWritten, Findable, NeedsTicket, Undelivered, HasDest, FileKept, StaysFailed
<1>. QED BY <1>1, <1>2, <1>3, <1>4, <1>5, <1>7, SoundRecorder

LEMMA SoundRecorderNext ==
  ASSUME Journaled, KeptInv, RecorderNext PROVE AllSound
BY SoundReserve, SoundOutput, SoundSync, SoundRemove, SoundFail, SoundCommit DEF RecorderNext

-------------------------------------------------------------------------------
(* The worker's steps                                                      *)

LEMMA SoundTakeDue ==
  ASSUME Journaled, KeptInv, NEW r \in Recs, NEW destOK, TakeDue(r, destOK)
  PROVE  AllSound
<1> USE DEF fileVars, tickVars, sysVars, s3Vars, histVars
<1>1. UNCHANGED <<gens, imgs, fileVars, tickVars, sysVars, s3Vars, histVars>>
  BY DEF TakeDue
<1>2. \A q \in Recs : FindsNoMore(q) /\ (HasTicket(q)' <=> HasTicket(q)) /\ Loadable(q)' = Loadable(q)
  BY <1>1, SameDirectory
<1>3. FilesLocal(r) /\ TicketsLocal(r)
  BY <1>1, <1>2 DEF FilesLocal, TicketsLocal
<1>4. /\ upl'.rec = r /\ upl'.conflict = FALSE
      /\ upl'.pc \in {"put", "head", "error", "lost", "cleanup"}
      /\ upl'.pc = "cleanup" => idx[r] = "delivered"
      /\ upl'.pc = "put" => upl'.aud = r
      /\ idx[r] \in {"ready", "delivered"}
  <2>1. vis[path[r]] \in {r, None}
    BY OwnName
  <2>. QED BY <2>1 DEF TakeDue, Due, IdleUpload, OpenAs
<1>5. \A q \in Recs : WasPut(q)' <=> WasPut(q)
  BY <1>1 DEF WasPut
<1>6. \A q \in Recs \ {r} : SameObjects(q)
  BY <1>1, <1>4, <1>5 DEF SameObjects
<1>7. OwnAudio(r)' /\ InPlace(r)' /\ AudioWritten(r)'
  BY <1>1, <1>4, KeptParts DEF Sound, OwnAudio, InPlace, AudioWritten
<1>8. DeliveredIsPut(r)'
  BY <1>1, <1>2, <1>4, <1>5, KeptParts DEF Sound, DeliveredIsPut, SaysDelivered
<1>9. Findable(r)' /\ Known(r)' /\ FileKept(r)'
  BY <1>1, <1>2, <1>5, KeptParts
  DEF Sound, Findable, NeedsTicket, Known, FileKept, Undelivered, HasDest
<1>10. StaysFailed(r)'
  BY <1>1, <1>4, KeptParts DEF Sound, StaysFailed
<1>. QED BY <1>1, <1>3, <1>6, <1>7, <1>8, <1>9, <1>10, OthersStay, SoundStep DEF Sound

LEMMA SoundPut ==
  ASSUME Journaled, KeptInv, NEW o \in PutOutcomes, Put(o)
  PROVE  AllSound
<1> USE DEF fileVars, tickVars, sysVars, s3Vars, histVars
<1>1. PICK r \in Recs : r = upl.rec /\ held[r] # None /\ held[r].key \in Keys /\ phase[r] = "done"
  BY TakenTicket, KeptParts DEF Put, Ticket
<1>2. UNCHANGED <<gens, imgs, fileVars, tickVars, sysVars, histVars>>
  BY DEF Put
<1>3. \A q \in Recs : FindsNoMore(q) /\ (HasTicket(q)' <=> HasTicket(q)) /\ Loadable(q)' = Loadable(q)
  BY <1>2, SameDirectory
<1>4. FilesLocal(r) /\ TicketsLocal(r)
  BY <1>2, <1>3 DEF FilesLocal, TicketsLocal
<1>5. upl.pc = "put" /\ upl.aud = r /\ up = "running"
  BY <1>1, KeptParts DEF Put, Sound, OwnAudio
<1>6. /\ upl'.rec = r /\ upl'.aud = r /\ upl'.pc \in {"delivered", "head"}
      /\ upl'.pc = "delivered" => o = "ok"
  BY <1>1, <1>5, KeptParts DEF Put, ServiceTyped
<1>7. /\ puts \subseteq puts' /\ (\A x \in puts' : x \in puts \/ (x.id = r /\ x.aud = r))
      /\ (\A l \in late' : l \in late \/ (l.rec = r /\ l.aud = r))
      /\ o = "ok" => \E x \in puts' : x.id = r
      /\ \A k \in Keys : obj'[k].id = obj[k].id \/ (obj'[k].id = r /\ \E x \in puts' : x.id = r)
  <2>1. \/ o \in {"ok", "lostreply"} /\ Commit(r, held[r].key, r) /\ late' = late
        \/ o # "ok" /\ late' = late \cup {[rec |-> r, key |-> held[r].key, aud |-> r]}
             /\ UNCHANGED <<obj, puts>>
        \/ o # "ok" /\ UNCHANGED <<obj, puts, late>>
    BY <1>1, <1>5 DEF Put
  <2>2. CASE Commit(r, held[r].key, r) /\ late' = late
    <3>1. puts' = puts \cup {[id |-> r, key |-> held[r].key, aud |-> r]}
          /\ obj' = [obj EXCEPT ![held[r].key] = [id |-> r, aud |-> r]]
      BY <2>2 DEF Commit, Object
    <3>2. \E x \in puts' : x.id = r
      <4>1. [id |-> r, key |-> held[r].key, aud |-> r] \in puts'
        BY <3>1
      <4>. QED BY <4>1
    <3>3. \A k \in Keys : obj'[k].id = obj[k].id \/ obj'[k].id = r
      BY <1>1, <3>1, KeptParts DEF S3Typed
    <3>. QED BY <2>2, <3>1, <3>2, <3>3
  <2>. QED BY <2>1, <2>2
<1>8. \A q \in Recs : WasPut(q) => WasPut(q)'
  BY <1>7 DEF WasPut
<1>9. \A q \in Recs \ {r} : SameObjects(q)
  BY <1>6, <1>7, <1>8 DEF SameObjects
<1>10. OwnAudio(r)' /\ InPlace(r)' /\ AudioWritten(r)'
  BY <1>2, <1>6, <1>7, KeptParts DEF Sound, OwnAudio, InPlace, AudioWritten
<1>11. DeliveredIsPut(r)'
  <2>1. (\E x \in puts' : x.id = r) => WasPut(r)'
    BY DEF WasPut
  <2>. QED BY <1>2, <1>3, <1>6, <1>7, <1>8, <2>1, KeptParts DEF Sound, DeliveredIsPut, SaysDelivered
<1>12. Findable(r)' /\ Known(r)' /\ FileKept(r)'
  BY <1>2, <1>3, <1>8, KeptParts
  DEF Sound, Findable, NeedsTicket, Known, FileKept, Undelivered, HasDest
<1>13. StaysFailed(r)'
  BY <1>1, <1>2, <1>5, KeptParts DEF Sound, StaysFailed
<1>. QED BY <1>2, <1>4, <1>9, <1>10, <1>11, <1>12, <1>13, OthersStay, SoundStep DEF Sound

LEMMA SoundHead ==
  ASSUME Journaled, KeptInv, NEW reply, NEW o, Head(reply, o)
  PROVE  AllSound
<1> USE DEF fileVars, tickVars, sysVars, s3Vars, histVars
<1>1. PICK r \in Recs : r = upl.rec /\ held[r] # None /\ held[r] \in Ticket /\ phase[r] = "done"
  BY SMTT(60), TakenTicket, KeptParts DEF Head
<1>2. /\ upl.pc = "head" /\ up = "running"
      /\ UNCHANGED <<fileVars, path, mode, phase, idx, sysVars, s3Vars, histVars>>
  BY DEF Head, HeadDone, NextKey
<1>3. /\ \A q \in Recs \ {r} : FindsNoMore(q) /\ held'[q] = held[q]
      /\ HasTicket(r) => HasTicket(r)'
      /\ \A g \in Loadable(r)' : g \in Loadable(r) \/ g.state = held[r].state
      /\ held'[r] # None => held'[r].state = held[r].state
  <2>1. CASE UNCHANGED <<gens, imgs, held>>
    <3>1. \A q \in Recs : FindsNoMore(q) /\ (HasTicket(q)' <=> HasTicket(q)) /\ Loadable(q)' = Loadable(q)
      BY <2>1, SameDirectory
    <3>. QED BY <2>1, <3>1
  <2>2. CASE NextKey(r, o)
    BY <1>1, <2>2, KeptParts, NextKeyFinds, NextKeyEffect
  <2>. QED BY <1>1, <2>1, <2>2 DEF Head, HeadDone
<1>4. FilesLocal(r) /\ TicketsLocal(r)
  BY SMTT(60), <1>2, <1>3 DEF FilesLocal, TicketsLocal
<1>5. /\ upl'.rec = r /\ upl'.aud = upl.aud /\ upl'.conflict = upl.conflict
      /\ upl'.pc \in {"put", "error", "delivered"}
      /\ upl'.pc = "put" => upl.conflict
      /\ upl'.pc = "delivered" => obj[held[r].key].id = r
  BY <1>1, KeptParts DEF Head, HeadDone, NextKey, Ours, ServiceTyped
<1>6. \A q \in Recs : WasPut(q)' <=> WasPut(q)
  BY <1>2 DEF WasPut
<1>7. \A q \in Recs \ {r} : SameObjects(q)
  BY <1>2, <1>5, <1>6 DEF SameObjects
<1>8. OwnAudio(r)' /\ InPlace(r)' /\ AudioWritten(r)'
  BY <1>1, <1>2, <1>5, KeptParts DEF Sound, OwnAudio, InPlace, AudioWritten
<1>9. DeliveredIsPut(r)'
  <2>1. held[r].key \in Keys
    BY <1>1 DEF Ticket
  <2>. QED BY <1>1, <1>2, <1>3, <1>5, <1>6, <2>1, KeptParts DEF Sound, DeliveredIsPut, SaysDelivered
<1>10. Findable(r)' /\ Known(r)' /\ FileKept(r)'
  BY <1>2, <1>3, <1>6, KeptParts
  DEF Sound, Findable, NeedsTicket, Known, FileKept, Undelivered, HasDest
<1>11. StaysFailed(r)'
  BY <1>1, <1>2, KeptParts DEF Sound, StaysFailed
<1>. QED BY <1>2, <1>4, <1>7, <1>8, <1>9, <1>10, <1>11, OthersStay, SoundStep DEF Sound

\* A state the worker saves, "delivered" only for what it knows is delivered.
LEMMA SoundFinished ==
  ASSUME Journaled, KeptInv, NEW pc \in UploadPC \ {"idle"}, NEW state \in {"delivered", "lost", "ready"},
         NEW next \in {"idle", "cleanup"}, NEW o, Finished(pc, state, next, o),
         state = "delivered" => pc \in {"delivered", "resave"}, next = "cleanup" => state = "delivered"
  PROVE  AllSound
<1> USE DEF fileVars, tickVars, sysVars, s3Vars, histVars
<1>1. PICK r \in Recs : r = upl.rec /\ held[r] # None /\ held[r] \in Ticket /\ phase[r] = "done"
  BY TakenTicket, KeptParts DEF Finished
<1>2. /\ upl.pc = pc /\ up = "running"
      /\ UNCHANGED <<fileVars, path, mode, phase, sysVars, s3Vars, histVars>>
      /\ idx'[r] = state /\ \A q \in Recs \ {r} : idx'[q] = idx[q]
  BY <1>1, KeptParts DEF Finished, Save, TicketTyped
<1> DEFINE change == [held[r] EXCEPT !.state = state]
<1>3. change \in Ticket /\ change.state = state /\ Update(r, change, o)
  BY <1>1 DEF Finished, Save, Ticket, States
<1> HIDE DEF change
<1>4. /\ HasTicket(r) => HasTicket(r)'
      /\ \A q \in Recs \ {r} : FindsNoMore(q) /\ held'[q] = held[q]
      /\ \A g \in Loadable(r)' : g \in Loadable(r) \/ g.state = state
      /\ held'[r].state = state
  BY <1>1, <1>3, KeptParts, UpdateFinds, UpdateEffect
<1>5. FilesLocal(r) /\ TicketsLocal(r)
  BY <1>2, <1>4 DEF FilesLocal, TicketsLocal
<1>6. \/ upl'.rec = None /\ upl'.pc = "idle" /\ upl'.conflict = FALSE
      \/ /\ upl'.rec = r /\ upl'.aud = upl.aud /\ upl'.conflict = upl.conflict
         /\ upl'.pc = "cleanup" /\ state = "delivered"
  BY <1>1, KeptParts DEF Finished, IdleUpload, ServiceTyped
<1>7. \A q \in Recs : WasPut(q)' <=> WasPut(q)
  BY <1>2 DEF WasPut
<1>8. \A q \in Recs \ {r} : SameObjects(q)
  BY <1>2, <1>6, <1>7, OutboxAssumption DEF SameObjects
<1>9. OwnAudio(r)' /\ InPlace(r)' /\ AudioWritten(r)'
  BY <1>1, <1>2, <1>6, KeptParts, OutboxAssumption DEF Sound, OwnAudio, InPlace, AudioWritten
<1>10. DeliveredIsPut(r)'
  <2>1. state = "delivered" => WasPut(r)
    BY <1>1, <1>2, KeptParts DEF Sound, DeliveredIsPut, SaysDelivered
  <2>. QED BY <1>1, <1>2, <1>4, <1>6, <1>7, <2>1, KeptParts DEF Sound, DeliveredIsPut, SaysDelivered
<1>11. Findable(r)' /\ Known(r)' /\ FileKept(r)'
  BY <1>2, <1>4, <1>7, KeptParts
  DEF Sound, Findable, NeedsTicket, Known, FileKept, Undelivered, HasDest
<1>12. StaysFailed(r)'
  BY <1>1, <1>2, KeptParts DEF Sound, StaysFailed
<1>. QED BY <1>2, <1>5, <1>8, <1>9, <1>10, <1>11, <1>12, OthersStay, SoundStep DEF Sound

\* The clean-up takes only what is in S3.
LEMMA SoundCleanup ==
  ASSUME Journaled, KeptInv, NEW o, Cleanup(o)
  PROVE  AllSound
<1> USE DEF fileVars, tickVars, sysVars, s3Vars, histVars
<1>1. PICK r \in Recs : r = upl.rec /\ held[r] # None /\ phase[r] = "done" /\ path[r] \in Paths
  BY TakenTicket, OwnName, KeptParts DEF Cleanup
<1>2. upl.pc = "cleanup" /\ WasPut(r) /\ r \notin quarantined
  BY <1>1, KeptParts DEF Cleanup, Sound, DeliveredIsPut, SaysDelivered, StaysFailed
<1>3. /\ UNCHANGED <<bytes, path, mode, phase, sysVars, s3Vars, histVars>>
      /\ RemoveFiles(r, o) \/ UNCHANGED <<gens, imgs>>
      /\ held' = [held EXCEPT ![r] = None] \/ held' = held
      /\ idx' = [idx EXCEPT ![r] = "none"] \/ idx' = idx
      /\ marker' = [marker EXCEPT ![path[r]] = "none"] \/ marker' = marker
      /\ vis' = [vis EXCEPT ![path[r]] = None] \/ vis' = vis
      /\ ent' = [ent EXCEPT ![path[r]] = None] \/ ent' = ent
      /\ upl' = IdleUpload \/ upl' = [upl EXCEPT !.pc = "resave"]
  BY <1>1 DEF Cleanup, ClearTicket
<1>4. /\ Loadable(r)' \subseteq Loadable(r)
      /\ \A q \in Recs \ {r} : FindsNoMore(q)
  BY <1>3, KeptParts, RemovalFinds
<1>5. FilesLocal(r)
  BY <1>1, <1>3, KeptParts DEF FilesLocal, FileTyped
<1>6. TicketsLocal(r)
  BY <1>3, <1>4, KeptParts DEF TicketsLocal, TicketTyped, TicketsTyped
<1>7. \/ upl'.rec = None
      \/ upl'.rec = r /\ upl'.aud = upl.aud /\ upl'.conflict = upl.conflict /\ upl'.pc = "resave"
  BY <1>1, <1>3, KeptParts DEF IdleUpload, ServiceTyped
<1>8. \A q \in Recs : WasPut(q)' <=> WasPut(q)
  BY <1>3 DEF WasPut
<1>9. \A q \in Recs \ {r} : SameObjects(q)
  BY <1>3, <1>7, <1>8, OutboxAssumption DEF SameObjects
<1>10. OwnAudio(r)' /\ AudioWritten(r)'
  BY <1>1, <1>3, <1>7, KeptParts, OutboxAssumption DEF Sound, OwnAudio, AudioWritten
<1>11. InPlace(r)'
  BY <1>3, <1>5, KeptParts DEF FilesLocal, Sound, InPlace
<1>12. DeliveredIsPut(r)' /\ Known(r)' /\ FileKept(r)' /\ Findable(r)' /\ StaysFailed(r)'
  BY <1>1, <1>2, <1>3, <1>8
  DEF DeliveredIsPut, Known, FileKept, Findable, NeedsTicket, Undelivered, StaysFailed
<1>. QED BY <1>3, <1>5, <1>6, <1>9, <1>10, <1>11, <1>12, OthersStay, SoundStep DEF Sound

LEMMA SoundUploaderNext ==
  ASSUME Journaled, KeptInv, UploaderNext PROVE AllSound
<1>1. ASSUME NEW o, UploadDelivered(o) \/ UploadLost(o) \/ UploadFailed(o) \/ CleanupFailed(o)
      PROVE  AllSound
  BY <1>1, SoundFinished DEF UploadDelivered, UploadLost, UploadFailed, CleanupFailed, UploadPC
<1>. QED BY <1>1, SoundTakeDue, SoundPut, SoundHead, SoundCleanup DEF UploaderNext

-------------------------------------------------------------------------------
(* Recovery's steps                                                        *)

LEMMA SoundLoad ==
  ASSUME Journaled, KeptInv, NEW bad \in SUBSET Recs, NEW synced \in BOOLEAN, Load(bad, synced)
  PROVE  AllSound
<1> USE DEF fileVars, tickVars, sysVars, s3Vars, histVars
<1> SUFFICES ASSUME NEW r \in Recs PROVE path'[r] = path[r] /\ Sound(r)'
  BY DEF AllSound
<1>1. /\ UNCHANGED <<fileVars, path, mode, idx, phase, upl, s3Vars, histVars>>
      /\ up = "down" /\ upl = IdleUpload /\ idx[r] = "none" /\ upl.rec # r
  BY KeptParts, OutboxAssumption DEF Load, RecoveryOwns, IdleUpload
<1>2. FindsNoMore(r)
  BY KeptParts, LoadFinds DEF Load
<1>3. WasPut(r)' <=> WasPut(r)
  BY <1>1 DEF WasPut
<1>4. held'[r] # None => held'[r] = held[r] \/ held'[r] \in Loadable(r)
  <2>1. CASE synced
    <3>1. held'[r] # None => held'[r] \in Newest(gens[r])
      BY <2>1 DEF Load
    <3>. QED BY <3>1, LoadableJournaled, KeptParts DEF Shown
  <2>. QED BY <2>1 DEF Load
<1>5. \/ up' = "down"
      \/ up' = "booting" /\ (Newest(gens[r]) # {} => r \in boot' \/ r \in unreadable')
  BY <1>1 DEF Load
<1>6. OwnAudio(r)' /\ InPlace(r)' /\ AudioWritten(r)'
  BY <1>1, KeptParts DEF Sound, OwnAudio, InPlace, AudioWritten
<1>7. DeliveredIsPut(r)'
  BY <1>1, <1>2, <1>3, <1>4, KeptParts DEF Sound, DeliveredIsPut, SaysDelivered, FindsNoMore
<1>8. Findable(r)' /\ FileKept(r)'
  BY <1>1, <1>2, <1>3, KeptParts
  DEF Sound, Findable, NeedsTicket, FileKept, Undelivered, HasDest, FindsNoMore
<1>9. Known(r)'
  <2>1. Undelivered(r)' => Newest(gens[r]) # {}
    BY <1>1, <1>3, KeptParts
    DEF Sound, Findable, NeedsTicket, Undelivered, HasDest, HasTicket, Shown
  <2>. QED BY <1>5, <2>1 DEF Known
<1>10. StaysFailed(r)'
  BY <1>1, <1>2, <1>3, <1>4, KeptParts DEF Sound, StaysFailed, SaysFailed, FindsNoMore
<1>. QED BY <1>1, <1>6, <1>7, <1>8, <1>9, <1>10 DEF Sound

\* Recovery takes no ticket whose failure was recorded for interrupted.
LEMMA SoundVisit ==
  ASSUME Journaled, KeptInv, NEW r \in Recs, NEW o, Visits(r, o)
  PROVE  AllSound
<1> USE DEF fileVars, tickVars, sysVars, s3Vars, histVars
<1>1. held[r] # None /\ held[r] \in Ticket /\ up = "booting" /\ boot' = boot \ {r} /\ path[r] \in Paths
  BY KeptParts, OwnName, VisitEffect DEF TicketsTyped
<1>2. phase[r] = "done" /\ upl = IdleUpload /\ upl.rec # r
  BY <1>1, KeptParts, OutboxAssumption DEF RecorderOwns, RecoveryOwns, IdleUpload
<1>3. /\ UNCHANGED <<ent, path, mode, phase, up, unreadable, upl, s3Vars, histVars>>
      /\ \A q \in Recs : bytes[q] # "none" => bytes'[q] # "none"
      /\ \A q \in Recs \ {r} : bytes'[q] = bytes[q]
  <2>1. vis[path[r]] \in {r, None}
    BY OwnName
  <2>. QED BY <2>1, KeptParts DEF Visits, RecoverSettled, RecoverWithoutAudio, RecoverAudio, FileTyped
<1>4. r \in quarantined => ~Interrupted(r)
  BY <1>1, KeptParts DEF Sound, StaysFailed, SaysFailed, Interrupted
<1> DEFINE Dropped == RecoverDrop(r, o) /\ r \notin quarantined /\ ~Undelivered(r)
           Kept == RecoverKeep(r) /\ (r \in quarantined => held[r].state = "failed")
           As(state) == RecoverAs(r, state, o) /\ (r \in quarantined => state = "failed")
                          /\ state # "delivered"
<1>5. /\ Dropped \/ Kept \/ \E state \in States : As(state)
      /\ vis' = vis \/ (Dropped /\ vis' = [vis EXCEPT ![path[r]] = None])
  <2>1. CASE RecoverSettled(r, o)
    <3>1. \/ RecoverKeep(r) /\ (held[r].state \in {"delivered", "failed"} \/ marker[path[r]] = "none")
          \/ RecoverAs(r, "failed", o)
      BY <2>1 DEF RecoverSettled
    <3>2. CASE RecoverKeep(r) /\ (held[r].state \in {"delivered", "failed"} \/ marker[path[r]] = "none")
      BY <1>1, <3>2, KeptParts DEF Sound, StaysFailed, SaysFailed, RecoverKeep
    <3>3. CASE RecoverAs(r, "failed", o)
      BY <3>3 DEF RecoverAs, States
    <3>. QED BY <3>1, <3>2, <3>3
  <2>2. ASSUME NEW avail, RecoverWithoutAudio(r, avail, o)
        PROVE /\ Dropped \/ Kept \/ \E state \in States : As(state)
              /\ vis' = vis \/ (Dropped /\ vis' = [vis EXCEPT ![path[r]] = None])
    <3>1. r \notin quarantined
      BY <1>4, <2>2 DEF RecoverWithoutAudio
    <3>2. \/ RecoverKeep(r) \/ RecoverAs(r, "ready", o) \/ RecoverAs(r, "lost", o)
          \/ /\ vis[path[r]] # None /\ bytes[vis[path[r]]] = "none" /\ RecoverDrop(r, o)
             /\ vis' = [vis EXCEPT ![path[r]] = None]
      BY <2>2 DEF RecoverWithoutAudio
    <3>3. CASE /\ vis[path[r]] # None /\ bytes[vis[path[r]]] = "none" /\ RecoverDrop(r, o)
               /\ vis' = [vis EXCEPT ![path[r]] = None]
      <4>1. r \notin audio
        BY <3>3, OwnName, KeptParts DEF Sound, AudioWritten
      <4>. QED BY <3>1, <3>3, <4>1 DEF Undelivered
    <3>4. CASE RecoverKeep(r)
      BY <3>1, <3>4 DEF RecoverKeep
    <3>5. CASE RecoverAs(r, "ready", o) \/ RecoverAs(r, "lost", o)
      BY <3>1, <3>5 DEF RecoverAs, States
    <3>. QED BY <3>2, <3>3, <3>4, <3>5
  <2>3. CASE RecoverAudio(r, o)
    <3>1. r \notin quarantined
      BY <1>4, <2>3 DEF RecoverAudio
    <3>2. (~HasDest(r) /\ RecoverDrop(r, o) /\ vis' = vis) \/ RecoverAs(r, "ready", o)
      BY <2>3 DEF RecoverAudio
    <3>. QED BY <3>1, <3>2 DEF RecoverAs, States, Undelivered
  <2>. QED BY <2>1, <2>2, <2>3 DEF Visits
<1>6. \A q \in Recs : WasPut(q)' <=> WasPut(q)
  BY <1>3 DEF WasPut
<1>7. /\ \A q \in Recs \ {r} : FindsNoMore(q) /\ held'[q] = held[q] /\ idx'[q] = idx[q]
      /\ \A p \in Paths \ {path[r]} : marker'[p] = marker[p]
      /\ marker' = marker \/ Dropped
      /\ Undelivered(r) => (HasTicket(r) => HasTicket(r)') /\ idx'[r] # "none"
      /\ idx'[r] = "delivered" => held[r].state = "delivered"
      /\ held'[r] # None /\ held'[r].state = "delivered" => held[r].state = "delivered"
      /\ \A g \in Loadable(r)' : g \in Loadable(r) \/ g.state # "delivered"
      /\ r \in quarantined =>
           /\ idx'[r] = "failed" /\ held'[r].state = "failed"
           /\ \A g \in Loadable(r)' : g \in Loadable(r) \/ g.state = "failed"
  <2>1. CASE Kept
    <3>1. /\ UNCHANGED <<gens, imgs, held, marker>>
          /\ idx'[r] = held[r].state /\ \A q \in Recs \ {r} : idx'[q] = idx[q]
      BY <2>1, KeptParts DEF RecoverKeep, TicketTyped
    <3>2. \A q \in Recs : FindsNoMore(q) /\ (HasTicket(q)' <=> HasTicket(q)) /\ Loadable(q)' = Loadable(q)
      BY <3>1, SameDirectory
    <3>3. held[r].state # "none"
      BY <1>1 DEF Ticket, States
    <3>. QED BY <2>1, <3>1, <3>2, <3>3
  <2>2. ASSUME NEW state \in States, As(state)
        PROVE  /\ \A q \in Recs \ {r} : FindsNoMore(q) /\ held'[q] = held[q] /\ idx'[q] = idx[q]
               /\ marker' = marker /\ (HasTicket(r) => HasTicket(r)')
               /\ idx'[r] = state /\ held'[r].state = state
               /\ state # "delivered" /\ state # "none" /\ (r \in quarantined => state = "failed")
               /\ \A g \in Loadable(r)' : g \in Loadable(r) \/ g.state = state
    <3> DEFINE change == [held[r] EXCEPT !.state = state]
    <3>1. change \in Ticket /\ change.state = state /\ Update(r, change, o)
      BY <1>1, <2>2 DEF Ticket, RecoverAs, Save
    <3>2. /\ idx'[r] = state /\ (\A q \in Recs \ {r} : idx'[q] = idx[q]) /\ marker' = marker
      BY <2>2, KeptParts DEF RecoverAs, Save, TicketTyped
    <3>3. state # "delivered" /\ state # "none" /\ (r \in quarantined => state = "failed")
      BY <2>2 DEF States
    <3> HIDE DEF change, As
    <3>. QED BY <1>1, <3>1, <3>2, <3>3, KeptParts, UpdateFinds, UpdateEffect
  <2>3. CASE Dropped
    <3>1. /\ RemoveFiles(r, o)
          /\ held' = [held EXCEPT ![r] = None] \/ held' = held
          /\ idx' = [idx EXCEPT ![r] = "none"] \/ idx' = [idx EXCEPT ![r] = held[r].state]
          /\ marker' = [marker EXCEPT ![path[r]] = "none"] \/ marker' = marker
      BY <2>3 DEF RecoverDrop, ClearTicket
    <3>2. Loadable(r)' \subseteq Loadable(r) /\ \A q \in Recs \ {r} : FindsNoMore(q)
      BY <3>1, KeptParts, RemovalFinds
    <3>3. /\ idx'[r] \in {"none", held[r].state} /\ (\A q \in Recs \ {r} : idx'[q] = idx[q])
          /\ held'[r] \in {None, held[r]} /\ (\A q \in Recs \ {r} : held'[q] = held[q])
          /\ \A p \in Paths \ {path[r]} : marker'[p] = marker[p]
      BY <3>1, KeptParts DEF TicketTyped, FileTyped
    <3>. QED BY <2>3, <3>2, <3>3
  <2> HIDE DEF Kept, Dropped, As
  <2>. QED BY <1>5, <2>1, <2>2, <2>3
<1>8. FilesLocal(r) /\ TicketsLocal(r)
  <2>1. vis'[path[r]] \in {vis[path[r]], None} /\ \A p \in Paths \ {path[r]} : vis'[p] = vis[p]
    BY <1>1, <1>5, KeptParts DEF FileTyped
  <2> HIDE DEF Kept, Dropped, As
  <2>. QED BY <1>1, <1>3, <1>7, <2>1 DEF FilesLocal, TicketsLocal
<1>9. \A q \in Recs : SameObjects(q)
  BY <1>3, <1>6 DEF SameObjects
<1>10. OwnAudio(r)' /\ InPlace(r)' /\ AudioWritten(r)'
  BY <1>1, <1>3, <1>8, KeptParts DEF FilesLocal, Sound, OwnAudio, InPlace, AudioWritten
<1>11. DeliveredIsPut(r)'
  BY <1>1, <1>3, <1>6, <1>7, KeptParts DEF Sound, DeliveredIsPut, SaysDelivered
<1>12. Findable(r)' /\ Known(r)' /\ FileKept(r)'
  <2>1. Undelivered(r)' <=> Undelivered(r)
    BY <1>3, <1>6 DEF Undelivered, HasDest
  <2>2. Undelivered(r) => vis' = vis
    BY <1>5
  <2>. QED BY <1>2, <1>3, <1>7, <2>1, <2>2, KeptParts DEF Sound, Findable, NeedsTicket, Known, FileKept
<1>13. StaysFailed(r)'
  <2>1. r \in quarantined => marker' = marker
    BY <1>7
  <2>. QED BY <1>2, <1>3, <1>6, <1>7, <2>1, KeptParts DEF Sound, StaysFailed, SaysFailed, IdleUpload
<1>. QED BY <1>3, <1>8, <1>9, <1>10, <1>11, <1>12, <1>13, OthersStay, SoundStep DEF Sound

LEMMA SoundRecoveryNext ==
  ASSUME Journaled, KeptInv, RecoveryNext PROVE AllSound
<1>1. ASSUME NEW r \in Recs, NEW o, Visits(r, o) PROVE AllSound
  BY <1>1, SoundVisit
<1>2. CASE Serve
  <2>1. /\ UNCHANGED <<gens, imgs, bytes, vis, ent, marker, path, mode, held, idx, phase, unreadable,
                       upl, obj, late, puts, audio, quarantined, gone>>
        /\ boot = {}
    BY <1>2 DEF Serve, fileVars, tickVars, s3Vars, histVars
  <2>2. \A q \in Recs : /\ FindsNoMore(q) /\ (HasTicket(q)' <=> HasTicket(q))
                        /\ Loadable(q)' = Loadable(q)
    BY <2>1, SameDirectory
  <2>3. \A q \in Recs : /\ (WasPut(q)' <=> WasPut(q))
                        /\ (OwnAudio(q)' <=> OwnAudio(q)) /\ (Undelivered(q)' <=> Undelivered(q))
    BY <2>1 DEF WasPut, OwnAudio, Undelivered, HasDest
  <2>4. ASSUME NEW q \in Recs PROVE Sound(q)'
    <3>1. Known(q)'
      BY <1>2, <2>1, <2>3, KeptParts DEF Serve, Sound, Known
    <3>. QED BY <2>1, <2>2, <2>3, <3>1, KeptParts
         DEF Sound, DeliveredIsPut, SaysDelivered, InPlace, AudioWritten, Findable, NeedsTicket,
             FileKept, StaysFailed, SaysFailed
  <2>. QED BY <2>1, <2>4 DEF AllSound
<1>. QED BY <1>1, <1>2, SoundLoad DEF RecoveryNext, Visits

-------------------------------------------------------------------------------
(* S3, storage and crashes                                                 *)

LEMMA SoundLateReply ==
  ASSUME Journaled, KeptInv, NEW l \in late, NEW applied \in BOOLEAN, LateReply(l, applied)
  PROVE  AllSound
<1> USE DEF fileVars, tickVars, sysVars, s3Vars, histVars
<1>1. PICK r \in Recs : r = l.rec /\ l.key \in Keys /\ l.aud = r
  BY KeptParts DEF S3Typed, Sound, OwnAudio
<1>2. UNCHANGED <<gens, imgs, fileVars, tickVars, sysVars, upl, histVars>> /\ late' \subseteq late
  BY DEF LateReply
<1>3. \A q \in Recs : FindsNoMore(q) /\ (HasTicket(q)' <=> HasTicket(q)) /\ Loadable(q)' = Loadable(q)
  BY <1>2, SameDirectory
<1>4. FilesLocal(r) /\ TicketsLocal(r)
  BY <1>2, <1>3 DEF FilesLocal, TicketsLocal
<1>5. /\ puts \subseteq puts' /\ (\A x \in puts' : x \in puts \/ (x.id = r /\ x.aud = r))
      /\ \A k \in Keys : obj'[k].id = obj[k].id \/ (obj'[k].id = r /\ \E x \in puts' : x.id = r)
  <2>1. CASE applied
    <3>1. puts' = puts \cup {[id |-> r, key |-> l.key, aud |-> r]}
          /\ obj' = [obj EXCEPT ![l.key] = [id |-> r, aud |-> r]]
      BY <1>1, <2>1 DEF LateReply, Commit, Object
    <3>2. [id |-> r, key |-> l.key, aud |-> r] \in puts'
      BY <3>1
    <3>3. \A k \in Keys : obj'[k].id = obj[k].id \/ obj'[k].id = r
      BY <1>1, <3>1, KeptParts DEF S3Typed
    <3>4. \E x \in puts' : x.id = r
      BY <3>2
    <3>. QED BY <3>1, <3>3, <3>4
  <2>. QED BY <2>1 DEF LateReply
<1>6. \A q \in Recs : WasPut(q) => WasPut(q)'
  BY <1>5 DEF WasPut
<1>7. \A q \in Recs \ {r} : SameObjects(q)
  BY <1>2, <1>5, <1>6 DEF SameObjects
<1>8. OwnAudio(r)' /\ InPlace(r)' /\ AudioWritten(r)'
  BY <1>2, <1>5, KeptParts DEF Sound, OwnAudio, InPlace, AudioWritten
<1>9. DeliveredIsPut(r)'
  <2>1. (\E x \in puts' : x.id = r) => WasPut(r)'
    BY DEF WasPut
  <2>. QED BY <1>2, <1>3, <1>5, <1>6, <2>1, KeptParts DEF Sound, DeliveredIsPut, SaysDelivered
<1>10. Findable(r)' /\ Known(r)' /\ FileKept(r)'
  BY <1>2, <1>3, <1>6, KeptParts
  DEF Sound, Findable, NeedsTicket, Known, FileKept, Undelivered, HasDest
<1>11. StaysFailed(r)'
  BY <1>1, <1>2, KeptParts DEF Sound, StaysFailed
<1>. QED BY <1>2, <1>4, <1>7, <1>8, <1>9, <1>10, <1>11, OthersStay, SoundStep DEF Sound

LEMMA SoundExpire ==
  ASSUME Journaled, KeptInv, NEW k \in Keys, Expire(k)
  PROVE  AllSound
<1> USE DEF fileVars, tickVars, sysVars, s3Vars, histVars
<1>1. /\ UNCHANGED <<gens, imgs, fileVars, tickVars, sysVars, upl, late, puts, histVars>>
      /\ \A j \in Keys : obj'[j].id \in {obj[j].id, None}
  BY KeptParts DEF Expire, Object, S3Typed
<1>2. \A q \in Recs : FindsNoMore(q)
  BY <1>1, SameDirectory
<1>3. \A q \in Recs : SameTicket(q) /\ SameFile(q)
  BY <1>1, <1>2 DEF SameTicket, SameFile
<1>4. \A q \in Recs : SameObjects(q)
  BY <1>1, OutboxAssumption DEF SameObjects, WasPut
<1>. QED BY <1>3, <1>4, SoundUntouched, KeptParts DEF AllSound, SameTicket

\* A file that storage loses, or that retention removes, is lost, or no ticket
\* stands for it any more.
LEMMA SoundFileGone ==
  ASSUME Journaled, KeptInv, NEW p \in Paths, Vanish(p) \/ Retention(p)
  PROVE  AllSound
<1> USE DEF fileVars, tickVars, sysVars, s3Vars, histVars
<1>1. PICK r \in Recs : vis[p] = r /\ p = path[r]
  <2>1. vis[p] # None /\ vis[p] \in Recs
    BY KeptParts DEF Vanish, Retention, FileTyped
  <2>. QED BY <2>1, KeptParts DEF Sound, InPlace
<1>2. /\ UNCHANGED <<gens, imgs, bytes, marker, tickVars, sysVars, upl, s3Vars, audio, quarantined>>
      /\ vis' = [vis EXCEPT ![p] = None]
      /\ ent' \in {ent, [ent EXCEPT ![p] = None]}
      /\ gone \subseteq gone' /\ gone' \subseteq gone \cup {r}
      /\ r \in gone' \/ (up = "running" /\ unreadable = {} /\ ~HasPath(p) /\ phase[r] = "done")
  BY <1>1 DEF Vanish, Retention
<1>3. \A q \in Recs : FindsNoMore(q) /\ (HasTicket(q)' <=> HasTicket(q)) /\ Loadable(q)' = Loadable(q)
  BY <1>2, SameDirectory
<1>4. \A q \in Recs : SameTicket(q) /\ SameObjects(q)
  BY <1>2, <1>3 DEF SameTicket, SameObjects, WasPut
<1>5. \A q \in Recs \ {r} : SameFile(q)
  <2> SUFFICES ASSUME NEW q \in Recs \ {r} PROVE SameFile(q)
    OBVIOUS
  <2>1. path[q] \in Paths \ {p}
    BY <1>1, OwnName
  <2>2. /\ \A s \in Paths \ {p} : vis'[s] = vis[s] /\ ent'[s] = ent[s]
        /\ vis'[p] = None /\ ent'[p] \in {ent[p], None}
    BY <1>2, KeptParts DEF FileTyped
  <2>3. \A s \in Paths : vis'[s] = q \/ ent'[s] = q => vis[s] = q \/ ent[s] = q
    BY <2>2, OutboxAssumption
  <2>4. UNCHANGED <<bytes, marker, audio, quarantined>> /\ (q \in gone => q \in gone')
    BY <1>2
  <2>. QED BY <2>1, <2>2, <2>3, <2>4 DEF SameFile
<1>6. WasPut(r)' <=> WasPut(r)
  BY <1>2 DEF WasPut
<1>7. OwnAudio(r)' /\ AudioWritten(r)'
  BY <1>2, KeptParts DEF Sound, OwnAudio, AudioWritten
<1>8. InPlace(r)'
  BY <1>1, <1>2, KeptParts DEF Sound, InPlace, FileTyped
<1>9. DeliveredIsPut(r)'
  BY <1>2, <1>3, <1>6, KeptParts DEF Sound, DeliveredIsPut, SaysDelivered
<1>10. Findable(r)' /\ Known(r)'
  BY <1>2, <1>3, <1>6, KeptParts
  DEF Sound, Findable, NeedsTicket, Known, Undelivered, HasDest
<1>11. FileKept(r)'
  <2>1. CASE r \in gone'
    BY <2>1 DEF FileKept
  <2>2. CASE up = "running" /\ unreadable = {} /\ ~HasPath(p) /\ phase[r] = "done"
    <3>1. idx[r] = "none"
      BY <1>1, <2>2 DEF HasPath
    <3>2. ~Undelivered(r)
      BY <2>2, <3>1, KeptParts DEF Sound, Known
    <3>. QED BY <1>2, <1>6, <2>2, <3>2 DEF FileKept, Undelivered, HasDest
  <2>. QED BY <1>2, <2>1, <2>2
<1>12. StaysFailed(r)'
  BY <1>2, <1>3, <1>6, KeptParts DEF Sound, StaysFailed, SaysFailed
<1>13. OthersSame(r)
  BY <1>4, <1>5 DEF OthersSame
<1>. QED BY <1>2, <1>7, <1>8, <1>9, <1>10, <1>11, <1>12, <1>13, SoundStep DEF Sound

\* After a crash a ticket is what its generations say, and its file what
\* storage kept.
LEMMA SoundStopped ==
  ASSUME Journaled, KeptInv, Stopped, \A q \in Recs : FindsNoMore(q),
         \A p \in Paths : /\ vis'[p] \in {vis[p], ent[p]} /\ ent'[p] \in {vis[p], ent[p]}
                          /\ marker[p] = "kept" => marker'[p] = "kept",
         \A q \in Recs : q \in audio' => q \in audio /\ (bytes[q] # "none" => bytes'[q] # "none")
  PROVE  AllSound
<1> USE DEF s3Vars
<1> SUFFICES ASSUME NEW r \in Recs PROVE path'[r] = path[r] /\ Sound(r)'
  BY DEF AllSound
<1>1. /\ UNCHANGED <<path, mode, obj, late, puts, quarantined, gone>>
      /\ up' = "down" /\ held'[r] = None /\ idx'[r] = "none"
      /\ phase'[r] = IF phase[r] = "unborn" THEN "unborn" ELSE "done"
      /\ upl' = IdleUpload /\ upl'.rec # r /\ upl'.pc = "idle" /\ path[r] \in Paths
  BY OutboxAssumption, OwnName DEF Stopped, IdleUpload
<1>2. WasPut(r)' <=> WasPut(r)
  BY <1>1 DEF WasPut
<1>3. Undelivered(r)' => Undelivered(r)
  BY <1>1, <1>2 DEF Undelivered, HasDest
<1>4. OwnAudio(r)' /\ AudioWritten(r)' /\ Known(r)'
  BY <1>1, KeptParts DEF Sound, OwnAudio, AudioWritten, Known
<1>5. InPlace(r)'
  BY <1>1, KeptParts DEF Sound, InPlace
<1>6. DeliveredIsPut(r)'
  BY <1>1, <1>2, KeptParts DEF Sound, DeliveredIsPut, SaysDelivered, FindsNoMore
<1>7. Findable(r)' /\ FileKept(r)'
  BY <1>1, <1>3, KeptParts DEF Sound, Findable, NeedsTicket, FileKept, FindsNoMore
<1>8. StaysFailed(r)'
  BY <1>1, <1>2, KeptParts DEF Sound, StaysFailed, SaysFailed, FindsNoMore
<1>. QED BY <1>1, <1>4, <1>5, <1>6, <1>7, <1>8 DEF Sound

LEMMA SoundCrash ==
  ASSUME Journaled, KeptInv, Crash
  PROVE  AllSound
<1> USE DEF fileVars
<1>1. ASSUME NEW torn \in SUBSET Recs, Kill(torn) PROVE AllSound
  <2>1. \A q \in Recs : FindsNoMore(q)
    BY <1>1, KeptParts, KillFinds
  <2>2. Stopped /\ UNCHANGED <<vis, ent, bytes, marker, audio>>
    BY <1>1 DEF Kill
  <2>. QED BY <2>1, <2>2, SoundStopped
<1>2. ASSUME NEW G \in [Recs -> UNION {Leaves(r) : r \in Recs}], \A r \in Recs : G[r] \in Leaves(r),
             NEW P, NEW M \in SUBSET {p \in Paths : marker[p] = "seen"},
             NEW L \in SUBSET {r \in Recs : bytes[r] = "cached"}, PowerCut(G, P, M, L)
      PROVE  AllSound
  <2>1. \A q \in Recs : FindsNoMore(q)
    BY <1>2, KeptParts, PowerCutFinds
  <2>2. \A p \in Paths : /\ vis'[p] \in {vis[p], ent[p]} /\ ent'[p] \in {vis[p], ent[p]}
                         /\ marker[p] = "kept" => marker'[p] = "kept"
    BY <1>2 DEF PowerCut
  <2>3. \A q \in Recs : q \in audio' => q \in audio /\ (bytes[q] # "none" => bytes'[q] # "none")
    BY <1>2 DEF PowerCut
  <2>4. Stopped
    BY <1>2 DEF PowerCut
  <2>. QED BY <2>1, <2>2, <2>3, <2>4, SoundStopped
<1>3. CASE \E torn \in {{}} \cup {{r} : r \in Recs} : Kill(torn)
  BY <1>1, <1>3
<1>. QED BY <1>2, <1>3 DEF Crash

LEMMA SoundEnvironmentNext ==
  ASSUME Journaled, KeptInv, EnvironmentNext PROVE AllSound
BY SoundLateReply, SoundExpire, SoundFileGone, SoundCrash DEF EnvironmentNext

LEMMA SoundInit == Init => \A r \in Recs : Sound(r)
<1> SUFFICES ASSUME Init, NEW r \in Recs PROVE Sound(r)
  OBVIOUS
<1>1. OwnAudio(r) /\ InPlace(r) /\ AudioWritten(r)
  BY OutboxAssumption DEF Init, OwnAudio, InPlace, AudioWritten, IdleUpload
<1>2. \A g : g \notin Loadable(r)
  BY DEF Init, Loadable, Leaves, Newest, Valid
<1>3. \A k \in Keys : obj[k].id # r
  BY OutboxAssumption DEF Init
<1>4. DeliveredIsPut(r)
  BY <1>2, <1>3, OutboxAssumption DEF Init, DeliveredIsPut, SaysDelivered, IdleUpload
<1>5. Findable(r) /\ Known(r) /\ FileKept(r) /\ StaysFailed(r)
  BY DEF Init, Findable, NeedsTicket, Undelivered, Known, FileKept, StaysFailed
<1>. QED BY <1>1, <1>4, <1>5 DEF Sound

\* The step of the induction.
LEMMA KeptNext ==
  ASSUME Journaled PROVE KeptInv /\ [Next]_vars => KeptInv'
<1> SUFFICES ASSUME KeptInv, [Next]_vars PROVE KeptInv'
  OBVIOUS
<1>1. RestartInv'
  BY KeptParts, RestartNext
<1>2. DurableInv'
  BY KeptParts, DurableNext
<1>3. AllSound
  <2>1. CASE UNCHANGED vars
    <3> USE DEF vars, fileVars, tickVars, sysVars, s3Vars, histVars
    <3>1. \A q \in Recs : FindsNoMore(q)
      BY <2>1, SameDirectory
    <3>2. \A q \in Recs : SameTicket(q) /\ SameFile(q) /\ SameObjects(q)
      BY <2>1, <3>1 DEF SameTicket, SameFile, SameObjects, WasPut
    <3>. QED BY <3>2, SoundUntouched, KeptParts DEF AllSound, SameTicket
  <2>. QED BY <2>1, SoundRecorderNext, SoundUploaderNext, SoundRecoveryNext, SoundEnvironmentNext
       DEF Next
<1>4. NamesDiffer'
  BY <1>3, KeptParts DEF AllSound, NamesDiffer
<1>. QED BY <1>1, <1>2, <1>3, <1>4 DEF KeptInv, AllSound

-------------------------------------------------------------------------------
(* What follows                                                            *)

\* An own name and no object yet: the recording is not stored.
LEMMA StoredIsPut ==
  ASSUME KeptInv, NEW r \in Recs PROVE WasPut(r) => Stored(r)
BY KeptParts DEF Sound, OwnAudio, WasPut, Stored

LEMMA KeptInit == Init /\ NamesDiffer => KeptInv
BY OwnersInit, RestartInit, DurableInit, SoundInit DEF KeptInv, RestartInv

\* I3, I9, for every number of recordings, crashes, failing disk steps and
\* failing calls: audio that reached the durability watermark and is bound for
\* S3 is in its file or in S3, unless storage loses the file, when the
\* recordings have names of their own and the directory is journaled.
THEOREM AudioSurvives == ASSUME Journaled PROVE NamesDiffer /\ Spec => []AudioKept
<1>1. KeptInv => AudioKept
  <2> SUFFICES ASSUME KeptInv, NEW r \in audio \ gone, HasDest(r), ~Stored(r)
               PROVE  vis[path[r]] = r
    BY DEF AudioKept
  <2>1. r \in Recs
    BY KeptParts DEF HistoryTyped
  <2>2. Undelivered(r)
    BY <2>1, StoredIsPut DEF Undelivered
  <2>. QED BY <2>1, <2>2, KeptParts DEF Sound, FileKept
<1>. QED BY <1>1, KeptInit, KeptNext, PTL DEF Spec

\* I3, I6, under the same conditions: until its delivery a recording has a
\* ticket that parses whatever a power cut leaves, and the running service has
\* it in its index or counts it as unreadable.
THEOREM TicketsAreFound == ASSUME Journaled PROVE NamesDiffer /\ Spec => []TicketFound
<1>1. KeptInv => TicketFound
  <2> SUFFICES ASSUME KeptInv, NEW r \in Recs, r \in audio
               PROVE  /\ (HasDest(r) /\ ~Stored(r)) \/ phase[r] \in {"recording", "failing"}
                           => \A G \in Leaves(r) : Valid(G) # {}
                      /\ up = "running" /\ HasDest(r) /\ ~Stored(r) =>
                           idx[r] # "none" \/ r \in unreadable
    BY KeptParts DEF TicketFound, Discoverable, Counted, HistoryTyped
  <2>1. HasDest(r) /\ ~Stored(r) => Undelivered(r)
    BY StoredIsPut DEF Undelivered
  <2>2. HasTicket(r) => \A G \in Leaves(r) : Valid(G) # {}
    BY DEF HasTicket, Leaves, Newest
  <2>. QED BY <2>1, <2>2, KeptParts DEF Sound, Findable, NeedsTicket, Known
<1>. QED BY <1>1, KeptInit, KeptNext, PTL DEF Spec

\* A failure that was recorded keeps the recording out of S3, under the same
\* conditions: a restart finds the ticket failed, or still recording next to
\* the marker, and takes neither for a recording to deliver.
THEOREM QuarantineHolds == ASSUME Journaled PROVE NamesDiffer /\ Spec => []FailedStaysOut
<1>1. KeptInv => FailedStaysOut
  BY KeptParts DEF FailedStaysOut, Sound, StaysFailed, WasPut, S3Typed
<1>. QED BY <1>1, KeptInit, KeptNext, PTL DEF Spec

\* Recordings with names of their own do not get in each other's way at the S3
\* keys they compete for: nothing is stored twice, lost, or uploaded under a
\* key a restart would not know, as long as nobody removes objects from S3.
THEOREM KeysDoNotMix ==
  ASSUME Journaled, ~AllowExpire PROVE NamesDiffer /\ Spec => []NamesSound
<1>1. KeptInv => \A x, y \in puts : x.aud = y.aud => x.id = y.id
  BY KeptParts DEF Sound, OwnAudio, S3Typed
<1>2. KeptInv /\ AudioKept /\ AtMostOnce /\ KeyKnown => NamesSound
  BY <1>1 DEF NamesSound, StoredOnce, AtMostOnce
<1>. QED BY <1>2, KeptInit, KeptNext, AudioSurvives, UploadsOnce, KeysSurvive, PTL DEF Spec

-------------------------------------------------------------------------------
(* Stored credentials: who saves them                                      *)

\* Where a thread is when it saves nothing, what the directory can hold, and what a thread
\* can be asked to save.
Places == {"rest", "lock", "ticket"}
Directories == [Dests -> Creds \cup {0}]
Wishes == [dest : Dests \cup {None}, cred : Creds \cup {0}]

\* The values of the state.
DestTyped ==
  /\ tUp \in {"down", "booting", "up"} /\ listed \in BOOLEAN /\ failed \in BOOLEAN
  /\ cfg \in T!Config /\ tickets \subseteq Dests
  /\ file \in images /\ images \subseteq Directories
  /\ tAt \in [T!Threads -> Places \cup {"save", "rename", "sync"}] /\ want \in [T!Threads -> Wishes]

\* Thread p is inside saveDestinationLocked.
Saves(p) == tAt[p] \in {"save", "rename", "sync"}

\* The settings of a thread agree with its place: it holds the lock while it saves, and
\* what it has renamed is in the directory; a reservation saves only what is missing.
ThreadFits(p) ==
  /\ Saves(p) => destMu = p /\ want[p].cred # 0
  /\ tAt[p] # "rest" => tUp = "up" /\ want[p] \in T!Config
  /\ tAt[p] = "sync" => file[want[p].dest] = want[p].cred
  /\ p = rec /\ tAt[p] # "rest" => want[p].cred # 0
  /\ p = rec /\ tAt[p] \in {"save", "rename"} => file[want[p].dest] = 0
  /\ tAt[p] = "ticket" => p = rec

\* Credentials for d stay through a power cut, unless their entry was never confirmed.
Safe(d) == d \in unsynced \/ \A dir \in images : dir[d] # 0

\* What is in the directory is safe, or a thread is about to confirm it.
Confirmed ==
  \A d \in Dests : file[d] # 0 => Safe(d) \/ \E p \in T!Threads : tAt[p] = "sync" /\ want[p].dest = d

\* What a ticket refers to is safe, also if the ticket has still to be written.
TicketsSafe == (\A d \in tickets : Safe(d)) /\ (tAt[rec] = "ticket" => Safe(want[rec].dest))

\* Somebody waits to save the current settings.
Queued == \E q \in Savers : tAt[q] = "lock"

\* The newest settings are in the directory, being saved, or about to be.
NewestWins ==
  /\ \A p \in Savers : Saves(p) => want[p] = cfg \/ Queued
  /\ tUp = "up" /\ listed /\ cfg.cred # 0 /\ ~failed =>
       file[cfg.dest] = cfg.cred \/ Queued \/ \E p \in Savers : Saves(p)

\* The inductive invariant.
DestInv == DestTyped /\ (\A p \in T!Threads : ThreadFits(p)) /\ Confirmed /\ TicketsSafe /\ NewestWins

-------------------------------------------------------------------------------
(* The steps                                                               *)

\* A thread is a saver or the reservation.
LEMMA ThreadKinds ==
  ASSUME DestinationsAssumption
  PROVE  T!Threads = Savers \cup {rec} /\ rec \notin Savers /\ None \notin T!Threads /\ 0 \notin Creds
BY DEF DestinationsAssumption, T!Threads

\* Only one thread saves, and it has the lock.
LEMMA OneSaver ==
  ASSUME DestinationsAssumption, DestInv, NEW p \in T!Threads, NEW q \in T!Threads, Saves(p)
  PROVE  destMu = p /\ (Saves(q) => q = p)
BY DEF DestInv, ThreadFits

\* A thread joins the queue for the lock, with settings or those of a segment.
LEMMA JoinsQueue ==
  ASSUME DestinationsAssumption, DestInv, NEW p \in T!Threads, tAt[p] = "rest", NEW c \in T!Config, p = rec => c.cred # 0,
         tAt' = [tAt EXCEPT ![p] = "lock"], want' = [want EXCEPT ![p] = c],
         tUp' = "up", cfg' \in T!Config, listed' \in BOOLEAN,
         p = rec => UNCHANGED <<tUp, cfg, listed>>,
         UNCHANGED <<file, images, tickets, destMu, failed, unsynced>>
  PROVE  DestInv'
<1>1. DestTyped'
  BY ThreadKinds DEF DestInv, DestTyped, Places, Wishes, T!Config
<1>2. tAt \in [T!Threads -> Places \cup {"save", "rename", "sync"}] /\ want \in [T!Threads -> Wishes]
  BY DEF DestInv, DestTyped
<1>3. \A q \in T!Threads : ThreadFits(q)'
  BY <1>2 DEF DestInv, ThreadFits, Saves
<1>4. Confirmed'
  BY <1>2 DEF DestInv, Confirmed, Safe
<1>5. TicketsSafe'
  BY <1>2, ThreadKinds DEF DestInv, TicketsSafe, Safe
<1>6. NewestWins'
  <2>1. CASE p \in Savers
    <3>1. Queued'
      BY <1>2, <2>1 DEF Queued
    <3>. QED BY <3>1 DEF NewestWins
  <2>2. CASE p = rec
    BY <1>2, <2>2, ThreadKinds DEF DestInv, NewestWins, Queued, Saves
  <2>. QED BY <2>1, <2>2, ThreadKinds
<1>. QED BY <1>1, <1>3, <1>4, <1>5, <1>6 DEF DestInv

\* UpdateRecorder, refreshDestinations and AddRecorder up to the lock.
LEMMA QueueInv ==
  ASSUME DestinationsAssumption, DestInv, NEW p \in Savers, T!Update(p) \/ T!Refresh(p) \/ T!Add(p)
  PROVE  DestInv'
<1>1. p \in T!Threads /\ rec \in T!Threads /\ p # rec /\ cfg \in T!Config /\ listed \in BOOLEAN
  BY ThreadKinds DEF DestInv, DestTyped
<1>2. CASE T!Update(p)
  <2>1. PICK c \in T!Config : cfg' = c /\ want' = [want EXCEPT ![p] = c]
    BY <1>2 DEF T!Update
  <2>. QED BY <1>1, <1>2, <2>1, JoinsQueue DEF T!Update
<1>3. CASE T!Refresh(p)
  BY <1>1, <1>3, JoinsQueue DEF T!Refresh
<1>4. CASE T!Add(p)
  <2>1. tAt[p] = "rest"
    BY <1>1, <1>4 DEF T!Add, DestInv, ThreadFits
  <2>2. CASE listed
    BY <1>1, <1>4, <2>1, <2>2, JoinsQueue DEF T!Add
  <2>3. CASE ~listed
    <3>1. /\ tUp' = "up" /\ ~listed'
          /\ UNCHANGED <<listed, cfg, file, images, tickets, destMu, tAt, want, failed, unsynced>>
      BY <1>4, <2>3 DEF T!Add
    <3>. QED BY <3>1 DEF DestInv, DestTyped, ThreadFits, Saves, Confirmed, TicketsSafe, Safe, NewestWins, Queued
  <2>. QED BY <2>2, <2>3
<1>. QED BY <1>2, <1>3, <1>4

\* reserveRecordingOutput up to the lock.
LEMMA ReserveInv == ASSUME DestinationsAssumption, DestInv, T!Reserve PROVE DestInv'
<1>1. rec \in T!Threads /\ cfg \in T!Config /\ listed \in BOOLEAN
  BY ThreadKinds DEF DestInv, DestTyped
<1>. QED BY <1>1, JoinsQueue DEF T!Reserve

\* A thread that saves gives the lock back.  Its credentials are in the directory and safe, or
\* nothing was stored; a reservation goes on if they are.
LEMMA GivesBack ==
  ASSUME DestinationsAssumption, DestInv, NEW p \in T!Threads, Saves(p), NEW ok \in BOOLEAN, T!Saved(p, ok),
         UNCHANGED <<tUp, listed, cfg, file, tickets>>, images' \in SUBSET images, file \in images',
         ok => file[want[p].dest] = want[p].cred,
         \A d \in Dests : Safe(d) => Safe(d)', \A d \in Dests : file[d] # 0 => Safe(d)'
  PROVE  DestInv'
<1>1. tAt \in [T!Threads -> Places \cup {"save", "rename", "sync"}] /\ want \in [T!Threads -> Wishes]
  BY DEF DestInv, DestTyped
<1>2. want[p] \in T!Config /\ tUp = "up" /\ want[p].cred # 0 /\ \A q \in T!Threads : q # p => ~Saves(q)
  BY OneSaver DEF DestInv, ThreadFits, Saves
<1>3. /\ tAt' = [tAt EXCEPT ![p] = IF p = rec /\ ok THEN "ticket" ELSE "rest"]
      /\ want' = IF p = rec /\ ok THEN want ELSE [want EXCEPT ![p] = T!Idle]
      /\ failed' = IF p = rec THEN failed ELSE ~ok
  BY DEF T!Saved, T!Unlock
<1>4. T!Idle \in Wishes
  BY DEF T!Idle, Wishes
<1>5. DestTyped'
  <2>1. want' \in [T!Threads -> Wishes]
    BY <1>1, <1>3, <1>4
  <2>2. tAt' \in [T!Threads -> Places \cup {"save", "rename", "sync"}] /\ failed' \in BOOLEAN
    BY <1>1, <1>3 DEF DestInv, DestTyped, Places
  <2>. QED BY <2>1, <2>2 DEF DestInv, DestTyped
<1>6. ASSUME NEW q \in T!Threads PROVE ThreadFits(q)'
  <2>1. CASE q = p
    BY <1>1, <1>2, <1>3, <2>1 DEF ThreadFits, Saves
  <2>2. CASE q # p
    <3>1. tAt'[q] = tAt[q] /\ want'[q] = want[q] /\ ~Saves(q)
      BY <1>1, <1>2, <1>3, <2>2
    <3>. QED BY <3>1 DEF DestInv, ThreadFits, Saves
  <2>. QED BY <2>1, <2>2
<1>7. Confirmed'
  BY DEF Confirmed
<1>8. TicketsSafe'
  <2>1. \A d \in tickets : Safe(d)'
    BY DEF DestInv, DestTyped, TicketsSafe
  <2>2. tAt'[rec] = "ticket" => Safe(want[rec].dest)' /\ want'[rec] = want[rec]
    <3>1. CASE p = rec /\ ok
      BY <1>1, <1>2, <1>3, <3>1 DEF T!Config
    <3>2. CASE p = rec /\ ~ok
      BY <1>1, <1>3, <3>2
    <3>3. CASE p # rec
      <4>1. tAt'[rec] = tAt[rec] /\ want'[rec] = want[rec]
        BY <1>1, <1>3, <3>3, ThreadKinds
      <4>2. tAt[rec] = "ticket" => want[rec] \in T!Config /\ Safe(want[rec].dest)
        BY ThreadKinds DEF DestInv, ThreadFits, TicketsSafe
      <4>. QED BY <4>1, <4>2 DEF T!Config
    <3>. QED BY <3>1, <3>2, <3>3
  <2>3. tAt'[rec] = "ticket" => Safe(want[rec].dest)' /\ want'[rec].dest = want[rec].dest
    BY <2>2
  <2>. QED BY <2>1, <2>3 DEF TicketsSafe, Safe
<1>9. NewestWins'
  <2>1. \A q \in Savers : ~Saves(q)'
    BY <1>1, <1>2, <1>3, ThreadKinds DEF Saves
  <2>2. Queued => Queued'
    BY <1>1, <1>3, ThreadKinds DEF Queued, Saves
  <2>3. CASE p = rec
    BY <1>2, <1>3, <2>1, <2>2, <2>3, ThreadKinds DEF DestInv, NewestWins
  <2>4. CASE p \in Savers
    BY <1>2, <1>3, <2>1, <2>2, <2>4, ThreadKinds DEF DestInv, NewestWins
  <2>. QED BY <2>1, <2>3, <2>4, ThreadKinds DEF NewestWins
<1>. QED BY <1>5, <1>6, <1>7, <1>8, <1>9 DEF DestInv

\* The lock is free: a thread takes it, or finds that there is nothing to save.
LEMMA LockInv == ASSUME DestinationsAssumption, DestInv, NEW p \in T!Threads, T!Lock(p) PROVE DestInv'
<1>1. tAt \in [T!Threads -> Places \cup {"save", "rename", "sync"}] /\ want \in [T!Threads -> Wishes]
  BY DEF DestInv, DestTyped
<1>2. tAt[p] = "lock" /\ destMu = None /\ want[p] \in T!Config /\ tUp = "up" /\ cfg \in T!Config
  BY DEF T!Lock, DestInv, DestTyped, ThreadFits
<1>3. \A q \in T!Threads : ~Saves(q)
  BY <1>2, ThreadKinds DEF DestInv, ThreadFits
<1>4. UNCHANGED <<tUp, listed, cfg, file, images, tickets, failed, unsynced>>
  BY DEF T!Lock
<1>5. \A d \in Dests : file[d] # 0 => Safe(d)
  BY <1>3 DEF DestInv, Confirmed, Saves
<1>6. Confirmed'
  BY <1>4, <1>5 DEF Confirmed, Safe
<1>7. \A q \in T!Threads : q # p => tAt'[q] = tAt[q] /\ want'[q] = want[q]
  BY <1>1 DEF T!Lock, T!Unlock
<1>8. tAt' \in [T!Threads -> Places \cup {"save", "rename", "sync"}] /\ want' \in [T!Threads -> Wishes]
  <2>1. T!Idle \in Wishes /\ T!Settings(p) \in Wishes
    BY <1>1, <1>2 DEF T!Idle, T!Settings, Wishes, T!Config
  <2>. QED BY <1>1, <2>1 DEF T!Lock, T!Unlock, Places
<1>9. DestTyped'
  BY <1>4, <1>8 DEF DestInv, DestTyped
<1>10. CASE T!Needed(p)
  <2>1. destMu' = p /\ tAt'[p] = "save" /\ want'[p] = T!Settings(p)
    BY <1>1, <1>10 DEF T!Lock
  <2>2. ThreadFits(p)'
    BY <1>2, <1>4, <1>10, <2>1 DEF DestInv, ThreadFits, Saves, T!Needed, T!Settings
  <2>3. \A q \in T!Threads : ThreadFits(q)'
    BY <1>3, <1>4, <1>7, <2>2 DEF DestInv, ThreadFits, Saves
  <2>4. TicketsSafe'
    BY <1>4, <1>7, <2>1, ThreadKinds DEF DestInv, TicketsSafe, Safe
  <2>5. NewestWins'
    <3>1. CASE p \in Savers
      BY <1>3, <1>4, <1>7, <2>1, <3>1, ThreadKinds DEF NewestWins, Saves, T!Settings
    <3>2. CASE p = rec
      BY <1>3, <1>4, <1>7, <3>2, ThreadKinds DEF DestInv, NewestWins, Saves, Queued
    <3>. QED BY <3>1, <3>2, ThreadKinds
  <2>. QED BY <1>6, <1>9, <2>3, <2>4, <2>5 DEF DestInv
<1>11. CASE ~T!Needed(p)
  <2>1. /\ tAt'[p] = IF p = rec THEN "ticket" ELSE "rest"
        /\ p = rec => want'[p] = want[p]
    BY <1>1, <1>11 DEF T!Lock, T!Unlock
  <2>2. ThreadFits(p)'
    BY <1>2, <1>4, <2>1 DEF DestInv, ThreadFits, Saves
  <2>3. \A q \in T!Threads : ThreadFits(q)'
    BY <1>3, <1>4, <1>7, <2>2 DEF DestInv, ThreadFits, Saves
  <2>4. TicketsSafe'
    <3>1. CASE p = rec
      <4>1. file[want[rec].dest] # 0 /\ want[rec].dest \in Dests
        BY <1>2, <1>11, <3>1 DEF T!Needed, T!Config
      <4>. QED BY <1>4, <1>5, <2>1, <3>1, <4>1 DEF DestInv, TicketsSafe, Safe
    <3>2. CASE p # rec
      BY <1>4, <1>7, <3>2, ThreadKinds DEF DestInv, TicketsSafe, Safe
    <3>. QED BY <3>1, <3>2
  <2>5. NewestWins'
    <3>1. \A q \in Savers : ~Saves(q)'
      BY <1>3, <1>7, <2>1, ThreadKinds DEF Saves
    <3>2. CASE p \in Savers
      <4>1. cfg.cred = 0
        BY <1>11, <3>2, ThreadKinds DEF T!Needed, T!Settings
      <4>. QED BY <1>4, <3>1, <4>1 DEF NewestWins
    <3>3. CASE p = rec
      BY <1>3, <1>4, <1>7, <3>1, <3>3, ThreadKinds DEF DestInv, NewestWins, Queued
    <3>. QED BY <3>2, <3>3, ThreadKinds
  <2>. QED BY <1>6, <1>9, <2>3, <2>4, <2>5 DEF DestInv
<1>. QED BY <1>10, <1>11
\* A save finds nothing to do, fails, or has its temporary file.
LEMMA SaveInv == ASSUME DestinationsAssumption, DestInv, NEW p \in T!Threads, T!Save(p) PROVE DestInv'
<1>1. tAt \in [T!Threads -> Places \cup {"save", "rename", "sync"}] /\ want \in [T!Threads -> Wishes]
  BY DEF DestInv, DestTyped
<1>2. tAt[p] = "save" /\ Saves(p) /\ UNCHANGED <<tUp, listed, cfg, file, images, tickets, unsynced>>
  BY DEF T!Save, Saves
<1>3. \A q \in T!Threads : q # p => ~Saves(q)
  BY <1>2, OneSaver
<1>4. CASE \E ok \in BOOLEAN : T!Saved(p, ok) /\ (ok => file[want[p].dest] = want[p].cred)
  <2>1. PICK ok \in BOOLEAN : T!Saved(p, ok) /\ (ok => file[want[p].dest] = want[p].cred)
    BY <1>4
  <2>2. \A d \in Dests : file[d] # 0 => Safe(d)
    BY <1>2, <1>3 DEF DestInv, Confirmed, Saves
  <2>3. images' \in SUBSET images /\ file \in images' /\ \A d \in Dests : Safe(d) => Safe(d)'
    BY <1>2 DEF DestInv, DestTyped, Safe
  <2>. QED BY <1>2, <2>1, <2>2, <2>3, GivesBack
<1>5. CASE tAt' = [tAt EXCEPT ![p] = "rename"] /\ UNCHANGED <<destMu, want, failed>>
  <2>1. tAt'[p] = "rename" /\ Saves(p)' /\ \A q \in T!Threads : q # p => tAt'[q] = tAt[q]
    BY <1>1, <1>5 DEF Saves
  <2>2. DestTyped'
    BY <1>2, <1>5 DEF DestInv, DestTyped
  <2>3. \A q \in T!Threads : ThreadFits(q)'
    BY <1>2, <1>5, <2>1 DEF DestInv, ThreadFits, Saves
  <2>4. Confirmed' /\ TicketsSafe'
    BY <1>2, <1>5, <2>1, ThreadKinds DEF DestInv, Confirmed, TicketsSafe, Safe
  <2>5. NewestWins'
    BY <1>2, <1>5, <2>1, ThreadKinds DEF DestInv, NewestWins, Queued, Saves
  <2>. QED BY <2>2, <2>3, <2>4, <2>5 DEF DestInv
<1>. QED BY <1>4, <1>5 DEF T!Save

\* The temporary file becomes the credentials, in the directory and in what a power cut may leave.
LEMMA RenameInv == ASSUME DestinationsAssumption, DestInv, NEW p \in T!Threads, T!Rename(p) PROVE DestInv'
<1>1. tAt \in [T!Threads -> Places \cup {"save", "rename", "sync"}] /\ want \in [T!Threads -> Wishes]
  BY DEF DestInv, DestTyped
<1>2. tAt[p] = "rename" /\ Saves(p) /\ UNCHANGED <<tUp, listed, cfg, tickets, unsynced>>
  BY DEF T!Rename, Saves
<1>3. \A q \in T!Threads : q # p => ~Saves(q)
  BY <1>2, OneSaver
<1>4. CASE T!Saved(p, FALSE) /\ UNCHANGED <<file, images>>
  <2>1. \A d \in Dests : file[d] # 0 => Safe(d)
    BY <1>2, <1>3 DEF DestInv, Confirmed, Saves
  <2>2. images' \in SUBSET images /\ file \in images' /\ \A d \in Dests : Safe(d) => Safe(d)'
    BY <1>2, <1>4 DEF DestInv, DestTyped, Safe
  <2>. QED BY <1>2, <1>4, <2>1, <2>2, GivesBack
<1>5. CASE tAt' = [tAt EXCEPT ![p] = "sync"] /\ UNCHANGED <<destMu, want, failed>>
  <2> DEFINE w == want[p]
             Renamed(dir) == [dir EXCEPT ![w.dest] = w.cred]
  <2>1. file' = Renamed(file) /\ images' = images \cup {Renamed(i) : i \in images}
    BY <1>1, <1>2, <1>5 DEF T!Rename, T!Saved, T!Unlock
  <2>2. w \in T!Config /\ w.dest \in Dests /\ w.cred \in Creds /\ w.cred # 0
    BY <1>2 DEF DestInv, ThreadFits, T!Config
  <2>3. file \in Directories /\ file \in images /\ images \subseteq Directories
    BY DEF DestInv, DestTyped
  <2>4. \A dir \in Directories : Renamed(dir) \in Directories /\ Renamed(dir)[w.dest] = w.cred
                                 /\ \A d \in Dests : d # w.dest => Renamed(dir)[d] = dir[d]
    BY <2>2 DEF Directories
  <2>5. tAt'[p] = "sync" /\ Saves(p)' /\ \A q \in T!Threads : q # p => tAt'[q] = tAt[q]
    BY <1>1, <1>5 DEF Saves
  <2>6. /\ file' \in images' /\ images' \subseteq Directories
        /\ file'[w.dest] = w.cred /\ \A d \in Dests : d # w.dest => file'[d] = file[d]
    BY <2>1, <2>3, <2>4
  <2>7. \A d \in Dests : Safe(d) => Safe(d)'
    <3>1. SUFFICES ASSUME NEW d \in Dests, \A dir \in images : dir[d] # 0, NEW i \in images
                   PROVE  Renamed(i)[d] # 0
      BY <1>2, <2>1 DEF Safe
    <3>. QED BY <2>2, <2>3, <2>4, <3>1
  <2> HIDE DEF Renamed
  <2>8. DestTyped'
    BY <1>1, <1>2, <1>5, <2>6 DEF DestInv, DestTyped
  <2>9. \A q \in T!Threads : ThreadFits(q)'
    <3>1. ThreadFits(p)'
      BY <1>2, <1>5, <2>5, <2>6 DEF DestInv, ThreadFits, Saves
    <3>2. ASSUME NEW q \in T!Threads, q # p PROVE ThreadFits(q)'
      BY <1>2, <1>3, <1>5, <2>5, <3>2 DEF DestInv, ThreadFits, Saves
    <3>. QED BY <3>1, <3>2
  <2>10. Confirmed'
    <3>1. SUFFICES ASSUME NEW d \in Dests, file'[d] # 0
                   PROVE  Safe(d)' \/ \E q \in T!Threads : tAt'[q] = "sync" /\ want'[q].dest = d
      BY DEF Confirmed
    <3>2. CASE d = w.dest
      BY <1>5, <2>5, <3>2
    <3>3. CASE d # w.dest
      <4>1. file[d] # 0 /\ \A q \in T!Threads : tAt[q] # "sync"
        BY <1>2, <1>3, <2>6, <3>1, <3>3 DEF Saves
      <4>. QED BY <2>7, <4>1 DEF DestInv, Confirmed
    <3>. QED BY <3>2, <3>3
  <2>11. TicketsSafe'
    <3>1. \A d \in tickets : Safe(d)'
      BY <2>7 DEF DestInv, DestTyped, TicketsSafe
    <3>2. tAt'[rec] = "ticket" => want[rec] \in T!Config /\ Safe(want[rec].dest)
      BY <2>5, ThreadKinds DEF DestInv, TicketsSafe, ThreadFits
    <3>3. tAt'[rec] = "ticket" => Safe(want[rec].dest)'
      BY <1>5, <2>7, <3>2 DEF T!Config
    <3>. QED BY <1>2, <1>5, <3>1, <3>3 DEF TicketsSafe, Safe
  <2>12. NewestWins'
    <3>1. Queued' <=> Queued
      BY <1>2, <2>5, ThreadKinds DEF Queued
    <3>2. \A q \in Savers : Saves(q)' <=> Saves(q)
      BY <1>2, <2>5, ThreadKinds DEF Saves
    <3>3. CASE p \in Savers
      BY <1>2, <1>5, <2>5, <3>1, <3>2, <3>3, ThreadKinds DEF DestInv, NewestWins
    <3>4. CASE p = rec
      <4>1. file[w.dest] = 0 /\ cfg \in T!Config
        BY <1>2, <3>4 DEF DestInv, DestTyped, ThreadFits
      <4>2. file[cfg.dest] = cfg.cred /\ cfg.cred # 0 => file'[cfg.dest] = cfg.cred
        BY <2>6, <4>1 DEF T!Config
      <4>. QED BY <1>2, <1>5, <3>1, <3>2, <4>2 DEF DestInv, NewestWins
    <3>. QED BY <3>3, <3>4, ThreadKinds
  <2>. QED BY <2>8, <2>9, <2>10, <2>11, <2>12 DEF DestInv
<1>. QED BY <1>2, <1>4, <1>5 DEF T!Rename

\* The directory is synced, or the entry stays unconfirmed.
LEMMA SyncInv == ASSUME DestinationsAssumption, DestInv, NEW p \in T!Threads, T!Sync(p) PROVE DestInv'
<1>1. tAt[p] = "sync" /\ Saves(p) /\ UNCHANGED <<tUp, listed, cfg, file, tickets>>
  BY DEF T!Sync, Saves
<1>2. \A q \in T!Threads : q # p => ~Saves(q)
  BY <1>1, OneSaver
<1>3. file[want[p].dest] = want[p].cred /\ file \in images
  BY <1>1 DEF DestInv, DestTyped, ThreadFits
<1>4. CASE images' = {file} /\ unsynced' = {d \in unsynced : file[d] = 0} /\ T!Saved(p, TRUE)
  <2>1. \A d \in Dests : (Safe(d) => Safe(d)') /\ (file[d] # 0 => Safe(d)')
    BY <1>3, <1>4 DEF Safe
  <2>2. images' \in SUBSET images /\ file \in images'
    BY <1>3, <1>4
  <2>. QED BY <1>1, <1>3, <1>4, <2>1, <2>2, GivesBack
<1>5. CASE unsynced' = unsynced \cup {want[p].dest} /\ T!Saved(p, FALSE) /\ UNCHANGED images
  <2>1. \A d \in Dests : Safe(d) => Safe(d)'
    BY <1>5 DEF Safe
  <2>2. \A d \in Dests : file[d] # 0 => Safe(d)'
    <3>1. SUFFICES ASSUME NEW d \in Dests, file[d] # 0, d # want[p].dest PROVE Safe(d)
      BY <1>5, <2>1 DEF Safe
    <3>. QED BY <1>2, <3>1 DEF DestInv, Confirmed, Saves
  <2>3. images' \in SUBSET images /\ file \in images'
    BY <1>3, <1>5
  <2>. QED BY <1>1, <1>5, <2>1, <2>2, <2>3, GivesBack
<1>. QED BY <1>4, <1>5 DEF T!Sync

\* The steps that leave the credentials and who saves them alone.
LEMMA TicketInv == ASSUME DestinationsAssumption, DestInv, T!NewTicket \/ T!Deliver \/ T!Remove PROVE DestInv'
<1>1. tAt \in [T!Threads -> Places \cup {"save", "rename", "sync"}] /\ want \in [T!Threads -> Wishes]
  BY DEF DestInv, DestTyped
<1>2. UNCHANGED <<tUp, cfg, file, images, destMu, failed, unsynced>>
  BY DEF T!NewTicket, T!Deliver, T!Remove
<1>3. CASE T!NewTicket
  <2>1. /\ tAt[rec] = "ticket" /\ tAt' = [tAt EXCEPT ![rec] = "rest"] /\ want' = [want EXCEPT ![rec] = T!Idle]
        /\ tickets' \in {tickets, tickets \cup {want[rec].dest}} /\ UNCHANGED listed
    BY <1>3 DEF T!NewTicket
  <2>2. rec \in T!Threads /\ want[rec].dest \in Dests /\ T!Idle \in Wishes
    BY <2>1, ThreadKinds DEF DestInv, ThreadFits, T!Config, T!Idle, Wishes
  <2>3. DestTyped'
    <3>1. tAt' \in [T!Threads -> Places \cup {"save", "rename", "sync"}] /\ want' \in [T!Threads -> Wishes]
      BY <1>1, <2>1, <2>2 DEF Places
    <3>. QED BY <1>2, <2>1, <2>2, <3>1 DEF DestInv, DestTyped
  <2>4. tAt'[rec] = "rest" /\ \A q \in T!Threads : q # rec => tAt'[q] = tAt[q] /\ want'[q] = want[q]
    BY <1>1, <2>1, <2>2
  <2>5. \A q \in T!Threads : ThreadFits(q)'
    BY <1>2, <2>4 DEF DestInv, ThreadFits, Saves
  <2>6. Confirmed'
    BY <1>2, <2>1, <2>4, ThreadKinds DEF DestInv, Confirmed, Safe
  <2>7. TicketsSafe'
    BY <1>2, <2>1, <2>4 DEF DestInv, TicketsSafe, Safe
  <2>8. NewestWins'
    BY <1>2, <2>1, <2>4, ThreadKinds DEF DestInv, NewestWins, Saves, Queued
  <2>. QED BY <2>3, <2>5, <2>6, <2>7, <2>8 DEF DestInv
<1>4. CASE T!Deliver \/ T!Remove
  <2>1. tickets' \subseteq tickets /\ listed' \in {listed, FALSE} /\ UNCHANGED <<tAt, want>>
    BY <1>4 DEF T!Deliver, T!Remove
  <2>2. DestTyped'
    BY <1>2, <2>1 DEF DestInv, DestTyped
  <2>3. (\A q \in T!Threads : ThreadFits(q)') /\ Confirmed'
    BY <1>2, <2>1 DEF DestInv, ThreadFits, Saves, Confirmed, Safe
  <2>4. TicketsSafe'
    BY <1>2, <2>1 DEF DestInv, TicketsSafe, Safe
  <2>5. NewestWins'
    <3>1. listed' => listed
      BY ZenonT(30), <2>1
    <3>2. /\ cfg' = cfg /\ file' = file /\ tUp' = tUp /\ failed' = failed /\ tAt' = tAt /\ want' = want
      BY <1>2, <2>1
    <3>. QED BY <3>1, <3>2 DEF DestInv, DestTyped, NewestWins, Queued, Saves
  <2>. QED BY <2>2, <2>3, <2>4, <2>5 DEF DestInv
<1>. QED BY <1>3, <1>4

\* Nobody is saving.
LEMMA DownInv ==
  ASSUME DestinationsAssumption, DestTyped', \A p \in T!Threads : tAt'[p] = "rest", tUp' # "up",
         \A d \in tickets' : Safe(d)', \A d \in Dests : file'[d] # 0 => Safe(d)'
  PROVE  DestInv'
BY ThreadKinds DEF DestInv, ThreadFits, Saves, Confirmed, TicketsSafe, NewestWins, Queued

\* The end of the process leaves what a power cut leaves.
LEMMA CrashInv == ASSUME DestinationsAssumption, DestInv, T!Crash PROVE DestInv'
<1>1. UNCHANGED <<listed, cfg, tickets>> /\ failed' = FALSE /\ tUp' = "down"
  BY DEF T!Crash
<1>2. file' \in images' /\ images' \subseteq images
  BY DEF T!Crash, DestInv, DestTyped
<1>3. \A p \in T!Threads : tAt'[p] = "rest"
  BY DEF T!Crash
<1>4. DestTyped'
  <2>1. tAt' \in [T!Threads -> Places \cup {"save", "rename", "sync"}] /\ want' \in [T!Threads -> Wishes]
    BY DEF T!Crash, T!Idle, Wishes, Places
  <2>. QED BY <1>1, <1>2, <2>1 DEF DestInv, DestTyped
<1>5. unsynced' = unsynced \cup {want[p].dest : p \in {q \in T!Threads : tAt[q] = "sync"}}
  BY DEF T!Crash
<1>6. \A d \in Dests : Safe(d) => Safe(d)'
  BY <1>2, <1>5 DEF Safe
<1>7. \A d \in tickets' : Safe(d)'
  BY <1>1, <1>6 DEF DestInv, DestTyped, TicketsSafe
<1>8. \A d \in Dests : file'[d] # 0 => Safe(d)'
  <2>1. ASSUME UNCHANGED <<file, images, tmp>>, NEW d \in Dests, file'[d] # 0 PROVE Safe(d)'
    <3>1. Safe(d) \/ \E p \in T!Threads : tAt[p] = "sync" /\ want[p].dest = d
      BY <2>1 DEF DestInv, Confirmed
    <3>2. ASSUME NEW p \in T!Threads, tAt[p] = "sync", want[p].dest = d PROVE d \in unsynced'
      BY <1>5, <3>2
    <3>. QED BY <1>6, <3>1, <3>2 DEF Safe
  <2>2. CASE images' = {file'}
    BY <2>2 DEF Safe
  <2>. QED BY <2>1, <2>2 DEF T!Crash
<1>. QED BY <1>1, <1>3, <1>4, <1>7, <1>8, DownInv

\* A start removes what no ticket refers to.
LEMMA OpenInv == ASSUME DestinationsAssumption, DestInv, T!Open PROVE DestInv'
<1>1. UNCHANGED <<listed, cfg, tickets, tAt, want, failed, unsynced>> /\ tUp = "down" /\ tUp' = "booting"
  BY DEF T!Open
<1>2. \A p \in T!Threads : tAt[p] = "rest"
  BY <1>1 DEF DestInv, ThreadFits
<1>3. PICK lost \in SUBSET (Dests \ tickets) :
        /\ file' = [d \in Dests |-> IF d \in lost THEN 0 ELSE file[d]]
        /\ images' = images \cup {[d \in Dests |-> IF d \in lost THEN 0 ELSE i[d]] : i \in images}
  <2>1. PICK read \in SUBSET tickets : \E lost \in SUBSET (Dests \ T!Kept(read)) :
          /\ file' = [d \in Dests |-> IF d \in lost THEN 0 ELSE file[d]]
          /\ images' = images \cup {[d \in Dests |-> IF d \in lost THEN 0 ELSE i[d]] : i \in images}
    BY DEF T!Open
  <2>2. PICK lost \in SUBSET (Dests \ T!Kept(read)) :
          /\ file' = [d \in Dests |-> IF d \in lost THEN 0 ELSE file[d]]
          /\ images' = images \cup {[d \in Dests |-> IF d \in lost THEN 0 ELSE i[d]] : i \in images}
    BY <2>1
  <2>3. lost \in SUBSET (Dests \ tickets)
    BY DEF T!Kept
  <2>. QED BY <2>2, <2>3
<1>4. lost \subseteq Dests /\ lost \cap tickets = {}
  OBVIOUS
<1>5. file \in images /\ images \subseteq Directories /\ file \in Directories
  BY DEF DestInv, DestTyped
<1>6. file' \in images' /\ images' \subseteq Directories
  BY <1>3, <1>5 DEF Directories
<1>7. ASSUME NEW d \in Dests \ lost, Safe(d) PROVE Safe(d)'
  BY <1>1, <1>3, <1>7 DEF Safe
<1>8. DestTyped'
  BY <1>1, <1>6 DEF DestInv, DestTyped
<1>9. \A d \in tickets' : Safe(d)'
  BY <1>1, <1>4, <1>7 DEF DestInv, DestTyped, TicketsSafe
<1>10. ASSUME NEW d \in Dests, file'[d] # 0 PROVE Safe(d)'
  <2>1. d \notin lost /\ file[d] # 0
    BY <1>3, <1>10
  <2>. QED BY <1>2, <1>7, <2>1 DEF DestInv, Confirmed
<1>. QED BY <1>1, <1>2, <1>8, <1>9, <1>10, DownInv

\* The first start finds no credentials and nobody to save them.
LEMMA DestInit == ASSUME DestinationsAssumption, T!Init PROVE DestInv
<1>1. cfg \in T!Config
  <2>1. PICK d, c : d \in Dests /\ c \in Creds
    BY DEF DestinationsAssumption
  <2>2. [dest |-> d, cred |-> c] \in T!Config /\ c # 0
    BY <2>1 DEF T!Config, DestinationsAssumption
  <2>. QED BY <2>2 DEF T!Init
<1>2. file = [d \in Dests |-> 0] /\ images = {file} /\ tickets = {} /\ tUp = "down" /\ listed = TRUE /\ failed = FALSE
  BY DEF T!Init
<1>3. tAt = [p \in T!Threads |-> "rest"] /\ want = [p \in T!Threads |-> T!Idle] /\ T!Idle \in Wishes
  BY DEF T!Init, T!Idle, Wishes
<1>4. DestTyped
  BY <1>1, <1>2, <1>3 DEF DestTyped, Directories, Places
<1>. QED BY <1>2, <1>3, <1>4, ThreadKinds DEF DestInv, ThreadFits, Saves, Confirmed, TicketsSafe, NewestWins

\* Every step keeps the invariant.
LEMMA DestNext == ASSUME DestinationsAssumption, DestInv, [T!Next]_stored PROVE DestInv'
<1>1. CASE UNCHANGED stored
  BY <1>1 DEF stored, DestInv, DestTyped, ThreadFits, Saves, Confirmed, TicketsSafe, Safe, NewestWins, Queued
<1>2. CASE \E p \in Savers : T!Update(p) \/ T!Refresh(p) \/ T!Add(p)
  BY <1>2, QueueInv
<1>3. CASE \E p \in T!Threads : T!Store(p)
  BY <1>3, LockInv, SaveInv, RenameInv, SyncInv DEF T!Store
<1>4. CASE T!Reserve
  BY <1>4, ReserveInv
<1>5. CASE T!Crash
  BY <1>5, CrashInv
<1>6. CASE T!Open
  BY <1>6, OpenInv
<1>7. CASE T!NewTicket \/ T!Deliver \/ T!Remove
  BY <1>7, TicketInv
<1>. QED BY <1>1, <1>2, <1>3, <1>4, <1>5, <1>6, <1>7 DEF T!Next

\* And the invariant says what is promised.
LEMMA DestSound == ASSUME DestInv PROVE T!CredentialsKept
<1>1. T!NoneStranded
  BY DEF DestInv, DestTyped, TicketsSafe, Safe, T!NoneStranded
<1>2. T!NewestCredentials
  BY DEF DestInv, NewestWins, Queued, Saves, T!NewestCredentials
<1>. QED BY <1>1, <1>2 DEF T!CredentialsKept

\* A recording keeps credentials to be uploaded with, and after a save that succeeded the

\* current ones, whatever requests, refreshes, reservations, removals, failing calls, kills,
\* power cuts and starts come in between.
THEOREM CredentialsStay == UploadsSpec => []CredentialsKept
<1> DEFINE Guarded == which = "credentials" => DestInv
<1>1. UploadsInit => Guarded
  BY DestInit, DestinationsAssumption DEF UploadsInit
<1>2. Guarded /\ [UploadsNext]_<<which, vars, stored>> => Guarded'
  <2>1. SUFFICES ASSUME Guarded, [UploadsNext]_<<which, vars, stored>>, which' = "credentials" PROVE DestInv'
    OBVIOUS
  <2>2. UNCHANGED which /\ [T!Next]_stored
    BY <2>1 DEF UploadsNext
  <2>. QED BY <2>1, <2>2, DestNext, DestinationsAssumption
<1>3. Guarded => CredentialsKept
  BY DestSound DEF CredentialsKept
<1>. QED BY <1>1, <1>2, <1>3, PTL DEF UploadsSpec
===============================================================================
