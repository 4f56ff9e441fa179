-------------------------- MODULE SettingsDumpsProofs -------------------------
(***************************************************************************)
(* Proofs about two components that keep state of their own: the           *)
(* configuration, for any number of requests, of failing saves and of      *)
(* kills, and for any names; and the audio dumps, for audio of any length  *)
(* and any times.                                                          *)
(*                                                                         *)
(* SavesInv says what the file, a power cut and memory agree on, that only *)
(* the file of an earlier release lacks prefixes, and what a request that  *)
(* is being handled may still put into the configuration or announce.      *)
(* DumpsInv says what the ring and the captures hold of the audio, that    *)
(* the captures of a trigger are apart, and that what is complete and not  *)
(* yet encoded is little enough for the ring to hold the audio it needs.   *)
(***************************************************************************)
EXTENDS MCServices, SequenceTheorems, FiniteSetTheorems, TLAPS

-------------------------------------------------------------------------------
(* The file, memory and the requests                                       *)

Prefixes == (SUBSET Tags) \X Nat
Items    == [kind : {"stream", "recorder"}, on : BOOLEAN, tag : Tags, secret : Nat, prefix : Prefixes \cup {None}]
Lists    == UNION {[I -> Items] : I \in SUBSET (0..Requests)}

Configurations == [items : Lists, secret : Nat, key : Nat, ver : Nat]

\* A request that is being handled.
Asked == [op : {"create", "update", "delete", "settings", "key"}, kind : {"stream", "recorder", None},
          id : 0..Requests \cup {None}, tag : Tags \cup {None}, on : BOOLEAN, secret : Nat,
          pc : {"stop", "apply", "runtime", "answer", "delay", "start", "restart"},
          item : Items \cup {None}, ver : Nat, res : {"none", "ok", "failed", "committed"}]

\* What may be in the file now or after a power cut is in `durable'.
SavesTyped ==
  /\ mem \in Configurations /\ durable \subseteq Configurations /\ file \in durable
  /\ req \in [Handlers -> Asked \cup {S!Idle}]
  /\ up \in BOOLEAN /\ serial \in 0..Requests /\ acked \in Nat
  /\ prefixes \in [0..Requests -> SUBSET Prefixes]

\* The configuration of an earlier release, and the prefix its recorder gets.
OldItem    == [kind |-> "recorder", on |-> TRUE, tag |-> CHOOSE t \in Alike : TRUE, secret |-> 0, prefix |-> None]
OldFile    == [items |-> [i \in {0} |-> OldItem], secret |-> 0, key |-> 0, ver |-> 0]
FirstPrefix == S!FirstFree(OldItem.tag, {})

\* The recorders of f have prefixes, each its own, and have had no other.
Named(f)    == \A i \in S!Recorders(f.items) : f.items[i].prefix # None
Distinct(f) == \A i, j \in S!Recorders(f.items) : i # j => f.items[i].prefix # f.items[j].prefix
Settled(f)  == \A i \in S!Recorders(f.items) : prefixes[i] = {f.items[i].prefix}
Fits(f)     == Named(f) /\ Distinct(f) /\ Settled(f)

\* Nothing is kept without its prefixes but the old file, whose recorder gets the same
\* prefix again.
FilesFit ==
  /\ \A f \in durable : f = OldFile \/ Fits(f)
  /\ prefixes[0] \subseteq {FirstPrefix}
  /\ \A i \in 0..Requests : \A x, y \in prefixes[i] : x = y

\* What runs was loaded or saved; without a process no request is handled.
MemoryFits ==
  IF up THEN Fits(mem) /\ mem = [file EXCEPT !.items = S!Assigned(file.items)]
        ELSE \A r \in Handlers : req[r] = S!Idle

\* An ID nothing has had.
Unused(i) == i # 0 /\ prefixes[i] = {} /\ \A f \in durable \cup {mem} : i \notin DOMAIN f.items

\* A request that will put an item into the configuration: no other request is about to
\* create that one, and it is of the kind the request is for.  Only streams that are deleted
\* are stopped first.
Puts(r) == req[r].pc = "apply" /\ req[r].op \in {"create", "update"}
PutFits(r) ==
  /\ req[r].id \in 0..serial /\ req[r].tag \in Tags /\ req[r].kind \in {"stream", "recorder"}
  /\ req[r].op = "create" => Unused(req[r].id)
  /\ req[r].id \in DOMAIN mem.items => mem.items[req[r].id].kind = req[r].kind
  /\ \A q \in Handlers \ {r} :
       Puts(q) /\ req[q].id = req[r].id => req[q].kind = req[r].kind /\ req[q].op # "create"
RequestsFit ==
  /\ \A i \in (serial + 1)..Requests : Unused(i)
  /\ \A r \in Handlers : (Puts(r) => PutFits(r)) /\ (req[r].pc = "stop" => req[r].op = "delete")

\* A request whose change is made and whose answer is to come.
Done(r) == req[r].pc \in {"runtime", "start", "answer"}
VersionsFit ==
  \A f \in durable :
    f.ver >= acked /\ \A r \in Handlers : Done(r) /\ req[r].res = "ok" => f.ver >= req[r].ver
ClientsFit == up => sTold = mem.ver \/ \E r \in Handlers : Done(r) /\ S!Announces(req[r])

SavesInv == SavesTyped /\ FilesFit /\ MemoryFits /\ RequestsFit /\ VersionsFit /\ ClientsFit


-------------------------------------------------------------------------------
(* Prefixes                                                                *)

\* Among finitely many numbers that are taken there is a first gap, and it is not further
\* than their number.
LEMMA FirstGap ==
  ASSUME NEW taken, taken \subseteq Nat, IsFiniteSet(taken)
  PROVE  \E n \in 1..(Cardinality(taken) + 1) : n \notin taken /\ 1..(n - 1) \subseteq taken
<1> DEFINE places == 1..(Cardinality(taken) + 1)
<1>1. Cardinality(taken) \in Nat
  BY FS_CardinalityType
<1>2. IsFiniteSet(places) /\ Cardinality(places) = Cardinality(taken) + 1
  BY <1>1, FS_Interval
<1>3. places \ taken # {}
  <2>1. SUFFICES ASSUME places \subseteq taken PROVE FALSE
    OBVIOUS
  <2>2. Cardinality(places) <= Cardinality(taken)
    BY <2>1, FS_Subset
  <2>. QED BY <1>1, <1>2, <2>2
<1>4. places \ taken \subseteq Nat
  BY <1>1
<1>5. PICK n \in places \ taken : \A m \in places \ taken : <<m, n>> \notin OpToRel(<, Nat)
  <2>. HIDE DEF places
  <2>. QED BY <1>3, <1>4, NatLessThanWellFounded, WFMin
<1>6. \A m \in places \ taken : ~(m < n)
  BY <1>4, <1>5 DEF OpToRel
<1>7. 1..(n - 1) \subseteq taken
  BY <1>1, <1>6
<1>. QED BY <1>5, <1>7

LEMMA SameCardinality == ASSUME NEW s PROVE S!Cardinality(s) = Cardinality(s)
BY Zenon DEF S!Cardinality, Cardinality

\* The first free prefix is a prefix.
LEMMA FreePrefix ==
  ASSUME SettingsAssumption, NEW tag \in Tags, NEW used, used \subseteq Prefixes, IsFiniteSet(used)
  PROVE  S!FirstFree(tag, used) \in Prefixes
<1> DEFINE base  == IF tag \in Alike THEN Alike ELSE {tag}
           of    == {q \in used : q[1] = base}
           taken == {p[2] : p \in of}
           f     == [p \in of |-> p[2]]
<1>1. IsFiniteSet(of)
  BY FS_Subset
<1>2. f \in Surjection(of, taken)
  BY DEF Surjection
<1>3. IsFiniteSet(taken)
  BY <1>1, <1>2, FS_Surjection
<1>4. taken \subseteq Nat
  BY DEF Prefixes
<1>5. Cardinality(taken) \in Nat
  BY <1>3, FS_CardinalityType
<1>6. \E n \in 1..(Cardinality(taken) + 1) : n \notin taken /\ 1..(n - 1) \subseteq taken
  BY <1>3, <1>4, FirstGap
<1> DEFINE n == CHOOSE n \in 1..(S!Cardinality(taken) + 1) : n \notin taken /\ 1..(n - 1) \subseteq taken
<1>7. n \in 1..(Cardinality(taken) + 1)
  BY <1>6, SameCardinality
<1>8. n \in Nat
  BY <1>5, <1>7
<1>9. base \in SUBSET Tags
  BY DEF SettingsAssumption
<1>10. S!FirstFree(tag, used) = <<base, n>>
  BY DEF S!FirstFree
<1> HIDE DEF n, base
<1>. QED BY <1>8, <1>9, <1>10 DEF Prefixes

\* The lists of items.
LEMMA ListParts ==
  ASSUME NEW items \in Lists
  PROVE  /\ DOMAIN items \subseteq 0..Requests
         /\ \A i \in DOMAIN items : items[i] \in Items
         /\ items = [i \in DOMAIN items |-> items[i]]
BY DEF Lists

PutTo(all, items, id, x) ==
  /\ all \in Lists /\ DOMAIN all = DOMAIN items \cup {id}
  /\ \A i \in DOMAIN items \cup {id} : all[i] = IF i = id THEN x ELSE items[i]
LEMMA PutItem ==
  ASSUME NEW items \in Lists, NEW id \in 0..Requests, NEW x \in Items
  PROVE  PutTo(S!Put(items, id, x), items, id, x)
<1> DEFINE all == S!Put(items, id, x)
<1>1. DOMAIN items \cup {id} \in SUBSET (0..Requests)
  BY ListParts
<1>2. \A i \in DOMAIN items \cup {id} : (IF i = id THEN x ELSE items[i]) \in Items
  BY ListParts
<1>3. all \in [DOMAIN items \cup {id} -> Items]
  BY <1>2 DEF S!Put
<1>4. all \in Lists
  BY <1>1, <1>3 DEF Lists
<1>. QED BY <1>4 DEF PutTo, S!Put

DroppedFrom(all, items, id) ==
  /\ all \in Lists /\ DOMAIN all = DOMAIN items \ {id}
  /\ \A i \in DOMAIN items \ {id} : all[i] = items[i]
LEMMA DropItem ==
  ASSUME NEW items \in Lists, NEW id PROVE DroppedFrom(S!Drop(items, id), items, id)
<1> DEFINE all == S!Drop(items, id)
<1>1. DOMAIN items \ {id} \in SUBSET (0..Requests)
  BY ListParts
<1>2. all \in [DOMAIN items \ {id} -> Items]
  BY ListParts DEF S!Drop
<1>3. all \in Lists
  BY <1>1, <1>2 DEF Lists
<1>. QED BY <1>3 DEF DroppedFrom, S!Drop

\* The prefixes of a list.
LEMMA UsedPrefixes ==
  ASSUME SettingsAssumption, NEW items \in Lists
  PROVE  S!PrefixesOf(items) \subseteq Prefixes /\ IsFiniteSet(S!PrefixesOf(items))
<1> DEFINE named == {i \in S!Recorders(items) : items[i].prefix # None}
           f     == [i \in named |-> items[i].prefix]
<1>1. IsFiniteSet(0..Requests)
  BY FS_Interval DEF SettingsAssumption
<1>2. named \subseteq 0..Requests
  BY ListParts DEF S!Recorders
<1>3. IsFiniteSet(named)
  BY <1>1, <1>2, FS_Subset
<1>4. f \in Surjection(named, S!PrefixesOf(items))
  BY DEF Surjection, S!PrefixesOf
<1>5. S!PrefixesOf(items) \subseteq Prefixes
  BY ListParts DEF S!PrefixesOf, S!Recorders, Items
<1>. QED BY <1>3, <1>4, <1>5, FS_Surjection

\* Validation gives each recorder a prefix and changes nothing else.
LEMMA AssignedItems ==
  ASSUME SettingsAssumption, NEW items \in Lists
  PROVE  /\ S!Assigned(items) \in Lists
         /\ DOMAIN S!Assigned(items) = DOMAIN items
         /\ \A i \in DOMAIN items :
              /\ S!Assigned(items)[i].kind = items[i].kind
              /\ items[i].kind = "recorder" => S!Assigned(items)[i].prefix \in Prefixes
              /\ items[i].prefix # None \/ items[i].kind = "stream" => S!Assigned(items)[i] = items[i]
<1> DEFINE new(i) == IF items[i].kind = "recorder" /\ items[i].prefix = None
                     THEN [items[i] EXCEPT !.prefix = S!FirstFree(items[i].tag, S!PrefixesOf(items))]
                     ELSE items[i]
<1>1. ASSUME NEW i \in DOMAIN items
      PROVE  /\ new(i) \in Items /\ new(i).kind = items[i].kind
             /\ items[i].kind = "recorder" => new(i).prefix \in Prefixes
             /\ items[i].prefix # None \/ items[i].kind = "stream" => new(i) = items[i]
  <2>1. items[i] \in Items
    BY ListParts
  <2>2. S!FirstFree(items[i].tag, S!PrefixesOf(items)) \in Prefixes
    BY <2>1, FreePrefix, UsedPrefixes DEF Items
  <2>. QED BY <2>1, <2>2 DEF Items
<1>2. S!Assigned(items) = [i \in DOMAIN items |-> new(i)]
  BY DEF S!Assigned
<1>3. S!Assigned(items) \in [DOMAIN items -> Items]
  BY <1>1, <1>2
<1>4. DOMAIN items \in SUBSET (0..Requests)
  BY ListParts
<1>5. S!Assigned(items) \in Lists
  BY <1>3, <1>4 DEF Lists
<1> HIDE DEF new
<1>. QED BY <1>1, <1>2, <1>5

\* A list in which every recorder has a prefix stays as it is.
LEMMA AssignedNamed ==
  ASSUME NEW items \in Lists, \A i \in S!Recorders(items) : items[i].prefix # None
  PROVE  S!Assigned(items) = items
<1>1. S!Assigned(items) = [i \in DOMAIN items |-> items[i]]
  BY DEF S!Assigned, S!Recorders
<1>. QED BY <1>1, ListParts

\* The recorder of the old file gets its first prefix.
LEMMA OldAssigned ==
  ASSUME SettingsAssumption
  PROVE  /\ OldFile \in Configurations /\ FirstPrefix \in Prefixes
         /\ S!Recorders(S!Assigned(OldFile.items)) = {0} /\ S!Assigned(OldFile.items)[0].prefix = FirstPrefix
<1>1. OldItem.tag \in Tags /\ OldItem \in Items
  BY DEF OldItem, Items, SettingsAssumption
<1>2. FirstPrefix \in Prefixes
  BY <1>1, FreePrefix, FS_EmptySet DEF FirstPrefix
<1>3. OldFile.items \in [{0} -> Items] /\ {0} \subseteq 0..Requests
  BY <1>1 DEF OldFile, SettingsAssumption
<1>4. OldFile.items \in Lists
  BY <1>3 DEF Lists
<1>5. OldFile \in Configurations
  BY <1>4 DEF OldFile, Configurations
<1>6. S!PrefixesOf(OldFile.items) = {}
  BY DEF S!PrefixesOf, S!Recorders, OldFile, OldItem
<1>7. DOMAIN OldFile.items = {0} /\ OldFile.items[0] = OldItem
  BY DEF OldFile
<1>8. OldItem.kind = "recorder" /\ OldItem.prefix = None
  BY DEF OldItem
<1>9. S!Assigned(OldFile.items) = [i \in {0} |-> [OldItem EXCEPT !.prefix = FirstPrefix]]
  BY <1>6, <1>7, <1>8 DEF S!Assigned, FirstPrefix
<1>. QED BY <1>2, <1>5, <1>9 DEF S!Recorders, OldItem


-------------------------------------------------------------------------------
(* Requests                                                                *)

\* The prefixes a recorder has had, and the one it has.
LEMMA SeenPrefixes ==
  ASSUME NEW items, NEW i \in DOMAIN prefixes
  PROVE  /\ i \in S!Recorders(items) => S!Seen(prefixes, items)[i] = prefixes[i] \cup {items[i].prefix}
         /\ i \notin S!Recorders(items) => S!Seen(prefixes, items)[i] = prefixes[i]
<1>1. S!Seen(prefixes, items)[i] = prefixes[i] \cup {items[j].prefix : j \in S!Recorders(items) \cap {i}}
  BY DEF S!Seen
<1>. QED BY <1>1

\* A configuration whose prefixes are known already changes nothing about them.
LEMMA NothingSeen ==
  ASSUME SavesTyped, NEW f \in Configurations, Settled(f)
  PROVE  S!Seen(prefixes, f.items) = prefixes
<1>1. \A i \in 0..Requests : S!Seen(prefixes, f.items)[i] = prefixes[i]
  BY SeenPrefixes DEF SavesTyped, Settled
<1>2. S!Seen(prefixes, f.items) = [i \in 0..Requests |-> S!Seen(prefixes, f.items)[i]]
  BY DEF S!Seen, SavesTyped
<1>. QED BY <1>1, <1>2 DEF SavesTyped

LEMMA LaterIDs ==
  ASSUME NEW m \in Nat, NEW n \in Nat, NEW k \in Nat, n >= m PROVE (n + 1)..k \subseteq (m + 1)..k
OBVIOUS

\* A request moves on and the configuration stays.  If it is about to put an item there,
\* the ID is the next one, or that of an item there is.
LEMMA RequestMoves ==
  ASSUME SettingsAssumption, SavesInv, up, NEW r \in Handlers, NEW q \in Asked \cup {S!Idle}, req' = [req EXCEPT ![r] = q],
         UNCHANGED <<mem, file, durable, up, prefixes>>, q.pc = "stop" => q.op = "delete",
         serial' \in 0..Requests, serial' >= serial, acked' \in Nat,
         q.pc = "apply" /\ q.op \in {"create", "update"} =>
           /\ q.tag \in Tags /\ q.kind \in {"stream", "recorder"}
           /\ IF q.op = "create" THEN q.id = serial + 1 /\ q.id = serial'
                                 ELSE q.id \in DOMAIN mem.items /\ q.id \in 0..serial /\ q.kind = mem.items[q.id].kind
  PROVE  SavesTyped' /\ FilesFit' /\ MemoryFits' /\ RequestsFit'
<1>1. SavesTyped /\ FilesFit /\ MemoryFits /\ RequestsFit
  BY DEF SavesInv
<1>2. req'[r] = q /\ (\A h \in Handlers \ {r} : req'[h] = req[h]) /\ req' \in [Handlers -> Asked \cup {S!Idle}]
  BY <1>1 DEF SavesTyped
<1>3. SavesTyped'
  BY <1>1, <1>2 DEF SavesTyped
<1>4. FilesFit'
  BY <1>1 DEF FilesFit, Fits, Named, Distinct, Settled
<1>5. MemoryFits'
  BY <1>1 DEF MemoryFits, Fits, Named, Distinct, Settled
<1>6. \A i : Unused(i)' <=> Unused(i)
  BY DEF Unused
<1>7. serial \in Nat
  BY <1>1 DEF SavesTyped
<1>8. ASSUME Puts(r)' PROVE PutFits(r)'
  <2>1. /\ q.pc = "apply" /\ q.op \in {"create", "update"} /\ q.tag \in Tags /\ q.kind \in {"stream", "recorder"}
        /\ IF q.op = "create" THEN q.id = serial + 1 /\ q.id = serial'
                              ELSE q.id \in DOMAIN mem.items /\ q.id \in 0..serial /\ q.kind = mem.items[q.id].kind
    BY <1>2, <1>8 DEF Puts
  <2>2. CASE q.op = "create"
    <3>1. Unused(q.id) /\ q.id \in 0..serial'
      BY <1>1, <1>7, <2>1, <2>2 DEF RequestsFit
    <3>2. \A h \in Handlers \ {r} : Puts(h)' => req[h].id # q.id
      BY <1>1, <1>2, <1>7, <2>1, <2>2 DEF RequestsFit, Puts, PutFits
    <3>. QED BY <1>2, <1>6, <2>1, <3>1, <3>2 DEF PutFits, Unused
  <2>3. CASE q.op = "update"
    <3>1. q.id \in 0..serial'
      BY <1>7, <2>1, <2>3
    <3>2. \A h \in Handlers \ {r} : Puts(h) /\ req[h].id = q.id => req[h].kind = q.kind /\ req[h].op # "create"
      BY <1>1, <2>1, <2>3 DEF RequestsFit, PutFits, Unused
    <3>3. \A h \in Handlers \ {r} : Puts(h)' <=> Puts(h)
      BY <1>2 DEF Puts
    <3>. QED BY <1>2, <2>1, <2>3, <3>1, <3>2, <3>3 DEF PutFits
  <2>. QED BY <2>1, <2>2, <2>3
<1>9. ASSUME NEW h \in Handlers \ {r}, Puts(h)' PROVE PutFits(h)'
  <2>1. Puts(h) /\ PutFits(h) /\ req'[h] = req[h]
    BY <1>1, <1>2, <1>9 DEF Puts, RequestsFit
  <2>2. req[h].id \in 0..serial'
    BY <1>7, <2>1 DEF PutFits
  <2>3. ASSUME Puts(r)', q.id = req[h].id PROVE q.kind = req[h].kind /\ q.op # "create"
    BY <1>2, <1>7, <2>1, <2>3 DEF PutFits, Puts, Unused
  <2>4. \A k \in Handlers \ {h} :
          Puts(k)' /\ req'[k].id = req[h].id => req'[k].kind = req[h].kind /\ req'[k].op # "create"
    BY <1>2, <2>1, <2>3 DEF PutFits, Puts
  <2>. QED BY <1>6, <2>1, <2>2, <2>4 DEF PutFits
<1>10. (serial' + 1)..Requests \subseteq (serial + 1)..Requests
  <2>1. serial' \in 0..Requests /\ serial' >= serial /\ Requests \in Nat
    BY DEF SettingsAssumption
  <2>2. serial' \in Nat
    BY ONLY <2>1
  <2>. QED BY ONLY <1>7, <2>1, <2>2, LaterIDs
<1>11. \A i \in (serial' + 1)..Requests : Unused(i)'
  BY <1>1, <1>6, <1>10 DEF RequestsFit
<1>13. \A h \in Handlers : req'[h].pc = "stop" => req'[h].op = "delete"
  BY <1>1, <1>2 DEF RequestsFit
<1>12. RequestsFit'
  BY <1>8, <1>9, <1>11, <1>13 DEF RequestsFit
<1>. QED BY <1>3, <1>4, <1>5, <1>12

\* ... and what it has changed stays confirmed, and will be announced.
LEMMA RequestWaits ==
  ASSUME SettingsAssumption, SavesInv, up, NEW r \in Handlers, NEW q \in Asked \cup {S!Idle}, req' = [req EXCEPT ![r] = q],
         UNCHANGED <<mem, file, durable, up, prefixes, acked, sTold>>, q.pc = "stop" => q.op = "delete",
         serial' \in 0..Requests, serial' >= serial,
         q.pc = "apply" /\ q.op \in {"create", "update"} =>
           /\ q.tag \in Tags /\ q.kind \in {"stream", "recorder"}
           /\ IF q.op = "create" THEN q.id = serial + 1 /\ q.id = serial'
                                 ELSE q.id \in DOMAIN mem.items /\ q.id \in 0..serial /\ q.kind = mem.items[q.id].kind,
         q.pc \in {"runtime", "start", "answer"} /\ q.res = "ok" =>
           Done(r) /\ req[r].res = "ok" /\ q.ver = req[r].ver,
         Done(r) /\ S!Announces(req[r]) => q.pc \in {"runtime", "start", "answer"} /\ S!Announces(q)
  PROVE  SavesInv'
<1>1. acked \in Nat /\ req'[r] = q /\ (\A h \in Handlers \ {r} : req'[h] = req[h])
  BY DEF SavesInv, SavesTyped
<1>2. SavesTyped' /\ FilesFit' /\ MemoryFits' /\ RequestsFit'
  BY <1>1, RequestMoves
<1>3. \A h \in Handlers : Done(h)' /\ req'[h].res = "ok" => Done(h) /\ req[h].res = "ok" /\ req'[h].ver = req[h].ver
  BY <1>1 DEF Done
<1>4. VersionsFit'
  BY <1>3 DEF SavesInv, VersionsFit
<1>5. \A h \in Handlers : Done(h) /\ S!Announces(req[h]) => Done(h)' /\ S!Announces(req'[h])
  BY <1>1 DEF Done
<1>6. ClientsFit'
  BY <1>5 DEF SavesInv, ClientsFit
<1>. QED BY <1>2, <1>4, <1>6 DEF SavesInv

-------------------------------------------------------------------------------
(* Changes                                                                 *)

\* What a change does: it is refused or fails before the rename, or it is made and
\* confirmed, or made only.
LEMMA ChangeEffect ==
  ASSUME SavesTyped, NEW r \in Handlers, req[r] \in Asked, NEW new \in Configurations, S!Change(r, new)
  PROVE  \E q \in Asked :
           /\ req' = [req EXCEPT ![r] = q] /\ q.pc \in {"runtime", "answer"} /\ q.ver = new.ver
           /\ prefixes' = S!Seen(prefixes, mem'.items)
           /\ \/ q.res = "failed" /\ UNCHANGED <<mem, file, durable>>
              \/ /\ q.res \in {"ok", "committed"} /\ S!Valid(new.items) /\ mem' = new /\ file' = new
                 /\ durable' = IF q.res = "ok" THEN {new} ELSE durable \cup {new}
<1> DEFINE known == CASE req[r].kind = "recorder" -> {"ok", "committed"}
                      [] req[r].kind = "stream" /\ req[r].op # "delete" -> {"ok"} [] OTHER -> {}
           q(res) == [req[r] EXCEPT !.pc = IF res \in known THEN "runtime" ELSE "answer", !.res = res, !.ver = new.ver,
                                    !.item = IF req[r].id \in DOMAIN new.items THEN new.items[req[r].id] ELSE None]
<1>1. PICK res \in IF S!Valid(new.items) THEN S!Outcomes ELSE {"failed"} :
        /\ mem' = S!Restored(new, res)
        /\ IF S!Valid(new.items)
           THEN S!Renamed(new, res) /\ S!CountFault(res)
           ELSE UNCHANGED <<file, durable, faults>>
        /\ prefixes' = S!Seen(prefixes, mem'.items)
        /\ req' = [req EXCEPT ![r] = q(res)]
  BY DEF S!Change
<1>2. res \in {"ok", "failed", "committed"}
  BY <1>1 DEF S!Outcomes
<1>3. new.items \in Lists /\ new.ver \in Nat
  BY DEF Configurations
<1>4. (IF req[r].id \in DOMAIN new.items THEN new.items[req[r].id] ELSE None) \in Items \cup {None}
  BY <1>3, ListParts
<1>5. q(res) \in Asked /\ q(res).pc \in {"runtime", "answer"} /\ q(res).ver = new.ver /\ q(res).res = res
  <2> DEFINE p == IF res \in known THEN "runtime" ELSE "answer"
             x == IF req[r].id \in DOMAIN new.items THEN new.items[req[r].id] ELSE None
  <2>1. p \in {"runtime", "answer"} /\ x \in Items \cup {None}
    BY <1>4
  <2>2. q(res) = [req[r] EXCEPT !.pc = p, !.res = res, !.ver = new.ver, !.item = x]
    OBVIOUS
  <2> HIDE DEF p, x, q
  <2>. QED BY ONLY ZenonT(60), req[r] \in Asked, <1>2, <1>3, <2>1, <2>2 DEF Asked
<1>6. \/ res = "failed" /\ UNCHANGED <<mem, file, durable>>
      \/ /\ res \in {"ok", "committed"} /\ S!Valid(new.items) /\ mem' = new /\ file' = new
         /\ durable' = IF res = "ok" THEN {new} ELSE durable \cup {new}
  BY <1>1, <1>2 DEF S!Restored, S!Renamed
<1> HIDE DEF q
<1>. QED BY <1>1, <1>5, <1>6

\* The recorders of a valid list have different prefixes.
LEMMA ValidDistinct ==
  ASSUME NEW f, S!Valid(f.items) PROVE Distinct(f)
BY DEF S!Valid, Distinct, S!Recorders


\* Where the items of a change come from: they were there before, with their prefix, or
\* the request creates them.
Creates(r, i) == Puts(r) /\ req[r].op = "create" /\ i = req[r].id
Comes(r, items) ==
  \A i \in DOMAIN items :
    \/ /\ i \in DOMAIN mem.items /\ items[i].kind = mem.items[i].kind
       /\ items[i].kind = "recorder" => items[i].prefix = mem.items[i].prefix
    \/ Creates(r, i) /\ items[i].kind = req[r].kind

\* Only a recorder that is created gets a prefix.
LEMMA MadePrefixes ==
  ASSUME SettingsAssumption, SavesInv, up, NEW r \in Handlers, NEW new \in Configurations, Named(new),
         Comes(r, new.items), prefixes' = S!Seen(prefixes, new.items)
  PROVE  /\ prefixes' \in [0..Requests -> SUBSET Prefixes]
         /\ \A i \in 0..Requests : prefixes'[i] = prefixes[i] \/ (prefixes[i] = {} /\ Creates(r, i))
         /\ \A i \in S!Recorders(new.items) : prefixes'[i] = {new.items[i].prefix}
<1>1. SavesTyped /\ Settled(mem) /\ RequestsFit
  BY DEF SavesInv, MemoryFits, Fits
<1>2. prefixes \in [0..Requests -> SUBSET Prefixes] /\ DOMAIN prefixes = 0..Requests
  BY <1>1 DEF SavesTyped
<1>3. new.items \in Lists /\ S!Recorders(new.items) \subseteq 0..Requests
  BY ListParts DEF Configurations, S!Recorders
<1>4. \A i \in S!Recorders(new.items) : new.items[i].prefix \in Prefixes
  BY <1>3, ListParts DEF Named, S!Recorders, Items
<1>5. \A i \in 0..Requests : /\ i \in S!Recorders(new.items) => prefixes'[i] = prefixes[i] \cup {new.items[i].prefix}
                             /\ i \notin S!Recorders(new.items) => prefixes'[i] = prefixes[i]
  BY <1>2, SeenPrefixes
<1>6. ASSUME NEW i \in S!Recorders(new.items)
      PROVE  prefixes[i] = {new.items[i].prefix} \/ (prefixes[i] = {} /\ Creates(r, i))
  <2>1. CASE i \in DOMAIN mem.items /\ new.items[i].kind = mem.items[i].kind /\ new.items[i].prefix = mem.items[i].prefix
    <3>1. new.items[i].kind = "recorder"
      BY DEF S!Recorders
    <3>2. i \in S!Recorders(mem.items)
      BY <2>1, <3>1 DEF S!Recorders
    <3>. QED BY <1>1, <2>1, <3>2 DEF Settled
  <2>2. CASE Creates(r, i)
    BY <1>1, <2>2 DEF RequestsFit, Creates, PutFits, Unused
  <2>. QED BY <2>1, <2>2 DEF Comes, S!Recorders
<1>7. DOMAIN prefixes' = 0..Requests /\ prefixes' = [i \in 0..Requests |-> prefixes'[i]]
  BY <1>2 DEF S!Seen
<1>8. \A i \in 0..Requests : prefixes'[i] \in SUBSET Prefixes
  BY <1>2, <1>4, <1>5
<1>9. prefixes' \in [0..Requests -> SUBSET Prefixes]
  BY <1>7, <1>8
<1>10. \A i \in 0..Requests : prefixes'[i] = prefixes[i] \/ (prefixes[i] = {} /\ Creates(r, i))
  BY <1>5, <1>6
<1>11. \A i \in S!Recorders(new.items) : prefixes'[i] = {new.items[i].prefix}
  BY <1>3, <1>5, <1>6
<1>. QED BY <1>9, <1>10, <1>11

\* A change that is made, confirmed or not.
LEMMA MadeSaves ==
  ASSUME SettingsAssumption, SavesInv, up, NEW r \in Handlers, req[r].pc = "apply",
         NEW new \in Configurations, Named(new), Comes(r, new.items), S!Valid(new.items), new.ver = mem.ver + 1,
         prefixes' = S!Seen(prefixes, new.items), mem' = new, file' = new,
         UNCHANGED <<up, sTold, serial, acked>>,
         NEW q \in Asked, req' = [req EXCEPT ![r] = q], q.pc \in {"runtime", "answer"}, q.ver = new.ver,
         q.res \in {"ok", "committed"}, durable' = IF q.res = "ok" THEN {new} ELSE durable \cup {new}
  PROVE  SavesInv'
<1>1. SavesTyped /\ FilesFit /\ Fits(mem) /\ RequestsFit /\ VersionsFit
  BY DEF SavesInv, MemoryFits
<1>2. req'[r] = q /\ (\A h \in Handlers \ {r} : req'[h] = req[h]) /\ req' \in [Handlers -> Asked \cup {S!Idle}]
  BY <1>1 DEF SavesTyped
<1>3. /\ prefixes' \in [0..Requests -> SUBSET Prefixes]
      /\ \A i \in 0..Requests : prefixes'[i] = prefixes[i] \/ (prefixes[i] = {} /\ Creates(r, i))
      /\ \A i \in S!Recorders(new.items) : prefixes'[i] = {new.items[i].prefix}
  BY MadePrefixes
<1>4. new \in durable' /\ durable' \subseteq durable \cup {new}
  OBVIOUS
<1>5. SavesTyped'
  BY <1>1, <1>2, <1>3, <1>4 DEF SavesTyped
<1>6. Fits(new)'
  <2>1. Named(new)' /\ Distinct(new)'
    BY ValidDistinct DEF Named, Distinct
  <2>2. Settled(new)'
    BY <1>3 DEF Settled
  <2>. QED BY <2>1, <2>2 DEF Fits
<1>7. FilesFit'
  <2>1. ASSUME NEW f \in durable, f # OldFile PROVE Fits(f)'
    <3>1. Named(f) /\ Distinct(f) /\ Settled(f)
      BY <1>1, <2>1 DEF FilesFit, Fits
    <3>2. S!Recorders(f.items) \subseteq 0..Requests
      BY <1>1, ListParts DEF SavesTyped, Configurations, S!Recorders
    <3>3. Settled(f)'
      BY <1>3, <3>1, <3>2 DEF Settled
    <3>. QED BY <3>1, <3>3 DEF Fits, Named, Distinct
  <2>2. prefixes'[0] \subseteq {FirstPrefix}
    <3>1. 0 \in 0..Requests
      BY DEF SettingsAssumption
    <3>2. ~Creates(r, 0)
      BY <1>1 DEF RequestsFit, Creates, PutFits, Unused
    <3>. QED BY <1>1, <1>3, <3>1, <3>2 DEF FilesFit
  <2>3. ASSUME NEW i \in 0..Requests, NEW x \in prefixes'[i], NEW y \in prefixes'[i] PROVE x = y
    <3>1. CASE i \in S!Recorders(new.items)
      BY <1>3, <2>3, <3>1
    <3>2. CASE i \notin S!Recorders(new.items)
      BY <1>1, <2>3, <3>2, SeenPrefixes DEF FilesFit, SavesTyped
    <3>. QED BY <3>1, <3>2
  <2>. QED BY <1>4, <1>6, <2>1, <2>2, <2>3 DEF FilesFit, FirstPrefix, OldItem, OldFile
<1>8. MemoryFits'
  <2>1. S!Assigned(new.items) = new.items
    BY AssignedNamed DEF Named, Configurations
  <2>2. [new EXCEPT !.items = new.items] = new
    BY DEF Configurations
  <2>. QED BY <1>6, <2>1, <2>2 DEF MemoryFits, Fits, Named, Distinct, Settled
<1>9. ASSUME NEW i \in 0..Requests, Unused(i), ~Creates(r, i) PROVE Unused(i)'
  <2>1. prefixes'[i] = {} /\ i \notin DOMAIN new.items
    BY <1>3, <1>9 DEF Unused, Comes
  <2>. QED BY <1>4, <1>9, <2>1 DEF Unused
<1>10. RequestsFit'
  <2>1. ASSUME NEW i \in (serial + 1)..Requests PROVE Unused(i)'
    <3>1. i \in 0..Requests /\ i \notin 0..serial
      BY <1>1 DEF SavesTyped, SettingsAssumption
    <3>2. Unused(i) /\ ~Creates(r, i)
      BY <1>1, <3>1 DEF RequestsFit, Creates, PutFits
    <3>. QED BY <1>9, <3>1, <3>2
  <2>2. ASSUME NEW h \in Handlers, Puts(h)' PROVE PutFits(h)'
    <3>1. h # r /\ req'[h] = req[h] /\ Puts(h) /\ PutFits(h)
      BY <1>1, <1>2, <2>2 DEF Puts, RequestsFit
    <3>2. req[h].id \in 0..Requests
      BY <1>1, <3>1 DEF PutFits, SavesTyped, SettingsAssumption
    <3>3. Creates(r, req[h].id) => req[h].kind = req[r].kind /\ req[h].op # "create"
      BY <1>1, <3>1 DEF Creates, RequestsFit, PutFits
    <3>4. req[h].op = "create" => Unused(req[h].id)'
      BY <1>9, <3>1, <3>2, <3>3 DEF PutFits
    <3>5. req[h].id \in DOMAIN new.items => new.items[req[h].id].kind = req[h].kind
      BY <3>1, <3>3 DEF PutFits, Comes
    <3>6. \A k \in Handlers \ {h} : Puts(k)' => k # r /\ Puts(k) /\ req'[k] = req[k]
      BY <1>2 DEF Puts
    <3>. QED BY <3>1, <3>4, <3>5, <3>6 DEF PutFits
  <2>3. \A h \in Handlers : req'[h].pc = "stop" => req'[h].op = "delete"
    BY <1>1, <1>2 DEF RequestsFit
  <2>. QED BY <2>1, <2>2, <2>3 DEF RequestsFit
<1>11. VersionsFit'
  <2>1. /\ mem.ver = file.ver /\ file \in durable /\ acked \in Nat /\ mem.ver \in Nat
        /\ \A f \in durable : f.ver \in Nat
        /\ \A h \in Handlers : req[h] \in Asked => req[h].ver \in Nat
    BY <1>1 DEF SavesInv, MemoryFits, SavesTyped, Configurations, Asked
  <2>2. new.ver >= acked
    BY <1>1, <2>1 DEF VersionsFit
  <2>3. ASSUME NEW h \in Handlers, Done(h), req[h].res = "ok" PROVE new.ver >= req[h].ver
    <3>1. req[h] \in Asked
      BY <1>1, <2>3 DEF SavesTyped, Done, S!Idle
    <3>. QED BY <1>1, <2>1, <2>3, <3>1 DEF VersionsFit
  <2>4. ASSUME NEW f \in durable', NEW h \in Handlers, Done(h)', req'[h].res = "ok" PROVE f.ver >= req'[h].ver
    <3>1. CASE h = r
      <4>1. f = new /\ req'[h].ver = new.ver
        BY <1>2, <2>4, <3>1
      <4>. QED BY <2>1, <4>1
    <3>2. CASE h # r
      <4>1. req'[h] = req[h] /\ Done(h)
        BY <1>2, <2>4, <3>2 DEF Done
      <4>. QED BY <1>1, <1>4, <2>3, <2>4, <4>1 DEF VersionsFit
    <3>. QED BY <3>1, <3>2
  <2>. QED BY <1>1, <1>4, <2>2, <2>4 DEF VersionsFit
<1>12. ClientsFit'
  <2>1. Done(r)' /\ S!Announces(req'[r])
    BY <1>2 DEF Done, S!Announces
  <2>. QED BY <2>1 DEF ClientsFit
<1>. QED BY <1>5, <1>7, <1>8, <1>10, <1>11, <1>12 DEF SavesInv

\* Whichever way a change ends.
LEMMA ChangeSaves ==
  ASSUME SettingsAssumption, SavesInv, up, NEW r \in Handlers, req[r].pc = "apply",
         NEW new \in Configurations, Named(new), Comes(r, new.items), new.ver = mem.ver + 1,
         S!Change(r, new), UNCHANGED <<up, sTold, serial, acked>>
  PROVE  SavesInv'
<1>1. SavesTyped /\ Settled(mem)
  BY DEF SavesInv, MemoryFits, Fits
<1>2. req[r] \in Asked
  BY <1>1 DEF SavesTyped, S!Idle
<1>3. PICK q \in Asked :
        /\ req' = [req EXCEPT ![r] = q] /\ q.pc \in {"runtime", "answer"} /\ q.ver = new.ver
        /\ prefixes' = S!Seen(prefixes, mem'.items)
        /\ \/ q.res = "failed" /\ UNCHANGED <<mem, file, durable>>
           \/ /\ q.res \in {"ok", "committed"} /\ S!Valid(new.items) /\ mem' = new /\ file' = new
              /\ durable' = IF q.res = "ok" THEN {new} ELSE durable \cup {new}
  BY <1>1, <1>2, ChangeEffect
<1>4. CASE q.res = "failed" /\ UNCHANGED <<mem, file, durable>>
  <2>1. prefixes' = prefixes
    BY <1>1, <1>3, <1>4, NothingSeen DEF SavesTyped
  <2>2. serial' \in 0..Requests /\ serial' >= serial /\ ~Done(r)
    BY <1>1 DEF SavesTyped, SettingsAssumption, Done
  <2>. QED BY <1>3, <1>4, <2>1, <2>2, RequestWaits
<1>5. CASE q.res \in {"ok", "committed"} /\ S!Valid(new.items) /\ mem' = new
  BY <1>3, <1>5, MadeSaves
<1>. QED BY <1>3, <1>4, <1>5


-------------------------------------------------------------------------------
(* Handlers                                                                *)

\* While a request is handled the service runs, and what a request says is well typed.
LEMMA HandledTyped ==
  ASSUME SettingsAssumption, SavesInv, NEW r \in Handlers, req[r].pc # "idle"
  PROVE  up /\ req[r] \in Asked /\ mem \in Configurations /\ Fits(mem) /\ serial \in 0..Requests
BY DEF SavesInv, MemoryFits, SavesTyped, S!Idle

\* What a request may ask for.
Asking(op, kind, id, tag) ==
  /\ op \in {"create", "update", "delete", "settings", "key"} /\ kind \in {"stream", "recorder", None}
  /\ tag \in Tags \cup {None} /\ (id \in DOMAIN mem.items \/ id = serial + 1 \/ id = None)
  /\ op \in {"create", "update"} =>
       /\ tag \in Tags /\ kind \in {"stream", "recorder"}
       /\ IF op = "create" THEN id = serial + 1 ELSE id \in DOMAIN mem.items /\ kind = mem.items[id].kind

\* A request arrives.
LEMMA AsksSaves ==
  ASSUME SettingsAssumption, SavesInv, NEW r \in Handlers, NEW op, NEW kind, NEW id, NEW tag, NEW on \in BOOLEAN,
         NEW secret \in Nat, Asking(op, kind, id, tag), S!Asks(r, op, kind, id, tag, on, secret)
  PROVE  SavesInv'
<1> DEFINE p == IF op = "delete" /\ kind = "stream" THEN "stop" ELSE "apply"
           q == [op |-> op, kind |-> kind, id |-> id, tag |-> tag, on |-> on, secret |-> secret, pc |-> p,
                 item |-> None, ver |-> 0, res |-> "none"]
<1>1. /\ up /\ req[r].pc = "idle" /\ serial < Requests /\ serial' = serial + 1 /\ req' = [req EXCEPT ![r] = q]
      /\ UNCHANGED <<mem, file, durable, up, prefixes, acked, sTold>>
  BY DEF S!Asks
<1>2. SavesTyped /\ RequestsFit
  BY DEF SavesInv
<1>3. serial \in Nat /\ serial' \in 0..Requests /\ serial' >= serial
  BY <1>1, <1>2 DEF SavesTyped, SettingsAssumption
<1>4. ASSUME id \in DOMAIN mem.items PROVE id \in 0..serial /\ id \in 0..Requests
  <2>1. id \in 0..Requests
    BY <1>2, <1>4, ListParts DEF SavesTyped, Configurations
  <2>2. id \notin (serial + 1)..Requests
    BY <1>2, <1>4 DEF RequestsFit, Unused
  <2>. QED BY <1>3, <2>1, <2>2
<1>5. id \in 0..Requests \cup {None}
  BY <1>1, <1>3, <1>4 DEF Asking
<1>6. p \in {"stop", "apply"}
  OBVIOUS
<1> HIDE DEF p
<1>7. q \in Asked
  BY <1>5, <1>6 DEF Asked, Asking
<1>8. /\ q.pc = p /\ q.op = op /\ q.tag = tag /\ q.kind = kind /\ q.id = id
  OBVIOUS
<1> HIDE DEF q
<1>9. q.pc = "apply" /\ q.op \in {"create", "update"} =>
        /\ q.tag \in Tags /\ q.kind \in {"stream", "recorder"}
        /\ IF q.op = "create" THEN q.id = serial + 1 /\ q.id = serial'
                              ELSE q.id \in DOMAIN mem.items /\ q.id \in 0..serial /\ q.kind = mem.items[q.id].kind
  BY <1>1, <1>4, <1>8 DEF Asking
<1>10. q.pc \notin {"runtime", "start", "answer"} /\ ~Done(r)
  BY <1>1, <1>6, <1>8 DEF Done
<1>11. q.pc = "stop" => q.op = "delete"
  BY <1>8 DEF p
<1>. QED BY <1>1, <1>3, <1>7, <1>9, <1>10, <1>11, RequestWaits

LEMMA SecretKept ==
  ASSUME SavesTyped, NEW value \in {"new", "keep", "clear"}, NEW saved \in Nat
  PROVE  S!PreserveSecret(value, saved) \in Nat
BY DEF S!PreserveSecret, SavesTyped

\* A request of any kind.
LEMMA ArriveSaves ==
  ASSUME SettingsAssumption, SavesInv, NEW r \in Handlers, S!Arrive(r) PROVE SavesInv'
<1>1. SavesTyped
  BY DEF SavesInv
<1>2. \A i \in DOMAIN mem.items : mem.items[i] \in Items
  BY <1>1, ListParts DEF SavesTyped, Configurations
<1>3. \A i \in DOMAIN mem.items : mem.items[i].secret \in Nat /\ mem.items[i].kind \in {"stream", "recorder"}
  BY <1>2 DEF Items
<1>4. /\ \A i \in DOMAIN mem.items \ S!Recorders(mem.items) : i \in DOMAIN mem.items /\ mem.items[i].kind = "stream"
      /\ \A i \in S!Recorders(mem.items) : i \in DOMAIN mem.items /\ mem.items[i].kind = "recorder"
  BY <1>3 DEF S!Recorders
<1>5. CASE S!handleCreateStream(r) \/ S!handleCreateRecorder(r)
  <2>1. PICK kind \in {"stream", "recorder"}, t \in Tags, s \in {"new", "keep"} :
          S!Asks(r, "create", kind, serial + 1, t, TRUE, S!PreserveSecret(s, 0))
    BY <1>5 DEF S!handleCreateStream, S!handleCreateRecorder
  <2> DEFINE v == S!PreserveSecret(s, 0)
  <2>2. v \in Nat
    BY <1>1, SecretKept
  <2> HIDE DEF v
  <2>3. S!Asks(r, "create", kind, serial + 1, t, TRUE, v)
    BY <2>1 DEF v
  <2>4. Asking("create", kind, serial + 1, t)
    BY DEF Asking
  <2>. QED BY <2>2, <2>3, <2>4, AsksSaves
<1>6. CASE S!handleUpdateStream(r) \/ S!handleUpdateRecorder(r)
  <2>1. PICK kind \in {"stream", "recorder"}, i \in DOMAIN mem.items, t \in Tags, on \in BOOLEAN,
             s \in {"new", "keep", "clear"} :
          /\ mem.items[i].kind = kind
          /\ S!Asks(r, "update", kind, i, t, on, S!PreserveSecret(s, mem.items[i].secret))
    BY <1>4, <1>6 DEF S!handleUpdateStream, S!handleUpdateRecorder
  <2> DEFINE v == S!PreserveSecret(s, mem.items[i].secret)
  <2>2. v \in Nat
    BY <1>1, <1>3, SecretKept
  <2> HIDE DEF v
  <2>3. S!Asks(r, "update", kind, i, t, on, v)
    BY <2>1 DEF v
  <2>4. Asking("update", kind, i, t)
    BY <2>1 DEF Asking
  <2>. QED BY <2>2, <2>3, <2>4, AsksSaves
<1>7. CASE S!handleDeleteStream(r) \/ S!handleDeleteRecorder(r)
  <2>1. PICK kind \in {"stream", "recorder"}, i \in DOMAIN mem.items : S!Asks(r, "delete", kind, i, None, FALSE, 0)
    BY <1>4, <1>7 DEF S!handleDeleteStream, S!handleDeleteRecorder
  <2>2. Asking("delete", kind, i, None)
    BY DEF Asking
  <2>. QED BY <2>1, <2>2, AsksSaves
<1>8. CASE S!handleAPISettings(r)
  <2>1. PICK s \in {"new", "keep", "clear"} :
          S!Asks(r, "settings", None, None, None, FALSE, S!PreserveSecret(s, mem.secret))
    BY <1>8 DEF S!handleAPISettings
  <2>2. S!PreserveSecret(s, mem.secret) \in Nat
    BY <1>1, SecretKept DEF SavesTyped, Configurations
  <2>3. Asking("settings", None, None, None)
    BY DEF Asking
  <2>. QED BY <2>1, <2>2, <2>3, AsksSaves
<1>9. CASE S!handleAPIRegenerateKey(r)
  <2>1. S!Asks(r, "key", None, None, None, FALSE, S!PreserveSecret("new", 0))
    BY <1>9 DEF S!handleAPIRegenerateKey
  <2>2. S!PreserveSecret("new", 0) \in Nat
    BY <1>1, SecretKept
  <2>3. Asking("key", None, None, None)
    BY DEF Asking
  <2>. QED BY <2>1, <2>2, <2>3, AsksSaves
<1>. QED BY <1>5, <1>6, <1>7, <1>8, <1>9 DEF S!Arrive

\* A change of the list of items.
LEMMA ListChange ==
  ASSUME NEW items \in Lists, mem \in Configurations
  PROVE  S!With(items) \in Configurations /\ S!With(items).items = items /\ S!With(items).ver = mem.ver + 1
<1> DEFINE v   == mem.ver + 1
           new == [mem EXCEPT !.items = items, !.ver = v]
<1>1. v \in Nat
  BY DEF Configurations
<1>2. S!With(items) = new
  BY DEF S!With
<1> HIDE DEF v
<1>3. new \in Configurations /\ new.items = items /\ new.ver = v
  BY <1>1 DEF Configurations
<1>. QED BY <1>2, <1>3 DEF v

\* An item is put into the list; validation finds the prefix a new recorder gets.
LEMMA PutSaves ==
  ASSUME SettingsAssumption, SavesInv, NEW r \in Handlers, Puts(r), NEW p \in Prefixes \cup {None},
         req[r].op = "update" =>
           /\ req[r].id \in DOMAIN mem.items
           /\ req[r].kind = "recorder" => p = mem.items[req[r].id].prefix,
         S!Change(r, S!With(S!Assigned(S!Put(mem.items, req[r].id, S!Made(req[r], p))))),
         UNCHANGED <<up, sTold, serial, acked>>
  PROVE  SavesInv'
<1> DEFINE id    == req[r].id
           x     == S!Made(req[r], p)
           items == S!Put(mem.items, id, x)
           all   == S!Assigned(items)
           new   == S!With(all)
<1>1. req[r].pc = "apply" /\ req[r].op \in {"create", "update"}
  BY DEF Puts
<1>2. up /\ req[r] \in Asked /\ mem \in Configurations /\ Fits(mem) /\ serial \in 0..Requests /\ PutFits(r)
  BY <1>1, HandledTyped DEF SavesInv, RequestsFit
<1>3. x \in Items /\ x.kind = req[r].kind /\ x.prefix = p
  BY <1>2 DEF S!Made, Items, Asked, PutFits
<1>4. id \in 0..Requests
  BY <1>2 DEF PutFits, SettingsAssumption
<1>5. mem.items \in Lists
  BY <1>2 DEF Configurations
<1>12. PutTo(items, mem.items, id, x)
  BY <1>3, <1>4, <1>5, PutItem
<1> HIDE DEF x, items
<1>6. /\ items \in Lists /\ DOMAIN items = DOMAIN mem.items \cup {id}
      /\ \A i \in DOMAIN items : items[i] = IF i = id THEN x ELSE mem.items[i]
  BY <1>12 DEF PutTo
<1>7. /\ all \in Lists /\ DOMAIN all = DOMAIN items
      /\ \A i \in DOMAIN items :
           /\ all[i].kind = items[i].kind
           /\ items[i].kind = "recorder" => all[i].prefix \in Prefixes
           /\ items[i].prefix # None \/ items[i].kind = "stream" => all[i] = items[i]
  BY <1>6, AssignedItems
<1> HIDE DEF all
<1>8. new \in Configurations /\ new.items = all /\ new.ver = mem.ver + 1
  BY <1>2, <1>7, ListChange
<1> HIDE DEF new
<1>9. Named(new)
  BY <1>7, <1>8 DEF Named, S!Recorders, SettingsAssumption, Prefixes
<1>10. Comes(r, all)
  <2>1. ASSUME NEW i \in DOMAIN all, i # id
        PROVE  /\ i \in DOMAIN mem.items /\ all[i].kind = mem.items[i].kind
               /\ all[i].kind = "recorder" => all[i].prefix = mem.items[i].prefix
    <3>1. i \in DOMAIN mem.items /\ items[i] = mem.items[i] /\ all[i].kind = items[i].kind
      BY <1>6, <1>7, <2>1
    <3>2. items[i].kind = "recorder" => items[i].prefix # None
      BY <1>2, <3>1 DEF Fits, Named, S!Recorders
    <3>. QED BY <1>6, <1>7, <2>1, <3>1, <3>2
  <2>2. id \in DOMAIN all /\ items[id] = x /\ all[id].kind = req[r].kind
    BY <1>3, <1>6, <1>7
  <2>3. CASE req[r].op = "create"
    BY <2>1, <2>2, <2>3 DEF Comes, Creates, Puts
  <2>4. CASE req[r].op = "update"
    <3>1. id \in DOMAIN mem.items /\ mem.items[id].kind = req[r].kind
      BY <1>2, <2>4 DEF PutFits
    <3>2. ASSUME req[r].kind = "recorder" PROVE all[id].prefix = mem.items[id].prefix
      <4>1. p = mem.items[id].prefix /\ p # None
        BY <1>2, <2>4, <3>1, <3>2 DEF Fits, Named, S!Recorders
      <4>. QED BY <1>3, <1>6, <1>7, <2>2, <4>1
    <3>. QED BY <2>1, <2>2, <3>1, <3>2 DEF Comes
  <2>. QED BY <1>1, <2>3, <2>4
<1>11. S!Change(r, new)
  BY DEF new, all, items, x
<1>. QED BY <1>1, <1>2, <1>8, <1>9, <1>10, <1>11, ChangeSaves

\* An item is removed from the list.
LEMMA DropSaves ==
  ASSUME SettingsAssumption, SavesInv, NEW r \in Handlers, req[r].pc = "apply",
         S!Change(r, S!With(S!Drop(mem.items, req[r].id))), UNCHANGED <<up, sTold, serial, acked>>
  PROVE  SavesInv'
<1> DEFINE items == S!Drop(mem.items, req[r].id)
           new   == S!With(items)
<1>1. up /\ req[r] \in Asked /\ mem \in Configurations /\ Fits(mem)
  BY HandledTyped
<1>2. mem.items \in Lists
  BY <1>1 DEF Configurations
<1>7. DroppedFrom(items, mem.items, req[r].id)
  BY <1>2, DropItem
<1> HIDE DEF items
<1>3. /\ items \in Lists /\ DOMAIN items = DOMAIN mem.items \ {req[r].id}
      /\ \A i \in DOMAIN mem.items \ {req[r].id} : items[i] = mem.items[i]
  BY <1>7 DEF DroppedFrom
<1>4. new \in Configurations /\ new.items = items /\ new.ver = mem.ver + 1
  BY <1>1, <1>3, ListChange
<1> HIDE DEF new
<1>5. Named(new) /\ Comes(r, items)
  BY <1>1, <1>3, <1>4 DEF Fits, Named, Comes, S!Recorders
<1>6. S!Change(r, new)
  BY DEF new, items
<1>. QED BY <1>1, <1>4, <1>5, <1>6, ChangeSaves


\* A stream has no prefix to be found.
LEMMA StreamPut ==
  ASSUME SettingsAssumption, SavesInv, NEW r \in Handlers, Puts(r), req[r].kind = "stream"
  PROVE  LET items == S!Put(mem.items, req[r].id, S!Made(req[r], None)) IN S!Assigned(items) = items
<1> DEFINE id == req[r].id
           x  == S!Made(req[r], None)
           items == S!Put(mem.items, id, x)
<1>1. up /\ req[r] \in Asked /\ mem \in Configurations /\ Fits(mem) /\ serial \in 0..Requests /\ PutFits(r)
  BY HandledTyped DEF SavesInv, RequestsFit, Puts
<1>2. x \in Items /\ x.kind = "stream"
  BY <1>1 DEF S!Made, Items, Asked, PutFits
<1>3. id \in 0..Requests /\ mem.items \in Lists
  BY <1>1 DEF PutFits, SettingsAssumption, Configurations
<1>7. PutTo(items, mem.items, id, x)
  BY <1>2, <1>3, PutItem
<1> HIDE DEF x, id, items
<1>4. /\ items \in Lists /\ DOMAIN items = DOMAIN mem.items \cup {id}
      /\ \A i \in DOMAIN mem.items \cup {id} : items[i] = IF i = id THEN x ELSE mem.items[i]
  BY <1>7 DEF PutTo
<1>5. \A i \in S!Recorders(items) : items[i].prefix # None
  BY <1>1, <1>2, <1>4 DEF S!Recorders, Fits, Named
<1>6. S!Assigned(items) = items
  BY <1>4, <1>5, AssignedNamed
<1>. QED BY <1>6 DEF items, x, id

\* A request whose change was made, or is not to be made, takes a step.
LEMMA RequestSteps ==
  ASSUME SettingsAssumption, SavesInv, NEW r \in Handlers, req[r].pc # "idle",
         NEW q \in Asked \cup {S!Idle}, req' = [req EXCEPT ![r] = q],
         UNCHANGED <<mem, file, durable, up, prefixes, acked, sTold, serial>>,
         q.pc \in {"stop", "apply"} => q.op = "delete",
         q.pc \in {"runtime", "start", "answer"} /\ q.res = "ok" =>
           Done(r) /\ req[r].res = "ok" /\ q.ver = req[r].ver,
         Done(r) /\ S!Announces(req[r]) => q.pc \in {"runtime", "start", "answer"} /\ S!Announces(q)
  PROVE  SavesInv'
<1>1. up /\ serial' \in 0..Requests /\ serial' >= serial
  BY HandledTyped DEF SettingsAssumption
<1>. QED BY <1>1, RequestWaits

\* The change itself.
LEMMA ApplySaves ==
  ASSUME SettingsAssumption, SavesInv, NEW r \in Handlers, S!Apply(r) PROVE SavesInv'
<1>1. ASSUME NEW op, NEW kind, S!Applies(r, op, kind)
      PROVE  /\ req[r].pc = "apply" /\ req[r].op = op /\ req[r].kind = kind /\ UNCHANGED <<up, sTold, serial, acked>>
             /\ up /\ req[r] \in Asked /\ mem \in Configurations /\ Fits(mem)
  BY <1>1, HandledTyped DEF S!Applies
<1>2. CASE S!AddStream(r) \/ S!UpdateStream(r)
  <2> DEFINE items == S!Put(mem.items, req[r].id, S!Made(req[r], None))
  <2>1. /\ Puts(r) /\ req[r].kind = "stream" /\ UNCHANGED <<up, sTold, serial, acked>>
        /\ req[r].op = "update" => req[r].id \in DOMAIN mem.items
        /\ S!Change(r, S!With(items))
    BY <1>1, <1>2 DEF S!AddStream, S!UpdateStream, S!There, Puts
  <2>2. S!Assigned(items) = items
    BY <2>1, StreamPut
  <2>3. S!Change(r, S!With(S!Assigned(items)))
    BY <2>1, <2>2
  <2>. QED BY <2>1, <2>3, PutSaves
<1>3. CASE S!AddRecorder(r)
  <2>1. /\ Puts(r) /\ req[r].op = "create" /\ UNCHANGED <<up, sTold, serial, acked>>
        /\ S!Change(r, S!With(S!Assigned(S!Put(mem.items, req[r].id, S!Made(req[r], None)))))
    BY <1>1, <1>3 DEF S!AddRecorder, Puts
  <2>. QED BY <2>1, PutSaves
<1>4. CASE S!UpdateRecorder(r)
  <2>1. /\ Puts(r) /\ req[r].op = "update" /\ UNCHANGED <<up, sTold, serial, acked>> /\ req[r].id \in DOMAIN mem.items
        /\ S!Change(r, S!With(S!Assigned(S!Put(mem.items, req[r].id, S!Made(req[r], mem.items[req[r].id].prefix)))))
    BY <1>1, <1>4 DEF S!UpdateRecorder, S!There, S!Kept, Puts
  <2>2. mem.items \in Lists
    BY <1>1, <1>4 DEF S!UpdateRecorder, Configurations
  <2>3. mem.items[req[r].id].prefix \in Prefixes \cup {None}
    BY <2>1, <2>2, ListParts DEF Items
  <2>. QED BY <2>1, <2>3, PutSaves
<1>5. CASE S!RemoveStream(r) \/ S!RemoveRecorder(r)
  BY <1>1, <1>5, DropSaves DEF S!RemoveStream, S!RemoveRecorder
<1>6. CASE S!ApplySettings(r) \/ S!SetRecordingAPIKey(r)
  <2>1. /\ req[r].pc = "apply" /\ UNCHANGED <<up, sTold, serial, acked>>
        /\ up /\ req[r] \in Asked /\ mem \in Configurations /\ Fits(mem)
    BY <1>1, <1>6 DEF S!ApplySettings, S!SetRecordingAPIKey
  <2> DEFINE v  == mem.ver + 1
             s  == req[r].secret
             n1 == [mem EXCEPT !.secret = s, !.ver = v]
             n2 == [mem EXCEPT !.key = s, !.ver = v]
  <2>2. S!Change(r, n1) \/ S!Change(r, n2)
    BY <1>6 DEF S!ApplySettings, S!SetRecordingAPIKey
  <2>3. v \in Nat /\ s \in Nat
    BY <2>1 DEF Configurations, Asked
  <2>4. ASSUME NEW new, new = n1 \/ new = n2, S!Change(r, new) PROVE SavesInv'
    <3>1. v = mem.ver + 1
      OBVIOUS
    <3> HIDE DEF v, s
    <3>2. new \in Configurations /\ new.items = mem.items /\ new.ver = v
      BY <2>1, <2>3, <2>4 DEF Configurations
    <3>3. Named(new) /\ Comes(r, new.items)
      BY <2>1, <3>2 DEF Fits, Named, Comes
    <3>. QED BY <2>1, <2>4, <3>1, <3>2, <3>3, ChangeSaves
  <2>. QED BY <2>2, <2>4
<1>7. CASE S!NotFound(r)
  <2> DEFINE q == [req[r] EXCEPT !.pc = "answer", !.res = "failed"]
  <2>1. /\ req[r].pc = "apply" /\ UNCHANGED <<mem, file, durable, up, prefixes, acked, sTold, serial>>
        /\ req' = [req EXCEPT ![r] = q]
    BY <1>7 DEF S!NotFound, S!Applies
  <2>2. req[r] \in Asked
    BY <2>1, HandledTyped
  <2>3. q \in Asked /\ q.pc = "answer" /\ q.res = "failed"
    BY ZenonT(60), <2>2 DEF Asked
  <2> HIDE DEF q
  <2>4. ~Done(r)
    BY <2>1 DEF Done
  <2>. QED BY <2>1, <2>3, <2>4, RequestSteps
<1>. QED BY <1>2, <1>3, <1>4, <1>5, <1>6, <1>7 DEF S!Apply


\* What follows the change: the managers are told.
LEMMA StopStreamSaves ==
  ASSUME SettingsAssumption, SavesInv, NEW r \in Handlers, S!StopStream(r) PROVE SavesInv'
<1> DEFINE p == IF req[r].pc = "stop" THEN "apply" ELSE "answer"
           q == [req[r] EXCEPT !.pc = p]
<1>1. /\ req' = [req EXCEPT ![r] = q] /\ (req[r].pc = "stop" \/ req[r].pc = "runtime")
      /\ UNCHANGED <<mem, file, durable, up, prefixes, acked, sTold, serial>>
  BY DEF S!StopStream
<1>2. req[r] \in Asked
  BY <1>1, HandledTyped
<1>3. p \in {"apply", "answer"} /\ (p = "apply" <=> req[r].pc = "stop")
  OBVIOUS
<1>4. req[r].pc = "stop" => req[r].op = "delete"
  BY DEF SavesInv, RequestsFit
<1> HIDE DEF p
<1>5. q \in Asked /\ q.pc = p /\ q.op = req[r].op /\ q.res = req[r].res /\ q.ver = req[r].ver
  BY <1>2, <1>3 DEF Asked
<1> HIDE DEF q
<1>6. /\ q.pc \in {"stop", "apply"} => q.op = "delete"
      /\ q.pc \in {"runtime", "start", "answer"} => Done(r)
      /\ Done(r) => q.pc \in {"runtime", "start", "answer"}
  BY <1>1, <1>3, <1>4, <1>5 DEF Done
<1>. QED BY <1>1, <1>5, <1>6, RequestSteps DEF S!Announces

LEMMA ReadStreamSaves ==
  ASSUME SettingsAssumption, SavesInv, NEW r \in Handlers, S!ReadStream(r) PROVE SavesInv'
<1> DEFINE p       == IF req[r].pc = "delay" THEN "restart" ELSE "start"
           x       == mem.items[req[r].id]
           started == [req[r] EXCEPT !.pc = p, !.item = x]
           over    == [req[r] EXCEPT !.pc = "answer"]
           found   == req[r].id \in DOMAIN mem.items /\ mem.items[req[r].id].on
<1>1. /\ req' = [req EXCEPT ![r] = CASE found -> started
                                    [] ~found /\ req[r].pc = "delay" -> S!Idle
                                    [] ~found /\ req[r].pc # "delay" -> over]
      /\ req[r].pc = "delay" \/ req[r].pc = "runtime"
      /\ UNCHANGED <<mem, file, durable, up, prefixes, acked, sTold, serial>>
  BY DEF S!ReadStream
<1>2. req[r] \in Asked /\ mem \in Configurations
  BY <1>1, HandledTyped
<1>3. Done(r) <=> req[r].pc = "runtime"
  BY <1>1 DEF Done
<1>7. req[r].pc # "idle" /\ UNCHANGED <<mem, file, durable, up, prefixes, acked, sTold, serial>>
  BY <1>1
<1>4. CASE found
  <2>1. x \in Items
    BY <1>2, <1>4, ListParts DEF Configurations
  <2>2. req' = [req EXCEPT ![r] = started]
    BY <1>1, <1>4
  <2>3. p \in {"restart", "start"} /\ (p = "start" <=> req[r].pc = "runtime")
    BY <1>1
  <2> HIDE DEF p, x
  <2>4. started \in Asked /\ started.pc = p /\ started.res = req[r].res /\ started.ver = req[r].ver
    BY <1>2, <2>1, <2>3 DEF Asked
  <2> HIDE DEF started
  <2>5. /\ started.pc \notin {"stop", "apply"}
        /\ started.pc \in {"runtime", "start", "answer"} => Done(r)
        /\ Done(r) => started.pc \in {"runtime", "start", "answer"}
    BY <1>3, <2>3, <2>4
  <2>6. S!Announces(req[r]) => S!Announces(started)
    BY <2>4 DEF S!Announces
  <2>. QED BY <1>7, <2>2, <2>4, <2>5, <2>6, RequestSteps
<1>5. CASE ~found /\ req[r].pc = "delay"
  <2>1. req' = [req EXCEPT ![r] = S!Idle]
    BY <1>1, <1>5
  <2>2. S!Idle.pc = "idle" /\ ~Done(r)
    BY <1>5, <1>3 DEF S!Idle
  <2>. QED BY <1>1, <2>1, <2>2, RequestSteps
<1>6. CASE ~found /\ req[r].pc # "delay"
  <2>1. req' = [req EXCEPT ![r] = over]
    BY <1>1, <1>6
  <2>2. over \in Asked /\ over.pc = "answer" /\ over.res = req[r].res /\ over.ver = req[r].ver
    BY <1>2 DEF Asked
  <2> HIDE DEF over
  <2>. QED BY ZenonT(60), <1>1, <1>3, <1>6, <2>1, <2>2, RequestSteps DEF S!Announces
<1>. QED BY <1>4, <1>5, <1>6

LEMMA StartStreamSaves ==
  ASSUME SettingsAssumption, SavesInv, NEW r \in Handlers, S!StartStream(r) PROVE SavesInv'
<1> DEFINE over == [req[r] EXCEPT !.pc = "answer"]
<1>1. /\ req' = [req EXCEPT ![r] = IF req[r].pc = "start" THEN over ELSE S!Idle]
      /\ req[r].pc \in {"start", "restart"}
      /\ UNCHANGED <<mem, file, durable, up, prefixes, acked, sTold, serial>>
  BY DEF S!StartStream
<1>2. req[r] \in Asked
  BY <1>1, HandledTyped
<1>3. over \in Asked /\ over.pc = "answer" /\ over.res = req[r].res /\ over.ver = req[r].ver
  BY <1>2 DEF Asked
<1> HIDE DEF over
<1>4. CASE req[r].pc = "start"
  <2>1. req' = [req EXCEPT ![r] = over] /\ Done(r)
    BY <1>1, <1>4 DEF Done
  <2>. QED BY <1>1, <1>3, <1>4, <2>1, RequestSteps DEF S!Announces
<1>5. CASE req[r].pc = "restart"
  <2>1. req' = [req EXCEPT ![r] = S!Idle] /\ ~Done(r) /\ S!Idle.pc = "idle"
    BY <1>1, <1>5 DEF Done, S!Idle
  <2>. QED BY <1>1, <1>5, <2>1, RequestSteps
<1>. QED BY <1>1, <1>4, <1>5

LEMMA ChangeRecorderSaves ==
  ASSUME SettingsAssumption, SavesInv, NEW r \in Handlers, S!ChangeRecorder(r) PROVE SavesInv'
<1>1. /\ req[r].pc = "runtime"
      /\ UNCHANGED <<mem, file, durable, up, prefixes, acked, sTold, serial>>
  BY DEF S!ChangeRecorder
<1>2. PICK res \in {"committed", req[r].res} : req' = [req EXCEPT ![r] = [req[r] EXCEPT !.pc = "answer", !.res = res]]
  BY DEF S!ChangeRecorder
<1> DEFINE q == [req[r] EXCEPT !.pc = "answer", !.res = res]
<1>3. req[r] \in Asked
  BY <1>1, HandledTyped
<1>4. req[r].res \in {"none", "ok", "failed", "committed"}
  BY <1>3 DEF Asked
<1>5. q \in Asked /\ q.pc = "answer" /\ q.res = res /\ q.ver = req[r].ver
  BY ZenonT(60), <1>2, <1>3, <1>4 DEF Asked
<1>6. req' = [req EXCEPT ![r] = q]
  BY <1>2
<1> HIDE DEF q
<1>7. Done(r)
  BY <1>1 DEF Done
<1>8. q.res = "ok" => req[r].res = "ok"
  BY <1>2, <1>5
<1>9. S!Announces(req[r]) => S!Announces(q)
  BY <1>2, <1>5 DEF S!Announces
<1>. QED BY <1>1, <1>5, <1>6, <1>7, <1>8, <1>9, RequestSteps

\* The answer goes out, after the broadcast.
LEMMA AnswerSaves ==
  ASSUME SettingsAssumption, SavesInv, NEW r \in Handlers, S!Answer(r) PROVE SavesInv'
<1> DEFINE wait == [req[r] EXCEPT !.pc = "delay"]
<1>1. /\ req[r].pc = "answer" /\ UNCHANGED <<mem, file, durable, up, prefixes, serial>>
      /\ sTold' = IF S!Announces(req[r]) THEN mem.ver ELSE sTold
      /\ acked' = IF req[r].res = "ok" /\ req[r].ver > acked THEN req[r].ver ELSE acked
      /\ \E q \in {wait, S!Idle} : req' = [req EXCEPT ![r] = q]
  BY DEF S!Answer
<1>2. req[r] \in Asked /\ up
  BY <1>1, HandledTyped
<1>3. wait \in Asked /\ wait.pc = "delay" /\ S!Idle.pc = "idle"
  BY <1>2 DEF Asked, S!Idle
<1> HIDE DEF wait
<1>4. PICK q \in Asked \cup {S!Idle} : req' = [req EXCEPT ![r] = q] /\ q.pc \in {"delay", "idle"}
  BY <1>1, <1>3
<1>5. /\ acked \in Nat /\ req[r].ver \in Nat /\ serial \in 0..Requests
      /\ req'[r] = q /\ (\A h \in Handlers \ {r} : req'[h] = req[h])
  BY <1>2, <1>4 DEF SavesInv, SavesTyped, Asked
<1>6. acked' \in Nat /\ serial' \in 0..Requests /\ serial' >= serial
  BY <1>1, <1>5 DEF SettingsAssumption
<1>7. SavesTyped' /\ FilesFit' /\ MemoryFits' /\ RequestsFit'
  BY <1>1, <1>2, <1>4, <1>6, RequestMoves
<1>8. ~Done(r)' /\ Done(r) /\ \A h \in Handlers \ {r} : (Done(h)' <=> Done(h)) /\ req'[h] = req[h]
  BY <1>1, <1>4, <1>5 DEF Done
<1>9. VersionsFit'
  <2>1. ASSUME NEW f \in durable PROVE f.ver >= acked' /\ \A h \in Handlers : Done(h)' /\ req'[h].res = "ok" => f.ver >= req'[h].ver
    <3>1. f.ver >= acked /\ \A h \in Handlers : Done(h) /\ req[h].res = "ok" => f.ver >= req[h].ver
      BY DEF SavesInv, VersionsFit
    <3>. QED BY <1>1, <1>8, <3>1
  <2>. QED BY <1>1, <2>1 DEF VersionsFit
<1>10. ClientsFit'
  BY <1>1, <1>8 DEF SavesInv, ClientsFit
<1>. QED BY <1>7, <1>9, <1>10 DEF SavesInv


-------------------------------------------------------------------------------
(* Restarts                                                                *)

\* A kill, also with the power, leaves a file there may be.
LEMMA CrashSaves ==
  ASSUME SettingsAssumption, SavesInv, S!Crash PROVE SavesInv'
<1>1. /\ up' = FALSE /\ req' = [r \in Handlers |-> S!Idle] /\ UNCHANGED <<mem, sTold, serial, acked, prefixes>>
      /\ file' \in durable /\ file' \in durable' /\ durable' \subseteq durable
  BY DEF S!Crash, SavesInv, SavesTyped
<1>2. SavesTyped /\ FilesFit /\ RequestsFit /\ VersionsFit
  BY DEF SavesInv
<1>3. \A r \in Handlers : req'[r] = S!Idle /\ ~Puts(r)' /\ ~Done(r)' /\ req'[r].pc # "stop"
  BY <1>1 DEF Puts, Done, S!Idle
<1>4. SavesTyped'
  BY <1>1, <1>2 DEF SavesTyped
<1>5. FilesFit'
  BY <1>1, <1>2 DEF FilesFit, Fits, Named, Distinct, Settled
<1>6. MemoryFits'
  BY <1>1, <1>3 DEF MemoryFits
<1>7. RequestsFit'
  BY <1>1, <1>2, <1>3 DEF RequestsFit, Unused
<1>8. VersionsFit' /\ ClientsFit'
  BY <1>1, <1>2, <1>3 DEF VersionsFit, ClientsFit
<1>. QED BY <1>4, <1>5, <1>6, <1>7, <1>8 DEF SavesInv

\* What a start reads of any of the files: only the old one's recorder gets a prefix, the
\* one it had if it had one.
LEMMA LoadedFits ==
  ASSUME SettingsAssumption, SavesTyped, FilesFit, NEW new, new = [file EXCEPT !.items = S!Assigned(file.items)],
         prefixes' = S!Seen(prefixes, new.items)
  PROVE  /\ new \in Configurations /\ DOMAIN new.items = DOMAIN file.items /\ new.ver = file.ver
         /\ new = [new EXCEPT !.items = S!Assigned(new.items)]
         /\ Named(new) /\ Distinct(new) /\ \A i \in S!Recorders(new.items) : prefixes'[i] = {new.items[i].prefix}
         /\ \A i \in 0..Requests : prefixes'[i] = prefixes[i] \/ (i = 0 /\ file = OldFile /\ prefixes'[i] = {FirstPrefix})
         /\ prefixes' \in [0..Requests -> SUBSET Prefixes]
<1>1. file \in Configurations /\ file.items \in Lists
  BY DEF SavesTyped, Configurations
<1>2. /\ S!Assigned(file.items) \in Lists /\ DOMAIN S!Assigned(file.items) = DOMAIN file.items
  BY <1>1, AssignedItems
<1>3. new \in Configurations /\ new.items = S!Assigned(file.items) /\ new.ver = file.ver
  BY <1>1, <1>2 DEF Configurations
<1>4. Named(new)
  <2>1. \A i \in DOMAIN file.items :
          /\ S!Assigned(file.items)[i].kind = file.items[i].kind
          /\ file.items[i].kind = "recorder" => S!Assigned(file.items)[i].prefix \in Prefixes
    BY <1>1, AssignedItems
  <2>. QED BY <1>2, <1>3, <2>1 DEF Named, S!Recorders, Prefixes, SettingsAssumption
<1>5. new = [new EXCEPT !.items = S!Assigned(new.items)]
  <2>1. S!Assigned(new.items) = new.items
    BY <1>2, <1>3, <1>4, AssignedNamed DEF Named
  <2>2. new = [new EXCEPT !.items = new.items]
    BY <1>3 DEF Configurations
  <2>. QED BY <2>1, <2>2
<1>6. prefixes \in [0..Requests -> SUBSET Prefixes] /\ DOMAIN prefixes = 0..Requests /\ file \in durable
  BY DEF SavesTyped
<1>7. CASE Fits(file)
  <2>1. S!Assigned(file.items) = file.items
    BY <1>1, <1>7, AssignedNamed DEF Fits, Named
  <2>2. new = file
    BY <1>1, <2>1 DEF Configurations
  <2>3. prefixes' = prefixes
    BY <1>1, <1>7, <2>2, NothingSeen DEF Fits
  <2>. QED BY <1>1, <1>2, <1>3, <1>4, <1>5, <1>6, <1>7, <2>2, <2>3 DEF Fits, Settled
<1>8. CASE file = OldFile
  <2>1. S!Recorders(new.items) = {0} /\ new.items[0].prefix = FirstPrefix /\ FirstPrefix \in Prefixes
    BY <1>3, <1>8, OldAssigned
  <2>2. 0 \in 0..Requests
    BY DEF SettingsAssumption
  <2>3. prefixes'[0] = prefixes[0] \cup {FirstPrefix}
    BY <1>6, <2>1, <2>2, SeenPrefixes
  <2>4. prefixes'[0] = {FirstPrefix}
    BY <2>3 DEF FilesFit
  <2>5. \A i \in 0..Requests : i # 0 => prefixes'[i] = prefixes[i]
    BY <1>6, <2>1, SeenPrefixes
  <2>6. prefixes' = [i \in 0..Requests |-> prefixes'[i]]
    BY <1>6 DEF S!Seen
  <2>7. \A i \in 0..Requests : prefixes'[i] \in SUBSET Prefixes
    BY <1>6, <2>1, <2>4, <2>5
  <2>8. prefixes' \in [0..Requests -> SUBSET Prefixes]
    BY <2>6, <2>7
  <2>9. Distinct(new)
    BY <2>1 DEF Distinct
  <2>. QED BY <1>2, <1>3, <1>4, <1>5, <1>8, <2>1, <2>4, <2>5, <2>8, <2>9
<1>. QED BY <1>6, <1>7, <1>8 DEF FilesFit

\* A start.
LEMMA LoadSaves ==
  ASSUME SettingsAssumption, SavesInv, S!Load PROVE SavesInv'
<1>1. PICK new :
      /\ new = [file EXCEPT !.items = S!Assigned(file.items)] /\ ~up /\ up' = TRUE /\ mem' = new /\ sTold' = new.ver /\ prefixes' = S!Seen(prefixes, new.items)
      /\ UNCHANGED <<req, serial, acked>>
      /\ IF new = file THEN UNCHANGED <<file, durable>> ELSE \E res \in S!Outcomes : S!Renamed(new, res)
  BY DEF S!Load
<1>2. SavesTyped /\ FilesFit /\ MemoryFits /\ RequestsFit /\ VersionsFit /\ file \in durable
  BY DEF SavesInv, SavesTyped
<1>3. /\ new \in Configurations /\ DOMAIN new.items = DOMAIN file.items /\ new.ver = file.ver
      /\ new = [new EXCEPT !.items = S!Assigned(new.items)]
      /\ Named(new) /\ Distinct(new) /\ \A i \in S!Recorders(new.items) : prefixes'[i] = {new.items[i].prefix}
      /\ \A i \in 0..Requests : prefixes'[i] = prefixes[i] \/ (i = 0 /\ file = OldFile /\ prefixes'[i] = {FirstPrefix})
      /\ prefixes' \in [0..Requests -> SUBSET Prefixes]
  BY <1>1, <1>2, LoadedFits
<1>4. /\ file' \in {file, new} /\ file' \in durable' /\ durable' \subseteq durable \cup {new}
  BY <1>1, <1>2 DEF S!Outcomes, S!Renamed
<1>5. \A r \in Handlers : req[r] = S!Idle /\ req'[r] = S!Idle /\ ~Puts(r)' /\ ~Done(r)' /\ req'[r].pc # "stop"
  BY <1>1, <1>2 DEF MemoryFits, Puts, Done, S!Idle
<1>6. SavesTyped'
  BY <1>1, <1>2, <1>3, <1>4 DEF SavesTyped
<1>7. Fits(new)'
  BY <1>3 DEF Fits, Named, Distinct, Settled
<1>8. FilesFit'
  <2>1. ASSUME NEW f \in durable, f # OldFile PROVE Fits(f)'
    <3>1. Named(f) /\ Distinct(f) /\ Settled(f)
      BY <1>2, <2>1 DEF FilesFit, Fits
    <3>2. S!Recorders(f.items) \subseteq 0..Requests
      BY <1>2, ListParts DEF SavesTyped, Configurations, S!Recorders
    <3>3. Settled(f)'
      <4>1. SUFFICES ASSUME NEW i \in S!Recorders(f.items) PROVE prefixes'[i] = {f.items[i].prefix}
        BY DEF Settled
      <4>2. prefixes[i] = {f.items[i].prefix} /\ i \in 0..Requests
        BY <3>1, <3>2 DEF Settled
      <4>. QED BY <1>2, <1>3, <4>2 DEF FilesFit
    <3>. QED BY <3>1, <3>3 DEF Fits, Named, Distinct
  <2>2. prefixes'[0] \subseteq {FirstPrefix}
    BY <1>2, <1>3 DEF FilesFit, SettingsAssumption
  <2>3. \A i \in 0..Requests : \A x, y \in prefixes'[i] : x = y
    BY <1>2, <1>3 DEF FilesFit
  <2>. QED BY <1>4, <1>7, <2>1, <2>2, <2>3 DEF FilesFit, FirstPrefix, OldItem, OldFile
<1>9. MemoryFits'
  <2>1. mem' = [file EXCEPT !.items = S!Assigned(file.items)]'
    BY <1>1, <1>3, <1>4
  <2>2. mem' = new /\ up'
    BY <1>1
  <2>3. Fits(mem)'
    BY <1>7, <2>2 DEF Fits, Named, Distinct, Settled
  <2>. QED BY <2>1, <2>2, <2>3 DEF MemoryFits
<1>10. RequestsFit'
  <2>1. ASSUME NEW i \in (serial + 1)..Requests PROVE Unused(i)'
    <3>1. Unused(i) /\ i \in 0..Requests
      BY <1>2 DEF RequestsFit, SavesTyped, SettingsAssumption
    <3>2. i # 0 /\ prefixes'[i] = {} /\ i \notin DOMAIN new.items
      BY <1>2, <1>3, <3>1 DEF Unused
    <3>. QED BY <1>1, <1>4, <3>1, <3>2 DEF Unused
  <2>. QED BY <1>1, <1>5, <2>1 DEF RequestsFit
<1>11. VersionsFit'
  BY <1>1, <1>2, <1>3, <1>4, <1>5 DEF VersionsFit
<1>12. ClientsFit'
  BY <1>1 DEF ClientsFit
<1>. QED BY <1>6, <1>8, <1>9, <1>10, <1>11, <1>12 DEF SavesInv

\* Initially there is a configuration of an earlier release, or an empty one.
LEMMA SavesInit == ASSUME SettingsAssumption, S!Init PROVE SavesInv
<1> DEFINE none == [items |-> [i \in {} |-> OldItem], secret |-> 0, key |-> 0, ver |-> 0]
<1>1. file = none \/ file = OldFile
  BY DEF S!Init, OldFile, OldItem
<1>2. none \in Configurations /\ S!Recorders(none.items) = {}
  <2>1. none.items \in [{} -> Items] /\ {} \subseteq 0..Requests
    OBVIOUS
  <2>2. none.items \in Lists
    BY <2>1 DEF Lists
  <2>. QED BY <2>2 DEF Configurations, S!Recorders
<1>3. /\ mem = file /\ durable = {file} /\ req = [r \in Handlers |-> S!Idle] /\ ~up /\ up \in BOOLEAN /\ serial = 0 /\ acked = 0
      /\ prefixes = [i \in 0..Requests |-> {}]
  BY DEF S!Init
<1>4. file \in Configurations /\ DOMAIN file.items \subseteq {0} /\ file.ver = 0
  BY <1>1, <1>2, OldAssigned DEF OldFile
<1>5. SavesTyped
  BY <1>3, <1>4 DEF SavesTyped, SettingsAssumption
<1>6. none = file => Fits(file)
  BY <1>2 DEF Fits, Named, Distinct, Settled
<1> HIDE DEF none
<1>7. FilesFit
  BY <1>1, <1>3, <1>6 DEF FilesFit, SettingsAssumption
<1>8. MemoryFits /\ ClientsFit
  BY <1>3 DEF MemoryFits, ClientsFit
<1>9. RequestsFit
  BY <1>3, <1>4 DEF RequestsFit, Unused, Puts, S!Idle, SettingsAssumption
<1>10. VersionsFit
  BY <1>3, <1>4 DEF VersionsFit, Done, S!Idle
<1>. QED BY <1>5, <1>7, <1>8, <1>9, <1>10 DEF SavesInv

\* Every step preserves the invariant.
LEMMA SavesNext == ASSUME SettingsAssumption, SavesInv, [S!Next]_settings PROVE SavesInv'
<1>1. ASSUME NEW r \in Handlers, S!Handle(r) PROVE SavesInv'
  BY <1>1, ArriveSaves, ApplySaves, StopStreamSaves, ReadStreamSaves, StartStreamSaves, ChangeRecorderSaves, AnswerSaves
     DEF S!Handle
<1>2. CASE UNCHANGED settings
  <2>1. UNCHANGED <<mem, file, durable, req, up, sTold, serial, acked, prefixes>>
    BY <1>2 DEF settings
  <2>2. SavesTyped' /\ FilesFit'
    BY <2>1 DEF SavesInv, SavesTyped, FilesFit, Fits, Named, Distinct, Settled
  <2>3. MemoryFits'
    BY <2>1 DEF SavesInv, MemoryFits, Fits, Named, Distinct, Settled
  <2>4. RequestsFit'
    BY <2>1 DEF SavesInv, RequestsFit, Puts, PutFits, Unused
  <2>5. VersionsFit' /\ ClientsFit'
    BY <2>1 DEF SavesInv, VersionsFit, ClientsFit, Done
  <2>. QED BY <2>2, <2>3, <2>4, <2>5 DEF SavesInv
<1>. QED BY <1>1, <1>2, CrashSaves, LoadSaves DEF S!Next

\* What the invariant is for.
LEMMA SavedSound ==
  ASSUME SettingsAssumption, SavesInv PROVE S!FileIsMemory /\ S!AckedSurvives /\ S!PrefixesStay /\ S!ClientsTold
<1>1. S!FileIsMemory
  BY DEF SavesInv, MemoryFits, S!FileIsMemory
<1>2. S!AckedSurvives
  BY DEF SavesInv, VersionsFit, SavesTyped, S!AckedSurvives
<1>3. S!PrefixesStay
  <2>1. ASSUME NEW i \in DOMAIN prefixes PROVE S!Cardinality(prefixes[i]) <= 1
    <3>1. \A x, y \in prefixes[i] : x = y
      BY DEF SavesInv, SavesTyped, FilesFit
    <3>2. CASE prefixes[i] = {}
      <4>1. Cardinality({}) = 0
        BY FS_EmptySet
      <4>2. S!Cardinality({}) = 0
        BY ONLY <4>1, SameCardinality
      <4>. QED BY ONLY <3>2, <4>2
    <3>3. CASE prefixes[i] # {}
      <4>1. PICK x \in prefixes[i] : prefixes[i] = {x}
        BY <3>1, <3>3
      <4>2. Cardinality({x}) = 1
        BY FS_Singleton
      <4>3. S!Cardinality({x}) = 1
        BY ONLY <4>2, SameCardinality
      <4>. QED BY ONLY <4>1, <4>3
    <3>. QED BY <3>2, <3>3
  <2>2. up => \A i, j \in S!Recorders(mem.items) : i # j => mem.items[i].prefix # mem.items[j].prefix
    BY DEF SavesInv, MemoryFits, Fits, Distinct
  <2>. QED BY <2>1, <2>2 DEF S!PrefixesStay
<1>4. S!ClientsTold
  BY DEF SavesInv, ClientsFit, Done, S!ClientsTold
<1>. QED BY <1>1, <1>2, <1>3, <1>4

\* The configuration, for any number of requests, of failing saves and of kills: memory is
\* what a restart would load, an acknowledged change survives a power cut, a recorder keeps
\* its prefix and shares it with no other, and browsers hear of the last change.
THEOREM SavesHold == ServicesSpec => []SavesSound
<1> DEFINE Sound == which = "settings" => SavesInv
<1>1. ServicesInit => Sound
  BY SavesInit, SettingsAssumption DEF ServicesInit
<1>2. Sound /\ [ServicesNext]_servicesVars => Sound'
  <2>1. SUFFICES ASSUME Sound, [ServicesNext]_servicesVars, which' = "settings" PROVE SavesInv'
    OBVIOUS
  <2>2. which = "settings" /\ [S!Next]_settings
    BY <2>1 DEF ServicesNext, servicesVars
  <2>. QED BY <2>1, <2>2, SavesNext, SettingsAssumption
<1>3. Sound => SavesSound
  BY SavedSound, SettingsAssumption DEF SavesSound
<1> HIDE DEF Sound
<1>. QED BY <1>1, <1>2, <1>3, PTL DEF ServicesSpec

-------------------------------------------------------------------------------
(* The audio around an incident                                            *)

Detectors == {"silence", "channel_imbalance"}
Longest   == Return + Pauses

\* The chunk at position 0 of the ring, and what the ring holds.
First(c, h)    == h - c.total + 1
RingFits(c, h) == \A p \in 0..(c.total - 1) : p >= c.total - D!Capacity => c.ring[p % D!Capacity] = First(c, h) + p

\* Where the audio after the incident begins, as far as one can say.
Since(k) == IF k.recovered THEN k.end ELSE k.start

\* What a capture has taken from the ring and since it began.
CaptureFits(c, h, k) ==
  /\ k.base = First(c, h) /\ k.start <= c.total
  /\ k.before = [i \in 1..D!Least(k.start, Before) |-> k.base + k.start - D!Least(k.start, Before) + i - 1]
  /\ k.inside = [i \in 1..Len(k.inside) |-> k.base + k.start + i - 1]
  /\ Len(k.inside) <= MaxIncident
  /\ IF k.recovered THEN k.start <= k.end /\ Len(k.inside) >= D!Least(k.end - k.start, MaxIncident)
                    ELSE Len(k.inside) = D!Least(c.total - k.start, MaxIncident)

Of(c, t) == {k \in c.captures : k.trigger = t}

\* A capture is over before the chunk that another one of its trigger begins with.
Past(c, t, lag) == \A k \in Of(c, t) : (IF k.recovered THEN k.end + 1 ELSE k.start) <= c.total - lag

Apart(c, t) ==
  \A j, k \in Of(c, t) :
    j # k => /\ j.id # k.id
             /\ Since(j) + 2 <= Since(k) \/ Since(k) + 2 <= Since(j)
             /\ ~k.recovered => j.recovered /\ Since(j) + 2 <= Since(k)

\* The number of an incident that is confirmed is that of its capture alone.
NumbersFit(c, d, t) ==
  \A k \in Of(c, t) :
    /\ k.id <= d.seq
    /\ k.id = d.seq => IF d.active THEN ~k.recovered ELSE d.start = D!Zero

\* What has not been encoded although it is complete: one capture that had to wait, with
\* nothing else due with the next chunk; or captures whose recovery was confirmed late.
OneLeft(c) ==
  \E b \in D!Complete(c) :
    /\ D!Complete(c) = {b}
    /\ c.total <= b.end + After \/ c.total <= b.end + Longest + 1
    /\ \A k \in c.captures : k # b => Since(k) + After >= c.total + 2
AllFresh(c) ==
  \A b \in D!Complete(c) :
    /\ c.total <= b.end + Longest
    /\ \A k \in c.captures : k # b /\ k.trigger = b.trigger => Since(k) + After >= c.total + 3

DumpFits(d) ==
  LET n == D!Least(d.from, Before)
      m == D!Least(d.to - d.from, MaxIncident)
  IN d.pcm = [i \in 1..(n + m + After) |-> d.base + (IF i <= n + m THEN d.from - n ELSE d.to - n - m) + i - 1]

OwedFits(c, e, k) ==
  \/ \E j \in c.captures : j.recovered /\ j.trigger = k[1] /\ j.id = k[2]
  \/ \E d \in e : d.trigger = k[1] /\ d.id = k[2]

CapturerFits(c, h) ==
  /\ RingFits(c, h)
  /\ \A k \in c.captures : CaptureFits(c, h, k)
  /\ c.enabled \/ (c.captures = {} /\ c.total = 0)

DumpsInv ==
  /\ CapturerFits(capturer, heard)
  /\ \A t \in Detectors : Past(capturer, t, 0) /\ Apart(capturer, t) /\ NumbersFit(capturer, dDet[t], t)
  /\ OneLeft(capturer) \/ AllFresh(capturer)
  /\ \A d \in encoding : DumpFits(d)
  /\ \A k \in owed : OwedFits(capturer, encoding, k)

Captures == [trigger : Detectors, id : Nat, start : Nat, end : Nat, recovered : BOOLEAN, before : Seq(Int),
             inside : Seq(Int), base : Int]
Capturers  == [enabled : BOOLEAN, total : Nat, ring : [0..(D!Capacity - 1) -> Int], captures : SUBSET Captures]
Debouncers == [start : Int, recovery : D!Zero..Longest, active : BOOLEAN, seq : Nat]

DumpsTyped ==
  /\ heard \in Nat /\ capturer \in Capturers /\ dDet \in [Detectors -> Debouncers]
  /\ owed \subseteq Detectors \X Nat /\ \A d \in encoding : d.trigger \in Detectors /\ d.id \in Nat

\* The recovery of an incident is confirmed, and its dump cut, while the ring still has
\* the audio after it; a chunk is shorter than that audio.
RecoveryInRing ==
  /\ Longest + 2 <= D!Capacity
  /\ After >= 2 /\ Before + MaxIncident >= 1

LEMMA Sizes ==
  ASSUME DumpsAssumption, RecoveryInRing
  PROVE  /\ D!Capacity \in Nat \ {0} /\ D!Capacity = Before + MaxIncident + After /\ After + 1 <= D!Capacity
         /\ Longest \in Nat /\ Return \in Nat /\ Return >= 1 /\ Return <= Longest
         /\ Before \in Nat /\ MaxIncident \in Nat /\ After \in Nat /\ After >= 2
BY DEF DumpsAssumption, RecoveryInRing, D!Capacity, Longest

\* The smaller of two numbers.
LEMMA LeastIs ==
  ASSUME NEW a \in Nat, NEW b \in Nat
  PROVE  /\ D!Least(a, b) \in Nat /\ D!Least(a, b) <= a /\ D!Least(a, b) <= b
         /\ (a <= b => D!Least(a, b) = a) /\ (b <= a => D!Least(a, b) = b)
BY DEF D!Least

\* Positions less than n apart are in different places of a ring of n.
LEMMA ModOf == ASSUME NEW p \in Nat, NEW n \in Nat, n > 0 PROVE \E a \in Int : p = n * a + (p % n)
BY SMTT(30)
LEMMA ModRange == ASSUME NEW p \in Nat, NEW n \in Nat, n > 0 PROVE p % n \in 0..(n - 1)
BY SMTT(30)
LEMMA NoMultiple == ASSUME NEW a \in Int, NEW n \in Nat, 0 < n * a, n * a < n PROVE FALSE
<1>1. CASE a <= 0
  BY <1>1
<1>2. CASE a >= 1
  BY <1>2
<1>. QED BY <1>1, <1>2
LEMMA ModDiffer == ASSUME NEW p \in Nat, NEW q \in Nat, NEW n \in Nat, n > 0, p < q, q < p + n PROVE p % n # q % n
<1>1. SUFFICES ASSUME p % n = q % n PROVE FALSE
  OBVIOUS
<1>2. p % n \in Int /\ q % n \in Int
  BY ModRange
<1>3. PICK a \in Int, b \in Int : p = n * a + (p % n) /\ q = n * b + (q % n)
  BY ModOf
<1>4. b - a \in Int /\ q - p = n * (b - a)
  BY <1>1, <1>2, <1>3
<1>. QED BY <1>4, NoMultiple

\* A chunk that is written takes the place of one that no position of the ring has any more.
LEMMA RingWritten ==
  ASSUME DumpsAssumption, RecoveryInRing, NEW c \in Capturers, NEW h \in Int, RingFits(c, h), NEW v,
         v.ring = [c.ring EXCEPT ![c.total % D!Capacity] = h + 1], v.total = c.total + 1
  PROVE  RingFits(v, h + 1) /\ v.ring \in [0..(D!Capacity - 1) -> Int] /\ First(v, h + 1) = First(c, h)
<1> DEFINE n == D!Capacity
<1>1. n \in Nat /\ n > 0 /\ c.total \in Nat /\ c.ring \in [0..(n - 1) -> Int]
  BY Sizes DEF Capturers
<1> HIDE DEF n
<1>2. c.total % n \in 0..(n - 1)
  BY <1>1, ModRange
<1>3. v.ring \in [0..(n - 1) -> Int]
  BY <1>1, <1>2 DEF n
<1>4. First(v, h + 1) = First(c, h) /\ First(c, h) \in Int
  BY <1>1 DEF First
<1>5. ASSUME NEW p \in 0..(v.total - 1), p >= v.total - n PROVE v.ring[p % n] = First(v, h + 1) + p
  <2>1. CASE p = c.total
    BY <1>1, <1>2, <2>1 DEF First, n
  <2>2. CASE p # c.total
    <3>1. p \in 0..(c.total - 1) /\ p >= c.total - n /\ p \in Nat /\ p < c.total /\ c.total < p + n
      BY <1>1, <1>5, <2>2
    <3>2. p % n # c.total % n /\ p % n \in 0..(n - 1)
      BY <1>1, <3>1, ModDiffer, ModRange
    <3>3. c.ring[p % n] = First(c, h) + p
      BY <3>1 DEF RingFits, n
    <3>. QED BY <1>1, <1>2, <1>4, <3>2, <3>3 DEF n
  <2>. QED BY <2>1, <2>2
<1>. QED BY <1>3, <1>4, <1>5 DEF RingFits, n

\* What is read from positions the ring still has.
LEMMA RingRead ==
  ASSUME DumpsAssumption, RecoveryInRing, NEW c \in Capturers, NEW h \in Int, RingFits(c, h),
         NEW pos \in Nat, NEW n \in Nat, pos + n <= c.total, pos >= c.total - D!Capacity
  PROVE  /\ D!FromRing(c.ring, pos, n) = [i \in 1..n |-> First(c, h) + pos + i - 1]
         /\ D!FromRing(c.ring, pos, n) \in Seq(Int) /\ Len(D!FromRing(c.ring, pos, n)) = n
<1> DEFINE m == D!Capacity
           f == First(c, h)
<1>1. m \in Nat /\ m > 0 /\ c.total \in Nat /\ f \in Int
  BY Sizes DEF Capturers, First
<1> HIDE DEF m, f
<1>2. ASSUME NEW i \in 1..n PROVE c.ring[(pos + i - 1) % m] = f + pos + i - 1
  <2>1. pos + i - 1 \in 0..(c.total - 1) /\ pos + i - 1 >= c.total - m
    BY <1>1 DEF m
  <2>2. c.ring[(pos + i - 1) % m] = f + (pos + i - 1)
    BY ONLY RingFits(c, h), <2>1 DEF RingFits, m, f
  <2>. QED BY <1>1, <2>2
<1>3. D!FromRing(c.ring, pos, n) = [i \in 1..n |-> f + pos + i - 1]
  BY <1>2 DEF D!FromRing, m
<1>4. [i \in 1..n |-> f + pos + i - 1] \in Seq(Int) /\ Len([i \in 1..n |-> f + pos + i - 1]) = n
  BY <1>1
<1>. QED BY <1>3, <1>4 DEF f

\* Three runs of chunks, one after the other.
LEMMA Run == ASSUME NEW n \in Nat, NEW x \in Int PROVE [i \in 1..n |-> x + i - 1] \in Seq(Int) /\ Len([i \in 1..n |-> x + i - 1]) = n
OBVIOUS
LEMMA Joined ==
  ASSUME NEW s \in Seq(Int), NEW t \in Seq(Int)
  PROVE  /\ s \o t \in Seq(Int) /\ Len(s) \in Nat /\ Len(t) \in Nat /\ Len(s \o t) = Len(s) + Len(t)
         /\ \A i \in 1..(Len(s) + Len(t)) : (s \o t)[i] = IF i <= Len(s) THEN s[i] ELSE t[i - Len(s)]
BY ConcatProperties, LenProperties
LEMMA Spliced ==
  ASSUME NEW n \in Nat, NEW m \in Nat, NEW l \in Nat, NEW x \in Int, NEW y \in Int, NEW z \in Int
  PROVE  [i \in 1..n |-> x + i - 1] \o [i \in 1..m |-> y + i - 1] \o [i \in 1..l |-> z + i - 1]
           = [i \in 1..(n + m + l) |-> IF i <= n THEN x + i - 1 ELSE IF i <= n + m THEN y + i - n - 1 ELSE z + i - n - m - 1]
<1>1. PICK a, b, d : /\ a = [i \in 1..n |-> x + i - 1] /\ b = [i \in 1..m |-> y + i - 1]
                     /\ d = [i \in 1..l |-> z + i - 1]
  OBVIOUS
<1>2. a \in Seq(Int) /\ b \in Seq(Int) /\ d \in Seq(Int) /\ Len(a) = n /\ Len(b) = m /\ Len(d) = l
  BY <1>1, Run
<1>3. a \o b \in Seq(Int) /\ Len(a \o b) = n + m
      /\ \A i \in 1..(n + m) : (a \o b)[i] = IF i <= n THEN a[i] ELSE b[i - n]
  BY <1>2, Joined
<1>4. a \o b \o d \in Seq(Int) /\ Len(a \o b \o d) = n + m + l
      /\ \A i \in 1..(n + m + l) : (a \o b \o d)[i] = IF i <= n + m THEN (a \o b)[i] ELSE d[i - (n + m)]
  <2>1. PICK u : u = a \o b
    OBVIOUS
  <2>2. u \in Seq(Int) /\ Len(u) = n + m
    BY <1>3, <2>1
  <2>3. u \o d \in Seq(Int) /\ Len(u \o d) = n + m + l
        /\ \A i \in 1..(n + m + l) : (u \o d)[i] = IF i <= n + m THEN u[i] ELSE d[i - (n + m)]
    <3>1. u \o d \in Seq(Int) /\ Len(u \o d) = Len(u) + Len(d)
          /\ \A i \in 1..(Len(u) + Len(d)) : (u \o d)[i] = IF i <= Len(u) THEN u[i] ELSE d[i - Len(u)]
      BY ONLY <1>2, <2>2, Joined
    <3>2. Len(u) + Len(d) = n + m + l
      BY <1>2, <2>2
    <3>. QED BY ONLY <2>2, <3>1, <3>2
  <2>. QED BY ONLY <2>1, <2>3
<1>5. ASSUME NEW i \in 1..(n + m + l)
      PROVE  (a \o b \o d)[i] = IF i <= n THEN x + i - 1 ELSE IF i <= n + m THEN y + i - n - 1 ELSE z + i - n - m - 1
  <2>0. i \in Int /\ n \in Int /\ m \in Int
    OBVIOUS
  <2>1. CASE i <= n
    BY <1>1, <1>3, <1>4, <2>1
  <2>2. CASE ~(i <= n) /\ i <= n + m
    BY <1>1, <1>3, <1>4, <2>2
  <2>3. CASE ~(i <= n + m)
    <3>1. ~(i <= n)
      BY <2>0, <2>3
    <3>2. (a \o b \o d)[i] = d[i - (n + m)] /\ i - (n + m) \in 1..l
      BY <1>4, <2>3
    <3>3. d[i - (n + m)] = z + i - n - m - 1
      BY <1>1, <3>2
    <3>. QED BY ONLY <2>3, <3>1, <3>2, <3>3
  <2>. QED BY ONLY <2>1, <2>2, <2>3
<1>6. PICK u : u = a \o b \o d
  OBVIOUS
<1>7. u \in Seq(Int) /\ Len(u) = n + m + l
  BY ONLY <1>4, <1>6
<1>8. u = [i \in 1..(n + m + l) |-> u[i]]
  BY ONLY <1>7, LenProperties
<1>9. u = [i \in 1..(n + m + l) |-> IF i <= n THEN x + i - 1 ELSE IF i <= n + m THEN y + i - n - 1 ELSE z + i - n - m - 1]
  BY ONLY <1>5, <1>6, <1>8
<1>. QED BY ONLY <1>1, <1>6, <1>9

\* What is cut out while the ring has the audio after the incident is the audio around it.
LEMMA DumpCut ==
  ASSUME DumpsAssumption, RecoveryInRing, NEW c \in Capturers, NEW h \in Int, RingFits(c, h),
         NEW k \in Captures, CaptureFits(c, h, k), k.recovered, k.end + After <= c.total, c.total <= k.end + D!Capacity
  PROVE  DumpFits(D!Extracted(c, k)) /\ D!Extracted(c, k).trigger = k.trigger /\ D!Extracted(c, k).id = k.id
<1> DEFINE n == D!Least(k.start, Before)
           m == D!Least(k.end - k.start, MaxIncident)
           e == D!Extracted(c, k)
<1>1. /\ k.start \in Nat /\ k.end \in Nat /\ k.start <= k.end /\ k.base \in Int /\ k.base = First(c, h)
      /\ k.before = [i \in 1..n |-> k.base + k.start - n + i - 1]
      /\ k.inside \in Seq(Int) /\ k.inside = [i \in 1..Len(k.inside) |-> k.base + k.start + i - 1]
      /\ Len(k.inside) <= MaxIncident /\ Len(k.inside) >= m
  BY DEF Captures, CaptureFits
<1>2. /\ n \in Nat /\ n <= k.start /\ m \in Nat /\ m <= k.end - k.start /\ m <= Len(k.inside) /\ Len(k.inside) \in Nat
      /\ D!Least(k.end - k.start, Len(k.inside)) = m
  <2>1. k.start \in Int /\ k.end - k.start \in Nat /\ Before \in Nat /\ MaxIncident \in Nat /\ Len(k.inside) \in Nat
    <3>1. k.start \in Int /\ k.end - k.start \in Nat
      BY ONLY <1>1
    <3>2. Before \in Nat /\ MaxIncident \in Nat
      BY Sizes
    <3>3. Len(k.inside) \in Nat
      BY ONLY <1>1, LenProperties
    <3>. QED BY ONLY <3>1, <3>2, <3>3
  <2>2. n \in Nat /\ n <= k.start
    BY ONLY <1>1, <2>1, LeastIs
  <2>3. /\ m \in Nat /\ m <= k.end - k.start
        /\ (k.end - k.start <= MaxIncident => m = k.end - k.start)
        /\ (MaxIncident <= k.end - k.start => m = MaxIncident)
    BY ONLY <2>1, LeastIs
  <2>4. PICK x, y : x = k.end - k.start /\ y = Len(k.inside)
    OBVIOUS
  <2>5. x \in Nat /\ y \in Nat /\ MaxIncident \in Nat /\ y <= MaxIncident /\ y >= m
        /\ (x <= MaxIncident => m = x) /\ (MaxIncident <= x => m = MaxIncident)
    BY ONLY <1>1, <2>1, <2>3, <2>4
  <2>6. D!Least(x, y) = m
    <3>1. CASE x <= MaxIncident
      BY ONLY <2>5, <3>1, LeastIs
    <3>2. CASE MaxIncident <= x
      BY ONLY <2>3, <2>5, <3>2, LeastIs
    <3>. QED BY ONLY <2>5, <3>1, <3>2
  <2>7. D!Least(k.end - k.start, Len(k.inside)) = m
    BY ONLY <2>4, <2>6
  <2>. QED BY ONLY <1>1, <2>1, <2>2, <2>3, <2>7
<1>3. SubSeq(k.inside, 1, m) = [i \in 1..m |-> k.base + k.start + i - 1]
  <2>1. PICK s, j : s = k.inside /\ j = m
    OBVIOUS
  <2>2. s \in Seq(Int) /\ j \in Nat /\ j <= Len(s) /\ k.base + k.start \in Int
    BY <1>1, <1>2, <2>1
  <2>3. SubSeq(s, 1, j) = [i \in 1..j |-> s[i]]
    BY ONLY <2>2
  <2>4. s = [i \in 1..Len(s) |-> k.base + k.start + i - 1]
    BY ONLY <1>1, <2>1
  <2>5. \A i \in 1..j : s[i] = k.base + k.start + i - 1
    BY <2>2, <2>4
  <2>. QED BY ONLY <2>1, <2>3, <2>5
<1>4. D!FromRing(c.ring, k.end, After) = [i \in 1..After |-> k.base + k.end + i - 1]
  <2>1. After \in Nat /\ D!Capacity \in Nat /\ c.total \in Nat /\ k.end \in Nat
    BY ONLY <1>1, Sizes, DumpsAssumption, RecoveryInRing, c \in Capturers DEF Capturers
  <2>2. k.end >= c.total - D!Capacity
    BY ONLY <2>1, c.total <= k.end + D!Capacity
  <2>3. D!FromRing(c.ring, k.end, After) = [i \in 1..After |-> First(c, h) + k.end + i - 1]
    BY <2>1, <2>2, RingRead
  <2>. QED BY ONLY <1>1, <2>3
<1>5. /\ e.pcm = k.before \o SubSeq(k.inside, 1, m) \o D!FromRing(c.ring, k.end, After)
      /\ e.base = k.base /\ e.from = k.start /\ e.to = k.end /\ e.trigger = k.trigger /\ e.id = k.id
  BY <1>2 DEF D!Extracted
<1> HIDE DEF e
<1>6. e.pcm = [i \in 1..n |-> k.base + k.start - n + i - 1] \o [i \in 1..m |-> k.base + k.start + i - 1]
                \o [i \in 1..After |-> k.base + k.end + i - 1]
  BY ONLY <1>1, <1>3, <1>4, <1>5
<1> HIDE DEF n, m
<1>7. e.pcm = [i \in 1..(n + m + After) |-> IF i <= n THEN k.base + k.start - n + i - 1
                                            ELSE IF i <= n + m THEN k.base + k.start + i - n - 1
                                            ELSE k.base + k.end + i - n - m - 1]
  BY ONLY <1>1, <1>2, <1>6, Sizes, DumpsAssumption, RecoveryInRing, Spliced
<1>8. e.pcm = [i \in 1..(n + m + After) |-> k.base + (IF i <= n + m THEN k.start - n ELSE k.end - n - m) + i - 1]
  <2>1. \A i \in 1..(n + m + After) :
          (IF i <= n THEN k.base + k.start - n + i - 1
           ELSE IF i <= n + m THEN k.base + k.start + i - n - 1 ELSE k.base + k.end + i - n - m - 1)
            = k.base + (IF i <= n + m THEN k.start - n ELSE k.end - n - m) + i - 1
    <3>1. After \in Nat /\ n \in Nat /\ m \in Nat /\ k.base \in Int /\ k.start \in Int /\ k.end \in Int
      <4>1. k.base \in Int /\ k.start \in Int /\ k.end \in Int
        BY ONLY <1>1
      <4>2. n \in Nat /\ m \in Nat
        BY ONLY <1>2
      <4>. QED BY ONLY <4>1, <4>2, DumpsAssumption DEF DumpsAssumption
    <3>. QED BY ONLY <3>1
  <2>. QED BY ONLY <1>7, <2>1
<1>9. DumpFits(e)
  BY <1>5, <1>8 DEF DumpFits, n, m
<1>. QED BY <1>5, <1>9 DEF e

-------------------------------------------------------------------------------
(* A chunk is written                                                      *)

Grow(k, x) == [k EXCEPT !.inside = IF ~k.recovered /\ Len(@) < MaxIncident THEN Append(@, x) ELSE @]

\* All of a capture but its audio.
Same(q, k) ==
  /\ q.trigger = k.trigger /\ q.id = k.id /\ q.start = k.start /\ q.end = k.end /\ q.recovered = k.recovered
  /\ q.before = k.before /\ q.base = k.base /\ Since(q) = Since(k)

LEMMA GrowFields ==
  ASSUME NEW k \in Captures, NEW x \in Int
  PROVE  /\ Grow(k, x) \in Captures /\ Same(Grow(k, x), k)
         /\ Grow(k, x).inside = IF ~k.recovered /\ Len(k.inside) < MaxIncident THEN Append(k.inside, x) ELSE k.inside
<1>1. k.inside \in Seq(Int) /\ Append(k.inside, x) \in Seq(Int)
  BY DEF Captures
<1>2. Grow(k, x).inside = IF ~k.recovered /\ Len(k.inside) < MaxIncident THEN Append(k.inside, x) ELSE k.inside
  BY DEF Grow, Captures
<1>3. Grow(k, x) \in Captures
  BY <1>1 DEF Grow, Captures
<1>4. Same(Grow(k, x), k)
  BY DEF Grow, Captures, Same, Since
<1>. QED BY <1>2, <1>3, <1>4

LEMMA WrittenIs ==
  ASSUME DumpsAssumption, RecoveryInRing, NEW c \in Capturers, NEW x \in Int
  PROVE  /\ D!Written(c, x) \in Capturers
         /\ D!Written(c, x).enabled = c.enabled /\ D!Written(c, x).total = c.total + 1
         /\ D!Written(c, x).ring = [c.ring EXCEPT ![c.total % D!Capacity] = x]
         /\ D!Written(c, x).captures = {Grow(k, x) : k \in c.captures}
<1> DEFINE v == D!Written(c, x)
           n == D!Capacity
<1>0. /\ c = [enabled |-> c.enabled, total |-> c.total, ring |-> c.ring, captures |-> c.captures]
      /\ c.enabled \in BOOLEAN /\ c.total \in Nat /\ c.ring \in [0..(n - 1) -> Int] /\ c.captures \subseteq Captures
  BY DEF Capturers
<1>1. v = [enabled |-> c.enabled, total |-> c.total + 1, ring |-> [c.ring EXCEPT ![c.total % n] = x],
           captures |-> {Grow(k, x) : k \in c.captures}]
  <2>1. PICK a, s : a = [c.ring EXCEPT ![c.total % n] = x] /\ s = {Grow(k, x) : k \in c.captures}
    OBVIOUS
  <2>2. v = [c EXCEPT !.ring = a, !.total = c.total + 1, !.captures = s]
    BY ONLY <2>1 DEF D!Written, Grow
  <2>3. v = [enabled |-> c.enabled, total |-> c.total + 1, ring |-> a, captures |-> s]
    BY ONLY <1>0, <2>2
  <2>. QED BY ONLY <2>1, <2>3
<1> HIDE DEF v
<1>2. c.total % n \in 0..(n - 1)
  BY <1>0, Sizes, ModRange
<1>3. [c.ring EXCEPT ![c.total % n] = x] \in [0..(n - 1) -> Int]
  BY <1>0, <1>2
<1>4. {Grow(k, x) : k \in c.captures} \subseteq Captures
  BY <1>0, GrowFields
<1>5. v \in Capturers
  BY <1>0, <1>1, <1>3, <1>4 DEF Capturers
<1>. QED BY <1>1, <1>5 DEF v

\* One more chunk.
LEMMA AppendRun ==
  ASSUME NEW s \in Seq(Int), NEW y \in Int, s = [i \in 1..Len(s) |-> y + i - 1]
  PROVE  /\ Append(s, y + Len(s)) = [i \in 1..Len(Append(s, y + Len(s))) |-> y + i - 1]
         /\ Len(Append(s, y + Len(s))) = Len(s) + 1
<1>1. PICK t : t = Append(s, y + Len(s))
  OBVIOUS
<1>2. Len(s) \in Nat
  BY LenProperties
<1>3. /\ t \in Seq(Int) /\ Len(t) = Len(s) + 1
      /\ \A i \in 1..Len(s) : t[i] = s[i]
      /\ t[Len(s) + 1] = y + Len(s)
  BY <1>1, <1>2
<1>4. \A i \in 1..Len(t) : t[i] = y + i - 1
  <2>1. ASSUME NEW i \in 1..Len(t) PROVE t[i] = y + i - 1
    <3>1. CASE i = Len(s) + 1
      BY <1>2, <1>3, <3>1
    <3>2. CASE i # Len(s) + 1
      <4>1. i \in 1..Len(s)
        BY <1>2, <1>3, <3>2
      <4>2. s[i] = y + i - 1
        BY ONLY <4>1, s = [j \in 1..Len(s) |-> y + j - 1]
      <4>. QED BY <1>3, <4>1, <4>2
    <3>. QED BY <3>1, <3>2
  <2>. QED BY <2>1
<1>5. t = [i \in 1..Len(t) |-> t[i]]
  BY <1>3, LenProperties
<1>6. t = [i \in 1..Len(t) |-> y + i - 1]
  BY <1>4, <1>5
<1>. QED BY ONLY <1>1, <1>3, <1>6

\* A capture that is open takes the chunk in until it has enough.
LEMMA GrowFits ==
  ASSUME DumpsAssumption, RecoveryInRing, NEW c \in Capturers, NEW h \in Int, NEW k \in Captures, CaptureFits(c, h, k),
         NEW v, v.total = c.total + 1, First(v, h + 1) = First(c, h)
  PROVE  CaptureFits(v, h + 1, Grow(k, h + 1))
<1> DEFINE q == Grow(k, h + 1)
           s == k.inside
<1>1. /\ c.total \in Nat /\ MaxIncident \in Nat
      /\ k.start \in Nat /\ k.end \in Nat /\ k.base \in Int /\ s \in Seq(Int) /\ Len(s) \in Nat /\ k.recovered \in BOOLEAN
  BY Sizes, LenProperties DEF Capturers, Captures
<1>2. /\ k.base = First(c, h) /\ k.start <= c.total
      /\ k.before = [i \in 1..D!Least(k.start, Before) |-> k.base + k.start - D!Least(k.start, Before) + i - 1]
      /\ s = [i \in 1..Len(s) |-> k.base + k.start + i - 1]
      /\ Len(s) <= MaxIncident
      /\ IF k.recovered THEN k.start <= k.end /\ Len(s) >= D!Least(k.end - k.start, MaxIncident)
                        ELSE Len(s) = D!Least(c.total - k.start, MaxIncident)
  BY DEF CaptureFits
<1>3. Same(q, k) /\ q.inside = IF ~k.recovered /\ Len(s) < MaxIncident THEN Append(s, h + 1) ELSE s
  BY GrowFields
<1> HIDE DEF q
<1>4. /\ q.base = First(v, h + 1) /\ q.start <= v.total /\ q.base = k.base /\ q.start = k.start
      /\ q.recovered = k.recovered /\ q.end = k.end
      /\ q.before = [i \in 1..D!Least(q.start, Before) |-> q.base + q.start - D!Least(q.start, Before) + i - 1]
  BY ONLY <1>1, <1>2, <1>3, v.total = c.total + 1, First(v, h + 1) = First(c, h) DEF Same
<1>5. CASE ~k.recovered /\ Len(s) < MaxIncident
  <2>1. PICK l, m : l = c.total - k.start /\ m = Len(s)
    OBVIOUS
  <2>2. l \in Nat /\ m \in Nat /\ m < MaxIncident /\ MaxIncident \in Nat /\ m = D!Least(l, MaxIncident)
    <3>1. k.start <= c.total
      BY ONLY <1>2
    <3>2. l \in Nat
      BY ONLY <1>1, <2>1, <3>1
    <3>3. m = D!Least(l, MaxIncident)
      BY ONLY <1>2, <1>5, <2>1
    <3>. QED BY ONLY <1>1, <1>5, <2>1, <3>2, <3>3
  <2>3. m = l
    BY ONLY <2>2, LeastIs
  <2>4. D!Least(l + 1, MaxIncident) = m + 1
    <3>1. l + 1 \in Nat /\ l + 1 <= MaxIncident /\ MaxIncident \in Nat
      BY ONLY <2>2, <2>3
    <3>. QED BY ONLY <2>3, <3>1, LeastIs
  <2>5. v.total - k.start = l + 1
    BY <1>1, <2>1
  <2>6. k.base + k.start \in Int /\ h + 1 = k.base + k.start + m
    <3>1. k.base = h - c.total + 1 /\ m = c.total - k.start /\ c.total \in Int /\ k.start \in Int /\ k.base \in Int
      BY ONLY <1>1, <1>2, <2>1, <2>3 DEF First
    <3>. QED BY ONLY <3>1, h \in Int
  <2>7. q.inside = Append(s, h + 1)
    BY <1>3, <1>5
  <2>8. PICK y : y = k.base + k.start
    OBVIOUS
  <2>9. y \in Int /\ s = [i \in 1..Len(s) |-> y + i - 1] /\ h + 1 = y + Len(s)
    BY ONLY <1>2, <2>1, <2>6, <2>8
  <2>10. q.inside = [i \in 1..Len(q.inside) |-> y + i - 1] /\ Len(q.inside) = Len(s) + 1
    BY ONLY <1>1, <2>7, <2>9, AppendRun
  <2>11. q.inside = [i \in 1..Len(q.inside) |-> q.base + q.start + i - 1] /\ Len(q.inside) = m + 1
    BY ONLY <1>4, <2>1, <2>8, <2>10
  <2>12. Len(q.inside) <= MaxIncident /\ ~q.recovered /\ Len(q.inside) = D!Least(v.total - q.start, MaxIncident)
    BY ONLY <1>4, <1>5, <2>2, <2>4, <2>5, <2>11
  <2>. QED BY ONLY <1>4, <2>11, <2>12 DEF CaptureFits, q
<1>6. CASE k.recovered \/ ~(Len(s) < MaxIncident)
  <2>1. q.inside = s
    BY <1>3, <1>6
  <2>2. q.inside = [i \in 1..Len(q.inside) |-> q.base + q.start + i - 1] /\ Len(q.inside) <= MaxIncident
    BY ONLY <1>2, <1>4, <2>1
  <2>3. CASE k.recovered
    BY ONLY <1>2, <1>4, <2>1, <2>2, <2>3 DEF CaptureFits, q
  <2>4. CASE ~k.recovered
    <3>1. PICK l : l = c.total - k.start
      OBVIOUS
    <3>2. l \in Nat /\ MaxIncident \in Nat /\ D!Least(l, MaxIncident) = MaxIncident /\ Len(s) = MaxIncident
      <4>1. k.start <= c.total /\ Len(s) <= MaxIncident
        BY ONLY <1>2
      <4>2. l \in Nat
        BY ONLY <1>1, <3>1, <4>1
      <4>3. Len(s) = D!Least(l, MaxIncident)
        BY ONLY <1>2, <2>4, <3>1
      <4>4. ~(Len(s) < MaxIncident)
        BY ONLY <1>6, <2>4
      <4>. QED BY ONLY <1>1, <4>1, <4>2, <4>3, <4>4
    <3>3. l + 1 \in Nat /\ MaxIncident <= l + 1
      BY ONLY <3>2, LeastIs
    <3>4. D!Least(l + 1, MaxIncident) = MaxIncident
      BY ONLY <3>2, <3>3, LeastIs
    <3>5. v.total - q.start = l + 1
      BY <1>1, <1>4, <3>1
    <3>. QED BY ONLY <1>4, <2>1, <2>2, <2>4, <3>2, <3>4, <3>5 DEF CaptureFits, q
  <2>. QED BY <2>3, <2>4
<1>. QED BY <1>1, <1>5, <1>6 DEF q

LEMMA WrittenFits ==
  ASSUME DumpsAssumption, RecoveryInRing, NEW c \in Capturers, NEW h \in Int, CapturerFits(c, h), c.enabled
  PROVE  CapturerFits(D!Written(c, h + 1), h + 1)
<1>1. PICK v : v = D!Written(c, h + 1)
  OBVIOUS
<1>2. /\ v.enabled = c.enabled /\ v.total = c.total + 1 /\ v.ring = [c.ring EXCEPT ![c.total % D!Capacity] = h + 1]
      /\ v.captures = {Grow(k, h + 1) : k \in c.captures}
  <2>1. h + 1 \in Int
    OBVIOUS
  <2>. QED BY ONLY <1>1, <2>1, c \in Capturers, DumpsAssumption, RecoveryInRing, WrittenIs
<1>3. RingFits(v, h + 1) /\ First(v, h + 1) = First(c, h)
  BY <1>2, RingWritten DEF CapturerFits
<1>4. \A k \in c.captures : k \in Captures /\ CaptureFits(c, h, k)
  BY DEF Capturers, CapturerFits
<1>5. \A k \in c.captures : CaptureFits(v, h + 1, Grow(k, h + 1))
  BY <1>2, <1>3, <1>4, GrowFits
<1>6. \A q \in v.captures : CaptureFits(v, h + 1, q)
  BY ONLY <1>2, <1>5
<1>. QED BY ONLY <1>1, <1>2, <1>3, <1>6, c.enabled DEF CapturerFits

\* The order of the captures and their numbers stay; all are one chunk older.
LEMMA WrittenOrder ==
  ASSUME DumpsAssumption, RecoveryInRing, NEW c \in Capturers, NEW x \in Int, NEW t
  PROVE  /\ Past(c, t, 0) => Past(D!Written(c, x), t, 1)
         /\ Apart(c, t) => Apart(D!Written(c, x), t)
         /\ \A d : NumbersFit(c, d, t) => NumbersFit(D!Written(c, x), d, t)
<1>1. PICK v : v = D!Written(c, x)
  OBVIOUS
<1>2. v.total = c.total + 1 /\ v.captures = {Grow(k, x) : k \in c.captures}
  BY <1>1, WrittenIs
<1>3. \A k \in c.captures : k \in Captures /\ Same(Grow(k, x), k)
  BY GrowFields DEF Capturers
<1>4. \A q \in Of(v, t) : \E k \in Of(c, t) : q = Grow(k, x) /\ Same(q, k) /\ k \in Captures
  BY ONLY <1>2, <1>3 DEF Of, Same
<1>5. c.total \in Nat
  BY DEF Capturers
<1>6. Past(c, t, 0) => Past(v, t, 1)
  <2>1. SUFFICES ASSUME Past(c, t, 0), NEW q \in Of(v, t)
                 PROVE  (IF q.recovered THEN q.end + 1 ELSE q.start) <= v.total - 1
    BY DEF Past
  <2>2. PICK k \in Of(c, t) : Same(q, k) /\ k \in Captures
    BY <1>4
  <2>3. (IF k.recovered THEN k.end + 1 ELSE k.start) <= c.total
    BY <1>5, <2>1, <2>2 DEF Past, Captures
  <2>. QED BY <1>2, <1>5, <2>2, <2>3 DEF Same, Captures
<1>7. Apart(c, t) => Apart(v, t)
  <2>1. SUFFICES ASSUME Apart(c, t), NEW p \in Of(v, t), NEW q \in Of(v, t), p # q
                 PROVE  /\ p.id # q.id
                        /\ Since(p) + 2 <= Since(q) \/ Since(q) + 2 <= Since(p)
                        /\ ~q.recovered => p.recovered /\ Since(p) + 2 <= Since(q)
    BY DEF Apart
  <2>2. PICK j \in Of(c, t) : p = Grow(j, x) /\ Same(p, j)
    BY <1>4
  <2>3. PICK k \in Of(c, t) : q = Grow(k, x) /\ Same(q, k)
    BY <1>4
  <2>4. j # k
    BY <2>1, <2>2, <2>3
  <2>. QED BY <2>1, <2>2, <2>3, <2>4 DEF Apart, Same
<1>8. ASSUME NEW d, NumbersFit(c, d, t) PROVE NumbersFit(v, d, t)
  BY <1>4, <1>8 DEF NumbersFit, Same
<1>. QED BY <1>1, <1>6, <1>7, <1>8

-------------------------------------------------------------------------------
(* One of the complete captures is encoded                                 *)

\* What is complete when a chunk has been written: one capture and nothing else soon; or
\* at most one of each trigger, followed by no other of its trigger soon.
Single(c) == \E b \in D!Complete(c) : D!Complete(c) = {b} /\ c.total <= b.end + D!Capacity
OnTime(c) ==
  \A b \in D!Complete(c) :
    /\ c.total <= b.end + After \/ c.total <= b.end + Longest + 1
    /\ \A k \in c.captures : k # b /\ k.trigger = b.trigger => Since(k) + After >= c.total + 2

LEMMA CompleteIs ==
  ASSUME DumpsAssumption, NEW c \in Capturers, NEW k
  PROVE  /\ k \in D!Complete(c) <=> k \in c.captures /\ k.recovered /\ c.total >= k.end + After
         /\ k \in D!Complete(c) => Since(k) = k.end
BY DEF D!Complete, Since

LEMMA CaptureParts ==
  ASSUME NEW c \in Capturers, NEW k \in c.captures
  PROVE  /\ k \in Captures /\ k.trigger \in Detectors /\ k.id \in Nat /\ k.start \in Nat /\ k.end \in Nat
         /\ k.recovered \in BOOLEAN /\ k.base \in Int /\ Since(k) \in Nat /\ c.total \in Nat
BY DEF Capturers, Captures, Since

LEMMA WrittenBacklog ==
  ASSUME DumpsAssumption, RecoveryInRing, NEW c \in Capturers, NEW x \in Int,
         \A t \in Detectors : Apart(c, t), OneLeft(c) \/ AllFresh(c)
  PROVE  Single(D!Written(c, x)) \/ OnTime(D!Written(c, x))
<1>1. PICK v : v = D!Written(c, x)
  OBVIOUS
<1>2. v \in Capturers /\ v.total = c.total + 1 /\ v.captures = {Grow(k, x) : k \in c.captures}
  BY <1>1, WrittenIs
<1>3. \A k \in c.captures : Same(Grow(k, x), k)
  BY GrowFields, CaptureParts
<1>4. After \in Nat /\ Longest \in Nat /\ D!Capacity \in Nat /\ After + 1 <= D!Capacity /\ Longest + 2 <= D!Capacity
  BY Sizes DEF RecoveryInRing
<1>5. ASSUME NEW k \in c.captures
      PROVE  Grow(k, x) \in D!Complete(v) <=> k.recovered /\ c.total + 1 >= k.end + After
  BY <1>2, <1>3, CompleteIs DEF Same
<1>6. CASE OneLeft(c)
  <2>1. PICK b \in D!Complete(c) :
          /\ D!Complete(c) = {b} /\ (c.total <= b.end + After \/ c.total <= b.end + Longest + 1)
          /\ \A k \in c.captures : k # b => Since(k) + After >= c.total + 2
    BY <1>6 DEF OneLeft
  <2>2. b \in c.captures /\ b.recovered /\ c.total >= b.end + After /\ b.end \in Nat /\ c.total \in Nat
    BY <2>1, CompleteIs, CaptureParts
  <2>3. Grow(b, x) \in D!Complete(v) /\ Grow(b, x).end = b.end
    BY <1>3, <1>4, <1>5, <2>2 DEF Same
  <2>4. ASSUME NEW k \in c.captures, Grow(k, x) \in D!Complete(v) PROVE k = b
    <3>1. k.recovered /\ c.total + 1 >= k.end + After /\ Since(k) = k.end /\ k.end \in Nat
      BY <1>5, <2>4, CaptureParts DEF Since
    <3>. QED BY <1>4, <2>1, <2>2, <3>1
  <2>5. D!Complete(v) = {Grow(b, x)}
    <3>1. \A q \in D!Complete(v) : q \in v.captures
      BY <1>2, CompleteIs
    <3>. QED BY <1>2, <2>3, <2>4, <3>1
  <2>6. v.total <= Grow(b, x).end + D!Capacity
    BY <1>2, <1>4, <2>1, <2>2, <2>3
  <2>. QED BY <1>1, <2>3, <2>5, <2>6 DEF Single
<1>7. CASE AllFresh(c)
  <2>1. SUFFICES ASSUME NEW q \in D!Complete(v)
                 PROVE  /\ v.total <= q.end + After \/ v.total <= q.end + Longest + 1
                        /\ \A p \in v.captures : p # q /\ p.trigger = q.trigger => Since(p) + After >= v.total + 2
    BY <1>1 DEF OnTime
  <2>2. PICK k \in c.captures : q = Grow(k, x)
    BY <1>2, CompleteIs
  <2>3. /\ k.recovered /\ c.total + 1 >= k.end + After /\ Same(q, k) /\ k.end \in Nat /\ c.total \in Nat
        /\ Since(k) = k.end /\ k.trigger \in Detectors
    BY <1>3, <1>5, <2>1, <2>2, CaptureParts DEF Since
  <2>4. CASE k \in D!Complete(c)
    <3>1. /\ c.total <= k.end + Longest
          /\ \A j \in c.captures : j # k /\ j.trigger = k.trigger => Since(j) + After >= c.total + 3
      BY <1>7, <2>4 DEF AllFresh
    <3>2. v.total <= q.end + Longest + 1
      BY <1>2, <1>4, <2>3, <3>1 DEF Same
    <3>3. ASSUME NEW p \in v.captures, p # q, p.trigger = q.trigger PROVE Since(p) + After >= v.total + 2
      <4>1. PICK j \in c.captures : p = Grow(j, x)
        BY <1>2
      <4>2. j # k /\ Same(p, j) /\ Since(j) \in Nat
        BY <1>3, <2>2, <3>3, <4>1, CaptureParts
      <4>3. Since(j) + After >= c.total + 3 /\ Since(p) = Since(j)
        BY <2>3, <3>1, <3>3, <4>2 DEF Same
      <4>. QED BY <1>2, <1>4, <2>3, <4>2, <4>3
    <3>. QED BY <3>2, <3>3
  <2>5. CASE k \notin D!Complete(c)
    <3>1. k.end + After = c.total + 1
      BY <1>4, <2>3, <2>5, CompleteIs
    <3>2. v.total <= q.end + After
      BY <1>2, <2>3, <3>1 DEF Same
    <3>3. ASSUME NEW p \in v.captures, p # q, p.trigger = q.trigger PROVE Since(p) + After >= v.total + 2
      <4>1. PICK j \in c.captures : p = Grow(j, x)
        BY <1>2
      <4>2. j # k /\ Same(p, j) /\ j.trigger = k.trigger /\ Since(p) = Since(j) /\ Since(j) \in Nat
        BY <1>3, <2>2, <2>3, <3>3, <4>1, CaptureParts DEF Same
      <4>3. /\ Since(j) + 2 <= Since(k) \/ Since(k) + 2 <= Since(j)
            /\ ~j.recovered => Since(k) + 2 <= Since(j)
        BY <2>3, <4>2 DEF Apart, Of
      <4>4. CASE Since(k) + 2 <= Since(j)
        BY <1>2, <1>4, <2>3, <3>1, <4>2, <4>4
      <4>5. CASE ~(Since(k) + 2 <= Since(j))
        <5>1. j.recovered /\ Since(j) + 2 <= Since(k) /\ Since(j) = j.end
          BY <4>3, <4>5 DEF Since
        <5>2. j \in D!Complete(c)
          BY <1>4, <2>3, <3>1, <4>2, <5>1, CompleteIs
        <5>3. Since(k) + After >= c.total + 3
          BY <1>7, <4>2, <5>2 DEF AllFresh
        <5>. QED BY <1>4, <2>3, <3>1, <5>3
      <4>. QED BY <4>4, <4>5
    <3>. QED BY <3>2, <3>3
  <2>. QED BY <2>4, <2>5
<1>. QED BY <1>6, <1>7

\* One capture fewer, and its dump; or nothing is complete.
LEMMA FinalizedIs ==
  ASSUME NEW c \in Capturers, NEW f \in D!Finalized(c)
  PROVE  /\ f.c \in Capturers /\ f.c.enabled = c.enabled /\ f.c.total = c.total /\ f.c.ring = c.ring
         /\ \/ D!Complete(c) = {} /\ f.c = c /\ f.dumps = {}
            \/ \E k \in D!Complete(c) : f.c.captures = c.captures \ {k} /\ f.dumps = {D!Extracted(c, k)}
<1>1. CASE D!Complete(c) = {}
  <2>1. f = [c |-> c, dumps |-> {}]
    BY <1>1 DEF D!Finalized
  <2>. QED BY <1>1, <2>1
<1>2. CASE D!Complete(c) # {}
  <2>1. PICK k \in D!Complete(c) : f = [c |-> [c EXCEPT !.captures = @ \ {k}], dumps |-> {D!Extracted(c, k)}]
    BY <1>2 DEF D!Finalized
  <2>2. f.c = [c EXCEPT !.captures = @ \ {k}] /\ f.dumps = {D!Extracted(c, k)}
    BY <2>1
  <2>3. /\ f.c \in Capturers /\ f.c.enabled = c.enabled /\ f.c.total = c.total /\ f.c.ring = c.ring
        /\ f.c.captures = c.captures \ {k}
    BY <2>2 DEF Capturers
  <2>. QED BY <2>2, <2>3
<1>. QED BY <1>1, <1>2

\* With fewer captures the others are as they were.
LEMMA FewerCaptures ==
  ASSUME NEW c \in Capturers, NEW b \in Capturers, b.enabled = c.enabled, b.total = c.total, b.ring = c.ring,
         b.captures \subseteq c.captures
  PROVE  /\ \A h : CapturerFits(c, h) => CapturerFits(b, h)
         /\ \A t, lag : Past(c, t, lag) => Past(b, t, lag)
         /\ \A t : Apart(c, t) => Apart(b, t)
         /\ \A d, t : NumbersFit(c, d, t) => NumbersFit(b, d, t)
<1>1. \A h, k : CaptureFits(c, h, k) => CaptureFits(b, h, k)
  BY DEF CaptureFits, First
<1>2. \A h : RingFits(c, h) => RingFits(b, h)
  BY DEF RingFits, First
<1>3. \A h : CapturerFits(c, h) => CapturerFits(b, h)
  <2>1. SUFFICES ASSUME NEW h, CapturerFits(c, h) PROVE CapturerFits(b, h)
    OBVIOUS
  <2>. QED BY <1>1, <1>2, <2>1 DEF CapturerFits
<1>4. \A t : Of(b, t) \subseteq Of(c, t)
  BY DEF Of
<1>5. \A t, lag : Past(c, t, lag) => Past(b, t, lag)
  BY <1>4 DEF Past
<1>6. \A t : Apart(c, t) => Apart(b, t)
  BY <1>4 DEF Apart
<1>7. \A d, t : NumbersFit(c, d, t) => NumbersFit(b, d, t)
  BY <1>4 DEF NumbersFit
<1>. QED BY <1>3, <1>5, <1>6, <1>7

\* After a write at most one capture is complete, and then nothing else is soon.
LEMMA Served ==
  ASSUME DumpsAssumption, RecoveryInRing, NEW c \in Capturers, Single(c) \/ OnTime(c), NEW f \in D!Finalized(c)
  PROVE  OneLeft(f.c) \/ D!Complete(f.c) = {}
<1>1. CASE D!Complete(c) = {}
  BY <1>1, FinalizedIs
<1>2. CASE D!Complete(c) # {}
  <2>1. PICK s \in D!Complete(c) : f.c.captures = c.captures \ {s}
    BY <1>2, FinalizedIs
  <2>2. f.c \in Capturers /\ f.c.total = c.total
    BY FinalizedIs
  <2>3. D!Complete(f.c) = D!Complete(c) \ {s}
    BY <2>1, <2>2 DEF D!Complete
  <2>4. CASE Single(c)
    BY <2>1, <2>3, <2>4 DEF Single
  <2>5. CASE OnTime(c)
    <3>1. SUFFICES ASSUME NEW b \in D!Complete(c), b # s PROVE OneLeft(f.c)
      BY <2>3
    <3>2. ASSUME NEW p \in D!Complete(c), NEW q \in D!Complete(c), p # q PROVE p.trigger # q.trigger
      <4>1. SUFFICES ASSUME p.trigger = q.trigger PROVE FALSE
        OBVIOUS
      <4>2. q \in c.captures /\ Since(q) = q.end /\ c.total >= q.end + After
        BY CompleteIs
      <4>3. Since(q) + After >= c.total + 2
        BY <2>5, <3>2, <4>1, <4>2 DEF OnTime
      <4>4. q.end \in Nat /\ c.total \in Nat /\ After \in Nat
        BY <4>2, CaptureParts, Sizes
      <4>. QED BY <4>2, <4>3, <4>4
    <3>3. \A p \in c.captures : p.trigger \in {"silence", "channel_imbalance"}
      BY CaptureParts DEF Detectors
    <3>4. \A p \in D!Complete(c) : p \in c.captures
      BY CompleteIs
    <3>5. D!Complete(f.c) = {b}
      BY <2>3, <3>1, <3>2, <3>3, <3>4
    <3>6. \A k \in c.captures : k # b /\ k # s => k.trigger = b.trigger \/ k.trigger = s.trigger
      BY <2>1, <3>1, <3>2, <3>3, <3>4
    <3>7. \A k \in c.captures : k # b /\ k # s => Since(k) + After >= c.total + 2
      BY <2>1, <2>5, <3>1, <3>6 DEF OnTime
    <3>8. c.total <= b.end + After \/ c.total <= b.end + Longest + 1
      BY <2>5, <3>1 DEF OnTime
    <3>. QED BY <2>1, <2>2, <3>5, <3>7, <3>8 DEF OneLeft
  <2>. QED BY <2>4, <2>5
<1>. QED BY <1>1, <1>2

\* What is encoded is the audio around its incident.
LEMMA DumpsCut ==
  ASSUME DumpsAssumption, RecoveryInRing, NEW c \in Capturers, NEW h \in Int, CapturerFits(c, h),
         Single(c) \/ OnTime(c), NEW k \in D!Complete(c)
  PROVE  DumpFits(D!Extracted(c, k)) /\ D!Extracted(c, k).trigger = k.trigger /\ D!Extracted(c, k).id = k.id
<1>1. k \in c.captures /\ k.recovered /\ c.total >= k.end + After
  BY CompleteIs
<1>2. k \in Captures /\ k.end \in Nat /\ c.total \in Nat /\ After \in Nat
  BY <1>1, CaptureParts, Sizes
<1>3. c.total <= k.end + D!Capacity
  <2>1. CASE Single(c)
    BY <2>1 DEF Single
  <2>2. CASE OnTime(c)
    <3>1. c.total <= k.end + After \/ c.total <= k.end + Longest + 1
      BY <2>2 DEF OnTime
    <3>2. After + 1 <= D!Capacity /\ Longest + 2 <= D!Capacity /\ D!Capacity \in Nat /\ Longest \in Nat
      BY Sizes DEF RecoveryInRing
    <3>. QED BY <1>2, <3>1, <3>2
  <2>. QED BY <2>1, <2>2
<1>4. RingFits(c, h) /\ CaptureFits(c, h, k)
  BY <1>1 DEF CapturerFits
<1>. QED BY <1>1, <1>2, <1>3, <1>4, DumpCut

-------------------------------------------------------------------------------
(* The detectors have seen the chunk                                       *)

\* What is complete when the detectors of T have not been heard: one capture that had to
\* wait, or what other detectors have just found recovered.
Waits(c, T) == OneLeft(c) \/ (AllFresh(c) /\ \A b \in D!Complete(c) : b.trigger \notin T)

\* v is c after the incident of trigger t has begun or recovered.
Turned(c, v, t) ==
  /\ v \in Capturers /\ v.enabled = c.enabled /\ v.total = c.total /\ v.ring = c.ring
  /\ \A u \in Detectors : u # t => Of(v, u) = Of(c, u)
  /\ \A k \in c.captures : k.recovered => k \in v.captures

\* An incident that begins takes what the ring has of the time before.
LEMMA NewCaptureFits ==
  ASSUME DumpsAssumption, RecoveryInRing, NEW c \in Capturers, NEW h \in Int, RingFits(c, h), NEW n, NEW k,
         n = D!Least(c.total, Before), k.start = c.total, k.recovered = FALSE, k.base = First(c, h),
         k.before = D!FromRing(c.ring, c.total - n, n), k.inside = <<>>
  PROVE  CaptureFits(c, h, k) /\ k.before \in Seq(Int) /\ k.inside \in Seq(Int)
<1>1. c.total \in Nat /\ Before \in Nat /\ MaxIncident \in Nat /\ D!Capacity \in Nat /\ Before <= D!Capacity
  BY Sizes DEF Capturers
<1>2. n \in Nat /\ n <= c.total /\ n <= Before
  BY <1>1, LeastIs
<1>3. PICK p : p = c.total - n
  OBVIOUS
<1>4. p \in Nat /\ p + n <= c.total /\ p >= c.total - D!Capacity
  BY ONLY <1>1, <1>2, <1>3
<1>5. k.before = [i \in 1..n |-> First(c, h) + p + i - 1] /\ k.before \in Seq(Int)
  BY <1>2, <1>3, <1>4, RingRead
<1>6. First(c, h) \in Int
  BY <1>1 DEF First
<1>7. \A i \in 1..n : First(c, h) + p + i - 1 = First(c, h) + c.total - n + i - 1
  BY ONLY <1>1, <1>2, <1>3, <1>6
<1>8. k.before = [i \in 1..D!Least(k.start, Before) |-> k.base + k.start - D!Least(k.start, Before) + i - 1]
  <2>1. k.before = [i \in 1..n |-> First(c, h) + c.total - n + i - 1]
    BY ONLY <1>5, <1>7
  <2>. QED BY ONLY <2>1, n = D!Least(c.total, Before), k.start = c.total, k.base = First(c, h)
<1>9. k.inside \in Seq(Int) /\ Len(k.inside) = 0
  OBVIOUS
<1>10. k.inside = [i \in 1..Len(k.inside) |-> k.base + k.start + i - 1]
  <2>1. k.inside = [i \in 1..Len(k.inside) |-> k.inside[i]]
    BY ONLY <1>9, LenProperties
  <2>2. \A i \in 1..Len(k.inside) : FALSE
    BY ONLY <1>9
  <2>. QED BY ONLY <2>1, <2>2
<1>11. Len(k.inside) = D!Least(c.total - k.start, MaxIncident) /\ Len(k.inside) <= MaxIncident
  <2>1. c.total - k.start = 0
    BY ONLY <1>1, k.start = c.total
  <2>2. D!Least(0, MaxIncident) = 0
    BY ONLY <1>1, LeastIs
  <2>. QED BY ONLY <1>1, <1>9, <2>1, <2>2
<1>12. k.start <= c.total
  BY ONLY <1>1, k.start = c.total
<1>13. CaptureFits(c, h, k)
  BY ONLY <1>8, <1>10, <1>11, <1>12, k.base = First(c, h), k.recovered = FALSE DEF CaptureFits
<1>. QED BY <1>5, <1>9, <1>13

LEMMA StartedIs ==
  ASSUME DumpsAssumption, RecoveryInRing, NEW c \in Capturers, heard \in Nat, CapturerFits(c, heard + 1), c.enabled,
         NEW t \in Detectors, NEW id \in Nat
  PROVE  \E k \in Captures :
           /\ k.trigger = t /\ k.id = id /\ k.start = c.total /\ ~k.recovered /\ CaptureFits(c, heard + 1, k)
           /\ D!Started(c, t, id) = [c EXCEPT !.captures = (c.captures \ D!Replaced(c.captures, t)) \cup {k}]
<1> DEFINE n == D!Least(c.total, Before)
<1>1. PICK a : a = D!FromRing(c.ring, c.total - n, n)
  OBVIOUS
<1>2. PICK b : b = heard + 2 - c.total
  OBVIOUS
<1>3. PICK k : k = [trigger |-> t, id |-> id, start |-> c.total, end |-> 0, recovered |-> FALSE,
                    before |-> a, inside |-> <<>>, base |-> b]
  OBVIOUS
<1>4. c.total \in Nat /\ b \in Int /\ b = First(c, heard + 1)
  BY <1>2 DEF First, Capturers
<1>5. /\ k.trigger = t /\ k.id = id /\ k.start = c.total /\ k.recovered = FALSE /\ k.base = First(c, heard + 1)
      /\ k.before = D!FromRing(c.ring, c.total - n, n) /\ k.inside = <<>>
  BY ONLY <1>1, <1>3, <1>4
<1>6. heard + 1 \in Int /\ RingFits(c, heard + 1)
  BY DEF CapturerFits
<1>7. PICK m : m = n
  OBVIOUS
<1>8. CaptureFits(c, heard + 1, k) /\ k.before \in Seq(Int) /\ k.inside \in Seq(Int)
  BY ONLY DumpsAssumption, RecoveryInRing, c \in Capturers, <1>5, <1>6, <1>7, NewCaptureFits
<1>9. k \in Captures
  <2>1. a \in Seq(Int) /\ <<>> \in Seq(Int)
    BY ONLY <1>3, <1>8
  <2>. QED BY ONLY <1>3, <1>4, <2>1, t \in Detectors, id \in Nat DEF Captures
<1>10. D!Started(c, t, id) = [c EXCEPT !.captures = (c.captures \ D!Replaced(c.captures, t)) \cup {k}]
  BY ONLY <1>1, <1>2, <1>3, c.enabled DEF D!Started
<1>. QED BY <1>5, <1>8, <1>9, <1>10

\* An incident has begun.
LEMMA StartedTurns ==
  ASSUME DumpsAssumption, RecoveryInRing, NEW c \in Capturers, heard \in Nat, CapturerFits(c, heard + 1), c.enabled,
         NEW t \in Detectors, NEW id \in Nat, Past(c, t, 1), Apart(c, t), \A k \in Of(c, t) : k.id < id,
         NEW T, t \in T, Waits(c, T), NEW d, d.seq = id, d.active
  PROVE  /\ Turned(c, D!Started(c, t, id), t) /\ CapturerFits(D!Started(c, t, id), heard + 1)
         /\ Past(D!Started(c, t, id), t, 0) /\ Apart(D!Started(c, t, id), t) /\ NumbersFit(D!Started(c, t, id), d, t)
         /\ Waits(D!Started(c, t, id), T \ {t})
<1>1. PICK v : v = D!Started(c, t, id)
  OBVIOUS
<1>2. PICK n \in Captures :
        /\ n.trigger = t /\ n.id = id /\ n.start = c.total /\ ~n.recovered /\ CaptureFits(c, heard + 1, n)
        /\ v = [c EXCEPT !.captures = (c.captures \ D!Replaced(c.captures, t)) \cup {n}]
  BY <1>1, StartedIs
<1>3. PICK s : s = c.captures \ D!Replaced(c.captures, t)
  OBVIOUS
<1>4. /\ s \subseteq c.captures
      /\ \A k \in c.captures : k \in s <=> (k.trigger # t \/ k.recovered)
  BY <1>3 DEF D!Replaced
<1>5. /\ v \in Capturers /\ v.enabled = c.enabled /\ v.total = c.total /\ v.ring = c.ring
      /\ v.captures = s \cup {n}
  <2>1. v = [c EXCEPT !.captures = s \cup {n}]
    BY ONLY <1>2, <1>3
  <2>2. s \cup {n} \subseteq Captures
    BY <1>2, <1>4 DEF Capturers
  <2>. QED BY ONLY <2>1, <2>2, c \in Capturers DEF Capturers
<1>6. Turned(c, v, t)
  <2>1. ASSUME NEW u \in Detectors, u # t PROVE Of(v, u) = Of(c, u)
    BY <1>2, <1>4, <1>5, <2>1 DEF Of
  <2>. QED BY <1>4, <1>5, <2>1 DEF Turned
<1>7. CapturerFits(v, heard + 1)
  <2>1. \A k : CaptureFits(c, heard + 1, k) => CaptureFits(v, heard + 1, k)
    BY <1>5 DEF CaptureFits, First
  <2>2. RingFits(v, heard + 1)
    BY <1>5 DEF CapturerFits, RingFits, First
  <2>3. \A k \in v.captures : CaptureFits(v, heard + 1, k)
    BY <1>2, <1>4, <1>5, <2>1 DEF CapturerFits
  <2>4. v.enabled
    BY <1>5
  <2>. QED BY <2>2, <2>3, <2>4 DEF CapturerFits
<1>8. Of(v, t) = {k \in Of(c, t) : k.recovered} \cup {n}
  BY <1>2, <1>4, <1>5 DEF Of
<1>9. c.total \in Nat /\ Since(n) = c.total /\ \A k \in Of(c, t) : k \in c.captures
  BY <1>2 DEF Capturers, Since, Of
<1>10. Past(v, t, 0)
  <2>1. ASSUME NEW k \in Of(v, t) PROVE (IF k.recovered THEN k.end + 1 ELSE k.start) <= v.total - 0
    <3>1. CASE k = n
      BY <1>2, <1>5, <1>9, <3>1
    <3>2. CASE k \in Of(c, t) /\ k.recovered
      <4>1. k.end + 1 <= c.total - 1 /\ k.end \in Nat
        BY <1>9, <3>2, CaptureParts DEF Past
      <4>. QED BY <1>5, <1>9, <3>2, <4>1
    <3>. QED BY <1>8, <3>1, <3>2
  <2>. QED BY <2>1 DEF Past
<1>11. Apart(v, t)
  <2>1. ASSUME NEW k \in Of(c, t), k.recovered PROVE k.id # n.id /\ Since(k) + 2 <= Since(n)
    <3>1. k.end + 1 <= c.total - 1 /\ k.end \in Nat /\ k.id \in Nat /\ Since(k) = k.end
      BY <1>9, <2>1, CaptureParts DEF Past, Since
    <3>. QED BY <1>2, <1>9, <3>1
  <2>2. SUFFICES ASSUME NEW j \in Of(v, t), NEW k \in Of(v, t), j # k
                 PROVE  /\ j.id # k.id
                        /\ Since(j) + 2 <= Since(k) \/ Since(k) + 2 <= Since(j)
                        /\ ~k.recovered => j.recovered /\ Since(j) + 2 <= Since(k)
    BY DEF Apart
  <2>3. CASE j = n
    BY <1>8, <2>1, <2>2, <2>3
  <2>4. CASE k = n
    BY <1>8, <2>1, <2>2, <2>4
  <2>5. CASE j \in Of(c, t) /\ k \in Of(c, t) /\ k.recovered
    BY <2>2, <2>5 DEF Apart
  <2>. QED BY <1>8, <2>3, <2>4, <2>5
<1>12. NumbersFit(v, d, t)
  <2>1. \A k \in Of(c, t) : k.id < id /\ k.id \in Nat
    BY <1>9, CaptureParts
  <2>2. ASSUME NEW k \in Of(v, t)
        PROVE  k.id <= d.seq /\ (k.id = d.seq => IF d.active THEN ~k.recovered ELSE d.start = D!Zero)
    <3>1. CASE k = n
      BY ONLY <1>2, <3>1, id \in Nat, d.seq = id, d.active
    <3>2. CASE k \in Of(c, t)
      <4>1. k.id \in Nat /\ k.id < id
        BY ONLY <2>1, <3>2
      <4>. QED BY ONLY <4>1, id \in Nat, d.seq = id
    <3>. QED BY ONLY <1>8, <2>2, <3>1, <3>2
  <2>. QED BY <2>2 DEF NumbersFit
<1>13. Waits(v, T \ {t})
  <2>1. D!Complete(v) = D!Complete(c)
    BY <1>2, <1>4, <1>5 DEF D!Complete
  <2>2. After \in Nat /\ After >= 2 /\ \A b \in D!Complete(c) : b \in c.captures
    BY Sizes, CompleteIs
  <2>3. CASE OneLeft(c)
    <3>1. PICK b \in D!Complete(c) :
            /\ D!Complete(c) = {b} /\ (c.total <= b.end + After \/ c.total <= b.end + Longest + 1)
            /\ \A k \in c.captures : k # b => Since(k) + After >= c.total + 2
      BY <2>3 DEF OneLeft
    <3>2. Since(n) + After >= c.total + 2
      BY <1>9, <2>2
    <3>3. \A k \in v.captures : k # b => Since(k) + After >= v.total + 2
      BY <1>4, <1>5, <3>1, <3>2
    <3>. QED BY <1>5, <2>1, <3>1, <3>3 DEF Waits, OneLeft
  <2>4. CASE AllFresh(c) /\ \A b \in D!Complete(c) : b.trigger \notin T
    <3>1. AllFresh(v)
      <4>1. ASSUME NEW b \in D!Complete(c)
            PROVE  /\ v.total <= b.end + Longest
                   /\ \A k \in v.captures : k # b /\ k.trigger = b.trigger => Since(k) + After >= v.total + 3
        <5>1. b.trigger # t
          BY <2>4
        <5>. QED BY <1>2, <1>4, <1>5, <2>4, <5>1 DEF AllFresh
      <4>. QED BY <2>1, <4>1 DEF AllFresh
    <3>. QED BY <2>1, <2>4, <3>1 DEF Waits
  <2>. QED BY <2>3, <2>4 DEF Waits
<1>. QED BY <1>1, <1>6, <1>7, <1>10, <1>11, <1>12, <1>13

\* The recovery of the incident whose capture is k.
Back(c, k, took) == [k EXCEPT !.recovered = TRUE, !.end = IF k.start < c.total - took THEN c.total - took ELSE k.start]

LEMMA BackFields ==
  ASSUME DumpsAssumption, RecoveryInRing, NEW c \in Capturers, NEW h \in Int, NEW k \in Captures, CaptureFits(c, h, k),
         ~k.recovered, k.start <= c.total - 1, NEW took \in Return..Longest
  PROVE  LET q == Back(c, k, took) IN
         /\ q \in Captures /\ q.trigger = k.trigger /\ q.id = k.id /\ q.recovered /\ Since(q) = q.end
         /\ k.start <= q.end /\ q.end + 1 <= c.total /\ c.total <= q.end + Longest
         /\ CaptureFits(c, h, q)
<1> DEFINE q == Back(c, k, took)
<1>1. PICK e : e = IF k.start < c.total - took THEN c.total - took ELSE k.start
  OBVIOUS
<1>2. c.total \in Nat /\ k.start \in Nat /\ Return \in Nat /\ Return >= 1 /\ Longest \in Nat /\ took \in Int
  BY Sizes DEF Capturers, Captures
<1>3. e \in Nat /\ k.start <= e /\ e + 1 <= c.total /\ c.total <= e + Longest
  BY <1>1, <1>2
<1>4. q = [k EXCEPT !.recovered = TRUE, !.end = e]
  BY ONLY <1>1 DEF Back
<1> HIDE DEF q
<1>5. /\ q \in Captures /\ q.trigger = k.trigger /\ q.id = k.id /\ q.recovered /\ q.end = e /\ q.start = k.start
      /\ q.before = k.before /\ q.inside = k.inside /\ q.base = k.base
  BY ONLY <1>3, <1>4, k \in Captures DEF Captures
<1>6. Len(k.inside) >= D!Least(e - k.start, MaxIncident)
  <2>1. PICK x, y : x = c.total - k.start /\ y = e - k.start
    OBVIOUS
  <2>2. x \in Nat /\ y \in Nat /\ y <= x /\ MaxIncident \in Nat
    BY <1>2, <1>3, <2>1, Sizes
  <2>3. Len(k.inside) = D!Least(x, MaxIncident)
    BY <2>1 DEF CaptureFits
  <2>4. D!Least(y, MaxIncident) <= D!Least(x, MaxIncident)
    BY ONLY <2>2 DEF D!Least
  <2>5. D!Least(y, MaxIncident) \in Nat /\ D!Least(x, MaxIncident) \in Nat
    BY ONLY <2>2, LeastIs
  <2>. QED BY ONLY <2>1, <2>3, <2>4, <2>5
<1>7. /\ k.base = First(c, h) /\ k.start <= c.total /\ Len(k.inside) <= MaxIncident
      /\ k.before = [i \in 1..D!Least(k.start, Before) |-> k.base + k.start - D!Least(k.start, Before) + i - 1]
      /\ k.inside = [i \in 1..Len(k.inside) |-> k.base + k.start + i - 1]
  BY DEF CaptureFits
<1>8. CaptureFits(c, h, q)
  BY ONLY <1>3, <1>5, <1>6, <1>7 DEF CaptureFits
<1>9. Since(q) = q.end
  BY <1>5 DEF Since
<1>. QED BY ONLY <1>3, <1>5, <1>8, <1>9 DEF q

\* Without a capture of it, the recovery of an incident changes nothing.
LEMMA NothingRecovered ==
  ASSUME NEW c \in Capturers, NEW t, NEW id, NEW took, \A k \in Of(c, t) : k.id # id
  PROVE  D!Recovered(c, t, id, took) = c
<1>1. \A k \in c.captures : ~(k.trigger = t /\ k.id = id)
  BY DEF Of
<1>2. {IF k.trigger = t /\ k.id = id /\ c.enabled THEN Back(c, k, took) ELSE k : k \in c.captures} = c.captures
  BY <1>1
<1>3. c = [c EXCEPT !.captures = c.captures]
  BY DEF Capturers
<1>4. PICK s : s = {IF k.trigger = t /\ k.id = id /\ c.enabled THEN Back(c, k, took) ELSE k : k \in c.captures}
  OBVIOUS
<1>5. D!Recovered(c, t, id, took) = [c EXCEPT !.captures = s]
  BY ONLY <1>4 DEF D!Recovered, Back
<1>. QED BY ONLY <1>2, <1>3, <1>4, <1>5

\* Otherwise one capture is done.
LEMMA OneRecovered ==
  ASSUME NEW c \in Capturers, NEW t, NEW took, Apart(c, t), c.enabled, NEW k \in Of(c, t)
  PROVE  D!Recovered(c, t, k.id, took) = [c EXCEPT !.captures = (c.captures \ {k}) \cup {Back(c, k, took)}]
<1>1. \A j \in c.captures : (j.trigger = t /\ j.id = k.id) <=> j = k
  BY DEF Of, Apart
<1>2. k \in c.captures
  BY DEF Of
<1>3. {IF j.trigger = t /\ j.id = k.id /\ c.enabled THEN Back(c, j, took) ELSE j : j \in c.captures}
        = (c.captures \ {k}) \cup {Back(c, k, took)}
  BY <1>1, <1>2
<1>4. PICK i, s : i = k.id /\ s = {IF j.trigger = t /\ j.id = i /\ c.enabled THEN Back(c, j, took) ELSE j : j \in c.captures}
  OBVIOUS
<1>5. D!Recovered(c, t, i, took) = [c EXCEPT !.captures = s]
  BY ONLY <1>4 DEF D!Recovered, Back
<1>. QED BY ONLY <1>3, <1>4, <1>5

\* A detector that says nothing leaves the captures as they are.
LEMMA NothingTurns ==
  ASSUME NEW c \in Capturers, NEW t \in Detectors, Past(c, t, 1), NEW T, Waits(c, T)
  PROVE  Turned(c, c, t) /\ Past(c, t, 0) /\ Waits(c, T \ {t})
<1>1. Turned(c, c, t)
  BY DEF Turned
<1>2. ASSUME NEW k \in Of(c, t) PROVE (IF k.recovered THEN k.end + 1 ELSE k.start) <= c.total - 0
  <2>1. (IF k.recovered THEN k.end + 1 ELSE k.start) <= c.total - 1
    BY DEF Past
  <2>2. k.end \in Nat /\ k.start \in Nat /\ c.total \in Nat
    BY CaptureParts DEF Of
  <2>. QED BY <2>1, <2>2
<1>3. Waits(c, T \ {t})
  BY DEF Waits
<1>. QED BY <1>1, <1>2, <1>3 DEF Past

\* An incident has recovered.
LEMMA RecoveredTurns ==
  ASSUME DumpsAssumption, RecoveryInRing, NEW c \in Capturers, NEW h \in Int, CapturerFits(c, h),
         NEW t \in Detectors, NEW id \in Nat, Past(c, t, 1), Apart(c, t),
         \A k \in Of(c, t) : k.id <= id /\ (k.id = id => ~k.recovered),
         NEW T, t \in T, Waits(c, T), NEW d, d.seq = id, ~d.active, d.start = D!Zero, NEW took \in Return..Longest
  PROVE  /\ Turned(c, D!Recovered(c, t, id, took), t) /\ CapturerFits(D!Recovered(c, t, id, took), h)
         /\ Past(D!Recovered(c, t, id, took), t, 0) /\ Apart(D!Recovered(c, t, id, took), t)
         /\ NumbersFit(D!Recovered(c, t, id, took), d, t)
         /\ Waits(D!Recovered(c, t, id, took), T \ {t})
         /\ \A k \in Of(c, t) : k.id = id => \E q \in D!Recovered(c, t, id, took).captures :
                                                q.recovered /\ q.trigger = t /\ q.id = id
<1>1. CASE \A k \in Of(c, t) : k.id # id
  <2>1. D!Recovered(c, t, id, took) = c
    BY <1>1, NothingRecovered
  <2>2. Turned(c, c, t) /\ Past(c, t, 0) /\ Waits(c, T \ {t})
    BY NothingTurns
  <2>3. NumbersFit(c, d, t)
    BY <1>1 DEF NumbersFit
  <2>. QED BY <1>1, <2>1, <2>2, <2>3
<1>2. ASSUME NEW k \in Of(c, t), k.id = id
      PROVE  /\ Turned(c, D!Recovered(c, t, id, took), t) /\ CapturerFits(D!Recovered(c, t, id, took), h)
             /\ Past(D!Recovered(c, t, id, took), t, 0) /\ Apart(D!Recovered(c, t, id, took), t)
             /\ NumbersFit(D!Recovered(c, t, id, took), d, t)
             /\ Waits(D!Recovered(c, t, id, took), T \ {t})
             /\ \E q \in D!Recovered(c, t, id, took).captures : q.recovered /\ q.trigger = t /\ q.id = id
  <2>1. PICK v : v = D!Recovered(c, t, id, took)
    OBVIOUS
  <2>2. /\ k \in c.captures /\ k.trigger = t /\ ~k.recovered /\ k \in Captures /\ k.start \in Nat /\ c.total \in Nat
        /\ Since(k) = k.start
    BY <1>2, CaptureParts DEF Of, Since
  <2>3. k.start <= c.total - 1 /\ CaptureFits(c, h, k) /\ c.enabled
    BY <2>2 DEF Past, CapturerFits
  <2>4. PICK q : q = Back(c, k, took)
    OBVIOUS
  <2>5. /\ q \in Captures /\ q.trigger = t /\ q.id = id /\ q.recovered /\ Since(q) = q.end
        /\ k.start <= q.end /\ q.end + 1 <= c.total /\ c.total <= q.end + Longest
        /\ CaptureFits(c, h, q)
    BY <1>2, <2>2, <2>3, <2>4, BackFields
  <2>6. v = [c EXCEPT !.captures = (c.captures \ {k}) \cup {q}]
    <3>1. D!Recovered(c, t, k.id, took) = [c EXCEPT !.captures = (c.captures \ {k}) \cup {Back(c, k, took)}]
      BY <2>3, OneRecovered
    <3>. QED BY ONLY <1>2, <2>1, <2>4, <3>1
  <2>7. /\ v \in Capturers /\ v.enabled = c.enabled /\ v.total = c.total /\ v.ring = c.ring
        /\ v.captures = (c.captures \ {k}) \cup {q}
    BY ONLY <2>5, <2>6, c \in Capturers DEF Capturers
  <2>8. q.end \in Nat /\ After \in Nat /\ \A j \in c.captures : Since(j) \in Nat /\ j.end \in Nat /\ j.start \in Nat
    BY <2>5, CaptureParts, Sizes DEF Captures
  <2>9. Turned(c, v, t)
    <3>1. ASSUME NEW u \in Detectors, u # t PROVE Of(v, u) = Of(c, u)
      BY <2>2, <2>5, <2>7, <3>1 DEF Of
    <3>. QED BY <2>2, <2>7, <3>1 DEF Turned
  <2>10. CapturerFits(v, h)
    <3>1. \A j : CaptureFits(c, h, j) => CaptureFits(v, h, j)
      BY <2>7 DEF CaptureFits, First
    <3>2. RingFits(v, h)
      BY <2>7 DEF CapturerFits, RingFits, First
    <3>3. \A j \in v.captures : CaptureFits(v, h, j)
      BY <2>5, <2>7, <3>1 DEF CapturerFits
    <3>. QED BY <2>3, <2>7, <3>2, <3>3 DEF CapturerFits
  <2>11. Of(v, t) = (Of(c, t) \ {k}) \cup {q}
    BY <2>2, <2>5, <2>7 DEF Of
  <2>12. ASSUME NEW j \in Of(c, t), j # k
         PROVE  j.recovered /\ j.id # id /\ Since(j) + 2 <= Since(q) /\ j \in c.captures /\ Since(j) = j.end
    <3>1. j.recovered /\ j.id # k.id /\ Since(j) + 2 <= Since(k)
      BY <2>2, <2>12 DEF Apart
    <3>2. j \in c.captures /\ Since(j) = j.end
      BY <3>1 DEF Of, Since
    <3>. QED BY <1>2, <2>2, <2>5, <2>8, <3>1, <3>2
  <2>13. Past(v, t, 0)
    <3>1. ASSUME NEW j \in Of(v, t) PROVE (IF j.recovered THEN j.end + 1 ELSE j.start) <= v.total - 0
      <4>1. CASE j = q
        BY <2>2, <2>5, <2>7, <2>8, <4>1
      <4>2. CASE j \in Of(c, t) /\ j # k
        <5>1. j.recovered /\ j.end + 1 <= c.total - 1 /\ j.end \in Nat
          BY <2>8, <2>12, <4>2 DEF Past
        <5>. QED BY <2>2, <2>7, <5>1
      <4>. QED BY <2>11, <4>1, <4>2
    <3>. QED BY <3>1 DEF Past
  <2>14. Apart(v, t)
    <3>1. SUFFICES ASSUME NEW i \in Of(v, t), NEW j \in Of(v, t), i # j
                   PROVE  /\ i.id # j.id
                          /\ Since(i) + 2 <= Since(j) \/ Since(j) + 2 <= Since(i)
                          /\ ~j.recovered => i.recovered /\ Since(i) + 2 <= Since(j)
      BY DEF Apart
    <3>2. CASE i = q
      BY <2>5, <2>11, <2>12, <3>1, <3>2
    <3>3. CASE j = q
      BY <2>5, <2>11, <2>12, <3>1, <3>3
    <3>4. CASE i # q /\ j # q
      BY <2>11, <2>12, <3>1, <3>4 DEF Apart
    <3>. QED BY <3>2, <3>3, <3>4
  <2>15. NumbersFit(v, d, t)
    BY <2>5, <2>11 DEF NumbersFit
  <2>16. D!Complete(c) \subseteq D!Complete(v) /\ D!Complete(v) \subseteq D!Complete(c) \cup {q}
    BY <2>2, <2>7 DEF D!Complete
  <2>17. Waits(v, T \ {t})
    <3>1. CASE OneLeft(c)
      <4>1. PICK b \in D!Complete(c) :
              /\ D!Complete(c) = {b} /\ (c.total <= b.end + After \/ c.total <= b.end + Longest + 1)
              /\ \A j \in c.captures : j # b => Since(j) + After >= c.total + 2
        BY <3>1 DEF OneLeft
      <4>2. b \in c.captures /\ b # k
        BY <2>2, <4>1, CompleteIs
      <4>3. Since(q) + After >= c.total + 2
        BY <2>2, <2>5, <2>8, <4>1, <4>2
      <4>4. q \notin D!Complete(v)
        BY <2>2, <2>5, <2>7, <2>8, <4>3, CompleteIs
      <4>5. D!Complete(v) = {b}
        BY <2>16, <4>1, <4>4
      <4>6. \A j \in v.captures : j # b => Since(j) + After >= v.total + 2
        BY <2>7, <4>1, <4>3
      <4>. QED BY <2>7, <4>1, <4>5, <4>6 DEF Waits, OneLeft
    <3>2. CASE AllFresh(c) /\ \A b \in D!Complete(c) : b.trigger \notin T
      <4>1. ASSUME NEW b \in D!Complete(c)
            PROVE  /\ v.total <= b.end + Longest
                   /\ \A j \in v.captures : j # b /\ j.trigger = b.trigger => Since(j) + After >= v.total + 3
        <5>1. b.trigger # t
          BY <3>2
        <5>. QED BY <2>5, <2>7, <3>2, <5>1 DEF AllFresh
      <4>2. ASSUME q \in D!Complete(v)
            PROVE  /\ v.total <= q.end + Longest
                   /\ \A j \in v.captures : j # q /\ j.trigger = q.trigger => Since(j) + After >= v.total + 3
        <5>1. ASSUME NEW j \in v.captures, j # q, j.trigger = q.trigger PROVE FALSE
          <6>1. j \in Of(c, t) /\ j # k
            BY <2>5, <2>7, <5>1 DEF Of
          <6>2. j.recovered /\ j.end + 2 <= q.end /\ j \in c.captures
            BY <2>5, <2>12, <6>1
          <6>3. v.total >= q.end + After
            BY <2>7, <4>2, CompleteIs
          <6>4. j \in D!Complete(c)
            BY <2>2, <2>7, <2>8, <6>2, <6>3, CompleteIs
          <6>. QED BY <2>5, <3>2, <5>1, <6>4
        <5>. QED BY <2>5, <2>7, <5>1
      <4>3. AllFresh(v)
        BY <2>16, <4>1, <4>2 DEF AllFresh
      <4>4. \A b \in D!Complete(v) : b.trigger \notin T \ {t}
        BY <2>5, <2>16, <3>2
      <4>. QED BY <4>3, <4>4 DEF Waits
    <3>. QED BY <3>1, <3>2 DEF Waits
  <2>18. \E p \in v.captures : p.recovered /\ p.trigger = t /\ p.id = id
    BY <2>5, <2>7
  <2>. QED BY ONLY <2>1, <2>9, <2>10, <2>13, <2>14, <2>15, <2>17, <2>18
<1>3. (\A k \in Of(c, t) : k.id # id) \/ (\E k \in Of(c, t) : k.id = id)
  OBVIOUS
<1>. QED BY <1>1, <1>2, <1>3

-------------------------------------------------------------------------------
(* The detectors                                                           *)

LEMMA DebouncerTypes ==
  ASSUME DumpsAssumption, RecoveryInRing, NEW d \in Debouncers
  PROVE  \E s \in Int, y \in D!Zero..Longest, a \in BOOLEAN, n \in Nat :
           d = [start |-> s, recovery |-> y, active |-> a, seq |-> n]
BY DEF Debouncers

LEMMA DebouncerNumbers ==
  ASSUME DumpsAssumption, RecoveryInRing
  PROVE  /\ Confirm \in Nat /\ Return \in Nat /\ Return >= 1 /\ Longest \in Nat /\ Return <= Longest
         /\ D!Zero = -1 /\ D!Zero \in D!Zero..Longest /\ Longest = Return + Pauses
BY Sizes DEF DumpsAssumption, D!Zero, Longest

\* A tick and a reset leave what a number says.
LEMMA OlderDetector ==
  ASSUME DumpsAssumption, RecoveryInRing, NEW d \in Debouncers
  PROVE  D!Older(d) \in Debouncers /\ \A c, t : NumbersFit(c, d, t) => NumbersFit(c, D!Older(d), t)
<1>1. PICK s \in Int, y \in D!Zero..Longest, a \in BOOLEAN, n \in Nat :
        d = [start |-> s, recovery |-> y, active |-> a, seq |-> n]
  BY DebouncerTypes
<1>2. PICK i, j : /\ i = IF s = D!Zero \/ s = Confirm THEN s ELSE s + 1
                  /\ j = IF y = D!Zero \/ y = Return + Pauses THEN y ELSE y + 1
  OBVIOUS
<1>4. i \in Int /\ j \in D!Zero..Longest /\ j \in Int
  BY ONLY <1>1, <1>2, DebouncerNumbers, DumpsAssumption, RecoveryInRing
<1>3. D!Older(d) = [start |-> i, recovery |-> j, active |-> a, seq |-> n]
  <2>1. PICK v : v = [d EXCEPT !.start = i, !.recovery = j]
    OBVIOUS
  <2>2. v = [start |-> i, recovery |-> j, active |-> a, seq |-> n]
    BY ONLY <1>1, <1>4, <2>1
  <2>3. D!Older(d) = [d EXCEPT !.start = IF s = D!Zero \/ s = Confirm THEN s ELSE s + 1,
                               !.recovery = IF y = D!Zero \/ y = Return + Pauses THEN y ELSE y + 1]
    BY ONLY <1>1 DEF D!Older
  <2>. QED BY ONLY <1>2, <2>1, <2>2, <2>3
<1>5. D!Older(d) \in Debouncers
  BY ONLY <1>1, <1>3, <1>4 DEF Debouncers
<1>6. /\ D!Older(d).active = d.active /\ D!Older(d).seq = d.seq
      /\ d.start = D!Zero => D!Older(d).start = D!Zero
  BY ONLY <1>1, <1>2, <1>3
<1>7. ASSUME NEW c, NEW t, NumbersFit(c, d, t) PROVE NumbersFit(c, D!Older(d), t)
  BY ONLY <1>6, <1>7 DEF NumbersFit
<1>. QED BY <1>5, <1>7

LEMMA ResetDetectorFits ==
  ASSUME DumpsAssumption, RecoveryInRing, NEW d \in Debouncers
  PROVE  /\ D!ResetDetector(d) \in Debouncers
         /\ \A c, t : NumbersFit(c, d, t) => NumbersFit(c, D!ResetDetector(d), t)
<1>1. D!ResetDetector(d) = [start |-> D!Zero, recovery |-> D!Zero, active |-> FALSE, seq |-> d.seq]
  <2>1. PICK n, b : n = d.seq /\ b = D!NewDebouncer
    OBVIOUS
  <2>2. b = [start |-> D!Zero, recovery |-> D!Zero, active |-> FALSE, seq |-> 0]
    BY ONLY <2>1 DEF D!NewDebouncer
  <2>3. PICK v : v = [b EXCEPT !.seq = n]
    OBVIOUS
  <2>4. v = [start |-> D!Zero, recovery |-> D!Zero, active |-> FALSE, seq |-> n]
    BY ONLY <2>2, <2>3
  <2>5. D!ResetDetector(d) = v
    BY ONLY <2>1, <2>3 DEF D!ResetDetector
  <2>. QED BY ONLY <2>1, <2>4, <2>5
<1>2. d.seq \in Nat /\ D!Zero \in Int /\ D!Zero \in D!Zero..Longest
  BY DebouncerNumbers DEF Debouncers
<1>3. D!ResetDetector(d) \in Debouncers
  BY ONLY <1>1, <1>2 DEF Debouncers
<1>4. ASSUME NEW c, NEW t, NumbersFit(c, d, t) PROVE NumbersFit(c, D!ResetDetector(d), t)
  BY <1>1, <1>4 DEF NumbersFit
<1>. QED BY <1>3, <1>4

\* A window in which the condition holds, ...
LEMMA HoldsIs ==
  ASSUME DumpsAssumption, RecoveryInRing, NEW d \in Debouncers
  PROVE  \E s \in Int, n \in Nat, e \in BOOLEAN, a \in BOOLEAN :
           /\ IF d.start = D!Zero THEN n = d.seq + 1 ELSE s = d.start /\ n = d.seq
           /\ e => ~d.active
           /\ a <=> d.active \/ e
           /\ D!Holds(d) = [d |-> [start |-> s, recovery |-> D!Zero, active |-> a, seq |-> n], id |-> n,
                            justEntered |-> e, justRecovered |-> FALSE, took |-> 0]
<1>1. PICK x \in Int, y \in D!Zero..Longest, f \in BOOLEAN, m \in Nat :
        d = [start |-> x, recovery |-> y, active |-> f, seq |-> m]
  BY DebouncerTypes
<1>2. PICK s, n : s = (IF x = D!Zero THEN 0 ELSE x) /\ n = (IF x = D!Zero THEN m + 1 ELSE m)
  OBVIOUS
<1>3. s \in Int /\ n \in Nat /\ D!Zero \in Int
  BY ONLY <1>1, <1>2, DebouncerNumbers, DumpsAssumption, RecoveryInRing
<1>4. PICK b : b = [d EXCEPT !.recovery = D!Zero, !.start = IF d.start = D!Zero THEN 0 ELSE @,
                             !.seq = IF d.start = D!Zero THEN D!NextSeq(@) ELSE @]
  OBVIOUS
<1>5. b = [start |-> s, recovery |-> D!Zero, active |-> f, seq |-> n]
  <2>1. CASE x = D!Zero
    <3>1. b = [d EXCEPT !.recovery = D!Zero, !.start = 0, !.seq = m + 1]
      BY ONLY <1>1, <1>4, <2>1 DEF D!NextSeq
    <3>2. b = [start |-> 0, recovery |-> D!Zero, active |-> f, seq |-> m + 1]
      BY ONLY <1>1, <1>3, <3>1
    <3>. QED BY ONLY <1>2, <2>1, <3>2
  <2>2. CASE x # D!Zero
    <3>1. b = [d EXCEPT !.recovery = D!Zero, !.start = x, !.seq = m]
      BY ONLY <1>1, <1>4, <2>2
    <3>2. b = [start |-> x, recovery |-> D!Zero, active |-> f, seq |-> m]
      BY ONLY <1>1, <1>3, <3>1
    <3>. QED BY ONLY <1>2, <2>2, <3>2
  <2>. QED BY <2>1, <2>2
<1>6. PICK e \in BOOLEAN, a \in BOOLEAN : (e <=> ~f /\ s >= Confirm) /\ (a <=> f \/ e)
  OBVIOUS
<1>7. D!Holds(d) = [d |-> [b EXCEPT !.active = @ \/ (~d.active /\ b.start >= Confirm)], id |-> b.seq,
                    justEntered |-> ~d.active /\ b.start >= Confirm, justRecovered |-> FALSE, took |-> 0]
  BY ONLY <1>4 DEF D!Holds
<1>8. (~d.active /\ b.start >= Confirm) = e
  BY ONLY <1>1, <1>5, <1>6
<1>9. [b EXCEPT !.active = @ \/ (~d.active /\ b.start >= Confirm)] = [start |-> s, recovery |-> D!Zero, active |-> a, seq |-> n]
  <2>1. PICK v : v = [b EXCEPT !.active = a]
    OBVIOUS
  <2>2. v = [start |-> s, recovery |-> D!Zero, active |-> a, seq |-> n]
    BY ONLY <1>3, <1>5, <1>6, <2>1
  <2>3. (b.active \/ (~d.active /\ b.start >= Confirm)) = a
    BY ONLY <1>1, <1>5, <1>6
  <2>. QED BY ONLY <2>1, <2>2, <2>3
<1>10. b.seq = n /\ d.start = x /\ d.seq = m /\ d.active = f
  BY ONLY <1>1, <1>5
<1>11. D!Holds(d) = [d |-> [start |-> s, recovery |-> D!Zero, active |-> a, seq |-> n], id |-> n,
                     justEntered |-> e, justRecovered |-> FALSE, took |-> 0]
  BY ONLY <1>7, <1>8, <1>9, <1>10
<1>12. IF d.start = D!Zero THEN n = d.seq + 1 ELSE s = d.start /\ n = d.seq
  BY ONLY <1>2, <1>10
<1>13. (e => ~d.active) /\ (a <=> d.active \/ e)
  BY ONLY <1>6, <1>10
<1>. QED BY ONLY <1>3, <1>6, <1>11, <1>12, <1>13

\* ... and one in which it does not: the incident recovers, ...
LEMMA OverIs ==
  ASSUME DumpsAssumption, RecoveryInRing, NEW d \in Debouncers, d.active
  PROVE  \E p \in Nat :
           /\ p <= Longest
           /\ IF p >= Return
              THEN D!Gone(d) = [d |-> [start |-> D!Zero, recovery |-> D!Zero, active |-> FALSE, seq |-> d.seq], id |-> d.seq,
                                justEntered |-> FALSE, justRecovered |-> TRUE, took |-> p]
              ELSE D!Gone(d) = [d |-> [start |-> d.start, recovery |-> p, active |-> TRUE, seq |-> d.seq], id |-> d.seq,
                                justEntered |-> FALSE, justRecovered |-> FALSE, took |-> p]
<1>1. PICK x \in Int, y \in D!Zero..Longest, f \in BOOLEAN, m \in Nat :
        d = [start |-> x, recovery |-> y, active |-> f, seq |-> m]
  BY DebouncerTypes
<1>2. d.active = TRUE /\ f = TRUE /\ d.start = x /\ d.recovery = y /\ d.seq = m
  BY <1>1
<1>3. PICK p : p = (IF d.recovery = D!Zero THEN 0 ELSE d.recovery)
  OBVIOUS
<1>4. p \in Nat /\ p <= Longest /\ D!Zero \in Int
  BY ONLY <1>1, <1>2, <1>3, DebouncerNumbers, DumpsAssumption, RecoveryInRing
<1>5. CASE p >= Return
  <2>1. PICK v : v = [d EXCEPT !.start = D!Zero, !.active = FALSE, !.recovery = D!Zero]
    OBVIOUS
  <2>2. v = [start |-> D!Zero, recovery |-> D!Zero, active |-> FALSE, seq |-> m]
    BY ONLY <1>1, <1>4, <2>1
  <2>3. D!Gone(d) = [d |-> v, id |-> d.seq, justEntered |-> FALSE, justRecovered |-> TRUE, took |-> p]
    <3>1. (d.active /\ p >= Return) = TRUE
      BY ONLY <1>2, <1>5
    <3>2. PICK h : h = (d.active /\ p >= Return)
      OBVIOUS
    <3>3. D!Gone(d) = [d |-> IF h \/ ~d.active
                             THEN [d EXCEPT !.start = D!Zero, !.active = FALSE, !.recovery = IF h THEN D!Zero ELSE @]
                             ELSE [d EXCEPT !.recovery = p],
                       id |-> IF d.active THEN d.seq ELSE 0, justEntered |-> FALSE, justRecovered |-> h, took |-> p]
      BY ONLY <1>3, <3>2 DEF D!Gone
    <3>4. h = TRUE
      BY ONLY <3>1, <3>2
    <3>. QED BY ONLY <1>2, <2>1, <3>3, <3>4
  <2>. QED BY ONLY <1>2, <1>4, <1>5, <2>2, <2>3
<1>6. CASE ~(p >= Return)
  <2>1. PICK v : v = [d EXCEPT !.recovery = p]
    OBVIOUS
  <2>2. v = [start |-> x, recovery |-> p, active |-> TRUE, seq |-> m]
    BY ONLY <1>1, <1>2, <1>4, <2>1
  <2>3. D!Gone(d) = [d |-> v, id |-> d.seq, justEntered |-> FALSE, justRecovered |-> FALSE, took |-> p]
    <3>1. (d.active /\ p >= Return) = FALSE
      BY ONLY <1>2, <1>6
    <3>2. PICK h : h = (d.active /\ p >= Return)
      OBVIOUS
    <3>3. D!Gone(d) = [d |-> IF h \/ ~d.active
                             THEN [d EXCEPT !.start = D!Zero, !.active = FALSE, !.recovery = IF h THEN D!Zero ELSE @]
                             ELSE [d EXCEPT !.recovery = p],
                       id |-> IF d.active THEN d.seq ELSE 0, justEntered |-> FALSE, justRecovered |-> h, took |-> p]
      BY ONLY <1>3, <3>2 DEF D!Gone
    <3>4. h = FALSE
      BY ONLY <3>1, <3>2
    <3>. QED BY ONLY <1>2, <2>1, <3>3, <3>4
  <2>. QED BY ONLY <1>2, <1>4, <1>6, <2>2, <2>3
<1>. QED BY <1>5, <1>6

\* ... or there was none.
LEMMA NoneIs ==
  ASSUME DumpsAssumption, RecoveryInRing, NEW d \in Debouncers, ~d.active
  PROVE  \E p \in Nat :
           D!Gone(d) = [d |-> [start |-> D!Zero, recovery |-> d.recovery, active |-> FALSE, seq |-> d.seq], id |-> 0,
                        justEntered |-> FALSE, justRecovered |-> FALSE, took |-> p]
<1>1. PICK x \in Int, y \in D!Zero..Longest, f \in BOOLEAN, m \in Nat :
        d = [start |-> x, recovery |-> y, active |-> f, seq |-> m]
  BY DebouncerTypes
<1>2. d.active = FALSE /\ f = FALSE /\ d.start = x /\ d.recovery = y /\ d.seq = m
  BY <1>1
<1>3. PICK p : p = (IF d.recovery = D!Zero THEN 0 ELSE d.recovery)
  OBVIOUS
<1>4. p \in Nat /\ D!Zero \in Int
  BY ONLY <1>1, <1>2, <1>3, DebouncerNumbers, DumpsAssumption, RecoveryInRing
<1>5. PICK v : v = [d EXCEPT !.start = D!Zero, !.active = FALSE, !.recovery = d.recovery]
  OBVIOUS
<1>6. v = [start |-> D!Zero, recovery |-> y, active |-> FALSE, seq |-> m]
  BY ONLY <1>1, <1>2, <1>4, <1>5
<1>7. D!Gone(d) = [d |-> v, id |-> 0, justEntered |-> FALSE, justRecovered |-> FALSE, took |-> p]
  <2>1. (d.active /\ p >= Return) = FALSE
    BY ONLY <1>2
  <2>2. PICK h : h = (d.active /\ p >= Return)
    OBVIOUS
  <2>3. D!Gone(d) = [d |-> IF h \/ ~d.active
                           THEN [d EXCEPT !.start = D!Zero, !.active = FALSE, !.recovery = IF h THEN D!Zero ELSE @]
                           ELSE [d EXCEPT !.recovery = p],
                     id |-> IF d.active THEN d.seq ELSE 0, justEntered |-> FALSE, justRecovered |-> h, took |-> p]
    BY ONLY <1>3, <2>2 DEF D!Gone
  <2>4. h = FALSE
    BY ONLY <2>1, <2>2
  <2>5. [d EXCEPT !.start = D!Zero, !.active = FALSE, !.recovery = IF h THEN D!Zero ELSE @] = v
    BY ONLY <1>1, <1>2, <1>5, <2>4
  <2>. QED BY ONLY <1>2, <2>3, <2>4, <2>5
<1>. QED BY ONLY <1>2, <1>4, <1>6, <1>7

\* What a detector says of a window, c being what was captured before: an incident has
\* begun, under a new number, ...
Begins(c, t, r) ==
  /\ r.justEntered = TRUE /\ r.justRecovered = FALSE /\ r.id \in Nat /\ r.d.seq = r.id /\ r.d.active
  /\ \A k \in Of(c, t) : k.id < r.id
\* ... or that one has recovered which had the last number, ...
Recovers(c, t, r) ==
  /\ r.justEntered = FALSE /\ r.justRecovered = TRUE /\ r.id \in Nat /\ r.d.seq = r.id /\ ~r.d.active /\ r.d.start = D!Zero
  /\ r.took \in Return..Longest
  /\ \A k \in Of(c, t) : k.id <= r.id /\ (k.id = r.id => ~k.recovered)
\* ... or neither.
Goes(c, t, r) ==
  r.justEntered = FALSE /\ r.justRecovered = FALSE /\ NumbersFit(c, r.d, t)

LEMMA HoldsSays ==
  ASSUME DumpsAssumption, RecoveryInRing, NEW d \in Debouncers, NEW c, NEW t, NumbersFit(c, d, t),
         \A k \in Of(c, t) : k.id \in Nat, NEW r, r = D!Holds(d)
  PROVE  r.d \in Debouncers /\ (Begins(c, t, r) \/ Recovers(c, t, r) \/ Goes(c, t, r))
<1>1. PICK s \in Int, n \in Nat, e \in BOOLEAN, a \in BOOLEAN :
        /\ IF d.start = D!Zero THEN n = d.seq + 1 ELSE s = d.start /\ n = d.seq
        /\ e => ~d.active
        /\ a <=> d.active \/ e
        /\ r = [d |-> [start |-> s, recovery |-> D!Zero, active |-> a, seq |-> n], id |-> n,
                justEntered |-> e, justRecovered |-> FALSE, took |-> 0]
  BY HoldsIs
<1>2. D!Zero \in D!Zero..Longest /\ d.seq \in Nat
  BY DebouncerNumbers DEF Debouncers
<1>3. r.d = [start |-> s, recovery |-> D!Zero, active |-> a, seq |-> n] /\ r.id = n /\ r.justEntered = e /\ r.justRecovered = FALSE
  BY ONLY <1>1
<1>4. r.d \in Debouncers /\ r.d.start = s /\ r.d.active = a /\ r.d.seq = n
  BY ONLY <1>1, <1>2, <1>3 DEF Debouncers
<1>5. \A k \in Of(c, t) : k.id \in Nat /\ k.id <= d.seq /\ (k.id = d.seq => IF d.active THEN ~k.recovered ELSE d.start = D!Zero)
  BY DEF NumbersFit
<1>6. CASE e = TRUE
  <2>1. d.active = FALSE
    BY <1>1, <1>6 DEF Debouncers
  <2>2. \A k \in Of(c, t) : k.id < n
    BY ONLY <1>1, <1>2, <1>5, <2>1
  <2>3. a = TRUE
    BY ONLY <1>1, <1>6
  <2>4. Begins(c, t, r)
    BY ONLY <1>1, <1>3, <1>4, <1>6, <2>2, <2>3 DEF Begins
  <2>. QED BY <1>4, <2>4
<1>7. CASE e = FALSE
  <2>1. a <=> d.active
    BY ONLY <1>1, <1>7
  <2>2. ASSUME NEW k \in Of(c, t) PROVE k.id <= n /\ (k.id = n => IF a THEN ~k.recovered ELSE s = D!Zero)
    <3>1. CASE d.start = D!Zero
      BY ONLY <1>1, <1>2, <1>5, <2>2, <3>1
    <3>2. CASE d.start # D!Zero
      BY ONLY <1>1, <1>2, <1>5, <2>1, <2>2, <3>2
    <3>. QED BY <3>1, <3>2
  <2>3. NumbersFit(c, r.d, t)
    BY ONLY <1>4, <2>2 DEF NumbersFit
  <2>. QED BY <1>3, <1>4, <1>7, <2>3 DEF Goes
<1>. QED BY <1>1, <1>6, <1>7

LEMMA GoneSays ==
  ASSUME DumpsAssumption, RecoveryInRing, NEW d \in Debouncers, NEW c, NEW t, NumbersFit(c, d, t),
         \A k \in Of(c, t) : k.id \in Nat, NEW r, r = D!Gone(d)
  PROVE  r.d \in Debouncers /\ (Begins(c, t, r) \/ Recovers(c, t, r) \/ Goes(c, t, r))
<1>1. /\ D!Zero \in D!Zero..Longest /\ D!Zero = -1 /\ d.seq \in Nat /\ d.start \in Int /\ d.recovery \in D!Zero..Longest
      /\ d.active \in BOOLEAN /\ Return \in Nat /\ Longest \in Nat
  BY DebouncerNumbers DEF Debouncers
<1>2. \A k \in Of(c, t) : k.id \in Nat /\ k.id <= d.seq /\ (k.id = d.seq => IF d.active THEN ~k.recovered ELSE d.start = D!Zero)
  BY DEF NumbersFit
<1>3. CASE d.active
  <2>1. PICK p \in Nat :
          /\ p <= Longest
          /\ IF p >= Return
             THEN r = [d |-> [start |-> D!Zero, recovery |-> D!Zero, active |-> FALSE, seq |-> d.seq], id |-> d.seq,
                       justEntered |-> FALSE, justRecovered |-> TRUE, took |-> p]
             ELSE r = [d |-> [start |-> d.start, recovery |-> p, active |-> TRUE, seq |-> d.seq], id |-> d.seq,
                       justEntered |-> FALSE, justRecovered |-> FALSE, took |-> p]
    BY <1>3, OverIs
  <2>2. CASE p >= Return
    <3>1. /\ r.d = [start |-> D!Zero, recovery |-> D!Zero, active |-> FALSE, seq |-> d.seq] /\ r.id = d.seq
          /\ r.justEntered = FALSE /\ r.justRecovered = TRUE /\ r.took = p
      BY ONLY <2>1, <2>2
    <3>2. r.d \in Debouncers /\ r.d.start = D!Zero /\ r.d.active = FALSE /\ r.d.seq = d.seq
      BY ONLY <1>1, <3>1 DEF Debouncers
    <3>3. \A k \in Of(c, t) : k.id <= d.seq /\ (k.id = d.seq => ~k.recovered)
      BY ONLY <1>2, <1>3
    <3>4. p \in Return..Longest
      BY ONLY <1>1, <2>1, <2>2
    <3>. QED BY ONLY <1>1, <3>1, <3>2, <3>3, <3>4 DEF Recovers
  <2>3. CASE ~(p >= Return)
    <3>1. /\ r.d = [start |-> d.start, recovery |-> p, active |-> TRUE, seq |-> d.seq]
          /\ r.justEntered = FALSE /\ r.justRecovered = FALSE
      BY ONLY <2>1, <2>3
    <3>2. p \in D!Zero..Longest
      BY ONLY <1>1, <2>1
    <3>3. r.d \in Debouncers /\ r.d.start = d.start /\ r.d.active = TRUE /\ r.d.seq = d.seq
      BY ONLY <1>1, <3>1, <3>2 DEF Debouncers
    <3>4. \A k \in Of(c, t) : k.id <= d.seq /\ (k.id = d.seq => ~k.recovered)
      BY ONLY <1>2, <1>3
    <3>5. NumbersFit(c, r.d, t)
      BY ONLY <3>3, <3>4 DEF NumbersFit
    <3>. QED BY ONLY <3>1, <3>3, <3>5 DEF Goes
  <2>. QED BY <2>2, <2>3
<1>4. CASE ~d.active
  <2>1. PICK p \in Nat :
          r = [d |-> [start |-> D!Zero, recovery |-> d.recovery, active |-> FALSE, seq |-> d.seq], id |-> 0,
               justEntered |-> FALSE, justRecovered |-> FALSE, took |-> p]
    BY <1>4, NoneIs
  <2>2. /\ r.d = [start |-> D!Zero, recovery |-> d.recovery, active |-> FALSE, seq |-> d.seq]
        /\ r.justEntered = FALSE /\ r.justRecovered = FALSE
    BY ONLY <2>1
  <2>3. D!Zero \in Int
    BY ONLY <1>1
  <2>4. r.d \in Debouncers /\ r.d.start = D!Zero /\ r.d.active = FALSE /\ r.d.seq = d.seq
    BY ONLY <1>1, <2>2, <2>3 DEF Debouncers
  <2>5. \A k \in Of(c, t) : k.id <= d.seq
    BY ONLY <1>2
  <2>6. NumbersFit(c, r.d, t)
    BY ONLY <2>4, <2>5 DEF NumbersFit
  <2>. QED BY ONLY <2>2, <2>4, <2>6 DEF Goes
<1>. QED BY <1>3, <1>4

LEMMA UpdateSays ==
  ASSUME DumpsAssumption, RecoveryInRing, NEW d \in Debouncers, NEW c, NEW t, NumbersFit(c, d, t),
         \A k \in Of(c, t) : k.id \in Nat, NEW holds \in BOOLEAN, NEW r, r = D!Update(d, holds, FALSE)
  PROVE  r.d \in Debouncers /\ (Begins(c, t, r) \/ Recovers(c, t, r) \/ Goes(c, t, r))
<1>1. CASE holds = TRUE
  <2>1. r = D!Holds(d)
    BY <1>1 DEF D!Update
  <2>. QED BY <2>1, HoldsSays
<1>2. CASE holds = FALSE
  <2>1. r = D!Gone(d)
    BY <1>2 DEF D!Update
  <2>. QED BY <2>1, GoneSays
<1>. QED BY <1>1, <1>2

\* v is c after the manager has handled what the detector of t says; those of T are due.
Answered(c, v, t, T, r) ==
  /\ Turned(c, v, t) /\ CapturerFits(v, heard + 1)
  /\ Past(v, t, 0) /\ Apart(v, t) /\ NumbersFit(v, r.d, t) /\ Waits(v, T \ {t})
  /\ r.justRecovered = TRUE =>
       \A k \in Of(c, t) : k.id = r.id => \E q \in v.captures : q.recovered /\ q.trigger = t /\ q.id = r.id

LEMMA HandledIs ==
  ASSUME DumpsAssumption, RecoveryInRing, NEW c \in Capturers, heard \in Nat, CapturerFits(c, heard + 1),
         NEW t \in Detectors, Past(c, t, 1), Apart(c, t), NEW T, t \in T, Waits(c, T),
         NEW r, Begins(c, t, r) \/ Recovers(c, t, r) \/ Goes(c, t, r), NEW v, v = D!Handled(c, t, r)
  PROVE  Answered(c, v, t, T, r)
<1>1. CASE Begins(c, t, r) /\ c.enabled
  <2>1. PICK d : d = r.d
    OBVIOUS
  <2>2. /\ r.justEntered = TRUE /\ r.justRecovered = FALSE /\ r.id \in Nat /\ d.seq = r.id /\ d.active
        /\ \A k \in Of(c, t) : k.id < r.id
    BY ONLY <1>1, <2>1 DEF Begins
  <2>3. PICK i : i = r.id
    OBVIOUS
  <2>4. D!Handled(c, t, r) = D!Started(c, t, i)
    BY ONLY <2>2, <2>3 DEF D!Handled
  <2>5. v = D!Started(c, t, i)
    BY <2>4
  <2>6. /\ Turned(c, v, t) /\ CapturerFits(v, heard + 1) /\ Past(v, t, 0) /\ Apart(v, t) /\ NumbersFit(v, d, t)
        /\ Waits(v, T \ {t})
    BY <1>1, <2>2, <2>3, <2>5, StartedTurns
  <2>. QED BY ONLY <2>1, <2>2, <2>6 DEF Answered
<1>2. CASE Begins(c, t, r) /\ ~c.enabled
  <2>1. r.justEntered = TRUE /\ r.justRecovered = FALSE
    BY ONLY <1>2 DEF Begins
  <2>2. D!Handled(c, t, r) = c
    BY ONLY <1>2, <2>1 DEF D!Handled, D!Started
  <2>3. Of(c, t) = {}
    BY <1>2 DEF CapturerFits, Of
  <2>4. Turned(c, c, t) /\ Past(c, t, 0) /\ Waits(c, T \ {t})
    BY NothingTurns
  <2>5. NumbersFit(c, r.d, t)
    BY ONLY <2>3 DEF NumbersFit
  <2>. QED BY ONLY v = D!Handled(c, t, r), CapturerFits(c, heard + 1), Apart(c, t), <2>1, <2>2, <2>4, <2>5 DEF Answered
<1>3. CASE Recovers(c, t, r)
  <2>1. PICK d, i, p : d = r.d /\ i = r.id /\ p = r.took
    OBVIOUS
  <2>2. /\ r.justEntered = FALSE /\ r.justRecovered = TRUE /\ i \in Nat /\ d.seq = i /\ ~d.active /\ d.start = D!Zero
        /\ p \in Return..Longest
        /\ \A k \in Of(c, t) : k.id <= i /\ (k.id = i => ~k.recovered)
    BY ONLY <1>3, <2>1 DEF Recovers
  <2>4. D!Handled(c, t, r) = D!Recovered(c, t, i, p)
    BY ONLY <2>1, <2>2 DEF D!Handled
  <2>5. v = D!Recovered(c, t, i, p)
    BY <2>4
  <2>6. heard + 1 \in Int
    OBVIOUS
  <2>7. /\ Turned(c, v, t) /\ CapturerFits(v, heard + 1) /\ Past(v, t, 0) /\ Apart(v, t) /\ NumbersFit(v, d, t)
        /\ Waits(v, T \ {t})
        /\ \A k \in Of(c, t) : k.id = i => \E q \in v.captures : q.recovered /\ q.trigger = t /\ q.id = i
    <3>1. PICK h : h = heard + 1
      OBVIOUS
    <3>2. h \in Int /\ CapturerFits(c, h)
      BY <2>6, <3>1
    <3>3. /\ Turned(c, v, t) /\ CapturerFits(v, h) /\ Past(v, t, 0) /\ Apart(v, t) /\ NumbersFit(v, d, t)
          /\ Waits(v, T \ {t})
          /\ \A k \in Of(c, t) : k.id = i => \E q \in v.captures : q.recovered /\ q.trigger = t /\ q.id = i
      BY ONLY DumpsAssumption, RecoveryInRing, c \in Capturers, t \in Detectors, Past(c, t, 1), Apart(c, t), t \in T,
              Waits(c, T), <2>2, <2>5, <3>2, RecoveredTurns
    <3>. QED BY ONLY <3>1, <3>3
  <2>. QED BY ONLY <2>1, <2>7 DEF Answered
<1>4. CASE Goes(c, t, r)
  <2>1. r.justEntered = FALSE /\ r.justRecovered = FALSE /\ NumbersFit(c, r.d, t)
    BY ONLY <1>4 DEF Goes
  <2>2. D!Handled(c, t, r) = c
    BY ONLY <2>1 DEF D!Handled
  <2>3. Turned(c, c, t) /\ Past(c, t, 0) /\ Waits(c, T \ {t})
    BY NothingTurns
  <2>. QED BY ONLY v = D!Handled(c, t, r), CapturerFits(c, heard + 1), Apart(c, t), <2>1, <2>2, <2>3 DEF Answered
<1>. QED BY <1>1, <1>2, <1>3, <1>4

\* The captures of the other trigger are as they were.
LEMMA OthersStay ==
  ASSUME NEW c, NEW v, NEW t, NEW u \in Detectors, u # t, Turned(c, v, t)
  PROVE  /\ Past(c, u, 0) => Past(v, u, 0)
         /\ Past(c, u, 1) => Past(v, u, 1)
         /\ Apart(c, u) => Apart(v, u)
         /\ \A d : NumbersFit(c, d, u) => NumbersFit(v, d, u)
         /\ \A r : Begins(c, u, r) \/ Recovers(c, u, r) \/ Goes(c, u, r)
                     => Begins(v, u, r) \/ Recovers(v, u, r) \/ Goes(v, u, r)
<1>1. Of(v, u) = Of(c, u) /\ v.total = c.total
  BY DEF Turned
<1>2. Past(c, u, 0) => Past(v, u, 0)
  BY ONLY <1>1 DEF Past
<1>3. Past(c, u, 1) => Past(v, u, 1)
  BY ONLY <1>1 DEF Past
<1>4. Apart(c, u) => Apart(v, u)
  BY ONLY <1>1 DEF Apart
<1>5. ASSUME NEW d, NumbersFit(c, d, u) PROVE NumbersFit(v, d, u)
  BY ONLY <1>1, <1>5 DEF NumbersFit
<1>6. ASSUME NEW r, Begins(c, u, r) PROVE Begins(v, u, r)
  BY ONLY <1>1, <1>6 DEF Begins
<1>7. ASSUME NEW r, Recovers(c, u, r) PROVE Recovers(v, u, r)
  BY ONLY <1>1, <1>7 DEF Recovers
<1>8. ASSUME NEW r, Goes(c, u, r) PROVE Goes(v, u, r)
  BY ONLY <1>5, <1>8 DEF Goes
<1>. QED BY <1>2, <1>3, <1>4, <1>5, <1>6, <1>7, <1>8

\* Both detectors have been heard.
Judged(c, v, r) ==
  /\ v \in Capturers /\ CapturerFits(v, heard + 1) /\ (OneLeft(v) \/ AllFresh(v))
  /\ \A t \in Detectors : Past(v, t, 0) /\ Apart(v, t) /\ NumbersFit(v, r[t].d, t)
  /\ \A k \in c.captures : k.recovered => k \in v.captures
  /\ \A t \in Detectors : r[t].justRecovered = TRUE =>
       \A k \in Of(c, t) : k.id = r[t].id => \E q \in v.captures : q.recovered /\ q.trigger = t /\ q.id = r[t].id

LEMMA BothHandled ==
  ASSUME DumpsAssumption, RecoveryInRing, NEW c \in Capturers, heard \in Nat, CapturerFits(c, heard + 1),
         \A t \in Detectors : Past(c, t, 1) /\ Apart(c, t), Waits(c, Detectors),
         NEW r, \A t \in Detectors : Begins(c, t, r[t]) \/ Recovers(c, t, r[t]) \/ Goes(c, t, r[t]),
         NEW v, v = D!Handled(D!Handled(c, "silence", r["silence"]), "channel_imbalance", r["channel_imbalance"])
  PROVE  Judged(c, v, r)
<1>1. PICK a, b : a = "silence" /\ b = "channel_imbalance"
  OBVIOUS
<1>2. a \in Detectors /\ b \in Detectors /\ a # b /\ Detectors = {a, b}
  BY <1>1 DEF Detectors
<1>3. PICK x, y : x = r[a] /\ y = r[b]
  OBVIOUS
<1>4. PICK u : u = D!Handled(c, a, x)
  OBVIOUS
<1>5. Answered(c, u, a, Detectors, x)
  <2>1. Past(c, a, 1) /\ Apart(c, a) /\ (Begins(c, a, x) \/ Recovers(c, a, x) \/ Goes(c, a, x))
    BY <1>2, <1>3
  <2>. QED BY ONLY DumpsAssumption, RecoveryInRing, c \in Capturers, heard \in Nat, CapturerFits(c, heard + 1),
               Waits(c, Detectors), <1>2, <1>4, <2>1, HandledIs
<1>6. /\ u \in Capturers /\ (\A k \in c.captures : k.recovered => k \in u.captures) /\ Of(u, b) = Of(c, b)
      /\ Turned(c, u, a) /\ CapturerFits(u, heard + 1) /\ Past(u, a, 0) /\ Apart(u, a) /\ NumbersFit(u, x.d, a)
      /\ Waits(u, Detectors \ {a})
      /\ x.justRecovered = TRUE =>
           \A k \in Of(c, a) : k.id = x.id => \E q \in u.captures : q.recovered /\ q.trigger = a /\ q.id = x.id
  BY ONLY <1>2, <1>5 DEF Answered, Turned
<1>7. v = D!Handled(u, b, y)
  BY <1>1, <1>3, <1>4
<1>8. Past(u, b, 1) /\ Apart(u, b) /\ (Begins(u, b, y) \/ Recovers(u, b, y) \/ Goes(u, b, y))
  <2>1. Past(c, b, 1) /\ Apart(c, b) /\ (Begins(c, b, y) \/ Recovers(c, b, y) \/ Goes(c, b, y))
    BY <1>2, <1>3
  <2>. QED BY ONLY <1>2, <1>6, <2>1, OthersStay
<1>9. Answered(u, v, b, Detectors \ {a}, y)
  <2>1. b \in Detectors \ {a}
    BY <1>2
  <2>. QED BY ONLY DumpsAssumption, RecoveryInRing, heard \in Nat, <1>2, <1>6, <1>7, <1>8, <2>1, HandledIs
<1>10. /\ Turned(u, v, b) /\ CapturerFits(v, heard + 1) /\ Past(v, b, 0) /\ Apart(v, b) /\ NumbersFit(v, y.d, b)
       /\ Waits(v, (Detectors \ {a}) \ {b})
       /\ y.justRecovered = TRUE =>
            \A k \in Of(u, b) : k.id = y.id => \E q \in v.captures : q.recovered /\ q.trigger = b /\ q.id = y.id
  BY ONLY <1>9 DEF Answered
<1>11. v \in Capturers /\ (\A k \in u.captures : k.recovered => k \in v.captures)
  BY ONLY <1>10 DEF Turned
<1>12. Past(v, a, 0) /\ Apart(v, a) /\ NumbersFit(v, x.d, a)
  BY ONLY <1>2, <1>6, <1>10, OthersStay
<1>13. OneLeft(v) \/ AllFresh(v)
  BY <1>10 DEF Waits
<1>14. \A t \in Detectors : Past(v, t, 0) /\ Apart(v, t) /\ NumbersFit(v, r[t].d, t)
  BY ONLY <1>2, <1>3, <1>10, <1>12
<1>15. \A k \in c.captures : k.recovered => k \in v.captures
  BY ONLY <1>6, <1>11
<1>16. ASSUME NEW t \in Detectors, r[t].justRecovered = TRUE, NEW k \in Of(c, t), k.id = r[t].id
       PROVE  \E q \in v.captures : q.recovered /\ q.trigger = t /\ q.id = r[t].id
  <2>1. CASE t = a
    BY ONLY <1>3, <1>6, <1>11, <1>16, <2>1
  <2>2. CASE t = b
    BY ONLY <1>3, <1>6, <1>10, <1>16, <2>2
  <2>. QED BY ONLY <1>2, <2>1, <2>2
<1>. QED BY ONLY <1>10, <1>11, <1>13, <1>14, <1>15, <1>16 DEF Judged

-------------------------------------------------------------------------------
(* A chunk is processed                                                    *)

\* The chunk is in the ring and in the captures that are open, and what was due is cut out.
Taken(c, f) ==
  /\ f.c \in Capturers /\ CapturerFits(f.c, heard + 1) /\ (OneLeft(f.c) \/ D!Complete(f.c) = {})
  /\ \A t \in Detectors : /\ Past(f.c, t, 1) /\ Apart(f.c, t)
                          /\ \A d : NumbersFit(c, d, t) => NumbersFit(f.c, d, t)
  /\ \A d \in f.dumps : DumpFits(d) /\ d.trigger \in Detectors /\ d.id \in Nat
  /\ \A k \in c.captures :
       \/ \E q \in f.c.captures : q.trigger = k.trigger /\ q.id = k.id /\ q.recovered = k.recovered
       \/ k.recovered /\ \E d \in f.dumps : d.trigger = k.trigger /\ d.id = k.id

LEMMA TakenOff ==
  ASSUME NEW c \in Capturers, heard \in Nat, CapturerFits(c, heard), ~c.enabled,
         NEW f, f = [c |-> c, dumps |-> {}]
  PROVE  Taken(c, f)
<1>1. f.c = c /\ f.dumps = {}
  OBVIOUS
<1>2. c.captures = {} /\ c.total = 0
  BY DEF CapturerFits
<1>3. CapturerFits(c, heard + 1)
  BY <1>2 DEF CapturerFits, RingFits
<1>4. D!Complete(c) = {} /\ \A t : Of(c, t) = {}
  BY <1>2 DEF D!Complete, Of
<1>5. \A t : Past(c, t, 1) /\ Apart(c, t)
  BY ONLY <1>4 DEF Past, Apart
<1>. QED BY ONLY <1>1, <1>2, <1>3, <1>4, <1>5, c \in Capturers DEF Taken

LEMMA TakenOn ==
  ASSUME DumpsAssumption, RecoveryInRing, NEW c \in Capturers, heard \in Nat, CapturerFits(c, heard), c.enabled,
         \A t \in Detectors : Past(c, t, 0) /\ Apart(c, t), OneLeft(c) \/ AllFresh(c),
         NEW f \in D!Finalized(D!Written(c, heard + 1))
  PROVE  Taken(c, f)
<1>1. PICK x, u : x = heard + 1 /\ u = D!Written(c, x)
  OBVIOUS
<1>2. x \in Int /\ x \in Nat /\ heard \in Int /\ f \in D!Finalized(u)
  BY <1>1
<1>3. u \in Capturers /\ u.enabled = c.enabled /\ u.captures = {Grow(k, x) : k \in c.captures}
  BY <1>1, <1>2, WrittenIs
<1>4. CapturerFits(u, x)
  BY <1>1, <1>2, WrittenFits
<1>5. \A t \in Detectors : Past(u, t, 1) /\ Apart(u, t) /\ \A d : NumbersFit(c, d, t) => NumbersFit(u, d, t)
  BY <1>1, <1>2, WrittenOrder
<1>6. Single(u) \/ OnTime(u)
  BY <1>1, <1>2, WrittenBacklog
<1>7. /\ f.c \in Capturers /\ f.c.enabled = u.enabled /\ f.c.total = u.total /\ f.c.ring = u.ring
      /\ \/ D!Complete(u) = {} /\ f.c = u /\ f.dumps = {}
         \/ \E k \in D!Complete(u) : f.c.captures = u.captures \ {k} /\ f.dumps = {D!Extracted(u, k)}
  BY <1>2, <1>3, FinalizedIs
<1>8. f.c.captures \subseteq u.captures
  BY ONLY <1>7
<1>9. PICK v : v = f.c
  OBVIOUS
<1>10. /\ CapturerFits(v, x)
       /\ \A t \in Detectors : Past(v, t, 1) /\ Apart(v, t) /\ \A d : NumbersFit(c, d, t) => NumbersFit(v, d, t)
  <2>1. v \in Capturers /\ v.enabled = u.enabled /\ v.total = u.total /\ v.ring = u.ring /\ v.captures \subseteq u.captures
    BY ONLY <1>7, <1>8, <1>9
  <2>2. /\ \A h : CapturerFits(u, h) => CapturerFits(v, h)
        /\ \A t, lag : Past(u, t, lag) => Past(v, t, lag)
        /\ \A t : Apart(u, t) => Apart(v, t)
        /\ \A d, t : NumbersFit(u, d, t) => NumbersFit(v, d, t)
    BY ONLY <1>3, <2>1, FewerCaptures
  <2>. QED BY ONLY <1>4, <1>5, <2>2
<1>11. OneLeft(f.c) \/ D!Complete(f.c) = {}
  BY <1>2, <1>3, <1>6, Served
<1>12. \A k \in c.captures : k \in Captures /\ Same(Grow(k, x), k)
  BY <1>2, GrowFields DEF Capturers
<1>13. \A k \in D!Complete(u) :
         /\ DumpFits(D!Extracted(u, k)) /\ D!Extracted(u, k).trigger = k.trigger /\ D!Extracted(u, k).id = k.id
         /\ k \in u.captures /\ k \in Captures /\ k.recovered
  <2>1. ASSUME NEW k \in D!Complete(u)
        PROVE DumpFits(D!Extracted(u, k)) /\ D!Extracted(u, k).trigger = k.trigger /\ D!Extracted(u, k).id = k.id
    BY <1>2, <1>3, <1>4, <1>6, DumpsCut
  <2>2. ASSUME NEW k \in D!Complete(u) PROVE k \in u.captures /\ k \in Captures /\ k.recovered
    BY <1>3, CompleteIs DEF Capturers
  <2>. QED BY <2>1, <2>2
<1>14. \A d \in f.dumps : DumpFits(d) /\ d.trigger \in Detectors /\ d.id \in Nat
  <2>1. ASSUME NEW k \in D!Complete(u), f.dumps = {D!Extracted(u, k)}
        PROVE  \A d \in f.dumps : DumpFits(d) /\ d.trigger \in Detectors /\ d.id \in Nat
    BY <1>13, <2>1 DEF Captures
  <2>. QED BY ONLY <1>7, <2>1
<1>15. ASSUME NEW k \in c.captures
       PROVE  \/ \E q \in f.c.captures : q.trigger = k.trigger /\ q.id = k.id /\ q.recovered = k.recovered
              \/ k.recovered /\ \E d \in f.dumps : d.trigger = k.trigger /\ d.id = k.id
  <2>1. PICK q : q = Grow(k, x)
    OBVIOUS
  <2>2. q \in u.captures /\ q.trigger = k.trigger /\ q.id = k.id /\ q.recovered = k.recovered
    BY <1>3, <1>12, <1>15, <2>1 DEF Same
  <2>3. CASE q \in f.c.captures
    BY ONLY <2>2, <2>3
  <2>4. CASE q \notin f.c.captures
    <3>1. q \in D!Complete(u) /\ f.dumps = {D!Extracted(u, q)}
      BY ONLY <1>7, <2>2, <2>4
    <3>2. D!Extracted(u, q).trigger = k.trigger /\ D!Extracted(u, q).id = k.id /\ k.recovered
      BY ONLY <1>13, <2>2, <3>1
    <3>. QED BY ONLY <3>1, <3>2
  <2>. QED BY <2>3, <2>4
<1>. QED BY ONLY <1>1, <1>7, <1>9, <1>10, <1>11, <1>14, <1>15 DEF Taken

Dumped == DumpsTyped /\ DumpsInv

\* What has recovered and is owed a dump: its capture is there, or its dump.
Kept(c, e, t, i) ==
  \/ \E j \in c.captures : j.recovered /\ j.trigger = t /\ j.id = i
  \/ \E d \in e : d.trigger = t /\ d.id = i

LEMMA OwedIs ==
  ASSUME NEW c, NEW e, NEW t, NEW i
  PROVE  OwedFits(c, e, <<t, i>>) <=> Kept(c, e, t, i)
BY DEF OwedFits, Kept

\* A chunk takes a recovered capture to its dump at most.
LEMMA TakenKeeps ==
  ASSUME NEW c, NEW f, Taken(c, f), NEW e, NEW t, NEW i, Kept(c, e, t, i)
  PROVE  Kept(f.c, e \cup f.dumps, t, i)
<1>1. CASE \E d \in e : d.trigger = t /\ d.id = i
  BY <1>1 DEF Kept
<1>2. ASSUME NEW j \in c.captures, j.recovered, j.trigger = t, j.id = i PROVE Kept(f.c, e \cup f.dumps, t, i)
  <2>1. \/ \E q \in f.c.captures : q.trigger = t /\ q.id = i /\ q.recovered
        \/ \E d \in f.dumps : d.trigger = t /\ d.id = i
    BY <1>2 DEF Taken
  <2>. QED BY ONLY <2>1 DEF Kept
<1>. QED BY <1>1, <1>2 DEF Kept

\* The detectors at the chunk: they are older, and then they have seen the window.
AllOlder(d)              == [t \in Detectors |-> D!Older(d[t])]
AllUpdated(d, condition) == [t \in Detectors |-> D!Update(AllOlder(d)[t], condition = t, FALSE)]

Said(v, old, r) ==
  /\ old \in [Detectors -> Debouncers] /\ [t \in Detectors |-> r[t].d] \in [Detectors -> Debouncers]
  /\ \A t \in Detectors : /\ NumbersFit(v, old[t], t)
                          /\ Begins(v, t, r[t]) \/ Recovers(v, t, r[t]) \/ Goes(v, t, r[t])

LEMMA DetectorsSay ==
  ASSUME DumpsAssumption, RecoveryInRing, NEW c \in Capturers, NEW v, NEW d, d \in [Detectors -> Debouncers],
         \A t \in Detectors : NumbersFit(c, d[t], t), v \in Capturers,
         \A t \in Detectors : \A n : NumbersFit(c, n, t) => NumbersFit(v, n, t),
         NEW condition
  PROVE  Said(v, AllOlder(d), AllUpdated(d, condition))
<1>0. PICK old, r : old = AllOlder(d) /\ r = AllUpdated(d, condition)
  OBVIOUS
<1>1. ASSUME NEW t \in Detectors
      PROVE  /\ old[t] \in Debouncers /\ NumbersFit(v, old[t], t)
             /\ r[t].d \in Debouncers
             /\ Begins(v, t, r[t]) \/ Recovers(v, t, r[t]) \/ Goes(v, t, r[t])
  <2>1. PICK n, o1, r1, b : n = d[t] /\ o1 = old[t] /\ r1 = r[t] /\ b = (condition = t)
    OBVIOUS
  <2>2. n \in Debouncers /\ o1 = D!Older(n) /\ r1 = D!Update(o1, b, FALSE) /\ b \in BOOLEAN /\ NumbersFit(v, n, t)
    <3>1. n \in Debouncers /\ NumbersFit(v, n, t)
      BY <2>1
    <3>2. o1 = D!Older(n)
      BY <1>0, <2>1 DEF AllOlder
    <3>3. r1 = D!Update(o1, b, FALSE)
      BY <1>0, <2>1 DEF AllUpdated
    <3>4. b \in BOOLEAN
      BY ONLY <2>1
    <3>. QED BY ONLY <3>1, <3>2, <3>3, <3>4
  <2>3. o1 \in Debouncers /\ NumbersFit(v, o1, t)
    BY ONLY DumpsAssumption, RecoveryInRing, <2>2, OlderDetector
  <2>4. \A k \in Of(v, t) : k.id \in Nat
    BY CaptureParts DEF Of
  <2>5. r1.d \in Debouncers /\ (Begins(v, t, r1) \/ Recovers(v, t, r1) \/ Goes(v, t, r1))
    BY ONLY DumpsAssumption, RecoveryInRing, <2>2, <2>3, <2>4, UpdateSays
  <2>. QED BY ONLY <2>1, <2>3, <2>5
<1>2. old \in [Detectors -> Debouncers]
  <2>1. DOMAIN old = Detectors /\ old = [t \in DOMAIN old |-> old[t]]
    BY ONLY <1>0 DEF AllOlder
  <2>. QED BY ONLY <1>1, <2>1
<1>3. [t \in Detectors |-> r[t].d] \in [Detectors -> Debouncers]
  BY ONLY <1>1
<1>. QED BY ONLY <1>0, <1>1, <1>2, <1>3 DEF Said

\* A window that is not complete is not looked at.
LEMMA UnseenIs ==
  ASSUME NEW v \in Capturers, NEW t, Past(v, t, 1)
  PROVE  Past(v, t, 0)
<1>1. ASSUME NEW k \in Of(v, t) PROVE (IF k.recovered THEN k.end + 1 ELSE k.start) <= v.total - 0
  <2>1. (IF k.recovered THEN k.end + 1 ELSE k.start) <= v.total - 1
    BY DEF Past
  <2>2. k.end \in Nat /\ k.start \in Nat /\ v.total \in Nat
    BY CaptureParts DEF Of
  <2>. QED BY <2>1, <2>2
<1>. QED BY <1>1 DEF Past

LEMMA ProcessSamplesFits ==
  ASSUME DumpsAssumption, RecoveryInRing, Dumped, NEW condition, NEW window \in BOOLEAN, D!ProcessSamples(condition, window)
  PROVE  Dumped'
<1>1. PICK old, r : old = AllOlder(dDet) /\ r = AllUpdated(dDet, condition)
  OBVIOUS
<1>2. /\ heard' = heard + 1
      /\ \E f \in IF capturer.enabled THEN D!Finalized(D!Written(capturer, heard + 1)) ELSE {[c |-> capturer, dumps |-> {}]} :
           /\ encoding' = encoding \union f.dumps
           /\ dDet' = IF window THEN [t \in Detectors |-> r[t].d] ELSE old
           /\ capturer' = IF window THEN D!Handled(D!Handled(f.c, "silence", r["silence"]),
                                                   "channel_imbalance", r["channel_imbalance"])
                          ELSE f.c
      /\ owed' = owed \union {k \in Detectors \X (1..Audio) : window /\ r[k[1]].justRecovered /\ r[k[1]].id = k[2] /\
                                \E p \in capturer.captures : p.trigger = k[1] /\ p.id = k[2]}
  BY ONLY D!ProcessSamples(condition, window), <1>1 DEF D!ProcessSamples, Detectors, AllOlder, AllUpdated
<1>3. PICK f \in IF capturer.enabled THEN D!Finalized(D!Written(capturer, heard + 1)) ELSE {[c |-> capturer, dumps |-> {}]} :
        /\ encoding' = encoding \union f.dumps
        /\ dDet' = IF window THEN [t \in Detectors |-> r[t].d] ELSE old
        /\ capturer' = IF window THEN D!Handled(D!Handled(f.c, "silence", r["silence"]),
                                                "channel_imbalance", r["channel_imbalance"])
                       ELSE f.c
  BY <1>2
<1>4. /\ heard \in Nat /\ capturer \in Capturers /\ dDet \in [Detectors -> Debouncers] /\ owed \subseteq Detectors \X Nat
      /\ \A d \in encoding : d.trigger \in Detectors /\ d.id \in Nat /\ DumpFits(d)
      /\ CapturerFits(capturer, heard) /\ (OneLeft(capturer) \/ AllFresh(capturer))
      /\ \A t \in Detectors : Past(capturer, t, 0) /\ Apart(capturer, t) /\ NumbersFit(capturer, dDet[t], t)
      /\ \A k \in owed : OwedFits(capturer, encoding, k)
  <2>1. /\ heard \in Nat /\ capturer \in Capturers /\ dDet \in [Detectors -> Debouncers] /\ owed \subseteq Detectors \X Nat
        /\ \A d \in encoding : d.trigger \in Detectors /\ d.id \in Nat
    BY ONLY Dumped DEF Dumped, DumpsTyped
  <2>2. /\ \A d \in encoding : DumpFits(d)
        /\ CapturerFits(capturer, heard) /\ (OneLeft(capturer) \/ AllFresh(capturer))
        /\ \A t \in Detectors : Past(capturer, t, 0) /\ Apart(capturer, t) /\ NumbersFit(capturer, dDet[t], t)
        /\ \A k \in owed : OwedFits(capturer, encoding, k)
    BY ONLY Dumped DEF Dumped, DumpsInv
  <2>. QED BY ONLY <2>1, <2>2
<1>5. Taken(capturer, f)
  <2>1. CASE capturer.enabled
    <3>1. f \in D!Finalized(D!Written(capturer, heard + 1))
      BY <1>3, <2>1
    <3>. QED BY ONLY DumpsAssumption, RecoveryInRing, <1>4, <2>1, <3>1, TakenOn
  <2>2. CASE ~capturer.enabled
    <3>1. f = [c |-> capturer, dumps |-> {}]
      BY <1>3, <2>2
    <3>. QED BY ONLY <1>4, <2>2, <3>1, TakenOff
  <2>. QED BY <2>1, <2>2
<1>6. PICK v : v = f.c
  OBVIOUS
<1>7. /\ v \in Capturers /\ CapturerFits(v, heard + 1) /\ (OneLeft(v) \/ D!Complete(v) = {})
      /\ \A t \in Detectors : Past(v, t, 1) /\ Apart(v, t) /\ \A d : NumbersFit(capturer, d, t) => NumbersFit(v, d, t)
      /\ \A d \in f.dumps : DumpFits(d) /\ d.trigger \in Detectors /\ d.id \in Nat
  BY ONLY <1>5, <1>6 DEF Taken
<1>8. /\ old \in [Detectors -> Debouncers] /\ [t \in Detectors |-> r[t].d] \in [Detectors -> Debouncers]
      /\ \A t \in Detectors : /\ NumbersFit(v, old[t], t)
                              /\ Begins(v, t, r[t]) \/ Recovers(v, t, r[t]) \/ Goes(v, t, r[t])
  <2>1. \A t \in Detectors : NumbersFit(capturer, dDet[t], t)
    BY ONLY <1>4
  <2>2. \A t \in Detectors : \A n : NumbersFit(capturer, n, t) => NumbersFit(v, n, t)
    BY ONLY <1>7
  <2>3. PICK c, d : c = capturer /\ d = dDet
    OBVIOUS
  <2>4. /\ c \in Capturers /\ d \in [Detectors -> Debouncers] /\ v \in Capturers
        /\ \A t \in Detectors : NumbersFit(c, d[t], t)
        /\ \A t \in Detectors : \A n : NumbersFit(c, n, t) => NumbersFit(v, n, t)
    BY ONLY <1>4, <1>7, <2>1, <2>2, <2>3
  <2>5. Said(v, AllOlder(d), AllUpdated(d, condition))
    BY ONLY DumpsAssumption, RecoveryInRing, <2>4, DetectorsSay
  <2>. QED BY ONLY <1>1, <2>3, <2>5 DEF Said
<1>9. OneLeft(v) \/ AllFresh(v)
  BY ONLY <1>7 DEF AllFresh
<1>10. \A t, i : Kept(capturer, encoding, t, i) => Kept(v, encoding', t, i)
  BY ONLY <1>3, <1>5, <1>6, TakenKeeps
<1>11. /\ heard' \in Nat /\ owed' \subseteq Detectors \X Nat
       /\ \A d \in encoding' : d.trigger \in Detectors /\ d.id \in Nat /\ DumpFits(d)
  <2>1. heard' \in Nat
    BY ONLY <1>2, <1>4
  <2>2. \A d \in encoding' : d.trigger \in Detectors /\ d.id \in Nat /\ DumpFits(d)
    BY ONLY <1>3, <1>4, <1>7
  <2>3. 1..Audio \subseteq Nat
    BY DEF DumpsAssumption
  <2>4. owed' \subseteq Detectors \X Nat
    <3>1. owed' \subseteq owed \cup (Detectors \X (1..Audio))
      BY ONLY <1>2
    <3>. QED BY ONLY <1>4, <2>3, <3>1
  <2>. QED BY ONLY <2>1, <2>2, <2>4
<1>12. CASE window = FALSE
  <2>1. capturer' = v /\ dDet' = old /\ owed' = owed
    BY ONLY <1>2, <1>3, <1>6, <1>12
  <2>2. \A t \in Detectors : Past(v, t, 0)
    BY ONLY <1>7, UnseenIs
  <2>3. \A k \in owed' : OwedFits(capturer', encoding', k)
    <3>1. ASSUME NEW k \in owed PROVE OwedFits(v, encoding', k)
      <4>1. Kept(capturer, encoding, k[1], k[2])
        BY ONLY <1>4, <3>1 DEF OwedFits, Kept
      <4>2. Kept(v, encoding', k[1], k[2])
        BY ONLY <1>10, <4>1
      <4>. QED BY ONLY <4>2 DEF OwedFits, Kept
    <3>. QED BY ONLY <2>1, <3>1
  <2>. QED BY ONLY <1>2, <1>7, <1>8, <1>9, <1>11, <2>1, <2>2, <2>3 DEF Dumped, DumpsTyped, DumpsInv
<1>13. CASE window = TRUE
  <2>1. PICK u : u = D!Handled(D!Handled(v, "silence", r["silence"]), "channel_imbalance", r["channel_imbalance"])
    OBVIOUS
  <2>2. capturer' = u /\ dDet' = [t \in Detectors |-> r[t].d]
    BY ONLY <1>3, <1>6, <1>13, <2>1
  <2>3. Judged(v, u, r)
    <3>1. Waits(v, Detectors)
      BY ONLY <1>7 DEF Waits, AllFresh
    <3>2. \A t \in Detectors : Past(v, t, 1) /\ Apart(v, t)
      BY ONLY <1>7
    <3>3. \A t \in Detectors : Begins(v, t, r[t]) \/ Recovers(v, t, r[t]) \/ Goes(v, t, r[t])
      BY ONLY <1>8
    <3>. QED BY ONLY DumpsAssumption, RecoveryInRing, <1>4, <1>7, <2>1, <3>1, <3>2, <3>3, BothHandled
  <2>4. /\ u \in Capturers /\ CapturerFits(u, heard + 1) /\ (OneLeft(u) \/ AllFresh(u))
        /\ \A t \in Detectors : Past(u, t, 0) /\ Apart(u, t) /\ NumbersFit(u, r[t].d, t)
        /\ \A k \in v.captures : k.recovered => k \in u.captures
        /\ \A t \in Detectors : r[t].justRecovered = TRUE =>
             \A k \in Of(v, t) : k.id = r[t].id => \E q \in u.captures : q.recovered /\ q.trigger = t /\ q.id = r[t].id
    BY ONLY <2>3 DEF Judged
  <2>5. \A t, i : Kept(v, encoding', t, i) => Kept(u, encoding', t, i)
    BY ONLY <2>4 DEF Kept
  <2>6. ASSUME NEW k \in owed' PROVE OwedFits(u, encoding', k)
    <3>1. CASE k \in owed
      <4>1. Kept(capturer, encoding, k[1], k[2])
        BY ONLY <1>4, <3>1 DEF OwedFits, Kept
      <4>2. Kept(u, encoding', k[1], k[2])
        BY ONLY <1>10, <2>5, <4>1
      <4>. QED BY ONLY <4>2 DEF OwedFits, Kept
    <3>2. CASE k \notin owed
      <4>1. k \in Detectors \X (1..Audio)
        BY ONLY <1>2, <2>6, <3>2
      <4>2. PICK t, i : t = k[1] /\ i = k[2]
        OBVIOUS
      <4>3. t \in Detectors /\ r[t].justRecovered /\ r[t].id = i /\ \E p \in capturer.captures : p.trigger = t /\ p.id = i
        BY ONLY <1>2, <2>6, <3>2, <4>1, <4>2
      <4>4. r[t].justRecovered = TRUE
        BY ONLY <1>8, <4>3 DEF Begins, Recovers, Goes
      <4>5. PICK p \in capturer.captures : p.trigger = t /\ p.id = i
        BY ONLY <4>3
      <4>6. \/ \E q \in v.captures : q.trigger = t /\ q.id = i
            \/ \E d \in f.dumps : d.trigger = t /\ d.id = i
        BY ONLY <1>5, <1>6, <4>5 DEF Taken
      <4>7. CASE \E q \in v.captures : q.trigger = t /\ q.id = i
        <5>1. PICK q \in v.captures : q.trigger = t /\ q.id = i
          BY ONLY <4>7
        <5>2. q \in Of(v, t)
          BY ONLY <5>1 DEF Of
        <5>3. \E j \in u.captures : j.recovered /\ j.trigger = t /\ j.id = i
          BY ONLY <2>4, <4>3, <4>4, <5>1, <5>2
        <5>. QED BY ONLY <4>2, <5>3 DEF OwedFits
      <4>8. CASE \E d \in f.dumps : d.trigger = t /\ d.id = i
        BY ONLY <1>3, <4>2, <4>8 DEF OwedFits
      <4>. QED BY ONLY <4>6, <4>7, <4>8
    <3>. QED BY <3>1, <3>2
  <2>7. \A t \in Detectors : dDet'[t] = r[t].d
    BY ONLY <2>2
  <2>8. \A t \in Detectors : NumbersFit(u, dDet'[t], t)
    BY ONLY <2>4, <2>7
  <2>9. \A k \in owed' : OwedFits(capturer', encoding', k)
    BY ONLY <2>2, <2>6
  <2>10. dDet' \in [Detectors -> Debouncers]
    BY ONLY <1>8, <2>2
  <2>. QED BY ONLY <1>2, <1>11, <2>2, <2>4, <2>8, <2>9, <2>10 DEF Dumped, DumpsTyped, DumpsInv
<1>. QED BY <1>12, <1>13

-------------------------------------------------------------------------------
(* The other steps                                                         *)

\* A capturer without captures and without audio.
LEMMA EmptyFits ==
  ASSUME NEW c, c.captures = {}, c.total = 0, NEW h
  PROVE  /\ CapturerFits(c, h) /\ AllFresh(c)
         /\ \A t : Past(c, t, 0) /\ Apart(c, t) /\ \A d : NumbersFit(c, d, t)
<1>1. \A t : Of(c, t) = {}
  BY DEF Of
<1>2. D!Complete(c) = {}
  BY DEF D!Complete
<1>3. RingFits(c, h)
  BY DEF RingFits
<1>4. CapturerFits(c, h)
  BY <1>3 DEF CapturerFits
<1>5. \A t : Past(c, t, 0) /\ Apart(c, t) /\ \A d : NumbersFit(c, d, t)
  BY ONLY <1>1 DEF Past, Apart, NumbersFit
<1>6. AllFresh(c)
  BY ONLY <1>2 DEF AllFresh
<1>. QED BY <1>4, <1>5, <1>6

\* The captures are given up, and with them what they are owed.
LEMMA GivenUp ==
  ASSUME Dumped, capturer' \in Capturers, capturer'.captures = {}, capturer'.total = 0, dDet' = dDet, heard' = heard,
         encoding' = encoding, owed' = {<<d.trigger, d.id>> : d \in encoding}
  PROVE  Dumped'
<1>1. /\ CapturerFits(capturer', heard') /\ AllFresh(capturer')
      /\ \A t : Past(capturer', t, 0) /\ Apart(capturer', t) /\ \A d : NumbersFit(capturer', d, t)
  BY EmptyFits
<1>2. owed' \subseteq Detectors \X Nat
  <2>1. ASSUME NEW d \in encoding PROVE <<d.trigger, d.id>> \in Detectors \X Nat
    <3>1. d.trigger \in Detectors /\ d.id \in Nat
      BY DEF Dumped, DumpsTyped
    <3>. QED BY ONLY <3>1
  <2>. QED BY ONLY <2>1, owed' = {<<d.trigger, d.id>> : d \in encoding}
<1>3. \A k \in owed' : OwedFits(capturer', encoding', k)
  BY DEF OwedFits
<1>. QED BY <1>1, <1>2, <1>3 DEF Dumped, DumpsTyped, DumpsInv

LEMMA PauseFits == ASSUME DumpsAssumption, RecoveryInRing, Dumped, D!Pause PROVE Dumped'
<1>1. /\ dDet' = AllOlder(dDet) /\ capturer' = capturer /\ heard' = heard /\ encoding' = encoding /\ owed' = owed
  BY DEF D!Pause, AllOlder, Detectors
<1>2. dDet \in [Detectors -> Debouncers] /\ \A t \in Detectors : NumbersFit(capturer, dDet[t], t)
  BY DEF Dumped, DumpsTyped, DumpsInv
<1>3. ASSUME NEW t \in Detectors PROVE dDet'[t] \in Debouncers /\ NumbersFit(capturer, dDet'[t], t)
  <2>1. PICK d : d = dDet[t]
    OBVIOUS
  <2>2. d \in Debouncers /\ NumbersFit(capturer, d, t) /\ dDet'[t] = D!Older(d)
    BY <1>1, <1>2, <2>1 DEF AllOlder
  <2>. QED BY ONLY DumpsAssumption, RecoveryInRing, <2>2, OlderDetector
<1>4. dDet' \in [Detectors -> Debouncers]
  <2>1. DOMAIN dDet' = Detectors /\ dDet' = [t \in DOMAIN dDet' |-> dDet'[t]]
    BY ONLY <1>1 DEF AllOlder
  <2>. QED BY ONLY <1>3, <2>1
<1>. QED BY ONLY Dumped, <1>1, <1>3, <1>4 DEF Dumped, DumpsTyped, DumpsInv

\* The detectors are reset; what was captured stays for now.
LEMMA ResetFits ==
  ASSUME DumpsAssumption, RecoveryInRing, Dumped, dDet' = [t \in Detectors |-> D!ResetDetector(dDet[t])],
         capturer' = capturer, heard' = heard, encoding' = encoding, owed' = owed
  PROVE  Dumped'
<1>2. dDet \in [Detectors -> Debouncers] /\ \A t \in Detectors : NumbersFit(capturer, dDet[t], t)
  BY DEF Dumped, DumpsTyped, DumpsInv
<1>3. ASSUME NEW t \in Detectors PROVE dDet'[t] \in Debouncers /\ NumbersFit(capturer, dDet'[t], t)
  <2>1. PICK d : d = dDet[t]
    OBVIOUS
  <2>2. d \in Debouncers /\ NumbersFit(capturer, d, t) /\ dDet'[t] = D!ResetDetector(d)
    BY <1>2, <2>1
  <2>. QED BY ONLY DumpsAssumption, RecoveryInRing, <2>2, ResetDetectorFits
<1>4. dDet' \in [Detectors -> Debouncers]
  <2>1. DOMAIN dDet' = Detectors /\ dDet' = [t \in DOMAIN dDet' |-> dDet'[t]]
    BY ONLY dDet' = [t \in Detectors |-> D!ResetDetector(dDet[t])]
  <2>. QED BY ONLY <1>3, <2>1
<1>. QED BY ONLY Dumped, capturer' = capturer, heard' = heard, encoding' = encoding, owed' = owed, <1>3, <1>4
         DEF Dumped, DumpsTyped, DumpsInv

LEMMA EncodedFits == ASSUME Dumped, NEW d \in encoding, D!Encoded(d) PROVE Dumped'
<1>1. /\ encoding' = encoding \ {d} /\ owed' = owed \ {<<d.trigger, d.id>>}
      /\ dDet' = dDet /\ capturer' = capturer /\ heard' = heard
  BY DEF D!Encoded
<1>2. ASSUME NEW k \in owed' PROVE OwedFits(capturer, encoding', k)
  <2>1. k \in owed /\ k # <<d.trigger, d.id>> /\ k \in Detectors \X Nat
    <3>1. owed \subseteq Detectors \X Nat
      BY DEF Dumped, DumpsTyped
    <3>. QED BY ONLY <1>1, <1>2, <3>1
  <2>2. ~(d.trigger = k[1] /\ d.id = k[2])
    BY <2>1
  <2>3. OwedFits(capturer, encoding, k)
    BY <2>1 DEF Dumped, DumpsInv
  <2>. QED BY <1>1, <2>2, <2>3 DEF OwedFits
<1>3. owed' \subseteq owed /\ encoding' \subseteq encoding
  BY <1>1
<1>. QED BY ONLY Dumped, <1>1, <1>2, <1>3 DEF Dumped, DumpsTyped, DumpsInv

LEMMA ClearedIs ==
  ASSUME NEW c \in Capturers, NEW on \in BOOLEAN
  PROVE  /\ D!Cleared(c) \in Capturers /\ D!Cleared(c).captures = {} /\ D!Cleared(c).total = 0
         /\ [D!Cleared(c) EXCEPT !.enabled = on] \in Capturers
         /\ [D!Cleared(c) EXCEPT !.enabled = on].captures = {} /\ [D!Cleared(c) EXCEPT !.enabled = on].total = 0
<1>1. PICK b : b = D!Cleared(c)
  OBVIOUS
<1>2. b \in Capturers /\ b.captures = {} /\ b.total = 0
  BY <1>1 DEF D!Cleared, Capturers
<1>3. PICK v : v = [b EXCEPT !.enabled = on]
  OBVIOUS
<1>4. v \in Capturers /\ v.captures = {} /\ v.total = 0
  BY <1>2, <1>3 DEF Capturers
<1>. QED BY ONLY <1>1, <1>2, <1>3, <1>4

LEMMA SetEnabledFits == ASSUME Dumped, NEW on \in BOOLEAN, D!SetEnabled(on) PROVE Dumped'
<1>1. capturer \in Capturers /\ dDet' = dDet /\ heard' = heard /\ encoding' = encoding
  BY DEF Dumped, DumpsTyped, D!SetEnabled
<1>2. CASE ~on
  <2>1. capturer' = [D!Cleared(capturer) EXCEPT !.enabled = on] /\ owed' = {<<d.trigger, d.id>> : d \in encoding}
    BY <1>2 DEF D!SetEnabled
  <2>. QED BY ONLY Dumped, on \in BOOLEAN, <1>1, <2>1, ClearedIs, GivenUp
<1>3. CASE on
  <2>1. capturer' = [capturer EXCEPT !.enabled = on] /\ owed' = owed /\ ~capturer.enabled
    BY <1>1, <1>3 DEF D!SetEnabled, Capturers
  <2>2. capturer.captures = {} /\ capturer.total = 0
    BY <2>1 DEF Dumped, DumpsInv, CapturerFits
  <2>3. capturer' \in Capturers /\ capturer'.captures = {} /\ capturer'.total = 0
    BY <1>1, <2>1, <2>2 DEF Capturers
  <2>4. /\ CapturerFits(capturer', heard') /\ AllFresh(capturer')
        /\ \A t : Past(capturer', t, 0) /\ Apart(capturer', t) /\ \A d : NumbersFit(capturer', d, t)
    BY <2>3, EmptyFits
  <2>5. \A k \in owed : OwedFits(capturer', encoding, k)
    BY ONLY Dumped, <2>2 DEF Dumped, DumpsInv, OwedFits
  <2>. QED BY ONLY Dumped, <1>1, <2>1, <2>3, <2>4, <2>5 DEF Dumped, DumpsTyped, DumpsInv
<1>. QED BY <1>2, <1>3

LEMMA ResetCapturerFits == ASSUME Dumped, D!ResetCapturer PROVE Dumped'
<1>1. capturer \in Capturers /\ dDet' = dDet /\ heard' = heard /\ encoding' = encoding
  BY DEF Dumped, DumpsTyped, D!ResetCapturer
<1>2. capturer' = D!Cleared(capturer) /\ owed' = {<<d.trigger, d.id>> : d \in encoding}
  BY DEF D!ResetCapturer
<1>. QED BY ONLY Dumped, <1>1, <1>2, ClearedIs, GivenUp

LEMMA DumpsInit == ASSUME DumpsAssumption, RecoveryInRing, D!Init PROVE Dumped
<1>1. /\ dDet = [t \in Detectors |-> D!NewDebouncer] /\ encoding = {} /\ owed = {} /\ heard = 0
      /\ capturer = [enabled |-> TRUE, total |-> 0, ring |-> [i \in 0..(D!Capacity - 1) |-> 0], captures |-> {}]
  BY DEF D!Init, Detectors
<1>2. capturer \in Capturers /\ capturer.captures = {} /\ capturer.total = 0
  BY <1>1 DEF Capturers
<1>3. D!NewDebouncer \in Debouncers
  BY DebouncerNumbers DEF D!NewDebouncer, Debouncers
<1>4. dDet \in [Detectors -> Debouncers]
  BY ONLY <1>1, <1>3
<1>5. /\ CapturerFits(capturer, heard) /\ AllFresh(capturer)
      /\ \A t : Past(capturer, t, 0) /\ Apart(capturer, t) /\ \A d : NumbersFit(capturer, d, t)
  BY <1>2, EmptyFits
<1>. QED BY ONLY <1>1, <1>2, <1>4, <1>5 DEF Dumped, DumpsTyped, DumpsInv

LEMMA DumpsNext == ASSUME DumpsAssumption, RecoveryInRing, Dumped, [D!Next]_capture PROVE Dumped'
<1>1. ASSUME NEW condition, NEW window \in BOOLEAN, D!ProcessSamples(condition, window) PROVE Dumped'
  BY <1>1, ProcessSamplesFits
<1>2. CASE D!Pause
  BY <1>2, PauseFits
<1>3. ASSUME NEW d \in encoding, D!Encoded(d) PROVE Dumped'
  BY <1>3, EncodedFits
<1>4. ASSUME NEW on \in BOOLEAN, D!SetEnabled(on) PROVE Dumped'
  BY <1>4, SetEnabledFits
<1>5. CASE D!Stop \/ D!Start
  <2>1. /\ dDet' = [t \in Detectors |-> D!ResetDetector(dDet[t])]
        /\ capturer' = capturer /\ heard' = heard /\ encoding' = encoding /\ owed' = owed
    BY <1>5 DEF D!Stop, D!Start, Detectors
  <2>. QED BY <2>1, ResetFits
<1>6. CASE D!ResetCapturer
  BY <1>6, ResetCapturerFits
<1>7. CASE D!StartIfActive \/ UNCHANGED capture
  <2>1. dDet' = dDet /\ capturer' = capturer /\ heard' = heard /\ encoding' = encoding /\ owed' = owed
    BY <1>7 DEF D!StartIfActive, capture
  <2>. QED BY ONLY Dumped, <2>1 DEF Dumped, DumpsTyped, DumpsInv
<1>. QED BY <1>1, <1>2, <1>3, <1>4, <1>5, <1>6, <1>7 DEF D!Next

LEMMA DumpedSound == ASSUME Dumped PROVE D!DumpIsContext /\ D!RecoveredKept
<1>1. D!DumpIsContext
  BY DEF Dumped, DumpsInv, DumpFits, D!DumpIsContext
<1>2. D!RecoveredKept
  <2>1. ASSUME NEW k \in owed PROVE \E c \in capturer.captures \cup encoding : c.trigger = k[1] /\ c.id = k[2]
    <3>1. OwedFits(capturer, encoding, k)
      BY DEF Dumped, DumpsInv
    <3>. QED BY ONLY <3>1 DEF OwedFits
  <2>. QED BY <2>1 DEF D!RecoveredKept
<1>. QED BY <1>1, <1>2

\* Audio dumps, for audio of any length and any times, if the ring still has the audio
\* after an incident when its recovery is confirmed: a dump is the audio around its
\* incident, and a newer incident, a reset or the settings do not take what it is owed.
THEOREM DumpsHold == ASSUME RecoveryInRing PROVE ServicesSpec => []DumpsSound
<1> DEFINE Sound == which = "dumps" => Dumped
<1>1. ServicesInit => Sound
  BY DumpsInit, DumpsAssumption DEF ServicesInit
<1>2. Sound /\ [ServicesNext]_servicesVars => Sound'
  <2>1. SUFFICES ASSUME Sound, [ServicesNext]_servicesVars, which' = "dumps" PROVE Dumped'
    OBVIOUS
  <2>2. which = "dumps" /\ [D!Next]_capture
    BY <2>1 DEF ServicesNext, servicesVars
  <2>. QED BY <2>1, <2>2, DumpsNext, DumpsAssumption
<1>3. Sound => DumpsSound
  BY DumpedSound DEF DumpsSound
<1> HIDE DEF Sound
<1>. QED BY <1>1, <1>2, <1>3, PTL DEF ServicesSpec
===============================================================================
