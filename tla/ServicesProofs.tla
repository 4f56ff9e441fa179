---------------------------- MODULE ServicesProofs ----------------------------
(***************************************************************************)
(* Proofs about the storage monitor, for any paths and any number of runs, *)
(* and about the alerts, for any depth of their queues and any number of   *)
(* incidents.  IInv says whose storage check is under way and what the log *)
(* and the channel have been told of it.  AlertsInv says of everything     *)
(* that waits to be logged or sent that it may come in its order: Ordered. *)
(* SettleInv says which ends the log still gets, and before which mark, so *)
(* that a drain and a Close have something to wait for.  OverdueInv says   *)
(* which of the two goroutines reports, and which check is still due.      *)
(***************************************************************************)
EXTENDS MCServices, SequenceTheorems, TLAPS

-------------------------------------------------------------------------------
(* Observations                                                            *)

States == {"ok", "low", "error"}

\* What was published, and what a check has seen so far.
Observations == UNION {[Q -> States] : Q \in SUBSET Paths}
Sightings    == UNION {[Q -> {"low", "error", "near", "room"}] : Q \in SUBSET Paths}

\* Their members.
LEMMA ObservationParts ==
  ASSUME NEW f \in Observations PROVE DOMAIN f \subseteq Paths /\ \A p \in DOMAIN f : f[p] \in States
BY DEF Observations

\* What a probe found of a path, by the threshold and the margin.
LEMMA SightingParts ==
  ASSUME NEW f \in Sightings
  PROVE  DOMAIN f \subseteq Paths /\ \A p \in DOMAIN f : f[p] \in {"low", "error", "near", "room"}
BY DEF Sightings

\* Whether any path is unhealthy depends on the states of the paths alone.
LEMMA AggregateOfStates ==
  ASSUME NEW f \in Observations, NEW h \in Observations, \A p \in Paths : State(f, p) = State(h, p)
  PROVE  Aggregate(f) = Aggregate(h)
<1>1. \A p \in DOMAIN f : Unhealthy(f[p]) => p \in DOMAIN h /\ Unhealthy(h[p])
  BY ObservationParts DEF State, Unhealthy
<1>2. \A p \in DOMAIN h : Unhealthy(h[p]) => p \in DOMAIN f /\ Unhealthy(f[p])
  BY ObservationParts DEF State, Unhealthy
<1>. QED BY <1>1, <1>2 DEF Aggregate

\* A state is one of the three.
LEMMA StateTyped == ASSUME NEW f \in Observations, NEW p PROVE State(f, p) \in States
BY ObservationParts DEF State, States

\* No observations at all.
LEMMA NoObservation == <<>> \in Observations /\ <<>> \in Sightings /\ \A p \in Paths : State(<<>>, p) = "ok"
<1>1. \A T : <<>> \in [{} -> T]
  <2>1. SUFFICES ASSUME NEW T PROVE <<>> \in [{} -> T]
    OBVIOUS
  <2>2. <<>> \in Seq(T) /\ Len(<<>>) = 0
    BY EmptySeq
  <2>3. <<>> \in [1..Len(<<>>) -> T]
    BY <2>2, LenProperties
  <2>4. 1..Len(<<>>) = {}
    BY <2>2
  <2>. QED BY <2>3, <2>4
<1>2. {} \in SUBSET Paths
  OBVIOUS
<1>3. <<>> \in Observations /\ <<>> \in Sightings
  BY <1>1, <1>2 DEF Observations, Sightings
<1>4. DOMAIN <<>> = {}
  OBVIOUS
<1>. QED BY <1>3, <1>4 DEF State

\* What the probes of some paths see.
LEMMA SightingsSeen ==
  ASSUME NEW Q \in SUBSET Paths, NEW space \in [Q -> Levels]
  PROVE  [p \in Q |-> Probed(space[p])] \in Sightings
<1>1. ASSUME NEW p \in Q PROVE Probed(space[p]) \in {"low", "error", "near", "room"}
  <2>1. space[p] \in {"short", "near", "room", "error"}
    BY DEF Levels
  <2>. QED BY <2>1 DEF Probed
<1>2. [p \in Q |-> Probed(space[p])] \in [Q -> {"low", "error", "near", "room"}]
  BY <1>1
<1>. QED BY <1>2 DEF Sightings

\* What holdLowUntilRecovered makes of the probes: an unhealthy path recovers only with
\* room.
LEMMA HeldTyped ==
  ASSUME NEW old, NEW saw \in Sightings
  PROVE  /\ Held(old, saw) \in Observations /\ DOMAIN Held(old, saw) = DOMAIN saw
         /\ \A p \in DOMAIN saw : Unhealthy(State(old, p)) /\ ~Unhealthy(Held(old, saw)[p]) => saw[p] = "room"
<1>1. DOMAIN Held(old, saw) = DOMAIN saw
  BY DEF Held
<1>2. ASSUME NEW p \in DOMAIN saw
      PROVE  /\ Held(old, saw)[p] \in States
             /\ Unhealthy(State(old, p)) /\ ~Unhealthy(Held(old, saw)[p]) => saw[p] = "room"
  <2>1. saw[p] \in {"low", "error", "near", "room"}
    BY SightingParts
  <2>2. Held(old, saw)[p] = CASE saw[p] = "near" -> IF Unhealthy(State(old, p)) THEN "low" ELSE "ok"
                               [] saw[p] = "room" -> "ok" [] OTHER -> saw[p]
    BY DEF Held
  <2>3. CASE saw[p] = "near"
    BY <2>2, <2>3 DEF States, Unhealthy
  <2>4. CASE saw[p] = "room"
    BY <2>2, <2>4 DEF States, Unhealthy
  <2>5. CASE saw[p] \in {"low", "error"}
    BY <2>2, <2>5 DEF States, Unhealthy
  <2>. QED BY <2>1, <2>3, <2>4, <2>5
<1>3. Held(old, saw) \in [DOMAIN saw -> States]
  BY <1>2 DEF Held
<1>. QED BY <1>1, <1>2, <1>3, SightingParts DEF Observations

\* What NewManager takes from the event log is what the log says, but for the open
\* incidents it does not find.
LEMMA RestoredStates ==
  ASSUME NEW log \in [Paths -> States], NEW found \in SUBSET Paths
  PROVE  /\ Restored(log, found) \in Observations
         /\ \A p \in Paths \ (Open(log) \ found) : State(Restored(log, found), p) = log[p]
<1>1. Restored(log, found) \in [found -> States] /\ \A p \in found : Restored(log, found)[p] = log[p]
  BY DEF Restored
<1>2. Restored(log, found) \in Observations
  BY <1>1 DEF Observations
<1>3. \A p \in Paths \ Open(log) : log[p] = "ok"
  BY DEF Open, Unhealthy, States
<1>. QED BY <1>1, <1>2, <1>3 DEF State

-------------------------------------------------------------------------------
(* The inductive invariant                                                 *)

\* A run's scheduler and its check.
Checks ==
  [pc : {"none", "wait", "due", "probe", "log"}, seen : Sightings, left : SUBSET Paths,
   new : Observations, changed : BOOLEAN]

\* The state is well typed.
TypeOK ==
  /\ running \in BOOLEAN /\ run \in 0..MaxRuns /\ probeMu \in Runs \cup {None}
  /\ check \in [Runs -> Checks]
  /\ paths \in Observations /\ queue \in {"ok", "low", None} /\ told \in {"ok", "low"} /\ missed \in BOOLEAN
  /\ logged \in [Paths -> States] /\ aged \in SUBSET Paths /\ unlogged \in SUBSET Paths

\* storageProbeMu belongs to the one check that is under way; a run to come has none.
OneCheck ==
  \A k \in Runs : /\ check[k].pc \in {"probe", "log"} <=> probeMu = k
                  /\ k > run => check[k].pc = "none"

\* What the rotated file holds of a path is an open incident.
AgedOpen == aged \subseteq Open(logged)

\* What is queued for the channel, or was told last, is whether any path is unhealthy.
ToldRight ==
  /\ queue # None => queue = Aggregate(paths)
  /\ queue = None /\ ~missed => told = Aggregate(paths)

\* The log has the published states, but for some paths and those it is wrong about.
LogRight(some) == \A p \in Paths \ (some \cup unlogged) : logged[p] = State(paths, p)

\* Between checks, and while one still probes, everyone knows what was published.
AllKnow == (\A k \in Runs : check[k].pc # "log") => ToldRight /\ LogRight({})

\* A check that has published owes the log the changes it has not tried to write, and the
\* channel their sum.
Owes ==
  \A k \in Runs : check[k].pc = "log" =>
    /\ check[k].new = paths /\ LogRight(check[k].left)
    /\ ~check[k].changed => ToldRight /\ check[k].left = {}

IInv == TypeOK /\ OneCheck /\ AgedOpen /\ AllKnow /\ Owes

-------------------------------------------------------------------------------
(* One lemma per step                                                      *)

\* A check before its probes, or after its end.
LEMMA IdleTyped ==
  ASSUME NEW to \in {"none", "wait", "due", "probe"}, NEW targets \in SUBSET Paths
  PROVE  /\ Idle(to) \in Checks /\ Idle(to).pc = to
         /\ [Idle(to) EXCEPT !.left = targets] \in Checks /\ [Idle(to) EXCEPT !.left = targets].pc = to
<1>1. Idle(to) \in Checks /\ Idle(to).pc = to
  BY NoObservation DEF Idle, Checks
<1>2. [Idle(to) EXCEPT !.left = targets] \in Checks
  BY <1>1 DEF Checks
<1>3. [Idle(to) EXCEPT !.left = targets].pc = to
  BY <1>1 DEF Checks
<1>. QED BY <1>1, <1>2, <1>3

\* A step that leaves what was published and what everyone knows of it.
LEMMA NothingPublished ==
  ASSUME IInv, TypeOK', OneCheck', UNCHANGED <<paths, queue, logged, aged, told, unlogged, missed>>,
         \A k \in Runs : check'[k].pc = "log" \/ check[k].pc = "log" => check'[k] = check[k]
  PROVE  IInv'
<1>1. ToldRight' <=> ToldRight
  BY DEF ToldRight
<1>2. \A some : LogRight(some)' <=> LogRight(some)
  BY DEF LogRight
<1>3. AgedOpen'
  BY DEF IInv, AgedOpen, Open
<1>4. AllKnow'
  BY <1>1, <1>2 DEF IInv, AllKnow
<1>5. Owes'
  <2>1. SUFFICES ASSUME NEW k \in Runs, check'[k].pc = "log"
                 PROVE  /\ check'[k].new = paths' /\ LogRight(check[k].left)'
                        /\ ~check'[k].changed => ToldRight' /\ check'[k].left = {}
    BY DEF Owes
  <2>2. check'[k] = check[k]
    BY <2>1
  <2>3. check[k].new = paths /\ LogRight(check[k].left) /\ (~check[k].changed => ToldRight /\ check[k].left = {})
    BY <2>1, <2>2 DEF IInv, Owes
  <2>4. LogRight(check[k].left)'
    BY <2>2, <2>3 DEF LogRight
  <2>. QED BY <1>1, <2>2, <2>3, <2>4
<1>. QED BY <1>3, <1>4, <1>5 DEF IInv

\* The manager starts and stops: a scheduler more, or one that will end.
LEMMA StartStopInv == ASSUME IInv, Start \/ Stop PROVE IInv'
<1>1. CASE Start
  <2>1. /\ run' = run + 1 /\ run' \in 0..MaxRuns /\ run' \in Runs /\ running' = TRUE
        /\ check' = [check EXCEPT ![run'] = Idle("due")] /\ check[run'].pc = "none"
        /\ UNCHANGED <<probeMu, paths, queue, logged, aged, told, unlogged, missed>>
    BY <1>1, StorageAssumption DEF Start, Runs, IInv, TypeOK, OneCheck
  <2>2. Idle("due") \in Checks /\ Idle("due").pc = "due"
    BY IdleTyped
  <2>3. TypeOK'
    BY <2>1, <2>2 DEF IInv, TypeOK
  <2>4. OneCheck'
    BY <2>1, <2>2 DEF IInv, TypeOK, OneCheck, Runs
  <2>. QED BY <2>1, <2>2, <2>3, <2>4, NothingPublished DEF IInv, TypeOK
<1>2. CASE Stop
  <2>1. running' = FALSE /\ UNCHANGED <<run, probeMu, check, paths, queue, logged, aged, told, unlogged, missed>>
    BY <1>2 DEF Stop
  <2>2. TypeOK' /\ OneCheck'
    BY <2>1 DEF IInv, TypeOK, OneCheck
  <2>. QED BY <2>1, <2>2, NothingPublished
<1>. QED BY <1>1, <1>2

\* A turn.
LEMMA TickInv == ASSUME IInv, NEW k \in Runs, Tick(k) PROVE IInv'
<1>1. /\ check[k].pc = "wait" /\ check' = [check EXCEPT ![k] = Idle("due")]
      /\ UNCHANGED <<running, run, probeMu, paths, queue, logged, aged, told, unlogged, missed>>
  BY DEF Tick
<1>2. Idle("due") \in Checks /\ Idle("due").pc = "due"
  BY IdleTyped
<1>3. TypeOK'
  BY <1>1, <1>2 DEF IInv, TypeOK
<1>4. OneCheck'
  BY <1>1, <1>2 DEF IInv, TypeOK, OneCheck
<1>. QED BY <1>1, <1>2, <1>3, <1>4, NothingPublished DEF IInv, TypeOK

\* A check begins, unless another one is under way.
LEMMA BeginInv == ASSUME IInv, NEW k \in Runs, Begin(k) PROVE IInv'
<1>1. check[k].pc = "due" /\ UNCHANGED <<running, run, paths, queue, logged, aged, told, unlogged, missed>>
  BY DEF Begin
<1>2. CASE probeMu = None
  <2>1. PICK targets \in SUBSET Paths :
          probeMu' = k /\ check' = [check EXCEPT ![k] = [Idle("probe") EXCEPT !.left = targets]]
    BY <1>2 DEF Begin
  <2> DEFINE n == [Idle("probe") EXCEPT !.left = targets]
  <2>2. n \in Checks /\ n.pc = "probe"
    BY IdleTyped
  <2>3. check' = [check EXCEPT ![k] = n]
    BY <2>1
  <2> HIDE DEF n
  <2>4. TypeOK'
    BY <1>1, <2>1, <2>2, <2>3 DEF IInv, TypeOK
  <2>5. OneCheck'
    BY <1>1, <1>2, <2>1, <2>2, <2>3, StorageAssumption DEF IInv, TypeOK, OneCheck, Runs
  <2>. QED BY <1>1, <2>2, <2>3, <2>4, <2>5, NothingPublished DEF IInv, TypeOK
<1>3. CASE probeMu # None
  <2>1. check' = [check EXCEPT ![k] = Idle("wait")] /\ UNCHANGED probeMu
    BY <1>3 DEF Begin
  <2>2. Idle("wait") \in Checks /\ Idle("wait").pc = "wait"
    BY IdleTyped
  <2>3. TypeOK'
    BY <1>1, <2>1, <2>2 DEF IInv, TypeOK
  <2>4. OneCheck'
    BY <1>1, <2>1, <2>2 DEF IInv, TypeOK, OneCheck
  <2>. QED BY <1>1, <2>1, <2>2, <2>3, <2>4, NothingPublished DEF IInv, TypeOK
<1>. QED BY <1>2, <1>3

\* What a check publishes it owes to the log and the channel; with nothing changed they
\* know it already.
LEMMA PublishInv == ASSUME IInv, NEW k \in Runs, Publish(k) PROVE IInv'
<1>1. /\ check[k].pc = "probe" /\ check[k] \in Checks
      /\ UNCHANGED <<running, run, queue, logged, aged, told, unlogged, missed>>
  BY DEF Publish, IInv, TypeOK
<1>2. CASE running /\ run = k
  <2>1. PICK space \in [check[k].left -> Levels] :
          LET sights == [p \in check[k].left |-> Probed(space[p])]
              new == Held(paths, sights)
              changed == Changed(paths, new)
          IN /\ paths' = new /\ UNCHANGED probeMu
             /\ check' = [check EXCEPT ![k] = [pc |-> "log", seen |-> sights, left |-> changed, new |-> new,
                                               changed |-> changed # {}]]
    BY <1>2 DEF Publish
  <2> DEFINE saw == [p \in check[k].left |-> Probed(space[p])]
             new == Held(paths, saw)
             n   == [pc |-> "log", seen |-> saw, left |-> Changed(paths, new), new |-> new,
                     changed |-> Changed(paths, new) # {}]
  <2>2. paths' = new /\ UNCHANGED probeMu /\ check' = [check EXCEPT ![k] = n]
    BY <2>1
  <2>3. saw \in Sightings
    BY <1>1, SightingsSeen DEF Checks
  <2> HIDE DEF saw
  <2>4. new \in Observations
    BY <2>3, HeldTyped
  <2> HIDE DEF new
  <2>5. /\ n \in Checks /\ n.pc = "log" /\ n.new = new /\ n.left = Changed(paths, new)
        /\ n.changed <=> Changed(paths, new) # {}
    BY <2>3, <2>4 DEF Checks, Changed
  <2> HIDE DEF n
  <2>6. check'[k] = n /\ \A j \in Runs \ {k} : check'[j] = check[j]
    BY <2>2 DEF IInv, TypeOK
  <2>7. TypeOK'
    BY <1>1, <2>2, <2>4, <2>5 DEF IInv, TypeOK
  <2>8. OneCheck'
    BY <1>1, <2>2, <2>5, <2>6 DEF IInv, OneCheck
  <2>9. \A j \in Runs : check[j].pc # "log"
    BY <1>1 DEF IInv, OneCheck
  <2>10. ToldRight /\ LogRight({})
    BY <2>9 DEF IInv, AllKnow
  <2>11. ~n.changed => ToldRight'
    <3>1. SUFFICES ASSUME Changed(paths, new) = {} PROVE ToldRight'
      BY <2>5
    <3>2. Aggregate(paths') = Aggregate(paths)
      BY <2>2, <2>4, <3>1, AggregateOfStates DEF Changed, IInv, TypeOK
    <3>. QED BY <1>1, <2>10, <3>2 DEF ToldRight
  <2>12. \A p \in Paths \ (n.left \cup unlogged') : logged'[p] = State(paths', p)
    <3>1. \A p \in Paths \ n.left : State(paths', p) = State(paths, p)
      BY <2>2, <2>5 DEF Changed
    <3>. QED BY <1>1, <2>10, <3>1 DEF LogRight
  <2>13. AgedOpen'
    BY <1>1 DEF IInv, AgedOpen, Open
  <2>14. AllKnow'
    BY <2>5, <2>6 DEF AllKnow
  <2>15. Owes'
    <3>1. \A j \in Runs : check'[j].pc = "log" => j = k
      BY <2>6, <2>9
    <3>2. check'[k].new = paths' /\ (~check'[k].changed => ToldRight' /\ check'[k].left = {})
      BY <2>2, <2>5, <2>6, <2>11
    <3>3. LogRight(check[k].left)'
      BY <2>6, <2>12 DEF LogRight
    <3>. QED BY <3>1, <3>2, <3>3 DEF Owes
  <2>. QED BY <2>7, <2>8, <2>13, <2>14, <2>15 DEF IInv
<1>3. CASE ~(running /\ run = k)
  <2>1. check' = [check EXCEPT ![k] = Idle("wait")] /\ probeMu' = None /\ UNCHANGED paths
    BY <1>3 DEF Publish
  <2>2. Idle("wait") \in Checks /\ Idle("wait").pc = "wait"
    BY IdleTyped
  <2>3. TypeOK'
    BY <1>1, <2>1, <2>2 DEF IInv, TypeOK
  <2>4. OneCheck'
    BY <1>1, <2>1, <2>2, StorageAssumption DEF IInv, TypeOK, OneCheck, Runs
  <2>. QED BY <1>1, <2>1, <2>2, <2>3, <2>4, NothingPublished DEF IInv, TypeOK
<1>. QED BY <1>2, <1>3

\* The log has one change more, or is wrong about one path more.
LEMMA LogInv == ASSUME IInv, NEW k \in Runs, Log(k) PROVE IInv'
<1>1. /\ check[k].pc = "log" /\ check[k] \in Checks /\ check[k].new = paths /\ LogRight(check[k].left)
      /\ UNCHANGED <<running, run, probeMu, paths, queue, told, missed>>
      /\ ~check[k].changed => ToldRight /\ check[k].left = {}
  BY DEF Log, IInv, TypeOK, Owes
<1>2. PICK p \in check[k].left :
        /\ check' = [check EXCEPT ![k].left = @ \ {p}]
        /\ \/ /\ logged' = [logged EXCEPT ![p] = State(check[k].new, p)]
              /\ aged' = aged \ {p} /\ unlogged' = unlogged \ {p}
           \/ UNCHANGED <<logged, aged>> /\ unlogged' = unlogged \cup {p}
  BY DEF Log
<1> DEFINE n == [check[k] EXCEPT !.left = @ \ {p}]
<1>3. check' = [check EXCEPT ![k] = n] /\ p \in Paths
  BY <1>1, <1>2 DEF Checks
<1>4. /\ n \in Checks /\ n.pc = "log" /\ n.new = check[k].new /\ n.changed = check[k].changed
      /\ n.left = check[k].left \ {p}
  BY <1>1 DEF Checks
<1> HIDE DEF n
<1>5. check'[k] = n /\ \A j \in Runs \ {k} : check'[j] = check[j]
  BY <1>3 DEF IInv, TypeOK
<1>6. \A j \in Runs \ {k} : check[j].pc # "log"
  BY <1>1 DEF IInv, OneCheck
<1>7. State(paths, p) \in States
  BY StateTyped DEF IInv, TypeOK
<1>8. TypeOK'
  BY <1>1, <1>2, <1>3, <1>4, <1>7 DEF IInv, TypeOK
<1>9. OneCheck'
  BY <1>1, <1>4, <1>5 DEF IInv, OneCheck
<1>10. AgedOpen'
  BY <1>2 DEF IInv, TypeOK, AgedOpen, Open
<1>11. \A q \in Paths \ (n.left \cup unlogged') : logged'[q] = State(paths', q)
  <2>1. CASE /\ logged' = [logged EXCEPT ![p] = State(check[k].new, p)]
             /\ unlogged' = unlogged \ {p}
    BY <1>1, <1>4, <2>1 DEF LogRight, IInv, TypeOK
  <2>2. CASE UNCHANGED logged /\ unlogged' = unlogged \cup {p}
    BY <1>1, <1>4, <2>2 DEF LogRight
  <2>. QED BY <1>2, <2>1, <2>2
<1>12. AllKnow'
  BY <1>4, <1>5 DEF AllKnow
<1>13. ToldRight => ToldRight'
  BY <1>1 DEF ToldRight
<1>14. Owes'
  <2>1. \A j \in Runs : check'[j].pc = "log" => j = k
    BY <1>5, <1>6
  <2>2. check'[k].new = paths' /\ (~check'[k].changed => ToldRight' /\ check'[k].left = {})
    BY <1>1, <1>4, <1>5, <1>13
  <2>3. LogRight(check[k].left)'
    BY <1>5, <1>11 DEF LogRight
  <2>. QED BY <2>1, <2>2, <2>3 DEF Owes
<1>. QED BY <1>8, <1>9, <1>10, <1>12, <1>14 DEF IInv

\* The channel gets the sum of the changes, and the check is over.
LEMMA TellInv == ASSUME IInv, NEW k \in Runs, Tell(k) PROVE IInv'
<1>1. /\ check[k].pc = "log" /\ check[k].left = {} /\ check[k].new = paths /\ LogRight({})
      /\ check[k] \in Checks
      /\ ~check[k].changed => ToldRight
      /\ UNCHANGED <<running, run, paths, logged, aged, told, unlogged>> /\ probeMu' = None
      /\ check' = [check EXCEPT ![k] = Idle("wait")]
  BY DEF Tell, IInv, TypeOK, Owes
<1>2. Idle("wait") \in Checks /\ Idle("wait").pc = "wait"
  BY IdleTyped
<1>3. check'[k] = Idle("wait") /\ \A j \in Runs \ {k} : check'[j] = check[j]
  BY <1>1 DEF IInv, TypeOK
<1>4. Aggregate(paths) \in {"ok", "low"}
  BY DEF Aggregate
<1>5. queue' \in {"ok", "low", None} /\ missed' \in BOOLEAN
  BY <1>1, <1>4 DEF Tell, IInv, TypeOK
<1>6. TypeOK'
  BY <1>1, <1>2, <1>5 DEF IInv, TypeOK
<1>7. OneCheck'
  BY <1>1, <1>2, <1>3, StorageAssumption DEF IInv, OneCheck, Runs
<1>8. ToldRight'
  <2>1. CASE ~check[k].changed
    <3>1. UNCHANGED <<queue, missed>> /\ ToldRight
      BY <1>1, <2>1 DEF Tell
    <3>. QED BY <1>1, <3>1 DEF ToldRight
  <2>2. CASE check[k].changed
    <3>1. queue' = Aggregate(paths)
      BY <1>1, <2>2 DEF Tell
    <3>. QED BY <1>1, <1>4, <3>1, StorageAssumption DEF ToldRight
  <2>. QED BY <2>1, <2>2
<1>9. LogRight({})'
  BY <1>1 DEF LogRight
<1>10. AgedOpen'
  BY <1>1 DEF IInv, AgedOpen, Open
<1>11. AllKnow'
  BY <1>8, <1>9 DEF AllKnow
<1>12. \A j \in Runs : check'[j].pc # "log"
  BY <1>1, <1>2, <1>3 DEF IInv, OneCheck
<1>13. Owes'
  BY <1>12 DEF Owes
<1>. QED BY <1>6, <1>7, <1>10, <1>11, <1>13 DEF IInv

\* The channel's worker sends the state it was given.
LEMMA SendInv == ASSUME IInv, Send PROVE IInv'
<1>1. /\ queue # None /\ told' = queue /\ queue' = None
      /\ UNCHANGED <<running, run, probeMu, check, paths, logged, aged, unlogged, missed>>
  BY DEF Send
<1>2. TypeOK' /\ OneCheck' /\ AgedOpen'
  BY <1>1 DEF IInv, TypeOK, OneCheck, AgedOpen, Open
<1>3. ToldRight => ToldRight'
  BY <1>1 DEF ToldRight
<1>4. \A some : LogRight(some) => LogRight(some)'
  BY <1>1 DEF LogRight
<1>5. AllKnow'
  BY <1>1, <1>3, <1>4 DEF IInv, AllKnow
<1>6. Owes'
  <2>1. SUFFICES ASSUME NEW k \in Runs, check'[k].pc = "log"
                 PROVE  /\ check'[k].new = paths' /\ LogRight(check[k].left)'
                        /\ ~check'[k].changed => ToldRight' /\ check'[k].left = {}
    BY DEF Owes
  <2>2. check[k].new = paths /\ LogRight(check[k].left) /\ (~check[k].changed => ToldRight /\ check[k].left = {})
    BY <1>1, <2>1 DEF IInv, Owes
  <2>3. LogRight(check[k].left)'
    BY <1>1, <2>2 DEF LogRight
  <2>. QED BY <1>1, <1>3, <2>2, <2>3
<1>. QED BY <1>2, <1>5, <1>6 DEF IInv

\* A rotation: what the log says of the other paths stays.
LEMMA RotateInv == ASSUME IInv, NEW renamed \in BOOLEAN, Rotate(renamed) PROVE IInv'
<1>1. /\ logged' = [p \in Paths |-> IF p \in aged THEN "ok" ELSE logged[p]]
      /\ aged' = (IF renamed THEN Open(logged') ELSE {}) /\ unlogged' = unlogged \cup aged
      /\ UNCHANGED <<running, run, probeMu, check, paths, queue, told, missed>>
  BY DEF Rotate
<1>2. aged' \in SUBSET Paths /\ logged' \in [Paths -> States]
  BY <1>1 DEF IInv, TypeOK, Open, States
<1>3. TypeOK' /\ OneCheck'
  BY <1>1, <1>2 DEF IInv, TypeOK, OneCheck
<1>4. AgedOpen'
  BY <1>1 DEF AgedOpen
<1>5. ToldRight => ToldRight'
  BY <1>1 DEF ToldRight
<1>6. \A some : LogRight(some) => LogRight(some)'
  BY <1>1 DEF LogRight
<1>7. AllKnow'
  BY <1>1, <1>5, <1>6 DEF IInv, AllKnow
<1>8. Owes'
  <2>1. SUFFICES ASSUME NEW k \in Runs, check'[k].pc = "log"
                 PROVE  /\ check'[k].new = paths' /\ LogRight(check[k].left)'
                        /\ ~check'[k].changed => ToldRight' /\ check'[k].left = {}
    BY DEF Owes
  <2>2. check[k].new = paths /\ LogRight(check[k].left) /\ (~check[k].changed => ToldRight /\ check[k].left = {})
    BY <1>1, <2>1 DEF IInv, Owes
  <2>3. LogRight(check[k].left)'
    BY <1>1, <2>2 DEF LogRight
  <2>. QED BY <1>1, <1>5, <2>2, <2>3
<1>. QED BY <1>3, <1>4, <1>7, <1>8 DEF IInv

\* A new process has the observations the log gives back; it is wrong about the open
\* incidents it did not find, and an alert that was due is missed.
LEMMA RestartInv == ASSUME IInv, Restart PROVE IInv'
<1>1. /\ running' = FALSE /\ probeMu' = None /\ queue' = None /\ UNCHANGED <<run, logged, aged, told>>
      /\ check' = [k \in Runs |-> Idle("none")]
  BY DEF Restart
<1>2. PICK found \in Found :
        /\ paths' = Restored(logged, found) /\ unlogged' = Open(logged) \ found
        /\ missed' = \/ missed \/ queue # None \/ unlogged # {} \/ Open(logged) # found
                     \/ \E k \in Runs : check[k].pc = "log" /\ check[k].changed
  BY DEF Restart
<1>3. found \in SUBSET Open(logged) /\ Open(logged) \subseteq Paths
  BY DEF Found, Open, IInv, AgedOpen
<1>4. paths' \in Observations /\ \A p \in Paths \ unlogged' : State(paths', p) = logged[p]
  <2>1. found \in SUBSET Paths /\ logged \in [Paths -> States]
    BY <1>3 DEF IInv, TypeOK
  <2>. QED BY <1>2, <2>1, RestoredStates
<1>5. Idle("none") \in Checks /\ Idle("none").pc = "none"
  BY IdleTyped
<1>6. TypeOK'
  <2>1. missed' \in BOOLEAN /\ unlogged' \in SUBSET Paths
    BY <1>2, <1>3
  <2>. QED BY <1>1, <1>4, <1>5, <2>1 DEF IInv, TypeOK
<1>7. OneCheck'
  BY <1>1, <1>5, StorageAssumption DEF OneCheck, Runs
<1>8. AgedOpen'
  BY <1>1 DEF IInv, AgedOpen, Open
<1>9. ToldRight'
  <2>1. SUFFICES ASSUME ~missed' PROVE told = Aggregate(paths')
    BY <1>1 DEF ToldRight
  <2>2. /\ ~missed /\ queue = None /\ unlogged = {} /\ Open(logged) = found
        /\ \A k \in Runs : check[k].pc = "log" => ~check[k].changed
    BY <1>2, <2>1
  <2>3. ToldRight
    <3>1. CASE \A k \in Runs : check[k].pc # "log"
      BY <3>1 DEF IInv, AllKnow
    <3>2. CASE \E k \in Runs : check[k].pc = "log"
      BY <2>2, <3>2 DEF IInv, Owes
    <3>. QED BY <3>1, <3>2
  <2>4. \A p \in Paths : logged[p] = State(paths, p)
    <3>1. CASE \A k \in Runs : check[k].pc # "log"
      BY <2>2, <3>1 DEF IInv, AllKnow, LogRight
    <3>2. ASSUME NEW k \in Runs, check[k].pc = "log" PROVE check[k].left = {}
      BY <2>2, <3>2 DEF IInv, Owes
    <3>3. CASE \E k \in Runs : check[k].pc = "log"
      BY <2>2, <3>2, <3>3 DEF IInv, Owes, LogRight
    <3>. QED BY <3>1, <3>3
  <2>5. Aggregate(paths') = Aggregate(paths)
    <3>1. \A p \in Paths : State(paths', p) = State(paths, p)
      BY <1>2, <1>4, <2>2, <2>4
    <3>. QED BY <1>4, <3>1, AggregateOfStates DEF IInv, TypeOK
  <2>. QED BY <2>2, <2>3, <2>5 DEF ToldRight
<1>10. LogRight({})'
  BY <1>1, <1>4 DEF LogRight
<1>11. AllKnow'
  BY <1>9, <1>10 DEF AllKnow
<1>12. Owes'
  BY <1>1, <1>5 DEF Owes
<1>. QED BY <1>6, <1>7, <1>8, <1>11, <1>12 DEF IInv

-------------------------------------------------------------------------------
(* The theorems                                                            *)

\* A monitor that has not run yet.
LEMMA IInvInit == Init => IInv
<1> SUFFICES ASSUME Init PROVE IInv
  OBVIOUS
<1>1. Idle("none") \in Checks /\ Idle("none").pc = "none"
  BY IdleTyped
<1>2. paths = <<>> /\ paths \in Observations /\ \A p \in Paths : State(paths, p) = "ok"
  BY NoObservation DEF Init
<1>3. Aggregate(paths) = "ok"
  <2>1. DOMAIN paths = {}
    BY <1>2
  <2>. QED BY <2>1 DEF Aggregate
<1>4. TypeOK
  <2>1. check \in [Runs -> Checks] /\ logged \in [Paths -> States]
    BY <1>1 DEF Init, States
  <2>2. run \in 0..MaxRuns /\ probeMu \in Runs \cup {None}
    BY StorageAssumption DEF Init
  <2>. QED BY <1>2, <2>1, <2>2 DEF Init, TypeOK
<1>5. OneCheck
  BY <1>1, StorageAssumption DEF Init, OneCheck, Runs
<1>6. AllKnow
  BY <1>2, <1>3 DEF Init, AllKnow, ToldRight, LogRight
<1>7. Owes
  BY <1>1 DEF Init, Owes
<1>8. AgedOpen
  BY DEF Init, AgedOpen
<1>. QED BY <1>4, <1>5, <1>6, <1>7, <1>8 DEF IInv

\* Every step preserves the invariant.
LEMMA IInvNext == IInv /\ [Next]_vars => IInv'
<1> SUFFICES ASSUME IInv, [Next]_vars PROVE IInv'
  OBVIOUS
<1>1. ASSUME NEW k \in Runs, Check(k) PROVE IInv'
  BY <1>1, TickInv, BeginInv, PublishInv, LogInv, TellInv DEF Check
<1>2. CASE UNCHANGED vars
  <2>1. UNCHANGED <<running, run, probeMu, check, paths, queue, logged, aged, told, unlogged, missed>>
    BY <1>2 DEF vars
  <2>2. TypeOK' /\ OneCheck'
    BY <2>1 DEF IInv, TypeOK, OneCheck
  <2>. QED BY <2>1, <2>2, NothingPublished
<1>. QED BY <1>1, <1>2, StartStopInv, SendInv, RotateInv, RestartInv DEF Next

\* Every variable keeps its type.
THEOREM TypeCorrect == Spec => []TypeOK
<1>1. IInv /\ [Next]_vars => IInv'
  BY IInvNext
<1>2. IInv => TypeOK
  BY DEF IInv
<1>. QED BY IInvInit, <1>1, <1>2, PTL DEF Spec

\* Between checks the log has the published state of every path but those it is known to
\* be wrong about, since a write failed or an event was forgotten or not read; and a
\* channel that caught up was told whether any path is unhealthy, unless the end of a
\* process, or a log that was wrong when the next one read it, has come in between and
\* nothing has changed since.  Whatever stops, starts and late probes there are.
THEOREM EveryoneIsTold == Spec => []StorageTold
<1>1. IInv /\ [Next]_vars => IInv'
  BY IInvNext
<1>2. IInv => StorageTold
  <2>1. ASSUME IInv, probeMu = None PROVE \A k \in Runs : check[k].pc # "log"
    BY <2>1, StorageAssumption DEF IInv, OneCheck, Runs
  <2>. QED BY <2>1 DEF IInv, AllKnow, ToldRight, LogRight, StorageTold
<1>. QED BY IInvInit, <1>1, <1>2, PTL DEF Spec

\* holdLowUntilRecovered: a path that stays monitored recovers only on a probe that
\* found the margin free; a restart of the process recovers nothing it has found.
THEOREM LowIsHeld == Spec => LowHolds
<1> DEFINE Recovers ==
      \A p \in DOMAIN paths \cap DOMAIN paths' :
        Unhealthy(paths[p]) /\ ~Unhealthy(paths'[p]) => \E k \in Runs : check'[k].pc = "log" /\ check'[k].seen[p] = "room"
<1>1. IInv /\ [Next]_vars => IInv'
  BY IInvNext
<1>2. IInv /\ Next => Recovers
  <2> SUFFICES ASSUME IInv, Next PROVE Recovers
    OBVIOUS
  <2>1. CASE UNCHANGED paths
    BY <2>1
  <2>2. ASSUME NEW k \in Runs, Publish(k), running /\ run = k PROVE Recovers
    <3>1. PICK space \in [check[k].left -> Levels] :
            LET sights == [p \in check[k].left |-> Probed(space[p])]
                new == Held(paths, sights)
                changed == Changed(paths, new)
            IN /\ paths' = new
               /\ check' = [check EXCEPT ![k] = [pc |-> "log", seen |-> sights, left |-> changed, new |-> new,
                                                 changed |-> changed # {}]]
      BY <2>2 DEF Publish
    <3> DEFINE saw == [p \in check[k].left |-> Probed(space[p])]
    <3>2. paths' = Held(paths, saw) /\ check'[k].pc = "log" /\ check'[k].seen = saw
      BY <3>1 DEF IInv, TypeOK
    <3>3. saw \in Sightings
      BY SightingsSeen DEF IInv, TypeOK, Checks
    <3> HIDE DEF saw
    <3>4. ASSUME NEW p \in DOMAIN paths \cap DOMAIN paths', Unhealthy(paths[p]), ~Unhealthy(paths'[p])
          PROVE  saw[p] = "room"
      <4>1. p \in DOMAIN saw
        BY <3>2, <3>3, HeldTyped
      <4>2. State(paths, p) = paths[p]
        BY DEF State
      <4>. QED BY <3>2, <3>3, <3>4, <4>1, <4>2, HeldTyped
    <3>. QED BY <3>2, <3>4
  <2>3. CASE Restart
    <3>1. PICK found \in Found : paths' = Restored(logged, found)
      BY ZenonT(60), <2>3 DEF Restart
    <3>2. found \subseteq Open(logged)
      BY <3>1 DEF Found, IInv, AgedOpen
    <3>3. \A p \in DOMAIN paths' : Unhealthy(paths'[p])
      BY <3>1, <3>2 DEF Restored, Open
    <3>. QED BY <3>3
  <2>4. UNCHANGED paths \/ Restart \/ \E k \in Runs : Publish(k) /\ running /\ run = k
    BY ZenonT(60) DEF Next, Check, Start, Stop, Tick, Begin, Publish, Log, Tell, Send, Rotate
  <2>. QED BY <2>1, <2>2, <2>3, <2>4
<1>3. [Next]_vars /\ IInv => [Recovers]_vars
  BY <1>2
<1>. QED BY IInvInit, <1>1, <1>3, PTL DEF Spec, LowHolds

-------------------------------------------------------------------------------
(* Alerts: what is in order                                                *)

Kinds == {"start", "end", "dump"}

\* An arrival of kind k1 about incident i1 may come before one of kind k2 about i2.
Precedes(k1, i1, k2, i2) ==
  /\ k2 = "start" => i1 < i2
  /\ k2 = "end" => i1 <= i2 /\ (i1 = i2 => k1 = "start")
  /\ k2 = "dump" /\ i1 = i2 => k1 # "dump"

\* An arrival may come after what feed f has received.
Arrives(f, kind, id) ==
  /\ kind = "start" => f.id < id
  /\ kind = "end" => f.id <= id /\ (f.id = id => f.phase = "start")
  /\ kind # "start" => \A d \in f.dumped : d.id # id

\* The same after what waits for f: the places I of the sequence s.
Fits(f, s, I, kind, id) ==
  Arrives(f, kind, id) /\ \A i \in I : Precedes(s[i].kind, s[i].id, kind, id)

\* Feed f and what waits for it are in order and about incidents up to top; the end of
\* the open incident, if there is one, and the dumps that are due may come after them.
Ordered(f, s, I, top, open, due) ==
  /\ \A i \in I : s[i].kind \in Kinds /\ s[i].id \in 1..top /\ Arrives(f, s[i].kind, s[i].id)
  /\ \A i, j \in I : i < j => Precedes(s[i].kind, s[i].id, s[j].kind, s[j].id)
  /\ f.id \in 0..top /\ f.phase \in {"none", "start", "end"} /\ \A d \in f.dumped : d.id \in 1..top
  /\ open # 0 => Fits(f, s, I, "end", open)
  /\ \A id \in due : Fits(f, s, I, "dump", id)

\* What waits loses some of its parts, the oldest moves up by k, and it may get one more
\* of this kind about this incident.
Becomes(s, I, u, J, k, kind, id) ==
  \A j \in J : \/ j + k \in I /\ u[j] = s[j + k]
               \/ u[j].kind = kind /\ u[j].id = id /\ \A i \in J : i <= j

\* An arrival that fits may be queued, and what fits after it and fitted before fits.
LEMMA QueuedInOrder ==
  ASSUME NEW f, NEW s, NEW I, NEW top \in Nat, NEW open, NEW due, Ordered(f, s, I, top, open, due),
         NEW u, NEW J \in SUBSET Nat, NEW k \in Nat, NEW kind \in Kinds, NEW id \in Nat,
         Becomes(s, I, u, J, k, kind, id), Fits(f, s, I, kind, id),
         NEW high \in Nat, top <= high, id \in 1..high,
         NEW last, last # 0 => Fits(f, s, I, "end", last) /\ Precedes(kind, id, "end", last),
         NEW some, \A d \in some : Fits(f, s, I, "dump", d) /\ Precedes(kind, id, "dump", d)
  PROVE  Ordered(f, u, J, high, last, some)
<1>1. \A j \in J : u[j].kind \in Kinds /\ u[j].id \in 1..high /\ Arrives(f, u[j].kind, u[j].id)
  BY DEF Becomes, Ordered, Fits
<1>2. ASSUME NEW i \in J, NEW j \in J, i < j PROVE Precedes(u[i].kind, u[i].id, u[j].kind, u[j].id)
  <2>1. i + k \in I /\ u[i] = s[i + k]
    BY <1>2 DEF Becomes
  <2>2. CASE j + k \in I /\ u[j] = s[j + k]
    <3>1. i + k < j + k
      BY <1>2
    <3>. QED BY <2>1, <2>2, <3>1 DEF Ordered
  <2>3. CASE u[j].kind = kind /\ u[j].id = id
    BY <2>1, <2>3 DEF Fits
  <2>. QED BY <2>2, <2>3 DEF Becomes
<1>3. f.id \in 0..high /\ f.phase \in {"none", "start", "end"} /\ \A d \in f.dumped : d.id \in 1..high
  BY DEF Ordered
<1>4. last # 0 => Fits(f, u, J, "end", last)
  BY DEF Fits, Becomes
<1>5. \A d \in some : Fits(f, u, J, "dump", d)
  BY DEF Fits, Becomes
<1>. QED BY <1>1, <1>2, <1>3, <1>4, <1>5 DEF Ordered

\* Nothing is queued, and parts of what waits are lost.
LEMMA Fewer ==
  ASSUME NEW f, NEW s, NEW I, NEW top \in Nat, NEW open, NEW due, Ordered(f, s, I, top, open, due),
         NEW u, NEW J \in SUBSET Nat, NEW k \in Nat, \A j \in J : j + k \in I /\ u[j] = s[j + k],
         NEW high \in Nat, top <= high, NEW last \in {open, 0}, NEW some \in SUBSET due
  PROVE  Ordered(f, u, J, high, last, some)
<1>1. \A j \in J : u[j].kind \in Kinds /\ u[j].id \in 1..high /\ Arrives(f, u[j].kind, u[j].id)
  BY DEF Ordered
<1>2. ASSUME NEW i \in J, NEW j \in J, i < j PROVE Precedes(u[i].kind, u[i].id, u[j].kind, u[j].id)
  <2>1. i + k < j + k
    BY <1>2
  <2>. QED BY <2>1 DEF Ordered
<1>3. f.id \in 0..high /\ f.phase \in {"none", "start", "end"} /\ \A d \in f.dumped : d.id \in 1..high
  BY DEF Ordered
<1>4. last # 0 => Fits(f, u, J, "end", last)
  BY DEF Fits, Ordered
<1>5. \A d \in some : Fits(f, u, J, "dump", d)
  BY DEF Fits, Ordered
<1>. QED BY <1>1, <1>2, <1>3, <1>4, <1>5 DEF Ordered

\* Less is open and due, and there may be newer incidents.
LEMMA LessDue ==
  ASSUME NEW f, NEW s, NEW I \in SUBSET Nat, NEW top \in Nat, NEW open, NEW due, Ordered(f, s, I, top, open, due),
         NEW high \in Nat, top <= high, NEW last \in {open, 0}, NEW some \in SUBSET due
  PROVE  Ordered(f, s, I, high, last, some)
<1>0. (\A n \in 1..top : n \in 1..high) /\ (\A n \in 0..top : n \in 0..high)
  OBVIOUS
<1>1. \A i \in I : s[i].id \in 1..high
  BY <1>0 DEF Ordered
<1>2. f.id \in 0..high /\ \A d \in f.dumped : d.id \in 1..high
  BY <1>0 DEF Ordered
<1>3. last # 0 => Fits(f, s, I, "end", last)
  BY DEF Ordered
<1>. QED BY <1>1, <1>2, <1>3 DEF Ordered

\* An incident opens: its number is new, and so nothing that waits or has arrived is
\* about it.
LEMMA StartFits ==
  ASSUME NEW f, NEW s, NEW I, NEW top \in Nat, NEW due \in SUBSET (1..top), Ordered(f, s, I, top, 0, due),
         NEW id \in Nat, top < id,
         NEW u, NEW J \in SUBSET Nat, NEW k \in Nat, Becomes(s, I, u, J, k, "start", id)
  PROVE  Ordered(f, u, J, id, id, due)
<1>1. \A kind \in {"start", "end"} : Fits(f, s, I, kind, id)
  BY DEF Ordered, Fits, Arrives, Precedes
<1>2. \A d \in due : Fits(f, s, I, "dump", d) /\ Precedes("start", id, "dump", d)
  BY DEF Ordered, Precedes
<1>3. id # 0 => Fits(f, s, I, "end", id) /\ Precedes("start", id, "end", id)
  BY <1>1 DEF Precedes
<1>4. top <= id /\ id \in 1..id /\ "start" \in Kinds
  BY DEF Kinds
<1>. QED BY ONLY <1>1, <1>2, <1>3, <1>4, QueuedInOrder, Becomes(s, I, u, J, k, "start", id), top \in Nat, id \in Nat,
             Ordered(f, s, I, top, 0, due), J \in SUBSET Nat, k \in Nat

\* The open incident ends, and its dump is due.
LEMMA EndFits ==
  ASSUME NEW f, NEW s, NEW I, NEW top \in Nat, NEW open \in 1..top, NEW due \in SUBSET (1..top),
         open \notin due, Ordered(f, s, I, top, open, due),
         NEW u, NEW J \in SUBSET Nat, NEW k \in Nat, Becomes(s, I, u, J, k, "end", open)
  PROVE  Ordered(f, u, J, top, 0, due \cup {open})
<1>1. Fits(f, s, I, "end", open)
  BY DEF Ordered
<1>2. Fits(f, s, I, "dump", open)
  BY <1>1 DEF Fits, Arrives, Precedes
<1>3. \A d \in due \cup {open} : Fits(f, s, I, "dump", d) /\ Precedes("end", open, "dump", d)
  BY <1>2 DEF Ordered, Precedes
<1>4. top <= top /\ open \in Nat /\ "end" \in Kinds
  BY DEF Kinds
<1>5. ASSUME NEW last, last = 0, NEW some, some = due \cup {open} PROVE Ordered(f, u, J, top, last, some)
  <2>1. last # 0 => Fits(f, s, I, "end", last) /\ Precedes("end", open, "end", last)
    BY <1>5
  <2>2. \A d \in some : Fits(f, s, I, "dump", d) /\ Precedes("end", open, "dump", d)
    BY <1>3, <1>5
  <2>. QED BY ONLY <1>1, <1>4, <2>1, <2>2, QueuedInOrder, Becomes(s, I, u, J, k, "end", open), top \in Nat,
               open \in 1..top, Ordered(f, s, I, top, open, due), J \in SUBSET Nat, k \in Nat
<1>. QED BY <1>5

\* A dump that is due comes.
LEMMA DumpFits ==
  ASSUME NEW f, NEW s, NEW I, NEW top \in Nat, NEW open \in Nat, NEW due \in SUBSET (1..top),
         NEW id \in due, id # open, open <= top, Ordered(f, s, I, top, open, due),
         open # 0 => id < open,
         NEW u, NEW J \in SUBSET Nat, NEW k \in Nat, Becomes(s, I, u, J, k, "dump", id)
  PROVE  Ordered(f, u, J, top, open, due \ {id})
<1>1. Fits(f, s, I, "dump", id) /\ id \in 1..top
  BY DEF Ordered
<1>2. open # 0 => Fits(f, s, I, "end", open) /\ Precedes("dump", id, "end", open)
  BY <1>1 DEF Ordered, Precedes
<1>3. \A d \in due \ {id} : Fits(f, s, I, "dump", d) /\ Precedes("dump", id, "dump", d)
  BY DEF Ordered, Precedes
<1>4. top <= top /\ id \in Nat /\ "dump" \in Kinds
  BY <1>1 DEF Kinds
<1>. QED BY ONLY <1>1, <1>2, <1>3, <1>4, QueuedInOrder, Becomes(s, I, u, J, k, "dump", id), top \in Nat,
             Ordered(f, s, I, top, open, due), J \in SUBSET Nat, k \in Nat

\* The first of what waits arrives.
LEMMA FirstArrives ==
  ASSUME NEW f, NEW s, NEW I, NEW top \in Nat, NEW open \in Nat, NEW due \in SUBSET Nat,
         Ordered(f, s, I, top, open, due), 1 \in I,
         NEW u, NEW J \in SUBSET (Nat \ {0}), \A j \in J : j + 1 \in I /\ u[j] = s[j + 1],
         NEW g2,
         LET x == s[1] IN
           /\ x.kind = "start" => g2.id = x.id /\ g2.phase = "start" /\ g2.dumped = f.dumped
           /\ x.kind = "end" => g2.id = x.id /\ g2.phase = "end" /\ g2.dumped = f.dumped
           /\ x.kind = "dump" =>
                /\ x.id >= f.id => g2.id = x.id /\ g2.phase = "end"
                /\ x.id < f.id => g2.id = f.id /\ g2.phase = f.phase
                /\ \A d \in g2.dumped : d \in f.dumped \/ d.id = x.id
  PROVE  Ordered(g2, u, J, top, open, due)
<1> DEFINE x == s[1]
<1>1. x.kind \in Kinds /\ x.id \in 1..top /\ Arrives(f, x.kind, x.id) /\ f.id \in 0..top
  BY DEF Ordered
<1>2. g2.id \in 0..top /\ g2.phase \in {"none", "start", "end"} /\ \A d \in g2.dumped : d.id \in 1..top
  BY <1>1 DEF Ordered, Kinds
<1>3. ASSUME NEW kind \in Kinds, NEW id, Arrives(f, kind, id), Precedes(x.kind, x.id, kind, id), id \in Nat
      PROVE  Arrives(g2, kind, id)
  BY <1>1, <1>3 DEF Arrives, Precedes, Kinds
<1>4. \A j \in J : /\ u[j].kind \in Kinds /\ u[j].id \in 1..top
                   /\ Arrives(f, u[j].kind, u[j].id) /\ Precedes(x.kind, x.id, u[j].kind, u[j].id)
  <2>1. \A j \in J : 1 < j + 1
    OBVIOUS
  <2>. QED BY <2>1 DEF Ordered
<1>5. \A i, j \in J : i < j => Precedes(u[i].kind, u[i].id, u[j].kind, u[j].id)
  <2>1. \A i, j \in J : i < j => i + 1 < j + 1
    OBVIOUS
  <2>. QED BY <2>1 DEF Ordered
<1>6. \A j \in J : Arrives(g2, u[j].kind, u[j].id)
  <2>1. \A n \in 1..top : n \in Nat
    OBVIOUS
  <2>. QED BY <1>3, <1>4, <2>1
<1>7. ASSUME NEW kind \in {"end", "dump"}, NEW id \in Nat, Fits(f, s, I, kind, id) PROVE Fits(g2, u, J, kind, id)
  BY <1>3, <1>7 DEF Fits, Kinds
<1>8. open # 0 => Fits(g2, u, J, "end", open)
  BY <1>7 DEF Ordered
<1>9. \A d \in due : Fits(g2, u, J, "dump", d)
  BY <1>7 DEF Ordered
<1>. QED BY <1>2, <1>4, <1>5, <1>6, <1>8, <1>9 DEF Ordered

-------------------------------------------------------------------------------
(* Alerts: one detector                                                    *)

Debouncers == [start : Int, recovery : Int, active : BOOLEAN, seq : Nat]

\* A confirmed incident has begun, and what has begun has a number.
DebouncerFits(d) == d.start >= -1 /\ (d.active => d.start # -1) /\ (d.start # -1 => d.seq > 0)

\* The newest incident that was confirmed, or at least cannot be any more.
Top(d) == IF d.active \/ d.start = -1 THEN d.seq ELSE d.seq - 1

\* The fields of a debouncer.
LEMMA DebouncerParts ==
  ASSUME NEW d \in Debouncers
  PROVE  d.start \in Int /\ d.recovery \in Int /\ d.active \in BOOLEAN /\ d.seq \in Nat
BY DEF Debouncers

\* An edit restarts the timers.
LEMMA TimersEffect ==
  ASSUME NEW d \in Debouncers, DebouncerFits(d)
  PROVE  LET e == A!RestartTimers(d) IN
           /\ e \in Debouncers /\ DebouncerFits(e) /\ e.active = d.active /\ e.seq = d.seq
           /\ Top(d) <= Top(e) /\ (d.active => Top(e) = Top(d))
<1> DEFINE s == IF d.active THEN d.start ELSE -1
           r == -1
           e == A!RestartTimers(d)
<1>1. s \in Int /\ r \in Int /\ s \in {d.start, -1} /\ (d.active => s = d.start)
  BY DebouncerParts
<1>2. e = [d EXCEPT !.start = s, !.recovery = r]
  BY DEF A!RestartTimers, A!Zero
<1> HIDE DEF s, r, e
<1>3. e \in Debouncers /\ e.start = s /\ e.active = d.active /\ e.seq = d.seq
  BY <1>1, <1>2 DEF Debouncers
<1>. QED BY <1>1, <1>3, DebouncerParts DEF e, DebouncerFits, Top

\* What a window may make of a detector: it confirms an incident with a new number, ends
\* the confirmed one, or neither.
UpdatedFrom(d, r) ==
  /\ r.d \in Debouncers /\ DebouncerFits(r.d) /\ Top(d) \in Nat /\ Top(r.d) \in Nat /\ Top(d) <= Top(r.d)
  /\ r.justEntered \in BOOLEAN /\ r.justRecovered \in BOOLEAN
  /\ r.justEntered =>
       ~r.justRecovered /\ ~d.active /\ r.d.active /\ Top(d) < r.id /\ r.id = Top(r.d) /\ r.id = r.d.seq
  /\ r.justRecovered => d.active /\ ~r.d.active /\ r.id = d.seq /\ Top(r.d) = d.seq /\ Top(d) = d.seq
  /\ ~r.justEntered /\ ~r.justRecovered => r.d.active = d.active /\ (d.active => r.d.seq = d.seq)

\* The condition holds: an incident begins, goes on or is confirmed.
LEMMA HoldsEffect ==
  ASSUME AlertsAssumption, NEW d \in Debouncers, DebouncerFits(d) PROVE UpdatedFrom(d, A!Holds(d))
<1> DEFINE n == IF d.start = -1 THEN d.seq + 1 ELSE d.seq
           s == IF d.start = -1 THEN 0 ELSE d.start
           z == -1
           begun == [d EXCEPT !.recovery = z, !.start = s, !.seq = n]
           enters == ~begun.active /\ begun.start >= Duration
           confirmed == begun.active \/ enters
           r == A!Holds(d)
<1>1. /\ d.start \in Int /\ d.seq \in Nat /\ d.active \in BOOLEAN /\ z \in Int /\ s \in Int /\ n \in Nat
      /\ s >= 0 /\ n > 0 /\ (d.active => n = d.seq) /\ (~d.active => Top(d) < n) /\ (d.active => Top(d) = n)
      /\ Top(d) \in Nat
  BY DebouncerParts DEF DebouncerFits, Top
<1>2. r = [d |-> [begun EXCEPT !.active = confirmed], id |-> begun.seq, justEntered |-> enters, justRecovered |-> FALSE, took |-> 0]
  BY DEF A!Holds, A!NextSeq, A!Zero
<1> HIDE DEF n, s, z
<1>3. begun \in Debouncers /\ begun.start = s /\ begun.active = d.active /\ begun.seq = n
  BY <1>1 DEF begun, Debouncers
<1> HIDE DEF begun
<1>4. enters \in BOOLEAN /\ confirmed \in BOOLEAN /\ (enters => ~d.active) /\ (confirmed <=> d.active \/ enters)
  BY <1>1, <1>3
<1>9. (enters => confirmed = TRUE) /\ (~enters => confirmed = d.active)
  <2>1. enters => confirmed = TRUE
    OBVIOUS
  <2>2. CASE d.active = TRUE
    BY <1>3, <2>2
  <2>3. CASE d.active = FALSE
    BY <1>3, <2>3
  <2>. QED BY <1>1, <2>1, <2>2, <2>3
<1> HIDE DEF enters, confirmed, r
<1>5. /\ r.d \in Debouncers /\ r.d.start = s /\ r.d.active = confirmed /\ r.d.seq = n
      /\ r.id = n /\ r.justEntered = enters /\ r.justRecovered = FALSE
  BY <1>2, <1>3, <1>4 DEF Debouncers
<1>6. DebouncerFits(r.d) /\ Top(r.d) = IF confirmed THEN n ELSE n - 1
  BY <1>1, <1>4, <1>5 DEF DebouncerFits, Top
<1>7. CASE enters
  <2>1. Top(r.d) = n /\ r.d.active
    BY <1>4, <1>5, <1>6, <1>7
  <2>2. r.justEntered = TRUE /\ d.active = FALSE
    BY <1>1, <1>4, <1>5, <1>7
  <2>3. Top(d) < r.id /\ r.id = Top(r.d) /\ r.id = r.d.seq /\ Top(d) <= Top(r.d) /\ Top(r.d) \in Nat /\ Top(d) \in Nat
    BY <1>1, <1>5, <2>1, <2>2
  <2>4. UpdatedFrom(d, r)
    BY <1>5, <1>6, <2>1, <2>2, <2>3 DEF UpdatedFrom
  <2>. QED BY <2>4 DEF r
<1>8. CASE ~enters
  <2>1. r.d.active = d.active
    BY <1>5, <1>8, <1>9
  <2>2. r.justEntered = FALSE /\ (d.active => r.d.seq = d.seq) /\ Top(d) <= Top(r.d) /\ Top(r.d) \in Nat
    BY <1>1, <1>4, <1>5, <1>6, <1>8
  <2>. QED BY <1>1, <1>5, <1>6, <2>1, <2>2 DEF r, UpdatedFrom
<1>. QED BY <1>7, <1>8

\* The condition does not hold: a confirmed incident goes on or has recovered.
LEMMA GoneEffect ==
  ASSUME AlertsAssumption, NEW d \in Debouncers, DebouncerFits(d) PROVE UpdatedFrom(d, A!Gone(d))
<1> DEFINE waited == IF d.recovery = -1 THEN 0 ELSE d.recovery
           over == d.active /\ waited >= Recovery
           z == -1
           q == IF over THEN z ELSE d.recovery
           no == FALSE
           ended == [d EXCEPT !.start = z, !.active = no, !.recovery = q]
           waits == [d EXCEPT !.recovery = waited]
           r == A!Gone(d)
<1>1. /\ d.start \in Int /\ d.seq \in Nat /\ d.active \in BOOLEAN /\ z \in Int /\ q \in Int /\ waited \in Int
      /\ no \in BOOLEAN /\ ~no /\ z = -1 /\ over \in BOOLEAN /\ (over => d.active)
      /\ Top(d) \in Nat /\ Top(d) <= d.seq /\ (d.active => Top(d) = d.seq)
  BY DebouncerParts DEF DebouncerFits, Top
<1>2. r = [d |-> IF over \/ ~d.active THEN ended ELSE waits, id |-> IF d.active THEN d.seq ELSE 0,
           justEntered |-> FALSE, justRecovered |-> over, took |-> waited]
  BY DEF A!Gone, A!Zero
<1> HIDE DEF over, z, q, no, waited
<1>3. /\ ended \in Debouncers /\ ended.start = z /\ ended.active = no /\ ended.seq = d.seq
      /\ waits \in Debouncers /\ waits.start = d.start /\ waits.active = d.active /\ waits.seq = d.seq
  BY <1>1 DEF Debouncers, ended, waits
<1> HIDE DEF ended, waits, r
<1>4. DebouncerFits(ended) /\ Top(ended) = d.seq /\ DebouncerFits(waits) /\ Top(waits) = Top(d)
  BY <1>1, <1>3 DEF DebouncerFits, Top
<1>5. CASE over \/ ~d.active
  <2>1. r.d = ended /\ r.justEntered = FALSE /\ r.justRecovered = over /\ (d.active => r.id = d.seq)
    BY <1>2, <1>5
  <2>. QED BY <1>1, <1>3, <1>4, <1>5, <2>1 DEF r, UpdatedFrom
<1>6. CASE ~over /\ d.active
  <2>1. r.d = waits /\ r.justEntered = FALSE /\ r.justRecovered = over
    BY <1>2, <1>6
  <2>. QED BY <1>1, <1>3, <1>4, <1>6, <2>1 DEF r, UpdatedFrom
<1>. QED BY <1>5, <1>6, <1>1

\* Either, after an edit or not.
LEMMA UpdateEffect ==
  ASSUME AlertsAssumption, NEW d \in Debouncers, DebouncerFits(d), NEW holds \in BOOLEAN, NEW edited \in BOOLEAN
  PROVE  UpdatedFrom(d, A!Update(d, holds, edited))
<1> DEFINE e == IF edited THEN A!RestartTimers(d) ELSE d
           r == A!Update(d, holds, edited)
<1>1. /\ e \in Debouncers /\ DebouncerFits(e) /\ e.active = d.active /\ e.seq = d.seq
      /\ Top(d) <= Top(e) /\ (d.active => Top(e) = Top(d)) /\ Top(d) \in Nat
  <2>1. Top(d) \in Nat
    BY DebouncerParts DEF DebouncerFits, Top
  <2>. QED BY <2>1, TimersEffect
<1>2. r \in {A!Holds(e), A!Gone(e)}
  BY DEF A!Update
<1> HIDE DEF e, r
<1>3. UpdatedFrom(e, r)
  BY <1>1, <1>2, HoldsEffect, GoneEffect
<1>4. UpdatedFrom(d, r)
  BY <1>1, <1>3 DEF UpdatedFrom
<1>. QED BY <1>4 DEF r

\* What a reset does to a detector, ...
LEMMA ResetEffect ==
  ASSUME NEW d \in Debouncers, DebouncerFits(d)
  PROVE  LET e == A!ResetDetector(d) IN
           /\ e \in Debouncers /\ DebouncerFits(e) /\ ~e.active /\ e.seq = d.seq
           /\ Top(d) <= Top(e) /\ Top(d) \in Nat /\ Top(e) \in Nat
<1> DEFINE e == A!ResetDetector(d)
<1>1. A!NewDebouncer \in Debouncers /\ A!NewDebouncer.start = -1 /\ A!NewDebouncer.active = FALSE
  BY DEF A!NewDebouncer, A!Zero, Debouncers
<1>2. e \in Debouncers /\ e.start = -1 /\ e.active = FALSE /\ e.seq = d.seq
  BY <1>1 DEF A!ResetDetector, Debouncers
<1> HIDE DEF e
<1>. QED BY <1>2, DebouncerParts DEF e, DebouncerFits, Top

\* ... and what the clock does.
LEMMA OlderEffect ==
  ASSUME AlertsAssumption, NEW d \in Debouncers, DebouncerFits(d)
  PROVE  LET e == A!Older(d) IN
           e \in Debouncers /\ DebouncerFits(e) /\ e.active = d.active /\ e.seq = d.seq /\ Top(e) = Top(d)
<1> DEFINE s == IF d.start = -1 \/ d.start = Duration THEN d.start ELSE d.start + 1
           r == IF d.recovery = -1 \/ d.recovery = Recovery + Gap THEN d.recovery ELSE d.recovery + 1
           e == A!Older(d)
<1>1. s \in Int /\ r \in Int /\ s \in {d.start, d.start + 1} /\ (d.start = -1 => s = -1)
  BY DebouncerParts
<1>2. e = [d EXCEPT !.start = s, !.recovery = r]
  BY DEF A!Older, A!Zero
<1> HIDE DEF s, r, e
<1>3. e \in Debouncers /\ e.start = s /\ e.active = d.active /\ e.seq = d.seq
  BY <1>1, <1>2 DEF Debouncers
<1>4. s >= -1 /\ (s = -1 <=> d.start = -1)
  BY <1>1, DebouncerParts DEF DebouncerFits
<1>. QED BY <1>3, <1>4 DEF e, DebouncerFits, Top

-------------------------------------------------------------------------------
(* Alerts: queues                                                          *)

\* What an alert or an entry of the log is, ...
Alerts  == [kind : Kinds, id : Nat, cfg : Subscriptions]
Entries == [kind : Kinds, trigger : Triggers, id : Nat]

\* ... what else the log may hold, ...
Marks == [kind : {"drain", "close"}]

\* ... and the places of the entries of trigger t.
Of(s, t) == {i \in DOMAIN s : s[i].kind \in Kinds /\ s[i].trigger = t}

\* A queue gets x, if it is an alert, and may lose its oldest.
Enqueues(q, u, k, x) ==
  \A i \in DOMAIN u : \/ i + k \in DOMAIN q /\ u[i] = q[i + k]
                      \/ x # A!NoAlert /\ u[i] = x /\ (\A j \in DOMAIN u : j <= i)

\* A full queue loses its oldest alert for the new one.
LEMMA EnqueuedAlert ==
  ASSUME AlertsAssumption, NEW q \in Seq(Alerts), NEW x \in Alerts, x # A!NoAlert
  PROVE  LET u == A!Enqueued(q, x) IN u \in Seq(Alerts) /\ \E k \in {0, 1} : Enqueues(q, u, k, x)
<1>1. CASE Len(q) < QueueDepth
  <2> DEFINE u == Append(q, x)
  <2>1. A!Enqueued(q, x) = u
    BY <1>1 DEF A!Enqueued
  <2>2. /\ u \in Seq(Alerts) /\ Len(q) \in Nat
        /\ DOMAIN q = 1..Len(q) /\ DOMAIN u = 1..(Len(q) + 1)
        /\ \A i \in 1..Len(q) : u[i] = q[i]
        /\ u[Len(q) + 1] = x
    BY AppendProperties, LenProperties
  <2> HIDE DEF u
  <2>3. Enqueues(q, u, 0, x)
    BY <2>2 DEF Enqueues
  <2>. QED BY <2>1, <2>2, <2>3
<1>2. CASE ~(Len(q) < QueueDepth)
  <2> DEFINE r == Tail(q)
             u == Append(r, x)
  <2>1. q # <<>>
    BY <1>2, EmptySeq, AlertsAssumption DEF AlertsAssumption
  <2>2. A!Enqueued(q, x) = u
    BY <1>2 DEF A!Enqueued
  <2>3. /\ r \in Seq(Alerts) /\ Len(q) \in Nat /\ Len(r) = Len(q) - 1 /\ DOMAIN q = 1..Len(q)
        /\ \A i \in 1..Len(r) : r[i] = q[i + 1]
    BY <2>1, HeadTailProperties, LenProperties
  <2> HIDE DEF r
  <2>4. /\ u \in Seq(Alerts) /\ Len(r) \in Nat
        /\ DOMAIN u = 1..(Len(r) + 1)
        /\ \A i \in 1..Len(r) : u[i] = r[i]
        /\ u[Len(r) + 1] = x
    BY <2>3, AppendProperties, LenProperties
  <2> HIDE DEF u
  <2>5. Enqueues(q, u, 1, x)
    BY <2>3, <2>4 DEF Enqueues
  <2>. QED BY <2>2, <2>4, <2>5
<1>. QED BY <1>1, <1>2

\* Few: the entries have at most one of trigger t, which is of this kind about this
\* incident.
Few(entries, t, kind, id) ==
  \A i \in DOMAIN entries : entries[i].trigger = t =>
    /\ entries[i].kind = kind /\ entries[i].id = id
    /\ \A j \in DOMAIN entries : entries[j].trigger = t => j = i

\* The log takes as many entries as it has room for.
LEMMA LoggedBecomes ==
  ASSUME AlertsAssumption, aLog \in Seq(Entries \cup Marks), NEW entries \in Seq(Entries), A!Logged(entries)
  PROVE  /\ aLog' \in Seq(Entries \cup Marks)
         /\ \A t \in Triggers, kind \in Kinds, id \in Nat :
              Few(entries, t, kind, id) => Becomes(aLog, Of(aLog, t), aLog', Of(aLog', t), 0, kind, id)
<1> DEFINE room == IF A!Closed THEN 0 ELSE LogDepth - Len(aLog)
           n == IF Len(entries) < room THEN Len(entries) ELSE room
           kept == SubSeq(entries, 1, n)
<1>1. aLog' = aLog \o kept
  BY DEF A!Logged
<1>2. Len(aLog) \in Nat /\ Len(entries) \in Nat /\ DOMAIN aLog = 1..Len(aLog) /\ DOMAIN entries = 1..Len(entries)
      /\ \A i \in 1..Len(entries) : entries[i] \in Entries
  BY LenProperties, ElementOfSeq
<1>3. n \in Int /\ n <= Len(entries)
  BY <1>2, AlertsAssumption DEF AlertsAssumption
<1> HIDE DEF n
<1>4. /\ kept \in Seq(Entries) /\ Len(kept) \in Nat /\ Len(kept) <= Len(entries)
      /\ \A i \in 1..Len(kept) : kept[i] = entries[i]
  <2>1. \A i \in 1..n : entries[i] \in Entries
    BY <1>2, <1>3
  <2>2. /\ kept \in Seq(Entries) /\ Len(kept) = IF 1 <= n THEN n - 1 + 1 ELSE 0
        /\ \A i \in 1..(n - 1 + 1) : kept[i] = entries[1 + i - 1]
    BY <1>3, <2>1, SubSeqProperties
  <2>. QED BY <1>2, <1>3, <2>2
<1> HIDE DEF kept
<1>5. kept \in Seq(Entries \cup Marks)
  BY <1>4, SeqMonotonic
<1>6. /\ aLog' \in Seq(Entries \cup Marks)
      /\ DOMAIN aLog' = 1..(Len(aLog) + Len(kept))
      /\ \A i \in 1..Len(aLog) : aLog'[i] = aLog[i]
      /\ \A i \in (Len(aLog) + 1)..(Len(aLog) + Len(kept)) : aLog'[i] = kept[i - Len(aLog)]
  BY <1>1, <1>2, <1>4, <1>5, ConcatProperties, LenProperties
<1>7. ASSUME NEW t \in Triggers, NEW kind \in Kinds, NEW id \in Nat, Few(entries, t, kind, id)
      PROVE  Becomes(aLog, Of(aLog, t), aLog', Of(aLog', t), 0, kind, id)
  <2>1. SUFFICES ASSUME NEW i \in Of(aLog', t)
                 PROVE  \/ i + 0 \in Of(aLog, t) /\ aLog'[i] = aLog[i + 0]
                        \/ aLog'[i].kind = kind /\ aLog'[i].id = id /\ \A j \in Of(aLog', t) : j <= i
    BY DEF Becomes
  <2>2. i \in 1..(Len(aLog) + Len(kept)) /\ aLog'[i].kind \in Kinds /\ aLog'[i].trigger = t
    BY <1>6 DEF Of
  <2>3. CASE i \in 1..Len(aLog)
    BY <1>2, <1>6, <2>2, <2>3 DEF Of
  <2>4. CASE i \notin 1..Len(aLog)
    <3>1. ASSUME NEW j \in Of(aLog', t), j \notin 1..Len(aLog)
          PROVE  j - Len(aLog) \in DOMAIN entries /\ aLog'[j] = entries[j - Len(aLog)]
                 /\ entries[j - Len(aLog)].trigger = t /\ j \in Nat
      <4>1. j \in 1..(Len(aLog) + Len(kept)) /\ aLog'[j].trigger = t
        BY <1>6 DEF Of
      <4>2. j \in (Len(aLog) + 1)..(Len(aLog) + Len(kept)) /\ j - Len(aLog) \in 1..Len(kept)
        BY <1>2, <1>4, <3>1, <4>1
      <4>3. aLog'[j] = kept[j - Len(aLog)]
        BY <1>6, <4>2
      <4>4. kept[j - Len(aLog)] = entries[j - Len(aLog)] /\ j - Len(aLog) \in 1..Len(entries)
        BY <1>2, <1>4, <4>2
      <4>5. j \in Nat
        BY <1>2, <1>4, <4>1
      <4>. QED BY <1>2, <4>1, <4>3, <4>4, <4>5
    <3>2. aLog'[i].kind = kind /\ aLog'[i].id = id
      BY <1>7, <2>4, <3>1 DEF Few
    <3>3. \A j \in Of(aLog', t) : j \in 1..Len(aLog) \/ j - Len(aLog) = i - Len(aLog)
      BY <1>7, <2>4, <3>1 DEF Few
    <3>4. i \in Nat /\ Len(aLog) \in Nat /\ i > Len(aLog)
      BY <1>2, <1>4, <2>2, <2>4
    <3>5. \A j \in Of(aLog', t) : j <= i
      <4>1. \A j \in Of(aLog', t) : j \in Nat
        BY <1>2, <1>4, <1>6 DEF Of
      <4>. QED BY <3>3, <3>4, <4>1
    <3>. QED BY <3>2, <3>5
  <2>. QED BY <2>3, <2>4
<1>. QED BY <1>6, <1>7

\* No entry, one, or one of each of two triggers.
LEMMA FewEntries ==
  ASSUME NEW p \in BOOLEAN, NEW q \in BOOLEAN, NEW x, NEW y,
         p => x \in Entries /\ x.trigger = "silence", q => y \in Entries /\ y.trigger = "channel_imbalance"
  PROVE  LET entries == (IF p THEN <<x>> ELSE <<>>) \o (IF q THEN <<y>> ELSE <<>>) IN
           /\ entries \in Seq(Entries)
           /\ \A kind, id : (p => x.kind = kind /\ x.id = id) => Few(entries, "silence", kind, id)
           /\ \A kind, id : (q => y.kind = kind /\ y.id = id) => Few(entries, "channel_imbalance", kind, id)
<1> DEFINE l == IF p THEN <<x>> ELSE <<>>
           r == IF q THEN <<y>> ELSE <<>>
           entries == l \o r
<1>1. /\ l \in Seq(Entries) /\ Len(l) = IF p THEN 1 ELSE 0
      /\ p => l[1] = x
  BY EmptySeq
<1>2. /\ r \in Seq(Entries) /\ Len(r) = IF q THEN 1 ELSE 0
      /\ q => r[1] = y
  BY EmptySeq
<1> HIDE DEF l, r
<1>3. /\ entries \in Seq(Entries) /\ Len(entries) = Len(l) + Len(r) /\ DOMAIN entries = 1..Len(entries)
      /\ \A i \in 1..(Len(l) + Len(r)) : entries[i] = IF i <= Len(l) THEN l[i] ELSE r[i - Len(l)]
  BY <1>1, <1>2, ConcatProperties, LenProperties
<1> HIDE DEF entries
<1>4. \A i \in DOMAIN entries : \/ p /\ i = 1 /\ entries[i] = x
                                \/ q /\ i = Len(l) + 1 /\ entries[i] = y
  BY <1>1, <1>2, <1>3
<1>5. \A kind, id : (p => x.kind = kind /\ x.id = id) => Few(entries, "silence", kind, id)
  BY <1>4 DEF Few
<1>6. \A kind, id : (q => y.kind = kind /\ y.id = id) => Few(entries, "channel_imbalance", kind, id)
  BY <1>4 DEF Few
<1>. QED BY <1>3, <1>5, <1>6 DEF entries, l, r

\* Where no entry is of t, the log has no more of t.
LEMMA LoggedOthers ==
  ASSUME AlertsAssumption, aLog \in Seq(Entries \cup Marks), NEW entries \in Seq(Entries), A!Logged(entries),
         NEW t \in Triggers, \A i \in DOMAIN entries : entries[i].trigger # t
  PROVE  \A j \in Of(aLog', t) : j + 0 \in Of(aLog, t) /\ aLog'[j] = aLog[j + 0]
<1>1. \A id \in {0, 1} : Few(entries, t, "start", id)
  BY DEF Few
<1>2. \A id \in {0, 1} : Becomes(aLog, Of(aLog, t), aLog', Of(aLog', t), 0, "start", id)
  BY <1>1, LoggedBecomes DEF Kinds
<1>. QED BY <1>2 DEF Becomes

\* A queue that gets an alert, or none.
LEMMA AlertedEnqueues ==
  ASSUME AlertsAssumption, aQueue \in [Triggers -> Seq(Alerts)], NEW alert, A!Alerted(alert),
         \A t \in Triggers : alert[t] \in Alerts \cup {A!NoAlert}
  PROVE  /\ aQueue' \in [Triggers -> Seq(Alerts)]
         /\ \A t \in Triggers : \E k \in {0, 1} : Enqueues(aQueue[t], aQueue'[t], k, alert[t])
         /\ \A t \in Triggers : alert[t] = A!NoAlert => aQueue'[t] = aQueue[t]
<1>1. aQueue' = [t \in Triggers |-> IF alert[t] # A!NoAlert /\ ~A!Closed THEN A!Enqueued(aQueue[t], alert[t]) ELSE aQueue[t]]
  BY DEF A!Alerted
<1>2. ASSUME NEW t \in Triggers
      PROVE  /\ aQueue'[t] \in Seq(Alerts)
             /\ \E k \in {0, 1} : Enqueues(aQueue[t], aQueue'[t], k, alert[t])
             /\ alert[t] = A!NoAlert => aQueue'[t] = aQueue[t]
  <2>1. CASE alert[t] # A!NoAlert /\ ~A!Closed
    <3>1. aQueue'[t] = A!Enqueued(aQueue[t], alert[t]) /\ alert[t] \in Alerts /\ aQueue[t] \in Seq(Alerts)
      BY <1>1, <2>1
    <3>. QED BY <2>1, <3>1, EnqueuedAlert
  <2>2. CASE ~(alert[t] # A!NoAlert /\ ~A!Closed)
    <3>1. aQueue'[t] = aQueue[t] /\ aQueue[t] \in Seq(Alerts)
      BY <1>1, <2>2
    <3>2. \A i \in DOMAIN aQueue[t] : i + 0 = i
      BY <3>1, LenProperties
    <3>3. Enqueues(aQueue[t], aQueue'[t], 0, alert[t])
      BY <3>1, <3>2 DEF Enqueues
    <3>. QED BY <3>1, <3>3
  <2>. QED BY <2>1, <2>2
<1>. QED BY <1>1, <1>2

\* So it becomes what Ordered is about.
LEMMA EnqueuesBecomes ==
  ASSUME NEW q, NEW u, NEW k, NEW x, Enqueues(q, u, k, x), NEW kind, NEW id,
         x # A!NoAlert => x.kind = kind /\ x.id = id
  PROVE  Becomes(q, DOMAIN q, u, DOMAIN u, k, kind, id)
BY DEF Enqueues, Becomes

-------------------------------------------------------------------------------
(* Alerts: the invariant                                                   *)

Recoveries == [id : Nat, cfg : Subscriptions \cup {"none"}, age : Nat]
FeedsWith(Cfgs) ==
  [id : Nat, phase : {"none", "start", "end"}, cfg : Cfgs, dumped : SUBSET [id : Nat, cfg : Cfgs]]

AlertsTyped ==
  /\ aDet \in [Triggers -> Debouncers]
  /\ o \in [Triggers -> [incident : Nat, active : Subscriptions \cup {"none"}, pending : SUBSET Recoveries]]
  /\ cfg \in [now : Subscriptions, edits : Nat]
  /\ aQueue \in [Triggers -> Seq(Alerts)]
  /\ aLog \in Seq(Entries \cup Marks)
  /\ dumps \in [captured : SUBSET (Triggers \X Nat), taken : SUBSET (Triggers \X Recoveries)]
  /\ feeds \in [log : [Triggers -> FeedsWith({"none", "log"})],
                channel : [Triggers -> FeedsWith(Subscriptions \cup {"none"})]]

\* The orchestrator has the incident that the detector has confirmed, with its settings.
DetectorFits(t) ==
  /\ DebouncerFits(aDet[t]) /\ aDet[t].seq <= MaxIncidents
  /\ o[t].incident = IF aDet[t].active THEN aDet[t].seq ELSE 0
  /\ ~aDet[t].active => o[t].active = "none"

\* Incidents of t whose dump is captured, encoded or on its way.
Taken(t, p) == <<t, p>> \in dumps.taken
Due(t) == {id \in Nat : <<t, id>> \in dumps.captured \/ \E p \in Recoveries : Taken(t, p) /\ p.id = id}

\* An incident that is over has at most one dump.
DumpsFit(t) ==
  /\ Due(t) \subseteq 1..Top(aDet[t]) /\ o[t].incident \notin Due(t)
  /\ \A p, q \in Recoveries : Taken(t, p) => <<t, p.id>> \notin dumps.captured /\ (Taken(t, q) /\ q.id = p.id => q = p)
  /\ \A p \in Recoveries, q \in o[t].pending : Taken(t, p) => q.id # p.id
  /\ \A p, q \in o[t].pending : p.id \in 1..Top(aDet[t]) /\ p.id # o[t].incident /\ (q.id = p.id => q = p)

\* What the log and the channel receive is in order.
LogFits(t) == Ordered(feeds.log[t], aLog, Of(aLog, t), Top(aDet[t]), o[t].incident, Due(t))
ChannelFits(t) ==
  Ordered(feeds.channel[t], aQueue[t], DOMAIN aQueue[t], Top(aDet[t]), o[t].incident, Due(t))

\* What feed f and the alerts q say of an incident is with settings how.
Agreed(f, q, id, how) == (f.id = id => f.cfg = how) /\ \A i \in DOMAIN q : q[i].id = id => q[i].cfg = how

\* A queue that gets an alert with the settings of what was said of its incident goes on to
\* agree.
LEMMA AgreedQueued ==
  ASSUME NEW f, NEW q, NEW u, NEW k, NEW x, Enqueues(q, u, k, x),
         x # A!NoAlert => Agreed(f, q, x.id, x.cfg),
         \A i \in DOMAIN q : Agreed(f, q, q[i].id, q[i].cfg)
  PROVE  /\ \A i \in DOMAIN u : Agreed(f, u, u[i].id, u[i].cfg)
         /\ \A id, how : Agreed(f, q, id, how) /\ (x # A!NoAlert /\ x.id = id => x.cfg = how) => Agreed(f, u, id, how)
<1>1. \A id, how : Agreed(f, q, id, how) /\ (x # A!NoAlert /\ x.id = id => x.cfg = how) => Agreed(f, u, id, how)
  BY DEF Agreed, Enqueues
<1>2. ASSUME NEW i \in DOMAIN u PROVE Agreed(f, u, u[i].id, u[i].cfg)
  <2>1. CASE i + k \in DOMAIN q /\ u[i] = q[i + k]
    <3>1. Agreed(f, q, u[i].id, u[i].cfg)
      BY <2>1
    <3>2. x # A!NoAlert /\ x.id = u[i].id => x.cfg = u[i].cfg
      BY <2>1 DEF Agreed
    <3>. QED BY <1>1, <3>1, <3>2
  <2>2. CASE x # A!NoAlert /\ u[i] = x
    BY <1>1, <2>2
  <2>. QED BY <2>1, <2>2 DEF Enqueues
<1>. QED BY <1>1, <1>2

\* An incident that is open or whose dump may still come was opened with settings how.
OpenedWith(t, id, how) ==
  \/ o[t].incident # 0 /\ id = o[t].incident /\ how = o[t].active
  \/ \E p \in o[t].pending : id = p.id /\ how = p.cfg
  \/ \E p \in Recoveries : Taken(t, p) /\ id = p.id /\ how = p.cfg

\* All alerts about an incident go out with the settings of its start.
SettingsFit(t) ==
  /\ feeds.log[t].id # 0 => feeds.log[t].cfg = "log"
  /\ \A i \in DOMAIN aQueue[t] : Agreed(feeds.channel[t], aQueue[t], aQueue[t][i].id, aQueue[t][i].cfg)
  /\ \A id, how : OpenedWith(t, id, how) => Agreed(feeds.channel[t], aQueue[t], id, how)

TriggerFits(t) == DetectorFits(t) /\ DumpsFit(t) /\ LogFits(t) /\ ChannelFits(t) /\ SettingsFit(t)

AlertsInv == AlertsTyped /\ \A t \in Triggers : TriggerFits(t)

\* The types of the parts of a trigger.
LEMMA AlertsParts ==
  ASSUME AlertsTyped, NEW t \in Triggers
  PROVE  /\ aDet[t] \in Debouncers
         /\ o[t].incident \in Nat /\ o[t].active \in Subscriptions \cup {"none"} /\ o[t].pending \in SUBSET Recoveries
         /\ \A p \in o[t].pending : p.id \in Nat /\ p.cfg \in Subscriptions \cup {"none"} /\ p.age \in Nat
         /\ aQueue[t] \in Seq(Alerts) /\ DOMAIN aQueue[t] \in SUBSET Nat
         /\ \A i \in DOMAIN aQueue[t] : aQueue[t][i] \in Alerts
         /\ feeds.log[t] \in FeedsWith({"none", "log"})
         /\ feeds.channel[t] \in FeedsWith(Subscriptions \cup {"none"})
         /\ Of(aLog, t) \in SUBSET Nat
<1>1. /\ aDet[t] \in Debouncers
      /\ o[t].incident \in Nat /\ o[t].active \in Subscriptions \cup {"none"} /\ o[t].pending \in SUBSET Recoveries
      /\ aQueue[t] \in Seq(Alerts)
      /\ feeds.log[t] \in FeedsWith({"none", "log"})
      /\ feeds.channel[t] \in FeedsWith(Subscriptions \cup {"none"})
  BY DEF AlertsTyped
<1>2. \A p \in Recoveries : p.id \in Nat /\ p.cfg \in Subscriptions \cup {"none"} /\ p.age \in Nat
  BY DEF Recoveries
<1>3. DOMAIN aQueue[t] = 1..Len(aQueue[t]) /\ Len(aQueue[t]) \in Nat
      /\ \A i \in 1..Len(aQueue[t]) : aQueue[t][i] \in Alerts
  BY <1>1, LenProperties, ElementOfSeq
<1>4. Of(aLog, t) \in SUBSET Nat
  BY LenProperties DEF Of, AlertsTyped
<1>. QED BY <1>1, <1>2, <1>3, <1>4

\* Nothing that matters changes.
LEMMA QuietSteps ==
  ASSUME AlertsInv, cfg' \in [now : Subscriptions, edits : Nat], UNCHANGED <<aDet, o, aQueue, aLog, dumps, feeds>>
  PROVE  AlertsInv'
<1>1. AlertsTyped'
  BY DEF AlertsInv, AlertsTyped
<1>2. ASSUME NEW t \in Triggers PROVE TriggerFits(t)'
  BY ZenonT(60) DEF AlertsInv, TriggerFits, DetectorFits, DumpsFit, LogFits, ChannelFits, SettingsFit, OpenedWith, Taken, Due
<1>. QED BY <1>1, <1>2 DEF AlertsInv

\* The clock.
LEMMA ElapseInv == ASSUME AlertsAssumption, AlertsInv, A!Elapse PROVE AlertsInv'
<1> DEFINE older == [p \in Recoveries |-> [p EXCEPT !.age = IF @ <= TTL THEN @ + 1 ELSE @]]
<1>1. ASSUME NEW p \in Recoveries PROVE older[p] \in Recoveries /\ older[p].id = p.id /\ older[p].cfg = p.cfg
  BY AlertsAssumption DEF AlertsAssumption, Recoveries
<1>2. /\ aDet' = [t \in Triggers |-> A!Older(aDet[t])]
      /\ o' = [t \in Triggers |-> [o[t] EXCEPT !.pending = {older[p] : p \in o[t].pending}]]
      /\ UNCHANGED <<cfg, aQueue, aLog, dumps, feeds>>
  <2>1. ASSUME NEW t \in Triggers
        PROVE  {[p EXCEPT !.age = IF @ <= TTL THEN @ + 1 ELSE @] : p \in o[t].pending} = {older[p] : p \in o[t].pending}
    <3>1. \A p \in o[t].pending : p \in Recoveries
      BY DEF AlertsInv, AlertsTyped
    <3>. QED BY <3>1
  <2>. QED BY <2>1 DEF A!Elapse
<1> HIDE DEF older
<1>3. ASSUME NEW t \in Triggers
      PROVE  /\ aDet'[t] \in Debouncers /\ DebouncerFits(aDet'[t]) /\ aDet'[t].active = aDet[t].active
             /\ aDet'[t].seq = aDet[t].seq /\ Top(aDet'[t]) = Top(aDet[t])
             /\ o'[t].incident = o[t].incident /\ o'[t].active = o[t].active
             /\ o'[t].pending = {older[p] : p \in o[t].pending}
             /\ o'[t] \in [incident : Nat, active : Subscriptions \cup {"none"}, pending : SUBSET Recoveries]
  <2>1. aDet[t] \in Debouncers /\ DebouncerFits(aDet[t]) /\ aDet'[t] = A!Older(aDet[t])
    BY <1>2 DEF AlertsInv, AlertsTyped, TriggerFits, DetectorFits
  <2>2. o[t] \in [incident : Nat, active : Subscriptions \cup {"none"}, pending : SUBSET Recoveries]
    BY DEF AlertsInv, AlertsTyped
  <2>3. {older[p] : p \in o[t].pending} \in SUBSET Recoveries
    BY <1>1, <2>2
  <2>. QED BY <1>2, <2>1, <2>2, <2>3, OlderEffect
<1>4. AlertsTyped'
  BY <1>2, <1>3 DEF AlertsInv, AlertsTyped
<1>5. ASSUME NEW t \in Triggers PROVE TriggerFits(t)'
  <2>1. TriggerFits(t) /\ o[t].pending \subseteq Recoveries
    BY DEF AlertsInv, AlertsTyped
  <2>2. o'[t].pending = {older[p] : p \in o[t].pending}
    BY <1>3
  <2>3. DetectorFits(t)'
    BY <1>3, <2>1 DEF TriggerFits, DetectorFits
  <2>4. Due(t)' = Due(t) /\ \A p : Taken(t, p)' = Taken(t, p)
    BY <1>2 DEF Due, Taken
  <2>5. DumpsFit(t)'
    <3>1. /\ Due(t) \subseteq 1..Top(aDet[t]) /\ o[t].incident \notin Due(t)
          /\ \A p, q \in Recoveries :
               Taken(t, p) => <<t, p.id>> \notin dumps.captured /\ (Taken(t, q) /\ q.id = p.id => q = p)
          /\ \A p \in Recoveries, q \in o[t].pending : Taken(t, p) => q.id # p.id
          /\ \A p, q \in o[t].pending : p.id \in 1..Top(aDet[t]) /\ p.id # o[t].incident /\ (q.id = p.id => q = p)
      BY <2>1 DEF TriggerFits, DumpsFit
    <3>2. ASSUME NEW p \in o'[t].pending, NEW q \in o'[t].pending
          PROVE  p.id \in 1..Top(aDet[t]) /\ p.id # o[t].incident /\ (q.id = p.id => q = p)
      <4>1. PICK x \in o[t].pending : p = older[x]
        BY <2>2, <3>2
      <4>2. PICK y \in o[t].pending : q = older[y]
        BY <2>2, <3>2
      <4>3. x.id = p.id /\ y.id = q.id
        BY <1>1, <2>1, <4>1, <4>2
      <4>. QED BY <3>1, <4>1, <4>2, <4>3
    <3>3. \A p \in Recoveries, q \in o'[t].pending : Taken(t, p)' => q.id # p.id
      BY <1>1, <1>3, <2>1, <2>4, <3>1
    <3>. QED BY SMTT(60), <1>2, <1>3, <2>4, <3>1, <3>2, <3>3 DEF DumpsFit
  <2>6. LogFits(t)' /\ ChannelFits(t)'
    BY <1>2, <1>3, <2>1, <2>4 DEF TriggerFits, LogFits, ChannelFits
  <2>7. ASSUME NEW id, NEW how, OpenedWith(t, id, how)' PROVE OpenedWith(t, id, how)
    <3>1. CASE \E p \in o'[t].pending : id = p.id /\ how = p.cfg
      <4>1. PICK p \in o'[t].pending : id = p.id /\ how = p.cfg
        BY <3>1
      <4>2. PICK x \in o[t].pending : p = older[x]
        BY <2>2, <4>1
      <4>3. x.id = p.id /\ x.cfg = p.cfg
        BY <1>1, <2>1, <4>2
      <4>. QED BY <4>1, <4>2, <4>3 DEF OpenedWith
    <3>2. CASE ~\E p \in o'[t].pending : id = p.id /\ how = p.cfg
      BY <1>3, <2>4, <2>7, <3>2 DEF OpenedWith
    <3>. QED BY <3>1, <3>2
  <2>8. SettingsFit(t)'
    BY <1>2, <2>1, <2>7 DEF TriggerFits, SettingsFit
  <2>. QED BY <2>3, <2>5, <2>6, <2>8 DEF TriggerFits
<1>. QED BY <1>4, <1>5 DEF AlertsInv

\* What the invariant says of the numbers of a trigger.
LEMMA AlertsNumbers ==
  ASSUME AlertsAssumption, AlertsInv, NEW t \in Triggers
  PROVE  /\ Top(aDet[t]) \in Nat /\ Top(aDet[t]) <= aDet[t].seq /\ aDet[t].seq <= MaxIncidents
         /\ o[t].incident # 0 => o[t].incident = Top(aDet[t]) /\ o[t].incident \in 1..Top(aDet[t])
         /\ o[t].incident # 0 <=> aDet[t].active
         /\ Due(t) \in SUBSET (1..Top(aDet[t])) /\ o[t].incident \notin Due(t)
<1>1. aDet[t] \in Debouncers /\ DetectorFits(t) /\ DumpsFit(t)
  BY AlertsParts DEF AlertsInv, TriggerFits
<1>2. /\ aDet[t].start \in Int /\ aDet[t].active \in BOOLEAN /\ aDet[t].seq \in Nat
  BY <1>1, DebouncerParts
<1>3. /\ Top(aDet[t]) \in Nat /\ Top(aDet[t]) <= aDet[t].seq /\ (aDet[t].active => Top(aDet[t]) = aDet[t].seq /\ aDet[t].seq > 0)
  BY <1>1, <1>2 DEF DetectorFits, DebouncerFits, Top
<1>. QED BY <1>1, <1>2, <1>3 DEF DetectorFits, DumpsFit

\* A trigger that a step does not concern: its detector and its queue stay, entries of it
\* may leave the log, and dumps and recoveries may go.
LEMMA OtherTrigger ==
  ASSUME AlertsAssumption, AlertsInv, NEW t \in Triggers,
         aDet'[t] = aDet[t], aQueue'[t] = aQueue[t], feeds'.log[t] = feeds.log[t], feeds'.channel[t] = feeds.channel[t],
         o'[t].incident = o[t].incident, o'[t].active = o[t].active, o'[t].pending \subseteq o[t].pending,
         \A id : <<t, id>> \in dumps'.captured => <<t, id>> \in dumps.captured,
         \A p : Taken(t, p)' => Taken(t, p),
         Of(aLog', t) \in SUBSET Nat,
         NEW k \in Nat, \A j \in Of(aLog', t) : j + k \in Of(aLog, t) /\ aLog'[j] = aLog[j + k]
  PROVE  TriggerFits(t)'
<1>1. TriggerFits(t)
  BY DEF AlertsInv
<1>2. Due(t)' \in SUBSET Due(t)
  BY DEF Due
<1>3. DetectorFits(t)'
  BY <1>1 DEF TriggerFits, DetectorFits
<1>4. DumpsFit(t)'
  BY <1>1, <1>2 DEF TriggerFits, DumpsFit
<1>5. Top(aDet[t]) \in Nat /\ Of(aLog, t) \in SUBSET Nat /\ DOMAIN aQueue[t] \in SUBSET Nat
  BY AlertsNumbers, AlertsParts DEF AlertsInv
<1>6. LogFits(t)'
  <2>1. LogFits(t) /\ o[t].incident \in {o[t].incident, 0} /\ Top(aDet[t]) <= Top(aDet[t])
    BY <1>1, <1>5 DEF TriggerFits
  <2>2. Ordered(feeds.log[t], aLog', Of(aLog', t), Top(aDet[t]), o[t].incident, Due(t)')
    <3>1. Ordered(feeds.log[t], aLog, Of(aLog, t), Top(aDet[t]), o[t].incident, Due(t))
      BY <2>1 DEF LogFits
    <3>. QED BY ONLY ZenonT(60), <1>2, <1>5, <2>1, <3>1, Fewer, Of(aLog', t) \in SUBSET Nat, k \in Nat,
                 \A j \in Of(aLog', t) : j + k \in Of(aLog, t) /\ aLog'[j] = aLog[j + k]
  <2>. QED BY <2>2 DEF LogFits
<1>7. ChannelFits(t)'
  <2>1. ChannelFits(t) /\ o[t].incident \in {o[t].incident, 0} /\ Top(aDet[t]) <= Top(aDet[t])
    BY <1>1, <1>5 DEF TriggerFits
  <2>2. Ordered(feeds.channel[t], aQueue[t], DOMAIN aQueue[t], Top(aDet[t]), o[t].incident, Due(t)')
    BY <1>2, <1>5, <2>1, LessDue DEF ChannelFits
  <2>. QED BY <2>2 DEF ChannelFits
<1>8. SettingsFit(t)'
  <2>1. \A id, how : OpenedWith(t, id, how)' => OpenedWith(t, id, how)
    BY DEF OpenedWith
  <2>. QED BY <1>1, <2>1 DEF TriggerFits, SettingsFit
<1>. QED BY <1>3, <1>4, <1>6, <1>7, <1>8 DEF TriggerFits

\* A dump is ready: it takes the recovery with the settings of its incident.
LEMMA DumpReadyInv ==
  ASSUME AlertsAssumption, AlertsInv, NEW k \in dumps.captured, A!DumpReady(k) PROVE AlertsInv'
<1> DEFINE t == k[1]
           found == {p \in o[t].pending : p.id = k[2]}
<1>1. t \in Triggers /\ k[2] \in Nat /\ k = <<t, k[2]>>
  BY DEF AlertsInv, AlertsTyped
<1>2. /\ o' = [o EXCEPT ![t].pending = @ \ found]
      /\ dumps'.captured = dumps.captured \ {k}
      /\ dumps'.taken = dumps.taken \cup {<<t, p>> : p \in {q \in found : q.age <= TTL}}
      /\ dumps' = [captured |-> dumps'.captured, taken |-> dumps'.taken]
      /\ UNCHANGED <<aDet, cfg, aQueue, aLog, feeds>>
  BY DEF A!DumpReady
<1>3. found \subseteq Recoveries /\ found \subseteq o[t].pending /\ \A p \in found : p.id = k[2]
  BY <1>1 DEF AlertsInv, AlertsTyped
<1>8. o[t].pending \ found = {p \in o[t].pending : p.id # k[2]}
  OBVIOUS
<1> HIDE DEF t, found
<1>4. \A u \in Triggers : /\ o'[u].incident = o[u].incident /\ o'[u].active = o[u].active
                          /\ o'[u].pending = IF u = t THEN o[t].pending \ found ELSE o[u].pending
                          /\ o'[u] \in [incident : Nat, active : Subscriptions \cup {"none"}, pending : SUBSET Recoveries]
  <2>1. o \in [Triggers -> [incident : Nat, active : Subscriptions \cup {"none"}, pending : SUBSET Recoveries]]
    BY DEF AlertsInv, AlertsTyped
  <2>2. o' = [o EXCEPT ![t] = [o[t] EXCEPT !.pending = o[t].pending \ found]]
    BY <1>2, <2>1
  <2>3. o[t].pending \ found \in SUBSET Recoveries
    BY <1>1, <2>1
  <2>. QED BY <1>1, <2>1, <2>2, <2>3
<1>5. AlertsTyped'
  <2>1. o' \in [Triggers -> [incident : Nat, active : Subscriptions \cup {"none"}, pending : SUBSET Recoveries]]
    BY <1>2, <1>4 DEF AlertsInv, AlertsTyped
  <2>2. dumps'.captured \in SUBSET (Triggers \X Nat) /\ dumps'.taken \in SUBSET (Triggers \X Recoveries)
    BY SMTT(60), <1>1, <1>2, <1>3 DEF AlertsInv, AlertsTyped
  <2>3. dumps' \in [captured : SUBSET (Triggers \X Nat), taken : SUBSET (Triggers \X Recoveries)]
    BY <1>2, <2>2
  <2>. QED BY <1>2, <2>1, <2>3 DEF AlertsInv, AlertsTyped
<1>6. ASSUME NEW u \in Triggers, u # t PROVE TriggerFits(u)'
  <2>1. /\ \A id : <<u, id>> \in dumps'.captured => <<u, id>> \in dumps.captured
        /\ \A p : Taken(u, p)' => Taken(u, p)
    BY <1>2, <1>6 DEF Taken
  <2>2. Of(aLog', u) \in SUBSET Nat /\ \A j \in Of(aLog', u) : j + 0 \in Of(aLog, u) /\ aLog'[j] = aLog[j + 0]
    BY <1>2, AlertsParts DEF AlertsInv
  <2>3. /\ aDet'[u] = aDet[u] /\ aQueue'[u] = aQueue[u] /\ feeds'.log[u] = feeds.log[u] /\ feeds'.channel[u] = feeds.channel[u]
        /\ o'[u].pending \subseteq o[u].pending
    BY <1>2, <1>4, <1>6
  <2>. QED BY <1>4, <2>1, <2>2, <2>3, OtherTrigger
<1>7. TriggerFits(t)'
  <2>1. TriggerFits(t) /\ \A p \in o[t].pending : p \in Recoveries
    BY <1>1 DEF AlertsInv, AlertsTyped
  <2>2. /\ Due(t) \subseteq 1..Top(aDet[t]) /\ o[t].incident \notin Due(t)
        /\ \A p, q \in Recoveries :
             Taken(t, p) => <<t, p.id>> \notin dumps.captured /\ (Taken(t, q) /\ q.id = p.id => q = p)
        /\ \A p \in Recoveries, q \in o[t].pending : Taken(t, p) => q.id # p.id
        /\ \A p, q \in o[t].pending : p.id \in 1..Top(aDet[t]) /\ p.id # o[t].incident /\ (q.id = p.id => q = p)
    BY <2>1 DEF TriggerFits, DumpsFit
  <2>3. /\ \A p : Taken(t, p)' => Taken(t, p) \/ p \in found
        /\ \A id : <<t, id>> \in dumps'.captured => <<t, id>> \in dumps.captured /\ id # k[2]
    BY <1>1, <1>2 DEF Taken
  <2>4. Due(t)' \in SUBSET Due(t)
    BY <1>1, <1>3, <2>3 DEF Due
  <2>5. DetectorFits(t)'
    BY <1>1, <1>2, <1>4, <2>1 DEF TriggerFits, DetectorFits
  <2>6. o'[t].pending \subseteq o[t].pending /\ \A q \in o'[t].pending : q.id # k[2]
    BY <1>1, <1>4, <1>8
  <2>7. \A p, q \in Recoveries :
          Taken(t, p)' => <<t, p.id>> \notin dumps'.captured /\ (Taken(t, q)' /\ q.id = p.id => q = p)
    BY <1>1, <1>3, <2>2, <2>3
  <2>8. \A p \in Recoveries, q \in o'[t].pending : Taken(t, p)' => q.id # p.id
    BY <1>3, <2>2, <2>3, <2>6
  <2>9. DumpsFit(t)'
    BY <1>1, <1>2, <1>4, <2>2, <2>4, <2>6, <2>7, <2>8 DEF DumpsFit
  <2>10. /\ Top(aDet[t]) \in Nat /\ Of(aLog, t) \in SUBSET Nat /\ DOMAIN aQueue[t] \in SUBSET Nat
         /\ o[t].incident \in {o[t].incident, 0} /\ Top(aDet[t]) <= Top(aDet[t])
    BY <1>1, AlertsNumbers, AlertsParts DEF AlertsInv
  <2>11. LogFits(t)' /\ ChannelFits(t)'
    <3>1. LogFits(t) /\ ChannelFits(t)
      BY <2>1 DEF TriggerFits
    <3>2. Ordered(feeds.log[t], aLog, Of(aLog, t), Top(aDet[t]), o[t].incident, Due(t)')
      BY <2>4, <2>10, <3>1, LessDue DEF LogFits
    <3>3. Ordered(feeds.channel[t], aQueue[t], DOMAIN aQueue[t], Top(aDet[t]), o[t].incident, Due(t)')
      BY <2>4, <2>10, <3>1, LessDue DEF ChannelFits
    <3>. QED BY <1>1, <1>2, <1>4, <3>2, <3>3 DEF LogFits, ChannelFits
  <2>12. \A id, how : OpenedWith(t, id, how)' => OpenedWith(t, id, how)
    BY <1>1, <1>3, <1>4, <2>3, <2>6 DEF OpenedWith
  <2>13. SettingsFit(t)'
    BY <1>2, <2>1, <2>12 DEF TriggerFits, SettingsFit
  <2>. QED BY <2>5, <2>9, <2>11, <2>13 DEF TriggerFits
<1>. QED BY <1>5, <1>6, <1>7 DEF AlertsInv

\* An alert that goes out has the settings of a configured channel.
LEMMA AlertTyped ==
  ASSUME NEW kind \in Kinds, NEW id \in Nat, NEW how \in Subscriptions \cup {"none"}, A!Configured(how)
  PROVE  A!Alert(kind, id, how) \in Alerts /\ A!Alert(kind, id, how) # A!NoAlert
BY DEF A!Configured, A!Nil, A!Alert, A!NoAlert, Alerts, Kinds

\* The dump goes to the queue and to the log.
LEMMA DumpSentInv ==
  ASSUME AlertsAssumption, AlertsInv, NEW k \in dumps.taken, A!DumpSent(k) PROVE AlertsInv'
<1> DEFINE t == k[1]
           p == k[2]
           x == IF A!Subscribed(p.cfg, p.cfg, "dump") THEN A!Alert("dump", p.id, p.cfg) ELSE A!NoAlert
           alert == [u \in Triggers |-> IF u = t THEN x ELSE A!NoAlert]
           e == A!Entry("dump", t, p.id)
           entries == <<e>>
<1>1. t \in Triggers /\ p \in Recoveries /\ k = <<t, p>> /\ p.id \in Nat /\ p.cfg \in Subscriptions \cup {"none"}
  <2>1. t \in Triggers /\ p \in Recoveries /\ k = <<t, p>>
    BY DEF AlertsInv, AlertsTyped
  <2>. QED BY <2>1 DEF Recoveries
<1>2. /\ dumps' = [dumps EXCEPT !.taken = @ \ {k}] /\ A!Alerted(alert) /\ A!Logged(entries)
      /\ UNCHANGED <<aDet, o, cfg, feeds>>
  <2>1. alert = [u \in Triggers |-> IF u = t /\ A!Subscribed(p.cfg, p.cfg, "dump") THEN A!Alert("dump", p.id, p.cfg) ELSE A!NoAlert]
    OBVIOUS
  <2>. QED BY <2>1 DEF A!DumpSent
<1>3. x \in Alerts \cup {A!NoAlert} /\ (x # A!NoAlert => x.kind = "dump" /\ x.id = p.id /\ x.cfg = p.cfg)
  <2>1. CASE A!Subscribed(p.cfg, p.cfg, "dump")
    <3>1. x \in Alerts
      BY <1>1, <2>1, AlertTyped DEF A!Subscribed, Kinds
    <3>. QED BY <2>1, <3>1 DEF A!Alert
  <2>2. CASE ~A!Subscribed(p.cfg, p.cfg, "dump")
    BY <2>2
  <2>. QED BY <2>1, <2>2
<1>4. e \in Entries /\ e.trigger = t /\ e.kind = "dump" /\ e.id = p.id
  BY <1>1 DEF A!Entry, Entries, Kinds
<1> HIDE DEF x, e
<1>5. entries \in Seq(Entries) /\ DOMAIN entries = {1} /\ entries[1] = e
  BY <1>4
<1>6. /\ \A u \in Triggers : alert[u] \in Alerts \cup {A!NoAlert} /\ alert[u] = IF u = t THEN x ELSE A!NoAlert
  BY <1>3
<1> HIDE DEF t, p, alert, entries
<1>7. /\ aQueue' \in [Triggers -> Seq(Alerts)]
      /\ \A u \in Triggers : \E i \in {0, 1} : Enqueues(aQueue[u], aQueue'[u], i, alert[u])
      /\ \A u \in Triggers : alert[u] = A!NoAlert => aQueue'[u] = aQueue[u]
  BY <1>2, <1>6, AlertedEnqueues DEF AlertsInv, AlertsTyped
<1>8. /\ aLog' \in Seq(Entries \cup Marks)
      /\ \A u \in Triggers : Of(aLog', u) \in SUBSET Nat
  <2>1. aLog' \in Seq(Entries \cup Marks)
    BY <1>2, <1>5, LoggedBecomes DEF AlertsInv, AlertsTyped
  <2>. QED BY <2>1, LenProperties DEF Of
<1>9. /\ dumps'.captured = dumps.captured /\ dumps'.taken = dumps.taken \ {k}
      /\ dumps' \in [captured : SUBSET (Triggers \X Nat), taken : SUBSET (Triggers \X Recoveries)]
      /\ \A u, q : Taken(u, q)' <=> Taken(u, q) /\ <<u, q>> # k
  BY <1>2 DEF AlertsInv, AlertsTyped, Taken
<1>10. AlertsTyped'
  BY <1>2, <1>7, <1>8, <1>9 DEF AlertsInv, AlertsTyped
<1>11. ASSUME NEW u \in Triggers, u # t PROVE TriggerFits(u)'
  <2>1. \A j \in Of(aLog', u) : j + 0 \in Of(aLog, u) /\ aLog'[j] = aLog[j + 0]
    <3>1. \A j \in DOMAIN entries : entries[j].trigger # u
      BY <1>4, <1>5, <1>11
    <3>. QED BY ZenonT(60), <1>2, <1>5, <3>1, LoggedOthers DEF AlertsInv, AlertsTyped
  <2>2. aQueue'[u] = aQueue[u]
    BY <1>6, <1>7, <1>11
  <2>. QED BY <1>2, <1>8, <1>9, <2>1, <2>2, OtherTrigger
<1>12. TriggerFits(t)'
  <2>1. TriggerFits(t) /\ aQueue[t] \in Seq(Alerts)
    BY <1>1 DEF AlertsInv, AlertsTyped
  <2>2. /\ Due(t) \subseteq 1..Top(aDet[t]) /\ o[t].incident \notin Due(t)
        /\ \A r, q \in Recoveries :
             Taken(t, r) => <<t, r.id>> \notin dumps.captured /\ (Taken(t, q) /\ q.id = r.id => q = r)
        /\ \A r \in Recoveries, q \in o[t].pending : Taken(t, r) => q.id # r.id
        /\ \A r, q \in o[t].pending : r.id \in 1..Top(aDet[t]) /\ r.id # o[t].incident /\ (q.id = r.id => q = r)
    BY <2>1 DEF TriggerFits, DumpsFit
  <2>3. Taken(t, p) /\ p.id \in Due(t) /\ \A q : Taken(t, q)' <=> Taken(t, q) /\ q # p
    BY <1>1, <1>9 DEF Taken, Due
  <2>4. Due(t)' = Due(t) \ {p.id}
    <3>1. \A id \in Nat : id \in Due(t)' <=> <<t, id>> \in dumps.captured \/ \E q \in Recoveries : Taken(t, q) /\ q # p /\ q.id = id
      BY <1>9, <2>3 DEF Due
    <3>2. \A id \in Nat : id \in Due(t) <=> <<t, id>> \in dumps.captured \/ \E q \in Recoveries : Taken(t, q) /\ q.id = id
      BY DEF Due
    <3>3. p.id \notin Due(t)'
      BY <1>1, <2>2, <2>3, <3>1
    <3>4. \A id \in Nat : id # p.id => (id \in Due(t)' <=> id \in Due(t))
      BY <3>1, <3>2
    <3>5. Due(t) \subseteq Nat /\ Due(t)' \subseteq Nat
      BY DEF Due
    <3>. QED BY <3>3, <3>4, <3>5
  <2>5. DetectorFits(t)'
    BY <1>2, <2>1 DEF TriggerFits, DetectorFits
  <2>6. DumpsFit(t)'
    BY SMTT(60), <1>2, <1>9, <2>2, <2>3, <2>4 DEF DumpsFit
  <2>7. PICK i \in {0, 1} : Enqueues(aQueue[t], aQueue'[t], i, x)
    BY <1>1, <1>6, <1>7
  <2>8. Becomes(aQueue[t], DOMAIN aQueue[t], aQueue'[t], DOMAIN aQueue'[t], i, "dump", p.id)
    BY <1>3, <2>7, EnqueuesBecomes
  <2>9. Becomes(aLog, Of(aLog, t), aLog', Of(aLog', t), 0, "dump", p.id)
    <3>1. Few(entries, t, "dump", p.id)
      BY <1>4, <1>5 DEF Few
    <3>. QED BY <1>1, <1>2, <1>5, <3>1, LoggedBecomes DEF AlertsInv, AlertsTyped, Kinds
  <2>10. /\ Top(aDet[t]) \in Nat /\ o[t].incident \in Nat /\ Due(t) \in SUBSET (1..Top(aDet[t])) /\ p.id # o[t].incident
         /\ o[t].incident <= Top(aDet[t]) /\ (o[t].incident # 0 => p.id < o[t].incident)
    BY <1>1, <2>2, <2>3, AlertsNumbers, AlertsParts DEF AlertsInv
  <2>11. DOMAIN aQueue'[t] \in SUBSET Nat /\ Of(aLog', t) \in SUBSET Nat /\ i \in Nat /\ 0 \in Nat
    <3>1. aQueue'[t] \in Seq(Alerts)
      BY <1>1, <1>7
    <3>2. DOMAIN aQueue'[t] = 1..Len(aQueue'[t]) /\ Len(aQueue'[t]) \in Nat
      BY <3>1, LenProperties
    <3>. QED BY <1>1, <1>8, <3>2
  <2>12. LogFits(t)'
    <3>1. Ordered(feeds.log[t], aLog, Of(aLog, t), Top(aDet[t]), o[t].incident, Due(t))
      BY <2>1 DEF TriggerFits, LogFits
    <3>2. Ordered(feeds.log[t], aLog', Of(aLog', t), Top(aDet[t]), o[t].incident, Due(t) \ {p.id})
      BY ONLY SMTT(60), <2>3, <2>9, <2>10, <2>11, <3>1, DumpFits
    <3>. QED BY <1>2, <2>4, <3>2 DEF LogFits
  <2>13. ChannelFits(t)'
    <3>1. Ordered(feeds.channel[t], aQueue[t], DOMAIN aQueue[t], Top(aDet[t]), o[t].incident, Due(t))
      BY <2>1 DEF TriggerFits, ChannelFits
    <3>2. Ordered(feeds.channel[t], aQueue'[t], DOMAIN aQueue'[t], Top(aDet[t]), o[t].incident, Due(t) \ {p.id})
      BY ONLY SMTT(60), <2>3, <2>8, <2>10, <2>11, <3>1, DumpFits
    <3>. QED BY <1>2, <2>4, <3>2 DEF ChannelFits
  <2>14. SettingsFit(t)'
    <3>1. /\ feeds.log[t].id # 0 => feeds.log[t].cfg = "log"
          /\ \A j \in DOMAIN aQueue[t] : Agreed(feeds.channel[t], aQueue[t], aQueue[t][j].id, aQueue[t][j].cfg)
          /\ \A id, how : OpenedWith(t, id, how) => Agreed(feeds.channel[t], aQueue[t], id, how)
      BY <2>1 DEF TriggerFits, SettingsFit
    <3>2. Agreed(feeds.channel[t], aQueue[t], p.id, p.cfg)
      BY <1>1, <2>3, <3>1 DEF OpenedWith
    <3>3. /\ \A j \in DOMAIN aQueue'[t] : Agreed(feeds.channel[t], aQueue'[t], aQueue'[t][j].id, aQueue'[t][j].cfg)
          /\ \A id, how : Agreed(feeds.channel[t], aQueue[t], id, how) /\ (x # A!NoAlert /\ x.id = id => x.cfg = how)
               => Agreed(feeds.channel[t], aQueue'[t], id, how)
      BY ZenonT(60), <1>3, <2>7, <3>1, <3>2, AgreedQueued
    <3>4. ASSUME NEW id, NEW how, OpenedWith(t, id, how)' PROVE OpenedWith(t, id, how) /\ id # p.id
      BY <1>1, <1>2, <2>2, <2>3, <3>4 DEF OpenedWith
    <3>. QED BY SMTT(60), <1>2, <1>3, <3>1, <3>3, <3>4 DEF SettingsFit
  <2>. QED BY <2>5, <2>6, <2>12, <2>13, <2>14 DEF TriggerFits
<1>. QED BY <1>10, <1>11, <1>12 DEF AlertsInv

\* resetDetection and start: an open incident ends in the log, and nothing of it is left.
LEMMA ResetInv ==
  ASSUME AlertsAssumption, AlertsInv, A!Reset, UNCHANGED <<cfg, aQueue, dumps, feeds>> PROVE AlertsInv'
<1> DEFINE p == "silence" \in Triggers /\ o["silence"].incident # 0
           q == "channel_imbalance" \in Triggers /\ o["channel_imbalance"].incident # 0
           x == A!Entry("end", "silence", o["silence"].incident)
           y == A!Entry("end", "channel_imbalance", o["channel_imbalance"].incident)
           entries == (IF p THEN <<x>> ELSE <<>>) \o (IF q THEN <<y>> ELSE <<>>)
<1>1. /\ aDet' = [t \in Triggers |-> A!ResetDetector(aDet[t])]
      /\ o' = [t \in Triggers |-> [incident |-> 0, active |-> "none", pending |-> {}]]
      /\ A!Logged(entries)
  <2>1. A!StopEntries("silence") = IF p THEN <<x>> ELSE <<>>
    BY DEF A!StopEntries, A!One
  <2>2. A!StopEntries("channel_imbalance") = IF q THEN <<y>> ELSE <<>>
    BY DEF A!StopEntries, A!One
  <2>. QED BY <2>1, <2>2 DEF A!Reset, A!Forgotten, A!Nil
<1>2. p \in BOOLEAN /\ q \in BOOLEAN
  OBVIOUS
<1>3. /\ p => x \in Entries /\ x.trigger = "silence" /\ x.kind = "end" /\ x.id = o["silence"].incident
      /\ q => y \in Entries /\ y.trigger = "channel_imbalance" /\ y.kind = "end" /\ y.id = o["channel_imbalance"].incident
  BY AlertsParts DEF AlertsInv, A!Entry, Entries, Kinds
<1>4. /\ entries \in Seq(Entries)
      /\ \A kind, id : (p => x.kind = kind /\ x.id = id) => Few(entries, "silence", kind, id)
      /\ \A kind, id : (q => y.kind = kind /\ y.id = id) => Few(entries, "channel_imbalance", kind, id)
  <2> HIDE DEF p, q, x, y
  <2>. QED BY <1>2, <1>3, FewEntries
<1>5. \A t \in Triggers : /\ o[t].incident # 0 => Few(entries, t, "end", o[t].incident)
                          /\ o[t].incident = 0 => \A id : Few(entries, t, "start", id)
  <2>1. Triggers \subseteq {"silence", "channel_imbalance"}
    BY DEF AlertsAssumption
  <2>2. /\ p => x.kind = "end" /\ x.id = o["silence"].incident
        /\ q => y.kind = "end" /\ y.id = o["channel_imbalance"].incident
    BY <1>3
  <2> HIDE DEF entries, x, y
  <2>. QED BY <1>4, <2>1, <2>2
<1> HIDE DEF p, q, x, y, entries
<1>6. /\ aLog' \in Seq(Entries \cup Marks)
      /\ \A t \in Triggers, kind \in Kinds, id \in Nat :
           Few(entries, t, kind, id) => Becomes(aLog, Of(aLog, t), aLog', Of(aLog', t), 0, kind, id)
  BY <1>1, <1>4, LoggedBecomes DEF AlertsInv, AlertsTyped
<1>7. \A t \in Triggers : Of(aLog', t) \in SUBSET Nat
  BY <1>6, LenProperties DEF Of
<1>8. \A t \in Triggers : /\ aDet[t] \in Debouncers /\ DebouncerFits(aDet[t])
                          /\ aDet'[t] \in Debouncers /\ DebouncerFits(aDet'[t]) /\ ~aDet'[t].active
                          /\ aDet'[t].seq = aDet[t].seq /\ Top(aDet[t]) <= Top(aDet'[t]) /\ Top(aDet'[t]) \in Nat
  <2>1. ASSUME NEW t \in Triggers PROVE aDet[t] \in Debouncers /\ DebouncerFits(aDet[t])
    BY DEF AlertsInv, AlertsTyped, TriggerFits, DetectorFits
  <2>. QED BY <1>1, <2>1, ResetEffect
<1>9. AlertsTyped'
  <2>1. aDet' \in [Triggers -> Debouncers]
    BY <1>1, <1>8
  <2>2. o' \in [Triggers -> [incident : Nat, active : Subscriptions \cup {"none"}, pending : SUBSET Recoveries]]
    BY <1>1
  <2>. QED BY <1>6, <2>1, <2>2 DEF AlertsInv, AlertsTyped
<1>10. ASSUME NEW t \in Triggers PROVE TriggerFits(t)'
  <2>1. TriggerFits(t)
    BY DEF AlertsInv
  <2>2. o'[t].incident = 0 /\ o'[t].active = "none" /\ o'[t].pending = {}
    BY <1>1
  <2>3. Due(t)' = Due(t) /\ \A r : Taken(t, r)' = Taken(t, r)
    BY DEF Due, Taken
  <2>4. DetectorFits(t)'
    BY <1>8, <2>1, <2>2 DEF TriggerFits, DetectorFits
  <2>5. /\ Top(aDet[t]) \in Nat /\ Top(aDet'[t]) \in Nat /\ Top(aDet[t]) <= Top(aDet'[t])
        /\ o[t].incident # 0 => o[t].incident \in 1..Top(aDet[t])
        /\ Due(t) \in SUBSET (1..Top(aDet[t])) /\ o[t].incident \notin Due(t) /\ o[t].incident \in Nat
        /\ Due(t) \in SUBSET (1..Top(aDet'[t]))
    <3>1. \A n \in 1..Top(aDet[t]) : Top(aDet[t]) <= Top(aDet'[t]) => n \in 1..Top(aDet'[t])
      BY <1>8, AlertsNumbers
    <3>. QED BY <1>8, <3>1, AlertsNumbers, AlertsParts DEF AlertsInv
  <2>6. DumpsFit(t)'
    <3>1. 0 \notin Due(t)
      BY <2>5
    <3>. QED BY <2>1, <2>2, <2>3, <2>5, <3>1 DEF TriggerFits, DumpsFit
  <2>7. Of(aLog, t) \in SUBSET Nat /\ DOMAIN aQueue[t] \in SUBSET Nat
    BY AlertsParts DEF AlertsInv
  <2>8. LogFits(t)'
    <3>1. Ordered(feeds.log[t], aLog, Of(aLog, t), Top(aDet[t]), o[t].incident, Due(t))
      BY <2>1 DEF TriggerFits, LogFits
    <3>2. CASE o[t].incident # 0
      <4>1. Becomes(aLog, Of(aLog, t), aLog', Of(aLog', t), 0, "end", o[t].incident)
        BY <1>5, <1>6, <2>5, <3>2 DEF Kinds
      <4>2. o[t].incident \in 1..Top(aDet[t])
        BY <2>5, <3>2
      <4>3. Of(aLog', t) \in SUBSET Nat /\ 0 \in Nat
        BY <1>7
      <4>4. Ordered(feeds.log[t], aLog', Of(aLog', t), Top(aDet[t]), 0, Due(t) \cup {o[t].incident})
        BY ONLY <2>5, <3>1, <4>1, <4>2, <4>3, EndFits
      <4>5. Due(t) \in SUBSET (Due(t) \cup {o[t].incident}) /\ 0 \in {0, 0}
        OBVIOUS
      <4>6. Ordered(feeds.log[t], aLog', Of(aLog', t), Top(aDet'[t]), 0, Due(t))
        BY ONLY <2>5, <4>3, <4>4, <4>5, LessDue
      <4>. QED BY <2>2, <2>3, <4>6 DEF LogFits
    <3>3. CASE o[t].incident = 0
      <4>1. \A id \in {0, 1} : Becomes(aLog, Of(aLog, t), aLog', Of(aLog', t), 0, "start", id)
        BY <1>5, <1>6, <3>3 DEF Kinds
      <4>2. \A j \in Of(aLog', t) : j + 0 \in Of(aLog, t) /\ aLog'[j] = aLog[j + 0]
        BY <4>1 DEF Becomes
      <4>3. Of(aLog', t) \in SUBSET Nat /\ 0 \in Nat /\ 0 \in {o[t].incident, 0} /\ Due(t) \in SUBSET Due(t)
        BY <1>7, <3>3
      <4>4. o[t].incident \in {o[t].incident, 0} /\ Top(aDet[t]) <= Top(aDet[t]) /\ Top(aDet[t]) \in Nat
        BY <2>5
      <4>5. Ordered(feeds.log[t], aLog', Of(aLog', t), Top(aDet[t]), o[t].incident, Due(t))
        BY ONLY ZenonT(60), <3>1, <4>2, <4>3, <4>4, Fewer
      <4>6. Ordered(feeds.log[t], aLog', Of(aLog', t), Top(aDet'[t]), 0, Due(t))
        BY ONLY <2>5, <4>3, <4>5, LessDue
      <4>. QED BY <2>2, <2>3, <4>6 DEF LogFits
    <3>. QED BY <3>2, <3>3
  <2>9. ChannelFits(t)'
    <3>1. Ordered(feeds.channel[t], aQueue[t], DOMAIN aQueue[t], Top(aDet[t]), o[t].incident, Due(t))
      BY <2>1 DEF TriggerFits, ChannelFits
    <3>2. 0 \in {o[t].incident, 0} /\ Due(t) \in SUBSET Due(t)
      OBVIOUS
    <3>3. Ordered(feeds.channel[t], aQueue[t], DOMAIN aQueue[t], Top(aDet'[t]), 0, Due(t))
      BY ONLY <2>5, <2>7, <3>1, <3>2, LessDue
    <3>. QED BY <2>2, <2>3, <3>3 DEF ChannelFits
  <2>10. \A id, how : OpenedWith(t, id, how)' => OpenedWith(t, id, how)
    BY <2>2, <2>3 DEF OpenedWith
  <2>11. SettingsFit(t)'
    BY <2>1, <2>10 DEF TriggerFits, SettingsFit
  <2>. QED BY <2>4, <2>6, <2>8, <2>9, <2>11 DEF TriggerFits
<1>. QED BY <1>9, <1>10 DEF AlertsInv

\* DrainLogs and Close put a mark of theirs at the end of the log's queue.
LEMMA MarkInv ==
  ASSUME AlertsAssumption, AlertsInv, NEW m \in Marks, aLog' = Append(aLog, m),
         UNCHANGED <<aDet, o, cfg, aQueue, dumps, feeds>>
  PROVE  AlertsInv'
<1>1. aLog \in Seq(Entries \cup Marks) /\ m \in Entries \cup Marks
  BY DEF AlertsInv, AlertsTyped
<1>2. /\ aLog' \in Seq(Entries \cup Marks) /\ Len(aLog) \in Nat /\ DOMAIN aLog = 1..Len(aLog)
      /\ DOMAIN aLog' = 1..(Len(aLog) + 1)
      /\ \A i \in 1..Len(aLog) : aLog'[i] = aLog[i]
      /\ aLog'[Len(aLog) + 1] = m
  BY <1>1, AppendProperties, LenProperties
<1>3. m.kind \notin Kinds
  BY DEF Marks, Kinds
<1>4. AlertsTyped'
  BY <1>2 DEF AlertsInv, AlertsTyped
<1>5. ASSUME NEW t \in Triggers PROVE TriggerFits(t)'
  <2>1. Of(aLog', t) \in SUBSET Nat /\ \A j \in Of(aLog', t) : j + 0 \in Of(aLog, t) /\ aLog'[j] = aLog[j + 0]
    BY <1>2, <1>3 DEF Of
  <2>2. \A r : Taken(t, r)' = Taken(t, r)
    BY DEF Taken
  <2>. QED BY <2>1, <2>2, OtherTrigger
<1>. QED BY <1>4, <1>5 DEF AlertsInv

\* What an arrival makes of a feed.
LEMMA ArrivedEffect ==
  ASSUME NEW Cfgs, NEW f \in FeedsWith(Cfgs), NEW x, x.kind \in Kinds, x.id \in Nat, NEW how \in Cfgs
  PROVE  LET n == A!Arrived(f, x, how) IN
           /\ n \in FeedsWith(Cfgs)
           /\ x.kind = "start" => n.id = x.id /\ n.phase = "start" /\ n.dumped = f.dumped /\ n.cfg = how
           /\ x.kind = "end" => n.id = x.id /\ n.phase = "end" /\ n.dumped = f.dumped /\ n.cfg = how
           /\ x.kind = "dump" =>
                /\ x.id >= f.id => n.id = x.id /\ n.phase = "end" /\ n.cfg = how
                /\ x.id < f.id => n.id = f.id /\ n.phase = f.phase /\ n.cfg = f.cfg
                /\ \A d \in n.dumped : d \in f.dumped \/ d.id = x.id
<1>1. f.id \in Nat
  BY DEF FeedsWith
<1>2. CASE x.kind = "start"
  BY <1>2 DEF A!Arrived, FeedsWith
<1>3. CASE x.kind = "end"
  BY <1>3 DEF A!Arrived, FeedsWith
<1>4. CASE x.kind = "dump"
  <2> DEFINE d == [id |-> x.id, cfg |-> how]
             g1 == IF x.id >= f.id THEN [f EXCEPT !.id = x.id, !.phase = "end", !.cfg = how] ELSE f
             g2 == [g1 EXCEPT !.dumped = @ \cup {d}]
  <2>1. A!Arrived(f, x, how) = g2
    BY <1>4 DEF A!Arrived
  <2>2. d \in [id : Nat, cfg : Cfgs] /\ d.id = x.id
    OBVIOUS
  <2>3. /\ g1 \in FeedsWith(Cfgs) /\ g1.dumped = f.dumped
        /\ x.id >= f.id => g1.id = x.id /\ g1.phase = "end" /\ g1.cfg = how
        /\ x.id < f.id => g1 = f
    <3>1. CASE x.id >= f.id
      <4>1. g1 = [f EXCEPT !.id = x.id, !.phase = "end", !.cfg = how]
        BY <3>1
      <4> HIDE DEF g1
      <4>2. g1 \in FeedsWith(Cfgs) /\ g1.dumped = f.dumped /\ g1.id = x.id /\ g1.phase = "end" /\ g1.cfg = how
        BY <4>1 DEF FeedsWith
      <4>. QED BY <1>1, <3>1, <4>2
    <3>2. CASE ~(x.id >= f.id)
      BY <1>1, <3>2
    <3>. QED BY <3>1, <3>2
  <2> HIDE DEF d, g1
  <2>4. g1.dumped \cup {d} \in SUBSET [id : Nat, cfg : Cfgs]
    BY <2>2, <2>3 DEF FeedsWith
  <2>5. g2 \in FeedsWith(Cfgs) /\ g2.dumped = g1.dumped \cup {d} /\ g2.id = g1.id /\ g2.phase = g1.phase /\ g2.cfg = g1.cfg
    BY <2>3, <2>4 DEF FeedsWith
  <2> HIDE DEF g2
  <2>. QED BY <1>4, <2>1, <2>2, <2>3, <2>5
<1>. QED BY <1>2, <1>3, <1>4 DEF Kinds

\* What is left of a sequence without its first element.
LEMMA TailParts ==
  ASSUME NEW T, NEW q \in Seq(T), q # <<>>
  PROVE  /\ Tail(q) \in Seq(T) /\ Head(q) = q[1] /\ q[1] \in T /\ 1 \in DOMAIN q
         /\ DOMAIN Tail(q) \in SUBSET (Nat \ {0})
         /\ \A j \in DOMAIN Tail(q) : j + 1 \in DOMAIN q /\ Tail(q)[j] = q[j + 1]
<1>1. /\ Tail(q) \in Seq(T) /\ Head(q) = q[1] /\ Len(q) \in Nat /\ Len(q) # 0 /\ DOMAIN q = 1..Len(q)
      /\ Len(Tail(q)) = Len(q) - 1 /\ \A i \in 1..Len(Tail(q)) : Tail(q)[i] = q[i + 1]
  BY HeadTailProperties, LenProperties, EmptySeq
<1>2. DOMAIN Tail(q) = 1..Len(Tail(q))
  BY <1>1, LenProperties
<1>3. 1 \in 1..Len(q) /\ q[1] \in T
  BY <1>1, ElementOfSeq
<1>. QED BY <1>1, <1>2, <1>3

\* The log worker writes the next entry, or fails to, or reaches a mark.
LEMMA LogWorkerInv ==
  ASSUME AlertsAssumption, AlertsInv, NEW ok \in BOOLEAN, A!LogWorker(ok) PROVE AlertsInv'
<1> DEFINE x == aLog[1]
<1>1. aLog # <<>> /\ aLog' = Tail(aLog) /\ UNCHANGED <<aDet, o, cfg, aQueue, dumps>> /\ x = Head(aLog)
  <2>1. aLog # <<>> /\ aLog \in Seq(Entries \cup Marks)
    BY DEF A!LogWorker, AlertsInv, AlertsTyped
  <2>. QED BY <2>1, TailParts DEF A!LogWorker
<1>2. /\ aLog' \in Seq(Entries \cup Marks) /\ x \in Entries \cup Marks /\ 1 \in DOMAIN aLog
      /\ DOMAIN aLog' \in SUBSET (Nat \ {0})
      /\ \A j \in DOMAIN aLog' : j + 1 \in DOMAIN aLog /\ aLog'[j] = aLog[j + 1]
  BY <1>1, TailParts DEF AlertsInv, AlertsTyped
<1>3. \A t \in Triggers : /\ Of(aLog', t) \in SUBSET (Nat \ {0})
                          /\ \A j \in Of(aLog', t) : j + 1 \in Of(aLog, t) /\ aLog'[j] = aLog[j + 1]
  BY <1>2 DEF Of
<1>4. \A t, r : Taken(t, r)' = Taken(t, r)
  BY <1>1 DEF Taken
<1>5. CASE UNCHANGED feeds
  <2>1. AlertsTyped'
    BY <1>1, <1>2, <1>5 DEF AlertsInv, AlertsTyped
  <2>2. ASSUME NEW t \in Triggers PROVE TriggerFits(t)'
    <3>1. Of(aLog', t) \in SUBSET Nat /\ 1 \in Nat
      BY <1>3
    <3>. QED BY <1>1, <1>3, <1>4, <1>5, <3>1, OtherTrigger
  <2>. QED BY <2>1, <2>2 DEF AlertsInv
<1>6. CASE x \in Entries /\ feeds' = [feeds EXCEPT !.log[x.trigger] = A!Arrived(@, x, "log")]
  <2>1. PICK t \in Triggers : x.trigger = t /\ x.kind \in Kinds /\ x.id \in Nat
    BY <1>6 DEF Entries
  <2> DEFINE n == A!Arrived(feeds.log[t], x, "log")
  <2>2. feeds.log[t] \in FeedsWith({"none", "log"})
    BY <2>1, AlertsParts DEF AlertsInv
  <2>3. feeds'.log = [feeds.log EXCEPT ![t] = n] /\ feeds'.channel = feeds.channel
        /\ feeds' = [log |-> feeds'.log, channel |-> feeds'.channel]
    BY <1>6, <2>1 DEF AlertsInv, AlertsTyped
  <2>4. /\ n \in FeedsWith({"none", "log"})
        /\ x.kind = "start" => n.id = x.id /\ n.phase = "start" /\ n.dumped = feeds.log[t].dumped /\ n.cfg = "log"
        /\ x.kind = "end" => n.id = x.id /\ n.phase = "end" /\ n.dumped = feeds.log[t].dumped /\ n.cfg = "log"
        /\ x.kind = "dump" =>
             /\ x.id >= feeds.log[t].id => n.id = x.id /\ n.phase = "end" /\ n.cfg = "log"
             /\ x.id < feeds.log[t].id => n.id = feeds.log[t].id /\ n.phase = feeds.log[t].phase /\ n.cfg = feeds.log[t].cfg
             /\ \A d \in n.dumped : d \in feeds.log[t].dumped \/ d.id = x.id
    BY <2>1, <2>2, ArrivedEffect
  <2> HIDE DEF n, x
  <2>5. AlertsTyped'
    <3>1. feeds'.log \in [Triggers -> FeedsWith({"none", "log"})]
      BY <2>1, <2>3, <2>4 DEF AlertsInv, AlertsTyped
    <3>2. feeds' \in [log : [Triggers -> FeedsWith({"none", "log"})], channel : [Triggers -> FeedsWith(Subscriptions \cup {"none"})]]
      BY <2>3, <3>1 DEF AlertsInv, AlertsTyped
    <3>. QED BY <1>1, <1>2, <3>2 DEF AlertsInv, AlertsTyped
  <2>6. ASSUME NEW u \in Triggers, u # t PROVE TriggerFits(u)'
    <3>1. feeds'.log[u] = feeds.log[u] /\ feeds'.channel[u] = feeds.channel[u]
      BY <2>3, <2>6 DEF AlertsInv, AlertsTyped
    <3>2. Of(aLog', u) \in SUBSET Nat /\ 1 \in Nat
      BY <1>3
    <3>. QED BY <1>1, <1>3, <1>4, <3>1, <3>2, OtherTrigger
  <2>7. TriggerFits(t)'
    <3>1. TriggerFits(t)
      BY <2>1 DEF AlertsInv
    <3>2. feeds'.log[t] = n /\ feeds'.channel[t] = feeds.channel[t]
      BY <2>1, <2>3 DEF AlertsInv, AlertsTyped
    <3>3. DetectorFits(t)' /\ DumpsFit(t)' /\ ChannelFits(t)' /\ Due(t)' = Due(t)
      <4>1. Due(t)' = Due(t)
        BY <1>1 DEF Due, Taken
      <4>2. DetectorFits(t)'
        BY <1>1, <3>1 DEF TriggerFits, DetectorFits
      <4>3. DumpsFit(t)'
        BY <1>1, <1>4, <3>1, <4>1 DEF TriggerFits, DumpsFit
      <4>4. ChannelFits(t)'
        BY <1>1, <3>1, <3>2, <4>1 DEF TriggerFits, ChannelFits
      <4>. QED BY <4>1, <4>2, <4>3, <4>4
    <3>4. 1 \in Of(aLog, t)
      BY <1>2, <2>1 DEF Of, x
    <3>5. LogFits(t)'
      <4>1. Ordered(feeds.log[t], aLog, Of(aLog, t), Top(aDet[t]), o[t].incident, Due(t))
        BY <3>1 DEF TriggerFits, LogFits
      <4>2. Top(aDet[t]) \in Nat /\ o[t].incident \in Nat /\ Due(t) \in SUBSET Nat
        BY <2>1, AlertsNumbers, AlertsParts DEF AlertsInv
      <4>3. LET y == aLog[1] IN
              /\ y.kind = "start" => n.id = y.id /\ n.phase = "start" /\ n.dumped = feeds.log[t].dumped
              /\ y.kind = "end" => n.id = y.id /\ n.phase = "end" /\ n.dumped = feeds.log[t].dumped
              /\ y.kind = "dump" =>
                   /\ y.id >= feeds.log[t].id => n.id = y.id /\ n.phase = "end"
                   /\ y.id < feeds.log[t].id => n.id = feeds.log[t].id /\ n.phase = feeds.log[t].phase
                   /\ \A d \in n.dumped : d \in feeds.log[t].dumped \/ d.id = y.id
        BY <2>4 DEF x
      <4>4. Of(aLog', t) \in SUBSET (Nat \ {0}) /\ \A j \in Of(aLog', t) : j + 1 \in Of(aLog, t) /\ aLog'[j] = aLog[j + 1]
        BY <1>3, <2>1
      <4>5. Ordered(n, aLog', Of(aLog', t), Top(aDet[t]), o[t].incident, Due(t))
        BY ONLY SMTT(60), <3>4, <4>1, <4>2, <4>3, <4>4, FirstArrives
      <4>. QED BY <1>1, <3>2, <3>3, <4>5 DEF LogFits
    <3>6. SettingsFit(t)'
      <4>1. n.id # 0 => n.cfg = "log"
        BY <2>1, <2>2, <2>4, <3>1 DEF Kinds, TriggerFits, SettingsFit, FeedsWith
      <4>2. \A id, how : OpenedWith(t, id, how)' => OpenedWith(t, id, how)
        BY <1>1, <1>4, <2>1 DEF OpenedWith
      <4>. QED BY <1>1, <3>1, <3>2, <4>1, <4>2 DEF TriggerFits, SettingsFit
    <3>. QED BY <3>3, <3>5, <3>6 DEF TriggerFits
  <2>. QED BY <2>5, <2>6, <2>7 DEF AlertsInv
<1>7. \/ UNCHANGED feeds
      \/ x \in Entries /\ feeds' = [feeds EXCEPT !.log[x.trigger] = A!Arrived(@, x, "log")]
  <2>1. CASE x \in Marks
    BY <1>1, <2>1 DEF A!LogWorker, Marks
  <2>2. CASE x \in Entries
    BY <1>1, <2>2 DEF A!LogWorker, Entries, Kinds
  <2>. QED BY <1>2, <2>1, <2>2
<1>. QED BY <1>5, <1>6, <1>7

\* The channel's worker takes its next alert, which arrives or fails.
LEMMA DeliverInv ==
  ASSUME AlertsAssumption, AlertsInv, NEW t \in Triggers, NEW ok \in BOOLEAN, A!Deliver(t, ok) PROVE AlertsInv'
<1> DEFINE f == feeds.channel[t]
           q == aQueue[t]
<1>1. PICK x : x = q[1]
  OBVIOUS
<1>2. /\ q \in Seq(Alerts) /\ q # <<>> /\ f \in FeedsWith(Subscriptions \cup {"none"})
      /\ aQueue \in [Triggers -> Seq(Alerts)]
      /\ feeds \in [log : [Triggers -> FeedsWith({"none", "log"})], channel : [Triggers -> FeedsWith(Subscriptions \cup {"none"})]]
  BY AlertsParts DEF A!Deliver, AlertsInv, AlertsTyped
<1>3. /\ Tail(q) \in Seq(Alerts) /\ Head(q) = x /\ x \in Alerts /\ 1 \in DOMAIN q
      /\ DOMAIN Tail(q) \in SUBSET (Nat \ {0})
      /\ \A j \in DOMAIN Tail(q) : j + 1 \in DOMAIN q /\ Tail(q)[j] = q[j + 1]
  BY <1>1, <1>2, TailParts
<1>4. x.kind \in Kinds /\ x.id \in Nat /\ x.cfg \in Subscriptions /\ x.cfg \in Subscriptions \cup {"none"}
  BY <1>3 DEF Alerts
<1> DEFINE arrived == A!Arrived(f, x, x.cfg)
<1>5. /\ arrived \in FeedsWith(Subscriptions \cup {"none"})
      /\ x.kind = "start" => arrived.id = x.id /\ arrived.phase = "start" /\ arrived.dumped = f.dumped /\ arrived.cfg = x.cfg
      /\ x.kind = "end" => arrived.id = x.id /\ arrived.phase = "end" /\ arrived.dumped = f.dumped /\ arrived.cfg = x.cfg
      /\ x.kind = "dump" =>
           /\ x.id >= f.id => arrived.id = x.id /\ arrived.phase = "end" /\ arrived.cfg = x.cfg
           /\ x.id < f.id => arrived.id = f.id /\ arrived.phase = f.phase /\ arrived.cfg = f.cfg
           /\ \A d \in arrived.dumped : d \in f.dumped \/ d.id = x.id
  BY <1>2, <1>4, ArrivedEffect
<1>6. PICK n : n = IF ok THEN arrived ELSE f
  OBVIOUS
<1>7. /\ aQueue' = [aQueue EXCEPT ![t] = Tail(q)]
      /\ feeds' = [feeds EXCEPT !.channel = [feeds.channel EXCEPT ![t] = n]]
      /\ UNCHANGED <<aDet, o, cfg, dumps, aLog>>
  <2>1. CASE ok
    <3>1. feeds' = [feeds EXCEPT !.channel[t] = A!Arrived(@, x, x.cfg)]
      BY <1>3, <2>1 DEF A!Deliver
    <3>. QED BY <1>6, <2>1, <3>1 DEF A!Deliver
  <2>2. CASE ~ok
    <3>1. feeds' = feeds
      BY <2>2 DEF A!Deliver
    <3>2. feeds = [feeds EXCEPT !.channel = [feeds.channel EXCEPT ![t] = f]]
      BY <1>2
    <3>. QED BY <1>6, <2>2, <3>1, <3>2 DEF A!Deliver
  <2>. QED BY <2>1, <2>2
<1>8. n \in FeedsWith(Subscriptions \cup {"none"})
  BY <1>2, <1>5, <1>6
<1>9. /\ aQueue'[t] = Tail(q) /\ \A u \in Triggers \ {t} : aQueue'[u] = aQueue[u]
      /\ feeds'.log = feeds.log /\ feeds'.channel[t] = n /\ \A u \in Triggers \ {t} : feeds'.channel[u] = feeds.channel[u]
  BY <1>2, <1>7
<1>10. AlertsTyped'
  <2>1. aQueue' \in [Triggers -> Seq(Alerts)]
    BY <1>2, <1>3, <1>7
  <2>2. feeds' \in [log : [Triggers -> FeedsWith({"none", "log"})], channel : [Triggers -> FeedsWith(Subscriptions \cup {"none"})]]
    BY <1>2, <1>7, <1>8
  <2>. QED BY <1>7, <2>1, <2>2 DEF AlertsInv, AlertsTyped
<1>11. \A u, r : Taken(u, r)' = Taken(u, r)
  BY <1>7 DEF Taken
<1>12. ASSUME NEW u \in Triggers, u # t PROVE TriggerFits(u)'
  <2>1. Of(aLog', u) \in SUBSET Nat /\ \A j \in Of(aLog', u) : j + 0 \in Of(aLog, u) /\ aLog'[j] = aLog[j + 0]
    BY <1>7, AlertsParts DEF AlertsInv
  <2>. QED BY <1>7, <1>9, <1>11, <1>12, <2>1, OtherTrigger
<1>13. TriggerFits(t)'
  <2>1. TriggerFits(t)
    BY DEF AlertsInv
  <2>2. Due(t)' = Due(t)
    BY <1>7 DEF Due, Taken
  <2>3. DetectorFits(t)'
    BY <1>7, <2>1 DEF TriggerFits, DetectorFits
  <2>4. DumpsFit(t)'
    BY <1>7, <1>11, <2>1, <2>2 DEF TriggerFits, DumpsFit
  <2>5. LogFits(t)'
    BY <1>7, <1>9, <2>1, <2>2 DEF TriggerFits, LogFits
  <2>6. ChannelFits(t)'
    <3>1. Ordered(f, q, DOMAIN q, Top(aDet[t]), o[t].incident, Due(t))
      BY <2>1 DEF TriggerFits, ChannelFits
    <3>2. /\ Top(aDet[t]) \in Nat /\ o[t].incident \in Nat /\ Due(t) \in SUBSET Nat
          /\ Top(aDet[t]) <= Top(aDet[t]) /\ o[t].incident \in {o[t].incident, 0} /\ Due(t) \in SUBSET Due(t)
      BY AlertsNumbers, AlertsParts DEF AlertsInv
    <3>3. CASE ok
      <4>1. LET y == q[1] IN
              /\ y.kind = "start" => n.id = y.id /\ n.phase = "start" /\ n.dumped = f.dumped
              /\ y.kind = "end" => n.id = y.id /\ n.phase = "end" /\ n.dumped = f.dumped
              /\ y.kind = "dump" =>
                   /\ y.id >= f.id => n.id = y.id /\ n.phase = "end"
                   /\ y.id < f.id => n.id = f.id /\ n.phase = f.phase
                   /\ \A d \in n.dumped : d \in f.dumped \/ d.id = y.id
        <5> HIDE DEF f, q, arrived
        <5>. QED BY <1>1, <1>5, <1>6, <3>3
      <4>2. Ordered(n, Tail(q), DOMAIN Tail(q), Top(aDet[t]), o[t].incident, Due(t))
        BY ONLY ZenonT(60), <1>3, <3>1, <3>2, <4>1, FirstArrives
      <4>. QED BY <1>7, <1>9, <2>2, <4>2 DEF ChannelFits
    <3>4. CASE ~ok
      <4>1. DOMAIN Tail(q) \in SUBSET Nat /\ 1 \in Nat
        BY <1>3
      <4>2. Ordered(f, Tail(q), DOMAIN Tail(q), Top(aDet[t]), o[t].incident, Due(t))
        BY ONLY ZenonT(60), <1>3, <3>1, <3>2, <4>1, Fewer
      <4>. QED BY <1>6, <1>7, <1>9, <2>2, <3>4, <4>2 DEF ChannelFits
    <3>. QED BY <3>3, <3>4
  <2>7. SettingsFit(t)'
    <3>1. /\ feeds.log[t].id # 0 => feeds.log[t].cfg = "log"
          /\ \A j \in DOMAIN q : Agreed(f, q, q[j].id, q[j].cfg)
          /\ \A id, how : OpenedWith(t, id, how) => Agreed(f, q, id, how)
      BY <2>1 DEF TriggerFits, SettingsFit
    <3>2. (n.id = f.id /\ n.cfg = f.cfg) \/ (n.id = x.id /\ n.cfg = x.cfg)
      <4>1. f.id \in Nat
        BY <1>2 DEF FeedsWith
      <4> HIDE DEF f, q, arrived
      <4>2. \/ arrived.id = f.id /\ arrived.cfg = f.cfg
            \/ arrived.id = x.id /\ arrived.cfg = x.cfg
        <5>1. x.id >= f.id \/ x.id < f.id
          BY <1>4, <4>1
        <5>. QED BY <1>4, <1>5, <5>1 DEF Kinds
      <4>. QED BY <1>6, <4>2
    <3>3. \A id, how : Agreed(f, q, id, how) => Agreed(n, Tail(q), id, how)
      BY <1>1, <1>3, <3>2 DEF Agreed
    <3>4. \A j \in DOMAIN Tail(q) : Agreed(n, Tail(q), Tail(q)[j].id, Tail(q)[j].cfg)
      BY <1>3, <3>1, <3>3
    <3>5. \A id, how : OpenedWith(t, id, how)' => OpenedWith(t, id, how)
      BY <1>7, <1>11 DEF OpenedWith
    <3>. QED BY <1>9, <3>1, <3>3, <3>4, <3>5 DEF SettingsFit
  <2>. QED BY <2>3, <2>4, <2>5, <2>6, <2>7 DEF TriggerFits
<1>. QED BY <1>10, <1>12, <1>13 DEF AlertsInv

\* A window confirms an incident: it is newer than all that is known of.
LEMMA OpensInv ==
  ASSUME AlertsAssumption, AlertsInv, NEW t \in Triggers,
         NEW r, UpdatedFrom(aDet[t], r), r.justEntered, r.d.seq <= MaxIncidents, aDet'[t] = r.d,
         o'[t].incident = r.id, o'[t].active = cfg.now, o'[t].pending = o[t].pending, UNCHANGED feeds,
         \A id : <<t, id>> \in dumps'.captured <=> <<t, id>> \in dumps.captured,
         \A p : Taken(t, p)' <=> Taken(t, p),
         NEW x, x # A!NoAlert => x.kind = "start" /\ x.id = r.id /\ x.cfg = cfg.now,
         NEW i \in Nat, Enqueues(aQueue[t], aQueue'[t], i, x), DOMAIN aQueue'[t] \in SUBSET Nat,
         Becomes(aLog, Of(aLog, t), aLog', Of(aLog', t), 0, "start", r.id), Of(aLog', t) \in SUBSET Nat
  PROVE  TriggerFits(t)'
<1>1. TriggerFits(t) /\ o[t].incident = 0 /\ ~aDet[t].active
  BY DEF UpdatedFrom, AlertsInv, TriggerFits, DetectorFits
<1>2. /\ r.d \in Debouncers /\ DebouncerFits(r.d) /\ Top(aDet[t]) \in Nat /\ Top(r.d) \in Nat
      /\ r.d.active /\ Top(aDet[t]) < r.id /\ r.id = Top(r.d) /\ r.id = r.d.seq /\ r.id \in Nat
  BY DEF UpdatedFrom
<1>3. Due(t)' = Due(t) /\ Due(t) \in SUBSET (1..Top(aDet[t])) /\ Due(t) \subseteq 1..r.id /\ r.id \notin Due(t)
  <2>1. Due(t)' = Due(t)
    BY DEF Due
  <2>. QED BY <1>2, <2>1, AlertsNumbers
<1>4. DetectorFits(t)'
  BY <1>2 DEF DetectorFits
<1>5. DumpsFit(t)'
  <2>1. \A p, q \in o[t].pending : p.id \in 1..Top(aDet[t]) /\ (q.id = p.id => q = p)
    BY <1>1 DEF TriggerFits, DumpsFit
  <2>2. \A p \in o[t].pending : p.id \in 1..r.id /\ p.id # r.id
    BY <1>2, <2>1
  <2>. QED BY <1>1, <1>2, <1>3, <2>1, <2>2 DEF TriggerFits, DumpsFit
<1>6. LogFits(t)'
  <2>1. Ordered(feeds.log[t], aLog, Of(aLog, t), Top(aDet[t]), 0, Due(t))
    BY <1>1 DEF TriggerFits, LogFits
  <2>2. Ordered(feeds.log[t], aLog', Of(aLog', t), r.id, r.id, Due(t))
    BY <1>2, <1>3, <2>1, StartFits
  <2>. QED BY <1>2, <1>3, <2>2 DEF LogFits
<1>7. Ordered(feeds.channel[t], aQueue[t], DOMAIN aQueue[t], Top(aDet[t]), 0, Due(t))
  BY <1>1 DEF TriggerFits, ChannelFits
<1>8. ChannelFits(t)'
  <2>1. Becomes(aQueue[t], DOMAIN aQueue[t], aQueue'[t], DOMAIN aQueue'[t], i, "start", r.id)
    BY EnqueuesBecomes
  <2>2. Ordered(feeds.channel[t], aQueue'[t], DOMAIN aQueue'[t], r.id, r.id, Due(t))
    BY SMTT(60), <1>2, <1>3, <1>7, <2>1, StartFits
  <2>. QED BY <1>2, <1>3, <2>2 DEF ChannelFits
<1>9. SettingsFit(t)'
  <2>1. /\ feeds.log[t].id # 0 => feeds.log[t].cfg = "log"
        /\ \A j \in DOMAIN aQueue[t] : Agreed(feeds.channel[t], aQueue[t], aQueue[t][j].id, aQueue[t][j].cfg)
        /\ \A id, how : OpenedWith(t, id, how) => Agreed(feeds.channel[t], aQueue[t], id, how)
    BY <1>1 DEF TriggerFits, SettingsFit
  <2>2. \A n \in 0..Top(aDet[t]) : n # r.id
    BY <1>2
  <2>3. Agreed(feeds.channel[t], aQueue[t], r.id, cfg.now)
    <3>1. feeds.channel[t].id # r.id
      BY <1>7, <2>2 DEF Ordered
    <3>2. \A n \in 1..Top(aDet[t]) : n # r.id
      BY <1>2
    <3>3. \A j \in DOMAIN aQueue[t] : aQueue[t][j].id # r.id
      BY <1>7, <3>2 DEF Ordered
    <3>. QED BY <3>1, <3>3 DEF Agreed
  <2>4. x # A!NoAlert => Agreed(feeds.channel[t], aQueue[t], x.id, x.cfg)
    BY <2>3
  <2>5. /\ \A j \in DOMAIN aQueue'[t] : Agreed(feeds.channel[t], aQueue'[t], aQueue'[t][j].id, aQueue'[t][j].cfg)
        /\ \A id, how : Agreed(feeds.channel[t], aQueue[t], id, how) /\ (x # A!NoAlert /\ x.id = id => x.cfg = how)
             => Agreed(feeds.channel[t], aQueue'[t], id, how)
    BY <2>1, <2>4, AgreedQueued
  <2>6. ASSUME NEW id, NEW how, OpenedWith(t, id, how)' PROVE Agreed(feeds.channel[t], aQueue'[t], id, how)
    <3>1. CASE id = r.id /\ how = cfg.now
      BY <2>3, <2>5, <3>1
    <3>2. CASE \/ \E p \in o[t].pending : id = p.id /\ how = p.cfg
               \/ \E p \in Recoveries : Taken(t, p) /\ id = p.id /\ how = p.cfg
      <4>1. OpenedWith(t, id, how)
        BY <3>2 DEF OpenedWith
      <4>2. id # r.id
        <5>1. CASE \E p \in o[t].pending : id = p.id /\ how = p.cfg
          <6>1. \A p \in o[t].pending : p.id \in 1..Top(aDet[t])
            BY <1>1 DEF TriggerFits, DumpsFit
          <6>2. \A n \in 1..Top(aDet[t]) : n # r.id
            BY <1>2
          <6>. QED BY <5>1, <6>1, <6>2
        <5>2. CASE \E p \in Recoveries : Taken(t, p) /\ id = p.id /\ how = p.cfg
          <6>1. PICK p \in Recoveries : Taken(t, p) /\ id = p.id
            BY <5>2
          <6>2. p.id \in Due(t)
            BY <6>1 DEF Due, Recoveries
          <6>. QED BY <1>3, <6>1, <6>2
        <5>. QED BY <3>2, <5>1, <5>2
      <4>. QED BY <2>1, <2>5, <4>1, <4>2
    <3>. QED BY <2>6, <3>1, <3>2 DEF OpenedWith
  <2>. QED BY <2>1, <2>5, <2>6 DEF SettingsFit
<1>. QED BY <1>4, <1>5, <1>6, <1>8, <1>9 DEF TriggerFits

\* A window ends the confirmed incident: its recovery waits for the dump.
LEMMA EndsInv ==
  ASSUME AlertsAssumption, AlertsInv, NEW t \in Triggers,
         NEW r, UpdatedFrom(aDet[t], r), r.justRecovered, r.d.seq <= MaxIncidents, aDet'[t] = r.d,
         o'[t].incident = 0, o'[t].active = "none", UNCHANGED feeds,
         \A p \in o'[t].pending : (p \in o[t].pending /\ p.id # r.id) \/ (p.id = r.id /\ p.cfg = o[t].active),
         \A p, q \in o'[t].pending : p.id = r.id /\ q.id = r.id => p = q,
         \A id : <<t, id>> \in dumps'.captured <=> <<t, id>> \in dumps.captured \/ id = r.id,
         \A p : Taken(t, p)' <=> Taken(t, p),
         NEW x, x # A!NoAlert => x.kind = "end" /\ x.id = r.id /\ x.cfg = o[t].active,
         NEW i \in Nat, Enqueues(aQueue[t], aQueue'[t], i, x), DOMAIN aQueue'[t] \in SUBSET Nat,
         Becomes(aLog, Of(aLog, t), aLog', Of(aLog', t), 0, "end", r.id), Of(aLog', t) \in SUBSET Nat
  PROVE  TriggerFits(t)'
<1>1. TriggerFits(t) /\ aDet[t].active
  BY DEF UpdatedFrom, AlertsInv
<1>2. /\ r.d \in Debouncers /\ DebouncerFits(r.d) /\ Top(aDet[t]) \in Nat /\ ~r.justEntered
      /\ ~r.d.active /\ r.id = aDet[t].seq /\ Top(r.d) = r.id /\ Top(aDet[t]) = r.id
  BY DEF UpdatedFrom
<1>3. o[t].incident = r.id /\ r.id \in 1..r.id /\ r.id \notin Due(t) /\ Due(t) \in SUBSET (1..r.id)
  BY <1>1, <1>2, AlertsNumbers
<1>4. Due(t)' = Due(t) \cup {r.id}
  BY <1>2, <1>3 DEF Due
<1>5. DetectorFits(t)'
  BY <1>2 DEF DetectorFits
<1>6. /\ \A p, q \in Recoveries :
           Taken(t, p) => <<t, p.id>> \notin dumps.captured /\ (Taken(t, q) /\ q.id = p.id => q = p)
      /\ \A p \in Recoveries, q \in o[t].pending : Taken(t, p) => q.id # p.id
      /\ \A p, q \in o[t].pending : p.id \in 1..r.id /\ p.id # r.id /\ (q.id = p.id => q = p)
      /\ \A p \in Recoveries : Taken(t, p) => p.id # r.id
  <2>1. \A p \in Recoveries : Taken(t, p) => p.id \in Due(t)
    BY DEF Due, Recoveries
  <2>. QED BY <1>1, <1>2, <1>3, <2>1 DEF TriggerFits, DumpsFit
<1>7. DumpsFit(t)'
  <2>1. Due(t)' \subseteq 1..r.id /\ 0 \notin Due(t)'
    BY <1>3, <1>4
  <2>2. \A p \in o'[t].pending : p.id \in 1..r.id /\ p.id # 0
    BY <1>3, <1>6
  <2>3. \A p, q \in o'[t].pending : q.id = p.id => q = p
    BY <1>6
  <2>4. \A p \in Recoveries, q \in o'[t].pending : Taken(t, p) => q.id # p.id
    BY <1>6
  <2>. QED BY <1>2, <1>6, <2>1, <2>2, <2>3, <2>4 DEF DumpsFit
<1>8. LogFits(t)'
  <2>1. Ordered(feeds.log[t], aLog, Of(aLog, t), r.id, r.id, Due(t))
    BY <1>1, <1>2, <1>3 DEF TriggerFits, LogFits
  <2>2. Ordered(feeds.log[t], aLog', Of(aLog', t), r.id, 0, Due(t) \cup {r.id})
    BY <1>2, <1>3, <2>1, EndFits
  <2>. QED BY <1>2, <1>4, <2>2 DEF LogFits
<1>9. ChannelFits(t)'
  <2>1. Ordered(feeds.channel[t], aQueue[t], DOMAIN aQueue[t], r.id, r.id, Due(t))
    BY <1>1, <1>2, <1>3 DEF TriggerFits, ChannelFits
  <2>2. Becomes(aQueue[t], DOMAIN aQueue[t], aQueue'[t], DOMAIN aQueue'[t], i, "end", r.id)
    BY EnqueuesBecomes
  <2>3. Ordered(feeds.channel[t], aQueue'[t], DOMAIN aQueue'[t], r.id, 0, Due(t) \cup {r.id})
    BY SMTT(60), <1>2, <1>3, <2>1, <2>2, EndFits
  <2>. QED BY <1>2, <1>4, <2>3 DEF ChannelFits
<1>10. SettingsFit(t)'
  <2>1. /\ feeds.log[t].id # 0 => feeds.log[t].cfg = "log"
        /\ \A j \in DOMAIN aQueue[t] : Agreed(feeds.channel[t], aQueue[t], aQueue[t][j].id, aQueue[t][j].cfg)
        /\ \A id, how : OpenedWith(t, id, how) => Agreed(feeds.channel[t], aQueue[t], id, how)
    BY <1>1 DEF TriggerFits, SettingsFit
  <2>2. OpenedWith(t, r.id, o[t].active)
    BY <1>3 DEF OpenedWith
  <2>3. x # A!NoAlert => Agreed(feeds.channel[t], aQueue[t], x.id, x.cfg)
    BY <2>1, <2>2
  <2>4. /\ \A j \in DOMAIN aQueue'[t] : Agreed(feeds.channel[t], aQueue'[t], aQueue'[t][j].id, aQueue'[t][j].cfg)
        /\ \A id, how : Agreed(feeds.channel[t], aQueue[t], id, how) /\ (x # A!NoAlert /\ x.id = id => x.cfg = how)
             => Agreed(feeds.channel[t], aQueue'[t], id, how)
    BY <2>1, <2>3, AgreedQueued
  <2>5. ASSUME NEW id, NEW how, OpenedWith(t, id, how)'
        PROVE  OpenedWith(t, id, how) /\ (id = r.id => how = o[t].active)
    <3>1. CASE \E p \in o'[t].pending : id = p.id /\ how = p.cfg
      <4>1. PICK p \in o'[t].pending : id = p.id /\ how = p.cfg
        BY <3>1
      <4>2. CASE p \in o[t].pending /\ p.id # r.id
        BY <4>1, <4>2 DEF OpenedWith
      <4>3. CASE p.id = r.id /\ p.cfg = o[t].active
        BY <2>2, <4>1, <4>3
      <4>. QED BY <4>2, <4>3
    <3>2. CASE \E p \in Recoveries : Taken(t, p) /\ id = p.id /\ how = p.cfg
      BY <1>6, <3>2 DEF OpenedWith
    <3>. QED BY <2>5, <3>1, <3>2 DEF OpenedWith
  <2>6. \A id, how : OpenedWith(t, id, how)' => Agreed(feeds.channel[t], aQueue'[t], id, how)
    BY <2>1, <2>4, <2>5
  <2>. QED BY <2>1, <2>4, <2>6 DEF SettingsFit
<1>. QED BY <1>5, <1>7, <1>8, <1>9, <1>10 DEF TriggerFits

\* A window neither confirms nor ends an incident.
LEMMA NeitherInv ==
  ASSUME AlertsAssumption, AlertsInv, NEW t \in Triggers,
         NEW r, UpdatedFrom(aDet[t], r), ~r.justEntered, ~r.justRecovered, r.d.seq <= MaxIncidents, aDet'[t] = r.d,
         o'[t].incident = o[t].incident, o'[t].active = o[t].active, o'[t].pending \subseteq o[t].pending, UNCHANGED feeds,
         \A id : <<t, id>> \in dumps'.captured <=> <<t, id>> \in dumps.captured,
         \A p : Taken(t, p)' <=> Taken(t, p),
         aQueue'[t] = aQueue[t],
         \A j \in Of(aLog', t) : j + 0 \in Of(aLog, t) /\ aLog'[j] = aLog[j + 0], Of(aLog', t) \in SUBSET Nat
  PROVE  TriggerFits(t)'
<1>1. TriggerFits(t)
  BY DEF AlertsInv
<1>2. /\ r.d \in Debouncers /\ DebouncerFits(r.d) /\ Top(aDet[t]) \in Nat /\ Top(r.d) \in Nat /\ Top(aDet[t]) <= Top(r.d)
      /\ r.d.active = aDet[t].active /\ (aDet[t].active => r.d.seq = aDet[t].seq)
  BY DEF UpdatedFrom
<1>3. \A n \in 1..Top(aDet[t]) : n \in 1..Top(r.d)
  BY <1>2
<1>4. Due(t)' = Due(t) /\ o[t].incident \notin Due(t) /\ Due(t) \subseteq 1..Top(r.d)
  <2>1. Due(t)' = Due(t)
    BY DEF Due
  <2>. QED BY <1>3, <2>1, AlertsNumbers
<1>5. DetectorFits(t)'
  BY <1>1, <1>2 DEF TriggerFits, DetectorFits
<1>6. DumpsFit(t)'
  BY <1>1, <1>3, <1>4 DEF TriggerFits, DumpsFit
<1>7. o[t].incident \in {o[t].incident, 0} /\ Due(t) \in SUBSET Due(t) /\ 0 \in Nat
  OBVIOUS
<1>8. LogFits(t)'
  <2>1. Ordered(feeds.log[t], aLog, Of(aLog, t), Top(aDet[t]), o[t].incident, Due(t))
    BY <1>1 DEF TriggerFits, LogFits
  <2>2. /\ Of(aLog', t) \in SUBSET Nat /\ Top(aDet[t]) <= Top(aDet[t])
        /\ \A j \in Of(aLog', t) : j + 0 \in Of(aLog, t) /\ aLog'[j] = aLog[j + 0]
    BY <1>2
  <2>3. Ordered(feeds.log[t], aLog', Of(aLog', t), Top(aDet[t]), o[t].incident, Due(t))
    BY ONLY ZenonT(60), <1>2, <1>7, <2>1, <2>2, Fewer
  <2>4. Ordered(feeds.log[t], aLog', Of(aLog', t), Top(r.d), o[t].incident, Due(t))
    BY ONLY <1>2, <1>7, <2>2, <2>3, LessDue
  <2>. QED BY <1>4, <2>4 DEF LogFits
<1>9. ChannelFits(t)'
  <2>1. Ordered(feeds.channel[t], aQueue[t], DOMAIN aQueue[t], Top(aDet[t]), o[t].incident, Due(t))
    BY <1>1 DEF TriggerFits, ChannelFits
  <2>2. DOMAIN aQueue[t] \in SUBSET Nat
    BY AlertsParts DEF AlertsInv
  <2>3. Ordered(feeds.channel[t], aQueue[t], DOMAIN aQueue[t], Top(r.d), o[t].incident, Due(t))
    BY <1>2, <1>7, <2>1, <2>2, LessDue
  <2>. QED BY <1>4, <2>3 DEF ChannelFits
<1>10. SettingsFit(t)'
  <2>1. \A id, how : OpenedWith(t, id, how)' => OpenedWith(t, id, how)
    BY DEF OpenedWith
  <2>. QED BY <1>1, <2>1 DEF TriggerFits, SettingsFit
<1>. QED BY <1>5, <1>6, <1>8, <1>9, <1>10 DEF TriggerFits

Orchestrated == [incident : Nat, active : Subscriptions \cup {"none"}, pending : SUBSET Recoveries]

\* What the orchestrator keeps of an incident that opens, ...
LEMMA OpenedEffect ==
  ASSUME NEW s \in Orchestrated, s.active = "none", NEW id \in Nat, cfg \in [now : Subscriptions, edits : Nat]
  PROVE  LET n == A!Opened(s, id) IN
           n \in Orchestrated /\ n.incident = id /\ n.active = cfg.now /\ n.pending = s.pending
<1> DEFINE held == IF s.active = "none" THEN cfg.now ELSE s.active
<1>1. held = cfg.now /\ held \in Subscriptions \cup {"none"}
  OBVIOUS
<1>2. A!Opened(s, id) = [s EXCEPT !.active = held, !.incident = id]
  BY DEF A!Opened, A!Nil
<1> HIDE DEF held
<1>. QED BY <1>1, <1>2 DEF Orchestrated

\* ... of recoveries that have waited too long, ...
LEMMA PrunedEffect ==
  ASSUME NEW s \in Orchestrated
  PROVE  LET n == A!Pruned(s) IN
           /\ n \in Orchestrated /\ n.incident = s.incident /\ n.active = s.active
           /\ n.pending \subseteq s.pending
BY DEF A!Pruned, Orchestrated

\* ... and of an incident that ends.
LEMMA EndedEffect ==
  ASSUME NEW s \in Orchestrated, NEW id \in Nat
  PROVE  LET n == A!Pruned(A!Ended(s, id)) IN
           /\ n \in Orchestrated /\ n.incident = 0 /\ n.active = "none"
           /\ \A p \in n.pending : (p \in s.pending /\ p.id # id) \/ (p.id = id /\ p.cfg = s.active)
           /\ \A p, q \in n.pending : p.id = id /\ q.id = id => p = q
<1> DEFINE rec == [id |-> id, cfg |-> s.active, age |-> 0]
           left == {p \in s.pending : p.id # id} \cup {rec}
           e == A!Ended(s, id)
           none == "none"
           zero == 0
<1>1. rec \in Recoveries /\ rec.id = id /\ rec.cfg = s.active /\ s.pending \subseteq Recoveries
  BY DEF Recoveries, Orchestrated
<1> HIDE DEF rec
<1>2. /\ left \in SUBSET Recoveries
      /\ \A p \in left : (p \in s.pending /\ p.id # id) \/ p = rec
  BY <1>1
<1>3. e = [s EXCEPT !.active = none, !.incident = zero, !.pending = left]
  BY DEF A!Ended, A!Nil, rec
<1>4. none \in Subscriptions \cup {"none"} /\ zero \in Nat
  OBVIOUS
<1> HIDE DEF left, e, none, zero
<1>5. e \in Orchestrated /\ e.incident = zero /\ e.active = none /\ e.pending = left
  BY <1>2, <1>3, <1>4 DEF Orchestrated
<1>6. /\ A!Pruned(e) \in Orchestrated /\ A!Pruned(e).incident = 0 /\ A!Pruned(e).active = "none"
      /\ A!Pruned(e).pending \subseteq left
  BY <1>5, PrunedEffect DEF zero, none
<1>7. /\ \A p \in A!Pruned(e).pending : (p \in s.pending /\ p.id # id) \/ (p.id = id /\ p.cfg = s.active)
      /\ \A p, q \in A!Pruned(e).pending : p.id = id /\ q.id = id => p = q
  BY <1>1, <1>2, <1>6
<1>. QED BY <1>6, <1>7 DEF e

\* The entries of a trigger in a window.
LEMMA WindowEntries ==
  ASSUME NEW t, NEW p \in BOOLEAN, NEW q \in BOOLEAN, ~(p /\ q), NEW x, NEW y
  PROVE  (IF t \in Triggers THEN A!One(t, p, x) \o A!One(t, q, y) ELSE <<>>)
           = IF t \in Triggers /\ (p \/ q) THEN <<IF p THEN x ELSE y>> ELSE <<>>
<1>1. <<>> \o <<>> = <<>> /\ <<x>> \o <<>> = <<x>> /\ <<>> \o <<y>> = <<y>>
  <2>1. <<>> \in Seq({x, y}) /\ <<x>> \in Seq({x, y}) /\ <<y>> \in Seq({x, y})
    BY EmptySeq
  <2>. QED BY <2>1, ConcatEmptySeq
<1>2. CASE t \in Triggers /\ p
  <2>1. A!One(t, p, x) = <<x>> /\ A!One(t, q, y) = <<>>
    BY <1>2 DEF A!One
  <2>. QED BY <1>1, <1>2, <2>1
<1>3. CASE t \in Triggers /\ q
  <2>1. A!One(t, p, x) = <<>> /\ A!One(t, q, y) = <<y>>
    BY <1>3 DEF A!One
  <2>. QED BY <1>1, <1>3, <2>1
<1>4. CASE t \in Triggers /\ ~p /\ ~q
  <2>1. A!One(t, p, x) = <<>> /\ A!One(t, q, y) = <<>>
    BY <1>4 DEF A!One
  <2>. QED BY <1>1, <1>4, <2>1
<1>. QED BY <1>2, <1>3, <1>4

\* A metering window: every trigger has its own detector, queue and incidents.
LEMMA WindowInv ==
  ASSUME AlertsAssumption, AlertsInv, NEW condition, NEW edited \in BOOLEAN, A!Window(condition, edited)
  PROVE  AlertsInv'
<1> DEFINE W          == [t \in Triggers |-> A!Update(aDet[t], condition = t, edited)]
           alert(t)   == CASE W[t].justEntered -> A!StartAlert(o[t], W[t].id)
                           [] W[t].justRecovered -> A!EndAlert(o[t], W[t].id)
                           [] OTHER -> A!NoAlert
           raised     == [t \in Triggers |-> alert(t)]
           both(t)    == IF t \in Triggers
                         THEN A!One(t, W[t].justEntered, A!Entry("start", t, W[t].id))
                                \o A!One(t, W[t].justRecovered, A!Entry("end", t, W[t].id))
                         ELSE <<>>
           entry(t)   == IF W[t].justEntered THEN A!Entry("start", t, W[t].id) ELSE A!Entry("end", t, W[t].id)
           some(t)    == t \in Triggers /\ (W[t].justEntered \/ W[t].justRecovered)
           entries    == (IF some("silence") THEN <<entry("silence")>> ELSE <<>>)
                           \o (IF some("channel_imbalance") THEN <<entry("channel_imbalance")>> ELSE <<>>)
<1>1. /\ \A t \in Triggers : W[t].d.seq <= MaxIncidents
      /\ aDet' = [t \in Triggers |-> W[t].d]
      /\ o' = [t \in Triggers |-> CASE W[t].justEntered -> A!Opened(o[t], W[t].id)
                                    [] W[t].justRecovered -> A!Pruned(A!Ended(o[t], W[t].id))
                                    [] OTHER -> IF \E u \in Triggers : W[u].justRecovered THEN A!Pruned(o[t]) ELSE o[t]]
      /\ A!Alerted(raised)
      /\ A!Logged(both("silence") \o both("channel_imbalance"))
      /\ dumps' = [dumps EXCEPT !.captured = @ \cup {<<t, W[t].id>> : t \in {u \in Triggers : W[u].justRecovered}}]
      /\ UNCHANGED <<cfg, feeds>>
  BY DEF A!Window
<1>2. \A t \in Triggers : UpdatedFrom(aDet[t], W[t])
  <2>1. ASSUME NEW t \in Triggers PROVE UpdatedFrom(aDet[t], W[t])
    <3>1. aDet[t] \in Debouncers /\ DebouncerFits(aDet[t]) /\ (condition = t) \in BOOLEAN
      BY AlertsParts DEF AlertsInv, TriggerFits, DetectorFits
    <3>. QED BY <3>1, UpdateEffect
  <2>. QED BY <2>1
<1> HIDE DEF W
<1>3. \A t \in Triggers : /\ W[t].d \in Debouncers /\ W[t].justEntered \in BOOLEAN /\ W[t].justRecovered \in BOOLEAN
                          /\ ~(W[t].justEntered /\ W[t].justRecovered)
                          /\ W[t].justEntered \/ W[t].justRecovered => W[t].id \in Nat
                          /\ W[t].justEntered => ~aDet[t].active
                          /\ W[t].justRecovered => W[t].id = o[t].incident
  <2>1. ASSUME NEW t \in Triggers, W[t].justRecovered PROVE W[t].id = o[t].incident
    BY <1>2, <2>1 DEF UpdatedFrom, AlertsInv, TriggerFits, DetectorFits
  <2>2. \A t \in Triggers : aDet[t].seq \in Nat
    BY AlertsParts, DebouncerParts DEF AlertsInv
  <2>. QED BY <1>2, <2>1, <2>2 DEF UpdatedFrom
<1>4. \A t \in Triggers : o[t] \in Orchestrated /\ (W[t].justEntered => o[t].active = "none")
  <2>1. \A t \in Triggers : o[t] \in Orchestrated
    BY DEF AlertsInv, AlertsTyped, Orchestrated
  <2>. QED BY <1>3, <2>1 DEF AlertsInv, TriggerFits, DetectorFits
<1>5. cfg \in [now : Subscriptions, edits : Nat] /\ cfg.now \in Subscriptions
  BY DEF AlertsInv, AlertsTyped
\* the orchestrator
<1>6. ASSUME NEW t \in Triggers
      PROVE  /\ o'[t] \in Orchestrated
             /\ W[t].justEntered => o'[t].incident = W[t].id /\ o'[t].active = cfg.now /\ o'[t].pending = o[t].pending
             /\ W[t].justRecovered =>
                  /\ o'[t].incident = 0 /\ o'[t].active = "none"
                  /\ \A p \in o'[t].pending :
                       (p \in o[t].pending /\ p.id # W[t].id) \/ (p.id = W[t].id /\ p.cfg = o[t].active)
                  /\ \A p, q \in o'[t].pending : p.id = W[t].id /\ q.id = W[t].id => p = q
             /\ ~W[t].justEntered /\ ~W[t].justRecovered =>
                  o'[t].incident = o[t].incident /\ o'[t].active = o[t].active /\ o'[t].pending \subseteq o[t].pending
  <2>1. CASE W[t].justEntered
    <3>1. o'[t] = A!Opened(o[t], W[t].id) /\ ~W[t].justRecovered
      BY <1>1, <1>3, <2>1
    <3>. QED BY <1>3, <1>4, <1>5, <2>1, <3>1, OpenedEffect
  <2>2. CASE W[t].justRecovered
    <3>1. o'[t] = A!Pruned(A!Ended(o[t], W[t].id)) /\ ~W[t].justEntered
      BY <1>1, <1>3, <2>2
    <3>. QED BY <1>3, <1>4, <2>2, <3>1, EndedEffect
  <2>3. CASE ~W[t].justEntered /\ ~W[t].justRecovered
    <3>1. o'[t] \in {o[t], A!Pruned(o[t])}
      BY <1>1, <2>3
    <3>. QED BY ZenonT(60), <1>4, <2>3, <3>1, PrunedEffect
  <2>. QED BY <2>1, <2>2, <2>3
\* the queues
<1>7. ASSUME NEW t \in Triggers
      PROVE  /\ raised[t] \in Alerts \cup {A!NoAlert}
             /\ W[t].justEntered /\ raised[t] # A!NoAlert =>
                  raised[t].kind = "start" /\ raised[t].id = W[t].id /\ raised[t].cfg = cfg.now
             /\ W[t].justRecovered /\ raised[t] # A!NoAlert =>
                  raised[t].kind = "end" /\ raised[t].id = W[t].id /\ raised[t].cfg = o[t].active
             /\ ~W[t].justEntered /\ ~W[t].justRecovered => raised[t] = A!NoAlert
  <2>1. CASE W[t].justEntered
    <3>1. raised[t] = A!StartAlert(o[t], W[t].id) /\ ~W[t].justRecovered
      BY <1>3, <2>1
    <3>2. CASE A!Subscribed(A!Opened(o[t], W[t].id).active, cfg.now, "start")
      <4>1. raised[t] = A!Alert("start", W[t].id, cfg.now) /\ A!Configured(cfg.now)
        BY <3>1, <3>2 DEF A!StartAlert, A!Subscribed
      <4>2. raised[t] \in Alerts
        BY <1>3, <1>5, <2>1, <4>1, AlertTyped DEF Kinds
      <4>. QED BY <2>1, <3>1, <4>1, <4>2 DEF A!Alert
    <3>3. CASE ~A!Subscribed(A!Opened(o[t], W[t].id).active, cfg.now, "start")
      BY <2>1, <3>1, <3>3 DEF A!StartAlert
    <3>. QED BY <3>2, <3>3
  <2>2. CASE W[t].justRecovered
    <3>1. raised[t] = A!EndAlert(o[t], W[t].id) /\ ~W[t].justEntered
      BY <1>3, <2>2
    <3>2. CASE A!Subscribed(o[t].active, o[t].active, "end")
      <4>1. raised[t] = A!Alert("end", W[t].id, o[t].active) /\ A!Configured(o[t].active)
        BY <3>1, <3>2 DEF A!EndAlert, A!Subscribed
      <4>2. raised[t] \in Alerts
        BY <1>3, <1>4, <2>2, <4>1, AlertTyped DEF Kinds, Orchestrated
      <4>. QED BY <2>2, <3>1, <4>1, <4>2 DEF A!Alert
    <3>3. CASE ~A!Subscribed(o[t].active, o[t].active, "end")
      BY <2>2, <3>1, <3>3 DEF A!EndAlert
    <3>. QED BY <3>2, <3>3
  <2>3. CASE ~W[t].justEntered /\ ~W[t].justRecovered
    BY <2>3
  <2>. QED BY SMTT(60), <2>1, <2>2, <2>3
<1> HIDE DEF raised, alert
<1>8. /\ aQueue' \in [Triggers -> Seq(Alerts)]
      /\ \A t \in Triggers : \E i \in {0, 1} : Enqueues(aQueue[t], aQueue'[t], i, raised[t])
      /\ \A t \in Triggers : raised[t] = A!NoAlert => aQueue'[t] = aQueue[t]
  BY <1>1, <1>7, AlertedEnqueues DEF AlertsInv, AlertsTyped
<1>9. \A t \in Triggers : DOMAIN aQueue'[t] \in SUBSET Nat
  <2>1. \A t \in Triggers : aQueue'[t] \in Seq(Alerts)
    BY <1>8
  <2>. QED BY <2>1, LenProperties
\* the log
<1>10. both("silence") \o both("channel_imbalance") = entries
  <2>1. ASSUME NEW t PROVE both(t) = IF some(t) THEN <<entry(t)>> ELSE <<>>
    <3>1. CASE t \in Triggers
      <4>1. /\ W[t].justEntered \in BOOLEAN /\ W[t].justRecovered \in BOOLEAN
            /\ ~(W[t].justEntered /\ W[t].justRecovered)
        BY <1>3, <3>1
      <4>. QED BY <4>1, WindowEntries
    <3>2. CASE t \notin Triggers
      BY <3>2
    <3>. QED BY <3>1, <3>2
  <2> HIDE DEF both, some, entry
  <2>. QED BY <2>1
<1>11. \A t \in Triggers : some(t) => /\ entry(t) \in Entries /\ entry(t).trigger = t /\ entry(t).id = W[t].id
                                      /\ W[t].justEntered => entry(t).kind = "start"
                                      /\ W[t].justRecovered => entry(t).kind = "end"
  BY <1>3 DEF A!Entry, Entries, Kinds
<1>12. /\ entries \in Seq(Entries)
       /\ \A kind, id : (some("silence") => entry("silence").kind = kind /\ entry("silence").id = id)
            => Few(entries, "silence", kind, id)
       /\ \A kind, id : (some("channel_imbalance") => entry("channel_imbalance").kind = kind /\ entry("channel_imbalance").id = id)
            => Few(entries, "channel_imbalance", kind, id)
  <2>1. /\ some("silence") \in BOOLEAN /\ some("channel_imbalance") \in BOOLEAN
        /\ some("silence") => entry("silence") \in Entries /\ entry("silence").trigger = "silence"
        /\ some("channel_imbalance") =>
             entry("channel_imbalance") \in Entries /\ entry("channel_imbalance").trigger = "channel_imbalance"
    BY <1>11
  <2> HIDE DEF some, entry
  <2>. QED BY <2>1, FewEntries
<1>13. ASSUME NEW t \in Triggers
       PROVE  /\ W[t].justEntered => Few(entries, t, "start", W[t].id)
              /\ W[t].justRecovered => Few(entries, t, "end", W[t].id)
              /\ ~W[t].justEntered /\ ~W[t].justRecovered => \A id : Few(entries, t, "start", id)
  <2>1. t \in {"silence", "channel_imbalance"}
    BY DEF AlertsAssumption
  <2>2. \A kind, id : (some(t) => entry(t).kind = kind /\ entry(t).id = id) => Few(entries, t, kind, id)
    <3> HIDE DEF some, entry, entries
    <3>. QED BY <1>12, <2>1
  <2> HIDE DEF entries, entry
  <2>. QED BY <1>3, <1>11, <2>2
<1> HIDE DEF both, entry, some, entries
<1>14. /\ aLog' \in Seq(Entries \cup Marks)
       /\ \A t \in Triggers, kind \in Kinds, id \in Nat :
            Few(entries, t, kind, id) => Becomes(aLog, Of(aLog, t), aLog', Of(aLog', t), 0, kind, id)
  BY <1>1, <1>10, <1>12, LoggedBecomes DEF AlertsInv, AlertsTyped
<1>15. \A t \in Triggers : Of(aLog', t) \in SUBSET Nat
  BY <1>14, LenProperties DEF Of
\* the dumps
<1>16. /\ \A t \in Triggers : \A id : <<t, id>> \in dumps'.captured <=>
              <<t, id>> \in dumps.captured \/ (W[t].justRecovered /\ id = W[t].id)
       /\ \A t, p : Taken(t, p)' <=> Taken(t, p)
       /\ dumps' \in [captured : SUBSET (Triggers \X Nat), taken : SUBSET (Triggers \X Recoveries)]
  <2> DEFINE new == {<<t, W[t].id>> : t \in {u \in Triggers : W[u].justRecovered}}
  <2>1. new \in SUBSET (Triggers \X Nat) /\ \A t \in Triggers : \A id : <<t, id>> \in new <=> W[t].justRecovered /\ id = W[t].id
    BY <1>3
  <2>2. dumps' = [dumps EXCEPT !.captured = @ \cup new]
    BY <1>1
  <2> HIDE DEF new
  <2>3. dumps'.captured = dumps.captured \cup new /\ dumps'.taken = dumps.taken
    BY <2>2 DEF AlertsInv, AlertsTyped
  <2>4. dumps' \in [captured : SUBSET (Triggers \X Nat), taken : SUBSET (Triggers \X Recoveries)]
    BY <2>1, <2>2 DEF AlertsInv, AlertsTyped
  <2>. QED BY <2>1, <2>3, <2>4 DEF Taken
<1>17. AlertsTyped'
  <2>1. aDet' \in [Triggers -> Debouncers]
    BY <1>1, <1>3
  <2>2. o' \in [Triggers -> Orchestrated]
    BY <1>1, <1>6
  <2>. QED BY <1>1, <1>8, <1>14, <1>16, <2>1, <2>2 DEF AlertsInv, AlertsTyped, Orchestrated
<1>18. ASSUME NEW t \in Triggers PROVE TriggerFits(t)'
  <2>1. PICK r : r = W[t]
    OBVIOUS
  <2>2. UpdatedFrom(aDet[t], r) /\ r.d.seq <= MaxIncidents /\ aDet'[t] = r.d
    BY <1>1, <1>2, <2>1
  <2>3. PICK x : x = raised[t]
    OBVIOUS
  <2>4. PICK i \in {0, 1} : Enqueues(aQueue[t], aQueue'[t], i, x)
    BY <1>8, <2>3
  <2>5. DOMAIN aQueue'[t] \in SUBSET Nat /\ Of(aLog', t) \in SUBSET Nat /\ UNCHANGED feeds /\ i \in Nat
        /\ \A p : Taken(t, p)' <=> Taken(t, p)
    BY <1>1, <1>9, <1>15, <1>16
  <2>6. CASE r.justEntered
    <3>1. Becomes(aLog, Of(aLog, t), aLog', Of(aLog', t), 0, "start", r.id)
      BY <1>3, <1>13, <1>14, <2>1, <2>6 DEF Kinds
    <3>2. o'[t].incident = r.id /\ o'[t].active = cfg.now /\ o'[t].pending = o[t].pending
      BY <1>6, <2>1, <2>6
    <3>3. x # A!NoAlert => x.kind = "start" /\ x.id = r.id /\ x.cfg = cfg.now
      BY <1>7, <2>1, <2>3, <2>6
    <3>4. \A id : <<t, id>> \in dumps'.captured <=> <<t, id>> \in dumps.captured
      BY <1>3, <1>16, <2>1, <2>6
    <3>. QED BY SMTT(60), <2>2, <2>4, <2>5, <2>6, <3>1, <3>2, <3>3, <3>4, OpensInv
  <2>7. CASE r.justRecovered
    <3>1. Becomes(aLog, Of(aLog, t), aLog', Of(aLog', t), 0, "end", r.id)
      BY <1>3, <1>13, <1>14, <2>1, <2>7 DEF Kinds
    <3>2. /\ o'[t].incident = 0 /\ o'[t].active = "none"
          /\ \A p \in o'[t].pending : (p \in o[t].pending /\ p.id # r.id) \/ (p.id = r.id /\ p.cfg = o[t].active)
          /\ \A p, q \in o'[t].pending : p.id = r.id /\ q.id = r.id => p = q
      BY <1>6, <2>1, <2>7
    <3>3. x # A!NoAlert => x.kind = "end" /\ x.id = r.id /\ x.cfg = o[t].active
      BY <1>7, <2>1, <2>3, <2>7
    <3>4. \A id : <<t, id>> \in dumps'.captured <=> <<t, id>> \in dumps.captured \/ id = r.id
      BY <1>16, <2>1, <2>7
    <3>. QED BY <2>2, <2>4, <2>5, <2>7, <3>1, <3>2, <3>3, <3>4, EndsInv
  <2>8. CASE ~r.justEntered /\ ~r.justRecovered
    <3>1. \A id \in {0, 1} : Becomes(aLog, Of(aLog, t), aLog', Of(aLog', t), 0, "start", id)
      BY <1>13, <1>14, <2>1, <2>8 DEF Kinds
    <3>2. \A j \in Of(aLog', t) : j + 0 \in Of(aLog, t) /\ aLog'[j] = aLog[j + 0]
      BY <3>1 DEF Becomes
    <3>3. o'[t].incident = o[t].incident /\ o'[t].active = o[t].active /\ o'[t].pending \subseteq o[t].pending
      BY <1>6, <2>1, <2>8
    <3>4. aQueue'[t] = aQueue[t]
      BY <1>7, <1>8, <2>1, <2>8
    <3>5. \A id : <<t, id>> \in dumps'.captured <=> <<t, id>> \in dumps.captured
      BY <1>16, <2>1, <2>8
    <3>. QED BY <2>2, <2>5, <2>8, <3>2, <3>3, <3>4, <3>5, NeitherInv
  <2>. QED BY <2>6, <2>7, <2>8
<1>. QED BY SMTT(60), <1>17, <1>18 DEF AlertsInv

\* Nothing has happened.
LEMMA AlertsInit == ASSUME AlertsAssumption, A!Init PROVE AlertsInv
<1>1. A!NewDebouncer \in Debouncers /\ A!NewDebouncer.start = -1 /\ A!NewDebouncer.active = FALSE /\ A!NewDebouncer.seq = 0
  BY DEF A!NewDebouncer, A!Zero, Debouncers
<1>2. /\ aDet = [t \in Triggers |-> A!NewDebouncer]
      /\ o = [t \in Triggers |-> [incident |-> 0, active |-> "none", pending |-> {}]]
      /\ cfg \in [now : Subscriptions, edits : {0}]
      /\ aQueue = [t \in Triggers |-> <<>>] /\ aLog = <<>> /\ dumps = [captured |-> {}, taken |-> {}]
      /\ feeds = [log |-> [t \in Triggers |-> [id |-> 0, phase |-> "none", cfg |-> "none", dumped |-> {}]],
                  channel |-> [t \in Triggers |-> [id |-> 0, phase |-> "none", cfg |-> "none", dumped |-> {}]]]
  BY DEF A!Init, A!Forgotten, A!Nil, A!NoFeeds, A!NoIncident
<1>3. AlertsTyped
  <2>1. cfg \in [now : Subscriptions, edits : Nat]
    BY <1>2
  <2>2. feeds \in [log : [Triggers -> FeedsWith({"none", "log"})], channel : [Triggers -> FeedsWith(Subscriptions \cup {"none"})]]
    BY <1>2 DEF FeedsWith
  <2>3. <<>> \in Seq(Alerts) /\ <<>> \in Seq(Entries \cup Marks)
    BY EmptySeq
  <2>. QED BY <1>1, <1>2, <2>1, <2>2, <2>3 DEF AlertsTyped
<1>4. ASSUME NEW t \in Triggers PROVE TriggerFits(t)
  <2>1. /\ aDet[t] = A!NewDebouncer /\ o[t].incident = 0 /\ o[t].active = "none" /\ o[t].pending = {}
        /\ DOMAIN aQueue[t] = {} /\ Of(aLog, t) = {}
        /\ feeds.log[t].id = 0 /\ feeds.log[t].phase = "none" /\ feeds.log[t].dumped = {}
        /\ feeds.channel[t].id = 0 /\ feeds.channel[t].phase = "none" /\ feeds.channel[t].dumped = {}
    BY <1>2 DEF Of
  <2>2. Top(A!NewDebouncer) = 0 /\ DebouncerFits(A!NewDebouncer)
    BY <1>1 DEF Top, DebouncerFits
  <2>3. Due(t) = {} /\ \A p : ~Taken(t, p)
    BY <1>2 DEF Due, Taken
  <2>4. DetectorFits(t)
    BY <1>1, <2>1, <2>2 DEF DetectorFits, AlertsAssumption
  <2>5. DumpsFit(t)
    BY <2>1, <2>3 DEF DumpsFit
  <2>6. LogFits(t) /\ ChannelFits(t)
    BY <2>1, <2>2, <2>3 DEF LogFits, ChannelFits, Ordered
  <2>7. SettingsFit(t)
    BY <2>1, <2>3 DEF SettingsFit, OpenedWith
  <2>. QED BY <2>4, <2>5, <2>6, <2>7 DEF TriggerFits
<1>. QED BY <1>3, <1>4 DEF AlertsInv

\* Every step preserves the invariant.
LEMMA AlertsNext == ASSUME AlertsAssumption, AlertsInv, [A!Next]_alerts PROVE AlertsInv'
<1>0. cfg \in [now : Subscriptions, edits : Nat]
  BY DEF AlertsInv, AlertsTyped
<1>1. ASSUME NEW condition, NEW edited \in BOOLEAN, A!Window(condition, edited) PROVE AlertsInv'
  BY <1>1, WindowInv
<1>2. CASE A!Elapse
  BY <1>2, ElapseInv
<1>3. ASSUME NEW k \in dumps.captured, A!DumpReady(k) PROVE AlertsInv'
  BY <1>3, DumpReadyInv
<1>4. ASSUME NEW k \in dumps.taken, A!DumpSent(k) PROVE AlertsInv'
  BY <1>4, DumpSentInv
<1>5. ASSUME NEW how \in Subscriptions, A!Edit(how) PROVE AlertsInv'
  <2>1. cfg' = [now |-> how, edits |-> cfg.edits + 1] /\ UNCHANGED <<aDet, o, aQueue, aLog, dumps, feeds>>
    BY <1>5 DEF A!Edit
  <2>2. cfg' \in [now : Subscriptions, edits : Nat]
    BY <1>0, <2>1
  <2>. QED BY <2>1, <2>2, QuietSteps
<1>6. CASE A!ResetDetection \/ A!Start
  BY <1>6, ResetInv DEF A!ResetDetection, A!Start
<1>7. CASE A!DrainBegin \/ A!CloseBegin \/ A!CloseQueues \/ UNCHANGED alerts
  <2>1. UNCHANGED <<aDet, o, aQueue, aLog, dumps, feeds, cfg>>
    BY <1>7 DEF A!DrainBegin, A!CloseBegin, A!CloseQueues, alerts
  <2>. QED BY <1>0, <2>1, QuietSteps
<1>8. CASE A!DrainSend \/ A!CloseSend
  <2>1. PICK m \in Marks : aLog' = Append(aLog, m)
    BY <1>8 DEF A!DrainSend, A!CloseSend, Marks
  <2>2. UNCHANGED <<aDet, o, cfg, aQueue, dumps, feeds>>
    BY <1>8 DEF A!DrainSend, A!CloseSend
  <2>. QED BY <2>1, <2>2, MarkInv
<1>9. ASSUME NEW ok \in BOOLEAN, A!LogWorker(ok) PROVE AlertsInv'
  BY <1>9, LogWorkerInv
<1>10. ASSUME NEW t \in Triggers, NEW ok \in BOOLEAN, A!Deliver(t, ok) PROVE AlertsInv'
  BY <1>10, DeliverInv
<1>. QED BY <1>1, <1>2, <1>3, <1>4, <1>5, <1>6, <1>7, <1>8, <1>9, <1>10 DEF A!Next

-------------------------------------------------------------------------------
(* Alerts: what arrives is an incident feed                                *)

\* An arrival in order, with the settings of its incident, is a step of the feed.
LEMMA LogArrives ==
  ASSUME AlertsAssumption, AlertsInv, NEW ok \in BOOLEAN, A!LogWorker(ok) PROVE [A!LogFeed!Next]_(feeds.log)
<1>1. aLog # <<>> /\ aLog \in Seq(Entries \cup Marks)
  BY DEF A!LogWorker, AlertsInv, AlertsTyped
<1>2. PICK x : x = Head(aLog)
  OBVIOUS
<1>3. x \in Entries \cup Marks /\ x = aLog[1] /\ 1 \in DOMAIN aLog
  BY <1>1, <1>2, TailParts
<1>4. CASE UNCHANGED feeds
  BY <1>4
<1>5. CASE x \in Entries /\ feeds' = [feeds EXCEPT !.log[x.trigger] = A!Arrived(@, x, "log")]
  <2>1. PICK t \in Triggers : t = x.trigger /\ x.kind \in Kinds /\ x.id \in Nat
    BY <1>5 DEF Entries
  <2>2. /\ feeds.log[t] \in FeedsWith({"none", "log"}) /\ feeds.log[t].id \in Nat
        /\ feeds.log[t].id # 0 => feeds.log[t].cfg = "log"
    BY AlertsParts DEF AlertsInv, TriggerFits, SettingsFit, FeedsWith
  <2>3. x.id \in 1..MaxIncidents /\ Arrives(feeds.log[t], x.kind, x.id)
    <3>1. 1 \in Of(aLog, t)
      BY <1>3, <2>1 DEF Of
    <3>2. x.id \in 1..Top(aDet[t]) /\ Arrives(feeds.log[t], x.kind, x.id)
      BY <1>3, <3>1 DEF AlertsInv, TriggerFits, LogFits, Ordered
    <3>3. Top(aDet[t]) \in Nat /\ Top(aDet[t]) <= aDet[t].seq /\ aDet[t].seq <= MaxIncidents /\ aDet[t].seq \in Nat
      BY AlertsNumbers, AlertsParts, DebouncerParts DEF AlertsInv
    <3>. QED BY <3>2, <3>3 DEF AlertsAssumption
  <2>4. feeds'.log = [feeds.log EXCEPT ![t] = A!Arrived(feeds.log[t], x, "log")]
    BY <1>5, <2>1 DEF AlertsInv, AlertsTyped
  <2>5. CASE x.kind = "start"
    <3>1. A!LogFeed!Start(t, x.id, "log")
      BY <2>2, <2>3, <2>4, <2>5 DEF A!LogFeed!Start, A!Arrived, Arrives
    <3>. QED BY <2>3, <3>1 DEF A!LogFeed!Next
  <2>6. CASE x.kind = "end"
    <3>1. A!LogFeed!End(t, x.id, "log")
      BY <2>2, <2>3, <2>4, <2>6 DEF A!LogFeed!End, A!Arrived, Arrives
    <3>. QED BY <2>3, <3>1 DEF A!LogFeed!Next
  <2>7. CASE x.kind = "dump"
    <3>1. A!LogFeed!Dump(t, x.id, "log")
      BY <2>2, <2>3, <2>4, <2>7 DEF A!LogFeed!Dump, A!Arrived, Arrives
    <3>. QED BY <2>3, <3>1 DEF A!LogFeed!Next
  <2>. QED BY <2>1, <2>5, <2>6, <2>7 DEF Kinds
<1>6. \/ UNCHANGED feeds
      \/ x \in Entries /\ feeds' = [feeds EXCEPT !.log[x.trigger] = A!Arrived(@, x, "log")]
  <2>1. CASE x \in Marks
    BY <1>2, <2>1 DEF A!LogWorker, Marks
  <2>2. CASE x \in Entries
    BY <1>2, <2>2 DEF A!LogWorker, Entries, Kinds
  <2>. QED BY <1>3, <2>1, <2>2
<1>. QED BY <1>4, <1>5, <1>6

\* The same for the channel.
LEMMA ChannelArrives ==
  ASSUME AlertsAssumption, AlertsInv, NEW t \in Triggers, NEW ok \in BOOLEAN, A!Deliver(t, ok)
  PROVE  [A!ChannelFeed!Next]_(feeds.channel)
<1> DEFINE f == feeds.channel[t]
<1>1. aQueue[t] # <<>> /\ aQueue[t] \in Seq(Alerts)
  BY DEF A!Deliver, AlertsInv, AlertsTyped
<1>2. PICK x : x = Head(aQueue[t])
  OBVIOUS
<1>3. x \in Alerts /\ x = aQueue[t][1] /\ 1 \in DOMAIN aQueue[t]
  BY <1>1, <1>2, TailParts
<1>4. CASE UNCHANGED feeds
  BY <1>4
<1>5. CASE feeds' = [feeds EXCEPT !.channel[t] = A!Arrived(@, x, x.cfg)]
  <2>1. x.kind \in Kinds /\ x.id \in Nat /\ x.cfg \in Subscriptions
    BY <1>3 DEF Alerts
  <2>2. f.id \in Nat /\ (f.id = x.id => f.cfg = x.cfg)
    BY <1>3, AlertsParts DEF AlertsInv, TriggerFits, SettingsFit, FeedsWith, Agreed
  <2>3. x.id \in 1..MaxIncidents /\ Arrives(f, x.kind, x.id)
    <3>1. x.id \in 1..Top(aDet[t]) /\ Arrives(f, x.kind, x.id)
      BY <1>3 DEF AlertsInv, TriggerFits, ChannelFits, Ordered
    <3>2. Top(aDet[t]) \in Nat /\ Top(aDet[t]) <= aDet[t].seq /\ aDet[t].seq <= MaxIncidents /\ aDet[t].seq \in Nat
      BY AlertsNumbers, AlertsParts, DebouncerParts DEF AlertsInv
    <3>. QED BY <3>1, <3>2 DEF AlertsAssumption
  <2>4. feeds'.channel = [feeds.channel EXCEPT ![t] = A!Arrived(f, x, x.cfg)]
    BY <1>5 DEF AlertsInv, AlertsTyped
  <2>5. CASE x.kind = "start"
    <3>1. A!ChannelFeed!Start(t, x.id, x.cfg)
      BY <2>2, <2>3, <2>4, <2>5 DEF A!ChannelFeed!Start, A!Arrived, Arrives
    <3>. QED BY <2>1, <2>3, <3>1 DEF A!ChannelFeed!Next
  <2>6. CASE x.kind = "end"
    <3>1. A!ChannelFeed!End(t, x.id, x.cfg)
      BY <2>2, <2>3, <2>4, <2>6 DEF A!ChannelFeed!End, A!Arrived, Arrives
    <3>. QED BY <2>1, <2>3, <3>1 DEF A!ChannelFeed!Next
  <2>7. CASE x.kind = "dump"
    <3>1. A!ChannelFeed!Dump(t, x.id, x.cfg)
      BY <2>2, <2>3, <2>4, <2>7 DEF A!ChannelFeed!Dump, A!Arrived, Arrives
    <3>. QED BY <2>1, <2>3, <3>1 DEF A!ChannelFeed!Next
  <2>. QED BY <2>1, <2>5, <2>6, <2>7 DEF Kinds
<1>6. UNCHANGED feeds \/ feeds' = [feeds EXCEPT !.channel[t] = A!Arrived(@, x, x.cfg)]
  BY <1>2 DEF A!Deliver
<1>. QED BY <1>4, <1>5, <1>6

\* Every step is a step of the two feeds, or none of theirs.
LEMMA FeedStep ==
  ASSUME AlertsAssumption, AlertsInv, [A!Next]_alerts
  PROVE  [A!LogFeed!Next]_(feeds.log) /\ [A!ChannelFeed!Next]_(feeds.channel)
<1>1. CASE UNCHANGED feeds
  BY <1>1
<1>2. ASSUME NEW ok \in BOOLEAN, A!LogWorker(ok) PROVE [A!LogFeed!Next]_(feeds.log) /\ UNCHANGED feeds.channel
  <2>1. UNCHANGED feeds \/ \E t, n : feeds' = [feeds EXCEPT !.log[t] = n]
    BY <1>2 DEF A!LogWorker
  <2>2. UNCHANGED feeds.channel
    BY <2>1 DEF AlertsInv, AlertsTyped
  <2>. QED BY <1>2, <2>2, LogArrives
<1>3. ASSUME NEW t \in Triggers, NEW ok \in BOOLEAN, A!Deliver(t, ok)
      PROVE  [A!ChannelFeed!Next]_(feeds.channel) /\ UNCHANGED feeds.log
  <2>1. UNCHANGED feeds \/ \E n : feeds' = [feeds EXCEPT !.channel[t] = n]
    BY <1>3 DEF A!Deliver
  <2>2. UNCHANGED feeds.log
    BY SMTT(60), <2>1 DEF AlertsInv, AlertsTyped
  <2>. QED BY <1>3, <2>2, ChannelArrives
<1>4. \/ UNCHANGED feeds
      \/ \E ok \in BOOLEAN : A!LogWorker(ok)
      \/ \E t \in Triggers, ok \in BOOLEAN : A!Deliver(t, ok)
  BY ZenonT(60) DEF A!Next, A!Window, A!Elapse, A!DumpReady, A!DumpSent, A!Edit, A!ResetDetection, A!DrainBegin, A!DrainSend,
         A!Start, A!CloseBegin, A!CloseQueues, A!CloseSend, alerts
<1>. QED BY <1>1, <1>2, <1>3, <1>4

\* What reaches the event log and a channel is an incident feed, whatever windows, resets,
\* drains, dumps, edits of the settings, full queues, failed deliveries and a Close come in
\* between, and for any depth of the queues.
THEOREM FeedsAreIncidents == ServicesSpec => FeedsInOrder
<1> DEFINE Sound == which = "alerts" => AlertsInv
           Feed  == [A!LogFeed!Next]_(feeds.log) /\ [A!ChannelFeed!Next]_(feeds.channel)
<1>1. ServicesInit => Sound /\ A!LogFeed!Init /\ A!ChannelFeed!Init
  <2>1. SUFFICES ASSUME ServicesInit PROVE Sound /\ A!LogFeed!Init /\ A!ChannelFeed!Init
    OBVIOUS
  <2>2. feeds = A!NoFeeds
    BY <2>1 DEF ServicesInit, NoAlerts, A!Init
  <2>3. A!LogFeed!Init /\ A!ChannelFeed!Init
    BY <2>2 DEF A!NoFeeds, A!NoIncident, A!Nil, A!LogFeed!Init, A!ChannelFeed!Init, A!LogFeed!NoIncident, A!ChannelFeed!NoIncident
  <2>4. Sound
    BY <2>1, AlertsInit, AlertsAssumption DEF ServicesInit
  <2>. QED BY <2>3, <2>4
<1>2. Sound /\ [ServicesNext]_servicesVars => Sound' /\ Feed
  <2>1. SUFFICES ASSUME Sound, [ServicesNext]_servicesVars PROVE Sound' /\ Feed
    OBVIOUS
  <2>2. UNCHANGED which /\ ((which = "alerts" /\ A!Next) \/ UNCHANGED alerts)
    BY <2>1 DEF ServicesNext, servicesVars
  <2>3. CASE which = "alerts"
    BY <2>1, <2>2, <2>3, AlertsNext, FeedStep, AlertsAssumption
  <2>4. CASE which # "alerts"
    <3>1. UNCHANGED feeds
      BY <2>2, <2>4 DEF alerts
    <3>. QED BY <2>2, <2>4, <3>1
  <2>. QED BY <2>3, <2>4
<1> HIDE DEF Sound
<1>. QED BY <1>1, <1>2, PTL DEF ServicesSpec, FeedsInOrder, A!FeedsInOrder, A!LogFeed!Spec, A!ChannelFeed!Spec

-------------------------------------------------------------------------------
(* Alerts: what is settled                                                 *)

\* An incident that is open in feed f, or begins among the places I of the sequence s, ends
\* there before place d.
Followed(f, s, I, d) ==
  /\ f.phase = "start" => \E j \in I : j < d /\ s[j].kind = "end"
  /\ \A i \in I : s[i].kind = "start" => \E j \in I : i < j /\ j < d /\ s[j].kind = "end"

\* What is queued behind it begins no incident.
LEMMA FollowedOn ==
  ASSUME NEW f, NEW s, NEW I, NEW d, Followed(f, s, I, d), NEW u, NEW J, NEW e,
         \A i \in I : i \in J /\ u[i] = s[i] /\ (i < d => i < e),
         \A j \in J : j \in I \/ u[j].kind # "start"
  PROVE  Followed(f, u, J, e)
BY DEF Followed

\* The end of an incident, after which none begins.
LEMMA FollowedByEnd ==
  ASSUME NEW f, NEW u, NEW J, NEW d, NEW e \in J, e < d, u[e].kind = "end",
         \A j \in J : u[j].kind = "start" => j < e
  PROVE  Followed(f, u, J, d)
BY DEF Followed

\* The first arrives, if it is of the trigger.
LEMMA FollowedFirst ==
  ASSUME NEW f, NEW s, NEW I \in SUBSET (Nat \ {0}), NEW d \in Nat, Followed(f, s, I, d),
         NEW u, NEW J \in SUBSET Nat, \A i \in I : i = 1 \/ (i - 1 \in J /\ u[i - 1] = s[i]),
         \A j \in J : j + 1 \in I /\ u[j] = s[j + 1],
         NEW n,
         1 \notin I => n = f,
         1 \in I => /\ s[1].kind \in Kinds
                    /\ s[1].kind = "end" => n.phase = "end"
                    /\ s[1].kind = "dump" => n.phase \in {"end", f.phase}
  PROVE  Followed(n, u, J, d - 1)
<1>1. \A j \in I : j > 1 /\ j < d => j - 1 \in J /\ j - 1 < d - 1 /\ u[j - 1] = s[j]
  OBVIOUS
<1>2. ASSUME n.phase = "start" PROVE \E j \in J : j < d - 1 /\ u[j].kind = "end"
  <2>1. \E j \in I : j > 1 /\ j < d /\ s[j].kind = "end"
    <3>1. CASE 1 \in I /\ s[1].kind = "start"
      BY <3>1 DEF Followed
    <3>2. CASE f.phase = "start" /\ (1 \in I => s[1].kind # "end")
      BY <3>2 DEF Followed
    <3>. QED BY <1>2, <3>1, <3>2 DEF Kinds
  <2>. QED BY <1>1, <2>1
<1>3. ASSUME NEW i \in J, u[i].kind = "start" PROVE \E j \in J : i < j /\ j < d - 1 /\ u[j].kind = "end"
  <2>1. i + 1 \in I /\ s[i + 1].kind = "start"
    BY <1>3
  <2>2. PICK j \in I : i + 1 < j /\ j < d /\ s[j].kind = "end"
    BY <2>1 DEF Followed
  <2>3. j > 1 /\ i < j - 1
    BY <2>2
  <2>. QED BY <1>1, <2>2, <2>3
<1>. QED BY <1>2, <1>3 DEF Followed

\* The encoder, Close and their marks in the log's queue: an incident is open only while
\* the encoder runs, the drain mark is there while it is waited for, and nothing is queued
\* after the mark of Close.
MarksFit ==
  /\ aEnc \in {"running", "reset", "sending", "draining", "stopped"}
  /\ closing \in {"no", "cancelled", "closed", "draining", "done"} /\ lost \in BOOLEAN
  /\ aEnc # "running" => \A t \in Triggers : o[t].incident = 0
  /\ aEnc = "sending" => ~A!Closed
  /\ aEnc = "draining" => \E i \in DOMAIN aLog : aLog[i].kind = "drain"
  /\ \A i \in DOMAIN aLog :
       /\ aLog[i].kind = "drain" => aEnc = "draining" /\ \A j \in DOMAIN aLog : aLog[j].kind = "drain" => j = i
       /\ aLog[i].kind = "close" => closing = "draining" /\ i = Len(aLog)
  /\ closing = "done" => aLog = <<>>

\* The log of trigger t gets the ends it is owed, before the mark of a drain, and after the
\* drain none is open; an incident that is open still has its end to come.
Settling(t) ==
  ~lost /\ o[t].incident = 0 =>
    /\ Followed(feeds.log[t], aLog, Of(aLog, t), Len(aLog) + 1)
    /\ \A d \in DOMAIN aLog : aLog[d].kind = "drain" => Followed(feeds.log[t], aLog, Of(aLog, t), d)
    /\ aEnc = "stopped" /\ ~A!Closed =>
         feeds.log[t].phase # "start" /\ \A i \in Of(aLog, t) : aLog[i].kind # "start"

SettleInv == MarksFit /\ \A t \in Triggers : Settling(t)

\* What is settled when the encoder has stopped, or Close has returned.
LEMMA SettledLog == ASSUME AlertsInv, SettleInv PROVE A!LogSettled
<1>1. ASSUME aEnc = "stopped", closing \notin {"closed", "draining"}, ~lost, NEW t \in Triggers
      PROVE  feeds.log[t].phase # "start"
  <2>1. o[t].incident = 0 /\ Settling(t)
    BY <1>1 DEF SettleInv, MarksFit
  <2>2. CASE ~A!Closed
    BY <1>1, <2>1, <2>2 DEF Settling
  <2>3. CASE A!Closed
    <3>1. closing = "done" /\ aLog = <<>>
      BY <1>1, <2>3 DEF SettleInv, MarksFit, A!Closed
    <3>2. Of(aLog, t) = {}
      BY <3>1 DEF Of
    <3>. QED BY <1>1, <2>1, <3>2 DEF Settling, Followed
  <2>. QED BY <2>2, <2>3
<1>2. ASSUME closing = "done" PROVE aLog = <<>> /\ aEnc \notin {"sending", "draining"}
  <2>1. aLog = <<>>
    BY <1>2 DEF SettleInv, MarksFit
  <2>2. DOMAIN aLog = {}
    BY <2>1
  <2>. QED BY <1>2, <2>1, <2>2 DEF SettleInv, MarksFit, A!Closed
<1>. QED BY <1>1, <1>2 DEF A!LogSettled

\* Nothing that this is about changes, but for a drain that finds the queues closed or may
\* begin, and the first two steps of Close.
LEMMA SettleQuiet ==
  ASSUME AlertsInv, SettleInv, UNCHANGED <<aLog, lost>>,
         \A t \in Triggers : o'[t].incident = o[t].incident /\ feeds'.log[t] = feeds.log[t],
         \/ UNCHANGED <<aEnc, closing>>
         \/ A!DrainBegin
         \/ A!CloseBegin
         \/ A!CloseQueues
  PROVE  SettleInv'
<1>1. /\ aEnc' = aEnc \/ (aEnc = "reset" /\ aEnc' = "sending" /\ ~A!Closed) \/ (aEnc = "reset" /\ aEnc' = "stopped" /\ A!Closed)
      /\ \/ closing' = closing
         \/ closing = "no" /\ closing' = "cancelled"
         \/ closing = "cancelled" /\ closing' = "closed" /\ aEnc # "sending"
      /\ aEnc' = aEnc \/ closing' = closing
  BY DEF A!DrainBegin, A!CloseBegin, A!CloseQueues, A!NoReader
<1>2. A!Closed => A!Closed'
  BY <1>1 DEF A!Closed
<1>3. MarksFit'
  BY <1>1 DEF SettleInv, MarksFit, A!Closed
<1>4. ASSUME NEW t \in Triggers PROVE Settling(t)'
  <2>1. Settling(t)
    BY DEF SettleInv
  <2>2. aEnc' = "stopped" /\ ~A!Closed' => aEnc = "stopped" /\ ~A!Closed
    BY <1>1, <1>2
  <2>3. Of(aLog, t)' = Of(aLog, t) /\ Len(aLog)' = Len(aLog)
    BY DEF Of
  <2>. QED BY <2>1, <2>2, <2>3 DEF Settling
<1>. QED BY <1>3, <1>4 DEF SettleInv

\* The log has the entries, or lost is set.
LEMMA LoggedKeeps ==
  ASSUME AlertsAssumption, AlertsInv, lost \in BOOLEAN, NEW entries \in Seq(Entries), A!Logged(entries)
  PROVE  /\ A!Closed => aLog' = aLog
         /\ lost' \in BOOLEAN /\ (~lost' => ~lost)
         /\ Len(aLog) \in Nat /\ Len(aLog') \in Nat /\ Len(aLog) <= Len(aLog')
         /\ DOMAIN aLog = 1..Len(aLog) /\ DOMAIN aLog' = 1..Len(aLog')
         /\ \A i \in DOMAIN aLog : aLog'[i] = aLog[i]
         /\ \A i \in DOMAIN aLog' \ DOMAIN aLog : \E j \in DOMAIN entries : aLog'[i] = entries[j]
         /\ ~lost' => \A j \in DOMAIN entries :
              Len(aLog) + j \in DOMAIN aLog' \ DOMAIN aLog /\ aLog'[Len(aLog) + j] = entries[j]
<1> DEFINE room == IF A!Closed THEN 0 ELSE LogDepth - Len(aLog)
           n == IF Len(entries) < room THEN Len(entries) ELSE room
           kept == SubSeq(entries, 1, n)
<1>1. aLog' = aLog \o kept /\ lost' = (lost \/ kept # entries)
  BY DEF A!Logged
<1>2. /\ aLog \in Seq(Entries \cup Marks)
      /\ Len(aLog) \in Nat /\ Len(entries) \in Nat /\ DOMAIN aLog = 1..Len(aLog) /\ DOMAIN entries = 1..Len(entries)
      /\ \A i \in 1..Len(entries) : entries[i] \in Entries
  BY LenProperties, ElementOfSeq DEF AlertsInv, AlertsTyped
<1>3. n \in Int /\ n <= Len(entries) /\ (A!Closed => n <= 0)
  BY <1>2, AlertsAssumption DEF AlertsAssumption
<1> HIDE DEF n
<1>4. /\ kept \in Seq(Entries) /\ Len(kept) \in Nat /\ Len(kept) <= Len(entries)
      /\ \A i \in 1..Len(kept) : kept[i] = entries[i]
      /\ A!Closed => Len(kept) = 0
  <2>1. \A i \in 1..n : entries[i] \in Entries
    BY <1>2, <1>3
  <2>2. /\ kept \in Seq(Entries) /\ Len(kept) = IF 1 <= n THEN n - 1 + 1 ELSE 0
        /\ \A i \in 1..(n - 1 + 1) : kept[i] = entries[1 + i - 1]
    BY <1>3, <2>1, SubSeqProperties
  <2>. QED BY <1>2, <1>3, <2>2
<1> HIDE DEF kept
<1>5. kept \in Seq(Entries \cup Marks)
  BY <1>4, SeqMonotonic
<1>6. /\ aLog' \in Seq(Entries \cup Marks) /\ Len(aLog') = Len(aLog) + Len(kept)
      /\ DOMAIN aLog' = 1..(Len(aLog) + Len(kept))
      /\ \A i \in 1..Len(aLog) : aLog'[i] = aLog[i]
      /\ \A i \in (Len(aLog) + 1)..(Len(aLog) + Len(kept)) : aLog'[i] = kept[i - Len(aLog)]
  BY <1>1, <1>2, <1>4, <1>5, ConcatProperties, LenProperties
<1>7. A!Closed => aLog' = aLog
  <2>1. A!Closed => kept = <<>>
    BY <1>4, EmptySeq
  <2>. QED BY <1>1, <1>2, <2>1, ConcatEmptySeq
<1>8. ASSUME NEW i \in DOMAIN aLog' \ DOMAIN aLog PROVE \E j \in DOMAIN entries : aLog'[i] = entries[j]
  <2>1. i \in (Len(aLog) + 1)..(Len(aLog) + Len(kept)) /\ i - Len(aLog) \in 1..Len(kept) /\ i - Len(aLog) \in DOMAIN entries
    BY <1>2, <1>4, <1>6, <1>8
  <2>. QED BY <1>4, <1>6, <2>1
<1>9. ASSUME ~lost', NEW j \in DOMAIN entries
      PROVE  Len(aLog) + j \in DOMAIN aLog' \ DOMAIN aLog /\ aLog'[Len(aLog) + j] = entries[j]
  <2>1. kept = entries
    BY <1>1, <1>9
  <2>2. Len(aLog) + j \in (Len(aLog) + 1)..(Len(aLog) + Len(kept)) /\ Len(aLog) + j - Len(aLog) = j
    BY <1>2, <2>1
  <2>3. Len(aLog) + j \in DOMAIN aLog' /\ Len(aLog) + j \notin DOMAIN aLog
    BY <1>2, <1>6, <2>2
  <2>4. aLog'[Len(aLog) + j] = kept[Len(aLog) + j - Len(aLog)]
    BY <1>6, <2>2
  <2>. QED BY <2>1, <2>2, <2>3, <2>4
<1>10. lost' \in BOOLEAN /\ (~lost' => ~lost)
  BY <1>1
<1>. QED BY <1>2, <1>4, <1>6, <1>7, <1>8, <1>9, <1>10

\* Where no incident of t is open afterwards, the entries begin none, and have the end of
\* one that was open.
Tells(entries) ==
  \A t \in Triggers : o'[t].incident = 0 =>
    /\ \A i \in DOMAIN entries : entries[i].trigger = t => entries[i].kind # "start"
    /\ o[t].incident # 0 => \E i \in DOMAIN entries : entries[i].trigger = t /\ entries[i].kind = "end"

\* A window, a reset and a dump say what they have to.
LEMMA LoggedSettles ==
  ASSUME AlertsAssumption, AlertsInv, SettleInv, NEW entries \in Seq(Entries), A!Logged(entries), Tells(entries),
         UNCHANGED <<feeds, closing>>,
         aEnc' = aEnc \/ (aEnc = "running" /\ aEnc' = "reset") \/ (aEnc = "stopped" /\ aEnc' = "running"),
         aEnc' # "running" => \A t \in Triggers : o'[t].incident = 0
  PROVE  SettleInv'
<1>1. MarksFit
  BY DEF SettleInv
<1>2. /\ A!Closed => aLog' = aLog
      /\ lost' \in BOOLEAN /\ (~lost' => ~lost)
      /\ Len(aLog) \in Nat /\ Len(aLog') \in Nat /\ Len(aLog) <= Len(aLog')
      /\ DOMAIN aLog = 1..Len(aLog) /\ DOMAIN aLog' = 1..Len(aLog')
      /\ \A i \in DOMAIN aLog : aLog'[i] = aLog[i]
      /\ \A i \in DOMAIN aLog' \ DOMAIN aLog : \E j \in DOMAIN entries : aLog'[i] = entries[j]
      /\ ~lost' => \A j \in DOMAIN entries :
           Len(aLog) + j \in DOMAIN aLog' \ DOMAIN aLog /\ aLog'[Len(aLog) + j] = entries[j]
  BY <1>1, LoggedKeeps DEF MarksFit
<1>3. \A i \in DOMAIN aLog : i \in DOMAIN aLog'
  BY <1>2
<1>4. A!Closed' <=> A!Closed
  BY DEF A!Closed
<1>5. \A j \in DOMAIN entries : entries[j].kind \in Kinds
  <2>1. DOMAIN entries = 1..Len(entries) /\ \A j \in 1..Len(entries) : entries[j] \in Entries
    BY LenProperties, ElementOfSeq
  <2>. QED BY <2>1 DEF Entries
<1>6. \A i \in DOMAIN aLog' : aLog'[i].kind \in {"drain", "close"} => i \in DOMAIN aLog /\ aLog'[i] = aLog[i]
  BY <1>2, <1>5 DEF Kinds
<1>7. MarksFit'
  <2>1. \A i \in DOMAIN aLog' : aLog'[i].kind = "drain" =>
           aEnc' = "draining" /\ \A j \in DOMAIN aLog' : aLog'[j].kind = "drain" => j = i
    BY <1>1, <1>6 DEF MarksFit
  <2>2. aEnc' = "draining" => \E i \in DOMAIN aLog' : aLog'[i].kind = "drain"
    BY <1>1, <1>2, <1>3 DEF MarksFit
  <2>3. \A i \in DOMAIN aLog' : aLog'[i].kind = "close" => closing' = "draining" /\ i = Len(aLog')
    <3>1. SUFFICES ASSUME NEW i \in DOMAIN aLog', aLog'[i].kind = "close" PROVE closing' = "draining" /\ i = Len(aLog')
      OBVIOUS
    <3>2. closing = "draining" /\ i = Len(aLog)
      BY <1>1, <1>6, <3>1 DEF MarksFit
    <3>3. aLog' = aLog
      BY <1>2, <3>2 DEF A!Closed
    <3>. QED BY <3>2, <3>3
  <2>4. closing' = "done" => aLog' = <<>>
    BY <1>1, <1>2 DEF MarksFit, A!Closed
  <2>. QED BY <1>1, <1>2, <1>4, <2>1, <2>2, <2>3, <2>4 DEF MarksFit
<1>8. ASSUME NEW t \in Triggers PROVE Settling(t)'
  <2>1. SUFFICES ASSUME ~lost', o'[t].incident = 0
        PROVE  /\ Followed(feeds.log[t], aLog', Of(aLog', t), Len(aLog') + 1)
               /\ \A d \in DOMAIN aLog' : aLog'[d].kind = "drain" => Followed(feeds.log[t], aLog', Of(aLog', t), d)
               /\ aEnc' = "stopped" /\ ~A!Closed =>
                    feeds.log[t].phase # "start" /\ \A i \in Of(aLog', t) : aLog'[i].kind # "start"
    BY <1>4 DEF Settling
  <2>2. \A i \in Of(aLog, t) : i \in Of(aLog', t) /\ aLog'[i] = aLog[i]
    BY <1>2, <1>3 DEF Of
  <2>3. \A i \in Of(aLog', t) : i \in Of(aLog, t) \/ (i \notin DOMAIN aLog /\ aLog'[i].kind # "start")
    BY <1>2, <2>1 DEF Of, Tells
  <2>4. \A i \in Of(aLog', t) : i \in DOMAIN aLog' /\ i \in Nat /\ i < Len(aLog') + 1
    BY <1>2 DEF Of
  <2>5. CASE o[t].incident = 0
    <3>1. Settling(t)
      BY DEF SettleInv
    <3>2. Followed(feeds.log[t], aLog', Of(aLog', t), Len(aLog') + 1)
      <4>1. Followed(feeds.log[t], aLog, Of(aLog, t), Len(aLog) + 1)
        BY <1>2, <2>1, <2>5, <3>1 DEF Settling
      <4>2. \A i \in Of(aLog, t) : i \in Of(aLog', t) /\ aLog'[i] = aLog[i] /\ (i < Len(aLog) + 1 => i < Len(aLog') + 1)
        BY <2>2, <2>4
      <4>3. \A j \in Of(aLog', t) : j \in Of(aLog, t) \/ aLog'[j].kind # "start"
        BY <2>3
      <4>. QED BY ONLY <4>1, <4>2, <4>3, FollowedOn
    <3>3. ASSUME NEW d \in DOMAIN aLog', aLog'[d].kind = "drain" PROVE Followed(feeds.log[t], aLog', Of(aLog', t), d)
      <4>1. Followed(feeds.log[t], aLog, Of(aLog, t), d)
        BY <1>2, <1>6, <2>1, <2>5, <3>1, <3>3 DEF Settling
      <4>2. \A i \in Of(aLog, t) : i \in Of(aLog', t) /\ aLog'[i] = aLog[i] /\ (i < d => i < d)
        BY <2>2
      <4>3. \A j \in Of(aLog', t) : j \in Of(aLog, t) \/ aLog'[j].kind # "start"
        BY <2>3
      <4>. QED BY ONLY <4>1, <4>2, <4>3, FollowedOn
    <3>4. aEnc' = "stopped" => aEnc = "stopped"
      OBVIOUS
    <3>. QED BY <1>2, <2>1, <2>2, <2>3, <2>5, <3>1, <3>2, <3>3, <3>4 DEF Settling
  <2>6. CASE o[t].incident # 0
    <3>1. PICK k \in DOMAIN entries : entries[k].trigger = t /\ entries[k].kind = "end"
      BY <2>1, <2>6 DEF Tells
    <3>2. PICK e \in DOMAIN aLog' \ DOMAIN aLog : aLog'[e] = entries[k]
      BY <1>2, <2>1, <3>1
    <3>3. e \in Of(aLog', t) /\ aLog'[e].kind = "end"
      BY <3>1, <3>2 DEF Of, Kinds
    <3>4. \A j \in Of(aLog', t) : aLog'[j].kind = "start" => j < e
      <4>1. \A j \in DOMAIN aLog : j < e
        BY <1>2, <3>2
      <4>. QED BY <2>3, <4>1 DEF Of
    <3>5. Followed(feeds.log[t], aLog', Of(aLog', t), Len(aLog') + 1)
      BY <2>4, <3>3, <3>4, FollowedByEnd
    <3>6. aEnc = "running" /\ aEnc' \notin {"draining", "stopped"}
      BY <1>1, <2>6 DEF MarksFit
    <3>7. \A d \in DOMAIN aLog' : aLog'[d].kind # "drain"
      BY <1>7, <3>6 DEF MarksFit
    <3>. QED BY <3>5, <3>6, <3>7
  <2>. QED BY <2>5, <2>6
<1>. QED BY <1>7, <1>8 DEF SettleInv

\* The mark of a drain, or of Close, is the last in the queue.
LEMMA MarkSettles ==
  ASSUME AlertsInv, SettleInv, A!DrainSend \/ A!CloseSend PROVE SettleInv'
<1> DEFINE m == [kind |-> IF aEnc' = "draining" /\ aEnc = "sending" THEN "drain" ELSE "close"]
<1>1. /\ aLog' = Append(aLog, m) /\ UNCHANGED <<o, feeds, lost>>
      /\ \/ aEnc = "sending" /\ aEnc' = "draining" /\ m.kind = "drain" /\ UNCHANGED closing
         \/ closing = "closed" /\ closing' = "draining" /\ m.kind = "close" /\ UNCHANGED aEnc
  BY DEF A!DrainSend, A!CloseSend
<1> HIDE DEF m
<1>2. MarksFit
  BY DEF SettleInv
<1>3. aLog \in Seq(Entries \cup Marks) /\ m \in Entries \cup Marks
  <2>1. m.kind \in {"drain", "close"} /\ m = [kind |-> m.kind]
    BY DEF m
  <2>. QED BY <2>1 DEF AlertsInv, AlertsTyped, Marks
<1>4. /\ Len(aLog) \in Nat /\ Len(aLog') = Len(aLog) + 1 /\ DOMAIN aLog = 1..Len(aLog)
      /\ DOMAIN aLog' = 1..(Len(aLog) + 1) /\ DOMAIN aLog' = DOMAIN aLog \cup {Len(aLog) + 1}
      /\ \A i \in DOMAIN aLog : aLog'[i] = aLog[i] /\ i < Len(aLog) + 1
      /\ aLog'[Len(aLog) + 1] = m
  BY <1>1, <1>3, AppendProperties, LenProperties
<1>5. MarksFit'
  <2>1. CASE aEnc = "sending" /\ aEnc' = "draining" /\ m.kind = "drain" /\ UNCHANGED closing
    <3>1. \A i \in DOMAIN aLog : aLog[i].kind # "drain" /\ aLog[i].kind # "close"
      BY <1>2, <2>1 DEF MarksFit, A!Closed
    <3>2. \A i \in DOMAIN aLog' : aLog'[i].kind # "close" /\ (aLog'[i].kind = "drain" => i = Len(aLog) + 1)
      BY <1>4, <2>1, <3>1
    <3>3. closing' # "done"
      BY <1>2, <2>1 DEF MarksFit, A!Closed
    <3>. QED BY <1>1, <1>2, <1>4, <2>1, <3>2, <3>3 DEF MarksFit, A!Closed
  <2>2. CASE closing = "closed" /\ closing' = "draining" /\ m.kind = "close" /\ UNCHANGED aEnc
    <3>1. \A i \in DOMAIN aLog : aLog[i].kind # "close"
      BY <1>2, <2>2 DEF MarksFit
    <3>2. \A i \in DOMAIN aLog' : /\ aLog'[i].kind = "close" => i = Len(aLog')
                                  /\ aLog'[i].kind = "drain" => i \in DOMAIN aLog /\ aLog[i].kind = "drain"
      BY <1>4, <2>2, <3>1
    <3>3. aEnc' # "sending"
      BY <1>2, <2>2 DEF MarksFit, A!Closed
    <3>4. aEnc' = "draining" => \E i \in DOMAIN aLog' : aLog'[i].kind = "drain"
      BY <1>2, <1>4, <2>2 DEF MarksFit
    <3>. QED BY <1>1, <1>2, <2>2, <3>2, <3>3, <3>4 DEF MarksFit
  <2>. QED BY <1>1, <2>1, <2>2
<1>6. ASSUME NEW t \in Triggers PROVE Settling(t)'
  <2>1. Of(aLog', t) = Of(aLog, t)
    <3>1. m.kind \notin Kinds
      BY DEF m, Kinds
    <3>. QED BY <1>4, <3>1 DEF Of
  <2>2. SUFFICES ASSUME ~lost, o[t].incident = 0
        PROVE  /\ Followed(feeds.log[t], aLog', Of(aLog, t), Len(aLog') + 1)
               /\ \A d \in DOMAIN aLog' : aLog'[d].kind = "drain" => Followed(feeds.log[t], aLog', Of(aLog, t), d)
               /\ aEnc' = "stopped" /\ ~A!Closed' =>
                    feeds.log[t].phase # "start" /\ \A i \in Of(aLog, t) : aLog'[i].kind # "start"
    BY <1>1, <2>1 DEF Settling
  <2>3. /\ Followed(feeds.log[t], aLog, Of(aLog, t), Len(aLog) + 1)
        /\ \A d \in DOMAIN aLog : aLog[d].kind = "drain" => Followed(feeds.log[t], aLog, Of(aLog, t), d)
        /\ aEnc = "stopped" /\ ~A!Closed =>
             feeds.log[t].phase # "start" /\ \A i \in Of(aLog, t) : aLog[i].kind # "start"
    BY <1>1, <2>2 DEF SettleInv, Settling
  <2>4. \A i \in Of(aLog, t) : i \in DOMAIN aLog /\ aLog'[i] = aLog[i] /\ i < Len(aLog) + 1 /\ i < Len(aLog') + 1
    BY <1>4 DEF Of
  <2>5. Followed(feeds.log[t], aLog', Of(aLog, t), Len(aLog') + 1)
    BY ONLY <2>3, <2>4, FollowedOn
  <2>6. ASSUME NEW d \in DOMAIN aLog', aLog'[d].kind = "drain" PROVE Followed(feeds.log[t], aLog', Of(aLog, t), d)
    <3>1. CASE d \in DOMAIN aLog
      <4>1. Followed(feeds.log[t], aLog, Of(aLog, t), d)
        BY <1>4, <2>3, <2>6, <3>1
      <4>. QED BY ONLY <2>4, <4>1, FollowedOn
    <3>2. CASE d = Len(aLog) + 1
      BY ONLY <2>3, <2>4, <3>2, FollowedOn
    <3>. QED BY <1>4, <2>6, <3>1, <3>2
  <2>7. aEnc' = "stopped" /\ ~A!Closed' => aEnc = "stopped" /\ ~A!Closed
    BY <1>1 DEF A!Closed
  <2>. QED BY <2>3, <2>4, <2>5, <2>6, <2>7
<1>. QED BY <1>5, <1>6 DEF SettleInv

\* The log worker takes the next: a drain is over when its mark is reached, and Close when
\* the queue is empty.
LEMMA WorkerSettles ==
  ASSUME AlertsAssumption, AlertsInv, SettleInv, NEW ok \in BOOLEAN, A!LogWorker(ok) PROVE SettleInv'
<1> DEFINE x == aLog[1]
<1>1. /\ aLog # <<>> /\ aLog' = Tail(aLog) /\ UNCHANGED o /\ x = Head(aLog) /\ aLog \in Seq(Entries \cup Marks)
  <2>1. aLog # <<>> /\ aLog \in Seq(Entries \cup Marks)
    BY DEF A!LogWorker, AlertsInv, AlertsTyped
  <2>. QED BY <2>1, TailParts DEF A!LogWorker
<1>2. /\ aLog' \in Seq(Entries \cup Marks) /\ x \in Entries \cup Marks /\ 1 \in DOMAIN aLog
      /\ Len(aLog) \in Nat /\ Len(aLog') = Len(aLog) - 1 /\ Len(aLog') \in Nat
      /\ DOMAIN aLog = 1..Len(aLog) /\ DOMAIN aLog' = 1..Len(aLog')
      /\ \A j \in DOMAIN aLog' : j + 1 \in DOMAIN aLog /\ aLog'[j] = aLog[j + 1]
      /\ \A i \in DOMAIN aLog : i = 1 \/ (i - 1 \in DOMAIN aLog' /\ aLog'[i - 1] = aLog[i])
  <2>1. /\ aLog' \in Seq(Entries \cup Marks) /\ x \in Entries \cup Marks /\ 1 \in DOMAIN aLog
        /\ \A j \in DOMAIN aLog' : j + 1 \in DOMAIN aLog /\ aLog'[j] = aLog[j + 1]
    BY <1>1, TailParts
  <2>2. /\ Len(aLog) \in Nat /\ Len(aLog') = Len(aLog) - 1 /\ Len(aLog') \in Nat
        /\ DOMAIN aLog = 1..Len(aLog) /\ DOMAIN aLog' = 1..Len(aLog')
    BY <1>1, <2>1, HeadTailProperties, LenProperties
  <2>3. \A i \in DOMAIN aLog : i = 1 \/ (i - 1 \in DOMAIN aLog' /\ aLog'[i - 1] = aLog[i - 1 + 1])
    BY <2>1, <2>2
  <2>. QED BY <2>1, <2>2, <2>3
<1>3. MarksFit
  BY DEF SettleInv
<1>4. \/ x.kind = "drain" /\ aEnc' = "stopped" /\ UNCHANGED <<closing, feeds, lost>>
      \/ x.kind = "close" /\ closing' = "done" /\ UNCHANGED <<aEnc, feeds, lost>>
      \/ /\ x \in Entries /\ UNCHANGED <<aEnc, closing>> /\ lost' = (lost \/ ~ok)
         /\ feeds' = IF ok THEN [feeds EXCEPT !.log[x.trigger] = A!Arrived(@, x, "log")] ELSE feeds
  <2>1. CASE x \in Marks
    BY <1>1, <2>1 DEF A!LogWorker, Marks
  <2>2. CASE x \in Entries
    BY <1>1, <2>2 DEF A!LogWorker, Entries, Kinds
  <2>. QED BY <1>2, <2>1, <2>2
<1> HIDE DEF x
<1>5. MarksFit'
  <2>1. lost' \in BOOLEAN
    BY <1>3, <1>4 DEF MarksFit
  <2>2. CASE x.kind = "drain"
    <3>1. aEnc' = "stopped" /\ UNCHANGED <<closing, feeds, lost>> /\ aEnc = "draining"
      BY <1>2, <1>3, <1>4, <2>2 DEF MarksFit, Entries, Kinds, x
    <3>2. \A j \in DOMAIN aLog : aLog[j].kind = "drain" => j = 1
      BY <1>2, <1>3, <2>2 DEF MarksFit, x
    <3>3. \A j \in DOMAIN aLog' : aLog'[j].kind # "drain"
      BY <1>2, <3>2
    <3>4. \A j \in DOMAIN aLog' : aLog'[j].kind = "close" => closing = "draining" /\ j = Len(aLog')
      <4>1. \A j \in DOMAIN aLog' : aLog'[j].kind = "close" => closing = "draining" /\ j + 1 = Len(aLog)
        BY <1>2, <1>3 DEF MarksFit
      <4>. QED BY <1>2, <4>1
    <3>5. closing # "done"
      BY <1>1, <1>3 DEF MarksFit
    <3>. QED BY <1>1, <1>3, <2>1, <3>1, <3>3, <3>4, <3>5 DEF MarksFit
  <2>3. CASE x.kind = "close"
    <3>1. closing' = "done" /\ UNCHANGED <<aEnc, feeds, lost>> /\ closing = "draining" /\ Len(aLog) = 1
      BY <1>2, <1>3, <1>4, <2>3 DEF MarksFit, Entries, Kinds, x
    <3>2. aLog' = <<>> /\ DOMAIN aLog' = {}
      BY <1>2, <3>1, EmptySeq
    <3>3. aEnc # "draining"
      BY <1>2, <1>3, <2>3, <3>1 DEF MarksFit, x
    <3>4. aEnc # "sending"
      BY <1>3, <3>1 DEF MarksFit, A!Closed
    <3>. QED BY <1>1, <1>3, <2>1, <3>1, <3>2, <3>3, <3>4 DEF MarksFit, A!Closed
  <2>4. CASE x.kind \notin {"drain", "close"}
    <3>1. UNCHANGED <<aEnc, closing>>
      BY <1>4, <2>4
    <3>2. \A j \in DOMAIN aLog' : /\ aLog'[j].kind = "close" => closing = "draining" /\ j = Len(aLog')
                                  /\ aLog'[j].kind = "drain" => aEnc = "draining"
      <4>1. \A j \in DOMAIN aLog' : /\ aLog'[j].kind = "close" => closing = "draining" /\ j + 1 = Len(aLog)
                                    /\ aLog'[j].kind = "drain" => aEnc = "draining"
        BY <1>2, <1>3 DEF MarksFit
      <4>. QED BY <1>2, <4>1
    <3>3. \A i, j \in DOMAIN aLog' : aLog'[i].kind = "drain" /\ aLog'[j].kind = "drain" => j = i
      <4>1. SUFFICES ASSUME NEW i \in DOMAIN aLog', NEW j \in DOMAIN aLog', aLog'[i].kind = "drain", aLog'[j].kind = "drain"
                     PROVE  j = i
        OBVIOUS
      <4>2. i + 1 \in DOMAIN aLog /\ j + 1 \in DOMAIN aLog /\ aLog[i + 1].kind = "drain" /\ aLog[j + 1].kind = "drain"
        BY <1>2, <4>1
      <4>3. i + 1 = j + 1
        BY <1>3, <4>2 DEF MarksFit
      <4>. QED BY <1>2, <4>3
    <3>4. aEnc = "draining" => \E i \in DOMAIN aLog' : aLog'[i].kind = "drain"
      <4>1. SUFFICES ASSUME aEnc = "draining" PROVE \E i \in DOMAIN aLog' : aLog'[i].kind = "drain"
        OBVIOUS
      <4>2. PICK i \in DOMAIN aLog : aLog[i].kind = "drain"
        BY <1>3, <4>1 DEF MarksFit
      <4>3. i # 1
        BY <2>4, <4>2 DEF x
      <4>. QED BY <1>2, <4>2, <4>3
    <3>5. closing # "done"
      BY <1>1, <1>3 DEF MarksFit
    <3>. QED BY <1>1, <1>3, <2>1, <3>1, <3>2, <3>3, <3>4, <3>5 DEF MarksFit, A!Closed
  <2>. QED BY <2>2, <2>3, <2>4
<1>6. ASSUME NEW t \in Triggers PROVE Settling(t)'
  <2>1. SUFFICES ASSUME ~lost', o[t].incident = 0
        PROVE  /\ Followed(feeds'.log[t], aLog', Of(aLog', t), Len(aLog') + 1)
               /\ \A d \in DOMAIN aLog' : aLog'[d].kind = "drain" => Followed(feeds'.log[t], aLog', Of(aLog', t), d)
               /\ aEnc' = "stopped" /\ ~A!Closed' =>
                    feeds'.log[t].phase # "start" /\ \A i \in Of(aLog', t) : aLog'[i].kind # "start"
    BY <1>1 DEF Settling
  <2>2. ~lost
    BY <1>4, <2>1
  <2>3. /\ Followed(feeds.log[t], aLog, Of(aLog, t), Len(aLog) + 1)
        /\ \A d \in DOMAIN aLog : aLog[d].kind = "drain" => Followed(feeds.log[t], aLog, Of(aLog, t), d)
        /\ aEnc = "stopped" /\ ~A!Closed =>
             feeds.log[t].phase # "start" /\ \A i \in Of(aLog, t) : aLog[i].kind # "start"
    BY <2>1, <2>2 DEF SettleInv, Settling
  <2>4. /\ Of(aLog, t) \in SUBSET (Nat \ {0}) /\ Of(aLog', t) \in SUBSET Nat
        /\ \A i \in Of(aLog, t) : i = 1 \/ (i - 1 \in Of(aLog', t) /\ aLog'[i - 1] = aLog[i])
        /\ \A j \in Of(aLog', t) : j + 1 \in Of(aLog, t) /\ aLog'[j] = aLog[j + 1]
    BY <1>2 DEF Of
  <2>5. /\ 1 \notin Of(aLog, t) => feeds'.log[t] = feeds.log[t]
        /\ 1 \in Of(aLog, t) => /\ aLog[1].kind \in Kinds
                                /\ aLog[1].kind = "end" => feeds'.log[t].phase = "end"
                                /\ aLog[1].kind = "dump" => feeds'.log[t].phase \in {"end", feeds.log[t].phase}
    <3>1. CASE x \in Marks
      <4>1. UNCHANGED feeds /\ 1 \notin Of(aLog, t)
        BY <1>4, <3>1 DEF Marks, Entries, Kinds, Of, x
      <4>. QED BY <4>1
    <3>2. CASE x \in Entries
      <4>1. x.kind \in Kinds /\ x.trigger \in Triggers /\ x.id \in Nat /\ (1 \in Of(aLog, t) <=> x.trigger = t)
        BY <1>2, <3>2 DEF Entries, Of, x
      <4>2. ok /\ feeds' = [feeds EXCEPT !.log[x.trigger] = A!Arrived(@, x, "log")]
        BY <1>4, <2>1, <4>1 DEF Kinds
      <4>3. feeds'.log = [feeds.log EXCEPT ![x.trigger] = A!Arrived(feeds.log[x.trigger], x, "log")]
        BY <4>1, <4>2 DEF AlertsInv, AlertsTyped
      <4>4. x.trigger # t => feeds'.log[t] = feeds.log[t]
        BY <4>3 DEF AlertsInv, AlertsTyped
      <4>5. x.trigger = t => feeds'.log[t] = A!Arrived(feeds.log[t], x, "log")
        BY <4>1, <4>3 DEF AlertsInv, AlertsTyped
      <4>6. feeds.log[t] \in FeedsWith({"none", "log"}) /\ feeds.log[t].id \in Nat
        BY AlertsParts DEF AlertsInv, FeedsWith
      <4>7. /\ x.kind = "end" => A!Arrived(feeds.log[t], x, "log").phase = "end"
            /\ x.kind = "dump" => A!Arrived(feeds.log[t], x, "log").phase \in {"end", feeds.log[t].phase}
        BY <4>1, <4>6, ArrivedEffect
      <4>. QED BY <4>1, <4>4, <4>5, <4>7 DEF x
    <3>. QED BY <1>2, <3>1, <3>2
  <2>6. ASSUME NEW d \in Nat, Followed(feeds.log[t], aLog, Of(aLog, t), d)
        PROVE  Followed(feeds'.log[t], aLog', Of(aLog', t), d - 1)
    BY ONLY <2>4, <2>5, <2>6, FollowedFirst
  <2>7. Followed(feeds'.log[t], aLog', Of(aLog', t), Len(aLog') + 1)
    <3>1. PICK n \in Nat : n = Len(aLog) + 1 /\ n - 1 = Len(aLog') + 1
      BY <1>2
    <3>2. Followed(feeds.log[t], aLog, Of(aLog, t), n)
      BY <2>3, <3>1
    <3>3. Followed(feeds'.log[t], aLog', Of(aLog', t), n - 1)
      BY <2>6, <3>2
    <3>. QED BY <3>1, <3>3
  <2>8. ASSUME NEW d \in DOMAIN aLog', aLog'[d].kind = "drain" PROVE Followed(feeds'.log[t], aLog', Of(aLog', t), d)
    <3>1. PICK n \in Nat : n \in DOMAIN aLog /\ aLog[n].kind = "drain" /\ n - 1 = d
      BY <1>2, <2>8
    <3>2. Followed(feeds.log[t], aLog, Of(aLog, t), n)
      BY <2>3, <3>1
    <3>3. Followed(feeds'.log[t], aLog', Of(aLog', t), n - 1)
      BY <2>6, <3>2
    <3>. QED BY <3>1, <3>3
  <2>9. ASSUME aEnc' = "stopped", ~A!Closed'
        PROVE  feeds'.log[t].phase # "start" /\ \A i \in Of(aLog', t) : aLog'[i].kind # "start"
    <3>1. CASE x.kind = "drain"
      <4>1. Followed(feeds'.log[t], aLog', Of(aLog', t), 0)
        <5>1. Followed(feeds.log[t], aLog, Of(aLog, t), 1) /\ 1 \in Nat /\ 1 - 1 = 0
          BY <1>2, <2>3, <3>1 DEF x
        <5>2. Followed(feeds'.log[t], aLog', Of(aLog', t), 1 - 1)
          BY <2>6, <5>1
        <5>. QED BY <5>1, <5>2
      <4>2. \A j \in Of(aLog', t) : ~(j < 0)
        BY <2>4
      <4>. QED BY <4>1, <4>2 DEF Followed
    <3>2. CASE x.kind # "drain"
      <4>1. aEnc = "stopped" /\ ~A!Closed
        BY <1>4, <2>9, <3>2 DEF A!Closed
      <4>2. feeds.log[t].phase # "start" /\ \A i \in Of(aLog, t) : aLog[i].kind # "start"
        BY <2>3, <4>1
      <4>3. \A i \in Of(aLog', t) : aLog'[i].kind # "start"
        BY <2>4, <4>2
      <4>4. feeds'.log[t].phase # "start"
        BY <2>5, <4>2 DEF Kinds
      <4>. QED BY <4>3, <4>4
    <3>. QED BY <3>1, <3>2
  <2>. QED BY <2>7, <2>8, <2>9
<1>. QED BY <1>5, <1>6 DEF SettleInv

\* What a sequence of entries holds that is made of two.
Holds(s, l, r) ==
  /\ \A i \in DOMAIN s : (\E j \in DOMAIN l : s[i] = l[j]) \/ (\E j \in DOMAIN r : s[i] = r[j])
  /\ \A j \in DOMAIN l : \E i \in DOMAIN s : s[i] = l[j]
  /\ \A j \in DOMAIN r : \E i \in DOMAIN s : s[i] = r[j]

LEMMA BothEntries ==
  ASSUME NEW l \in Seq(Entries), NEW r \in Seq(Entries) PROVE l \o r \in Seq(Entries) /\ Holds(l \o r, l, r)
<1>1. PICK s : s = l \o r
  OBVIOUS
<1>2. /\ s \in Seq(Entries) /\ DOMAIN s = 1..(Len(l) + Len(r)) /\ DOMAIN l = 1..Len(l) /\ DOMAIN r = 1..Len(r)
      /\ Len(l) \in Nat /\ Len(r) \in Nat
      /\ \A i \in 1..(Len(l) + Len(r)) : s[i] = IF i <= Len(l) THEN l[i] ELSE r[i - Len(l)]
  BY <1>1, ConcatProperties, LenProperties
<1>3. \A i \in DOMAIN s : (\E j \in DOMAIN l : s[i] = l[j]) \/ (\E j \in DOMAIN r : s[i] = r[j])
  <2>1. SUFFICES ASSUME NEW i \in DOMAIN s
                 PROVE  (\E j \in DOMAIN l : s[i] = l[j]) \/ (\E j \in DOMAIN r : s[i] = r[j])
    OBVIOUS
  <2>2. CASE i <= Len(l)
    BY <1>2, <2>2
  <2>3. CASE ~(i <= Len(l))
    <3>1. i - Len(l) \in DOMAIN r /\ s[i] = r[i - Len(l)]
      BY <1>2, <2>3
    <3>. QED BY <3>1
  <2>. QED BY <2>2, <2>3
<1>4. \A j \in DOMAIN l : j \in DOMAIN s /\ s[j] = l[j]
  BY <1>2
<1>5. \A j \in DOMAIN r : Len(l) + j \in DOMAIN s /\ s[Len(l) + j] = r[j]
  BY <1>2
<1>. QED BY <1>1, <1>2, <1>3, <1>4, <1>5 DEF Holds

\* resetDetection and start end what is open.
LEMMA ResetSettles ==
  ASSUME AlertsAssumption, AlertsInv, SettleInv, A!ResetDetection \/ A!Start PROVE SettleInv'
<1> DEFINE p == "silence" \in Triggers /\ o["silence"].incident # 0
           q == "channel_imbalance" \in Triggers /\ o["channel_imbalance"].incident # 0
           x == A!Entry("end", "silence", o["silence"].incident)
           y == A!Entry("end", "channel_imbalance", o["channel_imbalance"].incident)
           entries == (IF p THEN <<x>> ELSE <<>>) \o (IF q THEN <<y>> ELSE <<>>)
<1>1. /\ o' = [t \in Triggers |-> [incident |-> 0, active |-> "none", pending |-> {}]]
      /\ A!Logged(entries) /\ UNCHANGED <<feeds, closing>>
      /\ (aEnc = "running" /\ aEnc' = "reset") \/ (aEnc = "stopped" /\ aEnc' = "running")
  <2>1. A!StopEntries("silence") = IF p THEN <<x>> ELSE <<>>
    BY DEF A!StopEntries, A!One
  <2>2. A!StopEntries("channel_imbalance") = IF q THEN <<y>> ELSE <<>>
    BY DEF A!StopEntries, A!One
  <2>. QED BY <2>1, <2>2 DEF A!ResetDetection, A!Start, A!Reset, A!Forgotten, A!Nil
<1>2. /\ p => x \in Entries /\ x.trigger = "silence" /\ x.kind = "end"
      /\ q => y \in Entries /\ y.trigger = "channel_imbalance" /\ y.kind = "end"
  BY AlertsParts DEF AlertsInv, A!Entry, Entries, Kinds
<1>3. p \in BOOLEAN /\ q \in BOOLEAN
  OBVIOUS
<1> DEFINE l == IF p THEN <<x>> ELSE <<>>
           r == IF q THEN <<y>> ELSE <<>>
<1>4. /\ l \in Seq(Entries) /\ (\A j \in DOMAIN l : p /\ l[j] = x) /\ (p => 1 \in DOMAIN l /\ l[1] = x)
      /\ r \in Seq(Entries) /\ (\A j \in DOMAIN r : q /\ r[j] = y) /\ (q => 1 \in DOMAIN r /\ r[1] = y)
      /\ entries = l \o r
  <2>1. entries = l \o r
    OBVIOUS
  <2> HIDE DEF p, q, x, y, entries
  <2>2. l \in Seq(Entries) /\ (\A j \in DOMAIN l : p /\ l[j] = x) /\ (p => 1 \in DOMAIN l /\ l[1] = x)
    BY <1>2, <1>3, EmptySeq
  <2>3. r \in Seq(Entries) /\ (\A j \in DOMAIN r : q /\ r[j] = y) /\ (q => 1 \in DOMAIN r /\ r[1] = y)
    BY <1>2, <1>3, EmptySeq
  <2>. QED BY <2>1, <2>2, <2>3
<1> HIDE DEF p, q, x, y, l, r, entries
<1>5. /\ entries \in Seq(Entries)
      /\ \A i \in DOMAIN entries : (p /\ entries[i] = x) \/ (q /\ entries[i] = y)
      /\ p => \E i \in DOMAIN entries : entries[i] = x
      /\ q => \E i \in DOMAIN entries : entries[i] = y
  <2>1. l \o r \in Seq(Entries) /\ Holds(l \o r, l, r)
    <3>1. l \in Seq(Entries) /\ r \in Seq(Entries)
      BY <1>4
    <3>. QED BY ONLY <3>1, BothEntries
  <2>2. entries \in Seq(Entries) /\ Holds(entries, l, r)
    BY <1>4, <2>1
  <2>3. /\ \A j \in DOMAIN l : p /\ l[j] = x
        /\ \A j \in DOMAIN r : q /\ r[j] = y
        /\ p => 1 \in DOMAIN l /\ l[1] = x
        /\ q => 1 \in DOMAIN r /\ r[1] = y
    BY <1>4
  <2>4. \A i \in DOMAIN entries : (p /\ entries[i] = x) \/ (q /\ entries[i] = y)
    BY ONLY <2>2, <2>3 DEF Holds
  <2>5. (p => \E i \in DOMAIN entries : entries[i] = x) /\ (q => \E i \in DOMAIN entries : entries[i] = y)
    BY ONLY <2>2, <2>3 DEF Holds
  <2>. QED BY <2>2, <2>4, <2>5
<1>6. Tells(entries)
  <2>1. SUFFICES ASSUME NEW t \in Triggers
                 PROVE  /\ \A i \in DOMAIN entries : entries[i].trigger = t => entries[i].kind # "start"
                        /\ o[t].incident # 0 =>
                             \E i \in DOMAIN entries : entries[i].trigger = t /\ entries[i].kind = "end"
    BY DEF Tells
  <2>2. \A i \in DOMAIN entries : entries[i].kind = "end"
    BY <1>2, <1>5
  <2>3. ASSUME o[t].incident # 0 PROVE \E i \in DOMAIN entries : entries[i].trigger = t /\ entries[i].kind = "end"
    <3>1. (t = "silence" /\ p) \/ (t = "channel_imbalance" /\ q)
      BY <2>3 DEF AlertsAssumption, p, q
    <3>. QED BY <1>2, <1>5, <3>1
  <2>. QED BY <2>2, <2>3
<1>7. \A t \in Triggers : o'[t].incident = 0
  BY <1>1
<1>. QED BY <1>1, <1>5, <1>6, <1>7, LoggedSettles

\* A dump says nothing of beginnings, ...
LEMMA DumpSettles ==
  ASSUME AlertsAssumption, AlertsInv, SettleInv, NEW k \in dumps.taken, A!DumpSent(k) PROVE SettleInv'
<1> DEFINE e == A!Entry("dump", k[1], k[2].id)
           entries == <<e>>
<1>1. A!Logged(entries) /\ UNCHANGED <<o, aEnc, closing, feeds>>
  BY DEF A!DumpSent
<1>2. e \in Entries /\ e.kind = "dump"
  <2>1. k[1] \in Triggers /\ k[2] \in Recoveries
    BY DEF AlertsInv, AlertsTyped
  <2>2. k[2].id \in Nat
    BY <2>1 DEF Recoveries
  <2>. QED BY <2>1, <2>2 DEF A!Entry, Entries, Kinds
<1> HIDE DEF e
<1>3. entries \in Seq(Entries) /\ DOMAIN entries = {1} /\ entries[1] = e
  BY <1>2
<1> HIDE DEF entries
<1>4. Tells(entries)
  BY <1>1, <1>2, <1>3 DEF Tells
<1>5. aEnc' # "running" => \A t \in Triggers : o'[t].incident = 0
  BY <1>1 DEF SettleInv, MarksFit
<1>. QED BY <1>1, <1>3, <1>4, <1>5, LoggedSettles

\* ... and a window begins an incident or ends it.
LEMMA WindowSettles ==
  ASSUME AlertsAssumption, AlertsInv, SettleInv, NEW condition, NEW edited \in BOOLEAN, A!Window(condition, edited)
  PROVE  SettleInv'
<1> DEFINE W        == [t \in Triggers |-> A!Update(aDet[t], condition = t, edited)]
           both(t)  == IF t \in Triggers
                       THEN A!One(t, W[t].justEntered, A!Entry("start", t, W[t].id))
                              \o A!One(t, W[t].justRecovered, A!Entry("end", t, W[t].id))
                       ELSE <<>>
           entry(t) == IF W[t].justEntered THEN A!Entry("start", t, W[t].id) ELSE A!Entry("end", t, W[t].id)
           some(t)  == t \in Triggers /\ (W[t].justEntered \/ W[t].justRecovered)
           entries  == (IF some("silence") THEN <<entry("silence")>> ELSE <<>>)
                         \o (IF some("channel_imbalance") THEN <<entry("channel_imbalance")>> ELSE <<>>)
<1>1. /\ o' = [t \in Triggers |-> CASE W[t].justEntered -> A!Opened(o[t], W[t].id)
                                    [] W[t].justRecovered -> A!Pruned(A!Ended(o[t], W[t].id))
                                    [] OTHER -> IF \E u \in Triggers : W[u].justRecovered THEN A!Pruned(o[t]) ELSE o[t]]
      /\ A!Logged(both("silence") \o both("channel_imbalance"))
      /\ aEnc = "running" /\ UNCHANGED <<aEnc, closing, feeds>>
  BY DEF A!Window
<1>2. \A t \in Triggers : /\ UpdatedFrom(aDet[t], W[t]) /\ aDet[t].active \in BOOLEAN /\ aDet[t].seq \in Nat
                          /\ o[t].incident = IF aDet[t].active THEN aDet[t].seq ELSE 0
                          /\ o[t] \in Orchestrated /\ (~aDet[t].active => o[t].active = "none")
  <2>1. ASSUME NEW t \in Triggers
        PROVE  /\ UpdatedFrom(aDet[t], W[t]) /\ aDet[t].active \in BOOLEAN /\ aDet[t].seq \in Nat
               /\ o[t].incident = IF aDet[t].active THEN aDet[t].seq ELSE 0
               /\ o[t] \in Orchestrated /\ (~aDet[t].active => o[t].active = "none")
    <3>1. aDet[t] \in Debouncers /\ DebouncerFits(aDet[t]) /\ (condition = t) \in BOOLEAN /\ DetectorFits(t)
      BY AlertsParts DEF AlertsInv, TriggerFits, DetectorFits
    <3>2. UpdatedFrom(aDet[t], W[t])
      BY <3>1, UpdateEffect
    <3>3. o[t] \in Orchestrated
      BY DEF AlertsInv, AlertsTyped, Orchestrated
    <3> HIDE DEF W
    <3>. QED BY <3>1, <3>2, <3>3, DebouncerParts DEF DetectorFits
  <2>. QED BY <2>1
<1> HIDE DEF W
<1>3. \A t \in Triggers : /\ W[t].justEntered \in BOOLEAN /\ W[t].justRecovered \in BOOLEAN
                          /\ ~(W[t].justEntered /\ W[t].justRecovered)
                          /\ W[t].justEntered \/ W[t].justRecovered => W[t].id \in Nat
                          /\ W[t].justEntered => W[t].id # 0
  BY <1>2 DEF UpdatedFrom
<1>4. cfg \in [now : Subscriptions, edits : Nat]
  BY DEF AlertsInv, AlertsTyped
<1>5. ASSUME NEW t \in Triggers
      PROVE  /\ W[t].justEntered => o'[t].incident # 0
             /\ ~W[t].justEntered /\ o[t].incident # 0 /\ o'[t].incident = 0 => W[t].justRecovered
  <2>1. CASE W[t].justEntered
    <3>1. o'[t] = A!Opened(o[t], W[t].id) /\ o[t].active = "none"
      BY <1>1, <1>2, <1>3, <2>1 DEF UpdatedFrom
    <3>2. W[t].id \in Nat /\ W[t].id # 0 /\ ~W[t].justRecovered /\ o[t] \in Orchestrated
      BY ONLY <1>2, <1>3, <2>1, t \in Triggers
    <3>3. A!Opened(o[t], W[t].id).incident = W[t].id
      BY ONLY <1>4, <3>1, <3>2, OpenedEffect
    <3>. QED BY ONLY <2>1, <3>1, <3>2, <3>3
  <2>2. CASE ~W[t].justEntered /\ ~W[t].justRecovered
    <3>1. o'[t] \in {o[t], A!Pruned(o[t])}
      BY <1>1, <2>2
    <3>2. o'[t].incident = o[t].incident
      BY ZenonT(60), <1>2, <3>1, PrunedEffect
    <3>. QED BY <2>2, <3>2
  <2>. QED BY <1>3, <2>1, <2>2
<1>6. both("silence") \o both("channel_imbalance") = entries
  <2>1. ASSUME NEW t PROVE both(t) = IF some(t) THEN <<entry(t)>> ELSE <<>>
    <3>1. CASE t \in Triggers
      <4>1. /\ W[t].justEntered \in BOOLEAN /\ W[t].justRecovered \in BOOLEAN
            /\ ~(W[t].justEntered /\ W[t].justRecovered)
        BY <1>3, <3>1
      <4>. QED BY <4>1, WindowEntries
    <3>2. CASE t \notin Triggers
      BY <3>2
    <3>. QED BY <3>1, <3>2
  <2> HIDE DEF both, some, entry
  <2>. QED BY <2>1
<1>7. \A t \in Triggers : some(t) => /\ entry(t) \in Entries /\ entry(t).trigger = t
                                     /\ entry(t).kind = IF W[t].justEntered THEN "start" ELSE "end"
  BY <1>3 DEF A!Entry, Entries, Kinds
<1>8. /\ entries \in Seq(Entries)
      /\ \A i \in DOMAIN entries : \E t \in Triggers : some(t) /\ entries[i] = entry(t)
      /\ \A t \in Triggers : some(t) => \E i \in DOMAIN entries : entries[i] = entry(t)
  <2>1. /\ some("silence") \in BOOLEAN /\ some("channel_imbalance") \in BOOLEAN
        /\ some("silence") => entry("silence") \in Entries /\ entry("silence").trigger = "silence"
        /\ some("channel_imbalance") =>
             entry("channel_imbalance") \in Entries /\ entry("channel_imbalance").trigger = "channel_imbalance"
    BY <1>7
  <2>2. /\ some("silence") => "silence" \in Triggers
        /\ some("channel_imbalance") => "channel_imbalance" \in Triggers
    OBVIOUS
  <2>3. /\ entries \in Seq(Entries)
        /\ \A i \in DOMAIN entries : \/ some("silence") /\ entries[i] = entry("silence")
                                     \/ some("channel_imbalance") /\ entries[i] = entry("channel_imbalance")
        /\ some("silence") => \E i \in DOMAIN entries : entries[i] = entry("silence")
        /\ some("channel_imbalance") => \E i \in DOMAIN entries : entries[i] = entry("channel_imbalance")
    <3> DEFINE one(t) == IF some(t) THEN <<entry(t)>> ELSE <<>>
    <3>1. entries = one("silence") \o one("channel_imbalance")
      OBVIOUS
    <3> HIDE DEF some, entry, entries
    <3>2. ASSUME NEW t \in {"silence", "channel_imbalance"}
          PROVE  /\ one(t) \in Seq(Entries) /\ \A j \in DOMAIN one(t) : some(t) /\ one(t)[j] = entry(t)
                 /\ some(t) => 1 \in DOMAIN one(t) /\ one(t)[1] = entry(t)
      BY <2>1, EmptySeq
    <3> HIDE DEF one
    <3>3. PICK l, r : l = one("silence") /\ r = one("channel_imbalance")
      OBVIOUS
    <3>4. /\ l \in Seq(Entries) /\ r \in Seq(Entries) /\ entries = l \o r
      BY <3>1, <3>2, <3>3
    <3>5. l \o r \in Seq(Entries) /\ Holds(l \o r, l, r)
      BY ONLY <3>4, BothEntries
    <3>6. entries \in Seq(Entries) /\ Holds(entries, l, r)
      BY <3>4, <3>5
    <3>7. /\ \A j \in DOMAIN l : some("silence") /\ l[j] = entry("silence")
          /\ \A j \in DOMAIN r : some("channel_imbalance") /\ r[j] = entry("channel_imbalance")
          /\ some("silence") => 1 \in DOMAIN l /\ l[1] = entry("silence")
          /\ some("channel_imbalance") => 1 \in DOMAIN r /\ r[1] = entry("channel_imbalance")
      BY <3>2, <3>3
    <3>8. \A i \in DOMAIN entries : \/ some("silence") /\ entries[i] = entry("silence")
                                    \/ some("channel_imbalance") /\ entries[i] = entry("channel_imbalance")
      BY ONLY <3>6, <3>7 DEF Holds
    <3>9. /\ some("silence") => \E i \in DOMAIN entries : entries[i] = entry("silence")
          /\ some("channel_imbalance") => \E i \in DOMAIN entries : entries[i] = entry("channel_imbalance")
      BY ONLY <3>6, <3>7 DEF Holds
    <3>. QED BY <3>6, <3>8, <3>9
  <2>4. \A t \in Triggers : t = "silence" \/ t = "channel_imbalance"
    BY DEF AlertsAssumption
  <2> HIDE DEF some, entry, entries
  <2>. QED BY <2>2, <2>3, <2>4
<1> HIDE DEF entries, entry, both
<1>9. Tells(entries)
  <2>1. ASSUME NEW t \in Triggers, o'[t].incident = 0, NEW i \in DOMAIN entries, entries[i].trigger = t
        PROVE  entries[i].kind # "start"
    <3>1. PICK u \in Triggers : some(u) /\ entries[i] = entry(u)
      BY <1>8
    <3>2. u = t
      BY <1>7, <2>1, <3>1
    <3>3. ~W[t].justEntered
      BY <1>5, <2>1
    <3>. QED BY <1>7, <3>1, <3>2, <3>3
  <2>2. ASSUME NEW t \in Triggers, o'[t].incident = 0, o[t].incident # 0
        PROVE  \E i \in DOMAIN entries : entries[i].trigger = t /\ entries[i].kind = "end"
    <3>1. some(t) /\ ~W[t].justEntered
      BY <1>3, <1>5, <2>2
    <3>2. entry(t).trigger = t /\ entry(t).kind = "end"
      BY <1>7, <3>1
    <3>3. PICK i \in DOMAIN entries : entries[i] = entry(t)
      BY <1>8, <3>1
    <3>. QED BY <3>2, <3>3
  <2>. QED BY <2>1, <2>2 DEF Tells
<1>. QED BY <1>1, <1>6, <1>8, <1>9, LoggedSettles

\* Every step preserves the invariant.
LEMMA SettleNext ==
  ASSUME AlertsAssumption, AlertsInv, SettleInv, [A!Next]_alerts PROVE SettleInv'
<1>1. ASSUME NEW condition, NEW edited \in BOOLEAN, A!Window(condition, edited) PROVE SettleInv'
  BY <1>1, WindowSettles
<1>2. CASE A!Elapse
  <2>1. UNCHANGED <<aLog, lost, feeds, aEnc, closing>> /\ \A t \in Triggers : o'[t].incident = o[t].incident
    BY <1>2 DEF A!Elapse, AlertsInv, AlertsTyped
  <2>. QED BY <2>1, SettleQuiet
<1>3. ASSUME NEW k \in dumps.captured, A!DumpReady(k) PROVE SettleInv'
  <2>1. UNCHANGED <<aLog, lost, feeds, aEnc, closing>> /\ \A t \in Triggers : o'[t].incident = o[t].incident
    BY <1>3 DEF A!DumpReady, AlertsInv, AlertsTyped
  <2>. QED BY <2>1, SettleQuiet
<1>4. ASSUME NEW k \in dumps.taken, A!DumpSent(k) PROVE SettleInv'
  BY <1>4, DumpSettles
<1>5. ASSUME NEW how \in Subscriptions, A!Edit(how) PROVE SettleInv'
  <2>1. UNCHANGED <<aLog, lost, feeds, aEnc, closing, o>>
    BY <1>5 DEF A!Edit
  <2>. QED BY <2>1, SettleQuiet
<1>6. CASE A!ResetDetection \/ A!Start
  BY <1>6, ResetSettles
<1>7. CASE A!DrainBegin \/ A!CloseBegin \/ A!CloseQueues
  <2>1. UNCHANGED <<aLog, lost, feeds, o>>
    BY <1>7 DEF A!DrainBegin, A!CloseBegin, A!CloseQueues
  <2>. QED BY <1>7, <2>1, SettleQuiet
<1>8. CASE A!DrainSend \/ A!CloseSend
  BY <1>8, MarkSettles
<1>9. ASSUME NEW ok \in BOOLEAN, A!LogWorker(ok) PROVE SettleInv'
  BY <1>9, WorkerSettles
<1>10. ASSUME NEW t \in Triggers, NEW ok \in BOOLEAN, A!Deliver(t, ok) PROVE SettleInv'
  <2>1. UNCHANGED <<aLog, lost, aEnc, closing, o>> /\ (UNCHANGED feeds \/ \E n : feeds' = [feeds EXCEPT !.channel[t] = n])
    BY <1>10 DEF A!Deliver
  <2>2. UNCHANGED feeds.log
    BY SMTT(60), <2>1 DEF AlertsInv, AlertsTyped
  <2>. QED BY <2>1, <2>2, SettleQuiet
<1>11. CASE UNCHANGED alerts
  <2>1. UNCHANGED <<aLog, lost, feeds, aEnc, closing, o>>
    BY <1>11 DEF alerts
  <2>. QED BY <2>1, SettleQuiet
<1>. QED BY <1>1, <1>2, <1>3, <1>4, <1>5, <1>6, <1>7, <1>8, <1>9, <1>10, <1>11 DEF A!Next

\* Nothing is owed.
LEMMA SettleInit == ASSUME A!Init PROVE SettleInv
<1>1. /\ aLog = <<>> /\ DOMAIN aLog = {} /\ aEnc = "running" /\ closing = "no" /\ lost = FALSE
      /\ \A t \in Triggers : feeds.log[t].phase = "none"
  BY DEF A!Init, A!NoFeeds, A!NoIncident, A!Nil
<1>2. \A t : Of(aLog, t) = {}
  BY <1>1 DEF Of
<1>. QED BY <1>1, <1>2 DEF SettleInv, MarksFit, Settling, Followed, A!Closed

-------------------------------------------------------------------------------
(* Alerts: the newest                                                      *)

Remembered == newest = [t \in Triggers |-> [raised |-> newest[t].raised, taken |-> newest[t].taken]]

\* Whatever is queued, it is queued last.
LEMMA EnqueuedLast ==
  ASSUME AlertsAssumption, NEW q \in Seq(Alerts), NEW x
  PROVE  LET u == A!Enqueued(q, x) IN u # <<>> /\ u[Len(u)] = x
<1> DEFINE T == Alerts \cup {x}
           r == IF Len(q) < QueueDepth THEN q ELSE Tail(q)
           u == Append(r, x)
<1>1. q \in Seq(T)
  BY SeqMonotonic
<1>2. r \in Seq(T)
  <2>1. CASE Len(q) < QueueDepth
    BY <1>1, <2>1
  <2>2. CASE ~(Len(q) < QueueDepth)
    <3>1. q # <<>>
      BY <2>2, EmptySeq, AlertsAssumption DEF AlertsAssumption
    <3>. QED BY <1>1, <2>2, <3>1, HeadTailProperties
  <2>. QED BY <2>1, <2>2
<1> HIDE DEF r
<1>3. x \in T
  OBVIOUS
<1> HIDE DEF T
<1>4. u \in Seq(T) /\ Len(u) = Len(r) + 1 /\ u[Len(r) + 1] = x /\ Len(r) \in Nat
  BY <1>2, <1>3, AppendProperties, LenProperties
<1> HIDE DEF u
<1>5. u # <<>> /\ u[Len(u)] = x
  BY <1>4, EmptySeq
<1>. QED BY <1>5 DEF A!Enqueued, u, r

\* An alert that goes out is the newest, ...
LEMMA AlertedNewest ==
  ASSUME AlertsAssumption, AlertsInv, Remembered, A!NewestKept, NEW alert, A!Alerted(alert)
  PROVE  Remembered' /\ A!NewestKept'
<1>1. /\ aQueue' = [t \in Triggers |-> IF alert[t] # A!NoAlert /\ ~A!Closed
                                       THEN A!Enqueued(aQueue[t], alert[t]) ELSE aQueue[t]]
      /\ newest' = [t \in Triggers |-> IF alert[t] # A!NoAlert /\ ~A!Closed
                                       THEN [newest[t] EXCEPT !.raised = alert[t]] ELSE newest[t]]
  BY DEF A!Alerted
<1>2. ASSUME NEW t \in Triggers
      PROVE  /\ newest'[t] = [raised |-> newest'[t].raised, taken |-> newest'[t].taken]
             /\ newest'[t].raised = IF aQueue'[t] = <<>> THEN newest'[t].taken ELSE aQueue'[t][Len(aQueue'[t])]
  <2>1. newest[t] = [raised |-> newest[t].raised, taken |-> newest[t].taken] /\ aQueue[t] \in Seq(Alerts)
    BY DEF Remembered, AlertsInv, AlertsTyped
  <2>2. CASE alert[t] # A!NoAlert /\ ~A!Closed
    <3>1. aQueue'[t] = A!Enqueued(aQueue[t], alert[t]) /\ newest'[t] = [newest[t] EXCEPT !.raised = alert[t]]
      BY <1>1, <2>2
    <3>2. aQueue'[t] # <<>> /\ aQueue'[t][Len(aQueue'[t])] = alert[t]
      BY <2>1, <3>1, EnqueuedLast
    <3>3. newest'[t] = [raised |-> alert[t], taken |-> newest[t].taken]
      BY <2>1, <3>1
    <3>. QED BY <3>2, <3>3
  <2>3. CASE ~(alert[t] # A!NoAlert /\ ~A!Closed)
    <3>1. aQueue'[t] = aQueue[t] /\ newest'[t] = newest[t]
      BY <1>1, <2>3
    <3>. QED BY <2>1, <3>1 DEF A!NewestKept
  <2>. QED BY <2>2, <2>3
<1>3. newest' = [t \in Triggers |-> newest'[t]]
  BY <1>1
<1>. QED BY <1>2, <1>3 DEF Remembered, A!NewestKept

\* ... and the channel's worker takes the oldest.
LEMMA DeliverNewest ==
  ASSUME AlertsInv, Remembered, A!NewestKept, NEW t \in Triggers, NEW ok \in BOOLEAN, A!Deliver(t, ok)
  PROVE  Remembered' /\ A!NewestKept'
<1>1. /\ aQueue[t] # <<>> /\ aQueue' = [aQueue EXCEPT ![t] = Tail(aQueue[t])]
      /\ newest' = [newest EXCEPT ![t].taken = Head(aQueue[t])]
  BY DEF A!Deliver
<1>2. aQueue \in [Triggers -> Seq(Alerts)] /\ aQueue[t] \in Seq(Alerts)
  BY DEF AlertsInv, AlertsTyped
<1>3. /\ \A u \in Triggers : u # t => newest'[u] = newest[u] /\ aQueue'[u] = aQueue[u]
      /\ newest'[t] = [raised |-> newest[t].raised, taken |-> Head(aQueue[t])] /\ aQueue'[t] = Tail(aQueue[t])
      /\ newest' = [u \in Triggers |-> newest'[u]]
  <2>1. DOMAIN newest = Triggers /\ newest[t] = [raised |-> newest[t].raised, taken |-> newest[t].taken]
    BY DEF Remembered
  <2>2. newest'[t] = [newest[t] EXCEPT !.taken = Head(aQueue[t])]
    BY <1>1, <2>1
  <2>3. newest'[t] = [raised |-> newest[t].raised, taken |-> Head(aQueue[t])]
    BY <2>1, <2>2
  <2>4. newest' = [u \in Triggers |-> newest'[u]] /\ \A u \in Triggers : u # t => newest'[u] = newest[u]
    BY <1>1, <2>1
  <2>5. aQueue'[t] = Tail(aQueue[t]) /\ \A u \in Triggers : u # t => aQueue'[u] = aQueue[u]
    BY <1>1, <1>2
  <2>. QED BY <2>3, <2>4, <2>5
<1>4. newest[t].raised = aQueue[t][Len(aQueue[t])]
  BY <1>1 DEF A!NewestKept
<1>5. /\ Len(aQueue[t]) \in Nat /\ Len(aQueue[t]) # 0 /\ Head(aQueue[t]) = aQueue[t][1]
      /\ Tail(aQueue[t]) \in Seq(Alerts) /\ Len(Tail(aQueue[t])) = Len(aQueue[t]) - 1
      /\ \A i \in 1..Len(Tail(aQueue[t])) : Tail(aQueue[t])[i] = aQueue[t][i + 1]
  BY <1>1, <1>2, HeadTailProperties, LenProperties, EmptySeq
<1>6. newest'[t].raised = IF aQueue'[t] = <<>> THEN newest'[t].taken ELSE aQueue'[t][Len(aQueue'[t])]
  <2>1. PICK q, r : q = aQueue[t] /\ r = Tail(aQueue[t])
    OBVIOUS
  <2>2. /\ Len(q) \in Nat /\ Len(q) # 0 /\ Len(r) = Len(q) - 1 /\ r \in Seq(Alerts)
        /\ \A i \in 1..Len(r) : r[i] = q[i + 1]
        /\ newest'[t].raised = q[Len(q)] /\ newest'[t].taken = q[1] /\ aQueue'[t] = r
    BY <1>3, <1>4, <1>5, <2>1
  <2>3. CASE r = <<>>
    <3>1. Len(r) = 0
      BY <2>3, EmptySeq
    <3>2. Len(q) = 1
      BY <2>2, <3>1
    <3>. QED BY <2>2, <2>3, <3>2
  <2>4. CASE r # <<>>
    <3>1. Len(r) # 0
      BY <2>2, <2>4, EmptySeq
    <3>2. Len(r) \in 1..Len(r) /\ Len(r) + 1 = Len(q)
      BY <2>2, <3>1
    <3>3. r[Len(r)] = q[Len(q)]
      BY <2>2, <3>2
    <3>. QED BY <2>2, <2>4, <3>3
  <2>. QED BY <2>3, <2>4
<1>7. \A u \in Triggers : newest'[u] = [raised |-> newest'[u].raised, taken |-> newest'[u].taken]
  BY <1>3 DEF Remembered
<1>8. Remembered'
  BY <1>3, <1>7 DEF Remembered
<1>9. ASSUME NEW u \in Triggers
      PROVE  newest'[u].raised = IF aQueue'[u] = <<>> THEN newest'[u].taken ELSE aQueue'[u][Len(aQueue'[u])]
  BY <1>3, <1>6 DEF A!NewestKept
<1>. QED BY <1>8, <1>9 DEF A!NewestKept

\* Nothing else concerns the queues of a channel.
LEMMA NewestNext ==
  ASSUME AlertsAssumption, AlertsInv, Remembered, A!NewestKept, [A!Next]_alerts PROVE Remembered' /\ A!NewestKept'
<1>1. CASE UNCHANGED <<newest, aQueue>>
  BY <1>1 DEF Remembered, A!NewestKept
<1>2. CASE \E alert : A!Alerted(alert)
  BY <1>2, AlertedNewest
<1>3. CASE \E t \in Triggers, ok \in BOOLEAN : A!Deliver(t, ok)
  BY <1>3, DeliverNewest
<1>4. \/ UNCHANGED <<newest, aQueue>>
      \/ \E alert : A!Alerted(alert)
      \/ \E t \in Triggers, ok \in BOOLEAN : A!Deliver(t, ok)
  <2>1. ASSUME NEW condition, NEW edited, A!Window(condition, edited) PROVE \E alert : A!Alerted(alert)
    BY <2>1 DEF A!Window
  <2>2. ASSUME NEW k, A!DumpSent(k) PROVE \E alert : A!Alerted(alert)
    BY <2>2 DEF A!DumpSent
  <2>3. ASSUME A!Elapse \/ (\E k : A!DumpReady(k)) \/ (\E c0 : A!Edit(c0)) \/ A!ResetDetection \/ A!DrainBegin
               \/ A!DrainSend \/ A!Start \/ A!CloseBegin \/ A!CloseQueues \/ A!CloseSend
               \/ (\E ok : A!LogWorker(ok)) \/ UNCHANGED alerts
        PROVE  UNCHANGED <<newest, aQueue>>
    BY <2>3 DEF A!Elapse, A!DumpReady, A!Edit, A!ResetDetection, A!DrainBegin, A!DrainSend, A!Start, A!CloseBegin,
                A!CloseQueues, A!CloseSend, A!LogWorker, alerts
  <2>. QED BY <2>1, <2>2, <2>3 DEF A!Next
<1>. QED BY <1>1, <1>2, <1>3, <1>4

-------------------------------------------------------------------------------
(* Overdue: the invariant                                                  *)

Goroutines == {"deliver", "watch"}

OverdueTyped ==
  /\ late \in BOOLEAN /\ overdueMu \in Goroutines \cup {None} /\ seen \in [Goroutines -> BOOLEAN]
  /\ at \in [Goroutines -> {"rest", "check", "apply", "log", "tell", "end"}]
  /\ overdueOpen \in BOOLEAN /\ logOff \in BOOLEAN /\ toldOff \in BOOLEAN
  /\ uFiles \in [active : BOOLEAN \cup {None}, rotated : BOOLEAN \cup {None}]
  /\ uQueue \in BOOLEAN \cup {None} /\ uTold \in BOOLEAN

\* overdueMu belongs to the goroutine that is past its look at the tickets; what it has
\* applied is what the worker has.
OneReports ==
  \A g0 \in Goroutines :
    /\ at[g0] \in {"apply", "log", "tell"} <=> overdueMu = g0
    /\ at[g0] \in {"log", "tell"} => overdueOpen = seen[g0]

\* Unless its event is still to come, the event log has the incident as the worker has it;
\* unless its alert is, what the channel was given last or will be given says the same.
LogFollows == (\A g0 \in Goroutines : at[g0] # "log") /\ ~logOff => U!UploadOverdueOpen(uFiles) = overdueOpen
ToldFollows ==
  (\A g0 \in Goroutines : at[g0] \notin {"log", "tell"}) /\ ~toldOff =>
    (IF uQueue = None THEN uTold ELSE uQueue) = overdueOpen

\* An incident that nothing supports any longer ends with a check that is due or has seen
\* that; one that has not seen it is followed by the check after the delivery.
EndIsDue ==
  /\ overdueOpen /\ ~late =>
       (\E g0 \in Goroutines : at[g0] = "check" \/ (at[g0] = "apply" /\ ~seen[g0]))
  /\ \A g0 \in Goroutines : at[g0] = "apply" /\ seen[g0] /\ ~late => at["deliver"] = "check"

OverdueInv == OverdueTyped /\ OneReports /\ LogFollows /\ ToldFollows /\ EndIsDue

\* Nothing has waited yet.
LEMMA OverdueInit == ASSUME U!Init PROVE OverdueInv
<1>1. OverdueTyped
  <2>1. /\ at = [deliver |-> "rest", watch |-> "check"] /\ seen = [h \in Goroutines |-> FALSE]
        /\ late = FALSE /\ overdueMu = None /\ overdueOpen = FALSE /\ logOff = FALSE /\ toldOff = FALSE
        /\ uFiles = [active |-> None, rotated |-> None] /\ uQueue = None /\ uTold = FALSE
    BY DEF U!Init, U!Workers, Goroutines
  <2>2. at \in [Goroutines -> {"rest", "check", "apply", "log", "tell", "end"}]
    BY <2>1 DEF Goroutines
  <2>3. uFiles \in [active : BOOLEAN \cup {None}, rotated : BOOLEAN \cup {None}]
    BY <2>1
  <2>4. seen \in [Goroutines -> BOOLEAN]
    BY <2>1
  <2>. QED BY <2>1, <2>2, <2>3, <2>4 DEF OverdueTyped
<1>2. OneReports /\ EndIsDue
  BY OverdueAssumption DEF U!Init, OneReports, EndIsDue, Goroutines, U!Workers
<1>3. LogFollows /\ ToldFollows
  BY OverdueAssumption DEF U!Init, LogFollows, ToldFollows, U!UploadOverdueOpen
<1>. QED BY <1>1, <1>2, <1>3 DEF OverdueInv

\* What the goroutines do between their checks, and the channel's worker.
LEMMA OverdueRest ==
  ASSUME OverdueInv, U!Wait \/ U!Process \/ U!Tick \/ (\E g0 \in Goroutines : U!End(g0)) \/ U!Stop PROVE OverdueInv'
<1>1. UNCHANGED <<overdueMu, seen, overdueOpen, uFiles, uQueue, uTold, logOff, toldOff>>
  BY DEF U!Wait, U!Process, U!Tick, U!End, U!Stop
<1>2. late' \in BOOLEAN /\ at' \in [Goroutines -> {"rest", "check", "apply", "log", "tell", "end"}]
  BY DEF OverdueInv, OverdueTyped, U!Wait, U!Process, U!Tick, U!End, U!Stop
<1>3. \A g0 \in Goroutines : at'[g0] = at[g0] \/ (at[g0] = "rest" /\ at'[g0] \in {"check", "end"})
  BY DEF OverdueInv, OverdueTyped, Goroutines, U!Wait, U!Process, U!Tick, U!End, U!Stop
<1>4. OverdueTyped'
  BY <1>1, <1>2 DEF OverdueInv, OverdueTyped
<1>5. OneReports' /\ LogFollows' /\ ToldFollows'
  BY <1>1, <1>3 DEF OverdueInv, OneReports, LogFollows, ToldFollows
<1>6. EndIsDue'
  <2>1. late' \/ (late' = late) \/ at'["deliver"] = "check"
    BY DEF OverdueInv, OverdueTyped, Goroutines, U!Wait, U!Process, U!Tick, U!End, U!Stop
  <2>. QED BY <1>1, <1>3, <2>1 DEF OverdueInv, EndIsDue, Goroutines
<1>. QED BY <1>4, <1>5, <1>6 DEF OverdueInv

\* A check.
LEMMA OverdueCheck ==
  ASSUME OverdueInv, NEW g0 \in Goroutines, U!Evaluate(g0) \/ U!Apply(g0) \/ U!Log(g0) \/ U!Tell(g0) PROVE OverdueInv'
<1>0. /\ OverdueTyped /\ OneReports /\ LogFollows /\ ToldFollows /\ EndIsDue
      /\ None \notin BOOLEAN /\ None \notin Goroutines
  BY OverdueAssumption DEF OverdueInv, Goroutines
<1>1. CASE U!Evaluate(g0)
  <2>1. /\ at[g0] = "check" /\ overdueMu = None /\ overdueMu' = g0 /\ seen' = [seen EXCEPT ![g0] = late]
        /\ at' = [at EXCEPT ![g0] = "apply"]
        /\ UNCHANGED <<late, overdueOpen, uFiles, uQueue, uTold, logOff, toldOff>>
    BY <1>1 DEF U!Evaluate
  <2>2. OverdueTyped'
    BY <1>0, <2>1 DEF OverdueTyped
  <2>3. /\ at'[g0] = "apply" /\ seen'[g0] = late
        /\ \A h \in Goroutines : h # g0 => at'[h] = at[h] /\ seen'[h] = seen[h] /\ at[h] \notin {"apply", "log", "tell"}
    BY <1>0, <2>1 DEF OverdueTyped, OneReports
  <2>4. OneReports' /\ LogFollows' /\ ToldFollows'
    BY <1>0, <2>1, <2>3 DEF OneReports, LogFollows, ToldFollows
  <2>5. EndIsDue'
    BY <1>0, <2>1, <2>3 DEF EndIsDue, OverdueTyped
  <2>. QED BY <2>2, <2>4, <2>5 DEF OverdueInv
<1>2. CASE U!Apply(g0)
  <2>1. /\ at[g0] = "apply" /\ overdueOpen' = seen[g0]
        /\ \/ seen[g0] # overdueOpen /\ at' = [at EXCEPT ![g0] = "log"] /\ UNCHANGED overdueMu
           \/ seen[g0] = overdueOpen /\ at' = [at EXCEPT ![g0] = "rest"] /\ overdueMu' = None
        /\ UNCHANGED <<late, seen, uFiles, uQueue, uTold, logOff, toldOff>>
    BY <1>2 DEF U!Apply
  <2>2. OverdueTyped'
    BY <1>0, <2>1 DEF OverdueTyped
  <2>3. /\ at'[g0] \in {"log", "rest"} /\ (at'[g0] = "rest" => overdueOpen' = overdueOpen)
        /\ at'[g0] = "log" <=> overdueMu' = g0
        /\ \A h \in Goroutines : h # g0 => at'[h] = at[h] /\ at[h] \notin {"apply", "log", "tell"} /\ overdueMu' # h
    BY <1>0, <2>1 DEF OverdueTyped, OneReports
  <2>4. OneReports'
    BY <1>0, <2>1, <2>3 DEF OneReports
  <2>5. LogFollows' /\ ToldFollows'
    BY <1>0, <2>1, <2>3 DEF LogFollows, ToldFollows
  <2>6. EndIsDue'
    BY <1>0, <2>1, <2>3 DEF EndIsDue, OverdueTyped, Goroutines
  <2>. QED BY <2>2, <2>4, <2>5, <2>6 DEF OverdueInv
<1>3. CASE U!Log(g0)
  <2>1. /\ at[g0] = "log" /\ at' = [at EXCEPT ![g0] = "tell"]
        /\ \/ uFiles' = [uFiles EXCEPT !.active = seen[g0]] /\ logOff' = FALSE
           \/ UNCHANGED uFiles /\ logOff' = TRUE
        /\ UNCHANGED <<late, overdueMu, seen, overdueOpen, uQueue, uTold, toldOff>>
    BY <1>3 DEF U!Log
  <2>2. seen[g0] \in BOOLEAN /\ uFiles \in [active : BOOLEAN \cup {None}, rotated : BOOLEAN \cup {None}]
    BY <1>0 DEF OverdueTyped
  <2>3. uFiles' \in [active : BOOLEAN \cup {None}, rotated : BOOLEAN \cup {None}] /\ logOff' \in BOOLEAN
        /\ (~logOff' => uFiles'.active = seen[g0])
    BY <2>1, <2>2
  <2>4. OverdueTyped'
    BY <1>0, <2>1, <2>3 DEF OverdueTyped
  <2>5. at'[g0] = "tell" /\ \A h \in Goroutines : h # g0 => at'[h] = at[h] /\ at[h] \notin {"apply", "log", "tell"}
    BY <1>0, <2>1 DEF OverdueTyped, OneReports
  <2>6. OneReports' /\ ToldFollows' /\ overdueOpen = seen[g0]
    BY <1>0, <2>1, <2>5 DEF OneReports, ToldFollows
  <2>7. LogFollows'
    <3>1. ~logOff' => uFiles'.active # None
      BY <1>0, <2>2, <2>3
    <3>. QED BY <2>1, <2>3, <2>6, <3>1 DEF LogFollows, U!UploadOverdueOpen
  <2>8. EndIsDue'
    BY <1>0, <2>1, <2>5 DEF EndIsDue
  <2>. QED BY <2>4, <2>6, <2>7, <2>8 DEF OverdueInv
<1>4. CASE U!Tell(g0)
  <2>1. /\ at[g0] = "tell" /\ at' = [at EXCEPT ![g0] = "rest"] /\ overdueMu' = None
        /\ \/ toldOff' = TRUE /\ UNCHANGED uQueue
           \/ uQueue' = seen[g0] /\ toldOff' = FALSE
        /\ UNCHANGED <<late, seen, overdueOpen, uFiles, uTold, logOff>>
    BY <1>4 DEF U!Tell
  <2>2. seen[g0] \in BOOLEAN /\ overdueOpen = seen[g0]
    BY <1>0, <2>1 DEF OverdueTyped, OneReports
  <2>3. OverdueTyped'
    BY <1>0, <2>1, <2>2 DEF OverdueTyped
  <2>4. at'[g0] = "rest" /\ \A h \in Goroutines : h # g0 => at'[h] = at[h] /\ at[h] \notin {"apply", "log", "tell"}
    BY <1>0, <2>1 DEF OverdueTyped, OneReports
  <2>5. OneReports' /\ LogFollows'
    BY <1>0, <2>1, <2>4 DEF OneReports, LogFollows
  <2>6. ToldFollows'
    BY <1>0, <2>1, <2>2 DEF ToldFollows
  <2>7. EndIsDue'
    BY <1>0, <2>1, <2>4 DEF EndIsDue
  <2>. QED BY <2>3, <2>5, <2>6, <2>7 DEF OverdueInv
<1>. QED BY <1>1, <1>2, <1>3, <1>4

\* The channel's worker, a rotation of the log and the end of the process.
LEMMA OverdueElsewhere ==
  ASSUME OverdueInv, U!Send \/ U!Rotate \/ U!Close \/ U!StartUploads PROVE OverdueInv'
<1>0. /\ OverdueTyped /\ OneReports /\ LogFollows /\ ToldFollows /\ EndIsDue
      /\ None \notin BOOLEAN /\ None \notin Goroutines
  BY OverdueAssumption DEF OverdueInv, Goroutines
<1>1. CASE U!Send \/ U!Close
  <2>1. /\ UNCHANGED <<late, overdueMu, at, seen, overdueOpen, uFiles, logOff>>
        /\ \/ uQueue # None /\ uTold' = uQueue /\ uQueue' = None /\ UNCHANGED toldOff
           \/ uQueue' = None /\ UNCHANGED uTold /\ toldOff' = (toldOff \/ uQueue # None)
    BY <1>1 DEF U!Send, U!Close
  <2>2. OverdueTyped'
    BY <1>0, <2>1 DEF OverdueTyped
  <2>3. OneReports' /\ LogFollows' /\ EndIsDue'
    BY <1>0, <2>1 DEF OneReports, LogFollows, EndIsDue
  <2>4. ToldFollows'
    BY <1>0, <2>1 DEF ToldFollows, OverdueTyped
  <2>. QED BY <2>2, <2>3, <2>4 DEF OverdueInv
<1>2. CASE U!Rotate
  <2>1. /\ UNCHANGED <<late, overdueMu, at, seen, overdueOpen, uQueue, uTold, toldOff>>
        /\ uFiles' = [active |-> None, rotated |-> uFiles.active]
        /\ logOff' = (logOff \/ U!UploadOverdueOpen(uFiles') # U!UploadOverdueOpen(uFiles))
    BY <1>2 DEF U!Rotate
  <2>2. OverdueTyped'
    BY <1>0, <2>1 DEF OverdueTyped
  <2>3. OneReports' /\ ToldFollows' /\ EndIsDue'
    BY <1>0, <2>1 DEF OneReports, ToldFollows, EndIsDue
  <2>4. LogFollows'
    BY <1>0, <2>1 DEF LogFollows
  <2>. QED BY <2>2, <2>3, <2>4 DEF OverdueInv
<1>3. CASE U!StartUploads
  <2>1. /\ UNCHANGED <<late, uFiles, uTold>> /\ overdueMu' = None /\ uQueue' = None
        /\ at' = [deliver |-> "rest", watch |-> "check"] /\ seen' = [h \in Goroutines |-> FALSE]
        /\ overdueOpen' \in {U!UploadOverdueOpen(uFiles), FALSE}
        /\ logOff' = (overdueOpen' # U!UploadOverdueOpen(uFiles)) /\ toldOff' = (overdueOpen' # uTold)
    BY <1>3 DEF U!StartUploads, U!Workers, Goroutines
  <2>2. U!UploadOverdueOpen(uFiles) \in BOOLEAN
    BY <1>0 DEF OverdueTyped, U!UploadOverdueOpen
  <2>3. overdueOpen' \in BOOLEAN
    BY <2>1, <2>2
  <2>4. at' \in [Goroutines -> {"rest", "check", "apply", "log", "tell", "end"}] /\ at'["watch"] = "check"
        /\ \A h \in Goroutines : at'[h] \in {"rest", "check"}
    BY <2>1 DEF Goroutines
  <2>5. OverdueTyped'
    BY <1>0, <2>1, <2>3, <2>4 DEF OverdueTyped
  <2>6. OneReports' /\ EndIsDue'
    BY <1>0, <2>1, <2>4 DEF OneReports, EndIsDue, Goroutines
  <2>7. LogFollows' /\ ToldFollows'
    BY <2>1 DEF LogFollows, ToldFollows
  <2>. QED BY <2>5, <2>6, <2>7 DEF OverdueInv
<1>. QED BY <1>1, <1>2, <1>3

\* Every step preserves the invariant.
LEMMA OverdueNext == ASSUME OverdueInv, [U!Next]_overdue PROVE OverdueInv'
<1>1. CASE UNCHANGED overdue
  <2>1. UNCHANGED <<late, overdueMu, at, seen, overdueOpen, uFiles, uQueue, uTold, logOff, toldOff>>
    BY <1>1 DEF overdue
  <2>. QED BY <2>1 DEF OverdueInv, OverdueTyped, OneReports, LogFollows, ToldFollows, EndIsDue
<1>2. CASE U!Wait \/ U!Process \/ U!Tick \/ U!Stop
  BY <1>2, OverdueRest
<1>3. ASSUME NEW g0 \in U!Workers, U!Check(g0) PROVE OverdueInv'
  BY <1>3, OverdueRest, OverdueCheck DEF U!Check, U!Workers, Goroutines
<1>4. CASE U!Send \/ U!Rotate \/ U!Close \/ U!StartUploads
  BY <1>4, OverdueElsewhere
<1>. QED BY <1>1, <1>2, <1>3, <1>4 DEF U!Next

\* Between checks everyone knows, and an incident ends in time.
LEMMA OverdueSound == ASSUME OverdueInv PROVE U!OverdueFollows /\ U!ClearsInTime
<1>1. U!OverdueFollows
  BY DEF OverdueInv, LogFollows, ToldFollows, U!OverdueFollows, U!Workers, Goroutines
<1>2. U!ClearsInTime
  BY DEF OverdueInv, EndIsDue, U!ClearsInTime, U!Workers, Goroutines
<1>. QED BY <1>1, <1>2

-------------------------------------------------------------------------------
(* What is settled                                                         *)

\* The alert raised last, the ends in the log and the overdue incident, however deep the
\* queues are: a full queue keeps the newest alert, a stopped encoder leaves no incident
\* open in the log unless an entry was dropped, Close returns with an empty queue, and the
\* log and the channel follow the upload worker across rotations and restarts.
THEOREM AlertsSettled == ServicesSpec => []AlertsSettle
<1> DEFINE Sound == /\ which = "alerts" => AlertsInv /\ SettleInv /\ Remembered /\ A!NewestKept
                    /\ which = "overdue" => OverdueInv
<1>1. ServicesInit => Sound
  <2>1. ASSUME ServicesInit, which = "alerts" PROVE AlertsInv /\ SettleInv /\ Remembered /\ A!NewestKept
    <3>1. A!Init
      BY <2>1 DEF ServicesInit
    <3>2. Remembered /\ A!NewestKept
      BY <3>1 DEF A!Init, Remembered, A!NewestKept
    <3>. QED BY <3>1, <3>2, AlertsInit, SettleInit, AlertsAssumption
  <2>2. ASSUME ServicesInit, which = "overdue" PROVE OverdueInv
    BY <2>2, OverdueInit DEF ServicesInit
  <2>. QED BY <2>1, <2>2
<1>2. Sound /\ [ServicesNext]_servicesVars => Sound'
  <2>1. SUFFICES ASSUME Sound, [ServicesNext]_servicesVars PROVE Sound'
    OBVIOUS
  <2>2. /\ UNCHANGED which
        /\ which = "alerts" => [A!Next]_alerts
        /\ which = "overdue" => [U!Next]_overdue
    BY <2>1 DEF ServicesNext, servicesVars
  <2>3. CASE which = "alerts"
    BY <2>1, <2>2, <2>3, AlertsNext, SettleNext, NewestNext, AlertsAssumption
  <2>4. CASE which = "overdue"
    BY <2>1, <2>2, <2>4, OverdueNext
  <2>. QED BY <2>2, <2>3, <2>4
<1>3. Sound => AlertsSettle
  BY SettledLog, OverdueSound DEF AlertsSettle
<1> HIDE DEF Sound
<1>. QED BY <1>1, <1>2, <1>3, PTL DEF ServicesSpec

===============================================================================
