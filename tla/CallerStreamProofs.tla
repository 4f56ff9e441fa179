-------------------------- MODULE CallerStreamProofs --------------------------
(***************************************************************************)
(* Proofs about CallerStream for any number of goroutines that start,      *)
(* watch and retry the stream, any number that stop it, any number of      *)
(* entries and any number of retries.  Good is inductive on its own; Alone *)
(* is inductive with it when only one goroutine starts the stream.         *)
(***************************************************************************)
EXTENDS CallerStream, TLAPS

-------------------------------------------------------------------------------
(* What every reachable state satisfies                                    *)

\* What the constants have to be: there is no entry called None.
CallerAssumption == MaxRetries \in Nat /\ None \notin Entries

\* The states a stream goes through.
States == {"none", "starting", "running", "stopping", "stopped", "error"}

\* The types of the parts of TypeOK: an entry, ...
Streams ==
  [state : States, pub : BOOLEAN, cancelled : BOOLEAN, writer : BOOLEAN, open : BOOLEAN,
   proc : {"none", "alive", "ended", "failed"},
   retry : Retries, kept : Retries, stops : Nat, over : BOOLEAN]

\* ... where a goroutine has a placeholder without a process, has an entry that is not
\* published yet, or watches an entry, ...
Launching == {"release", "drain", "exec"}
Starting  == Launching \cup {"publish", "reap"}
Watching  == {"begin", "top", "wait", "exit", "reset", "fail", "report", "check", "count", "backoff", "recheck",
              "recount", "remove", "drop"}

\* ... a goroutine that starts or watches, ...
Goroutines ==
  [pc : {"idle", "claim"} \cup Starting \cup Watching, own : Entries \cup {None}, old : Entries \cup {None},
   monitor : BOOLEAN, chan : BOOLEAN]

\* ... a goroutine that stops, ...
StopCalls == [pc : {"idle", "begin", "kill", "release", "delete", "clear"}, entry : Entries \cup {None}]

\* ... and all of it.
Managers ==
  [cur : Entries \cup {None}, entry : [Entries -> Streams], work : [Workers -> Goroutines],
   stop : [Stoppers -> StopCalls],
   enc : {"stopped", "starting", "running", "stopping"}, enabled : BOOLEAN, wish : {"on", "off"}]

\* The entry somebody refers to is not a blank one.
Exists(v, x) == x # None => v.entry[x].state # "none"

\* Where a goroutine is agrees with the entry it holds: one it starts has not been
\* published, one it watches has; what it replaces it holds until it has drained it.
WorkerFits(v, w) ==
  LET g == v.work[w]
      x == g.own
  IN /\ Exists(v, x) /\ Exists(v, g.old)
     /\ g.old # None => g.pc \in {"release", "drain"}
     /\ g.pc = "idle" => x = None
     /\ g.pc = "claim" => (g.monitor <=> x # None)
     /\ g.pc \in Starting \cup Watching => x # None
     /\ g.pc \in Watching \ {"begin"} => g.monitor
     /\ g.pc \in Starting => ~v.entry[x].pub
     /\ g.pc \in Launching => v.entry[x].proc = "none"
     /\ x # None /\ g.pc \notin Starting => v.entry[x].pub

\* No placeholder belongs to two goroutines.
OneStarts(v) ==
  \A w, u \in Workers :
    v.work[w].pc \in Starting /\ v.work[u].pc \in Starting /\ v.work[w].own = v.work[u].own => w = u

\* An entry agrees with itself: what runs or stops has been published, what stops is
\* cancelled, and of what a Stop has reported nothing is left.
EntryFits(v, x) ==
  LET e == v.entry[x] IN
  /\ e.state \in {"running", "stopping"} => e.pub
  /\ e.state = "stopping" => e.cancelled
  /\ e.writer => e.pub
  /\ e.state = "none" => e.proc = "none" /\ ~e.pub /\ e.stops = 0
  /\ e.stops > 0 => ~e.writer /\ (e.pub => e.proc # "alive") /\ (e.pub \/ v.cur # x)

\* A process that runs, or is about to, is not the managed one and has not been told
\* to end; ...
Adrift(v, x) ==
  /\ v.cur # x /\ ~v.entry[x].cancelled
  /\ v.entry[x].proc = "alive" \/ \E w \in Workers : v.work[w].pc \in Launching /\ v.work[w].own = x

\* ... that happens only while the goroutine that replaced it is about to tell it.
Replaced(v, x) == \E w \in Workers : v.work[w].pc = "release" /\ v.work[w].old = x

\* A stopper holds an entry that exists, is cancelled and will not be published later.
StopFits(v, s) ==
  LET g == v.stop[s]
      x == g.entry
  IN /\ Exists(v, x)
     /\ x # None => v.entry[x].cancelled /\ (v.entry[x].pub \/ v.cur # x)
     /\ g.pc \in {"kill", "release", "delete"} => x # None

\* While StopAll runs the encoder is stopping, and what is in the map once its Stop has
\* looked is cancelled: nothing is claimed while the encoder stops.
Shut(v) ==
  /\ v.stop[All].pc # "idle" => v.enc = "stopping"
  /\ v.stop[All].pc \in {"kill", "release", "delete", "clear"} /\ v.cur # None => v.entry[v.cur].cancelled

\* The inductive invariant.
Good(v) ==
  /\ v \in Managers
  /\ Exists(v, v.cur) /\ OneStarts(v) /\ Shut(v)
  /\ \A w \in Workers : WorkerFits(v, w)
  /\ \A s \in Stoppers : StopFits(v, s)
  /\ \A x \in Entries : EntryFits(v, x) /\ (Adrift(v, x) => Replaced(v, x))

\* Where a monitor has marked the entry it watched as exited.
Late == {"exit", "reset", "fail", "report", "check", "count", "backoff", "recheck", "recount", "claim"}

\* With one starter: the entry in the map is its own, one whose exit it has marked is
\* not marked as running again, and what is in the map after a Stop is stopping.
Alone(v) ==
  /\ \A w \in Workers :
       /\ v.work[w].own # None => v.cur \in {None, v.work[w].own}
       /\ v.work[w].own # None /\ v.work[w].pc \in Late /\ v.cur = v.work[w].own =>
            v.entry[v.cur].state \in {"stopped", "error"}
  /\ v.wish = "off" => v.cur = None \/ v.entry[v.cur].state = "stopping"

-------------------------------------------------------------------------------
(* What the model does with dead entries                                   *)

\* A blank entry is an entry.
LEMMA BlankTyped == ASSUME CallerAssumption PROVE Blank \in Streams
BY DEF CallerAssumption, Blank, Streams, States, Retries

\* Nobody reads what collecting a dead entry changes.
LEMMA BecomesEffect ==
  ASSUME CallerAssumption, NEW v \in Managers, Becomes(v)
  PROVE  /\ m' \in Managers
         /\ m'.cur = v.cur /\ m'.work = v.work /\ m'.stop = v.stop /\ m'.enc = v.enc
         /\ m'.enabled = v.enabled /\ m'.wish = v.wish
         /\ \A x \in Entries :
              \/ Garbage(v, x) /\ m'.entry[x] = Blank
              \/ /\ m'.entry[x].state = v.entry[x].state /\ m'.entry[x].pub = v.entry[x].pub
                 /\ m'.entry[x].cancelled = v.entry[x].cancelled /\ m'.entry[x].proc = v.entry[x].proc
                 /\ m'.entry[x].writer = v.entry[x].writer /\ m'.entry[x].stops = v.entry[x].stops
<1> DEFINE next == [x \in Entries |->
         IF Garbage(v, x) THEN Blank ELSE IF v.cur # x THEN Forgotten(v.entry[x]) ELSE v.entry[x]]
<1>1. m' = [v EXCEPT !.entry = next]
  BY DEF Becomes
<1>2. ASSUME NEW x \in Entries
      PROVE  /\ Forgotten(v.entry[x]) \in Streams
             /\ Forgotten(v.entry[x]).state = v.entry[x].state /\ Forgotten(v.entry[x]).pub = v.entry[x].pub
             /\ Forgotten(v.entry[x]).cancelled = v.entry[x].cancelled /\ Forgotten(v.entry[x]).proc = v.entry[x].proc
             /\ Forgotten(v.entry[x]).writer = v.entry[x].writer /\ Forgotten(v.entry[x]).stops = v.entry[x].stops
  <2>1. v.entry[x] \in Streams
    BY DEF Managers
  <2>2. 0 \in Retries
    BY DEF CallerAssumption, Retries
  <2> DEFINE e == v.entry[x]
  <2>3. Forgotten(e) = [e EXCEPT !.retry = 0, !.kept = 0, !.over = FALSE]
    BY DEF Forgotten
  <2> HIDE DEF e
  <2>4. e \in Streams
    BY <2>1 DEF e
  <2>5. /\ Forgotten(e) \in Streams
        /\ Forgotten(e).state = e.state /\ Forgotten(e).pub = e.pub
        /\ Forgotten(e).cancelled = e.cancelled /\ Forgotten(e).proc = e.proc
        /\ Forgotten(e).writer = e.writer /\ Forgotten(e).stops = e.stops
    BY <2>2, <2>3, <2>4 DEF Streams
  <2>. QED BY <2>5 DEF e
<1>3. \A x \in Entries : v.entry[x] \in Streams
  BY DEF Managers
<1>4. next \in [Entries -> Streams]
  BY <1>2, <1>3, BlankTyped
<1>5. m' \in Managers
  <2> HIDE DEF next
  <2>. QED BY <1>1, <1>4 DEF Managers
<1>6. m'.entry = next /\ m'.cur = v.cur /\ m'.work = v.work /\ m'.stop = v.stop /\ m'.enc = v.enc
      /\ m'.enabled = v.enabled /\ m'.wish = v.wish
  <2> HIDE DEF next
  <2>. QED BY <1>1 DEF Managers
<1>7. \A x \in Entries :
        \/ Garbage(v, x) /\ m'.entry[x] = Blank
        \/ m'.entry[x] = v.entry[x]
        \/ m'.entry[x] = Forgotten(v.entry[x])
  BY <1>6
<1>. QED BY <1>2, <1>5, <1>6, <1>7

\* What is asked of a goroutine and of a stopper is asked of the entries they hold.
LEMMA SameWorker ==
  ASSUME NEW v, NEW n, NEW w \in Workers, WorkerFits(v, w), v.work[w] \in Goroutines, n.work[w] = v.work[w],
         \A x \in Entries : x \in {v.work[w].own, v.work[w].old} =>
           /\ v.entry[x].state # "none" => n.entry[x].state # "none"
           /\ n.entry[x].pub = v.entry[x].pub /\ (v.entry[x].proc = "none" => n.entry[x].proc = "none")
  PROVE  WorkerFits(n, w)
<1> DEFINE g == v.work[w]
<1>1. g.own \in Entries \cup {None} /\ g.old \in Entries \cup {None}
  BY DEF Goroutines
<1>2. g.own # None => /\ v.entry[g.own].state # "none" => n.entry[g.own].state # "none"
                      /\ n.entry[g.own].pub = v.entry[g.own].pub
                      /\ v.entry[g.own].proc = "none" => n.entry[g.own].proc = "none"
  BY <1>1
<1>3. g.old # None => (v.entry[g.old].state # "none" => n.entry[g.old].state # "none")
  BY SMTT(60), <1>1
<1>4. Exists(n, g.own) /\ Exists(n, g.old)
  BY <1>2, <1>3 DEF WorkerFits, Exists
<1>5. /\ g.old # None => g.pc \in {"release", "drain"}
      /\ g.pc = "idle" => g.own = None
      /\ g.pc = "claim" => (g.monitor <=> g.own # None)
      /\ g.pc \in Starting \cup Watching => g.own # None
      /\ g.pc \in Watching \ {"begin"} => g.monitor
      /\ g.pc \in Starting => ~v.entry[g.own].pub
      /\ g.pc \in Launching => v.entry[g.own].proc = "none"
      /\ g.own # None /\ g.pc \notin Starting => v.entry[g.own].pub
  BY DEF WorkerFits
<1>6. Launching \subseteq Starting
  BY DEF Starting
<1> HIDE DEF g
<1>7. WorkerFits(n, w) <=>
         /\ Exists(n, g.own) /\ Exists(n, g.old)
         /\ g.old # None => g.pc \in {"release", "drain"}
         /\ g.pc = "idle" => g.own = None
         /\ g.pc = "claim" => (g.monitor <=> g.own # None)
         /\ g.pc \in Starting \cup Watching => g.own # None
         /\ g.pc \in Watching \ {"begin"} => g.monitor
         /\ g.pc \in Starting => ~n.entry[g.own].pub
         /\ g.pc \in Launching => n.entry[g.own].proc = "none"
         /\ g.own # None /\ g.pc \notin Starting => n.entry[g.own].pub
  BY DEF WorkerFits, g
<1>. QED BY <1>2, <1>4, <1>5, <1>6, <1>7

\* So it disturbs nothing.
LEMMA BecomesKeeps == ASSUME CallerAssumption, NEW v, Good(v), Becomes(v) PROVE Good(m')
<1> DEFINE n == m'
<1>1. /\ v \in Managers /\ Exists(v, v.cur) /\ OneStarts(v) /\ Shut(v)
      /\ \A w \in Workers : WorkerFits(v, w)
      /\ \A s \in Stoppers : StopFits(v, s)
      /\ \A x \in Entries : EntryFits(v, x) /\ (Adrift(v, x) => Replaced(v, x))
  BY DEF Good
<1>2. /\ n \in Managers
      /\ n.cur = v.cur /\ n.work = v.work /\ n.stop = v.stop /\ n.enc = v.enc
  BY <1>1, BecomesEffect
<1>3. \A x \in Entries :
              \/ Garbage(v, x) /\ n.entry[x] = Blank
              \/ /\ n.entry[x].state = v.entry[x].state /\ n.entry[x].pub = v.entry[x].pub
                 /\ n.entry[x].cancelled = v.entry[x].cancelled /\ n.entry[x].proc = v.entry[x].proc
                 /\ n.entry[x].writer = v.entry[x].writer /\ n.entry[x].stops = v.entry[x].stops
  BY <1>1, BecomesEffect
<1> HIDE DEF n
<1>4. \A x \in Entries : Garbage(v, x) =>
        /\ v.cur # x /\ \A w \in Workers : v.work[w].own # x /\ v.work[w].old # x
        /\ \A s \in Stoppers : v.stop[s].entry # x
  BY DEF Garbage
<1>5. Exists(n, n.cur) /\ OneStarts(n) /\ Shut(n)
  BY <1>1, <1>2, <1>3, <1>4 DEF Exists, OneStarts, Shut, Managers
<1>6. ASSUME NEW w \in Workers PROVE WorkerFits(n, w)
  <2>1. v.work[w] \in Goroutines
    BY <1>1 DEF Managers
  <2>2. \A x \in Entries : x \in {v.work[w].own, v.work[w].old} =>
          n.entry[x].state = v.entry[x].state /\ n.entry[x].pub = v.entry[x].pub /\ n.entry[x].proc = v.entry[x].proc
    BY <1>3, <1>4
  <2>. QED BY <1>1, <1>2, <2>1, <2>2, SameWorker
<1>7. ASSUME NEW s \in Stoppers PROVE StopFits(n, s)
  <2>1. v.stop[s] \in StopCalls
    BY <1>1 DEF Managers
  <2>. QED BY <1>1, <1>2, <1>3, <1>4, <2>1 DEF StopFits, Exists, StopCalls
<1>8. ASSUME NEW x \in Entries PROVE EntryFits(n, x) /\ (Adrift(n, x) => Replaced(n, x))
  <2>1. CASE Garbage(v, x) /\ n.entry[x] = Blank
    <3>1. EntryFits(n, x)
      BY <2>1 DEF EntryFits, Blank
    <3>2. ~Adrift(n, x)
      BY <1>2, <1>4, <2>1 DEF Adrift, Blank
    <3>. QED BY <3>1, <3>2
  <2>2. CASE ~(Garbage(v, x) /\ n.entry[x] = Blank)
    <3>1. EntryFits(n, x)
      BY <1>1, <1>2, <1>3, <2>2 DEF EntryFits
    <3>2. Adrift(n, x) => Adrift(v, x)
      BY <1>2, <1>3, <2>2 DEF Adrift
    <3>. QED BY <1>1, <1>2, <3>1, <3>2 DEF Replaced
  <2>. QED BY <2>1, <2>2
<1>. QED BY <1>2, <1>5, <1>6, <1>7, <1>8 DEF Good, n

-------------------------------------------------------------------------------
(* Steps of a goroutine                                                    *)

\* The parts of the invariant, by name.
LEMMA GoodParts ==
  ASSUME NEW v, Good(v)
  PROVE  /\ v \in Managers /\ Exists(v, v.cur) /\ OneStarts(v) /\ Shut(v)
         /\ \A w \in Workers : WorkerFits(v, w) /\ v.work[w] \in Goroutines
         /\ \A s \in Stoppers : StopFits(v, s) /\ v.stop[s] \in StopCalls
         /\ \A x \in Entries : EntryFits(v, x) /\ (Adrift(v, x) => Replaced(v, x)) /\ v.entry[x] \in Streams
BY DEF Good, Managers

\* A goroutine whose entries nobody touches fits as before.
LEMMA SameEntries ==
  ASSUME NEW v, Good(v), NEW n, NEW w \in Workers, n.work[w] = v.work[w], n.entry = v.entry
  PROVE  WorkerFits(n, w)
BY SameWorker, GoodParts

\* Nobody reads the wish or the configuration, and only StopAll the encoder's state.
LEMMA SameManager ==
  ASSUME NEW v, Good(v), NEW n \in Managers, n.cur = v.cur, n.entry = v.entry, n.work = v.work, n.stop = v.stop, Shut(n)
  PROVE  Good(n)
<1>1. Exists(n, n.cur) /\ OneStarts(n)
  BY GoodParts DEF Exists, OneStarts
<1>2. \A w \in Workers : WorkerFits(n, w)
  BY SameEntries
<1>3. \A s \in Stoppers : StopFits(n, s)
  BY GoodParts DEF StopFits, Exists
<1>4. ASSUME NEW x \in Entries PROVE EntryFits(n, x)
  BY GoodParts DEF EntryFits
<1>5. ASSUME NEW x \in Entries PROVE Adrift(n, x) => Replaced(n, x)
  <2>1. Adrift(n, x) => Adrift(v, x)
    BY DEF Adrift
  <2>. QED BY <2>1, GoodParts DEF Replaced
<1>. QED BY <1>1, <1>2, <1>3, <1>4, <1>5 DEF Good

\* Goroutine w goes on as g; it claims nothing, and cancels what it replaced first.
LEMMA WorkerMoves ==
  ASSUME CallerAssumption, NEW v, Good(v), NEW w \in Workers, NEW g \in Goroutines,
         WorkerFits([v EXCEPT !.work[w] = g], w),
         g.pc \in Starting => v.work[w].pc \in Starting /\ g.own = v.work[w].own,
         g.pc \in Launching => v.work[w].pc \in Launching,
         v.work[w].pc = "release" /\ v.work[w].old # None => v.entry[v.work[w].old].cancelled
  PROVE  Good([v EXCEPT !.work[w] = g])
<1> DEFINE n == [v EXCEPT !.work[w] = g]
<1>1. v \in Managers
  BY GoodParts
<1>2. /\ n \in Managers
      /\ n.cur = v.cur /\ n.entry = v.entry /\ n.stop = v.stop /\ n.enc = v.enc
      /\ n.work[w] = g /\ \A u \in Workers \ {w} : n.work[u] = v.work[u]
  BY <1>1 DEF Managers
<1>3. WorkerFits(n, w)
  OBVIOUS
<1> HIDE DEF n
<1>4. Exists(n, n.cur) /\ OneStarts(n) /\ Shut(n)
  BY SMTT(60), <1>2, GoodParts DEF Exists, OneStarts, Shut
<1>5. ASSUME NEW u \in Workers PROVE WorkerFits(n, u)
  <2>1. CASE u # w
    BY <1>2, <2>1, SameEntries
  <2>. QED BY <1>3, <2>1
<1>6. ASSUME NEW s \in Stoppers PROVE StopFits(n, s)
  BY <1>2, GoodParts DEF StopFits, Exists
<1>7. ASSUME NEW x \in Entries PROVE EntryFits(n, x) /\ (Adrift(n, x) => Replaced(n, x))
  <2>1. EntryFits(n, x)
    BY <1>2, GoodParts DEF EntryFits
  <2>2. Adrift(n, x) => Adrift(v, x)
    BY <1>2 DEF Adrift, Launching, Starting
  <2>3. Adrift(n, x) => Replaced(n, x)
    <3> SUFFICES ASSUME Adrift(n, x) PROVE Replaced(n, x)
      OBVIOUS
    <3>1. PICK u \in Workers : v.work[u].pc = "release" /\ v.work[u].old = x
      BY <2>2, GoodParts DEF Replaced
    <3>2. u # w
      BY <1>2, <3>1 DEF CallerAssumption, Adrift
    <3>. QED BY <1>2, <3>1, <3>2 DEF Replaced
  <2>. QED BY <2>1, <2>3
<1>8. Good(n)
  BY <1>2, <1>4, <1>5, <1>6, <1>7 DEF Good
<1>. QED BY <1>8 DEF n

\* Cancel leaves everything in order.
LEMMA CancelKeeps ==
  ASSUME NEW v, Good(v), NEW x \in Entries \cup {None}
  PROVE  /\ Good(Cancel(v, x))
         /\ LET n == Cancel(v, x) IN
            /\ n.cur = v.cur /\ n.work = v.work /\ n.stop = v.stop /\ n.enc = v.enc /\ n.wish = v.wish
            /\ x # None => n.entry[x].cancelled
            /\ \A y \in Entries : /\ n.entry[y].state = v.entry[y].state /\ n.entry[y].pub = v.entry[y].pub
                                  /\ n.entry[y].proc = v.entry[y].proc /\ n.entry[y].writer = v.entry[y].writer
                                  /\ n.entry[y].stops = v.entry[y].stops
                                  /\ v.entry[y].cancelled => n.entry[y].cancelled
<1> DEFINE n == Cancel(v, x)
<1>1. v \in Managers /\ \A y \in Entries : v.entry[y] \in Streams
  BY GoodParts
<1>2. CASE x = None
  BY <1>2 DEF Cancel
<1>3. CASE x # None
  <2>1. x \in Entries
    BY <1>3
  <2> DEFINE e == [v.entry[x] EXCEPT !.cancelled = TRUE, !.open = FALSE]
  <2>2. /\ e \in Streams /\ e.cancelled /\ e.state = v.entry[x].state /\ e.pub = v.entry[x].pub /\ e.proc = v.entry[x].proc
        /\ e.writer = v.entry[x].writer /\ e.stops = v.entry[x].stops
    BY <1>1, <2>1 DEF Streams
  <2>3. n = [v EXCEPT !.entry[x] = e]
    BY ZenonT(60), <1>1, <1>3, <2>1 DEF Cancel, Managers, Streams
  <2> HIDE DEF e, n
  <2>4. /\ n \in Managers /\ n.cur = v.cur /\ n.work = v.work /\ n.stop = v.stop /\ n.enc = v.enc /\ n.wish = v.wish
        /\ n.entry[x] = e /\ \A y \in Entries \ {x} : n.entry[y] = v.entry[y]
    BY <1>1, <2>1, <2>2, <2>3 DEF Managers
  <2>5. \A y \in Entries : /\ n.entry[y].state = v.entry[y].state /\ n.entry[y].pub = v.entry[y].pub
                           /\ n.entry[y].proc = v.entry[y].proc /\ n.entry[y].writer = v.entry[y].writer
                           /\ n.entry[y].stops = v.entry[y].stops /\ (v.entry[y].cancelled => n.entry[y].cancelled)
    BY <2>1, <2>2, <2>4
  <2>6. Exists(n, n.cur) /\ OneStarts(n) /\ Shut(n)
    BY SMTT(60), <1>1, <2>4, <2>5, GoodParts DEF Exists, OneStarts, Shut, Managers
  <2>7. \A w \in Workers : WorkerFits(n, w)
    BY <2>4, <2>5, GoodParts, SameWorker
  <2>8. \A s \in Stoppers : StopFits(n, s)
    BY <2>4, <2>5, GoodParts DEF StopFits, Exists, StopCalls
  <2>9. \A y \in Entries : EntryFits(n, y) /\ (Adrift(n, y) => Replaced(n, y))
    <3> SUFFICES ASSUME NEW y \in Entries PROVE EntryFits(n, y) /\ (Adrift(n, y) => Replaced(n, y))
      OBVIOUS
    <3>1. EntryFits(n, y)
      BY <2>4, <2>5, GoodParts DEF EntryFits
    <3>2. Adrift(n, y) => Adrift(v, y)
      BY <2>4, <2>5 DEF Adrift
    <3>. QED BY <2>4, <3>1, <3>2, GoodParts DEF Replaced
  <2>. QED BY <2>2, <2>4, <2>5, <2>6, <2>7, <2>8, <2>9 DEF Good, n
<1>. QED BY <1>2, <1>3

\* An entry that exists changes: its process may end, and its writer; nobody
\* takes a cancellation back.
LEMMA EntryMoves ==
  ASSUME NEW v, Good(v), NEW x \in Entries, NEW e \in Streams,
         EntryFits([v EXCEPT !.entry[x] = e], x),
         v.entry[x].state # "none", e.state # "none", e.pub = v.entry[x].pub,
         v.entry[x].cancelled => e.cancelled,
         e.proc = v.entry[x].proc \/ (v.entry[x].proc = "alive" /\ e.proc # "alive")
  PROVE  Good([v EXCEPT !.entry[x] = e])
<1> DEFINE n == [v EXCEPT !.entry[x] = e]
<1>1. v \in Managers
  BY GoodParts
<1>2. /\ n \in Managers
      /\ n.cur = v.cur /\ n.work = v.work /\ n.stop = v.stop /\ n.enc = v.enc
      /\ n.entry[x] = e /\ \A y \in Entries \ {x} : n.entry[y] = v.entry[y]
  BY <1>1 DEF Managers
<1>3. EntryFits(n, x)
  OBVIOUS
<1> HIDE DEF n
<1>4. Exists(n, n.cur) /\ OneStarts(n) /\ Shut(n)
  BY SMTT(60), <1>1, <1>2, GoodParts DEF Exists, OneStarts, Shut, Managers
<1>5. ASSUME NEW w \in Workers PROVE WorkerFits(n, w)
  <2>1. \A y \in Entries : /\ v.entry[y].state # "none" => n.entry[y].state # "none"
                            /\ n.entry[y].pub = v.entry[y].pub /\ (v.entry[y].proc = "none" => n.entry[y].proc = "none")
    BY <1>2
  <2>. QED BY <1>2, <2>1, GoodParts, SameWorker
<1>6. ASSUME NEW s \in Stoppers PROVE StopFits(n, s)
  <2>1. v.stop[s].entry \in Entries \cup {None}
    BY GoodParts DEF StopCalls
  <2>. QED BY SMTT(60), <1>2, <2>1, GoodParts DEF StopFits, Exists
<1>7. ASSUME NEW y \in Entries PROVE EntryFits(n, y) /\ (Adrift(n, y) => Replaced(n, y))
  <2>1. EntryFits(n, y)
    BY <1>2, <1>3, GoodParts DEF EntryFits
  <2>2. Adrift(n, y) => Adrift(v, y)
    BY <1>2 DEF Adrift
  <2>. QED BY <1>2, <2>1, <2>2, GoodParts DEF Replaced
<1>8. Good(n)
  BY <1>2, <1>4, <1>5, <1>6, <1>7 DEF Good
<1>. QED BY <1>8 DEF n

\* A monitor goes to another place.
LEMMA GotoKeeps ==
  ASSUME CallerAssumption, NEW v, Good(v), NEW w \in Workers,
         v.work[w].pc \in Watching \ {"begin"} \/ (v.work[w].pc = "claim" /\ v.work[w].monitor),
         NEW pc \in (Watching \ {"begin"}) \cup {"claim"}
  PROVE  Good(Goto(v, w, pc))
<1> DEFINE g == v.work[w]
           h == [g EXCEPT !.pc = pc]
<1>1. v \in Managers /\ g \in Goroutines /\ WorkerFits(v, w)
  BY GoodParts
<1>2. h \in Goroutines /\ h.pc = pc /\ h.own = g.own /\ h.old = g.old /\ h.monitor = g.monitor
  BY <1>1 DEF Goroutines
<1>3. Goto(v, w, pc) = [v EXCEPT !.work[w] = h]
  BY <1>1 DEF Goto, Managers
<1>4. [v EXCEPT !.work[w] = h].work[w] = h /\ [v EXCEPT !.work[w] = h].entry = v.entry
  BY <1>1 DEF Managers
<1>5. g.own # None /\ g.old = None /\ g.monitor /\ v.entry[g.own].pub /\ Exists(v, g.own)
  BY <1>1 DEF WorkerFits, Watching, Starting, Launching
<1>6. pc \notin Starting /\ pc # "idle" /\ g.pc # "release"
  BY DEF Watching, Starting, Launching
<1> HIDE DEF h, g
<1>7. WorkerFits([v EXCEPT !.work[w] = h], w)
  BY <1>2, <1>4, <1>5, <1>6 DEF WorkerFits, Exists, Starting
<1>. QED BY <1>2, <1>3, <1>6, <1>7, WorkerMoves DEF g, Starting

\* An idle goroutine holds nothing.
LEMMA IdleTyped == IdleWorker \in Goroutines /\ IdleWorker.pc = "idle" /\ IdleWorker.own = None /\ IdleWorker.old = None
BY DEF IdleWorker, Goroutines

\* A goroutine ends.
LEMMA QuitKeeps ==
  ASSUME CallerAssumption, NEW v, Good(v), NEW w \in Workers, v.work[w].pc # "release"
  PROVE  Good(Quit(v, w))
<1>1. v \in Managers
  BY GoodParts
<1>2. [v EXCEPT !.work[w] = IdleWorker].work[w] = IdleWorker
  BY <1>1 DEF Managers
<1>3. WorkerFits([v EXCEPT !.work[w] = IdleWorker], w)
  BY <1>2, IdleTyped DEF WorkerFits, Exists, Starting, Launching, Watching
<1>. QED BY <1>3, IdleTyped, WorkerMoves DEF Quit, Starting, Launching

\* A start begins, with nothing yet.
LEMMA StartKeeps == ASSUME CallerAssumption, Good(m), NEW w \in Workers, Start(w) PROVE Good(m')
<1> DEFINE g == [IdleWorker EXCEPT !.pc = "claim", !.chan = TRUE]
<1>1. g \in Goroutines /\ g.pc = "claim" /\ g.own = None /\ g.old = None /\ ~g.monitor
  BY DEF Goroutines, IdleWorker
<1>2. m \in Managers /\ m.work[w].pc = "idle" /\ Becomes([m EXCEPT !.work[w] = g])
  BY GoodParts DEF Start, At
<1> HIDE DEF g
<1>3. [m EXCEPT !.work[w] = g].work[w] = g
  BY <1>2 DEF Managers
<1>4. WorkerFits([m EXCEPT !.work[w] = g], w)
  BY <1>1, <1>3 DEF WorkerFits, Exists, Starting, Launching, Watching
<1>5. Good([m EXCEPT !.work[w] = g])
  BY <1>1, <1>2, <1>4, WorkerMoves DEF Starting, Launching
<1>. QED BY <1>2, <1>5, BecomesKeeps

\* A claim by the only section that takes the lock now.
LEMMA ClaimKeeps == ASSUME CallerAssumption, Good(m), NEW w \in Workers, Claim(w) PROVE Good(m')
<1> DEFINE x == m.cur
           n == CHOOSE y \in Unused : TRUE
           retry == IF x = None THEN 0 ELSE m.entry[x].retry
           e == [Blank EXCEPT !.state = "starting", !.retry = retry]
           g == [m.work[w] EXCEPT !.pc = "release", !.own = n, !.old = x]
           v == [m EXCEPT !.cur = n, !.entry[n] = e, !.work[w] = g, !.wish = IF m.work[w].monitor THEN @ ELSE "on"]
<1>0. m.work[w].pc = "claim" /\ m \in Managers /\ m.work[w] \in Goroutines /\ x \in Entries \cup {None}
  BY GoodParts DEF Claim, At, Managers
<1>1. CASE ~MayClaim(w)
  <2>1. CASE m.work[w].monitor /\ Becomes(Goto(m, w, "remove"))
    <3>1. Good(Goto(m, w, "remove"))
      BY <1>0, <2>1, GotoKeeps DEF Watching
    <3>. QED BY <2>1, <3>1, BecomesKeeps
  <2>2. CASE Becomes(Quit(m, w))
    <3>1. Good(Quit(m, w))
      BY <1>0, QuitKeeps
    <3>. QED BY <2>2, <3>1, BecomesKeeps
  <2>. QED BY <1>1, <2>1, <2>2 DEF Claim
<1>2. CASE MayClaim(w) /\ Unused # {} /\ Becomes(v)
  <2>1. n \in Entries /\ m.entry[n] = Blank /\ m.enc = "running"
    BY <1>2 DEF Unused, MayClaim, Active
  <2>2. /\ e \in Streams /\ e.state = "starting" /\ ~e.pub /\ ~e.cancelled /\ ~e.writer /\ e.proc = "none" /\ e.stops = 0
    <3>1. retry \in Retries
      BY <1>0 DEF Managers, Streams, Retries, CallerAssumption
    <3> HIDE DEF retry
    <3>. QED BY <3>1, BlankTyped DEF Blank, Streams, States
  <2>3. g \in Goroutines /\ g.pc = "release" /\ g.own = n /\ g.old = x
    <3> HIDE DEF n, x
    <3>1. n \in Entries /\ x \in Entries \cup {None} /\ m.work[w] \in Goroutines
      BY <1>0, <2>1
    <3>. QED BY <3>1 DEF Goroutines, Starting, Launching
  <2> HIDE DEF e, g, n
  <2>4. /\ v \in Managers /\ v.cur = n /\ v.entry[n] = e /\ v.work[w] = g /\ v.stop = m.stop /\ v.enc = m.enc
        /\ \A y \in Entries \ {n} : v.entry[y] = m.entry[y]
        /\ \A u \in Workers \ {w} : v.work[u] = m.work[u]
    BY <1>0, <2>1, <2>2, <2>3 DEF Managers
  <2> HIDE DEF v
  <2>5. n # None /\ x # n /\ (\A u \in Workers : m.work[u].own # n /\ m.work[u].old # n) /\ \A s \in Stoppers : m.stop[s].entry # n
    <3>1. n # None /\ m.entry[n].state = "none"
      BY <2>1 DEF Blank, CallerAssumption
    <3>. QED BY <3>1, GoodParts DEF WorkerFits, StopFits, Exists
  <2>6. Exists(v, v.cur) /\ OneStarts(v) /\ Shut(v)
    BY <2>1, <2>2, <2>3, <2>4, <2>5, GoodParts DEF Exists, OneStarts, Shut, Stoppers
  <2>7. ASSUME NEW u \in Workers PROVE WorkerFits(v, u)
    <3>1. CASE u = w
      <4>1. Exists(v, x)
        BY <1>0, <2>4, <2>5, GoodParts DEF Exists
      <4>. QED BY <2>2, <2>3, <2>4, <2>5, <3>1, <4>1 DEF WorkerFits, Exists, Launching, Starting, Watching
    <3>2. CASE u # w
      <4>1. m.work[u] \in Goroutines
        BY GoodParts
      <4>2. \A y \in Entries : y \in {m.work[u].own, m.work[u].old} => v.entry[y] = m.entry[y]
        BY <2>4, <2>5
      <4>. QED BY <2>4, <3>2, <4>1, <4>2, GoodParts, SameWorker
    <3>. QED BY <3>1, <3>2
  <2>8. ASSUME NEW s \in Stoppers PROVE StopFits(v, s)
    <3>1. m.stop[s].entry \in (Entries \ {n}) \cup {None}
      BY <2>5, GoodParts DEF StopCalls
    <3>. QED BY <2>4, <2>5, <3>1, GoodParts DEF StopFits, Exists
  <2>9. ASSUME NEW y \in Entries PROVE EntryFits(v, y) /\ (Adrift(v, y) => Replaced(v, y))
    <3>1. CASE y = n
      BY <2>2, <2>4, <3>1 DEF EntryFits, Adrift
    <3>2. CASE y # n
      <4>1. EntryFits(v, y)
        BY <2>4, <3>2, GoodParts DEF EntryFits
      <4>2. CASE y = x
        BY <2>3, <2>4, <4>1, <4>2 DEF Replaced
      <4>3. CASE y # x
        <5>1. Adrift(v, y) => Adrift(m, y)
          BY <2>3, <2>4, <3>2, <4>3 DEF Adrift
        <5>2. Adrift(v, y) => Replaced(v, y)
          <6> SUFFICES ASSUME Adrift(v, y) PROVE Replaced(v, y)
            OBVIOUS
          <6>1. PICK u \in Workers : m.work[u].pc = "release" /\ m.work[u].old = y
            BY <5>1, GoodParts DEF Replaced
          <6>. QED BY <1>0, <2>4, <6>1 DEF Replaced
        <5>. QED BY <4>1, <5>2
      <4>. QED BY <4>2, <4>3
    <3>. QED BY <3>1, <3>2
  <2>10. Good(v)
    BY <2>4, <2>6, <2>7, <2>8, <2>9 DEF Good
  <2>. QED BY <1>2, <2>10, BecomesKeeps
<1>3. m.work[w] \in Goroutines /\ [m.work[w] EXCEPT !.pc = "release", !.own = n, !.old = x] = g
  BY <1>0
<1>. QED BY <1>1, <1>2 DEF Claim

\* The claimant cancels what it replaced.
LEMMA ReleaseKeeps == ASSUME CallerAssumption, Good(m), NEW w \in Workers, Release(w) PROVE Good(m')
<1> DEFINE x == m.work[w].old
           v == Cancel(m, x)
           g == [m.work[w] EXCEPT !.pc = "drain"]
<1>1. m.work[w].pc = "release" /\ m.work[w] \in Goroutines /\ x \in Entries \cup {None} /\ WorkerFits(m, w)
      /\ Becomes(Goto(v, w, "drain"))
  BY GoodParts DEF Release, At, Goroutines
<1>2. Good(v) /\ v.work = m.work /\ (x # None => v.entry[x].cancelled)
  BY <1>1, CancelKeeps
<1>3. g \in Goroutines /\ g.pc = "drain" /\ g.own = m.work[w].own /\ g.old = x
  BY <1>1 DEF Goroutines, Starting, Launching
<1> HIDE DEF v, g
<1>4. v \in Managers /\ WorkerFits(v, w)
  BY <1>2, GoodParts
<1>5. Goto(v, w, "drain") = [v EXCEPT !.work[w] = g]
  BY <1>2, <1>4 DEF Goto, Managers, g
<1>6. [v EXCEPT !.work[w] = g].work[w] = g /\ [v EXCEPT !.work[w] = g].entry = v.entry
  BY SMTT(60), <1>4 DEF Managers
<1>7. WorkerFits([v EXCEPT !.work[w] = g], w)
  BY <1>1, <1>2, <1>3, <1>4, <1>6 DEF WorkerFits, Exists, Starting, Launching, Watching
<1>8. Good([v EXCEPT !.work[w] = g])
  BY <1>1, <1>2, <1>3, <1>7, WorkerMoves DEF Starting, Launching
<1>. QED BY <1>1, <1>5, <1>8, BecomesKeeps

\* What it replaced is gone.
LEMMA DrainKeeps == ASSUME CallerAssumption, Good(m), NEW w \in Workers, Drain(w) PROVE Good(m')
<1> DEFINE g == [m.work[w] EXCEPT !.pc = "exec", !.old = None]
<1>1. m.work[w].pc = "drain" /\ m.work[w] \in Goroutines /\ WorkerFits(m, w) /\ m \in Managers
  BY GoodParts DEF Drain, At
<1>2. g \in Goroutines /\ g.pc = "exec" /\ g.own = m.work[w].own /\ g.old = None
  BY <1>1 DEF Goroutines, Starting, Launching
<1>3. Becomes([m EXCEPT !.work[w] = g])
  <2>1. [m EXCEPT !.work[w].pc = "exec", !.work[w].old = None] = [m EXCEPT !.work[w] = g]
    BY <1>1 DEF Managers, Goroutines
  <2>. QED BY <2>1 DEF Drain
<1> HIDE DEF g
<1>4. [m EXCEPT !.work[w] = g].work[w] = g /\ [m EXCEPT !.work[w] = g].entry = m.entry
  BY <1>1 DEF Managers
<1>5. WorkerFits([m EXCEPT !.work[w] = g], w)
  BY <1>1, <1>2, <1>4 DEF WorkerFits, Exists, Starting, Launching, Watching
<1>6. Good([m EXCEPT !.work[w] = g])
  BY <1>1, <1>2, <1>5, WorkerMoves DEF Starting, Launching
<1>. QED BY <1>3, <1>6, BecomesKeeps

\* The managed entry goes, unless its process would be left to nobody.
LEMMA UnmanagedKeeps ==
  ASSUME CallerAssumption, NEW v, Good(v),
         v.cur # None => \/ v.entry[v.cur].cancelled
                         \/ /\ v.entry[v.cur].proc # "alive"
                            /\ \A w \in Workers : v.work[w].pc \in Launching => v.work[w].own # v.cur
  PROVE  Good([v EXCEPT !.cur = None])
<1> DEFINE n == [v EXCEPT !.cur = None]
<1>1. v \in Managers
  BY GoodParts
<1>2. n \in Managers /\ n.cur = None /\ n.entry = v.entry /\ n.work = v.work /\ n.stop = v.stop /\ n.enc = v.enc
  BY <1>1 DEF Managers
<1> HIDE DEF n
<1>3. Exists(n, n.cur) /\ OneStarts(n) /\ Shut(n)
  BY SMTT(60), <1>2, GoodParts DEF Exists, OneStarts, Shut
<1>4. \A w \in Workers : WorkerFits(n, w)
  BY <1>2, GoodParts DEF WorkerFits, Exists
<1>5. ASSUME NEW s \in Stoppers PROVE StopFits(n, s)
  <2>1. v.stop[s].entry \in Entries \cup {None}
    BY GoodParts DEF StopCalls
  <2>. QED BY <1>2, <2>1, GoodParts DEF StopFits, Exists
<1>6. ASSUME NEW y \in Entries PROVE EntryFits(n, y) /\ (Adrift(n, y) => Replaced(n, y))
  <2>1. EntryFits(n, y)
    BY <1>2, GoodParts DEF EntryFits, CallerAssumption
  <2>2. Adrift(n, y) => Adrift(v, y)
    BY <1>2 DEF Adrift
  <2>. QED BY <1>2, <2>1, <2>2, GoodParts DEF Replaced
<1>7. Good(n)
  BY <1>2, <1>3, <1>4, <1>5, <1>6 DEF Good
<1>. QED BY <1>7 DEF n

\* FFmpeg starts, or the claim is given up.
LEMMA ExecKeeps ==
  ASSUME CallerAssumption, Good(m), NEW w \in Workers, NEW ok \in BOOLEAN, Exec(w, ok) PROVE Good(m')
<1> DEFINE x == m.work[w].own
<1>1. /\ m.work[w].pc = "exec" /\ m.work[w] \in Goroutines /\ WorkerFits(m, w) /\ m \in Managers
      /\ x \in Entries /\ Exists(m, x) /\ ~m.entry[x].pub /\ m.entry[x].proc = "none" /\ m.entry[x] \in Streams
      /\ m.work[w].old = None
  BY SMTT(60), GoodParts DEF Exec, At, Goroutines, WorkerFits, Launching, Starting
<1>2. \A u \in Workers \ {w} : m.work[u].own # x
  BY SMTT(60), <1>1, GoodParts DEF OneStarts, WorkerFits, Starting, Launching
<1>3. CASE ok /\ ~m.entry[x].cancelled
  <2> DEFINE e == [m.entry[x] EXCEPT !.proc = "alive", !.kept = m.entry[x].retry]
             g == [m.work[w] EXCEPT !.pc = "publish"]
             v == [m EXCEPT !.work[w] = g, !.entry[x] = e]
  <2>1. /\ e \in Streams /\ e.proc = "alive" /\ e.state = m.entry[x].state /\ ~e.pub /\ ~e.cancelled
        /\ e.stops = m.entry[x].stops /\ e.writer = m.entry[x].writer
    BY <1>1, <1>3 DEF Streams
  <2>2. g \in Goroutines /\ g.pc = "publish" /\ g.own = x /\ g.old = None
    BY <1>1 DEF Goroutines, Starting, Launching
  <2>3. Becomes(v)
    <3>1. [Goto(m, w, "publish") EXCEPT !.entry[x].proc = "alive", !.entry[x].kept = m.entry[x].retry] = v
      BY ZenonT(60), <1>1 DEF Goto, Managers, Streams, Goroutines
    <3>. QED BY <1>3, <3>1 DEF Exec, Own
  <2> HIDE DEF e, g
  <2>4. /\ v \in Managers /\ v.cur = m.cur /\ v.entry[x] = e /\ v.work[w] = g /\ v.stop = m.stop /\ v.enc = m.enc
        /\ \A y \in Entries \ {x} : v.entry[y] = m.entry[y]
        /\ \A u \in Workers \ {w} : v.work[u] = m.work[u]
    BY <1>1, <2>1, <2>2 DEF Managers
  <2> HIDE DEF v
  <2>5. Exists(v, v.cur) /\ OneStarts(v) /\ Shut(v)
    <3>1. Exists(v, v.cur)
      BY <1>1, <2>1, <2>4, GoodParts DEF Exists, Managers
    <3>2. OneStarts(v)
      BY <1>2, <2>2, <2>4, GoodParts DEF OneStarts
    <3>3. Shut(v)
      BY <1>1, <1>3, <2>1, <2>4, GoodParts DEF Shut, Managers
    <3>. QED BY <3>1, <3>2, <3>3
  <2>6. ASSUME NEW u \in Workers PROVE WorkerFits(v, u)
    <3>1. CASE u = w
      BY ZenonT(60), <1>1, <2>1, <2>2, <2>4, <3>1 DEF WorkerFits, Exists, Launching, Starting, Watching
    <3>2. CASE u # w
      <4>1. m.work[u] \in Goroutines /\ m.work[u].own # x
        BY <1>2, <3>2, GoodParts
      <4>2. Exists(v, m.work[u].old)
        <5>1. Exists(m, m.work[u].old) /\ m.work[u].old \in Entries \cup {None}
          BY <4>1, GoodParts DEF WorkerFits, Goroutines
        <5>. QED BY <1>1, <2>1, <2>4, <5>1 DEF Exists, CallerAssumption
      <4>3. m.work[u].own # None => v.entry[m.work[u].own] = m.entry[m.work[u].own]
        BY <2>4, <4>1 DEF Goroutines
      <4>4. WorkerFits(m, u) /\ v.work[u] = m.work[u]
        BY <2>4, <3>2, GoodParts
      <4>. QED BY <4>2, <4>3, <4>4 DEF WorkerFits, Exists, Starting
    <3>. QED BY SMTT(60), <3>1, <3>2
  <2>7. ASSUME NEW s \in Stoppers PROVE StopFits(v, s)
    <3>1. m.stop[s].entry \in Entries \cup {None} /\ StopFits(m, s)
      BY GoodParts DEF StopCalls
    <3>2. m.stop[s].entry # x
      BY SMTT(60), <1>1, <1>3, <3>1 DEF StopFits, CallerAssumption
    <3>. QED BY <2>4, <3>1, <3>2 DEF StopFits, Exists
  <2>8. ASSUME NEW y \in Entries PROVE EntryFits(v, y) /\ (Adrift(v, y) => Replaced(v, y))
    <3>1. EntryFits(v, y)
      BY SMTT(60), <1>1, <2>1, <2>4, GoodParts DEF EntryFits, Exists, CallerAssumption
    <3>2. Adrift(v, y) => Adrift(m, y)
      <4>1. CASE y = x
        BY <1>1, <1>3, <2>1, <2>4, <4>1 DEF Adrift, Launching
      <4>2. CASE y # x
        BY <2>2, <2>4, <4>2 DEF Adrift, Launching
      <4>. QED BY <4>1, <4>2
    <3>3. Adrift(v, y) => Replaced(v, y)
      <4> SUFFICES ASSUME Adrift(v, y) PROVE Replaced(v, y)
        OBVIOUS
      <4>1. PICK u \in Workers : m.work[u].pc = "release" /\ m.work[u].old = y
        BY <3>2, GoodParts DEF Replaced
      <4>. QED BY <1>1, <2>4, <4>1 DEF Replaced
    <3>. QED BY <3>1, <3>3
  <2>9. Good(v)
    BY <2>4, <2>5, <2>6, <2>7, <2>8 DEF Good
  <2>. QED BY <2>3, <2>9, BecomesKeeps
<1>4. CASE ~(ok /\ ~m.entry[x].cancelled)
  <2> DEFINE q == Quit(m, w)
             v == [q EXCEPT !.cur = IF @ = x THEN None ELSE @]
  <2>1. Becomes(v)
    BY <1>4 DEF Exec, Own
  <2>2. /\ Good(q) /\ q.cur = m.cur /\ q.entry = m.entry /\ q \in Managers
        /\ q.work[w].pc = "idle" /\ \A u \in Workers \ {w} : q.work[u] = m.work[u]
    <3>1. Good(q)
      BY <1>1, QuitKeeps
    <3>. QED BY <1>1, <3>1, IdleTyped, GoodParts DEF Quit, Managers
  <2> HIDE DEF q
  <2>3. CASE q.cur = x
    <3>1. v = [q EXCEPT !.cur = None]
      BY <2>3
    <3>2. Good([q EXCEPT !.cur = None])
      BY <1>1, <1>2, <2>2, <2>3, UnmanagedKeeps DEF Launching
    <3>. QED BY <2>1, <3>1, <3>2, BecomesKeeps
  <2>4. CASE q.cur # x
    <3>1. v = q
      BY <2>2, <2>4 DEF Managers
    <3>. QED BY <2>1, <2>2, <3>1, BecomesKeeps
  <2>. QED BY <2>3, <2>4
<1>. QED BY SMTT(60), <1>3, <1>4

\* The process takes the place of its placeholder, or is told to end.
LEMMA PublishKeeps == ASSUME CallerAssumption, Good(m), NEW w \in Workers, Publish(w) PROVE Good(m')
<1> DEFINE x == m.work[w].own
<1>1. /\ m.work[w].pc = "publish" /\ m.work[w] \in Goroutines /\ WorkerFits(m, w) /\ m \in Managers
      /\ x \in Entries /\ Exists(m, x) /\ ~m.entry[x].pub /\ m.entry[x] \in Streams
      /\ m.work[w].old = None /\ EntryFits(m, x)
  BY SMTT(60), GoodParts DEF Publish, At, Goroutines, WorkerFits, Launching, Starting
<1>2. \A u \in Workers \ {w} : m.work[u].own # x
  BY <1>1, GoodParts DEF OneStarts, WorkerFits, Starting, Launching
<1>3. CASE m.cur # x
  <2> DEFINE v == Cancel(m, x)
             g == [m.work[w] EXCEPT !.pc = "reap"]
  <2>1. Good(v) /\ v.work = m.work /\ v.entry[x].pub = m.entry[x].pub
    BY <1>1, CancelKeeps
  <2>2. g \in Goroutines /\ g.pc = "reap" /\ g.own = x /\ g.old = None
    BY <1>1 DEF Goroutines, Starting, Launching
  <2>3. Becomes(Goto(v, w, "reap"))
    BY <1>3 DEF Publish, Own
  <2> HIDE DEF v, g
  <2>4. v \in Managers /\ WorkerFits(v, w)
    BY <2>1, GoodParts
  <2>5. Goto(v, w, "reap") = [v EXCEPT !.work[w] = g]
    BY SMTT(60), <2>1, <2>4 DEF Goto, Managers, g
  <2>6. [v EXCEPT !.work[w] = g].work[w] = g /\ [v EXCEPT !.work[w] = g].entry = v.entry
    BY <2>4 DEF Managers
  <2>7. WorkerFits([v EXCEPT !.work[w] = g], w)
    BY SMTT(60), <1>1, <2>1, <2>2, <2>4, <2>6 DEF WorkerFits, Exists, Starting, Launching, Watching
  <2>8. Good([v EXCEPT !.work[w] = g])
    BY SMTT(60), <1>1, <2>1, <2>2, <2>7, WorkerMoves DEF Starting, Launching
  <2>. QED BY <2>3, <2>5, <2>8, BecomesKeeps
<1>4. CASE m.cur = x
  <2> DEFINE pc == IF m.work[w].monitor THEN "top" ELSE "begin"
             e == [m.entry[x] EXCEPT !.state = "running", !.pub = TRUE, !.writer = TRUE, !.open = TRUE,
                                     !.retry = m.entry[x].kept, !.kept = 0]
             g == [m.work[w] EXCEPT !.pc = pc]
             v == [m EXCEPT !.work[w] = g, !.entry[x] = e]
  <2>1. /\ e \in Streams /\ e.proc = m.entry[x].proc /\ e.state = "running" /\ e.pub /\ e.cancelled = m.entry[x].cancelled
        /\ e.stops = m.entry[x].stops
    <3>1. 0 \in Retries
      BY DEF Retries, CallerAssumption
    <3>. QED BY <1>1, <3>1 DEF Streams, States
  <2>2. g \in Goroutines /\ g.pc \in {"top", "begin"} /\ (g.pc = "top" => g.monitor) /\ g.own = x /\ g.old = None
    BY <1>1 DEF Goroutines, Watching
  <2>3. Becomes(v)
    <3>1. [Goto(m, w, pc) EXCEPT !.entry[x] = [@ EXCEPT !.state = "running", !.pub = TRUE, !.writer = TRUE, !.open = TRUE,
             !.retry = m.entry[x].kept, !.kept = 0]] = v
      BY <1>1 DEF Goto, Managers, Streams, Goroutines
    <3>. QED BY <1>4, <3>1 DEF Publish, Own
  <2> HIDE DEF e, g
  <2>4. /\ v \in Managers /\ v.cur = m.cur /\ v.entry[x] = e /\ v.work[w] = g /\ v.stop = m.stop /\ v.enc = m.enc
        /\ \A y \in Entries \ {x} : v.entry[y] = m.entry[y]
        /\ \A u \in Workers \ {w} : v.work[u] = m.work[u]
    BY <1>1, <2>1, <2>2 DEF Managers
  <2> HIDE DEF v, pc
  <2>5. Exists(v, v.cur) /\ OneStarts(v) /\ Shut(v)
    <3>1. Exists(v, v.cur)
      BY <1>4, <2>1, <2>4 DEF Exists
    <3>2. OneStarts(v)
      BY <2>2, <2>4, GoodParts DEF OneStarts, Starting, Launching
    <3>3. Shut(v)
      BY <1>1, <1>4, <2>1, <2>4, GoodParts DEF Shut
    <3>. QED BY <3>1, <3>2, <3>3
  <2>6. ASSUME NEW u \in Workers PROVE WorkerFits(v, u)
    <3>1. CASE u = w
      BY SMTT(60), <1>1, <2>1, <2>2, <2>4, <3>1 DEF WorkerFits, Exists, Launching, Starting, Watching
    <3>2. CASE u # w
      <4>1. m.work[u] \in Goroutines /\ m.work[u].own # x
        BY <1>2, <3>2, GoodParts
      <4>2. Exists(v, m.work[u].old)
        <5>1. Exists(m, m.work[u].old) /\ m.work[u].old \in Entries \cup {None}
          BY <4>1, GoodParts DEF WorkerFits, Goroutines
        <5>. QED BY <1>1, <2>1, <2>4, <5>1 DEF Exists, CallerAssumption
      <4>3. m.work[u].own # None => v.entry[m.work[u].own] = m.entry[m.work[u].own]
        BY <2>4, <4>1 DEF Goroutines
      <4>4. WorkerFits(m, u) /\ v.work[u] = m.work[u]
        BY <2>4, <3>2, GoodParts
      <4>. QED BY <4>2, <4>3, <4>4 DEF WorkerFits, Exists, Starting
    <3>. QED BY <3>1, <3>2
  <2>7. ASSUME NEW s \in Stoppers PROVE StopFits(v, s)
    <3>1. m.stop[s].entry \in Entries \cup {None} /\ StopFits(m, s)
      BY GoodParts DEF StopCalls
    <3>. QED BY SMTT(60), <1>4, <2>1, <2>4, <3>1 DEF StopFits, Exists
  <2>8. ASSUME NEW y \in Entries PROVE EntryFits(v, y) /\ (Adrift(v, y) => Replaced(v, y))
    <3>1. EntryFits(v, y)
      <4>1. CASE y = x
        BY <1>1, <1>4, <2>1, <2>4, <4>1 DEF EntryFits, Streams
      <4>2. CASE y # x
        BY <2>4, <4>2, GoodParts DEF EntryFits
      <4>. QED BY <4>1, <4>2
    <3>2. Adrift(v, y) => Adrift(m, y)
      BY <1>4, <2>2, <2>4 DEF Adrift, Launching
    <3>3. Adrift(v, y) => Replaced(v, y)
      <4> SUFFICES ASSUME Adrift(v, y) PROVE Replaced(v, y)
        OBVIOUS
      <4>1. PICK u \in Workers : m.work[u].pc = "release" /\ m.work[u].old = y
        BY <3>2, GoodParts DEF Replaced
      <4>. QED BY <1>1, <2>4, <4>1 DEF Replaced
    <3>. QED BY <3>1, <3>3
  <2>9. Good(v)
    BY <2>4, <2>5, <2>6, <2>7, <2>8 DEF Good
  <2>. QED BY <2>3, <2>9, BecomesKeeps
<1>. QED BY SMTT(60), <1>3, <1>4

\* The process whose placeholder had gone has ended.
LEMMA ReapKeeps == ASSUME CallerAssumption, Good(m), NEW w \in Workers, Reap(w) PROVE Good(m')
<1>1. m.work[w].pc = "reap" /\ Becomes(Quit(m, w))
  BY DEF Reap, At
<1>. QED BY <1>1, QuitKeeps, BecomesKeeps

-------------------------------------------------------------------------------
(* MonitorAndRetry                                                         *)

\* A monitor begins with the entry of the moment.
LEMMA BeginKeeps == ASSUME CallerAssumption, Good(m), NEW w \in Workers, Begin(w) PROVE Good(m')
<1>1. /\ m.work[w].pc = "begin" /\ m.work[w] \in Goroutines /\ WorkerFits(m, w) /\ m \in Managers
      /\ m.cur \in Entries \cup {None} /\ Exists(m, m.cur)
  BY GoodParts DEF Begin, At, Managers
<1>2. CASE m.cur = None \/ ~m.entry[m.cur].pub
  <2>1. Becomes(Quit(m, w))
    BY <1>2 DEF Begin
  <2>. QED BY <1>1, <2>1, QuitKeeps, BecomesKeeps
<1>3. CASE ~(m.cur = None \/ ~m.entry[m.cur].pub)
  <2> DEFINE g == [m.work[w] EXCEPT !.pc = "top", !.own = m.cur, !.monitor = TRUE]
  <2>1. g \in Goroutines /\ g.pc = "top" /\ g.own = m.cur /\ g.monitor /\ g.old = None
    BY <1>1 DEF Goroutines, Watching, WorkerFits
  <2>2. Becomes([m EXCEPT !.work[w] = g])
    BY <1>1, <1>3 DEF Begin
  <2> HIDE DEF g
  <2>3. [m EXCEPT !.work[w] = g].work[w] = g /\ [m EXCEPT !.work[w] = g].entry = m.entry
    BY <1>1 DEF Managers
  <2>4. WorkerFits([m EXCEPT !.work[w] = g], w)
    BY <1>1, <1>3, <2>1, <2>3 DEF WorkerFits, Exists, Starting, Launching, Watching
  <2>5. Good([m EXCEPT !.work[w] = g])
    BY <1>1, <2>1, <2>4, WorkerMoves DEF Starting, Launching
  <2>. QED BY <2>2, <2>5, BecomesKeeps
<1>. QED BY <1>2, <1>3

\* A monitor and its entry.
LEMMA MonitorFits ==
  ASSUME Good(m), NEW w \in Workers, m.work[w].pc \in Watching \ {"begin"}
  PROVE  /\ m.work[w].own \in Entries /\ m.entry[m.work[w].own] \in Streams /\ m.entry[m.work[w].own].pub
         /\ m.entry[m.work[w].own].state # "none" /\ EntryFits(m, m.work[w].own)
         /\ m.work[w].pc # "release"
<1>1. WorkerFits(m, w) /\ m.work[w] \in Goroutines
  BY GoodParts
<1>2. m.work[w].own \in Entries /\ m.entry[m.work[w].own].pub /\ m.entry[m.work[w].own].state # "none"
      /\ m.work[w].pc # "release"
  BY <1>1 DEF WorkerFits, Goroutines, Exists, Starting, Launching, Watching
<1>. QED BY <1>2, GoodParts

\* The monitor goes round.
LEMMA TopKeeps == ASSUME CallerAssumption, Good(m), NEW w \in Workers, Top(w) PROVE Good(m')
<1>1. m.work[w].pc = "top" /\ (Becomes(Goto(m, w, "wait")) \/ Becomes(Quit(m, w)))
  BY DEF Top, At
<1>2. Good(Goto(m, w, "wait")) /\ Good(Quit(m, w))
  BY <1>1, GotoKeeps, QuitKeeps DEF Watching
<1>. QED BY <1>1, <1>2, BecomesKeeps

\* The process has ended; the entry is marked unless a Stop has it.
LEMMA MarkExitedKeeps == ASSUME CallerAssumption, Good(m), NEW w \in Workers, MarkExited(w) PROVE Good(m')
<1> DEFINE x == m.work[w].own
<1>1. m.work[w].pc = "wait"
  BY DEF MarkExited, At
<1>2. CASE Becomes(Quit(m, w))
  BY <1>1, <1>2, QuitKeeps, BecomesKeeps
<1>3. CASE Becomes([Goto(m, w, "exit") EXCEPT !.entry[x].state = "stopped"])
  <2> DEFINE v == Goto(m, w, "exit")
             e == [m.entry[x] EXCEPT !.state = "stopped"]
  <2>1. /\ x \in Entries /\ m.entry[x] \in Streams /\ m.entry[x].pub /\ m.entry[x].state # "none"
        /\ EntryFits(m, x) /\ m \in Managers
    BY <1>1, MonitorFits, GoodParts DEF Watching
  <2>2. Good(v) /\ v.entry = m.entry /\ v.cur = m.cur
    <3>1. Good(v)
      BY SMTT(60), <1>1, GotoKeeps DEF Watching
    <3>. QED BY <2>1, <3>1 DEF Goto, Managers
  <2>3. /\ e \in Streams /\ e.state = "stopped" /\ e.pub /\ e.proc = m.entry[x].proc /\ e.writer = m.entry[x].writer
        /\ e.cancelled = m.entry[x].cancelled /\ e.stops = m.entry[x].stops
    BY <2>1 DEF Streams, States
  <2> HIDE DEF v
  <2>4. v \in Managers
    BY <2>2, GoodParts
  <2>5. [v EXCEPT !.entry[x].state = "stopped"] = [v EXCEPT !.entry[x] = e]
    BY <2>1, <2>2, <2>4 DEF Managers
  <2> HIDE DEF e
  <2>6. [v EXCEPT !.entry[x] = e].entry[x] = e /\ [v EXCEPT !.entry[x] = e].cur = m.cur
    BY SMTT(60), <2>1, <2>2, <2>4 DEF Managers
  <2>7. EntryFits([v EXCEPT !.entry[x] = e], x)
    BY SMTT(60), <2>1, <2>3, <2>6 DEF EntryFits
  <2>8. Good([v EXCEPT !.entry[x] = e])
    BY <2>1, <2>2, <2>3, <2>7, EntryMoves
  <2>. QED BY <1>3, <2>5, <2>8, BecomesKeeps DEF v
<1>. QED BY <1>2, <1>3 DEF MarkExited, Own

\* The monitor reads how the process ended.
LEMMA HandleExitKeeps == ASSUME CallerAssumption, Good(m), NEW w \in Workers, HandleExit(w) PROVE Good(m')
<1>1. m.work[w].pc = "exit" /\ \E pc \in {"check", "reset", "fail"} : Becomes(Goto(m, w, pc))
  BY DEF HandleExit, At
<1>2. \A pc \in {"check", "reset", "fail"} : Good(Goto(m, w, pc))
  BY <1>1, GotoKeeps DEF Watching
<1>. QED BY <1>1, <1>2, BecomesKeeps

\* The managed entry, whoever watches it, counts or is marked as failed.
LEMMA RetryKeeps == ASSUME CallerAssumption, NEW n \in Retries, Good(m) PROVE Good(Retry(m, n)) /\ Retry(m, n).work = m.work
<1> DEFINE x == m.cur
           e == [m.entry[x] EXCEPT !.retry = n]
<1>1. m \in Managers /\ x \in Entries \cup {None} /\ Exists(m, x)
  BY GoodParts DEF Managers
<1>2. CASE x = None
  BY <1>2 DEF Retry
<1>3. CASE x # None
  <2>1. x \in Entries /\ m.entry[x] \in Streams /\ m.entry[x].state # "none" /\ EntryFits(m, x)
    BY <1>1, <1>3, GoodParts DEF Exists
  <2>2. /\ e \in Streams /\ e.state = m.entry[x].state /\ e.pub = m.entry[x].pub /\ e.proc = m.entry[x].proc
        /\ e.writer = m.entry[x].writer /\ e.cancelled = m.entry[x].cancelled /\ e.stops = m.entry[x].stops
    BY <2>1 DEF Streams
  <2>3. Retry(m, n) = [m EXCEPT !.entry[x] = e]
    BY <1>1, <1>3, <2>1 DEF Retry, Managers
  <2> HIDE DEF e, x
  <2>4. [m EXCEPT !.entry[x] = e].entry[x] = e /\ [m EXCEPT !.entry[x] = e].cur = m.cur /\ [m EXCEPT !.entry[x] = e].work = m.work
    BY <1>1, <2>1 DEF Managers
  <2>5. EntryFits([m EXCEPT !.entry[x] = e], x)
    BY <2>1, <2>2, <2>4 DEF EntryFits
  <2>. QED BY <2>1, <2>2, <2>3, <2>4, <2>5, EntryMoves
<1>. QED BY <1>2, <1>3

\* SetError marks the managed entry, whoever calls it.
LEMMA SetErrorKeeps == ASSUME CallerAssumption, Good(m) PROVE Good(SetError(m)) /\ SetError(m).work = m.work
<1> DEFINE x == m.cur
           e == [m.entry[x] EXCEPT !.state = "error"]
<1>1. m \in Managers /\ x \in Entries \cup {None} /\ Exists(m, x)
  BY GoodParts DEF Managers
<1>2. CASE x = None
  BY <1>2 DEF SetError
<1>3. CASE x # None
  <2>1. x \in Entries /\ m.entry[x] \in Streams /\ m.entry[x].state # "none" /\ EntryFits(m, x)
    BY <1>1, <1>3, GoodParts DEF Exists
  <2>2. /\ e \in Streams /\ e.state = "error" /\ e.pub = m.entry[x].pub /\ e.proc = m.entry[x].proc
        /\ e.writer = m.entry[x].writer /\ e.cancelled = m.entry[x].cancelled /\ e.stops = m.entry[x].stops
    BY <2>1 DEF Streams, States
  <2>3. SetError(m) = [m EXCEPT !.entry[x] = e]
    BY <1>1, <1>3, <2>1 DEF SetError, Managers
  <2> HIDE DEF e, x
  <2>4. [m EXCEPT !.entry[x] = e].entry[x] = e /\ [m EXCEPT !.entry[x] = e].cur = m.cur /\ [m EXCEPT !.entry[x] = e].work = m.work
    BY <1>1, <2>1 DEF Managers
  <2>5. EntryFits([m EXCEPT !.entry[x] = e], x)
    BY <2>1, <2>2, <2>4 DEF EntryFits
  <2>. QED BY <2>1, <2>2, <2>3, <2>4, <2>5, EntryMoves
<1>. QED BY <1>2, <1>3

\* The exit is recorded ...
LEMMA RecordKeeps == ASSUME CallerAssumption, Good(m), NEW w \in Workers, Record(w) PROVE Good(m')
<1>1. CASE m.work[w].pc = "reset" /\ Becomes(Goto(Retry(m, 0), w, "check"))
  <2>1. 0 \in Retries
    BY DEF Retries, CallerAssumption
  <2>2. Good(Goto(Retry(m, 0), w, "check"))
    BY <1>1, <2>1, RetryKeeps, GotoKeeps DEF Watching
  <2>. QED BY <1>1, <2>2, BecomesKeeps
<1>2. CASE m.work[w].pc = "fail" /\ Becomes(Goto(SetError(m), w, "report"))
  <2>1. Good(Goto(SetError(m), w, "report"))
    BY <1>2, SetErrorKeeps, GotoKeeps DEF Watching
  <2>. QED BY <1>2, <2>1, BecomesKeeps
<1>. QED BY <1>1, <1>2 DEF Record, At

\* ... and counted.
LEMMA ReportKeeps ==
  ASSUME CallerAssumption, Good(m), NEW w \in Workers, NEW long \in BOOLEAN, Report(w, long) PROVE Good(m')
<1> DEFINE n == IF long THEN 0 ELSE Incremented
<1>1. m.work[w].pc = "report" /\ Becomes(Goto(Retry(m, n), w, "check"))
  BY DEF Report, At
<1>2. n \in Retries
  <2>1. RetryCount \in Retries
    BY GoodParts DEF RetryCount, Managers, Streams, Retries, CallerAssumption
  <2>. QED BY <2>1 DEF Incremented, Retries, CallerAssumption
<1> HIDE DEF n
<1>3. Good(Goto(Retry(m, n), w, "check"))
  BY <1>1, <1>2, RetryKeeps, GotoKeeps DEF Watching
<1>. QED BY <1>1, <1>3, BecomesKeeps

\* Whether to go on is read.
LEMMA CheckKeeps == ASSUME CallerAssumption, Good(m), NEW w \in Workers, Check(w) PROVE Good(m')
<1>1. m.work[w].pc \in {"check", "recheck"} /\ \E pc \in {"remove", "count", "recount"} : Becomes(Goto(m, w, pc))
  BY DEF Check, At
<1>2. \A pc \in {"remove", "count", "recount"} : Good(Goto(m, w, pc))
  BY <1>1, GotoKeeps DEF Watching
<1>. QED BY <1>1, <1>2, BecomesKeeps

\* The retries of an entry are given up, or not.
LEMMA CountKeeps == ASSUME CallerAssumption, Good(m), NEW w \in Workers, Count(w) PROVE Good(m')
<1> DEFINE x == m.work[w].own
<1>1. m.work[w].pc \in {"count", "recount"}
  BY DEF Count, At
<1>2. CASE \E pc \in {"backoff", "claim"} : Becomes(Goto(m, w, pc))
  <2>1. \A pc \in {"backoff", "claim"} : Good(Goto(m, w, pc))
    BY <1>1, GotoKeeps DEF Watching
  <2>. QED BY <1>2, <2>1, BecomesKeeps
<1>3. CASE Becomes([Quit(m, w) EXCEPT !.entry[x].over = TRUE])
  <2> DEFINE v == Quit(m, w)
             e == [m.entry[x] EXCEPT !.over = TRUE]
  <2>1. x \in Entries /\ m.entry[x] \in Streams /\ m.entry[x].state # "none" /\ EntryFits(m, x) /\ m \in Managers
    BY <1>1, MonitorFits, GoodParts DEF Watching
  <2>2. Good(v) /\ v.entry = m.entry /\ v.cur = m.cur
    <3>1. Good(v)
      BY SMTT(60), <1>1, QuitKeeps
    <3>. QED BY <2>1, <3>1 DEF Quit, Managers
  <2>3. /\ e \in Streams /\ e.state = m.entry[x].state /\ e.pub = m.entry[x].pub /\ e.proc = m.entry[x].proc
        /\ e.writer = m.entry[x].writer /\ e.cancelled = m.entry[x].cancelled /\ e.stops = m.entry[x].stops
    BY <2>1 DEF Streams
  <2> HIDE DEF v
  <2>4. v \in Managers
    BY <2>2, GoodParts
  <2>5. [v EXCEPT !.entry[x].over = TRUE] = [v EXCEPT !.entry[x] = e]
    BY <2>1, <2>2, <2>4 DEF Managers
  <2> HIDE DEF e
  <2> DEFINE u == [v EXCEPT !.entry[x] = e]
  <2>6. u.entry[x] = e /\ u.cur = m.cur
    BY <2>1, <2>2, <2>4 DEF Managers
  <2>7. EntryFits(u, x)
    <3> HIDE DEF u
    <3>. QED BY <2>1, <2>3, <2>6 DEF EntryFits
  <2>8. Good(u)
    BY <2>1, <2>2, <2>3, <2>7, EntryMoves
  <2>. QED BY <1>3, <2>5, <2>8, BecomesKeeps DEF v
<1>. QED BY <1>2, <1>3 DEF Count, Own

\* The wait ends, or the stop channel is closed.
LEMMA BackoffKeeps == ASSUME CallerAssumption, Good(m), NEW w \in Workers, Backoff(w) PROVE Good(m')
<1>1. m.work[w].pc = "backoff" /\ (Becomes(Goto(m, w, "recheck")) \/ Becomes(Quit(m, w)))
  BY DEF Backoff, At
<1>2. Good(Goto(m, w, "recheck")) /\ Good(Quit(m, w))
  BY <1>1, GotoKeeps, QuitKeeps DEF Watching
<1>. QED BY <1>1, <1>2, BecomesKeeps

\* A monitor takes its entry out of the map, cancelled.
LEMMA RemoveKeeps == ASSUME CallerAssumption, Good(m), NEW w \in Workers, RemoveIfOwned(w) PROVE Good(m')
<1> DEFINE x == m.work[w].own
           c == Cancel(m, x)
           v == Goto(c, w, "drop")
<1>1. m.work[w].pc = "remove" /\ x \in Entries
  BY MonitorFits DEF RemoveIfOwned, At, Watching
<1>2. CASE Becomes(Quit(m, w))
  BY <1>1, <1>2, QuitKeeps, BecomesKeeps
<1>3. CASE Owns(x) /\ Becomes([v EXCEPT !.cur = None])
  <2>1. /\ Good(c) /\ c.work = m.work /\ c.cur = x /\ c.entry[x].cancelled
    BY <1>1, <1>3, CancelKeeps DEF Owns, CallerAssumption
  <2> HIDE DEF c
  <2>2. Good(v) /\ v.cur = x /\ v.entry[x].cancelled
    <3>1. Good(v)
      BY <1>1, <2>1, GotoKeeps DEF Watching
    <3>2. c \in Managers
      BY <2>1, GoodParts
    <3>. QED BY <2>1, <3>1, <3>2 DEF Goto, Managers
  <2> HIDE DEF v
  <2>3. Good([v EXCEPT !.cur = None])
    BY <2>2, UnmanagedKeeps
  <2>. QED BY <1>3, <2>3, BecomesKeeps
<1>. QED BY <1>2, <1>3 DEF RemoveIfOwned, Own

\* What the monitor removed is gone.
LEMMA DropKeeps == ASSUME CallerAssumption, Good(m), NEW w \in Workers, Drop(w) PROVE Good(m')
<1>1. m.work[w].pc = "drop" /\ Becomes(Quit(m, w))
  BY DEF Drop, At
<1>. QED BY <1>1, QuitKeeps, BecomesKeeps

-------------------------------------------------------------------------------
(* Stop and StopAll                                                        *)

\* A Stop goes on with an entry that is cancelled and will not be published any more.
LEMMA StopMoves ==
  ASSUME NEW v, Good(v), NEW s \in Stoppers, NEW g \in StopCalls,
         LET x == g.entry IN
           x # None => v.entry[x].state # "none" /\ v.entry[x].cancelled /\ (v.entry[x].pub \/ v.cur # x),
         g.pc \in {"kill", "release", "delete"} => g.entry # None,
         s = All /\ g.pc # "idle" => v.enc = "stopping",
         s = All /\ g.pc \in {"kill", "release", "delete", "clear"} /\ v.cur # None => v.entry[v.cur].cancelled
  PROVE  Good([v EXCEPT !.stop[s] = g])
<1> DEFINE n == [v EXCEPT !.stop[s] = g]
<1>1. v \in Managers
  BY GoodParts
<1>2. /\ n \in Managers /\ n.cur = v.cur /\ n.entry = v.entry /\ n.work = v.work /\ n.enc = v.enc
      /\ n.stop[s] = g /\ \A t \in Stoppers \ {s} : n.stop[t] = v.stop[t]
  BY <1>1 DEF Managers
<1> HIDE DEF n
<1>3. Exists(n, n.cur) /\ OneStarts(n)
  BY <1>2, GoodParts DEF Exists, OneStarts
<1>4. Shut(n)
  <2>1. All \in Stoppers
    BY SMTT(60) DEF Stoppers
  <2>. QED BY <1>2, <2>1, GoodParts DEF Shut
<1>5. \A w \in Workers : WorkerFits(n, w)
  BY <1>2, GoodParts DEF WorkerFits, Exists
<1>6. \A t \in Stoppers : StopFits(n, t)
  BY <1>2, GoodParts DEF StopFits, Exists
<1>7. ASSUME NEW y \in Entries PROVE EntryFits(n, y) /\ (Adrift(n, y) => Replaced(n, y))
  <2>1. EntryFits(n, y)
    BY <1>2, GoodParts DEF EntryFits
  <2>2. Adrift(n, y) => Adrift(v, y)
    BY <1>2 DEF Adrift
  <2>. QED BY <1>2, <2>1, <2>2, GoodParts DEF Replaced
<1>8. Good(n)
  BY <1>2, <1>3, <1>4, <1>5, <1>6, <1>7 DEF Good
<1>. QED BY <1>8 DEF n

\* Nobody reads the wish or the configuration for any of this.
LEMMA WishKeeps ==
  ASSUME NEW v, Good(v), NEW o \in {"on", "off"}, NEW b \in BOOLEAN
  PROVE  Good([v EXCEPT !.wish = o]) /\ Good([v EXCEPT !.enabled = b])
<1>1. v \in Managers
  BY GoodParts
<1>2. ASSUME NEW n \in Managers, n.cur = v.cur, n.entry = v.entry, n.work = v.work, n.stop = v.stop, n.enc = v.enc
      PROVE  Good(n)
  <2>1. Shut(n)
    BY <1>2, GoodParts DEF Shut
  <2>. QED BY <1>2, <2>1, SameManager
<1>. QED BY SMTT(60), <1>1, <1>2 DEF Managers

\* A Stop that returns holds nothing.
LEMMA ReturnedTyped ==
  ASSUME NEW s \in Stoppers
  PROVE  Returned(s) \in StopCalls /\ Returned(s).entry = None /\ Returned(s).pc \in {"idle", "clear"}
         /\ (Returned(s).pc = "clear" <=> s = All)
BY DEF Returned, StopCalls

\* A Stop claims the entry, or finds none that is not another's.
LEMMA StopKeeps == ASSUME CallerAssumption, Good(m), NEW s \in Stoppers, Stop(s) PROVE Good(m')
<1> DEFINE x == m.cur
           c == Cancel(m, x)
<1>1. m \in Managers /\ x \in Entries \cup {None} /\ Exists(m, x) /\ (x # None => EntryFits(m, x) /\ m.entry[x] \in Streams)
      /\ (s = All => m.enc = "stopping")
  BY GoodParts DEF Stop, Managers, Shut
<1>2. CASE NothingToStop(x) /\ Becomes([m EXCEPT !.wish = "off", !.stop[s] = Returned(s)])
  <2> DEFINE v == [m EXCEPT !.wish = "off"]
  <2>1. Good(v) /\ v.cur = x /\ v.entry = m.entry /\ v.enc = m.enc
    BY <1>1, WishKeeps DEF Managers
  <2>2. [m EXCEPT !.wish = "off", !.stop[s] = Returned(s)] = [v EXCEPT !.stop[s] = Returned(s)]
    BY <1>1 DEF Managers
  <2>3. x # None => m.entry[x].cancelled
    BY <1>1, <1>2 DEF NothingToStop, EntryFits
  <2> HIDE DEF v
  <2>4. Good([v EXCEPT !.stop[s] = Returned(s)])
    BY <1>1, <2>1, <2>3, ReturnedTyped, StopMoves
  <2>. QED BY <1>2, <2>2, <2>4, BecomesKeeps
<1>3. /\ Good(c) /\ c \in Managers /\ c.cur = x /\ c.work = m.work /\ c.stop = m.stop /\ c.enc = m.enc
      /\ (x # None => /\ c.entry[x].cancelled /\ c.entry[x] \in Streams /\ EntryFits(c, x)
                      /\ c.entry[x].state = m.entry[x].state /\ c.entry[x].pub = m.entry[x].pub)
  <2>1. Good(c)
    BY <1>1, CancelKeeps
  <2>. QED BY <1>1, <2>1, CancelKeeps, GoodParts
<1> HIDE DEF c
<1>4. CASE ~NothingToStop(x) /\ m.entry[x].state = "running"
           /\ Becomes([c EXCEPT !.wish = "off", !.entry[x].state = "stopping", !.stop[s] = [pc |-> "kill", entry |-> x]])
  <2> DEFINE e == [c.entry[x] EXCEPT !.state = "stopping"]
             v == [c EXCEPT !.entry[x] = e]
             o == [v EXCEPT !.wish = "off"]
             g == [pc |-> "kill", entry |-> x]
  <2>1. x \in Entries
    BY SMTT(60), <1>1, <1>4 DEF NothingToStop
  <2>2. /\ e \in Streams /\ e.state = "stopping" /\ e.pub /\ e.proc = c.entry[x].proc /\ e.writer = c.entry[x].writer
        /\ e.cancelled /\ e.stops = c.entry[x].stops /\ e.pub = c.entry[x].pub /\ c.entry[x].state # "none"
    BY <1>1, <1>3, <1>4, <2>1 DEF Streams, States, EntryFits, CallerAssumption
  <2>3. [c EXCEPT !.wish = "off", !.entry[x].state = "stopping", !.stop[s] = g] = [o EXCEPT !.stop[s] = g]
    BY <1>3, <2>1 DEF Managers
  <2> HIDE DEF e
  <2>4. v.entry[x] = e /\ v.cur = x /\ v.enc = m.enc /\ v \in Managers
    BY <1>3, <2>1, <2>2 DEF Managers
  <2>5. EntryFits(v, x)
    BY <1>3, <2>1, <2>2, <2>4 DEF EntryFits, CallerAssumption
  <2>6. Good(v)
    BY <1>3, <2>1, <2>2, <2>5, EntryMoves
  <2> HIDE DEF v
  <2>7. Good(o) /\ o.entry[x] = e /\ o.cur = x /\ o.enc = m.enc
    BY <2>4, <2>6, WishKeeps DEF Managers
  <2>8. g \in StopCalls /\ g.pc = "kill" /\ g.entry = x
    BY <2>1 DEF StopCalls
  <2> HIDE DEF o, g
  <2>9. Good([o EXCEPT !.stop[s] = g])
    BY <1>1, <2>1, <2>2, <2>7, <2>8, StopMoves DEF CallerAssumption
  <2>. QED BY <1>4, <2>3, <2>9, BecomesKeeps DEF g
<1>5. CASE ~NothingToStop(x) /\ Becomes([c EXCEPT !.wish = "off", !.cur = None, !.stop[s] = [pc |-> "release", entry |-> x]])
  <2> DEFINE v == [c EXCEPT !.cur = None]
             o == [v EXCEPT !.wish = "off"]
             g == [pc |-> "release", entry |-> x]
  <2>1. x \in Entries /\ x # None
    BY <1>1, <1>5 DEF NothingToStop
  <2>2. [c EXCEPT !.wish = "off", !.cur = None, !.stop[s] = g] = [o EXCEPT !.stop[s] = g]
    BY <1>3, <2>1 DEF Managers
  <2>3. Good(v) /\ v.cur = None /\ v.entry = c.entry /\ v.enc = m.enc /\ v \in Managers
    <3>1. Good(v)
      BY <1>3, <2>1, UnmanagedKeeps
    <3>. QED BY <1>3, <3>1, GoodParts DEF Managers
  <2> HIDE DEF v
  <2>4. Good(o) /\ o.cur = None /\ o.entry = c.entry /\ o.enc = m.enc
    BY <2>3, WishKeeps DEF Managers
  <2>5. g \in StopCalls /\ g.pc = "release" /\ g.entry = x
    BY <2>1 DEF StopCalls
  <2>6. c.entry[x].state # "none"
    BY <1>1, <1>3, <2>1 DEF Exists
  <2> HIDE DEF o, g
  <2>7. Good([o EXCEPT !.stop[s] = g])
    BY <1>1, <1>3, <2>1, <2>4, <2>5, <2>6, StopMoves
  <2>. QED BY <1>5, <2>2, <2>7, BecomesKeeps DEF g
<1>. QED BY <1>2, <1>4, <1>5 DEF Stop, c

\* An entry with one more emission.
LEMMA Counted ==
  ASSUME NEW k \in Streams
  PROVE  LET e == [k EXCEPT !.stops = @ + 1] IN
         /\ e \in Streams /\ e.state = k.state /\ e.pub = k.pub /\ e.proc = k.proc
         /\ e.writer = k.writer /\ e.cancelled = k.cancelled /\ e.stops = k.stops + 1
BY DEF Streams

\* stream_stopped is emitted; nothing of the entry is left by then.
LEMMA EmitKeeps == ASSUME CallerAssumption, Good(m), NEW s \in Stoppers, Emit(s) PROVE Good(m')
<1> DEFINE x == m.stop[s].entry
           e == [m.entry[x] EXCEPT !.stops = @ + 1]
           v == [m EXCEPT !.entry[x] = e]
           g == IF m.stop[s].pc = "kill" THEN [m.stop[s] EXCEPT !.pc = "delete"] ELSE Returned(s)
<1>1. /\ m \in Managers /\ m.stop[s] \in StopCalls /\ m.stop[s].pc \in {"kill", "release"} /\ x \in Entries
      /\ StopFits(m, s) /\ EntryFits(m, x) /\ m.entry[x] \in Streams /\ x # None
      /\ ~m.entry[x].writer /\ (m.entry[x].pub => m.entry[x].proc # "alive")
  BY GoodParts DEF Emit, StopFits, StopCalls, Emptied, Released, CallerAssumption
<1>2. m.entry[x].state # "none" /\ m.entry[x].cancelled /\ (m.entry[x].pub \/ m.cur # x)
  BY SMTT(60), <1>1 DEF StopFits, Exists
<1>3. /\ e \in Streams /\ e.state = m.entry[x].state /\ e.pub = m.entry[x].pub /\ e.proc = m.entry[x].proc
      /\ e.writer = m.entry[x].writer /\ e.cancelled = m.entry[x].cancelled /\ e.stops = m.entry[x].stops + 1
  BY <1>1, Counted
<1>4. g \in StopCalls /\ ((g.pc = "delete" /\ g.entry = x) \/ g = Returned(s))
  BY <1>1, ReturnedTyped DEF StopCalls
<1>5. Becomes([v EXCEPT !.stop[s] = g])
  <2>1. [m EXCEPT !.entry[x].stops = @ + 1, !.stop[s] = IF @.pc = "kill" THEN [@ EXCEPT !.pc = "delete"] ELSE Returned(s)]
        = [v EXCEPT !.stop[s] = g]
    BY SMTT(60), <1>1 DEF Managers, Streams
  <2>. QED BY <2>1 DEF Emit
<1> HIDE DEF e, g
<1>6. v \in Managers /\ v.entry[x] = e /\ v.cur = m.cur /\ v.enc = m.enc /\ v.stop = m.stop
      /\ \A y \in Entries \ {x} : v.entry[y] = m.entry[y]
  BY SMTT(60), <1>1, <1>3 DEF Managers
<1>7. EntryFits(v, x)
  BY <1>1, <1>2, <1>3, <1>6 DEF EntryFits
<1>8. Good(v)
  BY <1>1, <1>2, <1>3, <1>7, EntryMoves
<1> HIDE DEF v
<1>9. s = All /\ v.cur # None => v.enc = "stopping" /\ v.entry[v.cur].cancelled
  <2>1. s = All => m.enc = "stopping" /\ (m.cur # None => m.entry[m.cur].cancelled)
    BY <1>1, GoodParts DEF Shut
  <2>. QED BY <1>1, <1>3, <1>6, <2>1 DEF Managers
<1>10. s = All => v.enc = "stopping"
  BY <1>1, <1>6, GoodParts DEF Shut
<1>11. Good([v EXCEPT !.stop[s] = g])
  <2>1. CASE g.pc = "delete" /\ g.entry = x /\ g \in StopCalls
    BY ZenonT(60), <1>1, <1>2, <1>3, <1>6, <1>8, <1>9, <1>10, <2>1, StopMoves
  <2>2. CASE g = Returned(s)
    BY <1>8, <1>9, <1>10, <2>2, ReturnedTyped, StopMoves
  <2>. QED BY SMTT(60), <1>4, <2>1, <2>2
<1>. QED BY SMTT(60), <1>5, <1>11, BecomesKeeps

\* The entry goes.
LEMMA DeleteKeeps == ASSUME CallerAssumption, Good(m), NEW s \in Stoppers, Delete(s) PROVE Good(m')
<1> DEFINE x == m.stop[s].entry
           v == [m EXCEPT !.cur = IF @ = x THEN None ELSE @]
<1>1. /\ m \in Managers /\ m.stop[s].pc = "delete" /\ x # None /\ m.entry[x].cancelled
      /\ Becomes([m EXCEPT !.cur = IF @ = x THEN None ELSE @, !.stop[s] = Returned(s)])
  BY GoodParts DEF Delete, StopFits
<1>2. /\ Good(v) /\ v.cur \in {m.cur, None} /\ v.entry = m.entry /\ v.enc = m.enc
  <2>1. CASE m.cur = x
    <3>1. v = [m EXCEPT !.cur = None]
      BY <2>1
    <3>2. Good([m EXCEPT !.cur = None])
      BY <1>1, <2>1, UnmanagedKeeps
    <3>. QED BY <1>1, <3>1, <3>2 DEF Managers
  <2>2. CASE m.cur # x
    <3>1. v = m
      BY <1>1, <2>2 DEF Managers
    <3>. QED BY <3>1
  <2>. QED BY <2>1, <2>2
<1>3. s = All => m.enc = "stopping" /\ (m.cur # None => m.entry[m.cur].cancelled)
  BY <1>1, GoodParts DEF Shut
<1>4. [m EXCEPT !.cur = IF @ = x THEN None ELSE @, !.stop[s] = Returned(s)] = [v EXCEPT !.stop[s] = Returned(s)]
  BY <1>1 DEF Managers
<1> HIDE DEF v
<1>5. Good([v EXCEPT !.stop[s] = Returned(s)])
  BY <1>2, <1>3, ReturnedTyped, StopMoves
<1>. QED BY <1>1, <1>4, <1>5, BecomesKeeps

\* The encoder's state matters while it stops its streams.
LEMMA EncKeeps ==
  ASSUME NEW v, Good(v), NEW to \in {"stopped", "starting", "running", "stopping"},
         to # "stopping" => v.stop[All].pc = "idle"
  PROVE  Good([v EXCEPT !.enc = to])
<1> DEFINE n == [v EXCEPT !.enc = to]
<1>1. n \in Managers /\ n.cur = v.cur /\ n.entry = v.entry /\ n.work = v.work /\ n.stop = v.stop /\ n.enc = to
  BY SMTT(60), GoodParts DEF Managers
<1> HIDE DEF n
<1>2. Good(n)
  <2>1. Shut(n)
    <3>1. All \in Stoppers
      BY DEF Stoppers
    <3>2. v.enc # "stopping" => v.stop[All].pc = "idle"
      BY GoodParts DEF Shut
    <3>. QED BY <1>1, <3>1, <3>2, GoodParts DEF Shut
  <2>. QED BY <1>1, <2>1, SameManager
<1>. QED BY <1>2 DEF n

\* The map is cleared, what was in it being cancelled, and the stop of the encoder ends.
LEMMA ClearKeeps == ASSUME CallerAssumption, Good(m), Clear PROVE Good(m')
<1> DEFINE v == [m EXCEPT !.cur = None]
           o == [v EXCEPT !.stop[All] = IdleStopper]
<1>1. m \in Managers /\ m.stop[All].pc = "clear" /\ m.enc = "stopping" /\ All \in Stoppers
      /\ (m.cur # None => m.entry[m.cur].cancelled)
  BY GoodParts DEF Clear, Shut, Stoppers
<1>2. Good(v) /\ v.cur = None /\ v.enc = m.enc
  <2>1. Good(v)
    BY <1>1, UnmanagedKeeps
  <2>. QED BY <1>1, <2>1 DEF Managers
<1>3. IdleStopper \in StopCalls /\ IdleStopper.pc = "idle" /\ IdleStopper.entry = None
  BY DEF IdleStopper, StopCalls
<1>4. Becomes([o EXCEPT !.enc = "stopped"])
  <2>1. [m EXCEPT !.cur = None, !.stop[All] = IdleStopper, !.enc = "stopped"] = [o EXCEPT !.enc = "stopped"]
    BY <1>1 DEF Managers
  <2>. QED BY <2>1 DEF Clear
<1> HIDE DEF v
<1>5. Good(o) /\ o.stop[All].pc = "idle"
  <2>1. Good(o)
    BY <1>1, <1>2, <1>3, StopMoves
  <2>2. v \in Managers
    BY <1>2, GoodParts
  <2>. QED BY <1>1, <1>3, <2>1, <2>2 DEF Managers
<1> HIDE DEF o
<1>6. Good([o EXCEPT !.enc = "stopped"])
  BY <1>5, EncKeeps
<1>. QED BY <1>4, <1>6, BecomesKeeps

-------------------------------------------------------------------------------
(* The encoder, FFmpeg and the writers                                     *)

\* The source of the encoder comes and goes.
LEMMA EncoderTurnsKeeps ==
  ASSUME CallerAssumption, Good(m), NEW from, NEW to, EncoderTurns(from, to) PROVE Good(m')
<1>1. m.enc \in {"stopped", "starting", "running"} /\ to \in {"starting", "running"} /\ Becomes([m EXCEPT !.enc = to])
  BY DEF EncoderTurns
<1>2. m.stop[All].pc = "idle"
  BY <1>1, GoodParts DEF Shut
<1>3. Good([m EXCEPT !.enc = to])
  BY <1>1, <1>2, EncKeeps
<1>. QED BY <1>1, <1>3, BecomesKeeps

\* Goroutines do not notice that their stop channel is closed.
LEMMA EncoderStopsKeeps == ASSUME CallerAssumption, Good(m), EncoderStops PROVE Good(m')
<1> DEFINE k == [w \in Workers |-> [m.work[w] EXCEPT !.chan = FALSE]]
           g == [m.stop[All] EXCEPT !.pc = "begin"]
           v == [m EXCEPT !.enc = "stopping", !.stop[All] = g, !.work = k]
<1>1. m \in Managers /\ m.stop[All].pc = "idle" /\ m.stop[All] \in StopCalls /\ All \in Stoppers
      /\ StopFits(m, All)
  BY GoodParts DEF EncoderStops, Shut, Stoppers
<1>2. Becomes(v)
  <2>1. [m EXCEPT !.enc = "stopping", !.stop[All].pc = "begin", !.work = k] = v
    BY <1>1 DEF Managers
  <2>. QED BY <2>1 DEF EncoderStops
<1>3. g \in StopCalls /\ g.pc = "begin" /\ g.entry = m.stop[All].entry
  BY <1>1 DEF StopCalls
<1>4. \A w \in Workers : /\ k[w] \in Goroutines /\ k[w].pc = m.work[w].pc /\ k[w].own = m.work[w].own
                         /\ k[w].old = m.work[w].old /\ k[w].monitor = m.work[w].monitor
  BY ZenonT(60), GoodParts DEF Goroutines
<1>5. k \in [Workers -> Goroutines]
  BY <1>4
<1> HIDE DEF k, g
<1>6. /\ v \in Managers /\ v.cur = m.cur /\ v.entry = m.entry /\ v.work = k /\ v.enc = "stopping" /\ v.stop[All] = g
      /\ \A t \in Stoppers \ {All} : v.stop[t] = m.stop[t]
  BY <1>1, <1>3, <1>5 DEF Managers
<1> HIDE DEF v
<1>7. Exists(v, v.cur) /\ OneStarts(v) /\ Shut(v)
  BY <1>3, <1>4, <1>6, GoodParts DEF Exists, OneStarts, Shut
<1>8. \A w \in Workers : WorkerFits(v, w)
  BY SMTT(60), <1>4, <1>6, GoodParts DEF WorkerFits, Exists
<1>9. \A t \in Stoppers : StopFits(v, t)
  BY SMTT(60), <1>1, <1>3, <1>6, GoodParts DEF StopFits, Exists
<1>10. ASSUME NEW y \in Entries PROVE EntryFits(v, y) /\ (Adrift(v, y) => Replaced(v, y))
  <2>1. EntryFits(v, y)
    BY <1>6, GoodParts DEF EntryFits
  <2>2. Adrift(v, y) => Adrift(m, y)
    BY <1>4, <1>6 DEF Adrift
  <2>. QED BY <1>4, <1>6, <2>1, <2>2, GoodParts DEF Replaced
<1>11. Good(v)
  BY <1>6, <1>7, <1>8, <1>9, <1>10 DEF Good
<1>. QED BY <1>2, <1>11, BecomesKeeps

\* The configuration changes.
LEMMA SetEnabledKeeps == ASSUME CallerAssumption, Good(m), NEW b \in BOOLEAN, SetEnabled(b) PROVE Good(m')
BY WishKeeps, BecomesKeeps DEF SetEnabled

\* A process ends; one that was running for nobody is one less.
LEMMA ExitsKeeps ==
  ASSUME CallerAssumption, Good(m), NEW x \in Entries, NEW how \in {"ended", "failed"}, Exits(x, how) PROVE Good(m')
<1> DEFINE e == [m.entry[x] EXCEPT !.proc = how]
<1>1. m \in Managers /\ m.entry[x] \in Streams /\ EntryFits(m, x) /\ m.entry[x].proc = "alive" /\ m.entry[x].state # "none"
  BY GoodParts DEF Exits, EntryFits
<1>2. /\ e \in Streams /\ e.state = m.entry[x].state /\ e.pub = m.entry[x].pub /\ e.proc = how
      /\ e.writer = m.entry[x].writer /\ e.cancelled = m.entry[x].cancelled /\ e.stops = m.entry[x].stops
  BY <1>1 DEF Streams
<1>3. Becomes([m EXCEPT !.entry[x] = e])
  BY <1>1 DEF Exits, Managers
<1> HIDE DEF e
<1>4. [m EXCEPT !.entry[x] = e].entry[x] = e /\ [m EXCEPT !.entry[x] = e].cur = m.cur
  BY <1>1 DEF Managers
<1>5. EntryFits([m EXCEPT !.entry[x] = e], x)
  BY <1>1, <1>2, <1>4 DEF EntryFits
<1>6. Good([m EXCEPT !.entry[x] = e])
  BY <1>1, <1>2, <1>5, EntryMoves
<1>. QED BY <1>3, <1>6, BecomesKeeps

\* A writer ends.
LEMMA WriterKeeps ==
  ASSUME CallerAssumption, Good(m), NEW x \in Entries, WriterFails(x) \/ WriterEnds(x) PROVE Good(m')
<1>1. m \in Managers /\ m.entry[x] \in Streams /\ EntryFits(m, x) /\ m.entry[x].writer /\ m.entry[x].state # "none"
  BY GoodParts DEF WriterFails, WriterEnds, EntryFits
<1> DEFINE e(state) == [m.entry[x] EXCEPT !.writer = FALSE, !.state = state]
<1>2. PICK state \in {m.entry[x].state, "error"} : Becomes([m EXCEPT !.entry[x] = e(state)])
  <2>1. [m EXCEPT !.entry[x].writer = FALSE] = [m EXCEPT !.entry[x] = e(m.entry[x].state)]
    BY <1>1 DEF Managers, Streams
  <2>2. \A t \in States : [m EXCEPT !.entry[x].writer = FALSE, !.entry[x].state = t] = [m EXCEPT !.entry[x] = e(t)]
    BY ZenonT(60), <1>1 DEF Managers, Streams
  <2>3. CASE WriterFails(x)
    <3> DEFINE t == IF m.cur = x /\ m.entry[x].state = "running" THEN "error" ELSE m.entry[x].state
    <3>1. t \in States /\ t \in {m.entry[x].state, "error"}
      BY <1>1 DEF Streams, States
    <3>2. Becomes([m EXCEPT !.entry[x].writer = FALSE, !.entry[x].state = t])
      <4>1. [m EXCEPT !.entry[x].writer = FALSE, !.entry[x].state =
               IF m.cur = x /\ m.entry[x].state = "running" THEN "error" ELSE @]
            = [m EXCEPT !.entry[x].writer = FALSE, !.entry[x].state = t]
        BY <1>1 DEF Managers, Streams
      <4>. QED BY <2>3, <4>1 DEF WriterFails
    <3> HIDE DEF t
    <3>. QED BY <2>2, <3>1, <3>2
  <2>4. CASE WriterEnds(x)
    BY <2>1, <2>4 DEF WriterEnds
  <2>. QED BY <2>3, <2>4
<1> DEFINE f == e(state)
<1>3. /\ f \in Streams /\ f.state = state /\ f.pub = m.entry[x].pub /\ f.proc = m.entry[x].proc
      /\ ~f.writer /\ f.cancelled = m.entry[x].cancelled /\ f.stops = m.entry[x].stops
  BY <1>1, <1>2 DEF Streams, States
<1>4. Becomes([m EXCEPT !.entry[x] = f])
  BY <1>2
<1> HIDE DEF f, e
<1>5. [m EXCEPT !.entry[x] = f].entry[x] = f /\ [m EXCEPT !.entry[x] = f].cur = m.cur
  BY <1>1 DEF Managers
<1>6. EntryFits([m EXCEPT !.entry[x] = f], x)
  BY <1>1, <1>2, <1>3, <1>5 DEF EntryFits
<1>7. Good([m EXCEPT !.entry[x] = f])
  BY <1>1, <1>2, <1>3, <1>6, EntryMoves
<1>. QED BY <1>4, <1>7, BecomesKeeps

-------------------------------------------------------------------------------
(* Every caller, every entry                                               *)

\* Nothing has been started.
LEMMA InitGood == ASSUME CallerAssumption, Init PROVE Good(m)
<1>1. /\ m.cur = None /\ m.entry = [x \in Entries |-> Blank] /\ m.work = [w \in Workers |-> IdleWorker]
      /\ m.stop = [s \in Stoppers |-> IdleStopper] /\ m.enc = "stopped"
  BY DEF Init
<1>2. m \in Managers
  BY BlankTyped, IdleTyped DEF Init, Managers, IdleStopper, StopCalls
<1>3. Exists(m, m.cur) /\ OneStarts(m) /\ Shut(m)
  BY <1>1 DEF Exists, OneStarts, Shut, IdleWorker, IdleStopper, Stoppers, Starting, Launching
<1>4. \A w \in Workers : WorkerFits(m, w)
  BY <1>1, IdleTyped DEF WorkerFits, Exists, Starting, Launching, Watching
<1>5. \A s \in Stoppers : StopFits(m, s)
  BY <1>1 DEF StopFits, Exists, IdleStopper
<1>6. \A x \in Entries : EntryFits(m, x) /\ ~Adrift(m, x)
  <2>1. \A x \in Entries : m.entry[x] = Blank
    BY <1>1
  <2>2. \A w \in Workers : m.work[w].pc \notin Launching
    BY <1>1, IdleTyped DEF Launching
  <2> SUFFICES ASSUME NEW x \in Entries PROVE EntryFits(m, x) /\ ~Adrift(m, x)
    OBVIOUS
  <2>3. m.entry[x] = Blank
    BY <2>1
  <2>. QED BY <2>2, <2>3 DEF EntryFits, Adrift, Blank
<1>. QED BY <1>2, <1>3, <1>4, <1>5, <1>6 DEF Good

\* Every step of a goroutine that starts or watches.
LEMMA WorkKeeps == ASSUME CallerAssumption, Good(m), NEW w \in Workers, Work(w) PROVE Good(m')
BY ClaimKeeps, ReleaseKeeps, DrainKeeps, ExecKeeps, PublishKeeps, ReapKeeps, BeginKeeps, TopKeeps, MarkExitedKeeps,
   HandleExitKeeps, RecordKeeps, ReportKeeps, CheckKeeps, CountKeeps, BackoffKeeps, RemoveKeeps, DropKeeps DEF Work

\* Good is inductive.
LEMMA NextKeeps == ASSUME CallerAssumption, Good(m), Next PROVE Good(m')
<1>1. All \in Stoppers /\ Users \subseteq Stoppers
  BY DEF Stoppers
<1>2. CASE \E w \in Workers : Work(w)
  BY <1>2, WorkKeeps
<1>3. CASE Shutdown
  BY <1>1, <1>3, StopKeeps, ClearKeeps, EmitKeeps, DeleteKeeps DEF Shutdown
<1>4. CASE Environment
  BY <1>1, <1>4, StartKeeps, StopKeeps, EncoderTurnsKeeps, EncoderStopsKeeps, SetEnabledKeeps, ExitsKeeps, WriterKeeps
     DEF Environment
<1>5. CASE \E x \in Entries : WriterEnds(x)
  BY <1>5, WriterKeeps
<1>. QED BY <1>2, <1>3, <1>4, <1>5 DEF Next

\* The parts of the invariant that are properties.
LEMMA GoodSound == ASSUME Good(m) PROVE TypeOK /\ NoOrphan /\ StoppedIsOver
<1>1. TypeOK
  <2>1. Starting \cup Watching = {"release", "drain", "exec", "publish", "reap", "begin", "top", "wait", "exit", "reset",
          "fail", "report", "check", "count", "backoff", "recheck", "recount", "remove", "drop"}
    BY DEF Starting, Launching, Watching
  <2>2. {"idle", "claim"} \cup Starting \cup Watching =
          {"idle", "claim", "release", "drain", "exec", "publish", "reap", "begin", "top", "wait", "exit", "reset",
           "fail", "report", "check", "count", "backoff", "recheck", "recount", "remove", "drop"}
    BY <2>1
  <2>3. m \in Managers
    BY GoodParts
  <2>. QED BY <2>2, <2>3 DEF TypeOK, Managers, Goroutines, Streams, States, StopCalls
<1>2. NoOrphan
  BY GoodParts DEF NoOrphan, Live, Adrift, Replaced
<1>3. StoppedIsOver
  BY GoodParts DEF StoppedIsOver, EntryFits
<1>. QED BY <1>1, <1>2, <1>3

\* The inductive invariant of the specification.
LEMMA AlwaysGood == ASSUME CallerAssumption PROVE Spec => []Good(m)
<1>1. Init => Good(m)
  BY InitGood
<1>2. Good(m) /\ [Next]_m => Good(m)'
  <2>1. Good(m) /\ UNCHANGED m => Good(m)'
    OBVIOUS
  <2>. QED BY <2>1, NextKeeps
<1>. QED BY <1>1, <1>2, PTL DEF Spec

\* Every reachable state is well typed.
THEOREM TypeCorrect == ASSUME CallerAssumption PROVE Spec => []TypeOK
BY AlwaysGood, GoodSound, PTL

\* However many goroutines start, watch, retry and stop the stream, a process that nobody
\* has told to end is that of the entry in the map (claimStream, startCaller, Stop).
THEOREM NoneForgotten == ASSUME CallerAssumption PROVE Spec => []NoOrphan
BY AlwaysGood, GoodSound, PTL

\* When stream_stopped is emitted the process has exited and its writer is done, and it
\* stays so, whatever late monitors and starts do with the entry (Stop).
THEOREM StopsAreOver == ASSUME CallerAssumption PROVE Spec => []StoppedIsOver
BY AlwaysGood, GoodSound, PTL

-------------------------------------------------------------------------------
(* One goroutine that starts the stream                                    *)

\* One goroutine starts the stream at a time; with two, a Stop can be undone by the
\* monitor of the entry it was not looking at.
Single == \A w, u \in Workers : w = u

\* A step that takes no entry and marks none.
LEMMA AloneStays ==
  ASSUME CallerAssumption, Good(m), Alone(m), NEW v \in Managers, Becomes(v),
         v.cur \in {m.cur, None}, v.wish = m.wish,
         v.cur # None => v.entry[v.cur].state = m.entry[v.cur].state,
         \A w \in Workers :
           /\ v.work[w].own \in {m.work[w].own, None}
           /\ v.work[w].pc \in Late /\ v.work[w].own # None => m.work[w].pc \in Late
  PROVE  Alone(m')
<1> DEFINE n == m'
<1>1. /\ n.cur = v.cur /\ n.work = v.work /\ n.wish = v.wish
      /\ v.cur # None => n.entry[v.cur].state = v.entry[v.cur].state
  <2>1. v.cur # None => v.cur \in Entries /\ ~Garbage(v, v.cur)
    BY DEF Managers, Garbage
  <2>. QED BY <2>1, BecomesEffect
<1> HIDE DEF n
<1>2. n.cur # None => n.cur = m.cur /\ n.entry[n.cur].state = m.entry[m.cur].state
  BY <1>1
<1>3. ASSUME NEW w \in Workers
      PROVE  /\ n.work[w].own # None => n.cur \in {None, n.work[w].own}
             /\ n.work[w].own # None /\ n.work[w].pc \in Late /\ n.cur = n.work[w].own =>
                  n.entry[n.cur].state \in {"stopped", "error"}
  <2>1. /\ n.work[w].own \in {m.work[w].own, None}
        /\ n.work[w].pc \in Late /\ n.work[w].own # None => m.work[w].pc \in Late
    BY <1>1
  <2>. QED BY <1>1, <1>2, <2>1 DEF Alone
<1>4. n.wish = "off" => n.cur = None \/ n.entry[n.cur].state = "stopping"
  BY <1>1, <1>2 DEF Alone
<1>5. Alone(n)
  BY <1>3, <1>4 DEF Alone
<1>. QED BY <1>5 DEF n

\* The monitor goes to another place.
LEMMA AloneGoto ==
  ASSUME CallerAssumption, Good(m), Alone(m), NEW w \in Workers, NEW pc \in Watching \cup {"claim"}, Becomes(Goto(m, w, pc)),
         pc \in Late => m.work[w].pc \in Late
  PROVE  Alone(m')
<1> DEFINE v == Goto(m, w, pc)
<1>1. m \in Managers
  BY GoodParts
<1>2. /\ v \in Managers /\ v.cur = m.cur /\ v.wish = m.wish /\ v.entry = m.entry
      /\ v.work[w].own = m.work[w].own /\ v.work[w].pc = pc
      /\ \A u \in Workers \ {w} : v.work[u] = m.work[u]
  BY ZenonT(60), <1>1 DEF Goto, Managers, Goroutines
<1>3. Becomes(v)
  OBVIOUS
<1> HIDE DEF v
<1>. QED BY <1>2, <1>3, AloneStays

\* The goroutine ends.
LEMMA AloneQuit ==
  ASSUME CallerAssumption, Good(m), Alone(m), NEW w \in Workers, Becomes(Quit(m, w)) PROVE Alone(m')
<1> DEFINE v == Quit(m, w)
<1>1. m \in Managers
  BY GoodParts
<1>2. /\ v \in Managers /\ v.cur = m.cur /\ v.wish = m.wish /\ v.entry = m.entry
      /\ v.work[w].own = None
      /\ \A u \in Workers \ {w} : v.work[u] = m.work[u]
  BY <1>1, IdleTyped DEF Quit, Managers
<1>3. Becomes(v)
  OBVIOUS
<1> HIDE DEF v
<1>. QED BY <1>2, <1>3, AloneStays

\* What the only starter takes is in the map, and somebody wants it.
LEMMA AloneClaim == ASSUME CallerAssumption, Single, Good(m), Alone(m), NEW w \in Workers, Claim(w) PROVE Alone(m')
<1> DEFINE x == m.cur
           n == CHOOSE y \in Unused : TRUE
           retry == IF x = None THEN 0 ELSE m.entry[x].retry
           e == [Blank EXCEPT !.state = "starting", !.retry = retry]
           g == [m.work[w] EXCEPT !.pc = "release", !.own = n, !.old = x]
           v == [m EXCEPT !.cur = n, !.entry[n] = e, !.work[w] = g, !.wish = IF m.work[w].monitor THEN @ ELSE "on"]
<1>0. m.work[w].pc = "claim" /\ m \in Managers /\ m.work[w] \in Goroutines /\ x \in Entries \cup {None} /\ WorkerFits(m, w)
  BY GoodParts DEF Claim, At, Managers
<1>1. CASE ~MayClaim(w)
  BY <1>0, <1>1, AloneGoto, AloneQuit DEF Claim, Watching, Late
<1>2. CASE MayClaim(w) /\ Unused # {} /\ Becomes(v)
  <2>1. n \in Entries /\ n # None
    BY <1>2 DEF Unused, CallerAssumption
  <2>2. e \in Streams /\ e.state = "starting"
    <3>1. retry \in Retries
      BY <1>0 DEF Managers, Streams, Retries, CallerAssumption
    <3> HIDE DEF retry
    <3>. QED BY <3>1, BlankTyped DEF Blank, Streams, States
  <2>3. g \in Goroutines /\ g.pc = "release" /\ g.own = n
    <3> HIDE DEF n, x
    <3>1. n \in Entries /\ x \in Entries \cup {None} /\ m.work[w] \in Goroutines
      BY <1>0, <2>1
    <3>. QED BY <3>1 DEF Goroutines, Starting, Launching
  <2>4. m.work[w].monitor => m.wish # "off"
    <3> SUFFICES ASSUME m.work[w].monitor PROVE m.wish # "off"
      OBVIOUS
    <3>1. m.work[w].own # None /\ m.cur = m.work[w].own
      BY <1>0, <1>2 DEF MayClaim, WorkerFits, Own
    <3>. QED BY <1>0, <3>1 DEF Alone, Late
  <2> HIDE DEF e, g, n
  <2>5. v \in Managers /\ v.cur = n /\ v.work[w] = g /\ v.wish = "on"
    BY <1>0, <2>1, <2>2, <2>3, <2>4 DEF Managers
  <2> HIDE DEF v
  <2>6. m'.cur = n /\ m'.work[w] = g /\ m'.wish = "on"
    BY <1>2, <2>5, BecomesEffect
  <2>. QED BY <2>3, <2>6 DEF Alone, Single, Late
<1>3. m.work[w] \in Goroutines /\ [m.work[w] EXCEPT !.pc = "release", !.own = n, !.old = x] = g
  BY <1>0
<1>. QED BY <1>1, <1>2 DEF Claim

\* The old entry is not the managed one.
LEMMA AloneRelease == ASSUME CallerAssumption, Good(m), Alone(m), NEW w \in Workers, Release(w) PROVE Alone(m')
<1> DEFINE x == m.work[w].old
           c == Cancel(m, x)
           v == Goto(c, w, "drain")
<1>1. Becomes(v) /\ x \in Entries \cup {None}
  BY GoodParts DEF Release, Goroutines
<1>2. /\ Good(c) /\ c.work = m.work /\ c.cur = m.cur /\ c.wish = m.wish
      /\ \A y \in Entries : c.entry[y].state = m.entry[y].state
  BY <1>1, CancelKeeps
<1> HIDE DEF c
<1>3. c \in Managers /\ c.cur \in Entries \cup {None}
  BY <1>2, GoodParts DEF Managers
<1>4. /\ v \in Managers /\ v.cur = m.cur /\ v.wish = m.wish /\ v.entry = c.entry
      /\ v.work[w].own = m.work[w].own /\ v.work[w].pc = "drain"
      /\ \A u \in Workers \ {w} : v.work[u] = m.work[u]
  BY ZenonT(60), <1>2, <1>3 DEF Goto, Managers, Goroutines, Starting, Launching
<1> HIDE DEF v
<1>5. v.cur # None => v.entry[v.cur].state = m.entry[v.cur].state
  BY <1>2, <1>3, <1>4
<1>. QED BY <1>1, <1>4, <1>5, AloneStays DEF Late

\* The old entry is let go of.
LEMMA AloneDrain == ASSUME CallerAssumption, Good(m), Alone(m), NEW w \in Workers, Drain(w) PROVE Alone(m')
<1> DEFINE g == [m.work[w] EXCEPT !.pc = "exec", !.old = None]
           v == [m EXCEPT !.work[w] = g]
<1>0. m \in Managers /\ m.work[w] \in Goroutines
  BY GoodParts
<1>1. Becomes(v)
  <2>1. [m EXCEPT !.work[w].pc = "exec", !.work[w].old = None] = v
    BY <1>0 DEF Managers, Goroutines
  <2>. QED BY <2>1 DEF Drain
<1>3. g \in Goroutines /\ g.pc = "exec" /\ g.own = m.work[w].own
  BY <1>0 DEF Goroutines, Starting, Launching
<1> HIDE DEF g
<1>2. /\ v \in Managers /\ v.cur = m.cur /\ v.wish = m.wish /\ v.entry = m.entry
      /\ v.work[w] = g /\ \A u \in Workers \ {w} : v.work[u] = m.work[u]
  BY <1>0, <1>3 DEF Managers
<1> HIDE DEF v
<1>. QED BY <1>1, <1>2, <1>3, AloneStays DEF Late

\* The process starts, or the claim is taken back.
LEMMA AloneExec ==
  ASSUME CallerAssumption, Good(m), Alone(m), NEW w \in Workers, NEW ok \in BOOLEAN, Exec(w, ok) PROVE Alone(m')
<1> DEFINE x == m.work[w].own
<1>1. m \in Managers /\ m.work[w].pc = "exec" /\ x \in Entries
  BY GoodParts DEF Exec, At, WorkerFits, Goroutines, Starting, Launching
<1>2. CASE ok /\ ~m.entry[x].cancelled
  <2> DEFINE e == [m.entry[x] EXCEPT !.proc = "alive", !.kept = m.entry[x].retry]
             g == [m.work[w] EXCEPT !.pc = "publish"]
             v == [m EXCEPT !.work[w] = g, !.entry[x] = e]
  <2>1. e \in Streams /\ e.state = m.entry[x].state
    <3>1. m.entry[x] \in Streams
      BY <1>1, GoodParts
    <3>. QED BY <3>1 DEF Streams
  <2>2. g \in Goroutines /\ g.pc = "publish" /\ g.own = x
    BY <1>1, GoodParts DEF Goroutines, Starting, Launching
  <2>3. Becomes(v)
    <3>1. [Goto(m, w, "publish") EXCEPT !.entry[x].proc = "alive", !.entry[x].kept = m.entry[x].retry] = v
      BY ZenonT(60), <1>1 DEF Goto, Managers, Streams, Goroutines
    <3>. QED BY <1>2, <3>1 DEF Exec, Own
  <2> HIDE DEF e, g
  <2>4. /\ v \in Managers /\ v.cur = m.cur /\ v.wish = m.wish /\ v.work[w] = g
        /\ \A u \in Workers \ {w} : v.work[u] = m.work[u]
        /\ \A y \in Entries : v.entry[y].state = m.entry[y].state
    BY <1>1, <2>1, <2>2 DEF Managers
  <2> HIDE DEF v
  <2>. QED BY SMTT(60), <1>1, <2>2, <2>3, <2>4, AloneStays DEF Late, Managers
<1>3. CASE ~(ok /\ ~m.entry[x].cancelled)
  <2> DEFINE v == [Quit(m, w) EXCEPT !.cur = IF @ = x THEN None ELSE @]
  <2>1. Becomes(v)
    BY <1>3 DEF Exec, Own
  <2>2. /\ v \in Managers /\ v.cur \in {m.cur, None} /\ v.wish = m.wish /\ v.entry = m.entry
        /\ v.work[w].own = None /\ \A u \in Workers \ {w} : v.work[u] = m.work[u]
    BY <1>1, IdleTyped DEF Quit, Managers
  <2> HIDE DEF v
  <2>. QED BY <2>1, <2>2, AloneStays
<1>. QED BY <1>2, <1>3

\* A placeholder in the map is wanted: a Stop would have removed it.
LEMMA AlonePublish == ASSUME CallerAssumption, Good(m), Alone(m), NEW w \in Workers, Publish(w) PROVE Alone(m')
<1> DEFINE x == m.work[w].own
<1>1. /\ m \in Managers /\ m.work[w].pc = "publish" /\ m.work[w] \in Goroutines
      /\ x \in Entries /\ ~m.entry[x].pub /\ m.entry[x] \in Streams /\ EntryFits(m, x)
  BY GoodParts DEF Publish, At, WorkerFits, Goroutines, Starting, Launching
<1>2. CASE m.cur # x
  <2> DEFINE c == Cancel(m, x)
             v == Goto(c, w, "reap")
  <2>1. Becomes(v)
    BY <1>2 DEF Publish, Own
  <2>2. /\ Good(c) /\ c.work = m.work /\ c.cur = m.cur /\ c.wish = m.wish
        /\ \A y \in Entries : c.entry[y].state = m.entry[y].state
    BY <1>1, CancelKeeps
  <2> HIDE DEF c
  <2>3. c \in Managers /\ c.cur \in Entries \cup {None}
    BY <2>2, GoodParts DEF Managers
  <2>4. /\ v \in Managers /\ v.cur = m.cur /\ v.wish = m.wish /\ v.entry = c.entry
        /\ v.work[w].own = m.work[w].own /\ v.work[w].pc = "reap"
        /\ \A u \in Workers \ {w} : v.work[u] = m.work[u]
    BY SMTT(60), <2>2, <2>3 DEF Goto, Managers, Goroutines, Starting, Launching
  <2> HIDE DEF v
  <2>5. v.cur # None => v.entry[v.cur].state = m.entry[v.cur].state
    BY <2>2, <2>3, <2>4
  <2>. QED BY <2>1, <2>4, <2>5, AloneStays DEF Late
<1>3. CASE m.cur = x
  <2> DEFINE pc == IF m.work[w].monitor THEN "top" ELSE "begin"
             e == [m.entry[x] EXCEPT !.state = "running", !.pub = TRUE, !.writer = TRUE, !.open = TRUE,
                                     !.retry = m.entry[x].kept, !.kept = 0]
             g == [m.work[w] EXCEPT !.pc = pc]
             v == [m EXCEPT !.work[w] = g, !.entry[x] = e]
  <2>1. e \in Streams
    <3>1. 0 \in Retries
      BY DEF Retries, CallerAssumption
    <3>. QED BY <1>1, <3>1 DEF Streams, States
  <2>2. g \in Goroutines /\ g.pc \in {"top", "begin"} /\ g.own = x
    BY SMTT(60), <1>1 DEF Goroutines, Watching
  <2>3. Becomes(v)
    <3>1. [Goto(m, w, pc) EXCEPT !.entry[x] = [@ EXCEPT !.state = "running", !.pub = TRUE, !.writer = TRUE, !.open = TRUE,
             !.retry = m.entry[x].kept, !.kept = 0]] = v
      BY <1>1 DEF Goto, Managers, Streams, Goroutines
    <3>. QED BY <1>3, <3>1 DEF Publish, Own
  <2> HIDE DEF e, g, pc
  <2>4. /\ v \in Managers /\ v.cur = x /\ v.work[w] = g /\ v.wish = m.wish
        /\ \A u \in Workers \ {w} : v.work[u] = m.work[u]
    BY <1>1, <1>3, <2>1, <2>2 DEF Managers
  <2> HIDE DEF v
  <2>5. m.wish # "off"
    BY <1>1, <1>3 DEF Alone, EntryFits, CallerAssumption
  <2>6. m'.cur = x /\ m'.work = v.work /\ m'.wish = m.wish
    BY <2>3, <2>4, BecomesEffect
  <2>7. ASSUME NEW u \in Workers, m'.work[u].own # None
        PROVE  m'.cur \in {None, m'.work[u].own} /\ ~(m'.work[u].pc \in Late /\ m'.cur = m'.work[u].own)
    <3>1. CASE u = w
      BY <2>2, <2>4, <2>6, <3>1 DEF Late
    <3>2. CASE u # w
      <4>1. m'.work[u] = m.work[u] /\ m.work[u].own # None /\ m.work[u].own = x
        BY SMTT(60), <1>1, <1>3, <2>4, <2>6, <2>7, <3>2 DEF Alone, CallerAssumption
      <4>2. m.work[u].pc \notin Late
        BY <1>1, <4>1, GoodParts DEF Late, WorkerFits, Starting, Launching
      <4>. QED BY <1>3, <2>6, <4>1, <4>2
    <3>. QED BY <3>1, <3>2
  <2>. QED BY <2>5, <2>6, <2>7 DEF Alone
<1>. QED BY <1>2, <1>3

\* A monitor begins with its own entry, since no other is in the map.
LEMMA AloneBegin == ASSUME CallerAssumption, Single, Good(m), Alone(m), NEW w \in Workers, Begin(w) PROVE Alone(m')
<1>1. m \in Managers /\ m.work[w] \in Goroutines /\ m.cur \in Entries \cup {None}
  BY GoodParts DEF Managers
<1>2. CASE Becomes(Quit(m, w))
  BY <1>2, AloneQuit
<1>3. CASE m.cur # None /\ Becomes([m EXCEPT !.work[w] = [@ EXCEPT !.pc = "top", !.own = m.cur, !.monitor = TRUE]])
  <2> DEFINE g == [m.work[w] EXCEPT !.pc = "top", !.own = m.cur, !.monitor = TRUE]
             v == [m EXCEPT !.work[w] = g]
  <2>1. g \in Goroutines /\ g.pc = "top" /\ g.own = m.cur
    BY <1>1 DEF Goroutines, Watching
  <2>2. Becomes(v)
    BY <1>1, <1>3
  <2> HIDE DEF g
  <2>3. v \in Managers /\ v.cur = m.cur /\ v.wish = m.wish /\ v.entry = m.entry /\ v.work[w] = g
    BY <1>1, <2>1 DEF Managers
  <2> HIDE DEF v
  <2>4. /\ m'.cur = m.cur /\ m'.work[w] = g /\ m'.wish = m.wish
        /\ m.cur # None => m'.entry[m.cur].state = m.entry[m.cur].state
    <3>1. m.cur # None => m.cur \in Entries /\ ~Garbage(v, m.cur)
      BY <1>1, <2>3 DEF Garbage
    <3>. QED BY <2>2, <2>3, <3>1, BecomesEffect
  <2>. QED BY <2>1, <2>4 DEF Alone, Single, Late
<1>. QED BY <1>2, <1>3 DEF Begin

\* The only starter marks its entry: nobody has asked to stop it.
LEMMA AloneMarkExited == ASSUME CallerAssumption, Good(m), Alone(m), NEW w \in Workers, MarkExited(w) PROVE Alone(m')
<1> DEFINE x == m.work[w].own
<1>1. m.work[w].pc = "wait" /\ m \in Managers /\ m.work[w] \in Goroutines /\ x \in Entries /\ m.entry[x] \in Streams
  BY MonitorFits, GoodParts DEF MarkExited, At, Watching
<1>2. CASE Becomes(Quit(m, w))
  BY <1>2, AloneQuit
<1>3. CASE Owns(x) /\ Becomes([Goto(m, w, "exit") EXCEPT !.entry[x].state = "stopped"])
  <2> DEFINE e == [m.entry[x] EXCEPT !.state = "stopped"]
             g == [m.work[w] EXCEPT !.pc = "exit"]
             v == [m EXCEPT !.work[w] = g, !.entry[x] = e]
  <2>1. e \in Streams /\ e.state = "stopped" /\ g \in Goroutines /\ g.own = x
    BY SMTT(60), <1>1 DEF Streams, States, Goroutines, Watching
  <2>2. Becomes(v)
    <3>1. [Goto(m, w, "exit") EXCEPT !.entry[x].state = "stopped"] = v
      BY <1>1 DEF Goto, Managers, Streams, Goroutines
    <3>. QED BY <1>3, <3>1
  <2> HIDE DEF e, g
  <2>3. /\ v \in Managers /\ v.cur = x /\ v.work[w] = g /\ v.entry[x] = e /\ v.wish = m.wish
        /\ \A u \in Workers \ {w} : v.work[u] = m.work[u]
    BY <1>1, <1>3, <2>1 DEF Managers, Owns
  <2> HIDE DEF v
  <2>4. m.wish # "off"
    BY <1>1, <1>3 DEF Alone, Owns, CallerAssumption
  <2>5. m'.cur = x /\ m'.work = v.work /\ m'.wish = m.wish /\ m'.entry[x].state = "stopped"
    <3>1. ~Garbage(v, x)
      BY <2>3 DEF Garbage
    <3>. QED BY SMTT(60), <1>1, <2>1, <2>2, <2>3, <3>1, BecomesEffect
  <2>6. ASSUME NEW u \in Workers, m'.work[u].own # None PROVE m'.cur \in {None, m'.work[u].own}
    <3>1. CASE u = w
      BY <2>1, <2>3, <2>5, <3>1
    <3>2. CASE u # w
      <4>1. m'.work[u].own = m.work[u].own
        BY <2>3, <2>5, <3>2
      <4>2. m.cur \in {None, m.work[u].own} /\ m.cur = x
        BY <1>3, <2>6, <4>1 DEF Alone, Owns
      <4>. QED BY <2>5, <4>1, <4>2
    <3>. QED BY <3>1, <3>2
  <2>. QED BY SMTT(60), <2>4, <2>5, <2>6 DEF Alone
<1>. QED BY <1>2, <1>3 DEF MarkExited, Own

\* The count of retries tells nothing about who is in the map.
LEMMA AloneRetry ==
  ASSUME CallerAssumption, Good(m), Alone(m), NEW w \in Workers, m.work[w].pc \in Late, NEW n \in Retries,
         Becomes(Goto(Retry(m, n), w, "check"))
  PROVE  Alone(m')
<1> DEFINE c == Retry(m, n)
           g == [m.work[w] EXCEPT !.pc = "check"]
           v == [c EXCEPT !.work[w] = g]
<1>1. m \in Managers /\ m.work[w] \in Goroutines /\ m.cur \in Entries \cup {None} /\ \A y \in Entries : m.entry[y] \in Streams
  BY GoodParts DEF Managers
<1>2. Good(c) /\ c.work = m.work
  BY RetryKeeps
<1>3. c.cur = m.cur /\ c.wish = m.wish /\ \A y \in Entries : c.entry[y].state = m.entry[y].state
  BY <1>1 DEF Retry, Managers, Streams
<1> HIDE DEF c
<1>4. c \in Managers
  BY <1>2, GoodParts
<1>6. Becomes(v)
  <2>1. Goto(c, w, "check") = v
    BY <1>1, <1>2, <1>4 DEF Goto, Managers, Goroutines
  <2>. QED BY <2>1 DEF c
<1>7. g \in Goroutines /\ g.own = m.work[w].own
  BY <1>1 DEF Goroutines, Watching
<1> HIDE DEF g
<1>5. /\ v \in Managers /\ v.cur = m.cur /\ v.wish = m.wish /\ v.entry = c.entry
      /\ v.work[w].own = m.work[w].own
      /\ \A u \in Workers \ {w} : v.work[u] = m.work[u]
  BY <1>2, <1>3, <1>4, <1>7 DEF Managers
<1> HIDE DEF v
<1>. QED BY <1>1, <1>3, <1>5, <1>6, AloneStays

\* The entry in the map is the only starter's: marking it as failed undoes no Stop.
LEMMA AloneRecord == ASSUME CallerAssumption, Single, Good(m), Alone(m), NEW w \in Workers, Record(w) PROVE Alone(m')
<1>1. CASE m.work[w].pc = "reset" /\ Becomes(Goto(Retry(m, 0), w, "check"))
  BY <1>1, AloneRetry DEF Retries, CallerAssumption, Late
<1>2. CASE m.work[w].pc = "fail" /\ Becomes(Goto(SetError(m), w, "report"))
  <2> DEFINE x == m.cur
             v == Goto(SetError(m), w, "report")
  <2>1. CASE x = None
    BY <1>2, <2>1, AloneGoto DEF SetError, Late, Watching
  <2>2. CASE x # None
    <3> DEFINE e == [m.entry[x] EXCEPT !.state = "error"]
               g == [m.work[w] EXCEPT !.pc = "report"]
               d == [m EXCEPT !.work[w] = g, !.entry[x] = e]
    <3>1. m \in Managers /\ x \in Entries /\ m.entry[x] \in Streams /\ m.work[w] \in Goroutines
      BY <2>2, GoodParts DEF Managers
    <3>2. e \in Streams /\ e.state = "error" /\ g \in Goroutines /\ g.own = m.work[w].own
      BY <3>1 DEF Streams, States, Goroutines, Watching
    <3>3. Becomes(d)
      <4>1. v = d
        BY <2>2, <3>1 DEF SetError, Goto, Managers, Streams, Goroutines
      <4>. QED BY <1>2, <4>1
    <3>4. m.work[w].own = x /\ m.wish # "off"
      BY <1>2, <2>2, <3>1, MonitorFits DEF Alone, Late, Watching, CallerAssumption
    <3> HIDE DEF e, g
    <3>5. d \in Managers /\ d.cur = x /\ d.work[w] = g /\ d.entry[x] = e /\ d.wish = m.wish
      BY <3>1, <3>2 DEF Managers
    <3> HIDE DEF d
    <3>6. m'.cur = x /\ m'.work[w] = g /\ m'.wish = m.wish /\ m'.entry[x].state = "error"
      <4>1. ~Garbage(d, x)
        BY <3>5 DEF Garbage
      <4>. QED BY <3>1, <3>2, <3>3, <3>5, <4>1, BecomesEffect
    <3>. QED BY <3>2, <3>4, <3>6 DEF Alone, Single
  <2>. QED BY <2>1, <2>2
<1>. QED BY <1>1, <1>2 DEF Record, At

\* A failure is counted.
LEMMA AloneReport ==
  ASSUME CallerAssumption, Good(m), Alone(m), NEW w \in Workers, NEW long \in BOOLEAN, Report(w, long) PROVE Alone(m')
<1> DEFINE n == IF long THEN 0 ELSE Incremented
<1>1. m.work[w].pc = "report" /\ Becomes(Goto(Retry(m, n), w, "check"))
  BY DEF Report, At
<1>2. n \in Retries
  <2>1. RetryCount \in Retries
    BY GoodParts DEF RetryCount, Managers, Streams, Retries, CallerAssumption
  <2>. QED BY <2>1 DEF Incremented, Retries, CallerAssumption
<1> HIDE DEF n
<1>. QED BY <1>1, <1>2, AloneRetry DEF Late

\* The retries are given up, or not.
LEMMA AloneCount == ASSUME CallerAssumption, Good(m), Alone(m), NEW w \in Workers, Count(w) PROVE Alone(m')
<1> DEFINE x == m.work[w].own
           v == [Quit(m, w) EXCEPT !.entry[x].over = TRUE]
<1>1. m.work[w].pc \in {"count", "recount"}
  BY DEF Count, At
<1>2. CASE \E pc \in {"backoff", "claim"} : Becomes(Goto(m, w, pc))
  BY <1>1, <1>2, AloneGoto DEF Late, Watching
<1>3. CASE Becomes(v)
  <2>1. m \in Managers /\ x \in Entries /\ m.entry[x] \in Streams
    BY <1>1, MonitorFits, GoodParts DEF Watching
  <2> DEFINE e == [m.entry[x] EXCEPT !.over = TRUE]
             d == [m EXCEPT !.work[w] = IdleWorker, !.entry[x] = e]
  <2>2. e \in Streams /\ e.state = m.entry[x].state
    BY <2>1 DEF Streams
  <2>3. Becomes(d)
    <3>1. v = d
      BY <2>1 DEF Quit, Managers
    <3>. QED BY <1>3, <3>1
  <2> HIDE DEF e
  <2>4. /\ d \in Managers /\ d.cur = m.cur /\ d.wish = m.wish /\ d.work[w].own = None
        /\ \A u \in Workers \ {w} : d.work[u] = m.work[u]
        /\ \A y \in Entries : d.entry[y].state = m.entry[y].state
    BY <2>1, <2>2, IdleTyped DEF Managers
  <2> HIDE DEF d
  <2>5. d.cur # None => d.entry[d.cur].state = m.entry[d.cur].state
    BY <2>4 DEF Managers
  <2>. QED BY <2>3, <2>4, <2>5, AloneStays
<1>. QED BY <1>2, <1>3 DEF Count, Own

\* The monitor takes its entry out of the map.
LEMMA AloneRemove == ASSUME CallerAssumption, Good(m), Alone(m), NEW w \in Workers, RemoveIfOwned(w) PROVE Alone(m')
<1> DEFINE x == m.work[w].own
           c == Cancel(m, x)
           g == [m.work[w] EXCEPT !.pc = "drop"]
           v == [c EXCEPT !.work[w] = g, !.cur = None]
<1>1. m.work[w].pc = "remove" /\ x \in Entries /\ m \in Managers /\ m.work[w] \in Goroutines
  BY MonitorFits, GoodParts DEF RemoveIfOwned, At, Watching
<1>2. CASE Becomes(Quit(m, w))
  BY <1>2, AloneQuit
<1>3. CASE Becomes([Goto(c, w, "drop") EXCEPT !.cur = None])
  <2>1. Good(c) /\ c.work = m.work /\ c.wish = m.wish
    BY <1>1, CancelKeeps
  <2>2. g \in Goroutines /\ g.own = x
    BY <1>1 DEF Goroutines, Watching
  <2> HIDE DEF c
  <2>3. c \in Managers
    BY <2>1, GoodParts
  <2>4. Becomes(v)
    <3>1. [Goto(c, w, "drop") EXCEPT !.cur = None] = v
      BY <1>1, <2>1, <2>3 DEF Goto, Managers, Goroutines
    <3>. QED BY <1>3, <3>1
  <2> HIDE DEF g
  <2>5. /\ v \in Managers /\ v.cur = None /\ v.wish = m.wish /\ v.work[w].own = m.work[w].own /\ v.work[w] = g
        /\ \A u \in Workers \ {w} : v.work[u] = m.work[u]
    BY <2>1, <2>2, <2>3 DEF Managers
  <2>6. g.pc \notin Late
    BY <1>1 DEF g, Late, Goroutines
  <2> HIDE DEF v
  <2>. QED BY <2>4, <2>5, <2>6, AloneStays
<1>. QED BY <1>2, <1>3 DEF RemoveIfOwned, Own

\* Every step of the only starter.
LEMMA AloneWork == ASSUME CallerAssumption, Single, Good(m), Alone(m), NEW w \in Workers, Work(w) PROVE Alone(m')
<1>1. CASE Reap(w) \/ Top(w) \/ HandleExit(w) \/ Check(w) \/ Backoff(w) \/ Drop(w)
  BY <1>1, AloneGoto, AloneQuit DEF Reap, Top, HandleExit, Check, Backoff, Drop, At, Late, Watching
<1>. QED BY <1>1, AloneClaim, AloneRelease, AloneDrain, AloneExec, AlonePublish, AloneBegin, AloneMarkExited,
            AloneRecord, AloneReport, AloneCount, AloneRemove DEF Work

\* A Stop leaves an entry that stops, or none.
LEMMA AloneStop == ASSUME CallerAssumption, Good(m), Alone(m), NEW s \in Stoppers, Stop(s) PROVE Alone(m')
<1> DEFINE x == m.cur
           c == Cancel(m, x)
<1>1. m \in Managers /\ x \in Entries \cup {None} /\ Exists(m, x)
  BY GoodParts DEF Managers
<1>2. ASSUME NEW v \in Managers, Becomes(v), v.wish = "off", v.work = m.work, v.cur \in {m.cur, None},
             v.cur # None => m.entry[x].state \in {"running", "stopping"} /\ v.entry[x].state = "stopping"
      PROVE  Alone(m')
  <2>1. m'.cur = v.cur /\ m'.work = m.work /\ (v.cur # None => m'.entry[x].state = "stopping")
    <3>1. v.cur # None => x \in Entries /\ v.cur = x /\ ~Garbage(v, x)
      BY <1>1, <1>2 DEF Garbage
    <3>. QED BY <1>2, <3>1, BecomesEffect
  <2>2. ASSUME NEW w \in Workers, m'.work[w].own # None
        PROVE  /\ m'.cur \in {None, m'.work[w].own}
               /\ ~(m'.work[w].pc \in Late /\ m'.cur = m'.work[w].own)
    BY <1>2, <2>1, <2>2 DEF Alone
  <2>3. m'.cur = None \/ m'.entry[m'.cur].state = "stopping"
    BY <1>2, <2>1
  <2>. QED BY <2>2, <2>3 DEF Alone
<1>3. CASE NothingToStop(x) /\ Becomes([m EXCEPT !.wish = "off", !.stop[s] = Returned(s)])
  <2> DEFINE v == [m EXCEPT !.wish = "off", !.stop[s] = Returned(s)]
  <2>1. /\ v \in Managers /\ v.wish = "off" /\ v.work = m.work /\ v.cur = m.cur /\ v.entry = m.entry
    BY <1>1, ReturnedTyped DEF Managers
  <2> HIDE DEF v
  <2>2. v.cur # None => m.entry[x].state = "stopping"
    BY <1>3, <2>1 DEF NothingToStop
  <2>. QED BY <1>2, <1>3, <2>1, <2>2 DEF v
<1>4. Good(c) /\ c \in Managers /\ c.cur = x /\ c.work = m.work /\ c.stop = m.stop
  <2>1. Good(c)
    BY <1>1, CancelKeeps
  <2>. QED BY <1>1, <2>1, CancelKeeps, GoodParts
<1> HIDE DEF c
<1>5. CASE ~NothingToStop(x) /\ m.entry[x].state = "running"
           /\ Becomes([c EXCEPT !.wish = "off", !.entry[x].state = "stopping", !.stop[s] = [pc |-> "kill", entry |-> x]])
  <2> DEFINE e == [c.entry[x] EXCEPT !.state = "stopping"]
             g == [pc |-> "kill", entry |-> x]
             v == [c EXCEPT !.wish = "off", !.entry[x] = e, !.stop[s] = g]
  <2>1. x \in Entries
    BY <1>1, <1>5 DEF NothingToStop
  <2>2. e \in Streams /\ e.state = "stopping" /\ g \in StopCalls
    BY SMTT(60), <1>4, <2>1 DEF Managers, Streams, States, StopCalls
  <2>3. Becomes(v)
    BY <1>4, <1>5, <2>1 DEF Managers
  <2> HIDE DEF e, g
  <2>4. /\ v \in Managers /\ v.wish = "off" /\ v.work = m.work /\ v.cur = m.cur /\ v.entry[x] = e
    BY <1>4, <2>1, <2>2 DEF Managers
  <2> HIDE DEF v
  <2>. QED BY <1>2, <1>5, <2>2, <2>3, <2>4
<1>6. CASE ~NothingToStop(x) /\ Becomes([c EXCEPT !.wish = "off", !.cur = None, !.stop[s] = [pc |-> "release", entry |-> x]])
  <2> DEFINE g == [pc |-> "release", entry |-> x]
             v == [c EXCEPT !.wish = "off", !.cur = None, !.stop[s] = g]
  <2>1. g \in StopCalls
    BY <1>1, <1>6 DEF NothingToStop, StopCalls
  <2>2. Becomes(v)
    BY <1>6
  <2> HIDE DEF g
  <2>3. /\ v \in Managers /\ v.wish = "off" /\ v.work = m.work /\ v.cur = None
    BY <1>4, <2>1 DEF Managers
  <2> HIDE DEF v
  <2>. QED BY <1>2, <2>2, <2>3
<1>. QED BY <1>3, <1>5, <1>6 DEF Stop, c

\* A start claims nothing yet.
LEMMA AloneStart == ASSUME CallerAssumption, Good(m), Alone(m), NEW w \in Workers, Start(w) PROVE Alone(m')
<1> DEFINE g == [IdleWorker EXCEPT !.pc = "claim", !.chan = TRUE]
           v == [m EXCEPT !.work[w] = g]
<1>1. g \in Goroutines /\ g.own = None
  BY DEF Goroutines, IdleWorker
<1>2. m \in Managers /\ Becomes(v)
  BY GoodParts DEF Start
<1> HIDE DEF g
<1>3. /\ v \in Managers /\ v.cur = m.cur /\ v.wish = m.wish /\ v.entry = m.entry
      /\ v.work[w].own = None /\ \A u \in Workers \ {w} : v.work[u] = m.work[u]
  BY <1>1, <1>2 DEF Managers
<1> HIDE DEF v
<1>. QED BY <1>2, <1>3, AloneStays

\* The second half of a Stop, and StopAll.
LEMMA AloneStopGoesOn ==
  ASSUME CallerAssumption, Good(m), Alone(m), NEW s \in Stoppers, Emit(s) \/ Delete(s) \/ Clear PROVE Alone(m')
<1>1. m \in Managers /\ m.stop[s] \in StopCalls /\ All \in Stoppers
  BY GoodParts DEF Stoppers
<1>2. CASE Emit(s)
  <2> DEFINE x == m.stop[s].entry
             e == [m.entry[x] EXCEPT !.stops = @ + 1]
             g == IF m.stop[s].pc = "kill" THEN [m.stop[s] EXCEPT !.pc = "delete"] ELSE Returned(s)
             v == [m EXCEPT !.entry[x] = e, !.stop[s] = g]
  <2>1. x \in Entries /\ m.entry[x] \in Streams
    <3>1. m.stop[s].pc \in {"kill", "release"}
      BY <1>2 DEF Emit
    <3>2. x # None /\ x \in Entries \cup {None}
      BY <1>1, <3>1, GoodParts DEF StopFits, StopCalls
    <3>. QED BY <3>2, GoodParts
  <2>2. e \in Streams /\ e.state = m.entry[x].state /\ g \in StopCalls
    <3>1. g \in StopCalls
      BY <1>1, ReturnedTyped DEF StopCalls
    <3>. QED BY <2>1, <3>1, Counted
  <2>3. Becomes(v)
    <3>1. [m EXCEPT !.entry[x].stops = @ + 1, !.stop[s] = IF @.pc = "kill" THEN [@ EXCEPT !.pc = "delete"] ELSE Returned(s)] = v
      BY <1>1, <2>1 DEF Managers, Streams
    <3>. QED BY <1>2, <3>1 DEF Emit
  <2> HIDE DEF e, g
  <2>4. /\ v \in Managers /\ v.cur = m.cur /\ v.wish = m.wish /\ v.work = m.work
        /\ \A y \in Entries : v.entry[y].state = m.entry[y].state
    BY <1>1, <2>1, <2>2 DEF Managers
  <2> HIDE DEF v
  <2>5. v.cur # None => v.entry[v.cur].state = m.entry[v.cur].state
    BY <2>4 DEF Managers
  <2>. QED BY SMTT(60), <2>3, <2>4, <2>5, AloneStays
<1>3. CASE Delete(s)
  <2> DEFINE v == [m EXCEPT !.cur = IF @ = m.stop[s].entry THEN None ELSE @, !.stop[s] = Returned(s)]
  <2>1. v \in Managers /\ v.cur \in {m.cur, None} /\ v.wish = m.wish /\ v.work = m.work /\ v.entry = m.entry
    BY <1>1, ReturnedTyped DEF Managers
  <2>2. Becomes(v)
    BY <1>3 DEF Delete
  <2> HIDE DEF v
  <2>. QED BY <2>1, <2>2, AloneStays
<1>4. CASE Clear
  <2> DEFINE v == [m EXCEPT !.cur = None, !.stop[All] = IdleStopper, !.enc = "stopped"]
  <2>1. v \in Managers /\ v.cur = None /\ v.wish = m.wish /\ v.work = m.work
    BY <1>1 DEF Managers, IdleStopper, StopCalls
  <2>2. Becomes(v)
    BY <1>4 DEF Clear
  <2> HIDE DEF v
  <2>. QED BY <2>1, <2>2, AloneStays
<1>. QED BY <1>2, <1>3, <1>4

\* The encoder and its configuration.
LEMMA AloneEncoder ==
  ASSUME CallerAssumption, Good(m), Alone(m), NEW from, NEW to, NEW b \in BOOLEAN,
         EncoderTurns(from, to) \/ EncoderStops \/ SetEnabled(b)
  PROVE  Alone(m')
<1>1. m \in Managers /\ All \in Stoppers /\ \A w \in Workers : m.work[w] \in Goroutines
  BY GoodParts DEF Stoppers
<1>2. CASE EncoderTurns(from, to)
  <2> DEFINE v == [m EXCEPT !.enc = to]
  <2>1. v \in Managers /\ v.cur = m.cur /\ v.wish = m.wish /\ v.work = m.work /\ v.entry = m.entry
    BY <1>1, <1>2 DEF Managers, EncoderTurns
  <2>2. Becomes(v)
    BY <1>2 DEF EncoderTurns
  <2> HIDE DEF v
  <2>. QED BY <2>1, <2>2, AloneStays
<1>3. CASE EncoderStops
  <2> DEFINE k == [w \in Workers |-> [m.work[w] EXCEPT !.chan = FALSE]]
             g == [m.stop[All] EXCEPT !.pc = "begin"]
             v == [m EXCEPT !.enc = "stopping", !.stop[All] = g, !.work = k]
  <2>1. \A w \in Workers : k[w] \in Goroutines /\ k[w].pc = m.work[w].pc /\ k[w].own = m.work[w].own
    BY <1>1 DEF Goroutines
  <2>2. k \in [Workers -> Goroutines] /\ g \in StopCalls
    BY <1>1, <2>1, GoodParts DEF StopCalls
  <2>3. Becomes(v)
    <3>1. [m EXCEPT !.enc = "stopping", !.stop[All].pc = "begin", !.work = k] = v
      BY <1>1 DEF Managers
    <3>. QED BY <1>3, <3>1 DEF EncoderStops
  <2> HIDE DEF k, g
  <2>4. v \in Managers /\ v.cur = m.cur /\ v.wish = m.wish /\ v.work = k /\ v.entry = m.entry
    BY <1>1, <2>2 DEF Managers
  <2> HIDE DEF v
  <2>. QED BY <2>1, <2>3, <2>4, AloneStays
<1>4. CASE SetEnabled(b)
  <2> DEFINE v == [m EXCEPT !.enabled = b]
  <2>1. v \in Managers /\ v.cur = m.cur /\ v.wish = m.wish /\ v.work = m.work /\ v.entry = m.entry
    BY <1>1 DEF Managers
  <2>2. Becomes(v)
    BY <1>4 DEF SetEnabled
  <2> HIDE DEF v
  <2>. QED BY <2>1, <2>2, AloneStays
<1>. QED BY <1>2, <1>3, <1>4

\* A process or a writer ends; a broken pipe marks an entry that was running.
LEMMA AloneEnding ==
  ASSUME CallerAssumption, Good(m), Alone(m), NEW x \in Entries, NEW how \in {"ended", "failed"},
         Exits(x, how) \/ WriterFails(x) \/ WriterEnds(x)
  PROVE  Alone(m')
<1>1. m \in Managers /\ m.entry[x] \in Streams
  BY GoodParts
<1>2. ASSUME NEW e \in Streams, Becomes([m EXCEPT !.entry[x] = e]),
             e.state = m.entry[x].state \/ (m.cur = x /\ m.entry[x].state = "running" /\ e.state = "error")
      PROVE  Alone(m')
  <2> DEFINE v == [m EXCEPT !.entry[x] = e]
  <2>1. /\ v \in Managers /\ v.cur = m.cur /\ v.wish = m.wish /\ v.work = m.work /\ v.entry[x] = e
        /\ \A y \in Entries \ {x} : v.entry[y] = m.entry[y]
    BY <1>1, <1>2 DEF Managers
  <2>2. Becomes(v)
    BY <1>2
  <2> HIDE DEF v
  <2>3. CASE e.state = m.entry[x].state
    <3>1. v.cur # None => v.entry[v.cur].state = m.entry[v.cur].state
      BY <2>1, <2>3 DEF Managers
    <3>. QED BY <2>1, <2>2, <3>1, AloneStays
  <2>4. CASE m.cur = x /\ m.entry[x].state = "running" /\ e.state = "error"
    <3>1. m'.cur = x /\ m'.work = m.work /\ m'.wish = m.wish /\ m'.entry[x].state = "error"
      <4>1. ~Garbage(v, x)
        BY <2>1, <2>4 DEF Garbage
      <4>. QED BY <2>1, <2>2, <2>4, <4>1, BecomesEffect
    <3>2. m.wish # "off"
      BY <2>4 DEF Alone, CallerAssumption
    <3>3. \A w \in Workers : m.work[w].own # None => x \in {None, m.work[w].own}
      BY <2>4 DEF Alone
    <3>. QED BY <3>1, <3>2, <3>3 DEF Alone
  <2>. QED BY <1>2, <2>3, <2>4
<1>3. CASE Exits(x, how)
  <2> DEFINE e == [m.entry[x] EXCEPT !.proc = how]
  <2>1. e \in Streams /\ e.state = m.entry[x].state
    BY <1>1 DEF Streams
  <2>2. Becomes([m EXCEPT !.entry[x] = e])
    BY <1>1, <1>3 DEF Exits, Managers
  <2> HIDE DEF e
  <2>. QED BY <1>2, <2>1, <2>2
<1>4. CASE WriterEnds(x)
  <2> DEFINE e == [m.entry[x] EXCEPT !.writer = FALSE]
  <2>1. e \in Streams /\ e.state = m.entry[x].state
    BY <1>1 DEF Streams
  <2>2. Becomes([m EXCEPT !.entry[x] = e])
    BY <1>1, <1>4 DEF WriterEnds, Managers
  <2> HIDE DEF e
  <2>. QED BY <1>2, <2>1, <2>2
<1>5. CASE WriterFails(x)
  <2> DEFINE t == IF m.cur = x /\ m.entry[x].state = "running" THEN "error" ELSE m.entry[x].state
             e == [m.entry[x] EXCEPT !.writer = FALSE, !.state = t]
  <2>1. t \in States
    BY <1>1 DEF Streams, States
  <2>2. e \in Streams /\ e.state = t
    <3> HIDE DEF t
    <3>. QED BY <1>1, <2>1 DEF Streams
  <2>3. Becomes([m EXCEPT !.entry[x] = e])
    <3>1. [m EXCEPT !.entry[x].writer = FALSE, !.entry[x].state =
             IF m.cur = x /\ m.entry[x].state = "running" THEN "error" ELSE @] = [m EXCEPT !.entry[x] = e]
      BY ZenonT(60), <1>1 DEF Managers, Streams
    <3>. QED BY <1>5, <3>1 DEF WriterFails
  <2>4. e.state = m.entry[x].state \/ (m.cur = x /\ m.entry[x].state = "running" /\ e.state = "error")
    BY <2>2
  <2> HIDE DEF e
  <2>. QED BY <1>2, <2>2, <2>3, <2>4
<1>. QED BY <1>3, <1>4, <1>5

\* Alone is inductive, with Good.
LEMMA AloneNext == ASSUME CallerAssumption, Single, Good(m), Alone(m), Next PROVE Alone(m')
<1>1. All \in Stoppers /\ Users \subseteq Stoppers
  BY DEF Stoppers
<1>2. CASE \E w \in Workers : Work(w)
  BY <1>2, AloneWork
<1>3. CASE Shutdown
  BY <1>1, <1>3, AloneStop, AloneStopGoesOn DEF Shutdown
<1>4. CASE Environment
  <2>1. CASE \E a, b \in {"stopped", "starting", "running"} : EncoderTurns(a, b)
    <3>1. FALSE \in BOOLEAN
      OBVIOUS
    <3>. QED BY <2>1, <3>1, AloneEncoder
  <2>2. CASE EncoderStops
    <3>1. FALSE \in BOOLEAN
      OBVIOUS
    <3>. QED BY <2>2, <3>1, AloneEncoder
  <2>3. CASE \E b \in BOOLEAN : SetEnabled(b)
    BY <2>3, AloneEncoder
  <2>4. CASE \E x \in Entries : Exits(x, "ended") \/ Exits(x, "failed") \/ WriterFails(x)
    BY <2>4, AloneEnding
  <2>. QED BY <1>1, <1>4, <2>1, <2>2, <2>3, <2>4, AloneStart, AloneStop DEF Environment
<1>5. CASE \E x \in Entries : WriterEnds(x)
  BY <1>5, AloneEnding
<1>. QED BY <1>2, <1>3, <1>4, <1>5 DEF Next

\* Nothing is managed at the beginning.
LEMMA InitAlone == Init => Alone(m)
BY IdleTyped DEF Init, Alone

\* What is managed after a Stop is stopping, and so is its process.
LEMMA AloneHolds == ASSUME CallerAssumption, Good(m), Alone(m) PROVE StopHolds
<1>1. NoOrphan
  BY GoodSound
<1>2. m.cur \in Entries \cup {None}
  BY GoodParts DEF Managers
<1>3. ASSUME m.wish = "off", NEW x \in Entries, Live(x) PROVE FALSE
  <2>1. m.cur = x /\ ~m.entry[x].cancelled
    BY <1>1, <1>3 DEF NoOrphan, Live
  <2>2. m.cur = None \/ m.entry[x].state = "stopping"
    BY <1>3, <2>1 DEF Alone
  <2>3. EntryFits(m, x)
    BY GoodParts
  <2>. QED BY <2>1, <2>2, <2>3 DEF EntryFits, CallerAssumption
<1>. QED BY <1>3 DEF StopHolds

\* With one goroutine that starts the stream a retry cannot revive what Stop has removed:
\* once Stop has looked, no process runs that nobody has told to end, until somebody
\* starts the stream anew (MonitorAndRetry, Stop).
THEOREM StopIsFinal == ASSUME CallerAssumption, Single PROVE Spec => []StopHolds
<1>1. Init => Good(m) /\ Alone(m)
  BY InitGood, InitAlone
<1>2. Good(m) /\ Alone(m) /\ [Next]_m => Good(m)' /\ Alone(m)'
  <2>1. UNCHANGED m => (Good(m) => Good(m)') /\ (Alone(m) => Alone(m)')
    OBVIOUS
  <2>. QED BY <2>1, NextKeeps, AloneNext
<1>3. Good(m) /\ Alone(m) => StopHolds
  BY AloneHolds
<1>. QED BY <1>1, <1>2, <1>3, PTL DEF Spec
===============================================================================
