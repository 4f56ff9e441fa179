------------------------- MODULE ListenerStreamProofs -------------------------
(***************************************************************************)
(* Proofs about ListenerStream for any number of goroutines that start,    *)
(* watch and retry the stream, any number that stop it, any number of      *)
(* entries and any number of retries.                                      *)
(***************************************************************************)
EXTENDS ListenerStream, TLAPS

-------------------------------------------------------------------------------
(* What every reachable state satisfies                                    *)

\* What the constants have to be: there is no entry called None, and no goroutine both
\* starts and stops.
ListenerAssumption == None \notin Entries /\ Workers \cap Stoppers = {}

\* The states a stream goes through.
States == {"none", "starting", "running", "stopping", "error"}

\* The types of an encoder run, ...
Runs ==
  [attached : BOOLEAN, proc : {"none", "alive", "dead"}, out : BOOLEAN, writer : BOOLEAN, open : BOOLEAN, eof : BOOLEAN]

\* ... of an entry, ...
Streams ==
  [state : States, pub : BOOLEAN, cancelled : BOOLEAN, fan : {"none", "bound", "closing", "closed"}, run : Runs,
   retry : Nat, stops : Nat]

\* ... where a goroutine stops the resources of an entry, watches an entry, ...
Resources == {"detach", "reap", "shut", "drain"}
Watching  == {"top", "wait", "finish", "exit", "record", "refail", "check", "count", "backoff", "recheck", "recount",
              "reserve", "restart", "attach", "owns", "release", "remove"}

\* ... starts, watches and stops, ...
WorkerPlaces  == {"idle", "claim", "bind", "exec", "publish", "unclaim", "begin"} \cup Watching \cup Resources
StopperPlaces == {"idle", "begin", "emit", "delete", "clear"} \cup Resources

\* ... a goroutine, ...
Goroutines ==
  [pc : WorkerPlaces \cup StopperPlaces, own : Entries \cup {None}, target : Entries \cup {None}, mine : BOOLEAN,
   next : {"idle", "bind", "unclaim", "emit"}, chan : BOOLEAN]

\* ... and all of it.
Managers ==
  [cur : Entries \cup {None}, entry : [Entries -> Streams], agent : [Agents -> Goroutines],
   enc : {"stopped", "starting", "running", "stopping"}, enabled : BOOLEAN]

\* The entry somebody refers to is not a blank one.
Exists(v, x) == x # None => v.entry[x].state # "none"

\* A goroutine has a placeholder that it has not published or given back.
Starts(v, a) == v.agent[a].own # None /\ (v.agent[a].pc \in {"bind", "exec", "publish", "unclaim"}
                                          \/ v.agent[a].next \in {"bind", "unclaim"})

\* Where any goroutine is agrees with the entry whose resources it stops: past the
\* shutdown of the fan-out the port is free, and what it stops is not taken for a
\* stream that starts or runs, except by a starter that undoes its own claim.
TargetFits(v, a) ==
  LET g == v.agent[a]
      x == g.target
  IN /\ Exists(v, x)
     /\ g.pc \in Resources \cup {"emit", "delete"} <=> x # None
     /\ g.pc \notin Resources => g.next = "idle"
     /\ g.pc \in {"drain", "emit", "delete"} => v.entry[x].fan # "bound"
     /\ g.pc \in {"emit", "delete"} => v.entry[x].fan # "closing"
     /\ x # None /\ v.cur = x /\ g.next # "unclaim" => v.entry[x].state \notin {"starting", "running"}

\* A goroutine that starts and watches.
WorkerFits(v, w) ==
  LET g == v.agent[w]
      x == g.own
  IN /\ g.pc \in WorkerPlaces /\ g.next # "emit" /\ Exists(v, x)
     /\ g.pc \in {"bind", "exec", "publish", "unclaim"} \cup Watching \/ g.next \in {"bind", "unclaim"} => x # None
     /\ Starts(v, w) => ~v.entry[x].pub /\ (v.cur = x => v.entry[x].state = "starting")
     /\ g.pc \in {"bind", "exec", "unclaim"} \/ g.next \in {"bind", "unclaim"} => v.entry[x].run.proc # "alive"
     /\ g.pc = "bind" \/ g.next = "bind" => v.entry[x].fan = "none"
     /\ g.pc = "unclaim" => v.entry[x].fan \in {"none", "closed"}
     /\ g.next = "unclaim" => g.target = x /\ g.pc \in {"shut", "drain"}
     /\ g.pc \in Watching => v.entry[x].pub

\* A goroutine that stops: the entry is cancelled for good.
StopperFits(v, s) ==
  LET g == v.agent[s] IN
  /\ g.pc \in StopperPlaces /\ g.own = None
  /\ g.pc \in Resources => g.next = "emit"
  /\ g.target # None => v.entry[g.target].cancelled

\* No placeholder belongs to two goroutines.
OneStarts(v) == \A w, u \in Workers : Starts(v, w) /\ Starts(v, u) /\ v.agent[w].own = v.agent[u].own => w = u

\* An encoder runs, or is about to, for an entry that is not the managed one, and has not
\* been told to end; ...
Adrift(v, x) ==
  /\ v.cur # x /\ ~v.entry[x].cancelled
  /\ v.entry[x].run.proc = "alive" \/ \E w \in Workers : v.agent[w].pc \in {"exec", "restart"} /\ v.agent[w].own = x

\* ... that happens only while somebody is about to tell it.
Told(v, x) == \E a \in Agents : v.agent[a].pc = "detach" /\ v.agent[a].target = x

\* A port is bound by an entry that starts or runs, or is about to be closed.
PortKept(v, x) ==
  v.entry[x].fan = "bound" =>
    \/ v.cur = x /\ v.entry[x].state \in {"starting", "running"}
    \/ \E a \in Agents : v.agent[a].pc \in {"detach", "reap", "shut"} /\ v.agent[a].target = x

\* An entry agrees with itself; one whose Stop has reported stays stopped.
EntryFits(v, x) ==
  LET e == v.entry[x] IN
  /\ e.state = "none" => ~e.pub
  /\ e.state \in {"running", "error"} => e.pub
  /\ e.state = "stopping" => e.cancelled
  /\ e.stops > 0 => e.fan \in {"none", "closed"} /\ e.cancelled
                    /\ (v.cur = x => e.state \notin {"starting", "running"})

\* While StopAll runs the encoder is stopping; once its Stop has looked, what is in the
\* map is cancelled and does not run.
Over(v) ==
  All \in Stoppers =>
    /\ v.agent[All].pc # "idle" => v.enc = "stopping"
    /\ v.agent[All].pc \notin {"idle", "begin"} /\ v.cur # None =>
         v.entry[v.cur].cancelled /\ v.entry[v.cur].state \notin {"starting", "running"}

\* The inductive invariant.
Good(v) ==
  /\ v \in Managers
  /\ Exists(v, v.cur) /\ OneStarts(v) /\ Over(v)
  /\ \A a \in Agents : TargetFits(v, a)
  /\ \A w \in Workers : WorkerFits(v, w)
  /\ \A s \in Stoppers : StopperFits(v, s)
  /\ \A x \in Entries : EntryFits(v, x) /\ (Adrift(v, x) => Told(v, x)) /\ PortKept(v, x)

-------------------------------------------------------------------------------
(* What the model does with dead entries and runs                          *)

\* The parts of the invariant, by name.
LEMMA GoodParts ==
  ASSUME NEW v, Good(v)
  PROVE  /\ v \in Managers /\ Exists(v, v.cur) /\ OneStarts(v) /\ Over(v)
         /\ v.cur \in Entries \cup {None}
         /\ \A a \in Agents : TargetFits(v, a) /\ v.agent[a] \in Goroutines
         /\ \A w \in Workers : WorkerFits(v, w) /\ w \in Agents
         /\ \A s \in Stoppers : StopperFits(v, s) /\ s \in Agents
         /\ \A x \in Entries : /\ EntryFits(v, x) /\ (Adrift(v, x) => Told(v, x)) /\ PortKept(v, x)
                                 /\ v.entry[x] \in Streams
BY DEF Good, Managers, Agents

\* A blank entry and a settled one are entries; settling changes nothing that matters.
LEMMA BlankTyped == Blank \in Streams /\ NoRun \in Runs /\ NewRun \in Runs
BY DEF Blank, NoRun, NewRun, Streams, States, Runs

LEMMA SettledEffect ==
  ASSUME NEW v \in Managers, NEW x \in Entries
  PROVE  LET e == v.entry[x]
             d == Settled(v, x)
         IN /\ d \in Streams
            /\ d.state = e.state /\ d.pub = e.pub /\ d.cancelled = e.cancelled /\ d.fan = e.fan /\ d.stops = e.stops
            /\ d.run.proc = "alive" <=> e.run.proc = "alive"
<1> DEFINE e == v.entry[x]
           over == ~e.run.out /\ ~e.run.writer /\ e.run.proc # "alive"
           r == IF over THEN [NoRun EXCEPT !.attached = e.run.attached] ELSE e.run
           k == IF v.cur = x THEN e.retry ELSE 0
<1>1. e \in Streams
  BY DEF Managers
<1>2. e.run \in Runs /\ k \in Nat
  BY <1>1 DEF Streams
<1>3. r \in Runs /\ (r.proc = "alive" <=> e.run.proc = "alive")
  BY <1>2 DEF Runs, NoRun
<1>4. Settled(v, x) = [e EXCEPT !.retry = k, !.run = r]
  BY <1>1 DEF Settled, Streams
<1> HIDE DEF e, r, k
<1>5. LET d == [e EXCEPT !.retry = k, !.run = r]
      IN /\ d \in Streams
         /\ d.state = e.state /\ d.pub = e.pub /\ d.cancelled = e.cancelled /\ d.fan = e.fan /\ d.stops = e.stops
         /\ d.run = r
  BY <1>1, <1>2, <1>3 DEF Streams
<1>. QED BY <1>3, <1>4, <1>5 DEF e

\* Nobody reads what clearing a dead entry changes.
LEMMA BecomesEffect ==
  ASSUME NEW v \in Managers, Becomes(v)
  PROVE  /\ l' \in Managers
         /\ l'.cur = v.cur /\ l'.agent = v.agent /\ l'.enc = v.enc
         /\ \A x \in Entries :
              \/ Garbage(v, x) /\ l'.entry[x] = Blank
              \/ /\ l'.entry[x].state = v.entry[x].state /\ l'.entry[x].pub = v.entry[x].pub
                 /\ l'.entry[x].cancelled = v.entry[x].cancelled /\ l'.entry[x].fan = v.entry[x].fan
                 /\ l'.entry[x].stops = v.entry[x].stops
                 /\ l'.entry[x].run.proc = "alive" <=> v.entry[x].run.proc = "alive"
<1> DEFINE next == [x \in Entries |-> IF Garbage(v, x) THEN Blank ELSE Settled(v, x)]
<1>1. l' = [v EXCEPT !.entry = next]
  BY DEF Becomes
<1>2. next \in [Entries -> Streams]
  BY SettledEffect, BlankTyped
<1>3. \A x \in Entries : (Garbage(v, x) /\ next[x] = Blank) \/ next[x] = Settled(v, x)
  OBVIOUS
<1> HIDE DEF next
<1>4. l' \in Managers
  BY <1>1, <1>2 DEF Managers
<1>5. l'.entry = next /\ l'.cur = v.cur /\ l'.agent = v.agent /\ l'.enc = v.enc
  BY <1>1 DEF Managers
<1>. QED BY <1>3, <1>4, <1>5, SettledEffect

\* What a goroutine that holds entry x is asked about it holds as before.
Alike(v, n, x) ==
  x # None =>
    LET e == v.entry[x]
        f == n.entry[x]
    IN /\ e.state # "none" => f.state # "none"
       /\ n.cur = x => v.cur = x
       /\ f.state = e.state \/ (e.pub /\ f.state \in {"error", "stopping"})
       /\ f.pub = e.pub /\ (f.run.proc = "alive" => e.run.proc = "alive")
       /\ f.fan = e.fan \/ (e.fan = "bound" /\ f.fan = "closing") \/ (e.fan = "closing" /\ f.fan = "closed")

\* So goroutine a may stay where it is, ...
LEMMA SameTarget ==
  ASSUME NEW v, NEW n, NEW a, TargetFits(v, a), n.agent[a] = v.agent[a], Alike(v, n, v.agent[a].target)
  PROVE  TargetFits(n, a)
<1> DEFINE g == v.agent[a]
           x == g.target
           e == v.entry[x]
           f == n.entry[x]
<1>1. /\ x # None => e.state # "none"
      /\ g.pc \in Resources \cup {"emit", "delete"} <=> x # None
      /\ g.pc \notin Resources => g.next = "idle"
      /\ g.pc \in {"drain", "emit", "delete"} => e.fan # "bound"
      /\ g.pc \in {"emit", "delete"} => e.fan # "closing"
      /\ x # None /\ v.cur = x /\ g.next # "unclaim" => e.state \notin {"starting", "running"}
  BY DEF TargetFits, Exists
<1>2. x # None => /\ e.state # "none" => f.state # "none"
                  /\ n.cur = x => v.cur = x
                  /\ f.state = e.state \/ f.state \in {"error", "stopping"}
                  /\ f.fan = e.fan \/ (e.fan = "bound" /\ f.fan = "closing") \/ (e.fan = "closing" /\ f.fan = "closed")
  BY DEF Alike
<1>3. TargetFits(n, a) <=>
      /\ x # None => f.state # "none"
      /\ g.pc \in Resources \cup {"emit", "delete"} <=> x # None
      /\ g.pc \notin Resources => g.next = "idle"
      /\ g.pc \in {"drain", "emit", "delete"} => f.fan # "bound"
      /\ g.pc \in {"emit", "delete"} => f.fan # "closing"
      /\ x # None /\ n.cur = x /\ g.next # "unclaim" => f.state \notin {"starting", "running"}
  BY DEF TargetFits, Exists
<1> HIDE DEF g, x, e, f
<1>4. /\ x # None => f.state # "none"
      /\ g.pc \in {"drain", "emit", "delete"} => f.fan # "bound"
      /\ g.pc \in {"emit", "delete"} => f.fan # "closing"
      /\ x # None /\ n.cur = x /\ g.next # "unclaim" => f.state \notin {"starting", "running"}
  <2>1. x # None /\ n.cur = x /\ g.next # "unclaim" => f.state \notin {"starting", "running"}
    BY <1>1, <1>2
  <2>2. CASE x # None
    BY <1>1, <1>2, <2>1, <2>2
  <2>3. CASE x = None
    BY <1>1, <2>3 DEF Resources
  <2>. QED BY <2>2, <2>3
<1>. QED BY <1>1, <1>3, <1>4

\* ... a goroutine that starts and watches too, ...
LEMMA SameWorker ==
  ASSUME NEW v, NEW n, NEW w, WorkerFits(v, w), n.agent[w] = v.agent[w], Alike(v, n, v.agent[w].own)
  PROVE  WorkerFits(n, w)
<1> DEFINE g == v.agent[w]
           x == g.own
           e == v.entry[x]
           f == n.entry[x]
           starts == x # None /\ (g.pc \in {"bind", "exec", "publish", "unclaim"} \/ g.next \in {"bind", "unclaim"})
<1>1. /\ g.pc \in WorkerPlaces /\ g.next # "emit" /\ (x # None => e.state # "none")
      /\ g.pc \in {"bind", "exec", "publish", "unclaim"} \cup Watching \/ g.next \in {"bind", "unclaim"} => x # None
      /\ starts => ~e.pub /\ (v.cur = x => e.state = "starting")
      /\ g.pc \in {"bind", "exec", "unclaim"} \/ g.next \in {"bind", "unclaim"} => e.run.proc # "alive"
      /\ g.pc = "bind" \/ g.next = "bind" => e.fan = "none"
      /\ g.pc = "unclaim" => e.fan \in {"none", "closed"}
      /\ g.next = "unclaim" => g.target = x /\ g.pc \in {"shut", "drain"}
      /\ g.pc \in Watching => e.pub
  BY DEF WorkerFits, Exists, Starts
<1>2. x # None => /\ e.state # "none" => f.state # "none"
                  /\ n.cur = x => v.cur = x
                  /\ f.state = e.state \/ (e.pub /\ f.state \in {"error", "stopping"})
                  /\ f.pub = e.pub /\ (f.run.proc = "alive" => e.run.proc = "alive")
                  /\ f.fan = e.fan \/ (e.fan = "bound" /\ f.fan = "closing") \/ (e.fan = "closing" /\ f.fan = "closed")
  BY DEF Alike
<1>3. WorkerFits(n, w) <=>
      /\ g.pc \in WorkerPlaces /\ g.next # "emit" /\ (x # None => f.state # "none")
      /\ g.pc \in {"bind", "exec", "publish", "unclaim"} \cup Watching \/ g.next \in {"bind", "unclaim"} => x # None
      /\ starts => ~f.pub /\ (n.cur = x => f.state = "starting")
      /\ g.pc \in {"bind", "exec", "unclaim"} \/ g.next \in {"bind", "unclaim"} => f.run.proc # "alive"
      /\ g.pc = "bind" \/ g.next = "bind" => f.fan = "none"
      /\ g.pc = "unclaim" => f.fan \in {"none", "closed"}
      /\ g.next = "unclaim" => g.target = x /\ g.pc \in {"shut", "drain"}
      /\ g.pc \in Watching => f.pub
  BY DEF WorkerFits, Exists, Starts
<1> HIDE DEF g, e, f
<1>. QED BY <1>1, <1>2, <1>3

\* ... and one that stops.
LEMMA SameStopper ==
  ASSUME NEW v, NEW n, NEW s, StopperFits(v, s), n.agent[s] = v.agent[s],
         v.agent[s].target # None /\ v.entry[v.agent[s].target].cancelled => n.entry[v.agent[s].target].cancelled
  PROVE  StopperFits(n, s)
<1>1. v.agent[s].target # None => n.entry[v.agent[s].target].cancelled
  BY DEF StopperFits
<1>. QED BY <1>1 DEF StopperFits

\* So it disturbs nothing.
LEMMA BecomesKeeps == ASSUME ListenerAssumption, NEW v, Good(v), Becomes(v) PROVE Good(l')
<1> DEFINE n == l'
<1>1. v \in Managers
  BY GoodParts
<1>2. n \in Managers /\ n.cur = v.cur /\ n.agent = v.agent /\ n.enc = v.enc
  BY <1>1, BecomesEffect
<1>3. \A x \in Entries :
              \/ Garbage(v, x) /\ n.entry[x] = Blank
              \/ /\ n.entry[x].state = v.entry[x].state /\ n.entry[x].pub = v.entry[x].pub
                 /\ n.entry[x].cancelled = v.entry[x].cancelled /\ n.entry[x].fan = v.entry[x].fan
                 /\ n.entry[x].stops = v.entry[x].stops
                 /\ n.entry[x].run.proc = "alive" <=> v.entry[x].run.proc = "alive"
  BY <1>1, BecomesEffect
<1> HIDE DEF n
<1>4. \A x \in Entries : Garbage(v, x) =>
        v.cur # x /\ \A a \in Agents : v.agent[a].own # x /\ v.agent[a].target # x
  BY SMTT(60) DEF Garbage
<1>5. \A x \in Entries : ~Garbage(v, x) => Alike(v, n, x)
  BY <1>2, <1>3 DEF Alike
<1>6. Exists(n, n.cur) /\ OneStarts(n) /\ Over(n)
  <2>1. v.cur # None => ~Garbage(v, v.cur)
    BY <1>4, GoodParts
  <2>2. Exists(n, n.cur)
    BY <1>2, <1>3, <2>1, GoodParts DEF Exists
  <2>3. OneStarts(n)
    BY <1>2, GoodParts DEF OneStarts, Starts
  <2>4. Over(n)
    <3>1. v.cur # None => n.entry[v.cur].state = v.entry[v.cur].state /\ n.entry[v.cur].cancelled = v.entry[v.cur].cancelled
      BY <1>3, <2>1, GoodParts
    <3>. QED BY <1>2, <3>1, GoodParts DEF Over
  <2>. QED BY <2>2, <2>3, <2>4
<1>7. ASSUME NEW a \in Agents PROVE Alike(v, n, v.agent[a].own) /\ Alike(v, n, v.agent[a].target)
  <2>1. v.agent[a].own \in Entries \cup {None} /\ v.agent[a].target \in Entries \cup {None}
    BY GoodParts DEF Goroutines
  <2>2. v.agent[a].own # None => Alike(v, n, v.agent[a].own)
    BY <1>4, <1>5, <2>1
  <2>3. v.agent[a].target # None => Alike(v, n, v.agent[a].target)
    BY <1>4, <1>5, <2>1
  <2>. QED BY <2>2, <2>3 DEF Alike
<1>8. ASSUME NEW a \in Agents PROVE TargetFits(n, a)
  BY <1>2, <1>7, GoodParts, SameTarget
<1>9. /\ \A w \in Workers : WorkerFits(n, w)
      /\ \A s \in Stoppers : StopperFits(n, s)
  <2>1. ASSUME NEW w \in Workers PROVE WorkerFits(n, w)
    BY <1>2, <1>7, GoodParts, SameWorker
  <2>2. ASSUME NEW s \in Stoppers PROVE StopperFits(n, s)
    <3>1. s \in Agents /\ StopperFits(v, s) /\ v.agent[s].target \in Entries \cup {None}
      BY GoodParts DEF Goroutines
    <3>2. v.agent[s].target # None => n.entry[v.agent[s].target].cancelled = v.entry[v.agent[s].target].cancelled
      BY <1>3, <1>4, <3>1
    <3>. QED BY <1>2, <3>1, <3>2, SameStopper
  <2>. QED BY <2>1, <2>2
<1>10. ASSUME NEW x \in Entries PROVE EntryFits(n, x) /\ (Adrift(n, x) => Told(n, x)) /\ PortKept(n, x)
  <2>1. CASE Garbage(v, x) /\ n.entry[x] = Blank
    BY <1>2, <1>4, <2>1, GoodParts DEF EntryFits, Adrift, PortKept, Blank, NoRun
  <2>2. CASE ~(Garbage(v, x) /\ n.entry[x] = Blank)
    <3>1. EntryFits(n, x)
      BY <1>2, <1>3, <2>2, GoodParts DEF EntryFits
    <3>2. Adrift(n, x) => Told(n, x)
      BY <1>2, <1>3, <2>2, GoodParts DEF Adrift, Told
    <3>3. PortKept(n, x)
      BY <1>2, <1>3, <2>2, GoodParts DEF PortKept
    <3>. QED BY <3>1, <3>2, <3>3
  <2>. QED BY <2>1, <2>2
<1>. QED BY <1>2, <1>6, <1>8, <1>9, <1>10 DEF Good, n

-------------------------------------------------------------------------------
(* One goroutine moves                                                     *)

\* A goroutine is about to close the port of an entry.
Closes(v, a, x) == v.agent[a].pc \in {"detach", "reap", "shut"} /\ v.agent[a].target = x

\* An entry goes on as it was, or towards its end.
EntryGoes(v, n, x) ==
  LET e == v.entry[x]
      f == n.entry[x]
  IN /\ f.pub = e.pub
     /\ f.state = e.state \/ (e.pub /\ (f.state = "error" \/ (f.state = "stopping" /\ f.cancelled)))
     /\ e.cancelled => f.cancelled
     /\ f.run.proc = "alive" => e.run.proc = "alive"
     /\ f.fan = e.fan \/ <<e.fan, f.fan>> \in {<<"bound", "closing">>, <<"closing", "closed">>}
     /\ f.stops = e.stops \/ EntryFits(n, x)

\* Whoever holds an entry that goes on is not disturbed.
LEMMA GoesAlike ==
  ASSUME NEW v, NEW n, n.cur \in {v.cur, None}, NEW x, x # None => EntryGoes(v, n, x) PROVE Alike(v, n, x)
<1>1. x # None /\ n.cur = x => v.cur = x
  OBVIOUS
<1>2. x # None =>
        LET e == v.entry[x]
            f == n.entry[x]
        IN /\ f.state = e.state \/ (e.pub /\ f.state \in {"error", "stopping"})
           /\ f.pub = e.pub
           /\ f.run.proc = "alive" => e.run.proc = "alive"
           /\ f.fan = e.fan \/ (e.fan = "bound" /\ f.fan = "closing") \/ (e.fan = "closing" /\ f.fan = "closed")
  BY DEF EntryGoes
<1>. QED BY <1>1, <1>2 DEF Alike

\* Goroutine a moves; entries go towards their end, and the managed one may leave the map.
LEMMA Moves ==
  ASSUME ListenerAssumption, NEW v, Good(v), NEW n \in Managers, NEW a \in Agents,
         \A b \in Agents \ {a} : n.agent[b] = v.agent[b],
         n.enc = v.enc, n.cur \in {v.cur, None},
         \A x \in Entries : EntryGoes(v, n, x),
         TargetFits(n, a), a \in Workers => WorkerFits(n, a), a \in Stoppers => StopperFits(n, a) /\ (a = All => Over(n)),
         Starts(n, a) => Starts(v, a) /\ n.agent[a].own = v.agent[a].own,
         n.agent[a].pc \in {"exec", "restart"} =>
           \/ v.agent[a].pc \in {"exec", "restart"} /\ n.agent[a].own = v.agent[a].own
           \/ n.cur = n.agent[a].own \/ n.entry[n.agent[a].own].cancelled,
         v.agent[a].pc = "detach" =>
           \/ n.entry[v.agent[a].target].cancelled
           \/ n.agent[a].pc = "detach" /\ n.agent[a].target = v.agent[a].target,
         \A x \in Entries : Closes(v, a, x) \/ n.entry[x].state # v.entry[x].state =>
                              Closes(n, a, x) \/ n.entry[x].fan # "bound",
         n.cur # v.cur => (Adrift(n, v.cur) => Told(n, v.cur)) /\ PortKept(n, v.cur)
  PROVE  Good(n)
<1>1. /\ \A b \in Agents : v.agent[b].own \in Entries \cup {None} /\ v.agent[b].target \in Entries \cup {None}
      /\ v.cur \in Entries \cup {None} /\ None \notin Entries
      /\ Workers \subseteq Agents /\ Stoppers \subseteq Agents
  BY GoodParts DEF Goroutines, ListenerAssumption, Agents
<1>2. \A x \in Entries : n.entry[x].state = "none" <=> v.entry[x].state = "none"
  BY GoodParts DEF EntryGoes, EntryFits
<1>3. Exists(n, n.cur)
  BY <1>1, <1>2, GoodParts DEF Exists
<1>4. OneStarts(n)
  <2> SUFFICES ASSUME NEW w \in Workers, NEW u \in Workers, Starts(n, w), Starts(n, u), n.agent[w].own = n.agent[u].own
               PROVE  w = u
    BY DEF OneStarts
  <2>1. \A b \in {w, u} : Starts(v, b) /\ v.agent[b].own = n.agent[b].own
    BY <1>1 DEF Starts
  <2>. QED BY <2>1, GoodParts DEF OneStarts
<1>5. Over(n)
  <2>1. CASE a # All /\ All \in Stoppers
    <3>1. n.agent[All] = v.agent[All]
      BY <1>1, <2>1
    <3>2. n.cur # None => n.cur = v.cur /\ EntryGoes(v, n, v.cur)
      BY <1>1
    <3>. QED BY <2>1, <3>1, <3>2, GoodParts DEF Over, EntryGoes
  <2>. QED BY <2>1 DEF Over
<1>6. ASSUME NEW b \in Agents PROVE TargetFits(n, b)
  <2>1. CASE b # a
    <3>1. TargetFits(v, b) /\ n.agent[b] = v.agent[b]
      BY <2>1, GoodParts
    <3>2. v.agent[b].target # None => EntryGoes(v, n, v.agent[b].target)
      BY <1>1
    <3>. QED BY <1>1, <3>1, <3>2, GoesAlike, SameTarget
  <2>. QED BY SMTT(60), <2>1
<1>7. ASSUME NEW w \in Workers PROVE WorkerFits(n, w)
  <2>1. CASE w # a
    <3>1. WorkerFits(v, w) /\ n.agent[w] = v.agent[w]
      BY <1>1, <2>1, GoodParts
    <3>2. v.agent[w].own # None => EntryGoes(v, n, v.agent[w].own)
      BY <1>1
    <3>. QED BY <1>1, <3>1, <3>2, GoesAlike, SameWorker
  <2>. QED BY SMTT(60), <2>1
<1>8. ASSUME NEW s \in Stoppers PROVE StopperFits(n, s)
  <2>1. CASE s # a
    <3>1. StopperFits(v, s) /\ n.agent[s] = v.agent[s]
      BY <1>1, <2>1, GoodParts
    <3>2. v.agent[s].target # None => EntryGoes(v, n, v.agent[s].target)
      BY <1>1
    <3>3. v.agent[s].target # None /\ v.entry[v.agent[s].target].cancelled => n.entry[v.agent[s].target].cancelled
      BY <3>2 DEF EntryGoes
    <3>. QED BY <3>1, <3>3, SameStopper
  <2>. QED BY SMTT(60), <2>1
<1>9. ASSUME NEW x \in Entries PROVE EntryFits(n, x)
  <2>1. CASE n.entry[x].stops = v.entry[x].stops
    <3>1. EntryGoes(v, n, x) /\ EntryFits(v, x) /\ (n.cur = x => v.cur = x)
      BY <1>1, GoodParts
    <3>. QED BY <2>1, <3>1 DEF EntryGoes, EntryFits
  <2>. QED BY <2>1 DEF EntryGoes
<1>10. ASSUME NEW x \in Entries, Adrift(n, x), n.cur # v.cur => x # v.cur PROVE Told(n, x)
  <2>1. v.cur # x /\ ~v.entry[x].cancelled /\ ~n.entry[x].cancelled
    BY <1>10 DEF Adrift, EntryGoes
  <2>2. v.entry[x].run.proc = "alive" \/ \E w \in Workers : v.agent[w].pc \in {"exec", "restart"} /\ v.agent[w].own = x
    <3>1. CASE n.entry[x].run.proc = "alive"
      BY <3>1 DEF EntryGoes
    <3>2. CASE \E w \in Workers : n.agent[w].pc \in {"exec", "restart"} /\ n.agent[w].own = x
      <4>1. PICK w \in Workers : n.agent[w].pc \in {"exec", "restart"} /\ n.agent[w].own = x
        BY <3>2
      <4>2. CASE w = a
        BY <1>10, <2>1, <4>1, <4>2 DEF Adrift
      <4>3. CASE w # a
        BY <1>1, <4>1, <4>3
      <4>. QED BY <4>2, <4>3
    <3>. QED BY <1>10, <3>1, <3>2 DEF Adrift
  <2>3. PICK b \in Agents : v.agent[b].pc = "detach" /\ v.agent[b].target = x
    BY <2>1, <2>2, GoodParts DEF Adrift, Told
  <2>4. n.agent[b].pc = "detach" /\ n.agent[b].target = x
    BY <2>1, <2>3
  <2>. QED BY <2>4 DEF Told
<1>11. ASSUME NEW x \in Entries, n.cur # v.cur => x # v.cur PROVE PortKept(n, x)
  <2> SUFFICES ASSUME n.entry[x].fan = "bound"
               PROVE  \/ n.cur = x /\ n.entry[x].state \in {"starting", "running"}
                      \/ \E b \in Agents : Closes(n, b, x)
    BY DEF PortKept, Closes
  <2>1. v.entry[x].fan = "bound"
    BY DEF EntryGoes
  <2>2. CASE v.cur = x /\ v.entry[x].state \in {"starting", "running"}
    BY <1>11, <2>2
  <2>3. CASE \E b \in Agents : Closes(v, b, x)
    <3>1. PICK b \in Agents : Closes(v, b, x)
      BY <2>3
    <3>2. Closes(n, b, x)
      BY <3>1 DEF Closes
    <3>. QED BY <3>2
  <2>. QED BY <2>1, <2>2, <2>3, GoodParts DEF PortKept, Closes
<1>12. ASSUME NEW x \in Entries PROVE (Adrift(n, x) => Told(n, x)) /\ PortKept(n, x)
  BY <1>10, <1>11
<1>. QED BY <1>3, <1>4, <1>5, <1>6, <1>7, <1>8, <1>9, <1>12 DEF Good

\* The same, when no entry changes.
LEMMA AgentMoves ==
  ASSUME ListenerAssumption, NEW v, Good(v), NEW a \in Agents, NEW g \in Goroutines,
         LET n == [v EXCEPT !.agent[a] = g] IN
           /\ TargetFits(n, a)
           /\ a \in Workers => WorkerFits(n, a)
           /\ a \in Stoppers => StopperFits(n, a) /\ (a = All => Over(n)),
         g.own # None /\ (g.pc \in {"bind", "exec", "publish", "unclaim"} \/ g.next \in {"bind", "unclaim"}) =>
           Starts(v, a) /\ g.own = v.agent[a].own,
         g.pc \in {"exec", "restart"} => v.cur = g.own,
         v.agent[a].pc \in {"detach", "reap", "shut"} =>
           \/ g.pc \in {"detach", "reap", "shut"} /\ g.target = v.agent[a].target
           \/ v.entry[v.agent[a].target].fan # "bound",
         v.agent[a].pc = "detach" =>
           v.entry[v.agent[a].target].cancelled \/ (g.pc = "detach" /\ g.target = v.agent[a].target)
  PROVE  Good([v EXCEPT !.agent[a] = g])
<1> DEFINE n == [v EXCEPT !.agent[a] = g]
<1>1. v \in Managers
  BY GoodParts
<1>2. /\ n \in Managers /\ n.cur = v.cur /\ n.entry = v.entry /\ n.enc = v.enc
      /\ n.agent[a] = g /\ \A b \in Agents \ {a} : n.agent[b] = v.agent[b]
  BY <1>1 DEF Managers
<1>3. /\ TargetFits(n, a)
      /\ a \in Workers => WorkerFits(n, a)
      /\ a \in Stoppers => StopperFits(n, a) /\ (a = All => Over(n))
  OBVIOUS
<1> HIDE DEF n
<1>4. \A x \in Entries : EntryGoes(v, n, x)
  BY <1>2 DEF EntryGoes
<1>5. Starts(n, a) => Starts(v, a) /\ n.agent[a].own = v.agent[a].own
  BY <1>2 DEF Starts
<1>6. \A x \in Entries : Closes(v, a, x) \/ n.entry[x].state # v.entry[x].state =>
                         Closes(n, a, x) \/ n.entry[x].fan # "bound"
  BY <1>2 DEF Closes
<1>7. Good(n)
  BY <1>2, <1>3, <1>4, <1>5, <1>6, Moves
<1>. QED BY <1>7 DEF n

\* An entry goes towards its end, and nobody moves.
LEMMA EntryMoves ==
  ASSUME ListenerAssumption, NEW v, Good(v), NEW x \in Entries, NEW e \in Streams,
         LET f == v.entry[x] IN
           /\ e.pub = f.pub /\ e.state = f.state /\ e.stops = f.stops
           /\ f.cancelled => e.cancelled
           /\ e.run.proc = "alive" => f.run.proc = "alive"
           /\ e.fan = f.fan \/ <<f.fan, e.fan>> \in {<<"bound", "closing">>, <<"closing", "closed">>}
  PROVE  Good([v EXCEPT !.entry[x] = e])
<1> DEFINE n == [v EXCEPT !.entry[x] = e]
<1>1. v \in Managers
  BY GoodParts
<1>2. /\ n \in Managers /\ n.cur = v.cur /\ n.agent = v.agent /\ n.enc = v.enc
      /\ n.entry[x] = e /\ \A y \in Entries \ {x} : n.entry[y] = v.entry[y]
  BY <1>1 DEF Managers
<1> HIDE DEF n
<1>3. \A y \in Entries : EntryGoes(v, n, y) /\ n.entry[y].state = v.entry[y].state /\ n.entry[y].pub = v.entry[y].pub
  BY <1>2 DEF EntryGoes
<1>4. v.cur \in Entries \cup {None} /\ \A a \in Agents : v.agent[a] \in Goroutines
  BY GoodParts
<1>5. Over(n)
  BY <1>2, <1>3, <1>4, GoodParts DEF Over, EntryGoes
<1>6. ASSUME Agents # {} PROVE Good(n)
  <2>1. PICK a \in Agents : TRUE
    BY <1>6
  <2>2. v.agent[a].target \in Entries \cup {None} /\ v.agent[a].own \in Entries \cup {None}
    BY <1>4 DEF Goroutines
  <2>3. Alike(v, n, v.agent[a].target) /\ Alike(v, n, v.agent[a].own)
    BY <1>2, <1>3, <2>2, GoesAlike
  <2>4. TargetFits(n, a)
    BY <1>2, <2>3, GoodParts, SameTarget
  <2>5. a \in Workers => WorkerFits(n, a)
    BY <1>2, <2>3, GoodParts, SameWorker
  <2>6. a \in Stoppers => StopperFits(n, a)
    <3>1. v.agent[a].target # None /\ v.entry[v.agent[a].target].cancelled => n.entry[v.agent[a].target].cancelled
      BY <1>3, <2>2 DEF EntryGoes
    <3>. QED BY <1>2, <3>1, GoodParts, SameStopper
  <2>7. Starts(n, a) => Starts(v, a) /\ n.agent[a].own = v.agent[a].own
    BY <1>2 DEF Starts
  <2>8. \A y \in Entries : Closes(v, a, y) \/ n.entry[y].state # v.entry[y].state =>
                           Closes(n, a, y) \/ n.entry[y].fan # "bound"
    BY <1>2, <1>3 DEF Closes
  <2>. QED BY <1>2, <1>3, <1>5, <2>1, <2>4, <2>5, <2>6, <2>7, <2>8, Moves
<1>7. ASSUME Agents = {} PROVE Good(n)
  <2>1. Workers = {} /\ Stoppers = {}
    BY <1>7 DEF Agents
  <2>2. Exists(n, n.cur)
    BY <1>2, <1>3, <1>4, GoodParts DEF Exists
  <2>3. ASSUME NEW y \in Entries PROVE EntryFits(n, y) /\ (Adrift(n, y) => Told(n, y)) /\ PortKept(n, y)
    <3>1. EntryFits(n, y)
      BY <1>2, <1>3, GoodParts DEF EntryFits, EntryGoes
    <3>2. Adrift(n, y) => Adrift(v, y)
      BY <1>2, <1>3, <2>1 DEF Adrift, EntryGoes
    <3>3. Told(v, y) => Told(n, y)
      BY <1>2 DEF Told
    <3>4. PortKept(n, y)
      BY <1>2, <1>3, GoodParts DEF PortKept, EntryGoes
    <3>. QED BY <3>1, <3>2, <3>3, <3>4, GoodParts
  <2>. QED BY <1>2, <1>5, <1>7, <2>1, <2>2, <2>3 DEF Good, OneStarts
<1>8. Good(n)
  BY <1>6, <1>7
<1>. QED BY <1>8 DEF n

-------------------------------------------------------------------------------
(* Steps of a goroutine                                                    *)

\* An idle goroutine holds nothing.
LEMMA IdleTyped ==
  Idle \in Goroutines /\ Idle.pc = "idle" /\ Idle.own = None /\ Idle.target = None /\ Idle.next = "idle"
BY DEF Idle, Goroutines, WorkerPlaces

\* A goroutine that starts or watches ends, unless it has an entry to close.
LEMMA QuitKeeps ==
  ASSUME ListenerAssumption, NEW v, Good(v), NEW w \in Workers, v.agent[w].pc \notin {"detach", "reap", "shut"}
  PROVE  Good(Quit(v, w)) /\ Quit(v, w).entry = v.entry /\ Quit(v, w).cur = v.cur
<1> DEFINE n == [v EXCEPT !.agent[w] = Idle]
<1>1. v \in Managers /\ w \in Agents /\ w \notin Stoppers
  BY GoodParts DEF ListenerAssumption
<1>2. n.agent[w] = Idle /\ n.entry = v.entry /\ n.cur = v.cur
  BY <1>1 DEF Managers
<1>3. TargetFits(n, w)
  BY <1>2, IdleTyped DEF TargetFits, Exists, Resources
<1>4. WorkerFits(n, w)
  BY <1>2, IdleTyped DEF WorkerFits, Exists, Starts, WorkerPlaces, Watching
<1>5. Good(n)
  BY <1>1, <1>3, <1>4, IdleTyped, AgentMoves
<1>. QED BY <1>2, <1>5 DEF Quit

\* A monitor goes to another place; only Reserve lets it start a process.
LEMMA GotoKeeps ==
  ASSUME ListenerAssumption, NEW v, Good(v), NEW w \in Workers, v.agent[w].pc \in Watching,
         NEW pc \in Watching \ {"restart"}
  PROVE  /\ Good(Goto(v, w, pc))
         /\ Goto(v, w, pc).entry = v.entry /\ Goto(v, w, pc).cur = v.cur
         /\ Goto(v, w, pc) = [v EXCEPT !.agent[w] = [v.agent[w] EXCEPT !.pc = pc]]
<1> DEFINE g == [v.agent[w] EXCEPT !.pc = pc]
           n == [v EXCEPT !.agent[w] = g]
<1>1. v \in Managers /\ w \in Agents /\ w \notin Stoppers /\ v.agent[w] \in Goroutines
  BY GoodParts DEF ListenerAssumption
<1>2. pc \in WorkerPlaces /\ pc \notin Resources /\ v.agent[w].pc \notin Resources
  BY DEF WorkerPlaces, Watching, Resources
<1>3. TargetFits(v, w) /\ WorkerFits(v, w)
  BY SMTT(60), GoodParts
<1>4. v.agent[w].next = "idle" /\ v.agent[w].own # None /\ v.agent[w].target = None /\ v.entry[v.agent[w].own].pub
      /\ Exists(v, v.agent[w].own)
  BY <1>2, <1>3 DEF TargetFits, WorkerFits, Watching
<1>5. g \in Goroutines /\ g.pc = pc /\ g.own = v.agent[w].own /\ g.target = None /\ g.next = "idle"
  BY <1>1, <1>2, <1>4 DEF Goroutines
<1>6. n.agent[w] = g /\ n.entry = v.entry /\ n.cur = v.cur
  BY <1>1 DEF Managers
<1>7. Goto(v, w, pc) = n
  BY <1>1 DEF Goto, Managers
<1> HIDE DEF g, n
<1>8. TargetFits(n, w)
  BY <1>2, <1>5, <1>6 DEF TargetFits, Exists, Resources, Watching
<1>9. WorkerFits(n, w)
  BY <1>2, <1>4, <1>5, <1>6 DEF WorkerFits, Exists, Starts, Watching
<1>10. Good(n)
  BY <1>1, <1>2, <1>5, <1>8, <1>9, AgentMoves DEF n, Watching, Resources
<1>. QED BY <1>6, <1>7, <1>10 DEF n, g

\* A start begins, with nothing yet.
LEMMA StartKeeps == ASSUME ListenerAssumption, Good(l), NEW w \in Workers, Start(w) PROVE Good(l')
<1> DEFINE g == [Idle EXCEPT !.pc = "claim", !.chan = TRUE]
           n == [l EXCEPT !.agent[w] = g]
<1>1. l \in Managers /\ w \in Agents /\ w \notin Stoppers /\ Becomes(n)
  BY GoodParts DEF ListenerAssumption, Start
<1>2. g \in Goroutines /\ g.pc = "claim" /\ g.own = None /\ g.target = None /\ g.next = "idle"
  BY IdleTyped DEF Goroutines, WorkerPlaces
<1>3. n.agent[w] = g /\ n.entry = l.entry /\ n.cur = l.cur /\ l.agent[w].pc = "idle"
  BY <1>1 DEF Managers, Start, At
<1> HIDE DEF g, n
<1>4. TargetFits(n, w) /\ WorkerFits(n, w)
  BY <1>2, <1>3 DEF TargetFits, WorkerFits, Exists, Starts, WorkerPlaces, Watching, Resources
<1>5. Good(n)
  BY <1>1, <1>2, <1>3, <1>4, AgentMoves DEF n
<1>. QED BY <1>1, <1>5, BecomesKeeps

\* The monitor goes round, waits, or ends.
LEMMA PlainSteps ==
  ASSUME ListenerAssumption, Good(l), NEW w \in Workers,
         Top(w) \/ Exited(w) \/ Check(w) \/ Backoff(w) \/ Release(w)
  PROVE  Good(l')
<1>1. l.agent[w].pc \in Watching /\ l.agent[w].pc \notin {"detach", "reap", "shut"}
  BY DEF Top, Exited, Check, Backoff, Release, At, Watching
<1>2. Good(Quit(l, w)) /\ \A pc \in Watching \ {"restart"} : Good(Goto(l, w, pc))
  BY <1>1, QuitKeeps, GotoKeeps
<1>3. Becomes(Quit(l, w)) \/ \E pc \in Watching \ {"restart"} : Becomes(Goto(l, w, pc))
  <2>1. {"wait", "record", "remove", "count", "recount", "recheck"} \subseteq Watching \ {"restart"}
    BY DEF Watching
  <2>. QED BY <2>1 DEF Top, Exited, Check, Backoff, Release
<1>. QED BY <1>2, <1>3, BecomesKeeps

\* A run changes that is not started.
LEMMA RunMoves ==
  ASSUME ListenerAssumption, NEW v, Good(v), NEW x \in Entries, NEW r \in Runs,
         r.proc = "alive" => v.entry[x].run.proc = "alive"
  PROVE  Good([v EXCEPT !.entry[x] = [v.entry[x] EXCEPT !.run = r]])
<1>1. v.entry[x] \in Streams
  BY GoodParts
<1>2. [v.entry[x] EXCEPT !.run = r] \in Streams
  BY <1>1 DEF Streams
<1>3. LET e == [v.entry[x] EXCEPT !.run = r] IN
        /\ e.state = v.entry[x].state /\ e.pub = v.entry[x].pub /\ e.stops = v.entry[x].stops
        /\ e.cancelled = v.entry[x].cancelled /\ e.fan = v.entry[x].fan /\ e.run = r
  BY <1>1 DEF Streams
<1>. QED BY <1>2, <1>3, EntryMoves

\* A run is detached from its entry.
LEMMA RunDetached ==
  ASSUME NEW v \in Managers, NEW x \in Entries
  PROVE  [v EXCEPT !.entry[x].run.attached = FALSE, !.entry[x].run.open = FALSE]
         = [v EXCEPT !.entry[x] = [v.entry[x] EXCEPT !.run = [v.entry[x].run EXCEPT !.attached = FALSE, !.open = FALSE]]]
<1> DEFINE u == [v EXCEPT !.entry[x].run.attached = FALSE]
           e == [v.entry[x] EXCEPT !.run.attached = FALSE]
<1>1. v.entry \in [Entries -> Streams] /\ v.entry[x] \in Streams /\ v.entry[x].run \in Runs
  BY DEF Managers, Streams
<1>2. u = [v EXCEPT !.entry[x] = e]
  BY <1>1 DEF Managers
<1>3. e.run = [v.entry[x].run EXCEPT !.attached = FALSE] /\ e = [v.entry[x] EXCEPT !.run = e.run]
  BY <1>1 DEF Streams
<1>4. [u EXCEPT !.entry[x].run.open = FALSE] = [u EXCEPT !.entry[x] = [u.entry[x] EXCEPT !.run.open = FALSE]]
  BY <1>1 DEF Managers
<1>. QED
  <2>1. u.entry[x] = e /\ [u EXCEPT !.entry[x] = [e EXCEPT !.run.open = FALSE]] = [v EXCEPT !.entry[x] = [e EXCEPT !.run.open = FALSE]]
    <3> HIDE DEF e
    <3>. QED BY ZenonT(60), <1>1, <1>2 DEF Managers
  <2>2. [e EXCEPT !.run.open = FALSE] = [v.entry[x] EXCEPT !.run = [e.run EXCEPT !.open = FALSE]]
    <3>1. e \in Streams
      BY <1>1 DEF Streams, Runs
    <3> HIDE DEF e
    <3>. QED BY <1>1, <1>3, <3>1 DEF Streams
  <2>3. [e.run EXCEPT !.open = FALSE] = [v.entry[x].run EXCEPT !.attached = FALSE, !.open = FALSE]
    BY <1>3
  <2>. QED BY <1>4, <2>1, <2>2, <2>3

\* This monitor takes the run whose output has ended.
LEMMA OutputEndsKeeps == ASSUME ListenerAssumption, Good(l), NEW w \in Workers, OutputEnds(w) PROVE Good(l')
<1>1. l.agent[w].pc = "wait"
  BY DEF OutputEnds, At
<1>2. CASE Becomes(Quit(l, w))
  BY <1>1, <1>2, QuitKeeps, BecomesKeeps
<1>3. CASE Becomes([Goto(l, w, "finish") EXCEPT !.entry[Own(w)].run.attached = FALSE, !.entry[Own(w)].run.open = FALSE])
  <2> DEFINE v == Goto(l, w, "finish")
             x == Own(w)
             r == [v.entry[x].run EXCEPT !.attached = FALSE, !.open = FALSE]
  <2>1. Good(v) /\ v.entry = l.entry
    BY SMTT(60), <1>1, GotoKeeps DEF Watching
  <2>2. x \in Entries
    BY <1>1, GoodParts DEF WorkerFits, Own, Goroutines, Watching
  <2>3. l.entry[x].run \in Runs /\ v \in Managers
    BY <2>1, <2>2, GoodParts DEF Streams
  <2>4. r \in Runs /\ r.proc = v.entry[x].run.proc
    <3> HIDE DEF v
    <3>. QED BY <2>1, <2>3 DEF Runs
  <2>5. [v EXCEPT !.entry[x].run.attached = FALSE, !.entry[x].run.open = FALSE]
        = [v EXCEPT !.entry[x] = [v.entry[x] EXCEPT !.run = r]]
    <3> HIDE DEF v
    <3> HIDE DEF x
    <3>. QED BY <2>2, <2>3, RunDetached
  <2> HIDE DEF v, r, x
  <2>6. Good([v EXCEPT !.entry[x] = [v.entry[x] EXCEPT !.run = r]])
    BY <2>1, <2>2, <2>4, RunMoves
  <2>. QED BY <1>3, <2>5, <2>6, BecomesKeeps DEF v, x
<1>. QED BY <1>2, <1>3 DEF OutputEnds

\* The run's goroutines have ended; stdin is closed.
LEMMA FinishKeeps == ASSUME ListenerAssumption, Good(l), NEW w \in Workers, Finish(w) PROVE Good(l')
<1> DEFINE v == Goto(l, w, "exit")
           x == Own(w)
           r == [l.entry[x].run EXCEPT !.eof = TRUE]
<1>1. l.agent[w].pc = "finish" /\ Becomes([v EXCEPT !.entry[x].run.eof = TRUE])
  BY DEF Finish, At
<1>2. Good(v) /\ v.entry = l.entry
  BY SMTT(60), <1>1, GotoKeeps DEF Watching
<1>3. x \in Entries
  BY <1>1, GoodParts DEF WorkerFits, Own, Goroutines, Watching
<1>4. l.entry[x].run \in Runs /\ v \in Managers
  BY <1>2, <1>3, GoodParts DEF Streams
<1>5. r \in Runs /\ r.proc = l.entry[x].run.proc
  BY ZenonT(60), <1>4 DEF Runs
<1>6. [v EXCEPT !.entry[x].run.eof = TRUE] = [v EXCEPT !.entry[x] = [v.entry[x] EXCEPT !.run = r]]
  <2> HIDE DEF v
  <2>. QED BY <1>2, <1>3, <1>4 DEF Managers, Streams, Runs
<1> HIDE DEF v, r, x
<1>. QED BY <1>1, <1>2, <1>3, <1>5, <1>6, RunMoves, BecomesKeeps

\* A failure is counted, or the count starts again.
LEMMA RecordKeeps == ASSUME ListenerAssumption, Good(l), NEW w \in Workers, NEW long \in BOOLEAN, Record(w, long) PROVE Good(l')
<1> DEFINE v == Goto(l, w, "check")
           x == Own(w)
           e == l.entry[x]
           k == IF l.cur # x THEN e.retry ELSE IF long THEN 0 ELSE IF e.retry > MaxRetries THEN e.retry ELSE e.retry + 1
           f == [e EXCEPT !.retry = k]
<1>1. l.agent[w].pc \in {"record", "refail"}
      /\ Becomes([v EXCEPT !.entry[x].retry = IF l.cur # x THEN @ ELSE IF long THEN 0 ELSE IF @ > MaxRetries THEN @ ELSE @ + 1])
  BY DEF Record, At
<1>2. Good(v) /\ v.entry = l.entry
  BY <1>1, GotoKeeps DEF Watching
<1>3. x \in Entries
  BY ZenonT(60), <1>1, GoodParts DEF WorkerFits, Own, Goroutines, Watching
<1>4. e \in Streams /\ v \in Managers
  BY <1>2, <1>3, GoodParts
<1>5. f \in Streams /\ f.state = e.state /\ f.pub = e.pub /\ f.stops = e.stops /\ f.cancelled = e.cancelled
      /\ f.run = e.run /\ f.fan = e.fan
  <2>1. k \in Nat
    BY <1>4 DEF Streams
  <2> HIDE DEF k, e
  <2>. QED BY <1>4, <2>1 DEF Streams
<1>6. [v EXCEPT !.entry[x].retry = IF l.cur # x THEN @ ELSE IF long THEN 0 ELSE IF @ > MaxRetries THEN @ ELSE @ + 1]
      = [v EXCEPT !.entry[x] = f]
  <2> HIDE DEF v
  <2>. QED BY <1>2, <1>3, <1>4 DEF Managers, Streams
<1>7. Good([v EXCEPT !.entry[x] = f])
  <2> HIDE DEF f, v, x, k
  <2>. QED BY <1>2, <1>3, <1>5, EntryMoves
<1> HIDE DEF v, f, x
<1>. QED BY <1>1, <1>6, <1>7, BecomesKeeps

\* The monitor takes the entry of the moment.
LEMMA BeginKeeps == ASSUME ListenerAssumption, Good(l), NEW w \in Workers, Begin(w) PROVE Good(l')
<1>1. l.agent[w].pc = "begin" /\ l \in Managers /\ w \in Agents /\ w \notin Stoppers /\ l.agent[w] \in Goroutines
  BY GoodParts DEF Begin, At, ListenerAssumption
<1>2. CASE Becomes(Quit(l, w))
  BY <1>1, <1>2, QuitKeeps, BecomesKeeps
<1>3. CASE l.cur # None /\ l.entry[l.cur].pub /\ Becomes([Goto(l, w, "top") EXCEPT !.agent[w].own = l.cur])
  <2> DEFINE g == [l.agent[w] EXCEPT !.pc = "top", !.own = l.cur]
             n == [l EXCEPT !.agent[w] = g]
  <2>1. [Goto(l, w, "top") EXCEPT !.agent[w].own = l.cur] = n
    BY <1>1 DEF Goto, Managers
  <2>2. l.agent[w].next = "idle" /\ l.agent[w].target = None
    BY <1>1, GoodParts DEF TargetFits, Resources
  <2>3. l.cur \in Entries /\ Exists(l, l.cur)
    BY <1>3, GoodParts
  <2>4. g \in Goroutines /\ g.pc = "top" /\ g.own = l.cur /\ g.target = None /\ g.next = "idle"
    BY <1>1, <2>2, <2>3 DEF Goroutines, WorkerPlaces, Watching
  <2>5. n.agent[w] = g /\ n.entry = l.entry /\ n.cur = l.cur
    BY <1>1 DEF Managers
  <2> HIDE DEF g, n
  <2>6. TargetFits(n, w) /\ WorkerFits(n, w)
    BY <1>3, <2>3, <2>4, <2>5 DEF TargetFits, WorkerFits, Exists, Starts, WorkerPlaces, Watching, Resources
  <2>7. Good(n)
    BY <1>1, <2>4, <2>6, AgentMoves DEF n
  <2>. QED BY <1>3, <2>1, <2>7, BecomesKeeps
<1>. QED BY <1>2, <1>3 DEF Begin

\* What a step of one goroutine and one entry makes of the manager.
Put(v, c, a, g, x, e) == [v EXCEPT !.cur = c, !.agent[a] = g, !.entry[x] = e]

\* A goroutine and an entry move, and the managed entry may leave the map: what has to be
\* shown of the two.
LEMMA PutKeeps ==
  ASSUME ListenerAssumption, NEW v, Good(v), NEW c \in {v.cur, None}, NEW a \in Agents, NEW g \in Goroutines,
         NEW x \in Entries, NEW e \in Streams,
         LET n == Put(v, c, a, g, x, e) IN
           /\ EntryGoes(v, n, x) /\ TargetFits(n, a)
           /\ a \in Workers => WorkerFits(n, a)
           /\ a \in Stoppers => StopperFits(n, a) /\ (a = All => Over(n))
           /\ c # v.cur => (Adrift(n, v.cur) => Told(n, v.cur)) /\ PortKept(n, v.cur),
         g.pc \notin {"bind", "exec", "publish", "unclaim", "restart"},
         g.next \in {"bind", "unclaim"} => Starts(v, a) /\ g.own = v.agent[a].own,
         v.agent[a].pc = "detach" =>
           g.target = v.agent[a].target /\ (g.pc = "detach" \/ (v.agent[a].target = x /\ e.cancelled)),
         v.agent[a].pc \in {"detach", "reap", "shut"} =>
           g.target = v.agent[a].target /\ (g.pc \in {"detach", "reap", "shut"} \/ (v.agent[a].target = x /\ e.fan # "bound")),
         e.state # v.entry[x].state => g.pc \in {"detach", "reap", "shut"} /\ g.target = x
  PROVE  Good(Put(v, c, a, g, x, e))
<1> DEFINE n == Put(v, c, a, g, x, e)
<1>1. v \in Managers /\ v.cur \in Entries \cup {None} /\ c \in Entries \cup {None}
  BY GoodParts
<1>2. /\ n \in Managers /\ n.cur = c /\ n.enc = v.enc
      /\ n.agent[a] = g /\ \A b \in Agents \ {a} : n.agent[b] = v.agent[b]
      /\ n.entry[x] = e /\ \A y \in Entries \ {x} : n.entry[y] = v.entry[y]
  BY <1>1 DEF Put, Managers
<1>3. /\ EntryGoes(v, n, x) /\ TargetFits(n, a)
      /\ a \in Workers => WorkerFits(n, a)
      /\ a \in Stoppers => StopperFits(n, a) /\ (a = All => Over(n))
      /\ c # v.cur => (Adrift(n, v.cur) => Told(n, v.cur)) /\ PortKept(n, v.cur)
  OBVIOUS
<1> HIDE DEF n
<1>4. \A y \in Entries : EntryGoes(v, n, y)
  BY ZenonT(60), <1>2, <1>3 DEF EntryGoes
<1>5. Starts(n, a) => Starts(v, a) /\ n.agent[a].own = v.agent[a].own
  BY <1>2 DEF Starts
<1>6. \A y \in Entries : Closes(v, a, y) \/ n.entry[y].state # v.entry[y].state =>
                         Closes(n, a, y) \/ n.entry[y].fan # "bound"
  BY <1>2 DEF Closes
<1>7. v.agent[a].pc = "detach" =>
           \/ n.entry[v.agent[a].target].cancelled
           \/ n.agent[a].pc = "detach" /\ n.agent[a].target = v.agent[a].target
  BY <1>2
<1>8. n.agent[a].pc \notin {"exec", "restart"}
  BY <1>2
<1>. QED BY <1>2, <1>3, <1>4, <1>5, <1>6, <1>7, <1>8, Moves DEF n

\* A monitor holds an entry that was published, and closes nothing.
LEMMA WatcherFits ==
  ASSUME ListenerAssumption, Good(l), NEW w \in Workers, l.agent[w].pc \in Watching
  PROVE  /\ w \in Agents /\ w \notin Stoppers /\ l \in Managers /\ l.agent[w] \in Goroutines
         /\ Own(w) \in Entries /\ l.entry[Own(w)] \in Streams /\ l.entry[Own(w)].pub /\ l.entry[Own(w)].state # "none"
         /\ l.agent[w].next = "idle" /\ l.agent[w].target = None /\ l.agent[w].own = Own(w)
<1>1. w \in Agents /\ w \notin Stoppers /\ l \in Managers /\ l.agent[w] \in Goroutines /\ WorkerFits(l, w) /\ TargetFits(l, w)
  BY GoodParts DEF ListenerAssumption
<1>2. Own(w) \in Entries
  BY <1>1 DEF WorkerFits, Own, Goroutines, Watching
<1>3. l.entry[Own(w)].pub /\ l.entry[Own(w)].state # "none"
  BY <1>1, <1>2 DEF WorkerFits, Own, Exists, ListenerAssumption
<1>4. l.agent[w].next = "idle" /\ l.agent[w].target = None
  BY <1>1 DEF TargetFits, Resources, Watching
<1>. QED BY <1>1, <1>2, <1>3, <1>4, GoodParts DEF Own

\* The retries are given up with the port, or go on.
LEMMA CountKeeps == ASSUME ListenerAssumption, Good(l), NEW w \in Workers, Count(w) PROVE Good(l')
<1>1. l.agent[w].pc \in {"count", "recount"} /\ l.agent[w].pc \in Watching
  BY DEF Count, At, Watching
<1>2. CASE \E pc \in {"backoff", "reserve"} : Becomes(Goto(l, w, pc))
  BY <1>1, <1>2, GotoKeeps, BecomesKeeps DEF Watching
<1>3. CASE Becomes([Goto(l, w, "shut") EXCEPT !.agent[w].target = Own(w),
                                              !.entry[Own(w)].state = IF l.cur = Own(w) THEN "error" ELSE @])
  <2> DEFINE x == Own(w)
             g == [l.agent[w] EXCEPT !.pc = "shut", !.target = x]
             e == [l.entry[x] EXCEPT !.state = IF l.cur = x THEN "error" ELSE @]
             n == Put(l, l.cur, w, g, x, e)
  <2>1. /\ w \in Agents /\ w \notin Stoppers /\ l \in Managers /\ l.agent[w] \in Goroutines
        /\ x \in Entries /\ l.entry[x] \in Streams /\ l.entry[x].pub /\ l.entry[x].state # "none"
        /\ l.agent[w].next = "idle" /\ l.agent[w].own = x
    BY <1>1, WatcherFits
  <2>2. [Goto(l, w, "shut") EXCEPT !.agent[w].target = x, !.entry[x].state = IF l.cur = x THEN "error" ELSE @] = n
    BY ZenonT(60), <2>1 DEF Goto, Put, Managers, Goroutines, Streams
  <2>3. g \in Goroutines /\ g.pc = "shut" /\ g.target = x /\ g.own = x /\ g.next = "idle"
    BY <2>1 DEF Goroutines, WorkerPlaces, Resources
  <2>4. /\ e \in Streams /\ e.state = (IF l.cur = x THEN "error" ELSE l.entry[x].state)
        /\ e.pub = l.entry[x].pub /\ e.cancelled = l.entry[x].cancelled /\ e.fan = l.entry[x].fan
        /\ e.run = l.entry[x].run /\ e.stops = l.entry[x].stops
    BY <2>1 DEF Streams, States
  <2> HIDE DEF x, g, e
  <2>5. n.cur = l.cur /\ n.agent[w] = g /\ n.entry[x] = e
    BY <2>1 DEF Put, Managers
  <2> HIDE DEF n
  <2>6. EntryGoes(l, n, x)
    BY <2>1, <2>4, <2>5 DEF EntryGoes
  <2>7. TargetFits(n, w)
    BY <2>1, <2>3, <2>4, <2>5 DEF TargetFits, Exists, Resources, ListenerAssumption
  <2>8. WorkerFits(n, w)
    BY <2>1, <2>3, <2>4, <2>5 DEF WorkerFits, Exists, Starts, WorkerPlaces, Resources, Watching, ListenerAssumption
  <2>9. l.agent[w].pc \notin {"detach", "reap", "shut"}
    BY <1>1
  <2>10. Good(n)
    BY <2>1, <2>3, <2>4, <2>6, <2>7, <2>8, <2>9, PutKeeps DEF n
  <2>. QED BY <1>3, <2>2, <2>10, BecomesKeeps DEF x
<1>. QED BY <1>2, <1>3 DEF Count

\* The monitor takes its entry out of the map and stops what it has.
LEMMA RemoveKeeps == ASSUME ListenerAssumption, Good(l), NEW w \in Workers, RemoveIfOwned(w) PROVE Good(l')
<1>1. l.agent[w].pc = "remove" /\ l.agent[w].pc \in Watching
  BY DEF RemoveIfOwned, At, Watching
<1>2. CASE Becomes(Quit(l, w))
  BY <1>1, <1>2, QuitKeeps, BecomesKeeps
<1>3. CASE Owns(Own(w)) /\ Becomes([Stopping(l, w, Own(w), "idle") EXCEPT !.cur = None])
  <2> DEFINE x == Own(w)
             g == [l.agent[w] EXCEPT !.pc = "detach", !.target = x, !.next = "idle"]
             e == l.entry[x]
             n == Put(l, None, w, g, x, e)
  <2>1. /\ w \in Agents /\ w \notin Stoppers /\ l \in Managers /\ l.agent[w] \in Goroutines
        /\ x \in Entries /\ e \in Streams /\ e.pub /\ e.state # "none" /\ l.agent[w].own = x /\ l.cur = x
    BY <1>1, <1>3, WatcherFits DEF Owns
  <2>2. [Stopping(l, w, x, "idle") EXCEPT !.cur = None] = n
    <3>1. l.entry = [l.entry EXCEPT ![x] = e] /\ l = [l EXCEPT !.entry = l.entry]
      BY <2>1 DEF Managers
    <3>2. n = [[l EXCEPT !.entry = [l.entry EXCEPT ![x] = e]] EXCEPT !.cur = None, !.agent[w] = g]
      BY <2>1 DEF Put, Managers
    <3>3. [Stopping(l, w, x, "idle") EXCEPT !.cur = None] = [l EXCEPT !.cur = None, !.agent[w] = g]
      BY ZenonT(60), <2>1 DEF Stopping, Managers, Goroutines
    <3>. QED BY <3>1, <3>2, <3>3
  <2>3. g \in Goroutines /\ g.pc = "detach" /\ g.target = x /\ g.own = x /\ g.next = "idle"
    BY <2>1 DEF Goroutines, WorkerPlaces, Resources
  <2> HIDE DEF x, g
  <2>5. n.cur = None /\ n.agent[w] = g /\ n.entry[x] = l.entry[x]
    BY <2>1 DEF Put, Managers
  <2> HIDE DEF n
  <2>6. EntryGoes(l, n, x)
    BY <2>5 DEF EntryGoes
  <2>7. TargetFits(n, w)
    BY <2>1, <2>3, <2>5 DEF TargetFits, Exists, Resources, ListenerAssumption
  <2>8. WorkerFits(n, w)
    BY <2>1, <2>3, <2>5 DEF WorkerFits, Exists, Starts, WorkerPlaces, Resources, Watching, ListenerAssumption
  <2>9. Told(n, x) /\ PortKept(n, x)
    BY <2>1, <2>3, <2>5 DEF Told, PortKept
  <2>10. Good(n)
    BY <1>1, <2>1, <2>3, <2>6, <2>7, <2>8, <2>9, PutKeeps DEF n
  <2>. QED BY <1>3, <2>2, <2>10, BecomesKeeps DEF x
<1>. QED BY <1>2, <1>3 DEF RemoveIfOwned

\* What a Stop has missed is released by the monitor that attached it.
LEMMA KeepKeeps == ASSUME ListenerAssumption, Good(l), NEW w \in Workers, Keep(w) PROVE Good(l')
<1>1. l.agent[w].pc = "owns" /\ l.agent[w].pc \in Watching
  BY DEF Keep, At, Watching
<1>2. CASE Becomes(Goto(l, w, "top"))
  BY SMTT(60), <1>1, <1>2, GotoKeeps, BecomesKeeps DEF Watching
<1>3. CASE Becomes([Goto(l, w, "release") EXCEPT
                     !.agent[w].mine = l.entry[Own(w)].run.attached,
                     !.entry[Own(w)].cancelled = @ \/ l.entry[Own(w)].run.attached,
                     !.entry[Own(w)].run = [@ EXCEPT !.attached = FALSE, !.open = FALSE]])
  <2> DEFINE x == Own(w)
             b == l.entry[x].run.attached
             d == [l.entry[x] EXCEPT !.cancelled = @ \/ b]
             r == [d.run EXCEPT !.attached = FALSE, !.open = FALSE]
             g == [l.agent[w] EXCEPT !.pc = "release", !.mine = b]
             e == [d EXCEPT !.run = r]
             n == Put(l, l.cur, w, g, x, e)
  <2>1. /\ w \in Agents /\ w \notin Stoppers /\ l \in Managers /\ l.agent[w] \in Goroutines
        /\ x \in Entries /\ l.entry[x] \in Streams /\ l.entry[x].pub /\ l.entry[x].state # "none"
        /\ l.agent[w].next = "idle" /\ l.agent[w].own = x /\ l.agent[w].target = None
    BY <1>1, WatcherFits
  <2>2. b \in BOOLEAN /\ d \in Streams /\ r \in Runs /\ r.proc = l.entry[x].run.proc
    BY <2>1 DEF Streams, Runs
  <2>3. [Goto(l, w, "release") EXCEPT !.agent[w].mine = b, !.entry[x].cancelled = @ \/ b,
                                      !.entry[x].run = [@ EXCEPT !.attached = FALSE, !.open = FALSE]] = n
    <3> HIDE DEF b
    <3>1. [Goto(l, w, "release") EXCEPT !.agent[w].mine = b, !.entry[x].cancelled = @ \/ b]
          = [l EXCEPT !.agent[w] = g, !.entry[x] = d]
      BY ZenonT(60), <2>1 DEF Goto, Managers
    <3> DEFINE u == [l EXCEPT !.agent[w] = g, !.entry[x] = d]
    <3>2. u.entry[x] = d /\ u = [l EXCEPT !.agent[w] = g, !.entry[x] = d]
      BY <2>1 DEF Managers
    <3>3. [u EXCEPT !.entry[x].run = [@ EXCEPT !.attached = FALSE, !.open = FALSE]] = [u EXCEPT !.entry[x] = e]
      <4> HIDE DEF d, u
      <4>. QED BY <3>2
    <3>4. [u EXCEPT !.entry[x] = e] = n
      <4> HIDE DEF d, e, g
      <4>. QED BY ZenonT(60), <2>1 DEF Put, Managers
    <3>5. [Goto(l, w, "release") EXCEPT !.agent[w].mine = b, !.entry[x].cancelled = @ \/ b,
                                        !.entry[x].run = [@ EXCEPT !.attached = FALSE, !.open = FALSE]]
          = [[Goto(l, w, "release") EXCEPT !.agent[w].mine = b, !.entry[x].cancelled = @ \/ b]
               EXCEPT !.entry[x].run = [@ EXCEPT !.attached = FALSE, !.open = FALSE]]
      BY ZenonT(60)
    <3> HIDE DEF d, e, g, x
    <3>. QED BY <3>1, <3>3, <3>4, <3>5
  <2> HIDE DEF b, r
  <2>4. g \in Goroutines /\ g.pc = "release" /\ g.target = None /\ g.own = x /\ g.next = "idle"
    BY ZenonT(60), <2>1, <2>2 DEF Goroutines, WorkerPlaces, Watching
  <2>5. /\ e \in Streams /\ e.state = l.entry[x].state /\ (l.entry[x].cancelled => e.cancelled)
        /\ e.pub = l.entry[x].pub /\ e.fan = l.entry[x].fan /\ e.run = r /\ e.stops = l.entry[x].stops
    BY <2>1, <2>2 DEF Streams
  <2> HIDE DEF x, g, e, d
  <2>6. n.cur = l.cur /\ n.agent[w] = g /\ n.entry[x] = e
    BY <2>1 DEF Put, Managers
  <2> HIDE DEF n
  <2>7. EntryGoes(l, n, x)
    BY <2>1, <2>2, <2>5, <2>6 DEF EntryGoes
  <2>8. TargetFits(n, w)
    BY <2>1, <2>4, <2>5, <2>6 DEF TargetFits, Exists, Resources
  <2>9. WorkerFits(n, w)
    BY <2>1, <2>4, <2>5, <2>6 DEF WorkerFits, Exists, Starts, WorkerPlaces, Watching, ListenerAssumption
  <2>10. Good(n)
    BY <1>1, <2>1, <2>4, <2>5, <2>7, <2>8, <2>9, PutKeeps DEF n
  <2>. QED BY <1>3, <2>3, <2>10, BecomesKeeps DEF x, b
<1>. QED BY <1>2, <1>3 DEF Keep

-------------------------------------------------------------------------------
(* stopStreamResources                                                     *)

\* A goroutine that stops the resources of an entry has one.
LEMMA CloserFits ==
  ASSUME Good(l), NEW a \in Agents, l.agent[a].pc \in Resources
  PROVE  /\ l \in Managers /\ l.agent[a] \in Goroutines /\ Target(a) \in Entries /\ l.agent[a].target = Target(a)
         /\ l.entry[Target(a)] \in Streams /\ l.entry[Target(a)].state # "none"
         /\ a \in Workers => WorkerFits(l, a)
         /\ a \in Stoppers => StopperFits(l, a) /\ (a = All => Over(l))
         /\ TargetFits(l, a)
<1>1. l \in Managers /\ l.agent[a] \in Goroutines /\ TargetFits(l, a)
  BY GoodParts
<1>2. Target(a) \in Entries /\ l.entry[Target(a)].state # "none"
  <2>1. Target(a) \in Entries \cup {None}
    BY <1>1 DEF Target, Goroutines
  <2>. QED BY <1>1, <2>1 DEF TargetFits, Target, Exists
<1>. QED BY <1>1, <1>2, GoodParts DEF Target

\* The context is cancelled, the run detached.
LEMMA DetachKeeps == ASSUME ListenerAssumption, Good(l), NEW a \in Agents, Detach(a) PROVE Good(l')
<1> DEFINE x == Target(a)
           mine == l.entry[x].run.attached /\ (l.entry[x].pub \/ Own(a) = x)
           d == [l.entry[x] EXCEPT !.cancelled = TRUE]
           r == IF mine THEN [d.run EXCEPT !.attached = FALSE, !.open = FALSE] ELSE d.run
           e == [d EXCEPT !.run = r]
           g == [l.agent[a] EXCEPT !.pc = "reap", !.mine = mine]
           n == Put(l, l.cur, a, g, x, e)
<1>1. l.agent[a].pc = "detach"
  BY DEF Detach, At
<1>2. /\ l \in Managers /\ l.agent[a] \in Goroutines /\ x \in Entries /\ l.agent[a].target = x
      /\ l.entry[x] \in Streams /\ l.entry[x].state # "none"
      /\ a \in Workers => WorkerFits(l, a)
      /\ a \in Stoppers => StopperFits(l, a) /\ (a = All => Over(l))
      /\ TargetFits(l, a)
  BY <1>1, CloserFits DEF Resources
<1>3. mine \in BOOLEAN /\ d \in Streams /\ r \in Runs /\ r.proc = l.entry[x].run.proc
  BY <1>2 DEF Streams, Runs
<1>4. Becomes([Goto(l, a, "reap") EXCEPT !.agent[a].mine = mine, !.entry[x].cancelled = TRUE,
                 !.entry[x].run = IF mine THEN [@ EXCEPT !.attached = FALSE, !.open = FALSE] ELSE @])
  BY DEF Detach
<1>5. [Goto(l, a, "reap") EXCEPT !.agent[a].mine = mine, !.entry[x].cancelled = TRUE,
                 !.entry[x].run = IF mine THEN [@ EXCEPT !.attached = FALSE, !.open = FALSE] ELSE @] = n
  <2> HIDE DEF mine
  <2> DEFINE t == [Goto(l, a, "reap") EXCEPT !.agent[a].mine = mine, !.entry[x].cancelled = TRUE]
             u == [l EXCEPT !.agent[a] = g, !.entry[x] = d]
  <2>1. t = u
    BY ZenonT(60), <1>2 DEF Goto, Managers
  <2>2. u.entry[x] = d
    BY <1>2 DEF Managers
  <2>3. [u EXCEPT !.entry[x].run = IF mine THEN [@ EXCEPT !.attached = FALSE, !.open = FALSE] ELSE @] = [u EXCEPT !.entry[x] = e]
    <3> HIDE DEF d, u
    <3>. QED BY <2>2
  <2>4. [u EXCEPT !.entry[x] = e] = n
    <3> HIDE DEF d, e, g
    <3>. QED BY ZenonT(60), <1>2 DEF Put, Managers
  <2>5. [Goto(l, a, "reap") EXCEPT !.agent[a].mine = mine, !.entry[x].cancelled = TRUE,
                 !.entry[x].run = IF mine THEN [@ EXCEPT !.attached = FALSE, !.open = FALSE] ELSE @]
        = [t EXCEPT !.entry[x].run = IF mine THEN [@ EXCEPT !.attached = FALSE, !.open = FALSE] ELSE @]
    BY ZenonT(60)
  <2> HIDE DEF t, u, n
  <2>6. [t EXCEPT !.entry[x].run = IF mine THEN [@ EXCEPT !.attached = FALSE, !.open = FALSE] ELSE @]
        = [u EXCEPT !.entry[x].run = IF mine THEN [@ EXCEPT !.attached = FALSE, !.open = FALSE] ELSE @]
    BY ONLY <2>1
  <2>. QED BY <2>3, <2>4, <2>5, <2>6
<1> HIDE DEF mine, r
<1>6. g \in Goroutines /\ g.pc = "reap" /\ g.target = x /\ g.own = l.agent[a].own /\ g.next = l.agent[a].next
  BY <1>2, <1>3 DEF Goroutines, WorkerPlaces, Resources
<1>7. /\ e \in Streams /\ e.state = l.entry[x].state /\ e.cancelled
      /\ e.pub = l.entry[x].pub /\ e.fan = l.entry[x].fan /\ e.run = r /\ e.stops = l.entry[x].stops
  BY <1>2, <1>3 DEF Streams
<1> HIDE DEF x, g, e, d
<1>8. n.cur = l.cur /\ n.agent[a] = g /\ n.entry[x] = e /\ n.enc = l.enc
      /\ \A y \in Entries \ {x} : n.entry[y] = l.entry[y]
  BY <1>2, <1>6, <1>7 DEF Put, Managers
<1> HIDE DEF n
<1>9. EntryGoes(l, n, x)
  BY <1>3, <1>7, <1>8 DEF EntryGoes
<1>10. TargetFits(n, a)
  BY <1>1, <1>2, <1>6, <1>7, <1>8 DEF TargetFits, Exists, Resources
<1>11. \A y \in Entries : /\ n.entry[y].state = l.entry[y].state /\ n.entry[y].pub = l.entry[y].pub
                          /\ n.entry[y].run.proc = l.entry[y].run.proc /\ n.entry[y].fan = l.entry[y].fan
                          /\ l.entry[y].cancelled => n.entry[y].cancelled
  BY ZenonT(60), <1>3, <1>7, <1>8
<1>12. a \in Workers => WorkerFits(n, a)
  <2>1. g.own \in Entries \cup {None}
    BY <1>6 DEF Goroutines
  <2>. QED BY SMTT(60), <1>1, <1>2, <1>6, <1>8, <1>11, <2>1 DEF WorkerFits, Exists, Starts, WorkerPlaces, Resources, Watching
<1>13. a \in Stoppers => StopperFits(n, a) /\ (a = All => Over(n))
  <2>1. l.cur \in Entries \cup {None}
    BY SMTT(60), GoodParts
  <2>. QED BY <1>1, <1>2, <1>6, <1>7, <1>8, <1>11, <2>1 DEF StopperFits, Over, StopperPlaces, Resources
<1>14. g.next \in {"bind", "unclaim"} => Starts(l, a) /\ g.own = l.agent[a].own
  <2>1. g.next = "bind" \/ g.next = "unclaim" => a \in Workers
    BY <1>1, <1>2, <1>6 DEF StopperFits, Resources, Agents
  <2>. QED BY <1>2, <1>6, <2>1 DEF WorkerFits, Starts
<1>15. Good(n)
  BY <1>1, <1>2, <1>6, <1>7, <1>9, <1>10, <1>12, <1>13, <1>14, PutKeeps DEF n
<1>. QED BY <1>4, <1>5, <1>15, BecomesKeeps DEF x

\* The run is over.
LEMMA ReapKeeps == ASSUME ListenerAssumption, Good(l), NEW a \in Agents, Reap(a) PROVE Good(l')
<1> DEFINE g == [l.agent[a] EXCEPT !.pc = "shut"]
           n == [l EXCEPT !.agent[a] = g]
<1>1. l.agent[a].pc = "reap" /\ Becomes(Goto(l, a, "shut"))
  BY DEF Reap, At
<1>2. /\ l \in Managers /\ l.agent[a] \in Goroutines
      /\ a \in Workers => WorkerFits(l, a)
      /\ a \in Stoppers => StopperFits(l, a) /\ (a = All => Over(l))
      /\ TargetFits(l, a)
  BY <1>1, CloserFits DEF Resources
<1>3. Goto(l, a, "shut") = n
  BY <1>2 DEF Goto, Managers
<1>4. g \in Goroutines /\ g.pc = "shut" /\ g.target = l.agent[a].target /\ g.own = l.agent[a].own /\ g.next = l.agent[a].next
  BY <1>2 DEF Goroutines, WorkerPlaces, Resources
<1> HIDE DEF g
<1>5. n.cur = l.cur /\ n.agent[a] = g /\ n.entry = l.entry /\ n.enc = l.enc
  BY <1>2 DEF Managers
<1> HIDE DEF n
<1>6. TargetFits(n, a)
  BY <1>1, <1>2, <1>4, <1>5 DEF TargetFits, Exists, Resources
<1>7. a \in Workers => WorkerFits(n, a)
  BY <1>1, <1>2, <1>4, <1>5 DEF WorkerFits, Exists, Starts, WorkerPlaces, Resources, Watching
<1>8. a \in Stoppers => StopperFits(n, a) /\ (a = All => Over(n))
  BY <1>1, <1>2, <1>4, <1>5 DEF StopperFits, Over, StopperPlaces, Resources
<1>9. g.own # None /\ g.next \in {"bind", "unclaim"} => Starts(l, a)
  BY <1>4 DEF Starts
<1>10. Good(n)
  BY <1>1, <1>4, <1>6, <1>7, <1>8, <1>9, AgentMoves DEF n
<1>. QED BY <1>1, <1>3, <1>10, BecomesKeeps

\* The port is being closed.
LEMMA ShutKeeps == ASSUME ListenerAssumption, Good(l), NEW a \in Agents, Shut(a) PROVE Good(l')
<1> DEFINE x == Target(a)
           e == [l.entry[x] EXCEPT !.fan = IF @ = "bound" THEN "closing" ELSE @]
           g == [l.agent[a] EXCEPT !.pc = "drain"]
           n == Put(l, l.cur, a, g, x, e)
<1>1. l.agent[a].pc = "shut"
  BY DEF Shut, At
<1>2. /\ l \in Managers /\ l.agent[a] \in Goroutines /\ x \in Entries /\ l.agent[a].target = x
      /\ l.entry[x] \in Streams /\ l.entry[x].state # "none"
      /\ a \in Workers => WorkerFits(l, a)
      /\ a \in Stoppers => StopperFits(l, a) /\ (a = All => Over(l))
      /\ TargetFits(l, a)
  BY <1>1, CloserFits DEF Resources
<1>3. Becomes([Goto(l, a, "drain") EXCEPT !.entry[x].fan = IF @ = "bound" THEN "closing" ELSE @])
  BY DEF Shut
<1>4. [Goto(l, a, "drain") EXCEPT !.entry[x].fan = IF @ = "bound" THEN "closing" ELSE @] = n
  BY <1>2 DEF Goto, Put, Managers, Streams
<1>5. g \in Goroutines /\ g.pc = "drain" /\ g.target = x /\ g.own = l.agent[a].own /\ g.next = l.agent[a].next
  BY <1>2 DEF Goroutines, WorkerPlaces, Resources
<1>6. /\ e \in Streams /\ e.state = l.entry[x].state /\ e.cancelled = l.entry[x].cancelled
      /\ e.pub = l.entry[x].pub /\ e.run = l.entry[x].run /\ e.stops = l.entry[x].stops
      /\ e.fan = (IF l.entry[x].fan = "bound" THEN "closing" ELSE l.entry[x].fan)
  BY <1>2 DEF Streams
<1> HIDE DEF x, g, e
<1>7. n.cur = l.cur /\ n.agent[a] = g /\ n.entry[x] = e /\ n.enc = l.enc
      /\ \A y \in Entries \ {x} : n.entry[y] = l.entry[y]
  BY <1>2 DEF Put, Managers
<1> HIDE DEF n
<1>8. EntryGoes(l, n, x)
  BY <1>6, <1>7 DEF EntryGoes
<1>9. TargetFits(n, a)
  BY <1>1, <1>2, <1>5, <1>6, <1>7 DEF TargetFits, Exists, Resources
<1>10. \A y \in Entries : /\ n.entry[y].state = l.entry[y].state /\ n.entry[y].pub = l.entry[y].pub
                          /\ n.entry[y].run = l.entry[y].run /\ n.entry[y].cancelled = l.entry[y].cancelled
                          /\ l.entry[y].fan = "none" => n.entry[y].fan = "none"
  BY ZenonT(60), <1>6, <1>7
<1>11. a \in Workers => WorkerFits(n, a)
  <2>1. g.own \in Entries \cup {None}
    BY <1>5 DEF Goroutines
  <2>. QED BY SMTT(60), <1>1, <1>2, <1>5, <1>7, <1>10, <2>1 DEF WorkerFits, Exists, Starts, WorkerPlaces, Resources, Watching
<1>12. a \in Stoppers => StopperFits(n, a) /\ (a = All => Over(n))
  <2>1. l.cur \in Entries \cup {None}
    BY GoodParts
  <2>. QED BY <1>1, <1>2, <1>5, <1>6, <1>7, <1>10, <2>1 DEF StopperFits, Over, StopperPlaces, Resources
<1>13. g.next \in {"bind", "unclaim"} => Starts(l, a) /\ g.own = l.agent[a].own
  <2>1. g.next = "bind" \/ g.next = "unclaim" => a \in Workers
    BY <1>1, <1>2, <1>5 DEF StopperFits, Resources, Agents
  <2>. QED BY <1>2, <1>5, <2>1 DEF WorkerFits, Starts
<1>14. Good(n)
  BY <1>1, <1>2, <1>5, <1>6, <1>8, <1>9, <1>11, <1>12, <1>13, PutKeeps DEF n
<1>. QED BY <1>3, <1>4, <1>14, BecomesKeeps DEF x

\* The port is free; the goroutine goes on with what it stopped the entry for.
LEMMA DrainKeeps == ASSUME ListenerAssumption, Good(l), NEW a \in Agents, Drain(a) PROVE Good(l')
<1> DEFINE c == l.agent[a]
           on == [c EXCEPT !.pc = c.next, !.next = "idle", !.mine = FALSE,
                           !.target = IF c.next = "emit" THEN c.target ELSE None]
           g == IF c.next = "idle" THEN Idle ELSE on
           n == [l EXCEPT !.agent[a] = g]
<1>1. c.pc = "drain" /\ l.entry[c.target].fan \in {"none", "closed"} /\ Becomes(n)
  BY DEF Drain, At, Target
<1>2. /\ l \in Managers /\ c \in Goroutines /\ c.target \in Entries
      /\ a \in Workers => WorkerFits(l, a)
      /\ a \in Stoppers => StopperFits(l, a) /\ (a = All => Over(l))
      /\ TargetFits(l, a)
  BY <1>1, CloserFits DEF Resources
<1>3. a \in Workers \/ c.next = "emit"
  BY <1>1, <1>2 DEF StopperFits, Resources, Agents
<1>4. a \in Workers => c.next # "emit" /\ a \notin Stoppers
  BY <1>2 DEF WorkerFits, ListenerAssumption
<1>5. on \in Goroutines /\ on.pc = c.next /\ on.next = "idle" /\ on.own = c.own
      /\ on.target = (IF c.next = "emit" THEN c.target ELSE None)
  BY ZenonT(60), <1>2 DEF Goroutines, WorkerPlaces, StopperPlaces
<1>6. /\ g \in Goroutines /\ g.next = "idle" /\ g.pc = c.next /\ g.pc \in {"idle", "bind", "unclaim", "emit"}
      /\ g.own = (IF c.next = "idle" THEN None ELSE c.own)
      /\ g.target = (IF c.next = "emit" THEN c.target ELSE None)
  <2>1. c.next \in {"idle", "bind", "unclaim", "emit"}
    BY <1>2 DEF Goroutines
  <2> HIDE DEF on
  <2>. QED BY <1>5, <2>1, IdleTyped
<1> HIDE DEF on, g
<1>7. n.cur = l.cur /\ n.agent[a] = g /\ n.entry = l.entry /\ n.enc = l.enc
  BY <1>2 DEF Managers
<1>8. Becomes(n)
  BY <1>1
<1> HIDE DEF n
<1>9. TargetFits(n, a)
  BY <1>1, <1>2, <1>6, <1>7 DEF TargetFits, Exists, Resources, ListenerAssumption
<1>10. a \in Workers => WorkerFits(n, a)
  BY <1>1, <1>2, <1>4, <1>6, <1>7 DEF WorkerFits, Exists, Starts, WorkerPlaces, Resources, Watching
<1>11. a \in Stoppers => StopperFits(n, a) /\ (a = All => Over(n))
  BY <1>1, <1>2, <1>3, <1>4, <1>6, <1>7 DEF StopperFits, Over, StopperPlaces, Resources
<1>12. g.own # None /\ g.pc \in {"bind", "unclaim"} => Starts(l, a) /\ g.own = c.own
  BY SMTT(60), <1>6 DEF Starts
<1>13. Good(n)
  BY <1>1, <1>6, <1>9, <1>10, <1>11, <1>12, AgentMoves DEF n
<1>. QED BY <1>8, <1>13, BecomesKeeps

-------------------------------------------------------------------------------
(* Steps that renew an entry                                               *)

\* The managed stream, while it runs and StopAll has not begun, is stopped by nobody, so
\* that its context may be replaced by a new one.
LEMMA UncancelKeeps ==
  ASSUME ListenerAssumption, NEW v, Good(v), v.cur # None, v.entry[v.cur].state = "running", v.enc # "stopping"
  PROVE  Good([v EXCEPT !.entry[v.cur] = [v.entry[v.cur] EXCEPT !.cancelled = FALSE]])
<1> DEFINE x == v.cur
           e == [v.entry[x] EXCEPT !.cancelled = FALSE]
           n == [v EXCEPT !.entry[x] = e]
<1>1. v \in Managers /\ x \in Entries /\ v.entry[x] \in Streams /\ None \notin Entries
  BY GoodParts DEF ListenerAssumption
<1>2. /\ e \in Streams /\ e.state = v.entry[x].state /\ e.pub = v.entry[x].pub /\ e.fan = v.entry[x].fan
      /\ e.run = v.entry[x].run /\ e.stops = v.entry[x].stops
  BY <1>1 DEF Streams
<1> HIDE DEF e
<1>3. /\ n \in Managers /\ n.cur = x /\ n.agent = v.agent /\ n.enc = v.enc /\ n.entry[x] = e
      /\ \A y \in Entries \ {x} : n.entry[y] = v.entry[y]
  BY <1>1, <1>2 DEF Managers
<1> HIDE DEF n
<1>4. \A y \in Entries : /\ n.entry[y].state = v.entry[y].state /\ n.entry[y].pub = v.entry[y].pub
                         /\ n.entry[y].fan = v.entry[y].fan /\ n.entry[y].run = v.entry[y].run
                         /\ n.entry[y].stops = v.entry[y].stops
  BY <1>2, <1>3
<1>5. \A a \in Agents : v.agent[a].own \in Entries \cup {None} /\ v.agent[a].target \in Entries \cup {None}
  BY GoodParts DEF Goroutines
<1>6. Exists(n, n.cur) /\ OneStarts(n)
  BY <1>1, <1>3, <1>4, GoodParts DEF Exists, OneStarts, Starts
<1>7. Over(n)
  BY SMTT(60), <1>1, <1>3, GoodParts DEF Over
<1>8. ASSUME NEW a \in Agents PROVE TargetFits(n, a)
  <2>1. TargetFits(v, a) /\ n.agent[a] = v.agent[a]
    BY <1>3, GoodParts
  <2>2. v.agent[a].target # None => n.entry[v.agent[a].target].state = v.entry[v.agent[a].target].state
                                    /\ n.entry[v.agent[a].target].fan = v.entry[v.agent[a].target].fan
    BY SMTT(60), <1>4, <1>5
  <2>. QED BY <1>3, <2>1, <2>2 DEF TargetFits, Exists, Resources
<1>9. ASSUME NEW w \in Workers PROVE WorkerFits(n, w)
  <2>1. WorkerFits(v, w) /\ n.agent[w] = v.agent[w] /\ w \in Agents
    BY <1>3, GoodParts
  <2>2. Alike(v, n, v.agent[w].own)
    BY <1>3, <1>4, <1>5, <2>1 DEF Alike
  <2>. QED BY <2>1, <2>2, SameWorker
<1>10. ASSUME NEW s \in Stoppers PROVE StopperFits(n, s)
  <2>1. StopperFits(v, s) /\ TargetFits(v, s) /\ n.agent[s] = v.agent[s] /\ s \in Agents
    BY <1>3, GoodParts
  <2>2. v.agent[s].target # x
    BY <1>1, <2>1 DEF StopperFits, TargetFits
  <2>. QED BY <1>3, <1>5, <2>1, <2>2 DEF StopperFits
<1>11. ASSUME NEW y \in Entries PROVE EntryFits(n, y) /\ (Adrift(n, y) => Told(n, y)) /\ PortKept(n, y)
  <2>1. EntryFits(v, y) /\ (Adrift(v, y) => Told(v, y)) /\ PortKept(v, y)
    BY GoodParts
  <2>2. EntryFits(n, y)
    BY <1>2, <1>3, <2>1 DEF EntryFits
  <2>3. Adrift(n, y) => Adrift(v, y)
    BY <1>3, <1>4 DEF Adrift
  <2>. QED BY <1>3, <1>4, <2>1, <2>2, <2>3 DEF Told, PortKept
<1>12. Good(n)
  BY <1>3, <1>6, <1>7, <1>8, <1>9, <1>10, <1>11 DEF Good
<1>. QED BY <1>12 DEF n, e

\* A process may begin where nobody needs it gone, for the managed entry, for a cancelled
\* one, or before somebody is about to tell it to end.
LEMMA RunBegins ==
  ASSUME ListenerAssumption, NEW v, Good(v), NEW x \in Entries, NEW r \in Runs,
         v.cur = x \/ v.entry[x].cancelled \/ Told(v, x),
         \A w \in Workers : v.agent[w].own = x =>
           v.agent[w].pc \notin {"bind", "exec", "unclaim"} /\ v.agent[w].next \notin {"bind", "unclaim"}
  PROVE  Good([v EXCEPT !.entry[x] = [v.entry[x] EXCEPT !.run = r]])
<1> DEFINE e == [v.entry[x] EXCEPT !.run = r]
           n == [v EXCEPT !.entry[x] = e]
<1>1. v \in Managers /\ v.entry[x] \in Streams /\ None \notin Entries /\ v.cur \in Entries \cup {None}
  BY GoodParts DEF ListenerAssumption
<1>2. /\ e \in Streams /\ e.state = v.entry[x].state /\ e.pub = v.entry[x].pub /\ e.fan = v.entry[x].fan
      /\ e.cancelled = v.entry[x].cancelled /\ e.stops = v.entry[x].stops
  BY <1>1 DEF Streams
<1> HIDE DEF e
<1>3. /\ n \in Managers /\ n.cur = v.cur /\ n.agent = v.agent /\ n.enc = v.enc /\ n.entry[x] = e
      /\ \A y \in Entries \ {x} : n.entry[y] = v.entry[y]
  BY <1>1, <1>2 DEF Managers
<1> HIDE DEF n
<1>4. \A y \in Entries : /\ n.entry[y].state = v.entry[y].state /\ n.entry[y].pub = v.entry[y].pub
                         /\ n.entry[y].fan = v.entry[y].fan /\ n.entry[y].cancelled = v.entry[y].cancelled
                         /\ n.entry[y].stops = v.entry[y].stops
  BY <1>2, <1>3
<1>5. \A a \in Agents : v.agent[a].own \in Entries \cup {None} /\ v.agent[a].target \in Entries \cup {None}
  BY GoodParts DEF Goroutines
<1>6. Exists(n, n.cur) /\ OneStarts(n) /\ Over(n)
  BY SMTT(60), <1>1, <1>3, <1>4, GoodParts DEF Exists, OneStarts, Starts, Over
<1>7. ASSUME NEW a \in Agents PROVE TargetFits(n, a)
  <2>1. TargetFits(v, a) /\ n.agent[a] = v.agent[a]
    BY <1>3, GoodParts
  <2>2. v.agent[a].target # None => n.entry[v.agent[a].target].state = v.entry[v.agent[a].target].state
                                    /\ n.entry[v.agent[a].target].fan = v.entry[v.agent[a].target].fan
    BY SMTT(60), <1>4, <1>5
  <2>. QED BY <1>3, <2>1, <2>2 DEF TargetFits, Exists, Resources
<1>8. ASSUME NEW w \in Workers PROVE WorkerFits(n, w)
  <2>1. WorkerFits(v, w) /\ n.agent[w] = v.agent[w] /\ w \in Agents
    BY <1>3, GoodParts
  <2>2. CASE v.agent[w].own # x
    <3>1. v.agent[w].own # None => n.entry[v.agent[w].own] = v.entry[v.agent[w].own]
      BY <1>3, <1>5, <2>1, <2>2
    <3>2. Alike(v, n, v.agent[w].own)
      BY <1>3, <3>1 DEF Alike
    <3>. QED BY <2>1, <3>2, SameWorker
  <2>3. CASE v.agent[w].own = x
    BY <1>1, <1>2, <1>3, <2>1, <2>3 DEF WorkerFits, Exists, Starts
  <2>. QED BY <2>2, <2>3
<1>9. ASSUME NEW s \in Stoppers PROVE StopperFits(n, s)
  <2>1. StopperFits(v, s) /\ n.agent[s] = v.agent[s] /\ s \in Agents
    BY <1>3, GoodParts
  <2>. QED BY <1>4, <1>5, <2>1 DEF StopperFits
<1>10. ASSUME NEW y \in Entries PROVE EntryFits(n, y) /\ (Adrift(n, y) => Told(n, y)) /\ PortKept(n, y)
  <2>1. EntryFits(v, y) /\ (Adrift(v, y) => Told(v, y)) /\ PortKept(v, y)
    BY GoodParts
  <2>2. EntryFits(n, y) /\ PortKept(n, y)
    BY <1>3, <1>4, <2>1 DEF EntryFits, PortKept
  <2>3. Adrift(n, y) => Told(v, y)
    BY <1>3, <1>4, <2>1 DEF Adrift
  <2>. QED BY <1>3, <2>2, <2>3 DEF Told
<1>11. Good(n)
  BY <1>3, <1>6, <1>7, <1>8, <1>9, <1>10 DEF Good
<1>. QED BY <1>11 DEF n, e

\* A port is bound for the managed stream while it starts and nobody stops it.
LEMMA PortBegins ==
  ASSUME ListenerAssumption, NEW v, Good(v), NEW x \in Entries, v.cur = x, v.entry[x].state = "starting",
         \A a \in Agents : v.agent[a].target # x,
         \A w \in Workers : v.agent[w].own = x =>
           v.agent[w].pc \notin {"bind", "unclaim"} /\ v.agent[w].next \notin {"bind", "unclaim"}
  PROVE  Good([v EXCEPT !.entry[x] = [v.entry[x] EXCEPT !.fan = "bound"]])
<1> DEFINE e == [v.entry[x] EXCEPT !.fan = "bound"]
           n == [v EXCEPT !.entry[x] = e]
<1>1. v \in Managers /\ v.entry[x] \in Streams /\ None \notin Entries
  BY GoodParts DEF ListenerAssumption
<1>2. /\ e \in Streams /\ e.state = v.entry[x].state /\ e.pub = v.entry[x].pub /\ e.run = v.entry[x].run
      /\ e.cancelled = v.entry[x].cancelled /\ e.stops = v.entry[x].stops
  BY <1>1 DEF Streams
<1> HIDE DEF e
<1>3. /\ n \in Managers /\ n.cur = v.cur /\ n.agent = v.agent /\ n.enc = v.enc /\ n.entry[x] = e
      /\ \A y \in Entries \ {x} : n.entry[y] = v.entry[y]
  BY <1>1, <1>2 DEF Managers
<1> HIDE DEF n
<1>4. \A y \in Entries : /\ n.entry[y].state = v.entry[y].state /\ n.entry[y].pub = v.entry[y].pub
                         /\ n.entry[y].run = v.entry[y].run /\ n.entry[y].cancelled = v.entry[y].cancelled
                         /\ n.entry[y].stops = v.entry[y].stops
  BY <1>2, <1>3
<1>5. \A a \in Agents : v.agent[a].own \in Entries \cup {None} /\ v.agent[a].target \in Entries \cup {None}
  BY GoodParts DEF Goroutines
<1>6. Exists(n, n.cur) /\ OneStarts(n) /\ Over(n)
  BY SMTT(60), <1>1, <1>3, <1>4, GoodParts DEF Exists, OneStarts, Starts, Over
<1>7. ASSUME NEW a \in Agents PROVE TargetFits(n, a)
  <2>1. TargetFits(v, a) /\ n.agent[a] = v.agent[a] /\ v.agent[a].target # x
    BY <1>3, GoodParts
  <2>2. v.agent[a].target # None => n.entry[v.agent[a].target] = v.entry[v.agent[a].target]
    BY SMTT(60), <1>3, <1>5, <2>1
  <2>. QED BY <1>3, <2>1, <2>2 DEF TargetFits, Exists, Resources
<1>8. ASSUME NEW w \in Workers PROVE WorkerFits(n, w)
  <2>1. WorkerFits(v, w) /\ n.agent[w] = v.agent[w] /\ w \in Agents
    BY <1>3, GoodParts
  <2>2. CASE v.agent[w].own # x
    <3>1. v.agent[w].own # None => n.entry[v.agent[w].own] = v.entry[v.agent[w].own]
      BY <1>3, <1>5, <2>1, <2>2
    <3>2. Alike(v, n, v.agent[w].own)
      BY <1>3, <3>1 DEF Alike
    <3>. QED BY <2>1, <3>2, SameWorker
  <2>3. CASE v.agent[w].own = x
    BY <1>1, <1>2, <1>3, <2>1, <2>3 DEF WorkerFits, Exists, Starts
  <2>. QED BY <2>2, <2>3
<1>9. ASSUME NEW s \in Stoppers PROVE StopperFits(n, s)
  <2>1. StopperFits(v, s) /\ n.agent[s] = v.agent[s] /\ s \in Agents
    BY <1>3, GoodParts
  <2>. QED BY <1>4, <1>5, <2>1 DEF StopperFits
<1>10. ASSUME NEW y \in Entries PROVE EntryFits(n, y) /\ (Adrift(n, y) => Told(n, y)) /\ PortKept(n, y)
  <2>1. EntryFits(v, y) /\ (Adrift(v, y) => Told(v, y)) /\ PortKept(v, y)
    BY GoodParts
  <2>2. EntryFits(n, y) /\ PortKept(n, y)
    BY <1>3, <1>4, <2>1 DEF EntryFits, PortKept
  <2>3. Adrift(n, y) => Adrift(v, y)
    BY <1>3, <1>4 DEF Adrift
  <2>. QED BY <1>3, <2>1, <2>2, <2>3 DEF Told
<1>11. Good(n)
  BY <1>3, <1>6, <1>7, <1>8, <1>9, <1>10 DEF Good
<1>. QED BY <1>11 DEF n, e

\* The managed stream is published as running when nobody has its placeholder any more.
LEMMA StreamBegins ==
  ASSUME ListenerAssumption, NEW v, Good(v), NEW x \in Entries, v.cur = x, v.entry[x].state = "starting",
         \A w \in Workers : ~(Starts(v, w) /\ v.agent[w].own = x)
  PROVE  Good([v EXCEPT !.entry[x] = [v.entry[x] EXCEPT !.pub = TRUE, !.state = "running"]])
<1> DEFINE e == [v.entry[x] EXCEPT !.pub = TRUE, !.state = "running"]
           n == [v EXCEPT !.entry[x] = e]
<1>1. v \in Managers /\ v.entry[x] \in Streams /\ None \notin Entries
  BY GoodParts DEF ListenerAssumption
<1>2. /\ e \in Streams /\ e.state = "running" /\ e.pub /\ e.run = v.entry[x].run /\ e.fan = v.entry[x].fan
      /\ e.cancelled = v.entry[x].cancelled /\ e.stops = v.entry[x].stops
  BY <1>1 DEF Streams, States
<1> HIDE DEF e
<1>3. /\ n \in Managers /\ n.cur = v.cur /\ n.agent = v.agent /\ n.enc = v.enc /\ n.entry[x] = e
      /\ \A y \in Entries \ {x} : n.entry[y] = v.entry[y]
  BY <1>1, <1>2 DEF Managers
<1> HIDE DEF n
<1>4. \A y \in Entries : /\ n.entry[y].fan = v.entry[y].fan
                         /\ n.entry[y].run = v.entry[y].run /\ n.entry[y].cancelled = v.entry[y].cancelled
                         /\ n.entry[y].stops = v.entry[y].stops
  BY ZenonT(60), <1>2, <1>3
<1>5. \A a \in Agents : v.agent[a].own \in Entries \cup {None} /\ v.agent[a].target \in Entries \cup {None}
  BY GoodParts DEF Goroutines
<1>6. Exists(n, n.cur) /\ OneStarts(n) /\ Over(n)
  BY SMTT(60), <1>1, <1>2, <1>3, <1>4, GoodParts DEF Exists, OneStarts, Starts, Over
<1>7. ASSUME NEW a \in Agents PROVE TargetFits(n, a)
  <2>1. TargetFits(v, a) /\ n.agent[a] = v.agent[a]
    BY <1>3, GoodParts
  <2>2. /\ v.agent[a].target # None => n.entry[v.agent[a].target].fan = v.entry[v.agent[a].target].fan
        /\ v.agent[a].target # None /\ v.agent[a].target # x => n.entry[v.agent[a].target] = v.entry[v.agent[a].target]
    BY SMTT(60), <1>3, <1>4, <1>5
  <2>. QED BY <1>2, <1>3, <2>1, <2>2 DEF TargetFits, Exists, Resources
<1>8. ASSUME NEW w \in Workers PROVE WorkerFits(n, w)
  <2>1. WorkerFits(v, w) /\ n.agent[w] = v.agent[w] /\ w \in Agents
    BY <1>3, GoodParts
  <2>2. CASE v.agent[w].own # x
    <3>1. v.agent[w].own # None => n.entry[v.agent[w].own] = v.entry[v.agent[w].own]
      BY <1>3, <1>5, <2>1, <2>2
    <3>2. Alike(v, n, v.agent[w].own)
      BY <1>3, <3>1 DEF Alike
    <3>. QED BY <2>1, <3>2, SameWorker
  <2>3. CASE v.agent[w].own = x
    BY <1>1, <1>2, <1>3, <2>1, <2>3 DEF WorkerFits, Exists, Starts
  <2>. QED BY <2>2, <2>3
<1>9. ASSUME NEW s \in Stoppers PROVE StopperFits(n, s)
  <2>1. StopperFits(v, s) /\ n.agent[s] = v.agent[s] /\ s \in Agents
    BY <1>3, GoodParts
  <2>. QED BY <1>4, <1>5, <2>1 DEF StopperFits
<1>10. ASSUME NEW y \in Entries PROVE EntryFits(n, y) /\ (Adrift(n, y) => Told(n, y)) /\ PortKept(n, y)
  <2>1. EntryFits(v, y) /\ (Adrift(v, y) => Told(v, y)) /\ PortKept(v, y)
    BY GoodParts
  <2>2. EntryFits(n, y) /\ PortKept(n, y)
    BY <1>2, <1>3, <1>4, <2>1 DEF EntryFits, PortKept
  <2>3. Adrift(n, y) => Adrift(v, y)
    BY <1>3, <1>4 DEF Adrift
  <2>. QED BY <1>3, <2>1, <2>2, <2>3 DEF Told
<1>11. Good(n)
  BY <1>3, <1>6, <1>7, <1>8, <1>9, <1>10 DEF Good
<1>. QED BY <1>11 DEF n, e

-------------------------------------------------------------------------------
(* The restart of the encoder                                              *)

\* A monitor goes to the start of a process, when its entry is the managed one.
LEMMA ToRestart ==
  ASSUME ListenerAssumption, NEW v, Good(v), NEW w \in Workers, v.agent[w].pc \in Watching, v.agent[w].own = v.cur
  PROVE  Good([v EXCEPT !.agent[w] = [v.agent[w] EXCEPT !.pc = "restart"]])
<1> DEFINE g == [v.agent[w] EXCEPT !.pc = "restart"]
           n == [v EXCEPT !.agent[w] = g]
<1>1. v \in Managers /\ w \in Agents /\ w \notin Stoppers /\ v.agent[w] \in Goroutines
  BY GoodParts DEF ListenerAssumption
<1>2. TargetFits(v, w) /\ WorkerFits(v, w) /\ v.agent[w].pc \notin Resources
  BY GoodParts DEF Watching, Resources
<1>3. v.agent[w].next = "idle" /\ v.agent[w].own # None /\ v.agent[w].target = None /\ v.entry[v.agent[w].own].pub
      /\ Exists(v, v.agent[w].own)
  BY <1>2 DEF TargetFits, WorkerFits, Watching
<1>4. g \in Goroutines /\ g.pc = "restart" /\ g.own = v.agent[w].own /\ g.target = None /\ g.next = "idle"
  BY <1>1, <1>3 DEF Goroutines, WorkerPlaces, Watching
<1>5. n.agent[w] = g /\ n.entry = v.entry /\ n.cur = v.cur
  BY <1>1 DEF Managers
<1> HIDE DEF g, n
<1>6. TargetFits(n, w)
  BY <1>4, <1>5 DEF TargetFits, Exists, Resources
<1>7. WorkerFits(n, w)
  BY <1>3, <1>4, <1>5 DEF WorkerFits, Exists, Starts, Watching, WorkerPlaces
<1>8. Good(n)
  BY <1>1, <1>2, <1>4, <1>6, <1>7, AgentMoves DEF n, Resources
<1>. QED BY <1>8 DEF n, g

\* The start of a process is reserved: the context is new.
LEMMA ReserveKeeps == ASSUME ListenerAssumption, Good(l), NEW w \in Workers, Reserve(w) PROVE Good(l')
<1>1. l.agent[w].pc = "reserve" /\ l.agent[w].pc \in Watching
  BY DEF Reserve, At, Watching
<1>2. CASE Becomes(Goto(l, w, "remove"))
  BY <1>1, <1>2, GotoKeeps, BecomesKeeps DEF Watching
<1>3. CASE MayReserve(Own(w)) /\ Becomes([Goto(l, w, "restart") EXCEPT !.entry[Own(w)].cancelled = FALSE])
  <2> DEFINE x == Own(w)
             e == [l.entry[x] EXCEPT !.cancelled = FALSE]
             v == [l EXCEPT !.entry[x] = e]
             g == [l.agent[w] EXCEPT !.pc = "restart"]
  <2>1. /\ w \in Agents /\ l \in Managers /\ l.agent[w] \in Goroutines /\ x \in Entries /\ l.entry[x] \in Streams
        /\ l.agent[w].own = x /\ l.cur = x /\ x # None /\ l.entry[x].state = "running" /\ l.enc # "stopping"
    BY <1>1, <1>3, WatcherFits DEF MayReserve, ListenerAssumption
  <2>2. Good(v)
    BY <2>1, UncancelKeeps
  <2>3. v.agent = l.agent /\ v.cur = l.cur
    BY <2>1 DEF Managers
  <2>4. [Goto(l, w, "restart") EXCEPT !.entry[x].cancelled = FALSE] = [v EXCEPT !.agent[w] = g]
    BY <2>1 DEF Goto, Managers
  <2> HIDE DEF v, x
  <2>5. Good([v EXCEPT !.agent[w] = g])
    BY <1>1, <2>1, <2>2, <2>3, ToRestart
  <2>. QED BY <1>3, <2>4, <2>5, BecomesKeeps DEF x
<1>. QED BY <1>2, <1>3 DEF Reserve

\* The process starts: for the managed entry, or a Stop is about to end it.
LEMMA RestartKeeps == ASSUME ListenerAssumption, Good(l), NEW w \in Workers, NEW ok \in BOOLEAN, Restart(w, ok) PROVE Good(l')
<1>1. l.agent[w].pc = "restart" /\ l.agent[w].pc \in Watching
  BY DEF Restart, At, Watching
<1>2. CASE Becomes(Quit(l, w))
  BY <1>1, <1>2, QuitKeeps, BecomesKeeps
<1>3. CASE Becomes(Goto(l, w, "refail"))
  BY <1>1, <1>3, GotoKeeps, BecomesKeeps DEF Watching
<1>4. CASE ~l.entry[Own(w)].cancelled /\ Becomes([Goto(l, w, "attach") EXCEPT !.entry[Own(w)].run = NewRun])
  <2> DEFINE x == Own(w)
             v == Goto(l, w, "attach")
  <2>1. /\ w \in Agents /\ l \in Managers /\ l.agent[w] \in Goroutines /\ x \in Entries
        /\ l.agent[w].own = x /\ l.entry[x].pub
    BY <1>1, WatcherFits
  <2>2. Good(v) /\ v.entry = l.entry /\ v.cur = l.cur /\ v = [l EXCEPT !.agent[w] = [l.agent[w] EXCEPT !.pc = "attach"]]
    BY <1>1, GotoKeeps DEF Watching
  <2>3. \A a \in Agents \ {w} : v.agent[a] = l.agent[a]
    BY <2>1, <2>2 DEF Managers
  <2>4. v \in Managers
    BY <2>2, GoodParts
  <2> HIDE DEF v, x
  <2>5. v.cur = x \/ v.entry[x].cancelled \/ Told(v, x)
    <3>1. l.cur # x => Adrift(l, x)
      BY <1>1, <1>4, <2>1 DEF Adrift, x
    <3>2. Told(l, x) => Told(v, x)
      BY <1>1, <2>3 DEF Told
    <3>. QED BY <2>1, <2>2, <3>1, <3>2, GoodParts
  <2>6. \A u \in Workers : v.agent[u].own = x =>
           v.agent[u].pc \notin {"bind", "exec", "unclaim"} /\ v.agent[u].next \notin {"bind", "unclaim"}
    <3> SUFFICES ASSUME NEW u \in Workers, v.agent[u].own = x
                 PROVE  v.agent[u].pc \notin {"bind", "exec", "unclaim"} /\ v.agent[u].next \notin {"bind", "unclaim"}
      OBVIOUS
    <3>1. WorkerFits(v, u) /\ v.entry[x].pub /\ x # None
      BY <2>1, <2>2, GoodParts DEF ListenerAssumption
    <3>. QED BY <3>1 DEF WorkerFits, Starts
  <2>7. Good([v EXCEPT !.entry[x] = [v.entry[x] EXCEPT !.run = NewRun]])
    BY <2>1, <2>2, <2>5, <2>6, BlankTyped, RunBegins
  <2>8. [v EXCEPT !.entry[x].run = NewRun] = [v EXCEPT !.entry[x] = [v.entry[x] EXCEPT !.run = NewRun]]
    BY <2>1, <2>4 DEF Managers
  <2>. QED BY <1>4, <2>7, <2>8, BecomesKeeps DEF x, v
<1>. QED BY <1>2, <1>3, <1>4 DEF Restart

-------------------------------------------------------------------------------
(* The start of a stream                                                   *)

\* A start holds a placeholder of its own.
LEMMA StarterFits ==
  ASSUME ListenerAssumption, Good(l), NEW w \in Workers, l.agent[w].pc \in {"bind", "exec", "publish", "unclaim"}
  PROVE  /\ w \in Agents /\ w \notin Stoppers /\ l \in Managers /\ l.agent[w] \in Goroutines
         /\ Own(w) \in Entries /\ l.entry[Own(w)] \in Streams /\ ~l.entry[Own(w)].pub /\ l.entry[Own(w)].state # "none"
         /\ l.agent[w].next = "idle" /\ l.agent[w].target = None /\ l.agent[w].own = Own(w)
         /\ WorkerFits(l, w) /\ Starts(l, w)
         /\ l.cur = Own(w) => l.entry[Own(w)].state = "starting"
<1>1. w \in Agents /\ w \notin Stoppers /\ l \in Managers /\ l.agent[w] \in Goroutines /\ WorkerFits(l, w) /\ TargetFits(l, w)
  BY GoodParts DEF ListenerAssumption
<1>2. Own(w) \in Entries /\ l.agent[w].own = Own(w)
  BY <1>1 DEF WorkerFits, Own, Goroutines
<1>3. Starts(l, w)
  BY <1>2 DEF Starts, ListenerAssumption
<1>4. ~l.entry[Own(w)].pub /\ l.entry[Own(w)].state # "none" /\ (l.cur = Own(w) => l.entry[Own(w)].state = "starting")
  BY <1>1, <1>2, <1>3 DEF WorkerFits, Exists, ListenerAssumption
<1>5. l.agent[w].next = "idle" /\ l.agent[w].target = None
  BY <1>1 DEF TargetFits, Resources
<1>. QED BY <1>1, <1>2, <1>3, <1>4, <1>5, GoodParts

\* Nobody else has it, nor a monitor.
LEMMA OneStarter ==
  ASSUME ListenerAssumption, Good(l), NEW w \in Workers, l.agent[w].pc \in {"bind", "exec", "publish", "unclaim"}
  PROVE  /\ \A u \in Workers \ {w} : ~(Starts(l, u) /\ l.agent[u].own = Own(w))
         /\ \A u \in Workers : l.agent[u].own = Own(w) => l.agent[u].pc \notin Watching
         /\ l.cur = Own(w) => \A a \in Agents : l.agent[a].target # Own(w)
<1>1. Own(w) \in Entries /\ ~l.entry[Own(w)].pub /\ Starts(l, w) /\ l.agent[w].own = Own(w) /\ l.agent[w].next = "idle"
      /\ (l.cur = Own(w) => l.entry[Own(w)].state = "starting") /\ None \notin Entries
  BY StarterFits DEF ListenerAssumption
<1>2. \A u \in Workers \ {w} : ~(Starts(l, u) /\ l.agent[u].own = Own(w))
  BY SMTT(60), <1>1, GoodParts DEF OneStarts
<1>3. \A u \in Workers : l.agent[u].own = Own(w) => l.agent[u].pc \notin Watching
  BY <1>1, GoodParts DEF WorkerFits
<1>4. ASSUME l.cur = Own(w), NEW a \in Agents, l.agent[a].target = Own(w) PROVE FALSE
  <2>1. l.agent[a].next = "unclaim"
    BY <1>1, <1>4, GoodParts DEF TargetFits
  <2>2. a \in Workers
    BY SMTT(60), <2>1, GoodParts DEF StopperFits, TargetFits, Agents
  <2>3. l.agent[a].own = Own(w) /\ Starts(l, a)
    BY <1>1, <1>4, <2>1, <2>2, GoodParts DEF WorkerFits, Starts
  <2>. QED BY <1>1, <1>2, <2>1, <2>2, <2>3
<1>. QED BY <1>2, <1>3, <1>4

\* A start goes on, or undoes its claim.
LEMMA StarterGoes ==
  ASSUME ListenerAssumption, Good(l), NEW w \in Workers, l.agent[w].pc \in {"bind", "exec", "publish"},
         NEW g \in Goroutines, g.own = Own(w),
         \/ l.agent[w].pc = "bind" /\ g.pc = "exec" /\ g.target = None /\ g.next = "idle" /\ l.cur = Own(w)
         \/ l.agent[w].pc = "exec" /\ g.pc = "publish" /\ g.target = None /\ g.next = "idle"
         \/ l.agent[w].pc = "exec" /\ g.pc = "shut" /\ g.target = Own(w) /\ g.next = "unclaim"
         \/ l.agent[w].pc = "publish" /\ g.pc = "begin" /\ g.target = None /\ g.next = "idle"
         \/ l.agent[w].pc = "publish" /\ g.pc = "detach" /\ g.target = Own(w) /\ g.next = "idle" /\ l.cur # Own(w)
  PROVE  Good([l EXCEPT !.agent[w] = g])
<1> DEFINE n == [l EXCEPT !.agent[w] = g]
           x == Own(w)
<1>1. /\ w \in Agents /\ w \notin Stoppers /\ l \in Managers /\ x \in Entries
      /\ ~l.entry[x].pub /\ l.entry[x].state # "none" /\ l.agent[w].own = x
      /\ WorkerFits(l, w) /\ Starts(l, w) /\ (l.cur = x => l.entry[x].state = "starting") /\ x # None
  BY StarterFits DEF ListenerAssumption
<1>2. n.agent[w] = g /\ n.entry = l.entry /\ n.cur = l.cur
  BY <1>1 DEF Managers
<1> HIDE DEF n, x
<1>3. g.own = x /\ (g.target = None \/ g.target = x)
  BY DEF x
<1>4. TargetFits(n, w)
  BY <1>1, <1>2, <1>3 DEF TargetFits, Exists, Resources, x
<1>5. l.agent[w].pc \in {"bind", "exec"} => l.entry[x].run.proc # "alive"
  BY <1>1 DEF WorkerFits
<1>6. WorkerFits(n, w)
  BY SMTT(60), <1>1, <1>2, <1>3, <1>5 DEF WorkerFits, Exists, Starts, Watching, WorkerPlaces, Resources, x
<1>7. Good(n)
  BY <1>1, <1>3, <1>4, <1>6, AgentMoves DEF n, x
<1>. QED BY <1>7 DEF n

\* A goroutine that closes nothing ends, or reports its Stop, and may take its entry out of
\* the map: nobody runs or starts it, its port is free or being closed.
LEMMA LeaveKeeps ==
  ASSUME ListenerAssumption, NEW v, Good(v), NEW c \in {v.cur, None}, NEW a \in Agents, NEW g \in Goroutines,
         g.pc \in {"idle", "clear"}, g.own = None, g.target = None, g.next = "idle",
         g.pc = "clear" => a = All /\ a \in Stoppers /\ v.agent[a].pc = "delete",
         v.agent[a].pc \notin {"detach", "reap", "shut"},
         c # v.cur => ~Adrift([v EXCEPT !.cur = c, !.agent[a] = g], v.cur)
                      /\ PortKept([v EXCEPT !.cur = c, !.agent[a] = g], v.cur)
  PROVE  Good([v EXCEPT !.cur = c, !.agent[a] = g])
<1> DEFINE n == [v EXCEPT !.cur = c, !.agent[a] = g]
<1>1. v \in Managers /\ v.cur \in Entries \cup {None}
  BY GoodParts
<1>2. /\ n \in Managers /\ n.cur = c /\ n.entry = v.entry /\ n.enc = v.enc
      /\ n.agent[a] = g /\ \A b \in Agents \ {a} : n.agent[b] = v.agent[b]
  BY <1>1 DEF Managers
<1>3. c # v.cur => ~Adrift(n, v.cur) /\ PortKept(n, v.cur)
  OBVIOUS
<1> HIDE DEF n
<1>4. \A x \in Entries : EntryGoes(v, n, x)
  BY <1>2 DEF EntryGoes
<1>5. TargetFits(n, a)
  BY <1>2 DEF TargetFits, Exists, Resources
<1>6. a \in Workers => WorkerFits(n, a)
  BY <1>2 DEF WorkerFits, Exists, Starts, Watching, WorkerPlaces, ListenerAssumption
<1>7. a \in Stoppers => StopperFits(n, a) /\ (a = All => Over(n))
  BY <1>2, GoodParts DEF StopperFits, Over, StopperPlaces, Resources
<1>8. ~Starts(n, a)
  BY <1>2 DEF Starts
<1>9. \A x \in Entries : Closes(v, a, x) \/ n.entry[x].state # v.entry[x].state =>
                         Closes(n, a, x) \/ n.entry[x].fan # "bound"
  BY <1>2 DEF Closes
<1>10. Good(n)
  BY <1>2, <1>3, <1>4, <1>5, <1>6, <1>7, <1>8, <1>9, Moves
<1>. QED BY <1>10 DEF n

\* The port is bound by the owner of the claim, or the claim is given back.
LEMMA BindKeeps == ASSUME ListenerAssumption, Good(l), NEW w \in Workers, NEW ok \in BOOLEAN, Bind(w, ok) PROVE Good(l')
<1> DEFINE x == Own(w)
<1>1. l.agent[w].pc = "bind"
  BY DEF Bind, At
<1>2. /\ w \in Agents /\ w \notin Stoppers /\ l \in Managers /\ l.agent[w] \in Goroutines
      /\ x \in Entries /\ l.entry[x] \in Streams /\ ~l.entry[x].pub /\ l.agent[w].own = x
      /\ l.agent[w].next = "idle" /\ l.agent[w].target = None
      /\ WorkerFits(l, w) /\ (l.cur = x => l.entry[x].state = "starting") /\ None \notin Entries
  BY <1>1, StarterFits DEF ListenerAssumption
<1>3. /\ \A u \in Workers \ {w} : ~(Starts(l, u) /\ l.agent[u].own = x)
      /\ \A u \in Workers : l.agent[u].own = x => l.agent[u].pc \notin Watching
      /\ l.cur = x => \A a \in Agents : l.agent[a].target # x
  BY <1>1, OneStarter
<1>4. l.entry[x].fan = "none" /\ l.entry[x].run.proc # "alive"
  BY <1>1, <1>2 DEF WorkerFits
<1>5. CASE Becomes(Quit(l, w))
  BY <1>1, <1>5, QuitKeeps, BecomesKeeps
<1>6. CASE l.cur = x /\ Becomes([Goto(l, w, "exec") EXCEPT !.entry[x].fan = "bound"])
  <2> DEFINE g == [l.agent[w] EXCEPT !.pc = "exec"]
             v == [l EXCEPT !.agent[w] = g]
  <2>1. g \in Goroutines /\ g.pc = "exec" /\ g.own = x /\ g.target = None /\ g.next = "idle"
    BY <1>2 DEF Goroutines, WorkerPlaces
  <2> HIDE DEF g
  <2>2. Good(v)
    BY <1>1, <1>6, <2>1, StarterGoes
  <2>3. v.agent[w] = g /\ (\A a \in Agents \ {w} : v.agent[a] = l.agent[a]) /\ v.entry = l.entry /\ v.cur = l.cur
    BY <1>2 DEF Managers
  <2>4. [Goto(l, w, "exec") EXCEPT !.entry[x].fan = "bound"] = [v EXCEPT !.entry[x] = [v.entry[x] EXCEPT !.fan = "bound"]]
    BY <1>2 DEF Goto, Managers, g
  <2> HIDE DEF v, x
  <2>5. \A a \in Agents : v.agent[a].target # x
    BY <1>2, <1>3, <1>6, <2>1, <2>3
  <2>6. \A u \in Workers : v.agent[u].own = x =>
           v.agent[u].pc \notin {"bind", "unclaim"} /\ v.agent[u].next \notin {"bind", "unclaim"}
    BY <1>2, <1>3, <2>1, <2>3 DEF Starts, Agents
  <2>7. Good([v EXCEPT !.entry[x] = [v.entry[x] EXCEPT !.fan = "bound"]])
    BY <1>2, <1>6, <2>2, <2>3, <2>5, <2>6, PortBegins
  <2>. QED BY <1>6, <2>4, <2>7, BecomesKeeps
<1>7. CASE l.cur = x /\ Becomes([Quit(l, w) EXCEPT !.cur = None])
  <2> DEFINE n == [l EXCEPT !.cur = None, !.agent[w] = Idle]
  <2>1. [Quit(l, w) EXCEPT !.cur = None] = n
    BY <1>2 DEF Quit, Managers
  <2>2. /\ n.cur = None /\ n.entry = l.entry /\ n.agent[w] = Idle /\ \A b \in Agents \ {w} : n.agent[b] = l.agent[b]
    BY <1>2 DEF Managers
  <2> HIDE DEF n, x
  <2>3. ~Adrift(n, x)
    <3>1. \A u \in Workers : ~(n.agent[u].pc \in {"exec", "restart"} /\ n.agent[u].own = x)
      BY <1>2, <1>3, <2>2, IdleTyped DEF Starts, Watching, Agents
    <3>. QED BY <1>4, <2>2, <3>1 DEF Adrift
  <2>4. PortKept(n, x)
    BY <1>4, <2>2 DEF PortKept
  <2>5. Good(n)
    BY <1>1, <1>2, <1>7, <2>3, <2>4, IdleTyped, LeaveKeeps DEF n
  <2>. QED BY <1>7, <2>1, <2>5, BecomesKeeps
<1>. QED BY <1>5, <1>6, <1>7 DEF Bind, MayBind, x

\* The claim of a start that has failed is given back.
LEMMA UnclaimKeeps == ASSUME ListenerAssumption, Good(l), NEW w \in Workers, Unclaim(w) PROVE Good(l')
<1> DEFINE x == Own(w)
           c == IF l.cur = x THEN None ELSE l.cur
           n == [l EXCEPT !.cur = c, !.agent[w] = Idle]
<1>1. l.agent[w].pc = "unclaim" /\ Becomes([Quit(l, w) EXCEPT !.cur = IF @ = x THEN None ELSE @])
  BY DEF Unclaim, At
<1>2. /\ w \in Agents /\ w \notin Stoppers /\ l \in Managers /\ x \in Entries /\ l.agent[w].own = x
      /\ WorkerFits(l, w)
  BY <1>1, StarterFits
<1>3. /\ \A u \in Workers \ {w} : ~(Starts(l, u) /\ l.agent[u].own = x)
      /\ \A u \in Workers : l.agent[u].own = x => l.agent[u].pc \notin Watching
  BY <1>1, OneStarter
<1>4. l.entry[x].fan \in {"none", "closed"} /\ l.entry[x].run.proc # "alive"
  BY <1>1, <1>2 DEF WorkerFits
<1>5. [Quit(l, w) EXCEPT !.cur = IF @ = x THEN None ELSE @] = n
  BY <1>2 DEF Quit, Managers
<1>6. /\ n.cur = c /\ n.entry = l.entry /\ n.agent[w] = Idle /\ \A b \in Agents \ {w} : n.agent[b] = l.agent[b]
  BY <1>2 DEF Managers
<1>7. c \in {l.cur, None} /\ (c # l.cur => l.cur = x /\ c = None)
  OBVIOUS
<1> HIDE DEF n, x, c
<1>8. c # l.cur => ~Adrift(n, l.cur) /\ PortKept(n, l.cur)
  <2>1. \A u \in Workers : ~(n.agent[u].pc \in {"exec", "restart"} /\ n.agent[u].own = x)
    BY <1>2, <1>3, <1>6, IdleTyped DEF Starts, Watching, Agents, ListenerAssumption
  <2>. QED BY <1>4, <1>6, <1>7, <2>1 DEF Adrift, PortKept
<1>9. Good(n)
  BY <1>1, <1>2, <1>7, <1>8, IdleTyped, LeaveKeeps DEF n
<1>. QED BY <1>1, <1>5, <1>9, BecomesKeeps

\* The encoder of a new stream starts, or its port goes first.
LEMMA ExecKeeps == ASSUME ListenerAssumption, Good(l), NEW w \in Workers, NEW ok \in BOOLEAN, Exec(w, ok) PROVE Good(l')
<1> DEFINE x == Own(w)
<1>1. l.agent[w].pc = "exec"
  BY DEF Exec, At
<1>2. /\ w \in Agents /\ w \notin Stoppers /\ l \in Managers /\ l.agent[w] \in Goroutines
      /\ x \in Entries /\ l.entry[x] \in Streams /\ l.agent[w].own = x
      /\ l.agent[w].next = "idle" /\ l.agent[w].target = None /\ None \notin Entries
  BY <1>1, StarterFits DEF ListenerAssumption
<1>3. /\ \A u \in Workers \ {w} : ~(Starts(l, u) /\ l.agent[u].own = x)
      /\ \A u \in Workers : l.agent[u].own = x => l.agent[u].pc \notin Watching
  BY <1>1, OneStarter
<1>4. CASE ~l.entry[x].cancelled /\ Becomes([Goto(l, w, "publish") EXCEPT !.entry[x].run = [NewRun EXCEPT !.attached = TRUE]])
  <2> DEFINE g == [l.agent[w] EXCEPT !.pc = "publish"]
             v == [l EXCEPT !.agent[w] = g]
             r == [NewRun EXCEPT !.attached = TRUE]
  <2>1. g \in Goroutines /\ g.pc = "publish" /\ g.own = x /\ g.target = None /\ g.next = "idle"
    BY <1>2 DEF Goroutines, WorkerPlaces
  <2>2. r \in Runs
    BY DEF Runs, NewRun, NoRun
  <2> HIDE DEF g, r
  <2>3. Good(v)
    BY <1>1, <2>1, StarterGoes
  <2>4. v.agent[w] = g /\ (\A a \in Agents \ {w} : v.agent[a] = l.agent[a]) /\ v.entry = l.entry /\ v.cur = l.cur
    BY <1>2 DEF Managers
  <2>5. [Goto(l, w, "publish") EXCEPT !.entry[x].run = r] = [v EXCEPT !.entry[x] = [v.entry[x] EXCEPT !.run = r]]
    BY <1>2 DEF Goto, Managers, g
  <2> HIDE DEF v, x
  <2>6. v.cur = x \/ v.entry[x].cancelled \/ Told(v, x)
    <3>1. l.cur # x => Adrift(l, x)
      BY <1>1, <1>2, <1>4 DEF Adrift
    <3>2. Told(l, x) => Told(v, x)
      BY <1>1, <2>4 DEF Told
    <3>. QED BY <1>2, <2>4, <3>1, <3>2, GoodParts
  <2>7. \A u \in Workers : v.agent[u].own = x =>
           v.agent[u].pc \notin {"bind", "exec", "unclaim"} /\ v.agent[u].next \notin {"bind", "unclaim"}
    BY <1>2, <1>3, <2>1, <2>4 DEF Starts, Agents
  <2>8. Good([v EXCEPT !.entry[x] = [v.entry[x] EXCEPT !.run = r]])
    BY <1>2, <2>2, <2>3, <2>6, <2>7, RunBegins
  <2>. QED BY <1>4, <2>5, <2>8, BecomesKeeps DEF r
<1>5. CASE Becomes([Goto(l, w, "shut") EXCEPT !.agent[w].target = x, !.agent[w].next = "unclaim"])
  <2> DEFINE g == [l.agent[w] EXCEPT !.pc = "shut", !.target = x, !.next = "unclaim"]
  <2>1. g \in Goroutines /\ g.pc = "shut" /\ g.own = x /\ g.target = x /\ g.next = "unclaim"
    BY <1>2 DEF Goroutines, WorkerPlaces, Resources
  <2>2. [Goto(l, w, "shut") EXCEPT !.agent[w].target = x, !.agent[w].next = "unclaim"] = [l EXCEPT !.agent[w] = g]
    BY ZenonT(60), <1>2 DEF Goto, Managers, Goroutines
  <2> HIDE DEF g
  <2>3. Good([l EXCEPT !.agent[w] = g])
    BY <1>1, <2>1, StarterGoes
  <2>. QED BY <1>5, <2>2, <2>3, BecomesKeeps
<1>. QED BY <1>4, <1>5 DEF Exec, x

\* The stream is published, or what was started is stopped again.
LEMMA PublishKeeps == ASSUME ListenerAssumption, Good(l), NEW w \in Workers, Publish(w) PROVE Good(l')
<1> DEFINE x == Own(w)
<1>1. l.agent[w].pc = "publish"
  BY DEF Publish, At
<1>2. /\ w \in Agents /\ w \notin Stoppers /\ l \in Managers /\ l.agent[w] \in Goroutines
      /\ x \in Entries /\ l.entry[x] \in Streams /\ l.agent[w].own = x
      /\ l.agent[w].next = "idle" /\ l.agent[w].target = None /\ None \notin Entries
      /\ l.cur = x => l.entry[x].state = "starting"
  BY <1>1, StarterFits DEF ListenerAssumption
<1>3. \A u \in Workers \ {w} : ~(Starts(l, u) /\ l.agent[u].own = x)
  BY <1>1, OneStarter
<1>4. CASE l.cur # x /\ Becomes(Stopping(l, w, x, "idle"))
  <2> DEFINE g == [l.agent[w] EXCEPT !.pc = "detach", !.target = x, !.next = "idle"]
  <2>1. g \in Goroutines /\ g.pc = "detach" /\ g.own = x /\ g.target = x /\ g.next = "idle"
    BY <1>2 DEF Goroutines, WorkerPlaces, Resources
  <2>2. Stopping(l, w, x, "idle") = [l EXCEPT !.agent[w] = g]
    BY ZenonT(60), <1>2 DEF Stopping, Managers, Goroutines
  <2> HIDE DEF g
  <2>3. Good([l EXCEPT !.agent[w] = g])
    BY <1>1, <1>4, <2>1, StarterGoes
  <2>. QED BY <1>4, <2>2, <2>3, BecomesKeeps
<1>5. CASE l.cur = x /\ Becomes([Goto(l, w, "begin") EXCEPT !.entry[x].pub = TRUE, !.entry[x].state = "running"])
  <2> DEFINE g == [l.agent[w] EXCEPT !.pc = "begin"]
             v == [l EXCEPT !.agent[w] = g]
             e == [l.entry[x] EXCEPT !.pub = TRUE, !.state = "running"]
  <2>1. g \in Goroutines /\ g.pc = "begin" /\ g.own = x /\ g.target = None /\ g.next = "idle"
    BY <1>2 DEF Goroutines, WorkerPlaces
  <2> HIDE DEF g
  <2>2. Good(v)
    BY <1>1, <2>1, StarterGoes
  <2>3. v.agent[w] = g /\ (\A a \in Agents \ {w} : v.agent[a] = l.agent[a]) /\ v.entry = l.entry /\ v.cur = l.cur
    BY <1>2 DEF Managers
  <2>4. [Goto(l, w, "begin") EXCEPT !.entry[x].pub = TRUE, !.entry[x].state = "running"] = [v EXCEPT !.entry[x] = e]
    BY ZenonT(60), <1>2 DEF Goto, Managers, Streams, g
  <2> HIDE DEF v, x
  <2>5. \A u \in Workers : ~(Starts(v, u) /\ v.agent[u].own = x)
    BY <1>2, <1>3, <2>1, <2>3 DEF Starts, Agents
  <2>6. Good([v EXCEPT !.entry[x] = e])
    BY <1>2, <1>5, <2>2, <2>3, <2>5, StreamBegins
  <2>. QED BY <1>5, <2>4, <2>6, BecomesKeeps
<1>. QED BY <1>4, <1>5 DEF Publish, x

\* The placeholder of a start replaces an entry that neither starts nor runs, and that is
\* stopped first.
LEMMA ClaimKeeps == ASSUME ListenerAssumption, Good(l), NEW w \in Workers, Claim(w) PROVE Good(l')
<1>1. l.agent[w].pc = "claim" /\ w \in Agents /\ w \notin Stoppers /\ l \in Managers /\ l.agent[w] \in Goroutines
      /\ l.cur \in Entries \cup {None} /\ None \notin Entries
  BY GoodParts DEF Claim, At, ListenerAssumption
<1>2. CASE Becomes(Quit(l, w))
  BY <1>1, <1>2, QuitKeeps, BecomesKeeps
<1>3. CASE ~Becomes(Quit(l, w))
  <2> DEFINE x == CHOOSE y \in Unused : TRUE
             old == l.cur
             k == IF old = None THEN 0 ELSE l.entry[old].retry
             e == [Blank EXCEPT !.state = "starting", !.retry = k]
             g == IF old = None THEN [l.agent[w] EXCEPT !.own = x, !.pc = "bind"]
                                ELSE [l.agent[w] EXCEPT !.own = x, !.pc = "detach", !.target = old, !.next = "bind"]
             v == [l EXCEPT !.cur = x, !.agent[w].own = x, !.agent[w].pc = "bind", !.entry[x] = e]
             n == [l EXCEPT !.cur = x, !.agent[w] = g, !.entry[x] = e]
  <2>1. MayClaim(w) /\ Unused # {} /\ Becomes(IF old = None THEN v ELSE Stopping(v, w, old, "bind"))
    BY <1>3 DEF Claim
  <2>2. x \in Entries /\ l.entry[x] = Blank
    BY <2>1 DEF Unused
  <2>3. k \in Nat
    BY <1>1, GoodParts DEF Streams
  <2> HIDE DEF x, k
  <2>4. /\ e \in Streams /\ e.state = "starting" /\ ~e.pub /\ ~e.cancelled /\ e.fan = "none" /\ e.run.proc = "none"
        /\ e.stops = 0
    BY ZenonT(60), <2>3, BlankTyped DEF Blank, Streams, States, Runs, NoRun
  <2> HIDE DEF e
  <2>5. l.agent[w].next = "idle" /\ l.agent[w].target = None
    BY <1>1, GoodParts DEF TargetFits, Resources
  <2>6. /\ g \in Goroutines /\ g.own = x /\ g.target = old
        /\ g.pc = (IF old = None THEN "bind" ELSE "detach")
        /\ g.next = (IF old = None THEN "idle" ELSE "bind")
    BY ZenonT(60), <1>1, <2>2, <2>5 DEF Goroutines, WorkerPlaces, Resources
  <2>7. (IF old = None THEN v ELSE Stopping(v, w, old, "bind")) = n
    <3> DEFINE h == [l.agent[w] EXCEPT !.own = x, !.pc = "bind"]
               m == [l EXCEPT !.cur = x, !.agent[w] = h, !.entry[x] = e]
    <3>1. v = m
      BY ZenonT(60), <1>1, <2>2 DEF Managers, Goroutines
    <3>2. Stopping(m, w, old, "bind")
          = [m EXCEPT !.agent[w] = [m.agent[w] EXCEPT !.pc = "detach", !.target = old, !.next = "bind"]]
      <4>1. m.agent \in [Agents -> Goroutines] /\ m = [m EXCEPT !.agent = m.agent]
        <5>1. h \in Goroutines
          BY <1>1, <2>2 DEF Goroutines, WorkerPlaces
        <5> HIDE DEF h
        <5>. QED BY <1>1, <2>2, <5>1 DEF Managers
      <4> HIDE DEF m
      <4>. QED BY ZenonT(60), <1>1, <4>1 DEF Stopping, Goroutines
    <3>3. m.agent[w] = h
      <4> HIDE DEF h
      <4>. QED BY <1>1 DEF Managers
    <3>4. [m EXCEPT !.agent[w] = [h EXCEPT !.pc = "detach", !.target = old, !.next = "bind"]]
          = [l EXCEPT !.cur = x, !.agent[w] = [h EXCEPT !.pc = "detach", !.target = old, !.next = "bind"], !.entry[x] = e]
      <4> HIDE DEF h
      <4>. QED BY ZenonT(60), <1>1 DEF Managers
    <3>5. [h EXCEPT !.pc = "detach", !.target = old, !.next = "bind"]
          = [l.agent[w] EXCEPT !.own = x, !.pc = "detach", !.target = old, !.next = "bind"]
      BY <1>1 DEF Goroutines
    <3>6. CASE old = None
      BY <3>1, <3>6
    <3>7. CASE old # None
      <4>1. n = [l EXCEPT !.cur = x,
                          !.agent[w] = [l.agent[w] EXCEPT !.own = x, !.pc = "detach", !.target = old, !.next = "bind"],
                          !.entry[x] = e]
        BY <3>7
      <4> HIDE DEF m, h, v, n, old
      <4>. QED BY <3>1, <3>2, <3>3, <3>4, <3>5, <3>7, <4>1
    <3>. QED BY <3>6, <3>7
  <2> HIDE DEF g, v
  <2>8. /\ n \in Managers /\ n.cur = x /\ n.enc = l.enc
        /\ n.agent[w] = g /\ \A b \in Agents \ {w} : n.agent[b] = l.agent[b]
        /\ n.entry[x] = e /\ \A y \in Entries \ {x} : n.entry[y] = l.entry[y]
    BY <1>1, <2>2, <2>4, <2>6 DEF Managers
  <2> HIDE DEF n, old
  <2>9. l.enc = "running" /\ (l.cur # None => l.entry[l.cur].state \notin {"none", "running", "starting"})
    BY <2>1, GoodParts DEF MayClaim, Exists
  <2>10. /\ l.cur # x
         /\ \A a \in Agents : l.agent[a].own # x /\ l.agent[a].target # x
    <3>1. l.entry[x].state = "none" /\ x # None
      BY SMTT(60), <1>1, <2>2 DEF Blank
    <3>2. ASSUME NEW a \in Agents PROVE l.agent[a].own # x /\ l.agent[a].target # x
      <4>1. TargetFits(l, a) /\ (a \in Workers => WorkerFits(l, a)) /\ (a \in Stoppers => StopperFits(l, a))
        BY GoodParts
      <4>. QED BY <3>1, <4>1 DEF TargetFits, WorkerFits, StopperFits, Exists, Agents
    <3>. QED BY <2>9, <3>1, <3>2
  <2>11. \A a \in Agents : l.agent[a].own \in Entries \cup {None} /\ l.agent[a].target \in Entries \cup {None}
    BY GoodParts DEF Goroutines
  <2>12. Exists(n, n.cur)
    BY <2>4, <2>8 DEF Exists
  <2>13. OneStarts(n)
    <3> SUFFICES ASSUME NEW u \in Workers, NEW t \in Workers, Starts(n, u), Starts(n, t), n.agent[u].own = n.agent[t].own
                 PROVE  u = t
      BY DEF OneStarts
    <3>1. u \in Agents /\ t \in Agents
      BY DEF Agents
    <3>2. CASE u = w \/ t = w
      BY <2>6, <2>8, <2>10, <3>1, <3>2
    <3>3. CASE u # w /\ t # w
      <4>1. Starts(l, u) /\ Starts(l, t) /\ l.agent[u].own = l.agent[t].own
        BY <2>8, <3>1, <3>3 DEF Starts
      <4>. QED BY <4>1, GoodParts DEF OneStarts
    <3>. QED BY <3>2, <3>3
  <2>14. Over(n)
    BY <1>1, <2>8, <2>9, GoodParts DEF Over, Agents
  <2>15. ASSUME NEW a \in Agents PROVE TargetFits(n, a)
    <3>1. CASE a = w
      <4>1. l.cur # None => n.entry[l.cur] = l.entry[l.cur]
        BY <1>1, <2>8, <2>10
      <4>. QED BY SMTT(60), <2>6, <2>8, <2>9, <2>10, <3>1, <4>1 DEF TargetFits, Exists, Resources, old
    <3>2. CASE a # w
      <4>1. TargetFits(l, a) /\ n.agent[a] = l.agent[a] /\ l.agent[a].target # x
        BY <2>8, <2>10, <3>2, GoodParts
      <4>2. l.agent[a].target # None => n.entry[l.agent[a].target] = l.entry[l.agent[a].target]
        BY <2>8, <2>11, <4>1
      <4>. QED BY <2>8, <4>1, <4>2 DEF TargetFits, Exists, Resources
    <3>. QED BY <3>1, <3>2
  <2>16. ASSUME NEW u \in Workers PROVE WorkerFits(n, u)
    <3>1. CASE u = w
      BY SMTT(60), <1>1, <2>2, <2>4, <2>6, <2>8, <3>1 DEF WorkerFits, Exists, Starts, WorkerPlaces, Resources, Watching
    <3>2. CASE u # w
      <4>1. WorkerFits(l, u) /\ n.agent[u] = l.agent[u] /\ l.agent[u].own # x /\ u \in Agents
        BY <2>8, <2>10, <3>2, GoodParts
      <4>2. l.agent[u].own # None => n.entry[l.agent[u].own] = l.entry[l.agent[u].own]
        BY <2>8, <2>11, <4>1
      <4>. QED BY <2>8, <4>1, <4>2 DEF WorkerFits, Exists, Starts
    <3>. QED BY SMTT(60), <3>1, <3>2
  <2>17. ASSUME NEW s \in Stoppers PROVE StopperFits(n, s)
    <3>1. StopperFits(l, s) /\ s \in Agents /\ s # w
      BY <1>1, GoodParts
    <3>2. n.agent[s] = l.agent[s] /\ l.agent[s].target # x
      BY <2>8, <2>10, <3>1
    <3>3. l.agent[s].target # None => n.entry[l.agent[s].target] = l.entry[l.agent[s].target]
      BY <2>8, <2>11, <3>1, <3>2
    <3>. QED BY <3>1, <3>2, <3>3 DEF StopperFits
  <2>18. ASSUME NEW y \in Entries PROVE EntryFits(n, y) /\ (Adrift(n, y) => Told(n, y)) /\ PortKept(n, y)
    <3>1. CASE y = x
      BY <2>4, <2>8, <3>1 DEF EntryFits, Adrift, PortKept
    <3>2. CASE y # x
      <4>1. EntryFits(l, y) /\ (Adrift(l, y) => Told(l, y)) /\ PortKept(l, y)
        BY GoodParts
      <4>2. n.entry[y] = l.entry[y] /\ n.cur # y
        BY <2>8, <3>2
      <4>3. EntryFits(n, y)
        BY <4>1, <4>2 DEF EntryFits
      <4>4. y = l.cur => Told(n, y) /\ Closes(n, w, y)
        BY <1>1, <2>6, <2>8 DEF Told, Closes, old
      <4>5. Adrift(n, y) /\ y # l.cur => Adrift(l, y)
        <5>1. \A u \in Workers : n.agent[u].pc \in {"exec", "restart"} => u # w /\ n.agent[u] = l.agent[u]
          BY <2>6, <2>8 DEF Agents
        <5>. QED BY <4>2, <5>1 DEF Adrift
      <4>6. Told(l, y) => Told(n, y)
        BY <1>1, <2>8 DEF Told
      <4>7. PortKept(n, y)
        <5>1. \A a \in Agents : Closes(l, a, y) => Closes(n, a, y)
          BY <1>1, <2>8 DEF Closes
        <5>. QED BY <1>1, <4>1, <4>2, <4>4, <5>1 DEF PortKept, Closes
      <4>. QED BY <4>1, <4>3, <4>4, <4>5, <4>6, <4>7
    <3>. QED BY <3>1, <3>2
  <2>19. Good(n)
    BY <2>8, <2>12, <2>13, <2>14, <2>15, <2>16, <2>17, <2>18 DEF Good
  <2>. QED BY <2>1, <2>7, <2>19, BecomesKeeps DEF old
<1>. QED BY <1>2, <1>3

\* The new run is the entry's; those who waited for the run before give up.
LEMMA AttachKeeps == ASSUME ListenerAssumption, Good(l), NEW w \in Workers, Attach(w) PROVE Good(l')
<1> DEFINE x == Own(w)
           r == [l.entry[x].run EXCEPT !.attached = TRUE]
           e == [l.entry[x] EXCEPT !.run = r]
           agents == [a \in Agents |-> IF a = w THEN [l.agent[a] EXCEPT !.pc = "owns"]
                                       ELSE IF At(a, "wait") /\ Own(a) = x THEN Idle ELSE l.agent[a]]
           n == [l EXCEPT !.entry[x].run.attached = TRUE, !.agent = agents]
<1>1. l.agent[w].pc = "attach" /\ Becomes(n)
  BY DEF Attach, At
<1>2. /\ w \in Agents /\ w \notin Stoppers /\ l \in Managers /\ l.agent[w] \in Goroutines /\ x \in Entries
      /\ l.entry[x] \in Streams /\ l.entry[x].pub /\ l.agent[w].own = x /\ l.agent[w].next = "idle" /\ l.agent[w].target = None
  BY <1>1, WatcherFits DEF Watching
<1>3. e \in Streams /\ e.state = l.entry[x].state /\ e.pub = l.entry[x].pub /\ e.cancelled = l.entry[x].cancelled
      /\ e.fan = l.entry[x].fan /\ e.stops = l.entry[x].stops /\ e.run.proc = l.entry[x].run.proc
  <2>1. r \in Runs /\ r.proc = l.entry[x].run.proc
    BY <1>2 DEF Streams, Runs
  <2> HIDE DEF r
  <2>. QED BY <1>2, <2>1 DEF Streams
<1>4. agents \in [Agents -> Goroutines]
  BY <1>2, IdleTyped, GoodParts DEF Goroutines, WorkerPlaces, Watching
<1>5. n = [l EXCEPT !.entry[x] = e, !.agent = agents]
  <2> HIDE DEF agents
  <2>. QED BY <1>2 DEF Managers, Streams
<1>6. \A a \in Agents : /\ a = w => agents[a].pc = "owns" /\ agents[a].own = x /\ agents[a].target = None /\ agents[a].next = "idle"
                        /\ a # w => (l.agent[a].pc = "wait" /\ agents[a] = Idle) \/ agents[a] = l.agent[a]
  BY <1>2 DEF At, Goroutines
<1> HIDE DEF e, agents, x
<1>7. /\ n \in Managers /\ n.cur = l.cur /\ n.enc = l.enc /\ n.agent = agents /\ n.entry[x] = e
      /\ \A y \in Entries \ {x} : n.entry[y] = l.entry[y]
  <2> HIDE DEF n
  <2>. QED BY <1>2, <1>3, <1>4, <1>5 DEF Managers
<1> HIDE DEF n
<1>8. \A y \in Entries : /\ n.entry[y].state = l.entry[y].state /\ n.entry[y].pub = l.entry[y].pub
                         /\ n.entry[y].cancelled = l.entry[y].cancelled /\ n.entry[y].fan = l.entry[y].fan
                         /\ n.entry[y].stops = l.entry[y].stops /\ n.entry[y].run.proc = l.entry[y].run.proc
  BY <1>3, <1>7
<1>9. /\ \A a \in Agents : l.agent[a].own \in Entries \cup {None} /\ l.agent[a].target \in Entries \cup {None}
      /\ l.cur \in Entries \cup {None}
  BY GoodParts DEF Goroutines
\* Whoever changes is no starter and closes nothing.
<1>10. \A a \in Agents : \/ n.agent[a] = l.agent[a]
                         \/ /\ l.agent[a].pc \in {"wait", "attach"} /\ n.agent[a].target = None /\ n.agent[a].next = "idle"
                            /\ \/ n.agent[a] = Idle
                               \/ n.agent[a].pc = "owns" /\ n.agent[a].own = x
  BY <1>1, <1>6, <1>7, IdleTyped
<1>11. \A a \in Agents : (Starts(n, a) \/ n.agent[a].pc \in {"exec", "restart"}) => n.agent[a] = l.agent[a]
  BY <1>10, IdleTyped DEF Starts
<1>12. \A s \in Stoppers : n.agent[s] = l.agent[s]
  BY <1>10, GoodParts DEF StopperFits, StopperPlaces, Resources
<1>13. Exists(n, n.cur)
  BY <1>7, <1>8, <1>9, GoodParts DEF Exists
<1>14. OneStarts(n)
  <2> SUFFICES ASSUME NEW u \in Workers, NEW t \in Workers, Starts(n, u), Starts(n, t), n.agent[u].own = n.agent[t].own
               PROVE  u = t
    BY DEF OneStarts
  <2>1. Starts(l, u) /\ Starts(l, t) /\ l.agent[u].own = l.agent[t].own
    BY <1>11 DEF Starts, Agents
  <2>. QED BY <2>1, GoodParts DEF OneStarts
<1>15. Over(n)
  BY SMTT(60), <1>7, <1>8, <1>9, <1>12, GoodParts DEF Over
<1>16. ASSUME NEW a \in Agents PROVE TargetFits(n, a)
  <2>1. CASE n.agent[a] = l.agent[a]
    <3>1. TargetFits(l, a)
      BY GoodParts
    <3>2. l.agent[a].target # None => n.entry[l.agent[a].target].state = l.entry[l.agent[a].target].state
                                      /\ n.entry[l.agent[a].target].fan = l.entry[l.agent[a].target].fan
      BY <1>8, <1>9
    <3>. QED BY <1>7, <2>1, <3>1, <3>2 DEF TargetFits, Exists, Resources
  <2>2. CASE n.agent[a] # l.agent[a]
    BY <1>10, <2>2, IdleTyped DEF TargetFits, Exists, Resources
  <2>. QED BY <2>1, <2>2
<1>17. ASSUME NEW u \in Workers PROVE WorkerFits(n, u)
  <2>1. u \in Agents
    BY SMTT(60) DEF Agents
  <2>2. CASE n.agent[u] = l.agent[u]
    <3>1. WorkerFits(l, u)
      BY GoodParts
    <3>2. Alike(l, n, l.agent[u].own)
      BY <1>7, <1>8, <1>9, <2>1 DEF Alike
    <3>. QED BY <2>2, <3>1, <3>2, SameWorker
  <2>3. CASE n.agent[u] # l.agent[u]
    <3>1. n.entry[x].pub /\ n.entry[x].state # "none" /\ x # None
      BY <1>2, <1>8, GoodParts DEF ListenerAssumption, EntryFits
    <3>. QED BY <1>10, <2>1, <2>3, <3>1, IdleTyped DEF WorkerFits, Exists, Starts, WorkerPlaces, Watching, Resources
  <2>. QED BY <2>2, <2>3
<1>18. ASSUME NEW s \in Stoppers PROVE StopperFits(n, s)
  <2>1. StopperFits(l, s) /\ s \in Agents /\ n.agent[s] = l.agent[s]
    BY <1>12, GoodParts
  <2>. QED BY <1>8, <1>9, <2>1 DEF StopperFits
<1>19. ASSUME NEW y \in Entries PROVE EntryFits(n, y) /\ (Adrift(n, y) => Told(n, y)) /\ PortKept(n, y)
  <2>1. EntryFits(l, y) /\ (Adrift(l, y) => Told(l, y)) /\ PortKept(l, y)
    BY GoodParts
  <2>2. EntryFits(n, y)
    BY <1>7, <1>8, <2>1 DEF EntryFits
  <2>3. Adrift(n, y) => Adrift(l, y)
    BY <1>7, <1>8, <1>11 DEF Adrift, Agents
  <2>4. \A a \in Agents : l.agent[a].pc \in {"detach", "reap", "shut"} => n.agent[a] = l.agent[a]
    BY <1>10
  <2>5. Told(l, y) => Told(n, y)
    BY <2>4 DEF Told
  <2>6. PortKept(n, y)
    <3>1. (\E a \in Agents : l.agent[a].pc \in {"detach", "reap", "shut"} /\ l.agent[a].target = y) =>
          (\E a \in Agents : n.agent[a].pc \in {"detach", "reap", "shut"} /\ n.agent[a].target = y)
      BY <2>4
    <3>. QED BY <1>7, <1>8, <2>1, <3>1 DEF PortKept
  <2>. QED BY <2>1, <2>2, <2>3, <2>5, <2>6
<1>20. Good(n)
  BY <1>7, <1>13, <1>14, <1>15, <1>16, <1>17, <1>18, <1>19 DEF Good
<1>. QED BY <1>1, <1>20, BecomesKeeps

-------------------------------------------------------------------------------
(* Stop and StopAll                                                        *)

\* A goroutine that stops, and has begun, is at one of its places.
LEMMA StopperIs ==
  ASSUME ListenerAssumption, Good(l), NEW s \in Stoppers
  PROVE  /\ s \in Agents /\ s \notin Workers /\ l \in Managers /\ l.agent[s] \in Goroutines
         /\ StopperFits(l, s) /\ TargetFits(l, s) /\ l.agent[s].own = None /\ ~Starts(l, s) /\ Over(l)
         /\ l.cur \in Entries \cup {None} /\ None \notin Entries
BY SMTT(60), GoodParts DEF ListenerAssumption, StopperFits, Starts

\* A stop takes over what the entry has, if anything may be left.
LEMMA StopKeeps == ASSUME ListenerAssumption, Good(l), NEW s \in Stoppers, Stop(s) PROVE Good(l')
<1> DEFINE x == l.cur
           c == [l EXCEPT !.entry[x].cancelled = TRUE]
           r == Returned(s)
<1>1. /\ s \in Agents /\ s \notin Workers /\ l \in Managers /\ l.agent[s] \in Goroutines
      /\ StopperFits(l, s) /\ TargetFits(l, s) /\ l.agent[s].own = None /\ Over(l)
      /\ x \in Entries \cup {None} /\ None \notin Entries
  BY StopperIs
<1>2. l.agent[s].pc = (IF s = All THEN "begin" ELSE "idle")
  BY DEF Stop, At
<1>3. s = All => l.enc = "stopping"
  BY <1>1, <1>2 DEF Over
<1>4. CASE (x = None \/ l.entry[x].state = "stopping") /\ Becomes([l EXCEPT !.agent[s] = r])
  <2> DEFINE n == [l EXCEPT !.agent[s] = r]
  <2>1. r \in Goroutines /\ r.pc = (IF s = All THEN "clear" ELSE "idle") /\ r.own = None /\ r.target = None /\ r.next = "idle"
    BY IdleTyped DEF Returned, Goroutines, StopperPlaces
  <2> HIDE DEF r
  <2>2. n.agent[s] = r /\ n.entry = l.entry /\ n.cur = l.cur /\ n.enc = l.enc
    BY <1>1 DEF Managers
  <2>3. x # None => l.entry[x].cancelled
    BY <1>1, <1>4, GoodParts DEF EntryFits
  <2> HIDE DEF n
  <2>4. TargetFits(n, s)
    BY <2>1, <2>2 DEF TargetFits, Exists, Resources
  <2>5. StopperFits(n, s) /\ (s = All => Over(n))
    BY <1>3, <1>4, <2>1, <2>2, <2>3 DEF StopperFits, Over, StopperPlaces, Resources
  <2>6. Good(n)
    BY <1>1, <1>2, <2>1, <2>4, <2>5, AgentMoves DEF n
  <2>. QED BY <1>4, <2>6, BecomesKeeps DEF n
<1>5. CASE x # None /\ l.entry[x].state = "starting" /\ Becomes([Stopping(c, s, x, "emit") EXCEPT !.cur = None])
  <2> DEFINE e == [l.entry[x] EXCEPT !.cancelled = TRUE]
             g == [l.agent[s] EXCEPT !.pc = "detach", !.target = x, !.next = "emit"]
             n == Put(l, None, s, g, x, e)
  <2>1. x \in Entries /\ l.entry[x] \in Streams
    BY <1>1, <1>5, GoodParts
  <2>2. [Stopping(c, s, x, "emit") EXCEPT !.cur = None] = n
    <3> DEFINE u == [l EXCEPT !.agent[s] = g, !.entry[x] = e]
    <3>1. Stopping(c, s, x, "emit") = u
      BY ZenonT(60), <1>1, <2>1 DEF Stopping, Managers, Goroutines
    <3>2. [u EXCEPT !.cur = None] = n
      <4> HIDE DEF e, g, x
      <4>. QED BY <1>1, <2>1 DEF Put, Managers
    <3> HIDE DEF u, e, g, n, x, c
    <3>. QED BY <3>1, <3>2
  <2>3. e \in Streams /\ e.state = "starting" /\ e.cancelled /\ e.pub = l.entry[x].pub /\ e.fan = l.entry[x].fan
        /\ e.run = l.entry[x].run /\ e.stops = l.entry[x].stops
    BY <1>5, <2>1 DEF Streams
  <2>4. g \in Goroutines /\ g.pc = "detach" /\ g.target = x /\ g.own = None /\ g.next = "emit"
    BY <1>1, <2>1 DEF Goroutines, StopperPlaces, Resources
  <2> HIDE DEF g, e, x
  <2>5. n.cur = None /\ n.agent[s] = g /\ n.entry[x] = e /\ n.enc = l.enc
    BY <1>1, <2>1 DEF Put, Managers
  <2> HIDE DEF n
  <2>6. EntryGoes(l, n, x)
    BY <1>5, <2>3, <2>5 DEF EntryGoes, x
  <2>7. TargetFits(n, s)
    BY <1>1, <2>1, <2>3, <2>4, <2>5 DEF TargetFits, Exists, Resources
  <2>8. StopperFits(n, s) /\ (s = All => Over(n))
    BY <1>3, <2>3, <2>4, <2>5 DEF StopperFits, Over, StopperPlaces, Resources
  <2>9. (Adrift(n, x) => Told(n, x)) /\ PortKept(n, x)
    BY SMTT(60), <1>1, <2>3, <2>4, <2>5 DEF Adrift, PortKept
  <2>10. Good(n)
    BY <1>1, <1>2, <1>5, <2>1, <2>3, <2>4, <2>6, <2>7, <2>8, <2>9, PutKeeps DEF n, x
  <2>. QED BY <1>5, <2>2, <2>10, BecomesKeeps
<1>6. CASE x # None /\ l.entry[x].state \notin {"starting", "stopping"}
           /\ Becomes([Stopping(c, s, x, "emit") EXCEPT !.entry[x].state = "stopping"])
  <2> DEFINE d == [l.entry[x] EXCEPT !.cancelled = TRUE]
             e == [d EXCEPT !.state = "stopping"]
             g == [l.agent[s] EXCEPT !.pc = "detach", !.target = x, !.next = "emit"]
             n == Put(l, l.cur, s, g, x, e)
  <2>1. x \in Entries /\ l.entry[x] \in Streams /\ l.entry[x].pub
    BY <1>1, <1>6, GoodParts DEF Exists, EntryFits, Streams, States
  <2>2. [Stopping(c, s, x, "emit") EXCEPT !.entry[x].state = "stopping"] = n
    <3> DEFINE u == [l EXCEPT !.agent[s] = g, !.entry[x] = d]
    <3>1. Stopping(c, s, x, "emit") = u
      BY ZenonT(60), <1>1, <2>1 DEF Stopping, Managers, Goroutines
    <3>2. u.entry[x] = d
      <4> HIDE DEF d, g
      <4>. QED BY <1>1, <2>1 DEF Managers
    <3>3. [u EXCEPT !.entry[x].state = "stopping"] = [u EXCEPT !.entry[x] = e]
      <4> HIDE DEF d, u
      <4>. QED BY <3>2
    <3>4. [u EXCEPT !.entry[x] = e] = n
      <4> HIDE DEF d, e, g, x
      <4>. QED BY ZenonT(60), <1>1, <2>1 DEF Put, Managers, x
    <3> HIDE DEF u, d, e, g, n, x, c
    <3>. QED BY <3>1, <3>3, <3>4
  <2>3. e \in Streams /\ e.state = "stopping" /\ e.cancelled /\ e.pub = l.entry[x].pub /\ e.fan = l.entry[x].fan
        /\ e.run = l.entry[x].run /\ e.stops = l.entry[x].stops
    BY <2>1 DEF Streams, States
  <2>4. g \in Goroutines /\ g.pc = "detach" /\ g.target = x /\ g.own = None /\ g.next = "emit"
    BY <1>1, <2>1 DEF Goroutines, StopperPlaces, Resources
  <2> HIDE DEF g, e, d, x
  <2>5. n.cur = x /\ n.agent[s] = g /\ n.entry[x] = e /\ n.enc = l.enc
    BY <1>1, <2>1 DEF Put, Managers, x
  <2> HIDE DEF n
  <2>6. EntryGoes(l, n, x)
    BY <2>1, <2>3, <2>5 DEF EntryGoes
  <2>7. TargetFits(n, s)
    BY <1>1, <2>1, <2>3, <2>4, <2>5 DEF TargetFits, Exists, Resources
  <2>8. StopperFits(n, s) /\ (s = All => Over(n))
    BY <1>3, <2>3, <2>4, <2>5 DEF StopperFits, Over, StopperPlaces, Resources
  <2>9. Good(n)
    BY <1>1, <1>2, <2>1, <2>3, <2>4, <2>6, <2>7, <2>8, PutKeeps DEF n
  <2>. QED BY <1>6, <2>2, <2>9, BecomesKeeps
<1>. QED BY SMTT(60), <1>4, <1>5, <1>6 DEF Stop

\* The event of the Stop is emitted when everything has stopped.
LEMMA EmitKeeps == ASSUME ListenerAssumption, Good(l), NEW s \in Stoppers, Emit(s) PROVE Good(l')
<1> DEFINE x == Target(s)
           e == [l.entry[x] EXCEPT !.stops = @ + 1]
           g == [l.agent[s] EXCEPT !.pc = "delete"]
           n == Put(l, l.cur, s, g, x, e)
<1>1. /\ s \in Agents /\ s \notin Workers /\ l \in Managers /\ l.agent[s] \in Goroutines
      /\ StopperFits(l, s) /\ TargetFits(l, s) /\ l.agent[s].own = None /\ Over(l)
      /\ l.cur \in Entries \cup {None} /\ None \notin Entries
  BY StopperIs
<1>2. l.agent[s].pc = "emit" /\ Becomes([Goto(l, s, "delete") EXCEPT !.entry[x].stops = @ + 1])
  BY DEF Emit, At
<1>3. /\ x \in Entries /\ l.agent[s].target = x /\ l.entry[x] \in Streams /\ l.agent[s].next = "idle"
      /\ l.entry[x].fan \in {"none", "closed"} /\ l.entry[x].cancelled
      /\ (l.cur = x => l.entry[x].state \notin {"starting", "running"}) /\ l.entry[x].state # "none"
  <2>1. x \in Entries /\ l.agent[s].target = x
    BY <1>1, <1>2 DEF Target, TargetFits, Goroutines
  <2>2. l.entry[x] \in Streams
    BY <2>1, GoodParts
  <2>. QED BY SMTT(60), <1>1, <1>2, <2>1, <2>2 DEF TargetFits, StopperFits, Exists, Resources, Streams
<1>4. [Goto(l, s, "delete") EXCEPT !.entry[x].stops = @ + 1] = n
  BY <1>1, <1>3 DEF Goto, Put, Managers
<1>5. e \in Streams /\ e.state = l.entry[x].state /\ e.cancelled /\ e.pub = l.entry[x].pub /\ e.fan = l.entry[x].fan
      /\ e.run = l.entry[x].run
  BY <1>3 DEF Streams
<1>6. g \in Goroutines /\ g.pc = "delete" /\ g.target = x /\ g.own = None /\ g.next = "idle"
  BY <1>1, <1>3 DEF Goroutines, StopperPlaces, Resources
<1> HIDE DEF g, e, x
<1>7. n.cur = l.cur /\ n.agent[s] = g /\ n.entry[x] = e /\ n.enc = l.enc /\ \A y \in Entries \ {x} : n.entry[y] = l.entry[y]
  BY <1>1, <1>3 DEF Put, Managers
<1> HIDE DEF n
<1>8. EntryFits(n, x)
  BY <1>3, <1>5, <1>7, GoodParts DEF EntryFits
<1>9. EntryGoes(l, n, x)
  BY <1>3, <1>5, <1>7, <1>8 DEF EntryGoes
<1>10. TargetFits(n, s)
  BY <1>1, <1>3, <1>5, <1>6, <1>7 DEF TargetFits, Exists, Resources
<1>11. StopperFits(n, s) /\ (s = All => Over(n))
  <2>1. l.cur # None => (l.entry[l.cur].cancelled => n.entry[l.cur].cancelled) /\ n.entry[l.cur].state = l.entry[l.cur].state
    BY <1>1, <1>3, <1>5, <1>7
  <2>. QED BY <1>1, <1>2, <1>5, <1>6, <1>7, <2>1 DEF StopperFits, Over, StopperPlaces, Resources
<1>12. Good(n)
  BY <1>1, <1>2, <1>3, <1>5, <1>6, <1>9, <1>10, <1>11, PutKeeps DEF n
<1>. QED BY <1>2, <1>4, <1>12, BecomesKeeps DEF x

\* The entry goes, unless another has taken its place.
LEMMA DeleteKeeps == ASSUME ListenerAssumption, Good(l), NEW s \in Stoppers, Delete(s) PROVE Good(l')
<1> DEFINE x == Target(s)
           r == Returned(s)
           c == IF l.cur = x THEN None ELSE l.cur
           n == [l EXCEPT !.cur = c, !.agent[s] = r]
<1>1. /\ s \in Agents /\ s \notin Workers /\ l \in Managers /\ l.agent[s] \in Goroutines
      /\ StopperFits(l, s) /\ TargetFits(l, s) /\ l.agent[s].own = None /\ Over(l)
      /\ l.cur \in Entries \cup {None} /\ None \notin Entries
  BY StopperIs
<1>2. l.agent[s].pc = "delete" /\ Becomes([l EXCEPT !.cur = IF @ = x THEN None ELSE @, !.agent[s] = r])
  BY SMTT(60) DEF Delete, At
<1>3. x # None /\ l.entry[x].fan # "bound" /\ l.entry[x].cancelled
  BY <1>1, <1>2 DEF Target, TargetFits, StopperFits, Resources
<1>4. r \in Goroutines /\ r.pc = (IF s = All THEN "clear" ELSE "idle") /\ r.own = None /\ r.target = None /\ r.next = "idle"
  BY IdleTyped DEF Returned, Goroutines, StopperPlaces
<1>5. [l EXCEPT !.cur = IF @ = x THEN None ELSE @, !.agent[s] = r] = n
  OBVIOUS
<1>6. c \in {l.cur, None} /\ (c # l.cur => l.cur = x)
  OBVIOUS
<1> HIDE DEF r, c, x
<1>7. n.cur = c /\ n.entry = l.entry
  BY <1>1 DEF Managers
<1> HIDE DEF n
<1>8. c # l.cur => ~Adrift(n, l.cur) /\ PortKept(n, l.cur)
  BY SMTT(60), <1>3, <1>6, <1>7 DEF Adrift, PortKept
<1>9. Good(n)
  BY <1>1, <1>2, <1>4, <1>6, <1>8, LeaveKeeps DEF n
<1>. QED BY <1>2, <1>5, <1>9, BecomesKeeps

-------------------------------------------------------------------------------
(* The encoder and the configuration                                       *)

\* They may change, unless StopAll needs the encoder to be stopping.
LEMMA AroundKeeps ==
  ASSUME NEW v, Good(v), NEW e \in {"stopped", "starting", "running", "stopping"}, NEW b \in BOOLEAN,
         All \in Stoppers /\ v.agent[All].pc # "idle" => e = v.enc
  PROVE  Good([v EXCEPT !.enc = e, !.enabled = b])
<1> DEFINE n == [v EXCEPT !.enc = e, !.enabled = b]
<1>1. n \in Managers /\ n.cur = v.cur /\ n.entry = v.entry /\ n.agent = v.agent /\ n.enc = e
  <2>1. v \in Managers
    BY GoodParts
  <2>. QED BY <2>1 DEF Managers
<1> HIDE DEF n
<1>2. Exists(n, n.cur) /\ OneStarts(n) /\ Over(n)
  BY <1>1, GoodParts DEF Exists, OneStarts, Starts, Over
<1>3. \A x : Alike(v, n, x)
  BY <1>1 DEF Alike
<1>4. ASSUME NEW a \in Agents PROVE TargetFits(n, a)
  BY <1>1, <1>3, GoodParts, SameTarget
<1>5. /\ \A w \in Workers : WorkerFits(n, w)
      /\ \A s \in Stoppers : StopperFits(n, s)
  <2>1. ASSUME NEW w \in Workers PROVE WorkerFits(n, w)
    BY <1>1, <1>3, GoodParts, SameWorker
  <2>2. ASSUME NEW s \in Stoppers PROVE StopperFits(n, s)
    BY <1>1, GoodParts, SameStopper
  <2>. QED BY <2>1, <2>2
<1>6. \A x \in Entries : EntryFits(n, x) /\ (Adrift(n, x) => Told(n, x)) /\ PortKept(n, x)
  BY <1>1, GoodParts DEF EntryFits, Adrift, Told, PortKept
<1>7. Good(n)
  BY <1>1, <1>2, <1>3, <1>4, <1>5, <1>6 DEF Good
<1>. QED BY <1>7 DEF n

\* The encoder starts and fails without StopAll; the stream is disabled.
LEMMA TurnsKeep ==
  ASSUME ListenerAssumption, Good(l),
         Disable \/ \E a, b \in {"stopped", "starting", "running"} : EncoderTurns(a, b)
  PROVE  Good(l')
<1>1. l \in Managers /\ l.enc \in {"stopped", "starting", "running", "stopping"} /\ l.enabled \in BOOLEAN
  BY GoodParts DEF Managers
<1>2. CASE Disable
  <2>1. [l EXCEPT !.enabled = FALSE] = [l EXCEPT !.enc = l.enc, !.enabled = FALSE]
    BY <1>1 DEF Managers
  <2>2. Good([l EXCEPT !.enc = l.enc, !.enabled = FALSE])
    BY <1>1, AroundKeeps
  <2>. QED BY <1>2, <2>1, <2>2, BecomesKeeps DEF Disable
<1>3. CASE \E a, b \in {"stopped", "starting", "running"} : EncoderTurns(a, b)
  <2>1. PICK a \in {"stopped", "starting", "running"}, b \in {"stopped", "starting", "running"} : EncoderTurns(a, b)
    BY <1>3
  <2>2. l.enc # "stopping" /\ Becomes([l EXCEPT !.enc = b])
    BY <2>1 DEF EncoderTurns
  <2>3. All \in Stoppers => l.agent[All].pc = "idle"
    BY <2>2, GoodParts DEF Over
  <2>4. [l EXCEPT !.enc = b] = [l EXCEPT !.enc = b, !.enabled = l.enabled]
    BY <1>1 DEF Managers
  <2>5. Good([l EXCEPT !.enc = b, !.enabled = l.enabled])
    BY <1>1, <2>3, AroundKeeps
  <2>. QED BY <2>2, <2>4, <2>5, BecomesKeeps
<1>. QED BY <1>2, <1>3

\* The encoder stops: StopAll begins, every monitor is told.
LEMMA EncoderStopsKeeps == ASSUME ListenerAssumption, Good(l), EncoderStops PROVE Good(l')
<1> DEFINE g == [Idle EXCEPT !.pc = "begin"]
           agents == [a \in Agents |-> IF a = All THEN g ELSE [l.agent[a] EXCEPT !.chan = FALSE]]
           n == [l EXCEPT !.enc = "stopping", !.agent = agents]
<1>1. All \in Stoppers /\ l.enc \in {"starting", "running"} /\ Becomes(n)
  BY DEF EncoderStops
<1>2. /\ All \in Agents /\ All \notin Workers /\ l \in Managers /\ StopperFits(l, All) /\ TargetFits(l, All)
      /\ l.agent[All].own = None /\ Over(l)
  BY <1>1, StopperIs
<1>3. l.agent[All].pc = "idle" /\ l.agent[All].target = None /\ l.agent[All].next = "idle"
  BY <1>1, <1>2 DEF Over, TargetFits, Resources
<1>4. g \in Goroutines /\ g.pc = "begin" /\ g.own = None /\ g.target = None /\ g.next = "idle"
  BY IdleTyped DEF Goroutines, WorkerPlaces
<1> HIDE DEF g
<1>5. agents \in [Agents -> Goroutines]
  BY <1>4, GoodParts DEF Goroutines
<1>6. \A a \in Agents : /\ agents[a].own = l.agent[a].own /\ agents[a].target = l.agent[a].target
                        /\ agents[a].next = l.agent[a].next
                        /\ agents[a].pc = IF a = All THEN "begin" ELSE l.agent[a].pc
  BY <1>2, <1>3, <1>4, GoodParts DEF Goroutines
<1> HIDE DEF agents
<1>7. n \in Managers /\ n.cur = l.cur /\ n.entry = l.entry /\ n.enc = "stopping" /\ n.agent = agents
  BY <1>2, <1>5 DEF Managers
<1> HIDE DEF n
<1>8. Exists(n, n.cur) /\ Over(n)
  BY <1>2, <1>6, <1>7, GoodParts DEF Exists, Over
<1>9. \A w \in Workers : Starts(n, w) <=> Starts(l, w)
  BY <1>2, <1>6, <1>7 DEF Starts, Agents
<1>10. OneStarts(n)
  BY SMTT(60), <1>6, <1>7, <1>9, GoodParts DEF OneStarts
<1>11. ASSUME NEW a \in Agents PROVE TargetFits(n, a)
  <2>1. TargetFits(l, a)
    BY GoodParts
  <2>2. /\ n.agent[a].own = l.agent[a].own /\ n.agent[a].target = l.agent[a].target /\ n.agent[a].next = l.agent[a].next
        /\ n.agent[a].pc = l.agent[a].pc \/ (l.agent[a].pc = "idle" /\ n.agent[a].pc = "begin")
    BY SMTT(60), <1>3, <1>6, <1>7
  <2>. QED BY <1>7, <2>1, <2>2 DEF TargetFits, Exists, Resources
<1>12. ASSUME NEW w \in Workers PROVE WorkerFits(n, w)
  <2>1. WorkerFits(l, w) /\ w \in Agents /\ w # All
    BY <1>2, GoodParts
  <2>2. /\ n.agent[w].own = l.agent[w].own /\ n.agent[w].target = l.agent[w].target /\ n.agent[w].next = l.agent[w].next
        /\ n.agent[w].pc = l.agent[w].pc
    BY <1>6, <1>7, <2>1
  <2>. QED BY <1>7, <1>9, <2>1, <2>2 DEF WorkerFits, Exists
<1>13. ASSUME NEW s \in Stoppers PROVE StopperFits(n, s)
  <2>1. StopperFits(l, s) /\ s \in Agents
    BY GoodParts
  <2>2. /\ n.agent[s].own = l.agent[s].own /\ n.agent[s].target = l.agent[s].target /\ n.agent[s].next = l.agent[s].next
        /\ n.agent[s].pc = l.agent[s].pc \/ (l.agent[s].pc = "idle" /\ n.agent[s].pc = "begin")
    BY <1>3, <1>6, <1>7, <2>1
  <2>. QED BY <1>7, <2>1, <2>2 DEF StopperFits, StopperPlaces, Resources
<1>14. ASSUME NEW x \in Entries PROVE EntryFits(n, x) /\ (Adrift(n, x) => Told(n, x)) /\ PortKept(n, x)
  <2>1. EntryFits(l, x) /\ (Adrift(l, x) => Told(l, x)) /\ PortKept(l, x)
    BY GoodParts
  <2>2. EntryFits(n, x)
    BY <1>7, <2>1 DEF EntryFits
  <2>3. Adrift(n, x) => Adrift(l, x)
    BY <1>2, <1>6, <1>7 DEF Adrift, Agents
  <2>4. Told(l, x) => Told(n, x)
    BY <1>3, <1>6, <1>7 DEF Told
  <2>5. PortKept(n, x)
    <3>1. \A a \in Agents : l.agent[a].pc \in {"detach", "reap", "shut"} =>
            n.agent[a].pc = l.agent[a].pc /\ n.agent[a].target = l.agent[a].target
      BY <1>3, <1>6, <1>7
    <3>. QED BY <1>7, <2>1, <3>1 DEF PortKept
  <2>. QED BY <2>1, <2>2, <2>3, <2>4, <2>5
<1>15. Good(n)
  BY <1>7, <1>8, <1>10, <1>11, <1>12, <1>13, <1>14 DEF Good
<1>. QED BY <1>1, <1>15, BecomesKeeps

\* StopAll clears the map; what is still in it neither runs nor keeps its port.
LEMMA ClearKeeps == ASSUME ListenerAssumption, Good(l), Clear PROVE Good(l')
<1> DEFINE v == [l EXCEPT !.cur = None, !.agent[All] = Idle]
           n == [l EXCEPT !.cur = None, !.agent[All] = Idle, !.enc = "stopped"]
<1>1. All \in Stoppers /\ l.agent[All].pc = "clear" /\ Becomes(n)
  BY DEF Clear, At
<1>2. /\ All \in Agents /\ l \in Managers /\ Over(l) /\ l.cur \in Entries \cup {None} /\ None \notin Entries
  BY <1>1, StopperIs
<1>3. v.cur = None /\ v.entry = l.entry /\ v.agent[All] = Idle /\ \A b \in Agents \ {All} : v.agent[b] = l.agent[b]
  BY <1>2 DEF Managers
<1>4. n = [v EXCEPT !.enc = "stopped", !.enabled = v.enabled]
  BY <1>2 DEF Managers
<1> HIDE DEF v
<1>5. l.cur # None => ~Adrift(v, l.cur) /\ PortKept(v, l.cur)
  <2> SUFFICES ASSUME l.cur # None PROVE ~Adrift(v, l.cur) /\ PortKept(v, l.cur)
    OBVIOUS
  <2>1. l.cur \in Entries /\ l.entry[l.cur].cancelled /\ l.entry[l.cur].state \notin {"starting", "running"} /\ PortKept(l, l.cur)
    BY <1>1, <1>2, GoodParts DEF Over
  <2>2. \A a \in Agents : Closes(l, a, l.cur) => Closes(v, a, l.cur)
    BY <1>1, <1>3 DEF Closes
  <2>. QED BY <1>3, <2>1, <2>2 DEF Adrift, PortKept, Closes
<1>6. Good(v)
  BY <1>1, <1>2, <1>5, IdleTyped, LeaveKeeps DEF v
<1>7. v.enabled \in BOOLEAN
  BY SMTT(60), <1>6, GoodParts DEF Managers
<1>8. Good([v EXCEPT !.enc = "stopped", !.enabled = v.enabled])
  BY <1>3, <1>6, <1>7, IdleTyped, AroundKeeps
<1>. QED BY <1>1, <1>4, <1>8, BecomesKeeps

-------------------------------------------------------------------------------
(* FFmpeg, the goroutines of a run, the SRT server                         *)

\* A run only comes to its end.
LEMMA RunsEnd ==
  ASSUME ListenerAssumption, Good(l), NEW x \in Entries, Exits(x) \/ ClosesOutput(x) \/ WriterEnds(x) \/ Escalate(x)
  PROVE  Good(l')
<1>1. l \in Managers /\ l.entry[x] \in Streams /\ l.entry[x].run \in Runs
  BY GoodParts DEF Streams
<1>2. CASE Becomes([l EXCEPT !.entry[x].run.proc = "dead"])
  <2>1. [l.entry[x].run EXCEPT !.proc = "dead"] \in Runs /\ [l.entry[x].run EXCEPT !.proc = "dead"].proc = "dead"
    BY <1>1 DEF Runs
  <2>2. [l EXCEPT !.entry[x].run.proc = "dead"]
        = [l EXCEPT !.entry[x] = [l.entry[x] EXCEPT !.run = [l.entry[x].run EXCEPT !.proc = "dead"]]]
    OBVIOUS
  <2>3. Good([l EXCEPT !.entry[x] = [l.entry[x] EXCEPT !.run = [l.entry[x].run EXCEPT !.proc = "dead"]]])
    BY <2>1, RunMoves
  <2>. QED BY <1>2, <2>2, <2>3, BecomesKeeps
<1>3. CASE Becomes([l EXCEPT !.entry[x].run.out = FALSE])
  <2>1. [l.entry[x].run EXCEPT !.out = FALSE] \in Runs /\ [l.entry[x].run EXCEPT !.out = FALSE].proc = l.entry[x].run.proc
    BY <1>1 DEF Runs
  <2>2. [l EXCEPT !.entry[x].run.out = FALSE]
        = [l EXCEPT !.entry[x] = [l.entry[x] EXCEPT !.run = [l.entry[x].run EXCEPT !.out = FALSE]]]
    OBVIOUS
  <2>3. Good([l EXCEPT !.entry[x] = [l.entry[x] EXCEPT !.run = [l.entry[x].run EXCEPT !.out = FALSE]]])
    BY <2>1, RunMoves
  <2>. QED BY <1>3, <2>2, <2>3, BecomesKeeps
<1>4. CASE Becomes([l EXCEPT !.entry[x].run.writer = FALSE])
  <2>1. [l.entry[x].run EXCEPT !.writer = FALSE] \in Runs /\ [l.entry[x].run EXCEPT !.writer = FALSE].proc = l.entry[x].run.proc
    BY <1>1 DEF Runs
  <2>2. [l EXCEPT !.entry[x].run.writer = FALSE]
        = [l EXCEPT !.entry[x] = [l.entry[x] EXCEPT !.run = [l.entry[x].run EXCEPT !.writer = FALSE]]]
    OBVIOUS
  <2>3. Good([l EXCEPT !.entry[x] = [l.entry[x] EXCEPT !.run = [l.entry[x].run EXCEPT !.writer = FALSE]]])
    BY <2>1, RunMoves
  <2>. QED BY <1>4, <2>2, <2>3, BecomesKeeps
<1>. QED BY <1>2, <1>3, <1>4 DEF Exits, ClosesOutput, WriterEnds, Escalate

\* The server has let the port go.
LEMMA ClosedKeeps == ASSUME ListenerAssumption, Good(l), NEW x \in Entries, Closed(x) PROVE Good(l')
<1> DEFINE e == [l.entry[x] EXCEPT !.fan = "closed"]
<1>1. l \in Managers /\ l.entry[x] \in Streams
  BY GoodParts
<1>2. l.entry[x].fan = "closing" /\ Becomes([l EXCEPT !.entry[x].fan = "closed"])
  BY DEF Closed
<1>3. /\ e \in Streams /\ e.state = l.entry[x].state /\ e.cancelled = l.entry[x].cancelled
      /\ e.pub = l.entry[x].pub /\ e.run = l.entry[x].run /\ e.stops = l.entry[x].stops /\ e.fan = "closed"
  BY <1>1 DEF Streams
<1>4. [l EXCEPT !.entry[x].fan = "closed"] = [l EXCEPT !.entry[x] = e]
  OBVIOUS
<1> HIDE DEF e
<1>5. Good([l EXCEPT !.entry[x] = e])
  BY <1>2, <1>3, EntryMoves
<1>. QED BY <1>2, <1>4, <1>5, BecomesKeeps

-------------------------------------------------------------------------------
(* The system                                                              *)

\* At first there is nothing.
LEMMA InitGood == ASSUME ListenerAssumption, Init PROVE Good(l)
<1>1. /\ l.cur = None /\ l.entry = [x \in Entries |-> Blank] /\ l.agent = [a \in Agents |-> Idle]
      /\ l.enc = "stopped" /\ l \in Managers
  BY BlankTyped, IdleTyped DEF Init, Managers
<1>2. /\ \A a \in Agents : l.agent[a].pc = "idle" /\ l.agent[a].own = None /\ l.agent[a].target = None
                           /\ l.agent[a].next = "idle"
      /\ \A x \in Entries : l.entry[x] = Blank
  BY <1>1, IdleTyped
<1>3. Exists(l, l.cur) /\ OneStarts(l) /\ Over(l)
  BY <1>1, <1>2 DEF Exists, OneStarts, Starts, Over, Agents
<1>4. \A a \in Agents : TargetFits(l, a)
  BY <1>1, <1>2 DEF TargetFits, Exists, Resources
<1>5. \A w \in Workers : WorkerFits(l, w)
  BY <1>1, <1>2 DEF WorkerFits, Exists, Starts, WorkerPlaces, Watching, Agents
<1>6. \A s \in Stoppers : StopperFits(l, s)
  BY <1>1, <1>2 DEF StopperFits, StopperPlaces, Resources, Agents
<1>7. \A x \in Entries : EntryFits(l, x) /\ ~Adrift(l, x) /\ PortKept(l, x)
  <2>1. \A x \in Entries : /\ l.entry[x].state = "none" /\ ~l.entry[x].pub /\ l.entry[x].stops = 0
                            /\ l.entry[x].fan = "none" /\ l.entry[x].run.proc = "none"
    <3>1. Blank.state = "none" /\ Blank.pub = FALSE /\ Blank.stops = 0 /\ Blank.fan = "none" /\ Blank.run.proc = "none"
      BY DEF Blank, NoRun
    <3>. QED BY <1>2, <3>1
  <2>2. \A w \in Workers : l.agent[w].pc = "idle"
    BY <1>2 DEF Agents
  <2>3. ASSUME NEW x \in Entries PROVE EntryFits(l, x)
    BY <2>1 DEF EntryFits
  <2>4. ASSUME NEW x \in Entries PROVE ~Adrift(l, x) /\ PortKept(l, x)
    BY <2>1, <2>2 DEF Adrift, PortKept
  <2>. QED BY <2>3, <2>4
<1>. QED BY <1>1, <1>3, <1>4, <1>5, <1>6, <1>7 DEF Good

\* Every step keeps it.
LEMMA NextKeeps == ASSUME ListenerAssumption, Good(l), [Next]_l PROVE Good(l')
<1>1. ASSUME NEW w \in Workers, Start(w) \/ Work(w) PROVE Good(l')
  <2>1. w \in Agents
    BY DEF Agents
  <2>2. CASE StopResources(w)
    BY <2>1, <2>2, DetachKeeps, ReapKeeps, ShutKeeps, DrainKeeps DEF StopResources
  <2>3. CASE Start(w) \/ Claim(w) \/ Unclaim(w) \/ Publish(w)
    BY <2>3, StartKeeps, ClaimKeeps, UnclaimKeeps, PublishKeeps
  <2>4. CASE \E b \in BOOLEAN : Bind(w, b) \/ Exec(w, b) \/ Record(w, b) \/ Restart(w, b)
    BY <2>4, BindKeeps, ExecKeeps, RecordKeeps, RestartKeeps
  <2>5. CASE Begin(w) \/ OutputEnds(w) \/ Finish(w) \/ Count(w) \/ Reserve(w) \/ Attach(w) \/ Keep(w) \/ RemoveIfOwned(w)
    BY <2>5, BeginKeeps, OutputEndsKeeps, FinishKeeps, CountKeeps, ReserveKeeps, AttachKeeps, KeepKeeps, RemoveKeeps
  <2>6. CASE Top(w) \/ Exited(w) \/ Check(w) \/ Backoff(w) \/ Release(w)
    BY <2>6, PlainSteps
  <2>. QED BY <1>1, <2>2, <2>3, <2>4, <2>5, <2>6 DEF Work
<1>2. ASSUME NEW s \in Stoppers, Stop(s) \/ StopWork(s) PROVE Good(l')
  <2>1. s \in Agents
    BY DEF Agents
  <2>2. CASE StopResources(s)
    BY <2>1, <2>2, DetachKeeps, ReapKeeps, ShutKeeps, DrainKeeps DEF StopResources
  <2>3. CASE Stop(s) \/ Emit(s) \/ Delete(s)
    BY <2>3, StopKeeps, EmitKeeps, DeleteKeeps
  <2>. QED BY <1>2, <2>2, <2>3 DEF StopWork
<1>3. CASE Clear \/ EncoderStops
  BY <1>3, ClearKeeps, EncoderStopsKeeps
<1>4. CASE Disable \/ \E a, b \in {"stopped", "starting", "running"} : EncoderTurns(a, b)
  BY <1>4, TurnsKeep
<1>5. CASE \E x \in Entries : Exits(x) \/ ClosesOutput(x) \/ WriterEnds(x) \/ Escalate(x) \/ Closed(x)
  BY <1>5, RunsEnd, ClosedKeeps
<1>6. CASE UNCHANGED l
  BY <1>6
<1>. QED BY <1>1, <1>2, <1>3, <1>4, <1>5, <1>6 DEF Next

\* The invariant says that nothing is stranded and that a reported Stop is over.
LEMMA GoodSound == ASSUME ListenerAssumption, Good(l) PROVE NothingStranded /\ StoppedIsOver
<1>1. ASSUME NEW x \in Entries, ~Handled(x), l.entry[x].run.proc = "alive", ~l.entry[x].cancelled PROVE l.cur = x
  <2>1. \A a \in Agents : l.agent[a].target # x
    BY <1>1 DEF Handled, Target
  <2>2. ~Told(l, x)
    BY <2>1 DEF Told
  <2>. QED BY <1>1, <2>2, GoodParts DEF Adrift
<1>2. ASSUME NEW x \in Entries, ~Handled(x), l.entry[x].fan = "bound" PROVE l.cur = x /\ l.entry[x].state # "error"
  <2>1. \A a \in Agents : l.agent[a].target # x
    BY <1>2 DEF Handled, Target
  <2>. QED BY <1>2, <2>1, GoodParts DEF PortKept
<1>3. StoppedIsOver
  BY GoodParts DEF StoppedIsOver, EntryFits
<1>. QED BY <1>1, <1>2, <1>3 DEF NothingStranded

\* It holds in every reachable state.
LEMMA AlwaysGood == ASSUME ListenerAssumption PROVE Spec => []Good(l)
<1>1. Init => Good(l)
  BY InitGood
<1>2. Good(l) /\ [Next]_l => Good(l)'
  BY NextKeeps
<1>. QED BY <1>1, <1>2, PTL DEF Spec

\* However starts, monitors, retries, Stops and StopAll cross, no encoder run that was not
\* told to end and no bound port is left to an entry that is not managed any more.
THEOREM NothingIsStranded == ASSUME ListenerAssumption PROVE Spec => []NothingStranded
<1>1. Good(l) => NothingStranded
  BY GoodSound
<1>. QED BY <1>1, AlwaysGood, PTL

\* Whenever stream_stopped has been reported of an entry its port is free and its encoder
\* has ended or is told to, for good.
THEOREM StoppedStaysOver == ASSUME ListenerAssumption PROVE Spec => []StoppedIsOver
<1>1. Good(l) => StoppedIsOver
  BY GoodSound
<1>. QED BY <1>1, AlwaysGood, PTL
===============================================================================
