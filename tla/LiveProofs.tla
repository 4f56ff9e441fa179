------------------------------ MODULE LiveProofs -------------------------------
(***************************************************************************)
(* Proofs about the components of MCLive.                                  *)
(*                                                                         *)
(* Fan-out, for any set of connections and any length of their queues:     *)
(* what a client has been sent and what is queued for it are in the order  *)
(* of the chunks, and the newest chunk ends the queue of everybody that    *)
(* Write has passed.  A full queue loses its first chunk only, so neither  *)
(* part is ever disturbed.                                                 *)
(*                                                                         *)
(* The process of a recording, for channels and pipes of any capacity and  *)
(* inputs of any length: a segment whose finalization reports no error has *)
(* every chunk.  IInv follows the chunks on their way: as long as nothing  *)
(* went wrong, what the channel took has been read by FFmpeg, is in the    *)
(* pipe, in the writer's hand or still queued, and stdin is closed only    *)
(* when the last two are empty.                                            *)
(*                                                                         *)
(* Streams: CallerStreamProofs and ListenerStreamProofs prove the          *)
(* properties of the two modes; here they become properties of this        *)
(* system, in which one goroutine starts the stream.                       *)
(***************************************************************************)
EXTENDS MCLive, SequenceTheorems, TLAPS

-------------------------------------------------------------------------------
(* Fanout                                                                  *)

\* The states of a connection.
FanStates == {"none", "admitted", "subscribed", "leaving", "removed", "gone"}

\* The state of the fan-out is well typed.
FanTyped ==
  /\ conn \in [Conns -> FanStates] /\ queue \in [Conns -> Seq(Nat)] /\ sent \in [Conns -> Nat]
  /\ subscribers \subseteq Conns /\ writing \subseteq subscribers /\ evicting \subseteq writing
  /\ done \subseteq Conns /\ snapshot \subseteq Conns /\ chunk \in Nat

\* A queue is for a connection that subscribed.
QueueOfSubscriber ==
  /\ \A c \in Conns : conn[c] \in {"none", "admitted"} => queue[c] = <<>>
  /\ \A c \in subscribers : conn[c] \notin {"none", "admitted"}

\* Chunks are sent and queued in the order of their numbers, up to the newest ...
Ordered(c) ==
  \A i \in 1 .. Len(queue[c]) : queue[c][i] > (IF i = 1 THEN sent[c] ELSE queue[c][i - 1])

\* ... which is not queued for those that Write has still to offer it to.
Before(c, n) == IF c \in writing THEN n < chunk ELSE n <= chunk

UpToNow(c) == Before(c, sent[c]) /\ \A i \in 1 .. Len(queue[c]) : Before(c, queue[c][i])

\* The newest chunk is the last one of every other subscriber that has any.
HasNewest(c) ==
  c \notin writing \cup done /\ conn[c] = "subscribed" /\ queue[c] # <<>> =>
    queue[c][Len(queue[c])] = chunk

\* The inductive invariant.
FanInv ==
  FanTyped /\ QueueOfSubscriber /\ \A c \in Conns : Ordered(c) /\ UpToNow(c) /\ (c \in subscribers => HasNewest(c))

\* It holds when the server starts.
LEMMA FanInit == F!Init => FanInv
BY DEF F!Init, FanInv, FanTyped, FanStates, QueueOfSubscriber, Ordered, UpToNow, Before, HasNewest

\* What is asked of one connection.
FanOrder(c) == Ordered(c) /\ UpToNow(c) /\ (c \in subscribers => HasNewest(c))

\* A connection whose queue stays, while others move.
LEMMA FanUntouched ==
  ASSUME FanInv, NEW c \in Conns, queue'[c] = queue[c], sent'[c] = sent[c], chunk' = chunk,
         c \in writing' <=> c \in writing, done \subseteq done',
         c \in subscribers' => c \in subscribers, conn'[c] = "subscribed" => conn[c] = "subscribed"
  PROVE  FanOrder(c)'
<1>1. Ordered(c) /\ UpToNow(c) /\ (c \in subscribers => HasNewest(c))
  BY DEF FanInv
<1>. QED BY <1>1 DEF FanOrder, Ordered, UpToNow, Before, HasNewest

\* A connection is accepted, turned away or subscribed: its queue is empty.
LEMMA FanAdmission ==
  ASSUME FanInv, NEW c \in Conns, NEW a \in BOOLEAN, NEW b \in BOOLEAN,
         F!Connect(c, a, b) \/ F!Reject(c, a, b) \/ F!Subscribe(c)
  PROVE  FanInv'
<1>1. /\ UNCHANGED <<queue, sent, done, writing, evicting, chunk, snapshot>>
      /\ conn' \in [Conns -> FanStates]
      /\ \A d \in Conns \ {c} : conn'[d] = conn[d]
      /\ queue[c] = <<>> /\ conn[c] \in {"none", "admitted"}
  BY DEF F!Connect, F!Reject, F!Subscribe, F!Moves, FanInv, FanTyped, FanStates, QueueOfSubscriber
<1>2. /\ subscribers' = subscribers \/ (subscribers' = subscribers \cup {c} /\ conn'[c] = "subscribed")
      /\ conn'[c] \in {"admitted", "gone", "subscribed"}
  BY DEF F!Connect, F!Reject, F!Subscribe, F!Moves, FanInv, FanTyped
<1>3. FanTyped' /\ QueueOfSubscriber'
  BY <1>1, <1>2 DEF FanInv, FanTyped, QueueOfSubscriber
<1>4. ASSUME NEW d \in Conns PROVE FanOrder(d)'
  <2>1. CASE d = c
    BY <1>1, <2>1 DEF FanInv, FanOrder, Ordered, UpToNow, Before, HasNewest
  <2>2. CASE d # c
    BY <1>1, <1>2, <2>2, FanUntouched
  <2>. QED BY <2>1, <2>2
<1>. QED BY <1>3, <1>4 DEF FanInv, FanOrder

\* A subscriber takes the first chunk.
LEMMA FanSend == ASSUME FanInv, NEW c \in Conns, F!Send(c) PROVE FanInv'
<1> DEFINE q == queue[c]
<1>1. /\ UNCHANGED <<conn, done, subscribers, writing, evicting, chunk, snapshot>>
      /\ conn[c] = "subscribed" /\ q \in Seq(Nat) /\ q # <<>>
      /\ queue' = [queue EXCEPT ![c] = Tail(q)] /\ sent' = [sent EXCEPT ![c] = Head(q)]
  BY DEF F!Send, FanInv, FanTyped
<1>2. /\ Len(Tail(q)) = Len(q) - 1 /\ Tail(q) \in Seq(Nat) /\ Head(q) = q[1] /\ q[1] \in Nat
      /\ \A i \in 1 .. Len(Tail(q)) : Tail(q)[i] = q[i + 1]
      /\ Len(q) \in Nat \ {0}
  BY <1>1, HeadTailProperties
<1>3. FanTyped' /\ QueueOfSubscriber'
  BY <1>1, <1>2 DEF FanInv, FanTyped, FanStates, QueueOfSubscriber
<1>4. ASSUME NEW d \in Conns PROVE FanOrder(d)'
  <2>1. CASE d = c
    <3>1. queue'[c] = Tail(q) /\ sent'[c] = q[1]
      BY <1>1, <1>2 DEF FanInv, FanTyped
    <3>2. Ordered(c) /\ UpToNow(c) /\ (c \in subscribers => HasNewest(c))
      BY DEF FanInv
    <3>3. Ordered(c)'
      BY SMTT(60), <1>2, <3>1, <3>2 DEF Ordered
    <3>4. UpToNow(c)'
      BY <1>1, <1>2, <3>1, <3>2 DEF UpToNow, Before
    <3>5. (c \in subscribers => HasNewest(c))'
      BY <1>1, <1>2, <3>1, <3>2 DEF HasNewest
    <3>. QED BY <2>1, <3>3, <3>4, <3>5 DEF FanOrder
  <2>2. CASE d # c
    BY <1>1, <2>2, FanUntouched DEF FanInv, FanTyped
  <2>. QED BY <2>1, <2>2
<1>. QED BY <1>3, <1>4 DEF FanInv, FanOrder

\* A subscriber that goes.
LEMMA FanLeaves ==
  ASSUME FanInv, NEW c \in Conns, NEW b \in BOOLEAN, F!Leave(c, b) \/ F!Remove(c) \/ F!Finish(c)
  PROVE  FanInv'
<1> DEFINE q == queue[c]
<1>1. /\ UNCHANGED <<writing, evicting, chunk, sent, snapshot>> /\ done \subseteq done' /\ done' \subseteq done \cup {c}
      /\ \A d \in Conns \ {c} : conn'[d] = conn[d] /\ queue'[d] = queue[d]
      /\ conn' \in [Conns -> FanStates] /\ conn'[c] \in {"leaving", "removed", "gone"}
      /\ subscribers' = subscribers \/ (subscribers' = subscribers \ {c} /\ writing = {})
  BY DEF F!Leave, F!Remove, F!Finish, F!Moves, F!Unlocked, FanInv, FanTyped, FanStates
<1>2. q \in Seq(Nat) /\ Len(q) \in Nat
  BY DEF FanInv, FanTyped
<1>3. /\ queue' = [queue EXCEPT ![c] = queue'[c]]
      /\ queue'[c] = q \/ (q # <<>> /\ queue'[c] = Tail(q)) \/ queue'[c] = <<>>
  BY DEF F!Leave, F!Remove, F!Finish, FanInv, FanTyped
<1>4. q # <<>> => /\ Len(Tail(q)) = Len(q) - 1 /\ Tail(q) \in Seq(Nat)
                  /\ \A i \in 1 .. Len(Tail(q)) : Tail(q)[i] = q[i + 1]
  BY <1>2, HeadTailProperties
<1> DEFINE n == queue'[c]
<1>5. /\ n \in Seq(Nat) /\ Len(n) \in Nat /\ Len(n) <= Len(q)
      /\ n = <<>> \/ n = q \/ (Len(n) = Len(q) - 1 /\ \A i \in 1 .. Len(n) : n[i] = q[i + 1])
  <2>1. CASE n = <<>> \/ n = q
    <3>1. <<>> \in Seq(Nat) /\ Len(<<>>) = 0
      OBVIOUS
    <3>2. CASE n = <<>>
      <4>1. n \in Seq(Nat) /\ Len(n) = 0
        BY <3>1, <3>2
      <4> HIDE DEF n, q
      <4>. QED BY <1>2, <3>2, <4>1
    <3>3. CASE n = q
      <4> HIDE DEF n, q
      <4>. QED BY <1>2, <3>3
    <3>. QED BY <2>1, <3>2, <3>3
  <2>2. CASE q # <<>> /\ n = Tail(q)
    <3> HIDE DEF n, q
    <3>. QED BY <1>2, <1>4, <2>2
  <2>. QED BY <1>3, <2>1, <2>2
<1>6. FanTyped' /\ QueueOfSubscriber'
  BY <1>1, <1>3, <1>5 DEF FanInv, FanTyped, FanStates, QueueOfSubscriber
<1>7. ASSUME NEW d \in Conns PROVE FanOrder(d)'
  <2>1. CASE d = c
    <3>1. /\ \A i \in 1 .. Len(q) : q[i] > (IF i = 1 THEN sent[c] ELSE q[i - 1])
          /\ UpToNow(c) /\ sent[c] \in Nat /\ \A i \in 1 .. Len(q) : q[i] \in Nat
      BY <1>2 DEF FanInv, FanTyped, Ordered
    <3>2. \A i \in 1 .. Len(n) : n[i] > (IF i = 1 THEN sent[c] ELSE n[i - 1])
      <4>1. CASE n = <<>> \/ n = q
        BY <3>1, <4>1
      <4>2. CASE Len(n) = Len(q) - 1 /\ \A i \in 1 .. Len(n) : n[i] = q[i + 1]
        <5> SUFFICES ASSUME NEW i \in 1 .. Len(n) PROVE n[i] > (IF i = 1 THEN sent[c] ELSE n[i - 1])
          OBVIOUS
        <5>1. n[i] = q[i + 1] /\ i + 1 \in 1 .. Len(q) /\ q[i + 1] > q[i] /\ i \in 1 .. Len(q)
          BY SMTT(60), <1>2, <1>5, <3>1, <4>2
        <5>2. CASE i = 1
          BY SMTT(60), <1>2, <3>1, <5>1, <5>2
        <5>3. CASE i # 1
          BY <1>2, <1>5, <4>2, <5>1, <5>3
        <5>. QED BY <5>2, <5>3
      <4>. QED BY <1>5, <4>1, <4>2
    <3>3. Ordered(c)' /\ UpToNow(c)'
      <4>1. sent'[c] = sent[c] /\ chunk' = chunk /\ writing' = writing
        BY <1>1
      <4>2. \A i \in 1 .. Len(n) : \E j \in 1 .. Len(q) : n[i] = q[j]
        <5>1. CASE n = <<>> \/ n = q
          <6>1. Len(<<>>) = 0
            OBVIOUS
          <6>2. n = <<>> => Len(n) = 0
            BY <6>1
          <6> HIDE DEF n, q
          <6>. QED BY <1>2, <5>1, <6>2
        <5>2. CASE Len(n) = Len(q) - 1 /\ \A i \in 1 .. Len(n) : n[i] = q[i + 1]
          <6> SUFFICES ASSUME NEW i \in 1 .. Len(n) PROVE n[i] = q[i + 1] /\ i + 1 \in 1 .. Len(q)
            OBVIOUS
          <6>. QED BY <1>2, <1>5, <5>2
        <5>. QED BY <1>5, <5>1, <5>2
      <4>. QED BY <3>1, <3>2, <4>1, <4>2 DEF Ordered, UpToNow, Before
    <3>. QED BY <1>1, <2>1, <3>3 DEF FanOrder, HasNewest
  <2>2. CASE d # c
    BY <1>1, <2>2, FanUntouched
  <2>. QED BY <2>1, <2>2
<1>. QED BY <1>6, <1>7 DEF FanInv, FanOrder

\* Write begins: it has the chunk to offer to every subscriber.
LEMMA FanWrite == ASSUME FanInv, F!Write PROVE FanInv'
<1>1. /\ UNCHANGED <<conn, queue, done, subscribers, evicting, sent, snapshot>>
      /\ writing = {} /\ chunk' = chunk + 1 /\ writing' = subscribers
  BY DEF F!Write, F!Unlocked
<1>2. FanTyped' /\ QueueOfSubscriber'
  BY <1>1 DEF FanInv, FanTyped, QueueOfSubscriber
<1>3. ASSUME NEW c \in Conns PROVE FanOrder(c)'
  <2>1. Ordered(c) /\ UpToNow(c) /\ chunk \in Nat /\ sent[c] \in Nat /\ \A i \in 1 .. Len(queue[c]) : queue[c][i] \in Nat
    BY DEF FanInv, FanTyped
  <2>. QED BY <1>1, <2>1 DEF FanOrder, Ordered, UpToNow, Before, HasNewest
<1>. QED BY <1>2, <1>3 DEF FanInv, FanOrder

\* The chunk is the last of the queue, which has lost its first one or none.
LEMMA FanOffered ==
  ASSUME FanInv, NEW c \in writing, NEW q \in Seq(Nat),
         q = queue[c] \/ (queue[c] # <<>> /\ q = Tail(queue[c])),
         F!Offered(c, Append(q, chunk)), evicting' = evicting \ {c},
         UNCHANGED <<conn, done, subscribers, chunk, sent, snapshot>>
  PROVE  FanInv'
<1> DEFINE n == Append(q, chunk)
<1>1. /\ queue' = [queue EXCEPT ![c] = n] /\ writing' = writing \ {c} /\ c \in Conns /\ c \in subscribers
      /\ chunk \in Nat /\ queue[c] \in Seq(Nat) /\ sent[c] \in Nat
  BY DEF F!Offered, FanInv, FanTyped
<1>2. /\ n \in Seq(Nat) /\ Len(n) = Len(q) + 1 /\ n[Len(n)] = chunk /\ n # <<>> /\ Len(q) \in Nat
      /\ \A i \in 1 .. Len(q) : n[i] = q[i]
  BY SMTT(60), <1>1, AppendProperties
<1>3. /\ \A i \in 1 .. Len(queue[c]) : queue[c][i] > (IF i = 1 THEN sent[c] ELSE queue[c][i - 1])
      /\ sent[c] < chunk /\ \A i \in 1 .. Len(queue[c]) : queue[c][i] < chunk /\ queue[c][i] \in Nat
      /\ Len(queue[c]) \in Nat
  BY SMTT(60), <1>1 DEF FanInv, Ordered, UpToNow, Before
<1>4. queue[c] # <<>> =>
        /\ Len(Tail(queue[c])) = Len(queue[c]) - 1
        /\ \A i \in 1 .. Len(Tail(queue[c])) : Tail(queue[c])[i] = queue[c][i + 1]
  BY <1>1, HeadTailProperties
<1>5. \A i \in 1 .. Len(q) : q[i] > (IF i = 1 THEN sent[c] ELSE q[i - 1]) /\ q[i] < chunk
  <2>1. CASE q = queue[c]
    BY <1>3, <2>1
  <2>2. CASE queue[c] # <<>> /\ q = Tail(queue[c])
    <3> SUFFICES ASSUME NEW i \in 1 .. Len(q) PROVE q[i] > (IF i = 1 THEN sent[c] ELSE q[i - 1]) /\ q[i] < chunk
      OBVIOUS
    <3>1. q[i] = queue[c][i + 1] /\ i + 1 \in 1 .. Len(queue[c]) /\ queue[c][i + 1] > queue[c][i] /\ i \in 1 .. Len(queue[c])
      BY SMTT(60), <1>3, <1>4, <2>2
    <3>2. CASE i = 1
      BY SMTT(60), <1>1, <1>3, <3>1, <3>2
    <3>3. CASE i # 1
      BY SMTT(60), <1>3, <1>4, <2>2, <3>1, <3>3
    <3>. QED BY <3>2, <3>3
  <2>. QED BY <2>1, <2>2
<1>6. FanTyped' /\ QueueOfSubscriber'
  BY <1>1, <1>2 DEF FanInv, FanTyped, QueueOfSubscriber
<1>7. ASSUME NEW d \in Conns PROVE FanOrder(d)'
  <2>1. CASE d = c
    <3>1. queue'[c] = n /\ sent'[c] = sent[c] /\ chunk' = chunk /\ c \notin writing'
      BY <1>1 DEF FanInv, FanTyped
    <3>2. \A i \in 1 .. Len(n) : n[i] > (IF i = 1 THEN sent[c] ELSE n[i - 1]) /\ n[i] <= chunk
      <4> SUFFICES ASSUME NEW i \in 1 .. Len(n) PROVE n[i] > (IF i = 1 THEN sent[c] ELSE n[i - 1]) /\ n[i] <= chunk
        OBVIOUS
      <4>1. CASE i = Len(n)
        BY <1>1, <1>2, <1>3, <1>5, <4>1
      <4>2. CASE i # Len(n)
        <5> HIDE DEF n
        <5>1. i \in 1 .. Len(q) /\ n[i] = q[i] /\ q[i] < chunk /\ q[i] > (IF i = 1 THEN sent[c] ELSE q[i - 1])
          BY <1>2, <1>5, <4>2
        <5>2. q[i] \in Nat
          BY <5>1
        <5>3. i # 1 => n[i - 1] = q[i - 1]
          <6>1. i # 1 => i - 1 \in 1 .. Len(q)
            BY <1>2, <5>1
          <6>. QED BY <1>2, <6>1
        <5>. QED BY SMTT(60), <1>1, <5>1, <5>2, <5>3
      <4>. QED BY <4>1, <4>2
    <3>3. sent[c] <= chunk /\ n[Len(n)] = chunk
      BY <1>1, <1>2, <1>3
    <3> HIDE DEF n
    <3>. QED BY <2>1, <3>1, <3>2, <3>3 DEF FanOrder, Ordered, UpToNow, Before, HasNewest
  <2>2. CASE d # c
    BY <1>1, <2>2, FanUntouched DEF FanInv, FanTyped
  <2>. QED BY <2>1, <2>2
<1>. QED BY <1>6, <1>7 DEF FanInv, FanOrder

\* Write offers the chunk; one that is full has its oldest chunk taken out first.
LEMMA FanOffer == ASSUME FanInv, NEW c \in Conns, F!Offer(c) PROVE FanInv'
<1>1. /\ c \in writing /\ c \notin evicting /\ queue[c] \in Seq(Nat)
      /\ UNCHANGED <<conn, done, subscribers, chunk, sent, snapshot>>
  BY DEF F!Offer, FanInv, FanTyped
<1>2. CASE F!Offered(c, Append(queue[c], chunk)) /\ UNCHANGED evicting
  BY <1>1, <1>2, FanOffered
<1>3. CASE c \in done /\ F!Offered(c, queue[c]) /\ UNCHANGED evicting
  <2>1. queue' = queue /\ writing' = writing \ {c}
    BY <1>3 DEF F!Offered, FanInv, FanTyped
  <2>2. FanTyped' /\ QueueOfSubscriber'
    BY <1>1, <1>3, <2>1 DEF FanInv, FanTyped, QueueOfSubscriber
  <2>3. ASSUME NEW d \in Conns PROVE FanOrder(d)'
    <3>0. d \in writing' => d \in writing
      BY <2>1
    <3>1. Ordered(d) /\ UpToNow(d) /\ (d \in subscribers => HasNewest(d))
          /\ chunk \in Nat /\ sent[d] \in Nat /\ \A i \in 1 .. Len(queue[d]) : queue[d][i] \in Nat
      BY DEF FanInv, FanTyped
    <3>2. Ordered(d)' /\ UpToNow(d)'
      BY SMTT(60), <1>1, <2>1, <3>0, <3>1 DEF Ordered, UpToNow, Before
    <3>3. (d \in subscribers => HasNewest(d))'
      BY <1>1, <1>3, <2>1, <3>1 DEF HasNewest
    <3>. QED BY <3>2, <3>3 DEF FanOrder
  <2>. QED BY <2>2, <2>3 DEF FanInv, FanOrder
<1>4. CASE evicting' = evicting \cup {c} /\ UNCHANGED <<queue, writing>>
  <2>1. FanTyped' /\ QueueOfSubscriber'
    BY <1>1, <1>4 DEF FanInv, FanTyped, QueueOfSubscriber
  <2>2. ASSUME NEW d \in Conns PROVE FanOrder(d)'
    BY <1>1, <1>4, FanUntouched
  <2>. QED BY <2>1, <2>2 DEF FanInv, FanOrder
<1>. QED BY <1>2, <1>3, <1>4 DEF F!Offer

\* The second half of that: the oldest chunk goes, the new one comes.
LEMMA FanEvict == ASSUME FanInv, NEW c \in Conns, F!Evict(c) PROVE FanInv'
<1>1. /\ c \in writing /\ queue[c] \in Seq(Nat) /\ evicting' = evicting \ {c}
      /\ UNCHANGED <<conn, done, subscribers, chunk, sent, snapshot>> /\ F!Offered(c, F!Evicted(c))
  BY DEF F!Evict, FanInv, FanTyped
<1>2. CASE queue[c] = <<>>
  BY <1>1, <1>2, FanOffered DEF F!Evicted
<1>3. CASE queue[c] # <<>>
  <2>1. Tail(queue[c]) \in Seq(Nat)
    BY <1>1, <1>3, HeadTailProperties
  <2>. QED BY <1>1, <1>3, <2>1, FanOffered DEF F!Evicted
<1>. QED BY <1>2, <1>3

\* Shutdown only stops subscribers.
LEMMA FanShutdown == ASSUME FanInv, F!Shutdown \/ F!CloseServer \/ F!StopSubscribers PROVE FanInv'
<1>1. /\ UNCHANGED <<conn, queue, subscribers, writing, evicting, chunk, sent>>
      /\ done \subseteq done'
  BY DEF F!Shutdown, F!CloseServer, F!StopSubscribers
<1>2. FanTyped' /\ QueueOfSubscriber'
  BY <1>1 DEF FanInv, FanTyped, QueueOfSubscriber, F!Shutdown, F!CloseServer, F!StopSubscribers
<1>. QED BY <1>1, <1>2, FanUntouched DEF FanInv, FanOrder

\* Every step of the fan-out ...
LEMMA FanNext == ASSUME FanInv, F!Next PROVE FanInv'
BY FanAdmission, FanSend, FanLeaves, FanWrite, FanOffer, FanEvict, FanShutdown
   DEF F!Next, F!ClientSteps, F!ServerSteps

\* ... and every step of something else keeps it.
LEMMA FanStutters == ASSUME FanInv, UNCHANGED fanout PROVE FanInv'
BY DEF fanout, FanInv, FanTyped, FanStates, QueueOfSubscriber, Ordered, UpToNow, Before, HasNewest

\* In order, and the newest last, is what a client is promised.
LEMMA FanCurrent == FanInv => F!ClientsStayCurrent
<1> SUFFICES ASSUME FanInv PROVE F!ClientsStayCurrent
  OBVIOUS
<1>1. \A c \in Conns : DOMAIN queue[c] = 1 .. Len(queue[c])
  BY DEF FanInv, FanTyped
<1>. QED BY <1>1 DEF F!ClientsStayCurrent, FanInv, FanTyped, Ordered, HasNewest

\* A slow client loses only older chunks: what it gets is in order, and the newest chunk
\* is queued for it unless it leaves (OfferDropOldest).
THEOREM ClientsAreCurrent == LiveSpec => []ClientsStayCurrent
<1> DEFINE Inv == which = "fanout" => FanInv
<1>1. LiveInit => Inv
  BY FanInit DEF LiveInit
<1>2. Inv /\ [LiveNext]_liveVars => Inv'
  <2> SUFFICES ASSUME Inv, [LiveNext]_liveVars, which' = "fanout" PROVE FanInv'
    OBVIOUS
  <2>1. FanInv /\ (F!Next \/ UNCHANGED fanout)
    BY DEF LiveNext, liveVars
  <2>. QED BY <2>1, FanNext, FanStutters
<1>3. Inv => ClientsStayCurrent
  BY FanCurrent DEF ClientsStayCurrent
<1>. QED BY <1>1, <1>2, <1>3, PTL DEF LiveSpec

-------------------------------------------------------------------------------
(* Process: what a queue holds                                             *)

\* The elements of a sequence.
Elems(s) == {s[i] : i \in 1..Len(s)}

\* Append adds one element at the end.
LEMMA ElemsOfAppend ==
  ASSUME NEW S, NEW s \in Seq(S), NEW x \in S
  PROVE  Elems(Append(s, x)) = Elems(s) \cup {x}
<1>1. Len(s) \in Nat /\ Len(Append(s, x)) = Len(s) + 1
  OBVIOUS
<1>2. \A i \in 1..Len(s) : Append(s, x)[i] = s[i]
  OBVIOUS
<1>3. Append(s, x)[Len(s) + 1] = x
  OBVIOUS
<1>4. 1..(Len(s) + 1) = (1..Len(s)) \cup {Len(s) + 1}
  BY <1>1
<1>. QED BY <1>1, <1>2, <1>3, <1>4 DEF Elems

\* The elements of a queue are the one taken first and the others.
LEMMA ElemsOfTail ==
  ASSUME NEW S, NEW s \in Seq(S), s # <<>>
  PROVE  Elems(s) = {Head(s)} \cup Elems(Tail(s))
<1>1. Len(s) \in Nat \ {0} /\ Len(Tail(s)) = Len(s) - 1 /\ Head(s) = s[1]
  OBVIOUS
<1>2. \A i \in 1..Len(Tail(s)) : Tail(s)[i] = s[i + 1]
  OBVIOUS
<1>3. ASSUME NEW i \in 1..Len(s) PROVE s[i] \in {Head(s)} \cup Elems(Tail(s))
  <2>1. CASE i = 1
    BY <1>1, <2>1
  <2>2. CASE i # 1
    <3>1. i - 1 \in 1..Len(Tail(s)) /\ s[i] = Tail(s)[i - 1]
      BY <1>1, <1>2, <2>2
    <3>. QED BY <3>1 DEF Elems
  <2>. QED BY <2>1, <2>2
<1>4. ASSUME NEW i \in 1..Len(Tail(s)) PROVE Tail(s)[i] \in Elems(s)
  <2>1. i + 1 \in 1..Len(s)
    BY <1>1
  <2>. QED BY <1>2, <2>1 DEF Elems
<1>5. Head(s) \in Elems(s)
  BY <1>1 DEF Elems
<1>. QED BY <1>3, <1>4, <1>5 DEF Elems

\* An empty queue has none.
LEMMA ElemsOfEmpty == Elems(<<>>) = {}
BY DEF Elems

-------------------------------------------------------------------------------
(* Process: the inductive invariant                                        *)

\* The state is well typed; chunks of the input are numbered from 1.
TypeOK ==
  /\ audioCh \in [chunks : Seq(Nat), open : BOOLEAN]
  /\ writer \in [pc : {"idle", "lock", "write", "done", "failed"}, chunk : Nat]
  /\ stdinMu \in {"free", "writer"} /\ stdin \in BOOLEAN /\ pipe \in Seq(Nat)
  /\ proc \in {"reads", "hangs", "ok", "failed"} /\ cancelled \in BOOLEAN
  /\ finish \in {"none", "wait", "close", "drain", "signalled", "killed", "join", "end"}
  /\ finalizeErr \in BOOLEAN /\ hasAudio \in BOOLEAN
  /\ input \in Nat /\ took \subseteq Nat \ {0} /\ read \subseteq Nat

\* The chunk the writer has taken and not written.
InHand == IF writer.pc \in {"lock", "write"} THEN {writer.chunk} ELSE {}

\* Something went wrong that finishEncoder reports, or will see when FFmpeg exits.
Troubled == finalizeErr \/ proc = "failed"

\* The stages of finishEncoder: an error is kept once it is reported, a process is
\* cancelled only with one, and its exit is seen before the end.
Finishing ==
  /\ finish = "none" => ~finalizeErr /\ stdin
  /\ cancelled => finalizeErr
  /\ finish \in {"join", "end"} => Exited /\ (proc = "failed" => finalizeErr)
  /\ finish = "end" => WriterDone

\* Until there is trouble no chunk is lost: what the channel took was read, or is on its
\* way; stdin is closed, and FFmpeg ends, only when the writer has written everything.
NothingLost ==
  ~Troubled =>
    /\ took \subseteq read \cup Elems(pipe) \cup InHand \cup Elems(audioCh.chunks)
    /\ WriterDone => writer.pc = "done" /\ audioCh.chunks = <<>> /\ ~audioCh.open
    /\ finish \in {"close", "drain", "signalled", "killed", "join", "end"} \/ ~stdin => WriterDone
    /\ proc = "ok" => pipe = <<>> /\ ~stdin

\* Whatever came through the pipe and is not silence was noted.
AudioNoted == (read \cup Elems(pipe)) \ {0} # {} => hasAudio

IInv == TypeOK /\ Finishing /\ NothingLost /\ AudioNoted

-------------------------------------------------------------------------------
(* Process: one lemma per step                                             *)

\* A chunk the channel takes is queued; one it drops was not taken.
LEMMA WriteAudioInv == ASSUME IInv, WriteAudio PROVE IInv'
<1>1. CASE UNCHANGED <<audioCh, took>>
  BY <1>1 DEF IInv, TypeOK, Finishing, NothingLost, AudioNoted, InHand, Troubled, Exited, WriterDone, WriteAudio
<1>2. CASE audioCh' = [audioCh EXCEPT !.chunks = Append(@, input')] /\ took' = took \cup {input'}
  <2>1. /\ audioCh.open /\ input' = input + 1 /\ input' \in Nat \ {0}
        /\ UNCHANGED <<writer, stdinMu, stdin, pipe, proc, cancelled, finish, finalizeErr, hasAudio, read>>
    BY DEF WriteAudio, IInv, TypeOK
  <2>2. /\ audioCh' \in [chunks : Seq(Nat), open : BOOLEAN]
        /\ audioCh'.chunks = Append(audioCh.chunks, input') /\ audioCh'.open
    <3>1. audioCh \in [chunks : Seq(Nat), open : BOOLEAN]
      BY DEF IInv, TypeOK
    <3>2. Append(audioCh.chunks, input') \in Seq(Nat)
      BY <2>1, <3>1
    <3>3. audioCh' = [audioCh EXCEPT !.chunks = Append(audioCh.chunks, input')]
      BY <1>2
    <3>. QED BY <2>1, <3>1, <3>2, <3>3
  <2>3. Elems(audioCh'.chunks) = Elems(audioCh.chunks) \cup {input'}
    BY <2>1, <2>2, ElemsOfAppend DEF IInv, TypeOK
  <2>4. TypeOK'
    BY <1>2, <2>1, <2>2 DEF IInv, TypeOK
  <2>5. Finishing'
    BY <2>1 DEF IInv, Finishing, Exited, WriterDone
  <2>6. NothingLost'
    BY <1>2, <2>1, <2>3 DEF IInv, NothingLost, InHand, Troubled, WriterDone
  <2>7. AudioNoted'
    BY <2>1 DEF IInv, AudioNoted
  <2>. QED BY <2>4, <2>5, <2>6, <2>7 DEF IInv
<1>. QED BY <1>1, <1>2 DEF WriteAudio

\* The writer takes the first chunk in its hand.
LEMMA TakeInv == ASSUME IInv, Take PROVE IInv'
<1>1. /\ writer.pc = "idle" /\ audioCh.chunks # <<>> /\ audioCh.chunks \in Seq(Nat)
      /\ writer' = [pc |-> "lock", chunk |-> Head(audioCh.chunks)]
      /\ audioCh' = [audioCh EXCEPT !.chunks = Tail(@)]
      /\ UNCHANGED <<stdinMu, stdin, pipe, proc, cancelled, finish, finalizeErr, hasAudio, input, took, read>>
  BY DEF Take, kept, IInv, TypeOK
<1>2. Head(audioCh.chunks) \in Nat /\ Tail(audioCh.chunks) \in Seq(Nat)
  BY <1>1, HeadTailProperties
<1>3. Elems(audioCh.chunks) = {Head(audioCh.chunks)} \cup Elems(Tail(audioCh.chunks))
  BY <1>1, ElemsOfTail
<1>4. TypeOK' /\ audioCh'.chunks = Tail(audioCh.chunks)
  BY ZenonT(60), <1>1, <1>2 DEF IInv, TypeOK
<1>5. Finishing'
  BY <1>1 DEF IInv, Finishing, Exited, WriterDone
<1>6. NothingLost'
  BY <1>1, <1>3, <1>4 DEF IInv, NothingLost, InHand, Troubled, WriterDone
<1>7. AudioNoted'
  BY <1>1 DEF IInv, AudioNoted
<1>. QED BY <1>4, <1>5, <1>6, <1>7 DEF IInv

\* The writer fills a gap with silence.
LEMMA FillGapInv == ASSUME IInv, FillGap PROVE IInv'
<1>1. TypeOK'
  BY DEF IInv, TypeOK, FillGap, kept
<1>2. Finishing'
  BY DEF IInv, TypeOK, Finishing, Exited, WriterDone, FillGap, kept
<1>3. NothingLost'
  BY DEF IInv, TypeOK, Finishing, NothingLost, InHand, Troubled, Exited, WriterDone, FillGap, kept
<1>4. AudioNoted'
  BY DEF IInv, AudioNoted, FillGap, kept
<1>. QED BY <1>1, <1>2, <1>3, <1>4 DEF IInv

\* The writer is done when the closed channel is empty.
LEMMA ChannelEndsInv == ASSUME IInv, ChannelEnds PROVE IInv'
<1>1. TypeOK'
  BY DEF IInv, TypeOK, ChannelEnds, kept
<1>2. Finishing'
  BY DEF IInv, TypeOK, Finishing, Exited, WriterDone, ChannelEnds, kept
<1>3. NothingLost'
  BY DEF IInv, TypeOK, Finishing, NothingLost, InHand, Troubled, Exited, WriterDone, ChannelEnds, kept
<1>4. AudioNoted'
  BY DEF IInv, AudioNoted, ChannelEnds, kept
<1>. QED BY <1>1, <1>2, <1>3, <1>4 DEF IInv

\* With stdinMu held stdin is open or, only in trouble, closed.
LEMMA LockStdinInv == ASSUME IInv, LockStdin PROVE IInv'
<1>1. TypeOK'
  BY DEF IInv, TypeOK, LockStdin, kept
<1>2. Finishing'
  BY DEF IInv, TypeOK, Finishing, Exited, WriterDone, LockStdin, kept
<1>3. NothingLost'
  BY DEF IInv, TypeOK, Finishing, NothingLost, InHand, Troubled, Exited, WriterDone, LockStdin, kept
<1>4. AudioNoted'
  BY DEF IInv, AudioNoted, LockStdin, kept
<1>. QED BY <1>1, <1>2, <1>3, <1>4 DEF IInv

\* The chunk goes from the writer's hand into the pipe.
LEMMA WriteStdinInv == ASSUME IInv, WriteStdin PROVE IInv'
<1>1. /\ writer.pc = "write" /\ ~Exited /\ writer.chunk \in Nat /\ pipe \in Seq(Nat)
      /\ pipe' = Append(pipe, writer.chunk) /\ hasAudio' = (hasAudio \/ writer.chunk # 0)
      /\ writer' = [pc |-> "idle", chunk |-> 0] /\ stdinMu' = "free"
      /\ UNCHANGED <<audioCh, stdin, proc, cancelled, finish, finalizeErr, input, took, read>>
  BY DEF WriteStdin, kept, IInv, TypeOK
<1>2. Elems(pipe') = Elems(pipe) \cup {writer.chunk}
  BY <1>1, ElemsOfAppend
<1>3. TypeOK'
  BY <1>1 DEF IInv, TypeOK
<1>4. Finishing'
  BY <1>1 DEF IInv, Finishing, Exited, WriterDone
<1>5. NothingLost'
  BY <1>1, <1>2 DEF IInv, NothingLost, InHand, Troubled, WriterDone, Exited
<1>6. AudioNoted'
  <2>1. hasAudio' = TRUE \/ (writer.chunk = 0 /\ hasAudio' = hasAudio)
    BY <1>1 DEF IInv, TypeOK
  <2>. QED BY <1>1, <1>2, <2>1 DEF IInv, AudioNoted
<1>. QED BY <1>3, <1>4, <1>5, <1>6 DEF IInv

\* A write fails only once FFmpeg is gone, which is trouble.
LEMMA WriteFailsInv == ASSUME IInv, WriteFails PROVE IInv'
<1>1. TypeOK'
  BY ZenonT(60) DEF IInv, TypeOK, WriteFails, kept
<1>2. Finishing'
  BY DEF IInv, TypeOK, Finishing, Exited, WriterDone, WriteFails, kept
<1>3. NothingLost'
  BY DEF IInv, TypeOK, Finishing, NothingLost, InHand, Troubled, Exited, WriterDone, WriteFails, kept
<1>4. AudioNoted'
  BY DEF IInv, AudioNoted, WriteFails, kept
<1>. QED BY <1>1, <1>2, <1>3, <1>4 DEF IInv

\* finishEncoder goes on when the writer is done.
LEMMA AwaitWriterInv == ASSUME IInv, AwaitWriter PROVE IInv'
<1>1. TypeOK'
  BY DEF IInv, TypeOK, AwaitWriter, WriterAwaited, kept
<1>2. Finishing'
  BY DEF IInv, TypeOK, Finishing, Exited, WriterDone, AwaitWriter, WriterAwaited, kept
<1>3. NothingLost'
  BY DEF IInv, TypeOK, Finishing, NothingLost, InHand, Troubled, Exited, WriterDone, AwaitWriter, WriterAwaited, kept
<1>4. AudioNoted'
  BY DEF IInv, AudioNoted, AwaitWriter, WriterAwaited, kept
<1>. QED BY <1>1, <1>2, <1>3, <1>4 DEF IInv

\* writerDrainTimeout reports an error.
LEMMA WriterStuckInv == ASSUME IInv, WriterStuck PROVE IInv'
<1>1. TypeOK'
  BY DEF IInv, TypeOK, WriterStuck, kept
<1>2. Finishing'
  BY DEF IInv, TypeOK, Finishing, Exited, WriterDone, WriterStuck, kept
<1>3. NothingLost'
  BY DEF IInv, TypeOK, Finishing, NothingLost, InHand, Troubled, Exited, WriterDone, WriterStuck, kept
<1>4. AudioNoted'
  BY DEF IInv, AudioNoted, WriterStuck, kept
<1>. QED BY <1>1, <1>2, <1>3, <1>4 DEF IInv

\* stdin is closed, when the writer is done or in trouble.
LEMMA CloseStdinInv == ASSUME IInv, CloseStdin PROVE IInv'
<1>1. TypeOK'
  BY DEF IInv, TypeOK, CloseStdin, kept
<1>2. Finishing'
  BY DEF IInv, TypeOK, Finishing, Exited, WriterDone, CloseStdin, kept
<1>3. NothingLost'
  BY DEF IInv, TypeOK, Finishing, NothingLost, InHand, Troubled, Exited, WriterDone, CloseStdin, kept
<1>4. AudioNoted'
  BY DEF IInv, AudioNoted, CloseStdin, kept
<1>. QED BY <1>1, <1>2, <1>3, <1>4 DEF IInv

\* An exit with an error is reported.
LEMMA DrainedInv == ASSUME IInv, Drained PROVE IInv'
<1>1. TypeOK'
  BY DEF IInv, TypeOK, Drained, kept
<1>2. Finishing'
  BY DEF IInv, TypeOK, Finishing, Exited, WriterDone, Drained, kept
<1>3. NothingLost'
  BY DEF IInv, TypeOK, Finishing, NothingLost, InHand, Troubled, Exited, WriterDone, Drained, kept
<1>4. AudioNoted'
  BY DEF IInv, AudioNoted, Drained, kept
<1>. QED BY <1>1, <1>2, <1>3, <1>4 DEF IInv

\* A signal is trouble, unless FFmpeg was gone.
LEMMA SignalInv == ASSUME IInv, Signal PROVE IInv'
<1>1. TypeOK'
  BY DEF IInv, TypeOK, Signal, kept
<1>2. Finishing'
  BY DEF IInv, TypeOK, Finishing, Exited, WriterDone, Signal, kept
<1>3. NothingLost'
  BY DEF IInv, TypeOK, Finishing, NothingLost, InHand, Troubled, Exited, WriterDone, Signal, kept
<1>4. AudioNoted'
  BY DEF IInv, AudioNoted, Signal, kept
<1>. QED BY <1>1, <1>2, <1>3, <1>4 DEF IInv

\* A kill is trouble.
LEMMA KillInv == ASSUME IInv, Kill PROVE IInv'
<1>1. TypeOK'
  BY DEF IInv, TypeOK, Kill, kept
<1>2. Finishing'
  BY DEF IInv, TypeOK, Finishing, Exited, WriterDone, Kill, kept
<1>3. NothingLost'
  BY DEF IInv, TypeOK, Finishing, NothingLost, InHand, Troubled, Exited, WriterDone, Kill, kept
<1>4. AudioNoted'
  BY DEF IInv, AudioNoted, Kill, kept
<1>. QED BY <1>1, <1>2, <1>3, <1>4 DEF IInv

\* The end comes when FFmpeg is gone and the writer over.
LEMMA JoinInv == ASSUME IInv, Join PROVE IInv'
<1>1. TypeOK'
  BY DEF IInv, TypeOK, Join, kept
<1>2. Finishing'
  BY DEF IInv, TypeOK, Finishing, Exited, WriterDone, Join, kept
<1>3. NothingLost'
  BY DEF IInv, TypeOK, Finishing, NothingLost, InHand, Troubled, Exited, WriterDone, Join, kept
<1>4. AudioNoted'
  BY DEF IInv, AudioNoted, Join, kept
<1>. QED BY <1>1, <1>2, <1>3, <1>4 DEF IInv

\* The chunk goes from the pipe to FFmpeg.
LEMMA ReadInv == ASSUME IInv, Read PROVE IInv'
<1>1. /\ proc = "reads" /\ pipe # <<>> /\ pipe \in Seq(Nat)
      /\ pipe' = Tail(pipe) /\ read' = read \cup {Head(pipe)}
      /\ UNCHANGED <<audioCh, writer, stdinMu, stdin, proc, cancelled, finish, finalizeErr, hasAudio, input, took>>
  BY DEF Read, IInv, TypeOK
<1>2. Head(pipe) \in Nat /\ Tail(pipe) \in Seq(Nat)
  BY <1>1, HeadTailProperties
<1>3. Elems(pipe) = {Head(pipe)} \cup Elems(pipe')
  BY <1>1, ElemsOfTail
<1>4. TypeOK'
  BY ZenonT(60), <1>1, <1>2 DEF IInv, TypeOK
<1>5. Finishing'
  BY <1>1 DEF IInv, Finishing, Exited, WriterDone
<1>6. NothingLost'
  BY <1>1, <1>3 DEF IInv, NothingLost, InHand, Troubled, WriterDone
<1>7. AudioNoted'
  BY <1>1, <1>3 DEF IInv, AudioNoted
<1>. QED BY <1>4, <1>5, <1>6, <1>7 DEF IInv

\* The channel is closed; a failed write is reported.
LEMMA RetireInv == ASSUME IInv, NEW b \in BOOLEAN, Retire(b) PROVE IInv'
<1>1. TypeOK'
  BY ZenonT(60) DEF IInv, TypeOK, Retire, kept
<1>2. Finishing'
  BY DEF IInv, TypeOK, Finishing, Exited, WriterDone, Retire, kept
<1>3. NothingLost'
  BY DEF IInv, TypeOK, Finishing, NothingLost, InHand, Troubled, Exited, WriterDone, Retire, kept
<1>4. AudioNoted'
  BY DEF IInv, AudioNoted, Retire, kept
<1>. QED BY <1>1, <1>2, <1>3, <1>4 DEF IInv

\* FFmpeg ends well only after the whole input.
LEMMA TurnsInv == ASSUME IInv, NEW to \in {"hangs", "failed", "ok"}, Turns(to) PROVE IInv'
<1>1. TypeOK'
  BY DEF IInv, TypeOK, Turns, kept
<1>2. Finishing'
  BY DEF IInv, TypeOK, Finishing, Exited, WriterDone, Turns, kept
<1>3. NothingLost'
  BY DEF IInv, TypeOK, Finishing, NothingLost, InHand, Troubled, Exited, WriterDone, Turns, kept
<1>4. AudioNoted'
  BY DEF IInv, AudioNoted, Turns, kept
<1>. QED BY <1>1, <1>2, <1>3, <1>4 DEF IInv

-------------------------------------------------------------------------------
(* Process: the theorems                                                   *)

\* A segment that has just been opened.
LEMMA IInvInit == Init => IInv
<1> SUFFICES ASSUME Init PROVE IInv
  OBVIOUS
<1>1. audioCh = [chunks |-> <<>>, open |-> TRUE] /\ pipe = <<>> /\ writer = [pc |-> "idle", chunk |-> 0]
  BY DEF Init
<1>2. TypeOK
  <2>1. audioCh \in [chunks : Seq(Nat), open : BOOLEAN] /\ pipe \in Seq(Nat)
    BY <1>1
  <2>2. writer \in [pc : {"idle", "lock", "write", "done", "failed"}, chunk : Nat]
    BY <1>1
  <2>3. took \subseteq Nat \ {0} /\ read \subseteq Nat /\ input \in Nat
    BY DEF Init
  <2>. QED BY <2>1, <2>2, <2>3 DEF Init, TypeOK
<1>3. Finishing
  BY DEF Init, Finishing
<1>4. NothingLost
  BY <1>1 DEF Init, NothingLost, WriterDone
<1>5. AudioNoted
  BY <1>1, ElemsOfEmpty DEF Init, AudioNoted
<1>. QED BY <1>2, <1>3, <1>4, <1>5 DEF IInv

\* Every step preserves the invariant.
LEMMA IInvNext == IInv /\ [Next]_vars => IInv'
<1> SUFFICES ASSUME IInv, [Next]_vars PROVE IInv'
  OBVIOUS
<1>1. CASE Writer
  BY <1>1, TakeInv, ChannelEndsInv, LockStdinInv, WriteStdinInv, WriteFailsInv DEF Writer
<1>2. CASE Finalizer
  BY <1>2, AwaitWriterInv, CloseStdinInv, DrainedInv, SignalInv, KillInv, JoinInv DEF Finalizer
<1>3. CASE UNCHANGED vars
  <2>1. UNCHANGED <<audioCh, writer, stdinMu, stdin, pipe, proc, cancelled, finish, finalizeErr, hasAudio, input, took, read>>
    BY <1>3 DEF vars
  <2>. QED BY <2>1 DEF IInv, TypeOK, Finishing, NothingLost, AudioNoted, InHand, Troubled, Exited, WriterDone
<1>. QED BY <1>1, <1>2, <1>3, WriteAudioInv, FillGapInv, RetireInv, WriterStuckInv, ReadInv, TurnsInv DEF Next

\* Every variable keeps its type.
THEOREM TypeCorrect == Spec => []TypeOK
<1>1. IInv /\ [Next]_vars => IInv'
  BY IInvNext
<1>2. IInv => TypeOK
  BY DEF IInv
<1>. QED BY IInvInit, <1>1, <1>2, PTL DEF Spec

\* finishEncoder: when it ends without an error FFmpeg has read every chunk that the
\* channel took, and a segment with audio counts as a recording.
THEOREM NoChunkIsLost == Spec => []FileComplete
<1>1. IInv /\ [Next]_vars => IInv'
  BY IInvNext
<1>2. IInv => FileComplete
  <2> SUFFICES ASSUME IInv, finish = "end", ~finalizeErr PROVE took \subseteq read /\ (took # {} => hasAudio)
    BY DEF FileComplete
  <2>1. WriterDone /\ Exited /\ proc # "failed"
    BY DEF IInv, Finishing
  <2>2. pipe = <<>> /\ audioCh.chunks = <<>> /\ InHand = {}
    BY <2>1 DEF IInv, NothingLost, Troubled, Exited, InHand
  <2>3. took \subseteq read
    BY <2>1, <2>2, ElemsOfEmpty DEF IInv, NothingLost, Troubled
  <2>. QED BY <2>3 DEF IInv, AudioNoted, TypeOK
<1>. QED BY IInvInit, <1>1, <1>2, PTL DEF Spec

-------------------------------------------------------------------------------
(* CallerStream                                                            *)

P == INSTANCE CallerStreamProofs WITH Workers <- {w1}, Users <- {u1}, All <- all

\* The module with the theorems has the same system ...
LEMMA SameSystem == (C!Init <=> P!Init) /\ (C!Next <=> P!Next)
<1>1. C!Init <=> P!Init
  BY DEF C!Init, C!Blank, C!IdleWorker, C!Stoppers, C!IdleStopper, P!Init, P!Blank, P!IdleWorker, P!Stoppers,
      P!IdleStopper
<1>2. ASSUME NEW w
      PROVE  (C!Claim(w) \/ C!Release(w) \/ C!Drain(w) \/ C!Publish(w) \/ C!Reap(w) \/ C!Begin(w) \/ C!Top(w))
             <=> (P!Claim(w) \/ P!Release(w) \/ P!Drain(w) \/ P!Publish(w) \/ P!Reap(w) \/ P!Begin(w) \/ P!Top(w))
  BY DEF C!Claim, C!Release, C!Drain, C!Publish, C!Reap, C!Begin, C!Top, C!Unused, C!At, C!MayClaim, C!Becomes,
      C!Goto, C!Quit, C!Blank, C!Cancel, C!Released, C!Own, C!Active, C!Busy, C!Garbage, C!Forgotten, C!IdleWorker,
      C!Stoppers, P!Claim, P!Release, P!Drain, P!Publish, P!Reap, P!Begin, P!Top, P!Unused, P!At, P!MayClaim,
      P!Becomes, P!Goto, P!Quit, P!Blank, P!Cancel, P!Released, P!Own, P!Active, P!Busy, P!Garbage, P!Forgotten,
      P!IdleWorker, P!Stoppers
<1>3. ASSUME NEW w, NEW b
      PROVE  (C!Exec(w, b) \/ C!Report(w, b))
             <=> (P!Exec(w, b) \/ P!Report(w, b))
  BY DEF C!Exec, C!Report, C!Own, C!At, C!Becomes, C!Goto, C!Quit, C!Retry, C!Incremented, C!Garbage, C!Blank,
      C!Forgotten, C!IdleWorker, C!RetryCount, C!Stoppers, P!Exec, P!Report, P!Own, P!At, P!Becomes, P!Goto, P!Quit,
      P!Retry, P!Incremented, P!Garbage, P!Blank, P!Forgotten, P!IdleWorker, P!RetryCount, P!Stoppers
<1>4. ASSUME NEW w
      PROVE  (C!MarkExited(w) \/ C!HandleExit(w) \/ C!Record(w) \/ C!Check(w) \/ C!Count(w)
              \/ C!Backoff(w) \/ C!RemoveIfOwned(w) \/ C!Drop(w))
             <=> (P!MarkExited(w) \/ P!HandleExit(w) \/ P!Record(w) \/ P!Check(w) \/ P!Count(w)
              \/ P!Backoff(w) \/ P!RemoveIfOwned(w) \/ P!Drop(w))
  BY DEF C!MarkExited, C!HandleExit, C!Record, C!Check, C!Count, C!Backoff, C!RemoveIfOwned, C!Drop, C!Own, C!At,
      C!Becomes, C!Owns, C!Goto, C!Quit, C!Retry, C!SetError, C!RetryCount, C!Cancel, C!Released, C!Garbage, C!Blank,
      C!Forgotten, C!IdleWorker, C!Stoppers, P!MarkExited, P!HandleExit, P!Record, P!Check, P!Count, P!Backoff,
      P!RemoveIfOwned, P!Drop, P!Own, P!At, P!Becomes, P!Owns, P!Goto, P!Quit, P!Retry, P!SetError, P!RetryCount,
      P!Cancel, P!Released, P!Garbage, P!Blank, P!Forgotten, P!IdleWorker, P!Stoppers
<1>5. ASSUME NEW w PROVE C!Work(w) <=> P!Work(w)
  BY <1>2, <1>3, <1>4 DEF C!Work, P!Work
<1>6. ASSUME NEW s PROVE C!Stop(s) <=> P!Stop(s)
  BY DEF C!Stop, C!Cancel, C!NothingToStop, C!Becomes, C!Returned, C!Garbage, C!Blank, C!Forgotten, C!Stoppers,
      P!Stop, P!Cancel, P!NothingToStop, P!Becomes, P!Returned, P!Garbage, P!Blank, P!Forgotten, P!Stoppers
<1>7. ASSUME NEW s PROVE (C!Emit(s) \/ C!Delete(s)) <=> (P!Emit(s) \/ P!Delete(s))
  BY DEF C!Emit, C!Delete, C!Emptied, C!Becomes, C!Returned, C!Released, C!Garbage, C!Blank, C!Forgotten, C!Stoppers,
      P!Emit, P!Delete, P!Emptied, P!Becomes, P!Returned, P!Released, P!Garbage, P!Blank, P!Forgotten, P!Stoppers
<1>8. C!Shutdown <=> P!Shutdown
  BY <1>6, <1>7 DEF C!Shutdown, C!Clear, C!Stoppers, C!Becomes, C!IdleStopper, C!Garbage, C!Blank, C!Forgotten,
      P!Shutdown, P!Clear, P!Stoppers, P!Becomes, P!IdleStopper, P!Garbage, P!Blank, P!Forgotten
<1>9. C!Environment <=> P!Environment
  BY <1>6 DEF C!Environment, C!Start, C!EncoderTurns, C!EncoderStops, C!SetEnabled, C!Exits, C!WriterFails, C!At,
      C!Becomes, C!IdleWorker, C!Garbage, C!Blank, C!Forgotten, C!Stoppers, P!Environment, P!Start, P!EncoderTurns,
      P!EncoderStops, P!SetEnabled, P!Exits, P!WriterFails, P!At, P!Becomes, P!IdleWorker, P!Garbage, P!Blank,
      P!Forgotten, P!Stoppers
<1>10. ASSUME NEW x PROVE C!WriterEnds(x) <=> P!WriterEnds(x)
  BY DEF C!WriterEnds, C!Becomes, C!Garbage, C!Blank, C!Forgotten, C!Stoppers, P!WriterEnds, P!Becomes, P!Garbage,
      P!Blank, P!Forgotten, P!Stoppers
<1>. QED BY <1>1, <1>5, <1>8, <1>9, <1>10 DEF C!Next, P!Next

\* ... and the same properties.
LEMMA SameProperties ==
  P!StopHolds /\ P!NoOrphan /\ P!StoppedIsOver => C!StopHolds /\ C!NoOrphan /\ C!StoppedIsOver
BY DEF C!StopHolds, C!NoOrphan, C!Live, C!StoppedIsOver, P!StopHolds, P!NoOrphan, P!Live, P!StoppedIsOver

\* A retry cannot revive a caller stream that Stop has removed, no process is forgotten, and
\* when stream_stopped is emitted its process has exited and its writer is done, whatever
\* the number of entries in use and of retries (Manager.Stop, MonitorAndRetry).
THEOREM StopsAreFinal == LiveSpec => []StopHolds
<1> DEFINE Inv == which = "caller" => P!Good(m) /\ P!Alone(m)
<1>1. P!CallerAssumption /\ P!Single
  BY CallerStreamAssumption DEF P!CallerAssumption, P!Single
<1>2. LiveInit => Inv
  BY <1>1, SameSystem, P!InitGood, P!InitAlone DEF LiveInit
<1>3. Inv /\ [LiveNext]_liveVars => Inv'
  <2> SUFFICES ASSUME Inv, [LiveNext]_liveVars, which' = "caller" PROVE P!Good(m)' /\ P!Alone(m)'
    OBVIOUS
  <2>1. P!Good(m) /\ P!Alone(m) /\ (P!Next \/ UNCHANGED m)
    BY SMTT(60), SameSystem DEF LiveNext, liveVars
  <2>2. CASE P!Next
    BY <1>1, <2>1, <2>2, P!NextKeeps, P!AloneNext
  <2>3. CASE UNCHANGED m
    BY <2>1, <2>3
  <2>. QED BY <2>1, <2>2, <2>3
<1>4. Inv => StopHolds
  BY <1>1, SameProperties, P!GoodSound, P!AloneHolds DEF StopHolds
<1>. QED BY <1>2, <1>3, <1>4, PTL DEF LiveSpec

-------------------------------------------------------------------------------
(* ListenerStream                                                          *)

PL == INSTANCE ListenerStreamProofs WITH Workers <- {w1}, Stoppers <- {u1}, All <- all, MaxRetries <- 0
PA == INSTANCE ListenerStreamProofs WITH Workers <- {w1}, Stoppers <- {all}, All <- all, MaxRetries <- 0

\* The module with the theorems has the same system, with a Stop ...
LEMMA SameWithStop == (L!Init <=> PL!Init) /\ (L!Next <=> PL!Next)
<1>1. L!Init <=> PL!Init
  BY DEF L!Init, L!Agents, L!NoRun, L!Blank, L!Idle, PL!Init, PL!Agents, PL!NoRun, PL!Blank, PL!Idle
<1>2. ASSUME NEW v PROVE L!Becomes(v) <=> PL!Becomes(v)
  BY DEF L!Becomes, L!Garbage, L!Settled, L!Agents, L!NoRun, L!Blank, PL!Becomes, PL!Garbage, PL!Settled,
         PL!Agents, PL!NoRun, PL!Blank
<1>3. ASSUME NEW w
     PROVE  /\ (L!Detach(w) <=> PL!Detach(w)) /\ (L!Reap(w) <=> PL!Reap(w))
            /\ (L!Shut(w) <=> PL!Shut(w)) /\ (L!Drain(w) <=> PL!Drain(w))
  BY <1>2 DEF L!Detach, L!Reap, L!Shut, L!Drain, L!RunOver, L!Agents, L!NoRun, L!NewRun, L!Blank, L!Idle, L!At,
              L!Own, L!Target, L!Goto, L!Quit, L!Owns, L!Stopping, PL!Detach, PL!Reap, PL!Shut, PL!Drain,
              PL!RunOver, PL!Agents, PL!NoRun, PL!NewRun, PL!Blank, PL!Idle, PL!At, PL!Own, PL!Target, PL!Goto,
              PL!Quit, PL!Owns, PL!Stopping
<1>4. ASSUME NEW w, NEW b
     PROVE  /\ (L!Start(w) <=> PL!Start(w)) /\ (L!Claim(w) <=> PL!Claim(w))
            /\ (L!Unclaim(w) <=> PL!Unclaim(w)) /\ (L!Publish(w) <=> PL!Publish(w))
            /\ (L!Bind(w, b) <=> PL!Bind(w, b)) /\ (L!Exec(w, b) <=> PL!Exec(w, b))
  BY ZenonT(60), <1>2 DEF L!Start, L!Claim, L!Unclaim, L!Publish, L!Bind, L!Exec, L!MayClaim, L!Unused, L!MayBind,
              L!PortFree, L!Agents, L!NoRun, L!NewRun, L!Blank, L!Idle, L!At, L!Own, L!Target, L!Goto, L!Quit,
              L!Owns, L!Stopping, PL!Start, PL!Claim, PL!Unclaim, PL!Publish, PL!Bind, PL!Exec, PL!MayClaim,
              PL!Unused, PL!MayBind, PL!PortFree, PL!Agents, PL!NoRun, PL!NewRun, PL!Blank, PL!Idle, PL!At,
              PL!Own, PL!Target, PL!Goto, PL!Quit, PL!Owns, PL!Stopping
<1>5. ASSUME NEW w, NEW b
     PROVE  /\ (L!Begin(w) <=> PL!Begin(w)) /\ (L!Top(w) <=> PL!Top(w))
            /\ (L!OutputEnds(w) <=> PL!OutputEnds(w)) /\ (L!Finish(w) <=> PL!Finish(w))
            /\ (L!Exited(w) <=> PL!Exited(w)) /\ (L!Record(w, b) <=> PL!Record(w, b))
            /\ (L!Check(w) <=> PL!Check(w)) /\ (L!Count(w) <=> PL!Count(w))
            /\ (L!Backoff(w) <=> PL!Backoff(w))
  BY ZenonT(60), <1>2 DEF L!Begin, L!Top, L!OutputEnds, L!Finish, L!Exited, L!Record, L!Check, L!Count, L!Backoff,
              L!RetryCount, L!Agents, L!NoRun, L!NewRun, L!Blank, L!Idle, L!At, L!Own, L!Target, L!Goto, L!Quit,
              L!Owns, L!Stopping, PL!Begin, PL!Top, PL!OutputEnds, PL!Finish, PL!Exited, PL!Record, PL!Check,
              PL!Count, PL!Backoff, PL!RetryCount, PL!Agents, PL!NoRun, PL!NewRun, PL!Blank, PL!Idle, PL!At,
              PL!Own, PL!Target, PL!Goto, PL!Quit, PL!Owns, PL!Stopping
<1>6. ASSUME NEW w, NEW b
     PROVE  /\ (L!Reserve(w) <=> PL!Reserve(w)) /\ (L!Restart(w, b) <=> PL!Restart(w, b))
            /\ (L!Attach(w) <=> PL!Attach(w)) /\ (L!Keep(w) <=> PL!Keep(w))
            /\ (L!Release(w) <=> PL!Release(w)) /\ (L!RemoveIfOwned(w) <=> PL!RemoveIfOwned(w))
  BY ZenonT(60), <1>2 DEF L!Reserve, L!Restart, L!Attach, L!Keep, L!Release, L!RemoveIfOwned, L!MayReserve, L!RunOver,
              L!Agents, L!NoRun, L!NewRun, L!Blank, L!Idle, L!At, L!Own, L!Target, L!Goto, L!Quit, L!Owns,
              L!Stopping, PL!Reserve, PL!Restart, PL!Attach, PL!Keep, PL!Release, PL!RemoveIfOwned,
              PL!MayReserve, PL!RunOver, PL!Agents, PL!NoRun, PL!NewRun, PL!Blank, PL!Idle, PL!At, PL!Own,
              PL!Target, PL!Goto, PL!Quit, PL!Owns, PL!Stopping
<1>7. ASSUME NEW w
     PROVE  /\ (L!Stop(w) <=> PL!Stop(w)) /\ (L!Emit(w) <=> PL!Emit(w))
            /\ (L!Delete(w) <=> PL!Delete(w)) /\ (L!Clear <=> PL!Clear)
  BY SMTT(60), <1>2 DEF L!Stop, L!Emit, L!Delete, L!Clear, L!Returned, L!Agents, L!NoRun, L!NewRun, L!Blank, L!Idle, L!At,
              L!Own, L!Target, L!Goto, L!Quit, L!Owns, L!Stopping, PL!Stop, PL!Emit, PL!Delete, PL!Clear,
              PL!Returned, PL!Agents, PL!NoRun, PL!NewRun, PL!Blank, PL!Idle, PL!At, PL!Own, PL!Target, PL!Goto,
              PL!Quit, PL!Owns, PL!Stopping
<1>8. ASSUME NEW w, NEW b
     PROVE  /\ (L!EncoderTurns(w, b) <=> PL!EncoderTurns(w, b)) /\ (L!EncoderStops <=> PL!EncoderStops)
            /\ (L!Disable <=> PL!Disable) /\ (L!Exits(w) <=> PL!Exits(w))
            /\ (L!ClosesOutput(w) <=> PL!ClosesOutput(w)) /\ (L!WriterEnds(w) <=> PL!WriterEnds(w))
            /\ (L!Escalate(w) <=> PL!Escalate(w)) /\ (L!Closed(w) <=> PL!Closed(w))
  BY <1>2 DEF L!EncoderTurns, L!EncoderStops, L!Disable, L!Exits, L!ClosesOutput, L!WriterEnds, L!Escalate,
              L!Closed, L!Agents, L!NoRun, L!NewRun, L!Blank, L!Idle, L!At, L!Own, L!Target, L!Goto, L!Quit,
              L!Owns, L!Stopping, PL!EncoderTurns, PL!EncoderStops, PL!Disable, PL!Exits, PL!ClosesOutput,
              PL!WriterEnds, PL!Escalate, PL!Closed, PL!Agents, PL!NoRun, PL!NewRun, PL!Blank, PL!Idle, PL!At,
              PL!Own, PL!Target, PL!Goto, PL!Quit, PL!Owns, PL!Stopping
<1>9. L!Next <=> PL!Next
  BY ZenonT(60), <1>3, <1>4, <1>5, <1>6, <1>7, <1>8 DEF L!Next, L!Work, L!StopWork, L!StopResources, PL!Next, PL!Work, PL!StopWork, PL!StopResources
<1>. QED BY <1>1, <1>9

\* ... and with StopAll, ...
LEMMA SameWithStopAll == (A!Init <=> PA!Init) /\ (A!Next <=> PA!Next)
<1>1. A!Init <=> PA!Init
  BY DEF A!Init, A!Agents, A!NoRun, A!Blank, A!Idle, PA!Init, PA!Agents, PA!NoRun, PA!Blank, PA!Idle
<1>2. ASSUME NEW v PROVE A!Becomes(v) <=> PA!Becomes(v)
  BY DEF A!Becomes, A!Garbage, A!Settled, A!Agents, A!NoRun, A!Blank, PA!Becomes, PA!Garbage, PA!Settled,
         PA!Agents, PA!NoRun, PA!Blank
<1>3. ASSUME NEW w
     PROVE  /\ (A!Detach(w) <=> PA!Detach(w)) /\ (A!Reap(w) <=> PA!Reap(w))
            /\ (A!Shut(w) <=> PA!Shut(w)) /\ (A!Drain(w) <=> PA!Drain(w))
  BY <1>2 DEF A!Detach, A!Reap, A!Shut, A!Drain, A!RunOver, A!Agents, A!NoRun, A!NewRun, A!Blank, A!Idle, A!At,
              A!Own, A!Target, A!Goto, A!Quit, A!Owns, A!Stopping, PA!Detach, PA!Reap, PA!Shut, PA!Drain,
              PA!RunOver, PA!Agents, PA!NoRun, PA!NewRun, PA!Blank, PA!Idle, PA!At, PA!Own, PA!Target, PA!Goto,
              PA!Quit, PA!Owns, PA!Stopping
<1>4. ASSUME NEW w, NEW b
     PROVE  /\ (A!Start(w) <=> PA!Start(w)) /\ (A!Claim(w) <=> PA!Claim(w))
            /\ (A!Unclaim(w) <=> PA!Unclaim(w)) /\ (A!Publish(w) <=> PA!Publish(w))
            /\ (A!Bind(w, b) <=> PA!Bind(w, b)) /\ (A!Exec(w, b) <=> PA!Exec(w, b))
  BY <1>2 DEF A!Start, A!Claim, A!Unclaim, A!Publish, A!Bind, A!Exec, A!MayClaim, A!Unused, A!MayBind,
              A!PortFree, A!Agents, A!NoRun, A!NewRun, A!Blank, A!Idle, A!At, A!Own, A!Target, A!Goto, A!Quit,
              A!Owns, A!Stopping, PA!Start, PA!Claim, PA!Unclaim, PA!Publish, PA!Bind, PA!Exec, PA!MayClaim,
              PA!Unused, PA!MayBind, PA!PortFree, PA!Agents, PA!NoRun, PA!NewRun, PA!Blank, PA!Idle, PA!At,
              PA!Own, PA!Target, PA!Goto, PA!Quit, PA!Owns, PA!Stopping
<1>5. ASSUME NEW w, NEW b
     PROVE  /\ (A!Begin(w) <=> PA!Begin(w)) /\ (A!Top(w) <=> PA!Top(w))
            /\ (A!OutputEnds(w) <=> PA!OutputEnds(w)) /\ (A!Finish(w) <=> PA!Finish(w))
            /\ (A!Exited(w) <=> PA!Exited(w)) /\ (A!Record(w, b) <=> PA!Record(w, b))
            /\ (A!Check(w) <=> PA!Check(w)) /\ (A!Count(w) <=> PA!Count(w))
            /\ (A!Backoff(w) <=> PA!Backoff(w))
  BY <1>2 DEF A!Begin, A!Top, A!OutputEnds, A!Finish, A!Exited, A!Record, A!Check, A!Count, A!Backoff,
              A!RetryCount, A!Agents, A!NoRun, A!NewRun, A!Blank, A!Idle, A!At, A!Own, A!Target, A!Goto, A!Quit,
              A!Owns, A!Stopping, PA!Begin, PA!Top, PA!OutputEnds, PA!Finish, PA!Exited, PA!Record, PA!Check,
              PA!Count, PA!Backoff, PA!RetryCount, PA!Agents, PA!NoRun, PA!NewRun, PA!Blank, PA!Idle, PA!At,
              PA!Own, PA!Target, PA!Goto, PA!Quit, PA!Owns, PA!Stopping
<1>6. ASSUME NEW w, NEW b
     PROVE  /\ (A!Reserve(w) <=> PA!Reserve(w)) /\ (A!Restart(w, b) <=> PA!Restart(w, b))
            /\ (A!Attach(w) <=> PA!Attach(w)) /\ (A!Keep(w) <=> PA!Keep(w))
            /\ (A!Release(w) <=> PA!Release(w)) /\ (A!RemoveIfOwned(w) <=> PA!RemoveIfOwned(w))
  BY <1>2 DEF A!Reserve, A!Restart, A!Attach, A!Keep, A!Release, A!RemoveIfOwned, A!MayReserve, A!RunOver,
              A!Agents, A!NoRun, A!NewRun, A!Blank, A!Idle, A!At, A!Own, A!Target, A!Goto, A!Quit, A!Owns,
              A!Stopping, PA!Reserve, PA!Restart, PA!Attach, PA!Keep, PA!Release, PA!RemoveIfOwned,
              PA!MayReserve, PA!RunOver, PA!Agents, PA!NoRun, PA!NewRun, PA!Blank, PA!Idle, PA!At, PA!Own,
              PA!Target, PA!Goto, PA!Quit, PA!Owns, PA!Stopping
<1>7. ASSUME NEW w
     PROVE  /\ (A!Stop(w) <=> PA!Stop(w)) /\ (A!Emit(w) <=> PA!Emit(w))
            /\ (A!Delete(w) <=> PA!Delete(w)) /\ (A!Clear <=> PA!Clear)
  BY SMTT(60), <1>2 DEF A!Stop, A!Emit, A!Delete, A!Clear, A!Returned, A!Agents, A!NoRun, A!NewRun, A!Blank, A!Idle, A!At,
              A!Own, A!Target, A!Goto, A!Quit, A!Owns, A!Stopping, PA!Stop, PA!Emit, PA!Delete, PA!Clear,
              PA!Returned, PA!Agents, PA!NoRun, PA!NewRun, PA!Blank, PA!Idle, PA!At, PA!Own, PA!Target, PA!Goto,
              PA!Quit, PA!Owns, PA!Stopping
<1>8. ASSUME NEW w, NEW b
     PROVE  /\ (A!EncoderTurns(w, b) <=> PA!EncoderTurns(w, b)) /\ (A!EncoderStops <=> PA!EncoderStops)
            /\ (A!Disable <=> PA!Disable) /\ (A!Exits(w) <=> PA!Exits(w))
            /\ (A!ClosesOutput(w) <=> PA!ClosesOutput(w)) /\ (A!WriterEnds(w) <=> PA!WriterEnds(w))
            /\ (A!Escalate(w) <=> PA!Escalate(w)) /\ (A!Closed(w) <=> PA!Closed(w))
  BY <1>2 DEF A!EncoderTurns, A!EncoderStops, A!Disable, A!Exits, A!ClosesOutput, A!WriterEnds, A!Escalate,
              A!Closed, A!Agents, A!NoRun, A!NewRun, A!Blank, A!Idle, A!At, A!Own, A!Target, A!Goto, A!Quit,
              A!Owns, A!Stopping, PA!EncoderTurns, PA!EncoderStops, PA!Disable, PA!Exits, PA!ClosesOutput,
              PA!WriterEnds, PA!Escalate, PA!Closed, PA!Agents, PA!NoRun, PA!NewRun, PA!Blank, PA!Idle, PA!At,
              PA!Own, PA!Target, PA!Goto, PA!Quit, PA!Owns, PA!Stopping
<1>9. A!Next <=> PA!Next
  BY <1>3, <1>4, <1>5, <1>6, <1>7, <1>8 DEF A!Next, A!Work, A!StopWork, A!StopResources, PA!Next, PA!Work, PA!StopWork, PA!StopResources
<1>. QED BY <1>1, <1>9

\* ... and the same properties.
LEMMA SameStranded ==
  /\ PL!NothingStranded /\ PL!StoppedIsOver => L!NothingStranded /\ L!StoppedIsOver
  /\ PA!NothingStranded /\ PA!StoppedIsOver => A!NothingStranded /\ A!StoppedIsOver
BY DEF L!NothingStranded, L!StoppedIsOver, L!Handled, L!Own, L!Target, L!At, L!Agents, PL!NothingStranded,
       PL!StoppedIsOver, PL!Handled, PL!Own, PL!Target, PL!At, PL!Agents, A!NothingStranded, A!StoppedIsOver,
       A!Handled, A!Own, A!Target, A!At, A!Agents, PA!NothingStranded, PA!StoppedIsOver, PA!Handled, PA!Own,
       PA!Target, PA!At, PA!Agents

\* No encoder run and no port of a listener is left behind by a start, a retry, a Stop or
\* StopAll, and when stream_stopped is emitted the port is free and no encoder of the entry
\* runs again, whatever the number of entries in use (startListenerFanout,
\* monitorListenerEncoder, stopStreamResources).
THEOREM NothingIsLeft == LiveSpec => []NothingStranded
<1> DEFINE Inv == (which = "stop" => PL!Good(l)) /\ (which = "stopAll" => PA!Good(l))
<1>1. PL!ListenerAssumption /\ PA!ListenerAssumption
  BY CallerStreamAssumption, ListenerStreamAssumption DEF PL!ListenerAssumption, PA!ListenerAssumption
<1>2. LiveInit => Inv
  <2>1. L!Init => PL!Good(l)
    BY <1>1, SameWithStop, PL!InitGood
  <2>2. A!Init => PA!Good(l)
    BY <1>1, SameWithStopAll, PA!InitGood
  <2>3. LiveInit => (which = "stop" => L!Init) /\ (which = "stopAll" => A!Init)
    BY DEF LiveInit
  <2>. QED BY <2>1, <2>2, <2>3
<1>3. Inv /\ [LiveNext]_liveVars => Inv'
  <2> SUFFICES ASSUME Inv, [LiveNext]_liveVars PROVE Inv'
    OBVIOUS
  <2>1. which' = which /\ (which = "stop" => L!Next \/ UNCHANGED l) /\ (which = "stopAll" => A!Next \/ UNCHANGED l)
    BY DEF LiveNext, liveVars
  <2>2. ASSUME which = "stop" PROVE PL!Good(l)'
    <3>1. PL!Next \/ UNCHANGED l
      BY <2>1, <2>2, SameWithStop
    <3>. QED BY <1>1, <2>2, <3>1, PL!NextKeeps
  <2>3. ASSUME which = "stopAll" PROVE PA!Good(l)'
    <3>1. PA!Next \/ UNCHANGED l
      BY <2>1, <2>3, SameWithStopAll
    <3>. QED BY <1>1, <2>3, <3>1, PA!NextKeeps
  <2>. QED BY <2>1, <2>2, <2>3
<1>4. Inv => NothingStranded
  BY <1>1, SameStranded, PL!GoodSound, PA!GoodSound DEF NothingStranded
<1>. QED BY <1>2, <1>3, <1>4, PTL DEF LiveSpec
===============================================================================
