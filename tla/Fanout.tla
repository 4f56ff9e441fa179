-------------------------------- MODULE Fanout --------------------------------
(***************************************************************************)
(* The SRT fan-out of one listener (internal/srtfanout/server.go): clients *)
(* are admitted, get a bounded queue that drops its oldest chunk, and are  *)
(* closed by Shutdown, while the encoder's output reader calls Write.      *)
(* The SRT library calls handleConnect and, when the handshake is done,    *)
(* handleSubscribe, each in a goroutine of the connection.                 *)
(***************************************************************************)
EXTENDS Naturals, Sequences

CONSTANTS
  Conns,        \* connections of clients
  MaxClients,   \* limit of subscribers at the handshake
  QueueChunks,  \* depth of a subscriber's queue
  Password,     \* whether the listener has a passphrase
  MaxChunks     \* bound: chunks the encoder puts out

VARIABLES
  conn,         \* of each connection: none, admitted, subscribed, leaving, removed, gone
  queue,        \* of each subscriber: chunks not sent yet
  done,         \* subscribers told to stop, their connection closed
  subscribers,  \* the map s.subscribers
  clientCount,
  writing,      \* subscribers that Write, under the read lock, has still to offer the chunk
  evicting,     \* of these, the ones whose queue was found full
  chunk,        \* the last chunk Write was called with
  shutdown,     \* of Shutdown: no, begun, server, over
  snapshot,     \* the subscribers it saw when it began
  serving,      \* the server accepts connections
  sent          \* history: the last chunk sent to each connection

vars == <<conn, queue, done, subscribers, clientCount, writing, evicting, chunk, shutdown, snapshot, serving, sent>>

Init ==
  /\ conn = [c \in Conns |-> "none"] /\ queue = [c \in Conns |-> <<>>] /\ done = {}
  /\ subscribers = {} /\ clientCount = 0
  /\ writing = {} /\ evicting = {} /\ chunk = 0
  /\ shutdown = "no" /\ snapshot = {} /\ serving = TRUE
  /\ sent = [c \in Conns |-> 0]

\* Nobody holds the read lock.
Unlocked == writing = {}

Moves(c, to) == conn' = [conn EXCEPT ![c] = to]

-------------------------------------------------------------------------------
\* handleConnect: the limit, then encryption on both sides or on neither.
Connect(c, encrypted, accepted) ==
  /\ conn[c] = "none" /\ serving
  /\ clientCount < MaxClients /\ encrypted = Password /\ (Password => accepted)
  /\ Moves(c, "admitted")
  /\ UNCHANGED <<queue, done, subscribers, clientCount, writing, evicting, chunk, shutdown, snapshot, serving, sent>>

\* handleConnect refuses.
Reject(c, encrypted, accepted) ==
  /\ conn[c] = "none" /\ serving
  /\ clientCount >= MaxClients \/ encrypted # Password \/ (Password /\ ~accepted)
  /\ Moves(c, "gone")
  /\ UNCHANGED <<queue, done, subscribers, clientCount, writing, evicting, chunk, shutdown, snapshot, serving, sent>>

\* Mutated form of Stopping: a connection is taken after Shutdown took its snapshot.
StoppingLate == shutdown \in {"server", "over"}

Stopping == shutdown # "no"

\* addSubscriber: refused once Shutdown has begun.
Subscribe(c) ==
  /\ conn[c] = "admitted" /\ Unlocked
  /\ IF Stopping
     THEN Moves(c, "gone") /\ UNCHANGED <<subscribers, clientCount>>
     ELSE /\ Moves(c, "subscribed")
          /\ subscribers' = subscribers \cup {c} /\ clientCount' = clientCount + 1
  /\ UNCHANGED <<queue, done, writing, evicting, chunk, shutdown, snapshot, serving, sent>>

\* The subscriber's goroutine sends a chunk, ...
Send(c) ==
  /\ conn[c] = "subscribed" /\ queue[c] # <<>>
  /\ sent' = [sent EXCEPT ![c] = Head(queue[c])] /\ queue' = [queue EXCEPT ![c] = Tail(@)]
  /\ UNCHANGED <<conn, done, subscribers, clientCount, writing, evicting, chunk, shutdown, snapshot, serving>>

\* ... cannot, or is told to stop.
Leave(c, broken) ==
  /\ conn[c] = "subscribed" /\ (c \in done \/ (broken /\ queue[c] # <<>>))
  /\ Moves(c, "leaving")
  /\ queue' = [queue EXCEPT ![c] = IF broken /\ @ # <<>> THEN Tail(@) ELSE @]
  /\ UNCHANGED <<done, subscribers, clientCount, writing, evicting, chunk, shutdown, snapshot, serving, sent>>

\* removeSubscriber, then its connection is closed and the goroutine is done.
Remove(c) ==
  /\ conn[c] = "leaving" /\ Unlocked
  /\ Moves(c, "removed")
  /\ subscribers' = subscribers \ {c} /\ clientCount' = clientCount - 1
  /\ UNCHANGED <<queue, done, writing, evicting, chunk, shutdown, snapshot, serving, sent>>

Finish(c) ==
  /\ conn[c] = "removed"
  /\ Moves(c, "gone") /\ done' = done \cup {c} /\ queue' = [queue EXCEPT ![c] = <<>>]
  /\ UNCHANGED <<subscribers, clientCount, writing, evicting, chunk, shutdown, snapshot, serving, sent>>

-------------------------------------------------------------------------------
\* Write offers the chunk to every subscriber of the moment.
Write ==
  /\ Unlocked /\ chunk < MaxChunks
  /\ chunk' = chunk + 1 /\ writing' = subscribers
  /\ UNCHANGED <<conn, queue, done, subscribers, clientCount, evicting, shutdown, snapshot, serving, sent>>

Offered(c, q) == queue' = [queue EXCEPT ![c] = q] /\ writing' = writing \ {c}

\* OfferDropOldest: a free place is taken, a stopped subscriber may be skipped, ...
Offer(c) ==
  /\ c \in writing \ evicting
  /\ \/ Len(queue[c]) < QueueChunks /\ Offered(c, Append(queue[c], chunk)) /\ UNCHANGED evicting
     \/ c \in done /\ Offered(c, queue[c]) /\ UNCHANGED evicting
     \/ /\ Len(queue[c]) = QueueChunks /\ c \notin done
        /\ evicting' = evicting \cup {c} /\ UNCHANGED <<queue, writing>>
  /\ UNCHANGED <<conn, done, subscribers, clientCount, chunk, shutdown, snapshot, serving, sent>>

\* Mutated form of Evicted: the newest chunk is given up.
EvictedNewest(c) == queue[c]

\* ... and a full queue gives up its oldest chunk, unless it was sent meanwhile.
Evicted(c) == Append(IF queue[c] = <<>> THEN <<>> ELSE Tail(queue[c]), chunk)

Evict(c) ==
  /\ c \in evicting
  /\ Offered(c, Evicted(c)) /\ evicting' = evicting \ {c}
  /\ UNCHANGED <<conn, done, subscribers, clientCount, chunk, shutdown, snapshot, serving, sent>>

-------------------------------------------------------------------------------
\* Shutdown, once: no more subscribers; the server closes; the subscribers it saw
\* are stopped.
Shutdown ==
  /\ shutdown = "no" /\ Unlocked /\ shutdown' = "begun" /\ snapshot' = subscribers
  /\ UNCHANGED <<conn, queue, done, subscribers, clientCount, writing, evicting, chunk, serving, sent>>

CloseServer ==
  /\ shutdown = "begun" /\ shutdown' = "server" /\ serving' = FALSE
  /\ UNCHANGED <<conn, queue, done, subscribers, clientCount, writing, evicting, chunk, snapshot, sent>>

StopSubscribers ==
  /\ shutdown = "server" /\ shutdown' = "over" /\ done' = done \cup snapshot
  /\ UNCHANGED <<conn, queue, subscribers, clientCount, writing, evicting, chunk, snapshot, serving, sent>>

\* Wait returns: the server has ended and every subscriber's goroutine.
Waited == ~serving /\ \A c \in Conns : conn[c] \notin {"subscribed", "leaving", "removed"}

-------------------------------------------------------------------------------
ClientSteps(c) == Subscribe(c) \/ Send(c) \/ Leave(c, FALSE) \/ Remove(c) \/ Finish(c)
ServerSteps    == CloseServer \/ StopSubscribers \/ \E c \in Conns : Offer(c) \/ Evict(c)

Next ==
  \/ \E c \in Conns : \/ \E e, a \in BOOLEAN : Connect(c, e, a) \/ Reject(c, e, a)
                      \/ ClientSteps(c) \/ Leave(c, TRUE)
  \/ Write \/ Shutdown \/ ServerSteps

Spec == Init /\ [][Next]_vars

Fairness == WF_vars(ServerSteps) /\ \A c \in Conns : WF_vars(ClientSteps(c))

FairSpec == Spec /\ Fairness

-------------------------------------------------------------------------------
(* Properties                                                              *)

\* Whatever a slow client does, the chunk Write was last called with is the last one
\* in its queue or already sent, and chunks reach it in order, none twice: only older
\* chunks are given up.
ClientsStayCurrent ==
  /\ \A c \in subscribers \ (writing \cup done) :
       conn[c] = "subscribed" /\ queue[c] # <<>> => queue[c][Len(queue[c])] = chunk
  /\ \A c \in Conns : \A i \in DOMAIN queue[c] :
       queue[c][i] > (IF i = 1 THEN sent[c] ELSE queue[c][i - 1])

\* Once Shutdown has begun, Wait returns, and from then on no client is left or joins,
\* also of those whose handshake was under way.
InShutdown  == shutdown # "no"
Over        == Waited /\ subscribers = {} /\ clientCount = 0
WaitReturns == InShutdown ~> []Over
===============================================================================
