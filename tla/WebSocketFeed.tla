--------------------------- MODULE WebSocketFeed ---------------------------
(***************************************************************************)
(* The live feed (routers/websocket.py) and the broadcast of lifecycle     *)
(* events (main.py).  Every client has a bounded queue drained by a sender *)
(* task; a payload is the number it was given when it was put into that    *)
(* queue.  The router starts with a list of connections of its own, and    *)
(* takes main's list when the process becomes the leader.                  *)
(***************************************************************************)
EXTENDS Naturals, Sequences, FiniteSets

CONSTANTS
  Client,       \* sockets
  QueueSize,    \* WS_CLIENT_QUEUE_SIZE
  MaxConn,      \* WS_MAX_CONNECTIONS
  MaxPayloads,  \* bound: payloads put into one queue
  MaxSessions   \* bound: connections of one client

ASSUME FeedAssumption ==
  {QueueSize, MaxConn} \subseteq Nat \ {0} /\ {MaxPayloads, MaxSessions} \subseteq Nat

VARIABLES
  sock,       \* "off", "accept", "open", "broken" (sender gone, receive loop on)
  list,       \* the list in use, "router" or "main"
  active,     \* active_connections of each list
  queue,      \* the queue of a client
  subscribed, \* keys of _client_queues
  sender,     \* "none", "waits", "sends", "dead"
  put,        \* payloads put into the queue so far
  got,        \* last payload its sender took
  sessions,
  early, skipped  \* read by properties only: connected before the promotion;
                  \* subscribed when a broadcast was skipped

feedVars == <<sock, list, active, queue, subscribed, sender, put, got, sessions,
              early, skipped>>

FeedInit(on) ==
  /\ sock = [c \in Client |-> "off"]
  /\ list = "router"
  /\ active = [l \in {"router", "main"} |-> {}]
  /\ queue = [c \in Client |-> <<>>]
  /\ subscribed = {}
  /\ sender = [c \in Client |-> "none"]
  /\ put = [c \in Client |-> 0]
  /\ got = [c \in Client |-> 0]
  /\ sessions = [c \in Client |-> IF on THEN 0 ELSE MaxSessions]
  /\ early = {} /\ skipped = {}

\* The handshake that passes the limiter, the origin and key checks and the cap;
\* a refused one leaves nothing behind.
Handshake(c) ==
  /\ sock[c] = "off"
  /\ sessions[c] < MaxSessions
  /\ Cardinality(active[list]) < MaxConn
  /\ sock' = [sock EXCEPT ![c] = "accept"]
  /\ sessions' = [sessions EXCEPT ![c] = @ + 1]
  /\ UNCHANGED <<list, active, queue, subscribed, sender, put, got, early, skipped>>

Listed(c) == active' = [active EXCEPT ![list] = @ \cup {c}]

Accepted(c) ==
  /\ sock[c] = "accept"
  /\ sock' = [sock EXCEPT ![c] = "open"]
  /\ Listed(c)
  /\ subscribed' = subscribed \cup {c}
  /\ queue' = [queue EXCEPT ![c] = <<>>]
  /\ sender' = [sender EXCEPT ![c] = "waits"]
  /\ put' = [put EXCEPT ![c] = 0]
  /\ got' = [got EXCEPT ![c] = 0]
  /\ early' = IF list = "router" THEN early \cup {c} ELSE early \ {c}
  /\ skipped' = skipped \ {c}
  /\ UNCHANGED <<list, sessions>>

\* broken: a full queue drops the newest payload
EnqueueDropsNewest(q, n) == IF Len(q) < QueueSize THEN Append(q, n) ELSE q
\* A full queue drops its oldest payload.
Enqueue(q, n) == IF Len(q) < QueueSize THEN Append(q, n) ELSE Append(Tail(q), n)

\* broadcast_lifecycle_event and broadcast, on the leader: nothing is sent while
\* main's list is empty.
Broadcast ==
  /\ list = "main"
  /\ subscribed # {}
  /\ \A c \in subscribed : put[c] < MaxPayloads
  /\ IF active["main"] = {}
     THEN skipped' = skipped \cup subscribed /\ UNCHANGED <<queue, put>>
     ELSE /\ queue' = [c \in Client |-> IF c \in subscribed THEN Enqueue(queue[c], put[c] + 1)
                                                            ELSE queue[c]]
          /\ put' = [c \in Client |-> IF c \in subscribed THEN put[c] + 1 ELSE put[c]]
          /\ UNCHANGED skipped
  /\ UNCHANGED <<sock, list, active, subscribed, sender, got, sessions, early>>

\* A ping; the pong rides the client's queue.
Ping(c) ==
  /\ sock[c] \in {"open", "broken"}
  /\ put[c] < MaxPayloads
  /\ queue' = [queue EXCEPT ![c] = Enqueue(@, put[c] + 1)]
  /\ put' = [put EXCEPT ![c] = @ + 1]
  /\ UNCHANGED <<sock, list, active, subscribed, sender, got, sessions, early, skipped>>

SenderTakes(c) ==
  /\ sender[c] = "waits"
  /\ queue[c] # <<>>
  /\ sender' = [sender EXCEPT ![c] = "sends"]
  /\ got' = [got EXCEPT ![c] = Head(queue[c])]
  /\ queue' = [queue EXCEPT ![c] = Tail(@)]
  /\ UNCHANGED <<sock, list, active, subscribed, put, sessions, early, skipped>>

SenderSent(c) ==
  /\ sender[c] = "sends"
  /\ sender' = [sender EXCEPT ![c] = "waits"]
  /\ UNCHANGED <<sock, list, active, queue, subscribed, put, got, sessions, early, skipped>>

\* _cleanup looks only in the list in use now.
Cleanup(c) ==
  /\ subscribed' = subscribed \ {c}
  /\ active' = [active EXCEPT ![list] = @ \ {c}]

SenderFails(c) ==
  /\ sender[c] = "sends"
  /\ sender' = [sender EXCEPT ![c] = "dead"]
  /\ Cleanup(c)
  /\ sock' = [sock EXCEPT ![c] = "broken"]
  /\ UNCHANGED <<list, queue, put, got, sessions, early, skipped>>

\* The receive loop ends: disconnect, or the close of the failed sender.
Disconnected(c) ==
  /\ sock[c] \in {"open", "broken"}
  /\ sock' = [sock EXCEPT ![c] = "off"]
  /\ sender' = [sender EXCEPT ![c] = "none"]
  /\ Cleanup(c)
  /\ UNCHANGED <<list, queue, put, got, sessions, early, skipped>>

\* _start_leader_duties hands main's list to the router.
TakeMainList ==
  /\ list = "router"
  /\ \E c \in Client : sessions[c] < MaxSessions
  /\ list' = "main"
  /\ UNCHANGED <<sock, active, queue, subscribed, sender, put, got, sessions, early, skipped>>

FeedNext ==
  \/ Broadcast \/ TakeMainList
  \/ \E c \in Client :
       \/ Handshake(c) \/ Accepted(c) \/ Ping(c) \/ SenderTakes(c) \/ SenderSent(c)
       \/ SenderFails(c) \/ Disconnected(c)

FeedSpec == FeedInit(TRUE) /\ [][FeedNext]_feedVars
-----------------------------------------------------------------------------
\* _enqueue and _sender: a slow client loses only payloads that newer ones
\* pushed out: its queue is always the unbroken run of the latest payloads put
\* into it, and all of them are newer than what it was sent.
FeedInOrder ==
  \A c \in subscribed :
    \A i \in DOMAIN queue[c] :
      /\ queue[c][i] = put[c] - (Len(queue[c]) - i)
      /\ queue[c][i] > got[c]

\* _sender: a client that is still registered for broadcasts has a sender that
\* lives: no zombie that counts as connected and silently receives nothing.
NoZombie == \A c \in subscribed : sender[c] \in {"waits", "sends"} /\ sock[c] = "open"

\* broadcast_lifecycle_event skips the broadcast only when nobody listens: a
\* client that connected to the leader is never passed over.
LeaderClientsReached == skipped \subseteq early

\* A client that is connected gets the events in order from a sender that lives,
\* and none is passed over.
FeedSound == FeedInOrder /\ NoZombie /\ LeaderClientsReached
=============================================================================
