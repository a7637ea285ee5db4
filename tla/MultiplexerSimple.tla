-------------------------- MODULE MultiplexerSimple --------------------------
(***************************************************************************)
(* src/muduo-based/simple/multiplexer/multiplexer_simple.cc: the            *)
(* multiplexer on a single event loop.  Every callback runs to its end      *)
(* before the next one starts, so an action is a whole callback.  What can  *)
(* interleave are the events of the clients, the backend and the network.   *)
(***************************************************************************)
EXTENDS Integers, Sequences, Functions, MuduoConn

CONSTANTS
  Conn,            \* client connection objects, each used once
  NoConn,          \* an id without an entry in clientConns_
  MaxClientConns,  \* MAX_CLIENT_CONNS
  MaxBurst,        \* bound: packets one client message is cut into
  MaxTaken,        \* bound: packets cut from the stream of one client
  MaxReplies       \* bound: packets the backend sends

ASSUME SimpleAssumption ==
  /\ NoConn \notin Conn
  /\ MaxClientConns \in Nat \ {0}
  /\ MaxBurst \in Nat \ {0}
  /\ MaxTaken \in Nat
  /\ MaxReplies \in Nat

Ids == 1..MaxClientConns
NoId == -1

HEADER_LEN == 3
MAX_PACKET_LEN == 255

\* Only the last packet of a message is prepended its header in the client's
\* own input buffer, after the others have been retrieved from it; they go
\* through a Buffer of their own.
RoomForLast(room, k) == room + (k - 1) * MAX_PACKET_LEN

VARIABLES
  backend,      \* TCP state of the backend connection
  backendConn,  \* is backendConn_ set
  clientConns,  \* clientConns_: the connection of an id, or NoConn
  availIds,     \* availIds_
  conn,         \* conn[c]: state of client connection c
  context,      \* context[c]: the id in c's context, NoId when empty
  taken,        \* taken[c]: packets cut from c's stream so far
  replies,      \* packets received from the backend
  sent,         \* sent[c]: packets of c that reached the backend connection
  wire,         \* packets handed to the backend connection
  got,          \* got[c]: ids of the backend packets handed to c
  room,         \* room[c]: bytes free in front of c's input buffer
  crashed       \* why the process ended, "no" while it runs

pool == <<backendConn, clientConns, availIds>>
ghosts == <<sent, wire, got>>
vars == <<backend, conn, context, taken, replies, room, crashed, pool, ghosts>>

Packet == [from : Conn, id : Ids, n : Nat]

TypeOK ==
  /\ backend \in {"connecting", "up", "closed"}
  /\ backendConn \in BOOLEAN
  /\ clientConns \in [Ids -> Conn \cup {NoConn}]
  /\ availIds \in Seq(Ids)
  /\ conn \in [Conn -> ConnStates]
  /\ context \in [Conn -> Ids \cup {NoId}]
  /\ taken \in [Conn -> Nat]
  /\ replies \in Nat
  /\ sent \in [Conn -> Nat]
  /\ wire \in Seq(Packet)
  /\ got \in [Conn -> Seq(Ids)]
  /\ room \in [Conn -> Nat]
  /\ crashed \in {"no", "assert", "prepend", "bad_any_cast"}

Init ==
  /\ backend = "connecting"
  /\ backendConn = FALSE
  /\ clientConns = [id \in Ids |-> NoConn]
  /\ availIds = <<>>
  /\ conn = [c \in Conn |-> "absent"]
  /\ context = [c \in Conn |-> NoId]
  /\ taken = [c \in Conn |-> 0]
  /\ replies = 0
  /\ sent = [c \in Conn |-> 0]
  /\ wire = <<>>
  /\ got = [c \in Conn |-> <<>>]
  /\ room = [c \in Conn |-> CheapPrepend]
  /\ crashed = "no"

-----------------------------------------------------------------------------
Running == crashed = "no"

\* A failed assert or an uncaught exception ends the process.
Crash(why) ==
  /\ crashed' = why
  /\ UNCHANGED <<backend, conn, context, taken, replies, room, pool, ghosts>>

Registered == Range(clientConns) \ {NoConn}

\* The clients after the loop of shutdowns in onBackendConnection, and
\* clientConns_ after its clear().
ClientsShutDown ==
  [c \in Conn |-> IF c \in Registered THEN AfterShutdown(conn[c]) ELSE conn[c]]

NotCleared == clientConns
Cleared == [id \in Ids |-> NoConn]

\* availIds_ after front() and pop(), and clientConns_ after erase(id).
Popped == Tail(availIds)

Erased(id) == [clientConns EXCEPT ![id] = NoConn]

\* The k packets sendBackendBuffer cuts from the stream of c; without the
\* retrieve() the same bytes would be sent k times.
NotRetrieved(c, k) ==
  [i \in 1..k |-> [from |-> c, id |-> context[c], n |-> taken[c] + 1]]
Packets(c, k) ==
  [i \in 1..k |-> [from |-> c, id |-> context[c], n |-> taken[c] + i]]

\* onBackendConnection, connection up.
OnBackendUp ==
  /\ Running
  /\ backend = "connecting"
  /\ \/ /\ availIds # <<>>
        /\ Crash("assert")
     \/ /\ availIds = <<>>
        /\ backend' = "up"
        /\ backendConn' = TRUE
        /\ availIds' = [i \in Ids |-> i]
        /\ UNCHANGED <<clientConns, conn, context, taken, replies, room,
                       crashed, ghosts>>

\* onBackendConnection, connection down: all clients are shut down.
OnBackendDown ==
  /\ Running
  /\ backend = "up"
  /\ backend' = "closed"
  /\ backendConn' = FALSE
  /\ conn' = ClientsShutDown
  /\ clientConns' = Cleared
  /\ availIds' = <<>>
  /\ UNCHANGED <<context, taken, replies, room, crashed, ghosts>>

\* sendToClient, for one complete packet.  The loop runs it for each packet
\* of a segment.  An id nobody holds is skipped.
SendToClient(id) ==
  /\ Running
  /\ backend = "up"
  /\ replies < MaxReplies
  /\ replies' = replies + 1
  /\ LET c == clientConns[id]
     IN  got' = IF c # NoConn /\ Sendable(conn[c])
                THEN [got EXCEPT ![c] = Append(@, id)] ELSE got
  /\ UNCHANGED <<backend, conn, context, taken, room, crashed, sent, wire, pool>>

\* doBackendCommand for "DISCONNECT id".
DoBackendCommand(id) ==
  /\ Running
  /\ backend = "up"
  /\ replies < MaxReplies
  /\ replies' = replies + 1
  /\ LET c == clientConns[id]
     IN  conn' = IF c # NoConn THEN [conn EXCEPT ![c] = AfterShutdown(@)]
                 ELSE conn
  /\ UNCHANGED <<backend, context, taken, room, crashed, pool, ghosts>>

\* Acceptance and onClientConnection, connection up: on a single loop
\* connectEstablished runs at once.
OnClientUp(c) ==
  /\ Running
  /\ conn[c] = "absent"
  /\ \/ /\ availIds # <<>>
        /\ availIds' = Popped
        /\ clientConns' = [clientConns EXCEPT ![Head(availIds)] = c]
        /\ context' = [context EXCEPT ![c] = Head(availIds)]
        /\ conn' = [conn EXCEPT ![c] = "connected"]
     \/ /\ availIds = <<>>
        /\ conn' = [conn EXCEPT ![c] = AfterShutdown("connected")]
        /\ UNCHANGED <<availIds, clientConns, context>>
  /\ UNCHANGED <<backend, backendConn, taken, replies, room, crashed, ghosts>>

\* onClientConnection, connection down.  any_cast<int> throws on the empty
\* context of a client that was turned away.
OnClientClose(c) ==
  /\ Running
  /\ Readable(conn[c])
  /\ \/ /\ context[c] = NoId
        /\ Crash("bad_any_cast")
     \/ /\ context[c] # NoId /\ context[c] \notin Ids
        /\ Crash("assert")
     \/ /\ context[c] \in Ids
        /\ ~backendConn
        /\ ~(availIds = <<>> /\ Registered = {})
        /\ Crash("assert")
     \/ /\ context[c] \in Ids
        /\ \/ /\ backendConn
              /\ availIds' = Append(availIds, context[c])
              /\ clientConns' = Erased(context[c])
           \/ /\ ~backendConn
              /\ availIds = <<>> /\ Registered = {}
              /\ UNCHANGED <<availIds, clientConns>>
        /\ conn' = [conn EXCEPT ![c] = "disconnected"]
        /\ UNCHANGED <<backend, backendConn, context, taken, replies, room,
                       crashed, ghosts>>

\* onClientMessage: sendBackendBuffer cuts the buffer into k packets and
\* sends each with the id of the connection.  send() empties the buffer; without
\* a backend the last packet stays in it, header included, and what comes next
\* is prepended a header in front of that, until there is no room for one more.
OnClientMessage(c, k) ==
  /\ Running
  /\ Readable(conn[c])
  /\ context[c] # NoId
  /\ taken[c] + k <= MaxTaken
  /\ \E free \in RoomAfterRead(room[c]) :
       \/ /\ RoomForLast(free, k) < HEADER_LEN
          /\ Crash("prepend")
       \/ /\ RoomForLast(free, k) >= HEADER_LEN
          /\ taken' = [taken EXCEPT ![c] = @ + k]
          /\ IF backendConn
             THEN /\ sent' = [sent EXCEPT ![c] = @ + k]
                  /\ wire' = wire \o Packets(c, k)
                  /\ room' = [room EXCEPT ![c] = CheapPrepend]
             ELSE /\ room' = [room EXCEPT ![c] =
                                RoomForLast(free, k) - HEADER_LEN]
                  /\ UNCHANGED <<sent, wire>>
          /\ UNCHANGED <<backend, conn, context, replies, got, crashed, pool>>

Next ==
  \/ OnBackendUp
  \/ OnBackendDown
  \/ \E id \in Ids : SendToClient(id) \/ DoBackendCommand(id)
  \/ \E c \in Conn :
       \/ OnClientUp(c)
       \/ OnClientClose(c)
       \/ \E k \in 1..MaxBurst : OnClientMessage(c, k)

Spec == Init /\ [][Next]_vars

-----------------------------------------------------------------------------
(* Properties. *)

\* While backendConn_ is set every id is either free, once in availIds_, or
\* held by exactly one connection, the one whose context names it; without
\* it nothing is registered.
IdPool ==
  IF backendConn
  THEN /\ IsInjective(availIds)
       /\ \A id \in Ids : id \in Range(availIds) <=> clientConns[id] = NoConn
       /\ \A id \in Ids, c \in Conn :
            clientConns[id] = c <=> context[c] = id /\ Readable(conn[c])
  ELSE availIds = <<>> /\ Registered = {}

\* "Once backend connection is down, release all the client connections".
NoClientOutlivesBackend ==
  ~backendConn => \A c \in Conn : conn[c] # "connected"

\* The asserts about ids and clientConns_ never fail, whatever the order of
\* events.  That of Buffer::prepend fails only after the backend has gone, by a
\* message of a client that has already lost two packets.
AssertsHoldUntilLoss ==
  /\ crashed # "assert"
  /\ crashed = "prepend" =>
       backend = "closed" /\ \E c \in Conn : taken[c] >= sent[c] + 2

\* The single-threaded server keeps the promise of MuxLease; here a client
\* message reaches the backend connection in one piece.
Lease == INSTANCE MuxLease
           WITH open <- backendConn, tag <- context, holders <- Registered

ImplementsLease == Lease!Spec

\* The room in front of an input buffer shrinks only by the headers of packets
\* that were lost.
RoomInv ==
  \A c \in Conn :
    /\ sent[c] <= taken[c]
    /\ room[c] >= CheapPrepend - HEADER_LEN * (taken[c] - sent[c])

\* What holds between the parts of the state, and makes IdPool inductive.
IInv ==
  /\ TypeOK
  /\ IdPool
  /\ NoClientOutlivesBackend
  /\ AssertsHoldUntilLoss
  /\ RoomInv
  /\ backendConn <=> backend = "up"
  /\ \A c \in Conn :
       /\ conn[c] = "absent" \/ backend = "connecting" => context[c] = NoId
       /\ conn[c] \in {"connected", "disconnected"} => context[c] # NoId
       /\ conn[c] # "accepted"
       /\ backendConn \/ context[c] = NoId => taken[c] = sent[c]
=============================================================================
