-------------------------- MODULE MultiplexerMulti ---------------------------
(***************************************************************************)
(* src/muduo-based/simple/multiplexer/multiplexer_multi.cc: the             *)
(* multiplexer with client connections spread over several IO threads.      *)
(*                                                                          *)
(* The base loop accepts clients and runs the callbacks of the backend      *)
(* connection; each client connection belongs to one IO loop, which runs    *)
(* one callback at a time.  A step is either a section under mutex_ or a    *)
(* stretch of a callback outside it, so that every interleaving the lock    *)
(* leaves open is a behaviour.  The TcpClient has no retry: the backend     *)
(* connection comes up at most once.                                        *)
(***************************************************************************)
EXTENDS Integers, Sequences, Functions, MuduoConn

CONSTANTS
  Conn,            \* client connection objects, each used once
  Loop,            \* the IO threads
  LoopOf,          \* the loop a connection was given by the thread pool
  NoConn,          \* a null TcpConnectionPtr
  MaxClientConns,  \* MAX_CLIENT_CONNS
  MaxBurst,        \* bound: packets one client message is cut into
  MaxTaken,        \* bound: packets cut from the stream of each client
  MaxReplies       \* bound: packets the backend sends

ASSUME MultiplexerAssumption ==
  /\ LoopOf \in [Conn -> Loop]
  /\ NoConn \notin Conn
  /\ MaxClientConns \in Nat \ {0}
  /\ MaxBurst \in Nat \ {0}
  /\ MaxTaken \in [Conn -> Nat]
  /\ MaxReplies \in Nat

Ids == 1..MaxClientConns
NoId == -1

HEADER_LEN == 3
MAX_PACKET_LEN == 255

\* Only the last packet of a message is prepended its header in the client's
\* own input buffer, after the others have been retrieved from it; they go
\* through a Buffer of their own.
RoomForLast(room, k) == room + (k - 1) * MAX_PACKET_LEN

\* Where the running callback of a client connection stands.
Places == {"idle", "assign", "release", "frame", "send"}

VARIABLES
  backend,      \* TCP state of the backend connection
  backendConn,  \* is backendConn_ set
  clientConns,  \* clientConns_: the connection of an id, or NoConn
  availIds,     \* availIds_
  conn,         \* conn[c]: state of client connection c
  context,      \* context[c]: the id in c's context, NoId when empty
  at,           \* at[c]: where c's running callback stands
  local,        \* local[c]: the local id of onClientConnection
  left,         \* left[c]: packets sendBackendBuffer has still to send
  link,         \* link[c]: was the copied backendConn non-null
  base,         \* what the base loop is doing for the backend connection
  taken,        \* taken[c]: packets cut from c's stream so far
  replies,      \* packets received from the backend
  sent,         \* sent[c]: packets of c that reached the backend connection
  wire,         \* packets handed to the backend connection
  got,          \* got[c]: ids of the backend packets handed to c
  room,         \* room[c]: bytes free in front of c's input buffer
  crashed       \* why the process ended, "no" while it runs

locks == <<backendConn, clientConns, availIds>>
callbacks == <<at, local, left, link, room>>
ghosts == <<sent, wire, got>>
vars == <<backend, conn, context, base, taken, replies, crashed,
          locks, callbacks, ghosts>>

IdleBase == [at |-> "idle", conn |-> NoConn, id |-> NoId]

BaseWork ==
  [at : {"idle", "down", "deliver", "disconnect"},
   conn : Conn \cup {NoConn}, id : Ids \cup {NoId}]

Packet == [from : Conn, id : Ids, n : Nat]

TypeOK ==
  /\ backend \in {"connecting", "up", "closed"}
  /\ backendConn \in BOOLEAN
  /\ clientConns \in [Ids -> Conn \cup {NoConn}]
  /\ availIds \in Seq(Ids)
  /\ conn \in [Conn -> ConnStates]
  /\ context \in [Conn -> Ids \cup {NoId}]
  /\ at \in [Conn -> Places]
  /\ local \in [Conn -> Ids \cup {NoId}]
  /\ left \in [Conn -> 0..MaxBurst]
  /\ link \in [Conn -> BOOLEAN]
  /\ base \in BaseWork
  /\ taken \in [Conn -> Nat]
  /\ replies \in Nat
  /\ sent \in [Conn -> Nat]
  /\ wire \in Seq(Packet)
  /\ got \in [Conn -> Seq(Ids)]
  /\ room \in [Conn -> Nat]
  /\ crashed \in {"no", "assert", "prepend", "bad_any_cast"}

Init ==
  /\ backend = "connecting"
  /\ backendConn = FALSE
  /\ clientConns = [id \in Ids |-> NoConn]
  /\ availIds = <<>>
  /\ conn = [c \in Conn |-> "absent"]
  /\ context = [c \in Conn |-> NoId]
  /\ at = [c \in Conn |-> "idle"]
  /\ local = [c \in Conn |-> NoId]
  /\ left = [c \in Conn |-> 0]
  /\ link = [c \in Conn |-> FALSE]
  /\ base = IdleBase
  /\ taken = [c \in Conn |-> 0]
  /\ replies = 0
  /\ sent = [c \in Conn |-> 0]
  /\ wire = <<>>
  /\ got = [c \in Conn |-> <<>>]
  /\ room = [c \in Conn |-> CheapPrepend]
  /\ crashed = "no"

-----------------------------------------------------------------------------
\* An event loop starts a callback only when the one before has returned.
BaseIdle == base.at = "idle" /\ crashed = "no"

LoopIdle(c) ==
  /\ crashed = "no"
  /\ \A d \in Conn : LoopOf[d] = LoopOf[c] => at[d] = "idle"

InCallback(c, place) == at[c] = place /\ crashed = "no"

\* A failed assert or an uncaught exception ends the process.
Crash(why) ==
  /\ crashed' = why
  /\ UNCHANGED <<backend, conn, context, base, taken, replies,
                 locks, callbacks, ghosts>>

Registered == Range(clientConns) \ {NoConn}

\* availIds_ when the backend comes up.
FreshIds == [i \in Ids |-> i]

\* The clients after the loop of shutdowns in onBackendConnection, and
\* clientConns_ after its clear().
NobodyShutDown == conn
ClientsShutDown ==
  [c \in Conn |-> IF c \in Registered THEN AfterShutdown(conn[c]) ELSE conn[c]]

NotCleared == clientConns
Cleared == [id \in Ids |-> NoConn]

\* front() without pop() would leave the id in the queue.
NotPopped == availIds
Popped == Tail(availIds)

\* clientConns_ after erase(id).
NotErased(id) == clientConns
Erased(id) == [clientConns EXCEPT ![id] = NoConn]

\* The id that becomes the context of c; reading the queue again, outside the
\* lock, would be a mistake.
IdReadAgain(c) == IF availIds = <<>> THEN local[c] ELSE Head(availIds)
IdTaken(c) == local[c]

\* A client for which there is no id is shut down.
LeftConnected(c) == conn[c]
TurnedAway(c) == AfterShutdown(conn[c])

\* The next packet of c's stream; the remainder of the buffer comes last.
RemainderFirst(c) == [from |-> c, id |-> context[c], n |-> taken[c] + left[c]]
NextPacket(c) == [from |-> c, id |-> context[c], n |-> taken[c] + 1]

-----------------------------------------------------------------------------
(* The base loop: the backend connection's callbacks and the acceptor. *)

OnBackendUp ==
  /\ BaseIdle
  /\ backend = "connecting"
  /\ \/ /\ availIds # <<>>
        /\ Crash("assert")
     \/ /\ availIds = <<>>
        /\ backend' = "up"
        /\ backendConn' = TRUE
        /\ availIds' = FreshIds
        /\ UNCHANGED <<clientConns, conn, context, base, taken,
                       replies, crashed, callbacks, ghosts>>

\* handleClose: the connection is down before its callback takes the lock.
OnBackendClose ==
  /\ BaseIdle
  /\ backend = "up"
  /\ backend' = "closed"
  /\ base' = [IdleBase EXCEPT !.at = "down"]
  /\ UNCHANGED <<conn, context, taken, replies, crashed,
                 locks, callbacks, ghosts>>

OnBackendDown ==
  /\ base.at = "down" /\ crashed = "no"
  /\ backendConn' = FALSE
  /\ conn' = ClientsShutDown
  /\ clientConns' = Cleared
  /\ availIds' = <<>>
  /\ base' = IdleBase
  /\ UNCHANGED <<backend, context, taken, replies, crashed, callbacks, ghosts>>

\* A packet for id, or the command DISCONNECT id: the connection is looked up
\* under the lock and used after it is released.
OnBackendMessage(id, work) ==
  /\ BaseIdle
  /\ backend = "up"
  /\ replies < MaxReplies
  /\ replies' = replies + 1
  /\ base' = IF clientConns[id] = NoConn THEN IdleBase
             ELSE [at |-> work, conn |-> clientConns[id], id |-> id]
  /\ UNCHANGED <<backend, conn, context, taken, crashed,
                 locks, callbacks, ghosts>>

SendToClient ==
  /\ base.at = "deliver" /\ crashed = "no"
  /\ got' = IF Sendable(conn[base.conn])
            THEN [got EXCEPT ![base.conn] = Append(@, base.id)] ELSE got
  /\ base' = IdleBase
  /\ UNCHANGED <<backend, conn, context, taken, replies, crashed,
                 sent, wire, locks, callbacks>>

DisconnectClient ==
  /\ base.at = "disconnect" /\ crashed = "no"
  /\ conn' = [conn EXCEPT ![base.conn] = AfterShutdown(@)]
  /\ base' = IdleBase
  /\ UNCHANGED <<backend, context, taken, replies, crashed,
                 locks, callbacks, ghosts>>

\* The acceptor creates c and queues connectEstablished on c's loop.
Accept(c) ==
  /\ BaseIdle
  /\ conn[c] = "absent"
  /\ conn' = [conn EXCEPT ![c] = "accepted"]
  /\ UNCHANGED <<backend, context, base, taken, replies, crashed,
                 locks, callbacks, ghosts>>

-----------------------------------------------------------------------------
(* The IO loops: onClientConnection and onClientMessage. *)

\* connectEstablished, up to the end of the locked section that takes an id.
OnClientUp(c) ==
  /\ LoopIdle(c)
  /\ conn[c] = "accepted"
  /\ conn' = [conn EXCEPT ![c] = "connected"]
  /\ at' = [at EXCEPT ![c] = "assign"]
  /\ \/ /\ availIds # <<>>
        /\ local' = [local EXCEPT ![c] = Head(availIds)]
        /\ availIds' = Popped
        /\ clientConns' = [clientConns EXCEPT ![Head(availIds)] = c]
     \/ /\ availIds = <<>>
        /\ UNCHANGED <<local, availIds, clientConns>>
  /\ UNCHANGED <<backend, backendConn, context, left, link, room, base,
                 taken, replies, crashed, ghosts>>

\* The rest of it: keep the id as the context, or turn the client away.
FinishUp(c) ==
  /\ InCallback(c, "assign")
  /\ at' = [at EXCEPT ![c] = "idle"]
  /\ local' = [local EXCEPT ![c] = NoId]
  /\ \/ /\ local[c] >= 1
        /\ context' = [context EXCEPT ![c] = IdTaken(c)]
        /\ UNCHANGED conn
     \/ /\ local[c] < 1
        /\ conn' = [conn EXCEPT ![c] = TurnedAway(c)]
        /\ UNCHANGED context
  /\ UNCHANGED <<backend, left, link, room, base, taken, replies,
                 crashed, locks, ghosts>>

\* handleClose and onClientConnection up to the lock.  any_cast<int> throws
\* on the empty context of a client that was turned away.
OnClientClose(c) ==
  /\ LoopIdle(c)
  /\ Readable(conn[c])
  /\ \/ /\ context[c] = NoId
        /\ Crash("bad_any_cast")
     \/ /\ context[c] # NoId
        /\ ~(context[c] > 0 /\ context[c] <= MaxClientConns)
        /\ Crash("assert")
     \/ /\ context[c] > 0 /\ context[c] <= MaxClientConns
        /\ conn' = [conn EXCEPT ![c] = "disconnected"]
        /\ at' = [at EXCEPT ![c] = "release"]
        /\ UNCHANGED <<backend, context, local, left, link, room, base,
                       taken, replies, crashed, locks, ghosts>>

\* The locked section of onClientConnection for a connection that is down.
ReleaseId(c) ==
  /\ InCallback(c, "release")
  /\ \/ /\ backendConn
        /\ availIds' = Append(availIds, context[c])
        /\ clientConns' = Erased(context[c])
        /\ at' = [at EXCEPT ![c] = "idle"]
        /\ UNCHANGED crashed
     \/ /\ ~backendConn
        /\ availIds = <<>> /\ Registered = {}
        /\ at' = [at EXCEPT ![c] = "idle"]
        /\ UNCHANGED <<availIds, clientConns, crashed>>
     \/ /\ ~backendConn
        /\ ~(availIds = <<>> /\ Registered = {})
        /\ crashed' = "assert"
        /\ UNCHANGED <<availIds, clientConns, at>>
  /\ UNCHANGED <<backend, backendConn, conn, context, local, left, link,
                 room, base, taken, replies, ghosts>>

\* A message that sendBackendBuffer cuts into k packets.  Without a context
\* the callback returns and leaves everything as it is.
OnClientMessage(c, k) ==
  /\ LoopIdle(c)
  /\ Readable(conn[c])
  /\ context[c] # NoId
  /\ taken[c] + k <= MaxTaken[c]
  /\ at' = [at EXCEPT ![c] = "frame"]
  /\ left' = [left EXCEPT ![c] = k]
  /\ \E free \in RoomAfterRead(room[c]) :
       room' = [room EXCEPT ![c] = RoomForLast(free, k)]
  /\ UNCHANGED <<backend, conn, context, local, link, base, taken,
                 replies, crashed, locks, ghosts>>

\* sendBackendPacket prepends the header, which must find room in front of the
\* packet, copies backendConn_ under the lock ...
CopyBackendConn(c) ==
  /\ InCallback(c, "frame")
  /\ \/ /\ left[c] = 1 /\ room[c] < HEADER_LEN
        /\ Crash("prepend")
     \/ /\ left[c] = 1 => room[c] >= HEADER_LEN
        /\ room' = [room EXCEPT ![c] = IF left[c] = 1 THEN @ - HEADER_LEN ELSE @]
        /\ link' = [link EXCEPT ![c] = backendConn]
        /\ at' = [at EXCEPT ![c] = "send"]
        /\ UNCHANGED <<backend, conn, context, local, left, base, taken,
                       replies, crashed, locks, ghosts>>

\* ... and sends without it.  send() empties the buffer of the packet.  One that
\* nobody takes is lost, but the last one stays in the input buffer with its
\* header, and what the client sends next is prepended a header before that.
SendBackendPacket(c) ==
  /\ InCallback(c, "send")
  /\ left' = [left EXCEPT ![c] = @ - 1]
  /\ at' = [at EXCEPT ![c] = IF left[c] > 1 THEN "frame" ELSE "idle"]
  /\ link' = [link EXCEPT ![c] = FALSE]
  /\ taken' = [taken EXCEPT ![c] = @ + 1]
  /\ \/ /\ link[c] /\ backend = "up"
        /\ sent' = [sent EXCEPT ![c] = @ + 1]
        /\ wire' = Append(wire, NextPacket(c))
        /\ room' = [room EXCEPT ![c] = IF left[c] = 1 THEN CheapPrepend ELSE @]
     \/ /\ ~(link[c] /\ backend = "up")
        /\ UNCHANGED <<sent, wire, room>>
  /\ UNCHANGED <<backend, conn, context, local, base, replies, got, crashed,
                 locks>>

-----------------------------------------------------------------------------
BaseLoop ==
  \/ OnBackendUp
  \/ OnBackendClose
  \/ OnBackendDown
  \/ \E id \in Ids, work \in {"deliver", "disconnect"} :
       OnBackendMessage(id, work)
  \/ SendToClient
  \/ DisconnectClient
  \/ \E c \in Conn : Accept(c)

IoLoop(c) ==
  \/ OnClientUp(c)
  \/ FinishUp(c)
  \/ OnClientClose(c)
  \/ ReleaseId(c)
  \/ \E k \in 1..MaxBurst : OnClientMessage(c, k)
  \/ CopyBackendConn(c)
  \/ SendBackendPacket(c)

Next == BaseLoop \/ \E c \in Conn : IoLoop(c)

\* A callback that has begun runs to its end, and a queued
\* connectEstablished is run.  Nothing is assumed of clients or backend.  Of
\* the actions joined here one at most is enabled at a time.
Fairness ==
  /\ WF_vars(OnBackendDown \/ SendToClient \/ DisconnectClient)
  /\ \A c \in Conn :
       /\ WF_vars(OnClientUp(c))
       /\ WF_vars(\/ FinishUp(c) \/ ReleaseId(c)
                  \/ CopyBackendConn(c) \/ SendBackendPacket(c))

Spec == Init /\ [][Next]_vars
FairSpec == Spec /\ Fairness

-----------------------------------------------------------------------------
(* Properties. *)

\* While backendConn_ is set, every id 1..MAX_CLIENT_CONNS is in exactly one
\* place: once in availIds_, or with one connection in clientConns_.  Without
\* it both are empty.  No id leaks, none is handed out twice.
IdPool ==
  IF backendConn
  THEN /\ IsInjective(availIds)
       /\ \A id \in Ids : id \in Range(availIds) <=> clientConns[id] = NoConn
       /\ \A i, j \in Ids :
            clientConns[i] = clientConns[j] /\ clientConns[i] # NoConn => i = j
  ELSE availIds = <<>> /\ Registered = {}

\* clientConns_ and the contexts agree: a registered connection holds the id
\* it is registered under, in its context or, until setContext has run, in
\* the local variable of its callback; and while the backend is up a
\* connection with an id that has not yet released it is registered.
RegistryMatchesContext ==
  /\ \A id \in Ids : clientConns[id] # NoConn =>
       LET c == clientConns[id]
       IN  IF at[c] = "assign" THEN local[c] = id ELSE context[c] = id
  /\ \A c \in Conn :
       backendConn /\ context[c] # NoId
         /\ (conn[c] # "disconnected" \/ at[c] = "release")
       => clientConns[context[c]] = c

\* "Once backend connection is down, release all the client connections":
\* after the callback has run, the only connected client is one that found
\* no id and is about to be shut down.
NoClientOutlivesBackend ==
  backend = "closed" /\ ~backendConn =>
    \A c \in Conn : conn[c] = "connected" =>
                      at[c] = "assign" /\ local[c] = NoId

\* The asserts about ids and clientConns_ never fail, in any interleaving.  That
\* of Buffer::prepend fails only after the backend has gone, by a message of a
\* client that has already lost two packets.
AssertsHoldUntilLoss ==
  /\ crashed # "assert"
  /\ crashed = "prepend" =>
       backend = "closed" /\ \E c \in Conn : taken[c] >= sent[c] + 2

\* Every client connection that goes down carries an id, as the any_cast and
\* the assert that follows it in onClientConnection require.
EveryClosedClientHasId == crashed # "bad_any_cast"

\* A client connected when the backend is lost is eventually shut down.
BackendLossReleasesClients ==
  \A c \in Conn :
    (backend = "closed" /\ conn[c] = "connected")
      ~> (conn[c] # "connected" \/ crashed # "no")

\* The id of a connection that has gone down returns to the pool.
ClosedClientReturnsId ==
  \A c \in Conn :
    (c \in Registered /\ conn[c] = "disconnected")
      ~> (c \notin Registered \/ crashed # "no")

\* The multi-threaded server keeps the promise of MuxLease: a lease starts in
\* the locked section of OnClientUp and ends in that of ReleaseId or
\* OnBackendDown.
Tag(c) == IF at[c] = "assign" THEN local[c] ELSE context[c]

Lease == INSTANCE MuxLease
           WITH open <- backendConn, tag <- [c \in Conn |-> Tag(c)],
                holders <- Registered, MaxBurst <- 1

ImplementsLease == Lease!Spec
ExclusiveIds == Lease!Exclusive
SessionsDisjoint == Lease!SessionsDisjoint
StreamInOrder == Lease!StreamInOrder
OnlyOwnId == Lease!OnlyOwnId
-----------------------------------------------------------------------------
(* The inductive invariant behind IdPool and the properties that follow. *)

\* The two views of the backend connection; no id has been given before it is
\* up; what the base loop holds on to outside the lock is a connection that
\* was given the packet's id.
BaseInv ==
  /\ backendConn <=> backend = "up" \/ base.at = "down"
  /\ base.at = "down" => backend = "closed"
  /\ backend = "connecting" =>
       \A c \in Conn : context[c] = NoId /\ local[c] = NoId
  /\ base.at \in {"deliver", "disconnect"} =>
       /\ backend = "up"
       /\ base.conn \in Conn /\ base.id \in Ids
       /\ base.id = Tag(base.conn)

\* The stages of a client connection and of its running callback.
CallbackOf(c) ==
  /\ conn[c] \in {"absent", "accepted"} => at[c] = "idle" /\ context[c] = NoId
  /\ conn[c] = "connected" /\ context[c] = NoId => at[c] = "assign"
  /\ at[c] = "assign" =>
       /\ Readable(conn[c]) /\ context[c] = NoId
       /\ local[c] = NoId => conn[c] = "connected"
       /\ local[c] # NoId /\ backendConn => clientConns[local[c]] = c
  /\ at[c] # "assign" => local[c] = NoId
  /\ at[c] = "release" => conn[c] = "disconnected" /\ context[c] # NoId
  /\ conn[c] = "disconnected" => at[c] \in {"idle", "release"}
  /\ at[c] \in {"frame", "send"} => context[c] # NoId /\ left[c] > 0
  /\ at[c] = "send" /\ backend = "up" => link[c]

CallbackInv == \A c \in Conn : CallbackOf(c)

\* Nothing is lost from a client's stream before the backend connection is.
StreamInv == backend # "closed" => \A c \in Conn : taken[c] = sent[c]

\* The room in front of an input buffer shrinks only by the headers of packets
\* that were lost and of the one that is being sent.
Headers(c) ==
  taken[c] - sent[c] + IF at[c] = "send" /\ left[c] = 1 THEN 1 ELSE 0

RoomInv ==
  \A c \in Conn : /\ sent[c] <= taken[c]
                  /\ room[c] >= CheapPrepend - HEADER_LEN * Headers(c)

IInv ==
  /\ TypeOK
  /\ IdPool
  /\ RegistryMatchesContext
  /\ BaseInv
  /\ CallbackInv
  /\ StreamInv
  /\ RoomInv
  /\ NoClientOutlivesBackend
  /\ AssertsHoldUntilLoss
=============================================================================
