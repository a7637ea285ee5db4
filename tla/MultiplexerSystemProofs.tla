------------------------ MODULE MultiplexerSystemProofs ------------------------
(***************************************************************************)
(* The single-threaded multiplexer, for any number of connections, ids,     *)
(* packets and replies: IInv is an inductive invariant, with a lemma for    *)
(* each callback that it keeps IInv and is a step of MuxLease or none.      *)
(* Then the multiplexer with the backend server: the two are what           *)
(* MuxBackend says, so that what is shown of it in MuxBackendProofs holds   *)
(* of them.                                                                 *)
(***************************************************************************)
EXTENDS MultiplexerSystem, SequenceTheorems, TLAPS

USE SimpleAssumption

\* pop() on a queue of distinct ids.
LEMMA PopKeepsIds ==
  ASSUME NEW q \in Seq(Ids), IsInjective(q), q # <<>>
  PROVE  /\ Head(q) \in Ids /\ Head(q) \in Range(q)
         /\ Tail(q) \in Seq(Ids) /\ IsInjective(Tail(q))
         /\ \A id \in Ids : id \in Range(Tail(q)) <=> id \in Range(q) /\ id # Head(q)
<1>1. /\ Len(q) \in Nat /\ Len(q) >= 1 /\ DOMAIN q = 1..Len(q)
      /\ Head(q) = q[1] /\ Head(q) \in Ids /\ Tail(q) \in Seq(Ids)
      /\ Len(Tail(q)) = Len(q) - 1 /\ DOMAIN Tail(q) = 1..(Len(q) - 1)
      /\ \A i \in 1..(Len(q) - 1) : Tail(q)[i] = q[i + 1]
  BY HeadTailProperties, EmptySeq, LenProperties
<1>2. Head(q) \in Range(q)
  BY <1>1 DEF Range
<1>3. IsInjective(Tail(q))
  <2>1. ASSUME NEW i \in 1..(Len(q) - 1), NEW j \in 1..(Len(q) - 1),
               Tail(q)[i] = Tail(q)[j]
        PROVE  i = j
    <3>1. i + 1 \in DOMAIN q /\ j + 1 \in DOMAIN q /\ q[i + 1] = q[j + 1]
      BY <1>1, <2>1
    <3>2. QED
      BY <3>1 DEF IsInjective
  <2>2. QED
    BY <1>1, <2>1 DEF IsInjective
<1>4. ASSUME NEW id \in Ids
      PROVE  id \in Range(Tail(q)) <=> id \in Range(q) /\ id # Head(q)
  <2>1. ASSUME NEW i \in 1..(Len(q) - 1), id = Tail(q)[i]
        PROVE  id \in Range(q) /\ id # Head(q)
    <3>1. i + 1 \in DOMAIN q /\ 1 \in DOMAIN q /\ i + 1 # 1 /\ id = q[i + 1]
      BY <1>1, <2>1
    <3>2. QED
      BY <1>1, <3>1 DEF IsInjective, Range
  <2>2. ASSUME NEW i \in 1..Len(q), id = q[i], id # Head(q)
        PROVE  id \in Range(Tail(q))
    <3>1. i - 1 \in 1..(Len(q) - 1) /\ Tail(q)[i - 1] = id
      BY <1>1, <2>2
    <3>2. QED
      BY <1>1, <3>1 DEF Range
  <2>3. QED
    BY <1>1, <2>1, <2>2 DEF Range
<1>5. QED
  BY <1>1, <1>2, <1>3, <1>4

\* push() of an id that is not queued.
LEMMA PushKeepsIds ==
  ASSUME NEW q \in Seq(Ids), IsInjective(q), NEW x \in Ids, x \notin Range(q)
  PROVE  /\ Append(q, x) \in Seq(Ids) /\ IsInjective(Append(q, x))
         /\ \A id \in Ids : id \in Range(Append(q, x)) <=> id \in Range(q) \/ id = x
<1>1. /\ Len(q) \in Nat /\ DOMAIN q = 1..Len(q)
      /\ Append(q, x) \in Seq(Ids)
      /\ DOMAIN Append(q, x) = 1..(Len(q) + 1)
      /\ \A i \in 1..Len(q) : Append(q, x)[i] = q[i]
      /\ Append(q, x)[Len(q) + 1] = x
  BY AppendProperties, LenProperties
<1>2. \A i \in 1..Len(q) : Append(q, x)[i] # x
  BY <1>1 DEF Range
<1>3. IsInjective(Append(q, x))
  <2>1. ASSUME NEW i \in 1..(Len(q) + 1), NEW j \in 1..(Len(q) + 1),
               Append(q, x)[i] = Append(q, x)[j]
        PROVE  i = j
    <3>1. CASE i = Len(q) + 1 \/ j = Len(q) + 1
      BY <1>1, <1>2, <2>1, <3>1
    <3>2. CASE i # Len(q) + 1 /\ j # Len(q) + 1
      <4>1. i \in DOMAIN q /\ j \in DOMAIN q /\ q[i] = q[j]
        BY <1>1, <2>1, <3>2
      <4>2. QED
        BY <4>1 DEF IsInjective
    <3>3. QED
      BY <3>1, <3>2
  <2>2. QED
    BY <1>1, <2>1 DEF IsInjective
<1>4. ASSUME NEW id \in Ids
      PROVE  id \in Range(Append(q, x)) <=> id \in Range(q) \/ id = x
  <2>1. ASSUME NEW i \in 1..(Len(q) + 1), id = Append(q, x)[i]
        PROVE  id \in Range(q) \/ id = x
    BY <1>1, <2>1 DEF Range
  <2>2. ASSUME NEW i \in 1..Len(q), id = q[i]
        PROVE  id \in Range(Append(q, x))
    BY <1>1, <2>2 DEF Range
  <2>3. x \in Range(Append(q, x))
    BY <1>1 DEF Range
  <2>4. QED
    BY <1>1, <2>1, <2>2, <2>3 DEF Range
<1>5. QED
  BY <1>1, <1>3, <1>4

-----------------------------------------------------------------------------
\* The leases that run are those of the registered connections.
LEMMA SimpleRegistered ==
  ASSUME TypeOK
  PROVE  /\ \A c \in Conn : c \in Registered <=> \E id \in Ids : clientConns[id] = c
         /\ Registered \in SUBSET Conn
<1>1. clientConns \in [Ids -> Conn \cup {NoConn}]
  BY DEF TypeOK
<1>2. QED
  BY <1>1 DEF Registered, Range

\* IdPool with the words of this module, and what it says of one client.
LEMMA SimplePool ==
  ASSUME IInv
  PROVE  /\ backendConn
            => /\ IsInjective(availIds)
               /\ \A id \in Ids : id \in Range(availIds) <=> clientConns[id] = NoConn
               /\ \A id \in Ids, c \in Conn :
                    clientConns[id] = c <=> context[c] = id /\ Readable(conn[c])
         /\ ~backendConn => availIds = <<>> /\ Registered = {}
BY DEF IInv, IdPool

-----------------------------------------------------------------------------
\* The backend comes up: the pool is filled; nobody has an id yet.
LEMMA SimpleBackendUp ==
  ASSUME IInv, OnBackendUp
  PROVE  IInv' /\ Lease!Open
<1>0. /\ backend = "connecting" /\ backendConn = FALSE /\ availIds = <<>>
      /\ \A c \in Conn : context[c] = NoId
      /\ \A id \in Ids : clientConns[id] = NoConn
      /\ backend' = "up" /\ backendConn' = TRUE
      /\ availIds' = [i \in Ids |-> i]
      /\ UNCHANGED <<clientConns, conn, context, taken, replies, room, crashed,
                     sent, wire, got>>
  <2>1. backend = "connecting" /\ backendConn = FALSE
    BY DEF IInv, TypeOK, OnBackendUp
  <2>2. availIds = <<>> /\ Registered = {}
    BY <2>1, SimplePool
  <2>3. \A c \in Conn : context[c] = NoId
    BY <2>1 DEF IInv
  <2>4. clientConns \in [Ids -> Conn \cup {NoConn}]
    BY DEF IInv, TypeOK
  <2>5. \A id \in Ids : clientConns[id] = NoConn
    BY <2>2, <2>4 DEF Registered, Range
  <2>6. QED
    BY <2>1, <2>2, <2>3, <2>5 DEF OnBackendUp, ghosts
<1>1. availIds' \in Seq(Ids) /\ IsInjective(availIds') /\ Range(availIds') = Ids
  <2>1. availIds' \in [1..MaxClientConns -> Ids] /\ \A i \in Ids : availIds'[i] = i
    BY <1>0 DEF Ids
  <2>2. QED
    BY <2>1 DEF Ids, IsInjective, Range
<1>2. TypeOK'
  BY <1>0, <1>1 DEF IInv, TypeOK
<1>3. IdPool'
  <2>1. \A id \in Ids, c \in Conn : clientConns'[id] # c /\ context'[c] # id
    BY <1>0 DEF Ids, NoId
  <2>2. QED
    BY <1>0, <1>1, <2>1 DEF IdPool
<1>4. NoClientOutlivesBackend' /\ AssertsHoldUntilLoss' /\ RoomInv'
  BY <1>0
     DEF IInv, NoClientOutlivesBackend, AssertsHoldUntilLoss, RoomInv,
         OnBackendUp, Running
<1>5. \A c \in Conn : taken'[c] = sent'[c]
  BY <1>0 DEF IInv
<1>6. IInv'
  BY <1>0, <1>2, <1>3, <1>4, <1>5 DEF IInv
<1>7. Registered' = Registered
  BY <1>0 DEF Registered
<1>8. Lease!Open
  BY <1>0, <1>7 DEF Lease!Open
<1>9. QED
  BY <1>6, <1>8

\* All clients are shut down with it.
LEMMA SimpleBackendDown ==
  ASSUME IInv, OnBackendDown
  PROVE  IInv' /\ Lease!Close
<1>0. /\ backend = "up" /\ backendConn = TRUE
      /\ backend' = "closed" /\ backendConn' = FALSE
      /\ availIds' = <<>> /\ clientConns' = [id \in Ids |-> NoConn]
      /\ conn' = [c \in Conn |-> IF c \in Registered THEN AfterShutdown(conn[c])
                                 ELSE conn[c]]
      /\ UNCHANGED <<context, taken, replies, room, crashed, sent, wire, got>>
  BY DEF IInv, TypeOK, OnBackendDown,
                   ClientsShutDown, Cleared, ghosts
<1>a. \A c \in Conn : \/ conn'[c] = conn[c]
                      \/ conn[c] = "connected" /\ conn'[c] = "disconnecting"
  BY <1>0 DEF AfterShutdown
<1>1. Registered' = {}
  BY <1>0 DEF Registered, Range
<1>2. TypeOK'
  <2>1. conn' \in [Conn -> ConnStates]
    BY <1>0, <1>a DEF IInv, TypeOK, ConnStates
  <2>2. clientConns' \in [Ids -> Conn \cup {NoConn}] /\ availIds' \in Seq(Ids)
    BY <1>0
  <2>3. QED
    BY <1>0, <2>1, <2>2 DEF IInv, TypeOK
<1>3. IdPool'
  BY <1>0, <1>1 DEF IdPool
<1>4. ASSUME NEW c \in Conn PROVE conn'[c] # "connected"
  <2>1. CASE conn[c] = "connected"
    <3>1. context[c] \in Ids
      BY <2>1 DEF IInv, TypeOK
    <3>2. clientConns[context[c]] = c
      BY <1>0, <2>1, <3>1, SimplePool DEF Readable
    <3>3. c \in Registered
      BY <3>1, <3>2, SimpleRegistered DEF IInv
    <3>4. QED
      BY <1>0, <2>1, <3>3 DEF AfterShutdown
  <2>2. QED
    BY <1>a, <2>1
<1>5. NoClientOutlivesBackend' /\ AssertsHoldUntilLoss' /\ RoomInv'
  BY <1>0, <1>4
     DEF IInv, NoClientOutlivesBackend, AssertsHoldUntilLoss, RoomInv,
         OnBackendDown, Running
<1>6. IInv'
  BY <1>0, <1>a, <1>2, <1>3, <1>4, <1>5 DEF IInv
<1>7. Lease!Close
  BY <1>0, <1>1 DEF Lease!Close
<1>8. QED
  BY <1>6, <1>7

\* A packet handed to a client that can still be sent to.
LEMMA SimpleSendToClient ==
  ASSUME IInv, NEW id \in Ids, SendToClient(id)
  PROVE  /\ IInv'
         /\ LET c == clientConns[id]
            IN  \/ /\ c \in Conn /\ context[c] = id /\ got' # got
                   /\ Lease!Deliver(c)
                \/ UNCHANGED Lease!vars
<1> DEFINE c == clientConns[id]
<1>0. /\ backendConn /\ replies' = replies + 1
      /\ got' = IF c # NoConn /\ Sendable(conn[c])
                THEN [got EXCEPT ![c] = Append(@, id)] ELSE got
      /\ UNCHANGED <<backend, backendConn, clientConns, availIds, conn, context,
                     taken, room, crashed, sent, wire>>
  BY DEF IInv, SendToClient, pool
<1>1. c # NoConn => c \in Conn /\ context[c] = id /\ c \in Registered
  <2>1. c \in Conn \cup {NoConn}
    BY DEF IInv, TypeOK
  <2>2. QED
    BY <1>0, <2>1, SimplePool, SimpleRegistered DEF IInv
<1> HIDE DEF c
<1>2. got \in [Conn -> Seq(Ids)]
  BY DEF IInv, TypeOK
<1>3. got' \in [Conn -> Seq(Ids)]
  <2>1. c \in Conn => Append(got[c], id) \in Seq(Ids)
    BY <1>2
  <2>2. QED
    BY <1>0, <1>1, <1>2, <2>1
<1>4. Registered' = Registered
  BY <1>0 DEF Registered
<1>5. TypeOK'
  BY <1>0, <1>3 DEF IInv, TypeOK
<1>6. IdPool' /\ NoClientOutlivesBackend' /\ AssertsHoldUntilLoss' /\ RoomInv'
  BY <1>0, <1>4
     DEF IInv, IdPool, NoClientOutlivesBackend, AssertsHoldUntilLoss, RoomInv,
         SendToClient, Running
<1>7. IInv'
  BY <1>0, <1>5, <1>6 DEF IInv
<1>8. CASE c # NoConn /\ Sendable(conn[c])
  <2>1. Lease!Deliver(c)
    BY <1>0, <1>1, <1>4, <1>8 DEF Lease!Deliver
  <2>2. got' # got
    <3>1. got[c] \in Seq(Ids) /\ c \in Conn
      BY <1>1, <1>2, <1>8
    <3>2. Append(got[c], id) # got[c]
      <4>1. Len(Append(got[c], id)) = Len(got[c]) + 1 /\ Len(got[c]) \in Nat
        BY <3>1, AppendProperties, LenProperties
      <4>2. QED
        BY <4>1
    <3>3. got'[c] = Append(got[c], id)
      BY <1>0, <1>2, <1>8, <3>1
    <3>4. QED
      BY <3>2, <3>3
  <2>3. QED
    BY <1>1, <1>7, <1>8, <2>1, <2>2 DEF c
<1>9. CASE ~(c # NoConn /\ Sendable(conn[c]))
  BY <1>0, <1>4, <1>7, <1>9 DEF Lease!vars
<1>10. QED
  BY <1>8, <1>9 DEF c

\* The command DISCONNECT, which MuxLease does not see.
LEMMA SimpleDisconnect ==
  ASSUME IInv, NEW id \in Ids, DoBackendCommand(id)
  PROVE  IInv' /\ UNCHANGED Lease!vars
<1> DEFINE c == clientConns[id]
<1>0. /\ backendConn /\ replies' = replies + 1
      /\ conn' = IF c # NoConn THEN [conn EXCEPT ![c] = AfterShutdown(@)] ELSE conn
      /\ UNCHANGED <<backend, backendConn, clientConns, availIds, context,
                     taken, room, crashed, sent, wire, got>>
  BY DEF IInv, DoBackendCommand, pool, ghosts
<1>1. conn \in [Conn -> ConnStates] /\ c \in Conn \cup {NoConn}
  BY DEF IInv, TypeOK
<1> HIDE DEF c
<1>a. \A d \in Conn : \/ conn'[d] = conn[d]
                      \/ conn[d] = "connected" /\ conn'[d] = "disconnecting"
  BY <1>0, <1>1 DEF AfterShutdown
<1>2. conn' \in [Conn -> ConnStates]
  BY <1>0, <1>1, <1>a DEF ConnStates
<1>4. Registered' = Registered
  BY <1>0 DEF Registered
<1>5. TypeOK'
  BY <1>0, <1>2 DEF IInv, TypeOK
<1>6. IdPool'
  <2>1. \A d \in Conn : Readable(conn'[d]) <=> Readable(conn[d])
    BY <1>a DEF Readable
  <2>2. QED
    BY <1>0, <1>4, <2>1, SimplePool DEF IdPool
<1>7. NoClientOutlivesBackend' /\ AssertsHoldUntilLoss' /\ RoomInv'
  BY <1>0
     DEF IInv, NoClientOutlivesBackend, AssertsHoldUntilLoss, RoomInv,
         DoBackendCommand, Running
<1>8. IInv'
  BY <1>0, <1>a, <1>5, <1>6, <1>7 DEF IInv
<1>9. QED
  BY <1>0, <1>4, <1>8 DEF Lease!vars

\* A client comes up and takes the first id of the queue, or is turned away.
LEMMA SimpleClientUp ==
  ASSUME IInv, NEW c \in Conn, OnClientUp(c)
  PROVE  /\ IInv'
         /\ \/ \E id \in Ids : Lease!Acquire(c, id)
            \/ UNCHANGED Lease!vars
<1>0. /\ conn[c] = "absent" /\ context[c] = NoId
      /\ UNCHANGED <<backend, backendConn, taken, replies, room, crashed,
                     sent, wire, got>>
  BY DEF IInv, OnClientUp, ghosts
<1>1. /\ conn \in [Conn -> ConnStates] /\ context \in [Conn -> Ids \cup {NoId}]
      /\ clientConns \in [Ids -> Conn \cup {NoConn}] /\ availIds \in Seq(Ids)
  BY DEF IInv, TypeOK
<1>2. \A i \in Ids : clientConns[i] # c
  BY <1>0, SimplePool, SimpleRegistered DEF IInv, Readable
<1>a. CASE availIds = <<>>
  <2>1. /\ conn' = [conn EXCEPT ![c] = "disconnecting"]
        /\ UNCHANGED <<availIds, clientConns, context>>
    BY <1>a DEF OnClientUp, AfterShutdown
  <2>2. Registered' = Registered
    BY <2>1 DEF Registered
  <2>3. TypeOK'
    BY <1>0, <1>1, <2>1 DEF IInv, TypeOK, ConnStates
  <2>4. IdPool'
    <3>1. \A i \in Ids, d \in Conn :
            context'[d] = i /\ Readable(conn'[d]) <=> context[d] = i /\ Readable(conn[d])
      BY <1>0, <1>1, <2>1 DEF Ids, NoId
    <3>2. QED
      BY <1>0, <2>1, <2>2, <3>1, SimplePool DEF IdPool
  <2>5. NoClientOutlivesBackend' /\ AssertsHoldUntilLoss' /\ RoomInv'
    BY <1>0, <1>1, <2>1
       DEF IInv, NoClientOutlivesBackend, AssertsHoldUntilLoss, RoomInv,
           OnClientUp, Running
  <2>6. IInv'
    BY <1>0, <1>1, <2>1, <2>3, <2>4, <2>5 DEF IInv
  <2>7. QED
    BY <1>0, <2>1, <2>2, <2>6 DEF Lease!vars
<1>b. CASE availIds # <<>>
  <2> DEFINE id == Head(availIds)
             rest == Tail(availIds)
  <2>1. /\ availIds' = rest
        /\ clientConns' = [clientConns EXCEPT ![id] = c]
        /\ context' = [context EXCEPT ![c] = id]
        /\ conn' = [conn EXCEPT ![c] = "connected"]
    BY <1>b DEF OnClientUp, Popped
  <2>2. backendConn /\ IsInjective(availIds)
    BY <1>b, SimplePool
  <2>3. /\ id \in Ids /\ id \in Range(availIds)
        /\ rest \in Seq(Ids) /\ IsInjective(rest)
        /\ \A i \in Ids : i \in Range(rest) <=> i \in Range(availIds) /\ i # id
    BY <1>1, <1>b, <2>2, PopKeepsIds
  <2> HIDE DEF id, rest
  <2>4. clientConns[id] = NoConn
    BY <2>2, <2>3, SimplePool
  <2>5. TypeOK'
    BY <1>0, <1>1, <2>1, <2>3 DEF IInv, TypeOK, ConnStates
  <2>6. IdPool'
    <3>1. ASSUME NEW i \in Ids
          PROVE  i \in Range(availIds') <=> clientConns'[i] = NoConn
      BY <1>1, <2>1, <2>2, <2>3, SimplePool, SimpleAssumption
    <3>2. ASSUME NEW i \in Ids, NEW d \in Conn
          PROVE  clientConns'[i] = d <=> context'[d] = i /\ Readable(conn'[d])
      <4>1. clientConns[i] = d <=> context[d] = i /\ Readable(conn[d])
        BY <2>2, SimplePool
      <4>2. CASE d = c
        BY <1>0, <1>1, <1>2, <2>1, <2>3, <4>1, <4>2 DEF Readable
      <4>3. CASE d # c
        BY <1>1, <2>1, <2>3, <2>4, <4>1, <4>3, SimpleAssumption
      <4>4. QED
        BY <4>2, <4>3
    <3>3. QED
      BY <1>0, <2>1, <2>2, <2>3, <3>1, <3>2 DEF IdPool
  <2>7. NoClientOutlivesBackend' /\ AssertsHoldUntilLoss' /\ RoomInv'
    BY <1>0, <2>2
       DEF IInv, NoClientOutlivesBackend, AssertsHoldUntilLoss, RoomInv,
           OnClientUp, Running
  <2>8. backend # "connecting" /\ id # NoId
    BY <2>2, <2>3 DEF IInv, Ids, NoId
  <2>9. IInv'
    BY <1>0, <1>1, <2>1, <2>2, <2>5, <2>6, <2>7, <2>8 DEF IInv
  <2>10. Registered' = Registered \cup {c}
    <3>1. Range(clientConns') = (Range(clientConns) \ {NoConn}) \cup {c}
                                 \cup (Range(clientConns') \cap {NoConn})
      BY <1>1, <2>1, <2>3, <2>4 DEF Range
    <3>2. QED
      BY <3>1, SimpleAssumption DEF Registered
  <2>11. \A d \in Registered : context[d] # id
    BY <2>2, <2>3, <2>4, SimplePool, SimpleRegistered, SimpleAssumption
       DEF IInv
  <2>12. Lease!Acquire(c, id)
    BY <1>0, <2>1, <2>2, <2>10, <2>11
       DEF Lease!Acquire, Lease!Leased
  <2>13. QED
    BY <2>3, <2>9, <2>12
<1>5. QED
  BY <1>a, <1>b
\* A client goes down and gives its id back while there is a backend, or the
\* process ends on the bad any_cast; never on an assert.
LEMMA SimpleClientClose ==
  ASSUME IInv, NEW c \in Conn, OnClientClose(c)
  PROVE  /\ IInv'
         /\ Lease!Release(c) \/ UNCHANGED Lease!vars
<1>0. Readable(conn[c])
  BY DEF OnClientClose
<1>1. /\ conn \in [Conn -> ConnStates] /\ context \in [Conn -> Ids \cup {NoId}]
      /\ clientConns \in [Ids -> Conn \cup {NoConn}] /\ availIds \in Seq(Ids)
  BY DEF IInv, TypeOK
<1>2. ~backendConn => availIds = <<>> /\ Registered = {}
  BY SimplePool
<1>a. CASE context[c] = NoId
  <2>1. /\ crashed' = "bad_any_cast"
        /\ UNCHANGED <<backend, backendConn, clientConns, availIds, conn, context,
                       taken, replies, room, sent, wire, got>>
    BY <1>a DEF OnClientClose, Crash, pool,
                           ghosts, Ids, NoId
  <2>2. Registered' = Registered
    BY <2>1 DEF Registered
  <2>3. TypeOK'
    BY <2>1 DEF IInv, TypeOK
  <2>4. IdPool' /\ NoClientOutlivesBackend' /\ AssertsHoldUntilLoss' /\ RoomInv'
    BY <2>1, <2>2
       DEF IInv, IdPool, NoClientOutlivesBackend,
           AssertsHoldUntilLoss, RoomInv, OnClientClose, Running
  <2>5. IInv'
    BY <2>1, <2>3, <2>4 DEF IInv
  <2>6. QED
    BY <2>1, <2>2, <2>5 DEF Lease!vars
<1>b. CASE context[c] # NoId
  <2>1. /\ context[c] \in Ids
        /\ conn' = [conn EXCEPT ![c] = "disconnected"]
        /\ UNCHANGED <<backend, backendConn, context, taken, replies, room, crashed,
                       sent, wire, got>>
        /\ \/ /\ backendConn
              /\ availIds' = Append(availIds, context[c])
              /\ clientConns' = [clientConns EXCEPT ![context[c]] = NoConn]
           \/ /\ ~backendConn
              /\ UNCHANGED <<availIds, clientConns>>
    BY <1>1, <1>2, <1>b
       DEF OnClientClose, Erased, ghosts
  <2>2. NoClientOutlivesBackend' /\ AssertsHoldUntilLoss' /\ RoomInv'
    BY <1>1, <2>1
       DEF IInv, NoClientOutlivesBackend, AssertsHoldUntilLoss, RoomInv,
           OnClientClose, Running
  <2>a. CASE backendConn
    <3> DEFINE id == context[c]
    <3>1. /\ id \in Ids /\ clientConns[id] = c
          /\ availIds' = Append(availIds, id)
          /\ clientConns' = [clientConns EXCEPT ![id] = NoConn]
      BY <1>0, <2>1, <2>a, SimplePool
    <3> HIDE DEF id
    <3>2. IsInjective(availIds) /\ id \notin Range(availIds)
      BY <2>a, <3>1, SimplePool, SimpleAssumption
    <3>3. /\ availIds' \in Seq(Ids) /\ IsInjective(availIds')
          /\ \A i \in Ids : i \in Range(availIds') <=> i \in Range(availIds) \/ i = id
      BY <1>1, <3>1, <3>2, PushKeepsIds
    <3>4. TypeOK'
      BY <1>1, <2>1, <3>1, <3>3 DEF IInv, TypeOK, ConnStates
    <3>5. IdPool'
      <4>1. ASSUME NEW i \in Ids
            PROVE  i \in Range(availIds') <=> clientConns'[i] = NoConn
        BY <1>1, <2>a, <3>1, <3>3, SimplePool
      <4>2. ASSUME NEW i \in Ids, NEW d \in Conn
            PROVE  clientConns'[i] = d <=> context'[d] = i /\ Readable(conn'[d])
        <5>1. clientConns[i] = d <=> context[d] = i /\ Readable(conn[d])
          BY <2>a, SimplePool
        <5>2. context[c] = id
          BY DEF id
        <5>3. CASE d = c
          <6>1. ~Readable(conn'[c])
            BY <1>1, <2>1 DEF Readable
          <6>2. i # id => clientConns[i] # c
            BY <5>1, <5>2, <5>3
          <6>3. QED
            BY <1>1, <3>1, <5>3, <6>1, <6>2, SimpleAssumption
        <5>4. CASE d # c
          BY <1>1, <2>1, <3>1, <5>1, <5>4, SimpleAssumption
        <5>5. QED
          BY <5>3, <5>4
      <4>3. QED
        BY <2>1, <2>a, <3>3, <4>1, <4>2 DEF IdPool
    <3>6. IInv'
      BY <1>1, <1>b, <2>1, <2>2, <3>4, <3>5 DEF IInv
    <3>7. c \in Registered
      BY <3>1, SimpleRegistered DEF IInv
    <3>8. \A i \in Ids : clientConns[i] = c => i = id
      BY <2>a, SimplePool DEF id
    <3>9. Registered' = Registered \ {c}
      BY <1>1, <3>1, <3>8, SMTT(30) DEF Registered, Range
    <3>10. Lease!Release(c)
      BY <2>1, <3>7, <3>9 DEF Lease!Release
    <3>11. QED
      BY <3>6, <3>10
  <2>b. CASE ~backendConn
    <3>1. UNCHANGED <<availIds, clientConns>>
      BY <2>1, <2>b
    <3>2. Registered' = Registered
      BY <3>1 DEF Registered
    <3>3. TypeOK'
      BY <1>1, <2>1, <3>1 DEF IInv, TypeOK, ConnStates
    <3>4. IdPool'
      BY <1>2, <2>1, <2>b, <3>1, <3>2 DEF IdPool
    <3>5. IInv'
      BY <1>1, <1>b, <2>1, <2>2, <2>b, <3>3, <3>4 DEF IInv
    <3>6. QED
      BY <2>1, <3>2, <3>5 DEF Lease!vars
  <2>3. QED
    BY <2>a, <2>b
<1>3. QED
  BY <1>a, <1>b

\* A message finds no room for its header: two packets of the client were lost, so
\* the backend has gone.
LEMMA SimpleNoRoom ==
  ASSUME IInv, NEW c \in Conn, NEW k \in 1..MaxBurst, OnClientMessage(c, k),
         NEW free \in RoomAfterRead(room[c]), RoomForLast(free, k) < HEADER_LEN,
         Crash("prepend")
  PROVE  IInv' /\ UNCHANGED Lease!vars
<1>0. /\ crashed' = "prepend"
      /\ UNCHANGED <<backend, backendConn, clientConns, availIds, conn, context,
                     taken, replies, room, sent, wire, got>>
  BY DEF Crash, pool, ghosts
<1>1. /\ taken[c] \in Nat /\ sent[c] \in Nat /\ room[c] \in Nat
      /\ room[c] >= CheapPrepend - HEADER_LEN * (taken[c] - sent[c])
      /\ context[c] # NoId
  BY DEF IInv, TypeOK, RoomInv, OnClientMessage
<1>2. room[c] < HEADER_LEN
  BY <1>1 DEF RoomAfterRead, RoomForLast, CheapPrepend, HEADER_LEN, MAX_PACKET_LEN
<1>3. taken[c] >= sent[c] + 2
  BY <1>1, <1>2 DEF CheapPrepend, HEADER_LEN
<1>4. backend = "closed"
  BY <1>1, <1>3 DEF IInv, TypeOK
<1>5. AssertsHoldUntilLoss'
  BY <1>0, <1>3, <1>4 DEF AssertsHoldUntilLoss
<1>6. Registered' = Registered
  BY <1>0 DEF Registered
<1>7. TypeOK' /\ IdPool' /\ NoClientOutlivesBackend' /\ RoomInv'
  BY <1>0, <1>6 DEF IInv, TypeOK, IdPool, NoClientOutlivesBackend, RoomInv
<1>8. QED
  BY <1>0, <1>5, <1>6, <1>7 DEF IInv, Lease!vars

\* A client message is cut into k packets, all sent at once or all lost.
LEMMA SimpleClientMessage ==
  ASSUME IInv, NEW c \in Conn, NEW k \in 1..MaxBurst,
         OnClientMessage(c, k)
  PROVE  /\ IInv'
         /\ Lease!Transmit(c, k) \/ UNCHANGED Lease!vars
<1> SUFFICES ASSUME NEW free \in RoomAfterRead(room[c]),
                    RoomForLast(free, k) >= HEADER_LEN,
                    taken' = [taken EXCEPT ![c] = @ + k],
                    IF backendConn
                    THEN /\ sent' = [sent EXCEPT ![c] = @ + k]
                         /\ wire' = wire \o Packets(c, k)
                         /\ room' = [room EXCEPT ![c] = CheapPrepend]
                    ELSE /\ room' = [room EXCEPT ![c] =
                                       RoomForLast(free, k) - HEADER_LEN]
                         /\ UNCHANGED <<sent, wire>>,
                    UNCHANGED <<backend, conn, context, replies, got, crashed, pool>>
             PROVE  /\ IInv'
                    /\ Lease!Transmit(c, k) \/ UNCHANGED Lease!vars
  BY SimpleNoRoom DEF OnClientMessage
<1>0. /\ Readable(conn[c]) /\ context[c] # NoId
      /\ taken' = [taken EXCEPT ![c] = @ + k]
      /\ IF backendConn
         THEN /\ sent' = [sent EXCEPT ![c] = @ + k]
              /\ wire' = wire \o Packets(c, k)
         ELSE UNCHANGED <<sent, wire>>
      /\ UNCHANGED <<backend, backendConn, clientConns, availIds, conn, context,
                     replies, crashed, got>>
  BY DEF OnClientMessage, pool
<1>1. /\ taken \in [Conn -> Nat] /\ sent \in [Conn -> Nat] /\ wire \in Seq(Packet)
      /\ context[c] \in Ids /\ k \in Nat
  BY <1>0, SimpleAssumption DEF IInv, TypeOK
<1>2. Registered' = Registered
  BY <1>0 DEF Registered
<1>3. Packets(c, k) \in Seq(Packet)
  <2>1. \A i \in 1..k : taken[c] + i \in Nat
    BY <1>1
  <2>2. Packets(c, k) \in [1..k -> Packet]
    BY <1>1, <2>1 DEF Packets, Packet
  <2>3. QED
    BY <1>1, <2>2
<1>4. taken' \in [Conn -> Nat] /\ sent' \in [Conn -> Nat] /\ wire' \in Seq(Packet)
  <2>1. taken[c] + k \in Nat /\ sent[c] + k \in Nat
    BY <1>1
  <2>2. wire \o Packets(c, k) \in Seq(Packet)
    BY <1>1, <1>3, ConcatProperties
  <2>3. QED
    BY <1>0, <1>1, <2>1, <2>2
<1>a. /\ room \in [Conn -> Nat] /\ free \in Nat
      /\ free = room[c] \/ free = CheapPrepend
  BY DEF IInv, TypeOK, RoomAfterRead, CheapPrepend
<1>b. RoomForLast(free, k) \in Nat /\ RoomForLast(free, k) >= free
  BY <1>1, <1>a DEF RoomForLast, MAX_PACKET_LEN
<1>c. room' \in [Conn -> Nat]
  <2>1. CheapPrepend \in Nat /\ RoomForLast(free, k) - HEADER_LEN \in Nat
    BY <1>b DEF CheapPrepend, HEADER_LEN
  <2>2. QED
    BY <1>a, <2>1
<1>d. RoomInv'
  <2>1. ASSUME NEW d \in Conn
        PROVE  /\ sent'[d] <= taken'[d]
               /\ room'[d] >= CheapPrepend - HEADER_LEN * (taken'[d] - sent'[d])
    <3>1. /\ taken[d] \in Nat /\ sent[d] \in Nat /\ room[d] \in Nat
          /\ sent[d] <= taken[d]
          /\ room[d] >= CheapPrepend - HEADER_LEN * (taken[d] - sent[d])
      BY <1>1, <1>a DEF IInv, RoomInv
    <3>2. CASE d # c
      BY <1>0, <1>1, <1>a, <3>1, <3>2
    <3>3. CASE d = c /\ backendConn
      <4>1. /\ taken'[d] = taken[d] + k /\ sent'[d] = sent[d] + k
            /\ room'[d] = CheapPrepend
        BY <1>0, <1>1, <1>a, <3>3
      <4>2. QED
        BY SMTT(20), <1>1, <3>1, <4>1 DEF CheapPrepend, HEADER_LEN
    <3>4. CASE d = c /\ ~backendConn
      <4>1. /\ taken'[d] = taken[d] + k /\ sent'[d] = sent[d]
            /\ room'[d] = RoomForLast(free, k) - HEADER_LEN
        BY <1>0, <1>1, <1>a, <3>4
      <4>2. QED
        BY SMTT(20), <1>1, <1>a, <1>b, <3>1, <3>4, <4>1
           DEF CheapPrepend, HEADER_LEN
    <3>5. QED
      BY <3>2, <3>3, <3>4
  <2>2. QED
    BY <2>1 DEF RoomInv
<1>5. TypeOK'
  BY <1>0, <1>4, <1>c DEF IInv, TypeOK
<1>6. IdPool' /\ NoClientOutlivesBackend' /\ AssertsHoldUntilLoss'
  BY <1>0, <1>2
     DEF IInv, IdPool, NoClientOutlivesBackend, AssertsHoldUntilLoss,
         OnClientMessage, Running
<1>7. ASSUME NEW d \in Conn, backendConn \/ context[d] = NoId
      PROVE  taken'[d] = sent'[d]
  <2>1. taken[d] = sent[d]
    BY <1>7 DEF IInv
  <2>2. CASE d = c
    BY <1>0, <1>1, <1>7, <2>1, <2>2
  <2>3. CASE d # c
    BY <1>0, <1>1, <2>1, <2>3
  <2>4. QED
    BY <2>2, <2>3
<1>8. IInv'
  BY <1>0, <1>5, <1>6, <1>7, <1>d DEF IInv
<1>9. CASE backendConn
  <2>1. c \in Registered
    BY <1>0, <1>1, <1>9, SimplePool, SimpleRegistered DEF IInv
  <2>2. Packets(c, k) = Lease!Burst(c, k)
    <3>1. taken[c] = sent[c]
      BY <1>9 DEF IInv
    <3>2. QED
      BY <3>1 DEF Packets, Lease!Burst
  <2>3. Lease!Transmit(c, k)
    BY <1>0, <1>2, <1>9, <2>1, <2>2 DEF Lease!Transmit
  <2>4. QED
    BY <1>8, <2>3
<1>10. CASE ~backendConn
  BY <1>0, <1>2, <1>8, <1>10 DEF Lease!vars
<1>11. QED
  BY <1>9, <1>10

-----------------------------------------------------------------------------
\* Every callback keeps IInv, and is a step of MuxLease or one it does not see.
LEMMA SimpleStep ==
  ASSUME IInv, [Next]_vars
  PROVE  IInv' /\ [Lease!Next]_Lease!vars
<1>1. CASE OnBackendUp \/ OnBackendDown
  BY <1>1, SimpleBackendUp, SimpleBackendDown DEF Lease!Next
<1>2. ASSUME NEW id \in Ids, SendToClient(id)
      PROVE  IInv' /\ [Lease!Next]_Lease!vars
  BY <1>2, SimpleSendToClient DEF Lease!Next
<1>3. ASSUME NEW id \in Ids, DoBackendCommand(id)
      PROVE  IInv' /\ [Lease!Next]_Lease!vars
  BY <1>3, SimpleDisconnect
<1>4. ASSUME NEW c \in Conn, OnClientUp(c)
      PROVE  IInv' /\ [Lease!Next]_Lease!vars
  BY <1>4, SimpleClientUp DEF Lease!Next
<1>5. ASSUME NEW c \in Conn, OnClientClose(c)
      PROVE  IInv' /\ [Lease!Next]_Lease!vars
  BY <1>5, SimpleClientClose DEF Lease!Next
<1>6. ASSUME NEW c \in Conn, NEW k \in 1..MaxBurst, OnClientMessage(c, k)
      PROVE  IInv' /\ [Lease!Next]_Lease!vars
  BY <1>6, SimpleClientMessage DEF Lease!Next
<1>7. CASE UNCHANGED vars
  <2>1. UNCHANGED <<backend, backendConn, clientConns, availIds, conn, context,
                    taken, replies, room, crashed, sent, wire, got>>
    BY <1>7 DEF vars, pool, ghosts
  <2>2. Registered' = Registered
    BY <2>1 DEF Registered
  <2>3. TypeOK' /\ IdPool' /\ NoClientOutlivesBackend'
        /\ AssertsHoldUntilLoss' /\ RoomInv'
    BY <2>1, <2>2
       DEF IInv, TypeOK, IdPool,
           NoClientOutlivesBackend, AssertsHoldUntilLoss, RoomInv
  <2>4. QED
    BY <2>1, <2>2, <2>3 DEF IInv, Lease!vars
<1>8. QED
  BY <1>1, <1>2, <1>3, <1>4, <1>5, <1>6, <1>7 DEF Next

LEMMA SimpleInit == Init => IInv /\ Lease!Init
<1>1. SUFFICES ASSUME Init PROVE IInv /\ Lease!Init
  OBVIOUS
<1>2. /\ backend = "connecting" /\ backendConn = FALSE /\ availIds = <<>>
      /\ clientConns = [id \in Ids |-> NoConn]
      /\ conn = [c \in Conn |-> "absent"] /\ context = [c \in Conn |-> NoId]
      /\ taken = [c \in Conn |-> 0] /\ replies = 0
      /\ sent = [c \in Conn |-> 0] /\ wire = <<>> /\ got = [c \in Conn |-> <<>>]
      /\ room = [c \in Conn |-> 8] /\ crashed = "no"
  BY <1>1 DEF Init, CheapPrepend
<1>3. Registered = {}
  BY <1>2 DEF Registered, Range
<1>4. TypeOK
  <2>1. /\ clientConns \in [Ids -> Conn \cup {NoConn}] /\ availIds \in Seq(Ids)
        /\ conn \in [Conn -> ConnStates] /\ context \in [Conn -> Ids \cup {NoId}]
    BY <1>2 DEF ConnStates
  <2>2. /\ taken \in [Conn -> Nat] /\ sent \in [Conn -> Nat] /\ replies \in Nat
        /\ wire \in Seq(Packet) /\ got \in [Conn -> Seq(Ids)]
        /\ room \in [Conn -> Nat]
    BY <1>2
  <2>3. QED
    BY <1>2, <2>1, <2>2 DEF TypeOK
<1>5. IdPool /\ NoClientOutlivesBackend /\ AssertsHoldUntilLoss /\ RoomInv
  BY <1>2, <1>3
     DEF IdPool, NoClientOutlivesBackend, AssertsHoldUntilLoss, RoomInv,
         CheapPrepend, HEADER_LEN
<1>6. IInv
  BY <1>2, <1>4, <1>5 DEF IInv
<1>7. Lease!Init
  BY <1>2, <1>3 DEF Lease!Init
<1>8. QED
  BY <1>6, <1>7

\* IInv is an inductive invariant of the single-threaded multiplexer: every id
\* is free once or held by the one connection whose context names it, no client
\* is left connected without the backend, the asserts about ids never fail, and
\* that of Buffer::prepend only after the loss of the backend.
THEOREM SimpleInvariance == Spec => []IInv
<1>1. IInv /\ [Next]_vars => IInv'
  BY SimpleStep
<1>2. QED
  BY SimpleInit, <1>1, PTL DEF Spec

\* The single-threaded multiplexer keeps the promise of MuxLease, with leases
\* that begin and end in the callbacks of onClientConnection.
THEOREM SimpleRefinement == Spec => ImplementsLease
<1>1. IInv /\ [Next]_vars
        => [Lease!Next]_Lease!vars
  BY SimpleStep DEF Lease!vars, Lease!vars
<1>2. QED
  BY SimpleInit, SimpleInvariance, <1>1, PTL
     DEF Spec, ImplementsLease, Lease!Spec

-----------------------------------------------------------------------------
(* The multiplexer with the backend server. *)

\* To the multiplexer, a step of the two is one of its own or none; so its
\* invariant holds of the two as well.
LEMMA SystemStepIsOwn ==
  SystemNext \/ UNCHANGED systemVars => [Next]_vars
<1>1. ASSUME MultiplexerStep PROVE Next
  BY <1>1 DEF MultiplexerStep, Next
<1>2. ASSUME ReadAnswer PROVE Next
  BY <1>2 DEF ReadAnswer, Next
<1>3. ASSUME ReadCommand PROVE [Next]_vars
  BY <1>3 DEF ReadCommand, Next
<1>4. QED
  BY <1>1, <1>2, <1>3 DEF SystemNext, ServerStep, systemVars

\* The invariant of the multiplexer, with the backend server behind it.
THEOREM SystemInvariance == SystemSpec => []IInv
<1>1. SystemInit => IInv
  BY SimpleInit DEF SystemInit
<1>2. IInv /\ [SystemNext]_systemVars => IInv'
  BY SystemStepIsOwn, SimpleStep
<1>3. QED
  BY <1>1, <1>2, PTL DEF SystemSpec

\* A step that is none to MuxLease, nor to the backend server.
LEMMA QuietStep ==
  ASSUME UNCHANGED Lease!vars
  PROVE  UNCHANGED Server!vars
BY DEF Lease!vars, Server!vars

\* The backend connection comes up once: it is "connecting" only before.
LEMMA StaysOpened ==
  ASSUME IInv, MultiplexerStep \/ (\E id \in Ids : SendToClient(id) \/ DoBackendCommand(id)),
         ~OnBackendUp
  PROVE  UNCHANGED (backend # "connecting")
BY DEF MultiplexerStep, OnBackendDown, OnClientUp, OnClientClose, OnClientMessage,
       SendToClient, DoBackendCommand, Crash

LEMMA OpensOnce ==
  ASSUME IInv, OnBackendUp, UNCHANGED <<server, back, delivered>>
  PROVE  Server!OpenOnce
<1>1. IInv' /\ Lease!Open
  BY SimpleBackendUp
<1>2. Server!Open /\ backendConn'
  BY <1>1 DEF Lease!Open, Server!Open
<1>3. backend = "connecting" /\ backend' # "connecting"
  BY <1>1, <1>2 DEF IInv, OnBackendUp
<1>4. QED
  BY <1>2, <1>3 DEF Server!OpenOnce, Server!links, server

\* A callback of the multiplexer that reads nothing from the backend.
LEMMA MultiplexerStepFits ==
  ASSUME IInv, MultiplexerStep
  PROVE  Server!BackendNext \/ UNCHANGED <<Server!vars, Server!backendVars>>
<1>1. CASE OnBackendUp
  BY <1>1, OpensOnce DEF MultiplexerStep, Server!BackendNext
<1>2. CASE ~OnBackendUp
  <2>1. UNCHANGED Server!backendVars
    BY <1>2, StaysOpened
       DEF MultiplexerStep, Server!backendVars, Server!links, server
  <2>2. ASSUME OnBackendDown PROVE Server!LeaseStep
    BY <2>1, <2>2, SimpleBackendDown DEF Lease!Close, Server!Close, Server!LeaseStep
  <2>3. ASSUME NEW c \in Conn, OnClientUp(c)
        PROVE  Server!LeaseStep \/ UNCHANGED Server!vars
    <3>1. CASE UNCHANGED Lease!vars
      BY <3>1, QuietStep
    <3>2. ASSUME NEW id \in Ids, Lease!Acquire(c, id) PROVE Server!LeaseStep
      BY <2>1, <3>2
         DEF Lease!Acquire, Lease!Leased, Server!Acquire, Server!Leased,
             Server!LeaseStep
    <3>3. QED
      BY <2>3, <3>1, <3>2, SimpleClientUp
  <2>4. ASSUME NEW c \in Conn, OnClientClose(c)
        PROVE  Server!LeaseStep \/ UNCHANGED Server!vars
    BY <2>1, <2>4, SimpleClientClose, QuietStep
       DEF Lease!Release, Server!Release, Server!LeaseStep
  <2>5. ASSUME NEW c \in Conn, NEW k \in 1..MaxBurst, Len(wire) + k <= MaxWire,
               OnClientMessage(c, k)
        PROVE  Server!LeaseStep \/ UNCHANGED Server!vars
    BY <2>1, <2>5, SimpleClientMessage, QuietStep
       DEF Lease!Transmit, Lease!Burst, Server!Transmit, Server!Burst,
           Server!LeaseStep
  <2>6. QED
    BY <1>2, <2>1, <2>2, <2>3, <2>4, <2>5 DEF MultiplexerStep, Server!BackendNext
<1>3. QED
  BY <1>1, <1>2

\* An answer is handed down to the client that holds its id, or to nobody.
LEMMA ReadAnswerFits ==
  ASSUME IInv, ReadAnswer
  PROVE  Server!BackendNext
<1> DEFINE c == clientConns[FirstId]
<1>1. /\ FirstId \in Ids /\ SendToClient(FirstId) /\ back # <<>> /\ back' = Tail(back)
      /\ UNCHANGED server
      /\ delivered' = IF got' = got THEN delivered
                      ELSE [delivered EXCEPT ![c] = Append(@, Head(back).of)]
  BY DEF ReadAnswer
<1>2. backendConn /\ UNCHANGED (backend # "connecting")
  BY <1>1 DEF IInv, SendToClient
<1>3. CASE c \in Conn /\ context[c] = FirstId /\ got' # got /\ Lease!Deliver(c)
  <2>1. Server!HandDown(c)
    BY <1>1, <1>2, <1>3
       DEF Server!HandDown, Server!Deliver, Lease!Deliver, FirstId, server,
           Server!links
  <2>2. QED
    BY <1>3, <2>1 DEF Server!BackendNext
<1>4. CASE UNCHANGED Lease!vars
  <2>1. UNCHANGED Server!vars /\ got' = got
    BY <1>4, QuietStep DEF Lease!vars
  <2>2. Server!Consume
    BY <1>1, <1>2, <2>1 DEF Server!Consume, Server!links, server
  <2>3. QED
    BY <2>2 DEF Server!BackendNext
<1>5. QED
  BY <1>1, <1>3, <1>4, SimpleSendToClient

\* A command changes nothing that MuxLease or the backend server sees.
LEMMA ReadCommandFits ==
  ASSUME IInv, ReadCommand
  PROVE  Server!BackendNext
<1>1. backendConn /\ UNCHANGED (backend # "connecting")
  BY DEF IInv, ReadCommand, DoBackendCommand, vars
<1>2. UNCHANGED Server!vars
  <2>1. CASE UNCHANGED vars
    BY <2>1 DEF vars, pool, ghosts, Registered, Server!vars
  <2>2. ASSUME NEW id \in Ids, DoBackendCommand(id) PROVE UNCHANGED Server!vars
    BY <2>2, SimpleDisconnect, QuietStep
  <2>3. QED
    BY <2>1, <2>2 DEF ReadCommand
<1>3. Server!Consume
  BY <1>1, <1>2 DEF ReadCommand, Server!Consume, Server!links, server
<1>4. QED
  BY <1>3 DEF Server!BackendNext

\* The two together are a backend server behind a multiplexer that keeps the
\* promise of MuxLease.
THEOREM SystemRefinement == SystemSpec => ImplementsBackend
<1>1. SystemInit => Server!BackendInit
  BY DEF SystemInit
<1>2. ASSUME IInv, [SystemNext]_systemVars
      PROVE  [Server!BackendNext]_<<Server!vars, Server!backendVars>>
  <2>1. CASE ServerStep
    BY <2>1 DEF ServerStep, Server!BackendNext
  <2>2. CASE UNCHANGED systemVars
    BY <2>2 DEF systemVars, server, vars, pool, ghosts, Registered,
                Server!vars, Server!backendVars, Server!links
  <2>3. QED
    BY <1>2, <2>1, <2>2, MultiplexerStepFits, ReadAnswerFits, ReadCommandFits
       DEF SystemNext
<1>3. QED
  BY <1>1, <1>2, SystemInvariance, PTL
     DEF SystemSpec, ImplementsBackend, Server!BackendSpec

-----------------------------------------------------------------------------
(* What MuxBackendProofs shows holds of the two. *)

Inherited ==
  INSTANCE MuxBackendProofs
    WITH open <- backendConn, tag <- context, holders <- Registered,
         opened <- backend # "connecting"

LEMMA NoIdIsNone == NoId \notin Ids
BY DEF Ids, NoId

LEMMA LeaseStepInherited ==
  /\ Lease!Init => Inherited!Init
  /\ [Lease!Next]_Lease!vars => [Inherited!Next]_Inherited!vars
BY DEF Lease!Init, Inherited!Init, Lease!Next, Inherited!Next, Lease!vars,
       Inherited!vars, Lease!Open, Inherited!Open, Lease!Close, Inherited!Close,
       Lease!Acquire, Inherited!Acquire, Lease!Leased, Inherited!Leased,
       Lease!Release, Inherited!Release, Lease!Transmit, Inherited!Transmit,
       Lease!Burst, Inherited!Burst, Lease!Deliver, Inherited!Deliver

\* The single-threaded server gives no id to two running clients, shows the
\* backend one client session after the other on each id and each client's
\* packets in order, and hands a client only what was addressed to its id.
THEOREM SimpleSessionSafety ==
  Spec => [](/\ Lease!Exclusive /\ Lease!SessionsDisjoint
             /\ Lease!StreamInOrder /\ Lease!OnlyOwnId)
<1>1. Inherited!Spec => [](Inherited!Exclusive /\ Inherited!SessionsDisjoint
                          /\ Inherited!StreamInOrder /\ Inherited!OnlyOwnId)
  BY NoIdIsNone, Inherited!LeaseSafety
<1>2. /\ Inherited!Exclusive /\ Inherited!SessionsDisjoint
      /\ Inherited!StreamInOrder /\ Inherited!OnlyOwnId
      => /\ Lease!Exclusive /\ Lease!SessionsDisjoint
         /\ Lease!StreamInOrder /\ Lease!OnlyOwnId
  BY DEF Lease!Exclusive, Inherited!Exclusive,
         Lease!SessionsDisjoint, Inherited!SessionsDisjoint,
         Lease!StreamInOrder, Inherited!StreamInOrder,
         Lease!OnlyOwnId, Inherited!OnlyOwnId
<1>3. QED
  BY <1>1, <1>2, LeaseStepInherited, SimpleRefinement, PTL
     DEF ImplementsLease, Lease!Spec, Inherited!Spec

LEMMA BackendInitInherited == Server!BackendInit => Inherited!BackendInit
BY DEF Server!BackendInit, Inherited!BackendInit, Server!Init, Inherited!Init

LEMMA BackendStepInherited ==
  [Server!BackendNext]_<<Server!vars, Server!backendVars>>
    => [Inherited!BackendNext]_<<Inherited!vars, Inherited!backendVars>>
<1>1. /\ Inherited!vars = Server!vars /\ Inherited!vars' = Server!vars'
      /\ Inherited!backendVars = Server!backendVars
      /\ Inherited!backendVars' = Server!backendVars'
      /\ Inherited!links = Server!links /\ Inherited!links' = Server!links'
  BY DEF Inherited!vars, Server!vars, Inherited!backendVars, Server!backendVars,
         Inherited!links, Server!links
<1>2. /\ \A header : /\ Inherited!MuxId(header) = Server!MuxId(header)
                     /\ Inherited!BackendId(header) = Server!BackendId(header)
      /\ \A id : Inherited!Header(id) = Server!Header(id)
  BY DEF Inherited!MuxId, Server!MuxId, Inherited!BackendId, Server!BackendId,
         Inherited!Header, Server!Header
<1>3. \A k : Inherited!Answers(k) = Server!Answers(k)
  BY <1>2 DEF Inherited!Answers, Server!Answers, Inherited!Answer, Server!Answer
<1>4. Inherited!Command = Server!Command /\ Inherited!Reset = Server!Reset
      /\ (Inherited!Running <=> Server!Running)
  BY <1>2 DEF Inherited!Command, Server!Command, Inherited!Reset, Server!Reset,
              Inherited!Running, Server!Running
<1>5. /\ Server!OnConnectionUp => Inherited!OnConnectionUp
      /\ Server!OnConnectionDown => Inherited!OnConnectionDown
      /\ \A k \in 0..Len(wire) :
           /\ Server!OnMessage(k) => Inherited!OnMessage(k)
           /\ Server!OnCutMessage(k) => Inherited!OnCutMessage(k)
      /\ Server!AddCommand => Inherited!AddCommand
      /\ Server!RunCommand => Inherited!RunCommand
  BY <1>1, <1>3, <1>4
     DEF Server!OnConnectionUp, Inherited!OnConnectionUp, Server!OnConnectionDown,
         Inherited!OnConnectionDown, Server!OnMessage, Inherited!OnMessage,
         Server!OnCutMessage, Inherited!OnCutMessage, Server!AddCommand,
         Inherited!AddCommand, Server!RunCommand, Inherited!RunCommand
<1>6. /\ Server!OpenOnce => Inherited!OpenOnce
      /\ Server!LeaseStep => Inherited!LeaseStep
  BY <1>1
     DEF Server!OpenOnce, Inherited!OpenOnce, Server!LeaseStep, Inherited!LeaseStep,
         Server!Open, Inherited!Open, Server!Close, Inherited!Close,
         Server!Acquire, Inherited!Acquire, Server!Leased, Inherited!Leased,
         Server!Release, Inherited!Release, Server!Transmit, Inherited!Transmit,
         Server!Burst, Inherited!Burst
<1>7. /\ \A c \in Conn : Server!HandDown(c) => Inherited!HandDown(c)
      /\ Server!Consume => Inherited!Consume
  BY <1>1, <1>2
     DEF Server!HandDown, Inherited!HandDown, Server!Consume, Inherited!Consume,
         Server!Deliver, Inherited!Deliver
<1>8. Server!BackendNext => Inherited!BackendNext
  BY <1>5, <1>6, <1>7 DEF Server!BackendNext, Inherited!BackendNext
<1>9. QED
  BY <1>1, <1>8

\* From end to end, with ids that fit into a byte: a client of the multiplexer
\* is handed the answers to packets with its id, each once and in the order of
\* the packets, and after the first answer of its own nobody else's.
THEOREM AnswersComeBack ==
  ASSUME MaxClientConns < ByteValues
  PROVE  SystemSpec => [](Server!AnswersInOrder /\ Server!PredecessorsFirst)
<1>1. Inherited!OneByteIds
  BY NoIdIsNone, SystemAssumption DEF Inherited!OneByteIds, Ids
<1>2. Inherited!BackendSpec
        => [](Inherited!AnswersInOrder /\ Inherited!PredecessorsFirst)
  BY <1>1, Inherited!AnswersReachTheirClient
<1>3. Inherited!AnswersInOrder /\ Inherited!PredecessorsFirst
        => Server!AnswersInOrder /\ Server!PredecessorsFirst
  <2>1. Inherited!BackendTypeOK => Server!BackendTypeOK
    BY DEF Inherited!BackendTypeOK, Server!BackendTypeOK, Inherited!TypeOK,
           Server!TypeOK, Inherited!Packet, Server!Packet, Inherited!Frame,
           Server!Frame, Inherited!Byte, Server!Byte
  <2>2. QED
    BY <2>1 DEF Inherited!AnswersInOrder, Server!AnswersInOrder,
                Inherited!PredecessorsFirst, Server!PredecessorsFirst
<1>4. QED
  BY <1>2, <1>3, BackendInitInherited, BackendStepInherited, SystemRefinement, PTL
     DEF ImplementsBackend, Server!BackendSpec, Inherited!BackendSpec

\* Commands typed at the backend go to a connection that is open; they are
\* dropped while one is open only because the other one has closed.
THEOREM CommandsComeThrough == SystemSpec => []Server!ConsoleHasALink
<1>1. Inherited!ConsoleHasALink => Server!ConsoleHasALink
  BY DEF Inherited!ConsoleHasALink, Server!ConsoleHasALink
<1>2. QED
  BY <1>1, Inherited!CommandsHaveALink, BackendInitInherited, BackendStepInherited,
     SystemRefinement, PTL
     DEF ImplementsBackend, Server!BackendSpec, Inherited!BackendSpec
=============================================================================
