-------------------------- MODULE MultiplexerProofs ---------------------------
(***************************************************************************)
(* The multi-threaded multiplexer, for any number of connections, loops,    *)
(* ids, packets and replies: IInv is an inductive invariant, with a lemma   *)
(* for each action that it keeps IInv and a step for each conjunct, and     *)
(* every step is one of MuxLease.                                           *)
(***************************************************************************)
EXTENDS MultiplexerMultiSystem, SequenceTheorems, TLAPS

USE MultiplexerAssumption

\* pop() on a queue of distinct ids.
LEMMA PopKeepsIds ==
  ASSUME NEW q \in Seq(Ids), IsInjective(q), q # <<>>
  PROVE  /\ Head(q) \in Ids /\ Head(q) \in Range(q)
         /\ Tail(q) \in Seq(Ids) /\ IsInjective(Tail(q))
         /\ \A id \in Ids : id \in Range(Tail(q)) <=> id \in Range(q) /\ id # Head(q)
<1>1. /\ Len(q) \in Nat /\ Len(q) >= 1 /\ DOMAIN q = 1..Len(q)
      /\ Head(q) = q[1] /\ Head(q) \in Ids /\ Tail(q) \in Seq(Ids)
      /\ Len(Tail(q)) = Len(q) - 1 /\ DOMAIN Tail(q) = 1..(Len(q) - 1)
      /\ \A i \in 1..(Len(q) - 1) : Tail(q)[i] = q[i + 1]
  BY HeadTailProperties, EmptySeq, LenProperties
<1>2. Head(q) \in Range(q)
  BY <1>1 DEF Range
<1>3. IsInjective(Tail(q))
  <2>1. ASSUME NEW i \in 1..(Len(q) - 1), NEW j \in 1..(Len(q) - 1),
               Tail(q)[i] = Tail(q)[j]
        PROVE  i = j
    <3>1. i + 1 \in DOMAIN q /\ j + 1 \in DOMAIN q /\ q[i + 1] = q[j + 1]
      BY <1>1, <2>1
    <3>2. QED
      BY <3>1 DEF IsInjective
  <2>2. QED
    BY <1>1, <2>1 DEF IsInjective
<1>4. ASSUME NEW id \in Ids
      PROVE  id \in Range(Tail(q)) <=> id \in Range(q) /\ id # Head(q)
  <2>1. ASSUME NEW i \in 1..(Len(q) - 1), id = Tail(q)[i]
        PROVE  id \in Range(q) /\ id # Head(q)
    <3>1. i + 1 \in DOMAIN q /\ 1 \in DOMAIN q /\ i + 1 # 1 /\ id = q[i + 1]
      BY <1>1, <2>1
    <3>2. QED
      BY <1>1, <3>1 DEF IsInjective, Range
  <2>2. ASSUME NEW i \in 1..Len(q), id = q[i], id # Head(q)
        PROVE  id \in Range(Tail(q))
    <3>1. i - 1 \in 1..(Len(q) - 1) /\ Tail(q)[i - 1] = id
      BY <1>1, <2>2
    <3>2. QED
      BY <1>1, <3>1 DEF Range
  <2>3. QED
    BY <1>1, <2>1, <2>2 DEF Range
<1>5. QED
  BY <1>1, <1>2, <1>3, <1>4

\* push() of an id that is not queued.
LEMMA PushKeepsIds ==
  ASSUME NEW q \in Seq(Ids), IsInjective(q), NEW x \in Ids, x \notin Range(q)
  PROVE  /\ Append(q, x) \in Seq(Ids) /\ IsInjective(Append(q, x))
         /\ \A id \in Ids : id \in Range(Append(q, x)) <=> id \in Range(q) \/ id = x
<1>1. /\ Len(q) \in Nat /\ DOMAIN q = 1..Len(q)
      /\ Append(q, x) \in Seq(Ids)
      /\ DOMAIN Append(q, x) = 1..(Len(q) + 1)
      /\ \A i \in 1..Len(q) : Append(q, x)[i] = q[i]
      /\ Append(q, x)[Len(q) + 1] = x
  BY AppendProperties, LenProperties
<1>2. \A i \in 1..Len(q) : Append(q, x)[i] # x
  BY <1>1 DEF Range
<1>3. IsInjective(Append(q, x))
  <2>1. ASSUME NEW i \in 1..(Len(q) + 1), NEW j \in 1..(Len(q) + 1),
               Append(q, x)[i] = Append(q, x)[j]
        PROVE  i = j
    <3>1. CASE i = Len(q) + 1 \/ j = Len(q) + 1
      BY <1>1, <1>2, <2>1, <3>1
    <3>2. CASE i # Len(q) + 1 /\ j # Len(q) + 1
      <4>1. i \in DOMAIN q /\ j \in DOMAIN q /\ q[i] = q[j]
        BY <1>1, <2>1, <3>2
      <4>2. QED
        BY <4>1 DEF IsInjective
    <3>3. QED
      BY <3>1, <3>2
  <2>2. QED
    BY <1>1, <2>1 DEF IsInjective
<1>4. ASSUME NEW id \in Ids
      PROVE  id \in Range(Append(q, x)) <=> id \in Range(q) \/ id = x
  <2>1. ASSUME NEW i \in 1..(Len(q) + 1), id = Append(q, x)[i]
        PROVE  id \in Range(q) \/ id = x
    BY <1>1, <2>1 DEF Range
  <2>2. ASSUME NEW i \in 1..Len(q), id = q[i]
        PROVE  id \in Range(Append(q, x))
    BY <1>1, <2>2 DEF Range
  <2>3. x \in Range(Append(q, x))
    BY <1>1 DEF Range
  <2>4. QED
    BY <1>1, <2>1, <2>2, <2>3 DEF Range
<1>5. QED
  BY <1>1, <1>3, <1>4

-----------------------------------------------------------------------------
\* The backend comes up: the pool is filled; nobody has an id yet.
LEMMA OnBackendUpKeeps ==
  ASSUME IInv, OnBackendUp
  PROVE  IInv'
<1>0. /\ ~backendConn /\ availIds = <<>> /\ Registered = {}
      /\ backend = "connecting" /\ base.at = "idle"
      /\ backend' = "up" /\ backendConn' = TRUE /\ availIds' = FreshIds
      /\ UNCHANGED <<clientConns, conn, context, base, taken,
                     replies, crashed, callbacks, ghosts>>
  BY DEF IInv, BaseInv, IdPool, OnBackendUp, BaseIdle
<1>a. FreshIds \in Seq(Ids) /\ IsInjective(FreshIds) /\ Range(FreshIds) = Ids
  <2>1. FreshIds \in [1..MaxClientConns -> Ids] /\ \A i \in Ids : FreshIds[i] = i
    BY DEF FreshIds, Ids
  <2>2. QED
    BY <2>1 DEF Ids, IsInjective, Range
<1>b. \A id \in Ids : clientConns[id] = NoConn
  BY <1>0 DEF IInv, TypeOK, Registered, Range
<1>1. TypeOK'
  BY <1>0, <1>a DEF IInv, TypeOK, callbacks, ghosts
<1>2. IdPool'
  BY <1>0, <1>a, <1>b DEF IdPool
<1>3. RegistryMatchesContext'
  BY <1>0, <1>b DEF IInv, BaseInv, RegistryMatchesContext
<1>4. BaseInv'
  BY <1>0 DEF BaseInv
<1>5. CallbackInv'
  <2>1. ASSUME NEW c \in Conn
        PROVE  CallbackOf(c)'
    BY <1>0 DEF IInv, BaseInv, CallbackInv, CallbackOf, callbacks
  <2>2. QED
    BY <2>1 DEF CallbackInv
<1>6. StreamInv'
  BY <1>0 DEF IInv, StreamInv, ghosts
<1>7. RoomInv'
  BY <1>0 DEF IInv, RoomInv, Headers, callbacks, ghosts
<1>8. NoClientOutlivesBackend'
  BY <1>0 DEF NoClientOutlivesBackend
<1>9. AssertsHoldUntilLoss'
  BY <1>0 DEF AssertsHoldUntilLoss, OnBackendUp, BaseIdle
<1>10. QED
  BY <1>1, <1>2, <1>3, <1>4, <1>5, <1>6, <1>7, <1>8, <1>9 DEF IInv

\* handleClose of the backend connection: backendConn_ is still set.
LEMMA OnBackendCloseKeeps ==
  ASSUME IInv, OnBackendClose
  PROVE  IInv'
<1>0. /\ backend = "up" /\ backend' = "closed" /\ backendConn = TRUE
      /\ base' = [IdleBase EXCEPT !.at = "down"]
      /\ UNCHANGED <<conn, context, taken, replies, crashed,
                     locks, callbacks, ghosts>>
  BY DEF IInv, BaseInv, TypeOK, OnBackendClose
<1>1. TypeOK'
  <2>1. base' \in BaseWork
    BY <1>0 DEF IdleBase, BaseWork
  <2>2. QED
    BY <1>0, <2>1 DEF IInv, TypeOK, locks, callbacks, ghosts
<1>2. IdPool'
  BY <1>0 DEF IInv, IdPool, Registered, locks
<1>3. RegistryMatchesContext'
  BY <1>0 DEF IInv, RegistryMatchesContext, locks, callbacks
<1>4. BaseInv'
  BY <1>0 DEF IInv, BaseInv, Tag, IdleBase, locks, callbacks
<1>5. CallbackInv'
  BY <1>0 DEF IInv, CallbackInv, CallbackOf, locks, callbacks
<1>6. StreamInv'
  BY <1>0 DEF IInv, StreamInv, ghosts
<1>7. RoomInv'
  BY <1>0 DEF IInv, RoomInv, Headers, callbacks, ghosts
<1>8. NoClientOutlivesBackend'
  BY <1>0 DEF NoClientOutlivesBackend, locks
<1>9. AssertsHoldUntilLoss'
  BY <1>0 DEF AssertsHoldUntilLoss, OnBackendClose, BaseIdle
<1>10. QED
  BY <1>1, <1>2, <1>3, <1>4, <1>5, <1>6, <1>7, <1>8, <1>9 DEF IInv

\* The locked section for the loss of the backend.
LEMMA OnBackendDownKeeps ==
  ASSUME IInv, OnBackendDown
  PROVE  IInv'
<1>0. /\ backend = "closed" /\ backendConn = TRUE /\ backendConn' = FALSE
      /\ availIds' = <<>> /\ clientConns' = [id \in Ids |-> NoConn]
      /\ conn' = [c \in Conn |-> IF c \in Registered THEN AfterShutdown(conn[c])
                                 ELSE conn[c]]
      /\ base' = IdleBase
      /\ UNCHANGED <<backend, context, taken, replies, crashed,
                     callbacks, ghosts>>
  BY DEF IInv, BaseInv, TypeOK, OnBackendDown, ClientsShutDown, Cleared
<1>a. \A c \in Conn : \/ conn'[c] = conn[c]
                      \/ conn[c] = "connected" /\ conn'[c] = "disconnecting"
  BY <1>0 DEF AfterShutdown
<1>1. TypeOK'
  <2>1. base' \in BaseWork
    BY <1>0 DEF IdleBase, BaseWork
  <2>2. conn' \in [Conn -> ConnStates]
    BY <1>0, <1>a DEF IInv, TypeOK, ConnStates
  <2>3. clientConns' \in [Ids -> Conn \cup {NoConn}] /\ availIds' \in Seq(Ids)
    BY <1>0
  <2>4. QED
    BY <1>0, <2>1, <2>2, <2>3 DEF IInv, TypeOK, callbacks, ghosts
<1>2. IdPool'
  <2>1. Range(clientConns') \ {NoConn} = {}
    BY <1>0 DEF Range
  <2>2. QED
    BY <1>0, <2>1 DEF IdPool, Registered
<1>3. RegistryMatchesContext'
  BY <1>0 DEF IInv, RegistryMatchesContext, locks, callbacks
<1>4. BaseInv'
  BY <1>0 DEF IInv, BaseInv, Tag, IdleBase, locks, callbacks
<1>5. CallbackInv'
  <2>1. ASSUME NEW c \in Conn
        PROVE  CallbackOf(c)'
    <3>1. at[c] = "assign" /\ local[c] = NoId => c \notin Registered
      <4>1. ASSUME NEW id \in Ids, at[c] = "assign", local[c] = NoId, clientConns[id] = c
            PROVE  FALSE
        BY <4>1 DEF IInv, RegistryMatchesContext, Ids, NoId
      <4>2. QED
        BY <4>1 DEF IInv, TypeOK, Registered, Range
    <3>2. at[c] = "assign" /\ local[c] = NoId => conn'[c] = conn[c]
      BY <1>0, <3>1
    <3>3. QED
      BY <1>0, <1>a, <3>2 DEF IInv, CallbackInv, CallbackOf, Readable, callbacks
  <2>2. QED
    BY <2>1 DEF CallbackInv
<1>6. StreamInv'
  BY <1>0 DEF IInv, StreamInv, ghosts
<1>7. RoomInv'
  BY <1>0 DEF IInv, RoomInv, Headers, callbacks, ghosts
<1>8. NoClientOutlivesBackend'
  <2>1. ASSUME NEW c \in Conn, conn'[c] = "connected"
        PROVE  at[c] = "assign" /\ local[c] = NoId
    <3>1. conn[c] = "connected" /\ c \notin Registered
      BY <1>0, <1>a, <2>1 DEF AfterShutdown
    <3>2. \A id \in Ids : clientConns[id] # c
      BY <3>1 DEF IInv, TypeOK, Registered, Range
    <3>3. context[c] = NoId
      BY <1>0, <3>1, <3>2 DEF IInv, TypeOK, RegistryMatchesContext
    <3>4. QED
      BY <1>0, <3>1, <3>2, <3>3 DEF IInv, TypeOK, CallbackInv, CallbackOf
  <2>2. QED
    BY <1>0, <2>1 DEF NoClientOutlivesBackend, callbacks
<1>9. AssertsHoldUntilLoss'
  BY <1>0 DEF AssertsHoldUntilLoss, OnBackendDown
<1>10. QED
  BY <1>1, <1>2, <1>3, <1>4, <1>5, <1>6, <1>7, <1>8, <1>9 DEF IInv

\* A backend packet: the base loop keeps the connection registered for its id.
LEMMA OnBackendMessageKeeps ==
  ASSUME IInv, NEW id \in Ids, NEW work \in {"deliver", "disconnect"},
         OnBackendMessage(id, work)
  PROVE  IInv'
<1>0. /\ backend = "up" /\ replies' = replies + 1
      /\ \/ base' = IdleBase
         \/ /\ clientConns[id] \in Conn
            /\ base' = [at |-> work, conn |-> clientConns[id], id |-> id]
      /\ UNCHANGED <<backend, conn, context, taken, crashed,
                     locks, callbacks, ghosts>>
  BY DEF IInv, TypeOK, OnBackendMessage
<1>1. TypeOK'
  <2>1. base' \in BaseWork
    BY <1>0 DEF IdleBase, BaseWork
  <2>2. QED
    BY <1>0, <2>1 DEF IInv, TypeOK, locks, callbacks, ghosts
<1>2. IdPool'
  BY <1>0 DEF IInv, IdPool, Registered, locks
<1>3. RegistryMatchesContext'
  BY <1>0 DEF IInv, RegistryMatchesContext, locks, callbacks
<1>4. BaseInv'
  <2>1. clientConns[id] \in Conn => Tag(clientConns[id]) = id
    BY DEF IInv, RegistryMatchesContext, Tag
  <2>2. Tag(clientConns[id])' = Tag(clientConns[id])
    BY <1>0 DEF Tag, locks, callbacks
  <2>3. QED
    BY <1>0, <2>1, <2>2 DEF IInv, BaseInv, Tag, IdleBase, locks, callbacks
<1>5. CallbackInv'
  BY <1>0 DEF IInv, CallbackInv, CallbackOf, locks, callbacks
<1>6. StreamInv'
  BY <1>0 DEF IInv, StreamInv, ghosts
<1>7. RoomInv'
  BY <1>0 DEF IInv, RoomInv, Headers, callbacks, ghosts
<1>8. NoClientOutlivesBackend'
  BY <1>0 DEF IInv, NoClientOutlivesBackend, locks, callbacks
<1>9. AssertsHoldUntilLoss'
  BY <1>0 DEF AssertsHoldUntilLoss, OnBackendMessage, BaseIdle
<1>10. QED
  BY <1>1, <1>2, <1>3, <1>4, <1>5, <1>6, <1>7, <1>8, <1>9 DEF IInv

\* The packet is handed to the connection found for its id.
LEMMA SendToClientKeeps ==
  ASSUME IInv, SendToClient
  PROVE  IInv'
<1>0. /\ base.at = "deliver" /\ base.conn \in Conn /\ base.id \in Ids
      /\ base' = IdleBase
      /\ got' = got \/ got' = [got EXCEPT ![base.conn] = Append(@, base.id)]
      /\ UNCHANGED <<backend, conn, context, taken, replies, crashed,
                     sent, wire, locks, callbacks>>
  BY DEF IInv, BaseInv, SendToClient
<1>1. TypeOK'
  <2>1. base' \in BaseWork
    BY <1>0 DEF IdleBase, BaseWork
  <2>2. got' \in [Conn -> Seq(Ids)]
    <3>1. Append(got[base.conn], base.id) \in Seq(Ids)
      BY <1>0 DEF IInv, TypeOK
    <3>2. QED
      BY <1>0, <3>1 DEF IInv, TypeOK
  <2>3. QED
    BY <1>0, <2>1, <2>2 DEF IInv, TypeOK, locks, callbacks
<1>2. IdPool'
  BY <1>0 DEF IInv, IdPool, Registered, locks
<1>3. RegistryMatchesContext'
  BY <1>0 DEF IInv, RegistryMatchesContext, locks, callbacks
<1>4. BaseInv'
  BY <1>0 DEF IInv, BaseInv, Tag, IdleBase, locks, callbacks
<1>5. CallbackInv'
  BY <1>0 DEF IInv, CallbackInv, CallbackOf, locks, callbacks
<1>6. StreamInv'
  BY <1>0 DEF IInv, StreamInv, ghosts
<1>7. RoomInv'
  BY <1>0 DEF IInv, RoomInv, Headers, callbacks, ghosts
<1>8. NoClientOutlivesBackend'
  BY <1>0 DEF IInv, NoClientOutlivesBackend, locks, callbacks
<1>9. AssertsHoldUntilLoss'
  BY <1>0 DEF AssertsHoldUntilLoss, SendToClient
<1>10. QED
  BY <1>1, <1>2, <1>3, <1>4, <1>5, <1>6, <1>7, <1>8, <1>9 DEF IInv

\* The command DISCONNECT: the connection found for the id is shut down.
LEMMA DisconnectClientKeeps ==
  ASSUME IInv, DisconnectClient
  PROVE  IInv'
<1>0. /\ base.at = "disconnect" /\ base.conn \in Conn /\ base.id \in Ids
      /\ base.id = Tag(base.conn) /\ backend = "up" /\ base' = IdleBase
      /\ conn' = [conn EXCEPT ![base.conn] = AfterShutdown(@)]
      /\ UNCHANGED <<backend, context, taken, replies, crashed,
                     locks, callbacks, ghosts>>
  BY DEF IInv, BaseInv, DisconnectClient
<1>a. \A c \in Conn : \/ conn'[c] = conn[c]
                      \/ conn[c] = "connected" /\ conn'[c] = "disconnecting"
  BY <1>0 DEF IInv, TypeOK, AfterShutdown
<1>1. TypeOK'
  <2>1. base' \in BaseWork
    BY <1>0 DEF IdleBase, BaseWork
  <2>2. conn' \in [Conn -> ConnStates]
    BY <1>0, <1>a DEF IInv, TypeOK, ConnStates
  <2>3. QED
    BY <1>0, <2>1, <2>2 DEF IInv, TypeOK, locks, callbacks, ghosts
<1>2. IdPool'
  BY <1>0 DEF IInv, IdPool, Registered, locks
<1>3. RegistryMatchesContext'
  BY <1>0, <1>a DEF IInv, RegistryMatchesContext, locks, callbacks
<1>4. BaseInv'
  BY <1>0 DEF IInv, BaseInv, Tag, IdleBase, locks, callbacks
<1>5. CallbackInv'
  <2>1. ASSUME NEW c \in Conn
        PROVE  CallbackOf(c)'
    <3>1. at[c] = "assign" /\ local[c] = NoId => conn'[c] = conn[c]
      BY SMTT(20), <1>0 DEF IInv, TypeOK, Tag, Ids, NoId
    <3>2. QED
      BY <1>0, <1>a, <3>1 DEF IInv, CallbackInv, CallbackOf, Readable, locks,
                              callbacks
  <2>2. QED
    BY <2>1 DEF CallbackInv
<1>6. StreamInv'
  BY <1>0 DEF IInv, StreamInv, ghosts
<1>7. RoomInv'
  BY <1>0 DEF IInv, RoomInv, Headers, callbacks, ghosts
<1>8. NoClientOutlivesBackend'
  BY <1>0 DEF IInv, NoClientOutlivesBackend, locks, callbacks
<1>9. AssertsHoldUntilLoss'
  BY <1>0 DEF AssertsHoldUntilLoss, DisconnectClient
<1>10. QED
  BY <1>1, <1>2, <1>3, <1>4, <1>5, <1>6, <1>7, <1>8, <1>9 DEF IInv

\* A new connection: it has no callback yet.
LEMMA AcceptKeeps ==
  ASSUME IInv, NEW c \in Conn, Accept(c)
  PROVE  IInv'
<1>1. TypeOK'
  BY DEF IInv, TypeOK, Accept, ConnStates, locks, callbacks, ghosts
<1>2. IdPool'
  BY DEF IInv, Accept, IdPool, Registered, locks
<1>3. RegistryMatchesContext'
  BY DEF IInv, TypeOK, CallbackInv, CallbackOf, RegistryMatchesContext, Accept,
         locks, callbacks
<1>4. BaseInv'
  BY DEF IInv, Accept, BaseInv, Tag, IdleBase, locks, callbacks
<1>5. CallbackInv'
  <2>1. ASSUME NEW d \in Conn
        PROVE  CallbackOf(d)'
    BY DEF IInv, TypeOK, CallbackInv, CallbackOf, Accept, Readable, locks,
           callbacks
  <2>2. QED
    BY <2>1 DEF CallbackInv
<1>6. StreamInv'
  BY DEF IInv, Accept, StreamInv, ghosts
<1>7. RoomInv'
  BY DEF IInv, Accept, RoomInv, Headers, callbacks, ghosts
<1>8. NoClientOutlivesBackend'
  BY DEF IInv, TypeOK, NoClientOutlivesBackend, Accept, locks, callbacks
<1>9. AssertsHoldUntilLoss'
  BY DEF AssertsHoldUntilLoss, Accept, BaseIdle
<1>10. QED
  BY <1>1, <1>2, <1>3, <1>4, <1>5, <1>6, <1>7, <1>8, <1>9 DEF IInv

\* A client comes up and takes the first id of the queue, if there is one.
LEMMA OnClientUpKeeps ==
  ASSUME IInv, NEW c \in Conn, OnClientUp(c)
  PROVE  IInv'
<1>0. /\ conn[c] = "accepted" /\ at[c] = "idle" /\ context[c] = NoId /\ local[c] = NoId
      /\ conn' = [conn EXCEPT ![c] = "connected"] /\ at' = [at EXCEPT ![c] = "assign"]
      /\ UNCHANGED <<backend, backendConn, context, left, link, room, base, taken,
                     replies, crashed, ghosts>>
  BY DEF IInv, CallbackInv, CallbackOf, OnClientUp
<1>a. CASE availIds = <<>>
  <2>0. UNCHANGED <<local, availIds, clientConns>>
    BY <1>a DEF OnClientUp
  <2>1. TypeOK'
    BY <1>0, <2>0 DEF IInv, TypeOK, ConnStates, Places, ghosts
  <2>2. IdPool'
    BY <1>0, <2>0 DEF IInv, IdPool, Registered
  <2>3. RegistryMatchesContext'
    <3>1. /\ RegistryMatchesContext
          /\ clientConns \in [Ids -> Conn \cup {NoConn}]
          /\ context \in [Conn -> Ids \cup {NoId}]
          /\ at \in [Conn -> Places] /\ conn \in [Conn -> ConnStates]
      BY DEF IInv, TypeOK
    <3>2. ASSUME NEW i \in Ids, clientConns[i] # NoConn
          PROVE  clientConns[i] # c
      BY <1>0, <3>1, <3>2 DEF RegistryMatchesContext, Ids, NoId
    <3>3. \A i \in Ids : clientConns[i] # NoConn
            => LET d == clientConns[i]
               IN  IF at'[d] = "assign" THEN local'[d] = i ELSE context'[d] = i
      BY <1>0, <2>0, <3>1, <3>2 DEF RegistryMatchesContext
    <3>4. \A d \in Conn :
            backendConn /\ context[d] # NoId
              /\ (conn'[d] # "disconnected" \/ at'[d] = "release")
              => clientConns[context[d]] = d
      BY <1>0, <3>1 DEF RegistryMatchesContext
    <3>5. QED
      BY <1>0, <2>0, <3>3, <3>4 DEF RegistryMatchesContext
  <2>4. BaseInv'
    BY <1>0, <2>0 DEF IInv, TypeOK, BaseInv, Tag, Ids, NoId
  <2>5. CallbackInv'
    BY <1>0, <2>0 DEF IInv, TypeOK, CallbackInv, CallbackOf, Readable
  <2>6. StreamInv'
    BY <1>0, <2>0 DEF IInv, StreamInv, ghosts
  <2>7. RoomInv'
    BY <1>0, <2>0 DEF IInv, TypeOK, RoomInv, Headers, ghosts
  <2>8. NoClientOutlivesBackend'
    BY <1>0, <2>0 DEF IInv, TypeOK, NoClientOutlivesBackend
  <2>9. AssertsHoldUntilLoss'
    BY <1>0 DEF AssertsHoldUntilLoss, OnClientUp, LoopIdle
  <2>10. QED
    BY <2>1, <2>2, <2>3, <2>4, <2>5, <2>6, <2>7, <2>8, <2>9 DEF IInv
<1>b. CASE availIds # <<>>
  <2> DEFINE id == Head(availIds)
  <2>0. /\ local' = [local EXCEPT ![c] = id] /\ availIds' = Tail(availIds)
        /\ clientConns' = [clientConns EXCEPT ![id] = c]
    BY <1>b DEF OnClientUp, Popped
  <2>a. backendConn /\ backend # "connecting"
    BY <1>b DEF IInv, IdPool, BaseInv
  <2>b. /\ id \in Ids /\ clientConns[id] = NoConn
        /\ availIds' \in Seq(Ids) /\ IsInjective(availIds')
        /\ \A i \in Ids : i \in Range(availIds') <=> i \in Range(availIds) /\ i # id
    BY <1>b, <2>0, <2>a, PopKeepsIds DEF IInv, TypeOK, IdPool
  <2>c. \A i \in Ids : clientConns[i] # c
    BY <1>0 DEF IInv, RegistryMatchesContext, Ids, NoId
  <2>d. clientConns' \in [Ids -> Conn \cup {NoConn}]
    BY <2>0, <2>b DEF IInv, TypeOK
  <2> HIDE DEF id
  <2>1. TypeOK'
    BY <1>0, <2>0, <2>b, <2>d DEF IInv, TypeOK, ConnStates, Places, ghosts
  <2>2. IdPool'
    BY <1>0, <2>0, <2>a, <2>b, <2>c DEF IInv, TypeOK, IdPool
  <2>3. RegistryMatchesContext'
    <3>1. ASSUME NEW i \in Ids, clientConns'[i] # NoConn
          PROVE  LET d == clientConns'[i]
                 IN  IF at'[d] = "assign" THEN local'[d] = i ELSE context'[d] = i
      BY SMTT(20), <1>0, <2>0, <2>b, <2>c, <3>1
         DEF IInv, TypeOK, RegistryMatchesContext
    <3>2. ASSUME NEW d \in Conn, context'[d] # NoId,
                 conn'[d] # "disconnected" \/ at'[d] = "release"
          PROVE  clientConns'[context'[d]] = d
      BY SMTT(20), <1>0, <2>0, <2>a, <2>b, <3>2
         DEF IInv, TypeOK, RegistryMatchesContext
    <3>3. QED
      BY <3>1, <3>2 DEF RegistryMatchesContext
  <2>4. BaseInv'
    BY <1>0, <2>0, <2>a, SMTT(30) DEF IInv, TypeOK, BaseInv, Tag, Ids, NoId
  <2>5. CallbackInv'
    <3>1. ASSUME NEW d \in Conn
          PROVE  CallbackOf(d)'
      <4>1. CASE d = c
        BY <1>0, <2>0, <2>b, <4>1 DEF IInv, TypeOK, CallbackOf, Readable, Ids,
                                      NoId
      <4>2. CASE d # c
        <5>1. local[d] # NoId /\ at[d] = "assign" => clientConns[local[d]] = d
          BY <2>a DEF IInv, CallbackInv, CallbackOf
        <5>2. local[d] # NoId /\ at[d] = "assign" => clientConns'[local[d]] = d
          BY <2>0, <2>b, <5>1 DEF IInv, TypeOK
        <5>3. QED
          BY <1>0, <2>0, <4>2, <5>2 DEF IInv, TypeOK, CallbackInv, CallbackOf
      <4>3. QED
        BY <4>1, <4>2
    <3>2. QED
      BY <3>1 DEF CallbackInv
  <2>6. StreamInv'
    BY <1>0, <2>0 DEF IInv, StreamInv, ghosts
  <2>7. RoomInv'
    BY <1>0, <2>0 DEF IInv, TypeOK, RoomInv, Headers, ghosts
  <2>8. NoClientOutlivesBackend'
    BY <1>0, <2>a DEF NoClientOutlivesBackend
  <2>9. AssertsHoldUntilLoss'
    BY <1>0 DEF AssertsHoldUntilLoss, OnClientUp, LoopIdle
  <2>10. QED
    BY <2>1, <2>2, <2>3, <2>4, <2>5, <2>6, <2>7, <2>8, <2>9 DEF IInv
<1>1. QED
  BY <1>a, <1>b

\* The id becomes the context, or the client is turned away.
LEMMA FinishUpKeeps ==
  ASSUME IInv, NEW c \in Conn, FinishUp(c)
  PROVE  IInv'
<1>0. /\ at[c] = "assign" /\ context[c] = NoId /\ Readable(conn[c])
      /\ at' = [at EXCEPT ![c] = "idle"] /\ local' = [local EXCEPT ![c] = NoId]
      /\ UNCHANGED <<backend, left, link, room, base, taken, replies,
                     crashed, locks, ghosts>>
  BY DEF IInv, CallbackInv, CallbackOf, FinishUp, InCallback
<1>a. \/ /\ local[c] \in Ids /\ context' = [context EXCEPT ![c] = local[c]]
         /\ conn' = conn
      \/ /\ local[c] = NoId /\ conn[c] = "connected"
         /\ conn' = [conn EXCEPT ![c] = "disconnecting"] /\ context' = context
  BY <1>0 DEF IInv, TypeOK, CallbackInv, CallbackOf, FinishUp, IdTaken,
              TurnedAway, AfterShutdown, Ids, NoId
<1>b. Tag(c)' = Tag(c) /\ \A d \in Conn : Tag(d)' = Tag(d)
  BY <1>0, <1>a DEF IInv, TypeOK, Tag
<1>1. TypeOK'
  BY <1>0, <1>a DEF IInv, TypeOK, ConnStates, Places, locks, ghosts
<1>2. IdPool'
  BY <1>0 DEF IInv, IdPool, Registered, locks
<1>3. RegistryMatchesContext'
  <2>1. ASSUME NEW i \in Ids, clientConns[i] # NoConn
        PROVE  LET d == clientConns[i]
               IN  IF at'[d] = "assign" THEN local'[d] = i ELSE context'[d] = i
    BY <1>0, <1>a, <2>1, SMTT(30) DEF IInv, TypeOK, RegistryMatchesContext, Ids, NoId
  <2>2. ASSUME NEW d \in Conn, backendConn, context'[d] # NoId,
               conn'[d] # "disconnected" \/ at'[d] = "release"
        PROVE  clientConns[context'[d]] = d
    BY <1>0, <1>a, <2>2, SMTT(30) DEF IInv, TypeOK, CallbackInv, CallbackOf,
                            RegistryMatchesContext, Ids, NoId
  <2>3. QED
    BY <1>0, <2>1, <2>2 DEF RegistryMatchesContext, locks
<1>4. BaseInv'
  BY <1>0, <1>a, <1>b DEF IInv, TypeOK, BaseInv, Ids, NoId, locks
<1>5. CallbackInv'
  <2>1. ASSUME NEW d \in Conn
        PROVE  CallbackOf(d)'
    BY <1>0, <1>a, SMTT(30) DEF IInv, TypeOK, CallbackInv, CallbackOf, Readable, Ids,
                      NoId, locks
  <2>2. QED
    BY <2>1 DEF CallbackInv
<1>6. StreamInv'
  BY <1>0 DEF IInv, StreamInv, ghosts
<1>7. RoomInv'
  BY <1>0 DEF IInv, TypeOK, RoomInv, Headers, ghosts
<1>8. NoClientOutlivesBackend'
  BY <1>0, <1>a, SMTT(30) DEF IInv, TypeOK, NoClientOutlivesBackend, Ids, NoId, locks
<1>9. AssertsHoldUntilLoss'
  BY <1>0 DEF AssertsHoldUntilLoss, FinishUp, InCallback
<1>10. QED
  BY <1>1, <1>2, <1>3, <1>4, <1>5, <1>6, <1>7, <1>8, <1>9 DEF IInv

\* A client closes: either it has a valid id, or any_cast throws.
LEMMA OnClientCloseKeeps ==
  ASSUME IInv, NEW c \in Conn, OnClientClose(c)
  PROVE  IInv'
<1>0. /\ Readable(conn[c]) /\ at[c] = "idle"
      /\ UNCHANGED <<backend, context, local, left, link, room, base, taken,
                     replies, locks, ghosts>>
      /\ \/ crashed' = "bad_any_cast" /\ conn' = conn /\ at' = at
         \/ /\ context[c] \in Ids
            /\ conn' = [conn EXCEPT ![c] = "disconnected"]
            /\ at' = [at EXCEPT ![c] = "release"] /\ crashed' = crashed
  BY DEF IInv, TypeOK, OnClientClose, LoopIdle, Crash, Ids, NoId, locks,
         callbacks, ghosts
<1>1. TypeOK'
  BY <1>0 DEF IInv, TypeOK, ConnStates, Places, locks, ghosts
<1>2. IdPool'
  BY <1>0 DEF IInv, IdPool, Registered, locks
<1>3. RegistryMatchesContext'
  BY <1>0, SMTT(30) DEF IInv, TypeOK, RegistryMatchesContext, Readable, locks
<1>4. BaseInv'
  BY <1>0 DEF IInv, TypeOK, BaseInv, Tag, locks
<1>5. CallbackInv'
  <2>1. ASSUME NEW d \in Conn
        PROVE  CallbackOf(d)'
    BY <1>0, SMTT(30) DEF IInv, TypeOK, CallbackInv, CallbackOf, Readable, Ids, NoId,
                locks
  <2>2. QED
    BY <2>1 DEF CallbackInv
<1>6. StreamInv'
  BY <1>0 DEF IInv, StreamInv, ghosts
<1>7. RoomInv'
  BY <1>0 DEF IInv, TypeOK, RoomInv, Headers, ghosts
<1>8. NoClientOutlivesBackend'
  BY <1>0 DEF IInv, TypeOK, NoClientOutlivesBackend, locks
<1>9. AssertsHoldUntilLoss'
  BY <1>0 DEF AssertsHoldUntilLoss, OnClientClose, LoopIdle
<1>10. QED
  BY <1>1, <1>2, <1>3, <1>4, <1>5, <1>6, <1>7, <1>8, <1>9 DEF IInv

\* A client that is down gives its id back, unless the backend has gone first.
LEMMA ReleaseIdKeeps ==
  ASSUME IInv, NEW c \in Conn, ReleaseId(c)
  PROVE  IInv'
<1>0. /\ at[c] = "release" /\ conn[c] = "disconnected" /\ context[c] \in Ids
      /\ backendConn => clientConns[context[c]] = c
      /\ ~backendConn => availIds = <<>> /\ Registered = {}
      /\ at' = [at EXCEPT ![c] = "idle"]
      /\ UNCHANGED <<backend, backendConn, conn, context, local, left, link, room,
                     base, taken, replies, crashed, ghosts>>
  BY DEF IInv, TypeOK, IdPool, RegistryMatchesContext, CallbackInv, CallbackOf,
         ReleaseId, InCallback, NoId
<1>a. \/ /\ backendConn /\ clientConns' = [clientConns EXCEPT ![context[c]] = NoConn]
         /\ availIds' = Append(availIds, context[c])
      \/ ~backendConn /\ UNCHANGED <<availIds, clientConns>>
  BY <1>0 DEF ReleaseId, Erased
<1>b. backendConn => /\ availIds' \in Seq(Ids) /\ IsInjective(availIds')
                     /\ \A i \in Ids : i \in Range(availIds')
                                     <=> i \in Range(availIds) \/ i = context[c]
  <2>1. ASSUME backendConn
        PROVE  IsInjective(availIds) /\ context[c] \notin Range(availIds)
    BY <1>0, <2>1 DEF IInv, IdPool
  <2>2. availIds \in Seq(Ids)
    BY DEF IInv, TypeOK
  <2>3. ASSUME backendConn
        PROVE  /\ Append(availIds, context[c]) \in Seq(Ids)
               /\ IsInjective(Append(availIds, context[c]))
               /\ \A i \in Ids : i \in Range(Append(availIds, context[c]))
                               <=> i \in Range(availIds) \/ i = context[c]
    BY <1>0, <2>1, <2>2, <2>3, PushKeepsIds
  <2>4. QED
    BY <1>a, <2>3
<1>c. clientConns' \in [Ids -> Conn \cup {NoConn}]
  BY <1>0, <1>a DEF IInv, TypeOK
<1>1. TypeOK'
  BY <1>0, <1>a, <1>b, <1>c DEF IInv, TypeOK, Places, ghosts
<1>2. IdPool'
  <2>1. CASE backendConn
    BY <1>0, <1>a, <1>b, <2>1 DEF IInv, TypeOK, IdPool
  <2>2. CASE ~backendConn
    BY <1>0, <1>a, <2>2 DEF IdPool, Registered
  <2>3. QED
    BY <2>1, <2>2
<1>3. RegistryMatchesContext'
  <2>1. ASSUME NEW i \in Ids, clientConns'[i] # NoConn
        PROVE  LET d == clientConns'[i]
               IN  IF at'[d] = "assign" THEN local'[d] = i ELSE context'[d] = i
    BY SMTT(20), <1>0, <1>a, <2>1 DEF IInv, TypeOK, RegistryMatchesContext
  <2>2. ASSUME NEW d \in Conn, backendConn, context[d] # NoId,
               conn[d] # "disconnected" \/ at'[d] = "release"
        PROVE  clientConns'[context[d]] = d
    BY SMTT(20), <1>0, <1>a, <2>2 DEF IInv, TypeOK, RegistryMatchesContext
  <2>3. QED
    BY <1>0, <2>1, <2>2 DEF RegistryMatchesContext
<1>4. BaseInv'
  BY <1>0 DEF IInv, TypeOK, BaseInv, Tag
<1>5. CallbackInv'
  <2>1. ASSUME NEW d \in Conn
        PROVE  CallbackOf(d)'
    <3>1. backendConn /\ at[d] = "assign" /\ local[d] # NoId => clientConns'[local[d]] = d
      BY SMTT(20), <1>0, <1>a DEF IInv, TypeOK, CallbackInv, CallbackOf
    <3>2. QED
      BY <1>0, <3>1 DEF IInv, TypeOK, CallbackInv, CallbackOf, Readable
  <2>2. QED
    BY <2>1 DEF CallbackInv
<1>6. StreamInv'
  BY <1>0 DEF IInv, StreamInv, ghosts
<1>7. RoomInv'
  BY <1>0 DEF IInv, TypeOK, RoomInv, Headers, ghosts
<1>8. NoClientOutlivesBackend'
  BY <1>0 DEF IInv, TypeOK, NoClientOutlivesBackend
<1>9. AssertsHoldUntilLoss'
  BY <1>0 DEF AssertsHoldUntilLoss, ReleaseId, InCallback
<1>10. QED
  BY <1>1, <1>2, <1>3, <1>4, <1>5, <1>6, <1>7, <1>8, <1>9 DEF IInv

\* The counters of a client's stream, and the room in its input buffer.
LEMMA StreamCounts ==
  ASSUME TypeOK, NEW c \in Conn
  PROVE  taken[c] \in Nat /\ sent[c] \in Nat /\ room[c] \in Nat
BY DEF TypeOK

\* A message of a client with an id is about to be cut into packets.
LEMMA OnClientMessageKeeps ==
  ASSUME IInv, NEW c \in Conn, NEW k \in 1..MaxBurst, OnClientMessage(c, k)
  PROVE  IInv'
<1>0. /\ Readable(conn[c]) /\ context[c] # NoId /\ at[c] = "idle"
      /\ at' = [at EXCEPT ![c] = "frame"] /\ left' = [left EXCEPT ![c] = k]
      /\ UNCHANGED <<backend, conn, context, local, link, base, taken,
                     replies, crashed, locks, ghosts>>
  BY DEF OnClientMessage, LoopIdle
<1>a. /\ room' \in [Conn -> Nat] /\ \A d \in Conn \ {c} : room'[d] = room[d]
      /\ room'[c] >= room[c] \/ room'[c] >= CheapPrepend
  <2>1. PICK free \in RoomAfterRead(room[c]) :
          room' = [room EXCEPT ![c] = RoomForLast(free, k)]
    BY DEF OnClientMessage
  <2>2. room \in [Conn -> Nat] /\ room[c] \in Nat
    BY DEF IInv, TypeOK
  <2>3. free \in Nat /\ (free = room[c] \/ free = CheapPrepend)
    BY <2>2 DEF RoomAfterRead, CheapPrepend
  <2>4. RoomForLast(free, k) \in Nat /\ RoomForLast(free, k) >= free
    BY <2>3 DEF RoomForLast, MAX_PACKET_LEN
  <2>5. QED
    BY <2>1, <2>2, <2>3, <2>4 DEF CheapPrepend
<1>1. TypeOK'
  <2>1. at' \in [Conn -> Places] /\ left' \in [Conn -> 0..MaxBurst]
    BY <1>0 DEF IInv, TypeOK, Places
  <2>2. QED
    BY <1>0, <1>a, <2>1 DEF IInv, TypeOK, locks, ghosts
<1>2. IdPool'
  BY <1>0 DEF IInv, IdPool, Registered, locks
<1>3. RegistryMatchesContext'
  BY <1>0, SMTT(30) DEF IInv, TypeOK, RegistryMatchesContext, locks
<1>4. BaseInv'
  BY <1>0 DEF IInv, TypeOK, BaseInv, Tag, locks
<1>5. CallbackInv'
  <2>1. ASSUME NEW d \in Conn
        PROVE  CallbackOf(d)'
    BY SMTT(20), <1>0
       DEF IInv, TypeOK, CallbackInv, CallbackOf, Readable, locks
  <2>2. QED
    BY <2>1 DEF CallbackInv
<1>6. StreamInv'
  BY <1>0 DEF IInv, StreamInv, ghosts
<1>7. RoomInv'
  <2>1. ASSUME NEW d \in Conn
        PROVE  /\ sent'[d] <= taken'[d]
               /\ room'[d] >= CheapPrepend - HEADER_LEN * Headers(d)'
    <3>1. /\ taken[d] \in Nat /\ sent[d] \in Nat /\ room[d] \in Nat /\ sent[d] <= taken[d]
          /\ room[d] >= CheapPrepend - HEADER_LEN * Headers(d)
      BY StreamCounts DEF IInv, RoomInv
    <3>2. room'[d] \in Nat /\ (room'[d] >= room[d] \/ room'[d] >= CheapPrepend)
      BY <1>a, <3>1
    <3>3. Headers(d)' = Headers(d) /\ Headers(d) \in Nat
      BY SMTT(20), <1>0, <3>1 DEF IInv, TypeOK, Headers, ghosts
    <3>4. room'[d] >= CheapPrepend - HEADER_LEN * Headers(d)'
      BY <3>1, <3>2, <3>3 DEF CheapPrepend, HEADER_LEN
    <3>5. QED
      BY <1>0, <3>1, <3>4 DEF ghosts
  <2>2. QED
    BY <2>1 DEF RoomInv
<1>8. NoClientOutlivesBackend'
  BY <1>0 DEF IInv, TypeOK, NoClientOutlivesBackend, locks
<1>9. AssertsHoldUntilLoss'
  BY <1>0 DEF AssertsHoldUntilLoss, OnClientMessage, LoopIdle
<1>10. QED
  BY <1>1, <1>2, <1>3, <1>4, <1>5, <1>6, <1>7, <1>8, <1>9 DEF IInv

\* There is no room for the header: two packets of the client were lost before, so
\* the backend has gone.
LEMMA NoRoomKeeps ==
  ASSUME IInv, NEW c \in Conn, CopyBackendConn(c), left[c] = 1, room[c] < HEADER_LEN
  PROVE  IInv'
<1>0. /\ at[c] = "frame" /\ crashed' = "prepend"
      /\ UNCHANGED <<backend, conn, context, base, taken, replies,
                     locks, callbacks, ghosts>>
  BY StreamCounts DEF IInv, CopyBackendConn, InCallback, Crash, HEADER_LEN
<1>1. taken[c] >= sent[c] + 2
  <2>1. Headers(c) = taken[c] - sent[c]
    BY <1>0, StreamCounts DEF IInv, Headers
  <2>2. room[c] >= CheapPrepend - HEADER_LEN * (taken[c] - sent[c])
    BY <2>1 DEF IInv, RoomInv
  <2>3. QED
    BY <2>2, StreamCounts DEF IInv, CheapPrepend, HEADER_LEN
<1>2. backend = "closed"
  BY <1>1 DEF IInv, TypeOK, StreamInv
<1>3. AssertsHoldUntilLoss'
  BY <1>0, <1>1, <1>2 DEF AssertsHoldUntilLoss, ghosts
<1>4. TypeOK'
  BY <1>0 DEF IInv, TypeOK, locks, callbacks, ghosts
<1>5. IdPool' /\ NoClientOutlivesBackend'
  BY <1>0 DEF IInv, IdPool, NoClientOutlivesBackend, Registered, locks, callbacks
<1>6. RegistryMatchesContext'
  BY <1>0 DEF IInv, RegistryMatchesContext, locks, callbacks
<1>7. BaseInv'
  BY <1>0 DEF IInv, BaseInv, Tag, locks, callbacks
<1>8. CallbackInv'
  BY <1>0 DEF IInv, CallbackInv, CallbackOf, locks, callbacks
<1>9. StreamInv' /\ RoomInv'
  BY <1>0 DEF IInv, StreamInv, RoomInv, Headers, callbacks, ghosts
<1>10. QED
  BY <1>3, <1>4, <1>5, <1>6, <1>7, <1>8, <1>9 DEF IInv

\* The header is prepended, and the locked section of sendBackendPacket follows.
LEMMA CopyBackendConnKeeps ==
  ASSUME IInv, NEW c \in Conn, CopyBackendConn(c)
  PROVE  IInv'
<1> SUFFICES ASSUME left[c] = 1 => room[c] >= HEADER_LEN
             PROVE  IInv'
  <2>1. CASE left[c] = 1 /\ room[c] < HEADER_LEN
    BY <2>1, NoRoomKeeps
  <2>2. CASE ~(left[c] = 1 /\ room[c] < HEADER_LEN)
    BY <2>2, StreamCounts DEF IInv, HEADER_LEN
  <2>3. QED
    BY <2>1, <2>2
<1>0. /\ at[c] = "frame" /\ context[c] # NoId /\ left[c] > 0
      /\ at' = [at EXCEPT ![c] = "send"] /\ link' = [link EXCEPT ![c] = backendConn]
      /\ room' = [room EXCEPT ![c] = IF left[c] = 1 THEN @ - HEADER_LEN ELSE @]
      /\ UNCHANGED <<backend, conn, context, local, left, base, taken,
                     replies, crashed, locks, ghosts>>
  <2>1. ~(left[c] = 1 /\ room[c] < HEADER_LEN)
    BY StreamCounts DEF IInv, HEADER_LEN
  <2>2. QED
    BY <2>1 DEF IInv, CallbackInv, CallbackOf, CopyBackendConn, InCallback
<1>a. link' \in [Conn -> BOOLEAN] /\ (backend = "up" => link'[c])
  BY <1>0 DEF IInv, TypeOK, BaseInv
<1>b. room' \in [Conn -> Nat]
  BY <1>0 DEF IInv, TypeOK, HEADER_LEN
<1>1. TypeOK'
  BY <1>0, <1>a, <1>b DEF IInv, TypeOK, Places, locks, ghosts
<1>2. IdPool'
  BY <1>0 DEF IInv, IdPool, Registered, locks
<1>3. RegistryMatchesContext'
  BY SMTT(20), <1>0 DEF IInv, TypeOK, RegistryMatchesContext, locks
<1>4. BaseInv'
  BY <1>0 DEF IInv, TypeOK, BaseInv, Tag, locks
<1>5. CallbackInv'
  <2>1. ASSUME NEW d \in Conn
        PROVE  CallbackOf(d)'
    BY <1>0, <1>a DEF IInv, TypeOK, CallbackInv, CallbackOf, Readable, locks
  <2>2. QED
    BY <2>1 DEF CallbackInv
<1>6. StreamInv'
  BY <1>0 DEF IInv, StreamInv, ghosts
<1>7. RoomInv'
  <2>1. ASSUME NEW d \in Conn
        PROVE  /\ sent'[d] <= taken'[d]
               /\ room'[d] >= CheapPrepend - HEADER_LEN * Headers(d)'
    <3>1. /\ taken[d] \in Nat /\ sent[d] \in Nat /\ room[d] \in Nat /\ sent[d] <= taken[d]
          /\ room[d] >= CheapPrepend - HEADER_LEN * Headers(d)
      BY StreamCounts DEF IInv, RoomInv
    <3>2. /\ d = c => Headers(d)' = Headers(d) + IF left[d] = 1 THEN 1 ELSE 0
          /\ d # c => Headers(d)' = Headers(d)
          /\ Headers(d) \in Int
      BY SMTT(20), <1>0, <3>1 DEF IInv, TypeOK, Headers, ghosts
    <3>3. room'[d] = IF d = c /\ left[d] = 1 THEN room[d] - HEADER_LEN ELSE room[d]
      BY <1>0 DEF IInv, TypeOK
    <3>4. room'[d] >= CheapPrepend - HEADER_LEN * Headers(d)'
      BY <3>1, <3>2, <3>3 DEF CheapPrepend, HEADER_LEN
    <3>5. QED
      BY <1>0, <3>1, <3>4 DEF ghosts
  <2>2. QED
    BY <2>1 DEF RoomInv
<1>8. NoClientOutlivesBackend'
  BY <1>0 DEF IInv, TypeOK, NoClientOutlivesBackend, locks
<1>9. AssertsHoldUntilLoss'
  BY <1>0 DEF AssertsHoldUntilLoss, CopyBackendConn, InCallback
<1>10. QED
  BY <1>1, <1>2, <1>3, <1>4, <1>5, <1>6, <1>7, <1>8, <1>9 DEF IInv

\* The rest of sendBackendPacket: the packet is sent, or dropped.
LEMMA SendBackendPacketKeeps ==
  ASSUME IInv, NEW c \in Conn, SendBackendPacket(c)
  PROVE  IInv'
<1>0. /\ at[c] = "send" /\ context[c] # NoId /\ left[c] > 0 /\ left[c] \in 0..MaxBurst
      /\ backend = "up" => link[c]
      /\ left' = [left EXCEPT ![c] = @ - 1]
      /\ at' = [at EXCEPT ![c] = IF left[c] > 1 THEN "frame" ELSE "idle"]
      /\ link' = [link EXCEPT ![c] = FALSE] /\ taken' = [taken EXCEPT ![c] = @ + 1]
      /\ UNCHANGED <<backend, conn, context, local, base, replies, got, crashed,
                     locks>>
  BY DEF IInv, TypeOK, CallbackInv, CallbackOf, SendBackendPacket, InCallback
<1>a. backend # "connecting"
  BY <1>0 DEF IInv, BaseInv
<1>b. \/ /\ sent' = [sent EXCEPT ![c] = @ + 1]
         /\ wire' = Append(wire, NextPacket(c))
         /\ room' = [room EXCEPT ![c] = IF left[c] = 1 THEN CheapPrepend ELSE @]
      \/ /\ backend = "closed"
         /\ UNCHANGED <<sent, wire, room>>
  BY <1>0, <1>a DEF IInv, TypeOK, SendBackendPacket
<1>c. NextPacket(c) \in Packet
  BY <1>0 DEF IInv, TypeOK, NextPacket, Packet
<1>d. wire' \in Seq(Packet)
  <2>1. wire \in Seq(Packet)
    BY DEF IInv, TypeOK
  <2>2. Append(wire, NextPacket(c)) \in Seq(Packet)
    BY <1>c, <2>1, AppendProperties
  <2>3. QED
    BY <1>b, <2>1, <2>2
<1>e. sent' \in [Conn -> Nat] /\ taken' \in [Conn -> Nat]
  <2>1. sent \in [Conn -> Nat] /\ taken \in [Conn -> Nat]
    BY DEF IInv, TypeOK
  <2>2. [sent EXCEPT ![c] = @ + 1] \in [Conn -> Nat]
    BY <2>1
  <2>3. [taken EXCEPT ![c] = @ + 1] \in [Conn -> Nat]
    BY <2>1
  <2>4. QED
    BY <1>0, <1>b, <2>1, <2>2, <2>3
<1>f. room' \in [Conn -> Nat]
  <2>1. room \in [Conn -> Nat]
    BY DEF IInv, TypeOK
  <2>2. [room EXCEPT ![c] = IF left[c] = 1 THEN CheapPrepend ELSE @] \in [Conn -> Nat]
    BY <2>1 DEF CheapPrepend
  <2>3. QED
    BY <1>b, <2>1, <2>2
<1>1. TypeOK'
  BY <1>0, <1>b, <1>d, <1>e, <1>f, SMTT(30) DEF IInv, TypeOK, Places, locks
<1>2. IdPool'
  BY <1>0 DEF IInv, IdPool, Registered, locks
<1>3. RegistryMatchesContext'
  BY <1>0, SMTT(30) DEF IInv, TypeOK, RegistryMatchesContext, locks
<1>4. BaseInv'
  BY <1>0 DEF IInv, TypeOK, BaseInv, Tag, locks
<1>5. CallbackInv'
  <2>1. ASSUME NEW d \in Conn
        PROVE  CallbackOf(d)'
    <3>1. CASE d = c
      <4>1. conn[c] \in {"connected", "disconnecting"}
        BY <1>0 DEF IInv, TypeOK, ConnStates, CallbackInv, CallbackOf
      <4>2. left[c] > 1 => left[c] - 1 > 0
        BY <1>0
      <4>3. QED
        BY <1>0, <3>1, <4>1, <4>2 DEF IInv, TypeOK, CallbackInv, CallbackOf,
                                      Readable, locks
    <3>2. CASE d # c
      BY <1>0, <3>2 DEF IInv, TypeOK, CallbackInv, CallbackOf, Readable, locks
    <3>3. QED
      BY <3>1, <3>2
  <2>2. QED
    BY <2>1 DEF CallbackInv
<1>6. StreamInv'
  BY SMTT(20), <1>0, <1>b DEF IInv, TypeOK, StreamInv
<1>7. RoomInv'
  <2>1. ASSUME NEW d \in Conn
        PROVE  /\ sent'[d] <= taken'[d]
               /\ room'[d] >= CheapPrepend - HEADER_LEN * Headers(d)'
    <3>1. /\ sent[d] \in Nat /\ taken[d] \in Nat /\ room[d] \in Nat /\ sent[d] <= taken[d]
          /\ room[d] >= CheapPrepend - HEADER_LEN * Headers(d)
      BY DEF IInv, TypeOK, RoomInv
    <3>2. CASE d = c
      <4>1. /\ taken'[d] = taken[d] + 1 /\ (sent'[d] = sent[d] + 1 \/ sent'[d] = sent[d])
            /\ at'[d] # "send"
        BY <1>0, <1>b, <3>2 DEF IInv, TypeOK
      <4>2. /\ Headers(d)' = taken'[d] - sent'[d]
            /\ Headers(d) = taken[d] - sent[d] + IF left[d] = 1 THEN 1 ELSE 0
        BY <1>0, <3>1, <3>2, <4>1 DEF Headers
      <4>3. \/ room'[d] = room[d] /\ (left[d] # 1 \/ sent'[d] = sent[d])
            \/ room'[d] = CheapPrepend
        BY <1>b, <3>2 DEF IInv, TypeOK
      <4>4. QED
        BY <3>1, <4>1, <4>2, <4>3 DEF CheapPrepend, HEADER_LEN
    <3>3. CASE d # c
      <4>1. /\ taken'[d] = taken[d] /\ sent'[d] = sent[d] /\ room'[d] = room[d]
            /\ Headers(d)' = Headers(d)
        BY <1>0, <1>b, <3>3 DEF IInv, TypeOK, Headers
      <4>2. QED
        BY <3>1, <4>1
    <3>4. QED
      BY <3>2, <3>3
  <2>2. QED
    BY <2>1 DEF RoomInv
<1>8. NoClientOutlivesBackend'
  BY <1>0 DEF IInv, TypeOK, NoClientOutlivesBackend, locks
<1>9. AssertsHoldUntilLoss'
  BY <1>0 DEF AssertsHoldUntilLoss, SendBackendPacket, InCallback
<1>10. QED
  BY <1>1, <1>2, <1>3, <1>4, <1>5, <1>6, <1>7, <1>8, <1>9 DEF IInv

-----------------------------------------------------------------------------
\* The state in which the server starts.
LEMMA InitEstablishes == Init => IInv
<1> SUFFICES ASSUME Init PROVE IInv
  OBVIOUS
<1>0. Registered = {}
  BY DEF Init, Registered, Range
<1>1. TypeOK
  <2>1. base \in BaseWork
    BY DEF Init, IdleBase, BaseWork
  <2>2. /\ 0 \in 0..MaxBurst
        /\ <<>> \in Seq(Ids) /\ <<>> \in Seq(Packet)
    OBVIOUS
  <2>3. QED
    BY <2>1, <2>2 DEF Init, TypeOK, ConnStates, Places, CheapPrepend
<1>2. IdPool
  BY <1>0 DEF Init, IdPool
<1>3. RegistryMatchesContext
  BY DEF Init, RegistryMatchesContext
<1>4. BaseInv
  BY DEF Init, BaseInv, IdleBase
<1>5. CallbackInv
  BY DEF Init, CallbackInv, CallbackOf
<1>6. StreamInv
  BY DEF Init, StreamInv
<1>7. RoomInv
  BY DEF Init, RoomInv, Headers, CheapPrepend, HEADER_LEN
<1>8. NoClientOutlivesBackend
  BY DEF Init, NoClientOutlivesBackend
<1>9. AssertsHoldUntilLoss
  BY DEF Init, AssertsHoldUntilLoss
<1>10. QED
  BY <1>1, <1>2, <1>3, <1>4, <1>5, <1>6, <1>7, <1>8, <1>9 DEF IInv

\* A step that changes nothing.
LEMMA StutterKeeps ==
  ASSUME IInv, UNCHANGED vars
  PROVE  IInv'
<1> USE DEF vars, locks, callbacks, ghosts
<1>1. TypeOK'
  BY DEF IInv, TypeOK
<1>2. IdPool'
  BY DEF IInv, IdPool, Registered
<1>3. RegistryMatchesContext'
  BY DEF IInv, RegistryMatchesContext
<1>4. BaseInv'
  BY DEF IInv, BaseInv, Tag
<1>5. CallbackInv'
  BY DEF IInv, CallbackInv, CallbackOf
<1>6. StreamInv'
  BY DEF IInv, StreamInv
<1>7. RoomInv'
  BY DEF IInv, RoomInv, Headers
<1>8. NoClientOutlivesBackend'
  BY DEF IInv, NoClientOutlivesBackend
<1>9. AssertsHoldUntilLoss'
  BY DEF IInv, AssertsHoldUntilLoss
<1>10. QED
  BY <1>1, <1>2, <1>3, <1>4, <1>5, <1>6, <1>7, <1>8, <1>9 DEF IInv

\* IInv is inductive.
LEMMA StepKeeps ==
  ASSUME IInv, [Next]_vars
  PROVE  IInv'
<1>1. CASE BaseLoop
  <2>1. ASSUME NEW id \in Ids, NEW work \in {"deliver", "disconnect"},
               OnBackendMessage(id, work)
        PROVE  IInv'
    BY <2>1, OnBackendMessageKeeps
  <2>2. ASSUME NEW c \in Conn, Accept(c)
        PROVE  IInv'
    BY <2>2, AcceptKeeps
  <2>3. QED
    BY <1>1, <2>1, <2>2, OnBackendUpKeeps, OnBackendCloseKeeps,
       OnBackendDownKeeps, SendToClientKeeps, DisconnectClientKeeps DEF BaseLoop
<1>2. ASSUME NEW c \in Conn, IoLoop(c)
      PROVE  IInv'
  <2>1. ASSUME NEW k \in 1..MaxBurst, OnClientMessage(c, k)
        PROVE  IInv'
    BY <2>1, OnClientMessageKeeps
  <2>2. QED
    BY <1>2, <2>1, OnClientUpKeeps, FinishUpKeeps, OnClientCloseKeeps,
       ReleaseIdKeeps, CopyBackendConnKeeps, SendBackendPacketKeeps DEF IoLoop
<1>3. QED
  BY <1>1, <1>2, StutterKeeps DEF Next

\* The core of the multi-threaded multiplexer is correct in every reachable
\* state, for any number of clients, IO threads and ids.
THEOREM Invariance == Spec => []IInv
<1>1. QED
  BY InitEstablishes, StepKeeps, PTL DEF Spec

\* The variables keep their types.
THEOREM TypeCorrect == Spec => []TypeOK
<1>1. IInv => TypeOK
  BY DEF IInv
<1>2. QED
  BY <1>1, Invariance, PTL

\* availIds_ and clientConns_ partition the ids while the backend connection
\* is registered: no id leaks, none is handed out twice.
THEOREM PoolPartition == Spec => []IdPool
<1>1. IInv => IdPool
  BY DEF IInv
<1>2. QED
  BY <1>1, Invariance, PTL

\* After onBackendConnection for the loss of the backend the only connected
\* client is one that found no id and is about to be shut down.
THEOREM BackendLossComplete == Spec => []NoClientOutlivesBackend
<1>1. IInv => NoClientOutlivesBackend
  BY DEF IInv
<1>2. QED
  BY <1>1, Invariance, PTL

\* The asserts of onBackendConnection and onClientConnection never fail.  That of
\* Buffer::prepend in sendBackendPacket fails only after the loss of the backend,
\* on behalf of a client two of whose packets were lost.
THEOREM AssertsFailOnlyAfterLoss == Spec => []AssertsHoldUntilLoss
<1>1. IInv => AssertsHoldUntilLoss
  BY DEF IInv
<1>2. QED
  BY <1>1, Invariance, PTL

-----------------------------------------------------------------------------
(* MultiplexerMulti implements MuxLease and inherits what MuxBackendProofs    *)
(* proves of it.  Each action is a step of MuxLease or changes nothing that   *)
(* MuxLease talks about.                                                      *)

\* What MuxLease sees of the server.
tag == [c \in Conn |-> Tag(c)]
leaseVars == <<backendConn, tag, Registered, sent, wire, got>>

\* The leases that run are those of the registered connections.
LEMMA RegisteredAre ==
  ASSUME TypeOK
  PROVE  \A c \in Conn : c \in Registered <=> \E id \in Ids : clientConns[id] = c
BY DEF TypeOK, Registered, Range

LEMMA RegisteredAreConns == ASSUME TypeOK PROVE Registered \in SUBSET Conn
BY DEF TypeOK, Registered, Range

\* A connection that was given an id and has not gone down is registered
\* under it while the backend connection is.
LEMMA TaggedIsRegistered ==
  ASSUME IInv, backendConn, NEW c \in Conn, Tag(c) # NoId,
         conn[c] # "disconnected" \/ at[c] = "release"
  PROVE  Tag(c) \in Ids /\ clientConns[Tag(c)] = c /\ c \in Registered
<1>1. Tag(c) \in Ids
  BY DEF IInv, TypeOK, Tag
<1>2. clientConns[Tag(c)] = c
  BY DEF IInv, RegistryMatchesContext, CallbackInv, CallbackOf, Tag
<1>3. QED
  BY <1>1, <1>2, RegisteredAre DEF IInv

\* No two registered connections have the same id.
LEMMA RegisteredTags ==
  ASSUME IInv, NEW id \in Ids, clientConns[id] = NoConn
  PROVE  \A c \in Registered : Tag(c) # id
<1>1. ASSUME NEW c \in Registered PROVE Tag(c) # id
  <2>1. PICK i \in Ids : clientConns[i] = c /\ c \in Conn
    BY RegisteredAre, RegisteredAreConns DEF IInv
  <2>2. Tag(c) = i
    BY <2>1 DEF IInv, RegistryMatchesContext, Tag
  <2>3. QED
    BY <2>1, <2>2
<1>2. QED
  BY <1>1

-----------------------------------------------------------------------------
\* The backend comes up: Open.
LEMMA OnBackendUpOpens ==
  ASSUME IInv, OnBackendUp
  PROVE  Lease!Open
<1>1. /\ backendConn = FALSE /\ backendConn' = TRUE
      /\ UNCHANGED <<clientConns, conn, context, callbacks, ghosts>>
  BY DEF IInv, TypeOK, BaseInv, IdPool, OnBackendUp, BaseIdle
<1>2. tag' = tag /\ Registered' = Registered
  BY <1>1 DEF tag, Tag, Registered, callbacks
<1>3. QED
  BY <1>1, <1>2 DEF Lease!Open, tag, ghosts

\* The locked section for the loss of the backend: Close.
LEMMA OnBackendDownCloses ==
  ASSUME IInv, OnBackendDown
  PROVE  Lease!Close
<1>1. /\ backendConn = TRUE /\ backendConn' = FALSE
      /\ clientConns' = [id \in Ids |-> NoConn]
      /\ UNCHANGED <<context, callbacks, ghosts>>
  BY DEF IInv, TypeOK, BaseInv, OnBackendDown, Cleared
<1>2. tag' = tag
  BY <1>1 DEF tag, Tag, callbacks
<1>3. Registered' = {}
  BY <1>1 DEF Registered, Range
<1>4. QED
  BY <1>1, <1>2, <1>3 DEF Lease!Close, tag, ghosts

\* A packet handed to a client that can still be sent to: Deliver.
LEMMA SendToClientDelivers ==
  ASSUME IInv, SendToClient
  PROVE  Lease!Deliver(base.conn) \/ UNCHANGED leaseVars
<1>1. /\ base.conn \in Conn /\ base.id \in Ids /\ base.id = Tag(base.conn)
      /\ backendConn
  BY DEF IInv, BaseInv, SendToClient
<1>2. /\ UNCHANGED <<backendConn, clientConns, context, callbacks, sent, wire>>
      /\ tag' = tag /\ Registered' = Registered
  BY DEF SendToClient, tag, Tag, Registered, locks, callbacks
<1>3. CASE Sendable(conn[base.conn])
  <2>1. base.conn \in Registered
    BY <1>1, <1>3, TaggedIsRegistered DEF Sendable, Ids, NoId
  <2>2. got' = [got EXCEPT ![base.conn] = Append(@, tag[base.conn])]
    BY <1>1, <1>3 DEF SendToClient, tag
  <2>3. QED
    BY <1>1, <1>2, <2>1, <2>2 DEF Lease!Deliver, tag
<1>4. CASE ~Sendable(conn[base.conn])
  BY <1>2, <1>4 DEF SendToClient, leaseVars
<1>5. QED
  BY <1>3, <1>4

\* The locked section that takes an id: Acquire.
LEMMA OnClientUpAcquires ==
  ASSUME IInv, NEW c \in Conn, OnClientUp(c)
  PROVE  (\E id \in Ids : Lease!Acquire(c, id)) \/ UNCHANGED leaseVars
<1>1. /\ at[c] = "idle" /\ context[c] = NoId /\ local[c] = NoId
      /\ at' = [at EXCEPT ![c] = "assign"]
      /\ UNCHANGED <<backendConn, context, ghosts>>
  BY DEF IInv, CallbackInv, CallbackOf, OnClientUp
<1>2. CASE availIds = <<>>
  <2>1. UNCHANGED <<local, clientConns>>
    BY <1>2 DEF OnClientUp
  <2>2. tag' = tag
    BY <1>1, <2>1 DEF IInv, TypeOK, tag, Tag
  <2>3. QED
    BY <1>1, <2>1, <2>2 DEF leaseVars, Registered, ghosts
<1>3. CASE availIds # <<>>
  <2> DEFINE id == Head(availIds)
  <2>1. /\ local' = [local EXCEPT ![c] = id]
        /\ clientConns' = [clientConns EXCEPT ![id] = c]
    BY <1>3 DEF OnClientUp
  <2>2. backendConn /\ id \in Ids /\ clientConns[id] = NoConn
    BY <1>3, PopKeepsIds DEF IInv, TypeOK, IdPool
  <2> HIDE DEF id
  <2>3. tag' = [tag EXCEPT ![c] = id] /\ tag[c] = NoId
    BY <1>1, <2>1 DEF IInv, TypeOK, tag, Tag
  <2>4. Registered' = Registered \cup {c}
    <3>1. clientConns \in [Ids -> Conn \cup {NoConn}]
      BY DEF IInv, TypeOK
    <3>2. Range(clientConns') = (Range(clientConns) \ {NoConn}) \cup {c}
                                 \cup (Range(clientConns') \cap {NoConn})
      BY <2>1, <2>2, <3>1 DEF Range
    <3>3. QED
      BY <3>2 DEF Registered
  <2>5. ~Lease!Leased(id)
    BY <2>2, RegisteredTags, RegisteredAreConns DEF IInv, Lease!Leased
  <2>6. Lease!Acquire(c, id)
    BY <1>1, <2>2, <2>3, <2>4, <2>5 DEF Lease!Acquire, tag, ghosts
  <2>7. QED
    BY <2>2, <2>6
<1>4. QED
  BY <1>2, <1>3

\* The locked section that gives an id back: Release.
LEMMA ReleaseIdReleases ==
  ASSUME IInv, NEW c \in Conn, ReleaseId(c)
  PROVE  Lease!Release(c) \/ UNCHANGED leaseVars
<1>1. /\ at[c] = "release" /\ context[c] # NoId /\ local[c] = NoId
      /\ at' = [at EXCEPT ![c] = "idle"]
      /\ UNCHANGED <<backendConn, context, local, ghosts>>
  BY DEF IInv, IdPool, CallbackInv, CallbackOf, ReleaseId, InCallback
<1>2. tag' = tag /\ Tag(c) = context[c]
  BY <1>1 DEF IInv, TypeOK, tag, Tag
<1>3. CASE backendConn
  <2>1. /\ clientConns' = [clientConns EXCEPT ![context[c]] = NoConn]
        /\ context[c] \in Ids /\ clientConns[context[c]] = c /\ c \in Registered
    BY <1>1, <1>2, <1>3, TaggedIsRegistered DEF ReleaseId, Erased
  <2>2. \A i \in Ids : clientConns[i] = c => i = context[c]
    BY <1>3, <2>1 DEF IInv, IdPool
  <2>3. Registered' = Registered \ {c}
    BY <2>1, <2>2, SMTT(30) DEF IInv, TypeOK, Registered, Range
  <2>4. QED
    BY <1>1, <1>2, <2>1, <2>3 DEF Lease!Release, tag, ghosts
<1>4. CASE ~backendConn
  <2>1. UNCHANGED clientConns
    BY <1>4 DEF ReleaseId
  <2>2. QED
    BY <1>1, <1>2, <2>1 DEF leaseVars, Registered, ghosts
<1>5. QED
  BY <1>3, <1>4

\* A packet the backend connection takes: Transmit of one packet.
LEMMA SendBackendPacketTransmits ==
  ASSUME IInv, NEW c \in Conn, SendBackendPacket(c)
  PROVE  \/ Lease!Transmit(c, 1) /\ wire' = Append(wire, NextPacket(c))
         \/ UNCHANGED leaseVars
<1>1. /\ at[c] = "send" /\ context[c] # NoId /\ local[c] = NoId
      /\ conn[c] # "disconnected"
      /\ UNCHANGED <<backendConn, clientConns, context, local, got>>
  BY DEF IInv, CallbackInv, CallbackOf, SendBackendPacket, InCallback, locks
<1>2. at' = [at EXCEPT ![c] = IF left[c] > 1 THEN "frame" ELSE "idle"]
  BY DEF SendBackendPacket
<1>3. tag' = tag /\ Registered' = Registered /\ Tag(c) = context[c]
  BY <1>1, <1>2 DEF IInv, TypeOK, tag, Tag, Registered
<1>4. CASE link[c] /\ backend = "up"
  <2>1. backendConn /\ c \in Registered
    BY <1>1, <1>3, <1>4, TaggedIsRegistered DEF IInv, BaseInv
  <2>2. taken[c] = sent[c] /\ sent[c] \in Nat
    BY <1>4 DEF IInv, TypeOK, StreamInv
  <2>3. /\ sent' = [sent EXCEPT ![c] = @ + 1]
        /\ wire' = Append(wire, NextPacket(c))
    BY <1>4 DEF SendBackendPacket
  <2>4. Lease!Burst(c, 1) = <<NextPacket(c)>>
    <3>1. NextPacket(c) = [from |-> c, id |-> tag[c], n |-> sent[c] + 1]
      BY <1>3, <2>2 DEF NextPacket, tag
    <3>2. Lease!Burst(c, 1) = [i \in 1..1 |-> NextPacket(c)]
      BY <3>1 DEF Lease!Burst, tag
    <3>3. QED
      BY <3>2
  <2>5. wire' = wire \o <<NextPacket(c)>>
    <3>1. wire \in Seq(Packet)
      BY DEF IInv, TypeOK
    <3>2. QED
      BY <2>3, <3>1
  <2>6. QED
    BY <1>1, <1>3, <2>1, <2>3, <2>4, <2>5 DEF Lease!Transmit, tag
<1>5. CASE ~(link[c] /\ backend = "up")
  BY <1>1, <1>3, <1>5 DEF SendBackendPacket, leaseVars
<1>6. QED
  BY <1>4, <1>5

\* The other actions change nothing MuxLease talks about.
LEMMA BaseStutters ==
  ASSUME IInv,
         \/ OnBackendClose
         \/ \E id \in Ids, work \in {"deliver", "disconnect"} :
              OnBackendMessage(id, work)
         \/ DisconnectClient
         \/ \E c \in Conn : Accept(c)
  PROVE  UNCHANGED leaseVars
<1>1. UNCHANGED <<locks, context, callbacks, ghosts>>
  BY DEF OnBackendClose, OnBackendMessage, DisconnectClient, Accept
<1>2. QED
  BY <1>1 DEF leaseVars, tag, Tag, Registered, locks, callbacks, ghosts

LEMMA IoStutters ==
  ASSUME IInv, NEW c \in Conn,
         \/ FinishUp(c)
         \/ OnClientClose(c)
         \/ \E k \in 1..MaxBurst : OnClientMessage(c, k)
         \/ CopyBackendConn(c)
  PROVE  UNCHANGED leaseVars
<1>1. UNCHANGED <<backendConn, clientConns, ghosts>>
  BY DEF FinishUp, OnClientClose, OnClientMessage, CopyBackendConn, Crash, locks
<1>2. CASE FinishUp(c)
  <2>1. /\ at[c] = "assign" /\ context[c] = NoId
        /\ at' = [at EXCEPT ![c] = "idle"]
        /\ \/ context' = [context EXCEPT ![c] = local[c]]
           \/ context' = context /\ local[c] = NoId
    BY <1>2 DEF IInv, TypeOK, CallbackInv, CallbackOf, FinishUp, InCallback, IdTaken, Ids, NoId
  <2>2. local' = [local EXCEPT ![c] = NoId]
    BY <1>2 DEF FinishUp
  <2>3. tag' = tag
    BY <2>1, <2>2 DEF IInv, TypeOK, tag, Tag
  <2>4. QED
    BY <1>1, <2>3 DEF leaseVars, Registered, ghosts
<1>3. CASE ~FinishUp(c)
  <2>1. /\ UNCHANGED <<context, local>>
        /\ \A d \in Conn : at[d] = "assign" <=> at'[d] = "assign"
    BY <1>3 DEF IInv, TypeOK, OnClientClose, OnClientMessage, CopyBackendConn,
                LoopIdle, InCallback, Crash, callbacks
  <2>2. tag' = tag
    BY <2>1 DEF tag, Tag
  <2>3. QED
    BY <1>1, <2>2 DEF leaseVars, Registered, ghosts
<1>4. QED
  BY <1>2, <1>3

-----------------------------------------------------------------------------
\* Every step of the server is a step of MuxLease or one it does not see.
LEMMA StepRefines ==
  ASSUME IInv, [Next]_vars
  PROVE  [Lease!Next]_leaseVars
<1>1. CASE BaseLoop
  <2>1. CASE SendToClient
    BY <2>1, SendToClientDelivers DEF IInv, BaseInv, SendToClient, Lease!Next
  <2>2. CASE ~SendToClient
    BY <1>1, <2>2, OnBackendUpOpens, OnBackendDownCloses, BaseStutters
       DEF BaseLoop, Lease!Next
  <2>3. QED
    BY <2>1, <2>2
<1>2. ASSUME NEW c \in Conn, IoLoop(c)
      PROVE  [Lease!Next]_leaseVars
  <2>1. CASE OnClientUp(c)
    BY <2>1, OnClientUpAcquires DEF Lease!Next
  <2>2. CASE ReleaseId(c)
    BY <2>2, ReleaseIdReleases DEF Lease!Next
  <2>3. CASE SendBackendPacket(c)
    BY <2>3, SendBackendPacketTransmits DEF Lease!Next
  <2>4. CASE \/ FinishUp(c)
             \/ OnClientClose(c)
             \/ \E k \in 1..MaxBurst : OnClientMessage(c, k)
             \/ CopyBackendConn(c)
    BY <2>4, IoStutters
  <2>5. QED
    BY <1>2, <2>1, <2>2, <2>3, <2>4 DEF IoLoop
<1>3. CASE UNCHANGED vars
  BY <1>3 DEF vars, locks, callbacks, ghosts, leaseVars, tag, Tag, Registered
<1>4. QED
  BY <1>1, <1>2, <1>3 DEF Next

LEMMA InitRefines == Init => Lease!Init
<1>1. SUFFICES ASSUME Init PROVE Lease!Init
  OBVIOUS
<1>2. Registered = {}
  BY <1>1 DEF Init, Registered, Range
<1>3. \A c \in Conn : Tag(c) = NoId
  BY <1>1 DEF Init, Tag
<1>4. QED
  BY <1>1, <1>2, <1>3 DEF Init, Lease!Init

\* The multi-threaded multiplexer keeps the promise of MuxLease, with leases
\* that begin and end in the locked sections of onClientConnection and
\* onBackendConnection.
THEOREM Refinement == Spec => ImplementsLease
<1>1. IInv /\ [Next]_vars => [Lease!Next]_Lease!vars
  BY StepRefines DEF Lease!vars, leaseVars, tag
<1>2. QED
  BY InitRefines, Invariance, <1>1, PTL DEF Spec, ImplementsLease, Lease!Spec

\* What MuxBackendProofs shows of the promise alone holds of the server, whatever
\* the backend does, and the rest of it of the server with the backend.
Inherited == INSTANCE MuxBackendProofs
               WITH open <- backendConn, tag <- [c \in Conn |-> Tag(c)],
                    holders <- Registered, MaxBurst <- 1,
                    opened <- backend # "connecting"

LEMMA NoIdIsNone == NoId \notin Ids
BY DEF Ids, NoId

\* On one id the backend sees one client session after the other; it sees each
\* client's packets in order, none left out; and a client is handed only what
\* was addressed to its id.
THEOREM SessionSafety ==
  Spec => [](ExclusiveIds /\ SessionsDisjoint /\ StreamInOrder /\ OnlyOwnId)
<1>1. Inherited!Spec => [](Inherited!Exclusive /\ Inherited!SessionsDisjoint
                           /\ Inherited!StreamInOrder /\ Inherited!OnlyOwnId)
  BY NoIdIsNone, Inherited!LeaseSafety
<1>2. Lease!Init => Inherited!Init
  BY DEF Lease!Init, Inherited!Init
<1>3. [Lease!Next]_Lease!vars => [Inherited!Next]_Inherited!vars
  BY DEF Lease!Next, Inherited!Next, Lease!vars, Inherited!vars,
         Lease!Open, Inherited!Open, Lease!Close, Inherited!Close,
         Lease!Acquire, Inherited!Acquire, Lease!Leased, Inherited!Leased,
         Lease!Release, Inherited!Release, Lease!Transmit, Inherited!Transmit,
         Lease!Burst, Inherited!Burst, Lease!Deliver, Inherited!Deliver
<1>4. Inherited!Exclusive /\ Inherited!SessionsDisjoint /\ Inherited!StreamInOrder
        /\ Inherited!OnlyOwnId
      => ExclusiveIds /\ SessionsDisjoint /\ StreamInOrder /\ OnlyOwnId
  BY DEF ExclusiveIds, SessionsDisjoint, StreamInOrder, OnlyOwnId,
         Lease!Exclusive, Inherited!Exclusive,
         Lease!SessionsDisjoint, Inherited!SessionsDisjoint,
         Lease!StreamInOrder, Inherited!StreamInOrder,
         Lease!OnlyOwnId, Inherited!OnlyOwnId
<1>5. QED
  BY <1>1, <1>2, <1>3, <1>4, Refinement, PTL
     DEF ImplementsLease, Lease!Spec, Inherited!Spec

\* A client is handed only what the backend addressed to the client's id, also
\* when the id changes hands while the packet is on its way to it.
THEOREM RepliesToHoldersOnly == Spec => []OnlyOwnId
BY SessionSafety, PTL

-----------------------------------------------------------------------------
(* The multiplexer with the backend server: MultiplexerMultiSystem.           *)

\* To the multiplexer, a step of the two is one of its own or none.
LEMMA SystemStepIsOwn ==
  SystemNext \/ UNCHANGED systemVars => [Next]_vars
<1>1. ASSUME MultiplexerStep PROVE Next
  BY <1>1 DEF MultiplexerStep, Next, BaseLoop
<1>2. ASSUME ReadFrame PROVE [Next]_vars
  BY <1>2 DEF ReadFrame, Next, BaseLoop
<1>3. ASSUME FinishFrame PROVE Next
  BY <1>3 DEF FinishFrame, Next, BaseLoop
<1>4. QED
  BY <1>1, <1>2, <1>3 DEF SystemNext, ServerStep, systemVars

\* Frames sent later come after the one that is being served.
LEMMA FirstStaysFirst ==
  ASSUME NEW S, NEW s \in Seq(S), NEW t \in Seq(S)
  PROVE  /\ s \o t \in Seq(S)
         /\ s # <<>> => s \o t # <<>> /\ Head(s \o t) = Head(s)
<1>1. /\ s \o t \in Seq(S) /\ Len(s) \in Nat /\ Len(t) \in Nat
      /\ Len(s \o t) = Len(s) + Len(t)
      /\ \A i \in 1..Len(s) : (s \o t)[i] = s[i]
  BY ConcatProperties, LenProperties
<1>2. s # <<>> => Len(s) >= 1
  BY <1>1, EmptySeq
<1>3. QED
  BY <1>1, <1>2

\* What the backend sends is a frame: each part of a header is a byte.
LEMMA FramesAreSent ==
  ASSUME IInv, answered \in Nat
  PROVE  /\ <<Server!Command>> \in Seq(Server!Frame)
         /\ \A k \in 0..Len(wire) :
              answered <= k => Server!Answers(k) \in Seq(Server!Frame)
<1>1. \A id \in Nat : Server!Header(id) \in Server!Byte \X Server!Byte
  BY MultiSystemAssumption DEF Server!Header, Server!Byte
<1>2. \A id \in Nat : Server!BackendId(Server!Header(id)) \in Nat
  <2>1. SUFFICES ASSUME NEW id \in Nat
                 PROVE  Server!BackendId(Server!Header(id)) \in Nat
    OBVIOUS
  <2>2. \A x \in Nat : (x * ByteValues) % ByteValues \in Nat
    BY MultiSystemAssumption
  <2>3. Server!Header(id)[1] \in Nat /\ Server!Header(id)[2] \in Nat
    BY <1>1, MultiSystemAssumption DEF Server!Byte, Server!Header
  <2>4. QED
    BY <2>2, <2>3 DEF Server!BackendId
<1>3. Server!Command \in Server!Frame
  BY <1>1 DEF Server!Command, Server!Frame
<1>4. ASSUME NEW i \in 1..Len(wire) PROVE Server!Answer(i) \in Server!Frame
  <2>1. wire \in Seq(Packet)
    BY DEF IInv, TypeOK
  <2>2. wire[i] \in Packet
    BY <1>4, <2>1, ElementOfSeq
  <2>3. wire[i].id \in Nat /\ i \in Nat
    BY <1>4, <2>1, <2>2, LenProperties DEF Packet, Ids
  <2> DEFINE h == Server!Header(Server!BackendId(Server!Header(wire[i].id)))
  <2>4. h \in Server!Byte \X Server!Byte
    BY <1>1, <1>2, <2>3
  <2>5. Server!Answer(i) = [header |-> h, of |-> i]
    BY DEF Server!Answer
  <2> HIDE DEF h
  <2>6. QED
    BY <2>3, <2>4, <2>5 DEF Server!Frame
<1>5. ASSUME NEW k \in 0..Len(wire), answered <= k
      PROVE  Server!Answers(k) \in Seq(Server!Frame)
  <2>1. k - answered \in Nat /\ \A i \in 1..k - answered : answered + i \in 1..Len(wire)
    BY <1>5
  <2>2. QED
    BY <1>4, <2>1 DEF Server!Answers
<1>6. QED
  BY <1>3, <1>5

\* A step of the backend server is one of MuxBackend; it adds frames behind the
\* one that is being served.
LEMMA ServerStepFits ==
  ASSUME SystemInv, ServerStep
  PROVE  FrameInv' /\ Server!BackendNext
<1>1. Server!BackendNext
  BY DEF ServerStep, Server!BackendNext
<1>2. UNCHANGED base /\ answered \in Nat /\ back \in Seq(Server!Frame)
  BY DEF SystemInv, FrameInv, ServerStep, vars
<1>3. \/ UNCHANGED <<answered, back>>
      \/ \E k \in 0..Len(wire) : /\ answered <= k /\ answered' = k
                                  /\ back' = back \o Server!Answers(k)
      \/ answered' = answered /\ back' = Append(back, Server!Command)
  <2>1. ASSUME Server!OnConnectionUp \/ Server!OnConnectionDown \/ Server!AddCommand
        PROVE  UNCHANGED <<answered, back>>
    BY <2>1 DEF Server!OnConnectionUp, Server!OnConnectionDown, Server!AddCommand
  <2>2. ASSUME NEW k \in 0..Len(wire), Server!OnMessage(k) \/ Server!OnCutMessage(k)
        PROVE  /\ answered <= k /\ answered' = k
               /\ back' = back \o Server!Answers(k)
    <3>1. CASE Server!OnMessage(k)
      <4>1. answered < k /\ answered' = k /\ back' = back \o Server!Answers(k)
        BY <3>1 DEF Server!OnMessage
      <4>2. k \in Int
        OBVIOUS
      <4>3. QED
        BY <1>2, <4>1, <4>2
    <3>2. CASE Server!OnCutMessage(k)
      BY <3>2 DEF Server!OnCutMessage
    <3>3. QED
      BY <2>2, <3>1, <3>2
  <2>3. ASSUME Server!RunCommand
        PROVE  /\ answered' = answered
               /\ back' = Append(back, Server!Command) \/ back' = back
    BY <2>3 DEF Server!RunCommand
  <2>4. QED
    BY <2>1, <2>2, <2>3 DEF ServerStep
<1>4. CASE UNCHANGED <<answered, back>>
  BY <1>1, <1>2, <1>4 DEF SystemInv, FrameInv, FirstId, Server!MuxId
<1>5. ASSUME NEW t \in Seq(Server!Frame), answered' \in Nat, back' = back \o t
      PROVE  FrameInv'
  <2>1. /\ back' \in Seq(Server!Frame)
        /\ back # <<>> => back' # <<>> /\ Head(back') = Head(back)
    BY <1>2, <1>5, FirstStaysFirst
  <2>2. QED
    BY <1>2, <1>5, <2>1 DEF SystemInv, FrameInv, FirstId, Server!MuxId
<1>6. ASSUME NEW k \in 0..Len(wire), answered <= k, answered' = k,
             back' = back \o Server!Answers(k)
      PROVE  FrameInv'
  <2>1. Server!Answers(k) \in Seq(Server!Frame) /\ k \in Nat
    BY <1>2, <1>6, FramesAreSent DEF SystemInv
  <2>2. QED
    BY <1>5, <1>6, <2>1
<1>7. CASE answered' = answered /\ back' = Append(back, Server!Command)
  <2>1. <<Server!Command>> \in Seq(Server!Frame)
    BY <1>2, FramesAreSent DEF SystemInv
  <2>2. back' = back \o <<Server!Command>>
    BY <1>2, <1>7, <2>1
  <2>3. QED
    BY <1>1, <1>2, <1>5, <1>7, <2>1, <2>2
<1>8. QED
  BY <1>1, <1>3, <1>4, <1>6, <1>7

\* A step that is none to MuxLease and leaves the frames alone.
LEMMA QuietStep ==
  ASSUME UNCHANGED leaseVars
  PROVE  UNCHANGED Server!vars
BY DEF leaseVars, tag, Server!vars

\* The backend connection is "connecting" only before it comes up.
LEMMA OpensOnce ==
  ASSUME IInv, OnBackendUp, UNCHANGED <<server, back, delivered>>
  PROVE  Server!OpenOnce
<1>1. Lease!Open
  BY OnBackendUpOpens
<1>2. backend = "connecting" /\ backend' = "up"
  BY DEF IInv, BaseInv, IdPool, OnBackendUp, BaseIdle
<1>3. Server!Open
  BY <1>1 DEF Lease!Open, Server!Open
<1>4. QED
  BY <1>2, <1>3 DEF Server!OpenOnce, Server!links, server

\* What the IO loops do is a step of a lease, or none to MuxLease.
LEMMA IoLoopFits ==
  ASSUME IInv, NEW c \in Conn, IoLoop(c), Len(wire') <= MaxWire,
         UNCHANGED <<server, back, delivered>>
  PROVE  Server!BackendNext \/ UNCHANGED <<Server!vars, Server!backendVars>>
<1>1. UNCHANGED Server!backendVars
  <2>1. UNCHANGED backend
    BY DEF IoLoop, OnClientUp, FinishUp, OnClientClose, ReleaseId,
           OnClientMessage, CopyBackendConn, SendBackendPacket, Crash
  <2>2. QED
    BY <2>1 DEF Server!backendVars, Server!links, server
<1>2. ASSUME OnClientUp(c) PROVE Server!LeaseStep \/ UNCHANGED Server!vars
  <2>1. CASE UNCHANGED leaseVars
    BY <2>1, QuietStep
  <2>2. ASSUME NEW id \in Ids, Lease!Acquire(c, id) PROVE Server!LeaseStep
    <3>1. Server!Acquire(c, id)
      BY <2>2 DEF Lease!Acquire, Lease!Leased, Server!Acquire, Server!Leased
    <3>2. QED
      BY <1>1, <3>1 DEF Server!LeaseStep
  <2>3. QED
    BY <1>2, <2>1, <2>2, OnClientUpAcquires
<1>3. ASSUME ReleaseId(c) PROVE Server!LeaseStep \/ UNCHANGED Server!vars
  <2>1. CASE UNCHANGED leaseVars
    BY <2>1, QuietStep
  <2>2. ASSUME Lease!Release(c) PROVE Server!LeaseStep
    BY <1>1, <2>2 DEF Lease!Release, Server!Release, Server!LeaseStep
  <2>3. QED
    BY <1>3, <2>1, <2>2, ReleaseIdReleases
<1>4. ASSUME SendBackendPacket(c) PROVE Server!LeaseStep \/ UNCHANGED Server!vars
  <2>1. CASE UNCHANGED leaseVars
    BY <2>1, QuietStep
  <2>2. ASSUME Lease!Transmit(c, 1), wire' = Append(wire, NextPacket(c))
        PROVE  Server!LeaseStep
    <3>1. Server!Transmit(c, 1)
      BY <2>2 DEF Lease!Transmit, Lease!Burst, Server!Transmit, Server!Burst
    <3>2. Len(wire) + 1 <= MaxWire
      <4>1. wire \in Seq(Packet) /\ wire' \in Seq(Packet)
        BY StepKeeps DEF IInv, TypeOK, Next
      <4>2. Len(wire') = Len(wire) + 1
        BY <2>2, <4>1
      <4>3. QED
        BY <4>2
    <3>3. QED
      BY <1>1, <3>1, <3>2 DEF Server!LeaseStep
  <2>3. QED
    BY <1>4, <2>1, <2>2, SendBackendPacketTransmits
<1>5. CASE \/ FinishUp(c) \/ OnClientClose(c)
           \/ \E k \in 1..MaxBurst : OnClientMessage(c, k)
           \/ CopyBackendConn(c)
  BY <1>1, <1>5, IoStutters, QuietStep
<1>6. QED
  BY <1>1, <1>2, <1>3, <1>4, <1>5 DEF IoLoop, Server!BackendNext

\* So is what the base loop does besides reading from the backend.
LEMMA MultiplexerStepFits ==
  ASSUME IInv, MultiplexerStep
  PROVE  Server!BackendNext \/ UNCHANGED <<Server!vars, Server!backendVars>>
<1>1. UNCHANGED <<server, back, delivered>>
  BY DEF MultiplexerStep
<1>2. CASE OnBackendUp
  BY <1>1, <1>2, OpensOnce DEF Server!BackendNext
<1>3. CASE OnBackendDown
  <2>1. Server!Close
    BY <1>3, OnBackendDownCloses DEF Lease!Close, Server!Close
  <2>2. UNCHANGED Server!backendVars
    BY <1>1, <1>3 DEF OnBackendDown, Server!backendVars, Server!links, server
  <2>3. QED
    BY <2>1, <2>2 DEF Server!LeaseStep, Server!BackendNext
<1>4. CASE OnBackendClose \/ \E c \in Conn : Accept(c)
  <2>1. UNCHANGED Server!vars
    BY <1>4, BaseStutters, QuietStep
  <2>2. UNCHANGED (backend # "connecting")
    BY <1>4 DEF OnBackendClose, Accept
  <2>3. QED
    BY <1>1, <2>1, <2>2 DEF Server!backendVars, Server!links, server
<1>5. ASSUME NEW c \in Conn, IoLoop(c), Len(wire') <= MaxWire
      PROVE  Server!BackendNext \/ UNCHANGED <<Server!vars, Server!backendVars>>
  BY <1>1, <1>5, IoLoopFits
<1>6. QED
  BY <1>2, <1>3, <1>4, <1>5 DEF MultiplexerStep

\* A frame that is retrieved with nothing handed to a client: Consume.
LEMMA Consumes ==
  ASSUME IInv, backend = "up", backend' = "up", back # <<>>, back' = Tail(back),
         UNCHANGED <<leaseVars, server, delivered>>
  PROVE  Server!BackendNext
<1>1. UNCHANGED Server!vars
  BY QuietStep
<1>2. backendConn
  BY DEF IInv, BaseInv
<1>3. Server!Consume
  BY <1>1, <1>2 DEF Server!Consume, Server!links, server
<1>4. QED
  BY <1>3 DEF Server!BackendNext

\* A look at the registry: the frame is retrieved if it is for nobody, and what
\* the base loop holds on to otherwise is of this frame.
LEMMA ReadFrameFits ==
  ASSUME SystemInv, ReadFrame
  PROVE  /\ FrameInv'
         /\ Server!BackendNext \/ UNCHANGED <<Server!vars, Server!backendVars>>
<1>1. /\ back # <<>> /\ back \in Seq(Server!Frame) /\ answered \in Nat
      /\ UNCHANGED <<server, delivered>>
      /\ back' = IF base'.at = "idle" THEN Tail(back) ELSE back
  BY DEF SystemInv, FrameInv, ReadFrame
<1>2. UNCHANGED leaseVars
  <2>1. ASSUME NEW id \in Ids, NEW work \in {"deliver", "disconnect"},
               OnBackendMessage(id, work)
        PROVE  UNCHANGED leaseVars
    BY <2>1, BaseStutters DEF SystemInv
  <2>2. CASE UNCHANGED vars
    BY <2>2 DEF vars, locks, callbacks, ghosts, leaseVars, tag, Tag, Registered
  <2>3. QED
    BY <2>1, <2>2 DEF ReadFrame
<1>3. backend = "up" /\ UNCHANGED backend
  BY DEF ReadFrame, OnBackendMessage, vars
<1>4. \/ base'.at = "idle"
      \/ base'.at = "disconnect"
      \/ base'.at = "deliver" /\ base'.id = FirstId
  BY DEF ReadFrame, OnBackendMessage, IdleBase, BaseIdle, vars
<1>5. CASE base'.at = "idle"
  <2>1. back' = Tail(back) /\ back' \in Seq(Server!Frame)
    BY <1>1, <1>5
  <2>2. FrameInv'
    BY <1>1, <1>5, <2>1 DEF FrameInv, server
  <2>3. QED
    BY <1>1, <1>2, <1>3, <2>1, <2>2, Consumes DEF SystemInv
<1>6. CASE base'.at # "idle"
  <2>1. back' = back /\ UNCHANGED Server!vars
    BY <1>1, <1>2, <1>6, QuietStep
  <2>2. FrameInv'
    BY <1>1, <1>4, <1>6, <2>1 DEF FrameInv, server, FirstId, Server!MuxId
  <2>3. QED
    BY <1>1, <1>3, <2>1, <2>2 DEF Server!backendVars, Server!links, server
<1>7. QED
  BY <1>5, <1>6

\* The send outside the lock: the frame reaches the client whose id it carries,
\* or nobody.
LEMMA FinishFrameFits ==
  ASSUME SystemInv, FinishFrame
  PROVE  FrameInv' /\ Server!BackendNext
<1> DEFINE c == base.conn
<1>1. /\ base.at \in {"deliver", "disconnect"} /\ base'.at = "idle"
      /\ back' = Tail(back) /\ UNCHANGED <<server, backend>>
      /\ delivered' = IF got' = got THEN delivered
                      ELSE [delivered EXCEPT ![c] = Append(@, Head(back).of)]
  BY DEF FinishFrame, SendToClient, DisconnectClient, IdleBase
<1>2. back # <<>> /\ back \in Seq(Server!Frame) /\ answered \in Nat
  BY <1>1 DEF SystemInv, FrameInv
<1>3. /\ backend = "up" /\ backendConn /\ c \in Conn
      /\ base.id = Tag(c)
  BY <1>1 DEF SystemInv, IInv, BaseInv
<1>4. FrameInv'
  BY <1>1, <1>2 DEF FrameInv, server
<1>5. CASE UNCHANGED leaseVars
  <2>1. got' = got
    BY <1>5 DEF leaseVars
  <2>2. QED
    BY <1>1, <1>2, <1>3, <1>4, <1>5, <2>1, Consumes DEF SystemInv
<1>6. ASSUME SendToClient, Lease!Deliver(c)
      PROVE  Server!BackendNext
  <2>1. Server!Deliver(c)
    BY <1>6 DEF Lease!Deliver, Server!Deliver
  <2>2. got' # got
    <3>1. got \in [Conn -> Seq(Ids)] /\ Tag(c) \in Ids
      BY <1>3, <1>6 DEF SystemInv, IInv, TypeOK, BaseInv, SendToClient
    <3>2. got'[c] = Append(got[c], Tag(c))
      BY <1>3, <1>6, <3>1 DEF Lease!Deliver
    <3>3. got[c] \in Seq(Ids) /\ Len(got'[c]) = Len(got[c]) + 1
      BY <1>3, <3>1, <3>2
    <3>4. QED
      BY <3>3, LenProperties
  <2>3. Server!MuxId(Head(back).header) = Tag(c)
    BY <1>3, <1>6 DEF SystemInv, FrameInv, FirstId, SendToClient
  <2>4. Server!HandDown(c)
    BY <1>1, <1>2, <1>3, <2>1, <2>2, <2>3 DEF Server!HandDown, Server!links, server
  <2>5. QED
    BY <1>3, <2>4 DEF Server!BackendNext
<1>7. CASE SendToClient
  BY <1>4, <1>5, <1>6, <1>7, SendToClientDelivers DEF SystemInv
<1>8. CASE DisconnectClient
  BY <1>4, <1>5, <1>8, BaseStutters DEF SystemInv
<1>9. QED
  BY <1>7, <1>8 DEF FinishFrame

\* The other steps leave the base loop idle, or without a frame, or as it was.
LEMMA MultiplexerStepKeeps ==
  ASSUME SystemInv, MultiplexerStep
  PROVE  FrameInv'
<1>1. UNCHANGED <<answered, back>>
  BY DEF MultiplexerStep, server
<1>2. base' = base \/ base'.at \in {"idle", "down"}
  <2>1. ASSUME NEW c \in Conn, IoLoop(c) PROVE base' = base
    BY <2>1 DEF IoLoop, OnClientUp, FinishUp, OnClientClose, ReleaseId,
                OnClientMessage, CopyBackendConn, SendBackendPacket, Crash
  <2>2. QED
    BY <2>1 DEF MultiplexerStep, OnBackendUp, OnBackendClose, OnBackendDown, Accept,
                IdleBase, Crash
<1>3. QED
  BY <1>1, <1>2 DEF SystemInv, FrameInv, FirstId, Server!MuxId

LEMMA SystemStepFits ==
  ASSUME SystemInv, [SystemNext]_systemVars
  PROVE  SystemInv' /\ [Server!BackendNext]_<<Server!vars, Server!backendVars>>
<1>1. IInv'
  BY SystemStepIsOwn, StepKeeps DEF SystemInv
<1>2. CASE ServerStep
  BY <1>1, <1>2, ServerStepFits DEF SystemInv
<1>3. CASE MultiplexerStep
  BY <1>1, <1>3, MultiplexerStepFits, MultiplexerStepKeeps DEF SystemInv
<1>4. CASE ReadFrame
  BY <1>1, <1>4, ReadFrameFits DEF SystemInv
<1>5. CASE FinishFrame
  BY <1>1, <1>5, FinishFrameFits DEF SystemInv
<1>6. CASE UNCHANGED systemVars
  <2>1. FrameInv'
    BY <1>6 DEF SystemInv, FrameInv, FirstId, Server!MuxId, systemVars, server, vars
  <2>2. UNCHANGED <<Server!vars, Server!backendVars>>
    BY <1>6 DEF systemVars, server, vars, locks, callbacks, ghosts, Tag, Registered,
                Server!vars, Server!backendVars, Server!links
  <2>3. QED
    BY <1>1, <2>1, <2>2 DEF SystemInv
<1>7. QED
  BY <1>2, <1>3, <1>4, <1>5, <1>6 DEF SystemNext

LEMMA SystemInitFits == SystemInit => SystemInv /\ Server!BackendInit
<1>1. SUFFICES ASSUME SystemInit PROVE SystemInv
  BY DEF SystemInit
<1>2. FrameInv
  BY <1>1 DEF SystemInit, Init, IdleBase, FrameInv, Server!BackendInit
<1>3. QED
  BY <1>1, <1>2, InitEstablishes DEF SystemInit, SystemInv

\* With the backend server behind it, the multiplexer keeps its invariant, and what
\* the base loop uses outside the lock stays that of the frame it is serving.
THEOREM SystemInvariance == SystemSpec => []SystemInv
<1>1. SystemInv /\ [SystemNext]_systemVars => SystemInv'
  BY SystemStepFits
<1>2. QED
  BY SystemInitFits, <1>1, PTL DEF SystemSpec

\* The two together are a backend server behind a multiplexer that keeps the
\* promise of MuxLease.
THEOREM SystemRefinement == SystemSpec => ImplementsBackend
<1>1. SystemInv /\ [SystemNext]_systemVars
        => [Server!BackendNext]_<<Server!vars, Server!backendVars>>
  BY SystemStepFits
<1>2. QED
  BY SystemInitFits, SystemInvariance, <1>1, PTL
     DEF SystemSpec, ImplementsBackend, Server!BackendSpec

-----------------------------------------------------------------------------
(* What MuxBackendProofs shows of a backend server behind the promise holds   *)
(* of the two.                                                                *)

LEMMA BackendInitInherited == Server!BackendInit => Inherited!BackendInit
BY DEF Server!BackendInit, Inherited!BackendInit, Server!Init, Inherited!Init

LEMMA BackendStepInherited ==
  [Server!BackendNext]_<<Server!vars, Server!backendVars>>
    => [Inherited!BackendNext]_<<Inherited!vars, Inherited!backendVars>>
<1>1. /\ Inherited!vars = Server!vars /\ Inherited!vars' = Server!vars'
      /\ Inherited!backendVars = Server!backendVars
      /\ Inherited!backendVars' = Server!backendVars'
      /\ Inherited!links = Server!links /\ Inherited!links' = Server!links'
  BY DEF Inherited!vars, Server!vars, Inherited!backendVars, Server!backendVars,
         Inherited!links, Server!links
<1>2. /\ \A header : /\ Inherited!MuxId(header) = Server!MuxId(header)
                     /\ Inherited!BackendId(header) = Server!BackendId(header)
      /\ \A id : Inherited!Header(id) = Server!Header(id)
  BY DEF Inherited!MuxId, Server!MuxId, Inherited!BackendId, Server!BackendId,
         Inherited!Header, Server!Header
<1>3. \A k : Inherited!Answers(k) = Server!Answers(k)
  BY <1>2 DEF Inherited!Answers, Server!Answers, Inherited!Answer, Server!Answer
<1>4. Inherited!Command = Server!Command /\ Inherited!Reset = Server!Reset
      /\ (Inherited!Running <=> Server!Running)
  BY <1>2 DEF Inherited!Command, Server!Command, Inherited!Reset, Server!Reset,
              Inherited!Running, Server!Running
<1>5. /\ Server!OnConnectionUp => Inherited!OnConnectionUp
      /\ Server!OnConnectionDown => Inherited!OnConnectionDown
      /\ \A k \in 0..Len(wire) :
           /\ Server!OnMessage(k) => Inherited!OnMessage(k)
           /\ Server!OnCutMessage(k) => Inherited!OnCutMessage(k)
      /\ Server!AddCommand => Inherited!AddCommand
      /\ Server!RunCommand => Inherited!RunCommand
  BY <1>1, <1>3, <1>4
     DEF Server!OnConnectionUp, Inherited!OnConnectionUp, Server!OnConnectionDown,
         Inherited!OnConnectionDown, Server!OnMessage, Inherited!OnMessage,
         Server!OnCutMessage, Inherited!OnCutMessage, Server!AddCommand,
         Inherited!AddCommand, Server!RunCommand, Inherited!RunCommand
<1>6. /\ Server!OpenOnce => Inherited!OpenOnce
      /\ Server!LeaseStep => Inherited!LeaseStep
  BY <1>1
     DEF Server!OpenOnce, Inherited!OpenOnce, Server!LeaseStep, Inherited!LeaseStep,
         Server!Open, Inherited!Open, Server!Close, Inherited!Close,
         Server!Acquire, Inherited!Acquire, Server!Leased, Inherited!Leased,
         Server!Release, Inherited!Release, Server!Transmit, Inherited!Transmit,
         Server!Burst, Inherited!Burst
<1>7. /\ \A c \in Conn : Server!HandDown(c) => Inherited!HandDown(c)
      /\ Server!Consume => Inherited!Consume
  BY <1>1, <1>2
     DEF Server!HandDown, Inherited!HandDown, Server!Consume, Inherited!Consume,
         Server!Deliver, Inherited!Deliver
<1>8. Server!BackendNext => Inherited!BackendNext
  BY <1>5, <1>6, <1>7 DEF Server!BackendNext, Inherited!BackendNext
<1>9. QED
  BY <1>1, <1>8

\* From end to end, with ids that fit into a byte: a client of the multiplexer is
\* handed the answers to packets with its id, each once and in the order of the
\* packets, and after the first answer of its own nobody else's; the lock is not
\* held while an answer is sent.
THEOREM AnswersComeBack ==
  ASSUME MaxClientConns < ByteValues
  PROVE  SystemSpec => [](AnswersInOrder /\ PredecessorsFirst)
<1>1. Inherited!OneByteIds
  BY NoIdIsNone, MultiSystemAssumption DEF Inherited!OneByteIds, Ids
<1>2. Inherited!BackendSpec
        => [](Inherited!AnswersInOrder /\ Inherited!PredecessorsFirst)
  BY <1>1, Inherited!AnswersReachTheirClient
<1>3. Inherited!AnswersInOrder /\ Inherited!PredecessorsFirst
        => AnswersInOrder /\ PredecessorsFirst
  <2>1. Inherited!BackendTypeOK => Server!BackendTypeOK
    BY DEF Inherited!BackendTypeOK, Server!BackendTypeOK, Inherited!TypeOK,
           Server!TypeOK, Inherited!Packet, Server!Packet, Inherited!Frame,
           Server!Frame, Inherited!Byte, Server!Byte
  <2>2. QED
    BY <2>1 DEF AnswersInOrder, PredecessorsFirst,
                Inherited!AnswersInOrder, Server!AnswersInOrder,
                Inherited!PredecessorsFirst, Server!PredecessorsFirst
<1>4. QED
  BY <1>2, <1>3, BackendInitInherited, BackendStepInherited, SystemRefinement, PTL
     DEF ImplementsBackend, Server!BackendSpec, Inherited!BackendSpec

\* Commands typed at the backend go to a connection that is open; they are
\* dropped while one is open only because the other one has closed.
THEOREM CommandsComeThrough == SystemSpec => []ConsoleHasALink
<1>1. Inherited!ConsoleHasALink => ConsoleHasALink
  BY DEF ConsoleHasALink, Inherited!ConsoleHasALink, Server!ConsoleHasALink
<1>2. QED
  BY <1>1, Inherited!CommandsHaveALink, BackendInitInherited, BackendStepInherited,
     SystemRefinement, PTL
     DEF ImplementsBackend, Server!BackendSpec, Inherited!BackendSpec
=============================================================================
