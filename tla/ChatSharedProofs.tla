--------------------------- MODULE ChatSharedProofs ---------------------------
(***************************************************************************)
(* The two chat servers whose loops share one set of connections, for any   *)
(* connections and loops.  server_threaded_efficient.cc: no set is changed  *)
(* while a broadcast walks it, and clients read each sender in order.       *)
(* server_threaded.cc: clients read other loops' messages in one order.     *)
(***************************************************************************)
EXTENDS ChatEfficient, SequenceTheorems, TLAPS

\* A broadcast is about a message that has been decoded; only then is what it
\* queues in another loop a message of that client.
BroadcastsDecoded ==
  \A c \in Conn : said[c] <= MaxSays[c] /\ (Walking(c) => said[c] >= 1)

IInv == SnapshotStable /\ BroadcastsDecoded

LEMMA InitIInv == Init => IInv
<1> SUFFICES ASSUME Init PROVE IInv
  OBVIOUS
<1>1. NetTypeOK
  BY DEF Init, NetInit, NetTypeOK, ConnStates
<1>2. lists \in Seq(SUBSET Conn) /\ Len(lists) = 1
  BY DEF Init
<1>3. TypeOK
  BY <1>1, <1>2 DEF Init, TypeOK
<1>4. QED
  BY <1>3, ChatAssumption
     DEF Init, NetInit, IInv, SnapshotStable, BroadcastsDecoded, Walking

-----------------------------------------------------------------------------
(* Functors. *)

LEMMA MessageOf ==
  ASSUME NEW c \in Conn, NEW n \in 1..MaxSays[c]
  PROVE  [from |-> c, n |-> n] \in Message
BY DEF Message

\* What a loop runs has the arguments its kind has.
LEMMA FunctorParts ==
  ASSUME NEW f \in Functor
  PROVE  /\ f.op \in {"establish", "send"} => f.conn \in Conn
         /\ f.op = "send" => f.msg \in Message
BY DEF Functor

LEMMA RunsTypes ==
  ASSUME NetTypeOK, NEW l \in Loop, NEW op, Runs(l, op)
  PROVE  /\ Head(batch[l]) \in Functor /\ Head(batch[l]).op = op
         /\ batch' \in [Loop -> Seq(Functor)]
<1>1. batch[l] \in Seq(Functor) /\ batch[l] # <<>>
  BY DEF NetTypeOK, Runs
<1>2. Head(batch[l]) \in Functor /\ Tail(batch[l]) \in Seq(Functor)
  BY <1>1, HeadTailProperties
<1>3. QED
  BY <1>2 DEF NetTypeOK, Runs

LEMMA QueuedTypes ==
  ASSUME NetTypeOK, NEW l \in Loop, NEW f \in Functor
  PROVE  Queued(l, f) \in [Loop -> Seq(Functor)]
<1>1. Append(pending[l], f) \in Seq(Functor)
  BY DEF NetTypeOK
<1>2. QED
  BY <1>1 DEF Queued, NetTypeOK

\* send, immediate or queued.
LEMMA SendTypes ==
  ASSUME NetTypeOK, NEW l \in Loop, NEW d \in Conn, NEW msg \in Message,
         Send(l, d, msg)
  PROVE  stream' \in [Conn -> Seq(Message)] /\ pending' \in [Loop -> Seq(Functor)]
<1>1. CASE UNCHANGED <<stream, pending>>
  BY <1>1 DEF NetTypeOK
<1>2. CASE stream' = [stream EXCEPT ![d] = Append(@, msg)] /\ UNCHANGED pending
  <2>1. Append(stream[d], msg) \in Seq(Message)
    BY DEF NetTypeOK
  <2>2. QED
    BY <1>2, <2>1 DEF NetTypeOK
<1>3. CASE /\ pending' = Queued(LoopOf[d], [op |-> "send", conn |-> d, msg |-> msg])
           /\ UNCHANGED stream
  <2>1. [op |-> "send", conn |-> d, msg |-> msg] \in Functor
    BY DEF Functor
  <2>2. LoopOf[d] \in Loop
    BY ChatAssumption
  <2>3. QED
    BY <1>3, <2>1, <2>2, QueuedTypes DEF NetTypeOK
<1>4. QED
  BY <1>1, <1>2, <1>3 DEF Send

\* What the loops do of themselves.
LEMMA NetOther ==
  ASSUME NetTypeOK,
         \/ \E c \in Conn : Accept(c) \/ InvalidLength(c)
         \/ \E l \in Loop : TakeFunctors(l) \/ RunSend(l)
  PROVE  NetTypeOK'
<1>1. ASSUME NEW c \in Conn, Accept(c)
      PROVE  NetTypeOK'
  <2>1. [op |-> "establish", conn |-> c] \in Functor /\ LoopOf[c] \in Loop
    BY ChatAssumption DEF Functor
  <2>2. pending' \in [Loop -> Seq(Functor)]
    BY <1>1, <2>1, QueuedTypes DEF Accept
  <2>3. QED
    BY <1>1, <2>2 DEF Accept, NetTypeOK, ConnStates
<1>2. ASSUME NEW c \in Conn, InvalidLength(c)
      PROVE  NetTypeOK'
  BY <1>2 DEF InvalidLength, NetTypeOK, ConnStates, AfterShutdown
<1>3. ASSUME NEW l \in Loop, TakeFunctors(l)
      PROVE  NetTypeOK'
  BY <1>3 DEF TakeFunctors, NetTypeOK
<1>4. ASSUME NEW l \in Loop, RunSend(l)
      PROVE  NetTypeOK'
  <2> DEFINE f == Head(batch[l])
  <2>1. /\ f.conn \in Conn /\ f.msg \in Message
        /\ batch' \in [Loop -> Seq(Functor)]
    BY <1>4, RunsTypes, FunctorParts DEF RunSend
  <2>2. /\ stream' = [stream EXCEPT ![f.conn] = Written(f.conn, f.msg)]
        /\ UNCHANGED <<conn, pending, said>>
    BY <1>4 DEF RunSend
  <2> HIDE DEF f
  <2>3. Written(f.conn, f.msg) \in Seq(Message)
    BY <2>1 DEF Written, NetTypeOK
  <2>4. QED
    BY <2>1, <2>2, <2>3 DEF NetTypeOK
<1>5. QED
  BY <1>1, <1>2, <1>3, <1>4

-----------------------------------------------------------------------------
(* The steps. *)

\* A step that leaves the sets and broadcasts alone.
LEMMA NetKeeps ==
  ASSUME IInv, NetTypeOK', UNCHANGED <<said, chat>>
  PROVE  IInv'
BY DEF IInv, SnapshotStable, TypeOK, BroadcastsDecoded, Walking, chat

\* Copy on write: in place only an object that no broadcast walks is changed,
\* and a new object has a number no broadcast has.
LEMMA ChangeKeeps ==
  ASSUME IInv, NetTypeOK', said' = said, NEW new \in SUBSET Conn, Change(new)
  PROVE  IInv'
<1>0. /\ TypeOK /\ BroadcastsDecoded
      /\ \A c \in Conn : Walking(c) => lists[snapshot[c]] = found[c]
      /\ snapshot' = snapshot /\ reached' = reached /\ found' = found
  BY DEF IInv, SnapshotStable, Change
<1>1. /\ lists \in Seq(SUBSET Conn) /\ connections \in 1..Len(lists)
      /\ snapshot \in [Conn -> 0..Len(lists)]
  BY <1>0 DEF TypeOK
<1>2. BroadcastsDecoded'
  BY <1>0 DEF BroadcastsDecoded, Walking
<1>3. CASE Unique
  <2>1. lists' = [lists EXCEPT ![connections] = new] /\ connections' = connections
    BY <1>3 DEF Change
  <2>2. lists' \in Seq(SUBSET Conn) /\ Len(lists') = Len(lists)
    BY <1>1, <2>1
  <2>3. TypeOK'
    BY <1>0, <2>1, <2>2 DEF TypeOK
  <2>4. ASSUME NEW c \in Conn, snapshot[c] # 0
        PROVE  lists'[snapshot[c]] = lists[snapshot[c]]
    BY <1>1, <1>3, <2>1, <2>4 DEF Unique
  <2>5. QED
    BY <1>0, <1>2, <2>3, <2>4 DEF IInv, SnapshotStable, Walking
<1>4. CASE ~Unique
  <2>1. lists' = Append(lists, new) /\ connections' = Len(lists) + 1
    BY <1>4 DEF Change
  <2>2. /\ lists' \in Seq(SUBSET Conn) /\ Len(lists') = Len(lists) + 1
        /\ \A v \in 1..Len(lists) : lists'[v] = lists[v]
        /\ Len(lists) \in Nat
    BY <1>1, <2>1
  <2>3. TypeOK'
    BY <1>0, <1>1, <2>1, <2>2 DEF TypeOK
  <2>4. ASSUME NEW c \in Conn, snapshot[c] # 0
        PROVE  lists'[snapshot[c]] = lists[snapshot[c]]
    BY <1>1, <2>2, <2>4
  <2>5. QED
    BY <1>0, <1>2, <2>3, <2>4 DEF IInv, SnapshotStable, Walking
<1>5. QED
  BY <1>3, <1>4

LEMMA CurrentSet ==
  ASSUME TypeOK
  PROVE  lists[connections] \in SUBSET Conn
BY ElementOfSeq DEF TypeOK

LEMMA OnConnectionUpKeeps ==
  ASSUME IInv, NEW l \in Loop, OnConnectionUp(l)
  PROVE  IInv'
<1>0. TypeOK /\ NetTypeOK
  BY DEF IInv, SnapshotStable, TypeOK
<1>1. /\ Head(batch[l]).conn \in Conn
      /\ batch' \in [Loop -> Seq(Functor)]
  BY <1>0, RunsTypes, FunctorParts DEF OnConnectionUp
<1>2. NetTypeOK'
  BY <1>0, <1>1 DEF OnConnectionUp, NetTypeOK, ConnStates
<1>3. QED
  BY <1>0, <1>1, <1>2, ChangeKeeps, CurrentSet DEF OnConnectionUp

LEMMA OnConnectionDownKeeps ==
  ASSUME IInv, NEW c \in Conn, OnConnectionDown(c)
  PROVE  IInv'
<1>0. TypeOK /\ NetTypeOK
  BY DEF IInv, SnapshotStable, TypeOK
<1>1. NetTypeOK'
  BY <1>0 DEF OnConnectionDown, NetTypeOK, ConnStates
<1>2. QED
  BY <1>0, <1>1, ChangeKeeps, CurrentSet DEF OnConnectionDown

\* A broadcast begins: it finds what the current object holds.
LEMMA OnStringMessageKeeps ==
  ASSUME IInv, NEW c \in Conn, OnStringMessage(c)
  PROVE  IInv'
<1>0. /\ TypeOK /\ NetTypeOK /\ BroadcastsDecoded
      /\ \A d \in Conn : Walking(d) => lists[snapshot[d]] = found[d]
  BY DEF IInv, SnapshotStable, TypeOK
<1>1. /\ said' = [said EXCEPT ![c] = @ + 1] /\ said[c] < MaxSays[c]
      /\ said \in [Conn -> Nat] /\ MaxSays \in [Conn -> Nat]
  BY <1>0, ChatAssumption DEF OnStringMessage, Decode, NetTypeOK
<1>2. /\ snapshot' = [snapshot EXCEPT ![c] = connections]
      /\ found' = [found EXCEPT ![c] = lists[connections]]
      /\ lists' = lists /\ connections' = connections /\ reached' = reached
      /\ lists[connections] \in SUBSET Conn
  BY <1>0, CurrentSet DEF OnStringMessage
<1>3. NetTypeOK'
  BY <1>0, <1>1 DEF OnStringMessage, NetTypeOK
<1>4. TypeOK'
  BY <1>0, <1>2, <1>3 DEF TypeOK
<1>5. BroadcastsDecoded'
  BY <1>0, <1>1, <1>2 DEF BroadcastsDecoded, Walking, TypeOK
<1>6. QED
  BY <1>0, <1>2, <1>4, <1>5 DEF IInv, SnapshotStable, Walking, TypeOK

LEMMA SendNextKeeps ==
  ASSUME IInv, NEW c \in Conn, SendNext(c)
  PROVE  IInv'
<1>0. TypeOK /\ NetTypeOK /\ BroadcastsDecoded /\ Walking(c)
  BY DEF IInv, SnapshotStable, TypeOK, SendNext
<1>1. PICK d \in Unreached(c) :
        /\ Send(LoopOf[c], d, Decoded(c))
        /\ reached' = [reached EXCEPT ![c] = @ \cup {d}]
  BY DEF SendNext
<1>2. lists[snapshot[c]] \in SUBSET Conn
  BY <1>0, ElementOfSeq DEF TypeOK, Walking
<1>3. d \in Conn /\ LoopOf[c] \in Loop
  BY <1>1, <1>2, ChatAssumption DEF Unreached
<1>4. said[c] \in 1..MaxSays[c]
  BY <1>0, ChatAssumption DEF BroadcastsDecoded, NetTypeOK
<1>5. Decoded(c) \in Message
  BY <1>4, MessageOf DEF Decoded
<1>6. stream' \in [Conn -> Seq(Message)] /\ pending' \in [Loop -> Seq(Functor)]
  BY <1>0, <1>1, <1>3, <1>5, SendTypes
<1>7. NetTypeOK'
  BY <1>0, <1>6 DEF SendNext, NetTypeOK
<1>8. TypeOK'
  BY <1>0, <1>1, <1>3, <1>7 DEF SendNext, TypeOK
<1>9. QED
  BY <1>8 DEF SendNext, IInv, SnapshotStable, BroadcastsDecoded, Walking

LEMMA EndWalkKeeps ==
  ASSUME IInv, NEW c \in Conn, EndWalk(c)
  PROVE  IInv'
<1>0. /\ TypeOK /\ BroadcastsDecoded
      /\ \A d \in Conn : Walking(d) => lists[snapshot[d]] = found[d]
      /\ snapshot' = [snapshot EXCEPT ![c] = 0]
      /\ reached' = [reached EXCEPT ![c] = {}]
      /\ found' = [found EXCEPT ![c] = {}]
      /\ UNCHANGED <<net, lists, connections>>
  BY DEF IInv, SnapshotStable, EndWalk
<1>1. TypeOK'
  BY <1>0 DEF TypeOK, NetTypeOK, net
<1>2. QED
  BY <1>0, <1>1 DEF IInv, SnapshotStable, BroadcastsDecoded, Walking, TypeOK, net

\* What the loops do of themselves.
LEMMA OtherKeeps ==
  ASSUME IInv,
         \/ \E c \in Conn : Other(Accept(c)) \/ Other(InvalidLength(c))
         \/ \E l \in Loop : Other(TakeFunctors(l)) \/ Other(RunSend(l))
  PROVE  IInv'
<1>1. NetTypeOK /\ UNCHANGED <<said, chat>>
  BY DEF IInv, SnapshotStable, TypeOK, Other, Accept, InvalidLength, TakeFunctors,
         RunSend
<1>2. NetTypeOK'
  BY <1>1, NetOther DEF Other
<1>3. QED
  BY <1>1, <1>2, NetKeeps

LEMMA NextKeeps == IInv /\ [Next]_vars => IInv'
<1> SUFFICES ASSUME IInv, [Next]_vars PROVE IInv'
  OBVIOUS
<1>1. CASE UNCHANGED vars
  BY <1>1 DEF vars, net, chat, IInv, SnapshotStable, TypeOK, NetTypeOK,
              BroadcastsDecoded, Walking
<1>2. ASSUME NEW c \in Conn,
             \/ OnConnectionDown(c) \/ OnStringMessage(c)
             \/ SendNext(c) \/ EndWalk(c)
      PROVE  IInv'
  BY <1>2, OnConnectionDownKeeps, OnStringMessageKeeps, SendNextKeeps, EndWalkKeeps
<1>3. ASSUME NEW l \in Loop, OnConnectionUp(l)
      PROVE  IInv'
  BY <1>3, OnConnectionUpKeeps
<1>4. QED
  BY <1>1, <1>2, <1>3, OtherKeeps DEF Next

\* For the whole of a broadcast the set it walks is the one it found, with any
\* number of broadcasts, connections and loops.
THEOREM NoSetChangesUnderAWalk == Spec => []SnapshotStable
<1>1. Init => IInv
  BY InitIInv
<1>2. IInv /\ [Next]_vars => IInv'
  BY NextKeeps
<1>3. IInv => SnapshotStable
  BY DEF IInv
<1>4. QED
  BY <1>1, <1>2, <1>3, PTL DEF Spec

-----------------------------------------------------------------------------
(* The line of a client: what was written to its socket, and behind that    *)
(* what its loop has still to write.                                        *)

Has(s, e) == \E i \in 1..Len(s) : s[i] = e
Before(s, e, f) == \E i, j \in 1..Len(s) : i < j /\ s[i] = e /\ s[j] = f

\* The functors loop l has still to run; those that write m to d.
Work(l) == batch[l] \o pending[l]
Sending(d, m) == [op |-> "send", conn |-> d, msg |-> m]

\* m was written to d, or is on its way to it: nothing is to one that is down.
Reads(d, m) == Has(stream[d], m)
Heading(d, m) ==
  conn[d] # "disconnected" /\ Has(Work(LoopOf[d]), Sending(d, m))

OnLine(d, m) == Reads(d, m) \/ Heading(d, m)

Ahead(d, m, k) ==
  \/ Before(stream[d], m, k)
  \/ Reads(d, m) /\ Heading(d, k)
  \/ /\ conn[d] # "disconnected"
     /\ Before(Work(LoopOf[d]), Sending(d, m), Sending(d, k))

\* A loop is given only what concerns its own connections, and only messages
\* of other loops: its own it writes at once.
Routed ==
  \A l \in Loop, f \in Functor :
    Has(Work(l), f)
      => /\ f.op \in {"establish", "send"} /\ LoopOf[f.conn] = l
         /\ f.op = "send" => LoopOf[f.msg.from] # l

\* Appending to a sequence, and taking off its head.
LEMMA AppendHas ==
  ASSUME NEW S, NEW s \in Seq(S), NEW g \in S
  PROVE  /\ \A e : Has(Append(s, g), e) <=> Has(s, e) \/ e = g
         /\ \A e, f : Before(Append(s, g), e, f) <=> Before(s, e, f) \/ (Has(s, e) /\ f = g)
<1>1. /\ Len(s) \in Nat /\ Len(Append(s, g)) = Len(s) + 1
      /\ \A i \in 1..Len(s) : Append(s, g)[i] = s[i]
      /\ Append(s, g)[Len(s) + 1] = g
  BY AppendProperties, LenProperties
<1>2. ASSUME NEW e PROVE Has(Append(s, g), e) <=> Has(s, e) \/ e = g
  <2>1. CASE Has(Append(s, g), e)
    <3>1. PICK i \in 1..(Len(s) + 1) : Append(s, g)[i] = e
      BY <1>1, <2>1 DEF Has
    <3>2. QED
      BY <1>1, <3>1 DEF Has
  <2>2. CASE Has(s, e)
    <3>1. PICK i \in 1..Len(s) : s[i] = e
      BY <2>2 DEF Has
    <3>2. i \in 1..(Len(s) + 1)
      BY <1>1
    <3>3. QED
      BY <1>1, <2>2, <3>1, <3>2 DEF Has
  <2>3. CASE e = g
    <3>1. Len(s) + 1 \in 1..(Len(s) + 1)
      BY <1>1
    <3>2. QED
      BY <1>1, <2>3, <3>1 DEF Has
  <2>4. QED
    BY <2>1, <2>2, <2>3
<1>3. ASSUME NEW e, NEW f
      PROVE  Before(Append(s, g), e, f) <=> Before(s, e, f) \/ (Has(s, e) /\ f = g)
  <2>1. CASE Before(Append(s, g), e, f)
    <3>1. PICK i, j \in 1..(Len(s) + 1) :
            i < j /\ Append(s, g)[i] = e /\ Append(s, g)[j] = f
      BY <1>1, <2>1 DEF Before
    <3>2. i \in 1..Len(s) /\ s[i] = e
      BY <1>1, <3>1
    <3>3. CASE j = Len(s) + 1
      <4>1. Has(s, e) /\ f = g
        BY <1>1, <3>1, <3>2, <3>3 DEF Has
      <4>2. QED
        BY <2>1, <4>1
    <3>4. CASE j # Len(s) + 1
      <4>1. j \in 1..Len(s) /\ s[j] = f
        BY <1>1, <3>1, <3>4
      <4>2. QED
        BY <2>1, <3>1, <3>2, <4>1 DEF Before
    <3>5. QED
      BY <3>3, <3>4
  <2>2. CASE Before(s, e, f)
    <3>1. PICK i, j \in 1..Len(s) : i < j /\ s[i] = e /\ s[j] = f
      BY <2>2 DEF Before
    <3>2. i \in 1..(Len(s) + 1) /\ j \in 1..(Len(s) + 1)
      BY <1>1
    <3>3. QED
      BY <1>1, <2>2, <3>1, <3>2 DEF Before
  <2>3. CASE Has(s, e) /\ f = g
    <3>1. PICK i \in 1..Len(s) : s[i] = e
      BY <2>3 DEF Has
    <3>2. i \in 1..(Len(s) + 1) /\ Len(s) + 1 \in 1..(Len(s) + 1) /\ i < Len(s) + 1
      BY <1>1
    <3>3. QED
      BY <1>1, <2>3, <3>1, <3>2 DEF Before
  <2>4. QED
    BY <2>1, <2>2, <2>3
<1>4. QED
  BY <1>2, <1>3

LEMMA TailHas ==
  ASSUME NEW S, NEW s \in Seq(S), s # <<>>
  PROVE  /\ \A e : Has(s, e) <=> e = Head(s) \/ Has(Tail(s), e)
         /\ \A e, f : Before(s, e, f)
                        <=> Before(Tail(s), e, f) \/ (e = Head(s) /\ Has(Tail(s), f))
<1>1. /\ Len(s) \in Nat /\ Len(s) >= 1 /\ Head(s) = s[1]
      /\ Len(Tail(s)) = Len(s) - 1
      /\ \A i \in 1..(Len(s) - 1) : Tail(s)[i] = s[i + 1]
  BY HeadTailProperties, EmptySeq, LenProperties
<1>2. ASSUME NEW e PROVE Has(s, e) <=> e = Head(s) \/ Has(Tail(s), e)
  <2>1. CASE Has(s, e)
    <3>1. PICK i \in 1..Len(s) : s[i] = e
      BY <2>1 DEF Has
    <3>2. CASE i # 1
      <4>1. i - 1 \in 1..(Len(s) - 1) /\ Tail(s)[i - 1] = e
        BY <1>1, <3>1, <3>2
      <4>2. Has(Tail(s), e)
        BY <1>1, <4>1 DEF Has
      <4>3. QED
        BY <2>1, <4>2
    <3>3. QED
      BY <1>1, <2>1, <3>1, <3>2
  <2>2. CASE Has(Tail(s), e)
    <3>1. PICK i \in 1..(Len(s) - 1) : Tail(s)[i] = e
      BY <1>1, <2>2 DEF Has
    <3>2. i + 1 \in 1..Len(s) /\ s[i + 1] = e
      BY <1>1, <3>1
    <3>3. QED
      BY <2>2, <3>2 DEF Has
  <2>3. CASE e = Head(s)
    BY <1>1, <2>3 DEF Has
  <2>4. QED
    BY <2>1, <2>2, <2>3
<1>3. ASSUME NEW e, NEW f
      PROVE  Before(s, e, f)
               <=> Before(Tail(s), e, f) \/ (e = Head(s) /\ Has(Tail(s), f))
  <2>1. CASE Before(s, e, f)
    <3>1. PICK i, j \in 1..Len(s) : i < j /\ s[i] = e /\ s[j] = f
      BY <2>1 DEF Before
    <3>2. j - 1 \in 1..(Len(s) - 1) /\ Tail(s)[j - 1] = f
      BY <1>1, <3>1
    <3>3. CASE i = 1
      <4>1. e = Head(s) /\ Has(Tail(s), f)
        BY <1>1, <3>1, <3>2, <3>3 DEF Has
      <4>2. QED
        BY <2>1, <4>1
    <3>4. CASE i # 1
      <4>1. i - 1 \in 1..(Len(s) - 1) /\ Tail(s)[i - 1] = e /\ i - 1 < j - 1
        BY <1>1, <3>1, <3>4
      <4>2. Before(Tail(s), e, f)
        BY <1>1, <3>2, <4>1 DEF Before
      <4>3. QED
        BY <2>1, <4>2
    <3>5. QED
      BY <3>3, <3>4
  <2>2. CASE Before(Tail(s), e, f)
    <3>1. PICK i, j \in 1..(Len(s) - 1) : i < j /\ Tail(s)[i] = e /\ Tail(s)[j] = f
      BY <1>1, <2>2 DEF Before
    <3>2. /\ i + 1 \in 1..Len(s) /\ j + 1 \in 1..Len(s) /\ i + 1 < j + 1
          /\ s[i + 1] = e /\ s[j + 1] = f
      BY <1>1, <3>1
    <3>3. Before(s, e, f)
      BY <3>2 DEF Before
    <3>4. QED
      BY <2>2, <3>3
  <2>3. CASE e = Head(s) /\ Has(Tail(s), f)
    <3>1. PICK j \in 1..(Len(s) - 1) : Tail(s)[j] = f
      BY <1>1, <2>3 DEF Has
    <3>2. /\ 1 \in 1..Len(s) /\ j + 1 \in 1..Len(s) /\ 1 < j + 1
          /\ s[1] = e /\ s[j + 1] = f
      BY <1>1, <2>3, <3>1
    <3>3. Before(s, e, f)
      BY <3>2 DEF Before
    <3>4. QED
      BY <2>3, <3>3
  <2>4. QED
    BY <2>1, <2>2, <2>3
<1>4. QED
  BY <1>2, <1>3

-----------------------------------------------------------------------------
(* The work of a loop. *)

LEMMA WorkTypes ==
  ASSUME NetTypeOK, NEW l \in Loop
  PROVE  Work(l) \in Seq(Functor)
<1>1. batch[l] \in Seq(Functor) /\ pending[l] \in Seq(Functor)
  BY DEF NetTypeOK
<1>2. QED
  BY <1>1, ConcatProperties DEF Work

\* A functor is queued: it is the last thing the loop has to do.
LEMMA WorkQueued ==
  ASSUME NetTypeOK, NEW l \in Loop, NEW f \in Functor,
         pending' = Queued(l, f), batch' = batch, NEW k \in Loop
  PROVE  Work(k)' = IF k = l THEN Append(Work(k), f) ELSE Work(k)
<1>1. CASE k = l
  <2>1. batch[l] \in Seq(Functor) /\ pending[l] \in Seq(Functor) /\ <<f>> \in Seq(Functor)
    BY DEF NetTypeOK
  <2>2. (batch[l] \o pending[l]) \o <<f>> = batch[l] \o (pending[l] \o <<f>>)
    <3>1. \A s, t, u \in Seq(Functor) : (s \o t) \o u = s \o (t \o u)
      BY ConcatAssociative
    <3>2. QED
      BY <2>1, <3>1, Zenon
  <2>3. /\ pending[l] \o <<f>> = Append(pending[l], f)
        /\ Work(l) \o <<f>> = Append(Work(l), f)
    BY <2>1, WorkTypes, AppendIsConcat
  <2>4. pending'[l] = Append(pending[l], f)
    BY DEF Queued, NetTypeOK
  <2>5. QED
    BY <1>1, <2>2, <2>3, <2>4 DEF Work
<1>2. CASE k # l
  BY <1>2 DEF Work, Queued, NetTypeOK
<1>3. QED
  BY <1>1, <1>2

\* Taking the functors out of the queue changes nothing about that.
LEMMA WorkTaken ==
  ASSUME NetTypeOK, NEW l \in Loop, TakeFunctors(l), NEW k \in Loop
  PROVE  Work(k)' = Work(k)
<1>1. batch[l] = <<>> /\ batch'[l] = pending[l] /\ pending'[l] = <<>>
      /\ pending[l] \in Seq(Functor)
  BY DEF TakeFunctors, NetTypeOK
<1>2. k # l => batch'[k] = batch[k] /\ pending'[k] = pending[k]
  BY DEF TakeFunctors, NetTypeOK
<1>3. pending[l] \o <<>> = pending[l] /\ <<>> \o pending[l] = pending[l]
  BY <1>1, ConcatEmptySeq
<1>4. QED
  BY <1>1, <1>2, <1>3 DEF Work

\* What runs is the first thing the loop has to do.
LEMMA WorkRun ==
  ASSUME NetTypeOK, NEW l \in Loop, NEW op, Runs(l, op), pending' = pending,
         NEW k \in Loop
  PROVE  /\ Work(l) # <<>> /\ Head(Work(l)) = Head(batch[l])
         /\ Work(k)' = IF k = l THEN Tail(Work(k)) ELSE Work(k)
<1>1. /\ batch[l] \in Seq(Functor) /\ batch[l] # <<>> /\ pending[l] \in Seq(Functor)
      /\ batch' = [batch EXCEPT ![l] = Tail(@)]
  BY DEF Runs, NetTypeOK
<1>2. \A s \in Seq(Functor), t \in Seq(Functor) :
        s # <<>> => /\ s \o t # <<>> /\ Head(s \o t) = Head(s)
                    /\ Tail(s \o t) = Tail(s) \o t
  <2>1. SUFFICES ASSUME NEW s \in Seq(Functor), NEW t \in Seq(Functor), s # <<>>
                 PROVE  /\ s \o t # <<>> /\ Head(s \o t) = Head(s)
                        /\ Tail(s \o t) = Tail(s) \o t
    OBVIOUS
  <2>2. /\ <<Head(s)>> \in Seq(Functor) /\ Tail(s) \in Seq(Functor)
        /\ s = <<Head(s)>> \o Tail(s)
    BY <2>1, HeadTailProperties
  <2>3. s \o t = <<Head(s)>> \o (Tail(s) \o t) /\ Tail(s) \o t \in Seq(Functor)
    BY <2>2, ConcatAssociative, ConcatProperties
  <2>4. QED
    BY <2>2, <2>3
<1>3. QED
  BY <1>1, <1>2 DEF Work, NetTypeOK

LEMMA RoutedQueued ==
  ASSUME NetTypeOK, Routed, NEW l \in Loop, NEW f \in Functor,
         pending' = Queued(l, f), batch' = batch,
         f.op \in {"establish", "send"}, LoopOf[f.conn] = l,
         f.op = "send" => LoopOf[f.msg.from] # l
  PROVE  Routed'
<1>1. ASSUME NEW k \in Loop, NEW g \in Functor, Has(Work(k)', g)
      PROVE  /\ g.op \in {"establish", "send"} /\ LoopOf[g.conn] = k
             /\ g.op = "send" => LoopOf[g.msg.from] # k
  <2>1. CASE k = l
    <3>1. Has(Append(Work(k), f), g)
      BY <1>1, <2>1, WorkQueued
    <3>2. Has(Work(k), g) \/ g = f
      BY <3>1, WorkTypes, AppendHas
    <3>3. QED
      BY <2>1, <3>2 DEF Routed
  <2>2. CASE k # l
    BY <1>1, <2>2, WorkQueued DEF Routed
  <2>3. QED
    BY <2>1, <2>2
<1>2. QED
  BY <1>1 DEF Routed, Has

LEMMA RoutedTaken ==
  ASSUME NetTypeOK, Routed, NEW l \in Loop, TakeFunctors(l)
  PROVE  Routed'
BY WorkTaken DEF Routed, Has

LEMMA RoutedRun ==
  ASSUME NetTypeOK, Routed, NEW l \in Loop, NEW op, Runs(l, op), pending' = pending
  PROVE  Routed'
<1>1. ASSUME NEW k \in Loop, NEW g \in Functor, Has(Work(k)', g)
      PROVE  Has(Work(k), g)
  BY <1>1, WorkRun, WorkTypes, TailHas
<1>2. ASSUME NEW k \in Loop, NEW g \in Functor, Has(Work(k)', g)
      PROVE  /\ g.op \in {"establish", "send"} /\ LoopOf[g.conn] = k
             /\ g.op = "send" => LoopOf[g.msg.from] # k
  BY <1>1, <1>2 DEF Routed
<1>3. QED
  BY <1>2 DEF Routed, Has

-----------------------------------------------------------------------------
(* What each step of the loops does to the lines. *)

SameLine(d) ==
  \A m, k : (OnLine(d, m)' <=> OnLine(d, m)) /\ (Ahead(d, m, k)' <=> Ahead(d, m, k))

LEMMA LinePrimed ==
  ASSUME NEW d \in Conn, NEW m, NEW k
  PROVE  /\ Reads(d, m)' <=> Has(stream'[d], m)
         /\ Heading(d, m)'
              <=> conn'[d] # "disconnected" /\ Has(Work(LoopOf[d])', Sending(d, m))
         /\ OnLine(d, m)' <=> Reads(d, m)' \/ Heading(d, m)'
         /\ Ahead(d, m, k)'
              <=> \/ Before(stream'[d], m, k)
                  \/ Reads(d, m)' /\ Heading(d, k)'
                  \/ /\ conn'[d] # "disconnected"
                     /\ Before(Work(LoopOf[d])', Sending(d, m), Sending(d, k))
BY DEF Reads, Heading, OnLine, Ahead, Has, Before, Sending

LEMMA LineUntouched ==
  ASSUME NEW d \in Conn,
         stream'[d] = stream[d],
         conn'[d] # "disconnected" <=> conn[d] # "disconnected",
         \A m : Has(Work(LoopOf[d])', Sending(d, m)) <=> Has(Work(LoopOf[d]), Sending(d, m)),
         \A m, k : Before(Work(LoopOf[d])', Sending(d, m), Sending(d, k))
                     <=> Before(Work(LoopOf[d]), Sending(d, m), Sending(d, k))
  PROVE  SameLine(d)
<1>1. ASSUME NEW m, NEW k
      PROVE  (OnLine(d, m)' <=> OnLine(d, m)) /\ (Ahead(d, m, k)' <=> Ahead(d, m, k))
  <2>1. /\ Reads(d, m)' <=> Reads(d, m)
        /\ Heading(d, m)' <=> Heading(d, m)
        /\ Heading(d, k)' <=> Heading(d, k)
    BY LinePrimed DEF Reads, Heading
  <2>2. OnLine(d, m)' <=> OnLine(d, m)
    BY <2>1, LinePrimed DEF OnLine
  <2>3. Ahead(d, m, k)' <=> Ahead(d, m, k)
    BY <2>1, LinePrimed DEF Ahead
  <2>4. QED
    BY <2>2, <2>3
<1>2. QED
  BY <1>1 DEF SameLine

\* A functor that writes to nobody is queued.
LEMMA LineQueued ==
  ASSUME NetTypeOK, NEW l \in Loop, NEW f \in Functor, f.op # "send",
         pending' = Queued(l, f), batch' = batch, stream' = stream,
         NEW d \in Conn, conn'[d] # "disconnected" <=> conn[d] # "disconnected"
  PROVE  SameLine(d)
<1> DEFINE k == LoopOf[d]
<1>1. k \in Loop
  BY ChatAssumption
<1>2. \A m : Sending(d, m) # f
  BY DEF Sending
<1>3. CASE k = l
  <2>1. Work(k)' = Append(Work(k), f) /\ Work(k) \in Seq(Functor)
    BY <1>1, <1>3, WorkQueued, WorkTypes
  <2>2. /\ \A m : Has(Work(k)', Sending(d, m)) <=> Has(Work(k), Sending(d, m))
        /\ \A m, n : Before(Work(k)', Sending(d, m), Sending(d, n))
                        <=> Before(Work(k), Sending(d, m), Sending(d, n))
    BY <1>2, <2>1, AppendHas
  <2>3. QED
    BY <2>2, LineUntouched
<1>4. CASE k # l
  <2>1. Work(k)' = Work(k)
    BY <1>1, <1>4, WorkQueued
  <2>2. QED
    BY <2>1, LineUntouched
<1>5. QED
  BY <1>3, <1>4

LEMMA LineTaken ==
  ASSUME NetTypeOK, NEW l \in Loop, TakeFunctors(l), NEW d \in Conn
  PROVE  SameLine(d)
<1>1. stream' = stream /\ conn' = conn
  BY DEF TakeFunctors
<1>2. Work(LoopOf[d])' = Work(LoopOf[d])
  BY ChatAssumption, WorkTaken
<1>3. QED
  BY <1>1, <1>2, LineUntouched

\* A functor that does not write to d runs.
LEMMA LineRun ==
  ASSUME NetTypeOK, NEW l \in Loop, NEW op, Runs(l, op), pending' = pending,
         NEW d \in Conn, \A m : Head(batch[l]) # Sending(d, m),
         stream'[d] = stream[d],
         conn'[d] # "disconnected" <=> conn[d] # "disconnected"
  PROVE  SameLine(d)
<1> DEFINE k == LoopOf[d]
<1>1. k \in Loop
  BY ChatAssumption
<1>2. CASE k = l
  <2>1. /\ Work(k) # <<>> /\ Head(Work(k)) = Head(batch[l])
        /\ Work(k)' = Tail(Work(k)) /\ Work(k) \in Seq(Functor)
    BY <1>1, <1>2, WorkRun, WorkTypes
  <2>2. /\ \A m : Has(Work(k), Sending(d, m)) <=> Has(Tail(Work(k)), Sending(d, m))
        /\ \A m, n : Before(Work(k), Sending(d, m), Sending(d, n))
                        <=> Before(Tail(Work(k)), Sending(d, m), Sending(d, n))
    BY <2>1, TailHas
  <2>3. QED
    BY <2>1, <2>2, LineUntouched
<1>3. CASE k # l
  <2>1. Work(k)' = Work(k)
    BY <1>1, <1>3, WorkRun
  <2>2. QED
    BY <2>1, LineUntouched
<1>4. QED
  BY <1>2, <1>3

LEMMA FunctorIsSending ==
  ASSUME NEW f \in Functor, f.op = "send"
  PROVE  f = Sending(f.conn, f.msg) /\ f.conn \in Conn /\ f.msg \in Message
BY DEF Functor, Sending

\* sendInLoop moves the first message on its way to the end of what was
\* written, or drops it when the client is down: every line stays as it is.
LEMMA LineRunSend ==
  ASSUME NetTypeOK, Routed, NEW l \in Loop, RunSend(l), NEW d \in Conn
  PROVE  SameLine(d)
<1> DEFINE f == Head(batch[l])
<1>1. /\ Runs(l, "send") /\ conn' = conn /\ pending' = pending
      /\ stream' = [stream EXCEPT ![f.conn] = Written(f.conn, f.msg)]
      /\ stream \in [Conn -> Seq(Message)]
  BY DEF RunSend, NetTypeOK
<1>2. f \in Functor /\ f.op = "send"
  BY <1>1, RunsTypes
<1>3. f = Sending(f.conn, f.msg) /\ f.conn \in Conn /\ f.msg \in Message
  BY <1>2, FunctorIsSending
<1>4. /\ Work(l) # <<>> /\ Head(Work(l)) = f /\ Work(l)' = Tail(Work(l))
      /\ Work(l) \in Seq(Functor)
  BY <1>1, WorkRun, WorkTypes
<1>5. LoopOf[f.conn] = l
  <2>1. Has(Work(l), f)
    BY <1>4, TailHas
  <2>2. QED
    BY <1>2, <2>1 DEF Routed
<1> HIDE DEF f
<1>6. CASE d # f.conn
  <2>1. \A m : f # Sending(d, m)
    BY <1>3, <1>6 DEF Sending
  <2>2. QED
    BY <1>1, <1>6, <2>1, LineRun DEF f
<1>7. CASE d = f.conn /\ conn[d] = "disconnected"
  <2>1. stream'[d] = stream[d] /\ conn'[d] = "disconnected"
    BY <1>1, <1>3, <1>7 DEF Written
  <2>2. ASSUME NEW m, NEW k
        PROVE  (OnLine(d, m)' <=> OnLine(d, m)) /\ (Ahead(d, m, k)' <=> Ahead(d, m, k))
    <3>1. /\ Reads(d, m)' <=> Reads(d, m)
          /\ ~Heading(d, m)' /\ ~Heading(d, k)' /\ ~Heading(d, m) /\ ~Heading(d, k)
      BY <1>7, <2>1, LinePrimed DEF Reads, Heading
    <3>2. OnLine(d, m)' <=> OnLine(d, m)
      BY <3>1, LinePrimed DEF OnLine
    <3>3. Ahead(d, m, k)' <=> Ahead(d, m, k)
      BY <1>7, <2>1, <3>1, LinePrimed DEF Ahead
    <3>4. QED
      BY <3>2, <3>3
  <2>3. QED
    BY <2>2 DEF SameLine
<1>8. CASE d = f.conn /\ conn[d] # "disconnected"
  <2>1. /\ stream'[d] = Append(stream[d], f.msg) /\ conn'[d] # "disconnected"
        /\ stream[d] \in Seq(Message) /\ LoopOf[d] = l
    BY <1>1, <1>3, <1>5, <1>8 DEF Written
  <2>2. \A m : Sending(d, m) = f <=> m = f.msg
    BY <1>3, <1>8 DEF Sending
  <2>3. ASSUME NEW m, NEW k
        PROVE  (OnLine(d, m)' <=> OnLine(d, m)) /\ (Ahead(d, m, k)' <=> Ahead(d, m, k))
    <3> DEFINE rest == Tail(Work(l))
    <3>1. /\ Has(stream'[d], m) <=> Has(stream[d], m) \/ m = f.msg
          /\ Before(stream'[d], m, k)
               <=> Before(stream[d], m, k) \/ (Has(stream[d], m) /\ k = f.msg)
      BY <1>3, <2>1, AppendHas
    <3>2. /\ Has(Work(l), Sending(d, m)) <=> m = f.msg \/ Has(rest, Sending(d, m))
          /\ Has(Work(l), Sending(d, k)) <=> k = f.msg \/ Has(rest, Sending(d, k))
          /\ Before(Work(l), Sending(d, m), Sending(d, k))
               <=> \/ Before(rest, Sending(d, m), Sending(d, k))
                   \/ m = f.msg /\ Has(rest, Sending(d, k))
      BY <1>4, <2>2, TailHas
    <3> HIDE DEF rest
    <3>3. /\ Reads(d, m)' <=> Reads(d, m) \/ m = f.msg
          /\ Heading(d, m)' <=> Has(rest, Sending(d, m))
          /\ Heading(d, k)' <=> Has(rest, Sending(d, k))
          /\ Heading(d, m) <=> m = f.msg \/ Has(rest, Sending(d, m))
          /\ Heading(d, k) <=> k = f.msg \/ Has(rest, Sending(d, k))
      BY <1>4, <1>8, <2>1, <3>1, <3>2, LinePrimed DEF Reads, Heading, rest
    <3>4. OnLine(d, m)' <=> OnLine(d, m)
      BY <3>3, LinePrimed DEF OnLine
    <3>5. /\ Ahead(d, m, k)
               <=> \/ Before(stream[d], m, k)
                   \/ Reads(d, m) /\ Heading(d, k)
                   \/ Before(rest, Sending(d, m), Sending(d, k))
                   \/ m = f.msg /\ Has(rest, Sending(d, k))
          /\ Ahead(d, m, k)'
               <=> \/ Before(stream[d], m, k)
                   \/ Reads(d, m) /\ k = f.msg
                   \/ Reads(d, m)' /\ Heading(d, k)'
                   \/ Before(rest, Sending(d, m), Sending(d, k))
      BY <1>4, <1>8, <2>1, <3>1, <3>2, LinePrimed DEF Ahead, Reads, rest
    <3>6. Ahead(d, m, k)' <=> Ahead(d, m, k)
      BY <3>3, <3>5
    <3>7. QED
      BY <3>4, <3>6
  <2>4. QED
    BY <2>3 DEF SameLine
<1>9. QED
  BY <1>6, <1>7, <1>8

\* codec_.send from the loop of the sender: at once to a client of that loop,
\* in front of what is on its way there; to another client behind all of it.
LEMMA LineSend ==
  ASSUME NetTypeOK, Routed, NEW d \in Conn, NEW m \in Message, NEW l \in Loop,
         l = LoopOf[m.from], Send(l, d, m), batch' = batch, conn' = conn
  PROVE  /\ Routed'
         /\ \A e \in Conn : e # d \/ ~Sendable(conn[d]) => SameLine(e)
         /\ Sendable(conn[d]) =>
              /\ \A x : OnLine(d, x)' <=> OnLine(d, x) \/ x = m
              /\ \A x, y : Ahead(d, x, y)' =>
                   \/ Ahead(d, x, y)
                   \/ OnLine(d, x) /\ y = m
                   \/ LoopOf[d] = l /\ x = m /\ Heading(d, y)
<1>0. LoopOf[d] \in Loop /\ stream \in [Conn -> Seq(Message)]
  BY ChatAssumption DEF NetTypeOK
<1>1. CASE ~Sendable(conn[d])
  <2>1. UNCHANGED <<stream, pending>>
    BY <1>1 DEF Send
  <2>2. \A k : Work(k)' = Work(k)
    BY <2>1 DEF Work
  <2>3. \A e \in Conn : SameLine(e)
    BY <2>1, <2>2, LineUntouched
  <2>4. QED
    BY <1>1, <2>2, <2>3 DEF Routed, Has
<1>2. CASE Sendable(conn[d]) /\ LoopOf[d] = l
  <2>1. stream' = [stream EXCEPT ![d] = Append(@, m)] /\ pending' = pending
    BY <1>2 DEF Send
  <2>2. \A k : Work(k)' = Work(k)
    BY <2>1 DEF Work
  <2>3. \A e \in Conn : e # d => SameLine(e)
    BY <1>0, <2>1, <2>2, LineUntouched
  <2>4. ASSUME NEW x, NEW y
        PROVE  /\ OnLine(d, x)' <=> OnLine(d, x) \/ x = m
               /\ Ahead(d, x, y)' =>
                    \/ Ahead(d, x, y)
                    \/ OnLine(d, x) /\ y = m
                    \/ LoopOf[d] = l /\ x = m /\ Heading(d, y)
    <3>1. /\ Has(stream'[d], x) <=> Has(stream[d], x) \/ x = m
          /\ Before(stream'[d], x, y)
               <=> Before(stream[d], x, y) \/ (Has(stream[d], x) /\ y = m)
      BY <1>0, <2>1, AppendHas
    <3>2. /\ Reads(d, x)' <=> Reads(d, x) \/ x = m
          /\ Heading(d, x)' <=> Heading(d, x)
          /\ Heading(d, y)' <=> Heading(d, y)
      BY <2>2, <3>1, LinePrimed DEF Reads, Heading
    <3>3. OnLine(d, x)' <=> OnLine(d, x) \/ x = m
      BY <3>2, LinePrimed DEF OnLine
    <3>4. Ahead(d, x, y)'
            <=> \/ Before(stream[d], x, y)
                \/ Has(stream[d], x) /\ y = m
                \/ Reads(d, x)' /\ Heading(d, y)'
                \/ /\ conn[d] # "disconnected"
                   /\ Before(Work(LoopOf[d]), Sending(d, x), Sending(d, y))
      BY <2>2, <3>1, LinePrimed
    <3>5. QED
      BY <1>2, <3>2, <3>3, <3>4 DEF Ahead, OnLine, Reads
  <2>5. QED
    BY <1>2, <2>2, <2>3, <2>4 DEF Routed, Has
<1>3. CASE Sendable(conn[d]) /\ LoopOf[d] # l
  <2> DEFINE f == Sending(d, m)
             k == LoopOf[d]
  <2>1. pending' = Queued(k, f) /\ stream' = stream
    BY <1>3 DEF Send, Sending
  <2>2. f \in Functor /\ f.op = "send" /\ f.conn = d /\ f.msg = m
    BY DEF Functor, Sending
  <2> HIDE DEF f
  <2>3. Routed'
    BY <1>0, <1>3, <2>1, <2>2, RoutedQueued
  <2>4. Work(k)' = Append(Work(k), f) /\ Work(k) \in Seq(Functor)
    BY <1>0, <2>1, <2>2, WorkQueued, WorkTypes
  <2>5. ASSUME NEW e \in Conn, e # d
        PROVE  SameLine(e)
    <3>1. LoopOf[e] \in Loop /\ \A x : Sending(e, x) # f
      BY <2>5, ChatAssumption DEF Sending, f
    <3>2. CASE LoopOf[e] = k
      <4>1. /\ \A x : Has(Work(k)', Sending(e, x)) <=> Has(Work(k), Sending(e, x))
            /\ \A x, y : Before(Work(k)', Sending(e, x), Sending(e, y))
                            <=> Before(Work(k), Sending(e, x), Sending(e, y))
        BY <2>2, <2>4, <3>1, AppendHas
      <4>2. QED
        BY <2>1, <3>2, <4>1, LineUntouched
    <3>3. CASE LoopOf[e] # k
      <4>1. Work(LoopOf[e])' = Work(LoopOf[e])
        BY <1>0, <2>1, <2>2, <3>1, <3>3, WorkQueued
      <4>2. QED
        BY <2>1, <4>1, LineUntouched
    <3>4. QED
      BY <3>2, <3>3
  <2>6. ASSUME NEW x, NEW y
        PROVE  /\ OnLine(d, x)' <=> OnLine(d, x) \/ x = m
               /\ Ahead(d, x, y)' => Ahead(d, x, y) \/ (OnLine(d, x) /\ y = m)
    <3>1. (Sending(d, x) = f <=> x = m) /\ (Sending(d, y) = f <=> y = m)
      BY DEF Sending, f
    <3>2. /\ Has(Work(k)', Sending(d, x)) <=> Has(Work(k), Sending(d, x)) \/ x = m
          /\ Has(Work(k)', Sending(d, y)) <=> Has(Work(k), Sending(d, y)) \/ y = m
          /\ Before(Work(k)', Sending(d, x), Sending(d, y))
               <=> \/ Before(Work(k), Sending(d, x), Sending(d, y))
                   \/ Has(Work(k), Sending(d, x)) /\ y = m
      BY <2>2, <2>4, <3>1, AppendHas
    <3>3. conn[d] # "disconnected"
      BY <1>3 DEF Sendable
    <3>4. /\ Reads(d, x)' <=> Reads(d, x)
          /\ Heading(d, x)' <=> Heading(d, x) \/ x = m
          /\ Heading(d, y)' <=> Heading(d, y) \/ y = m
      BY <2>1, <3>2, <3>3, LinePrimed DEF Reads, Heading
    <3>5. OnLine(d, x)' <=> OnLine(d, x) \/ x = m
      BY <3>4, LinePrimed DEF OnLine
    <3>6. Ahead(d, x, y)'
            <=> \/ Before(stream[d], x, y)
                \/ Reads(d, x)' /\ Heading(d, y)'
                \/ Before(Work(k), Sending(d, x), Sending(d, y))
                \/ Has(Work(k), Sending(d, x)) /\ y = m
      BY <2>1, <3>2, <3>3, LinePrimed
    <3>7. Has(Work(k), Sending(d, x)) => OnLine(d, x)
      BY <3>3 DEF OnLine, Heading
    <3>8. QED
      BY <3>3, <3>4, <3>5, <3>6, <3>7 DEF Ahead, OnLine
  <2>7. QED
    BY <1>3, <2>3, <2>5, <2>6
<1>4. QED
  BY <1>1, <1>2, <1>3

LEMMA LineMessages ==
  ASSUME NetTypeOK, NEW d \in Conn, NEW m
  PROVE  /\ OnLine(d, m) => m \in Message
         /\ Routed /\ Heading(d, m) => LoopOf[m.from] # LoopOf[d]
<1>1. LoopOf[d] \in Loop /\ stream[d] \in Seq(Message)
  BY ChatAssumption DEF NetTypeOK
<1>2. Reads(d, m) => m \in Message
  <2>1. \A i \in 1..Len(stream[d]) : stream[d][i] \in Message
    BY <1>1, ElementOfSeq
  <2>2. QED
    BY <2>1 DEF Reads, Has
<1>3. Heading(d, m) => Sending(d, m) \in Functor
  <2>1. \A i \in 1..Len(Work(LoopOf[d])) : Work(LoopOf[d])[i] \in Functor
    BY <1>1, WorkTypes, ElementOfSeq
  <2>2. QED
    BY <2>1 DEF Heading, Has
<1>4. /\ Sending(d, m).op = "send" /\ Sending(d, m).msg = m /\ Sending(d, m).conn = d
  BY DEF Sending
<1>5. Heading(d, m) => m \in Message
  BY <1>3, <1>4, FunctorIsSending
<1>6. ASSUME Routed, Heading(d, m) PROVE LoopOf[m.from] # LoopOf[d]
  BY <1>1, <1>3, <1>4, <1>6 DEF Routed, Heading
<1>7. QED
  BY <1>2, <1>5, <1>6 DEF OnLine

-----------------------------------------------------------------------------
(* What holds of the loops of both servers, and what their steps leave of it. *)

Establishing(c) == [op |-> "establish", conn |-> c]

\* A connection is established once, and nothing happens to it before.
EstablishedOnce ==
  /\ \A l \in Loop, c \in Conn : Has(Work(l), Establishing(c)) => conn[c] = "accepted"
  /\ \A l \in Loop, c \in Conn : ~Before(Work(l), Establishing(c), Establishing(c))

LoopsInv == NetTypeOK /\ Routed /\ EstablishedOnce

LEMMA LoopsInit == NetInit => LoopsInv
<1> SUFFICES ASSUME NetInit PROVE LoopsInv
  OBVIOUS
<1>1. NetTypeOK
  BY DEF NetInit, NetTypeOK, ConnStates
<1>2. \A l \in Loop : Work(l) = <<>>
  BY DEF NetInit, Work
<1>3. \A l \in Loop : \A e, f : ~Has(Work(l), e) /\ ~Before(Work(l), e, f)
  BY <1>2 DEF Has, Before
<1>4. QED
  BY <1>1, <1>3 DEF LoopsInv, Routed, EstablishedOnce

\* A step that adds no work, or at most a send, and establishes nothing.
LEMMA EstablishedKept ==
  ASSUME EstablishedOnce,
         \A c \in Conn : conn[c] = "accepted" => conn'[c] = "accepted",
         \A l \in Loop, c \in Conn :
           /\ Has(Work(l)', Establishing(c)) => Has(Work(l), Establishing(c))
           /\ Before(Work(l)', Establishing(c), Establishing(c))
                => Before(Work(l), Establishing(c), Establishing(c))
  PROVE  EstablishedOnce'
<1>1. /\ \A l \in Loop, c \in Conn : Has(Work(l)', Establishing(c)) => conn'[c] = "accepted"
      /\ \A l \in Loop, c \in Conn : ~Before(Work(l)', Establishing(c), Establishing(c))
  BY DEF EstablishedOnce
<1>2. QED
  BY <1>1 DEF EstablishedOnce, Has, Before, Establishing

\* Running a functor takes it off the head of the work.
LEMMA WorkShrinks ==
  ASSUME NetTypeOK, NEW l \in Loop, NEW op, Runs(l, op), pending' = pending,
         NEW k \in Loop
  PROVE  /\ \A e : Has(Work(k)', e) => Has(Work(k), e)
         /\ \A e, f : Before(Work(k)', e, f) => Before(Work(k), e, f)
BY WorkRun, WorkTypes, TailHas

LEMMA LoopsAccept ==
  ASSUME LoopsInv, NEW c \in Conn, Accept(c)
  PROVE  LoopsInv' /\ \A d \in Conn : SameLine(d)
<1> DEFINE f == Establishing(c)
           l == LoopOf[c]
<1>1. /\ conn[c] = "absent" /\ conn' = [conn EXCEPT ![c] = "accepted"]
      /\ pending' = Queued(l, f) /\ batch' = batch /\ stream' = stream
  BY DEF Accept, Establishing
<1>2. f \in Functor /\ f.op = "establish" /\ f.conn = c /\ l \in Loop
  BY ChatAssumption DEF Establishing, Functor
<1> HIDE DEF f
<1>3. NetTypeOK'
  BY NetOther DEF LoopsInv
<1>4. Routed'
  BY <1>1, <1>2, RoutedQueued DEF LoopsInv
<1>5. \A d \in Conn : SameLine(d)
  <2>1. \A d \in Conn : conn'[d] # "disconnected" <=> conn[d] # "disconnected"
    BY <1>1 DEF LoopsInv, NetTypeOK
  <2>2. QED
    BY <1>1, <1>2, <2>1, LineQueued DEF LoopsInv
<1>6. ASSUME NEW k \in Loop, NEW d \in Conn
      PROVE  /\ Has(Work(k)', Establishing(d)) => conn'[d] = "accepted"
             /\ ~Before(Work(k)', Establishing(d), Establishing(d))
  <2>1. /\ Has(Work(k), Establishing(d)) => conn[d] = "accepted"
        /\ ~Before(Work(k), Establishing(d), Establishing(d))
        /\ Work(k) \in Seq(Functor) /\ conn \in [Conn -> ConnStates]
    BY WorkTypes DEF LoopsInv, EstablishedOnce, NetTypeOK
  <2>2. Establishing(d) = f => d = c
    BY DEF Establishing, f
  <2>3. CASE k = l
    <3>1. Work(k)' = Append(Work(k), f)
      BY <1>1, <1>2, <2>3, WorkQueued DEF LoopsInv
    <3>2. /\ Has(Work(k)', Establishing(d))
               <=> Has(Work(k), Establishing(d)) \/ Establishing(d) = f
          /\ Before(Work(k)', Establishing(d), Establishing(d))
               <=> \/ Before(Work(k), Establishing(d), Establishing(d))
                   \/ Has(Work(k), Establishing(d)) /\ Establishing(d) = f
      BY <1>2, <2>1, <3>1, AppendHas
    <3>3. QED
      BY <1>1, <2>1, <2>2, <3>2
  <2>4. CASE k # l
    BY <1>1, <1>2, <2>1, <2>4, WorkQueued DEF LoopsInv
  <2>5. QED
    BY <2>3, <2>4
<1>7. EstablishedOnce'
  BY <1>6 DEF EstablishedOnce, Has, Before, Establishing
<1>8. QED
  BY <1>3, <1>4, <1>5, <1>7 DEF LoopsInv

LEMMA LoopsInvalidLength ==
  ASSUME LoopsInv, NEW c \in Conn, InvalidLength(c)
  PROVE  LoopsInv' /\ \A d \in Conn : SameLine(d)
<1>1. /\ conn' = [conn EXCEPT ![c] = AfterShutdown(@)] /\ stream' = stream
      /\ \A k : Work(k)' = Work(k)
  BY DEF InvalidLength, Work
<1>2. /\ \A d \in Conn : conn'[d] # "disconnected" <=> conn[d] # "disconnected"
      /\ \A d \in Conn : conn[d] = "accepted" => conn'[d] = "accepted"
  BY <1>1 DEF LoopsInv, NetTypeOK, AfterShutdown
<1>3. EstablishedOnce'
  BY <1>1, <1>2, EstablishedKept DEF LoopsInv
<1>4. Routed'
  BY <1>1 DEF LoopsInv, Routed, Has
<1>5. QED
  BY <1>1, <1>2, <1>3, <1>4, NetOther, LineUntouched DEF LoopsInv

LEMMA LoopsTake ==
  ASSUME LoopsInv, NEW l \in Loop, TakeFunctors(l)
  PROVE  LoopsInv' /\ \A d \in Conn : SameLine(d)
<1>1. conn' = conn /\ \A k \in Loop : Work(k)' = Work(k)
  BY WorkTaken DEF TakeFunctors, LoopsInv
<1>2. EstablishedOnce'
  BY <1>1, EstablishedKept DEF LoopsInv
<1>3. QED
  BY <1>2, NetOther, RoutedTaken, LineTaken DEF LoopsInv

LEMMA LoopsRunSend ==
  ASSUME LoopsInv, NEW l \in Loop, RunSend(l)
  PROVE  LoopsInv' /\ \A d \in Conn : SameLine(d)
<1>1. Runs(l, "send") /\ conn' = conn /\ pending' = pending
  BY DEF RunSend
<1>2. EstablishedOnce'
  BY <1>1, WorkShrinks, EstablishedKept DEF LoopsInv
<1>3. QED
  BY <1>1, <1>2, NetOther, RoutedRun, LineRunSend DEF LoopsInv


LEMMA LoopsStutter ==
  ASSUME LoopsInv, UNCHANGED <<conn, pending, batch, said, stream>>
  PROVE  LoopsInv' /\ \A d \in Conn : SameLine(d)
<1>1. NetTypeOK' /\ \A k : Work(k)' = Work(k)
  BY DEF LoopsInv, NetTypeOK, Work
<1>2. EstablishedOnce'
  BY <1>1, EstablishedKept DEF LoopsInv
<1>3. Routed'
  BY <1>1 DEF LoopsInv, Routed, Has
<1>4. QED
  BY <1>1, <1>2, <1>3, LineUntouched DEF LoopsInv

LEMMA LoopsUp ==
  ASSUME LoopsInv, NEW l \in Loop, Runs(l, "establish"),
         NEW c, c = Head(batch[l]).conn, conn' = [conn EXCEPT ![c] = "connected"],
         UNCHANGED <<pending, said, stream>>
  PROVE  /\ LoopsInv' /\ \A d \in Conn : SameLine(d)
         /\ c \in Conn /\ conn[c] = "accepted"
<1>0. NetTypeOK /\ Routed /\ EstablishedOnce
  BY DEF LoopsInv
<1> DEFINE f == Head(batch[l])
<1>1. f \in Functor /\ f.op = "establish" /\ batch' \in [Loop -> Seq(Functor)]
  BY <1>0, RunsTypes
<1>2. f = Establishing(c) /\ c \in Conn
  BY <1>1 DEF Functor, Establishing
<1>3. /\ Work(l) # <<>> /\ Head(Work(l)) = f /\ Work(l)' = Tail(Work(l))
      /\ Work(l) \in Seq(Functor)
  BY <1>0, WorkRun, WorkTypes
<1>4. Has(Work(l), f) /\ LoopOf[c] = l /\ conn[c] = "accepted"
  <2>1. Has(Work(l), f)
    BY <1>3, TailHas
  <2>2. QED
    BY <1>0, <1>1, <1>2, <2>1 DEF Routed, EstablishedOnce
<1>5. NetTypeOK' /\ Routed'
  BY <1>0, <1>1, <1>2, RoutedRun DEF NetTypeOK, ConnStates
<1>6. \A d \in Conn : SameLine(d)
  <2>1. \A d \in Conn : conn'[d] # "disconnected" <=> conn[d] # "disconnected"
    BY <1>0, <1>2, <1>4 DEF NetTypeOK
  <2>2. \A d, m : f # Sending(d, m)
    BY <1>1 DEF Sending
  <2>3. QED
    BY <1>0, <2>1, <2>2, LineRun
<1>7. ASSUME NEW k \in Loop, NEW d \in Conn
      PROVE  /\ Has(Work(k)', Establishing(d)) => conn'[d] = "accepted"
             /\ ~Before(Work(k)', Establishing(d), Establishing(d))
  <2>1. /\ Has(Work(k)', Establishing(d)) => Has(Work(k), Establishing(d))
        /\ ~Before(Work(k)', Establishing(d), Establishing(d))
    BY <1>0, WorkShrinks DEF EstablishedOnce
  <2>2. ASSUME Has(Work(k)', Establishing(d)) PROVE d # c
    <3>1. k = LoopOf[d]
      <4>1. Establishing(d) \in Functor /\ Establishing(d).conn = d
        BY DEF Establishing, Functor
      <4>2. QED
        BY <1>0, <2>1, <2>2, <4>1 DEF Routed
    <3>2. SUFFICES ASSUME d = c PROVE FALSE
      OBVIOUS
    <3>3. Before(Work(l), f, f)
      <4>1. k = l /\ Has(Tail(Work(l)), f)
        BY <1>2, <1>3, <1>4, <2>2, <3>1, <3>2
      <4> HIDE DEF f
      <4>2. Before(Work(l), f, f) <=> Before(Tail(Work(l)), f, f) \/ (f = f /\ Has(Tail(Work(l)), f))
        BY <1>3, TailHas
      <4>3. QED
        BY <4>1, <4>2
    <3>4. QED
      BY <1>0, <1>2, <3>3 DEF EstablishedOnce
  <2>3. QED
    BY <1>0, <1>2, <2>1, <2>2 DEF EstablishedOnce, NetTypeOK
<1>8. EstablishedOnce'
  BY <1>7 DEF EstablishedOnce, Has, Before, Establishing
<1>9. QED
  BY <1>2, <1>4, <1>5, <1>6, <1>8 DEF LoopsInv

\* When a client goes down its line ends with what was written to it.
LEMMA LoopsDown ==
  ASSUME LoopsInv, NEW c \in Conn, Readable(conn[c]),
         conn' = [conn EXCEPT ![c] = "disconnected"],
         UNCHANGED <<pending, batch, said, stream>>
  PROVE  /\ LoopsInv'
         /\ \A d \in Conn : d # c => SameLine(d)
         /\ \A m, k : /\ OnLine(c, m)' <=> Reads(c, m)
                      /\ Ahead(c, m, k)' <=> Before(stream[c], m, k)
<1>1. \A k : Work(k)' = Work(k)
  BY DEF Work
<1>2. /\ NetTypeOK'
      /\ \A d \in Conn : d # c => conn'[d] = conn[d]
      /\ conn'[c] = "disconnected"
      /\ \A d \in Conn : conn[d] = "accepted" => conn'[d] = "accepted"
  BY DEF LoopsInv, NetTypeOK, ConnStates, Readable
<1>3. EstablishedOnce'
  BY <1>1, <1>2, EstablishedKept DEF LoopsInv
<1>4. Routed'
  BY <1>1 DEF LoopsInv, Routed, Has
<1>5. \A d \in Conn : d # c => SameLine(d)
  BY <1>1, <1>2, LineUntouched
<1>6. ASSUME NEW m, NEW k
      PROVE  /\ OnLine(c, m)' <=> Reads(c, m)
             /\ Ahead(c, m, k)' <=> Before(stream[c], m, k)
  <2>1. /\ Reads(c, m)' <=> Reads(c, m)
        /\ ~Heading(c, m)' /\ ~Heading(c, k)'
    BY <1>2, LinePrimed DEF Reads
  <2>2. OnLine(c, m)' <=> Reads(c, m)
    BY <2>1, LinePrimed
  <2>3. Ahead(c, m, k)' <=> Before(stream[c], m, k)
    BY <1>2, <2>1, LinePrimed
  <2>4. QED
    BY <2>2, <2>3
<1>7. QED
  BY <1>2, <1>3, <1>4, <1>5, <1>6 DEF LoopsInv

\* Decoding a message changes no line.
LEMMA LoopsDecode ==
  ASSUME LoopsInv, NEW c \in Conn, Decode(c), UNCHANGED <<conn, pending, batch, stream>>
  PROVE  LoopsInv' /\ \A d \in Conn : SameLine(d)
<1>1. NetTypeOK' /\ \A k : Work(k)' = Work(k)
  BY DEF LoopsInv, NetTypeOK, Decode, Work
<1>2. EstablishedOnce'
  BY <1>1, EstablishedKept DEF LoopsInv
<1>3. Routed'
  BY <1>1 DEF LoopsInv, Routed, Has
<1>4. QED
  BY <1>1, <1>2, <1>3, LineUntouched DEF LoopsInv

LEMMA LoopsSend ==
  ASSUME LoopsInv, NEW d \in Conn, NEW m \in Message, NEW l \in Loop,
         l = LoopOf[m.from], Send(l, d, m), UNCHANGED <<conn, batch, said>>
  PROVE  LoopsInv'
<1>1. NetTypeOK'
  BY SendTypes DEF LoopsInv, NetTypeOK
<1>2. Routed'
  BY LineSend DEF LoopsInv
<1>3. ASSUME NEW k \in Loop, NEW c \in Conn
      PROVE  /\ Has(Work(k)', Establishing(c)) => Has(Work(k), Establishing(c))
             /\ Before(Work(k)', Establishing(c), Establishing(c))
                  => Before(Work(k), Establishing(c), Establishing(c))
  <2>1. CASE pending' = pending
    BY <2>1 DEF Work
  <2>2. CASE pending' # pending
    <3> DEFINE f == Sending(d, m)
               q == LoopOf[d]
    <3>1. pending' = Queued(q, f)
      BY <2>2 DEF Send, Sending
    <3>2. f \in Functor /\ q \in Loop /\ f # Establishing(c)
      BY ChatAssumption DEF Functor, Sending, Establishing
    <3> HIDE DEF f, q
    <3>3. Work(k) \in Seq(Functor)
      BY WorkTypes DEF LoopsInv
    <3>4. Work(k)' = Append(Work(k), f) \/ Work(k)' = Work(k)
      BY <3>1, <3>2, WorkQueued DEF LoopsInv
    <3>5. CASE Work(k)' = Append(Work(k), f)
      <4>1. /\ Has(Append(Work(k), f), Establishing(c)) => Has(Work(k), Establishing(c))
            /\ Before(Append(Work(k), f), Establishing(c), Establishing(c))
                 => Before(Work(k), Establishing(c), Establishing(c))
        BY <3>2, <3>3, AppendHas
      <4>2. QED
        BY <3>5, <4>1
    <3>6. QED
      BY <3>4, <3>5
  <2>3. QED
    BY <2>1, <2>2
<1>4. EstablishedOnce'
  BY <1>3, EstablishedKept DEF LoopsInv
<1>5. QED
  BY <1>1, <1>2, <1>4 DEF LoopsInv

-----------------------------------------------------------------------------
(* server_threaded_efficient.cc: what comes from one sender comes in order. *)

\* How far the messages of s have come to a client d that is sent them all.
Sent(d, s) == IF Walking(s) /\ d \notin reached[s] THEN said[s] - 1 ELSE said[s]

\* A broadcast finds every client that is connected, and has reached nobody
\* before it begins; no client gets anything before it is connected.
Listening ==
  /\ \A d \in Conn : conn[d] = "connected" => d \in lists[connections]
  /\ \A c \in Conn : ~Walking(c) => reached[c] = {}
  /\ \A d \in Conn, m \in Message :
       conn[d] \in {"absent", "accepted"} => ~OnLine(d, m)

\* Lines have the messages of one sender in order and without gaps, up to the
\* last one while the client is connected; and a client that came too late for
\* a broadcast has nothing of that sender.
LinesInOrder ==
  /\ \A d \in Conn, m, k \in Message : Ahead(d, m, k) /\ m.from = k.from => m.n < k.n
  /\ \A d \in Conn, m, k \in Message :
       OnLine(d, m) /\ OnLine(d, k) /\ m.from = k.from
         => \A n \in m.n + 1 .. k.n - 1 : OnLine(d, [from |-> m.from, n |-> n])

LinesUpToDate ==
  /\ \A d \in Conn, m \in Message : OnLine(d, m) => m.n <= Sent(d, m.from)
  /\ \A d \in Conn, m \in Message :
       OnLine(d, m) /\ conn[d] = "connected"
         => \A n \in m.n .. Sent(d, m.from) : OnLine(d, [from |-> m.from, n |-> n])
  /\ \A d \in Conn, m \in Message :
       /\ OnLine(d, m) /\ conn[d] = "connected"
       /\ Walking(m.from)
       => d \in found[m.from]

OrderInv == IInv /\ LoopsInv /\ Listening /\ LinesInOrder /\ LinesUpToDate

LEMMA OrderTypes ==
  ASSUME OrderInv
  PROVE  /\ TypeOK /\ NetTypeOK /\ BroadcastsDecoded
         /\ conn \in [Conn -> ConnStates] /\ said \in [Conn -> Nat]
         /\ snapshot \in [Conn -> 0..Len(lists)] /\ connections \in 1..Len(lists)
         /\ reached \in [Conn -> SUBSET Conn] /\ found \in [Conn -> SUBSET Conn]
         /\ \A m \in Message : m.from \in Conn /\ m.n \in Nat
         /\ \A c \in Conn : Walking(c) => lists[snapshot[c]] = found[c]
<1>1. TypeOK /\ NetTypeOK
  BY DEF OrderInv, IInv, SnapshotStable, TypeOK
<1>2. \A m \in Message : m.from \in Conn /\ m.n \in Nat
  BY ChatAssumption DEF Message
<1>3. QED
  BY <1>1, <1>2 DEF OrderInv, IInv, SnapshotStable, TypeOK, NetTypeOK

\* A step that sends nothing, and after which the messages that have come to a
\* connected client are still all there are.
LEMMA LinesKept ==
  ASSUME LinesInOrder, LinesUpToDate, \A d \in Conn : SameLine(d),
         \A d \in Conn, m \in Message : OnLine(d, m) => m.n <= Sent(d, m.from)',
         \A d \in Conn, m \in Message :
           OnLine(d, m) /\ conn'[d] = "connected"
             => /\ conn[d] = "connected" /\ Sent(d, m.from)' = Sent(d, m.from)
                /\ Walking(m.from)' => d \in found'[m.from]
  PROVE  LinesInOrder' /\ LinesUpToDate'
<1>1. /\ \A d \in Conn : \A m : OnLine(d, m)' <=> OnLine(d, m)
      /\ \A d \in Conn : \A m, k : Ahead(d, m, k)' <=> Ahead(d, m, k)
  BY DEF SameLine
<1>2. LinesInOrder'
  BY <1>1 DEF LinesInOrder
<1>3. LinesUpToDate'
  <2>1. ASSUME NEW d \in Conn, NEW m \in Message, OnLine(d, m)', conn'[d] = "connected"
        PROVE  \A n \in m.n .. Sent(d, m.from)' : OnLine(d, [from |-> m.from, n |-> n])'
    BY <1>1, <2>1 DEF LinesUpToDate
  <2>2. QED
    BY <1>1, <2>1 DEF LinesUpToDate
<1>4. QED
  BY <1>2, <1>3

\* The set that connections_ points to after a change.
LEMMA ChangedSet ==
  ASSUME TypeOK, NEW new \in SUBSET Conn, Change(new)
  PROVE  /\ lists'[connections'] = new
         /\ UNCHANGED <<snapshot, reached, found>>
<1>1. lists \in Seq(SUBSET Conn) /\ connections \in 1..Len(lists) /\ Len(lists) \in Nat
  BY DEF TypeOK
<1>2. CASE Unique
  BY <1>1, <1>2 DEF Change
<1>3. CASE ~Unique
  BY <1>1, <1>3 DEF Change
<1>4. QED
  BY <1>2, <1>3 DEF Change

\* What the loops do of themselves.
LEMMA OrderQuiet ==
  ASSUME OrderInv, IInv', LoopsInv', \A d \in Conn : SameLine(d),
         UNCHANGED <<said, chat>>,
         \A d \in Conn : /\ conn'[d] = "connected" => conn[d] = "connected"
                         /\ conn'[d] \in {"absent", "accepted"}
                              => conn[d] \in {"absent", "accepted"}
  PROVE  OrderInv'
<1>1. LinesInOrder' /\ LinesUpToDate'
  <2>1. /\ \A d, s : Sent(d, s)' = Sent(d, s)
        /\ \A s : Walking(s)' <=> Walking(s)
        /\ found' = found
    BY DEF chat, Sent, Walking
  <2>2. QED
    BY <2>1, LinesKept, OrderTypes DEF OrderInv, LinesUpToDate
<1>2. Listening'
  <2>1. \A d \in Conn, m \in Message : OnLine(d, m)' => OnLine(d, m)
    BY DEF SameLine
  <2>2. QED
    BY <2>1 DEF OrderInv, Listening, chat, Walking
<1>3. QED
  BY <1>1, <1>2 DEF OrderInv

LEMMA OrderOther ==
  ASSUME OrderInv,
         \/ \E c \in Conn : Other(Accept(c)) \/ Other(InvalidLength(c))
         \/ \E l \in Loop : Other(TakeFunctors(l)) \/ Other(RunSend(l))
  PROVE  OrderInv'
<1>0. LoopsInv /\ conn \in [Conn -> ConnStates]
  BY OrderTypes DEF OrderInv
<1>1. IInv'
  BY OtherKeeps DEF OrderInv
<1>2. /\ LoopsInv' /\ \A d \in Conn : SameLine(d)
      /\ UNCHANGED <<said, chat>>
  BY <1>0, LoopsAccept, LoopsInvalidLength, LoopsTake, LoopsRunSend
     DEF Other, Accept, InvalidLength, TakeFunctors, RunSend
<1>3. \A d \in Conn : /\ conn'[d] = "connected" => conn[d] = "connected"
                      /\ conn'[d] \in {"absent", "accepted"}
                           => conn[d] \in {"absent", "accepted"}
  BY <1>0 DEF Other, Accept, InvalidLength, TakeFunctors, RunSend, AfterShutdown
<1>4. QED
  BY <1>1, <1>2, <1>3, OrderQuiet

\* A client is connected with nothing on its line.
LEMMA OrderUp ==
  ASSUME OrderInv, NEW l \in Loop, OnConnectionUp(l)
  PROVE  OrderInv'
<1>1. PICK c : c = Head(batch[l]).conn
  OBVIOUS
<1>2. /\ Runs(l, "establish") /\ conn' = [conn EXCEPT ![c] = "connected"]
      /\ Change(lists[connections] \cup {c})
      /\ UNCHANGED <<pending, said, stream>>
  BY <1>1 DEF OnConnectionUp
<1>3. LoopsInv' /\ (\A d \in Conn : SameLine(d)) /\ c \in Conn /\ conn[c] = "accepted"
  BY <1>1, <1>2, LoopsUp DEF OrderInv
<1>4. IInv'
  BY OnConnectionUpKeeps DEF OrderInv
<1>5. /\ lists'[connections'] = lists[connections] \cup {c}
      /\ UNCHANGED <<snapshot, reached, found>>
  BY <1>2, <1>3, OrderTypes, CurrentSet, ChangedSet
<1>6. \A d \in Conn : d # c => conn'[d] = conn[d]
  BY <1>2
<1>7. \A d \in Conn, m \in Message : OnLine(d, m) /\ conn'[d] = "connected"
                                      => conn[d] = "connected"
  BY <1>3, <1>6 DEF OrderInv, Listening
<1>8. LinesInOrder' /\ LinesUpToDate'
  <2>1. /\ \A d, s : Sent(d, s)' = Sent(d, s)
        /\ \A s : Walking(s)' <=> Walking(s)
    BY <1>2, <1>5 DEF Sent, Walking
  <2>2. QED
    BY <1>3, <1>5, <1>7, <2>1, LinesKept DEF OrderInv, LinesUpToDate
<1>9. Listening'
  <2>1. \A d \in Conn, m \in Message : OnLine(d, m)' => OnLine(d, m)
    BY <1>3 DEF SameLine
  <2>2. conn'[c] = "connected"
    BY <1>2, <1>3, OrderTypes
  <2>3. \A d \in Conn : conn'[d] = "connected" => d \in lists'[connections']
    BY <1>5, <1>6 DEF OrderInv, Listening
  <2>4. \A d \in Conn : ~Walking(d)' => reached'[d] = {}
    BY <1>5 DEF OrderInv, Listening, Walking
  <2>5. \A d \in Conn, m \in Message :
          conn'[d] \in {"absent", "accepted"} => ~OnLine(d, m)'
    BY <1>6, <2>1, <2>2 DEF OrderInv, Listening
  <2>6. QED
    BY <2>3, <2>4, <2>5 DEF Listening
<1>10. QED
  BY <1>3, <1>4, <1>8, <1>9 DEF OrderInv

\* A client goes down: its line is cut, and what is left has no gap, for what
\* is on its way comes after all that was written.
LEMMA OrderDown ==
  ASSUME OrderInv, NEW c \in Conn, OnConnectionDown(c)
  PROVE  OrderInv'
<1>1. /\ Readable(conn[c]) /\ conn' = [conn EXCEPT ![c] = "disconnected"]
      /\ Change(lists[connections] \ {c})
      /\ UNCHANGED <<pending, batch, said, stream>>
  BY DEF OnConnectionDown
<1>2. /\ LoopsInv'
      /\ \A d \in Conn : d # c => SameLine(d)
      /\ \A m, k : /\ OnLine(c, m)' <=> Reads(c, m)
                   /\ Ahead(c, m, k)' <=> Before(stream[c], m, k)
  BY <1>1, LoopsDown DEF OrderInv
<1>3. IInv'
  BY OnConnectionDownKeeps DEF OrderInv
<1>4. /\ lists'[connections'] = lists[connections] \ {c}
      /\ UNCHANGED <<snapshot, reached, found>>
  BY <1>1, OrderTypes, CurrentSet, ChangedSet
<1>5. /\ \A d \in Conn : d # c => conn'[d] = conn[d]
      /\ conn'[c] = "disconnected"
  BY <1>1, OrderTypes
<1>6. /\ \A d \in Conn : \A m : OnLine(d, m)' => OnLine(d, m)
      /\ \A d \in Conn : \A m, k : Ahead(d, m, k)' => Ahead(d, m, k)
      /\ \A d \in Conn : \A m : d # c => (OnLine(d, m)' <=> OnLine(d, m))
  BY <1>2 DEF SameLine, OnLine, Ahead
<1>7. LinesInOrder'
  <2>1. ASSUME NEW d \in Conn, NEW m \in Message, NEW k \in Message,
               OnLine(d, m)', OnLine(d, k)', m.from = k.from,
               NEW n \in m.n + 1 .. k.n - 1
        PROVE  OnLine(d, [from |-> m.from, n |-> n])'
    <3>1. PICK w : w = [from |-> m.from, n |-> n]
      OBVIOUS
    <3>2. OnLine(d, w)
      BY <1>6, <2>1, <3>1 DEF OrderInv, LinesInOrder
    <3>3. CASE d # c
      BY <1>6, <3>1, <3>2, <3>3
    <3>4. CASE d = c
      <4>1. Reads(c, k)
        BY <1>2, <2>1, <3>4
      <4>2. w \in Message
        BY <3>2, OrderTypes, LineMessages
      <4>3. w.n < k.n /\ w.from = k.from /\ w.n \in Int /\ k.n \in Int
        BY <2>1, <3>1, OrderTypes
      <4>4. ~Heading(c, w)
        BY <3>4, <4>1, <4>2, <4>3 DEF OrderInv, LinesInOrder, Ahead
      <4>5. Reads(c, w)
        BY <3>2, <3>4, <4>4 DEF OnLine
      <4>6. OnLine(c, w)'
        BY <1>2, <4>5
      <4>7. QED
        BY <3>1, <3>4, <4>6
    <3>5. QED
      BY <3>3, <3>4
  <2>2. QED
    BY <1>6, <2>1 DEF OrderInv, LinesInOrder
<1>8. LinesUpToDate'
  <2>1. /\ \A d, s : Sent(d, s)' = Sent(d, s)
        /\ \A s : Walking(s)' <=> Walking(s)
    BY <1>1, <1>4 DEF Sent, Walking
  <2>2. ASSUME NEW d \in Conn, NEW m \in Message, OnLine(d, m)', conn'[d] = "connected"
        PROVE  \A n \in m.n .. Sent(d, m.from)' : OnLine(d, [from |-> m.from, n |-> n])'
    BY <1>5, <1>6, <2>1, <2>2 DEF OrderInv, LinesUpToDate
  <2>3. QED
    BY <1>4, <1>5, <1>6, <2>1, <2>2 DEF OrderInv, LinesUpToDate
<1>9. Listening'
  <2>1. \A d \in Conn : conn'[d] = "connected" => d \in lists'[connections']
    BY <1>4, <1>5 DEF OrderInv, Listening
  <2>2. \A d \in Conn : ~Walking(d)' => reached'[d] = {}
    BY <1>4 DEF OrderInv, Listening, Walking
  <2>3. \A d \in Conn, m \in Message :
          conn'[d] \in {"absent", "accepted"} => ~OnLine(d, m)'
    BY <1>5, <1>6 DEF OrderInv, Listening
  <2>4. QED
    BY <2>1, <2>2, <2>3 DEF Listening
<1>10. QED
  BY <1>2, <1>3, <1>7, <1>8, <1>9 DEF OrderInv

\* A broadcast begins: it has still to come to everybody.
LEMMA OrderMessage ==
  ASSUME OrderInv, NEW c \in Conn, OnStringMessage(c)
  PROVE  OrderInv'
<1>1. /\ Decode(c) /\ Free(LoopOf[c])
      /\ snapshot' = [snapshot EXCEPT ![c] = connections]
      /\ found' = [found EXCEPT ![c] = lists[connections]]
      /\ UNCHANGED <<conn, pending, batch, stream, lists, connections, reached>>
  BY DEF OnStringMessage
<1>2. LoopsInv' /\ \A d \in Conn : SameLine(d)
  BY <1>1, LoopsDecode DEF OrderInv
<1>3. IInv'
  BY OnStringMessageKeeps DEF OrderInv
<1>4. /\ ~Walking(c) /\ reached[c] = {} /\ connections # 0
      /\ snapshot'[c] = connections /\ said'[c] = said[c] + 1 /\ said[c] \in Nat
      /\ found'[c] = lists[connections]
      /\ \A s \in Conn : s # c => /\ snapshot'[s] = snapshot[s] /\ said'[s] = said[s]
                                  /\ found'[s] = found[s]
  <2>1. ~Walking(c) /\ reached[c] = {}
    BY <1>1 DEF Free, OrderInv, Listening
  <2>2. QED
    BY <1>1, <2>1, OrderTypes DEF Decode
<1>5. \A d, s : s \in Conn => Sent(d, s)' = Sent(d, s)
  BY <1>1, <1>4 DEF Sent, Walking
<1>6. LinesInOrder' /\ LinesUpToDate'
  <2>1. ASSUME NEW d \in Conn, NEW m \in Message, OnLine(d, m), conn'[d] = "connected",
               Walking(m.from)'
        PROVE  d \in found'[m.from]
    <3>1. CASE m.from = c
      BY <1>1, <1>4, <2>1, <3>1 DEF OrderInv, Listening
    <3>2. CASE m.from # c
      BY <1>1, <1>4, <2>1, <3>2, OrderTypes DEF OrderInv, LinesUpToDate, Walking
    <3>3. QED
      BY <3>1, <3>2
  <2>2. \A d \in Conn, m \in Message : Sent(d, m.from)' = Sent(d, m.from)
    BY <1>5, OrderTypes
  <2>3. \A d \in Conn, m \in Message : OnLine(d, m) => m.n <= Sent(d, m.from)'
    BY <2>2 DEF OrderInv, LinesUpToDate
  <2>4. QED
    BY <1>1, <1>2, <2>1, <2>2, <2>3, LinesKept DEF OrderInv
<1>7. Listening'
  <2>1. \A d \in Conn, m \in Message : OnLine(d, m)' => OnLine(d, m)
    BY <1>2 DEF SameLine
  <2>2. \A d \in Conn : ~Walking(d)' => reached'[d] = {}
    BY <1>1, <1>4 DEF OrderInv, Listening, Walking
  <2>3. QED
    BY <1>1, <2>1, <2>2 DEF OrderInv, Listening
<1>8. QED
  BY <1>2, <1>3, <1>6, <1>7 DEF OrderInv

\* The broadcast of c comes to d: d has now all that c has said.
LEMMA OrderSend ==
  ASSUME OrderInv, NEW c \in Conn, SendNext(c)
  PROVE  OrderInv'
<1>1. PICK d \in Unreached(c) :
        /\ Send(LoopOf[c], d, Decoded(c))
        /\ reached' = [reached EXCEPT ![c] = @ \cup {d}]
  BY DEF SendNext
<1>2. /\ Walking(c)
      /\ UNCHANGED <<conn, batch, said, lists, connections, snapshot, found>>
  BY DEF SendNext
<1>3. /\ d \in Conn /\ d \in found[c] /\ d \notin reached[c] /\ LoopOf[c] \in Loop
      /\ said[c] \in 1..MaxSays[c] /\ said[c] \in Nat
  <2>1. lists[snapshot[c]] = found[c] /\ said[c] \in Nat /\ found[c] \in SUBSET Conn
    BY <1>2, OrderTypes
  <2>2. said[c] >= 1 /\ said[c] <= MaxSays[c]
    BY <1>2, OrderTypes DEF BroadcastsDecoded
  <2>3. QED
    BY <1>1, <2>1, <2>2, ChatAssumption DEF Unreached
<1>4. PICK m \in Message : m = Decoded(c) /\ m.from = c /\ m.n = said[c]
  BY <1>3, MessageOf DEF Decoded
<1>5. LoopsInv'
  BY <1>1, <1>2, <1>3, <1>4, LoopsSend DEF OrderInv
<1>6. IInv'
  BY SendNextKeeps DEF OrderInv
<1>7. /\ \A e \in Conn : e # d \/ ~Sendable(conn[d]) => SameLine(e)
      /\ Sendable(conn[d]) =>
           /\ \A x : OnLine(d, x)' <=> OnLine(d, x) \/ x = m
           /\ \A x, y : Ahead(d, x, y)' =>
                \/ Ahead(d, x, y)
                \/ OnLine(d, x) /\ y = m
                \/ LoopOf[d] = LoopOf[c] /\ x = m /\ Heading(d, y)
  BY <1>1, <1>2, <1>3, <1>4, LineSend DEF OrderInv, LoopsInv
<1>8. /\ Sent(d, c) = said[c] - 1 /\ Sent(d, c)' = said[c]
      /\ \A e, s \in Conn : ~(e = d /\ s = c) => Sent(e, s)' = Sent(e, s)
      /\ \A s : Walking(s)' <=> Walking(s)
  <2>1. /\ d \in reached'[c]
        /\ \A e, s \in Conn : ~(e = d /\ s = c) => (e \in reached'[s] <=> e \in reached[s])
    BY <1>1, <1>3, OrderTypes
  <2>2. QED
    BY <1>2, <1>3, <2>1 DEF Sent, Walking
<1>9. ASSUME NEW e \in Conn, NEW x \in Message, OnLine(e, x)
      PROVE  x.n <= Sent(e, x.from)' /\ x.n \in Nat /\ x.from \in Conn
  <2>1. x.n <= Sent(e, x.from) /\ x.n \in Nat /\ x.from \in Conn
    BY <1>9, OrderTypes DEF OrderInv, LinesUpToDate
  <2>2. CASE e = d /\ x.from = c
    BY <1>3, <1>8, <2>1, <2>2
  <2>3. CASE ~(e = d /\ x.from = c)
    BY <1>8, <2>1, <2>3
  <2>4. QED
    BY <2>1, <2>2, <2>3
<1>10. \A e \in Conn : ~Walking(e)' => reached'[e] = {}
  BY <1>1, <1>2, <1>8, OrderTypes DEF OrderInv, Listening
<1>a. CASE ~Sendable(conn[d])
  <2>1. \A e \in Conn : SameLine(e)
    BY <1>7, <1>a
  <2>2. ASSUME NEW e \in Conn, NEW x \in Message, OnLine(e, x), conn'[e] = "connected"
        PROVE  /\ conn[e] = "connected" /\ Sent(e, x.from)' = Sent(e, x.from)
               /\ Walking(x.from)' => e \in found'[x.from]
    BY <1>2, <1>8, <1>9, <1>a, <2>2 DEF OrderInv, LinesUpToDate, Sendable
  <2>3. LinesInOrder' /\ LinesUpToDate'
    BY <1>9, <2>1, <2>2, LinesKept DEF OrderInv
  <2>4. Listening'
    BY <1>2, <1>10, <2>1 DEF OrderInv, Listening, SameLine
  <2>5. QED
    BY <1>5, <1>6, <2>3, <2>4 DEF OrderInv
<1>b. CASE Sendable(conn[d])
  <2>1. /\ \A e \in Conn : \A x : OnLine(e, x)' <=> OnLine(e, x) \/ (e = d /\ x = m)
        /\ \A e \in Conn : \A x, y : Ahead(e, x, y)' =>
             \/ Ahead(e, x, y)
             \/ e = d /\ OnLine(d, x) /\ y = m
             \/ e = d /\ LoopOf[d] = LoopOf[c] /\ x = m /\ Heading(d, y)
    BY <1>7, <1>b DEF SameLine
  <2>2. /\ conn[d] = "connected"
        /\ \A x \in Message : OnLine(d, x) /\ x.from = c
             => /\ x.n <= said[c] - 1
                /\ \A n \in x.n .. said[c] - 1 : OnLine(d, [from |-> c, n |-> n])
    BY <1>3, <1>8, <1>b DEF Sendable, OrderInv, LinesUpToDate
  <2>3. m = [from |-> c, n |-> said[c]]
    BY <1>4 DEF Decoded
  <2>4. LinesInOrder'
    <3>1. ASSUME NEW e \in Conn, NEW x \in Message, NEW y \in Message,
                 Ahead(e, x, y)', x.from = y.from
          PROVE  x.n < y.n
      <4>1. CASE Ahead(e, x, y)
        BY <3>1, <4>1 DEF OrderInv, LinesInOrder
      <4>2. CASE e = d /\ OnLine(d, x) /\ y = m
        <5>1. x.n <= said[c] - 1 /\ y.n = said[c] /\ x.n \in Nat
          BY <1>4, <2>2, <3>1, <4>2, OrderTypes
        <5>2. QED
          BY <1>3, <5>1
      <4>3. CASE LoopOf[d] = LoopOf[c] /\ x = m /\ Heading(d, y)
        BY <1>3, <1>4, <3>1, <4>3, LineMessages DEF OrderInv, LoopsInv
      <4>4. QED
        BY <2>1, <3>1, <4>1, <4>2, <4>3
    <3>2. ASSUME NEW e \in Conn, NEW x \in Message, NEW y \in Message,
                 OnLine(e, x)', OnLine(e, y)', x.from = y.from,
                 NEW n \in x.n + 1 .. y.n - 1
          PROVE  OnLine(e, [from |-> x.from, n |-> n])
      <4>0. x.n \in Nat /\ y.n \in Nat /\ n \in Int
        BY <3>2, OrderTypes
      <4>1. CASE OnLine(e, x) /\ OnLine(e, y)
        BY <3>2, <4>1 DEF OrderInv, LinesInOrder
      <4>2. CASE OnLine(e, x) /\ e = d /\ y = m
        <5>1. x.from = c /\ y.n = said[c]
          BY <1>4, <3>2, <4>2
        <5>2. n \in x.n .. said[c] - 1
          BY <1>3, <3>2, <4>0, <5>1
        <5>3. QED
          BY <2>2, <4>2, <5>1, <5>2
      <4>3. CASE x = m /\ e = d
        <5>1. y.n <= said[c] /\ x.n = said[c]
          BY <1>3, <1>4, <2>1, <2>2, <3>2, <4>0, <4>3
        <5>2. QED
          BY <1>3, <3>2, <4>0, <5>1
      <4>4. QED
        BY <2>1, <3>2, <4>1, <4>2, <4>3
    <3>3. QED
      BY <2>1, <3>1, <3>2 DEF LinesInOrder
  <2>5. LinesUpToDate'
    <3>1. ASSUME NEW e \in Conn, NEW x \in Message, OnLine(e, x)'
          PROVE  x.n <= Sent(e, x.from)'
      BY <1>3, <1>4, <1>8, <1>9, <2>1, <3>1
    <3>2. ASSUME NEW e \in Conn, NEW x \in Message, OnLine(e, x)', conn'[e] = "connected",
                 NEW n \in x.n .. Sent(e, x.from)'
          PROVE  OnLine(e, [from |-> x.from, n |-> n])'
      <4>0. x.n \in Nat /\ x.from \in Conn
        BY OrderTypes
      <4>1. CASE e = d /\ x.from = c
        <5>1. n \in x.n .. said[c]
          BY <1>8, <3>2, <4>1
        <5>2. CASE n = said[c]
          BY <2>1, <2>3, <4>1, <5>2
        <5>3. CASE n # said[c]
          <6>1. n \in x.n .. said[c] - 1 /\ x # m
            BY <1>3, <1>4, <4>0, <5>1, <5>3
          <6>2. OnLine(d, [from |-> c, n |-> n])
            BY <2>1, <2>2, <3>2, <4>1, <6>1
          <6>3. QED
            BY <2>1, <4>1, <6>2
        <5>4. QED
          BY <5>2, <5>3
      <4>2. CASE ~(e = d /\ x.from = c)
        <5>1. Sent(e, x.from)' = Sent(e, x.from) /\ OnLine(e, x) /\ conn[e] = "connected"
          BY <1>2, <1>4, <1>8, <2>1, <3>2, <4>0, <4>2
        <5>2. OnLine(e, [from |-> x.from, n |-> n])
          BY <3>2, <5>1 DEF OrderInv, LinesUpToDate
        <5>3. QED
          BY <2>1, <5>2
      <4>3. QED
        BY <4>1, <4>2
    <3>3. ASSUME NEW e \in Conn, NEW x \in Message, OnLine(e, x)', conn'[e] = "connected",
                 Walking(x.from)'
          PROVE  e \in found'[x.from]
      <4>1. CASE e = d /\ x = m
        BY <1>2, <1>3, <1>4, <4>1
      <4>2. CASE OnLine(e, x)
        BY <1>2, <1>8, <3>3, <4>2 DEF OrderInv, LinesUpToDate
      <4>3. QED
        BY <2>1, <3>3, <4>1, <4>2
    <3>4. QED
      BY <3>1, <3>2, <3>3 DEF LinesUpToDate
  <2>6. Listening'
    <3>1. \A e \in Conn, x \in Message :
            conn'[e] \in {"absent", "accepted"} => ~OnLine(e, x)'
      BY <1>2, <2>1, <2>2 DEF OrderInv, Listening
    <3>2. QED
      BY <1>2, <1>10, <3>1 DEF OrderInv, Listening
  <2>7. QED
    BY <1>5, <1>6, <2>4, <2>5, <2>6 DEF OrderInv
<1>11. QED
  BY <1>a, <1>b

\* A broadcast ends when it has come to all it found; who was not among them
\* has nothing of its sender.
LEMMA OrderEnd ==
  ASSUME OrderInv, NEW c \in Conn, EndWalk(c)
  PROVE  OrderInv'
<1>1. /\ Walking(c) /\ Unreached(c) = {}
      /\ snapshot' = [snapshot EXCEPT ![c] = 0]
      /\ reached' = [reached EXCEPT ![c] = {}]
      /\ found' = [found EXCEPT ![c] = {}]
      /\ UNCHANGED <<conn, pending, batch, said, stream, lists, connections>>
  BY DEF EndWalk, net
<1>2. LoopsInv' /\ \A d \in Conn : SameLine(d)
  BY <1>1, LoopsStutter DEF OrderInv
<1>3. IInv'
  BY EndWalkKeeps DEF OrderInv
<1>4. /\ snapshot'[c] = 0 /\ reached'[c] = {} /\ said[c] \in Nat
      /\ \A s \in Conn : s # c => /\ snapshot'[s] = snapshot[s] /\ reached'[s] = reached[s]
                                  /\ found'[s] = found[s]
      /\ \A d \in Conn : d \notin reached[c] => d \notin found[c]
  BY <1>1, OrderTypes DEF Unreached
<1>5. /\ \A d \in Conn : Sent(d, c)' = said[c] /\ Sent(d, c) <= said[c] /\ Sent(d, c) \in Int
      /\ \A d \in Conn : d \in reached[c] => Sent(d, c) = said[c]
      /\ \A d \in Conn, s \in Conn : s # c => Sent(d, s)' = Sent(d, s)
  BY <1>1, <1>4 DEF Sent, Walking
<1>6. \A d \in Conn, m \in Message : OnLine(d, m) => m.n <= Sent(d, m.from)'
  <2>1. ASSUME NEW d \in Conn, NEW m \in Message, OnLine(d, m)
        PROVE  m.n <= Sent(d, m.from)'
    <3>1. m.n <= Sent(d, m.from) /\ m.n \in Nat /\ m.from \in Conn
      BY <2>1, OrderTypes DEF OrderInv, LinesUpToDate
    <3>2. QED
      BY <1>4, <1>5, <3>1
  <2>2. QED
    BY <2>1
<1>7. ASSUME NEW d \in Conn, NEW m \in Message, OnLine(d, m), conn'[d] = "connected"
      PROVE  /\ conn[d] = "connected" /\ Sent(d, m.from)' = Sent(d, m.from)
             /\ Walking(m.from)' => d \in found'[m.from]
  <2>1. conn[d] = "connected" /\ m.from \in Conn /\ (Walking(m.from) => d \in found[m.from])
    BY <1>1, <1>7, OrderTypes DEF OrderInv, LinesUpToDate
  <2>2. CASE m.from = c
    BY <1>1, <1>4, <1>5, <2>1, <2>2 DEF Walking
  <2>3. CASE m.from # c
    BY <1>4, <1>5, <2>1, <2>3 DEF Walking
  <2>4. QED
    BY <2>2, <2>3
<1>8. LinesInOrder' /\ LinesUpToDate'
  BY <1>2, <1>6, <1>7, LinesKept DEF OrderInv
<1>9. Listening'
  <2>1. \A d \in Conn : ~Walking(d)' => reached'[d] = {}
    BY <1>1, <1>4 DEF OrderInv, Listening, Walking
  <2>2. \A d \in Conn, m \in Message : OnLine(d, m)' => OnLine(d, m)
    BY <1>2 DEF SameLine
  <2>3. QED
    BY <1>1, <2>1, <2>2 DEF OrderInv, Listening
<1>10. QED
  BY <1>2, <1>3, <1>8, <1>9 DEF OrderInv

LEMMA OrderStep ==
  ASSUME OrderInv, [Next]_vars
  PROVE  OrderInv'
<1>1. CASE UNCHANGED vars
  <2>1. UNCHANGED <<conn, pending, batch, said, stream, chat>>
    BY <1>1 DEF vars, net
  <2>2. LoopsInv' /\ \A d \in Conn : SameLine(d)
    BY <2>1, LoopsStutter DEF OrderInv
  <2>3. IInv'
    BY NextKeeps DEF OrderInv
  <2>4. QED
    BY <2>1, <2>2, <2>3, OrderQuiet
<1>2. ASSUME NEW c \in Conn,
             \/ OnConnectionDown(c) \/ OnStringMessage(c)
             \/ SendNext(c) \/ EndWalk(c)
      PROVE  OrderInv'
  BY <1>2, OrderDown, OrderMessage, OrderSend, OrderEnd
<1>3. ASSUME NEW l \in Loop, OnConnectionUp(l)
      PROVE  OrderInv'
  BY <1>3, OrderUp
<1>4. QED
  BY <1>1, <1>2, <1>3, OrderOther DEF Next

LEMMA OrderInit == Init => OrderInv
<1> SUFFICES ASSUME Init PROVE OrderInv
  OBVIOUS
<1>1. IInv /\ LoopsInv
  BY InitIInv, LoopsInit DEF Init
<1>2. /\ conn = [c \in Conn |-> "absent"] /\ reached = [c \in Conn |-> {}]
      /\ stream = [c \in Conn |-> <<>>] /\ \A l \in Loop : Work(l) = <<>>
  BY DEF Init, NetInit, Work
<1>3. \A d \in Conn : \A m, k : ~OnLine(d, m) /\ ~Ahead(d, m, k)
  BY <1>2, ChatAssumption DEF OnLine, Ahead, Reads, Heading, Has, Before
<1>4. QED
  BY <1>1, <1>2, <1>3 DEF OrderInv, Listening, LinesInOrder, LinesUpToDate

\* In server_threaded_efficient.cc every client reads the messages of one
\* sender in the order they were sent and without gaps, although broadcasts of
\* different senders overlap, the set changes meanwhile, and a message written
\* at once passes those still queued for the client's loop.
THEOREM SendersInOrder == Spec => []SenderOrder
<1>1. OrderInv /\ [Next]_vars => OrderInv'
  BY OrderStep
<1>2. OrderInv => SenderOrder
  <2> SUFFICES ASSUME OrderInv, NEW d \in Conn,
                      NEW i \in 1..Len(stream[d]), NEW j \in 1..Len(stream[d]),
                      i < j, stream[d][i].from = stream[d][j].from
               PROVE  /\ stream[d][i].n < stream[d][j].n
                      /\ \A n \in stream[d][i].n + 1 .. stream[d][j].n - 1 :
                           \E k \in i..j :
                             stream[d][k] = [from |-> stream[d][i].from, n |-> n]
    BY DEF SenderOrder
  <2>1. PICK m, k : m = stream[d][i] /\ k = stream[d][j]
    OBVIOUS
  <2>2. /\ Before(stream[d], m, k) /\ Reads(d, m) /\ Reads(d, k)
        /\ m.from = k.from
    BY <2>1 DEF Before, Reads, Has
  <2>3. m \in Message /\ k \in Message /\ m.n \in Nat /\ k.n \in Nat
    BY <2>2, OrderTypes, LineMessages DEF OnLine
  <2>4. m.n < k.n
    BY <2>2, <2>3 DEF OrderInv, LinesInOrder, Ahead
  <2>5. ASSUME NEW n \in m.n + 1 .. k.n - 1
        PROVE  \E p \in i..j : stream[d][p] = [from |-> m.from, n |-> n]
    <3>1. PICK w : w = [from |-> m.from, n |-> n]
      OBVIOUS
    <3>2. OnLine(d, w)
      BY <2>2, <2>3, <3>1 DEF OrderInv, LinesInOrder, OnLine
    <3>3. w \in Message /\ w.from = m.from /\ w.n = n /\ m.n < n /\ n < k.n
      <4>1. w.from = m.from /\ w.n = n
        BY <3>1
      <4>2. m.n < n /\ n < k.n
        BY <2>3
      <4>3. w \in Message
        BY <3>2, OrderTypes, LineMessages
      <4>4. QED
        BY <4>1, <4>2, <4>3
    <3>4. ~Heading(d, w)
      BY <2>2, <2>3, <3>3 DEF OrderInv, LinesInOrder, Ahead
    <3>5. PICK p \in 1..Len(stream[d]) : stream[d][p] = w
      BY <3>2, <3>4 DEF OnLine, Reads, Has
    <3>6. p \in Nat /\ i \in Nat /\ j \in Nat
      OBVIOUS
    <3>7. i <= p
      <4>1. SUFFICES ASSUME p < i PROVE FALSE
        BY <3>6
      <4>2. Ahead(d, w, m)
        BY <2>1, <3>5, <4>1 DEF Ahead, Before
      <4>3. w.n < m.n
        BY <2>3, <3>3, <4>2 DEF OrderInv, LinesInOrder
      <4>4. QED
        BY <2>3, <3>3, <4>3
    <3>8. p <= j
      <4>1. SUFFICES ASSUME j < p PROVE FALSE
        BY <3>6
      <4>2. Ahead(d, k, w)
        BY <2>1, <3>5, <4>1 DEF Ahead, Before
      <4>3. k.n < w.n
        BY <2>2, <2>3, <3>3, <4>2 DEF OrderInv, LinesInOrder
      <4>4. QED
        BY <2>3, <3>3, <4>3
    <3>9. QED
      BY <3>1, <3>5, <3>6, <3>7, <3>8
  <2>6. QED
    BY <2>1, <2>4, <2>5
<1>3. QED
  BY OrderInit, <1>1, <1>2, PTL DEF Spec

-----------------------------------------------------------------------------
(* server_threaded.cc, whose connections_ is a set and not a pointer to one. *)

VARIABLES
  room,    \* its connections_
  locked,
  todo

Threaded == INSTANCE ChatThreaded WITH connections <- room

\* What both servers do with their loops.
LEMMA SameNet ==
  /\ Threaded!NetTypeOK <=> NetTypeOK
  /\ Threaded!NetInit <=> NetInit
  /\ Threaded!Message = Message
  /\ \A c : Threaded!Accept(c) <=> Accept(c)
  /\ \A c : Threaded!InvalidLength(c) <=> InvalidLength(c)
  /\ \A c : (Threaded!Decode(c) <=> Decode(c)) /\ Threaded!Decoded(c) = Decoded(c)
  /\ \A c : Threaded!Decoded(c)' = Decoded(c)'
  /\ \A l : Threaded!TakeFunctors(l) <=> TakeFunctors(l)
  /\ \A l : Threaded!RunSend(l) <=> RunSend(l)
  /\ \A l, op : Threaded!Runs(l, op) <=> Runs(l, op)
  /\ \A l, d, m : Threaded!Send(l, d, m) <=> Send(l, d, m)
<1>1. Threaded!ConnStates = ConnStates /\ Threaded!Message = Message
  BY DEF Threaded!ConnStates, ConnStates, Threaded!Message, Message
<1>2. Threaded!Functor = Functor
  BY <1>1 DEF Threaded!Functor, Functor
<1>3. /\ Threaded!NetTypeOK <=> NetTypeOK
      /\ Threaded!NetInit <=> NetInit
  BY <1>1, <1>2 DEF Threaded!NetTypeOK, NetTypeOK, Threaded!NetInit, NetInit
<1>4. /\ \A l, f : Threaded!Queued(l, f) = Queued(l, f)
      /\ \A c : Threaded!Event(c) <=> Event(c)
      /\ \A s : Threaded!AfterShutdown(s) = AfterShutdown(s)
      /\ \A s : Threaded!Readable(s) <=> Readable(s)
      /\ \A s : Threaded!Sendable(s) <=> Sendable(s)
  BY DEF Threaded!Queued, Queued, Threaded!Event, Event,
         Threaded!AfterShutdown, AfterShutdown, Threaded!Readable, Readable,
         Threaded!Sendable, Sendable
<1>5. \A c : Threaded!Accept(c) <=> Accept(c)
  BY <1>4 DEF Threaded!Accept, Accept
<1>6. \A c : Threaded!InvalidLength(c) <=> InvalidLength(c)
  BY <1>4 DEF Threaded!InvalidLength, InvalidLength
<1>7. /\ \A c : (Threaded!Decode(c) <=> Decode(c)) /\ Threaded!Decoded(c) = Decoded(c)
      /\ \A c : Threaded!Decoded(c)' = Decoded(c)'
  BY <1>4 DEF Threaded!Decode, Decode, Threaded!Decoded, Decoded
<1>8. \A l : Threaded!TakeFunctors(l) <=> TakeFunctors(l)
  BY DEF Threaded!TakeFunctors, TakeFunctors
<1>9. \A l, op : Threaded!Runs(l, op) <=> Runs(l, op)
  BY DEF Threaded!Runs, Runs
<1>10. \A l : Threaded!RunSend(l) <=> RunSend(l)
  BY <1>9 DEF Threaded!RunSend, RunSend, Threaded!Written, Written
<1>11. \A l, d, m : Threaded!Send(l, d, m) <=> Send(l, d, m)
  BY <1>4 DEF Threaded!Send, Send
<1>12. QED
  BY <1>1, <1>3, <1>5, <1>6, <1>7, <1>8, <1>9, <1>10, <1>11

\* m reaches d from another loop than d's own.
Foreign(d, m) == m \in Message /\ LoopOf[m.from] # LoopOf[d]

\* No client is to get a foreign message twice, and no two clients are to get
\* two of them in different orders.
OneOrder ==
  /\ \A d \in Conn, m \in Message : Foreign(d, m) => ~Ahead(d, m, m)
  /\ \A c, d \in Conn, m, k \in Message :
       Foreign(c, m) /\ Foreign(d, m) /\ Foreign(c, k) /\ Foreign(d, k)
         => ~(Ahead(c, m, k) /\ Ahead(d, k, m))

\* What is on a line has been decoded; the message being broadcast is the last
\* one wherever it has come to, and has not come to those still to be sent it.
Latest ==
  /\ \A d \in Conn, m \in Message :
       Foreign(d, m) /\ OnLine(d, m) => m.n <= said[m.from]
  /\ \A c \in locked, d \in Conn :
       Foreign(d, Decoded(c))
         => /\ d \in todo[c] => ~OnLine(d, Decoded(c))
            /\ \A k \in Message : Foreign(d, k) => ~Ahead(d, Decoded(c), k)

\* The lock has one holder, who broadcasts the message it decoded.
OneLockHolder ==
  /\ room \in SUBSET Conn /\ locked \in SUBSET Conn /\ todo \in [Conn -> SUBSET Conn]
  /\ \A c, d \in locked : c = d
  /\ \A c \in Conn : todo[c] # {} => c \in locked
  /\ \A c \in Conn : said[c] <= MaxSays[c] /\ (c \in locked => said[c] >= 1)

ThreadedInv == LoopsInv /\ OneLockHolder /\ Latest /\ OneOrder

\* The line of d gets no foreign message, and loses some at most.
Shrinks(d) ==
  \A m, k : Foreign(d, m) /\ Foreign(d, k)
              => /\ OnLine(d, m)' => OnLine(d, m)
                 /\ Ahead(d, m, k)' => Ahead(d, m, k)

\* A step that sends nothing foreign and at most ends a broadcast.
LEMMA ThreadedQuiet ==
  ASSUME ThreadedInv, LoopsInv', \A d \in Conn : Shrinks(d), said' = said,
         room' \in SUBSET Conn, todo' \in [Conn -> SUBSET Conn],
         locked' \subseteq locked,
         \A c \in Conn : todo'[c] \subseteq todo[c] /\ (todo'[c] # {} => c \in locked')
  PROVE  ThreadedInv'
<1>1. OneLockHolder'
  BY DEF ThreadedInv, OneLockHolder
<1>2. /\ \A d \in Conn : \A m : Foreign(d, m) /\ OnLine(d, m)' => OnLine(d, m)
      /\ \A d \in Conn : \A m, k :
           Foreign(d, m) /\ Foreign(d, k) /\ Ahead(d, m, k)' => Ahead(d, m, k)
  BY DEF Shrinks
<1>3. Latest'
  <2>1. /\ \A d \in Conn, m \in Message :
             Foreign(d, m) /\ OnLine(d, m)' => m.n <= said'[m.from]
        /\ \A c \in locked', d \in Conn :
             Foreign(d, Decoded(c))
               => /\ d \in todo'[c] => ~OnLine(d, Decoded(c))
                  /\ \A k \in Message : Foreign(d, k) => ~Ahead(d, Decoded(c), k)
    BY <1>2 DEF ThreadedInv, Latest, OneLockHolder
  <2>2. ASSUME NEW c \in locked', NEW d \in Conn, Foreign(d, Decoded(c))
        PROVE  /\ d \in todo'[c] => ~OnLine(d, Decoded(c))'
               /\ \A k \in Message : Foreign(d, k) => ~Ahead(d, Decoded(c), k)'
    <3>1. PICK m : m = Decoded(c)
      OBVIOUS
    <3>2. Decoded(c)' = m
      BY <3>1 DEF Decoded
    <3>3. /\ d \in todo'[c] => ~OnLine(d, m)'
          /\ \A k \in Message : Foreign(d, k) => ~Ahead(d, m, k)'
      BY <1>2, <2>1, <2>2, <3>1
    <3>4. QED
      BY <3>1, <3>2, <3>3
  <2>3. QED
    BY <2>1, <2>2 DEF Latest, Foreign, Decoded
<1>4. OneOrder'
  BY <1>2 DEF ThreadedInv, OneOrder, Foreign
<1>5. QED
  BY <1>1, <1>3, <1>4 DEF ThreadedInv

LEMMA SameShrinks ==
  ASSUME \A d \in Conn : SameLine(d)
  PROVE  \A d \in Conn : Shrinks(d)
BY DEF SameLine, Shrinks

LEMMA ThreadedUp ==
  ASSUME ThreadedInv, NEW l \in Loop, Threaded!OnConnectionUp(l)
  PROVE  ThreadedInv'
<1>1. PICK c : c = Head(batch[l]).conn
  OBVIOUS
<1>2. /\ Runs(l, "establish") /\ conn' = [conn EXCEPT ![c] = "connected"]
      /\ room' = room \cup {c} /\ UNCHANGED <<pending, said, stream, locked, todo>>
  BY <1>1, SameNet DEF Threaded!OnConnectionUp
<1>3. LoopsInv' /\ (\A d \in Conn : SameLine(d)) /\ c \in Conn
  BY <1>1, <1>2, LoopsUp DEF ThreadedInv
<1>4. /\ room' \in SUBSET Conn /\ todo' \in [Conn -> SUBSET Conn]
      /\ \A d \in Conn : todo'[d] # {} => d \in locked'
  BY <1>2, <1>3 DEF ThreadedInv, OneLockHolder
<1>5. QED
  BY <1>2, <1>3, <1>4, SameShrinks, ThreadedQuiet

LEMMA ThreadedDown ==
  ASSUME ThreadedInv, NEW c \in Conn, Threaded!OnConnectionDown(c)
  PROVE  ThreadedInv'
<1>1. /\ Readable(conn[c]) /\ conn' = [conn EXCEPT ![c] = "disconnected"]
      /\ room' = room \ {c}
      /\ UNCHANGED <<pending, batch, said, stream, locked, todo>>
  BY DEF Threaded!OnConnectionDown, Threaded!Readable, Readable
<1>2. /\ LoopsInv'
      /\ \A d \in Conn : d # c => SameLine(d)
      /\ \A m, k : /\ OnLine(c, m)' <=> Reads(c, m)
                   /\ Ahead(c, m, k)' <=> Before(stream[c], m, k)
  BY <1>1, LoopsDown DEF ThreadedInv
<1>3. \A d \in Conn : Shrinks(d)
  BY <1>2 DEF SameLine, Shrinks, OnLine, Ahead
<1>4. /\ room' \in SUBSET Conn /\ todo' \in [Conn -> SUBSET Conn]
      /\ \A d \in Conn : todo'[d] # {} => d \in locked'
  BY <1>1 DEF ThreadedInv, OneLockHolder
<1>5. QED
  BY <1>1, <1>2, <1>3, <1>4, ThreadedQuiet

\* The lock is taken and a message decoded that no line has yet.
LEMMA ThreadedMessage ==
  ASSUME ThreadedInv, NEW c \in Conn, Threaded!OnStringMessage(c)
  PROVE  ThreadedInv'
<1>1. /\ locked = {} /\ Decode(c) /\ locked' = {c}
      /\ todo' = [todo EXCEPT ![c] = room]
      /\ UNCHANGED <<conn, pending, batch, stream, room>>
      /\ said[c] < MaxSays[c] /\ said' = [said EXCEPT ![c] = @ + 1]
  BY SameNet DEF Threaded!OnStringMessage, Threaded!Unlocked, Decode
<1>2. LoopsInv' /\ (\A d \in Conn : SameLine(d))
  BY <1>1, LoopsDecode DEF ThreadedInv
<1>3. /\ said \in [Conn -> Nat] /\ MaxSays \in [Conn -> Nat]
      /\ \A m \in Message : m.from \in Conn /\ m.n \in Nat
  BY ChatAssumption DEF ThreadedInv, LoopsInv, NetTypeOK, Message
<1>4. OneLockHolder'
  BY <1>1, <1>3 DEF ThreadedInv, OneLockHolder
<1>5. /\ \A d \in Conn : \A m : OnLine(d, m)' <=> OnLine(d, m)
      /\ \A d \in Conn : \A m, k : Ahead(d, m, k)' <=> Ahead(d, m, k)
  BY <1>2 DEF SameLine
<1>6. \A d \in Conn, m \in Message : Foreign(d, m) /\ OnLine(d, m) => m.n <= said[m.from]
  BY DEF ThreadedInv, Latest
<1>7. PICK new : new = [from |-> c, n |-> said[c] + 1]
  OBVIOUS
<1>8. /\ Decoded(c)' = new /\ new.from = c /\ new.n = said[c] + 1
  BY <1>1, <1>3, <1>7 DEF Decoded
<1>9. \A d \in Conn : Foreign(d, new) => ~OnLine(d, new)
  BY <1>3, <1>6, <1>8 DEF Foreign
<1>10. \A d \in Conn : \A k : Foreign(d, new) => ~Ahead(d, new, k)
  BY <1>9 DEF Ahead, OnLine, Before, Has, Reads, Heading
<1>11. Latest'
  <2>1. \A d \in Conn, m \in Message : Foreign(d, m) /\ OnLine(d, m)' => m.n <= said'[m.from]
    BY <1>1, <1>3, <1>5, <1>6
  <2>2. \A e \in locked', d \in Conn :
          Foreign(d, Decoded(e)')
            => /\ d \in todo'[e] => ~OnLine(d, new)'
               /\ \A k \in Message : Foreign(d, k) => ~Ahead(d, new, k)'
    BY <1>1, <1>5, <1>8, <1>9, <1>10
  <2>3. \A e \in locked' : Decoded(e)' = new
    BY <1>1, <1>8
  <2>4. QED
    BY <2>1, <2>2, <2>3 DEF Latest, Foreign, Decoded
<1>12. OneOrder'
  BY <1>5 DEF ThreadedInv, OneOrder, Foreign
<1>13. QED
  BY <1>2, <1>4, <1>11, <1>12 DEF ThreadedInv

\* The holder of the lock sends its message to the next client: to one of
\* another loop it becomes the last message of the line.
LEMMA ThreadedSend ==
  ASSUME ThreadedInv, NEW c \in Conn, Threaded!SendNext(c)
  PROVE  ThreadedInv'
<1>1. PICK d \in todo[c] : /\ Send(LoopOf[c], d, Decoded(c))
                           /\ todo' = [todo EXCEPT ![c] = @ \ {d}]
                           /\ UNCHANGED <<conn, batch, said, room, locked>>
  BY SameNet DEF Threaded!SendNext
<1>2. /\ todo \in [Conn -> SUBSET Conn] /\ d \in Conn /\ c \in locked
      /\ \A e \in locked : e = c
      /\ said[c] \in 1..MaxSays[c] /\ LoopOf[c] \in Loop
  <2>1. /\ todo \in [Conn -> SUBSET Conn] /\ said \in [Conn -> Nat]
        /\ LoopOf[c] \in Loop /\ MaxSays[c] \in Nat
    BY ChatAssumption DEF ThreadedInv, OneLockHolder, LoopsInv, NetTypeOK
  <2>2. d \in Conn /\ c \in locked /\ \A e \in locked : e = c
    BY <1>1, <2>1 DEF ThreadedInv, OneLockHolder
  <2>3. said[c] <= MaxSays[c] /\ said[c] >= 1
    BY <2>2 DEF ThreadedInv, OneLockHolder
  <2>4. QED
    BY <2>1, <2>2, <2>3
<1>3. PICK m \in Message : m = Decoded(c) /\ m.from = c /\ m.n = said[c]
  BY <1>2, MessageOf DEF Decoded
<1>4. Decoded(c)' = m
  BY <1>1, <1>3 DEF Decoded
<1>5. LoopsInv'
  BY <1>1, <1>2, <1>3, LoopsSend DEF ThreadedInv
<1>6. /\ \A e \in Conn : e # d \/ ~Sendable(conn[d]) => SameLine(e)
      /\ Sendable(conn[d]) =>
           /\ \A x : OnLine(d, x)' <=> OnLine(d, x) \/ x = m
           /\ \A x, y : Ahead(d, x, y)' =>
                \/ Ahead(d, x, y)
                \/ OnLine(d, x) /\ y = m
                \/ LoopOf[d] = LoopOf[c] /\ x = m /\ Heading(d, y)
  BY <1>1, <1>2, <1>3, LineSend DEF ThreadedInv, LoopsInv
<1>7. /\ room' \in SUBSET Conn /\ todo' \in [Conn -> SUBSET Conn] /\ locked' = locked
      /\ \A e \in Conn : todo'[e] \subseteq todo[e] /\ (todo'[e] # {} => e \in locked')
      /\ d \notin todo'[c]
  BY <1>1, <1>2 DEF ThreadedInv, OneLockHolder
<1>8. CASE ~Sendable(conn[d]) \/ LoopOf[d] = LoopOf[c]
  <2>1. ASSUME NEW e \in Conn PROVE Shrinks(e)
    <3>1. CASE e = d /\ Sendable(conn[d])
      <4>1. ~Foreign(d, m)
        BY <1>3, <1>8, <3>1 DEF Foreign
      <4>2. QED
        BY <1>6, <3>1, <4>1 DEF Shrinks
    <3>2. CASE ~(e = d /\ Sendable(conn[d]))
      BY <1>6, <3>2 DEF SameLine, Shrinks
    <3>3. QED
      BY <3>1, <3>2
  <2>2. QED
    BY <1>1, <1>5, <1>7, <2>1, ThreadedQuiet
<1>9. CASE Sendable(conn[d]) /\ LoopOf[d] # LoopOf[c]
  <2>1. /\ \A e \in Conn : \A x : OnLine(e, x)' <=> OnLine(e, x) \/ (e = d /\ x = m)
        /\ \A e \in Conn : \A x, y :
             Ahead(e, x, y)' => Ahead(e, x, y) \/ (e = d /\ y = m /\ OnLine(d, x))
    BY <1>6, <1>9 DEF SameLine
  <2>2. Foreign(d, m) /\ d \in todo[c]
    BY <1>1, <1>3, <1>9 DEF Foreign
  <2>3. /\ ~OnLine(d, m)
        /\ \A e \in Conn : Foreign(e, m)
             => /\ e \in todo[c] => ~OnLine(e, m)
                /\ \A k \in Message : Foreign(e, k) => ~Ahead(e, m, k)
    BY <1>2, <1>3, <2>2 DEF ThreadedInv, Latest
  <2>4. OneLockHolder'
    BY <1>1, <1>2, <1>7 DEF ThreadedInv, OneLockHolder
  <2>5. Latest'
    <3>1. \A e \in Conn, x \in Message :
            Foreign(e, x) /\ OnLine(e, x)' => x.n <= said'[x.from]
      <4>1. m.n <= said[m.from]
        BY <1>2, <1>3, ChatAssumption
      <4>2. QED
        BY <1>1, <2>1, <4>1 DEF ThreadedInv, Latest
    <3>2. \A e \in Conn : Foreign(e, m)
            => /\ e \in todo'[c] => ~OnLine(e, m)'
               /\ \A k \in Message : Foreign(e, k) => ~Ahead(e, m, k)'
      BY <1>7, <2>1, <2>3, <1>2
    <3>3. \A e \in locked' : e = c
      BY <1>2, <1>7
    <3>4. QED
      BY <1>4, <3>1, <3>2, <3>3 DEF Latest, Foreign, Decoded
  <2>6. OneOrder'
    <3>1. \A e \in Conn, x \in Message : Foreign(e, x) => ~Ahead(e, x, x)'
      BY <2>1, <2>3 DEF ThreadedInv, OneOrder
    <3>2. ASSUME NEW e \in Conn, NEW g \in Conn, NEW x \in Message, NEW y \in Message,
                 Foreign(e, x), Foreign(g, x), Foreign(e, y), Foreign(g, y),
                 Ahead(e, x, y)', Ahead(g, y, x)'
          PROVE  FALSE
      <4>1. Ahead(e, x, y) \/ (e = d /\ y = m /\ OnLine(d, x))
        BY <2>1, <3>2
      <4>2. Ahead(g, y, x) \/ (g = d /\ x = m /\ OnLine(d, y))
        BY <2>1, <3>2
      <4>3. CASE Ahead(e, x, y) /\ Ahead(g, y, x)
        BY <3>2, <4>3 DEF ThreadedInv, OneOrder
      <4>4. CASE y = m /\ OnLine(d, x)
        BY <2>3, <3>2, <4>2, <4>4
      <4>5. CASE x = m /\ OnLine(d, y)
        BY <2>3, <3>2, <4>1, <4>5
      <4>6. QED
        BY <4>1, <4>2, <4>3, <4>4, <4>5
    <3>3. QED
      BY <3>1, <3>2 DEF OneOrder, Foreign
  <2>7. QED
    BY <1>5, <2>4, <2>5, <2>6 DEF ThreadedInv
<1>10. QED
  BY <1>8, <1>9

LEMMA ThreadedStep ==
  ASSUME ThreadedInv, [Threaded!Next]_Threaded!vars
  PROVE  ThreadedInv'
<1>0. /\ LoopsInv /\ room \in SUBSET Conn /\ todo \in [Conn -> SUBSET Conn]
      /\ \A c \in Conn : todo[c] # {} => c \in locked
  BY DEF ThreadedInv, OneLockHolder
<1>1. ASSUME \/ \E c \in Conn : Accept(c) \/ InvalidLength(c)
             \/ \E l \in Loop : TakeFunctors(l) \/ RunSend(l),
             UNCHANGED <<room, locked, todo>>
      PROVE  ThreadedInv'
  <2>1. /\ LoopsInv' /\ \A d \in Conn : SameLine(d)
        /\ said' = said
    BY <1>0, <1>1, LoopsAccept, LoopsInvalidLength, LoopsTake, LoopsRunSend
       DEF Accept, InvalidLength, TakeFunctors, RunSend
  <2>2. QED
    BY <1>0, <1>1, <2>1, SameShrinks, ThreadedQuiet
<1>2. ASSUME NEW c \in Conn, Threaded!Unlock(c)
      PROVE  ThreadedInv'
  <2>1. /\ locked' = locked \ {c} /\ todo[c] = {}
        /\ UNCHANGED <<conn, pending, batch, said, stream, room, todo>>
    BY <1>2 DEF Threaded!Unlock, Threaded!net
  <2>2. QED
    BY <1>0, <2>1, LoopsStutter, SameShrinks, ThreadedQuiet
<1>3. CASE UNCHANGED Threaded!vars
  <2>1. UNCHANGED <<conn, pending, batch, said, stream, room, locked, todo>>
    BY <1>3 DEF Threaded!vars, Threaded!net, Threaded!chat
  <2>2. QED
    BY <1>0, <2>1, LoopsStutter, SameShrinks, ThreadedQuiet
<1>4. ASSUME NEW c \in Conn,
             \/ Threaded!OnConnectionDown(c) \/ Threaded!OnStringMessage(c)
             \/ Threaded!SendNext(c)
      PROVE  ThreadedInv'
  BY <1>4, ThreadedDown, ThreadedMessage, ThreadedSend
<1>5. ASSUME NEW l \in Loop, Threaded!OnConnectionUp(l)
      PROVE  ThreadedInv'
  BY <1>5, ThreadedUp
<1>6. ASSUME NEW c \in Conn,
             Threaded!Other(Threaded!Accept(c)) \/ Threaded!Other(Threaded!InvalidLength(c))
      PROVE  ThreadedInv'
  BY <1>1, <1>6, SameNet DEF Threaded!Other, Threaded!chat
<1>7. ASSUME NEW l \in Loop,
             Threaded!Other(Threaded!TakeFunctors(l)) \/ Threaded!Other(Threaded!RunSend(l))
      PROVE  ThreadedInv'
  BY <1>1, <1>7, SameNet DEF Threaded!Other, Threaded!chat
<1>8. QED
  BY <1>2, <1>3, <1>4, <1>5, <1>6, <1>7 DEF Threaded!Next

LEMMA ThreadedInit == Threaded!Init => ThreadedInv
<1> SUFFICES ASSUME Threaded!Init PROVE ThreadedInv
  OBVIOUS
<1>1. LoopsInv
  BY LoopsInit, SameNet DEF Threaded!Init
<1>2. /\ room = {} /\ locked = {} /\ todo = [c \in Conn |-> {}]
      /\ said = [c \in Conn |-> 0] /\ stream = [c \in Conn |-> <<>>]
      /\ \A l \in Loop : Work(l) = <<>>
  BY SameNet DEF Threaded!Init, NetInit, Work
<1>3. \A d \in Conn : \A m, k : ~OnLine(d, m) /\ ~Ahead(d, m, k)
  BY <1>2, ChatAssumption DEF OnLine, Ahead, Reads, Heading, Has, Before
<1>4. OneOrder /\ Latest
  BY <1>2, <1>3 DEF Latest, OneOrder
<1>5. OneLockHolder
  BY <1>2, ChatAssumption DEF OneLockHolder
<1>6. QED
  BY <1>1, <1>4, <1>5 DEF ThreadedInv

\* In server_threaded.cc clients read the messages of other loops than their
\* own in one order, because a broadcast holds the lock to its end: on every
\* line the message being broadcast is the last, so no later one overtakes it.
THEOREM OtherLoopsAgree == Threaded!Spec => []OtherLoopsInOneOrder
<1>1. ThreadedInv /\ [Threaded!Next]_Threaded!vars => ThreadedInv'
  BY ThreadedStep
<1>2. ThreadedInv => OtherLoopsInOneOrder
  <2> SUFFICES ASSUME ThreadedInv PROVE OtherLoopsInOneOrder
    OBVIOUS
  <2>1. NetTypeOK
    BY DEF ThreadedInv, LoopsInv
  <2> DEFINE Q == [d \in Conn |-> FromOtherLoops(d)]
  <2>2. ASSUME NEW c \in Conn, NEW d \in Conn,
               NEW i \in 1..Len(stream[c]), NEW j \in 1..Len(stream[c]),
               NEW p \in 1..Len(stream[d]), NEW q \in 1..Len(stream[d]),
               i < j, {stream[c][i], stream[c][j]} \subseteq Q[c] \cap Q[d],
               stream[c][i] = stream[d][p], stream[c][j] = stream[d][q]
        PROVE  p < q
    <3> DEFINE m == stream[c][i]
               k == stream[c][j]
    <3>1. /\ m \in Message /\ k \in Message
          /\ Foreign(c, m) /\ Foreign(d, m) /\ Foreign(c, k) /\ Foreign(d, k)
      BY <2>2 DEF FromOtherLoops, Foreign
    <3>2. Ahead(c, m, k)
      BY <2>2 DEF Ahead, Before
    <3>3. p \in Nat /\ q \in Nat
      OBVIOUS
    <3>4. CASE p = q
      <4>1. m = k
        BY <2>2, <3>4
      <4>2. QED
        BY <3>1, <3>2, <4>1 DEF ThreadedInv, OneOrder
    <3>5. CASE q < p
      <4>1. Ahead(d, k, m)
        BY <2>2, <3>5 DEF Ahead, Before
      <4>2. QED
        BY <3>1, <3>2, <4>1 DEF ThreadedInv, OneOrder
    <3>6. QED
      BY <3>3, <3>4, <3>5
  <2>3. InOneOrder(Q)
    BY <2>2 DEF InOneOrder
  <2>4. QED
    BY <2>1, <2>3 DEF OtherLoopsInOneOrder
<1>3. QED
  BY ThreadedInit, <1>1, <1>2, PTL DEF Threaded!Spec

\* Besides what every chat server has, server_threaded.cc keeps sets of
\* connections: those it knows, those that hold its lock, those to send to.
THEOREM ThreadedTypeCorrect == Threaded!Spec => []Threaded!TypeOK
<1>1. ThreadedInv /\ [Threaded!Next]_Threaded!vars => ThreadedInv'
  BY ThreadedStep
<1>2. ThreadedInv => Threaded!TypeOK
  BY SameNet DEF ThreadedInv, LoopsInv, OneLockHolder, Threaded!TypeOK
<1>3. QED
  BY ThreadedInit, <1>1, <1>2, PTL DEF Threaded!Spec
=============================================================================
