---------------------------- MODULE ChatEfficient ----------------------------
(***************************************************************************)
(* src/muduo-based/simple/chat/server_threaded_efficient.cc: mutex_ guards  *)
(* only the pointer to the set of connections.  A broadcast walks the set   *)
(* it found without the lock; whoever changes the set while somebody walks  *)
(* it changes a copy (copy on write, told by the count of the shared_ptr).  *)
(***************************************************************************)
EXTENDS ChatLoops

VARIABLES
  lists,        \* lists[v]: the set objects made so far
  connections,  \* connections_: the object it points to
  snapshot,     \* snapshot[c]: the object c's broadcast walks, 0 for no broadcast
  reached,      \* reached[c]: the connections c's broadcast has sent to
  found         \* found[c]: what the object held when the broadcast began

chat == <<lists, connections, snapshot, reached, found>>
vars == <<net, chat>>

TypeOK ==
  /\ NetTypeOK
  /\ lists \in Seq(SUBSET Conn)
  /\ connections \in 1..Len(lists)
  /\ snapshot \in [Conn -> 0..Len(lists)]
  /\ reached \in [Conn -> SUBSET Conn]
  /\ found \in [Conn -> SUBSET Conn]

Init ==
  /\ NetInit
  /\ lists = <<{}>>
  /\ connections = 1
  /\ snapshot = [c \in Conn |-> 0]
  /\ reached = [c \in Conn |-> {}]
  /\ found = [c \in Conn |-> {}]

-----------------------------------------------------------------------------
\* A loop inside onStringMessage does nothing else.
Walking(c) == snapshot[c] # 0
Free(l) == \A c \in Conn : Walking(c) => LoopOf[c] # l

\* connections_.unique(): no broadcast holds the current object.
\* Without the test the set would always be changed in place.
NeverShared == TRUE
Unique == \A c \in Conn : snapshot[c] # connections

\* onConnection, under the lock: the set becomes new, in place or in a copy.
Change(new) ==
  /\ IF Unique
     THEN /\ lists' = [lists EXCEPT ![connections] = new]
          /\ UNCHANGED connections
     ELSE /\ lists' = Append(lists, new)
          /\ connections' = Len(lists) + 1
  /\ UNCHANGED <<snapshot, reached, found>>

OnConnectionUp(l) ==
  LET c == Head(batch[l]).conn
  IN  /\ Free(l)
      /\ Runs(l, "establish")
      /\ conn' = [conn EXCEPT ![c] = "connected"]
      /\ Change(lists[connections] \cup {c})
      /\ UNCHANGED <<pending, said, stream>>

OnConnectionDown(c) ==
  /\ Free(LoopOf[c])
  /\ Event(c)
  /\ Readable(conn[c])
  /\ conn' = [conn EXCEPT ![c] = "disconnected"]
  /\ Change(lists[connections] \ {c})
  /\ UNCHANGED <<pending, batch, said, stream>>

\* onStringMessage: getConnectionList copies the pointer under the lock ...
OnStringMessage(c) ==
  /\ Free(LoopOf[c])
  /\ Decode(c)
  /\ snapshot' = [snapshot EXCEPT ![c] = connections]
  /\ found' = [found EXCEPT ![c] = lists[connections]]
  /\ UNCHANGED <<conn, pending, batch, stream, lists, connections, reached>>

\* The connections the iterator of c's broadcast has still to reach; they may
\* belong to any loop.
OfOwnLoop(c) == {d \in lists[snapshot[c]] \ reached[c] : LoopOf[d] = LoopOf[c]}
Unreached(c) == lists[snapshot[c]] \ reached[c]

\* ... the walk sends to each connection of that object ...
SendNext(c) ==
  /\ Walking(c)
  /\ \E d \in Unreached(c) :
       /\ Send(LoopOf[c], d, Decoded(c))
       /\ reached' = [reached EXCEPT ![c] = @ \cup {d}]
  /\ UNCHANGED <<conn, batch, said, lists, connections, snapshot, found>>

\* ... and ends, giving up its pointer, when it has reached all of them.
EndWalk(c) ==
  /\ Walking(c)
  /\ Unreached(c) = {}
  /\ snapshot' = [snapshot EXCEPT ![c] = 0]
  /\ reached' = [reached EXCEPT ![c] = {}]
  /\ found' = [found EXCEPT ![c] = {}]
  /\ UNCHANGED <<net, lists, connections>>

Other(step) == step /\ UNCHANGED chat

Next ==
  \/ \E c \in Conn :
       \/ Other(Accept(c))
       \/ Free(LoopOf[c]) /\ Other(InvalidLength(c))
       \/ OnConnectionDown(c)
       \/ OnStringMessage(c)
       \/ SendNext(c)
       \/ EndWalk(c)
  \/ \E l \in Loop :
       \/ Free(l) /\ Other(TakeFunctors(l))
       \/ Free(l) /\ Other(RunSend(l))
       \/ OnConnectionUp(l)

Fairness ==
  /\ \A l \in Loop :
       /\ WF_vars(Free(l) /\ Other(TakeFunctors(l)))
       /\ WF_vars(Free(l) /\ Other(RunSend(l)))
       /\ WF_vars(OnConnectionUp(l))
  /\ \A c \in Conn : WF_vars(SendNext(c)) /\ WF_vars(EndWalk(c))

Spec == Init /\ [][Next]_vars
FairSpec == Spec /\ Fairness

-----------------------------------------------------------------------------
\* No thread changes the set another one iterates over: for the whole of a
\* broadcast the object holds what it held when the broadcast began.
SnapshotStable ==
  /\ TypeOK
  /\ \A c \in Conn : Walking(c) => lists[snapshot[c]] = found[c]

\* Who is in the set when a broadcast begins reads the message, unless it
\* closes; connections that come or go meanwhile do not change that.
SnapshotHears ==
  \A m \in Message, d \in Conn :
    (Walking(m.from) /\ said[m.from] = m.n /\ d \in found[m.from])
      ~> (m \in ToSet(stream[d]) \/ ~Sendable(conn[d]))
=============================================================================
