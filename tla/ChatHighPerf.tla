----------------------------- MODULE ChatHighPerf -----------------------------
(***************************************************************************)
(* src/muduo-based/simple/chat/server_threaded_highperformance.cc: every IO *)
(* thread has its own set of connections, and a broadcast queues one        *)
(* functor in each loop, under mutex_.  threadInit has registered all loops *)
(* before the server listens.                                               *)
(***************************************************************************)
EXTENDS ChatLoops

VARIABLES
  local,    \* local[l]: LocalConnections::instance() of loop l
  locked,   \* the connections whose message is broadcast under mutex_
  todo,     \* todo[c]: the loops that still have to be told
  log,      \* all messages, in the order their broadcasts took mutex_
  done,     \* done[l]: how many messages loop l has distributed
  first     \* first[c]: done of c's loop when c was inserted

chat == <<local, locked, todo, log, done, first>>
vars == <<net, chat>>

TypeOK ==
  /\ NetTypeOK
  /\ local \in [Loop -> SUBSET Conn]
  /\ locked \in SUBSET Conn
  /\ todo \in [Conn -> SUBSET Loop]
  /\ log \in Seq(Message)
  /\ done \in [Loop -> Nat]
  /\ first \in [Conn -> Nat]

Init ==
  /\ NetInit
  /\ local = [l \in Loop |-> {}]
  /\ locked = {}
  /\ todo = [c \in Conn |-> {}]
  /\ log = <<>>
  /\ done = [l \in Loop |-> 0]
  /\ first = [c \in Conn |-> 0]

-----------------------------------------------------------------------------
\* MutexLockGuard; without it two broadcasts would overlap.
NoMutex == TRUE
Unlocked == locked = {}

\* A loop inside onStringMessage does nothing else.
Free(l) == \A c \in locked : LoopOf[c] # l

\* onConnection touches only the set of its own thread and takes no lock.
OnConnectionUp(l) ==
  LET c == Head(batch[l]).conn
  IN  /\ Free(l)
      /\ Runs(l, "establish")
      /\ conn' = [conn EXCEPT ![c] = "connected"]
      /\ local' = [local EXCEPT ![l] = @ \cup {c}]
      /\ first' = [first EXCEPT ![c] = done[l]]
      /\ UNCHANGED <<pending, said, stream, locked, todo, log, done>>

OnConnectionDown(c) ==
  /\ Free(LoopOf[c])
  /\ Event(c)
  /\ Readable(conn[c])
  /\ conn' = [conn EXCEPT ![c] = "disconnected"]
  /\ local' = [local EXCEPT ![LoopOf[c]] = @ \ {c}]
  /\ UNCHANGED <<pending, batch, said, stream, locked, todo, log, done, first>>

\* The loops a broadcast is queued in; the sender's own loop is one of them.
OtherLoops(c) == Loop \ {LoopOf[c]}
AllLoops(c) == Loop

\* onStringMessage takes the lock ...
OnStringMessage(c) ==
  /\ Unlocked /\ Free(LoopOf[c])
  /\ Decode(c)
  /\ locked' = locked \cup {c}
  /\ todo' = [todo EXCEPT ![c] = AllLoops(c)]
  /\ log' = Append(log, [from |-> c, n |-> said[c] + 1])
  /\ UNCHANGED <<conn, pending, batch, stream, local, done, first>>

\* ... queues distributeMessage in each loop ...
QueueNext(c) ==
  \E l \in todo[c] :
    /\ pending' = Queued(l, [op |-> "distribute", msg |-> Decoded(c)])
    /\ todo' = [todo EXCEPT ![c] = @ \ {l}]
    /\ UNCHANGED <<conn, batch, said, stream, local, locked, log, done, first>>

\* ... and releases it.
Unlock(c) ==
  /\ c \in locked
  /\ todo[c] = {}
  /\ locked' = locked \ {c}
  /\ UNCHANGED <<net, local, todo, log, done, first>>

\* distributeMessage: all sends are to connections of this loop.
DistributeMessage(l) ==
  /\ Free(l)
  /\ Runs(l, "distribute")
  /\ stream' = [d \in Conn |-> IF d \in local[l] /\ Sendable(conn[d])
                               THEN Append(stream[d], Head(batch[l]).msg)
                               ELSE stream[d]]
  /\ done' = [done EXCEPT ![l] = @ + 1]
  /\ UNCHANGED <<conn, pending, said, local, locked, todo, log, first>>

Other(step) == step /\ UNCHANGED chat

Next ==
  \/ \E c \in Conn :
       \/ Other(Accept(c))
       \/ Free(LoopOf[c]) /\ Other(InvalidLength(c))
       \/ OnConnectionDown(c)
       \/ OnStringMessage(c)
       \/ QueueNext(c)
       \/ Unlock(c)
  \/ \E l \in Loop :
       \/ Free(l) /\ Other(TakeFunctors(l))
       \/ OnConnectionUp(l)
       \/ DistributeMessage(l)

\* Loops run what is queued, and a broadcast runs to its end.
Fairness ==
  /\ \A l \in Loop :
       /\ WF_vars(Free(l) /\ Other(TakeFunctors(l)))
       /\ WF_vars(OnConnectionUp(l))
       /\ WF_vars(DistributeMessage(l))
  /\ \A c \in Conn : WF_vars(QueueNext(c)) /\ WF_vars(Unlock(c))

Spec == Init /\ [][Next]_vars
FairSpec == Spec /\ Fairness

-----------------------------------------------------------------------------
\* The loops agree on one conversation: the server implements ChatBroadcast,
\* a member being a connection that can still be sent to.
Room == INSTANCE ChatBroadcast
          WITH members <- {c \in Conn : Sendable(conn[c])}

ImplementsBroadcast == Room!Spec

\* Any two clients read the messages that both of them read in one order.
EverybodyInOneOrder == TypeOK /\ InOneOrder([c \in Conn |-> Message])

\* A client is read the whole rest of the conversation, unless it closes.
LogIsHeard ==
  \A m \in Message, d \in Conn :
    (Sendable(conn[d]) /\ \E i \in first[d] + 1 .. Len(log) : log[i] = m)
      ~> (m \in ToSet(stream[d]) \/ ~Sendable(conn[d]))
=============================================================================
