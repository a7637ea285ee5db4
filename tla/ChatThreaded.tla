----------------------------- MODULE ChatThreaded -----------------------------
(***************************************************************************)
(* src/muduo-based/simple/chat/server_threaded.cc: one set of connections   *)
(* for all IO threads; mutex_ is held for a whole broadcast.                *)
(***************************************************************************)
EXTENDS ChatLoops

VARIABLES
  connections,  \* connections_
  locked,       \* the connections whose message is broadcast under mutex_
  todo          \* todo[c]: who has still to be sent the message of c

chat == <<connections, locked, todo>>
vars == <<net, chat>>

TypeOK ==
  /\ NetTypeOK
  /\ connections \in SUBSET Conn
  /\ locked \in SUBSET Conn
  /\ todo \in [Conn -> SUBSET Conn]

Init ==
  /\ NetInit
  /\ connections = {}
  /\ locked = {}
  /\ todo = [c \in Conn |-> {}]

-----------------------------------------------------------------------------
\* MutexLockGuard; without it two broadcasts would overlap.
NoMutex == TRUE
Unlocked == locked = {}

\* A loop inside onStringMessage does nothing else.
Free(l) == \A c \in locked : LoopOf[c] # l

\* onConnection, connection up, run by connectEstablished.
OnConnectionUp(l) ==
  LET c == Head(batch[l]).conn
  IN  /\ Unlocked /\ Free(l)
      /\ Runs(l, "establish")
      /\ conn' = [conn EXCEPT ![c] = "connected"]
      /\ connections' = connections \cup {c}
      /\ UNCHANGED <<pending, said, stream, locked, todo>>

\* onConnection, connection down.
OnConnectionDown(c) ==
  /\ Unlocked /\ Free(LoopOf[c])
  /\ Event(c)
  /\ Readable(conn[c])
  /\ conn' = [conn EXCEPT ![c] = "disconnected"]
  /\ connections' = connections \ {c}
  /\ UNCHANGED <<pending, batch, said, stream, locked, todo>>

\* onStringMessage takes the lock ...
OnStringMessage(c) ==
  /\ Unlocked /\ Free(LoopOf[c])
  /\ Decode(c)
  /\ locked' = locked \cup {c}
  /\ todo' = [todo EXCEPT ![c] = connections]
  /\ UNCHANGED <<conn, pending, batch, stream, connections>>

\* ... sends to each connection, in the order of their addresses ...
SendNext(c) ==
  \E d \in todo[c] :
    /\ Send(LoopOf[c], d, Decoded(c))
    /\ todo' = [todo EXCEPT ![c] = @ \ {d}]
    /\ UNCHANGED <<conn, batch, said, connections, locked>>

\* ... and releases it.
Unlock(c) ==
  /\ c \in locked
  /\ todo[c] = {}
  /\ locked' = locked \ {c}
  /\ UNCHANGED <<net, connections, todo>>

Other(step) == step /\ UNCHANGED chat

Next ==
  \/ \E c \in Conn :
       \/ Other(Accept(c))
       \/ Free(LoopOf[c]) /\ Other(InvalidLength(c))
       \/ OnConnectionDown(c)
       \/ OnStringMessage(c)
       \/ SendNext(c)
       \/ Unlock(c)
  \/ \E l \in Loop :
       \/ Free(l) /\ Other(TakeFunctors(l))
       \/ Free(l) /\ Other(RunSend(l))
       \/ OnConnectionUp(l)

Spec == Init /\ [][Next]_vars
=============================================================================
