------------------------------ MODULE ChatLoops ------------------------------
(***************************************************************************)
(* What the three chat servers share: muduo's event loops with their queues *)
(* of functors, TcpConnection::send between threads, and the codec          *)
(* (src/muduo-based/simple/chat/codec.h) between bytes and messages.        *)
(*                                                                          *)
(* A loop runs one callback or functor at a time; before it runs the        *)
(* functors queued so far it takes them all out of the queue.  A send from  *)
(* another thread is such a functor, a send from the connection's own loop  *)
(* is immediate.                                                            *)
(***************************************************************************)
EXTENDS Integers, Sequences, SequencesExt, MuduoConn

CONSTANTS
  Conn,     \* client connections, each used once
  Loop,     \* the IO threads
  LoopOf,   \* the loop a connection was given by the thread pool
  MaxSays   \* bound: MaxSays[c], the messages client c sends

ASSUME ChatAssumption == LoopOf \in [Conn -> Loop] /\ MaxSays \in [Conn -> Nat]

VARIABLES
  conn,     \* conn[c]: state of connection c
  pending,  \* pending[l]: functors queued in loop l
  batch,    \* batch[l]: functors loop l has taken from its queue to run
  said,     \* said[c]: messages decoded from c so far
  stream    \* stream[c]: messages written to the socket of c

net == <<conn, pending, batch, said, stream>>

\* The n-th message of a client.
Message == UNION {[from : {c}, n : 1..MaxSays[c]] : c \in Conn}

Functor ==
  [op : {"establish"}, conn : Conn]
    \cup [op : {"send"}, conn : Conn, msg : Message]
    \cup [op : {"distribute"}, msg : Message]

NetTypeOK ==
  /\ conn \in [Conn -> ConnStates]
  /\ pending \in [Loop -> Seq(Functor)]
  /\ batch \in [Loop -> Seq(Functor)]
  /\ said \in [Conn -> Nat]
  /\ stream \in [Conn -> Seq(Message)]

NetInit ==
  /\ conn = [c \in Conn |-> "absent"]
  /\ pending = [l \in Loop |-> <<>>]
  /\ batch = [l \in Loop |-> <<>>]
  /\ said = [c \in Conn |-> 0]
  /\ stream = [c \in Conn |-> <<>>]

-----------------------------------------------------------------------------
Queued(l, functor) == [pending EXCEPT ![l] = Append(@, functor)]

\* The acceptor, in the base loop.
Accept(c) ==
  /\ conn[c] = "absent"
  /\ conn' = [conn EXCEPT ![c] = "accepted"]
  /\ pending' = Queued(LoopOf[c], [op |-> "establish", conn |-> c])
  /\ UNCHANGED <<batch, said, stream>>

\* doPendingFunctors swaps the queue for an empty one.
TakeFunctors(l) ==
  /\ batch[l] = <<>>
  /\ pending[l] # <<>>
  /\ batch' = [batch EXCEPT ![l] = pending[l]]
  /\ pending' = [pending EXCEPT ![l] = <<>>]
  /\ UNCHANGED <<conn, said, stream>>

\* Loop l runs the next functor, which is an op.
Runs(l, op) ==
  /\ batch[l] # <<>>
  /\ Head(batch[l]).op = op
  /\ batch' = [batch EXCEPT ![l] = Tail(@)]

\* sendInLoop: nothing is written to a connection that is down.
Written(d, msg) ==
  IF conn[d] = "disconnected" THEN stream[d] ELSE Append(stream[d], msg)

RunSend(l) ==
  LET f == Head(batch[l])
  IN  /\ Runs(l, "send")
      /\ stream' = [stream EXCEPT ![f.conn] = Written(f.conn, f.msg)]
      /\ UNCHANGED <<conn, pending, said>>

\* codec_.send of msg to d, from a callback of loop l.
Send(l, d, msg) ==
  CASE ~Sendable(conn[d]) -> UNCHANGED <<stream, pending>>
    [] Sendable(conn[d]) /\ LoopOf[d] = l ->
         /\ stream' = [stream EXCEPT ![d] = Append(@, msg)]
         /\ UNCHANGED pending
    [] OTHER ->
         /\ pending' = Queued(LoopOf[d],
                              [op |-> "send", conn |-> d, msg |-> msg])
         /\ UNCHANGED stream

\* The loop of c has an event to handle and no functor left of its batch.
Event(c) == batch[LoopOf[c]] = <<>>

\* The codec decodes the next message of c.  After an invalid length the
\* bytes stay at the head of the buffer, so nothing more is decoded.
Decode(c) ==
  /\ Event(c)
  /\ conn[c] = "connected"
  /\ said[c] < MaxSays[c]
  /\ said' = [said EXCEPT ![c] = @ + 1]

\* The message decoded last; a codec that did not retrieve() what it has
\* decoded would give the first one again.
DecodedAgain(c) == [from |-> c, n |-> 1]
Decoded(c) == [from |-> c, n |-> said[c]]

InvalidLength(c) ==
  /\ Event(c)
  /\ Readable(conn[c])
  /\ conn' = [conn EXCEPT ![c] = AfterShutdown(@)]
  /\ UNCHANGED <<pending, batch, said, stream>>

-----------------------------------------------------------------------------
\* Every client reads the messages of one sender in the order they were sent,
\* none twice and none left out between two it has read.
SenderOrder ==
  \A d \in Conn : \A i, j \in 1..Len(stream[d]) :
    /\ i < j
    /\ stream[d][i].from = stream[d][j].from
    => /\ stream[d][i].n < stream[d][j].n
       /\ \A n \in stream[d][i].n + 1 .. stream[d][j].n - 1 :
            \E k \in i..j : stream[d][k] = [from |-> stream[d][i].from, n |-> n]

\* Any two clients read the messages that both of them read in one order.
InOneOrder(messages) ==
  \A c, d \in Conn :
    \A i, j \in 1..Len(stream[c]), p, q \in 1..Len(stream[d]) :
      /\ i < j
      /\ {stream[c][i], stream[c][j]} \subseteq messages[c] \cap messages[d]
      /\ stream[c][i] = stream[d][p]
      /\ stream[c][j] = stream[d][q]
      => p < q

\* Messages that reach d through its loop's queue, not from its own loop.
FromOtherLoops(d) == {m \in Message : LoopOf[m.from] # LoopOf[d]}

\* Where a broadcast holds the lock to its end, as in server_threaded.cc,
\* clients read messages from other loops than their own in one order.  (A
\* message from a client's own loop may overtake a queued one.)
OtherLoopsInOneOrder ==
  NetTypeOK /\ InOneOrder([d \in Conn |-> FromOtherLoops(d)])
=============================================================================
