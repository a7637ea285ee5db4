-------------------------- MODULE ChatHighPerfProofs --------------------------
(***************************************************************************)
(* The queues of the loops keep the order in which the broadcasts took      *)
(* mutex_, hence all clients of server_threaded_highperformance.cc read one *)
(* conversation, and the server implements ChatBroadcast: for any           *)
(* connections and loops and any number of messages.                        *)
(***************************************************************************)
EXTENDS ChatHighPerf, SequenceTheorems, TLAPS

\* What loop l has still to run, in this order.
Queue(l) == batch[l] \o pending[l]

\* How much of the log has been queued in loop l: all of it, or all but the
\* message that is being broadcast.
Told(l) == IF \E c \in locked : l \in todo[c] THEN Len(log) - 1 ELSE Len(log)

\* The messages in queue q are those of lg from d + 1 to t, in this order; N[i]
\* is the number of messages distributed when i functors of q have run.
Numbers(N, q, d, t, lg) ==
  /\ N[0] = d
  /\ N[Len(q)] = t
  /\ \A i \in 1..Len(q) :
       IF q[i].op = "distribute" THEN N[i] = N[i - 1] + 1 /\ q[i].msg = lg[N[i]]
                                 ELSE N[i] = N[i - 1]
Numbered(q, d, t, lg) == \E N \in [0..Len(q) -> 0..t] : Numbers(N, q, d, t, lg)

QueuesFollowLog == \A l \in Loop : Numbered(Queue(l), done[l], Told(l), log)

\* A connection waits for connectEstablished in its own loop, and once.
Establishes(q, l, state) ==
  /\ \A i \in 1..Len(q) :
       q[i].op = "establish" => LoopOf[q[i].conn] = l /\ state[q[i].conn] = "accepted"
  /\ \A i, j \in 1..Len(q) :
       q[i].op = "establish" /\ q[j].op = "establish" /\ q[i].conn = q[j].conn => i = j

EstablishedOnce == \A l \in Loop : Establishes(Queue(l), l, conn)

\* One broadcast at a time, and it is about the last message of the log.
OneBroadcast ==
  /\ \A c, d \in locked : c = d
  /\ \A c \in locked : log # <<>> /\ log[Len(log)] = Decoded(c)
  /\ \A c \in Conn : todo[c] # {} => c \in locked

\* No message is twice in the log.
LogOfDecoded ==
  /\ \A i \in 1..Len(log) : log[i].n <= said[log[i].from]
  /\ \A i, j \in 1..Len(log) : log[i] = log[j] => i = j

\* What a client has read is a piece of the log; it ends where its loop is
\* while the client can be sent to.
Reads(c) ==
  /\ first[c] + Len(stream[c]) <= done[LoopOf[c]]
  /\ \A i \in 1..Len(stream[c]) : stream[c][i] = log[first[c] + i]
  /\ conn[c] \in {"absent", "accepted"} => stream[c] = <<>>
  /\ Sendable(conn[c]) => /\ c \in local[LoopOf[c]]
                          /\ first[c] + Len(stream[c]) = done[LoopOf[c]]

LocalToLoop == \A l \in Loop : \A c \in local[l] : LoopOf[c] = l

IInv ==
  /\ TypeOK
  /\ QueuesFollowLog
  /\ EstablishedOnce
  /\ OneBroadcast
  /\ LogOfDecoded
  /\ LocalToLoop
  /\ \A c \in Conn : Reads(c)

-----------------------------------------------------------------------------
(* Sequences: what push, pop and swap do to a queue. *)

LEMMA AppendAt ==
  ASSUME NEW S, NEW q \in Seq(S), NEW f \in S
  PROVE  /\ Append(q, f) \in Seq(S)
         /\ Len(Append(q, f)) = Len(q) + 1
         /\ \A i \in 1..Len(q) : Append(q, f)[i] = q[i]
         /\ Append(q, f)[Len(q) + 1] = f
         /\ Len(q) \in Nat
OBVIOUS

\* A functor is queued behind the two parts of a queue.
LEMMA QueuedBehind ==
  ASSUME NEW b \in Seq(Functor), NEW q \in Seq(Functor), NEW f \in Functor
  PROVE  b \o Append(q, f) = Append(b \o q, f)
<1>1. /\ b \o q \in Seq(Functor) /\ Append(q, f) \in Seq(Functor)
      /\ Append(b \o q, f) \in Seq(Functor) /\ b \o Append(q, f) \in Seq(Functor)
  OBVIOUS
<1>2. Len(b \o Append(q, f)) = Len(Append(b \o q, f))
  OBVIOUS
<1>3. ASSUME NEW i \in 1..Len(b \o Append(q, f))
      PROVE  (b \o Append(q, f))[i] = Append(b \o q, f)[i]
  BY ConcatProperties, AppendAt, <1>1
<1>4. QED
  BY <1>1, <1>2, <1>3, SeqEqual

\* The functor that is run is the first of the queue.
LEMMA RunIsFirst ==
  ASSUME NEW b \in Seq(Functor), NEW q \in Seq(Functor), b # <<>>
  PROVE  /\ b \o q \in Seq(Functor) /\ b \o q # <<>>
         /\ Head(b \o q) = Head(b)
         /\ Tail(b \o q) = Tail(b) \o q
<1>1. /\ Len(b) \in Nat /\ Len(b) > 0 /\ Len(q) \in Nat
      /\ b \o q \in Seq(Functor) /\ Len(b \o q) = Len(b) + Len(q)
      /\ Tail(b) \in Seq(Functor) /\ Len(Tail(b)) = Len(b) - 1
      /\ Tail(b) \o q \in Seq(Functor)
      /\ Len(Tail(b) \o q) = Len(b) + Len(q) - 1
  OBVIOUS
<1>2. b \o q # <<>> /\ Head(b \o q) = Head(b)
  BY <1>1
<1>3. Tail(b \o q) \in Seq(Functor) /\ Len(Tail(b \o q)) = Len(Tail(b) \o q)
  BY <1>1, <1>2
<1>4. ASSUME NEW i \in 1..Len(Tail(b \o q))
      PROVE  Tail(b \o q)[i] = (Tail(b) \o q)[i]
  BY <1>1, <1>2, <1>3
<1>5. QED
  BY <1>1, <1>2, <1>3, <1>4, SeqEqual

-----------------------------------------------------------------------------
(* The numbers of the messages in a queue. *)

\* The log grows while a queue stays as it is.
LEMMA NumberedLonger ==
  ASSUME NEW q \in Seq(Functor), NEW d \in Nat, NEW t \in Nat,
         NEW lg \in Seq(Message), NEW m \in Message, t <= Len(lg),
         Numbered(q, d, t, lg)
  PROVE  Numbered(q, d, t, Append(lg, m))
<1>1. PICK N \in [0..Len(q) -> 0..t] : Numbers(N, q, d, t, lg)
  BY DEF Numbered
<1>2. ASSUME NEW i \in 1..Len(q), N[i] = N[i - 1] + 1
      PROVE  Append(lg, m)[N[i]] = lg[N[i]]
  <2>1. N[i] \in 0..t /\ N[i - 1] \in 0..t
    <3>1. Len(q) \in Nat
      OBVIOUS
    <3>2. i \in 0..Len(q) /\ i - 1 \in 0..Len(q)
      BY <3>1
    <3>3. QED
      BY <3>2
  <2>2. N[i] \in 1..Len(lg)
    BY <1>2, <2>1
  <2>3. QED
    BY <2>2, AppendAt
<1>3. Numbers(N, q, d, t, Append(lg, m))
  BY <1>1, <1>2 DEF Numbers
<1>4. QED
  BY <1>3 DEF Numbered

\* The next message is queued.
LEMMA NumberedTold ==
  ASSUME NEW q \in Seq(Functor), NEW d \in Nat, NEW t \in Nat,
         NEW lg \in Seq(Message), Numbered(q, d, t, lg),
         NEW f \in Functor, f.op = "distribute", f.msg = lg[t + 1]
  PROVE  Numbered(Append(q, f), d, t + 1, lg)
<1>1. PICK N \in [0..Len(q) -> 0..t] : Numbers(N, q, d, t, lg)
  BY DEF Numbered
<1> DEFINE M == [i \in 0..Len(q) + 1 |-> IF i <= Len(q) THEN N[i] ELSE t + 1]
<1>2. /\ Len(q) \in Nat /\ Len(Append(q, f)) = Len(q) + 1
      /\ \A i \in 1..Len(q) : Append(q, f)[i] = q[i]
      /\ Append(q, f)[Len(q) + 1] = f
  BY AppendAt
<1>3. M \in [0..Len(Append(q, f)) -> 0..t + 1]
  BY <1>2
<1>4. /\ M[0] = d /\ M[Len(Append(q, f))] = t + 1
      /\ \A i \in 1..Len(q) : M[i] = N[i] /\ M[i - 1] = N[i - 1]
      /\ M[Len(q)] = t
  BY <1>1, <1>2 DEF Numbers
<1> HIDE DEF M
<1>5. ASSUME NEW i \in 1..Len(Append(q, f))
      PROVE  IF Append(q, f)[i].op = "distribute"
             THEN M[i] = M[i - 1] + 1 /\ Append(q, f)[i].msg = lg[M[i]]
             ELSE M[i] = M[i - 1]
  <2>1. CASE i \in 1..Len(q)
    BY <1>1, <1>2, <1>4, <2>1 DEF Numbers
  <2>2. CASE i = Len(q) + 1
    BY <1>2, <1>4, <2>2
  <2>3. QED
    BY <1>2, <2>1, <2>2
<1>6. QED
  BY <1>3, <1>4, <1>5 DEF Numbers, Numbered

\* Something else is queued.
LEMMA NumberedOther ==
  ASSUME NEW q \in Seq(Functor), NEW d \in Nat, NEW t \in Nat,
         NEW lg \in Seq(Message), Numbered(q, d, t, lg),
         NEW f \in Functor, f.op # "distribute"
  PROVE  Numbered(Append(q, f), d, t, lg)
<1>1. PICK N \in [0..Len(q) -> 0..t] : Numbers(N, q, d, t, lg)
  BY DEF Numbered
<1> DEFINE M == [i \in 0..Len(q) + 1 |-> IF i <= Len(q) THEN N[i] ELSE t]
<1>2. /\ Len(q) \in Nat /\ Len(Append(q, f)) = Len(q) + 1
      /\ \A i \in 1..Len(q) : Append(q, f)[i] = q[i]
      /\ Append(q, f)[Len(q) + 1] = f
  BY AppendAt
<1>3. M \in [0..Len(Append(q, f)) -> 0..t]
  BY <1>2
<1>4. /\ M[0] = d /\ M[Len(Append(q, f))] = t
      /\ \A i \in 1..Len(q) : M[i] = N[i] /\ M[i - 1] = N[i - 1]
      /\ M[Len(q)] = t
  BY <1>1, <1>2 DEF Numbers
<1> HIDE DEF M
<1>5. ASSUME NEW i \in 1..Len(Append(q, f))
      PROVE  IF Append(q, f)[i].op = "distribute"
             THEN M[i] = M[i - 1] + 1 /\ Append(q, f)[i].msg = lg[M[i]]
             ELSE M[i] = M[i - 1]
  <2>1. CASE i \in 1..Len(q)
    BY <1>1, <1>2, <1>4, <2>1 DEF Numbers
  <2>2. CASE i = Len(q) + 1
    BY <1>2, <1>4, <2>2
  <2>3. QED
    BY <1>2, <2>1, <2>2
<1>6. QED
  BY <1>3, <1>4, <1>5 DEF Numbers, Numbered

\* The first functor is run; if it is a message, it is the next of the log.
LEMMA NumberedRun ==
  ASSUME NEW q \in Seq(Functor), NEW d \in Nat, NEW t \in Nat,
         NEW lg \in Seq(Message), Numbered(q, d, t, lg), q # <<>>
  PROVE  IF Head(q).op = "distribute"
         THEN Numbered(Tail(q), d + 1, t, lg) /\ d + 1 <= t /\ Head(q).msg = lg[d + 1]
         ELSE Numbered(Tail(q), d, t, lg)
<1>1. PICK N \in [0..Len(q) -> 0..t] : Numbers(N, q, d, t, lg)
  BY DEF Numbered
<1> DEFINE M == [i \in 0..Len(q) - 1 |-> N[i + 1]]
<1>2. /\ Len(q) \in Nat /\ Len(q) > 0 /\ Len(Tail(q)) = Len(q) - 1
      /\ Head(q) = q[1] /\ \A i \in 1..Len(q) - 1 : Tail(q)[i] = q[i + 1]
  BY HeadTailProperties
<1>3. M \in [0..Len(Tail(q)) -> 0..t]
  BY <1>2
<1>4. /\ M[0] = N[1] /\ M[Len(Tail(q))] = t
      /\ \A i \in 1..Len(q) - 1 : M[i] = N[i + 1] /\ M[i - 1] = N[i]
  BY <1>1, <1>2 DEF Numbers
<1> HIDE DEF M
<1>5. ASSUME NEW i \in 1..Len(Tail(q))
      PROVE  IF Tail(q)[i].op = "distribute"
             THEN M[i] = M[i - 1] + 1 /\ Tail(q)[i].msg = lg[M[i]]
             ELSE M[i] = M[i - 1]
  <2>1. i + 1 \in 1..Len(q) /\ (i + 1) - 1 = i
    BY <1>2
  <2>2. QED
    BY <1>1, <1>2, <1>4, <2>1 DEF Numbers
<1>6. Numbered(Tail(q), N[1], t, lg)
  BY <1>3, <1>4, <1>5 DEF Numbers, Numbered
<1>7. /\ N[0] = d /\ N[1] \in 0..t /\ 1 \in 1..Len(q) /\ 1 - 1 = 0
  <2>1. 1 \in 1..Len(q) /\ 1 \in 0..Len(q)
    BY <1>2
  <2>2. N[1] \in 0..t
    BY <2>1
  <2>3. N[0] = d
    BY <1>1 DEF Numbers
  <2>4. QED
    BY <2>1, <2>2, <2>3
<1>8. IF q[1].op = "distribute" THEN N[1] = d + 1 /\ q[1].msg = lg[N[1]] ELSE N[1] = d
  BY <1>1, <1>7 DEF Numbers
<1>9. QED
  BY <1>2, <1>6, <1>7, <1>8
-----------------------------------------------------------------------------
(* connectEstablished in a queue. *)

LEMMA EstablishesKeep ==
  ASSUME NEW q \in Seq(Functor), NEW l, NEW old, NEW new, Establishes(q, l, old),
         \A c \in Conn : LoopOf[c] = l /\ old[c] = "accepted" => new[c] = "accepted"
  PROVE  Establishes(q, l, new)
<1>1. ASSUME NEW i \in 1..Len(q), q[i].op = "establish"
      PROVE  LoopOf[q[i].conn] = l /\ new[q[i].conn] = "accepted"
  <2>1. q[i] \in Functor
    OBVIOUS
  <2>2. q[i].conn \in Conn
    BY <1>1, <2>1 DEF Functor
  <2>3. QED
    BY <1>1, <2>2 DEF Establishes
<1>2. QED
  BY <1>1 DEF Establishes

LEMMA EstablishesOther ==
  ASSUME NEW q \in Seq(Functor), NEW l, NEW state, Establishes(q, l, state),
         NEW f \in Functor, f.op # "establish"
  PROVE  Establishes(Append(q, f), l, state)
<1>1. /\ Len(q) \in Nat /\ Len(Append(q, f)) = Len(q) + 1
      /\ \A i \in 1..Len(q) : Append(q, f)[i] = q[i]
      /\ Append(q, f)[Len(q) + 1] = f
  BY AppendAt
<1>2. ASSUME NEW i \in 1..Len(Append(q, f)), Append(q, f)[i].op = "establish"
      PROVE  i \in 1..Len(q) /\ Append(q, f)[i] = q[i]
  BY <1>1, <1>2
<1>3. QED
  BY <1>2 DEF Establishes

\* A connection is accepted; none of those that wait is the same one.
LEMMA EstablishesAccepted ==
  ASSUME NEW q \in Seq(Functor), NEW l, NEW state \in [Conn -> ConnStates],
         Establishes(q, l, state),
         NEW c \in Conn, LoopOf[c] = l, state[c] = "absent",
         NEW f \in Functor, f.op = "establish", f.conn = c
  PROVE  Establishes(Append(q, f), l, [state EXCEPT ![c] = "accepted"])
<1> DEFINE new == [state EXCEPT ![c] = "accepted"]
<1>1. /\ Len(q) \in Nat /\ Len(Append(q, f)) = Len(q) + 1
      /\ \A i \in 1..Len(q) : Append(q, f)[i] = q[i]
      /\ Append(q, f)[Len(q) + 1] = f
  BY AppendAt
<1>2. Establishes(q, l, new) /\ new[c] = "accepted"
  BY EstablishesKeep
<1>3. \A i \in 1..Len(q) : q[i].op = "establish" => q[i].conn # c
  BY DEF Establishes
<1> HIDE DEF new
<1>4. ASSUME NEW i \in 1..Len(Append(q, f))
      PROVE  \/ i \in 1..Len(q) /\ Append(q, f)[i] = q[i]
             \/ i = Len(q) + 1 /\ Append(q, f)[i] = f
  BY <1>1
<1>5. Establishes(Append(q, f), l, new)
  BY <1>2, <1>3, <1>4 DEF Establishes
<1>6. QED
  BY <1>5 DEF new

\* The first functor is run; if it is connectEstablished, then for a connection
\* that waited, and there is no second one for it.
LEMMA EstablishesRun ==
  ASSUME NEW q \in Seq(Functor), NEW l, NEW state, Establishes(q, l, state),
         q # <<>>
  PROVE  /\ Establishes(Tail(q), l, state)
         /\ Head(q).op = "establish" =>
              /\ LoopOf[Head(q).conn] = l /\ state[Head(q).conn] = "accepted"
              /\ \A i \in 1..Len(Tail(q)) :
                   Tail(q)[i].op = "establish" => Tail(q)[i].conn # Head(q).conn
<1>1. /\ Len(q) \in Nat /\ Len(q) > 0 /\ Len(Tail(q)) = Len(q) - 1
      /\ Head(q) = q[1] /\ \A i \in 1..Len(q) - 1 : Tail(q)[i] = q[i + 1]
  BY HeadTailProperties
<1>2. ASSUME NEW i \in 1..Len(Tail(q))
      PROVE  i + 1 \in 1..Len(q) /\ i + 1 # 1 /\ Tail(q)[i] = q[i + 1]
  BY <1>1
<1>3. 1 \in 1..Len(q)
  BY <1>1
<1>4. ASSUME NEW i \in 1..Len(Tail(q)), NEW j \in 1..Len(Tail(q)), i + 1 = j + 1
      PROVE  i = j
  BY <1>1, <1>4
<1>5. Establishes(Tail(q), l, state)
  BY <1>2, <1>4 DEF Establishes
<1>6. QED
  BY <1>1, <1>2, <1>3, <1>5 DEF Establishes

-----------------------------------------------------------------------------
(* What the steps do to the queues. *)

LEMMA QueueTypes ==
  ASSUME NetTypeOK, NEW l \in Loop
  PROVE  batch[l] \in Seq(Functor) /\ pending[l] \in Seq(Functor)
           /\ Queue(l) \in Seq(Functor)
BY DEF NetTypeOK, Queue

LEMMA QueuedEffect ==
  ASSUME NetTypeOK, NEW l \in Loop, NEW f \in Functor,
         pending' = Queued(l, f), batch' = batch
  PROVE  /\ pending' \in [Loop -> Seq(Functor)]
         /\ Queue(l)' = Append(Queue(l), f)
         /\ \A k \in Loop : k # l => Queue(k)' = Queue(k)
<1>1. /\ pending \in [Loop -> Seq(Functor)]
      /\ pending' = [pending EXCEPT ![l] = Append(@, f)]
      /\ Append(pending[l], f) \in Seq(Functor)
  BY QueueTypes DEF NetTypeOK, Queued
<1>2. pending'[l] = Append(pending[l], f) /\ \A k \in Loop : k # l => pending'[k] = pending[k]
  BY <1>1
<1>3. batch[l] \o Append(pending[l], f) = Append(batch[l] \o pending[l], f)
  BY QueueTypes, QueuedBehind
<1>4. QED
  BY <1>1, <1>2, <1>3 DEF Queue

LEMMA RunsEffect ==
  ASSUME NetTypeOK, NEW l \in Loop, NEW op, Runs(l, op), pending' = pending
  PROVE  /\ batch' \in [Loop -> Seq(Functor)]
         /\ Queue(l) # <<>> /\ Head(Queue(l)) = Head(batch[l])
         /\ Head(batch[l]) \in Functor /\ Head(batch[l]).op = op
         /\ Queue(l)' = Tail(Queue(l))
         /\ \A k \in Loop : k # l => Queue(k)' = Queue(k)
<1>1. /\ batch \in [Loop -> Seq(Functor)] /\ batch[l] # <<>>
      /\ batch' = [batch EXCEPT ![l] = Tail(@)] /\ Head(batch[l]).op = op
      /\ Head(batch[l]) \in Functor /\ Tail(batch[l]) \in Seq(Functor)
  BY QueueTypes, HeadTailProperties DEF NetTypeOK, Runs
<1>2. batch'[l] = Tail(batch[l]) /\ \A k \in Loop : k # l => batch'[k] = batch[k]
  BY <1>1
<1>3. QED
  BY <1>1, <1>2, QueueTypes, RunIsFirst DEF Queue

\* doPendingFunctors changes no order.
LEMMA TakeFunctorsEffect ==
  ASSUME NetTypeOK, NEW l \in Loop, TakeFunctors(l)
  PROVE  /\ NetTypeOK'
         /\ \A k \in Loop : Queue(k)' = Queue(k)
<1>1. /\ batch' = [batch EXCEPT ![l] = pending[l]]
      /\ pending' = [pending EXCEPT ![l] = <<>>]
      /\ batch[l] = <<>> /\ UNCHANGED <<conn, said, stream>>
  BY DEF TakeFunctors
<1>2. NetTypeOK'
  BY <1>1, QueueTypes DEF NetTypeOK
<1>3. /\ batch'[l] = pending[l] /\ pending'[l] = <<>>
      /\ \A k \in Loop : k # l => batch'[k] = batch[k] /\ pending'[k] = pending[k]
  BY <1>1 DEF NetTypeOK
<1>4. Queue(l)' = pending[l] /\ Queue(l) = pending[l]
  BY <1>1, <1>3, QueueTypes, ConcatEmptySeq DEF Queue
<1>5. QED
  BY <1>2, <1>3, <1>4 DEF Queue

\* How far a loop is, and how far it has been told, are places in the log.
LEMMA Places ==
  ASSUME IInv, NEW l \in Loop
  PROVE  done[l] \in Nat /\ Told(l) \in Nat /\ done[l] <= Told(l) /\ Told(l) <= Len(log)
<1>1. done[l] \in Nat /\ log \in Seq(Message) /\ Len(log) \in Nat
  BY DEF IInv, TypeOK
<1>2. PICK N \in [0..Len(Queue(l)) -> 0..Told(l)] :
        Numbers(N, Queue(l), done[l], Told(l), log)
  BY DEF IInv, QueuesFollowLog, Numbered
<1>3. Queue(l) \in Seq(Functor)
  BY QueueTypes DEF IInv, TypeOK
<1>4. N[0] = done[l] /\ N[0] \in 0..Told(l)
  BY <1>2, <1>3 DEF Numbers
<1>5. Told(l) \in Int /\ Told(l) <= Len(log)
  BY <1>1 DEF Told
<1>6. QED
  BY <1>1, <1>4, <1>5
\* What a step that takes no message on or off a queue keeps.
LEMMA LogKeeps ==
  ASSUME IInv, UNCHANGED <<said, locked, todo, log, done>>
  PROVE  /\ OneBroadcast' /\ LogOfDecoded'
         /\ \A l \in Loop : Told(l)' = Told(l)
BY DEF IInv, OneBroadcast, LogOfDecoded, Decoded, Told

\* A client the step does nothing to, and whose loop stays where it is.
LEMMA ReadsKeep ==
  ASSUME IInv, NEW c \in Conn, conn'[c] = conn[c], stream'[c] = stream[c],
         first'[c] = first[c], done' = done, log' = log,
         c \in local[LoopOf[c]] => c \in local'[LoopOf[c]]
  PROVE  Reads(c)'
BY DEF IInv, Reads

\* The queues after a step.
LEMMA QueuesFollow ==
  /\ (\A l \in Loop : Numbered(Queue(l)', done'[l], Told(l)', log')) => QueuesFollowLog'
  /\ (\A l \in Loop : Establishes(Queue(l)', l, conn')) => EstablishedOnce'
BY DEF QueuesFollowLog, Numbered, Numbers, EstablishedOnce, Establishes

LEMMA MessageOf ==
  ASSUME NEW c \in Conn, NEW n \in 1..MaxSays[c]
  PROVE  [from |-> c, n |-> n] \in Message
BY DEF Message

LEMMA LoopOfConn == \A c \in Conn : LoopOf[c] \in Loop
BY ChatAssumption

\* What a client has read, and where in the log it stands.
LEMMA ReadPlaces ==
  ASSUME IInv, NEW c \in Conn
  PROVE  /\ first[c] \in Nat /\ Len(stream[c]) \in Nat
         /\ \A i \in 1..Len(stream[c]) :
              first[c] + i \in 1..Len(log) /\ stream[c][i] = log[first[c] + i]
<1> DEFINE l == LoopOf[c]
<1>1. l \in Loop
  BY LoopOfConn
<1>2. /\ done[l] \in Nat /\ Told(l) \in Nat /\ done[l] <= Told(l) /\ Told(l) <= Len(log)
      /\ first[c] \in Nat /\ Len(stream[c]) \in Nat /\ Len(log) \in Nat
  <2>1. stream[c] \in Seq(Message) /\ log \in Seq(Message) /\ first[c] \in Nat
    BY DEF IInv, TypeOK, NetTypeOK
  <2>2. QED
    BY <1>1, <2>1, Places
<1>3. /\ first[c] + Len(stream[c]) <= done[l]
      /\ \A i \in 1..Len(stream[c]) : stream[c][i] = log[first[c] + i]
  BY DEF IInv, Reads
<1> HIDE DEF l
<1>4. ASSUME NEW i \in 1..Len(stream[c])
      PROVE  first[c] + i \in 1..Len(log)
  BY <1>2, <1>3
<1>5. QED
  BY <1>2, <1>3, <1>4

-----------------------------------------------------------------------------
(* The steps. *)

LEMMA AcceptKeeps ==
  ASSUME IInv, NEW c \in Conn, Other(Accept(c))
  PROVE  IInv'
<1> DEFINE f == [op |-> "establish", conn |-> c]
<1>0. /\ TypeOK /\ NetTypeOK /\ QueuesFollowLog /\ EstablishedOnce /\ LocalToLoop
      /\ LoopOf[c] \in Loop
  BY LoopOfConn DEF IInv, TypeOK
<1>1. /\ conn[c] = "absent" /\ conn' = [conn EXCEPT ![c] = "accepted"]
      /\ pending' = Queued(LoopOf[c], f)
      /\ UNCHANGED <<batch, said, stream, local, locked, todo, log, done, first>>
  BY DEF Other, Accept, chat
<1>2. f \in Functor /\ f.op = "establish" /\ f.conn = c
  BY DEF Functor
<1> HIDE DEF f
<1>3. /\ pending' \in [Loop -> Seq(Functor)]
      /\ Queue(LoopOf[c])' = Append(Queue(LoopOf[c]), f)
      /\ \A k \in Loop : k # LoopOf[c] => Queue(k)' = Queue(k)
  BY <1>0, <1>1, <1>2, QueuedEffect
<1>4. TypeOK'
  BY <1>0, <1>1, <1>3 DEF TypeOK, NetTypeOK, ConnStates
<1>5. OneBroadcast' /\ LogOfDecoded' /\ \A l \in Loop : Told(l)' = Told(l)
  BY <1>1, LogKeeps
<1>6. ASSUME NEW l \in Loop
      PROVE  Numbered(Queue(l)', done'[l], Told(l)', log')
  <2>1. Numbered(Queue(l), done[l], Told(l), log)
    BY <1>0 DEF QueuesFollowLog
  <2>2. CASE l = LoopOf[c]
    <3>1. Numbered(Append(Queue(l), f), done[l], Told(l), log)
      BY <1>0, <1>2, <2>1, NumberedOther, Places, QueueTypes DEF TypeOK
    <3>2. QED
      BY <1>1, <1>3, <1>5, <2>2, <3>1
  <2>3. CASE l # LoopOf[c]
    BY <1>1, <1>3, <1>5, <2>1, <2>3
  <2>4. QED
    BY <2>2, <2>3
<1>7. ASSUME NEW l \in Loop
      PROVE  Establishes(Queue(l)', l, conn')
  <2>1. Establishes(Queue(l), l, conn) /\ Queue(l) \in Seq(Functor)
    BY <1>0, QueueTypes DEF EstablishedOnce
  <2>2. CASE l = LoopOf[c]
    <3>1. Establishes(Append(Queue(l), f), l, [conn EXCEPT ![c] = "accepted"])
      BY <1>0, <1>1, <1>2, <2>1, <2>2, EstablishesAccepted DEF NetTypeOK
    <3>2. QED
      BY <1>1, <1>3, <2>2, <3>1
  <2>3. CASE l # LoopOf[c]
    <3>1. Establishes(Queue(l), l, conn')
      BY <1>0, <1>1, <2>1, <2>3, EstablishesKeep DEF NetTypeOK
    <3>2. QED
      BY <1>3, <2>3, <3>1
  <2>4. QED
    BY <2>2, <2>3
<1>8. ASSUME NEW d \in Conn
      PROVE  Reads(d)'
  <2>1. CASE d = c
    BY <1>0, <1>1, <2>1 DEF IInv, Reads, Sendable, NetTypeOK
  <2>2. CASE d # c
    BY <1>0, <1>1, <2>2, ReadsKeep DEF NetTypeOK
  <2>3. QED
    BY <2>1, <2>2
<1>9. QED
  BY <1>0, <1>1, <1>4, <1>5, <1>6, <1>7, <1>8, QueuesFollow DEF IInv, LocalToLoop

\* The queues, when a step touches none of them and no connection that waits.
LEMMA QueuesKeep ==
  ASSUME IInv, \A l \in Loop : Queue(l)' = Queue(l),
         UNCHANGED <<locked, todo, log, done>>,
         \A c \in Conn : conn[c] = "accepted" => conn'[c] = "accepted"
  PROVE  QueuesFollowLog' /\ EstablishedOnce'
<1>1. ASSUME NEW l \in Loop
      PROVE  Numbered(Queue(l)', done'[l], Told(l)', log')
  <2>1. Numbered(Queue(l), done[l], Told(l), log) /\ Told(l)' = Told(l)
    BY DEF IInv, QueuesFollowLog, Told
  <2>2. QED
    BY <2>1
<1>2. ASSUME NEW l \in Loop
      PROVE  Establishes(Queue(l)', l, conn')
  <2>1. Establishes(Queue(l), l, conn) /\ Queue(l) \in Seq(Functor)
    BY QueueTypes DEF IInv, TypeOK, EstablishedOnce
  <2>2. Establishes(Queue(l), l, conn')
    BY <2>1, EstablishesKeep
  <2>3. QED
    BY <2>2
<1>3. QED
  BY <1>1, <1>2, QueuesFollow

LEMMA InvalidLengthKeeps ==
  ASSUME IInv, NEW c \in Conn, Other(InvalidLength(c))
  PROVE  IInv'
<1>0. TypeOK /\ NetTypeOK /\ LocalToLoop
  BY DEF IInv, TypeOK
<1>1. /\ Readable(conn[c]) /\ conn' = [conn EXCEPT ![c] = AfterShutdown(@)]
      /\ UNCHANGED <<pending, batch, said, stream, local, locked, todo, log, done, first>>
  BY DEF Other, InvalidLength, chat
<1>2. TypeOK'
  BY <1>0, <1>1 DEF TypeOK, NetTypeOK, ConnStates, AfterShutdown
<1>3. QueuesFollowLog' /\ EstablishedOnce'
  <2>1. \A d \in Conn : conn[d] = "accepted" => conn'[d] = "accepted"
    BY <1>0, <1>1 DEF NetTypeOK, Readable
  <2>2. QED
    BY <1>1, <2>1, QueuesKeep DEF Queue
<1>4. OneBroadcast' /\ LogOfDecoded'
  BY <1>1, LogKeeps
<1>5. ASSUME NEW d \in Conn
      PROVE  Reads(d)'
  <2>1. CASE d = c
    BY <1>0, <1>1, <2>1
       DEF IInv, Reads, Sendable, Readable, AfterShutdown, NetTypeOK
  <2>2. CASE d # c
    BY <1>0, <1>1, <2>2, ReadsKeep DEF NetTypeOK
  <2>3. QED
    BY <2>1, <2>2
<1>6. QED
  BY <1>0, <1>1, <1>2, <1>3, <1>4, <1>5 DEF IInv, LocalToLoop

LEMMA TakeFunctorsKeeps ==
  ASSUME IInv, NEW l \in Loop, Other(TakeFunctors(l))
  PROVE  IInv'
<1>0. TypeOK /\ NetTypeOK /\ LocalToLoop
  BY DEF IInv, TypeOK
<1>1. TakeFunctors(l) /\ UNCHANGED <<conn, said, stream, local, locked, todo, log, done, first>>
  BY DEF Other, TakeFunctors, chat
<1>2. NetTypeOK' /\ \A k \in Loop : Queue(k)' = Queue(k)
  BY <1>0, <1>1, TakeFunctorsEffect
<1>3. QueuesFollowLog' /\ EstablishedOnce'
  BY <1>1, <1>2, QueuesKeep
<1>4. OneBroadcast' /\ LogOfDecoded'
  BY <1>1, LogKeeps
<1>5. \A d \in Conn : Reads(d)'
  BY <1>1, ReadsKeep
<1>6. QED
  BY <1>0, <1>1, <1>2, <1>3, <1>4, <1>5 DEF IInv, TypeOK, LocalToLoop

LEMMA OnConnectionDownKeeps ==
  ASSUME IInv, NEW c \in Conn, OnConnectionDown(c)
  PROVE  IInv'
<1>0. TypeOK /\ NetTypeOK /\ LocalToLoop /\ LoopOf[c] \in Loop
  BY LoopOfConn DEF IInv, TypeOK
<1>1. /\ Readable(conn[c]) /\ conn' = [conn EXCEPT ![c] = "disconnected"]
      /\ local' = [local EXCEPT ![LoopOf[c]] = @ \ {c}]
      /\ UNCHANGED <<pending, batch, said, stream, locked, todo, log, done, first>>
  BY DEF OnConnectionDown
<1>2. TypeOK'
  BY <1>0, <1>1 DEF TypeOK, NetTypeOK, ConnStates
<1>3. QueuesFollowLog' /\ EstablishedOnce'
  <2>1. \A d \in Conn : conn[d] = "accepted" => conn'[d] = "accepted"
    BY <1>0, <1>1 DEF NetTypeOK, Readable
  <2>2. QED
    BY <1>1, <2>1, QueuesKeep DEF Queue
<1>4. OneBroadcast' /\ LogOfDecoded'
  BY <1>1, LogKeeps
<1>5. ASSUME NEW d \in Conn
      PROVE  Reads(d)'
  <2>1. CASE d = c
    BY <1>0, <1>1, <2>1 DEF IInv, Reads, Sendable, NetTypeOK
  <2>2. CASE d # c
    <3>1. d \in local[LoopOf[d]] => d \in local'[LoopOf[d]]
      BY <1>0, <1>1, <2>2, LoopOfConn DEF TypeOK
    <3>2. QED
      BY <1>0, <1>1, <2>2, <3>1, ReadsKeep DEF NetTypeOK
  <2>3. QED
    BY <2>1, <2>2
<1>6. LocalToLoop'
  BY <1>0, <1>1 DEF LocalToLoop, TypeOK
<1>7. QED
  BY <1>2, <1>3, <1>4, <1>5, <1>6 DEF IInv
\* A connection comes up where its loop is in the log.
LEMMA OnConnectionUpKeeps ==
  ASSUME IInv, NEW l \in Loop, OnConnectionUp(l)
  PROVE  IInv'
<1> DEFINE c == Head(batch[l]).conn
<1>0. TypeOK /\ NetTypeOK /\ LocalToLoop
  BY DEF IInv, TypeOK
<1>1. /\ Runs(l, "establish") /\ conn' = [conn EXCEPT ![c] = "connected"]
      /\ local' = [local EXCEPT ![l] = @ \cup {c}]
      /\ first' = [first EXCEPT ![c] = done[l]]
      /\ UNCHANGED <<pending, said, stream, locked, todo, log, done>>
  BY DEF OnConnectionUp
<1>2. /\ batch' \in [Loop -> Seq(Functor)]
      /\ Queue(l) \in Seq(Functor) /\ Queue(l) # <<>>
      /\ Head(Queue(l)).op = "establish" /\ Head(Queue(l)).conn = c /\ c \in Conn
      /\ Queue(l)' = Tail(Queue(l))
      /\ \A k \in Loop : k # l => Queue(k)' = Queue(k)
  BY <1>0, <1>1, RunsEffect, QueueTypes DEF Functor
<1> HIDE DEF c
<1>3. /\ Establishes(Tail(Queue(l)), l, conn) /\ LoopOf[c] = l /\ conn[c] = "accepted"
      /\ \A i \in 1..Len(Tail(Queue(l))) :
           Tail(Queue(l))[i].op = "establish" => Tail(Queue(l))[i].conn # c
  <2>1. Establishes(Queue(l), l, conn)
    BY DEF IInv, EstablishedOnce
  <2>2. QED
    BY <1>2, <2>1, EstablishesRun
<1>4. TypeOK'
  BY <1>0, <1>1, <1>2 DEF TypeOK, NetTypeOK, ConnStates
<1>5. OneBroadcast' /\ LogOfDecoded' /\ \A k \in Loop : Told(k)' = Told(k)
  BY <1>1, LogKeeps
<1>6. ASSUME NEW k \in Loop
      PROVE  Numbered(Queue(k)', done'[k], Told(k)', log')
  <2>1. Numbered(Queue(k), done[k], Told(k), log)
    BY DEF IInv, QueuesFollowLog
  <2>2. CASE k = l
    <3>1. Numbered(Tail(Queue(l)), done[l], Told(l), log)
      BY <1>0, <1>2, <2>1, <2>2, Places, NumberedRun DEF TypeOK
    <3>2. QED
      BY <1>1, <1>2, <1>5, <2>2, <3>1
  <2>3. CASE k # l
    BY <1>1, <1>2, <1>5, <2>1, <2>3
  <2>4. QED
    BY <2>2, <2>3
<1>7. ASSUME NEW k \in Loop
      PROVE  Establishes(Queue(k)', k, conn')
  <2>1. CASE k = l
    <3>1. \A d : d # c => conn'[d] = conn[d]
      BY <1>0, <1>1 DEF NetTypeOK
    <3>2. Establishes(Tail(Queue(l)), l, conn')
      BY <1>3, <3>1 DEF Establishes
    <3>3. QED
      BY <1>2, <2>1, <3>2
  <2>2. CASE k # l
    <3>1. Establishes(Queue(k), k, conn) /\ Queue(k) \in Seq(Functor)
      BY <1>0, QueueTypes DEF IInv, EstablishedOnce
    <3>2. Establishes(Queue(k), k, conn')
      BY <1>0, <1>1, <1>3, <2>2, <3>1, EstablishesKeep DEF NetTypeOK
    <3>3. QED
      BY <1>2, <2>2, <3>2
  <2>3. QED
    BY <2>1, <2>2
<1>8. ASSUME NEW d \in Conn
      PROVE  Reads(d)'
  <2>1. CASE d = c
    <3>1. stream'[c] = <<>> /\ first'[c] = done[l] /\ conn'[c] = "connected"
          /\ c \in local'[l] /\ done' = done /\ done[l] \in Nat
      BY <1>0, <1>1, <1>2, <1>3 DEF IInv, Reads, TypeOK, NetTypeOK
    <3>2. Len(stream'[c]) = 0
      BY <3>1, EmptySeq
    <3>3. QED
      BY <1>3, <2>1, <3>1, <3>2 DEF Reads
  <2>2. CASE d # c
    <3>1. d \in local[LoopOf[d]] => d \in local'[LoopOf[d]]
      BY <1>0, <1>1, LoopOfConn DEF TypeOK
    <3>2. QED
      BY <1>0, <1>1, <2>2, <3>1, ReadsKeep DEF NetTypeOK, TypeOK
  <2>3. QED
    BY <2>1, <2>2
<1>9. LocalToLoop'
  BY <1>0, <1>1, <1>3 DEF LocalToLoop, TypeOK
<1>10. QED
  BY <1>4, <1>5, <1>6, <1>7, <1>8, <1>9, QueuesFollow DEF IInv

\* A broadcast takes the lock and a place in the log, in one step.
LEMMA OnStringMessageKeeps ==
  ASSUME IInv, NEW c \in Conn, OnStringMessage(c)
  PROVE  IInv'
<1> DEFINE m == [from |-> c, n |-> said[c] + 1]
<1>0. TypeOK /\ NetTypeOK /\ LocalToLoop /\ OneBroadcast /\ LogOfDecoded
  BY DEF IInv, TypeOK
<1>1. /\ locked = {} /\ locked' = {c}
      /\ said' = [said EXCEPT ![c] = @ + 1] /\ said[c] < MaxSays[c]
      /\ todo' = [todo EXCEPT ![c] = Loop] /\ log' = Append(log, m)
      /\ UNCHANGED <<conn, pending, batch, stream, local, done, first>>
  BY DEF OnStringMessage, Unlocked, Decode, AllLoops
<1>2. /\ said[c] \in Nat /\ said'[c] = said[c] + 1
      /\ \A d \in Conn : d # c => said'[d] = said[d]
      /\ said[c] + 1 \in 1..MaxSays[c] /\ m.from = c /\ m.n = said[c] + 1
  <2>1. said \in [Conn -> Nat] /\ MaxSays[c] \in Nat
    BY <1>0, ChatAssumption DEF NetTypeOK
  <2>2. said[c] \in Nat /\ said[c] + 1 \in 1..MaxSays[c]
    BY <1>1, <2>1
  <2>3. said'[c] = said[c] + 1 /\ \A d \in Conn : d # c => said'[d] = said[d]
    BY <1>1, <2>1
  <2>4. QED
    BY <2>2, <2>3
<1>3. Decoded(c)' = m /\ m \in Message
  BY <1>2, MessageOf DEF Decoded
<1> HIDE DEF m
<1>4. /\ log \in Seq(Message) /\ Len(log) \in Nat /\ Len(log') = Len(log) + 1
      /\ log' \in Seq(Message) /\ log'[Len(log) + 1] = m
      /\ \A i \in 1..Len(log) : log'[i] = log[i]
  BY <1>0, <1>1, <1>3, AppendAt DEF TypeOK
<1>5. TypeOK'
  BY <1>0, <1>1, <1>4 DEF TypeOK, NetTypeOK
<1>6. OneBroadcast'
  <2>1. log' # <<>>
    BY <1>4, EmptySeq
  <2>2. \A d \in locked' : log'[Len(log')] = Decoded(d)'
    BY <1>1, <1>3, <1>4
  <2>3. \A d \in Conn : todo'[d] # {} => d \in locked'
    BY <1>0, <1>1 DEF OneBroadcast, TypeOK
  <2>4. QED
    BY <1>1, <2>1, <2>2, <2>3 DEF OneBroadcast
<1>7. LogOfDecoded'
  <2>1. ASSUME NEW i \in 1..Len(log)
        PROVE  log'[i].n <= said'[log'[i].from] /\ log'[i] # m
    <3>1. log[i].n <= said[log[i].from] /\ log'[i] = log[i]
      BY <1>0, <1>4 DEF LogOfDecoded
    <3>2. log[i] \in Message
      BY <1>4, ElementOfSeq
    <3>3. log[i].from \in Conn /\ log[i].n \in Nat /\ said[log[i].from] \in Nat
      BY <1>0, <3>2, ChatAssumption DEF Message, NetTypeOK
    <3>4. QED
      BY <1>2, <3>1, <3>3
  <2>2. m.n <= said'[m.from]
    BY <1>2
  <2>3. \A i \in 1..Len(log') : i \in 1..Len(log) \/ (i = Len(log) + 1 /\ log'[i] = m)
    BY <1>4
  <2>4. QED
    BY <1>0, <1>4, <2>1, <2>2, <2>3 DEF LogOfDecoded
<1>8. ASSUME NEW l \in Loop
      PROVE  Numbered(Queue(l)', done'[l], Told(l)', log')
  <2>1. /\ Numbered(Queue(l), done[l], Told(l), log) /\ Queue(l) \in Seq(Functor)
        /\ done[l] \in Nat /\ Told(l) \in Nat /\ Told(l) <= Len(log)
    BY <1>0, Places, QueueTypes DEF IInv, QueuesFollowLog
  <2>2. Told(l) = Len(log)
    BY <1>1 DEF Told
  <2>3. \E d \in locked' : l \in todo'[d]
    BY <1>0, <1>1 DEF TypeOK
  <2>4. Told(l)' = Told(l)
    BY <1>4, <2>2, <2>3 DEF Told
  <2>5. Queue(l)' = Queue(l)
    BY <1>1 DEF Queue
  <2>6. Numbered(Queue(l), done[l], Told(l), Append(log, m))
    BY <1>3, <1>4, <2>1, NumberedLonger
  <2>7. QED
    BY <1>1, <2>4, <2>5, <2>6
<1>9. ASSUME NEW l \in Loop
      PROVE  Establishes(Queue(l)', l, conn')
  <2>1. Queue(l)' = Queue(l)
    BY <1>1 DEF Queue
  <2>2. QED
    BY <1>1, <2>1 DEF IInv, EstablishedOnce
<1>10. ASSUME NEW d \in Conn
       PROVE  Reads(d)'
  <2>1. ASSUME NEW i \in 1..Len(stream[d])
        PROVE  stream[d][i] = log'[first[d] + i]
    BY <1>4, ReadPlaces
  <2>2. Reads(d)
    BY DEF IInv
  <2>3. QED
    BY <1>1, <2>1, <2>2 DEF Reads, Sendable
<1>11. LocalToLoop'
  BY <1>0, <1>1 DEF LocalToLoop
<1>12. QED
  BY <1>5, <1>6, <1>7, <1>8, <1>9, <1>10, <1>11, QueuesFollow DEF IInv
\* The message goes to the end of one more queue, where it is the next.
LEMMA QueueNextKeeps ==
  ASSUME IInv, NEW c \in Conn, QueueNext(c)
  PROVE  IInv'
<1>0. TypeOK /\ NetTypeOK /\ LocalToLoop /\ OneBroadcast /\ LogOfDecoded
  BY DEF IInv, TypeOK
<1>1. PICK l \in todo[c] :
        /\ pending' = Queued(l, [op |-> "distribute", msg |-> Decoded(c)])
        /\ todo' = [todo EXCEPT ![c] = @ \ {l}]
        /\ UNCHANGED <<conn, batch, said, stream, local, locked, log, done, first>>
  BY DEF QueueNext
<1> DEFINE f == [op |-> "distribute", msg |-> Decoded(c)]
<1>2. l \in Loop /\ c \in locked
  BY <1>0, <1>1 DEF TypeOK, OneBroadcast
<1>3. /\ log \in Seq(Message) /\ Len(log) \in Nat /\ Len(log) >= 1
      /\ log[Len(log)] = Decoded(c) /\ Decoded(c) \in Message
  <2>1. log \in Seq(Message) /\ log # <<>> /\ log[Len(log)] = Decoded(c)
    BY <1>0, <1>2 DEF TypeOK, OneBroadcast
  <2>2. QED
    BY <2>1, EmptySeq, ElementOfSeq
<1>4. f \in Functor /\ f.op = "distribute" /\ f.msg = log[Len(log)]
  BY <1>3 DEF Functor
<1>5. /\ pending' \in [Loop -> Seq(Functor)]
      /\ Queue(l)' = Append(Queue(l), f)
      /\ \A k \in Loop : k # l => Queue(k)' = Queue(k)
  BY <1>0, <1>1, <1>2, <1>4, QueuedEffect
<1> HIDE DEF f
<1>6. TypeOK'
  BY <1>0, <1>1, <1>5 DEF TypeOK, NetTypeOK
<1>7. OneBroadcast'
  BY <1>0, <1>1 DEF OneBroadcast, TypeOK, Decoded
<1>8. LogOfDecoded'
  BY <1>0, <1>1 DEF LogOfDecoded
<1>9. Told(l) = Len(log) - 1 /\ Told(l)' = Len(log)
  BY <1>0, <1>1, <1>2 DEF Told, OneBroadcast, TypeOK
<1>10. ASSUME NEW k \in Loop, k # l
       PROVE  Told(k)' = Told(k)
  <2>1. \A d \in Conn : k \in todo'[d] <=> k \in todo[d]
    BY <1>0, <1>1, <1>10 DEF TypeOK
  <2>2. locked \in SUBSET Conn /\ locked' = locked /\ log' = log
    BY <1>0, <1>1 DEF TypeOK
  <2>3. QED
    BY <2>1, <2>2 DEF Told
<1>11. ASSUME NEW k \in Loop
       PROVE  Numbered(Queue(k)', done'[k], Told(k)', log')
  <2>1. /\ Numbered(Queue(k), done[k], Told(k), log) /\ Queue(k) \in Seq(Functor)
        /\ done[k] \in Nat /\ Told(k) \in Nat
    BY <1>0, Places, QueueTypes DEF IInv, QueuesFollowLog
  <2>2. CASE k = l
    <3>1. Told(l) + 1 = Len(log)
      BY <1>3, <1>9
    <3>2. Numbered(Append(Queue(l), f), done[l], Told(l) + 1, log)
      BY <1>3, <1>4, <2>1, <2>2, <3>1, NumberedTold
    <3>3. QED
      BY <1>1, <1>5, <1>9, <2>2, <3>1, <3>2
  <2>3. CASE k # l
    BY <1>1, <1>5, <1>10, <2>1, <2>3
  <2>4. QED
    BY <2>2, <2>3
<1>12. ASSUME NEW k \in Loop
       PROVE  Establishes(Queue(k)', k, conn')
  <2>1. Establishes(Queue(k), k, conn) /\ Queue(k) \in Seq(Functor)
    BY <1>0, QueueTypes DEF IInv, EstablishedOnce
  <2>2. CASE k = l
    <3>1. Establishes(Append(Queue(l), f), l, conn)
      BY <1>4, <2>1, <2>2, EstablishesOther
    <3>2. QED
      BY <1>1, <1>5, <2>2, <3>1
  <2>3. CASE k # l
    BY <1>1, <1>5, <2>1, <2>3
  <2>4. QED
    BY <2>2, <2>3
<1>13. \A d \in Conn : Reads(d)'
  BY <1>1, ReadsKeep
<1>14. QED
  BY <1>0, <1>1, <1>6, <1>7, <1>8, <1>11, <1>12, <1>13, QueuesFollow
     DEF IInv, LocalToLoop

LEMMA UnlockKeeps ==
  ASSUME IInv, NEW c \in Conn, Unlock(c)
  PROVE  IInv'
<1>0. TypeOK /\ NetTypeOK /\ LocalToLoop /\ OneBroadcast /\ LogOfDecoded
  BY DEF IInv, TypeOK
<1>1. /\ c \in locked /\ todo[c] = {} /\ locked' = locked \ {c}
      /\ UNCHANGED <<conn, pending, batch, said, stream, local, todo, log, done, first>>
  BY DEF Unlock, net
<1>2. TypeOK'
  BY <1>0, <1>1 DEF TypeOK, NetTypeOK
<1>3. OneBroadcast' /\ LogOfDecoded'
  BY <1>0, <1>1 DEF OneBroadcast, LogOfDecoded, Decoded
<1>4. ASSUME NEW l \in Loop
      PROVE  Numbered(Queue(l)', done'[l], Told(l)', log')
  <2>1. Told(l)' = Told(l)
    BY <1>1 DEF Told
  <2>2. Queue(l)' = Queue(l)
    BY <1>1 DEF Queue
  <2>3. QED
    BY <1>1, <2>1, <2>2 DEF IInv, QueuesFollowLog
<1>5. ASSUME NEW l \in Loop
      PROVE  Establishes(Queue(l)', l, conn')
  <2>1. Queue(l)' = Queue(l)
    BY <1>1 DEF Queue
  <2>2. QED
    BY <1>1, <2>1 DEF IInv, EstablishedOnce
<1>6. \A d \in Conn : Reads(d)'
  BY <1>1, ReadsKeep
<1>7. QED
  BY <1>0, <1>1, <1>2, <1>3, <1>4, <1>5, <1>6, QueuesFollow DEF IInv, LocalToLoop

\* What a loop distributes is the message of the log it has come to.
LEMMA DistributesNext ==
  ASSUME IInv, NEW l \in Loop, DistributeMessage(l)
  PROVE  /\ batch' \in [Loop -> Seq(Functor)]
         /\ Queue(l)' = Tail(Queue(l)) /\ Queue(l) # <<>>
         /\ \A k \in Loop : k # l => Queue(k)' = Queue(k)
         /\ Numbered(Tail(Queue(l)), done[l] + 1, Told(l), log)
         /\ done[l] + 1 <= Len(log)
         /\ Head(batch[l]).msg \in Message
         /\ Head(batch[l]).msg = log[done[l] + 1]
<1>0. TypeOK /\ NetTypeOK
  BY DEF IInv, TypeOK
<1>1. Runs(l, "distribute") /\ pending' = pending
  BY DEF DistributeMessage
<1>2. /\ batch' \in [Loop -> Seq(Functor)]
      /\ Queue(l) \in Seq(Functor) /\ Queue(l) # <<>>
      /\ Head(Queue(l)) = Head(batch[l]) /\ Head(batch[l]) \in Functor
      /\ Head(batch[l]).op = "distribute"
      /\ Queue(l)' = Tail(Queue(l))
      /\ \A k \in Loop : k # l => Queue(k)' = Queue(k)
  BY <1>0, <1>1, RunsEffect, QueueTypes
<1>3. Head(batch[l]).msg \in Message
  BY <1>2 DEF Functor
<1>4. /\ Numbered(Queue(l), done[l], Told(l), log)
      /\ done[l] \in Nat /\ Told(l) \in Nat /\ Told(l) <= Len(log)
      /\ log \in Seq(Message) /\ Len(log) \in Nat
  BY <1>0, Places DEF IInv, QueuesFollowLog, TypeOK
<1>5. /\ Numbered(Tail(Queue(l)), done[l] + 1, Told(l), log)
      /\ done[l] + 1 <= Told(l) /\ Head(Queue(l)).msg = log[done[l] + 1]
  BY <1>2, <1>4, NumberedRun
<1>6. QED
  BY <1>2, <1>3, <1>4, <1>5

LEMMA DistributeMessageKeeps ==
  ASSUME IInv, NEW l \in Loop, DistributeMessage(l)
  PROVE  IInv'
<1> DEFINE m == Head(batch[l]).msg
<1>0. TypeOK /\ NetTypeOK /\ LocalToLoop
  BY DEF IInv, TypeOK
<1>1. /\ stream' = [d \in Conn |-> IF d \in local[l] /\ Sendable(conn[d])
                                   THEN Append(stream[d], m) ELSE stream[d]]
      /\ done' = [done EXCEPT ![l] = @ + 1]
      /\ UNCHANGED <<conn, pending, said, local, locked, todo, log, first>>
  BY DEF DistributeMessage
<1>2. m \in Message /\ m = log[done[l] + 1]
  BY DistributesNext
<1> HIDE DEF m
<1>3. /\ done[l] \in Nat /\ done'[l] = done[l] + 1
      /\ \A k \in Loop : k # l => done'[k] = done[k]
  BY <1>0, <1>1 DEF TypeOK
<1>4. ASSUME NEW d \in Conn
      PROVE  /\ stream[d] \in Seq(Message) /\ Append(stream[d], m) \in Seq(Message)
             /\ Len(stream[d]) \in Nat /\ Len(Append(stream[d], m)) = Len(stream[d]) + 1
             /\ \A i \in 1..Len(stream[d]) : Append(stream[d], m)[i] = stream[d][i]
             /\ Append(stream[d], m)[Len(stream[d]) + 1] = m
  BY <1>0, <1>2, AppendAt DEF NetTypeOK
<1>5. TypeOK'
  <2>1. stream' \in [Conn -> Seq(Message)]
    BY <1>1, <1>4
  <2>2. QED
    BY <1>0, <1>1, <2>1, DistributesNext DEF TypeOK, NetTypeOK
<1>6. OneBroadcast' /\ LogOfDecoded' /\ \A k \in Loop : Told(k)' = Told(k)
  BY <1>1 DEF IInv, OneBroadcast, LogOfDecoded, Decoded, Told
<1>7. ASSUME NEW k \in Loop
      PROVE  Numbered(Queue(k)', done'[k], Told(k)', log')
  <2>1. Numbered(Queue(k), done[k], Told(k), log)
    BY DEF IInv, QueuesFollowLog
  <2>2. QED
    BY <1>1, <1>3, <1>6, <2>1, DistributesNext
<1>8. ASSUME NEW k \in Loop
      PROVE  Establishes(Queue(k)', k, conn')
  <2>1. Establishes(Queue(k), k, conn) /\ Queue(k) \in Seq(Functor)
    BY <1>0, QueueTypes DEF IInv, EstablishedOnce
  <2>2. QED
    BY <1>1, <2>1, DistributesNext, EstablishesRun
<1>9. ASSUME NEW d \in Conn
      PROVE  Reads(d)'
  <2>1. Reads(d) /\ LoopOf[d] \in Loop /\ first[d] \in Nat
    BY <1>0, LoopOfConn DEF IInv, TypeOK
  <2>2. CASE d \in local[l] /\ Sendable(conn[d])
    <3>1. LoopOf[d] = l /\ first[d] + Len(stream[d]) = done[l]
      BY <1>0, <2>1, <2>2 DEF LocalToLoop, Reads
    <3>2. /\ Len(stream'[d]) = Len(stream[d]) + 1
          /\ \A i \in 1..Len(stream[d]) : stream'[d][i] = stream[d][i]
          /\ stream'[d][Len(stream[d]) + 1] = m
      BY <1>1, <1>4, <2>2
    <3>3. ASSUME NEW i \in 1..Len(stream'[d])
          PROVE  stream'[d][i] = log[first[d] + i]
      <4>1. CASE i \in 1..Len(stream[d])
        BY <2>1, <3>2, <4>1 DEF Reads
      <4>2. CASE i = Len(stream[d]) + 1
        <5>1. first[d] + i = done[l] + 1
          BY <1>4, <2>1, <3>1, <4>2
        <5>2. QED
          BY <1>2, <3>2, <4>2, <5>1
      <4>3. QED
        <5>1. i \in 1..Len(stream[d]) \/ i = Len(stream[d]) + 1
          BY <1>4, <3>2
        <5>2. QED
          BY <4>1, <4>2, <5>1
    <3>4. first[d] + Len(stream'[d]) = done'[l]
      <4>1. done'[l] = done[l] + 1 /\ first[d] \in Nat /\ Len(stream[d]) \in Nat
        BY <1>3, <1>4, <2>1
      <4>2. QED
        BY <3>1, <3>2, <4>1
    <3>5. QED
      BY <1>1, <1>3, <2>1, <2>2, <3>1, <3>3, <3>4 DEF Reads, Sendable
  <2>3. CASE ~(d \in local[l] /\ Sendable(conn[d]))
    <3>1. stream'[d] = stream[d]
      BY <1>1, <2>3
    <3>2. LoopOf[d] = l => ~Sendable(conn[d])
      BY <2>1, <2>3 DEF Reads
    <3>3. done[LoopOf[d]] \in Nat /\ done'[LoopOf[d]] >= done[LoopOf[d]]
      <4>1. done[LoopOf[d]] \in Nat
        BY <1>0, <2>1 DEF TypeOK
      <4>2. CASE LoopOf[d] = l
        BY <1>3, <4>1, <4>2
      <4>3. CASE LoopOf[d] # l
        BY <1>3, <2>1, <4>1, <4>3
      <4>4. QED
        BY <4>2, <4>3
    <3>4. first[d] + Len(stream[d]) <= done'[LoopOf[d]]
      <4>1. first[d] + Len(stream[d]) <= done[LoopOf[d]]
        BY <2>1 DEF Reads
      <4>2. Len(stream[d]) \in Nat /\ done'[LoopOf[d]] \in Nat
        BY <1>0, <1>3, <1>4, <2>1 DEF TypeOK
      <4>3. QED
        BY <2>1, <3>3, <4>1, <4>2
    <3>5. /\ \A i \in 1..Len(stream[d]) : stream[d][i] = log[first[d] + i]
          /\ conn[d] \in {"absent", "accepted"} => stream[d] = <<>>
          /\ Sendable(conn[d]) => /\ d \in local[LoopOf[d]]
                                  /\ first[d] + Len(stream[d]) = done'[LoopOf[d]]
      BY <1>3, <2>1, <3>2 DEF Reads
    <3>6. QED
      BY <1>1, <3>1, <3>4, <3>5 DEF Reads, Sendable
  <2>4. QED
    BY <2>2, <2>3
<1>10. QED
  BY <1>0, <1>1, <1>5, <1>6, <1>7, <1>8, <1>9, QueuesFollow DEF IInv, LocalToLoop
LEMMA InitIInv == Init => IInv
<1> SUFFICES ASSUME Init PROVE IInv
  OBVIOUS
<1> USE DEF Init, NetInit
<1>1. TypeOK
  BY DEF TypeOK, NetTypeOK, ConnStates
<1>2. \A l \in Loop : Queue(l) = <<>> /\ done[l] = 0 /\ Told(l) = 0 /\ Len(Queue(l)) = 0
  <2>1. ASSUME NEW l \in Loop
        PROVE  Queue(l) = <<>>
    BY <1>1, QueueTypes, ConcatEmptySeq DEF TypeOK, Queue
  <2>2. \A l \in Loop : Told(l) = 0
    BY DEF Told
  <2>3. QED
    BY <2>1, <2>2
<1>3. QueuesFollowLog
  <2>1. ASSUME NEW l \in Loop
        PROVE  Numbered(Queue(l), done[l], Told(l), log)
    <3>1. [i \in 0..0 |-> 0] \in [0..Len(Queue(l)) -> 0..Told(l)]
      BY <1>2
    <3>2. Numbers([i \in 0..0 |-> 0], Queue(l), done[l], Told(l), log)
      BY <1>2 DEF Numbers
    <3>3. QED
      BY <3>1, <3>2 DEF Numbered
  <2>2. QED
    BY <2>1 DEF QueuesFollowLog
<1>4. EstablishedOnce
  BY <1>2 DEF EstablishedOnce, Establishes
<1>5. OneBroadcast /\ LogOfDecoded /\ LocalToLoop
  BY DEF OneBroadcast, LogOfDecoded, LocalToLoop
<1>6. \A c \in Conn : Reads(c)
  BY LoopOfConn DEF Reads, Sendable
<1>7. QED
  BY <1>1, <1>3, <1>4, <1>5, <1>6 DEF IInv

LEMMA StutterKeeps ==
  ASSUME IInv, UNCHANGED vars
  PROVE  IInv'
<1>1. UNCHANGED <<conn, pending, batch, said, stream, local, locked, todo, log, done, first>>
  BY DEF vars, net, chat
<1>2. TypeOK'
  BY <1>1 DEF IInv, TypeOK, NetTypeOK
<1>3. QueuesFollowLog' /\ EstablishedOnce'
  BY <1>1, QueuesKeep DEF Queue
<1>4. OneBroadcast' /\ LogOfDecoded' /\ LocalToLoop' /\ \A c \in Conn : Reads(c)'
  BY <1>1, LogKeeps, ReadsKeep DEF IInv, LocalToLoop
<1>5. QED
  BY <1>2, <1>3, <1>4 DEF IInv

LEMMA NextKeeps == IInv /\ [Next]_vars => IInv'
<1> SUFFICES ASSUME IInv, [Next]_vars PROVE IInv'
  OBVIOUS
<1>1. ASSUME NEW c \in Conn, Other(Accept(c)) \/ Other(InvalidLength(c))
      PROVE  IInv'
  BY <1>1, AcceptKeeps, InvalidLengthKeeps
<1>2. ASSUME NEW c \in Conn, \/ OnConnectionDown(c) \/ OnStringMessage(c)
                             \/ QueueNext(c) \/ Unlock(c)
      PROVE  IInv'
  BY <1>2, OnConnectionDownKeeps, OnStringMessageKeeps, QueueNextKeeps, UnlockKeeps
<1>3. ASSUME NEW l \in Loop, \/ Other(TakeFunctors(l)) \/ OnConnectionUp(l)
                             \/ DistributeMessage(l)
      PROVE  IInv'
  BY <1>3, TakeFunctorsKeeps, OnConnectionUpKeeps, DistributeMessageKeeps
<1>4. QED
  BY <1>1, <1>2, <1>3, StutterKeeps DEF Next

\* In every reachable state the queues hold what is left of the log, in order.
THEOREM Invariance == Spec => []IInv
BY InitIInv, NextKeeps, PTL DEF Spec

-----------------------------------------------------------------------------
(* What follows. *)

LEMMA SameDistance ==
  \A a, b, i, j, p, q \in Nat : i < j /\ a + i = b + p /\ a + j = b + q => p < q
OBVIOUS

\* Two places of the log with the same message are one place.
LEMMA ReadInOrder ==
  ASSUME IInv
  PROVE  EverybodyInOneOrder
<1>1. ASSUME NEW c \in Conn, NEW d \in Conn,
             NEW i \in 1..Len(stream[c]), NEW p \in 1..Len(stream[d]),
             stream[c][i] = stream[d][p]
      PROVE  first[c] + i = first[d] + p
  <2>1. /\ first[c] + i \in 1..Len(log) /\ first[d] + p \in 1..Len(log)
        /\ log[first[c] + i] = log[first[d] + p]
    BY <1>1, ReadPlaces
  <2>2. QED
    BY <2>1 DEF IInv, LogOfDecoded
<1>2. ASSUME NEW c \in Conn, NEW d \in Conn,
             NEW i \in 1..Len(stream[c]), NEW j \in 1..Len(stream[c]),
             NEW p \in 1..Len(stream[d]), NEW q \in 1..Len(stream[d]),
             i < j, stream[c][i] = stream[d][p], stream[c][j] = stream[d][q]
      PROVE  p < q
  <2>1. first[c] + i = first[d] + p /\ first[c] + j = first[d] + q
    BY <1>1, <1>2
  <2>2. first[c] \in Nat /\ first[d] \in Nat
    BY ReadPlaces
  <2>3. i \in Nat /\ j \in Nat /\ p \in Nat /\ q \in Nat
    BY ReadPlaces
  <2>4. i < j
    BY <1>2
  <2> DEFINE a == first[c]
  <2> DEFINE b == first[d]
  <2>5. a \in Nat /\ b \in Nat /\ a + i = b + p /\ a + j = b + q
    BY <2>1, <2>2
  <2> HIDE DEF a, b
  <2>6. QED
    BY <2>3, <2>4, <2>5, SameDistance
<1>3. InOneOrder([c \in Conn |-> Message])
  BY <1>2 DEF InOneOrder
<1>4. QED
  BY <1>3 DEF IInv, EverybodyInOneOrder

\* Any two clients read what both of them read in one order, however many IO
\* threads there are.
THEOREM ConversationShared == Spec => []EverybodyInOneOrder
BY Invariance, ReadInOrder, PTL

-----------------------------------------------------------------------------
(* Each step is one of ChatBroadcast or changes nothing of it. *)

members == {c \in Conn : Sendable(conn[c])}
roomVars == <<log, members, first, stream>>

LEMMA Silent ==
  ASSUME log' = log, first' = first, stream' = stream,
         \A c \in Conn : Sendable(conn'[c]) <=> Sendable(conn[c])
  PROVE  UNCHANGED roomVars
BY DEF roomVars, members, Sendable

\* A connection that can no longer be sent to leaves the room.
LEMMA Leaves ==
  ASSUME IInv, NEW c \in Conn, NEW state \in {"disconnecting", "disconnected"},
         conn' = [conn EXCEPT ![c] = state],
         UNCHANGED <<log, first, stream>>
  PROVE  Room!Leave(c) \/ UNCHANGED roomVars
<1>1. conn \in [Conn -> ConnStates]
  BY DEF IInv, TypeOK, NetTypeOK
<1>2. members' = members \ {c}
  BY <1>1 DEF members, Sendable
<1>3. CASE c \in members
  BY <1>2, <1>3 DEF Room!Leave, members
<1>4. CASE c \notin members
  BY <1>2, <1>4 DEF roomVars
<1>5. QED
  BY <1>3, <1>4

\* A connection joins at the place of its loop.
LEMMA Joins ==
  ASSUME IInv, NEW l \in Loop, OnConnectionUp(l)
  PROVE  Room!Join(Head(batch[l]).conn) /\ Head(batch[l]).conn \in Conn
<1> DEFINE c == Head(batch[l]).conn
<1>0. TypeOK /\ NetTypeOK
  BY DEF IInv, TypeOK
<1>1. /\ Runs(l, "establish") /\ conn' = [conn EXCEPT ![c] = "connected"]
      /\ first' = [first EXCEPT ![c] = done[l]]
      /\ UNCHANGED <<pending, stream, log>>
  BY DEF OnConnectionUp
<1>2. /\ Queue(l) \in Seq(Functor) /\ Queue(l) # <<>>
      /\ Head(Queue(l)).op = "establish" /\ Head(Queue(l)).conn = c /\ c \in Conn
  BY <1>0, <1>1, RunsEffect, QueueTypes DEF Functor
<1> HIDE DEF c
<1>3. conn[c] = "accepted"
  BY <1>2, EstablishesRun DEF IInv, EstablishedOnce
<1>4. c \notin members /\ stream[c] = <<>>
  BY <1>2, <1>3 DEF members, Sendable, IInv, Reads
<1>5. members' = members \cup {c}
  BY <1>0, <1>1, <1>2 DEF members, Sendable, NetTypeOK
<1>6. done[l] \in 0..Len(log)
  BY <1>0, Places DEF TypeOK
<1>7. Room!Join(c)
  BY <1>1, <1>4, <1>5, <1>6 DEF Room!Join, members
<1>8. QED
  BY <1>2, <1>7 DEF c

\* A loop distributes a message: its members hear it.
LEMMA Hears ==
  ASSUME IInv, NEW l \in Loop, DistributeMessage(l)
  PROVE  \E S \in SUBSET members : Room!Hear(S)
<1> DEFINE S == {d \in local[l] : Sendable(conn[d])}
<1> DEFINE m == Head(batch[l]).msg
<1>1. /\ stream' = [d \in Conn |-> IF d \in local[l] /\ Sendable(conn[d])
                                   THEN Append(stream[d], m) ELSE stream[d]]
      /\ UNCHANGED <<conn, log, first>>
  BY DEF DistributeMessage
<1>2. done[l] + 1 <= Len(log) /\ m = log[done[l] + 1]
      /\ done[l] \in Nat /\ Len(log) \in Nat
  BY DistributesNext DEF IInv, TypeOK
<1> HIDE DEF m
<1>3. S \in SUBSET members
  BY DEF members, IInv, TypeOK
<1>4. ASSUME NEW d \in S
      PROVE  Room!Place(d) = done[l]
  BY <1>3 DEF members, IInv, LocalToLoop, Reads, Room!Place
<1>5. \A d \in S : Room!Place(d) < Len(log)
  BY <1>2, <1>4
<1>6. stream' = [d \in Conn |-> IF d \in S
                                THEN Append(stream[d], log[Room!Place(d) + 1])
                                ELSE stream[d]]
  BY <1>1, <1>2, <1>4
<1>7. members' = members
  BY <1>1 DEF members
<1>8. Room!Hear(S)
  BY <1>1, <1>5, <1>6, <1>7 DEF Room!Hear, members
<1>9. QED
  BY <1>3, <1>8

\* A broadcast begins: somebody says something.
LEMMA Says ==
  ASSUME IInv, NEW c \in Conn, OnStringMessage(c)
  PROVE  \E m \in Message : Room!Say(m)
<1>1. /\ said[c] < MaxSays[c] /\ log' = Append(log, [from |-> c, n |-> said[c] + 1])
      /\ UNCHANGED <<conn, first, stream>>
  BY DEF OnStringMessage, Decode
<1>2. said[c] + 1 \in 1..MaxSays[c]
  <2>1. said[c] \in Nat /\ MaxSays[c] \in Nat
    BY ChatAssumption DEF IInv, TypeOK, NetTypeOK
  <2>2. QED
    BY <1>1, <2>1
<1>3. [from |-> c, n |-> said[c] + 1] \in Message
  BY <1>2, MessageOf
<1>4. members' = members
  BY <1>1 DEF members
<1>5. QED
  BY <1>1, <1>3, <1>4 DEF Room!Say, members

LEMMA StepRefines ==
  ASSUME IInv, [Next]_vars
  PROVE  [Room!Next]_Room!vars
<1>0. conn \in [Conn -> ConnStates]
  BY DEF IInv, TypeOK, NetTypeOK
<1>1. SUFFICES Room!Next \/ UNCHANGED roomVars
  BY DEF roomVars, members, Room!vars
<1>2. ASSUME NEW c \in Conn, Other(Accept(c))
      PROVE  UNCHANGED roomVars
  BY <1>0, <1>2, Silent DEF Other, Accept, chat, Sendable
<1>3. ASSUME NEW c \in Conn, Other(InvalidLength(c))
      PROVE  Room!Leave(c) \/ UNCHANGED roomVars
  <2>1. /\ conn' = [conn EXCEPT ![c] = "disconnecting"]
        /\ UNCHANGED <<log, first, stream>>
    BY <1>0, <1>3 DEF Other, InvalidLength, chat, AfterShutdown, Readable
  <2>2. QED
    BY <2>1, Leaves
<1>4. ASSUME NEW c \in Conn, OnConnectionDown(c)
      PROVE  Room!Leave(c) \/ UNCHANGED roomVars
  <2>1. /\ conn' = [conn EXCEPT ![c] = "disconnected"]
        /\ UNCHANGED <<log, first, stream>>
    BY <1>4 DEF OnConnectionDown
  <2>2. QED
    BY <2>1, Leaves
<1>5. ASSUME NEW c \in Conn, QueueNext(c) \/ Unlock(c)
      PROVE  UNCHANGED roomVars
  BY <1>5, Silent DEF QueueNext, Unlock, net
<1>6. ASSUME NEW l \in Loop, Other(TakeFunctors(l))
      PROVE  UNCHANGED roomVars
  BY <1>6, Silent DEF Other, TakeFunctors, chat
<1>7. ASSUME NEW c \in Conn, OnStringMessage(c)
      PROVE  Room!Next
  BY <1>7, Says DEF Room!Next
<1>8. ASSUME NEW l \in Loop, OnConnectionUp(l)
      PROVE  Room!Next
  BY <1>8, Joins DEF Room!Next
<1>9. ASSUME NEW l \in Loop, DistributeMessage(l)
      PROVE  Room!Next
  BY <1>9, Hears DEF Room!Next, members
<1>10. CASE UNCHANGED vars
  BY <1>10, Silent DEF vars, net, chat
<1>11. QED
  BY <1>2, <1>3, <1>4, <1>5, <1>6, <1>7, <1>8, <1>9, <1>10 DEF Next, Room!Next

LEMMA InitRefines == Init => Room!Init
BY DEF Init, NetInit, Room!Init, Sendable

\* The server keeps the promise of a chat room: there is one log, and every
\* client reads it without gaps from where it came in.
THEOREM Refinement == Spec => ImplementsBroadcast
<1>1. IInv /\ [Next]_vars => [Room!Next]_Room!vars
  BY StepRefines
<1>2. QED
  BY InitRefines, Invariance, <1>1, PTL DEF Spec, ImplementsBroadcast, Room!Spec

\* Hence what a client has read is a piece of the one log, from where it came in.
THEOREM ReadsOneLog == Spec => []Room!ReadsTheLog
<1>1. ASSUME IInv, NEW c \in Conn
      PROVE  /\ Room!Place(c) <= Len(log)
             /\ stream[c] = SubSeq(log, first[c] + 1, Room!Place(c))
  <2> DEFINE a == first[c]
             n == Len(stream[c])
  <2>1. /\ a \in Nat /\ n \in Nat /\ Len(log) \in Nat
        /\ stream[c] \in Seq(Message)
        /\ Room!Place(c) = a + n
    BY <1>1 DEF IInv, TypeOK, NetTypeOK, Room!Place
  <2>2. \A i \in 1..n : a + i \in 1..Len(log) /\ stream[c][i] = log[a + i]
    BY <1>1, ReadPlaces
  <2>3. a + n <= Len(log)
    <3>1. a <= done[LoopOf[c]] /\ a + n <= done[LoopOf[c]]
      BY <1>1, <2>1, LoopOfConn DEF IInv, Reads, TypeOK
    <3>2. done[LoopOf[c]] \in Nat /\ done[LoopOf[c]] <= Len(log)
      BY <1>1, <2>1, LoopOfConn, Places
    <3>3. QED
      BY <2>1, <3>1, <3>2
  <2> HIDE DEF a, n
  <2>4. \A i \in a + 1 .. a + n : log[i] \in Message
    <3>1. log \in Seq(Message)
      BY <1>1 DEF IInv, TypeOK
    <3>2. \A i \in a + 1 .. a + n : i \in 1..Len(log)
      BY <2>1, <2>3
    <3>3. QED
      BY <3>1, <3>2, ElementOfSeq
  <2>5. /\ SubSeq(log, a + 1, a + n) \in Seq(Message)
        /\ Len(SubSeq(log, a + 1, a + n)) = n
        /\ \A i \in 1..n : SubSeq(log, a + 1, a + n)[i] = log[a + i]
    <3>1. a + 1 \in Int /\ a + n \in Int
      BY <2>1
    <3>2. /\ SubSeq(log, a + 1, a + n) \in Seq(Message)
          /\ Len(SubSeq(log, a + 1, a + n)) =
               IF a + 1 <= a + n THEN (a + n) - (a + 1) + 1 ELSE 0
          /\ \A i \in 1 .. (a + n) - (a + 1) + 1 :
               SubSeq(log, a + 1, a + n)[i] = log[(a + 1) + i - 1]
      BY <2>4, <3>1, SubSeqProperties
    <3>3. /\ (a + n) - (a + 1) + 1 = n
          /\ \A i \in 1..n : (a + 1) + i - 1 = a + i
      BY <2>1
    <3>4. Len(SubSeq(log, a + 1, a + n)) = n
      BY <2>1, <3>2
    <3>5. QED
      BY <3>2, <3>3, <3>4
  <2>6. stream[c] = SubSeq(log, a + 1, a + n)
    <3>1. n = Len(stream[c])
      BY DEF n
    <3>2. QED
      BY <2>1, <2>2, <2>5, <3>1, SeqEqual
  <2>7. QED
    BY <2>1, <2>3, <2>6 DEF a, n
<1>2. IInv => Room!ReadsTheLog
  BY <1>1 DEF Room!ReadsTheLog
<1>3. QED
  BY <1>2, Invariance, PTL
=============================================================================
