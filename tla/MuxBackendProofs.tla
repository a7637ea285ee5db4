--------------------------- MODULE MuxBackendProofs ---------------------------
(***************************************************************************)
(* For any number of connections, ids and packets: what follows from the    *)
(* promise of MuxLease alone, which the servers inherit by refinement, and  *)
(* what it comes to with backend_server.cc behind it.                       *)
(***************************************************************************)
EXTENDS MuxBackend, SequenceTheorems, TLAPS

-----------------------------------------------------------------------------
(* The promise alone. *)

\* A packet on the wire carries the id its sender was given and is numbered
\* within what the sender has sent; a lease and a packet presuppose an id.
WireInv ==
  /\ \A c \in holders : tag[c] # NoId
  /\ holders # {} => open
  /\ \A i \in 1..Len(wire) :
       /\ wire[i].id = tag[wire[i].from]
       /\ wire[i].n \in 1..sent[wire[i].from]
  /\ \A c \in Conn : \A i \in 1..Len(got[c]) : got[c][i] = tag[c]

\* Where two connections share an id on the wire, the lease of the earlier
\* one is over.
Handover ==
  \A i, j \in 1..Len(wire) :
    i < j /\ wire[i].id = wire[j].id /\ wire[i].from # wire[j].from
      => wire[i].from \notin holders

LeaseInv ==
  TypeOK /\ WireInv /\ Exclusive /\ Handover /\ SessionsDisjoint /\ StreamInOrder

\* A burst is a sequence of packets of its sender, numbered onwards.
LEMMA BurstProperties ==
  ASSUME TypeOK, WireInv, NEW c \in holders, NEW k \in Nat
  PROVE  /\ Burst(c, k) \in Seq(Packet)
         /\ Len(Burst(c, k)) = k
         /\ \A i \in 1..k : /\ Burst(c, k)[i].from = c
                            /\ Burst(c, k)[i].id = tag[c]
                            /\ Burst(c, k)[i].n = sent[c] + i
<1>1. c \in Conn /\ tag[c] \in Ids /\ sent[c] \in Nat
  BY DEF TypeOK, WireInv
<1>2. \A i \in 1..k : [from |-> c, id |-> tag[c], n |-> sent[c] + i] \in Packet
  BY <1>1 DEF Packet
<1>3. Burst(c, k) \in Seq(Packet)
  BY <1>2 DEF Burst
<1>4. Burst(c, k) \in [1..k -> Packet]
  BY <1>2 DEF Burst
<1>5. QED
  BY <1>3, <1>4, LenProperties DEF Burst

\* The wire after a transmission: the old packets, then those of the burst.
LEMMA WireAfterTransmit ==
  ASSUME TypeOK, WireInv, NEW c \in Conn, NEW k \in Nat, Transmit(c, k)
  PROVE  /\ wire' \in Seq(Packet)
         /\ Len(wire') = Len(wire) + k
         /\ \A i \in 1..Len(wire) : wire'[i] = wire[i]
         /\ \A i \in 1..Len(wire') : i > Len(wire) =>
              /\ wire'[i].from = c
              /\ wire'[i].id = tag[c]
              /\ wire'[i].n = sent[c] + (i - Len(wire))
<1>1. c \in holders /\ wire' = wire \o Burst(c, k) /\ wire \in Seq(Packet)
  BY DEF Transmit, TypeOK
<1>2. /\ Burst(c, k) \in Seq(Packet)
      /\ Len(Burst(c, k)) = k
      /\ \A i \in 1..k : /\ Burst(c, k)[i].from = c
                         /\ Burst(c, k)[i].id = tag[c]
                         /\ Burst(c, k)[i].n = sent[c] + i
  BY <1>1, BurstProperties
<1>3. /\ wire' \in Seq(Packet)
      /\ Len(wire') = Len(wire) + k
      /\ \A i \in 1 .. Len(wire) + k :
           wire'[i] = IF i <= Len(wire) THEN wire[i]
                      ELSE Burst(c, k)[i - Len(wire)]
  BY <1>1, <1>2, ConcatProperties
<1>4. Len(wire) \in Nat
  BY <1>1, LenProperties
<1>5. ASSUME NEW i \in 1..Len(wire'), i > Len(wire)
      PROVE  /\ wire'[i].from = c
             /\ wire'[i].id = tag[c]
             /\ wire'[i].n = sent[c] + (i - Len(wire))
  <2>1. i - Len(wire) \in 1..k /\ wire'[i] = Burst(c, k)[i - Len(wire)]
    BY <1>3, <1>4, <1>5
  <2>2. QED
    BY <1>2, <2>1
<1>6. QED
  BY <1>3, <1>4, <1>5

\* LeaseInv is inductive: the steps that leave the wire alone.
LEMMA LeaseStepOffWire ==
  ASSUME NoId \notin Ids, LeaseInv,
         \/ Open \/ Close
         \/ \E c \in Conn : (\E id \in Ids : Acquire(c, id)) \/ Release(c)
                              \/ Deliver(c)
  PROVE  LeaseInv'
<1>1. CASE Open
  BY <1>1 DEF Open, LeaseInv, TypeOK, WireInv, Exclusive, Handover,
              SessionsDisjoint, StreamInOrder
<1>2. CASE Close
  <2> USE <1>2 DEF Close, LeaseInv
  <2>1. TypeOK' /\ Exclusive'
    BY DEF TypeOK, Exclusive
  <2>2. WireInv'
    BY DEF WireInv
  <2>3. Handover'
    BY DEF Handover
  <2>4. QED
    BY <2>1, <2>2, <2>3 DEF SessionsDisjoint, StreamInOrder
<1>3. ASSUME NEW c \in Conn, NEW id \in Ids, Acquire(c, id)
      PROVE  LeaseInv'
  <2> USE <1>3 DEF Acquire, LeaseInv
  <2>0. /\ c \notin holders /\ \A d \in Conn \ {c} : tag'[d] = tag[d]
        /\ tag'[c] = id
        /\ \A i \in 1..Len(wire) : wire[i].from # c
    <3>1. \A i \in 1..Len(wire) : wire[i] \in Packet
      BY ElementOfSeq DEF TypeOK
    <3>2. QED
      BY <3>1 DEF TypeOK, WireInv, Packet
  <2>1. TypeOK'
    BY DEF TypeOK
  <2>2. WireInv'
    <3>1. \A i \in 1..Len(wire) : wire[i] \in Packet
      BY ElementOfSeq DEF TypeOK
    <3>2. Len(got[c]) = 0
      <4>1. got[c] \in Seq(Ids)
        BY DEF TypeOK
      <4>2. ASSUME NEW i \in 1..Len(got[c]) PROVE FALSE
        BY <4>1, <4>2, ElementOfSeq DEF WireInv
      <4>3. QED
        BY <4>1, <4>2, LenProperties
    <3>3. QED
      BY <2>0, <3>1, <3>2, SMTT(30) DEF TypeOK, WireInv, Packet
  <2>3. Exclusive'
    BY <2>0 DEF TypeOK, Exclusive, Leased
  <2>4. Handover'
    BY <2>0 DEF Handover
  <2>5. QED
    BY <2>1, <2>2, <2>3, <2>4 DEF SessionsDisjoint, StreamInOrder
<1>4. ASSUME NEW c \in Conn, Release(c)
      PROVE  LeaseInv'
  <2> USE <1>4 DEF Release, LeaseInv
  <2>1. TypeOK' /\ Exclusive'
    BY DEF TypeOK, Exclusive
  <2>2. WireInv'
    BY DEF WireInv
  <2>3. Handover'
    BY DEF Handover
  <2>4. QED
    BY <2>1, <2>2, <2>3 DEF SessionsDisjoint, StreamInOrder
<1>5. ASSUME NEW c \in Conn, Deliver(c)
      PROVE  LeaseInv'
  <2> USE <1>5 DEF Deliver, LeaseInv
  <2>1. tag[c] \in Ids /\ got[c] \in Seq(Ids)
    BY DEF TypeOK, WireInv
  <2>2. /\ got'[c] \in Seq(Ids)
        /\ Len(got'[c]) = Len(got[c]) + 1
        /\ \A i \in 1..Len(got[c]) : got'[c][i] = got[c][i]
        /\ got'[c][Len(got[c]) + 1] = tag[c]
        /\ \A d \in Conn \ {c} : got'[d] = got[d]
    BY <2>1, AppendProperties DEF TypeOK
  <2>3. TypeOK'
    BY <2>1, <2>2 DEF TypeOK
  <2>4. Len(got[c]) \in Nat
    BY <2>1, LenProperties
  <2>5. WireInv'
    BY <2>2, <2>4 DEF WireInv
  <2>6. QED
    BY <2>3, <2>5 DEF Exclusive, Handover, SessionsDisjoint, StreamInOrder
<1>6. QED
  BY <1>1, <1>2, <1>3, <1>4, <1>5

\* ... and the step that extends it.
LEMMA LeaseStepTransmit ==
  ASSUME LeaseInv, NEW c \in Conn, NEW k \in 1..MaxBurst, Transmit(c, k)
  PROVE  LeaseInv'
<1> USE DEF LeaseInv
<1>0. k \in Nat /\ k >= 1
  OBVIOUS
<1>1. /\ wire' \in Seq(Packet)
      /\ Len(wire') = Len(wire) + k
      /\ \A i \in 1..Len(wire) : wire'[i] = wire[i]
      /\ \A i \in 1..Len(wire') : i > Len(wire) =>
           /\ wire'[i].from = c
           /\ wire'[i].id = tag[c]
           /\ wire'[i].n = sent[c] + (i - Len(wire))
  BY <1>0, WireAfterTransmit
<1>2. /\ c \in holders /\ UNCHANGED <<open, tag, holders, got>>
      /\ sent'[c] = sent[c] + k /\ sent[c] \in Nat
      /\ \A d \in Conn \ {c} : sent'[d] = sent[d]
      /\ sent' \in [Conn -> Nat]
  BY <1>0 DEF Transmit, TypeOK
<1>3. /\ Len(wire) \in Nat
      /\ \A i \in 1..Len(wire) :
           wire[i].from \in Conn /\ wire[i].n \in Nat
      /\ \A d \in Conn : sent[d] \in Nat
  <2>1. wire \in Seq(Packet) /\ \A d \in Conn : sent[d] \in Nat
    BY DEF TypeOK
  <2>2. Len(wire) \in Nat /\ \A i \in 1..Len(wire) : wire[i] \in Packet
    BY <2>1, LenProperties, ElementOfSeq
  <2>3. QED
    BY <2>1, <2>2 DEF Packet
<1>4. TypeOK'
  BY <1>1, <1>2 DEF TypeOK
<1>5. WireInv'
  <2>1. ASSUME NEW i \in 1..Len(wire')
        PROVE  /\ wire'[i].id = tag[wire'[i].from]
               /\ wire'[i].n \in 1..sent'[wire'[i].from]
    <3>1. CASE i <= Len(wire)
      <4>1. i \in 1..Len(wire) /\ wire'[i] = wire[i]
        BY <1>1, <1>3, <3>1
      <4>2. /\ wire[i].id = tag[wire[i].from]
            /\ wire[i].n \in 1..sent[wire[i].from]
            /\ wire[i].from \in Conn
        BY <1>3, <4>1 DEF WireInv
      <4>3. sent[wire[i].from] <= sent'[wire[i].from]
        BY <1>0, <1>2, <1>3, <4>2, SMTT(30)
      <4>4. QED
        BY <1>2, <1>3, <4>1, <4>2, <4>3 DEF TypeOK
    <3>2. CASE i > Len(wire)
      <4>1. /\ wire'[i].from = c /\ wire'[i].id = tag[c]
            /\ wire'[i].n = sent[c] + (i - Len(wire))
        BY <1>1, <3>2
      <4>2. i - Len(wire) \in 1..k
        BY <1>0, <1>1, <1>3, <3>2
      <4>3. QED
        BY <1>0, <1>2, <4>1, <4>2
    <3>3. QED
      BY <1>1, <1>3, <3>1, <3>2
  <2>2. QED
    BY <1>2, <2>1 DEF WireInv
<1>6. Exclusive'
  BY <1>2 DEF Exclusive
<1>7. \A i \in 1..Len(wire) : wire[i].id = tag[c] /\ wire[i].from # c
                                => wire[i].from \notin holders
  BY <1>2, <1>3, SMTT(30) DEF WireInv, Exclusive
<1>8. Handover'
  <2> SUFFICES ASSUME NEW i \in 1..Len(wire'), NEW j \in 1..Len(wire'),
                      i < j, wire'[i].id = wire'[j].id,
                      wire'[i].from # wire'[j].from
               PROVE  wire'[i].from \notin holders
    BY <1>2 DEF Handover
  <2>1. CASE j <= Len(wire)
    <3>1. i \in 1..Len(wire) /\ j \in 1..Len(wire)
      BY <1>1, <1>3, <2>1
    <3>2. QED
      BY <1>1, <3>1 DEF Handover
  <2>2. CASE j > Len(wire) /\ i <= Len(wire)
    <3>1. i \in 1..Len(wire) /\ wire'[i] = wire[i]
      BY <1>1, <1>3, <2>2
    <3>2. QED
      BY <1>1, <1>7, <2>2, <3>1
  <2>3. CASE i > Len(wire)
    <3>1. j > Len(wire)
      BY <1>1, <1>3, <2>3
    <3>2. QED
      BY <1>1, <2>3, <3>1
  <2>4. QED
    BY <1>1, <1>3, <2>1, <2>2, <2>3
<1>9. SessionsDisjoint'
  <2> SUFFICES ASSUME NEW i \in 1..Len(wire'), NEW j \in 1..Len(wire'),
                      NEW m \in 1..Len(wire'),
                      i < j, j < m, wire'[i].id = wire'[j].id,
                      wire'[i].from = wire'[m].from
               PROVE  wire'[j].from = wire'[i].from
    BY DEF SessionsDisjoint
  <2>1. CASE m <= Len(wire)
    <3>1. i \in 1..Len(wire) /\ j \in 1..Len(wire) /\ m \in 1..Len(wire)
      BY <1>1, <1>3, <2>1
    <3>2. QED
      BY <1>1, <3>1 DEF SessionsDisjoint
  <2>2. CASE m > Len(wire)
    <3>1. wire'[i].from = c
      BY <1>1, <2>2
    <3>2. QED
      BY <1>2, <1>8, <3>1 DEF Handover
  <2>3. QED
    BY <1>1, <1>3, <2>1, <2>2
<1>10. StreamInOrder'
  <2>1. ASSUME NEW i \in 1..Len(wire'), NEW j \in 1..Len(wire'),
               i < j, wire'[i].from = wire'[j].from
        PROVE  wire'[i].n < wire'[j].n
    <3>1. CASE j <= Len(wire)
      <4>1. i \in 1..Len(wire) /\ j \in 1..Len(wire)
        BY <1>1, <1>3, <2>1, <3>1
      <4>2. QED
        BY <1>1, <2>1, <4>1 DEF StreamInOrder
    <3>2. CASE j > Len(wire) /\ i <= Len(wire)
      <4>1. i \in 1..Len(wire) /\ wire'[i] = wire[i]
        BY <1>1, <1>3, <3>2
      <4>2. wire[i].from = c /\ wire[i].n \in 1..sent[c]
        BY <1>1, <2>1, <3>2, <4>1 DEF WireInv
      <4>3. wire'[j].n = sent[c] + (j - Len(wire)) /\ j - Len(wire) >= 1
        BY <1>1, <1>3, <3>2
      <4>4. QED
        BY <1>1, <1>2, <1>3, <4>1, <4>2, <4>3, SMTT(30)
    <3>3. CASE i > Len(wire)
      <4>1. /\ wire'[i].n = sent[c] + (i - Len(wire))
            /\ wire'[j].n = sent[c] + (j - Len(wire))
        BY <1>1, <1>3, <2>1, <3>3
      <4>2. QED
        BY <1>1, <1>2, <1>3, <2>1, <4>1
    <3>4. QED
      BY <1>1, <1>3, <3>1, <3>2, <3>3
  <2>2. ASSUME NEW d \in Conn, NEW m \in 1..sent'[d]
        PROVE  \E i \in 1..Len(wire') : wire'[i].from = d /\ wire'[i].n = m
    <3>1. CASE m <= sent[d]
      <4>1. m \in 1..sent[d]
        BY <1>3, <2>2, <3>1
      <4>2. PICK i \in 1..Len(wire) : wire[i].from = d /\ wire[i].n = m
        BY <4>1 DEF StreamInOrder
      <4>3. i \in 1..Len(wire') /\ wire'[i] = wire[i]
        BY <1>0, <1>1, <1>3
      <4>4. QED
        BY <4>2, <4>3
    <3>2. CASE m > sent[d]
      <4>1. d = c /\ m - sent[c] \in 1..k
        BY <1>0, <1>2, <1>3, <2>2, <3>2
      <4>2. Len(wire) + (m - sent[c]) \in 1..Len(wire')
        BY <1>1, <1>3, <4>1
      <4>3. /\ wire'[Len(wire) + (m - sent[c])].from = c
            /\ wire'[Len(wire) + (m - sent[c])].n = m
        <5>1. Len(wire) + (m - sent[c]) > Len(wire)
          BY <1>3, <1>2, <2>2, <4>1
        <5>2. /\ wire'[Len(wire) + (m - sent[c])].from = c
              /\ wire'[Len(wire) + (m - sent[c])].n
                   = sent[c] + ((Len(wire) + (m - sent[c])) - Len(wire))
          BY <1>1, <4>2, <5>1
        <5>3. m \in Int
          BY <1>2, <2>2
        <5>4. sent[c] + ((Len(wire) + (m - sent[c])) - Len(wire)) = m
          BY <1>2, <1>3, <5>3
        <5>5. QED
          BY <5>2, <5>4
      <4>4. QED
        BY <4>1, <4>2, <4>3
    <3>3. QED
      BY <1>2, <1>3, <2>2, <3>1, <3>2
  <2>3. QED
    BY <2>1, <2>2 DEF StreamInOrder
<1>11. QED
  BY <1>4, <1>5, <1>6, <1>8, <1>9, <1>10

\* Every step of the promise keeps its inductive invariant.
LEMMA LeaseStepKeeps ==
  ASSUME NoId \notin Ids, LeaseInv, [Next]_vars
  PROVE  LeaseInv'
<1>1. CASE UNCHANGED vars
  <2> USE <1>1 DEF vars, LeaseInv
  <2>1. TypeOK' /\ WireInv'
    BY DEF TypeOK, WireInv
  <2>2. Exclusive' /\ Handover' /\ SessionsDisjoint' /\ StreamInOrder'
    BY DEF Exclusive, Handover, SessionsDisjoint, StreamInOrder
  <2>3. QED
    BY <2>1, <2>2
<1>2. CASE Next
  BY <1>2, LeaseStepOffWire, LeaseStepTransmit DEF Next
<1>3. QED
  BY <1>1, <1>2

LEMMA InitLeaseInv == Init => LeaseInv
<1> SUFFICES ASSUME Init
             PROVE  LeaseInv
  OBVIOUS
<1> USE DEF Init
<1>1. Len(wire) = 0 /\ \A c \in Conn : Len(got[c]) = 0
  BY EmptySeq
<1>2. TypeOK
  BY EmptySeq DEF TypeOK
<1>3. WireInv
  BY <1>1 DEF WireInv
<1>4. Exclusive /\ Handover /\ SessionsDisjoint /\ StreamInOrder
  BY <1>1 DEF Exclusive, Handover, SessionsDisjoint, StreamInOrder
<1>5. QED
  BY <1>2, <1>3, <1>4 DEF LeaseInv

\* Every state of the promise satisfies its inductive invariant.
THEOREM LeaseInvariant ==
  ASSUME NoId \notin Ids
  PROVE  Spec => []LeaseInv
<1>1. LeaseInv /\ [Next]_vars => LeaseInv'
  BY LeaseStepKeeps
<1>2. QED
  BY <1>1, InitLeaseInv, PTL DEF Spec

\* A multiplexer that keeps the promise never gives one id to two connections
\* at a time, never mixes the sessions of an id, keeps each client's packets
\* in order, and never hands a client a packet for another id.
THEOREM LeaseSafety ==
  ASSUME NoId \notin Ids
  PROVE  Spec => [](Exclusive /\ SessionsDisjoint /\ StreamInOrder /\ OnlyOwnId)
<1>1. LeaseInv => Exclusive /\ SessionsDisjoint /\ StreamInOrder /\ OnlyOwnId
  BY DEF LeaseInv, WireInv, OnlyOwnId
<1>2. QED
  BY <1>1, LeaseInvariant, PTL
-----------------------------------------------------------------------------
(* With the backend behind it. *)

\* MAX_CLIENT_CONNS is 10: every id fits into the low byte of a header.  The
\* backend gives up the other one.
OneByteIds ==
  /\ NoId \notin Ids
  /\ ByteValues \in Nat \ {0, 1}
  /\ MaxCommands \in Nat
  /\ Ids \subseteq 1 .. ByteValues - 1

\* A frame on its way is a command or the backend's answer to a packet it has
\* read, and the answers come in the order of their packets.
FrameOK(f) ==
  /\ f.of \in 0..answered
  /\ f = IF f.of = 0 THEN Command ELSE Answer(f.of)

BackInv ==
  /\ \A i \in 1..Len(back) : FrameOK(back[i])
  /\ \A i, j \in 1..Len(back) : i < j /\ back[j].of # 0 => back[i].of < back[j].of

\* What client c was handed: answers to packets with its id, in order, and
\* older than those still to come.
Handed(c) ==
  \A i \in 1..Len(delivered[c]) :
    /\ delivered[c][i] \in 1..answered
    /\ tag[c] # NoId /\ wire[delivered[c][i]].id = tag[c]
    /\ \A j \in 1..Len(delivered[c]) : i < j => delivered[c][i] < delivered[c][j]
    /\ \A k \in 1..Len(back) : back[k].of # 0 => delivered[c][i] < back[k].of

BackendInv ==
  /\ LeaseInv
  /\ BackendTypeOK
  /\ pending <= typed
  /\ BackInv
  /\ \A c \in Conn : Handed(c)
  /\ PredecessorsFirst

\* An id that fits into the low byte comes through the backend unharmed.
LEMMA IdThroughBackend ==
  ASSUME OneByteIds, NEW id \in Ids
  PROVE  /\ id \in Nat \ {0}
         /\ Header(id) \in Byte \X Byte
         /\ BackendId(Header(id)) = id
         /\ MuxId(Header(id)) = id
<1>1. id \in 1 .. ByteValues - 1 /\ ByteValues \in Nat \ {0, 1}
  BY DEF OneByteIds
<1>2. id % ByteValues = id /\ id \div ByteValues = 0 /\ 0 % ByteValues = 0
  BY <1>1
<1>3. Header(id) = <<id, 0>>
  BY <1>2 DEF Header
<1>4. 0 * ByteValues = 0
  BY <1>1
<1>5. BackendId(<<id, 0>>) = id /\ MuxId(<<id, 0>>) = id
  BY <1>1, <1>2, <1>4 DEF BackendId, MuxId
<1>6. QED
  BY <1>1, <1>3, <1>5 DEF Byte

LEMMA AnswerProperties ==
  ASSUME OneByteIds, LeaseInv, NEW i \in 1..Len(wire)
  PROVE  /\ Answer(i) \in Frame
         /\ Answer(i).of = i
         /\ MuxId(Answer(i).header) = wire[i].id
<1>1. wire[i].id \in Ids /\ i \in Nat
  <2>1. wire \in Seq(Packet)
    BY DEF LeaseInv, TypeOK
  <2>2. wire[i] \in Packet
    BY <2>1, ElementOfSeq
  <2>3. QED
    BY <2>2 DEF Packet
<1>2. BackendId(Header(wire[i].id)) = wire[i].id
  BY <1>1, IdThroughBackend
<1>3. QED
  BY <1>1, <1>2, IdThroughBackend DEF Answer, Frame

\* A command carries id 0, which nobody holds.
LEMMA CommandProperties ==
  ASSUME OneByteIds
  PROVE  Command \in Frame /\ Command.of = 0 /\ MuxId(Command.header) = 0
<1>1. ByteValues \in Nat \ {0, 1}
  BY DEF OneByteIds
<1>2. 0 % ByteValues = 0 /\ 0 \div ByteValues = 0 /\ 0 * ByteValues = 0
  BY <1>1
<1>3. Header(0) = <<0, 0>>
  BY <1>2 DEF Header
<1>4. MuxId(<<0, 0>>) = 0
  BY <1>2 DEF MuxId
<1>5. QED
  BY <1>1, <1>3, <1>4 DEF Command, Frame, Byte

\* The stream to the backend only grows, and an id once given is kept.
LEMMA WireGrows ==
  ASSUME LeaseInv, [Next]_vars
  PROVE  /\ Len(wire) \in Nat /\ Len(wire') \in Nat /\ Len(wire) <= Len(wire')
         /\ \A i \in 1..Len(wire) : wire'[i] = wire[i]
         /\ \A c \in Conn : tag[c] # NoId => tag'[c] = tag[c]
<1>0. Len(wire) \in Nat
  BY LenProperties DEF LeaseInv, TypeOK
<1>1. ASSUME NEW c \in Conn, NEW k \in 1..MaxBurst, Transmit(c, k)
      PROVE  /\ Len(wire') = Len(wire) + k
             /\ \A i \in 1..Len(wire) : wire'[i] = wire[i]
             /\ tag' = tag
  <2>1. k \in Nat
    OBVIOUS
  <2>2. QED
    BY <1>1, <2>1, WireAfterTransmit DEF LeaseInv, Transmit
<1>2. ASSUME NEW c \in Conn, NEW id \in Ids, Acquire(c, id)
      PROVE  wire' = wire /\ \A d \in Conn : tag[d] # NoId => tag'[d] = tag[d]
  BY <1>2 DEF Acquire, LeaseInv, TypeOK
<1>3. CASE \E c \in Conn, k \in 1..MaxBurst : Transmit(c, k)
  <2>1. PICK c \in Conn, k \in 1..MaxBurst : Transmit(c, k)
    BY <1>3
  <2>2. k \in Nat
    OBVIOUS
  <2>3. QED
    BY <1>0, <1>1, <2>1, <2>2
<1>4. CASE \E c \in Conn, id \in Ids : Acquire(c, id)
  BY <1>0, <1>2, <1>4
<1>5. CASE Open \/ Close \/ (\E c \in Conn : Release(c) \/ Deliver(c))
           \/ UNCHANGED vars
  BY <1>0, <1>5 DEF Open, Close, Release, Deliver, vars
<1>6. QED
  BY <1>3, <1>4, <1>5 DEF Next

\* To the promise, a step of the whole is one of its own or none.
LEMMA BackendStepIsLeaseStep ==
  BackendNext \/ UNCHANGED <<vars, backendVars>> => [Next]_vars
<1>1. ASSUME LeaseStep PROVE Next
  BY <1>1 DEF LeaseStep, Next
<1>2. ASSUME NEW c \in Conn, HandDown(c) PROVE Next
  BY <1>2 DEF HandDown, Next
<1>3. QED
  BY <1>1, <1>2
     DEF BackendNext, OnConnectionUp, OnConnectionDown, OnMessage, OnCutMessage,
         AddCommand, RunCommand, OpenOnce, Next, Consume

\* What the backend has sent stays right while the wire grows and it reads on.
LEMMA FrameKept ==
  ASSUME LeaseInv, [Next]_vars, answered \in 0..Len(wire),
         answered' \in Nat, answered <= answered', NEW f, FrameOK(f)
  PROVE  /\ f.of \in 0..answered'
         /\ f = IF f.of = 0 THEN Command ELSE Answer(f.of)'
<1>1. /\ Len(wire) \in Nat /\ Len(wire') \in Nat
      /\ \A i \in 1..Len(wire) : wire'[i] = wire[i]
  BY WireGrows
<1>2. f.of \in 0..answered'
  BY <1>1 DEF FrameOK
<1>3. CASE f.of = 0
  BY <1>2, <1>3 DEF FrameOK
<1>4. CASE f.of # 0
  <2>1. f.of \in 1..Len(wire)
    BY <1>1, <1>4 DEF FrameOK
  <2>2. wire'[f.of].id = wire[f.of].id
    BY <1>1, <2>1
  <2>3. QED
    BY <1>2, <1>4, <2>2 DEF FrameOK, Answer
<1>5. QED
  BY <1>3, <1>4

\* What a client was handed stays in order as long as only newer answers, and
\* none twice, can follow.
LEMMA HandedKept ==
  ASSUME LeaseInv, BackendTypeOK, [Next]_vars, answered' \in answered..Len(wire),
         NEW c \in Conn, Handed(c), delivered'[c] = delivered[c],
         \A k \in 1..Len(back') : back'[k].of # 0 =>
            \/ back'[k].of \in Nat /\ answered < back'[k].of
            \/ \E m \in 1..Len(back) : back'[k] = back[m]
  PROVE  Handed(c)'
<1>1. /\ Len(wire) \in Nat /\ answered \in 0..Len(wire)
      /\ \A i \in 1..Len(wire) : wire'[i] = wire[i]
      /\ tag[c] # NoId => tag'[c] = tag[c]
  BY WireGrows DEF BackendTypeOK
<1> SUFFICES ASSUME NEW i \in 1..Len(delivered[c])
             PROVE  /\ delivered[c][i] \in 1..answered'
                    /\ tag'[c] # NoId /\ wire'[delivered[c][i]].id = tag'[c]
                    /\ \A j \in 1..Len(delivered[c]) :
                         i < j => delivered[c][i] < delivered[c][j]
                    /\ \A k \in 1..Len(back') :
                         back'[k].of # 0 => delivered[c][i] < back'[k].of
  BY DEF Handed
<1>2. /\ delivered[c][i] \in 1..answered
      /\ tag[c] # NoId /\ wire[delivered[c][i]].id = tag[c]
      /\ \A j \in 1..Len(delivered[c]) : i < j => delivered[c][i] < delivered[c][j]
      /\ \A k \in 1..Len(back) : back[k].of # 0 => delivered[c][i] < back[k].of
  BY DEF Handed
<1>3. delivered[c][i] \in 1..answered' /\ delivered[c][i] \in 1..Len(wire)
  BY <1>1, <1>2
<1>4. tag'[c] # NoId /\ wire'[delivered[c][i]].id = tag'[c]
  BY <1>1, <1>2, <1>3
<1>5. ASSUME NEW k \in 1..Len(back'), back'[k].of # 0
      PROVE  delivered[c][i] < back'[k].of
  <2>1. CASE \E m \in 1..Len(back) : back'[k] = back[m]
    BY <1>2, <1>5, <2>1
  <2>2. CASE back'[k].of \in Nat /\ answered < back'[k].of
    BY <1>1, <1>2, <2>2
  <2>3. QED
    BY <1>5, <2>1, <2>2
<1>6. QED
  BY <1>2, <1>3, <1>4, <1>5

\* The frames on their way, when the multiplexer takes one, ...
LEMMA FrameTaken ==
  ASSUME BackendInv, [Next]_vars, answered' = answered,
         back' = back \/ (back # <<>> /\ back' = Tail(back))
  PROVE  /\ back' \in Seq(Frame) /\ BackInv'
         /\ \A k \in 1..Len(back') : \E m \in 1..Len(back) : back'[k] = back[m]
<1>1. /\ back \in Seq(Frame) /\ Len(back) \in Nat
      /\ answered \in 0..Len(wire) /\ answered \in Nat /\ LeaseInv
  <2>1. Len(wire) \in Nat /\ answered \in 0..Len(wire) /\ back \in Seq(Frame)
    BY WireGrows DEF BackendInv, BackendTypeOK
  <2>2. QED
    BY <2>1, LenProperties DEF BackendInv
<1>2. ASSUME NEW k \in 1..Len(back'), NEW m \in 1..Len(back), back'[k] = back[m]
      PROVE  FrameOK(back[k])'
  <2>1. FrameOK(back[m])
    BY DEF BackendInv, BackInv
  <2>2. PICK f : f = back[m]
    OBVIOUS
  <2>3. /\ f.of \in 0..answered'
        /\ f = IF f.of = 0 THEN Command ELSE Answer(f.of)'
    BY <1>1, <2>1, <2>2, FrameKept
  <2>4. QED
    BY <1>2, <2>2, <2>3 DEF FrameOK, Answer
<1>3. CASE back' = back
  BY <1>1, <1>2, <1>3 DEF BackendInv, BackInv
<1>4. CASE back # <<>> /\ back' = Tail(back)
  <2>1. /\ back' \in Seq(Frame) /\ Len(back') = Len(back) - 1
        /\ \A k \in 1..Len(back') : k + 1 \in 1..Len(back) /\ back'[k] = back[k + 1]
    BY <1>1, <1>4, HeadTailProperties
  <2>2. \A k \in 1..Len(back') : FrameOK(back[k])'
    BY <1>2, <2>1
  <2>3. ASSUME NEW i \in 1..Len(back'), NEW j \in 1..Len(back'), i < j, back'[j].of # 0
        PROVE  back'[i].of < back'[j].of
    <3>1. /\ i + 1 \in 1..Len(back) /\ j + 1 \in 1..Len(back) /\ i + 1 < j + 1
          /\ back'[i] = back[i + 1] /\ back'[j] = back[j + 1]
      BY <2>1, <2>3
    <3>2. QED
      BY <2>3, <3>1 DEF BackendInv, BackInv
  <2>4. QED
    BY <2>1, <2>2, <2>3 DEF BackInv
<1>5. QED
  BY <1>3, <1>4

\* ... when a command is sent ...
LEMMA CommandSent ==
  ASSUME OneByteIds, BackendInv, UNCHANGED vars, answered' = answered,
         back' = Append(back, Command)
  PROVE  /\ back' \in Seq(Frame) /\ BackInv'
         /\ \A k \in 1..Len(back') :
              back'[k].of # 0 => \E m \in 1..Len(back) : back'[k] = back[m]
<1>1. /\ back \in Seq(Frame) /\ Len(back) \in Nat
      /\ answered \in Nat /\ Command.of = 0
  <2>1. Len(wire) \in Nat /\ answered \in 0..Len(wire) /\ back \in Seq(Frame)
    BY WireGrows DEF BackendInv, BackendTypeOK
  <2>2. QED
    BY <2>1, LenProperties, CommandProperties DEF BackendInv
<1>2. /\ back' \in Seq(Frame) /\ Len(back') = Len(back) + 1
      /\ \A k \in 1..Len(back) : back'[k] = back[k]
      /\ back'[Len(back) + 1] = Command
  BY <1>1, CommandProperties, AppendProperties
<1>3. ASSUME NEW k \in 1..Len(back')
      PROVE  \/ k \in 1..Len(back) /\ back'[k] = back[k]
             \/ k = Len(back) + 1 /\ back'[k] = Command
  BY <1>1, <1>2
<1>4. ASSUME NEW f, FrameOK(f) \/ f = Command
      PROVE  f.of \in 0..answered /\ f = IF f.of = 0 THEN Command ELSE Answer(f.of)
  BY <1>1, <1>4 DEF FrameOK
<1>5. ASSUME NEW k \in 1..Len(back')
      PROVE  FrameOK(back[k])'
  <2>1. FrameOK(back'[k]) \/ back'[k] = Command
    BY <1>3 DEF BackendInv, BackInv
  <2>2. QED
    BY <1>4, <2>1 DEF FrameOK, Answer, vars
<1>6. ASSUME NEW k \in 1..Len(back'), NEW m \in 1..Len(back'), k < m, back'[m].of # 0
      PROVE  back'[k].of < back'[m].of
  <2>1. m \in 1..Len(back) /\ k \in 1..Len(back)
    BY <1>1, <1>2, <1>3, <1>6
  <2>2. QED
    BY <1>2, <1>6, <2>1 DEF BackendInv, BackInv
<1>7. QED
  BY <1>1, <1>2, <1>3, <1>5, <1>6 DEF BackInv

\* ... and when the backend answers what it has read.
LEMMA AnswersSent ==
  ASSUME OneByteIds, BackendInv, UNCHANGED vars, NEW n \in answered..Len(wire),
         answered' = n, back' = back \o Answers(n)
  PROVE  /\ back' \in Seq(Frame) /\ BackInv'
         /\ \A k \in 1..Len(back') :
              \/ back'[k].of \in Nat /\ answered < back'[k].of
              \/ \E m \in 1..Len(back) : back'[k] = back[m]
<1> DEFINE more == Answers(n)
           new == n - answered
<1>1. /\ back \in Seq(Frame) /\ Len(back) \in Nat /\ Len(wire) \in Nat
      /\ answered \in Nat /\ LeaseInv
  <2>1. Len(wire) \in Nat /\ answered \in 0..Len(wire) /\ back \in Seq(Frame)
    BY WireGrows DEF BackendInv, BackendTypeOK
  <2>2. QED
    BY <2>1, LenProperties DEF BackendInv
<1>2. new \in Nat /\ n \in Nat
  BY <1>1
<1>3. ASSUME NEW i \in 1..new
      PROVE  /\ answered + i \in 1..Len(wire) /\ answered + i \in 1..n
             /\ Answer(answered + i) \in Frame
             /\ Answer(answered + i).of = answered + i
  <2>1. answered + i \in 1..Len(wire) /\ answered + i \in 1..n
    BY <1>1, <1>2
  <2>2. QED
    BY <1>1, <2>1, AnswerProperties
<1>4. /\ more \in Seq(Frame) /\ Len(more) = new
      /\ \A i \in 1..new : more[i] = Answer(answered + i)
  <2>1. more = [i \in 1..new |-> Answer(answered + i)]
    BY DEF Answers
  <2> HIDE DEF new, more
  <2>2. more \in [1..new -> Frame]
    BY <1>3, <2>1
  <2>5. more \in Seq(Frame)
    BY <1>2, <2>2
  <2>3. Len(more) = new
    BY <1>2, <2>2, <2>5, LenProperties
  <2>4. QED
    BY <2>1, <2>3, <2>5
<1> HIDE DEF more, new
<1>5. /\ back' \in Seq(Frame) /\ Len(back') = Len(back) + new
      /\ \A k \in 1 .. Len(back) + new :
           back'[k] = IF k <= Len(back) THEN back[k] ELSE more[k - Len(back)]
  <2>1. back' = back \o more
    BY DEF more
  <2>2. more \in Seq(Frame) /\ Len(more) = new /\ back \in Seq(Frame)
    BY <1>1, <1>4
  <2>3. /\ back \o more \in Seq(Frame)
        /\ Len(back \o more) = Len(back) + Len(more)
        /\ \A k \in 1 .. Len(back) + Len(more) :
             (back \o more)[k] = IF k <= Len(back) THEN back[k] ELSE more[k - Len(back)]
    BY <2>2, ConcatProperties
  <2>4. QED
    BY <2>1, <2>2, <2>3
<1>6. ASSUME NEW k \in 1..Len(back')
      PROVE  \/ k \in 1..Len(back) /\ back'[k] = back[k]
             \/ /\ k > Len(back) /\ k - Len(back) \in 1..new
                /\ back'[k] = Answer(answered + (k - Len(back)))
                /\ back'[k].of = answered + (k - Len(back))
                /\ answered + (k - Len(back)) \in 1..n
                /\ back'[k].of \in Nat /\ answered < back'[k].of
  <2>1. CASE k <= Len(back)
    BY <1>1, <1>2, <1>5, <2>1
  <2>2. CASE k > Len(back)
    <3>1. k - Len(back) \in 1..new /\ back'[k] = more[k - Len(back)]
      BY <1>1, <1>2, <1>5, <2>2
    <3>2. back'[k] = Answer(answered + (k - Len(back)))
      BY <1>4, <3>1
    <3>3. /\ back'[k].of = answered + (k - Len(back))
          /\ answered + (k - Len(back)) \in 1..n
      BY <1>3, <3>1, <3>2
    <3>4. QED
      BY <1>1, <1>2, <2>2, <3>1, <3>2, <3>3
  <2>3. QED
    BY <1>1, <1>5, <2>1, <2>2
<1>7. ASSUME NEW k \in 1..Len(back)
      PROVE  FrameOK(back[k]) /\ back[k].of \in 0..answered
  BY DEF BackendInv, BackInv, FrameOK
<1>8. ASSUME NEW i \in 1..n PROVE Answer(i).of = i
  BY <1>1, <1>2, AnswerProperties
<1>9. ASSUME NEW k \in 1..Len(back')
      PROVE  FrameOK(back[k])'
  <2>1. CASE k \in 1..Len(back) /\ back'[k] = back[k]
    <3>1. FrameOK(back'[k]) /\ back'[k].of \in 0..n
      BY <1>1, <1>2, <1>7, <2>1
    <3>2. QED
      BY <3>1 DEF FrameOK, Answer, vars
  <2>2. ASSUME NEW i \in 1..n, back'[k] = Answer(i)
        PROVE  FrameOK(back[k])'
    <3>1. i \in 0..n /\ i # 0 /\ back'[k].of = i
      BY <1>2, <1>8, <2>2
    <3>2. QED
      BY <2>2, <3>1 DEF FrameOK, Answer, vars
  <2>3. QED
    BY <1>6, <2>1, <2>2
<1>10. ASSUME NEW k \in 1..Len(back'), NEW m \in 1..Len(back'), k < m, back'[m].of # 0
       PROVE  back'[k].of < back'[m].of
  <2>1. CASE m \in 1..Len(back)
    <3>1. k \in 1..Len(back) /\ back'[k] = back[k] /\ back'[m] = back[m]
      BY <1>1, <1>6, <1>10, <2>1
    <3>2. QED
      BY <1>10, <2>1, <3>1 DEF BackendInv, BackInv
  <2>2. CASE m > Len(back) /\ k \in 1..Len(back)
    <3>1. back'[k] = back[k]
      BY <1>1, <1>6, <2>2
    <3>2. back'[k].of \in 0..answered
      BY <1>7, <2>2, <3>1
    <3>3. answered < back'[m].of /\ back'[m].of \in Nat
      <4>1. m \in 1..Len(back') /\ ~(m \in 1..Len(back))
        BY <1>1, <1>10, <2>2
      <4>2. \/ m \in 1..Len(back)
            \/ back'[m].of \in Nat /\ answered < back'[m].of
        BY <1>6, <4>1
      <4>3. QED
        BY <4>1, <4>2
    <3>4. PICK x, y : x = back'[k].of /\ y = back'[m].of
      OBVIOUS
    <3>5. x \in 0..answered /\ answered < y /\ y \in Nat
      BY <3>2, <3>3, <3>4
    <3>6. x < y
      BY <1>1, <3>5
    <3>7. QED
      BY <3>4, <3>6
  <2>3. CASE m > Len(back) /\ k > Len(back)
    <3>1. /\ back'[k].of = answered + (k - Len(back))
          /\ back'[m].of = answered + (m - Len(back))
      BY <1>1, <1>6, <2>3
    <3>2. QED
      BY <1>1, <1>5, <1>10, <3>1
  <2>4. QED
    BY <1>1, <1>5, <2>1, <2>2, <2>3, <1>2
<1>11. QED
  BY <1>5, <1>6, <1>9, <1>10 DEF BackInv

\* What a client is handed is an answer to a packet that carried its id.
LEMMA AnswerHandedDown ==
  ASSUME OneByteIds, BackendInv, NEW c \in Conn, HandDown(c)
  PROVE  /\ c \in holders /\ tag[c] \in Ids
         /\ back[1].of \in 1..answered /\ Head(back) = back[1]
         /\ 1 \in 1..Len(back)
         /\ wire[back[1].of].id = tag[c]
<1>1. c \in holders /\ tag[c] \in Ids /\ back # <<>> /\ MuxId(Head(back).header) = tag[c]
  BY DEF HandDown, Deliver, BackendInv, LeaseInv, TypeOK, WireInv
<1>2. /\ back \in Seq(Frame) /\ 1 \in 1..Len(back) /\ Head(back) = back[1]
      /\ Len(wire) \in Nat /\ answered \in 0..Len(wire)
  <2>1. Len(wire) \in Nat /\ answered \in 0..Len(wire) /\ back \in Seq(Frame)
    BY WireGrows, BackendStepIsLeaseStep DEF BackendNext, BackendInv, BackendTypeOK
  <2>2. QED
    BY <1>1, <2>1, EmptySeq
<1>3. FrameOK(back[1])
  BY <1>2 DEF BackendInv, BackInv
<1>4. back[1].of # 0
  <2>1. tag[c] # 0
    BY <1>1, IdThroughBackend
  <2>2. QED
    BY <1>1, <1>2, <1>3, <2>1, CommandProperties DEF FrameOK
<1>5. back[1].of \in 1..answered /\ back[1].of \in 1..Len(wire)
      /\ back[1] = Answer(back[1].of)
  BY <1>2, <1>3, <1>4 DEF FrameOK
<1>6. QED
  BY <1>1, <1>2, <1>5, AnswerProperties DEF BackendInv

\* What the clients were handed answers packets of the wire, also as it grows.
LEMMA DeliveredType ==
  ASSUME BackendInv, [Next]_vars
  PROVE  delivered \in [Conn -> Seq(1..Len(wire'))]
<1>1. Len(wire) \in Nat /\ Len(wire') \in Nat /\ Len(wire) <= Len(wire')
  BY WireGrows DEF BackendInv
<1>2. 1..Len(wire) \subseteq 1..Len(wire')
  BY <1>1
<1>3. ASSUME NEW c \in Conn
      PROVE  delivered[c] \in Seq(1..Len(wire'))
  <2>1. delivered[c] \in Seq(1..Len(wire))
    BY DEF BackendInv, BackendTypeOK
  <2>2. QED
    BY <1>2, <2>1, SeqMonotonic
<1>4. QED
  BY <1>3 DEF BackendInv, BackendTypeOK

\* Everything but HandDown leaves what the clients were handed as it is.
LEMMA NothingHandedDown ==
  ASSUME OneByteIds, BackendInv, [Next]_vars, BackendTypeOK', delivered' = delivered,
         pending' <= typed', answered' \in answered..Len(wire), BackInv',
         \A k \in 1..Len(back') : back'[k].of # 0 =>
            \/ back'[k].of \in Nat /\ answered < back'[k].of
            \/ \E m \in 1..Len(back) : back'[k] = back[m]
  PROVE  BackendInv'
<1>1. LeaseInv' /\ Len(wire) \in Nat
      /\ \A i \in 1..Len(wire) : wire'[i] = wire[i]
  BY LeaseStepKeeps, WireGrows DEF BackendInv, OneByteIds
<1>2. ASSUME NEW c \in Conn PROVE Handed(c)'
  <2>1. Handed(c) /\ LeaseInv /\ BackendTypeOK
    BY DEF BackendInv
  <2>2. QED
    BY <2>1, HandedKept
<1>3. PredecessorsFirst'
  <2> SUFFICES ASSUME NEW c \in Conn,
                      NEW i \in 1..Len(delivered[c]), NEW j \in 1..Len(delivered[c]),
                      i < j, wire'[delivered[c][i]].from = c
               PROVE  wire'[delivered[c][j]].from = c
    BY DEF PredecessorsFirst
  <2>1. delivered[c][i] \in 1..Len(wire) /\ delivered[c][j] \in 1..Len(wire)
    <3>1. delivered[c] \in Seq(1..Len(wire))
      BY DEF BackendInv, BackendTypeOK
    <3>2. QED
      BY <3>1, ElementOfSeq
  <2>2. QED
    BY <1>1, <2>1 DEF BackendInv, PredecessorsFirst
<1>4. QED
  BY <1>1, <1>2, <1>3 DEF BackendInv

\* HandDown: the new answer is newer than those before, and if one of those
\* was to a packet of c, so is this: c holds the id, so nobody had it after c.
LEMMA HandDownKeeps ==
  ASSUME OneByteIds, BackendInv, NEW c \in Conn, HandDown(c)
  PROVE  BackendInv'
<1> DEFINE old == delivered[c]
           of == back[1].of
<1>1. /\ c \in holders /\ tag[c] \in Ids /\ of \in 1..answered
      /\ Head(back) = back[1] /\ 1 \in 1..Len(back) /\ wire[of].id = tag[c]
  BY AnswerHandedDown
<1>2. /\ UNCHANGED <<open, tag, holders, sent, wire, answered>>
      /\ UNCHANGED <<opened, links, aborted, typed, pending>>
      /\ back # <<>> /\ back' = Tail(back)
      /\ delivered' = [delivered EXCEPT ![c] = Append(old, of)]
  BY <1>1 DEF HandDown, Deliver
<1>3. [Next]_vars
  BY BackendStepIsLeaseStep DEF BackendNext
<1>4. /\ Len(wire) \in Nat /\ answered \in 0..Len(wire) /\ of \in 1..Len(wire)
      /\ delivered \in [Conn -> Seq(1..Len(wire))] /\ old \in Seq(1..Len(wire))
      /\ back \in Seq(Frame) /\ Len(back) \in Nat
  <2>1. Len(wire) \in Nat
    BY <1>3, WireGrows DEF BackendInv
  <2>2. /\ answered \in 0..Len(wire) /\ back \in Seq(Frame)
        /\ delivered \in [Conn -> Seq(1..Len(wire))]
    BY DEF BackendInv, BackendTypeOK
  <2>3. QED
    BY <1>1, <2>1, <2>2, LenProperties
<1>5. /\ back' \in Seq(Frame) /\ BackInv'
      /\ \A k \in 1..Len(back') : \E m \in 1..Len(back) : back'[k] = back[m]
  BY <1>2, <1>3, FrameTaken
<1> HIDE DEF of
<1>6. /\ delivered'[c] \in Seq(1..Len(wire)) /\ Len(old) \in Nat
      /\ Len(delivered'[c]) = Len(old) + 1
      /\ \A i \in 1..Len(old) : delivered'[c][i] = old[i]
      /\ delivered'[c][Len(old) + 1] = of
      /\ \A d \in Conn \ {c} : delivered'[d] = delivered[d]
  <2> HIDE DEF old
  <2>1. delivered'[c] = Append(old, of)
    BY <1>2, <1>4
  <2>2. Len(old) \in Nat
    BY <1>4, LenProperties
  <2>3. /\ Append(old, of) \in Seq(1..Len(wire))
        /\ Len(Append(old, of)) = Len(old) + 1
        /\ \A i \in 1..Len(old) : Append(old, of)[i] = old[i]
        /\ Append(old, of)[Len(old) + 1] = of
    BY <1>4, AppendProperties
  <2>4. \A d \in Conn \ {c} : delivered'[d] = delivered[d]
    BY <1>2, <1>4
  <2>5. QED
    BY <2>1, <2>2, <2>3, <2>4
<1>7. BackendTypeOK' /\ LeaseInv'
  <2>1. delivered' \in [Conn -> Seq(1..Len(wire'))]
    <3> HIDE DEF old
    <3>1. Append(old, of) \in Seq(1..Len(wire))
      BY <1>4, AppendProperties
    <3>2. QED
      BY <1>2, <1>4, <3>1
  <2>2. LeaseInv'
    BY <1>3, LeaseStepKeeps DEF BackendInv, OneByteIds
  <2>3. QED
    BY <1>2, <1>5, <2>1, <2>2 DEF BackendInv, BackendTypeOK, LeaseInv, links
<1>8. \A i \in 1..Len(old) : old[i] \in 1..answered /\ old[i] < of
  <2>1. Handed(c)
    BY DEF BackendInv
  <2>2. of # 0 /\ of = back[1].of
    BY <1>1, <1>4 DEF of
  <2>3. QED
    BY <1>1, <2>1, <2>2 DEF Handed
<1>9. \A k \in 1..Len(back') : back'[k].of # 0 => of < back'[k].of
  <2>1. /\ Len(back') = Len(back) - 1
        /\ \A k \in 1..Len(back') : back'[k] = back[k + 1]
    BY <1>2, <1>4, HeadTailProperties
  <2> SUFFICES ASSUME NEW k \in 1..Len(back'), back'[k].of # 0
               PROVE  of < back'[k].of
    OBVIOUS
  <2>2. k + 1 \in 1..Len(back) /\ 1 < k + 1 /\ back'[k] = back[k + 1]
    BY <1>4, <2>1
  <2>3. QED
    BY <1>1, <2>2 DEF BackendInv, BackInv, of
<1>10. ASSUME NEW d \in Conn PROVE Handed(d)'
  <2>1. CASE d # c
    <3>1. Handed(d) /\ LeaseInv /\ BackendTypeOK /\ delivered'[d] = delivered[d]
      BY <1>6, <2>1 DEF BackendInv
    <3>2. answered' \in answered..Len(wire)
      BY <1>2, <1>4
    <3>3. QED
      BY <1>3, <1>5, <3>1, <3>2, HandedKept
  <2>2. CASE d = c
    <3>1. ASSUME NEW i \in 1..Len(delivered'[c])
          PROVE  /\ delivered'[c][i] \in 1..answered
                 /\ wire[delivered'[c][i]].id = tag[c]
                 /\ delivered'[c][i] <= of
      <4>1. CASE i \in 1..Len(old)
        <5>1. wire[old[i]].id = tag[c]
          BY <4>1 DEF BackendInv, Handed
        <5>2. old[i] \in 1..answered /\ old[i] < of /\ delivered'[c][i] = old[i]
          BY <1>6, <1>8, <4>1
        <5>3. QED
          BY <1>4, <5>1, <5>2
      <4>2. CASE i = Len(old) + 1
        BY <1>1, <1>4, <1>6, <4>2 DEF of
      <4>3. QED
        BY <1>6, <4>1, <4>2
    <3>2. ASSUME NEW i \in 1..Len(delivered'[c]), NEW j \in 1..Len(delivered'[c]), i < j
          PROVE  delivered'[c][i] < delivered'[c][j]
      <4>1. i \in 1..Len(old) /\ delivered'[c][i] = old[i]
        BY <1>6, <3>2
      <4>2. CASE j \in 1..Len(old)
        <5>1. old[i] < old[j]
          BY <3>2, <4>1, <4>2 DEF BackendInv, Handed
        <5>2. QED
          BY <1>6, <4>1, <4>2, <5>1
      <4>3. CASE j = Len(old) + 1
        BY <1>6, <1>8, <4>1, <4>3
      <4>4. QED
        BY <1>6, <4>2, <4>3
    <3>3. ASSUME NEW i \in 1..Len(delivered'[c]), NEW k \in 1..Len(back'), back'[k].of # 0
          PROVE  delivered'[c][i] < back'[k].of
      <4>1. of < back'[k].of /\ delivered'[c][i] <= of /\ delivered'[c][i] \in Int
            /\ of \in Int
        BY <1>4, <1>9, <3>1, <3>3
      <4>2. back'[k] \in Frame
        BY <1>5, ElementOfSeq
      <4>3. back'[k].of \in Int
        BY <4>2 DEF Frame
      <4>4. QED
        BY <4>1, <4>3
    <3>4. tag[c] # NoId
      BY <1>1 DEF OneByteIds
    <3>5. QED
      BY <1>2, <2>2, <3>1, <3>2, <3>3, <3>4 DEF Handed
  <2>3. QED
    BY <2>1, <2>2
<1>11. PredecessorsFirst'
  <2> SUFFICES ASSUME NEW d \in Conn,
                      NEW i \in 1..Len(delivered'[d]), NEW j \in 1..Len(delivered'[d]),
                      i < j, wire[delivered'[d][i]].from = d
               PROVE  wire[delivered'[d][j]].from = d
    BY <1>2 DEF PredecessorsFirst
  <2>0. ASSUME NEW p \in 1..Len(delivered[d]), NEW q \in 1..Len(delivered[d]),
               p < q, wire[delivered[d][p]].from = d
        PROVE  wire[delivered[d][q]].from = d
    BY <2>0 DEF BackendInv, PredecessorsFirst
  <2>1. CASE d # c
    <3>1. delivered'[d] = delivered[d]
      BY <1>6, <2>1
    <3>2. QED
      BY <2>0, <3>1
  <2>2. CASE d = c /\ j \in 1..Len(old)
    <3>1. /\ i \in 1..Len(old)
          /\ delivered'[c][i] = old[i] /\ delivered'[c][j] = old[j]
      BY <1>6, <2>2
    <3>2. QED
      BY <2>0, <2>2, <3>1
  <2>3. CASE d = c /\ j = Len(old) + 1
    <3>0. /\ i \in 1..Len(old) /\ delivered'[c][i] = old[i]
          /\ delivered'[c][j] = of
      BY <1>6, <2>3
    <3>1. old[i] < of /\ old[i] \in 1..Len(wire)
      BY <1>4, <1>8, <3>0
    <3>2. wire[old[i]].id = tag[c] /\ wire[of].id = tag[c] /\ wire[old[i]].from = c
      BY <1>1, <2>3, <3>0 DEF BackendInv, Handed, of
    <3>3. wire[of].from = c
      BY <1>1, <1>4, <3>1, <3>2 DEF BackendInv, LeaseInv, Handover
    <3>4. QED
      BY <2>3, <3>0, <3>3
  <2>4. d = c => j \in 1..Len(old) \/ j = Len(old) + 1
    BY <1>6
  <2>5. QED
    BY <2>1, <2>2, <2>3, <2>4
<1>12. QED
  BY <1>2, <1>5, <1>7, <1>10, <1>11 DEF BackendInv

\* The other steps leave to the clients what they have.
LEMMA BackendStepKeeps ==
  ASSUME OneByteIds, BackendInv, BackendNext \/ UNCHANGED <<vars, backendVars>>
  PROVE  BackendInv'
<1>1. [Next]_vars
  BY BackendStepIsLeaseStep
<1>2. LeaseInv' /\ TypeOK' /\ Len(wire) \in Nat /\ Len(wire') \in Nat
      /\ Len(wire) <= Len(wire')
      /\ delivered \in [Conn -> Seq(1..Len(wire'))]
  BY <1>1, LeaseStepKeeps, WireGrows, DeliveredType
     DEF BackendInv, LeaseInv, OneByteIds
<1>3. /\ opened \in BOOLEAN /\ aborted \in BOOLEAN /\ back \in Seq(Frame)
      /\ connection \in {"none", "up", "down"} /\ other \in {"none", "up", "down"}
      /\ registered \in {"null", "link", "other"}
      /\ answered \in Nat /\ answered \in 0..Len(wire) /\ answered \in 0..Len(wire')
      /\ typed \in Nat /\ pending \in Nat /\ MaxCommands \in Nat
      /\ typed <= MaxCommands /\ pending <= typed
  <2>1. /\ opened \in BOOLEAN /\ aborted \in BOOLEAN /\ back \in Seq(Frame)
        /\ connection \in {"none", "up", "down"} /\ other \in {"none", "up", "down"}
        /\ registered \in {"null", "link", "other"} /\ pending <= typed
        /\ answered \in 0..Len(wire)
        /\ typed \in 0..MaxCommands /\ pending \in 0..MaxCommands
    BY DEF BackendInv, BackendTypeOK
  <2>2. QED
    BY <1>2, <2>1 DEF OneByteIds
\* The frames on their way and the state of the backend, step by step.
<1> DEFINE LinksOK == /\ opened' \in BOOLEAN /\ aborted' \in BOOLEAN
                      /\ connection' \in {"none", "up", "down"}
                      /\ other' \in {"none", "up", "down"}
                      /\ registered' \in {"null", "link", "other"}
                      /\ typed' \in 0..MaxCommands /\ pending' \in 0..MaxCommands
                      /\ pending' <= typed'
<1>4. ASSUME LinksOK, delivered' = delivered, answered' = answered,
             back' = back \/ (back # <<>> /\ back' = Tail(back))
      PROVE  BackendInv'
  <2>1. /\ back' \in Seq(Frame) /\ BackInv'
        /\ \A k \in 1..Len(back') : \E m \in 1..Len(back) : back'[k] = back[m]
    BY <1>1, <1>4, FrameTaken
  <2>2. BackendTypeOK'
    BY <1>2, <1>3, <1>4, <2>1 DEF BackendTypeOK
  <2>3. answered' \in answered..Len(wire) /\ pending' <= typed'
    BY <1>2, <1>3, <1>4
  <2>4. QED
    BY <1>1, <1>4, <2>1, <2>2, <2>3, NothingHandedDown
<1>5. CASE OnConnectionUp \/ OnConnectionDown
  <2>1. LinksOK /\ delivered' = delivered /\ answered' = answered /\ back' = back
    BY <1>3, <1>5 DEF OnConnectionUp, OnConnectionDown, Reset
  <2>2. QED
    BY <1>4, <2>1
<1>6. CASE AddCommand
  <2>1. /\ typed' = typed + 1 /\ pending' \in {pending, pending + 1}
        /\ typed < MaxCommands
        /\ UNCHANGED <<opened, links, aborted, answered, back, delivered>>
    BY <1>6 DEF AddCommand
  <2>2. LinksOK
    BY <1>3, <2>1 DEF links
  <2>3. QED
    BY <1>4, <2>1, <2>2
<1>7. ASSUME LinksOK, UNCHANGED <<vars, answered, delivered>>,
             back' = Append(back, Command)
      PROVE  BackendInv'
  <2>1. /\ back' \in Seq(Frame) /\ BackInv'
        /\ \A k \in 1..Len(back') :
             back'[k].of # 0 => \E m \in 1..Len(back) : back'[k] = back[m]
    BY <1>7, CommandSent
  <2>2. BackendTypeOK'
    BY <1>2, <1>3, <1>7, <2>1 DEF BackendTypeOK
  <2>3. answered' \in answered..Len(wire) /\ pending' <= typed' /\ delivered' = delivered
    BY <1>2, <1>3, <1>7
  <2>4. QED
    BY <1>1, <2>1, <2>2, <2>3, NothingHandedDown
<1>8. CASE RunCommand
  <2>1. /\ pending' = pending - 1 /\ pending > 0
        /\ UNCHANGED <<vars, opened, links, aborted, answered, typed, delivered>>
        /\ back' \in {back, Append(back, Command)}
    BY <1>8 DEF RunCommand
  <2>2. LinksOK
    BY <1>3, <2>1 DEF links
  <2>3. QED
    BY <1>4, <1>7, <2>1, <2>2
<1>9. ASSUME NEW k \in 0..Len(wire), OnMessage(k) \/ OnCutMessage(k)
      PROVE  BackendInv'
  <2>0. aborted' = aborted \/ aborted' = TRUE
    BY <1>9 DEF OnMessage, OnCutMessage
  <2>1. /\ k \in answered..Len(wire) /\ answered' = k /\ back' = back \o Answers(k)
        /\ UNCHANGED <<vars, opened, links, typed, pending, delivered>>
    <3>1. CASE OnMessage(k)
      BY <1>2, <1>3, <3>1 DEF OnMessage
    <3>2. CASE OnCutMessage(k)
      BY <1>2, <1>3, <3>2 DEF OnCutMessage
    <3>3. QED
      BY <1>9, <3>1, <3>2
  <2>2. /\ back' \in Seq(Frame) /\ BackInv'
        /\ \A n \in 1..Len(back') :
             \/ back'[n].of \in Nat /\ answered < back'[n].of
             \/ \E m \in 1..Len(back) : back'[n] = back[m]
    BY <2>1, AnswersSent
  <2>3. answered' \in answered..Len(wire) /\ answered' \in 0..Len(wire')
    BY <1>2, <1>3, <2>1
  <2>4. LinksOK
    <3>1. aborted' \in BOOLEAN
      BY <1>3, <2>0, Zenon
    <3>2. QED
      BY <1>3, <2>1, <3>1 DEF links
  <2>5. BackendTypeOK'
    BY <1>2, <2>1, <2>2, <2>3, <2>4 DEF BackendTypeOK
  <2>6. QED
    BY <1>1, <2>1, <2>2, <2>3, <2>4, <2>5, NothingHandedDown
<1>10. CASE OpenOnce \/ LeaseStep \/ Consume \/ UNCHANGED <<vars, backendVars>>
  <2>1. /\ opened' \in BOOLEAN
        /\ UNCHANGED <<links, aborted, answered, typed, pending, delivered>>
        /\ back' = back \/ (back # <<>> /\ back' = Tail(back))
    BY <1>3, <1>10 DEF OpenOnce, LeaseStep, Consume, backendVars
  <2>2. LinksOK
    BY <1>3, <2>1 DEF links
  <2>3. QED
    BY <1>4, <2>1, <2>2
<1>11. QED
  BY <1>5, <1>6, <1>8, <1>9, <1>10, HandDownKeeps DEF BackendNext

LEMMA InitBackendInv ==
  ASSUME OneByteIds, BackendInit
  PROVE  BackendInv
<1>1. LeaseInv
  BY InitLeaseInv DEF BackendInit
<1>2. Len(wire) = 0 /\ Len(back) = 0 /\ \A c \in Conn : Len(delivered[c]) = 0
  BY EmptySeq DEF BackendInit, Init
<1>3. BackendTypeOK
  <2>1. <<>> \in Seq(Frame) /\ <<>> \in Seq(1..Len(wire))
    BY EmptySeq
  <2>2. 0 \in 0..MaxCommands /\ 0 \in 0..Len(wire)
    BY <1>2 DEF OneByteIds
  <2>3. QED
    BY <1>1, <2>1, <2>2 DEF BackendTypeOK, BackendInit, LeaseInv
<1>4. QED
  BY <1>1, <1>2, <1>3 DEF BackendInv, BackInv, Handed, PredecessorsFirst, BackendInit

\* A client is handed each answer once, in the order of the packets, and only
\* answers to packets that carried its id; once it was handed an answer to a
\* packet of its own it is handed nobody else's.  The backend gives the second
\* byte of an id up, so this is for ids that fit into the first.
THEOREM AnswersReachTheirClient ==
  ASSUME OneByteIds
  PROVE  BackendSpec => [](AnswersInOrder /\ PredecessorsFirst)
<1>1. BackendInv => AnswersInOrder /\ PredecessorsFirst
  BY DEF BackendInv, Handed, AnswersInOrder
<1>2. BackendInv /\ [BackendNext]_<<vars, backendVars>> => BackendInv'
  BY BackendStepKeeps
<1>3. QED
  BY <1>1, <1>2, InitBackendInv, PTL DEF BackendSpec

\* Commands typed at the backend go to a connection that is open; they are
\* dropped while one is open only because the other one has closed.
THEOREM CommandsHaveALink == BackendSpec => []ConsoleHasALink
<1> DEFINE Ends == connection \in {"none", "up", "down"} /\ other \in {"none", "up", "down"}
<1>1. BackendInit => Ends /\ ConsoleHasALink
  BY DEF BackendInit, ConsoleHasALink
<1>2. Ends /\ ConsoleHasALink /\ [BackendNext]_<<vars, backendVars>>
        => Ends' /\ ConsoleHasALink'
  BY DEF ConsoleHasALink, BackendNext, OnConnectionUp, OnConnectionDown, OnMessage,
         OnCutMessage, AddCommand, RunCommand, OpenOnce, LeaseStep, HandDown, Consume,
         Reset, links, backendVars
<1>3. QED
  BY <1>1, <1>2, PTL DEF BackendSpec
=============================================================================
