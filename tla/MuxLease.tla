------------------------------- MODULE MuxLease -------------------------------
(***************************************************************************)
(* What a multiplexer promises, apart from how it is built: while the       *)
(* backend link is open every client connection that holds a lease owns an  *)
(* id no other connection owns, what it sends goes out on the one backend   *)
(* stream tagged with that id, and only the lease holder receives what the  *)
(* backend addresses to the id.  A connection leases at most one id in its  *)
(* life.  Both servers of src/muduo-based/simple/multiplexer implement it.  *)
(***************************************************************************)
EXTENDS Integers, Sequences

CONSTANTS
  Conn,      \* client connections
  Ids,       \* the ids that can be leased
  NoId,      \* no id (an empty connection context)
  MaxBurst   \* most packets one client message is cut into

VARIABLES
  open,      \* is the backend link registered
  tag,       \* tag[c]: the id c was given, NoId if it never got one
  holders,   \* the connections whose lease is running
  sent,      \* sent[c]: how many packets of c the backend link has taken
  wire,      \* packets handed to the backend link, oldest first
  got        \* got[c]: ids of the backend packets handed to c, oldest first

vars == <<open, tag, holders, sent, wire, got>>

Packet == [from : Conn, id : Ids, n : Nat]

TypeOK ==
  /\ open \in BOOLEAN
  /\ tag \in [Conn -> Ids \cup {NoId}]
  /\ holders \in SUBSET Conn
  /\ sent \in [Conn -> Nat]
  /\ wire \in Seq(Packet)
  /\ got \in [Conn -> Seq(Ids)]

Init ==
  /\ open = FALSE
  /\ tag = [c \in Conn |-> NoId]
  /\ holders = {}
  /\ sent = [c \in Conn |-> 0]
  /\ wire = <<>>
  /\ got = [c \in Conn |-> <<>>]

-----------------------------------------------------------------------------
\* An id is taken while a lease on it runs.
Leased(id) == \E c \in holders : tag[c] = id

\* The backend link comes up: every id is free.
Open ==
  /\ ~open
  /\ open' = TRUE
  /\ UNCHANGED <<tag, holders, sent, wire, got>>

\* The backend link is lost: every lease ends.
Close ==
  /\ open
  /\ open' = FALSE
  /\ holders' = {}
  /\ UNCHANGED <<tag, sent, wire, got>>

Acquire(c, id) ==
  /\ open
  /\ tag[c] = NoId
  /\ ~Leased(id)
  /\ tag' = [tag EXCEPT ![c] = id]
  /\ holders' = holders \cup {c}
  /\ UNCHANGED <<open, sent, wire, got>>

Release(c) ==
  /\ c \in holders
  /\ holders' = holders \ {c}
  /\ UNCHANGED <<open, tag, sent, wire, got>>

\* The next k packets of c; a connection's packets are numbered without gaps.
Burst(c, k) ==
  [i \in 1..k |-> [from |-> c, id |-> tag[c], n |-> sent[c] + i]]

Transmit(c, k) ==
  /\ c \in holders
  /\ sent' = [sent EXCEPT ![c] = @ + k]
  /\ wire' = wire \o Burst(c, k)
  /\ UNCHANGED <<open, tag, holders, got>>

Deliver(c) ==
  /\ c \in holders
  /\ got' = [got EXCEPT ![c] = Append(@, tag[c])]
  /\ UNCHANGED <<open, tag, holders, sent, wire>>

Next ==
  \/ Open
  \/ Close
  \/ \E c \in Conn :
       \/ \E id \in Ids : Acquire(c, id)
       \/ Release(c)
       \/ \E k \in 1..MaxBurst : Transmit(c, k)
       \/ Deliver(c)

Spec == Init /\ [][Next]_vars

-----------------------------------------------------------------------------
\* No two connections whose leases run at the same time have the same id.
Exclusive == \A c, d \in holders : tag[c] = tag[d] => c = d

\* On one id the backend sees one client session after the other: once a
\* packet of another connection has followed, the earlier one is silent.
SessionsDisjoint ==
  \A i, j, k \in 1..Len(wire) :
     /\ i < j /\ j < k
     /\ wire[i].id = wire[j].id
     /\ wire[i].from = wire[k].from
     => wire[j].from = wire[i].from

\* The backend sees the packets of a connection in the order they were cut
\* from its stream, each once and none left out before the last one sent.
StreamInOrder ==
  /\ \A i, j \in 1..Len(wire) :
       i < j /\ wire[i].from = wire[j].from => wire[i].n < wire[j].n
  /\ \A c \in Conn : \A m \in 1..sent[c] :
       \E i \in 1..Len(wire) : wire[i].from = c /\ wire[i].n = m

\* Whatever is handed to a connection was addressed to the id it was given.
OnlyOwnId ==
  \A c \in Conn : \A i \in 1..Len(got[c]) : got[c][i] = tag[c]
=============================================================================
