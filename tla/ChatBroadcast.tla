---------------------------- MODULE ChatBroadcast ----------------------------
(***************************************************************************)
(* Totally ordered broadcast, the promise of a chat room where everybody    *)
(* reads the same conversation: there is one log, and each member reads it  *)
(* without gaps from the place where it came in.                            *)
(***************************************************************************)
EXTENDS Integers, Sequences

CONSTANTS Conn, Message

VARIABLES
  log,      \* the conversation
  members,  \* who takes part in it
  first,    \* first[c]: the length of the log c did not get to read
  stream    \* stream[c]: what c has read

vars == <<log, members, first, stream>>

TypeOK ==
  /\ log \in Seq(Message)
  /\ members \in SUBSET Conn
  /\ first \in [Conn -> Nat]
  /\ stream \in [Conn -> Seq(Message)]

Init ==
  /\ log = <<>>
  /\ members = {}
  /\ first = [c \in Conn |-> 0]
  /\ stream = [c \in Conn |-> <<>>]

\* The place c has read up to.
Place(c) == first[c] + Len(stream[c])

Say(m) ==
  /\ log' = Append(log, m)
  /\ UNCHANGED <<members, first, stream>>

\* A new member comes in, perhaps a little behind the end of the log.
Join(c) ==
  /\ c \notin members
  /\ stream[c] = <<>>
  /\ members' = members \cup {c}
  /\ \E k \in 0..Len(log) : first' = [first EXCEPT ![c] = k]
  /\ UNCHANGED <<log, stream>>

Leave(c) ==
  /\ c \in members
  /\ members' = members \ {c}
  /\ UNCHANGED <<log, first, stream>>

\* Some members read the next message, each at its own place.
Hear(S) ==
  /\ \A c \in S : Place(c) < Len(log)
  /\ stream' = [c \in Conn |-> IF c \in S THEN Append(stream[c], log[Place(c) + 1])
                               ELSE stream[c]]
  /\ UNCHANGED <<log, members, first>>

Next ==
  \/ \E m \in Message : Say(m)
  \/ \E c \in Conn : Join(c) \/ Leave(c)
  \/ \E S \in SUBSET members : Hear(S)

Spec == Init /\ [][Next]_vars

\* What a client has read is a piece of the one log.
ReadsTheLog ==
  \A c \in Conn : /\ Place(c) <= Len(log)
                  /\ stream[c] = SubSeq(log, first[c] + 1, Place(c))
=============================================================================
