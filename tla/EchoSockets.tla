----------------------------- MODULE EchoSockets ------------------------------
(***************************************************************************)
(* The TCP connections between the echo clients and the echo servers of     *)
(* src/echo, src/block_nonblock_echo_example and src/python_code, as far as *)
(* those programs use them; the kernel is not part of the repository.       *)
(*                                                                          *)
(* Of a byte it matters who sent it and which of his bytes it is.  Window   *)
(* is what the buffers of the two ends hold together in one direction.      *)
(***************************************************************************)
EXTENDS Integers, Sequences

CONSTANTS
  Client,    \* the clients, each with one connection
  NoClient,  \* no connection
  Window     \* bytes on their way in one direction

ASSUME EchoSocketsAssumption == NoClient \notin Client /\ Window \in Nat \ {0}

VARIABLES
  up,    \* up[c]: bytes c has sent and the server has not read
  down,  \* down[c]: bytes the server has sent to c and c has not read
  link   \* link[c]: what the server's end knows of the other one

sockets == <<up, down, link>>

\* "fin": the client has closed after reading all; "reset": it closed with
\* bytes unread, the next call on the connection fails; "pipe": a write to it
\* raises SIGPIPE.
Links == {"open", "fin", "reset", "pipe"}

Prefixes(s) == {SubSeq(s, 1, k) : k \in 0..Len(s)}

\* What fits into the window now, of n bytes.
Room(s, n) == IF Len(s) + n <= Window THEN n ELSE Window - Len(s)

\* close() by the client.  Unread bytes make it a reset, which discards what
\* of the client's own bytes is still on its side.
ClientCloses(c) ==
  \/ /\ down[c] = <<>>
     /\ link' = [link EXCEPT ![c] = "fin"]
     /\ UNCHANGED <<up, down>>
  \/ /\ down[c] # <<>>
     /\ link' = [link EXCEPT ![c] = "reset"]
     /\ \E rest \in Prefixes(up[c]) : up' = [up EXCEPT ![c] = rest]
     /\ down' = [down EXCEPT ![c] = <<>>]

\* A server's write of bytes to a client that has closed: they vanish.  A
\* closed client answers with a reset.
WriteVanishes(c) ==
  /\ \/ /\ link[c] = "fin"
        /\ link' = [link EXCEPT ![c] = "pipe"]
     \/ /\ link[c] = "reset"
        /\ link' \in {link, [link EXCEPT ![c] = "pipe"]}
     \/ link[c] = "pipe" /\ UNCHANGED link
  /\ \E rest \in Prefixes(up[c]) : up' = [up EXCEPT ![c] = rest]
  /\ UNCHANGED down

\* The server has read all there is: end of file, or an error reported once.
ReadFails(c) == up[c] = <<>> /\ link[c] = "reset"
ReadEnds(c) == up[c] = <<>> /\ link[c] \in {"fin", "pipe"}
=============================================================================
