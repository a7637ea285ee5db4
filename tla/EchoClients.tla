----------------------------- MODULE EchoClients ------------------------------
(***************************************************************************)
(* The three echo clients: src/echo/echo_client.c, which sends a line and   *)
(* waits for as many bytes, again and again; echo_client_block.c and        *)
(* echo_client_nonblock.c of src/block_nonblock_echo_example, which send    *)
(* one long message, call recv once and close.                              *)
(***************************************************************************)
EXTENDS EchoSockets

CONSTANTS
  Mixes,    \* the client programs that run together: functions to Programs
  Size,     \* Size[p]: bytes of a message of program p
  MaxLines  \* bound: lines typed at a client

Programs == {"line", "block", "nonblock"}

ASSUME EchoClientsAssumption ==
  /\ Mixes \subseteq [Client -> Programs]
  /\ Size \in [Programs -> Nat \ {0}]
  /\ MaxLines \in Nat

VARIABLES
  program,  \* program[c]: which client c is
  at,       \* at[c]: where it stands
  typed,    \* typed[c]: messages c has begun to send
  due,      \* due[c]: bytes of the current message not yet handed to send()
  got       \* got[c]: what c has received

clients == <<program, at, typed, due, got>>

\* A client's bytes are numbered through all its messages.
Length(c) == Size[program[c]]
Sent(c) == typed[c] * Length(c) - due[c]
Bytes(c, from, to) == [i \in 1 .. to - from + 1 |-> [of |-> c, n |-> from + i - 1]]

ClientsInit ==
  /\ program \in Mixes
  /\ at = [c \in Client |-> "absent"]
  /\ typed = [c \in Client |-> 0]
  /\ due = [c \in Client |-> 0]
  /\ got = [c \in Client |-> <<>>]
  /\ up = [c \in Client |-> <<>>]
  /\ down = [c \in Client |-> <<>>]
  /\ link = [c \in Client |-> "open"]

-----------------------------------------------------------------------------
\* connect(); the connection waits in the backlog of the server.
Connect(c) ==
  /\ at[c] = "absent"
  /\ at' = [at EXCEPT ![c] = "message"]
  /\ UNCHANGED <<sockets, program, typed, due, got>>

\* fgets, or the filling of the message.
NextMessage(c) ==
  /\ at[c] = "message"
  /\ typed[c] < IF program[c] = "line" THEN MaxLines ELSE 1
  /\ at' = [at EXCEPT ![c] = "send"]
  /\ typed' = [typed EXCEPT ![c] = @ + 1]
  /\ due' = [due EXCEPT ![c] = Length(c)]
  /\ UNCHANGED <<sockets, program, got>>

\* k bytes go out.
HandsOver(c, k) ==
  /\ up' = [up EXCEPT ![c] = @ \o Bytes(c, Sent(c) + 1, Sent(c) + k)]
  /\ due' = [due EXCEPT ![c] = @ - k]
  /\ UNCHANGED <<down, link, program, typed, got>>

\* A blocking send() hands over what fits, again and again, and ends when
\* that was the whole message.
BlockingSend(c) == LET k == Room(up[c], due[c]) IN
  /\ at[c] = "send" /\ program[c] # "nonblock"
  /\ k > 0
  /\ HandsOver(c, k)
  /\ at' = IF k = due[c] THEN [at EXCEPT ![c] = "recv"] ELSE at

\* A nonblocking one hands over what fits.
NonblockingSend(c) ==
  /\ at[c] = "send" /\ program[c] = "nonblock"
  /\ HandsOver(c, Room(up[c], due[c]))
  /\ at' = [at EXCEPT ![c] = "recv"]

\* recv of k bytes.
Receives(c, k) ==
  /\ got' = [got EXCEPT ![c] = @ \o SubSeq(down[c], 1, k)]
  /\ down' = [down EXCEPT ![c] = SubSeq(@, k + 1, Len(@))]
  /\ UNCHANGED <<up, link, program, typed, due>>

\* echo_client counts until it has as many bytes as it has sent; ending after
\* the first recv would leave the rest for the next line.
FirstRecv(c, k) == TRUE
Complete(c, k) == Len(got[c]) + k = Sent(c)

RecvLine(c, k) ==
  /\ at[c] = "recv" /\ program[c] = "line"
  /\ k \in 1..Len(down[c])
  /\ Receives(c, k)
  /\ at' = IF Complete(c, k) THEN [at EXCEPT ![c] = "message"] ELSE at

\* The others call recv once; a nonblocking one may find nothing.
RecvOnce(c, k) ==
  /\ at[c] = "recv" /\ program[c] # "line"
  /\ k \in (IF program[c] = "block" THEN 1 ELSE 0) .. Len(down[c])
  /\ Receives(c, k)
  /\ at' = [at EXCEPT ![c] = "close"]

\* The end of the input.
EndInput(c) ==
  /\ at[c] = "message" /\ program[c] = "line"
  /\ ClientCloses(c)
  /\ at' = [at EXCEPT ![c] = "done"]
  /\ UNCHANGED <<program, typed, due, got>>

\* close(): after the one recv, or when the server's end is gone.
Close(c, gone) ==
  /\ \/ at[c] = "close"
     \/ gone /\ at[c] = "recv" /\ down[c] = <<>>
     \/ gone /\ at[c] = "send"
  /\ ClientCloses(c)
  /\ at' = [at EXCEPT ![c] = "done"]
  /\ UNCHANGED <<program, typed, due, got>>
=============================================================================
