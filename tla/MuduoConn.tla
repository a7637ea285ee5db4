------------------------------ MODULE MuduoConn ------------------------------
(***************************************************************************)
(* What the programs of src/muduo-based rely on in muduo's TcpConnection    *)
(* and Buffer, which are not part of the repository.  A connection object   *)
(* stands for one TCP connection and is used once:                          *)
(*                                                                          *)
(*   absent -> accepted -> connected [-> disconnecting] -> disconnected     *)
(*                                                                          *)
(* "accepted": TcpServer has created the object and queued                  *)
(* connectEstablished on the connection's event loop; "connected": that     *)
(* functor has run; "disconnecting": shutdown() was called, so that send()  *)
(* drops what it is given and the sending half closes as soon as the output *)
(* buffer is empty, while messages are still received; "disconnected": the  *)
(* peer has closed.                                                         *)
(***************************************************************************)
EXTENDS Integers

ConnStates ==
  {"absent", "accepted", "connected", "disconnecting", "disconnected"}

\* TcpConnection::shutdown(): only a connected connection starts to close.
AfterShutdown(state) == IF state = "connected" THEN "disconnecting" ELSE state

\* TcpConnection::send(): anything but a connected connection drops the data.
Sendable(state) == state = "connected"

\* handleRead still runs: messages and the close event are delivered.
Readable(state) == state \in {"connected", "disconnecting"}

\* Buffer: the room in front of its contents, kCheapPrepend bytes when it is
\* new or has been emptied.  prepend() asserts that what it is given fits.
CheapPrepend == 8

\* Buffer::makeSpace: a read that finds the end of the buffer too short may
\* move the contents to the front, where there is more room than it needs.
RoomAfterRead(room) ==
  {room} \cup IF room > CheapPrepend THEN {CheapPrepend} ELSE {}
=============================================================================
