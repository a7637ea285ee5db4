------------------------ MODULE MultiplexerMultiSystem ------------------------
(***************************************************************************)
(* The multi-threaded multiplexer and the backend server behind it, joined  *)
(* by the backend connection, as MultiplexerSystem joins the                *)
(* single-threaded one.  A frame stays at the head of the input buffer      *)
(* while the base loop looks its client up under the lock, and is retrieved *)
(* after the send outside it; in between the IO loops go on.                *)
(***************************************************************************)
EXTENDS MultiplexerMulti

CONSTANTS
  ByteValues,   \* how many values a byte has: 256
  MaxWire,      \* bound: packets sent to the backend
  MaxCommands   \* bound: lines typed at the backend

ASSUME MultiSystemAssumption ==
  /\ ByteValues \in Nat \ {0, 1}
  /\ MaxWire \in Nat
  /\ MaxCommands \in Nat
  /\ Ids \subseteq 1 .. ByteValues * ByteValues - 1

VARIABLES  \* those of the backend server, see MuxBackend
  connection, other, registered, aborted, answered, typed, pending, back, delivered

server == <<connection, other, registered, aborted, answered, typed, pending>>
systemVars == <<vars, server, back, delivered>>

Server == INSTANCE MuxBackend
            WITH open <- backendConn, tag <- [c \in Conn |-> Tag(c)],
                 holders <- Registered, MaxBurst <- 1,
                 opened <- backend # "connecting"

SystemInit == Init /\ Server!BackendInit

-----------------------------------------------------------------------------
\* The id of the frame that is first in the buffer of sendToClient.
FirstId == Server!MuxId(Head(back).header)

ServerStep ==
  /\ UNCHANGED vars
  /\ \/ Server!OnConnectionUp
     \/ Server!OnConnectionDown
     \/ \E k \in 0..Len(wire) : Server!OnMessage(k) \/ Server!OnCutMessage(k)
     \/ Server!AddCommand
     \/ Server!RunCommand

\* Whatever the multiplexer does besides reading from the backend.
MultiplexerStep ==
  /\ \/ OnBackendUp
     \/ OnBackendClose
     \/ OnBackendDown
     \/ \E c \in Conn : Accept(c)
     \/ \E c \in Conn : IoLoop(c) /\ Len(wire') <= MaxWire
  /\ UNCHANGED <<server, back, delivered>>

\* sendToClient looks the client up; a frame for nobody, and a command without
\* an effect, is retrieved at once.
ReadFrame ==
  /\ back # <<>>
  /\ \/ FirstId \in Ids /\ OnBackendMessage(FirstId, "deliver")
     \/ FirstId = 0 /\ \E id \in Ids : OnBackendMessage(id, "disconnect")
     \/ FirstId \notin Ids /\ BaseIdle /\ backend = "up" /\ UNCHANGED vars
  /\ back' = IF base'.at = "idle" THEN Tail(back) ELSE back
  /\ UNCHANGED <<server, delivered>>

\* The send or shutdown of the client that was found.
FinishFrame ==
  /\ SendToClient \/ DisconnectClient
  /\ back' = Tail(back)
  /\ delivered' = IF got' = got THEN delivered
                  ELSE [delivered EXCEPT ![base.conn] = Append(@, Head(back).of)]
  /\ UNCHANGED server

SystemNext == ServerStep \/ MultiplexerStep \/ ReadFrame \/ FinishFrame

SystemSpec == SystemInit /\ [][SystemNext]_systemVars

-----------------------------------------------------------------------------
\* What MuxBackend says of any multiplexer that keeps the promise of MuxLease,
\* of this one.

\* A client is handed answers only to packets that carried its id, each once and
\* in the order of the packets, although the client is looked up under the lock
\* and the answer sent outside it.
AnswersInOrder == Server!AnswersInOrder

\* Once a client was handed the answer to a packet of its own, it gets no more of
\* those meant for the client that had its id before.
PredecessorsFirst == Server!PredecessorsFirst

\* Commands go to a connection that is open, and are dropped while one is open
\* only because another one has closed in the meantime.
ConsoleHasALink == Server!ConsoleHasALink

\* Every step of the two is one of MuxBackend, or none.
ImplementsBackend == Server!BackendSpec

-----------------------------------------------------------------------------
\* What the base loop holds on to while it serves a frame outside the lock
\* belongs to the frame that is first in the buffer.
FrameInv ==
  /\ answered \in Nat
  /\ back \in Seq(Server!Frame)
  /\ base.at \in {"deliver", "disconnect"} => back # <<>>
  /\ base.at = "deliver" => FirstId = base.id

SystemInv == IInv /\ FrameInv
=============================================================================
