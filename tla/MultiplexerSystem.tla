--------------------------- MODULE MultiplexerSystem ---------------------------
(***************************************************************************)
(* The single-threaded multiplexer and the backend server behind it, joined *)
(* by the backend connection: what sendBackendBuffer sends is what the      *)
(* backend's onMessage reads, and what the backend sends is what            *)
(* sendToClient reads.  MultiplexerSimple alone lets the backend send what  *)
(* it likes, MuxBackend alone lets the multiplexer do what MuxLease allows; *)
(* here each has the other one.                                             *)
(***************************************************************************)
EXTENDS MultiplexerSimple

CONSTANTS
  ByteValues,   \* how many values a byte has: 256
  MaxWire,      \* bound: packets sent to the backend
  MaxCommands   \* bound: lines typed at the backend

ASSUME SystemAssumption ==
  /\ ByteValues \in Nat \ {0, 1}
  /\ MaxWire \in Nat
  /\ MaxCommands \in Nat
  /\ Ids \subseteq 1 .. ByteValues * ByteValues - 1

VARIABLES  \* those of the backend server, see MuxBackend
  connection, other, registered, aborted, answered, typed, pending, back, delivered

server == <<connection, other, registered, aborted, answered, typed, pending>>
systemVars == <<vars, server, back, delivered>>

Server == INSTANCE MuxBackend
            WITH open <- backendConn, tag <- context, holders <- Registered,
                 opened <- backend # "connecting"

SystemInit == Init /\ Server!BackendInit

-----------------------------------------------------------------------------
\* The id of the frame that is first in the buffer of sendToClient.
FirstId == Server!MuxId(Head(back).header)

ServerStep ==
  /\ UNCHANGED vars
  /\ \/ Server!OnConnectionUp
     \/ Server!OnConnectionDown
     \/ \E k \in 0..Len(wire) : Server!OnMessage(k) \/ Server!OnCutMessage(k)
     \/ Server!AddCommand
     \/ Server!RunCommand

\* The callbacks of the clients, and the backend connection coming and going.
MultiplexerStep ==
  /\ \/ OnBackendUp
     \/ OnBackendDown
     \/ \E c \in Conn :
          \/ OnClientUp(c)
          \/ OnClientClose(c)
          \/ \E k \in 1..MaxBurst :
               Len(wire) + k <= MaxWire /\ OnClientMessage(c, k)
  /\ UNCHANGED <<server, back, delivered>>

\* sendToClient for an answer: the client that is sent it, if any, is the one
\* registered under the id in the header.
ReadAnswer ==
  /\ back # <<>>
  /\ FirstId \in Ids
  /\ SendToClient(FirstId)
  /\ back' = Tail(back)
  /\ delivered' = IF got' = got THEN delivered
                  ELSE [delivered EXCEPT ![clientConns[FirstId]] =
                          Append(@, Head(back).of)]
  /\ UNCHANGED server

\* sendToClient for a command, or for an id out of range.  Only DISCONNECT has
\* an effect.
ReadCommand ==
  /\ back # <<>>
  /\ FirstId \notin Ids
  /\ \/ FirstId = 0 /\ \E id \in Ids : DoBackendCommand(id)
     \/ Running /\ backend = "up" /\ UNCHANGED vars
  /\ back' = Tail(back)
  /\ UNCHANGED <<server, delivered>>

SystemNext == ServerStep \/ MultiplexerStep \/ ReadAnswer \/ ReadCommand

SystemSpec == SystemInit /\ [][SystemNext]_systemVars

-----------------------------------------------------------------------------
\* The two together are what MuxBackend says of a backend server behind any
\* multiplexer that keeps the promise of MuxLease.
ImplementsBackend == Server!BackendSpec
=============================================================================
