------------------------------ MODULE MuxBackend ------------------------------
(***************************************************************************)
(* src/muduo-based/simple/multiplexer/backend_server.cc behind a            *)
(* multiplexer: the backend answers every packet it reads, with the id it   *)
(* reads in the header, and sends commands its operator types.  Of the      *)
(* multiplexer this module uses the promise, MuxLease; of the bytes, the    *)
(* two that carry the id and where the network cuts the stream; of a second *)
(* multiplexer, that it may connect and go.  MultiplexerSystem and          *)
(* MultiplexerMultiSystem put each of the two multiplexers in the place of  *)
(* the promise, and implement this module.                                  *)
(***************************************************************************)
EXTENDS MuxLease

CONSTANTS
  ByteValues,   \* how many values a byte has: 256
  MaxWire,      \* bound: packets handed to the backend link
  MaxCommands   \* bound: lines typed at the backend

VARIABLES
  opened,      \* has the TcpClient connected; it does not retry
  connection,  \* the backend's side of the link
  other,       \* a connection of another multiplexer, or of one restarted
  registered,  \* which of the two connection_ points to, "null" when reset
  aborted,     \* has a failed assert ended the backend
  answered,    \* how many packets of wire the backend has answered
  typed,       \* how many commands were typed
  pending,     \* commands whose send is queued in the backend's loop
  back,        \* frames sent to the multiplexer and not read there
  delivered    \* delivered[c]: which packets c was handed answers to

links == <<connection, other, registered>>
backendVars == <<opened, links, aborted, answered, typed, pending, back, delivered>>

\* A frame on its way to the multiplexer: the two id bytes of its header and
\* the packet it answers, 0 for a command.
Byte == 0 .. ByteValues - 1
Frame == [header : Byte \X Byte, of : Nat]

BackendTypeOK ==
  /\ TypeOK
  /\ opened \in BOOLEAN
  /\ connection \in {"none", "up", "down"}
  /\ other \in {"none", "up", "down"}
  /\ registered \in {"null", "link", "other"}
  /\ aborted \in BOOLEAN
  /\ answered \in 0..Len(wire)
  /\ typed \in 0..MaxCommands
  /\ pending \in 0..MaxCommands
  /\ back \in Seq(Frame)
  /\ delivered \in [Conn -> Seq(1..Len(wire))]

BackendInit ==
  /\ Init
  /\ opened = FALSE
  /\ connection = "none"
  /\ other = "none"
  /\ registered = "null"
  /\ aborted = FALSE
  /\ answered = 0
  /\ typed = 0
  /\ pending = 0
  /\ back = <<>>
  /\ delivered = [c \in Conn |-> <<>>]

-----------------------------------------------------------------------------
\* The two id bytes of a header, written alike by both servers, and the id the
\* multiplexer reads.
Header(id) == <<id % ByteValues, (id \div ByteValues) % ByteValues>>
MuxId(header) == header[1] + header[2] * ByteValues

\* The backend casts the shifted second byte to a byte again.
BackendId(header) == header[1] + ((header[2] * ByteValues) % ByteValues)

\* The backend's answer to packet i.  The header is read before the packet is
\* retrieved; read after it, it would be that of the next packet.
AnswerToNext(i) ==
  [header |-> Header(BackendId(Header(wire[IF i < Len(wire) THEN i + 1 ELSE i].id))),
   of |-> i]
Answer(i) == [header |-> Header(BackendId(Header(wire[i].id))), of |-> i]

\* What onMessage sends for a buffer that holds the packets up to k.
Answers(k) == [i \in 1 .. k - answered |-> Answer(answered + i)]

Command == [header |-> Header(0), of |-> 0]

\* connection_ after the callback of a connection that went down.
NotReset == registered
Reset == "null"

Running == ~aborted /\ connection = "up"

-----------------------------------------------------------------------------
(* The backend. *)

\* onConnection, connection up: the newest connection is the one commands go to.
OnConnectionUp ==
  /\ ~aborted
  /\ \/ /\ connection = "none"
        /\ connection' = "up"
        /\ registered' = "link"
        /\ UNCHANGED other
     \/ /\ other = "none"
        /\ other' = "up"
        /\ registered' = "other"
        /\ UNCHANGED connection
  /\ UNCHANGED <<vars, opened, aborted, answered, typed, pending, back, delivered>>

\* onConnection, connection down: connection_ is reset, whichever it was.
OnConnectionDown ==
  /\ ~aborted
  /\ \/ /\ connection = "up"
        /\ connection' = "down"
        /\ UNCHANGED other
     \/ /\ other = "up"
        /\ other' = "down"
        /\ UNCHANGED connection
  /\ registered' = Reset
  /\ UNCHANGED <<vars, opened, aborted, answered, typed, pending, back, delivered>>

\* The buffer ends between two packets, or inside a header: the loop waits.
OnMessage(k) ==
  /\ Running
  /\ answered < k
  /\ answered' = k
  /\ back' = back \o Answers(k)
  /\ UNCHANGED <<vars, opened, links, aborted, typed, pending, delivered>>

\* The buffer ends after the header of packet k + 1 and inside its content:
\* retrieve() is called for more than there is, and its assert fails.
OnCutMessage(k) ==
  /\ Running
  /\ answered <= k /\ k < Len(wire)
  /\ answered' = k
  /\ back' = back \o Answers(k)
  /\ aborted' = TRUE
  /\ UNCHANGED <<vars, opened, links, typed, pending, delivered>>

\* addCommand, in the main thread, queues a send in the loop's thread; those to
\* the other connection are not followed further.
AddCommand ==
  /\ ~aborted
  /\ typed < MaxCommands
  /\ typed' = typed + 1
  /\ pending' = IF registered = "link" THEN pending + 1 ELSE pending
  /\ UNCHANGED <<vars, opened, links, aborted, answered, back, delivered>>

RunCommand ==
  /\ ~aborted
  /\ pending > 0
  /\ pending' = pending - 1
  /\ back' = IF connection = "up" THEN Append(back, Command) ELSE back
  /\ UNCHANGED <<vars, opened, links, aborted, answered, typed, delivered>>

-----------------------------------------------------------------------------
(* The multiplexer. *)

OpenOnce ==
  /\ ~opened
  /\ Open
  /\ opened' = TRUE
  /\ UNCHANGED <<links, aborted, answered, typed, pending, back, delivered>>

LeaseStep ==
  /\ \/ Close
     \/ \E c \in Conn :
          \/ \E id \in Ids : Acquire(c, id)
          \/ Release(c)
          \/ \E k \in 1..MaxBurst :
               Len(wire) + k <= MaxWire /\ Transmit(c, k)
  /\ UNCHANGED backendVars

\* sendToClient hands the content of the next frame to the client that holds
\* its id.
HandDown(c) ==
  /\ open
  /\ back # <<>>
  /\ MuxId(Head(back).header) = tag[c]
  /\ Deliver(c)
  /\ back' = Tail(back)
  /\ delivered' = [delivered EXCEPT ![c] = Append(@, Head(back).of)]
  /\ UNCHANGED <<opened, links, aborted, answered, typed, pending>>

\* A frame for nobody, for a client that has been shut down, or a command,
\* which shuts one down at most.
Consume ==
  /\ open
  /\ back # <<>>
  /\ back' = Tail(back)
  /\ UNCHANGED <<vars, opened, links, aborted, answered, typed, pending,
                 delivered>>

BackendNext ==
  \/ OnConnectionUp
  \/ OnConnectionDown
  \/ \E k \in 0..Len(wire) : OnMessage(k) \/ OnCutMessage(k)
  \/ AddCommand
  \/ RunCommand
  \/ OpenOnce
  \/ LeaseStep
  \/ \E c \in Conn : HandDown(c)
  \/ Consume

BackendSpec == BackendInit /\ [][BackendNext]_<<vars, backendVars>>

-----------------------------------------------------------------------------
\* A client is handed an answer only to a packet that carried its id, so the id
\* comes through unharmed; it is handed each answer once, and in the order of
\* the packets.
AnswersInOrder ==
  /\ BackendTypeOK
  /\ \A c \in Conn : \A i, j \in 1..Len(delivered[c]) :
       /\ wire[delivered[c][i]].id = tag[c]
       /\ i < j => delivered[c][i] < delivered[c][j]

\* A client may be handed answers meant for the one that had its id before;
\* after the first answer of its own there are no more of them.
PredecessorsFirst ==
  \A c \in Conn : \A i, j \in 1..Len(delivered[c]) :
    i < j /\ wire[delivered[c][i]].from = c => wire[delivered[c][j]].from = c

\* Commands go to a connection that is open, and are dropped while one is open
\* only because another one has closed in the meantime.
ConsoleHasALink ==
  /\ registered = "link" => connection = "up"
  /\ registered = "other" => other = "up"
  /\ registered = "null" =>
       /\ connection = "up" => other = "down"
       /\ other = "up" => connection = "down"
=============================================================================
