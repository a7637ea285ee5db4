------------------------------- MODULE TcpRelay -------------------------------
(***************************************************************************)
(* src/muduo-based/socks4a/tcprelay.cc and tunnel.h: one accepted           *)
(* connection, the connection to the server made for it, and the Tunnel     *)
(* that ties them.  Connections share nothing but g_tunnels, in which each  *)
(* has its own entry; one event loop runs everything.                       *)
(*                                                                          *)
(* Streams are cut into chunks numbered from 1.  A chunk read on one end is *)
(* in its input buffer until it is sent on the other; a chunk sent is in    *)
(* the output buffer until the kernel takes it.                             *)
(***************************************************************************)
EXTENDS Integers, Sequences, MuduoConn

CONSTANTS
  HighWater,  \* the high-water mark of the output buffers, in chunks
  MaxChunks,  \* bound: chunks a peer sends
  MaxRead     \* bound: chunks read at a time

ASSUME TcpRelayAssumption ==
  /\ HighWater \in Nat \ {0}
  /\ MaxChunks \in Nat
  /\ MaxRead \in Nat \ {0}

\* serverConn_, and the connection of client_.
End == {"server", "client"}
Other(e) == IF e = "server" THEN "client" ELSE "server"

VARIABLES
  state,    \* state[e]: of the connection; "accepted" is a connect under way
  read,     \* read[e]: how many chunks e has received
  input,    \* input[e]: the chunks in e's input buffer
  sent,     \* sent[e]: the chunks e has taken to send
  written,  \* written[e]: how many of them the kernel has
  context,  \* does the context of serverConn_ hold the client connection
  owners,   \* what keeps the Tunnel alive: g_tunnels, the callbacks of client_
  alarms,   \* high-water mark callbacks queued in the loop
  late      \* was the connect done when the accepted connection had gone

vars == <<state, read, input, sent, written, context, owners, alarms, late>>

Chunks == 1..MaxChunks

TypeOK ==
  /\ state \in [End -> ConnStates]
  /\ state["server"] = "absent" <=> state["client"] = "absent"
  /\ read \in [End -> 0..MaxChunks]
  /\ input \in [End -> Seq(Chunks)]
  /\ sent \in [End -> Seq(Chunks)]
  /\ written \in [End -> Nat]
  /\ \A e \in End : written[e] \in 0..Len(sent[e])
  /\ context \in BOOLEAN
  /\ owners \in SUBSET {"g_tunnels", "callbacks"}
  /\ alarms \in Nat
  /\ late \in BOOLEAN

Init ==
  /\ state = [e \in End |-> "absent"]
  /\ read = [e \in End |-> 0]
  /\ input = [e \in End |-> <<>>]
  /\ sent = [e \in End |-> <<>>]
  /\ written = [e \in End |-> 0]
  /\ context = FALSE
  /\ owners = {}
  /\ alarms = 0
  /\ late = FALSE

-----------------------------------------------------------------------------
\* TcpConnection::send(Buffer*) on end e of what is in buf, the input buffer
\* of the other end: the kernel takes some of it at once if nothing waits, and
\* the rest is queued; a connection that cannot send leaves buf as it is.
Unsent(e) == Len(sent[e]) - written[e]

Taken(e, n) == IF Unsent(e) = 0 THEN 0..n ELSE {0}

Send(e, buf) ==
  /\ sent' = [sent EXCEPT ![e] = @ \o buf]
  /\ input' = [input EXCEPT ![Other(e)] = <<>>]
  /\ \E k \in Taken(e, Len(buf)) :
       LET waiting == Unsent(e) + Len(buf) - k
       IN  /\ written' = [written EXCEPT ![e] = @ + k]
           /\ alarms' = IF Unsent(e) < HighWater /\ HighWater <= waiting
                        THEN alarms + 1 ELSE alarms

Keep(e, buf) ==
  /\ input' = [input EXCEPT ![Other(e)] = buf]
  /\ UNCHANGED <<sent, written, alarms>>

\* The input buffer of e with k more chunks from its peer.
Receive(e, k) ==
  /\ Readable(state[e])
  /\ read[e] + k <= MaxChunks
  /\ read' = [read EXCEPT ![e] = @ + k]

Buffered(e, k) == input[e] \o [i \in 1..k |-> read[e] + i]

\* The kernel takes k more chunks of e's output buffer.
HandleWrite(e, k) ==
  /\ Readable(state[e])
  /\ k <= Unsent(e)
  /\ written' = [written EXCEPT ![e] = @ + k]
  /\ UNCHANGED <<state, read, input, sent, context, owners, alarms, late>>

-----------------------------------------------------------------------------
\* Tunnel::setup binds the callbacks of client_ to shared_from_this(), and
\* nothing resets them.
SetUp == {"g_tunnels", "callbacks"}

\* Tunnel::connect.
Connecting == "accepted"

\* Tunnel::disconnect calls shutdown() on a connection that is up; a connect
\* under way goes on.  What is in the output buffer is still written, and the
\* end of the stream is sent only behind it: see HalfClosed.
NotDisconnected == state["client"]
Disconnected == AfterShutdown(state["client"])

\* Tunnel::tearDown does the same to the accepted connection.
LeftOpen == state["server"]
TornDown == AfterShutdown(state["server"])

\* shutdownInLoop: the peer is sent the end of the stream when shutdown() was
\* called and nothing is left in the output buffer.
HalfClosed(e) == state[e] = "disconnecting" /\ Unsent(e) = 0

\* What onClientConnection sends first: what came before there was a server.
NothingLeft == <<>>
LeftInBuffer == input["server"]

\* tcprelay.cc, onServerConnection: up.
OnServerUp ==
  /\ state["server"] = "absent"
  /\ state' = [server |-> "connected", client |-> Connecting]
  /\ owners' = SetUp
  /\ UNCHANGED <<read, input, sent, written, context, alarms, late>>

\* onServerConnection: down.
OnServerDown ==
  /\ Readable(state["server"])
  /\ state' = [server |-> "disconnected", client |-> Disconnected]
  /\ owners' = owners \ {"g_tunnels"}
  /\ UNCHANGED <<read, input, sent, written, context, alarms, late>>

\* onServerMessage.
OnServerMessage(k) ==
  /\ Receive("server", k)
  /\ \/ /\ context /\ Sendable(state["client"])
        /\ Send("client", Buffered("server", k))
     \/ /\ ~(context /\ Sendable(state["client"]))
        /\ Keep("client", Buffered("server", k))
  /\ UNCHANGED <<state, context, owners, late>>

\* Tunnel::onClientConnection: up.  The accepted connection may be gone.
OnClientUp ==
  /\ state["client"] = "accepted"
  /\ state' = [state EXCEPT !["client"] = "connected"]
  /\ context' = TRUE
  /\ Send("client", LeftInBuffer)
  /\ late' = (state["server"] = "disconnected")
  /\ UNCHANGED <<read, owners>>

\* Tunnel::onClientConnection: down.
OnClientDown ==
  /\ Readable(state["client"])
  /\ state' = [server |-> TornDown, client |-> "disconnected"]
  /\ context' = FALSE
  /\ UNCHANGED <<read, input, sent, written, owners, alarms, late>>

\* Tunnel::onClientMessage; serverConn_ is never reset.
OnClientMessage(k) ==
  /\ Receive("client", k)
  /\ \/ /\ Sendable(state["server"])
        /\ Send("server", Buffered("client", k))
     \/ /\ ~Sendable(state["server"])
        /\ Keep("server", Buffered("client", k))
  /\ UNCHANGED <<state, context, owners, late>>

\* onHighWaterMarkWeak, of either connection.
OnHighWaterMark ==
  /\ alarms > 0
  /\ alarms' = alarms - 1
  /\ state' = IF owners = {} THEN state
              ELSE [state EXCEPT !["client"] = Disconnected]
  /\ UNCHANGED <<read, input, sent, written, context, owners, late>>

Next ==
  \/ OnServerUp
  \/ OnServerDown
  \/ OnClientUp
  \/ OnClientDown
  \/ \E k \in 1..MaxRead : OnServerMessage(k) \/ OnClientMessage(k)
  \/ OnHighWaterMark
  \/ \E e \in End, k \in 1..MaxChunks : HandleWrite(e, k)

\* The loop runs the functors queued in it.
Fairness == WF_vars(OnHighWaterMark)

Spec == Init /\ [][Next]_vars
FairSpec == Spec /\ Fairness

-----------------------------------------------------------------------------
(* Properties. *)

\* In both directions what was read on one end is, in its order, what was
\* sent on the other followed by what waits in the input buffer; and while
\* both connections are up nothing waits there.
StreamsIntact ==
  /\ TypeOK
  /\ \A e \in End :
       /\ sent[Other(e)] \o input[e] = [i \in 1..read[e] |-> i]
       /\ (\A d \in End : Sendable(state[d])) => input[e] = <<>>

\* Neither connection is left able to send alone, with one exception: a
\* connect that was under way when the accepted connection closed is not
\* called off.  And
\* the context refers to the server's connection for exactly as long as it
\* is there.
EndsTogether ==
  /\ state["client"] = "disconnected" => ~Sendable(state["server"])
  /\ state["server"] = "disconnected" => ~Sendable(state["client"]) \/ late
  /\ context <=> Readable(state["client"])

\* A tunnel one of whose output buffers has reached its high-water mark comes
\* to an end: both connections go, as soon as the peers let them.  Nothing
\* closes while a peer does not read: it sees the end of the stream only
\* behind what waits for it.  So each peer is assumed to read again, or to go
\* away, and to close when it sees the end of the stream.
PeersRead == \A e \in End : []<>(Unsent(e) = 0 \/ state[e] = "disconnected")
PeersClose == \A e \in End : HalfClosed(e) ~> state[e] = "disconnected"

OverflowEndsTunnel ==
  PeersRead /\ PeersClose =>
    \A e \in End :
      Unsent(e) >= HighWater ~> \A d \in End : state[d] = "disconnected"
=============================================================================
