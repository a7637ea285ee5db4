---------------------------- MODULE TransferProofs ----------------------------
(***************************************************************************)
(* The two programs that move a stream of bytes through muduo's buffers,    *)
(* each for itself.  The TCP relay, for any high-water mark and streams of  *)
(* any length: what is read on one end is sent on the other, and the two    *)
(* ends end together.  The file server, for any file and any size of its    *)
(* buffer.                                                                  *)
(***************************************************************************)
EXTENDS TcpRelay, Download, SequenceTheorems, TLAPS

\* Until the connect completes nothing has been read from the server; only
\* then may the accepted connection's buffer be the only one to be sent.
NothingReadYet ==
  state["client"] \in {"absent", "accepted"} => input["client"] = <<>>

\* StreamsIntact, in two parts.
Numbers(n) == [i \in 1..n |-> i]
Streams == \A e \in End : sent[Other(e)] \o input[e] = Numbers(read[e])
NothingWaits ==
  (\A d \in End : Sendable(state[d])) => \A e \in End : input[e] = <<>>

IInv == TypeOK /\ Streams /\ NothingWaits /\ EndsTogether /\ NothingReadYet

LEMMA Ends == /\ "server" \in End /\ "client" \in End
              /\ Other("server") = "client" /\ Other("client") = "server"
              /\ \A e \in End : e = "server" \/ e = "client"
BY DEF End, Other

-----------------------------------------------------------------------------
(* Numbered chunks. *)

LEMMA NumbersAreChunks ==
  ASSUME NEW n \in 0..MaxChunks
  PROVE  Numbers(n) \in Seq(Chunks) /\ Len(Numbers(n)) = n
BY TcpRelayAssumption DEF Numbers, Chunks

\* What is buffered after a read of k chunks.
LEMMA BufferedTypes ==
  ASSUME TypeOK, NEW e \in End, NEW k \in 1..MaxRead, read[e] + k <= MaxChunks
  PROVE  Buffered(e, k) \in Seq(Chunks)
<1>1. input[e] \in Seq(Chunks) /\ read[e] \in Nat
  BY TcpRelayAssumption DEF TypeOK
<1>2. [i \in 1..k |-> read[e] + i] \in Seq(Chunks)
  BY <1>1, TcpRelayAssumption DEF Chunks
<1>3. QED
  BY <1>1, <1>2 DEF Buffered

LEMMA BufferedFollows ==
  ASSUME TypeOK, NEW e \in End, NEW k \in 1..MaxRead, read[e] + k <= MaxChunks,
         sent[Other(e)] \o input[e] = Numbers(read[e])
  PROVE  sent[Other(e)] \o Buffered(e, k) = Numbers(read[e] + k)
<1> DEFINE s == sent[Other(e)]
           b == input[e]
           r == read[e]
           new == [i \in 1..k |-> r + i]
<1>1. s \in Seq(Chunks) /\ b \in Seq(Chunks) /\ r \in Nat /\ k \in Nat
  BY TcpRelayAssumption DEF TypeOK, End, Other
<1>2. new \in Seq(Chunks) /\ Len(new) = k /\ \A i \in 1..k : new[i] = r + i
  <2>1. \A i \in 1..k : r + i \in Chunks
    BY <1>1, TcpRelayAssumption DEF Chunks
  <2>2. new \in [1..k -> Chunks] /\ \A i \in 1..k : new[i] = r + i
    BY <2>1
  <2>3. QED
    BY <1>1, <2>2
<1>3. s \o Buffered(e, k) = (s \o b) \o new
  <2> HIDE DEF new, s, b
  <2>1. \A x, y, z \in Seq(Chunks) : (x \o y) \o z = x \o (y \o z)
    BY ConcatAssociative
  <2>2. s \o (b \o new) = (s \o b) \o new
    BY <1>1, <1>2, <2>1
  <2>3. QED
    BY <2>2 DEF Buffered, new, s, b
<1>4. s \o b = Numbers(r) /\ r \in 0..MaxChunks /\ r + k \in 0..MaxChunks
  BY <1>1, TcpRelayAssumption
<1> DEFINE old == Numbers(r)
<1> HIDE DEF s, b, r, new
<1>5. /\ old \in Seq(Chunks) /\ Len(old) = r
      /\ Numbers(r + k) \in Seq(Chunks) /\ Len(Numbers(r + k)) = r + k
  BY <1>4, NumbersAreChunks
<1>6. /\ old \o new \in Seq(Chunks)
      /\ Len(old \o new) = r + k
      /\ \A i \in 1..r + k :
           (old \o new)[i] = IF i <= r THEN old[i] ELSE new[i - r]
  <2> HIDE DEF old
  <2>1. QED
    BY <1>1, <1>2, <1>5, ConcatProperties
<1>7. ASSUME NEW i \in 1..r + k
      PROVE  (old \o new)[i] = Numbers(r + k)[i]
  <2>1. CASE i <= r
    BY <1>1, <1>6, <2>1 DEF Numbers
  <2>2. CASE ~(i <= r)
    <3>1. i - r \in 1..k /\ r + (i - r) = i
      BY <1>1, <2>2
    <3>2. QED
      BY <1>2, <1>6, <2>2, <3>1 DEF Numbers
  <2>3. QED
    BY <2>1, <2>2
<1>8. old \o new = Numbers(r + k)
  <2> HIDE DEF old
  <2>1. QED
    BY <1>1, <1>5, <1>6, <1>7, SeqEqual
<1>9. QED
  BY <1>3, <1>4, <1>8 DEF s, r

-----------------------------------------------------------------------------
(* What send does to the streams. *)

\* Send(e, buf) with all that was read on the other end before it.
LEMMA SendTypes ==
  ASSUME TypeOK, NEW e \in End, NEW buf \in Seq(Chunks), Send(e, buf)
  PROVE  /\ sent' \in [End -> Seq(Chunks)] /\ input' \in [End -> Seq(Chunks)]
         /\ written' \in [End -> Nat] /\ alarms' \in Nat
         /\ \A d \in End : written'[d] \in 0..Len(sent'[d])
         /\ sent'[e] = sent[e] \o buf /\ input'[Other(e)] = <<>>
         /\ sent'[Other(e)] = sent[Other(e)] /\ input'[e] = input[e]
<1>0. /\ sent \in [End -> Seq(Chunks)] /\ input \in [End -> Seq(Chunks)]
      /\ \A d \in End : written[d] \in 0..Len(sent[d])
      /\ written \in [End -> Nat] /\ alarms \in Nat
  BY DEF TypeOK
<1>1. /\ sent[e] \o buf \in Seq(Chunks)
      /\ Len(sent[e] \o buf) = Len(sent[e]) + Len(buf)
      /\ Len(sent[e]) \in Nat /\ Len(buf) \in Nat
  BY <1>0, ConcatProperties
<1>2. /\ sent' = [sent EXCEPT ![e] = @ \o buf]
      /\ input' = [input EXCEPT ![Other(e)] = <<>>]
  BY DEF Send
<1>3. Other(e) \in End /\ Other(e) # e
  BY DEF End, Other
<1>4. PICK k \in Taken(e, Len(buf)) :
        /\ written' = [written EXCEPT ![e] = @ + k]
        /\ alarms' \in {alarms, alarms + 1}
  BY DEF Send
<1>5. k \in 0..Len(buf)
  BY <1>1, <1>4 DEF Taken
<1>6. /\ sent' \in [End -> Seq(Chunks)] /\ input' \in [End -> Seq(Chunks)]
      /\ sent'[e] = sent[e] \o buf /\ input'[Other(e)] = <<>>
      /\ sent'[Other(e)] = sent[Other(e)] /\ input'[e] = input[e]
      /\ \A d \in End : d # e => sent'[d] = sent[d]
  BY <1>0, <1>1, <1>2, <1>3
<1>7. ASSUME NEW d \in End
      PROVE  written'[d] \in 0..Len(sent'[d])
  <2>1. CASE d = e
    <3>1. written[e] \in 0..Len(sent[e])
      BY <1>0
    <3>2. written'[e] = written[e] + k
      BY <1>0, <1>4
    <3>3. QED
      BY <1>1, <1>5, <1>6, <2>1, <3>1, <3>2
  <2>2. CASE d # e
    BY <1>0, <1>4, <1>6, <2>2
  <2>3. QED
    BY <2>1, <2>2
<1>8. written' \in [End -> Nat]
  BY <1>0, <1>1, <1>4, <1>5
<1>9. QED
  BY <1>0, <1>4, <1>6, <1>7, <1>8

\* Chunks read on one end and sent on the other: both streams stay whole.
LEMMA SendKeepsStreams ==
  ASSUME TypeOK, NEW e \in End, NEW buf \in Seq(Chunks), Send(e, buf),
         sent[Other(e)] \o input[e] = Numbers(read[e]), read'[e] = read[e],
         sent[e] \o buf = Numbers(read'[Other(e)])
  PROVE  \A d \in End : sent'[Other(d)] \o input'[d] = Numbers(read'[d])
<1>1. /\ sent'[e] = sent[e] \o buf /\ input'[Other(e)] = <<>>
      /\ sent'[Other(e)] = sent[Other(e)] /\ input'[e] = input[e]
      /\ sent'[e] \in Seq(Chunks)
  BY SendTypes
<1>2. Other(Other(e)) = e /\ \A d \in End : d = e \/ d = Other(e)
  BY DEF End, Other
<1>3. sent'[e] \o <<>> = sent'[e]
  BY <1>1, ConcatEmptySeq
<1>4. QED
  BY <1>1, <1>2, <1>3

-----------------------------------------------------------------------------
(* The steps. *)

LEMMA InitIInv == Init => IInv
<1> SUFFICES ASSUME Init PROVE IInv
  OBVIOUS
<1>1. TypeOK
  <2>1. /\ state \in [End -> ConnStates] /\ \A e \in End : state[e] = "absent"
        /\ read \in [End -> 0..MaxChunks] /\ written \in [End -> Nat]
    BY TcpRelayAssumption DEF Init, ConnStates
  <2>2. /\ input \in [End -> Seq(Chunks)] /\ sent \in [End -> Seq(Chunks)]
        /\ \A e \in End : sent[e] = <<>> /\ written[e] = 0
    BY DEF Init
  <2>3. \A e \in End : written[e] \in 0..Len(sent[e])
    BY <2>2
  <2>4. context \in BOOLEAN /\ owners = {} /\ alarms \in Nat /\ late \in BOOLEAN
    BY DEF Init
  <2>5. QED
    BY <2>1, <2>2, <2>3, <2>4, Ends DEF TypeOK
<1>2. EndsTogether /\ NothingReadYet /\ NothingWaits
  BY DEF Init, EndsTogether, NothingReadYet, NothingWaits, Readable, Sendable, End
<1>3. Streams
  BY Ends DEF Init, Streams, Numbers
<1>4. QED
  BY <1>1, <1>2, <1>3 DEF IInv

\* Steps that only change what the connections are.
LEMMA StateKeeps ==
  ASSUME IInv, TypeOK', UNCHANGED <<read, input, sent>>,
         EndsTogether', NothingReadYet',
         \A e \in End : Sendable(state'[e]) => Sendable(state[e]) \/ ~Sendable(state'[Other(e)])
  PROVE  IInv'
<1>1. Streams'
  BY DEF IInv, Streams, Numbers
<1>2. NothingWaits'
  BY Ends DEF IInv, NothingWaits, Other, Sendable
<1>3. QED
  BY <1>1, <1>2 DEF IInv

LEMMA OnServerUpKeeps == ASSUME IInv, OnServerUp PROVE IInv'
<1>0. TypeOK /\ EndsTogether /\ NothingReadYet
  BY DEF IInv
<1>1. /\ state["server"] = "absent" /\ state["client"] = "absent"
      /\ state' = [server |-> "connected", client |-> "accepted"]
      /\ owners' = {"g_tunnels", "callbacks"}
      /\ UNCHANGED <<read, input, sent, written, context, alarms, late>>
  BY <1>0 DEF OnServerUp, Connecting, SetUp, TypeOK
<1>2. TypeOK'
  BY <1>0, <1>1 DEF TypeOK, ConnStates, End
<1>3. EndsTogether' /\ NothingReadYet'
  BY <1>0, <1>1 DEF EndsTogether, NothingReadYet, Sendable, Readable
<1>4. QED
  BY <1>1, <1>2, <1>3, StateKeeps DEF Sendable, Other, End

LEMMA OnServerDownKeeps == ASSUME IInv, OnServerDown PROVE IInv'
<1>0. TypeOK /\ EndsTogether /\ NothingReadYet
  BY DEF IInv
<1>1. /\ state["server"] \in {"connected", "disconnecting"}
      /\ state' = [server |-> "disconnected", client |-> AfterShutdown(state["client"])]
      /\ owners' = owners \ {"g_tunnels"}
      /\ UNCHANGED <<read, input, sent, written, context, alarms, late>>
  BY DEF OnServerDown, Disconnected, Readable
<1>2. TypeOK'
  <2>1. state' \in [End -> ConnStates]
    BY <1>0, <1>1 DEF TypeOK, ConnStates, End, AfterShutdown
  <2>2. state'["server"] # "absent" /\ state'["client"] # "absent"
    BY <1>0, <1>1 DEF TypeOK, AfterShutdown
  <2>3. QED
    BY <1>0, <1>1, <2>1, <2>2 DEF TypeOK
<1>3. EndsTogether' /\ NothingReadYet'
  BY <1>0, <1>1 DEF EndsTogether, NothingReadYet, Sendable, Readable, AfterShutdown
<1>4. QED
  BY <1>1, <1>2, <1>3, StateKeeps DEF Sendable, Other, End, AfterShutdown

LEMMA OnClientDownKeeps == ASSUME IInv, OnClientDown PROVE IInv'
<1>0. TypeOK /\ EndsTogether /\ NothingReadYet
  BY DEF IInv
<1>1. /\ state["client"] \in {"connected", "disconnecting"}
      /\ state' = [server |-> AfterShutdown(state["server"]), client |-> "disconnected"]
      /\ context' = FALSE
      /\ UNCHANGED <<read, input, sent, written, owners, alarms, late>>
  BY DEF OnClientDown, TornDown, Readable
<1>2. TypeOK'
  <2>1. state' \in [End -> ConnStates]
    BY <1>0, <1>1 DEF TypeOK, ConnStates, End, AfterShutdown
  <2>2. state'["server"] # "absent" /\ state'["client"] # "absent"
    BY <1>0, <1>1 DEF TypeOK, AfterShutdown
  <2>3. QED
    BY <1>0, <1>1, <2>1, <2>2 DEF TypeOK
<1>3. EndsTogether' /\ NothingReadYet'
  BY <1>0, <1>1 DEF EndsTogether, NothingReadYet, Sendable, Readable, AfterShutdown
<1>4. QED
  BY <1>1, <1>2, <1>3, StateKeeps DEF Sendable, Other, End, AfterShutdown

LEMMA OnHighWaterMarkKeeps == ASSUME IInv, OnHighWaterMark PROVE IInv'
<1>0. TypeOK /\ EndsTogether /\ NothingReadYet
  BY DEF IInv
<1>1. /\ alarms > 0 /\ alarms' = alarms - 1
      /\ \/ state' = state
         \/ state' = [state EXCEPT !["client"] = AfterShutdown(state["client"])]
      /\ UNCHANGED <<read, input, sent, written, context, owners, late>>
  BY DEF OnHighWaterMark, Disconnected
<1>2. TypeOK'
  BY <1>0, <1>1 DEF TypeOK, ConnStates, End, AfterShutdown
<1>3. EndsTogether' /\ NothingReadYet'
  BY <1>0, <1>1
     DEF TypeOK, End, EndsTogether, NothingReadYet, Sendable, Readable, AfterShutdown
<1>4. QED
  BY <1>0, <1>1, <1>2, <1>3, StateKeeps DEF TypeOK, Sendable, Other, End, AfterShutdown

LEMMA HandleWriteKeeps ==
  ASSUME IInv, NEW e \in End, NEW k \in 1..MaxChunks, HandleWrite(e, k)
  PROVE  IInv'
<1>0. TypeOK /\ EndsTogether /\ NothingReadYet
  BY DEF IInv
<1>1. /\ k <= Len(sent[e]) - written[e] /\ written' = [written EXCEPT ![e] = @ + k]
      /\ UNCHANGED <<state, read, input, sent, context, owners, alarms, late>>
  BY DEF HandleWrite, Unsent
<1>2. \A d \in End : written'[d] \in 0..Len(sent'[d])
  <2>1. \A d \in End : written[d] \in 0..Len(sent[d]) /\ Len(sent[d]) \in Nat
    BY <1>0 DEF TypeOK
  <2>2. QED
    BY <1>0, <1>1, <2>1, TcpRelayAssumption DEF TypeOK
<1>3. written' \in [End -> Nat]
  BY <1>0, <1>1, TcpRelayAssumption DEF TypeOK
<1>4. TypeOK'
  BY <1>0, <1>1, <1>2, <1>3 DEF TypeOK
<1>5. EndsTogether' /\ NothingReadYet'
  BY <1>0, <1>1 DEF EndsTogether, NothingReadYet
<1>6. QED
  BY <1>1, <1>4, <1>5, StateKeeps

\* A message that is relayed, or kept because the other end cannot send.
LEMMA RelayKeeps ==
  ASSUME IInv, NEW e \in End, NEW k \in 1..MaxRead, Receive(e, k),
         UNCHANGED <<state, context, owners, late>>,
         \/ Send(Other(e), Buffered(e, k))
         \/ Keep(Other(e), Buffered(e, k)) /\ ~Sendable(state[Other(e)])
  PROVE  IInv'
<1>0. /\ TypeOK /\ Streams /\ NothingWaits /\ EndsTogether /\ NothingReadYet
      /\ read' = [read EXCEPT ![e] = @ + k] /\ read[e] + k <= MaxChunks
      /\ Readable(state[e]) /\ k \in Nat
  BY TcpRelayAssumption DEF IInv, Receive
<1>1. /\ Other(e) \in End /\ Other(Other(e)) = e /\ Other(e) # e
      /\ \A d \in End : d = e \/ d = Other(e)
  BY DEF End, Other
<1>2. /\ read' \in [End -> 0..MaxChunks]
      /\ read'[e] = read[e] + k /\ read'[Other(e)] = read[Other(e)]
  BY <1>0, <1>1, TcpRelayAssumption DEF TypeOK
<1>3. Buffered(e, k) \in Seq(Chunks)
  BY <1>0, BufferedTypes
<1>4. sent[Other(e)] \o Buffered(e, k) = Numbers(read[e] + k)
  BY <1>0, BufferedFollows DEF Streams
<1>5. EndsTogether'
  BY <1>0 DEF EndsTogether
<1>6. CASE Send(Other(e), Buffered(e, k))
  <2>1. /\ sent' \in [End -> Seq(Chunks)] /\ input' \in [End -> Seq(Chunks)]
        /\ written' \in [End -> Nat] /\ alarms' \in Nat
        /\ \A d \in End : written'[d] \in 0..Len(sent'[d])
        /\ input'[e] = <<>> /\ input'[Other(e)] = input[Other(e)]
    BY <1>0, <1>1, <1>3, <1>6, SendTypes
  <2>2. TypeOK'
    BY <1>0, <1>2, <2>1 DEF TypeOK
  <2>3. sent[e] \o input[Other(e)] = Numbers(read[Other(e)])
    BY <1>0, <1>1 DEF Streams
  <2>4. Streams'
    BY <1>0, <1>1, <1>2, <1>3, <1>4, <1>6, <2>3, SendKeepsStreams DEF Streams, Numbers
  <2>5. NothingWaits'
    BY <1>0, <1>1, <2>1 DEF NothingWaits
  <2>6. NothingReadYet'
    BY <1>0, <1>1, <2>1, Ends DEF NothingReadYet
  <2>7. QED
    BY <1>5, <2>2, <2>4, <2>5, <2>6 DEF IInv
<1>7. CASE Keep(Other(e), Buffered(e, k)) /\ ~Sendable(state[Other(e)])
  <2>1. /\ input' = [input EXCEPT ![e] = Buffered(e, k)]
        /\ UNCHANGED <<sent, written, alarms>>
    BY <1>1, <1>7 DEF Keep
  <2>2. /\ input' \in [End -> Seq(Chunks)]
        /\ input'[e] = Buffered(e, k) /\ input'[Other(e)] = input[Other(e)]
    BY <1>0, <1>1, <1>3, <2>1 DEF TypeOK
  <2>3. TypeOK'
    BY <1>0, <1>2, <2>1, <2>2 DEF TypeOK
  <2>4. sent[e] \o input[Other(e)] = Numbers(read[Other(e)])
    BY <1>0, <1>1 DEF Streams
  <2>5. ASSUME NEW d \in End
        PROVE  sent'[Other(d)] \o input'[d] = Numbers(read'[d])
    BY <1>1, <1>2, <1>4, <2>1, <2>2, <2>4
  <2>6. Streams'
    BY <2>5 DEF Streams, Numbers
  <2>7. NothingWaits'
    BY <1>0, <1>1, <1>7 DEF NothingWaits
  <2>8. NothingReadYet'
    <3>1. e = "client" => state["client"] \notin {"absent", "accepted"}
      BY <1>0 DEF Readable
    <3>2. e = "server" => input'["client"] = input["client"]
      BY <2>2, Ends
    <3>3. QED
      BY <1>0, <3>1, <3>2, Ends DEF NothingReadYet
  <2>9. QED
    BY <1>5, <2>3, <2>6, <2>7, <2>8 DEF IInv
<1>8. QED
  BY <1>6, <1>7

\* The context refers to the server's connection while that is there, so
\* onServerMessage finds it whenever it can send.
LEMMA OnMessageKeeps ==
  ASSUME IInv, NEW k \in 1..MaxRead, OnServerMessage(k) \/ OnClientMessage(k)
  PROVE  IInv'
<1>1. EndsTogether
  BY DEF IInv
<1>2. CASE OnServerMessage(k)
  BY <1>1, <1>2, RelayKeeps, Ends
     DEF OnServerMessage, EndsTogether, Sendable, Readable
<1>3. CASE OnClientMessage(k)
  BY <1>3, RelayKeeps, Ends DEF OnClientMessage
<1>4. QED
  BY <1>2, <1>3

\* The connect completes: what the client has sent meanwhile goes first.
LEMMA OnClientUpKeeps == ASSUME IInv, OnClientUp PROVE IInv'
<1>0. /\ TypeOK /\ Streams /\ EndsTogether /\ NothingReadYet
      /\ state["client"] = "accepted" /\ state["server"] # "absent"
      /\ state' = [state EXCEPT !["client"] = "connected"]
      /\ context' = TRUE /\ late' = (state["server"] = "disconnected")
      /\ Send("client", input["server"])
      /\ UNCHANGED <<read, owners>>
  BY DEF IInv, OnClientUp, LeftInBuffer, TypeOK
<1>1. state'["client"] = "connected" /\ state'["server"] = state["server"]
  BY <1>0, Ends DEF TypeOK
<1>2. input["server"] \in Seq(Chunks) /\ input["client"] = <<>>
  BY <1>0, Ends DEF TypeOK, NothingReadYet
<1>3. /\ sent' \in [End -> Seq(Chunks)] /\ input' \in [End -> Seq(Chunks)]
      /\ written' \in [End -> Nat] /\ alarms' \in Nat
      /\ \A d \in End : written'[d] \in 0..Len(sent'[d])
      /\ input'["server"] = <<>> /\ input'["client"] = <<>>
  BY <1>0, <1>2, Ends, SendTypes
<1>4. TypeOK'
  BY <1>0, <1>1, <1>3 DEF TypeOK, ConnStates
<1>5. /\ sent["server"] \o input["client"] = Numbers(read["client"])
      /\ sent["client"] \o input["server"] = Numbers(read["server"])
  BY <1>0, Ends DEF Streams
<1>6. Streams'
  <2>1. \A d \in End : sent'[Other(d)] \o input'[d] = Numbers(read'[d])
    BY <1>0, <1>2, <1>5, Ends, SendKeepsStreams
  <2>2. QED
    BY <2>1 DEF Streams, Numbers
<1>7. NothingWaits'
  BY <1>3, Ends DEF NothingWaits
<1>8. EndsTogether' /\ NothingReadYet'
  BY <1>0, <1>1 DEF EndsTogether, NothingReadYet, Sendable, Readable
<1>9. QED
  BY <1>4, <1>6, <1>7, <1>8 DEF IInv

LEMMA NextKeeps == IInv /\ [Next]_vars => IInv'
<1> SUFFICES ASSUME IInv, [Next]_vars PROVE IInv'
  OBVIOUS
<1>1. CASE UNCHANGED vars
  <2>1. TypeOK' /\ EndsTogether' /\ NothingReadYet'
    BY <1>1 DEF IInv, vars, TypeOK, EndsTogether, NothingReadYet
  <2>2. QED
    BY <1>1, <2>1, StateKeeps DEF vars
<1>2. CASE Next
  BY <1>2, OnServerUpKeeps, OnServerDownKeeps, OnClientUpKeeps, OnClientDownKeeps,
     OnMessageKeeps, OnHighWaterMarkKeeps, HandleWriteKeeps DEF Next
<1>3. QED
  BY <1>1, <1>2

\* IInv holds throughout, for streams of any length and any high-water mark.
THEOREM Invariance == Spec => []IInv
<1>1. Init => IInv
  BY InitIInv
<1>2. IInv /\ [Next]_vars => IInv'
  BY NextKeeps
<1>3. QED
  BY <1>1, <1>2, PTL DEF Spec

\* In both directions the relay loses, repeats and reorders nothing.
THEOREM NothingLostOrReordered == Spec => []StreamsIntact
<1>1. IInv => StreamsIntact
  BY DEF IInv, StreamsIntact, Streams, NothingWaits, Numbers
<1>2. QED
  BY <1>1, Invariance, PTL

\* Neither connection is left open alone, but for the connect that was under
\* way.
THEOREM NoEndLeftAlone == Spec => []EndsTogether
<1>1. IInv => EndsTogether
  BY DEF IInv
<1>2. QED
  BY <1>1, Invariance, PTL

-----------------------------------------------------------------------------
(* The file server. *)

\* The two properties hold each other up: a shutdown comes after the whole
\* file because a callback only runs when nothing is unsent, and there is one
\* callback because each comes from one send.  Besides, a connection that has
\* not come up has done nothing, and one that is up has an open file.
DownloadInv ==
  /\ WholeFile
  /\ OneContinuation
  /\ conn = "accepted" => ~ctx /\ offset = 0 /\ taken = 0 /\ queued = 0
  /\ conn = "connected" => ctx
  /\ ctx => file # NoFile

LEMMA InitDownload == DownloadInit => DownloadInv
<1> SUFFICES ASSUME DownloadInit PROVE DownloadInv
  OBVIOUS
<1>1. /\ conn = "accepted" /\ ctx = FALSE /\ file \in Nat \cup {NoFile}
      /\ offset = 0 /\ taken = 0 /\ flushed = 0 /\ queued = 0
  BY DownloadAssumption DEF DownloadInit
<1>2. DownloadTypeOK
  BY <1>1 DEF DownloadTypeOK, ConnStates
<1>3. WholeFile /\ OneContinuation
  BY <1>1, <1>2, DownloadAssumption DEF WholeFile, OneContinuation, Unwritten
<1>4. QED
  BY <1>1, <1>3 DEF DownloadInv

\* What a read gives: at most a buffer, at most what is left, and nothing only
\* at the end of the file.
LEMMA NextReadFits ==
  ASSUME DownloadInv, file # NoFile
  PROVE  /\ NextRead \in 0..BufSize
         /\ offset + NextRead <= file
         /\ ~SomeRead(NextRead) => offset = file /\ NextRead = 0
BY DownloadAssumption DEF DownloadInv, WholeFile, DownloadTypeOK, NextRead, SomeRead

\* onConnection, up: the first buffer is the one thing waited for.
LEMMA OnConnectionUpKeeps ==
  ASSUME DownloadInv, OnConnectionUp
  PROVE  DownloadInv'
<1>1. CASE file # NoFile
  <2>0. NextRead \in 0..BufSize /\ offset + NextRead <= file
    BY <1>1, NextReadFits
  <2>1. NextRead \in 0..BufSize /\ NextRead <= file
    BY <2>0 DEF DownloadInv, WholeFile, DownloadTypeOK, OnConnectionUp
  <2>2. /\ conn' = "connected" /\ ctx' = TRUE /\ file' = file
        /\ offset' = NextRead /\ taken' = NextRead
    BY <1>1, <2>1 DEF OnConnectionUp, SendBuffer, DownloadInv
  <2>3. PICK k \in 0..NextRead :
          flushed' = k /\ queued' = IF k = NextRead THEN 1 ELSE 0
    BY <1>1, <2>1, DownloadAssumption
       DEF OnConnectionUp, SendBuffer, Completes, DownloadInv, WholeFile, DownloadTypeOK
  <2>4. QED
    BY <1>1, <2>1, <2>2, <2>3, DownloadAssumption
       DEF DownloadInv, WholeFile, OneContinuation, DownloadTypeOK, ConnStates, Unwritten
<1>2. CASE file = NoFile
  BY <1>2, DownloadAssumption
     DEF OnConnectionUp, AfterShutdown, DownloadInv, WholeFile, OneContinuation,
         DownloadTypeOK, ConnStates, Unwritten
<1>3. QED
  BY <1>1, <1>2

\* onWriteComplete: on a connection that is up nothing is unsent then.
LEMMA OnWriteCompleteKeeps ==
  ASSUME DownloadInv, OnWriteComplete
  PROVE  DownloadInv'
<1>0. /\ queued = 1 /\ ctx /\ file # NoFile /\ conn # "accepted"
      /\ file' = file /\ ctx' = ctx /\ offset' = offset + NextRead
  BY DEF DownloadInv, OnWriteComplete, OneContinuation, WholeFile, DownloadTypeOK
<1>1. /\ NextRead \in 0..BufSize /\ offset + NextRead <= file
      /\ ~SomeRead(NextRead) => offset = file /\ NextRead = 0
  BY <1>0, NextReadFits
<1>2. conn = "connected" => taken = offset /\ flushed = taken
  BY <1>0 DEF DownloadInv, WholeFile, OneContinuation, DownloadTypeOK, Unwritten
<1>3. CASE SomeRead(NextRead) /\ Sendable(conn)
  <2>1. conn = "connected" /\ conn' = conn /\ taken' = taken + NextRead
    BY <1>3 DEF OnWriteComplete, SendBuffer, Sendable
  <2>2. PICK k \in 0..NextRead :
          flushed' = flushed + k /\ queued' = IF k = NextRead THEN 1 ELSE 0
    BY <1>0, <1>1, <1>3 DEF OnWriteComplete, SendBuffer, Completes
  <2>3. QED
    BY <1>0, <1>1, <1>2, <2>1, <2>2, DownloadAssumption
       DEF DownloadInv, WholeFile, OneContinuation, DownloadTypeOK, Unwritten
<1>4. CASE ~(SomeRead(NextRead) /\ Sendable(conn))
  <2>1. /\ conn' = IF SomeRead(NextRead) THEN conn ELSE AfterShutdown(conn)
        /\ queued' = 0 /\ taken' = taken /\ flushed' = flushed
    BY <1>0, <1>4 DEF OnWriteComplete
  <2>2. conn' # "connected"
    BY <1>4, <2>1 DEF AfterShutdown, Sendable
  <2>3. conn' = "disconnecting" => flushed = file /\ offset' = offset
    BY <1>0, <1>1, <1>2, <1>4, <2>1, DownloadAssumption
       DEF DownloadInv, WholeFile, DownloadTypeOK, AfterShutdown, Sendable
  <2>4. conn' \in ConnStates \ {"absent", "accepted"}
    BY <1>0, <2>1 DEF DownloadInv, WholeFile, DownloadTypeOK, ConnStates, AfterShutdown
  <2>5. QED
    BY <1>0, <1>1, <2>1, <2>2, <2>3, <2>4, DownloadAssumption
       DEF DownloadInv, WholeFile, OneContinuation, DownloadTypeOK, Unwritten
<1>5. QED
  BY <1>3, <1>4

\* A write of the loop: the last one of a buffer brings the callback.
LEMMA WriteOutKeeps ==
  ASSUME DownloadInv, NEW k \in 1..BufSize, WriteOut(k)
  PROVE  DownloadInv'
BY DownloadAssumption
   DEF WriteOut, Readable, DownloadInv, WholeFile, OneContinuation, DownloadTypeOK, Unwritten

\* onConnection, down.
LEMMA OnConnectionDownKeeps ==
  ASSUME DownloadInv, OnConnectionDown
  PROVE  DownloadInv'
BY DEF OnConnectionDown, Readable, DownloadInv, WholeFile, OneContinuation, DownloadTypeOK,
       ConnStates, Unwritten

LEMMA DownloadKeeps == DownloadInv /\ [DownloadNext]_downloadVars => DownloadInv'
<1> SUFFICES ASSUME DownloadInv, [DownloadNext]_downloadVars PROVE DownloadInv'
  OBVIOUS
<1>1. CASE DownloadNext
  BY <1>1, OnConnectionUpKeeps, OnWriteCompleteKeeps, WriteOutKeeps,
     OnConnectionDownKeeps DEF DownloadNext
<1>2. CASE UNCHANGED downloadVars
  BY <1>2 DEF downloadVars, DownloadInv, WholeFile, OneContinuation, DownloadTypeOK, Unwritten, NextRead
<1>3. QED
  BY <1>1, <1>2

\* DownloadInv holds throughout, for any buffer size and any file.
THEOREM DownloadInvariance == DownloadSpec => []DownloadInv
<1>1. DownloadInit => DownloadInv
  BY InitDownload
<1>2. DownloadInv /\ [DownloadNext]_downloadVars => DownloadInv'
  BY DownloadKeeps
<1>3. QED
  BY <1>1, <1>2, PTL DEF DownloadSpec

\* The server shuts a connection down only when the kernel has the whole file.
THEOREM WholeFileSent == DownloadSpec => []WholeFile
<1>1. DownloadInv => WholeFile
  BY DEF DownloadInv
<1>2. QED
  BY <1>1, DownloadInvariance, PTL

\* A connection that is up waits for exactly one thing, with at most one buffer
\* unsent, and the callback finds an open file.
THEOREM OneAtATime == DownloadSpec => []OneContinuation
<1>1. DownloadInv => OneContinuation
  BY DEF DownloadInv
<1>2. QED
  BY <1>1, DownloadInvariance, PTL
=============================================================================
