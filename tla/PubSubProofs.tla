----------------------------- MODULE PubSubProofs -----------------------------
(***************************************************************************)
(* The safety of the hub for any connections, topics and number of lines,   *)
(* first for whatever lines come in, then with the clients of pubsub.cc.    *)
(***************************************************************************)
EXTENDS PubSubSystem, SequenceTheorems, TLAPS

\* Only a connection that is read from is handled; hence whoever subscribes
\* can still close, and closing takes it out of every audience.
HandlesReadable == handling # NoConn => Readable(conn[handling])

\* No content is sent before it is published.  Without it a publication could
\* come after a newer content.
SentIsPublished ==
  \A c \in Conn : \A i \in 1..Len(out[c]) : out[c][i].n <= last[out[c][i].topic]

IInv ==
  /\ AudiencesMatchContexts
  /\ HandlesReadable
  /\ SentIsPublished
  /\ NeverOlder
  /\ AudienceUpToDate

\* What any step does to the stream of a connection: nothing, or it adds the
\* latest content of one topic.
Latest(t) == [topic |-> t, n |-> last[t]]
SendsLatest(c, t) ==
  /\ t \in Topic /\ last'[t] > 0 /\ Sendable(conn[c])
  /\ out'[c] = Append(out[c], Latest(t)')
Extends(c) == out'[c] = out[c] \/ \E t \in Topic : SendsLatest(c, t)

LEMMA AppendLatest ==
  ASSUME NEW s \in Seq(Message), NEW m \in Message
  PROVE  /\ Append(s, m) \in Seq(Message)
         /\ Len(Append(s, m)) = Len(s) + 1
         /\ Append(s, m)[Len(s) + 1] = m
         /\ \A i \in 1..Len(s) : Append(s, m)[i] = s[i]
         /\ Len(s) \in Nat
OBVIOUS

\* Steps of that kind keep the streams in order.
LEMMA StreamsKeep ==
  ASSUME TypeOK, SentIsPublished, NeverOlder,
         last' \in [Topic -> Nat], \A t \in Topic : last[t] <= last'[t],
         DOMAIN out' = Conn, out' = [c \in Conn |-> out'[c]],
         \A c \in Conn : Extends(c)
  PROVE  out' \in [Conn -> Seq(Message)] /\ SentIsPublished' /\ NeverOlder'
<1>1. ASSUME NEW c \in Conn
      PROVE  /\ out'[c] \in Seq(Message)
             /\ \A i \in 1..Len(out'[c]) :
                  out'[c][i].n <= last'[out'[c][i].topic]
             /\ \A i, j \in 1..Len(out'[c]) :
                  i < j /\ out'[c][i].topic = out'[c][j].topic
                    => out'[c][i].n <= out'[c][j].n
  <2>0. /\ out[c] \in Seq(Message)
        /\ \A i \in 1..Len(out[c]) : out[c][i] \in Message
        /\ \A i \in 1..Len(out[c]) : out[c][i].n <= last[out[c][i].topic]
        /\ \A i, j \in 1..Len(out[c]) :
             i < j /\ out[c][i].topic = out[c][j].topic
               => out[c][i].n <= out[c][j].n
    <3>1. out[c] \in Seq(Message)
      BY DEF TypeOK
    <3>2. \A i \in 1..Len(out[c]) : out[c][i] \in Message
      BY <3>1, ElementOfSeq
    <3>3. QED
      BY <3>1, <3>2 DEF SentIsPublished, NeverOlder
  <2>1. \A i \in 1..Len(out[c]) : out[c][i].n <= last'[out[c][i].topic]
    <3>1. ASSUME NEW i \in 1..Len(out[c])
          PROVE  out[c][i].n \in Nat /\ out[c][i].topic \in Topic
      BY <2>0 DEF Message
    <3>2. last \in [Topic -> Nat]
      BY DEF TypeOK
    <3>3. QED
      BY <2>0, <3>1, <3>2
  <2>2. CASE out'[c] = out[c]
    BY <2>0, <2>1, <2>2
  <2>3. CASE \E t \in Topic : SendsLatest(c, t)
    <3>1. PICK t \in Topic : SendsLatest(c, t)
      BY <2>3
    <3> DEFINE m == [topic |-> t, n |-> last'[t]]
    <3>2. m \in Message /\ m.topic = t /\ m.n = last'[t]
          /\ out'[c] = Append(out[c], m)
      BY <3>1 DEF SendsLatest, Latest, Message
    <3> HIDE DEF m
    <3>3. /\ out'[c] \in Seq(Message)
          /\ Len(out'[c]) = Len(out[c]) + 1
          /\ out'[c][Len(out[c]) + 1] = m
          /\ \A i \in 1..Len(out[c]) : out'[c][i] = out[c][i]
          /\ Len(out[c]) \in Nat
      BY <2>0, <3>2, AppendLatest
    <3>4. \A i \in 1..Len(out'[c]) : i \in 1..Len(out[c]) \/ i = Len(out[c]) + 1
      BY <3>3
    <3>5. \A i \in 1..Len(out'[c]) : out'[c][i].n <= last'[out'[c][i].topic]
      BY <2>1, <3>2, <3>3, <3>4
    <3>6. ASSUME NEW i \in 1..Len(out'[c]), NEW j \in 1..Len(out'[c]), i < j,
                 out'[c][i].topic = out'[c][j].topic
          PROVE  out'[c][i].n <= out'[c][j].n
      <4>1. i \in 1..Len(out[c])
        BY <3>3, <3>6
      <4>2. CASE j \in 1..Len(out[c])
        BY <2>0, <3>3, <3>6, <4>1, <4>2
      <4>3. CASE j = Len(out[c]) + 1
        BY <2>1, <3>2, <3>3, <3>6, <4>1, <4>3
      <4>4. QED
        BY <3>4, <4>2, <4>3
    <3>7. QED
      BY <3>3, <3>5, <3>6
  <2>4. QED
    BY <2>2, <2>3 DEF Extends
<1>2. QED
  BY <1>1 DEF SentIsPublished, NeverOlder

\* Listeners stay up to date if each of them is sent the latest content of its
\* topic, or had it and gets none of that topic.
LEMMA UpToDateKeeps ==
  ASSUME TypeOK, AudienceUpToDate, last' \in [Topic -> Nat],
         \A t \in Topic : \A c \in audiences'[t] :
           last'[t] > 0 /\ Sendable(conn'[c]) =>
             /\ c \in Conn
             /\ \/ SendsLatest(c, t)
                \/ /\ c \in audiences[t] /\ Sendable(conn[c])
                   /\ last'[t] = last[t]
                   /\ \/ out'[c] = out[c]
                      \/ \E u \in Topic \ {t} : SendsLatest(c, u)
  PROVE  AudienceUpToDate'
<1> SUFFICES ASSUME NEW t \in Topic, last'[t] > 0, NEW c \in audiences'[t],
                    Sendable(conn'[c])
             PROVE  \E i \in 1..Len(out'[c]) :
                      /\ out'[c][i] = Latest(t)'
                      /\ \A j \in i + 1..Len(out'[c]) : out'[c][j].topic # t
  BY DEF AudienceUpToDate, Latest
<1>0. c \in Conn /\ out[c] \in Seq(Message)
  BY DEF TypeOK
<1>1. CASE SendsLatest(c, t)
  <2>1. Latest(t)' \in Message /\ out'[c] = Append(out[c], Latest(t)')
    BY <1>1 DEF SendsLatest, Latest, Message
  <2>2. /\ Len(out'[c]) = Len(out[c]) + 1 /\ Len(out[c]) \in Nat
        /\ out'[c][Len(out[c]) + 1] = Latest(t)'
    BY <1>0, <2>1, AppendLatest
  <2>3. /\ Len(out[c]) + 1 \in 1..Len(out'[c])
        /\ \A j \in (Len(out[c]) + 1) + 1..Len(out'[c]) : FALSE
    BY <2>2
  <2>4. QED
    BY <2>2, <2>3
<1>2. CASE /\ c \in audiences[t] /\ Sendable(conn[c]) /\ last'[t] = last[t]
           /\ \/ out'[c] = out[c]
              \/ \E u \in Topic \ {t} : SendsLatest(c, u)
  <2>1. PICK i \in 1..Len(out[c]) :
          /\ out[c][i] = Latest(t)'
          /\ \A j \in i + 1..Len(out[c]) : out[c][j].topic # t
    BY <1>2 DEF AudienceUpToDate, Latest
  <2>2. CASE out'[c] = out[c]
    BY <2>1, <2>2
  <2>3. CASE \E u \in Topic \ {t} : SendsLatest(c, u)
    <3>1. PICK u \in Topic \ {t} : SendsLatest(c, u)
      BY <2>3
    <3>2. /\ Latest(u)' \in Message /\ out'[c] = Append(out[c], Latest(u)')
          /\ Latest(u)'.topic # t
      BY <3>1 DEF SendsLatest, Latest, Message
    <3>3. /\ Len(out'[c]) = Len(out[c]) + 1 /\ Len(out[c]) \in Nat
          /\ out'[c][Len(out[c]) + 1] = Latest(u)'
          /\ \A k \in 1..Len(out[c]) : out'[c][k] = out[c][k]
      BY <1>0, <3>2, AppendLatest
    <3>4. i \in 1..Len(out'[c]) /\ out'[c][i] = Latest(t)'
      BY <2>1, <3>3
    <3>5. ASSUME NEW j \in i + 1..Len(out'[c])
          PROVE  out'[c][j].topic # t
      <4>1. j \in i + 1..Len(out[c]) \/ j = Len(out[c]) + 1
        BY <3>3
      <4>2. QED
        BY <2>1, <3>2, <3>3, <4>1
    <3>6. QED
      BY <3>4, <3>5
  <2>4. QED
    BY <1>2, <2>2, <2>3
<1>3. QED
  BY <1>0, <1>1, <1>2

LEMMA InitIInv == Init => IInv
BY HubAssumption
   DEF Init, IInv, AudiencesMatchContexts, TypeOK, ConnStates, HandlesReadable,
       SentIsPublished, NeverOlder, AudienceUpToDate

-----------------------------------------------------------------------------
\* What parseMessage returns says what the first line is.
LEMMA Parsed ==
  ASSUME TypeOK, NEW result \in {"pub", "sub", "unsub"}, Iteration(result)
  PROVE  /\ handling \in Conn /\ CurrentTopic \in Topic
         /\ input' \in [Conn -> Seq(Line)]
         /\ UNCHANGED fed
<1>1. handling \in Conn /\ input[handling] \in Seq(Line)
  BY DEF TypeOK, Iteration, Idle
<1>2. input[handling] # <<>>
  BY DEF Iteration, ParseMessage
<1>3. input[handling][1] \in Line
  BY <1>1, <1>2
<1>4. CurrentTopic \in Topic
  BY <1>3, HubAssumption DEF CurrentTopic, Line
<1>5. Lines(result) \in {1, 2}
  BY DEF Lines
<1>6. SubSeq(input[handling], Lines(result) + 1, Len(input[handling])) \in Seq(Line)
  BY <1>1, <1>5
<1>7. QED
  BY <1>1, <1>4, <1>6 DEF Iteration, TypeOK

LEMMA ParsedNothing ==
  ASSUME TypeOK, NEW result \in {"other", "error", "continue"}, Iteration(result)
  PROVE  /\ handling \in Conn
         /\ input' \in [Conn -> Seq(Line)]
         /\ UNCHANGED fed
<1>1. handling \in Conn /\ input[handling] \in Seq(Line)
  BY DEF TypeOK, Iteration, Idle
<1>2. Lines(result) \in {0, 1}
  BY DEF Lines
<1>3. SubSeq(input[handling], Lines(result) + 1, Len(input[handling])) \in Seq(Line)
  BY <1>1, <1>2
<1>4. QED
  BY <1>1, <1>3 DEF Iteration, TypeOK

\* makeMessage of the latest content.
LEMMA SentLatest ==
  ASSUME NEW c \in Conn, NEW t \in Topic, last'[t] > 0
  PROVE  /\ Sent(c, t, last'[t]) = out[c] \/
              (Sendable(conn[c]) /\ Sent(c, t, last'[t]) = Append(out[c], Latest(t)'))
         /\ Sendable(conn[c]) => Sent(c, t, last'[t]) = Append(out[c], Latest(t)')
BY DEF Sent, Latest

-----------------------------------------------------------------------------
(* The steps. *)

LEMMA OnConnectionUpKeeps ==
  ASSUME IInv, NEW c \in Conn, OnConnectionUp(c)
  PROVE  IInv'
<1>0. TypeOK /\ AudiencesMatchContexts /\ handling = NoConn
      /\ \A t \in Topic : c \notin audiences[t]
  BY DEF IInv, AudiencesMatchContexts, OnConnectionUp, Idle, Readable
<1>1. AudiencesMatchContexts'
  BY <1>0 DEF OnConnectionUp, AudiencesMatchContexts, TypeOK, ConnStates, Readable, topics
<1>2. SentIsPublished' /\ NeverOlder' /\ HandlesReadable'
  BY <1>0 DEF OnConnectionUp, IInv, topics, SentIsPublished, NeverOlder, HandlesReadable
<1>3. AudienceUpToDate'
  <2>1. \A d \in Conn : d # c => conn'[d] = conn[d]
    BY <1>0 DEF OnConnectionUp, TypeOK
  <2>2. \A t \in Topic : \A d \in audiences[t] : conn'[d] = conn[d]
    BY <1>0, <2>1 DEF TypeOK
  <2>3. QED
    BY <2>2 DEF OnConnectionUp, IInv, AudienceUpToDate, topics
<1>4. QED
  BY <1>1, <1>2, <1>3 DEF IInv

LEMMA OnConnectionDownKeeps ==
  ASSUME IInv, NEW c \in Conn, OnConnectionDown(c)
  PROVE  IInv'
<1>0. /\ TypeOK /\ AudiencesMatchContexts /\ handling' = NoConn
      /\ conn' = [conn EXCEPT ![c] = "disconnected"]
      /\ audiences' = AudiencesWithout(c)
      /\ context' = [context EXCEPT ![c] = {}]
      /\ input' = [input EXCEPT ![c] = <<>>]
      /\ UNCHANGED <<last, fed, out>>
  BY DEF IInv, AudiencesMatchContexts, OnConnectionDown, Idle
<1>1. \A t \in Topic : audiences'[t] = audiences[t] \ {c}
  BY <1>0 DEF AudiencesWithout, AudiencesMatchContexts, TypeOK
<1>2. TypeOK'
  <2>1. audiences' \in [Topic -> SUBSET Conn]
    BY <1>0 DEF AudiencesWithout, TypeOK
  <2>2. input' \in [Conn -> Seq(Line)]
    BY <1>0 DEF TypeOK
  <2>3. QED
    BY <1>0, <2>1, <2>2 DEF TypeOK, ConnStates
<1>3. AudiencesMatchContexts'
  BY <1>0, <1>1, <1>2 DEF AudiencesMatchContexts, TypeOK
<1>4. SentIsPublished' /\ NeverOlder' /\ HandlesReadable'
  BY <1>0 DEF IInv, SentIsPublished, NeverOlder, HandlesReadable
<1>5. AudienceUpToDate'
  <2>1. \A t \in Topic : \A d \in audiences'[t] :
          d \in audiences[t] /\ conn'[d] = conn[d]
    BY <1>0, <1>1 DEF TypeOK
  <2>2. QED
    BY <1>0, <2>1 DEF IInv, AudienceUpToDate
<1>6. QED
  BY <1>3, <1>4, <1>5 DEF IInv

\* What touches neither the topics nor the streams, and opens no connection.
LEMMA OtherKeeps ==
  ASSUME IInv, TypeOK', UNCHANGED <<context, topics, out>>, HandlesReadable',
         \A c \in Conn : /\ Readable(conn[c]) => Readable(conn'[c])
                         /\ Sendable(conn'[c]) => Sendable(conn[c])
  PROVE  IInv'
<1>0. /\ UNCHANGED <<audiences, last>> /\ AudiencesMatchContexts
      /\ \A t \in Topic : \A c \in audiences[t] : c \in Conn
  BY DEF IInv, topics, AudiencesMatchContexts, TypeOK
<1>1. AudiencesMatchContexts'
  <2>1. \A t \in Topic : \A c \in audiences[t] : Readable(conn'[c])
    BY <1>0 DEF AudiencesMatchContexts, Readable
  <2>2. QED
    BY <1>0, <2>1 DEF AudiencesMatchContexts
<1>2. SentIsPublished' /\ NeverOlder'
  BY DEF IInv, topics, SentIsPublished, NeverOlder
<1>3. AudienceUpToDate'
  <2>1. \A t \in Topic : \A c \in audiences[t] :
          Sendable(conn'[c]) => Sendable(conn[c])
    BY <1>0 DEF Sendable
  <2>2. QED
    BY <1>0, <2>1 DEF IInv, AudienceUpToDate
<1>4. QED
  BY <1>1, <1>2, <1>3 DEF IInv

LEMMA OnMessageKeeps ==
  ASSUME IInv, NEW c \in Conn, NEW segment \in Seq(Line), OnMessage(c, segment)
  PROVE  IInv'
<1>0. TypeOK
  BY DEF IInv, AudiencesMatchContexts
<1>2. Len(segment) \in Nat /\ input[c] \o segment \in Seq(Line)
  BY <1>0 DEF TypeOK
<1>3. TypeOK'
  BY <1>0, <1>2 DEF OnMessage, TypeOK, topics
<1>4. HandlesReadable'
  BY DEF OnMessage, HandlesReadable
<1>5. QED
  BY <1>3, <1>4, OtherKeeps DEF OnMessage

LEMMA SegmentLines == Segments \subseteq Seq(Line)
<1> SUFFICES ASSUME NEW segment \in Segments PROVE segment \in Seq(Line)
  OBVIOUS
<1>1. PICK k \in 1..2 : segment \in [1..k -> Line]
  BY DEF Segments
<1>2. QED
  BY <1>1

LEMMA ContinueKeeps == ASSUME IInv, Continue PROVE IInv'
<1>0. TypeOK
  BY DEF IInv, AudiencesMatchContexts
<1>1. input' \in [Conn -> Seq(Line)] /\ UNCHANGED fed
  BY <1>0, ParsedNothing DEF Continue
<1>2. TypeOK' /\ HandlesReadable'
  BY <1>0, <1>1 DEF Continue, TypeOK, topics, HandlesReadable
<1>3. QED
  BY <1>2, OtherKeeps DEF Continue

LEMMA RejectKeeps == ASSUME IInv, Reject PROVE IInv'
<1>0. TypeOK
  BY DEF IInv, AudiencesMatchContexts
<1>1. handling \in Conn /\ input' \in [Conn -> Seq(Line)] /\ UNCHANGED fed
  BY <1>0, ParsedNothing DEF Reject
<1>2. TypeOK' /\ HandlesReadable'
  BY <1>0, <1>1 DEF Reject, TypeOK, topics, HandlesReadable, AfterShutdown, ConnStates
<1>3. \A c \in Conn : /\ Readable(conn[c]) => Readable(conn'[c])
                      /\ Sendable(conn'[c]) => Sendable(conn[c])
  BY <1>0, <1>1 DEF Reject, TypeOK, AfterShutdown, Readable, Sendable
<1>4. QED
  BY <1>2, <1>3, OtherKeeps DEF Reject

LEMMA PublishTypes ==
  ASSUME IInv, NEW t \in Topic, Publish(t), input' \in [Conn -> Seq(Line)],
         UNCHANGED <<handling, fed>>
  PROVE  TypeOK' /\ HandlesReadable'
<1>0. TypeOK
  BY DEF IInv, AudiencesMatchContexts
<1>1. \A c \in Conn : Sent(c, t, last[t] + 1) \in Seq(Message)
  <2>1. [topic |-> t, n |-> last[t] + 1] \in Message
    BY <1>0 DEF TypeOK, Message
  <2>2. \A c \in Conn : out[c] \in Seq(Message)
    BY <1>0 DEF TypeOK
  <2>3. QED
    BY <2>1, <2>2, AppendLatest DEF Sent
<1>2. out' \in [Conn -> Seq(Message)]
  BY <1>0, <1>1 DEF Publish, SentToAudience, TypeOK
<1>3. QED
  BY <1>0, <1>2 DEF Publish, TypeOK, HandlesReadable, IInv

\* Publishing sends every listener of a topic its new content, and nobody
\* anything else.
LEMMA PublishKeeps ==
  ASSUME IInv, NEW t \in Topic, Publish(t), TypeOK', HandlesReadable'
  PROVE  IInv'
<1>0. /\ TypeOK /\ AudiencesMatchContexts
      /\ last' = [last EXCEPT ![t] = @ + 1]
      /\ out' = SentToAudience(t)
      /\ UNCHANGED <<conn, context, audiences>>
  BY DEF IInv, AudiencesMatchContexts, Publish
<1>1. last' \in [Topic -> Nat] /\ last'[t] = last[t] + 1 /\ last'[t] > 0
      /\ \A u \in Topic : u # t => last'[u] = last[u]
  BY <1>0 DEF TypeOK
<1>2. \A c \in Conn : /\ Extends(c)
                      /\ out'[c] = out[c] \/ SendsLatest(c, t)
                      /\ c \in audiences[t] /\ Sendable(conn[c]) => SendsLatest(c, t)
  BY <1>0, <1>1, SentLatest DEF SentToAudience, Extends, SendsLatest
<1>3. SentIsPublished' /\ NeverOlder'
  <2>1. \A u \in Topic : last[u] <= last'[u]
    <3>1. \A u \in Topic : last[u] \in Nat
      BY <1>0 DEF TypeOK
    <3>2. QED
      BY <1>1, <3>1
  <2>2. DOMAIN out' = Conn /\ out' = [c \in Conn |-> out'[c]]
    BY <1>0 DEF SentToAudience
  <2>3. SentIsPublished /\ NeverOlder /\ TypeOK
    BY <1>0 DEF IInv
  <2>4. \A c \in Conn : Extends(c)
    BY <1>2
  <2>5. QED
    BY <1>1, <2>1, <2>2, <2>3, <2>4, StreamsKeep
<1>4. AudiencesMatchContexts'
  BY <1>0 DEF AudiencesMatchContexts
<1>5. AudienceUpToDate'
  <2>1. ASSUME NEW u \in Topic, NEW c \in audiences'[u], Sendable(conn'[c])
        PROVE  /\ c \in Conn
               /\ \/ SendsLatest(c, u)
                  \/ /\ c \in audiences[u] /\ Sendable(conn[c])
                     /\ last'[u] = last[u]
                     /\ \/ out'[c] = out[c]
                        \/ \E v \in Topic \ {u} : SendsLatest(c, v)
    <3>1. c \in Conn /\ c \in audiences[u] /\ Sendable(conn[c])
      BY <1>0, <2>1 DEF TypeOK
    <3>2. CASE u = t
      BY <1>2, <3>1, <3>2
    <3>3. CASE u # t
      <4>1. last'[u] = last[u] /\ t \in Topic \ {u}
        BY <1>1, <3>3
      <4>2. QED
        BY <1>2, <3>1, <4>1
    <3>4. QED
      BY <3>2, <3>3
  <2>2. QED
    BY <1>0, <1>1, <2>1, UpToDateKeeps DEF IInv
<1>6. QED
  BY <1>3, <1>4, <1>5 DEF IInv

LEMMA DoPublishKeeps == ASSUME IInv, DoPublish PROVE IInv'
<1>0. TypeOK
  BY DEF IInv, AudiencesMatchContexts
<1>1. /\ handling \in Conn /\ CurrentTopic \in Topic
      /\ input' \in [Conn -> Seq(Line)]
      /\ UNCHANGED <<fed, handling>>
  BY <1>0, Parsed DEF DoPublish
<1>2. TypeOK' /\ HandlesReadable'
  BY <1>1, PublishTypes DEF DoPublish
<1>3. QED
  BY <1>1, <1>2, PublishKeeps DEF DoPublish

\* utc_time.
LEMMA TimePublishKeeps == ASSUME IInv, TimePublish PROVE IInv'
<1>0. TypeOK
  BY DEF IInv, AudiencesMatchContexts
<1>1. TypeOK' /\ HandlesReadable'
  BY <1>0, PublishTypes, HubAssumption DEF TimePublish, TypeOK
<1>2. QED
  BY <1>1, PublishKeeps, HubAssumption DEF TimePublish

\* A new listener is sent what the topic has.
LEMMA DoSubscribeKeeps == ASSUME IInv, DoSubscribe PROVE IInv'
<1>a. handling \in Conn /\ CurrentTopic \in Topic
  BY Parsed DEF DoSubscribe, IInv, AudiencesMatchContexts
<1>b. PICK c \in Conn, t \in Topic : c = handling /\ t = CurrentTopic
  BY <1>a
<1>0. /\ TypeOK /\ AudiencesMatchContexts
      /\ context' = [context EXCEPT ![c] = @ \cup {t}]
      /\ audiences' = [audiences EXCEPT ![t] = @ \cup {c}]
      /\ out' = [out EXCEPT ![c] = Retained(c, t)]
      /\ UNCHANGED <<conn, last, handling>>
  BY <1>b DEF IInv, AudiencesMatchContexts, DoSubscribe
<1>1. /\ c \in Conn /\ t \in Topic /\ Readable(conn[c])
      /\ input' \in [Conn -> Seq(Line)] /\ UNCHANGED fed
  BY <1>0, <1>b, Parsed, HubAssumption DEF DoSubscribe, IInv, HandlesReadable
<1>2. /\ \A d \in Conn \ {c} : out'[d] = out[d]
      /\ last[t] > 0 /\ Sendable(conn[c]) => SendsLatest(c, t)
      /\ ~(last[t] > 0 /\ Sendable(conn[c])) => out'[c] = out[c]
  <2>1. out'[c] = Retained(c, t) /\ \A d \in Conn \ {c} : out'[d] = out[d]
    BY <1>0, <1>1 DEF TypeOK
  <2>2. last' = last
    BY <1>0
  <2>3. QED
    BY <1>1, <2>1, <2>2 DEF Retained, Sent, SendsLatest, Latest, Sendable
<1>3. \A d \in Conn : Extends(d)
  BY <1>1, <1>2 DEF Extends
<1>4. out' \in [Conn -> Seq(Message)] /\ SentIsPublished' /\ NeverOlder'
  <2>1. /\ last' \in [Topic -> Nat] /\ \A u \in Topic : last[u] <= last'[u]
    BY <1>0 DEF TypeOK
  <2>2. DOMAIN out = Conn
    BY <1>0 DEF TypeOK
  <2>3. DOMAIN out' = Conn /\ out' = [d \in Conn |-> out'[d]]
    BY <1>0, <2>2
  <2>4. SentIsPublished /\ NeverOlder /\ TypeOK
    BY <1>0 DEF IInv
  <2>5. QED
    BY <1>3, <2>1, <2>3, <2>4, StreamsKeep
<1>5. TypeOK' /\ HandlesReadable'
  BY <1>0, <1>1, <1>4 DEF TypeOK, IInv, HandlesReadable
<1>6. AudiencesMatchContexts'
  <2>1. \A u \in Topic : audiences'[u] = IF u = t THEN audiences[u] \cup {c}
                                         ELSE audiences[u]
    BY <1>0, <1>1 DEF TypeOK
  <2>2. \A d \in Conn : context'[d] = IF d = c THEN context[d] \cup {t}
                                      ELSE context[d]
    BY <1>0, <1>1 DEF TypeOK
  <2>3. \A u \in Topic : \A d \in audiences'[u] :
          d \in Conn /\ Readable(conn'[d])
    <3>1. ASSUME NEW u \in Topic, NEW d \in audiences'[u]
          PROVE  d \in Conn /\ Readable(conn[d])
      <4>1. d \in audiences[u] \/ d = c
        BY <2>1, <3>1
      <4>2. d \in audiences[u] => d \in Conn /\ Readable(conn[d])
        BY <1>0 DEF AudiencesMatchContexts, TypeOK
      <4>3. QED
        BY <1>1, <4>1, <4>2
    <3>2. QED
      BY <1>0, <3>1
  <2>4. \A d \in Conn, u \in Topic : d \in audiences'[u] <=> u \in context'[d]
    <3>1. \A d \in Conn, u \in Topic : d \in audiences[u] <=> u \in context[d]
      BY <1>0 DEF AudiencesMatchContexts
    <3>2. ASSUME NEW d \in Conn, NEW u \in Topic
          PROVE  /\ d \in audiences'[u] <=> d \in audiences[u] \/ (u = t /\ d = c)
                 /\ u \in context'[d] <=> u \in context[d] \/ (u = t /\ d = c)
      BY <2>1, <2>2
    <3>3. QED
      BY <3>1, <3>2
  <2>5. QED
    BY <1>5, <2>3, <2>4 DEF AudiencesMatchContexts
<1>7. AudienceUpToDate'
  <2>1. ASSUME NEW u \in Topic, NEW d \in audiences'[u], last'[u] > 0,
               Sendable(conn'[d])
        PROVE  /\ d \in Conn
               /\ \/ SendsLatest(d, u)
                  \/ /\ d \in audiences[u] /\ Sendable(conn[d])
                     /\ last'[u] = last[u]
                     /\ \/ out'[d] = out[d]
                        \/ \E v \in Topic \ {u} : SendsLatest(d, v)
    <3>1. d \in Conn /\ Sendable(conn[d]) /\ last[u] > 0
      BY <1>0, <1>1, <2>1 DEF TypeOK
    <3>2. CASE d = c /\ u = t
      BY <1>2, <3>1, <3>2
    <3>3. CASE ~(d = c /\ u = t)
      <4>1. d \in audiences[u] /\ last'[u] = last[u]
        BY <1>0, <1>1, <2>1, <3>3 DEF TypeOK
      <4>2. out'[d] = out[d] \/ (d = c /\ SendsLatest(d, t))
        BY <1>1, <1>2, <3>1
      <4>3. QED
        BY <1>1, <3>1, <3>3, <4>1, <4>2
    <3>4. QED
      BY <3>2, <3>3
  <2>2. QED
    BY <1>0, <2>1, UpToDateKeeps DEF IInv, TypeOK
<1>8. QED
  BY <1>4, <1>5, <1>6, <1>7 DEF IInv

LEMMA DoUnsubscribeKeeps == ASSUME IInv, DoUnsubscribe PROVE IInv'
<1>a. handling \in Conn /\ CurrentTopic \in Topic
  BY Parsed DEF DoUnsubscribe, IInv, AudiencesMatchContexts
<1>b. PICK c \in Conn, t \in Topic : c = handling /\ t = CurrentTopic
  BY <1>a
<1>0. /\ TypeOK /\ AudiencesMatchContexts
      /\ audiences' = [audiences EXCEPT ![t] = @ \ {c}]
      /\ context' = [context EXCEPT ![c] = @ \ {t}]
      /\ UNCHANGED <<conn, last, handling, out>>
  BY <1>b DEF IInv, AudiencesMatchContexts, DoUnsubscribe, OutOfContext
<1>1. /\ c \in Conn /\ t \in Topic
      /\ input' \in [Conn -> Seq(Line)] /\ UNCHANGED fed
  BY <1>0, <1>b, Parsed DEF DoUnsubscribe
<1>2. TypeOK' /\ HandlesReadable' /\ SentIsPublished' /\ NeverOlder'
  BY <1>0, <1>1 DEF TypeOK, IInv, HandlesReadable, SentIsPublished, NeverOlder
<1>3. AudiencesMatchContexts'
  BY <1>0, <1>1, <1>2, SMTT(30) DEF AudiencesMatchContexts, TypeOK
<1>4. AudienceUpToDate'
  <2>1. \A u \in Topic : audiences'[u] \subseteq audiences[u]
    BY <1>0, <1>1 DEF TypeOK
  <2>2. QED
    BY <1>0, <2>1 DEF IInv, AudienceUpToDate
<1>5. QED
  BY <1>2, <1>3, <1>4 DEF IInv

LEMMA NextKeeps == IInv /\ [Next]_vars => IInv'
<1> SUFFICES ASSUME IInv, [Next]_vars PROVE IInv'
  OBVIOUS
<1>1. CASE HandleMessage
  BY <1>1, DoPublishKeeps, DoSubscribeKeeps, DoUnsubscribeKeeps, RejectKeeps,
     ContinueKeeps DEF HandleMessage
<1>2. CASE TimePublish
  BY <1>2, TimePublishKeeps
<1>3. ASSUME NEW c \in Conn,
             \/ OnConnectionUp(c)
             \/ OnConnectionDown(c)
             \/ \E segment \in Segments : OnMessage(c, segment)
      PROVE  IInv'
  BY <1>3, OnConnectionUpKeeps, OnConnectionDownKeeps, OnMessageKeeps, SegmentLines
<1>4. CASE UNCHANGED vars
  <2>1. TypeOK' /\ HandlesReadable'
    BY <1>4 DEF vars, topics, IInv, AudiencesMatchContexts, TypeOK, HandlesReadable
  <2>2. QED
    BY <1>4, <2>1, OtherKeeps DEF vars
<1>5. QED
  BY <1>1, <1>2, <1>3, <1>4 DEF Next

-----------------------------------------------------------------------------
\* The conjunction of the state properties, with what they rest on, holds
\* throughout, for any connections and topics.
THEOREM Invariance == Spec => []IInv
<1>1. Init => IInv
  BY InitIInv
<1>2. IInv /\ [Next]_vars => IInv'
  BY NextKeeps
<1>3. QED
  BY <1>1, <1>2, PTL DEF Spec

\* Topics and contexts agree, and no closed connection is in an audience.
THEOREM TopicsMatchContexts == Spec => []AudiencesMatchContexts
<1>1. IInv => AudiencesMatchContexts
  BY DEF IInv
<1>2. QED
  BY <1>1, Invariance, PTL

\* A listener has been sent the latest content of its topic.
THEOREM ListenersUpToDate == Spec => []AudienceUpToDate
<1>1. IInv => AudienceUpToDate
  BY DEF IInv
<1>2. QED
  BY <1>1, Invariance, PTL

\* No connection is sent an older content after a newer one.
THEOREM ContentsInOrder == Spec => []NeverOlder
<1>1. IInv => NeverOlder
  BY DEF IInv
<1>2. QED
  BY <1>1, Invariance, PTL

\* Nobody else is sent anything.
THEOREM OthersAreSentNothing == Spec => OnlyAudienceIsSent
<1> DEFINE Step == \A c \in Conn : out'[c] # out[c] =>
                     c \in audiences'[Last(out'[c]).topic]
<1>0. ASSUME NEW s \in Seq(Message), NEW t \in Topic, NEW n \in Nat \ {0}
      PROVE  Last(Append(s, [topic |-> t, n |-> n])).topic = t
  <2>1. [topic |-> t, n |-> n] \in Message
    BY DEF Message
  <2>2. QED
    BY <2>1, AppendLatest DEF Last
<1>1. ASSUME IInv, NEW t \in Topic, Publish(t) PROVE Step
  <2>1. TypeOK
    BY <1>1 DEF IInv, AudiencesMatchContexts
  <2>2. SUFFICES ASSUME NEW c \in Conn, out'[c] # out[c]
                 PROVE  c \in audiences'[Last(out'[c]).topic]
    OBVIOUS
  <2>3. /\ c \in audiences[t] /\ audiences' = audiences
        /\ out'[c] = Append(out[c], [topic |-> t, n |-> last[t] + 1])
    BY <1>1, <2>2 DEF Publish, SentToAudience, Sent
  <2>4. out[c] \in Seq(Message) /\ last[t] + 1 \in Nat \ {0}
    BY <2>1 DEF TypeOK
  <2>5. QED
    BY <1>0, <2>3, <2>4
<1>2. ASSUME IInv, DoSubscribe PROVE Step
  <2>0. TypeOK
    BY <1>2 DEF IInv, AudiencesMatchContexts
  <2>1. handling \in Conn /\ CurrentTopic \in Topic
    BY <1>2, <2>0, Parsed DEF DoSubscribe
  <2>2. SUFFICES ASSUME NEW c \in Conn, out'[c] # out[c]
                 PROVE  c \in audiences'[Last(out'[c]).topic]
    OBVIOUS
  <2>3. /\ c = handling /\ out'[c] = Retained(c, CurrentTopic)
        /\ c \in audiences'[CurrentTopic]
    BY <1>2, <2>0, <2>1, <2>2 DEF DoSubscribe, TypeOK
  <2>4. /\ out'[c] = Append(out[c], [topic |-> CurrentTopic, n |-> last[CurrentTopic]])
        /\ last[CurrentTopic] > 0
    BY <2>2, <2>3 DEF Retained, Sent
  <2>5. out[c] \in Seq(Message) /\ last[CurrentTopic] \in Nat \ {0}
    BY <2>0, <2>1, <2>4 DEF TypeOK
  <2>6. QED
    BY <1>0, <2>1, <2>3, <2>4, <2>5
<1>3. ASSUME out' = out PROVE Step
  BY <1>3
<1>4. IInv /\ [Next]_vars => Step
  <2> SUFFICES ASSUME IInv, [Next]_vars PROVE Step
    OBVIOUS
  <2> HIDE DEF Step
  <2>0. TypeOK
    BY DEF IInv, AudiencesMatchContexts
  <2>1. CASE DoPublish
    BY <1>1, <2>0, <2>1, Parsed DEF DoPublish
  <2>2. CASE TimePublish
    BY <1>1, <2>2, HubAssumption DEF TimePublish
  <2>3. out' = out \/ DoPublish \/ TimePublish \/ DoSubscribe
    BY DEF Next, vars, HandleMessage, OnConnectionUp, OnConnectionDown,
           OnMessage, DoUnsubscribe, Reject, Continue
  <2>4. QED
    BY <1>2, <1>3, <2>1, <2>2, <2>3
<1>5. IInv /\ [Next]_vars => [Step]_vars
  BY <1>4
<1>6. QED
  BY <1>5, Invariance, PTL DEF Spec, OnlyAudienceIsSent

-----------------------------------------------------------------------------
(* The clients. *)

\* What is asked for anywhere between the user of c and its callback.
Asks(lines, asked) ==
  \A i \in 1..Len(lines) : lines[i].cmd = "sub" => lines[i].topic \in asked
About(messages, asked) ==
  \A i \in 1..Len(messages) : messages[i].topic \in asked

\* OnlyWhatWasAskedFor, followed back along the way of a message: to what the
\* hub has sent, whom it keeps as listeners and which lines made it do so.
AskedInv ==
  \A c \in Conn :
    /\ Asks(written[c], ever[c]) /\ Asks(input[c], ever[c])
    /\ \A t \in Topic : c \in audiences[t] => t \in ever[c]
    /\ About(out[c], ever[c]) /\ About(called[c], ever[c])

SysInv == IInv /\ SysTypeOK /\ AskedInv

LEMMA SubLines ==
  ASSUME NEW s \in Seq(Line), NEW a \in Nat, NEW b \in Nat, a > 0, b <= Len(s)
  PROVE  /\ SubSeq(s, a, b) \in Seq(Line)
         /\ \A T : Asks(s, T) => Asks(SubSeq(s, a, b), T)
<1>1. /\ SubSeq(s, a, b) \in Seq(Line)
      /\ Len(SubSeq(s, a, b)) = IF a <= b THEN b - a + 1 ELSE 0
      /\ \A i \in 1..Len(SubSeq(s, a, b)) : SubSeq(s, a, b)[i] = s[a + i - 1]
      /\ Len(s) \in Nat
  OBVIOUS
<1>2. ASSUME NEW T, Asks(s, T), NEW i \in 1..Len(SubSeq(s, a, b)),
             SubSeq(s, a, b)[i].cmd = "sub"
      PROVE  SubSeq(s, a, b)[i].topic \in T
  <2>1. a + i - 1 \in 1..Len(s)
    BY <1>1
  <2>2. QED
    BY <1>1, <1>2, <2>1 DEF Asks
<1>3. QED
  BY <1>1, <1>2 DEF Asks

LEMMA MoreLines ==
  ASSUME NEW s \in Seq(Line), NEW u \in Seq(Line)
  PROVE  /\ s \o u \in Seq(Line)
         /\ \A T : Asks(s, T) /\ Asks(u, T) => Asks(s \o u, T)
<1>1. /\ s \o u \in Seq(Line) /\ Len(s \o u) = Len(s) + Len(u)
      /\ \A i \in 1..Len(s) : (s \o u)[i] = s[i]
      /\ \A i \in 1..Len(u) : (s \o u)[Len(s) + i] = u[i]
      /\ Len(s) \in Nat /\ Len(u) \in Nat
  OBVIOUS
<1>2. ASSUME NEW T, Asks(s, T), Asks(u, T), NEW i \in 1..Len(s \o u),
             (s \o u)[i].cmd = "sub"
      PROVE  (s \o u)[i].topic \in T
  <2>1. CASE i \in 1..Len(s)
    BY <1>1, <1>2, <2>1 DEF Asks
  <2>2. CASE i \notin 1..Len(s)
    <3>1. PICK j \in 1..Len(u) : i = Len(s) + j
      <4>1. i - Len(s) \in 1..Len(u) /\ i = Len(s) + (i - Len(s))
        BY <1>1, <2>2
      <4>2. QED
        BY <4>1
    <3>2. QED
      BY <1>1, <1>2, <3>1 DEF Asks
  <2>3. QED
    BY <2>1, <2>2
<1>3. QED
  BY <1>1, <1>2 DEF Asks

LEMMA OneMore ==
  ASSUME NEW s \in Seq(Message), NEW m \in Message
  PROVE  \A T : About(s, T) /\ m.topic \in T => About(Append(s, m), T)
<1> SUFFICES ASSUME NEW T, About(s, T), m.topic \in T,
                    NEW i \in 1..Len(Append(s, m))
             PROVE  Append(s, m)[i].topic \in T
  BY DEF About
<1>1. i \in 1..Len(s) \/ i = Len(s) + 1
  BY AppendLatest
<1>2. QED
  BY <1>1, AppendLatest DEF About

LEMMA InitSysInv == SysInit => SysInv
<1> SUFFICES ASSUME SysInit PROVE SysInv
  OBVIOUS
<1>1. IInv
  BY InitIInv DEF SysInit
<1>2. SysTypeOK
  <2>1. TypeOK
    BY <1>1 DEF IInv, AudiencesMatchContexts
  <2>2. QED
    BY <2>1 DEF SysInit, SysTypeOK
<1>3. AskedInv
  BY DEF AskedInv, Asks, About, SysInit, Init
<1>4. QED
  BY <1>1, <1>2, <1>3 DEF SysInv

\* What a call of a client's user writes.
LEMMA CallKeeps ==
  ASSUME SysInv, NEW c \in Conn, NEW lines \in Seq(Line), Call(c, lines),
         callback' \in [Conn -> BOOLEAN],
         subscribed' \in [Conn -> SUBSET Topic],
         ever' \in [Conn -> SUBSET Topic],
         \A d \in Conn : ever[d] \subseteq ever'[d],
         Connected(c) => Asks(lines, ever'[c])
  PROVE  SysInv'
<1>0. /\ IInv /\ SysTypeOK /\ AskedInv
      /\ UNCHANGED <<vars, peer, delivered, called>>
      /\ UNCHANGED <<conn, input, context, audiences, last, handling, fed, out>>
  BY DEF SysInv, Call, vars, topics
<1>1. IInv'
  BY <1>0, NextKeeps
<1>2. Len(lines) \in Nat
  OBVIOUS
<1>3. calls' \in [Conn -> Nat]
  BY <1>0, <1>2 DEF Call, SysTypeOK
<1>4. ASSUME NEW d \in Conn
      PROVE  written'[d] \in Seq(Line) /\ Asks(written'[d], ever'[d])
  <2>1. written[d] \in Seq(Line) /\ Asks(written[d], ever'[d])
    BY <1>0 DEF SysTypeOK, AskedInv, Asks
  <2>2. CASE written'[d] = written[d]
    BY <2>1, <2>2
  <2>3. CASE d = c /\ Connected(c) /\ written'[d] = written[d] \o lines
    BY <2>1, <2>3, MoreLines
  <2>4. QED
    BY <1>0, <2>2, <2>3 DEF Call, Send, SysTypeOK
<1>5. written' \in [Conn -> Seq(Line)]
  <2>1. written' = [d \in Conn |-> written'[d]]
    BY <1>0 DEF Call, Send, SysTypeOK
  <2>2. QED
    BY <1>4, <2>1
<1>6. SysTypeOK'
  BY <1>0, <1>3, <1>5 DEF SysTypeOK, TypeOK
<1>7. AskedInv'
  BY <1>0, <1>4 DEF AskedInv, Asks, About
<1>8. QED
  BY <1>1, <1>6, <1>7 DEF SysInv

LEMMA UserKeeps ==
  ASSUME SysInv, NEW c \in Conn, NEW t \in Topic,
         Subscribe(c, t) \/ Unsubscribe(c, t) \/ PublishContent(c, t)
  PROVE  SysInv'
<1>0. SysTypeOK
  BY DEF SysInv
<1>1. CASE Subscribe(c, t)
  <2> DEFINE line == [cmd |-> "sub", topic |-> t]
  <2>1. line \in Line /\ <<line>> \in Seq(Line)
    BY DEF Line
  <2>2. /\ callback' \in [Conn -> BOOLEAN]
        /\ subscribed' \in [Conn -> SUBSET Topic]
        /\ ever' \in [Conn -> SUBSET Topic]
        /\ \A d \in Conn : ever[d] \subseteq ever'[d]
        /\ Connected(c) => t \in ever'[c]
    <3>1. callback' \in [Conn -> BOOLEAN]
      BY <1>0, <1>1, Zenon DEF Subscribe, SysTypeOK
    <3>2. CASE Connected(c)
      <4>1. /\ subscribed' = [subscribed EXCEPT ![c] = @ \cup {t}]
            /\ ever' = [ever EXCEPT ![c] = @ \cup {t}]
        BY <1>1, <3>2, Zenon DEF Subscribe
      <4>2. QED
        BY <1>0, <3>1, <4>1 DEF SysTypeOK
    <3>3. CASE ~Connected(c)
      <4>1. subscribed' = subscribed /\ ever' = ever
        BY <1>1, <3>3, Zenon DEF Subscribe
      <4>2. QED
        BY <1>0, <3>1, <3>3, <4>1 DEF SysTypeOK
    <3>4. QED
      BY <3>2, <3>3
  <2>3. Connected(c) => Asks(<<line>>, ever'[c])
    BY <2>2 DEF Asks
  <2>4. Call(c, <<line>>)
    BY <1>1 DEF Subscribe
  <2> HIDE DEF line
  <2>5. QED
    BY <2>1, <2>2, <2>3, <2>4, CallKeeps
<1>2. CASE Unsubscribe(c, t)
  <2> DEFINE line == [cmd |-> "unsub", topic |-> t]
  <2>1. line \in Line /\ <<line>> \in Seq(Line)
    BY DEF Line
  <2>2. /\ callback' \in [Conn -> BOOLEAN]
        /\ subscribed' \in [Conn -> SUBSET Topic]
        /\ ever' \in [Conn -> SUBSET Topic]
        /\ \A d \in Conn : ever[d] \subseteq ever'[d]
    BY <1>0, <1>2 DEF Unsubscribe, SysTypeOK
  <2>3. Asks(<<line>>, ever'[c])
    BY DEF Asks
  <2>4. Call(c, <<line>>)
    BY <1>2 DEF Unsubscribe
  <2> HIDE DEF line
  <2>5. QED
    BY <2>1, <2>2, <2>3, <2>4, CallKeeps
<1>3. CASE PublishContent(c, t)
  <2> DEFINE line == [cmd |-> "pub", topic |-> t]
  <2>1. line \in Line /\ ContentLine \in Line /\ <<line, ContentLine>> \in Seq(Line)
    BY HubAssumption DEF Line, ContentLine
  <2>2. /\ callback' \in [Conn -> BOOLEAN]
        /\ subscribed' \in [Conn -> SUBSET Topic]
        /\ ever' \in [Conn -> SUBSET Topic]
        /\ \A d \in Conn : ever[d] \subseteq ever'[d]
    BY <1>0, <1>3 DEF PublishContent, SysTypeOK
  <2>3. Asks(<<line, ContentLine>>, ever'[c])
    BY DEF Asks, ContentLine
  <2>4. Call(c, <<line, ContentLine>>)
    BY <1>3 DEF PublishContent
  <2> HIDE DEF line
  <2>5. QED
    BY <2>1, <2>2, <2>3, <2>4, CallKeeps
<1>4. QED
  BY <1>1, <1>2, <1>3

\* A step of the hub that takes lines from an input buffer, makes listeners
\* of those who asked for it and sends what they asked for.
LEMMA HubKeeps ==
  ASSUME SysInv, IInv', UNCHANGED client,
         \A c \in Conn :
           /\ \E k \in Nat : /\ k <= Len(input[c])
                             /\ input'[c] = SubSeq(input[c], k + 1, Len(input[c]))
           /\ \A t \in Topic :
                c \in audiences'[t] => c \in audiences[t] \/ t \in ever[c]
           /\ out'[c] = out[c] \/ \E m \in Message :
                m.topic \in ever[c] /\ out'[c] = Append(out[c], m)
  PROVE  SysInv'
<1>0. /\ IInv /\ SysTypeOK /\ TypeOK /\ AskedInv /\ TypeOK'
      /\ UNCHANGED <<peer, written, callback, subscribed, ever, delivered,
                     called, calls>>
  BY DEF SysInv, SysTypeOK, client, IInv, AudiencesMatchContexts
<1>1. SysTypeOK'
  BY <1>0 DEF SysTypeOK
<1>2. ASSUME NEW c \in Conn
      PROVE  Asks(input'[c], ever[c]) /\ About(out'[c], ever[c])
  <2>1. /\ input[c] \in Seq(Line) /\ out[c] \in Seq(Message)
        /\ Asks(input[c], ever[c]) /\ About(out[c], ever[c])
        /\ Len(input[c]) \in Nat
    BY <1>0 DEF TypeOK, AskedInv
  <2>2. PICK k \in Nat : /\ k <= Len(input[c])
                         /\ input'[c] = SubSeq(input[c], k + 1, Len(input[c]))
    OBVIOUS
  <2>3. Asks(input'[c], ever[c])
    <3>1. PICK lines \in Seq(Line) : lines = input[c] /\ Len(lines) \in Nat
      BY <2>1
    <3>2. k + 1 \in Nat /\ k + 1 > 0
      OBVIOUS
    <3>3. Asks(lines, ever[c]) => Asks(SubSeq(lines, k + 1, Len(lines)), ever[c])
      BY <3>1, <3>2, SubLines
    <3>4. QED
      BY <2>1, <2>2, <3>1, <3>3
  <2>4. About(out'[c], ever[c])
    BY <2>1, OneMore
  <2>5. QED
    BY <2>3, <2>4
<1>3. AskedInv'
  BY <1>0, <1>2 DEF AskedInv, Asks, About
<1>4. QED
  BY <1>0, <1>1, <1>3 DEF SysInv

\* What is left of the input buffers.
LEMMA IterationTakes ==
  ASSUME TypeOK, NEW result \in {"pub", "sub", "unsub", "other", "error", "continue"},
         Iteration(result), NEW c \in Conn
  PROVE  \E k \in Nat : /\ k <= Len(input[c])
                        /\ input'[c] = SubSeq(input[c], k + 1, Len(input[c]))
<1>1. input[c] \in Seq(Line) /\ Len(input[c]) \in Nat
  BY DEF TypeOK
<1>2. CASE c # handling
  <2>1. input'[c] = input[c]
    BY <1>2 DEF Iteration, TypeOK
  <2>2. input[c] = SubSeq(input[c], 0 + 1, Len(input[c]))
    BY <1>1
  <2>3. QED
    BY <1>1, <2>1, <2>2
<1>3. CASE c = handling
  <2>1. Lines(result) \in Nat /\ Lines(result) <= Len(input[c])
    <3>1. CASE result = "pub"
      <4>1. Len(input[c]) >= 2
        BY <1>1, <1>3, <3>1 DEF Iteration, ParseMessage
      <4>2. QED
        BY <1>1, <3>1, <4>1 DEF Lines
    <3>2. CASE result \in {"sub", "unsub", "other"}
      <4>1. input[c] # <<>>
        BY <1>3, <3>2 DEF Iteration, ParseMessage
      <4>2. QED
        BY <1>1, <3>2, <4>1 DEF Lines
    <3>3. CASE result \in {"error", "continue"}
      BY <1>1, <3>3 DEF Lines
    <3>4. QED
      BY <3>1, <3>2, <3>3
  <2>2. input'[c] = SubSeq(input[c], Lines(result) + 1, Len(input[c]))
    BY <1>3 DEF Iteration, TypeOK
  <2>3. QED
    BY <2>1, <2>2
<1>4. QED
  BY <1>2, <1>3

LEMMA HubStepKeeps ==
  ASSUME SysInv, HubStep
  PROVE  SysInv'
<1>0. /\ IInv /\ TypeOK /\ TypeOK' /\ AskedInv /\ IInv' /\ UNCHANGED client
      /\ HandleMessage \/ TimePublish
  <2>1. IInv /\ AskedInv
    BY DEF SysInv
  <2>2. IInv'
    BY <2>1, NextKeeps DEF HubStep, Next
  <2>3. QED
    BY <2>1, <2>2 DEF HubStep, IInv, AudiencesMatchContexts
<1> DEFINE Takes(c) ==
      \E k \in Nat : /\ k <= Len(input[c])
                     /\ input'[c] = SubSeq(input[c], k + 1, Len(input[c]))
           Audience(c) ==
      \A t \in Topic : c \in audiences'[t] => c \in audiences[t] \/ t \in ever[c]
           Sends(c) ==
      out'[c] = out[c] \/ \E m \in Message :
        m.topic \in ever[c] /\ out'[c] = Append(out[c], m)
\* Topic::publish.
<1>1. ASSUME NEW t \in Topic, Publish(t), NEW c \in Conn
      PROVE  Audience(c) /\ Sends(c)
  <2>1. Audience(c)
    BY <1>1 DEF Publish
  <2>2. ASSUME out'[c] # out[c]
        PROVE  \E m \in Message : m.topic \in ever[c] /\ out'[c] = Append(out[c], m)
    <3>1. /\ c \in audiences[t]
          /\ out'[c] = Append(out[c], [topic |-> t, n |-> last[t] + 1])
      BY <1>1, <2>2 DEF Publish, SentToAudience, Sent
    <3>2. [topic |-> t, n |-> last[t] + 1] \in Message
      <4>1. last[t] \in Nat
        BY <1>0, <1>1 DEF TypeOK
      <4>2. last[t] + 1 \in Nat \ {0}
        BY <4>1
      <4>3. QED
        BY <1>1, <4>2 DEF Message
    <3>3. t \in ever[c]
      BY <1>0, <3>1 DEF AskedInv
    <3>4. QED
      BY <3>1, <3>2, <3>3
  <2>3. QED
    BY <2>1, <2>2
<1>2. CASE DoPublish
  <2>1. CurrentTopic \in Topic
    BY <1>0, <1>2, Parsed DEF DoPublish
  <2>2. \A c \in Conn : Takes(c)
    BY <1>0, <1>2, IterationTakes DEF DoPublish
  <2>3. \A c \in Conn : Audience(c) /\ Sends(c)
    BY <1>1, <1>2, <2>1 DEF DoPublish
  <2>4. QED
    BY <1>0, <2>2, <2>3, HubKeeps
<1>3. CASE TimePublish
  <2>1. \A c \in Conn : Takes(c)
    <3> SUFFICES ASSUME NEW c \in Conn PROVE Takes(c)
      OBVIOUS
    <3>1. input[c] \in Seq(Line) /\ input'[c] = input[c]
      BY <1>0, <1>3 DEF TypeOK, TimePublish
    <3>2. Len(input[c]) \in Nat /\ SubSeq(input[c], 0 + 1, Len(input[c])) = input[c]
      BY <3>1
    <3>3. QED
      BY <3>1, <3>2
  <2>2. \A c \in Conn : Audience(c) /\ Sends(c)
    BY <1>1, <1>3, HubAssumption DEF TimePublish
  <2>3. QED
    BY <1>0, <2>1, <2>2, HubKeeps
\* doSubscribe: the line that asked for the topic is the first of the buffer.
<1>4. CASE DoSubscribe
  <2>1. /\ handling \in Conn /\ CurrentTopic \in Topic
        /\ CurrentTopic \in ever[handling]
    <3>1. handling \in Conn /\ CurrentTopic \in Topic /\ Iteration("sub")
      BY <1>0, <1>4, Parsed DEF DoSubscribe
    <3>2. input[handling] \in Seq(Line) /\ input[handling] # <<>>
      BY <1>0, <3>1 DEF TypeOK, Iteration, ParseMessage
    <3>3. input[handling][1].cmd = "sub"
      <4>1. input[handling][1].cmd
              \in {"pub", "sub", "unsub", "other", "nospace"}
        BY <3>2 DEF Line
      <4>2. QED
        BY <3>1, <3>2, <4>1 DEF Iteration, ParseMessage
    <3>4. 1 \in 1..Len(input[handling])
      BY <3>2
    <3>5. QED
      BY <1>0, <3>1, <3>3, <3>4 DEF AskedInv, Asks, CurrentTopic
  <2>2. \A c \in Conn : Takes(c)
    BY <1>0, <1>4, IterationTakes DEF DoSubscribe
  <2>3. \A c \in Conn : Audience(c)
    BY <1>0, <1>4, <2>1 DEF DoSubscribe, TypeOK
  <2>4. ASSUME NEW c \in Conn PROVE Sends(c)
    <3>1. CASE c # handling \/ out'[c] = out[c]
      BY <1>0, <1>4, <3>1 DEF DoSubscribe, TypeOK
    <3>2. CASE c = handling /\ out'[c] # out[c]
      <4>1. /\ last[CurrentTopic] > 0
            /\ out'[c] = Append(out[c], [topic |-> CurrentTopic,
                                         n |-> last[CurrentTopic]])
        BY <1>0, <1>4, <3>2 DEF DoSubscribe, TypeOK, Retained, Sent
      <4>2. [topic |-> CurrentTopic, n |-> last[CurrentTopic]] \in Message
        BY <1>0, <2>1, <4>1 DEF TypeOK, Message
      <4>3. QED
        BY <2>1, <3>2, <4>1, <4>2
    <3>3. QED
      BY <3>1, <3>2
  <2>5. QED
    BY <1>0, <2>2, <2>3, <2>4, HubKeeps
<1>5. CASE DoUnsubscribe
  <2>1. handling \in Conn /\ CurrentTopic \in Topic
    BY <1>0, <1>5, Parsed DEF DoUnsubscribe
  <2>2. \A c \in Conn : Takes(c)
    BY <1>0, <1>5, IterationTakes DEF DoUnsubscribe
  <2>3. \A c \in Conn : Audience(c) /\ Sends(c)
    BY <1>0, <1>5, <2>1 DEF DoUnsubscribe, TypeOK
  <2>4. QED
    BY <1>0, <2>2, <2>3, HubKeeps
<1>6. CASE Reject \/ Continue
  <2>1. \A c \in Conn : Takes(c)
    BY <1>0, <1>6, IterationTakes DEF Reject, Continue
  <2>2. \A c \in Conn : Audience(c) /\ Sends(c)
    BY <1>6 DEF Reject, Continue, topics
  <2>3. QED
    BY <1>0, <2>1, <2>2, HubKeeps
<1>7. QED
  BY <1>0, <1>2, <1>3, <1>4, <1>5, <1>6 DEF HandleMessage

\* What arrives at the hub is what its client wrote.
LEMMA HubReadsKeeps ==
  ASSUME SysInv, NEW c \in Conn, NEW k \in 1..MaxLines, HubReads(c, k)
  PROVE  SysInv'
<1>0. /\ IInv /\ SysTypeOK /\ TypeOK /\ AskedInv
      /\ k \in Nat /\ 1 > 0 /\ k + 1 > 0 /\ k + 1 \in Nat
  BY HubAssumption DEF SysInv, SysTypeOK
<1>1. PICK lines \in Seq(Line) :
        lines = written[c] /\ Len(lines) \in Nat /\ k <= Len(lines)
  BY <1>0 DEF SysTypeOK, HubReads
<1>2. PICK segment \in Seq(Line) : segment = SubSeq(lines, 1, k)
  BY <1>0, <1>1, SubLines
<1>3. PICK rest \in Seq(Line) : rest = SubSeq(lines, k + 1, Len(lines))
  <2>1. Len(lines) <= Len(lines)
    BY <1>1
  <2>2. SubSeq(lines, k + 1, Len(lines)) \in Seq(Line)
    BY <1>0, <1>1, <2>1, SubLines
  <2>3. QED
    BY <2>2
<1>4. Asks(segment, ever[c]) /\ Asks(rest, ever[c])
  <2>1. Asks(lines, ever[c])
    BY <1>0, <1>1 DEF AskedInv
  <2>2. Asks(SubSeq(lines, 1, k), ever[c])
    BY <1>0, <1>1, <2>1, SubLines
  <2>3. Asks(SubSeq(lines, k + 1, Len(lines)), ever[c])
    <3>1. k + 1 \in Nat /\ k + 1 > 0 /\ Len(lines) \in Nat /\ Len(lines) <= Len(lines)
      BY <1>0, <1>1
    <3>2. QED
      BY ONLY lines \in Seq(Line), <2>1, <3>1, SubLines
  <2>4. QED
    BY <1>2, <1>3, <2>2, <2>3
<1>5. /\ OnMessage(c, segment)
      /\ written' = [written EXCEPT ![c] = rest]
      /\ UNCHANGED <<peer, callback, subscribed, ever, delivered, called, calls>>
  BY <1>1, <1>2, <1>3 DEF HubReads
<1>6. IInv'
  BY <1>0, <1>5, OnMessageKeeps
<1>7. SysTypeOK'
  <2>1. TypeOK'
    BY <1>6 DEF IInv, AudiencesMatchContexts
  <2>2. QED
    BY <1>0, <1>5, <2>1 DEF SysTypeOK
<1>8. AskedInv'
  <2>1. /\ UNCHANGED <<audiences, out, ever, called>>
        /\ input' = [input EXCEPT ![c] = input[c] \o segment]
    BY <1>5 DEF OnMessage, topics
  <2>2. Asks(input[c] \o segment, ever[c])
    <3>1. PICK buffer \in Seq(Line) : buffer = input[c]
      BY <1>0 DEF TypeOK
    <3>2. Asks(buffer, ever[c])
      BY <1>0, <3>1 DEF AskedInv
    <3>3. Asks(buffer \o segment, ever[c])
      BY <1>4, <3>2, MoreLines
    <3>4. QED
      BY <3>1, <3>3
  <2>3. \A d \in Conn : Asks(input'[d], ever[d]) /\ Asks(written'[d], ever[d])
    BY <1>0, <1>4, <1>5, <2>1, <2>2 DEF AskedInv, TypeOK, SysTypeOK
  <2>4. QED
    BY <1>0, <2>1, <2>3 DEF AskedInv, Asks, About
<1>9. QED
  BY <1>6, <1>7, <1>8 DEF SysInv

LEMMA ClientReadsKeeps ==
  ASSUME SysInv, NEW c \in Conn, ClientReads(c)
  PROVE  SysInv'
<1>0. /\ IInv /\ SysTypeOK /\ TypeOK /\ AskedInv
      /\ UNCHANGED <<vars, peer, written, callback, subscribed, ever, calls>>
      /\ UNCHANGED <<conn, input, context, audiences, last, handling, fed, out>>
  BY DEF SysInv, SysTypeOK, ClientReads, vars, topics
<1>1. IInv'
  BY <1>0, NextKeeps
<1>2. PICK m \in Message : m = out[c][delivered[c] + 1] /\ m.topic \in ever[c]
  <2>1. /\ out[c] \in Seq(Message) /\ delivered[c] \in Nat
        /\ delivered[c] < Len(out[c]) /\ Len(out[c]) \in Nat
    BY <1>0 DEF ClientReads, TypeOK, SysTypeOK
  <2>2. delivered[c] + 1 \in 1..Len(out[c])
    BY <2>1
  <2>3. out[c][delivered[c] + 1] \in Message
    BY <2>1, <2>2
  <2>4. QED
    BY <1>0, <2>2, <2>3 DEF AskedInv, About
<1>3. called' \in [Conn -> Seq(Message)] /\ delivered' \in [Conn -> Nat]
  BY <1>0, <1>2 DEF ClientReads, SysTypeOK
<1>4. SysTypeOK'
  BY <1>0, <1>3 DEF SysTypeOK, TypeOK
<1>5. \A d \in Conn : About(called'[d], ever[d])
  <2>1. PICK s \in Seq(Message) : s = called[c]
    BY <1>0 DEF SysTypeOK
  <2>2. About(Append(s, m), ever[c])
    BY <1>0, <1>2, <2>1, OneMore DEF AskedInv
  <2>3. QED
    BY <1>0, <1>2, <2>1, <2>2 DEF ClientReads, SysTypeOK, AskedInv
<1>6. AskedInv'
  BY <1>0, <1>5 DEF AskedInv, Asks, About
<1>7. QED
  BY <1>1, <1>4, <1>6 DEF SysInv

\* The rest opens and closes connections.
LEMMA LinksKeep ==
  ASSUME SysInv, NEW c \in Conn,
         Start(c) \/ Stop(c) \/ Connect(c) \/ HubSeesClose(c) \/ ClientSeesClose(c)
  PROVE  SysInv'
<1>0. /\ IInv /\ SysTypeOK /\ TypeOK /\ AskedInv
      /\ UNCHANGED <<written, callback, subscribed, ever, delivered, called, calls>>
      /\ UNCHANGED out
  BY DEF SysInv, SysTypeOK, Start, Stop, Connect, HubSeesClose, ClientSeesClose,
         client, vars, OnConnectionUp, OnConnectionDown
<1>1. IInv'
  <2>1. UNCHANGED vars \/ OnConnectionUp(c) \/ OnConnectionDown(c)
    BY DEF Start, Stop, Connect, HubSeesClose, ClientSeesClose
  <2>2. QED
    BY <1>0, <2>1, NextKeeps, OnConnectionUpKeeps, OnConnectionDownKeeps
<1>2. peer' \in [Conn -> {"idle", "connecting", "up", "closing", "down"}]
  BY <1>0 DEF SysTypeOK, Start, Stop, Connect, HubSeesClose, ClientSeesClose, client
<1>3. SysTypeOK'
  BY <1>0, <1>1, <1>2 DEF SysTypeOK, IInv, AudiencesMatchContexts
<1>4. ASSUME NEW d \in Conn
      PROVE  /\ input'[d] = input[d] \/ input'[d] = <<>>
             /\ \A t \in Topic : d \in audiences'[t] => d \in audiences[t]
  <2>1. CASE UNCHANGED <<input, audiences>>
    BY <2>1
  <2>2. CASE OnConnectionDown(c)
    BY <1>0, <2>2 DEF OnConnectionDown, AudiencesWithout, TypeOK
  <2>3. QED
    BY <2>1, <2>2 DEF Start, Stop, Connect, HubSeesClose, ClientSeesClose,
       vars, topics, OnConnectionUp
<1>5. AskedInv'
  BY <1>0, <1>4 DEF AskedInv, Asks, About
<1>6. QED
  BY <1>1, <1>3, <1>5 DEF SysInv

LEMMA SysNextKeeps == SysInv /\ [SysNext]_sysvars => SysInv'
<1> SUFFICES ASSUME SysInv, [SysNext]_sysvars PROVE SysInv'
  OBVIOUS
<1>1. CASE UNCHANGED sysvars
  <2>1. UNCHANGED <<vars, peer, written, callback, subscribed, ever, delivered,
                    called, calls, conn, input, context, audiences, last,
                    handling, fed, out>>
    BY <1>1 DEF sysvars, client, vars, topics
  <2>2. IInv'
    BY <2>1, NextKeeps DEF SysInv
  <2>3. QED
    BY <2>1, <2>2 DEF SysInv, SysTypeOK, TypeOK, AskedInv
<1>2. CASE HubStep
  BY <1>2, HubStepKeeps
<1>3. ASSUME NEW c \in Conn, NEW t \in Topic,
             Subscribe(c, t) \/ Unsubscribe(c, t) \/ PublishContent(c, t)
      PROVE  SysInv'
  BY <1>3, UserKeeps
<1>4. ASSUME NEW c \in Conn,
             Start(c) \/ Stop(c) \/ Connect(c) \/ HubSeesClose(c) \/ ClientSeesClose(c)
      PROVE  SysInv'
  BY <1>4, LinksKeep
<1>5. ASSUME NEW c \in Conn, NEW k \in 1..MaxLines, HubReads(c, k)
      PROVE  SysInv'
  BY <1>5, HubReadsKeeps
<1>6. ASSUME NEW c \in Conn, ClientReads(c)
      PROVE  SysInv'
  BY <1>6, ClientReadsKeeps
<1>7. QED
  BY <1>1, <1>2, <1>3, <1>4, <1>5, <1>6 DEF SysNext

\* The hub with the clients of pubsub.cc, any number of them: everything the
\* hub guarantees holds here too, and whatever is on its way to a client was
\* asked for by that client.
THEOREM SystemInvariance == SysSpec => []SysInv
<1>1. SysInit => SysInv
  BY InitSysInv
<1>2. SysInv /\ [SysNext]_sysvars => SysInv'
  BY SysNextKeeps
<1>3. QED
  BY <1>1, <1>2, PTL DEF SysSpec

\* subscribeCallback_ is never called for a topic its client did not ask for,
\* although the client itself does not look at the topic.
THEOREM CallbacksWereAskedFor == SysSpec => []OnlyWhatWasAskedFor
<1>1. SysInv => OnlyWhatWasAskedFor
  BY DEF SysInv, AskedInv, About, OnlyWhatWasAskedFor
<1>2. QED
  BY <1>1, SystemInvariance, PTL
-----------------------------------------------------------------------------
(* What the hub makes of a client's lines. *)

\* What no cut can make the hub see: half a publication at the end of all that
\* was written, or the content of one without its first line.  Then a content
\* is never the first line when the hub parses, and HubFollowsClients is
\* inductive.
Whole(lines) ==
  \A i \in 1..Len(lines) :
    /\ lines[i].cmd # "nospace"
    /\ lines[i].cmd = "pub" => i < Len(lines) /\ lines[i + 1].cmd = "other"
    /\ lines[i].cmd = "other" => i > 1 /\ lines[i - 1].cmd = "pub"

Unused(c) ==
  /\ conn[c] = "absent" /\ context[c] = {} /\ subscribed[c] = {}
  /\ input[c] = <<>> /\ written[c] = <<>>

FollowInv ==
  \A c \in Conn :
    /\ Whole(Pending(c))
    /\ conn[c] # "disconnecting"
    /\ peer[c] \in {"idle", "connecting"} => Unused(c)
    /\ peer[c] = "up" =>
         /\ conn[c] = "connected"
         /\ \A t \in Topic :
              t \in subscribed[c] <=> Listens(Pending(c), context[c], t)

\* What a command does to the topics of its connection, and the lines it has.
Done(line, has) == IF line.cmd = "sub" THEN has \cup {line.topic}
                   ELSE IF line.cmd = "unsub" THEN has \ {line.topic} ELSE has
Length(line) == IF line.cmd = "pub" THEN 2 ELSE 1

LEMMA CommandsOf ==
  ASSUME NEW s \in Seq(Line), NEW i \in 1..Len(s)
  PROVE  s[i].cmd \in {"pub", "sub", "unsub", "other", "nospace"}
         /\ s[i].topic \in Topic
BY ElementOfSeq, HubAssumption DEF Line

\* The hub carries out the first command of what is pending.
Advances(s, r, k) ==
  /\ k <= Len(s) /\ Len(r) = Len(s) - k
  /\ \A i \in 1..Len(r) : r[i] = s[i + k]

LEMMA FirstDoneWhole ==
  ASSUME NEW s \in Seq(Line), NEW r \in Seq(Line), NEW k \in {1, 2},
         Whole(s), Advances(s, r, k), s[k].cmd # "pub"
  PROVE  Whole(r)
<1>1. /\ Len(s) \in Nat /\ Len(r) = Len(s) - k /\ k \in Nat /\ Len(r) \in Nat
      /\ \A i \in 1..Len(r) : i + k \in 1..Len(s) /\ r[i] = s[i + k]
  BY DEF Advances
<1> SUFFICES ASSUME NEW i \in 1..Len(r)
             PROVE  /\ r[i].cmd # "nospace"
                    /\ r[i].cmd = "pub" => i < Len(r) /\ r[i + 1].cmd = "other"
                    /\ r[i].cmd = "other" => i > 1 /\ r[i - 1].cmd = "pub"
  BY DEF Whole
<1>2. r[i].cmd # "nospace"
  BY <1>1 DEF Whole
<1>3. ASSUME r[i].cmd = "pub" PROVE i < Len(r) /\ r[i + 1].cmd = "other"
  <2>1. i + k < Len(s) /\ s[(i + k) + 1].cmd = "other"
    BY <1>1, <1>3 DEF Whole
  <2>2. i + 1 \in 1..Len(r) /\ (i + 1) + k = (i + k) + 1
    BY <1>1, <2>1
  <2>3. r[i + 1] = s[(i + 1) + k]
    BY <1>1, <2>2
  <2>4. i < Len(r)
    BY <1>1, <2>1
  <2>5. QED
    BY <2>1, <2>2, <2>3, <2>4
<1>4. ASSUME r[i].cmd = "other" PROVE i > 1 /\ r[i - 1].cmd = "pub"
  <2>1. s[(i + k) - 1].cmd = "pub"
    BY <1>1, <1>4 DEF Whole
  <2>2. i # 1
    <3>1. i = 1 => (i + k) - 1 = k
      BY <1>1
    <3>2. QED
      BY <2>1, <3>1
  <2>3. i - 1 \in 1..Len(r) /\ (i - 1) + k = (i + k) - 1
    BY <1>1, <2>2
  <2>4. r[i - 1] = s[(i - 1) + k]
    BY <1>1, <2>3
  <2>5. i > 1
    BY <2>2
  <2>6. QED
    BY <2>1, <2>3, <2>4, <2>5
<1>5. QED
  BY <1>2, <1>3, <1>4

\* The first k lines have no order about t.
Later(s, k, t) == \A i \in Orders(s, t) : i > k

LEMMA FirstDoneListens ==
  ASSUME NEW s \in Seq(Line), NEW r \in Seq(Line), NEW k \in {1, 2},
         Advances(s, r, k), NEW has, NEW left, NEW t,
         Later(s, k, t) => (t \in has <=> t \in left),
         ~Later(s, k, t) => k = 1 /\ (t \in left <=> s[1].cmd = "sub")
  PROVE  Listens(s, has, t) <=> Listens(r, left, t)
<1>1. /\ Len(s) \in Nat /\ Len(r) = Len(s) - k /\ k \in Nat /\ Len(r) \in Nat
      /\ \A i \in 1..Len(r) : i + k \in 1..Len(s) /\ r[i] = s[i + k]
  BY DEF Advances
<1>2. \A i \in Orders(r, t) :
        i \in Nat \ {0} /\ i + k \in Orders(s, t) /\ s[i + k] = r[i]
  BY <1>1 DEF Orders
<1>3. \A i \in Orders(s, t) :
        /\ i \in Nat \ {0}
        /\ i > k => i - k \in Orders(r, t) /\ r[i - k] = s[i]
  <2> SUFFICES ASSUME NEW i \in Orders(s, t)
               PROVE  /\ i \in Nat \ {0}
                      /\ i > k => i - k \in Orders(r, t) /\ r[i - k] = s[i]
    OBVIOUS
  <2>1. i \in 1..Len(s)
    BY DEF Orders
  <2>2. i > k => i - k \in 1..Len(r) /\ (i - k) + k = i
    BY <1>1, <2>1
  <2>3. i > k => r[i - k] = s[i]
    BY <1>1, <2>2
  <2>4. QED
    BY <1>1, <2>1, <2>2, <2>3 DEF Orders
<1>4. CASE Orders(r, t) # {}
  <2>1. PICK m \in Orders(r, t) : TRUE
    BY <1>4
  <2>2. m + k \in Orders(s, t) /\ m + k > k
    BY <1>1, <1>2
  <2>3. ASSUME NEW i \in Orders(s, t), s[i].cmd = "sub",
               \A j \in Orders(s, t) : j <= i
        PROVE  /\ i - k \in Orders(r, t) /\ r[i - k].cmd = "sub"
               /\ \A j \in Orders(r, t) : j <= i - k
    <3>1. i \in Nat /\ i > k
      BY <1>1, <1>2, <1>3, <2>2, <2>3
    <3>2. \A j \in Orders(r, t) : j + k <= i /\ j \in Nat
      BY <1>2, <2>3
    <3>3. QED
      BY <1>1, <1>3, <2>3, <3>1, <3>2
  <2>4. ASSUME NEW i \in Orders(r, t), r[i].cmd = "sub",
               \A j \in Orders(r, t) : j <= i
        PROVE  /\ i + k \in Orders(s, t) /\ s[i + k].cmd = "sub"
               /\ \A j \in Orders(s, t) : j <= i + k
    <3>1. ASSUME NEW j \in Orders(s, t) PROVE j <= i + k
      <4>1. i \in Nat /\ j \in Nat
        BY <1>2, <1>3
      <4>2. CASE j > k
        <5>1. j - k <= i
          BY <1>3, <2>4, <4>2
        <5>2. QED
          BY <1>1, <4>1, <5>1
      <4>3. CASE ~(j > k)
        BY <1>1, <4>1, <4>3
      <4>4. QED
        BY <4>2, <4>3
    <3>2. QED
      BY <1>2, <2>4, <3>1
  <2>5. QED
    BY <1>4, <2>2, <2>3, <2>4 DEF Listens
<1>5. CASE Orders(r, t) = {}
  <2>1. \A i \in Orders(s, t) : i \in Nat \ {0} /\ i <= k
    BY <1>1, <1>3, <1>5
  <2>2. Listens(r, left, t) <=> t \in left
    BY <1>5 DEF Listens
  <2>3. CASE Orders(s, t) = {}
    BY <2>2, <2>3 DEF Listens, Later
  <2>4. CASE Orders(s, t) # {}
    <3>1. k = 1 /\ (t \in left <=> s[1].cmd = "sub")
      <4>1. ~Later(s, k, t)
        BY <1>1, <2>1, <2>4 DEF Later
      <4>2. QED
        BY <4>1
    <3>2. \A i \in Orders(s, t) : i = 1
      BY <2>1, <3>1
    <3>3. Listens(s, has, t) <=> s[1].cmd = "sub"
      BY <2>4, <3>2 DEF Listens
    <3>4. QED
      BY <2>2, <3>1, <3>3
  <2>5. QED
    BY <2>3, <2>4
<1>6. QED
  BY <1>4, <1>5

\* The client adds lines to what is pending.
LEMMA JoinLines ==
  ASSUME NEW s \in Seq(Line), NEW u \in Seq(Line)
  PROVE  /\ s \o u \in Seq(Line)
         /\ Len(s \o u) = Len(s) + Len(u)
         /\ \A i \in 1..Len(s) : (s \o u)[i] = s[i]
         /\ \A i \in 1..Len(u) : (s \o u)[Len(s) + i] = u[i]
         /\ Len(s) \in Nat /\ Len(u) \in Nat
OBVIOUS

LEMMA FirstOfJoined ==
  ASSUME NEW s \in Seq(Line), NEW u \in Seq(Line), s # <<>>
  PROVE  1 \in 1..Len(s \o u) /\ (s \o u)[1] = s[1]
<1>1. 1 \in 1..Len(s)
  OBVIOUS
<1>2. QED
  BY <1>1, JoinLines

LEMMA LinesAssociative ==
  \A x, y, z \in Seq(Line) : (x \o y) \o z = x \o (y \o z)
BY ConcatAssociative

LEMMA PairOfLines ==
  ASSUME NEW x \in Line, NEW y \in Line
  PROVE  /\ <<x, y>> \in Seq(Line) /\ Len(<<x, y>>) = 2
         /\ <<x, y>>[1] = x /\ <<x, y>>[2] = y
OBVIOUS

LEMMA AddedWhole ==
  ASSUME NEW s \in Seq(Line), NEW u \in Seq(Line), Whole(s), Whole(u)
  PROVE  Whole(s \o u)
<1>1. PICK w \in Seq(Line) :
        /\ w = s \o u /\ Len(w) = Len(s) + Len(u)
        /\ \A i \in 1..Len(s) : w[i] = s[i]
        /\ \A i \in 1..Len(u) : w[Len(s) + i] = u[i]
        /\ Len(s) \in Nat /\ Len(u) \in Nat
  BY JoinLines
<1> SUFFICES ASSUME NEW i \in 1..Len(w)
             PROVE  /\ w[i].cmd # "nospace"
                    /\ w[i].cmd = "pub" => i < Len(w) /\ w[i + 1].cmd = "other"
                    /\ w[i].cmd = "other" => i > 1 /\ w[i - 1].cmd = "pub"
  BY <1>1 DEF Whole
<1>2. CASE i \in 1..Len(s)
  <2>1. w[i] = s[i]
    BY <1>1, <1>2
  <2>2. w[i].cmd = "pub" => i < Len(s) /\ w[i + 1].cmd = "other"
    <3>1. s[i].cmd = "pub" => i + 1 \in 1..Len(s) /\ s[i + 1].cmd = "other"
      BY <1>1, <1>2 DEF Whole
    <3>2. QED
      BY <1>1, <2>1, <3>1
  <2>3. w[i].cmd = "other" => i > 1 /\ w[i - 1].cmd = "pub"
    <3>1. s[i].cmd = "other" => i - 1 \in 1..Len(s) /\ s[i - 1].cmd = "pub"
      BY <1>1, <1>2 DEF Whole
    <3>2. QED
      BY <1>1, <2>1, <3>1
  <2>4. QED
    BY <1>1, <1>2, <2>1, <2>2, <2>3 DEF Whole
<1>3. CASE i \notin 1..Len(s)
  <2>1. PICK j \in 1..Len(u) : i = Len(s) + j
    <3>1. i - Len(s) \in 1..Len(u) /\ i = Len(s) + (i - Len(s))
      BY <1>1, <1>3
    <3>2. QED
      BY <3>1
  <2>2. w[i] = u[j]
    BY <1>1, <2>1
  <2>3. w[i].cmd = "pub" => i < Len(w) /\ w[i + 1].cmd = "other"
    <3>1. u[j].cmd = "pub" => j + 1 \in 1..Len(u) /\ u[j + 1].cmd = "other"
      BY <1>1 DEF Whole
    <3>2. Len(s) + (j + 1) = i + 1
      BY <1>1, <2>1
    <3>3. QED
      BY <1>1, <2>1, <2>2, <3>1, <3>2
  <2>4. w[i].cmd = "other" => i > 1 /\ w[i - 1].cmd = "pub"
    <3>1. u[j].cmd = "other" => j - 1 \in 1..Len(u) /\ u[j - 1].cmd = "pub"
      BY <1>1 DEF Whole
    <3>2. Len(s) + (j - 1) = i - 1
      BY <1>1, <2>1
    <3>3. QED
      BY <1>1, <2>1, <2>2, <3>1, <3>2
  <2>5. QED
    BY <2>2, <2>3, <2>4 DEF Whole
<1>4. QED
  BY <1>2, <1>3

\* A content and its first line say nothing of subscriptions.
LEMMA AddedListens ==
  ASSUME NEW s \in Seq(Line), NEW u \in Seq(Line), NEW has, NEW t,
         Orders(u, t) \subseteq {1}
  PROVE  Listens(s \o u, has, t) <=>
           IF Orders(u, t) = {} THEN Listens(s, has, t) ELSE u[1].cmd = "sub"
<1>1. PICK w \in Seq(Line) :
        /\ w = s \o u /\ Len(w) = Len(s) + Len(u)
        /\ \A i \in 1..Len(s) : w[i] = s[i]
        /\ \A i \in 1..Len(u) : w[Len(s) + i] = u[i]
        /\ Len(s) \in Nat /\ Len(u) \in Nat
  BY JoinLines
<1>2. \A i \in Orders(s, t) : i \in Orders(w, t) /\ w[i] = s[i] /\ i \in 1..Len(s)
  BY <1>1 DEF Orders
<1>3. \A i \in Orders(w, t) : i \in 1..Len(w)
  BY DEF Orders
<1>4. ASSUME NEW i \in Orders(w, t)
      PROVE  i \in Orders(s, t) \/ (1 \in Orders(u, t) /\ i = Len(s) + 1)
  <2>1. CASE i \in 1..Len(s)
    BY <1>1, <2>1 DEF Orders
  <2>2. CASE i \notin 1..Len(s)
    <3>1. PICK j \in 1..Len(u) : i = Len(s) + j
      <4>1. i - Len(s) \in 1..Len(u) /\ i = Len(s) + (i - Len(s))
        BY <1>1, <1>3, <2>2
      <4>2. QED
        BY <4>1
    <3>2. j \in Orders(u, t)
      BY <1>1, <3>1 DEF Orders
    <3>3. QED
      BY <3>1, <3>2
  <2>3. QED
    BY <2>1, <2>2
<1>5. CASE Orders(u, t) = {}
  <2>1. Orders(w, t) = Orders(s, t)
    BY <1>2, <1>4, <1>5
  <2>2. QED
    BY <1>1, <1>2, <1>5, <2>1 DEF Listens
<1>6. CASE Orders(u, t) # {}
  <2>1. 1 \in Orders(u, t) /\ 1 \in 1..Len(u)
    BY <1>6 DEF Orders
  <2>2. Len(s) + 1 \in Orders(w, t) /\ w[Len(s) + 1] = u[1]
    BY <1>1, <2>1 DEF Orders
  <2>3. \A i \in Orders(w, t) : i \in Nat /\ i <= Len(s) + 1
    BY <1>1, <1>2, <1>4
  <2>4. \A i \in Orders(w, t) :
          (\A j \in Orders(w, t) : j <= i) => i = Len(s) + 1
    BY <1>1, <2>2, <2>3
  <2>5. QED
    BY <1>1, <1>6, <2>2, <2>3, <2>4 DEF Listens
<1>7. QED
  BY <1>5, <1>6

-----------------------------------------------------------------------------
(* The steps again, now for what the hub makes of the lines. *)

PendingInv == SysInv /\ FollowInv

LEMMA PendingTypes ==
  ASSUME SysInv, NEW c \in Conn
  PROVE  /\ input[c] \in Seq(Line) /\ written[c] \in Seq(Line)
         /\ Pending(c) \in Seq(Line)
BY JoinLines DEF SysInv, SysTypeOK, TypeOK, Pending

\* A connection whose streams and topics stay as they are.
Same(c) ==
  /\ Pending(c)' = Pending(c) /\ context'[c] = context[c]
  /\ subscribed'[c] = subscribed[c] /\ conn'[c] = conn[c]
  /\ peer'[c] = peer[c] /\ input'[c] = input[c] /\ written'[c] = written[c]

FollowsAt(c) ==
  /\ Whole(Pending(c))
  /\ conn[c] # "disconnecting"
  /\ peer[c] \in {"idle", "connecting"} => Unused(c)
  /\ peer[c] = "up" =>
       /\ conn[c] = "connected"
       /\ \A t \in Topic :
            t \in subscribed[c] <=> Listens(Pending(c), context[c], t)

LEMMA SameKeeps ==
  ASSUME NEW c \in Conn, FollowsAt(c), Same(c)
  PROVE  FollowsAt(c)'
BY DEF FollowsAt, Same, Unused

\* The lines an iteration of the loop in onMessage leaves.
LEMMA RestOfLines ==
  ASSUME NEW s \in Seq(Line), NEW k \in {1, 2}, k <= Len(s)
  PROVE  /\ SubSeq(s, k + 1, Len(s)) \in Seq(Line)
         /\ Len(SubSeq(s, k + 1, Len(s))) = Len(s) - k
         /\ \A i \in 1..Len(s) - k : SubSeq(s, k + 1, Len(s))[i] = s[i + k]
<1>1. k + 1 \in Int /\ Len(s) \in Int /\ k + 1 > 0
      /\ \A i \in k + 1..Len(s) : s[i] \in Line
  BY ElementOfSeq
<1>2. /\ SubSeq(s, k + 1, Len(s)) \in Seq(Line)
      /\ Len(SubSeq(s, k + 1, Len(s))) =
           IF k + 1 <= Len(s) THEN Len(s) - (k + 1) + 1 ELSE 0
      /\ \A i \in 1..Len(s) - (k + 1) + 1 :
           SubSeq(s, k + 1, Len(s))[i] = s[(k + 1) + i - 1]
  BY <1>1, SubSeqProperties
<1>3. QED
  BY <1>1, <1>2

LEMMA IterationAdvances ==
  ASSUME PendingInv, NEW result \in {"pub", "sub", "unsub"}, Iteration(result)
  PROVE  LET c == handling
             s == Pending(c)
             r == SubSeq(input[c], Lines(result) + 1, Len(input[c])) \o written[c]
         IN  /\ r \in Seq(Line) /\ s # <<>> /\ 1 \in 1..Len(s)
             /\ s[1] = input[c][1] /\ s[1].cmd = result
             /\ Advances(s, r, Lines(result)) /\ Whole(r)
             /\ Lines(result) = IF result = "pub" THEN 2 ELSE 1
<1> DEFINE c == handling
           a == input[c]
           s == Pending(c)
           k == Lines(result)
           b == SubSeq(a, k + 1, Len(a))
           r == b \o written[c]
<1>1. /\ c \in Conn /\ a \in Seq(Line) /\ written[c] \in Seq(Line)
      /\ s \in Seq(Line) /\ Whole(s) /\ a # <<>> /\ Len(a) \in Nat
  BY PendingTypes
     DEF PendingInv, FollowInv, SysInv, SysTypeOK, TypeOK, Iteration, Idle, ParseMessage
<1>2. /\ k = IF result = "pub" THEN 2 ELSE 1
      /\ k \in {1, 2}
  BY DEF Lines
<1>3. a[1].cmd = result /\ k <= Len(a)
  <2>1. a[1].cmd \in {"pub", "sub", "unsub", "other", "nospace"}
    BY <1>1, CommandsOf
  <2>2. QED
    BY <1>1, <1>2, <2>1 DEF Iteration, ParseMessage
<1>4. /\ b \in Seq(Line) /\ Len(b) = Len(a) - k
      /\ \A i \in 1..Len(b) : b[i] = a[i + k]
  <2> HIDE DEF k, a
  <2>1. k \in {1, 2} /\ k <= Len(a)
    BY <1>2, <1>3
  <2>2. QED
    BY <1>1, <2>1, RestOfLines
<1>5. /\ s = a \o written[c] /\ Len(s) = Len(a) + Len(written[c])
      /\ \A i \in 1..Len(a) : s[i] = a[i]
      /\ \A i \in 1..Len(written[c]) : s[Len(a) + i] = written[c][i]
      /\ Len(written[c]) \in Nat
  BY <1>1, JoinLines DEF Pending
<1>6. /\ r \in Seq(Line) /\ Len(r) = Len(b) + Len(written[c])
      /\ \A i \in 1..Len(b) : r[i] = b[i]
      /\ \A i \in 1..Len(written[c]) : r[Len(b) + i] = written[c][i]
  BY <1>1, <1>4, JoinLines
<1> HIDE DEF a, s, k, b, r
<1>len. /\ Len(a) \in Nat /\ k \in Nat /\ Len(b) \in Nat
        /\ Len(written[c]) \in Nat /\ Len(r) \in Nat
        /\ Len(b) = Len(a) - k /\ Len(r) = Len(b) + Len(written[c])
        /\ Len(s) = Len(a) + Len(written[c])
  BY <1>1, <1>2, <1>3, <1>4, <1>5, <1>6
<1>7. Advances(s, r, k)
  <2>1. ASSUME NEW i \in 1..Len(r) PROVE r[i] = s[i + k]
    <3>1. CASE i \in 1..Len(b)
      <4>1. i + k \in 1..Len(a)
        BY <1>len, <3>1
      <4>2. QED
        BY <1>4, <1>5, <1>6, <3>1, <4>1
    <3>2. CASE i \notin 1..Len(b)
      <4>1. PICK j \in 1..Len(written[c]) : i = Len(b) + j
        <5>1. /\ i - Len(b) \in 1..Len(written[c])
              /\ i = Len(b) + (i - Len(b))
          BY <1>len, <3>2
        <5>2. QED
          BY <5>1
      <4>2. i + k = Len(a) + j
        BY <1>len, <4>1
      <4>3. QED
        BY <1>5, <1>6, <4>1, <4>2
    <3>3. QED
      BY <3>1, <3>2
  <2>2. k <= Len(s) /\ Len(r) = Len(s) - k
    BY <1>3, <1>len
  <2>3. QED
    BY <2>1, <2>2 DEF Advances
<1>8. 1 \in 1..Len(s) /\ s # <<>> /\ s[1] = a[1]
  BY <1>1, <1>2, <1>3, <1>5
<1>9. s[k].cmd # "pub"
  <2>1. CASE result = "pub"
    <3>1. s[1 + 1].cmd = "other" /\ k = 2
      BY <1>1, <1>2, <1>3, <1>8, <2>1 DEF Whole
    <3>2. QED
      BY <3>1
  <2>2. CASE result # "pub"
    BY <1>2, <1>3, <1>8, <2>2
  <2>3. QED
    BY <2>1, <2>2
<1>10. Whole(r)
  BY <1>1, <1>2, <1>6, <1>7, <1>9, FirstDoneWhole
<1>11. QED
  BY <1>2, <1>3, <1>6, <1>7, <1>8, <1>10 DEF a, s, k, b, r

\* What the hub parses is never a content, nor a line it cannot parse.
LEMMA NothingRejected == ASSUME PendingInv PROVE ~Reject
<1> SUFFICES ASSUME Reject PROVE FALSE
  OBVIOUS
<1> DEFINE c == handling
<1>1. /\ c \in Conn /\ input[c] \in Seq(Line) /\ written[c] \in Seq(Line)
      /\ input[c] # <<>> /\ Whole(Pending(c))
  BY PendingTypes
     DEF Reject, PendingInv, FollowInv, SysInv, SysTypeOK, TypeOK, Iteration, Idle,
         ParseMessage
<1>2. input[c][1].cmd \in {"other", "nospace"}
  <2>1. input[c][1].cmd \in {"pub", "sub", "unsub", "other", "nospace"}
    BY <1>1, CommandsOf
  <2>2. QED
    BY <1>1, <2>1 DEF Reject, Iteration, ParseMessage
<1>3. 1 \in 1..Len(Pending(c)) /\ Pending(c)[1] = input[c][1]
  <2>1. PICK a, b \in Seq(Line) : a = input[c] /\ b = written[c] /\ a # <<>>
    BY <1>1
  <2>2. 1 \in 1..Len(a \o b) /\ (a \o b)[1] = a[1]
    BY <2>1, FirstOfJoined
  <2>3. Pending(c) = a \o b
    BY <2>1 DEF Pending
  <2>4. QED
    BY <2>1, <2>2, <2>3
<1>4. QED
  BY <1>1, <1>2, <1>3 DEF Whole

LEMMA HubFollows ==
  ASSUME PendingInv, HubStep
  PROVE  FollowInv'
<1>0. /\ SysInv /\ SysTypeOK /\ TypeOK /\ \A d \in Conn : FollowsAt(d)
      /\ UNCHANGED <<peer, written, subscribed>>
  BY DEF PendingInv, FollowInv, FollowsAt, SysInv, SysTypeOK, HubStep, client
<1> SUFFICES ASSUME NEW d \in Conn PROVE FollowsAt(d)'
  BY DEF FollowInv, FollowsAt
\* The three commands do to the context what Listens says of their line.
<1>1. ASSUME NEW result \in {"pub", "sub", "unsub"}, Iteration(result),
             conn' = conn,
             \/ result = "pub" /\ context' = context
             \/ /\ result = "sub"
                /\ context' = [context EXCEPT
                                 ![handling] = @ \cup {CurrentTopic}]
             \/ /\ result = "unsub"
                /\ context' = [context EXCEPT
                                 ![handling] = @ \ {CurrentTopic}]
      PROVE  FollowsAt(d)'
  <2>1. handling \in Conn /\ CurrentTopic \in Topic
    BY <1>0, <1>1, Parsed
  <2>2. CASE d # handling
    <3>1. input'[d] = input[d] /\ context'[d] = context[d]
      BY <1>0, <1>1, <2>1, <2>2 DEF Iteration, TypeOK
    <3>2. Same(d)
      BY <1>0, <1>1, <3>1 DEF Same, Pending
    <3>3. QED
      BY <1>0, <3>2, SameKeeps
  <2>3. CASE d = handling
    <3> DEFINE k == Lines(result)
    <3>1. PICK s, r :
            /\ s = Pending(d) /\ s \in Seq(Line)
            /\ r = SubSeq(input[d], k + 1, Len(input[d])) \o written[d]
            /\ r \in Seq(Line) /\ s # <<>> /\ 1 \in 1..Len(s)
            /\ s[1] = input[d][1] /\ s[1].cmd = result
            /\ Advances(s, r, k) /\ Whole(r)
            /\ k = IF result = "pub" THEN 2 ELSE 1
            /\ Whole(s)
      BY <1>0, <1>1, <2>3, IterationAdvances, PendingTypes DEF FollowsAt
    <3>2. Pending(d)' = r
      BY <1>0, <1>1, <2>1, <2>3, <3>1 DEF Pending, Iteration, TypeOK
    <3>3. s[1].topic = CurrentTopic
      BY <2>3, <3>1 DEF CurrentTopic
    <3>4. ASSUME NEW t \in Topic
          PROVE  Listens(s, context[d], t) <=> Listens(r, context'[d], t)
      <4>1. 1 \in Orders(s, t) <=> result # "pub" /\ t = CurrentTopic
        BY <1>1, <3>1, <3>3 DEF Orders
      <4>2. 2 \notin Orders(s, t) \/ result # "pub"
        <5>1. result = "pub" => s[1 + 1].cmd = "other"
          BY <3>1 DEF Whole
        <5>2. result = "pub" => s[2].cmd = "other"
          BY <5>1
        <5>3. QED
          BY <5>2 DEF Orders
      <4>3. \A i \in Orders(s, t) : i > k \/ i = 1 \/ (i = 2 /\ result = "pub")
        BY <3>1 DEF Orders
      <4>4. context'[d] = IF result = "pub" THEN context[d]
                          ELSE IF result = "sub" THEN context[d] \cup {CurrentTopic}
                          ELSE context[d] \ {CurrentTopic}
        BY <1>0, <1>1, <2>1, <2>3 DEF TypeOK
      <4>5. Later(s, k, t) => (t \in context[d] <=> t \in context'[d])
        <5>1. Later(s, k, t) => 1 \notin Orders(s, t)
          BY <3>1 DEF Later
        <5>2. QED
          BY <4>1, <4>4, <5>1
      <4>6. ~Later(s, k, t)
              => k = 1 /\ (t \in context'[d] <=> s[1].cmd = "sub")
        <5> SUFFICES ASSUME NEW i \in Orders(s, t), ~(i > k)
                     PROVE  k = 1 /\ (t \in context'[d] <=> s[1].cmd = "sub")
          BY DEF Later
        <5>1. i = 1
          BY <4>2, <4>3
        <5>2. QED
          BY <1>1, <3>1, <4>1, <4>4, <5>1
      <4>7. k \in {1, 2}
        BY <3>1
      <4> HIDE DEF k
      <4>8. s \in Seq(Line) /\ r \in Seq(Line) /\ Advances(s, r, k)
        BY <3>1
      <4>9. PICK has, left : has = context[d] /\ left = context'[d]
        OBVIOUS
      <4>10. Listens(s, has, t) <=> Listens(r, left, t)
        BY <4>5, <4>6, <4>7, <4>8, <4>9, FirstDoneListens
      <4>11. QED
        BY <4>9, <4>10
    <3>5. ~(peer[d] \in {"idle", "connecting"})
      <4>1. input[d] # <<>>
        BY <1>1, <2>3 DEF Iteration, ParseMessage
      <4>2. QED
        BY <1>0, <4>1 DEF FollowsAt, Unused
    <3>6. QED
      BY <1>0, <1>1, <3>1, <3>2, <3>4, <3>5 DEF FollowsAt
  <2>4. QED
    BY <2>2, <2>3
<1>2. CASE DoPublish
  BY <1>1, <1>2 DEF DoPublish, Publish
<1>3. CASE DoSubscribe
  BY <1>1, <1>3 DEF DoSubscribe
<1>4. CASE DoUnsubscribe
  <2>1. context' = [context EXCEPT ![handling] = @ \ {CurrentTopic}]
    BY <1>4 DEF DoUnsubscribe, OutOfContext
  <2>2. QED
    BY <1>1, <1>4, <2>1 DEF DoUnsubscribe
<1>5. CASE Reject
  BY <1>5, NothingRejected
<1>6. CASE Continue \/ TimePublish
  <2>1. input'[d] = input[d] /\ conn' = conn /\ context' = context
    <3>1. CASE TimePublish
      BY <3>1 DEF TimePublish, Publish
    <3>2. CASE Continue
      <4>1. handling \in Conn /\ input[handling] \in Seq(Line)
        BY <1>0, <3>2 DEF Continue, Iteration, Idle, TypeOK
      <4>2. SubSeq(input[handling], 0 + 1, Len(input[handling])) = input[handling]
        BY <4>1, SubSeqFull
      <4>3. input' = [input EXCEPT ![handling] = input[handling]]
        BY <3>2, <4>2 DEF Continue, Iteration, Lines
      <4>4. QED
        BY <1>0, <3>2, <4>1, <4>3 DEF Continue, TypeOK
    <3>3. QED
      BY <1>6, <3>1, <3>2
  <2>2. Same(d)
    BY <1>0, <2>1 DEF Same, Pending
  <2>3. QED
    BY <1>0, <2>2, SameKeeps
<1>7. QED
  BY <1>2, <1>3, <1>4, <1>5, <1>6 DEF HubStep, HandleMessage

\* What the client writes goes behind what is pending, a whole command at a
\* time.
LEMMA WritesKeep ==
  ASSUME PendingInv, NEW c \in Conn, NEW lines \in Seq(Line), Call(c, lines),
         Whole(lines), \A t \in Topic : Orders(lines, t) \subseteq {1},
         \A d \in Conn \ {c} : subscribed'[d] = subscribed[d],
         \A t \in Topic :
           t \in subscribed'[c] <=>
             IF Connected(c) /\ Orders(lines, t) # {} THEN lines[1].cmd = "sub"
             ELSE t \in subscribed[c] /\ (Connected(c) \/ t \in subscribed'[c]),
         ~Connected(c) => subscribed'[c] \subseteq subscribed[c]
  PROVE  FollowInv'
<1>0. /\ SysInv /\ \A d \in Conn : FollowsAt(d)
      /\ UNCHANGED <<peer, conn, input, context>>
      /\ written' = IF Connected(c)
                    THEN [written EXCEPT ![c] = @ \o lines] ELSE written
      /\ written \in [Conn -> Seq(Line)]
  BY DEF PendingInv, FollowInv, FollowsAt, Call, Send, vars, SysInv, SysTypeOK
<1> SUFFICES ASSUME NEW d \in Conn PROVE FollowsAt(d)'
  BY DEF FollowInv, FollowsAt
<1>1. CASE d # c
  <2>1. Same(d)
    BY <1>0, <1>1 DEF Same, Pending
  <2>2. QED
    BY <1>0, <2>1, SameKeeps
<1>2. CASE d = c /\ ~Connected(c)
  <2>1. /\ UNCHANGED <<peer, conn, input, context, written>>
        /\ peer[c] # "up" /\ Pending(c)' = Pending(c)
    BY <1>0, <1>2 DEF Connected, Pending
  <2>2. QED
    BY <1>0, <1>2, <2>1 DEF FollowsAt, Unused
<1>3. CASE d = c /\ Connected(c)
  <2>1. PICK s \in Seq(Line) : s = Pending(c) /\ Whole(s)
    BY <1>0, PendingTypes DEF FollowsAt
  <2>2. Pending(c)' = s \o lines
    <3>1. Pending(c)' = input[c] \o (written[c] \o lines)
      <4>1. written' = [written EXCEPT ![c] = @ \o lines]
        BY <1>0, <1>3
      <4>2. written'[c] = written[c] \o lines
        BY <1>0, <4>1
      <4>3. input'[c] = input[c]
        BY <1>0
      <4>4. QED
        BY <4>2, <4>3 DEF Pending
    <3>2. input[c] \in Seq(Line) /\ written[c] \in Seq(Line)
      BY <1>0, PendingTypes
    <3>3. (input[c] \o written[c]) \o lines = input[c] \o (written[c] \o lines)
      BY ONLY <3>2, LinesAssociative, lines \in Seq(Line)
    <3>4. QED
      BY <2>1, <3>1, <3>3 DEF Pending
  <2>3. Whole(Pending(c)')
    BY <2>1, <2>2, AddedWhole
  <2>4. ASSUME NEW t \in Topic
        PROVE  t \in subscribed'[c] <=> Listens(s \o lines, context[c], t)
    <3>1. PICK has : has = context[c]
      OBVIOUS
    <3>2. Listens(s \o lines, has, t) <=>
            IF Orders(lines, t) = {} THEN Listens(s, has, t)
            ELSE lines[1].cmd = "sub"
      BY <2>1, AddedListens
    <3>3. t \in subscribed[c] <=> Listens(s, has, t)
      BY <1>0, <1>3, <2>1, <3>1 DEF FollowsAt, Connected
    <3>4. QED
      BY <1>3, <3>1, <3>2, <3>3
  <2>5. QED
    BY <1>0, <1>3, <2>2, <2>3, <2>4 DEF FollowsAt, Connected
<1>4. QED
  BY <1>1, <1>2, <1>3

LEMMA UserFollows ==
  ASSUME PendingInv, NEW c \in Conn, NEW t \in Topic,
         Subscribe(c, t) \/ Unsubscribe(c, t) \/ PublishContent(c, t)
  PROVE  FollowInv'
<1>0. subscribed \in [Conn -> SUBSET Topic]
  BY DEF PendingInv, SysInv, SysTypeOK
<1>1. ASSUME NEW cmd \in {"sub", "unsub"}
      PROVE  LET lines == <<[cmd |-> cmd, topic |-> t]>>
             IN  /\ lines \in Seq(Line) /\ Whole(lines) /\ lines[1].cmd = cmd
                 /\ \A u \in Topic : Orders(lines, u) = IF u = t THEN {1} ELSE {}
  <2>1. PICK line : line = [cmd |-> cmd, topic |-> t]
    OBVIOUS
  <2>2. line \in Line /\ line.cmd = cmd /\ line.topic = t
    BY <2>1 DEF Line
  <2>3. <<line>> \in Seq(Line) /\ Len(<<line>>) = 1 /\ <<line>>[1] = line
    BY <2>2
  <2>4. Whole(<<line>>)
    BY <2>2, <2>3 DEF Whole
  <2>5. \A u \in Topic : Orders(<<line>>, u) = IF u = t THEN {1} ELSE {}
    BY <2>2, <2>3 DEF Orders
  <2>6. QED
    BY <2>1, <2>2, <2>3, <2>4, <2>5
<1>2. CASE Subscribe(c, t)
  <2>1. PICK lines :
          /\ lines = <<[cmd |-> "sub", topic |-> t]>>
          /\ lines \in Seq(Line) /\ Whole(lines) /\ lines[1].cmd = "sub"
          /\ \A u \in Topic : Orders(lines, u) = IF u = t THEN {1} ELSE {}
    BY <1>1
  <2>2. /\ Call(c, lines)
        /\ subscribed' = IF Connected(c)
                         THEN [subscribed EXCEPT ![c] = @ \cup {t}] ELSE subscribed
    BY <1>2, <2>1 DEF Subscribe
  <2>3. QED
    BY <1>0, <2>1, <2>2, WritesKeep
<1>3. CASE Unsubscribe(c, t)
  <2>1. PICK lines :
          /\ lines = <<[cmd |-> "unsub", topic |-> t]>>
          /\ lines \in Seq(Line) /\ Whole(lines) /\ lines[1].cmd = "unsub"
          /\ \A u \in Topic : Orders(lines, u) = IF u = t THEN {1} ELSE {}
    BY <1>1
  <2>2. /\ Call(c, lines)
        /\ subscribed' = [subscribed EXCEPT ![c] = @ \ {t}]
    BY <1>3, <2>1 DEF Unsubscribe
  <2>3. QED
    BY <1>0, <2>1, <2>2, WritesKeep
<1>4. CASE PublishContent(c, t)
  <2>1. PICK first, content :
          /\ first = [cmd |-> "pub", topic |-> t] /\ content = ContentLine
    OBVIOUS
  <2>2. first \in Line /\ content \in Line /\ first.cmd = "pub" /\ content.cmd = "other"
    BY <2>1, HubAssumption DEF Line, ContentLine
  <2> DEFINE lines == <<first, content>>
  <2>3. /\ lines \in Seq(Line) /\ Len(lines) = 2
        /\ lines[1] = first /\ lines[2] = content
    <3>1. \A x, y \in Line :
            /\ <<x, y>> \in Seq(Line) /\ Len(<<x, y>>) = 2
            /\ <<x, y>>[1] = x /\ <<x, y>>[2] = y
      BY PairOfLines, Zenon
    <3>2. QED
      BY <2>2, <3>1, Zenon
  <2> HIDE DEF lines
  <2>4. Whole(lines)
    BY <2>2, <2>3 DEF Whole
  <2>5. \A u \in Topic : Orders(lines, u) = {}
    BY <2>2, <2>3 DEF Orders
  <2>6. Call(c, lines) /\ subscribed' = subscribed
    BY <1>4, <2>1 DEF PublishContent, lines
  <2>7. QED
    BY <2>3, <2>4, <2>5, <2>6, WritesKeep
<1>5. QED
  BY <1>2, <1>3, <1>4

\* Where the stream is cut makes no difference.
LEMMA HubReadsFollows ==
  ASSUME PendingInv, NEW c \in Conn, NEW k \in 1..MaxLines, HubReads(c, k)
  PROVE  FollowInv'
<1>0. /\ SysInv /\ \A d \in Conn : FollowsAt(d)
      /\ UNCHANGED <<peer, conn, context, subscribed>> /\ Readable(conn[c])
      /\ input' = [input EXCEPT ![c] = @ \o SubSeq(written[c], 1, k)]
      /\ written' = [written EXCEPT ![c] = SubSeq(@, k + 1, Len(@))]
      /\ input \in [Conn -> Seq(Line)] /\ written \in [Conn -> Seq(Line)]
      /\ k \in Nat /\ k <= Len(written[c])
  BY SMTT(20), HubAssumption
     DEF PendingInv, FollowInv, FollowsAt, HubReads, OnMessage, SysInv, SysTypeOK,
         TypeOK
<1> SUFFICES ASSUME NEW d \in Conn PROVE FollowsAt(d)'
  BY DEF FollowInv, FollowsAt
<1>1. CASE d # c
  <2>1. Same(d)
    BY <1>0, <1>1 DEF Same, Pending
  <2>2. QED
    BY <1>0, <2>1, SameKeeps
<1>2. CASE d = c
  <2>1. PICK a, w \in Seq(Line) :
          a = input[c] /\ w = written[c] /\ Len(w) \in Nat /\ k <= Len(w)
    BY <1>0
  <2>2. /\ SubSeq(w, 1, k) \in Seq(Line) /\ SubSeq(w, k + 1, Len(w)) \in Seq(Line)
        /\ SubSeq(w, 1, k) \o SubSeq(w, k + 1, Len(w)) = w
    <3>1. /\ 1 \in 1..Len(w) + 1 /\ k \in 1 - 1..Len(w) /\ Len(w) \in k..Len(w)
          /\ k + 1 \in Nat /\ k + 1 > 0 /\ Len(w) <= Len(w)
      BY <1>0, <2>1
    <3>2. SubSeq(w, 1, k) \o SubSeq(w, k + 1, Len(w)) = SubSeq(w, 1, Len(w))
      BY <3>1, ConcatAdjacentSubSeq
    <3>3. SubSeq(w, 1, Len(w)) = w
      BY SubSeqFull
    <3>4. SubSeq(w, 1, k) \in Seq(Line) /\ SubSeq(w, k + 1, Len(w)) \in Seq(Line)
      BY <1>0, <2>1, <3>1, SubLines
    <3>5. QED
      BY <3>2, <3>3, <3>4
  <2>3. (a \o SubSeq(w, 1, k)) \o SubSeq(w, k + 1, Len(w)) = a \o w
    <3>1. PICK x, y \in Seq(Line) :
            x = SubSeq(w, 1, k) /\ y = SubSeq(w, k + 1, Len(w)) /\ x \o y = w
      BY <2>2, Zenon
    <3>2. (a \o x) \o y = a \o (x \o y)
      BY LinesAssociative, Zenon
    <3>3. QED
      BY <3>1, <3>2, Zenon
  <2>4. Pending(c)' = Pending(c)
    BY <1>0, <2>1, <2>3 DEF Pending
  <2>5. ~(peer[c] \in {"idle", "connecting"})
    BY <1>0 DEF FollowsAt, Unused, Readable
  <2>6. QED
    BY <1>0, <1>2, <2>4, <2>5 DEF FollowsAt
<1>3. QED
  BY <1>1, <1>2

LEMMA LinksFollow ==
  ASSUME PendingInv, NEW c \in Conn,
         Start(c) \/ Stop(c) \/ Connect(c) \/ HubSeesClose(c) \/ ClientSeesClose(c)
  PROVE  FollowInv'
<1>0. /\ SysInv /\ \A d \in Conn : FollowsAt(d)
      /\ UNCHANGED <<written, subscribed>>
      /\ TypeOK /\ SysTypeOK
  BY DEF PendingInv, FollowInv, FollowsAt, SysInv, SysTypeOK, Start, Stop, Connect,
         HubSeesClose, ClientSeesClose, client
<1> SUFFICES ASSUME NEW d \in Conn PROVE FollowsAt(d)'
  BY DEF FollowInv, FollowsAt
<1>1. CASE d # c
  <2>1. /\ input'[d] = input[d] /\ context'[d] = context[d]
        /\ conn'[d] = conn[d] /\ peer'[d] = peer[d]
    BY <1>0, <1>1
       DEF Start, Stop, Connect, HubSeesClose, ClientSeesClose, client, vars,
           OnConnectionUp, OnConnectionDown, TypeOK, SysTypeOK
  <2>2. Same(d)
    BY <1>0, <2>1 DEF Same, Pending
  <2>3. QED
    BY <1>0, <2>2, SameKeeps
<1>2. CASE d = c /\ (Start(c) \/ Stop(c) \/ ClientSeesClose(c))
  <2>1. /\ UNCHANGED <<input, written, context, conn, subscribed>>
        /\ \/ peer[c] = "idle" /\ peer'[c] = "connecting"
           \/ peer'[c] \in {"closing", "down"}
    BY <1>0, <1>2 DEF Start, Stop, ClientSeesClose, vars, SysTypeOK
  <2>2. Pending(c)' = Pending(c)
    BY <2>1 DEF Pending
  <2>3. QED
    BY <1>0, <1>2, <2>1, <2>2 DEF FollowsAt, Unused
<1>3. CASE d = c /\ Connect(c)
  <2>1. /\ peer[c] = "connecting" /\ peer'[c] = "up" /\ conn'[c] = "connected"
        /\ context'[c] = {} /\ UNCHANGED <<input, written, subscribed>>
    BY <1>0, <1>3 DEF Connect, OnConnectionUp, TypeOK, SysTypeOK
  <2>2. subscribed[c] = {} /\ input[c] = <<>> /\ written[c] = <<>>
    BY <1>0, <2>1 DEF FollowsAt, Unused
  <2>3. Pending(c)' = <<>>
    BY <2>1, <2>2 DEF Pending
  <2>4. \A has, t : Listens(<<>>, has, t) <=> t \in has
    BY DEF Listens, Orders
  <2>5. QED
    BY <1>3, <2>1, <2>2, <2>3, <2>4 DEF FollowsAt, Whole
<1>4. CASE d = c /\ HubSeesClose(c)
  <2>1. /\ peer'[c] \in {"closing", "down"} /\ conn'[c] = "disconnected"
        /\ input'[c] = <<>> /\ written'[c] = <<>>
    BY <1>0, <1>4 DEF HubSeesClose, OnConnectionDown, TypeOK, SysTypeOK, client
  <2>2. Pending(c)' = <<>>
    BY <2>1 DEF Pending
  <2>3. QED
    BY <1>4, <2>1, <2>2 DEF FollowsAt, Whole
<1>5. QED
  BY <1>1, <1>2, <1>3, <1>4

LEMMA InitPendingInv == SysInit => PendingInv
<1> SUFFICES ASSUME SysInit PROVE PendingInv
  OBVIOUS
<1>1. \A c \in Conn : Unused(c) /\ peer[c] = "idle" /\ Pending(c) = <<>>
  BY DEF SysInit, Init, Unused, Pending
<1>2. Whole(<<>>)
  BY DEF Whole
<1>3. QED
  BY <1>1, <1>2, InitSysInv DEF PendingInv, FollowInv, Unused

LEMMA SysNextFollows == PendingInv /\ [SysNext]_sysvars => PendingInv'
<1> SUFFICES ASSUME PendingInv, [SysNext]_sysvars PROVE PendingInv'
  OBVIOUS
<1>1. SysInv'
  BY SysNextKeeps DEF PendingInv
<1>2. CASE UNCHANGED sysvars
  <2>1. UNCHANGED <<input, written, context, conn, subscribed, peer>>
    BY <1>2 DEF sysvars, client, vars
  <2>2. FollowInv'
    BY <2>1 DEF PendingInv, FollowInv, Pending, Unused
  <2>3. QED
    BY <1>1, <2>2 DEF PendingInv
<1>3. CASE SysNext
  <2>1. FollowInv'
    <3>1. ASSUME NEW c \in Conn, NEW t \in Topic,
                 Subscribe(c, t) \/ Unsubscribe(c, t) \/ PublishContent(c, t)
          PROVE  FollowInv'
      BY <3>1, UserFollows
    <3>2. ASSUME NEW c \in Conn,
                 Start(c) \/ Stop(c) \/ Connect(c) \/ HubSeesClose(c)
                   \/ ClientSeesClose(c)
          PROVE  FollowInv'
      BY <3>2, LinksFollow
    <3>3. ASSUME NEW c \in Conn, NEW k \in 1..MaxLines, HubReads(c, k)
          PROVE  FollowInv'
      BY <3>3, HubReadsFollows
    <3>4. ASSUME NEW c \in Conn, ClientReads(c)
          PROVE  FollowInv'
      <4>1. UNCHANGED <<input, written, context, conn, subscribed, peer>>
        BY <3>4 DEF ClientReads, vars
      <4>2. QED
        BY <4>1 DEF PendingInv, FollowInv, Pending, Unused
    <3>5. CASE HubStep
      BY <3>5, HubFollows
    <3>6. QED
      BY <1>3, <3>1, <3>2, <3>3, <3>4, <3>5 DEF SysNext
  <2>2. QED
    BY <1>1, <2>1 DEF PendingInv
<1>4. QED
  BY <1>2, <1>3

\* A client of pubsub.cc is never rejected, wherever its stream is cut, and
\* once what is under way has been handled the hub has for it exactly the
\* topics it subscribed to and did not leave.
THEOREM ClientsAreFollowed == SysSpec => []HubFollowsClients
<1>1. SysInit => PendingInv
  BY InitPendingInv
<1>2. PendingInv /\ [SysNext]_sysvars => PendingInv'
  BY SysNextFollows
<1>3. PendingInv => HubFollowsClients
  BY DEF PendingInv, FollowInv, HubFollowsClients
<1>4. QED
  BY <1>1, <1>2, <1>3, PTL DEF SysSpec
=============================================================================
