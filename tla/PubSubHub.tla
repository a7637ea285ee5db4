------------------------------ MODULE PubSubHub ------------------------------
(***************************************************************************)
(* src/muduo-based/muduo-pubsub/src/hub.cc and codec.cc: the hub keeps, for *)
(* each topic, the connections that listen to it and the content published  *)
(* last; each connection's context keeps the topics it subscribed to.       *)
(*                                                                          *)
(* One event loop: between two iterations of the loop in onMessage nothing  *)
(* else runs.  The stream of a client is a sequence of CRLF lines; a line   *)
(* that has not arrived completely has not arrived.  Contents are numbered  *)
(* per topic in the order they are published.                               *)
(***************************************************************************)
EXTENDS Integers, Sequences, SequencesExt, MuduoConn

CONSTANTS
  Conn,      \* client connections, each used once
  NoConn,    \* no connection
  Topic,     \* the topics
  UtcTime,   \* "utc_time", published by the hub itself
  MaxLines,  \* bound: lines a client sends
  MaxTicks   \* bound: contents of utc_time the hub publishes itself

ASSUME HubAssumption ==
  /\ NoConn \notin Conn
  /\ UtcTime \in Topic
  /\ MaxLines \in Nat
  /\ MaxTicks \in Nat

\* A line as parseMessage sees it.  "other" is an unknown command, "nospace" a
\* line without a space; the topic of neither matters.  The content line of a
\* "pub" may look like any line.
Line == [cmd : {"pub", "sub", "unsub"}, topic : Topic]
          \cup [cmd : {"other", "nospace"}, topic : {UtcTime}]
Message == [topic : Topic, n : Nat \ {0}]

VARIABLES
  conn,       \* conn[c]: state of connection c
  input,      \* input[c]: the lines in c's input buffer
  context,    \* context[c]: the ConnectionSubscription of c
  audiences,  \* audiences[t]: audiences_ of topic t
  last,       \* last[t]: number of t's content, 0 before the first
  handling,   \* the connection whose onMessage is running, or NoConn
  fed,        \* fed[c]: lines received from c so far
  out         \* out[c]: all messages sent to c, oldest first

topics == <<audiences, last>>
vars == <<conn, input, context, topics, handling, fed, out>>

TypeOK ==
  /\ conn \in [Conn -> ConnStates]
  /\ input \in [Conn -> Seq(Line)]
  /\ context \in [Conn -> SUBSET Topic]
  /\ audiences \in [Topic -> SUBSET Conn]
  /\ last \in [Topic -> Nat]
  /\ handling \in Conn \cup {NoConn}
  /\ fed \in [Conn -> Nat]
  /\ out \in [Conn -> Seq(Message)]

Init ==
  /\ conn = [c \in Conn |-> "absent"]
  /\ input = [c \in Conn |-> <<>>]
  /\ context = [c \in Conn |-> {}]
  /\ audiences = [t \in Topic |-> {}]
  /\ last = [t \in Topic |-> 0]
  /\ handling = NoConn
  /\ fed = [c \in Conn |-> 0]
  /\ out = [c \in Conn |-> <<>>]

-----------------------------------------------------------------------------
Idle == handling = NoConn

OnConnectionUp(c) ==
  /\ Idle
  /\ conn[c] = "absent"
  /\ conn' = [conn EXCEPT ![c] = "connected"]
  /\ context' = [context EXCEPT ![c] = {}]
  /\ UNCHANGED <<input, topics, handling, fed, out>>

\* The audiences without c; those of other topics than the ones in c's
\* context are not looked at.
AudiencesKept(c) == audiences
AudiencesWithout(c) ==
  [t \in Topic |-> IF t \in context[c] THEN audiences[t] \ {c}
                   ELSE audiences[t]]

OnConnectionDown(c) ==
  /\ Idle
  /\ Readable(conn[c])
  /\ conn' = [conn EXCEPT ![c] = "disconnected"]
  /\ audiences' = AudiencesWithout(c)
  /\ context' = [context EXCEPT ![c] = {}]
  /\ input' = [input EXCEPT ![c] = <<>>]
  /\ UNCHANGED <<last, handling, fed, out>>

\* A segment arrives and onMessage begins.
OnMessage(c, segment) ==
  /\ Idle
  /\ Readable(conn[c])
  /\ fed[c] + Len(segment) <= MaxLines
  /\ fed' = [fed EXCEPT ![c] = @ + Len(segment)]
  /\ input' = [input EXCEPT ![c] = @ \o segment]
  /\ handling' = c
  /\ UNCHANGED <<conn, context, topics, out>>

-----------------------------------------------------------------------------
\* codec.cc: what parseMessage makes of the buffer, and the lines it retrieves.
ParseMessage(buf) ==
  IF buf = <<>> THEN "continue"
  ELSE CASE buf[1].cmd = "nospace" -> "error"
         [] buf[1].cmd = "pub" -> IF Len(buf) >= 2 THEN "pub" ELSE "continue"
         [] OTHER -> buf[1].cmd

\* The first line of a publication that is not complete stays in the buffer.
FirstTaken(result) == CASE result = "error" -> 0
                        [] result = "pub" -> 2
                        [] OTHER -> 1
Lines(result) == CASE result \in {"continue", "error"} -> 0
                   [] result = "pub" -> 2
                   [] OTHER -> 1

\* One iteration of the loop, for a buffer that parses to result.
Iteration(result) ==
  /\ ~Idle
  /\ ParseMessage(input[handling]) = result
  /\ input' = [input EXCEPT ![handling] =
                 SubSeq(@, Lines(result) + 1, Len(@))]
  /\ UNCHANGED fed

CurrentTopic == input[handling][1].topic

\* makeMessage: what c is sent of topic t, if it can still be sent anything.
Sent(c, t, n) ==
  IF Sendable(conn[c]) THEN Append(out[c], [topic |-> t, n |-> n]) ELSE out[c]

\* Topic::publish: the new content is set first and then sent.
SentToAll(t) == [c \in Conn |-> Sent(c, t, last[t] + 1)]
SentToAudience(t) ==
  [c \in Conn |-> IF c \in audiences[t] THEN Sent(c, t, last[t] + 1)
                  ELSE out[c]]

Publish(t) ==
  /\ last' = [last EXCEPT ![t] = @ + 1]
  /\ out' = SentToAudience(t)
  /\ UNCHANGED <<conn, context, audiences>>

DoPublish ==
  /\ Iteration("pub")
  /\ Publish(CurrentTopic)
  /\ UNCHANGED handling

\* Topic::add: a late subscriber is sent the content published last, not
\* nothing and not the first one.
NothingRetained(c, t) == out[c]
FirstRetained(c, t) == IF last[t] > 0 THEN Sent(c, t, 1) ELSE out[c]
Retained(c, t) == IF last[t] > 0 THEN Sent(c, t, last[t]) ELSE out[c]

DoSubscribe ==
  LET c == handling
      t == CurrentTopic
  IN  /\ Iteration("sub")
      /\ context' = [context EXCEPT ![c] = @ \cup {t}]
      /\ audiences' = [audiences EXCEPT ![t] = @ \cup {c}]
      /\ out' = [out EXCEPT ![c] = Retained(c, t)]
      /\ UNCHANGED <<conn, last, handling>>

\* The context of c without t, also when c had not subscribed to t.
OutOfContext(c, t) == context[c] \ {t}

DoUnsubscribe ==
  LET c == handling
      t == CurrentTopic
  IN  /\ Iteration("unsub")
      /\ audiences' = [audiences EXCEPT ![t] = @ \ {c}]
      /\ context' = [context EXCEPT ![c] = OutOfContext(c, t)]
      /\ UNCHANGED <<conn, last, handling, out>>

\* An unknown command ends the loop, a line that does not parse stays in the
\* buffer; in both cases the connection is shut down and still read from.
Reject ==
  /\ \/ Iteration("other")
     \/ Iteration("error")
  /\ conn' = [conn EXCEPT ![handling] = AfterShutdown(@)]
  /\ handling' = NoConn
  /\ UNCHANGED <<context, topics, out>>

Continue ==
  /\ Iteration("continue")
  /\ handling' = NoConn
  /\ UNCHANGED <<conn, context, topics, out>>

TimePublish ==
  /\ Idle
  /\ last[UtcTime] < MaxTicks
  /\ Publish(UtcTime)
  /\ UNCHANGED <<input, handling, fed>>

HandleMessage ==
  \/ DoPublish \/ DoSubscribe \/ DoUnsubscribe \/ Reject \/ Continue

Segments == UNION {[1..k -> Line] : k \in 1..2}

Next ==
  \/ \E c \in Conn :
       \/ OnConnectionUp(c)
       \/ OnConnectionDown(c)
       \/ \E segment \in Segments : OnMessage(c, segment)
  \/ HandleMessage
  \/ TimePublish

Spec == Init /\ [][Next]_vars

-----------------------------------------------------------------------------
(* Properties. *)

\* The audiences of the topics and the contexts of the connections say the
\* same, so that closing a connection, which reads only its context, leaves
\* no dead connection in an audience.
AudiencesMatchContexts ==
  /\ TypeOK
  /\ \A c \in Conn, t \in Topic : c \in audiences[t] <=> t \in context[c]
  /\ \A t \in Topic : \A c \in audiences[t] : Readable(conn[c])

\* Whoever listens to a topic has been sent what was published last, whether
\* it subscribed before or after, and nothing else of the topic since.
AudienceUpToDate ==
  \A t \in Topic : last[t] > 0 =>
    \A c \in audiences[t] : Sendable(conn[c]) =>
      \E i \in 1..Len(out[c]) :
        /\ out[c][i] = [topic |-> t, n |-> last[t]]
        /\ \A j \in i + 1..Len(out[c]) : out[c][j].topic # t

\* A connection never gets an older content of a topic after a newer one.
NeverOlder ==
  \A c \in Conn : \A i, j \in 1..Len(out[c]) :
    i < j /\ out[c][i].topic = out[c][j].topic => out[c][i].n <= out[c][j].n

\* A connection is sent nothing of a topic it does not listen to, apart from
\* the answer to its own subscription.
OnlyAudienceIsSent ==
  [][\A c \in Conn : out'[c] # out[c] =>
       c \in audiences'[Last(out'[c]).topic]]_vars
=============================================================================
