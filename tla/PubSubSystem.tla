----------------------------- MODULE PubSubSystem -----------------------------
(***************************************************************************)
(* The hub together with the clients of pubsub.cc, joined by TCP streams.   *)
(* Each connection of the hub is the conn_ of one PubSubClient.  What a     *)
(* client writes reaches the hub in order but in segments of any length;    *)
(* what the hub writes reaches the client in order.  The TcpClient does not *)
(* reconnect, so a client that is down stays down.                          *)
(***************************************************************************)
EXTENDS PubSubHub

VARIABLES
  peer,        \* peer[c]: the client's end of the connection
  written,     \* written[c]: lines on their way from client c to the hub
  callback,    \* callback[c]: is subscribeCallback_ of c set
  subscribed,  \* subscribed[c]: topics c subscribed to and did not leave
  ever,        \* ever[c]: topics c ever subscribed to
  delivered,   \* delivered[c]: how many messages of out[c] c has handled
  called,      \* called[c]: messages subscribeCallback_ was called with
  calls        \* calls[c]: operations c's user has called

client == <<peer, written, callback, subscribed, ever, delivered, called, calls>>
sysvars == <<vars, client>>

ContentLine == [cmd |-> "other", topic |-> UtcTime]

SysTypeOK ==
  /\ TypeOK
  /\ peer \in [Conn -> {"idle", "connecting", "up", "closing", "down"}]
  /\ written \in [Conn -> Seq(Line)]
  /\ callback \in [Conn -> BOOLEAN]
  /\ subscribed \in [Conn -> SUBSET Topic]
  /\ ever \in [Conn -> SUBSET Topic]
  /\ delivered \in [Conn -> Nat]
  /\ called \in [Conn -> Seq(Message)]
  /\ calls \in [Conn -> Nat]

SysInit ==
  /\ Init
  /\ peer = [c \in Conn |-> "idle"]
  /\ written = [c \in Conn |-> <<>>]
  /\ callback = [c \in Conn |-> FALSE]
  /\ subscribed = [c \in Conn |-> {}]
  /\ ever = [c \in Conn |-> {}]
  /\ delivered = [c \in Conn |-> 0]
  /\ called = [c \in Conn |-> <<>>]
  /\ calls = [c \in Conn |-> 0]

-----------------------------------------------------------------------------
(* The calls of a client's user. *)

\* send: written only while conn_ is set and connected, else refused.
Connected(c) == peer[c] = "up"

Send(c, lines) ==
  written' = IF Connected(c) THEN [written EXCEPT ![c] = @ \o lines] ELSE written

Call(c, lines) ==
  /\ calls[c] + Len(lines) <= MaxLines
  /\ calls' = [calls EXCEPT ![c] = @ + Len(lines)]
  /\ Send(c, lines)
  /\ UNCHANGED <<vars, peer, delivered, called>>

Subscribe(c, t) ==
  /\ Call(c, <<[cmd |-> "sub", topic |-> t]>>)
  /\ callback' = [callback EXCEPT ![c] = TRUE]
  /\ IF Connected(c)
     THEN /\ subscribed' = [subscribed EXCEPT ![c] = @ \cup {t}]
          /\ ever' = [ever EXCEPT ![c] = @ \cup {t}]
     ELSE UNCHANGED <<subscribed, ever>>

Unsubscribe(c, t) ==
  /\ Call(c, <<[cmd |-> "unsub", topic |-> t]>>)
  /\ subscribed' = [subscribed EXCEPT ![c] = @ \ {t}]
  /\ UNCHANGED <<callback, ever>>

PublishContent(c, t) ==
  /\ Call(c, <<[cmd |-> "pub", topic |-> t], ContentLine>>)
  /\ UNCHANGED <<callback, subscribed, ever>>

Start(c) ==
  /\ peer[c] = "idle"
  /\ peer' = [peer EXCEPT ![c] = "connecting"]
  /\ UNCHANGED <<vars, written, callback, subscribed, ever, delivered, called,
                 calls>>

\* stop: what was written before is still sent, then the sending half closes.
Stop(c) ==
  /\ peer[c] = "up"
  /\ peer' = [peer EXCEPT ![c] = "closing"]
  /\ UNCHANGED <<vars, written, callback, subscribed, ever, delivered, called,
                 calls>>

-----------------------------------------------------------------------------
(* The callbacks of the two ends. *)

\* The connection is established: onConnection of the hub and of the client.
Connect(c) ==
  /\ peer[c] = "connecting"
  /\ OnConnectionUp(c)
  /\ peer' = [peer EXCEPT ![c] = "up"]
  /\ UNCHANGED <<written, callback, subscribed, ever, delivered, called, calls>>

\* The hub reads k lines of what c has written.
HubReads(c, k) ==
  /\ k <= Len(written[c])
  /\ OnMessage(c, SubSeq(written[c], 1, k))
  /\ written' = [written EXCEPT ![c] = SubSeq(@, k + 1, Len(@))]
  /\ UNCHANGED <<peer, callback, subscribed, ever, delivered, called, calls>>

\* The hub has read everything and sees the end of the stream.
HubSeesClose(c) ==
  /\ peer[c] \in {"closing", "down"}
  /\ written[c] = <<>>
  /\ OnConnectionDown(c)
  /\ UNCHANGED client

\* onMessage of the client: the callback is called for every "pub", whichever
\* topic it was set for.
ClientReads(c) ==
  /\ peer[c] \in {"up", "closing"}
  /\ delivered[c] < Len(out[c])
  /\ delivered' = [delivered EXCEPT ![c] = @ + 1]
  /\ called' = [called EXCEPT ![c] =
                  IF callback[c] THEN Append(@, out[c][delivered[c] + 1]) ELSE @]
  /\ UNCHANGED <<vars, peer, written, callback, subscribed, ever, calls>>

\* onConnection of the client when the hub has shut the connection down or
\* closed it, and everything sent before has been read.
ClientSeesClose(c) ==
  /\ peer[c] \in {"up", "closing"}
  /\ conn[c] \in {"disconnecting", "disconnected"}
  /\ delivered[c] = Len(out[c])
  /\ peer' = [peer EXCEPT ![c] = "down"]
  /\ UNCHANGED <<vars, written, callback, subscribed, ever, delivered, called,
                 calls>>

HubStep == (HandleMessage \/ TimePublish) /\ UNCHANGED client

SysNext ==
  \/ HubStep
  \/ \E c \in Conn :
       \/ \E t \in Topic :
            Subscribe(c, t) \/ Unsubscribe(c, t) \/ PublishContent(c, t)
       \/ Start(c) \/ Stop(c) \/ Connect(c)
       \/ \E k \in 1..MaxLines : HubReads(c, k)
       \/ HubSeesClose(c) \/ ClientReads(c) \/ ClientSeesClose(c)

SysSpec == SysInit /\ [][SysNext]_sysvars

\* The network delivers, and both event loops run what is ready.
SysFairness ==
  /\ WF_sysvars(HandleMessage /\ UNCHANGED client)
  /\ \A c \in Conn :
       /\ WF_sysvars(\E k \in 1..MaxLines : HubReads(c, k))
       /\ WF_sysvars(ClientReads(c))

SysFairSpec == SysSpec /\ SysFairness

-----------------------------------------------------------------------------
(* Properties. *)

\* The callback is never called for a topic its client did not subscribe to.
OnlyWhatWasAskedFor ==
  /\ SysTypeOK
  /\ \A c \in Conn : \A i \in 1..Len(called[c]) : called[c][i].topic \in ever[c]

\* However the stream of a client is cut, the hub reads from it what the
\* client wrote: it never takes one line for another and so rejects none; and
\* while the client is up, the topics the hub has for it are, once what is
\* under way has been handled, those it has subscribed to and not left.
Pending(c) == input[c] \o written[c]

\* The last order about t in lines counts, or else what the hub already has.
Orders(lines, t) ==
  {i \in 1..Len(lines) :
     lines[i].cmd \in {"sub", "unsub"} /\ lines[i].topic = t}
Listens(lines, has, t) ==
  \/ Orders(lines, t) = {} /\ t \in has
  \/ \E i \in Orders(lines, t) :
       lines[i].cmd = "sub" /\ \A j \in Orders(lines, t) : j <= i

HubFollowsClients ==
  \A c \in Conn :
    /\ conn[c] # "disconnecting"
    /\ peer[c] = "up" =>
         \A t \in Topic :
           t \in subscribed[c] <=> Listens(Pending(c), context[c], t)

\* What subscribe promises: a client that stays connected and subscribed to a
\* topic ends up with the content published last in its callback.
SubscriberCatchesUp ==
  \A c \in Conn, t \in Topic :
    (peer[c] = "up" /\ t \in subscribed[c] /\ last[t] > 0) ~>
      \/ peer[c] # "up"
      \/ t \notin subscribed[c]
      \/ LET mine == SelectSeq(called[c], LAMBDA m : m.topic = t)
         IN  mine # <<>> /\ Last(mine).n = last[t]
=============================================================================
