----------------------------- MODULE EchoServers ------------------------------
(***************************************************************************)
(* The echo servers, one of them in each behaviour, with the clients of     *)
(* EchoClients on the connections of EchoSockets:                           *)
(*   fork    echo/echo_server_block.c, a process for each connection;       *)
(*           block_nonblock_echo_example holds an identical copy            *)
(*   poll    block_nonblock_echo_example/echo_server_nonblock.c, the same   *)
(*           with nonblocking sockets                                       *)
(*   thread  echo/echo_server_multithread.c, a thread for each connection   *)
(*   libev   echo/echo_server_libev.c, one loop                             *)
(*   python  python_code/echo-poll.py, one loop                             *)
(*                                                                          *)
(* The worker (process, thread or watcher) made when client c is accepted   *)
(* is named c too.  socket, bind and listen are left out.                   *)
(***************************************************************************)
EXTENDS EchoClients, FiniteSets, Functions

Servers == {"fork", "poll", "thread", "libev", "python"}
Loops == {"libev", "python"}

VARIABLES
  server,    \* which server runs
  pos,       \* pos[w]: where worker w stands
  buf,       \* buf[w]: bytes read and not yet written back
  ended,     \* the server process has ended
  \* echo_server_nonblock.c
  woken,     \* processes whose poll reported a connection to accept
  strays,    \* children forked although accept4 returned no descriptor
  \* echo_server_multithread.c
  file,      \* file[f]: the connection behind descriptor f
  passInfo,  \* pass_info.socketfd_, on the stack of main
  fd,        \* fd[w]: pass_info_.socketfd_, the copy of thread w
  held,      \* held[w]: the connection the current read or write works on
  overtaken  \* history: main refilled pass_info before a thread had copied it

herd == <<woken, strays>>
threads == <<file, passInfo, fd, held, overtaken>>
vars == <<sockets, clients, server, pos, buf, ended, herd, threads>>

\* The connections of a run are numbered.
ASSUME EchoServersAssumption == IsFiniteSet(Client)

Main == NoClient  \* the process that main started in
Fd == 1..Cardinality(Client)
NoFd == 0

Init ==
  /\ ClientsInit
  /\ server \in Servers
  /\ pos = [w \in Client |-> "none"]
  /\ buf = [w \in Client |-> <<>>]
  /\ ended = FALSE
  /\ woken = {}
  /\ strays = 0
  /\ file = [f \in Fd |-> NoClient]
  /\ passInfo = NoFd
  /\ fd = [w \in Client |-> NoFd]
  /\ held = [w \in Client |-> NoClient]
  /\ overtaken = FALSE

-----------------------------------------------------------------------------
(* The calls the workers make on a connection, and where w stands after it. *)

Conn(w) == IF server = "thread" THEN held[w] ELSE w

\* The connections waiting to be accepted.
Backlog == {c \in Client : pos[c] = "none" /\ at[c] # "absent"}

Goes(w, next) == pos' = [pos EXCEPT ![w] = next]

\* read or recv returns k bytes.
Reads(w, k, next) == LET c == Conn(w) IN
  /\ pos[w] = "read"
  /\ k \in 1..Len(up[c])
  /\ buf' = [buf EXCEPT ![w] = SubSeq(up[c], 1, k)]
  /\ up' = [up EXCEPT ![c] = SubSeq(@, k + 1, Len(@))]
  /\ Goes(w, next)
  /\ UNCHANGED <<down, link, ended>>

\* It returns 0.
ReadsEnd(w, next) ==
  /\ pos[w] = "read" /\ ReadEnds(Conn(w))
  /\ Goes(w, next)
  /\ UNCHANGED <<sockets, buf, ended>>

\* It reports the reset, once.
ReadsError(w, next) ==
  /\ pos[w] = "read" /\ ReadFails(Conn(w))
  /\ link' = [link EXCEPT ![Conn(w)] = "pipe"]
  /\ Goes(w, next)
  /\ UNCHANGED <<up, down, buf, ended>>

\* What a blocking write that has passed on k bytes has left; a nonblocking
\* one would give the rest up.
NothingLeft(w, k) == <<>>
Left(w, k) == SubSeq(buf[w], k + 1, Len(buf[w]))

\* A blocking write passes on what fits, again and again; it returns when no
\* byte is left.
Writes(w, next) == LET c == Conn(w)  k == Room(down[c], Len(buf[w])) IN
  /\ pos[w] = "write" /\ link[c] = "open"
  /\ k > 0
  /\ down' = [down EXCEPT ![c] = @ \o SubSeq(buf[w], 1, k)]
  /\ buf' = [buf EXCEPT ![w] = Left(w, k)]
  /\ IF Left(w, k) = <<>> THEN Goes(w, next) ELSE UNCHANGED pos
  /\ UNCHANGED <<up, link, ended>>

\* A nonblocking one passes on what fits and returns.
WritesWhatFits(w, next) == LET c == Conn(w) IN
  /\ pos[w] = "write" /\ link[c] = "open"
  /\ down' = [down EXCEPT ![c] = @ \o SubSeq(buf[w], 1, Room(@, Len(buf[w])))]
  /\ buf' = [buf EXCEPT ![w] = <<>>]
  /\ Goes(w, next)
  /\ UNCHANGED <<up, link, ended>>

\* A write to a client that has closed.
WritesInVain(w, next) ==
  /\ pos[w] = "write" /\ link[Conn(w)] # "open"
  /\ WriteVanishes(Conn(w))
  /\ buf' = [buf EXCEPT ![w] = <<>>]
  /\ Goes(w, next)
  /\ UNCHANGED ended

\* Or it raises SIGPIPE, which no server handles.
BrokenPipe(w) == pos[w] = "write" /\ link[Conn(w)] = "pipe"

ChildKilled(w) ==
  BrokenPipe(w) /\ Goes(w, "done") /\ UNCHANGED <<sockets, buf, ended>>

ServerKilled == ended' = TRUE /\ UNCHANGED <<sockets, pos, buf>>

-----------------------------------------------------------------------------
(* fork *)

BlockAccept(c) ==
  /\ server = "fork" /\ c \in Backlog
  /\ Goes(c, "read")
  /\ UNCHANGED <<sockets, clients, server, buf, ended, herd, threads>>

BlockChild(w) ==
  /\ server = "fork"
  /\ \/ \E k \in 1..Window : Reads(w, k, "write")
     \/ Writes(w, "read")
     \/ WritesInVain(w, "read")
     \/ ChildKilled(w)
     \/ ReadsEnd(w, "done")
     \/ ReadsError(w, "done")
  /\ UNCHANGED <<clients, server, herd, threads>>

-----------------------------------------------------------------------------
(* poll *)

\* The break after the end of a connection leaves the inner loop only: the
\* child goes on accepting connections beside its parent.
Acceptors == {Main} \cup {w \in Client : pos[w] = "accept"}

Wakes(p) ==
  /\ server = "poll" /\ p \in Acceptors \ woken /\ Backlog # {}
  /\ woken' = woken \cup {p}
  /\ UNCHANGED <<sockets, clients, server, pos, buf, ended, strays, threads>>

\* revents is written anew by every poll.
KeptRevents(p) == woken
PolledAgain(p) == woken \ {p}

NonblockAccept(p, c) ==
  /\ server = "poll" /\ p \in woken /\ c \in Backlog
  /\ woken' = PolledAgain(p)
  /\ Goes(c, "read")
  /\ UNCHANGED <<sockets, clients, server, buf, ended, strays, threads>>

\* The result of accept4 is not looked at: a child is forked for descriptor
\* -1 and polls it for ever.
NonblockAcceptNone(p) ==
  /\ server = "poll" /\ p \in woken /\ Backlog = {}
  /\ woken' = PolledAgain(p)
  /\ strays' = strays + 1
  /\ UNCHANGED <<sockets, clients, server, pos, buf, ended, threads>>

NonblockChild(w) ==
  /\ server = "poll"
  /\ \/ \E k \in 1..Window : Reads(w, k, "write")
     \/ WritesWhatFits(w, "read")
     \/ WritesInVain(w, "read")
     \/ ChildKilled(w)
     \/ ReadsEnd(w, "accept")
     \/ ReadsError(w, "done")
  /\ UNCHANGED <<clients, server, herd, threads>>

-----------------------------------------------------------------------------
(* thread *)

ThreadAccept(c) ==
  /\ server = "thread" /\ ~ended /\ c \in Backlog
  /\ \E f \in Fd :
       /\ file[f] = NoClient /\ \A g \in 1 .. f - 1 : file[g] # NoClient
       /\ file' = [file EXCEPT ![f] = c]
       /\ passInfo' = f
  /\ Goes(c, "start")
  /\ overtaken' = (overtaken \/ \E w \in Client : pos[w] = "start")
  /\ UNCHANGED <<sockets, clients, server, buf, ended, herd, fd, held>>

CopyPassInfo(w) ==
  /\ server = "thread" /\ ~ended /\ pos[w] = "start"
  /\ fd' = [fd EXCEPT ![w] = passInfo]
  /\ Goes(w, "loop")
  /\ UNCHANGED <<sockets, clients, server, buf, ended, herd, file, passInfo,
                 held, overtaken>>

\* pass_info_, a copy that later connections leave alone.
SharedInfo(w) == passInfo
OwnInfo(w) == fd[w]

\* Entering read or write looks the descriptor up; a closed one is an error,
\* which ends the loop of reads and is ignored after a write.
EntersCall(w) == LET c == file[OwnInfo(w)] IN
  /\ pos[w] \in {"loop", "echo"}
  /\ held' = [held EXCEPT ![w] = c]
  /\ \/ pos[w] = "loop" /\ Goes(w, IF c = NoClient THEN "close" ELSE "read")
     \/ pos[w] = "echo" /\ Goes(w, IF c = NoClient THEN "loop" ELSE "write")
  /\ UNCHANGED <<sockets, buf, ended, file>>

\* close() frees the descriptor, whatever connection it stands for by now.
Closes(w) ==
  /\ pos[w] = "close"
  /\ file' = [file EXCEPT ![OwnInfo(w)] = NoClient]
  /\ Goes(w, "done")
  /\ UNCHANGED <<sockets, buf, ended, held>>

ThreadFunc(w) ==
  /\ server = "thread" /\ ~ended
  /\ \/ EntersCall(w)
     \/ Closes(w)
     \/ /\ \/ \E k \in 1..Window : Reads(w, k, "echo")
           \/ Writes(w, "loop")
           \/ WritesInVain(w, "loop")
           \/ BrokenPipe(w) /\ ServerKilled
           \/ ReadsEnd(w, "close")
           \/ ReadsError(w, "close")
        /\ UNCHANGED <<file, held>>
  /\ UNCHANGED <<clients, server, herd, passInfo, fd, overtaken>>

-----------------------------------------------------------------------------
(* The loops: a callback that blocks in its write blocks them all. *)

LoopFree(w) == ~ended /\ \A v \in Client \ {w} : pos[v] # "write"

ListenSocketCB(c) ==
  /\ server = "libev" /\ LoopFree(c) /\ c \in Backlog
  /\ Goes(c, "read")
  /\ UNCHANGED <<sockets, clients, server, buf, ended, herd, threads>>

ClientSocketCB(w) ==
  /\ server = "libev" /\ LoopFree(w)
  /\ \/ \E k \in 1..Window : Reads(w, k, "write")
     \/ Writes(w, "read")
     \/ WritesInVain(w, "read")
     \/ BrokenPipe(w) /\ ServerKilled
     \/ ReadsEnd(w, "done")
     \/ ReadsError(w, "done")
  /\ UNCHANGED <<clients, server, herd, threads>>

PollAccept(c) ==
  /\ server = "python" /\ LoopFree(c) /\ c \in Backlog
  /\ Goes(c, "read")
  /\ UNCHANGED <<sockets, clients, server, buf, ended, herd, threads>>

\* An error of recv or send is an exception, which ends the script.
PollEvent(w) ==
  /\ server = "python" /\ LoopFree(w)
  /\ \/ \E k \in 1..Window : Reads(w, k, "write")
     \/ Writes(w, "read")
     \/ WritesInVain(w, "read")
     \/ /\ \/ pos[w] = "write" /\ link[w] \in {"reset", "pipe"}
           \/ pos[w] = "read" /\ ReadFails(w)
        /\ ServerKilled
     \/ ReadsEnd(w, "done")
  /\ UNCHANGED <<clients, server, herd, threads>>

-----------------------------------------------------------------------------
\* The server's end of connection c still exists.
InCall(w) == pos[w] \in {"read", "write"}
ServerOpen(c) ==
  /\ ~ended
  /\ \/ pos[c] = "none"
     \/ IF server = "thread"
        THEN c \in Range(file) \cup {held[w] : w \in {v \in Client : InCall(v)}}
        ELSE InCall(c)

\* What a client does of itself; the rest is up to its user.
ClientStep(c) ==
  /\ \/ BlockingSend(c) \/ NonblockingSend(c)
     \/ \E k \in 0..Window : RecvLine(c, k) \/ RecvOnce(c, k)
     \/ Close(c, ~ServerOpen(c))
  /\ UNCHANGED <<server, pos, buf, ended, herd, threads>>

UserStep(c) ==
  /\ (~ended /\ Connect(c)) \/ NextMessage(c) \/ EndInput(c)
  /\ UNCHANGED <<server, pos, buf, ended, herd, threads>>

Accept(c) ==
  \/ BlockAccept(c) \/ ThreadAccept(c) \/ ListenSocketCB(c) \/ PollAccept(c)

Acceptor(p) ==
  Wakes(p) \/ NonblockAcceptNone(p) \/ \E c \in Client : NonblockAccept(p, c)

Worker(w) ==
  \/ BlockChild(w) \/ NonblockChild(w) \/ CopyPassInfo(w) \/ ThreadFunc(w)
  \/ ClientSocketCB(w) \/ PollEvent(w)

Next ==
  \/ \E c \in Client : UserStep(c) \/ ClientStep(c) \/ Accept(c) \/ Worker(c)
  \/ \E p \in Client \cup {Main} : Acceptor(p)

\* Every process and thread is scheduled, and a loop serves every descriptor
\* that is ready before it polls again.
Fairness ==
  /\ \A c \in Client : WF_vars(ClientStep(c)) /\ WF_vars(Accept(c)) /\ WF_vars(Worker(c))
  /\ \A p \in Client \cup {Main} : WF_vars(Acceptor(p))

Spec == Init /\ [][Next]_vars /\ Fairness

-----------------------------------------------------------------------------
TypeOK ==
  /\ program \in Mixes /\ server \in Servers /\ ended \in BOOLEAN
  /\ at \in [Client -> {"absent", "message", "send", "recv", "close", "done"}]
  /\ link \in [Client -> Links]
  /\ pos \in [Client -> {"none", "start", "loop", "read", "echo", "write",
                         "close", "accept", "done"}]
  /\ \A c \in Client : due[c] \in 0..Length(c) /\ typed[c] \in 0..MaxLines + 1
  /\ woken \subseteq Acceptors /\ strays \in Nat
  /\ file \in [Fd -> Client \cup {NoClient}] /\ passInfo \in Fd \cup {NoFd}
  /\ fd \in [Client -> Fd \cup {NoFd}] /\ held \in [Client -> Client \cup {NoClient}]

\* "Echo back anything received": while its end is open, what a client has
\* sent is on its way, in the server or back, in order and with nothing of
\* another client's.  echo_server_nonblock.c drops what does not fit.  A
\* thread server that has refilled pass_info too early promises nothing.
OwnBytesInOrder(c, s) ==
  \A i, j \in DOMAIN s : s[i].of = c /\ (i < j => s[i].n < s[j].n)

StreamsIntact ==
  /\ TypeOK
  /\ ~overtaken => \A c \in Client :
       LET s == got[c] \o down[c] \o buf[c] \o up[c] IN
         /\ OwnBytesInOrder(c, s)
         /\ link[c] = "open" /\ server # "poll" => s = Bytes(c, 1, Sent(c))

\* As long as main has not refilled pass_info before a thread copied it, each
\* thread works on the connection it was made for, and its descriptor is free
\* for another connection only after its own close.
HandOver ==
  server = "thread" /\ ~overtaken => \A w \in Client :
    /\ pos[w] = "start" => file[passInfo] = w
    /\ pos[w] \in {"loop", "read", "echo", "write", "close"} => file[fd[w]] = w
    /\ InCall(w) => held[w] = w
    /\ pos[w] \in {"none", "done"} => w \notin Range(file)

\* Only a client that hangs up on unread bytes ends a server: clients that
\* wait for their echo never do, with any number of them.
LinesNeverKill ==
  ended /\ ~overtaken =>
    \E c \in Client : program[c] # "line" /\ link[c] \in {"reset", "pipe"}

\* Each connection leaves at most one stray child for every child that has
\* served its own connection and accepts beside its parent.
StraysBounded ==
  strays <= Cardinality({c \in Client : pos[c] # "none"})
              * Cardinality(Acceptors \ {Main})

\* Client and worker wait for each other with every buffer between them full.
Stuck(c) ==
  /\ at[c] = "send" /\ due[c] > 0 /\ Len(up[c]) = Window /\ link[c] = "open"
  /\ \E w \in Client : pos[w] = "write" /\ Conn(w) = c /\ Len(down[c]) = Window

\* That takes a message longer than all the buffers can hold.
StuckOnlyWhenTooLong ==
  ~overtaken => \A c \in Client : Stuck(c) => Length(c) >= 2 * Window + 2

\* A line is echoed in full, or the server ends; but a loop may be blocked by
\* one stuck client, a thread server may have lost the connection, and
\* echo_server_nonblock.c drops a part of a line longer than its window.
LineAnswered ==
  \A c \in Client :
    (program[c] = "line" /\ at[c] \in {"send", "recv"})
      ~> \/ at[c] \notin {"send", "recv"}
         \/ overtaken
         \/ server = "poll" /\ Length(c) > Window
         \/ server \in Loops /\ \E d \in Client : Stuck(d)
=============================================================================
