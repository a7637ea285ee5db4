# TLA+ specifications of network_coding

The repository is a collection of small network programs, most of them built on
the muduo library (event loops, one or several threads) and some on plain sockets,
libev or poll. This directory specifies the ones whose correctness depends on the
order of events: the connection multiplexer, the publish/subscribe hub with its
client library, the three threaded chat servers, the TCP relay, the file server,
and the echo servers and clients on plain sockets. The specifications are checked
with TLC on small instances; safety properties of most of them are also proved
with TLAPS, for any number of clients, ids, topics and threads and any sizes.

Paths below are relative to `src/muduo-based` unless they begin with `src/`.

## 1. The system and its parts

| Part | Source | State | Operations | What makes it hard |
| --- | --- | --- | --- | --- |
| multiplexer, multi-threaded | `simple/multiplexer/multiplexer_multi.cc` | `backendConn_`, `clientConns_`, `availIds_` under `mutex_`; an id in each client's context | backend up, down, message; client up, down, message | callbacks of several IO threads and of the base loop interleave at the lock; connections found under the lock are used outside it |
| multiplexer, single-threaded | `simple/multiplexer/multiplexer_simple.cc` | the same, no lock | the same | order of backend and client events |
| multiplexer backend | `simple/multiplexer/backend_server.cc` | `connection_` | answer each packet; commands typed at the console | the console thread and the loop send on one stream; answers outlive the session they belong to |
| pubsub hub | `muduo-pubsub/src/hub.cc`, `codec.cc`, `codec.h` | topics (audience, last content); topics of a connection in its context | sub, unsub, pub, clock | two views of one relation; segmentation; errors in the middle of a buffer |
| pubsub client | `muduo-pubsub/src/pubsub.cc`, `pubsub.h` | `conn_`, `subscribeCallback_` | start, stop, subscribe, unsubscribe, publish | calls race with the hub's messages and with the loss of the connection |
| chat servers | `simple/chat/server_threaded*.cc`, `codec.h` | set(s) of connections | connection up and down, broadcast | broadcasts from several threads; a set that changes while it is walked |
| TCP relay | `socks4a/tunnel.h`, `tcprelay.cc` | a Tunnel for each accepted connection | connect, relay both ways, tear down | life time of the Tunnel, a close before the connect completes, back pressure |
| file server | `filetransfer/download3.cc` | an open file for each connection | send a buffer, then the next on write-complete | a chain of callbacks that must neither break nor fork; empty and missing files |
| echo servers on sockets | `src/echo`, `src/block_nonblock_echo_example`, `src/python_code` | descriptors; `pass_info` on main's stack | accept, hand the connection to a process, a thread or a loop, echo | hand-over to a thread; blocking writes; a connection that is closed under a write; `poll` without a connection |
| echo clients | `src/echo/echo_client.c`, `src/block_nonblock_echo_example/echo_client_*.c` | counts of bytes | send a line and read it back; send one long block | client and server that write at the same time |
| echo and discard on muduo | `simple/echo`, `simple/discard` | none | echo | none |
| library examples | `reactor/s04`, `src/libev-cpp` | none | none | none |

How they interact:

* A client of the multiplexer gets an id while the backend is connected. What it
  sends goes out on the one backend connection, cut into packets whose header has
  the id; what the backend sends to an id goes to its holder; id 0 carries a
  command, of which `DISCONNECT n` closes a client. Both multiplexers talk to the
  backend server, or to anything with the same framing.
* The pubsub client library writes `sub`, `unsub` and `pub` lines to the hub over
  one TCP connection. The hub answers with `pub` messages only.
* The chat servers share the codec (a length and that many bytes) and nothing
  else; they are three designs of the same service.
* Any of the echo clients can talk to any of the five echo servers: they share
  nothing but the bytes. The two files `echo_server_block.c` are identical.

The hazards, at the lines where they bite, are listed in `PROJECT.json` with the
properties that would show them going wrong.

### muduo

muduo is not in the repository; what the programs use of it is modelled as
external (`MuduoConn`, `ChatLoops`):

* A connection is *accepted* (object made in the base loop, `connectEstablished`
  queued on its IO loop), *connected*, *disconnecting* after `shutdown()` (sending
  drops its data, messages are still received) and *disconnected*. The peer sees the
  end of the stream only behind what is in the output buffer: while the peer does not
  read, `shutdown()` tells it nothing.
* `send()` drops the data unless the connection is connected. `send(Buffer*)`
  empties the buffer only when it takes the data.
* A `Buffer` has 8 bytes free in front of its contents when it is new or emptied;
  `prepend()` uses them up, and asserts that they suffice. A read may move the contents
  back to that place, and does not make the room smaller than it was or than 8.
* A loop runs one callback or functor at a time, to its end. Functors queued while
  a batch runs wait for the next batch. A send from another thread is a functor in
  the connection's loop.
* With `setThreadNum` clients belong to IO loops; the acceptor and the
  multiplexer's backend connection stay with the base loop.
* `TcpClient` without `enableRetry` connects at most once.
* An exception no callback catches ends the process; so does a failed `assert`
  (builds with `NDEBUG` are not modelled).

## 2. Modules

| Module | Models |
| --- | --- |
| `MuduoConn` | states of a TcpConnection and what send, shutdown and read do in each |
| `MuxLease` | abstract: what a multiplexer promises |
| `MultiplexerMulti` | `multiplexer_multi.cc`, cut at the lock |
| `MultiplexerSimple` | `multiplexer_simple.cc`, one callback a step |
| `MuxBackend` | `backend_server.cc` behind any multiplexer that keeps `MuxLease` |
| `MultiplexerSystem`, `MultiplexerMultiSystem` | `backend_server.cc` behind each of the two multiplexers |
| `PubSubHub` | `hub.cc` and `codec.cc` |
| `PubSubSystem` | `pubsub.cc` and its users, joined to `PubSubHub` by TCP streams |
| `ChatLoops` | event loops, cross-thread sends and `codec.h` |
| `ChatThreaded`, `ChatEfficient`, `ChatHighPerf` | the three chat servers |
| `TcpRelay` | `tcprelay.cc` and `tunnel.h`: an accepted connection and its Tunnel |
| `Download` | `download3.cc`: one connection of the file server |
| `EchoSockets` | what the echo programs use of TCP connections, sizes of buffers included |
| `EchoClients` | the three echo clients, on `EchoSockets` |
| `EchoServers` | the five echo servers, on top of `EchoClients` |
| `ChatBroadcast` | abstract: totally ordered broadcast |
| `MuxBackendProofs`, `MultiplexerProofs`, `MultiplexerSystemProofs`, `PubSubProofs`, `ChatSharedProofs`, `ChatHighPerfProofs`, `TransferProofs`, `EchoServersProofs` | proofs |
| `MC...` | instances for TLC |

Operators that end up next to each other in pairs (`NotPopped`, `Popped`) are a
piece of the code and the same piece with a plausible mistake. The specification
uses the right one; `PROJECT.json` names for each checked property one mistake
under which the property fails, so that no property holds by the shape of the
model alone. Type invariants are not checked by themselves: each is a conjunct of
a property that says more, but for that of `ChatThreaded`, which is proved.

### MultiplexerMulti

`backendConn`, `clientConns` and `availIds` are the members the mutex guards;
`context[c]` is the id in a connection's context. `at[c]` says where the running
callback of `c` stands between two steps, `local`, `left` and `link` are its local
variables. `base` is the same for the base loop.

| Action | Code |
| --- | --- |
| `OnBackendUp` | `onBackendConnection`, connected: fill `availIds_` |
| `OnBackendClose`, `OnBackendDown` | the connection goes down; the locked section that shuts all clients down and clears map and queue |
| `OnBackendMessage`, `SendToClient`, `DisconnectClient` | look up the id under the lock; use the connection after it |
| `Accept`, `OnClientUp`, `FinishUp` | the acceptor; the locked section that pops an id; `setContext`, or `shutdown` when there was none |
| `OnClientClose`, `ReleaseId` | `any_cast` and `assert` on the context; the locked section that gives the id back |
| `OnClientMessage`, `CopyBackendConn`, `SendBackendPacket` | cut a message into packets; for each packet copy `backendConn_` under the lock and send without it |

`OnBackendDown` is one step although it calls `shutdown()` on each client in a
loop: the loop is inside the lock, and `shutdown()` changes the state of a
connection with one atomic exchange, which commutes with what other threads do
without the lock. `sent`, `wire` and `got` record what reached the two ends.

`room[c]` is the room in front of the input buffer of `c`, into which the header of the
last packet of a message is prepended (`RoomForLast`; the packets before it are copied
into buffers of their own). Only a send that takes the data empties the buffer. A
client that is still read after the loss of the backend has been shut down for sending
only, so each of its messages leaves 3 bytes of header there: 8, 5, 2, and the
third one fails the assert of `prepend` (`crashed = "prepend"`). `MultiplexerSimple`
has the same.

### MuxLease, and how the servers implement it

`MuxLease` says what clients and backend rely on: while the backend link is open a
connection can lease an id nobody else leases, transmit packets tagged with it and
be handed what is addressed to it. Two leases of an id never overlap. In
`MultiplexerMulti` a lease starts when the id is popped (not when the context is
set, so the mapping reads the local variable in between: `Tag`) and ends in
`ReleaseId` or `OnBackendDown`. Both servers implement it: with bursts of one
packet in the multi-threaded server, which takes the lock for each packet anew,
and with bursts of a message in the single-threaded one.

### MuxBackend

The backend server answers packet after packet; a frame carries two id bytes, put
in and read back the way the code does, with bytes of `ByteValues` values instead
of 256. Commands are queued by another thread. The network may cut the stream
anywhere: between packets, inside a header (the loop waits) or inside the content
(the code does not compare the length with what has arrived, and the assertion in
`retrieve()` ends the backend). Of the multiplexer the module uses `MuxLease`
only, so what it shows holds behind both of them. `connection_` (`registered`) belongs to
whichever connection came up last, and is reset when any of them goes down: a
multiplexer that is restarted may connect before its old connection has closed, and
the close then detaches the console from the new one. `other` is that connection.

### MultiplexerSystem and MultiplexerMultiSystem

Each joins one of the two multiplexers to the backend server: the actions are those
of `MultiplexerSimple` or `MultiplexerMulti` and those of the backend in `MuxBackend`
(`ServerStep`, by instantiation), and the frames in `back` are what the multiplexer
reads instead of whatever a backend may send. In the single-threaded one a frame is
read, served and retrieved in one step (`ReadAnswer`, `ReadCommand`). In the
multi-threaded one `ReadFrame` is the locked section of `sendToClient` or
`doBackendCommand`, and `FinishFrame` the send or the shutdown after it; the frame
stays at the head of the buffer in between, while the IO loops run on. Both implement
`MuxBackend` (`ImplementsBackend`): of the steps that read a frame, the one that hands
its content to a client is `HandDown`, the one that retrieves it with nothing handed
to anybody is `Consume`, and the look-up under the lock is a stutter.

### PubSubHub and PubSubSystem

`audiences` and `last` are the topics, `context` the subscriptions of a
connection. A line is the unit of input; `onMessage` runs one iteration of its
loop for each command, and nothing else runs in between (`handling`). A client's
segments are arbitrary sequences of well-formed and malformed lines in
`PubSubHub`; in `PubSubSystem` they are what the client library wrote, in segments
of any length. Contents are numbered per topic. Topics and contents have no line end
in them, as the library expects of its users. `stop()` lets what was written
before arrive. `HubFollowsClients` relates the two ends of the stream: with the
commands in `Pending` applied, the context the hub keeps of a client is what its user
has subscribed to.

### The chat servers

`ChatLoops` has for each loop the queue of functors and the batch being run.
`ChatThreaded` and `ChatHighPerf` hold the mutex over a broadcast (`locked`,
`todo`), during which other loops run on. `ChatEfficient` makes the set of
connections an object with identity (`lists`, `connections`): a broadcast keeps
the object it found (`snapshot`), `onConnection` changes it in place only when no
broadcast has it. `ChatHighPerf` implements `ChatBroadcast`: `log` is the order in
which broadcasts took the mutex, and each loop reads it at its own pace, so a
client may join a little behind its end.

### TcpRelay

One accepted connection (`"server"`), the connection made for it (`"client"`) and
the Tunnel between them; several Tunnels share nothing but `g_tunnels`, where each
has its own name. Data is counted in chunks: `read` and `input` are what an end
has received and what of it is still in its input buffer, `sent` and `written`
what it was given to send and how much of that the kernel has taken. `owners` is
what keeps the Tunnel alive, `alarms` the high-water mark callbacks queued in the
loop.

`disconnect()` and `tearDown` are `AfterShutdown`: nothing more can be sent, but the
end of the stream goes out only when the output buffer is empty (`HalfClosed`).

What the model shows besides its properties, and the code does not say:

* A tunnel whose buffer overflows because a peer does not read stops sending, and no
  more: that peer is not told, as the end of the stream waits behind the data, and both
  connections stay up for as long as it does not read. `OverflowEndsTunnel` says that
  the tunnel ends if the peers read again, or go away.
* The callbacks that hold the Tunnel belong to its own `client_`, and nothing
  resets them. A Tunnel that was set up is never released, nor is the accepted
  connection in its `serverConn_`: "callbacks" never leaves `owners`. The comment
  in `tunnel.h:43` expects the Tunnel to go first.
* An accepted connection that closes while the connect is under way does not call
  it off (`TcpClient::disconnect` shuts down a connection that is up). The connect
  completes and the new connection stays open until its peer closes it. `late`
  records this case, the exception in `EndsTogether`.

### Download

One connection; connections share the name of the file and nothing else. `offset`
is how far the `FILE` in the context has been read, `taken` and `flushed` are how
many bytes the connection was given and how many of them the kernel has. `queued`
counts the write-complete callbacks in the loop: muduo queues one whenever a send
or a write leaves nothing unsent, also for a send of no bytes, which is what ends
the download of an empty file. `OnConnectionUp`, `OnWriteComplete` and
`OnConnectionDown` are the callbacks, `WriteOut` is the loop. A callback may
run after the connection has gone down; `send` then does nothing.

### EchoServers, EchoClients and EchoSockets

`Init` chooses one of the five servers; a behaviour has one server and several
clients, each with one connection and a program. Worker `c` is the process, thread
or watcher that was made when client `c` was accepted, and `pos[c]` is where it
stands: before a call, blocked in `read` or `write`, or done. A byte is its sender
and its number, and `Window` bytes fit between two ends in each direction, so that
writes block.

| Server | Code | In the model |
| --- | --- | --- |
| `fork` | `echo_server_block.c` | `BlockAccept`, `BlockChild`: a worker of its own for each connection; a broken pipe kills only it |
| `poll` | `echo_server_nonblock.c` | `Wakes`, `NonblockAccept`, `NonblockAcceptNone`, `NonblockChild`: parent and former children wake for the same connection, one accepts it; writes what fits and drops the rest |
| `thread` | `echo_server_multithread.c` | `ThreadAccept`, `CopyPassInfo`, `ThreadFunc`: descriptors, and `pass_info` between main and the threads |
| `libev` | `echo_server_libev.c` | `ListenSocketCB`, `ClientSocketCB`: one callback at a time, which may block in its write |
| `python` | `echo-poll.py` | `PollAccept`, `PollEvent`: the same, and an error is an exception that ends the script |

A client that closes with bytes unread resets the connection. The next call of the
server on it fails, a write after that raises SIGPIPE, which no server handles: it
ends the process, be that a child or the whole server.

What the models show besides the properties, and the code does not say:

* In `echo_server_multithread.c` `pass_info` is a local variable of the loop body
  in `main`, and the new thread copies it when it gets to run. If main accepts
  again before that, two threads work on the second connection and nobody reads
  the first (`overtaken`). Closing then takes a descriptor away under the other
  thread, and the next connection may get it. The properties say what holds as
  long as no copy was overtaken (`HandOver`, `StreamsIntact`, `LineAnswered`); nothing in
  the code prevents it.
* A child of `echo_server_nonblock.c` that is done with its connection falls out
  of the `if` and goes on in the accept loop beside its parent. All of them wake
  for a connection; those that find none fork all the same, and the stray child
  reads from descriptor -1. `StraysBounded` bounds their number; with two clients the
  bound is not reached. That the result of `accept` is not looked at is modelled only
  where it has this effect: a call that fails for another reason is left out.
* A blocked write in a server with one loop stops the other clients too. It takes
  a client that goes on sending without reading, and a message longer than all the
  buffers between the two (`StuckOnlyWhenTooLong`); `LineAnswered` names the case.
* `LineAnswered` excuses `echo_server_nonblock.c` for lines longer than the window, of
  which it may drop a part. The lines of the run are all longer, so the run shows the
  property for the other four servers.

## 3. What TLC checks

| Run | Instance | Shows |
| --- | --- | --- |
| `multi` | 3 clients, 2 loops, 2 ids, 3, 1 and no packets in messages of up to 2, 1 backend packet; fairness | the inductive invariant (`IInv`, with map and contexts in agreement); ids neither leak nor are shared (`IdPool`); the backend's loss reaches every client, including the one being accepted (`NoClientOutlivesBackend`, `BackendLossReleasesClients`); no assert of the callbacks fails before the backend is lost, and after it only that of `Buffer::prepend` (`AssertsHoldUntilLoss`); a reply goes to the holder of the id (`OnlyOwnId`); the id of a closed client returns (`ClosedClientReturnsId`); the server implements `MuxLease` (`ImplementsLease`), and sessions of an id are disjoint on the backend stream (`SessionsDisjoint`) |
| `multi_context` | 1 id | **finding**, below |
| `system` | 3 clients, 2 ids, messages of up to 2 packets, 3 packets a client and 3 together that reach the backend, 1 command, a second connection to the backend that comes and goes, bytes of 4 values | the inductive invariant of the single-threaded server (`IInv`), and that it implements `MuxBackend` with the backend server behind it, a message at a time (`ImplementsBackend`) |
| `multi_system` | 3 clients on 2 loops, 2 ids, 2 packets of two clients, 1 command, 3 frames for clients, the same second connection and bytes | through the threads of the multiplexer a client is handed each answer once, in order and only to packets with its id (`AnswersInOrder`), and what was meant for the id's previous holder only before the first answer of its own (`PredecessorsFirst`); the console has an open connection to send to, unless another one has closed (`ConsoleHasALink`) |
| `hub` | 2 clients, 2 topics, 3 lines each of any kind, 2 ticks | audiences and contexts agree; a subscriber has what was published last (`AudienceUpToDate`), never an older content after a newer (`NeverOlder`); nobody else is sent anything (`OnlyAudienceIsSent`) |
| `pubsub_system` | 2 clients, 2 topics, 2 lines each, 1 tick; fairness | the hub has of each client what its user asked for, but for what is under way (`HubFollowsClients`); a callback gets only topics its client asked for; a client that stays connected and subscribed catches up |
| `chat_threaded` | 2 talkers and 2 listeners on 3 loops | listeners agree on the order of messages that reach them from other loops |
| `chat_efficient` | 3 clients, 2 loops, 3 messages; fairness | no set is changed while it is walked (`SnapshotStable`); who is in the set at the start reads the message (`SnapshotHears`); each sender is read in order |
| `chat_highperf` | the same; fairness | everybody reads one conversation, and the whole rest of it; the server implements `ChatBroadcast` |
| `relay` | 4 chunks each way, read 1 or 2 at a time, high-water mark at 2; fairness | nothing is lost or reordered (`StreamsIntact`); neither connection is left able to send alone, but for a late connect (`EndsTogether`); an overflow ends the tunnel, once the peers read again or go away (`OverflowEndsTunnel`) |
| `download` | files of 0 to 16 bytes or none, a buffer of 5; fairness | the connection is shut down after the whole file and not before (`WholeFile`); it always waits for exactly one thing (`OneContinuation`); a download ends, also of an empty or a missing file (`EveryDownloadEnds`) |
| `echo` | each of the 5 servers with a line client and a block or a nonblocking client; 2 lines of 4 bytes, a block of 6, a window of 2; fairness | bytes come back in order, and to their sender (`StreamsIntact`); a thread keeps to its own connection (`HandOver`); clients that read their echo never end a server (`LinesNeverKill`); stray children are bounded (`StraysBounded`); only a message too long for all buffers blocks client and server for good (`StuckOnlyWhenTooLong`); a line is answered, in all but the `poll` server (`LineAnswered`) |

### Why these bounds

Three clients and two ids let an id be leased, returned and leased again while
another client holds the other one, and let a client find no id. `MaxTaken` is
given for each client: one client sends three packets, so that two of a message take
the lock anew and, after the loss of the backend, a third header finds no room; one sends
the packet whose answer races with a close, and one only holds an id. In
`multi_system` two clients send one packet each, so that each of them may be handed
the answer to the other one's under the id they had one after the other. Two
loops let a client callback run against another one and both against the base
loop; two of the clients share a loop, so that a callback also waits for another.
Three lines are a subscription followed by a publication of two lines, or a
malformed line between two others. A talker on each of two loops gives overlapping
broadcasts, and two messages of one of them an order of their own. Four chunks
with the high-water mark at two let each output buffer cross the mark, drain and
cross it again. Sixteen bytes and a buffer (`BufSize`, the `kBufSize` of the code)
of five give files that end in the middle of a buffer, with a full one, and with
nothing. In `echo` a line (4 bytes) is longer than a window and fits into the two
windows and the server together, a block (6) does not: one blocks for a while, the
other for good. Two clients give two accepts in a row, a second connection that
gets a freed descriptor, and one client that blocks or ends the server of the
other. The bounds are constants (`MaxBurst`, `MaxTaken`, `MaxReplies`, `MaxWire`,
`MaxCommands`, `MaxLines`, `MaxTicks`, `MaxSays`, `MaxChunks`, `MaxRead`,
`MaxSize`) and appear as guards of the action they limit.

Symmetry is used where a run has no liveness property and clients differ in
nothing (`system`, `hub`, the listeners of `chat_threaded`). Deadlock
is not checked: when all clients have closed and the bounds are used up nothing is
left to happen, which is how these runs end.

### Fairness

Nothing is assumed of clients, of a backend or of the users of a library. What is
assumed is that of an event loop: a callback that has begun runs to its end, a
functor that was queued is run, and a mutex is released by a holder that makes
progress. Each is weak fairness of one action, or of the actions a callback is made of, of which
one at most is enabled at a time; it suffices since nothing but
its own loop can disable them, the mutex excepted: in `ChatHighPerf` the actions
that need the mutex are calls of a client, and nothing is assumed of those. In
`TcpRelay` only the queued high-water mark callback is assumed to run; that the peers
read again or go away (`PeersRead`) and close at the end of the stream (`PeersClose`)
are premises of `OverflowEndsTunnel`. In
`Download` the queued connection and write-complete callbacks; that the peer reads
is a premise of `EveryDownloadEnds`. In `EchoServers` every process and thread is
scheduled, as the kernel does: a client that is inside `send`, `recv` or `close`
goes on, and so do `accept`, the workers and the processes that poll; nothing is
assumed of the user who types lines. A loop takes each descriptor that is ready
once before it polls again, hence weak fairness for each worker. For
`PubSubSystem`, TCP delivers what was written to a connection that stays open. The
liveness properties say "or the process has ended" and "or the connection is no
longer open" where the code allows for it.

### Findings

* `multi_context`: a client that was turned away because there was no id never
  gets a context. When it closes, `boost::any_cast<int>` in
  `multiplexer_multi.cc:177` throws, nothing catches it, and the server ends. Line
  178 asserts that every closing connection has an id.

The single-threaded server casts the context in the same way
(`multiplexer_simple.cc:151`). `MultiplexerSimple` has the exception in
`OnClientClose`; the properties of `system` hold up to it.

Observations that no run states:

* `backend_server.cc:74` casts after shifting, so the high byte of an id is lost
  and an answer to an id above 255 would go out under another one. `MuxBackend`
  has this conversion. Comments in both multiplexers allow ids up to 65535; the
  value of `MAX_CLIENT_CONNS` in use keeps all ids in one byte, and for those
  `AnswersInOrder` holds.
* Both multiplexers prepend the header to the client's own input buffer and expect
  `send` to empty it ("send will retrieve buf content",
  `multiplexer_multi.cc:236`). Without a usable backend connection nothing is
  retrieved: what is left is framed again with the next message, and the third small
  message of a client that goes on sending after the loss of the backend aborts the
  process in `Buffer::prepend` (line 227, and `multiplexer_simple.cc:199`). Both models
  have this end; `AssertsHoldUntilLoss` says that it needs the loss and two lost
  packets. The bytes that are framed again are never seen by anybody, since the backend
  does not come back.
* `PubSubClient::subscribe` replaces the callback before it knows whether the
  subscription can be sent (`pubsub.cc:40`); a client whose hub is gone keeps the
  new callback, which nobody will call.

## 4. What is proved

Every safety property, action property and refinement that a passing run checks is
a theorem as well: the run shows it on a small instance, the theorem for all values
of the constants that satisfy the assumption of the module, which TLC evaluates for
the instances. Sets of connections may have any size, loops any assignment, and
bounds any value. The assumptions say that the null pointer is no connection, that
loops are assigned to connections, that there is at least one id, that a buffer, a
window, a high-water mark are not empty, and the like. `EchoServers` also assumes
that there are finitely many clients, because `StraysBounded` counts them. `MuxLease` and
`MuxBackend`, which are implemented rather than run, assume nothing; what their
theorems need of the constants is a hypothesis, which the servers meet: that `NoId`
is not among the ids, and for `AnswersReachTheirClient` that ids fit into a byte
(`OneByteIds`, below).

### The multiplexer

`MuxBackendProofs`, theorem `LeaseSafety`: a system that behaves as `MuxLease` keeps
ids exclusive, sessions disjoint, streams in order and delivery to the right
holder. These do not follow from each other or from the types. `SessionsDisjoint`
is about the whole history of the backend stream, and a step can only break it
through a connection that transmits after another one has used its id. The
invariant `LeaseInv` therefore adds `WireInv`, that every packet has the id of its
sender and a number the sender has reached, and `Handover`: where a packet of one
connection is followed by one of another connection on the same id, the lease of
the first is over; as a connection leases once in its life it will not come back.

`MultiplexerProofs`, for the multi-threaded server: `IInv` is inductive. What the
properties say does not survive a step by itself; `IInv` adds

* `BaseInv`: `backendConn_` and the state of the connection agree but for the
  moment between its close and the callback (`base.at = "down"`); no id was given
  before the backend was up; the connection the base loop holds outside the lock
  still has the id it was looked up under. The last is what makes late delivery
  harmless: ids of a connection never change.
* `CallbackInv`: in each place of a callback, what its local variables and the
  shared state have in common. While `assign` has an id and the backend is
  registered, the id is registered for this connection; a connection without a
  context that is connected is about to be turned away; a connection is
  disconnected while it is in `release`, so no second callback can give the id
  back again.
* `StreamInv`: nothing cut from a client's stream is lost while the backend has
  not been lost, hence the numbering of packets has no gaps.
* `RoomInv`: the room in front of an input buffer is 8 bytes less the headers of lost
  packets and of the one being sent, so that `prepend` can only fail for want of a
  backend.

One lemma for each action shows that it preserves `IInv`; those of `OnClientUp`,
`ReleaseId` and `OnBackendDown`, which move ids, use lemmas on the queue (`Append`
of an absent id and `Tail` keep it free of repetitions). Theorems: `Invariance`
(`IInv`), `TypeCorrect`, `PoolPartition` (`IdPool`), `BackendLossComplete`
(`NoClientOutlivesBackend`), `AssertsFailOnlyAfterLoss`
(`AssertsHoldUntilLoss`).

`Refinement` shows `Spec => ImplementsLease`. In
reachable states (those of `IInv`) every action is a step of `MuxLease` or a
stutter: `OnClientUp` with an id acquires, `ReleaseId` while the backend is
registered releases, `OnBackendUp` and `OnBackendDown` open and close,
`SendBackendPacket` on a live connection transmits a burst of one, `SendToClient`
delivers. `SessionSafety` then takes the invariants of `MuxLease` over by
instantiation: exclusive ids, disjoint sessions, ordered streams, and replies only
to the holder.

`MultiplexerSystemProofs` has the single-threaded server. Its `IInv` is also
checked by the run `system`. Beyond the properties it says that a connection
without an id is not connected, and that everything cut from a client's stream has
been sent unless the client has an id and the backend is gone; without that the
numbers of the packets could have gaps and a burst would be no step of `MuxLease`.
`SimpleInvariance`, `SimpleRefinement` and `SimpleSessionSafety` are the
counterparts of the theorems above, with several packets in a step and against any
backend; `SystemInvariance` is `IInv` with the backend server.

### The backend server

`MuxBackendProofs`, second part: `AnswersReachTheirClient` is `AnswersInOrder` and
`PredecessorsFirst`. It uses nothing of the multiplexer but `LeaseInv`. `BackendInv`
adds what the frames on their way to the multiplexer are (`BackInv`: commands, and
answers to packets the backend has read, the answers in the order of the packets) and
that what a client was handed is older than any of them (`Handed`). `PredecessorsFirst` is kept because of `Handover`:
in the stream, packets of the previous holder of an id come before those of the
present one, and so do the answers.

The theorem has the hypothesis `OneByteIds`: ids fit into the low byte. It is needed,
since `backend_server.cc:74` loses the high byte, and the code has it: ids are at most
`MAX_CLIENT_CONNS`, which is 10 (`multiplexer_multi.cc:25`). Without it an answer can
go out under the id of another client. `CommandsHaveALink` needs no hypothesis.

### From end to end

That the backend server may be put behind either multiplexer is itself a theorem, in
`MultiplexerProofs` and in `MultiplexerSystemProofs`: `SystemRefinement`, which is
`SystemSpec => ImplementsBackend`. A step of the multiplexer is a step of `MuxLease` or
a stutter, as in `Refinement`; what is left to show is that a frame is handed to the
holder of the id in its header, or to nobody. For the single-threaded server this is
one step. In the multi-threaded one the client is looked up in one step and written to
in another, with other threads and the backend in between, and `FrameInv` connects the
two: what the base loop holds on to was looked up for the frame that is still the first
of the buffer, whatever was appended behind it, and `BaseInv` says that the client still
has that id, although the id may have passed to another client. `SystemInvariance`
proves `FrameInv` together with `IInv`.

`AnswersComeBack` and `CommandsComeThrough` then take over what `MuxBackendProofs` shows:
in both systems a client is handed answers in order, only to packets with its id, each
once, and no predecessor's after one of its own; the console has a link. The hypothesis
of `AnswersComeBack` is that of the code, fewer ids than a byte has values
(`MaxClientConns < ByteValues`).

### The pubsub hub and its clients

`PubSubProofs` proves every property of the run `hub` for any connections and
topics and for clients that send as much as they like. The state properties are
inductive together with two facts: the connection that is being handled can still
close (`HandlesReadable`), without which a subscription could leave a dead
connection in an audience; and nothing is sent before it is published
(`SentIsPublished`), without which the next publication would not be newer than
all that was sent. Two lemmas carry the argument. A step either leaves a stream
alone or adds the latest content of one topic to it (`Extends`), and steps of that
kind keep the streams in order (`StreamsKeep`); a listener stays up to date if it
is sent the latest content of the topic, or had it and is sent something of
another topic at most (`UpToDateKeeps`). Each action is then shown to be such a
step. `OnlyAudienceIsSent` is an action property and follows from the same
invariant.

With the clients of `pubsub.cc` and the streams between them and the hub,
`CallbacksWereAskedFor` is `OnlyWhatWasAskedFor`. `AskedInv` follows a content back
along its way: from the callback to what the hub sent, from there to the audience it
was sent to, and from the audience to the line that subscribed, which `subscribe`
wrote after the topic had been noted. `SysInv` joins it to the invariant of the hub.

`ClientsAreFollowed` is `HubFollowsClients`. It needs that the stream of a client is
made of whole commands (`FollowInv`) although segments are not (`Whole`: each publication has both
its lines somewhere between the client and the end of the hub's buffer, and no line of
content stands alone), so that the hub never takes half a publication for a command and
rejects nothing (`NothingRejected`). A client adds an order at the end
(`UserFollows`), the network moves lines from one part to the other
(`HubReadsFollows`), and the hub applies the first one and removes it.

### The chat servers with one set of connections

`ChatSharedProofs`, `NoSetChangesUnderAWalk`: `SnapshotStable`, for any number of
broadcasts at a time. The invariant is inductive as it stands but for the types of
what a broadcast queues in another loop, which is a message of its client only
because a broadcast begins after a message was decoded (`BroadcastsDecoded`).
`ChangeKeeps` is the heart: an object changed in place is walked by nobody, as
`unique()` says, and a copy gets a number that no broadcast holds.

Both other theorems look at the line of a client: what was written to its socket,
followed by what its loop has still to write. `OnLine` and `Ahead` say that a message
is on the line of a client, and that one is ahead of another. A step puts a message
behind all that is on a line, moves one along without overtaking, or removes some
when a connection goes down; lemmas on sequences (`AppendHas`, `TailHas` and those
after them) turn each action into one of these.

* `SendersInOrder` is `SenderOrder` of the efficient server. `LinesInOrder` says that
  the messages of one sender are in order and without gaps on every line,
  `LinesUpToDate` that a connected client that has one of them has all later ones up
  to the last, or to the one before while the broadcast has not reached it. The second
  is what makes the next message follow without a gap. It rests on `Listening`, that a
  broadcast finds everybody who is connected, hence on the copy being complete.
* `OtherLoopsAgree` is `OtherLoopsInOneOrder` of the threaded server. `OneOrder` says
  that no two lines have two messages from other loops in different orders; `Latest`,
  that while the mutex is held the message being broadcast is the last one on every
  line it has come to. `Routed` keeps it to other loops: a client of the sender's own
  loop is written to at once, and could have it before what waits in its queue.
  `ThreadedTypeCorrect` is the type invariant of that server.

### One conversation in the chat server

`ChatHighPerfProofs`: `EverybodyInOneOrder`, and `Refinement`, which shows
`Spec => ImplementsBroadcast`, for any connections and loops. The heart of `IInv` is
`QueuesFollowLog`: what loop `l` has still to run, its batch and then its queue, holds
the messages of the log from `done[l] + 1` to the last one it was told of, in this
order and with functors of other kinds in between. It says so with a function `N`
that numbers the places of the queue, and one lemma for each operation on a queue
shows how `N` changes (`NumberedTold`, `NumberedOther`, `NumberedRun`,
`NumberedLonger`). `OneBroadcast` says that the message being queued is the last one of the
log, which is what `mutex_` is for; `EstablishedOnce`, that a connection joins once;
`Reads`, that a client who can still be sent to has read up to where its loop is.
From `Reads`, and as no message is twice in the log (`LogOfDecoded`), the order of
messages for a client is that of their places in the log. `ReadsOneLog` is `ReadsTheLog` of
`ChatBroadcast`: what a client has read is a piece of the log. Taking the lock is `Say`,
`DistributeMessage` is `Hear` for the clients of a loop, `connectEstablished` is `Join`.

### The TCP relay

`TransferProofs`: `StreamsIntact` and `EndsTogether`, for streams of any length
and any high-water mark. They need each other: that nothing waits in an input
buffer while both ends can send depends on the context referring to the server's
connection whenever that is there, a part of `EndsTogether`. `NothingReadYet` adds
that nothing has come from the server before the connect completes, so that what
the client sent meanwhile is all there is to send then. `BufferedFollows` and
`SendKeepsStreams` are the lemmas about the two sequences of chunks.

### The file server

`TransferProofs` too: `WholeFile` and `OneContinuation`, for any file and buffer.
Neither is inductive alone: the shutdown comes after the whole file because the
callback runs only when nothing is unsent, and there is one callback because each
comes from one send. `DownloadInv` adds that a connection that has not come up has done
nothing.

### The echo servers

`EchoServersProofs`, for any number of clients of any of the three programs and any
length of messages, of the block and of the windows.

`ThreadsKeepTheirConnections` is `HandOver`. `IInv` adds that a connection is behind
one descriptor only (`OneDescriptor`): without it a thread that closes could leave its
connection behind a second descriptor, which the next accept would not reuse. `Own` is
`HandOver` for one thread; accepting keeps the threads that run apart from the new one
because `accept` returns a free descriptor, closing because no other thread has the
descriptor that is closed.

The other theorems rest on `Flow`, which is inductive for all five servers at once.

* `ClientsInv`: for each place of a client's program, how much it has sent and
  received (`ClientOK`), and where its bytes are (`StreamOK`). A byte goes through four
  places: the window to the server, the buffer of the worker, the window back, and the
  client. Each place has the bytes of one client in ascending order and the places
  follow one another; where nothing is dropped they are without gaps and together all
  that was sent. `Moved` is the step of a piece from one place to the next, and one
  lemma for each pair of places shows that it keeps the streams.
* `ServersInv`: the types, and that a call works on a connection of some client.
* `WorkersInv`: a worker has something in its buffer exactly when it is about to write
  it, so that a read never overwrites bytes, and it is done only after the end of its
  connection. This and the streams are said of behaviours in which no `pass_info` was
  overtaken, as the properties are.

What the workers of the five servers do is a handful of calls on a connection
(`Calls`), and the proof that a step keeps `Flow` is by these, with one lemma to say
that each server's actions are such calls.

`EchoesEverything` (`StreamsIntact`) is `ClientsInv` put together.
`LongMessagesOnlyGetStuck` (`StuckOnlyWhenTooLong`) counts: a client in the middle of
its message has nothing but that message in its stream, and if both windows are full
and the worker has at least a byte, the message is longer than the three together.
`LinesKeepServersAlive` (`LinesNeverKill`) adds `ClosedClean`: a line client closes when
it has read all of its echo, so that there is nothing unread and no reset.
`StraysStayBounded` (`StraysBounded`) adds what holds between two connections: while the
backlog is empty, the strays and the processes that are woken and will find nothing are
within the bound already; a connection that is accepted moves the bound by one for each
acceptor beside the first.

### Only model-checked

* Liveness, since the prover does not treat fairness and ENABLED:
  `BackendLossReleasesClients`, `ClosedClientReturnsId`, `SubscriberCatchesUp`,
  `SnapshotHears`, `LogIsHeard`, `OverflowEndsTunnel`, `EveryDownloadEnds`, `LineAnswered`.
* That the finding's property fails: TLC has the counterexample.

## 5. Abstractions

* Contents of messages, names and addresses; a packet is its client, its id and
  its number in the client's stream. The length byte of a packet is left out, so
  is a command typed at the backend that does not fit into it.
* Ids are written with two bytes of `ByteValues` values in `MuxBackend` only; in
  the other modules an id goes through unharmed, as it does with the constants of
  the code.
* TCP: a stream between two live ends is reliable and ordered; a close is seen
  after the data before it (pubsub) or at any time (elsewhere). Half-open
  connections are not modelled; output buffers of muduo have no limit, and only
  `TcpRelay` and `Download` look at how full they are. The echo programs use the
  kernel's sockets themselves: there the buffers are bounded by `Window`, and a
  close with bytes unread is a reset.
* Chat: the codec's input is a sequence of messages with an invalid length at any
  place; partial messages wait in the buffer and change nothing.
* Each connection object is used once, as in muduo; a client that reconnects is
  another connection.
* The backend server has one multiplexer whose packets are followed; another may
  connect and go.
* Echo: `socket`, `bind`, `listen` and a `fork` or `pthread_create` that fails are
  left out. `echo_server_nonblock.c` passes `sizeof` of its array to `poll` as the
  number of entries; the entries beyond the array, whatever they hold, are not
  modelled. A signal that interrupts a call is not either.
* The file that is downloaded does not change while it is sent.

## 6. Not modelled

| Part | Why |
| --- | --- |
| the libev example | a demonstration of the library's watchers |
| `simple/echo`, `simple/discard` | stateless callbacks |
| `reactor/s04` | writes one line and closes |
| `pub_state.cc`, `test.cc` | a user of the client library and a scratch test |

## 7. Plan

The order is that of importance: first the parts where threads meet.

1. Done: `MuxLease`, `MultiplexerMulti`, `MultiplexerSimple`, their refinement,
   the inductive invariants and the proofs.
2. Done: `PubSubHub`, then `PubSubSystem` on top of it; `ChatLoops` and the three
   servers on top of that, with `ChatBroadcast` as the promise of the third;
   `MuxBackend` on top of `MuxLease`.
3. Done: `TcpRelay`, `Download`.
4. Done: `EchoSockets`, `EchoClients` and `EchoServers`: all clients and servers
   on plain sockets, and their compositions.
5. Done: proofs of every safety property, action property and refinement the runs
   check, of all the components.
6. Done: `MultiplexerSystem` and `MultiplexerMultiSystem`, each multiplexer with the
   backend server, and the theorems from end to end.
7. Left: an abstract `Pipe`, two streams that end together, for `TcpRelay` to
   implement; the chat servers without one lock as implementations of a weaker
   `ChatBroadcast`.
