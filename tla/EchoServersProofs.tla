-------------------------- MODULE EchoServersProofs ---------------------------
(***************************************************************************)
(* The five echo servers with any number of clients of any of the three     *)
(* programs.  First echo_server_multithread.c alone, whose threads keep to  *)
(* the connections they were made for; then the bytes on their way in every *)
(* server, who waits for whom, what ends a server, and the stray children   *)
(* of echo_server_nonblock.c.                                               *)
(***************************************************************************)
EXTENDS EchoServers, FiniteSetTheorems, SequenceTheorems, TLAPS

Running == {"loop", "read", "echo", "write", "close"}

\* A thread that has its copy has a descriptor, also after a mix-up.
ThreadTypeOK ==
  /\ pos \in [Client -> {"none", "start", "done"} \cup Running]
  /\ file \in [Fd -> Client \cup {NoClient}]
  /\ fd \in [Client -> Fd \cup {NoFd}]
  /\ passInfo \in Fd \cup {NoFd}
  /\ held \in [Client -> Client \cup {NoClient}]
  /\ overtaken \in BOOLEAN
  /\ \A w \in Client : pos[w] = "start" => passInfo \in Fd
  /\ \A w \in Client : pos[w] \in Running => fd[w] \in Fd

\* A connection is behind one descriptor only; without that the close of a
\* thread could leave its connection behind another one.
OneDescriptor ==
  \A f, g \in Fd : file[f] = file[g] /\ file[f] # NoClient => f = g

\* HandOver, for one thread.
Own(w) ==
  /\ pos[w] = "start" => file[passInfo] = w
  /\ pos[w] \in Running => file[fd[w]] = w
  /\ pos[w] \in {"read", "write"} => held[w] = w
  /\ pos[w] \in {"none", "done"} => \A f \in Fd : file[f] # w

IInv ==
  server = "thread" =>
    /\ ThreadTypeOK
    /\ ~overtaken => OneDescriptor /\ \A w \in Client : Own(w)

LEMMA InitIInv == Init => IInv
BY EchoSocketsAssumption
   DEF Init, IInv, ThreadTypeOK, Running, OneDescriptor, Own

LEMMA IInvHandOver == IInv => HandOver
<1> SUFFICES ASSUME IInv, server = "thread", ~overtaken, NEW w \in Client
             PROVE  /\ pos[w] = "start" => file[passInfo] = w
                    /\ pos[w] \in Running => file[fd[w]] = w
                    /\ InCall(w) => held[w] = w
                    /\ pos[w] \in {"none", "done"} => w \notin Range(file)
  BY DEF HandOver, Running
<1>1. Own(w) /\ ThreadTypeOK
  BY DEF IInv
<1>2. pos[w] \in {"none", "done"} => w \notin Range(file)
  BY <1>1 DEF Own, Range, ThreadTypeOK
<1>3. QED
  BY <1>1, <1>2 DEF Own, InCall

\* main: accept gives a free descriptor.  If no other thread has yet to copy
\* pass_info, the new one is the only one to find its descriptor there.
LEMMA ThreadAcceptKeeps ==
  ASSUME IInv, NEW c \in Client, ThreadAccept(c)
  PROVE  IInv'
<1>0. /\ ThreadTypeOK /\ server = "thread" /\ server' = server
      /\ pos[c] = "none" /\ pos' = [pos EXCEPT ![c] = "start"]
      /\ fd' = fd /\ held' = held
      /\ overtaken' = (overtaken \/ \E w \in Client : pos[w] = "start")
  BY DEF IInv, ThreadAccept, Backlog, Goes
<1>1. PICK f \in Fd : /\ file[f] = NoClient
                      /\ file' = [file EXCEPT ![f] = c] /\ passInfo' = f
  BY DEF ThreadAccept
<1>2. ThreadTypeOK'
  BY <1>0, <1>1 DEF ThreadTypeOK, Running
<1>3. ASSUME ~overtaken'
      PROVE  OneDescriptor' /\ \A w \in Client : Own(w)'
  <2>1. /\ OneDescriptor /\ \A w \in Client : Own(w)
        /\ \A w \in Client : pos[w] # "start"
    BY <1>0, <1>3 DEF IInv, ThreadTypeOK
  <2>2. \A g \in Fd : file[g] # c
    BY <1>0, <2>1 DEF Own
  <2>3. OneDescriptor'
    BY <1>0, <1>1, <2>1, <2>2 DEF OneDescriptor, ThreadTypeOK
  <2>4. ASSUME NEW w \in Client
        PROVE  Own(w)'
    <3>1. CASE w = c
      BY <1>0, <1>1, <3>1 DEF Own, ThreadTypeOK, Running
    <3>2. CASE w # c
      <4>1. pos'[w] = pos[w] /\ pos[w] # "start" /\ Own(w)
        BY <1>0, <2>1, <3>2 DEF ThreadTypeOK
      <4>2. pos[w] \in Running => fd[w] \in Fd /\ fd[w] # f
        BY <1>0, <1>1, <4>1, EchoSocketsAssumption DEF Own, ThreadTypeOK
      <4>3. QED
        BY <1>0, <1>1, <3>2, <4>1, <4>2 DEF Own, ThreadTypeOK, Running
    <3>3. QED
      BY <3>1, <3>2
  <2>5. QED
    BY <2>3, <2>4
<1>4. QED
  BY <1>0, <1>2, <1>3 DEF IInv

\* The thread copies what main wrote for it.
LEMMA CopyPassInfoKeeps ==
  ASSUME IInv, NEW w \in Client, CopyPassInfo(w)
  PROVE  IInv'
<1>0. /\ ThreadTypeOK /\ server = "thread" /\ server' = server
      /\ pos[w] = "start" /\ pos' = [pos EXCEPT ![w] = "loop"]
      /\ fd' = [fd EXCEPT ![w] = passInfo]
      /\ file' = file /\ passInfo' = passInfo /\ held' = held
      /\ overtaken' = overtaken
  BY DEF IInv, CopyPassInfo, Goes
<1>1. ThreadTypeOK'
  BY <1>0 DEF ThreadTypeOK, Running
<1>2. ASSUME ~overtaken
      PROVE  OneDescriptor' /\ \A v \in Client : Own(v)'
  <2>1. OneDescriptor /\ \A v \in Client : Own(v)
    BY <1>0, <1>2 DEF IInv
  <2>2. OneDescriptor'
    BY <1>0, <2>1 DEF OneDescriptor
  <2>3. ASSUME NEW v \in Client
        PROVE  Own(v)'
    BY <1>0, <2>1 DEF Own, ThreadTypeOK, Running
  <2>4. QED
    BY <2>2, <2>3
<1>3. QED
  BY <1>0, <1>1, <1>2 DEF IInv

\* Steps of a thread that leave the descriptor table alone and bring it to
\* another place of its loop.
LEMMA RunsOn ==
  ASSUME IInv, NEW w \in Client, server = "thread", server' = server,
         pos[w] \in Running, NEW next \in Running,
         pos' = [pos EXCEPT ![w] = next],
         \/ held' = [held EXCEPT ![w] = file[fd[w]]]
         \/ held' = held /\ next \notin {"read", "write"},
         UNCHANGED <<file, fd, passInfo, overtaken>>
  PROVE  IInv'
<1>0. ThreadTypeOK /\ fd[w] \in Fd /\ file[fd[w]] \in Client \cup {NoClient}
  BY DEF IInv, ThreadTypeOK
<1>1. held' \in [Client -> Client \cup {NoClient}]
  BY <1>0 DEF ThreadTypeOK
<1>2. ThreadTypeOK'
  BY <1>0, <1>1 DEF ThreadTypeOK, Running
<1>3. ASSUME ~overtaken
      PROVE  OneDescriptor' /\ \A v \in Client : Own(v)'
  <2>1. OneDescriptor /\ \A v \in Client : Own(v)
    BY <1>3 DEF IInv
  <2>2. OneDescriptor'
    BY <2>1 DEF OneDescriptor
  <2>3. ASSUME NEW v \in Client
        PROVE  Own(v)'
    <3>1. CASE v = w
      BY <1>0, <2>1, <3>1 DEF Own, ThreadTypeOK, Running
    <3>2. CASE v # w
      BY <1>0, <2>1, <3>2 DEF Own, ThreadTypeOK, Running
    <3>3. QED
      BY <3>1, <3>2
  <2>4. QED
    BY <2>2, <2>3
<1>4. QED
  BY <1>2, <1>3 DEF IInv

\* close() frees the descriptor of the thread, which no other thread has.
LEMMA ClosesKeeps ==
  ASSUME IInv, NEW w \in Client, server = "thread", server' = server, Closes(w),
         UNCHANGED <<fd, passInfo, overtaken>>
  PROVE  IInv'
<1>0. /\ ThreadTypeOK /\ pos[w] = "close" /\ fd[w] \in Fd
      /\ pos' = [pos EXCEPT ![w] = "done"] /\ held' = held
      /\ file' = [file EXCEPT ![fd[w]] = NoClient]
  BY DEF IInv, ThreadTypeOK, Running, Closes, Goes, OwnInfo
<1>1. ThreadTypeOK'
  BY <1>0 DEF ThreadTypeOK, Running
<1>2. ASSUME ~overtaken
      PROVE  OneDescriptor' /\ \A v \in Client : Own(v)'
  <2>1. OneDescriptor /\ (\A v \in Client : Own(v)) /\ file[fd[w]] = w
    BY <1>0, <1>2 DEF IInv, Own, Running
  <2>2. OneDescriptor'
    BY <1>0, <2>1 DEF OneDescriptor, ThreadTypeOK
  <2>3. ASSUME NEW v \in Client
        PROVE  Own(v)'
    <3>1. CASE v = w
      <4>1. \A f \in Fd : file[f] = w => f = fd[w]
        BY <1>0, <2>1, EchoSocketsAssumption DEF OneDescriptor
      <4>2. \A f \in Fd : file'[f] # w
        BY <1>0, <4>1, EchoSocketsAssumption DEF ThreadTypeOK
      <4>3. QED
        BY <1>0, <3>1, <4>2 DEF Own, ThreadTypeOK, Running
    <3>2. CASE v # w
      <4>1. pos'[v] = pos[v] /\ Own(v)
        BY <1>0, <2>1, <3>2 DEF ThreadTypeOK
      <4>2. /\ pos[v] = "start" => passInfo \in Fd /\ passInfo # fd[w]
            /\ pos[v] \in Running => fd[v] \in Fd /\ fd[v] # fd[w]
        BY <1>0, <2>1, <3>2, <4>1 DEF Own, ThreadTypeOK
      <4>3. \A f \in Fd : file'[f] \in {file[f], NoClient}
        BY <1>0 DEF ThreadTypeOK
      <4>4. QED
        BY <1>0, <4>1, <4>2, <4>3, EchoSocketsAssumption
           DEF Own, ThreadTypeOK, Running
    <3>3. QED
      BY <3>1, <3>2
  <2>4. QED
    BY <2>2, <2>3
<1>3. QED
  BY <1>1, <1>2 DEF IInv

\* Everything else a thread does: entering a call looks the descriptor up,
\* leaving it keeps the descriptor, and a SIGPIPE ends the process.
LEMMA ThreadFuncKeeps ==
  ASSUME IInv, NEW w \in Client, ThreadFunc(w)
  PROVE  IInv'
<1>0. /\ ThreadTypeOK /\ server = "thread" /\ server' = server
      /\ UNCHANGED <<fd, passInfo, overtaken>>
  BY DEF IInv, ThreadFunc
<1>1. CASE EntersCall(w)
  <2>1. /\ pos[w] \in {"loop", "echo"}
        /\ held' = [held EXCEPT ![w] = file[fd[w]]] /\ file' = file
        /\ \E next \in Running : pos' = [pos EXCEPT ![w] = next]
    BY <1>1 DEF EntersCall, OwnInfo, Goes, Running
  <2>2. QED
    BY <1>0, <2>1, RunsOn DEF Running
<1>2. CASE Closes(w)
  BY <1>0, <1>2, ClosesKeeps
<1>3. ASSUME NEW next \in {"loop", "echo", "close"}, pos[w] \in Running,
             Goes(w, next), UNCHANGED <<file, held>>
      PROVE  IInv'
  BY <1>0, <1>3, RunsOn DEF Goes, Running
<1>4. ASSUME UNCHANGED <<pos, file, held>>
      PROVE  IInv'
  BY <1>0, <1>4 DEF IInv, ThreadTypeOK, OneDescriptor, Own
<1>5. CASE UNCHANGED <<file, held>>
  <2>1. \/ pos[w] \in {"read", "write"}
            /\ \E next \in {"loop", "echo", "close"} : Goes(w, next)
        \/ UNCHANGED pos
        \/ EntersCall(w) \/ Closes(w)
    BY DEF ThreadFunc, Reads, Writes, WritesInVain, BrokenPipe, ServerKilled,
           ReadsEnd, ReadsError
  <2>2. QED
    BY <1>1, <1>2, <1>3, <1>4, <1>5, <2>1 DEF Running
<1>6. QED
  BY <1>1, <1>2, <1>5 DEF ThreadFunc

\* The clients have no part in it, and only one server runs.
LEMMA NextKeeps == IInv /\ [Next]_vars => IInv'
<1> SUFFICES ASSUME IInv, [Next]_vars, server' = "thread" PROVE IInv'
  BY DEF IInv
<1>0. UNCHANGED <<server, pos, threads>> => IInv'
  BY DEF threads, IInv, ThreadTypeOK, OneDescriptor, Own
<1>1. CASE UNCHANGED vars
  BY <1>0, <1>1 DEF vars
<1>2. ASSUME NEW c \in Client, UserStep(c) \/ ClientStep(c)
      PROVE  IInv'
  BY <1>0, <1>2 DEF UserStep, ClientStep
<1>3. ASSUME NEW c \in Client, Accept(c)
      PROVE  IInv'
  BY <1>3, ThreadAcceptKeeps
     DEF Accept, BlockAccept, ListenSocketCB, PollAccept
<1>4. ASSUME NEW w \in Client, Worker(w)
      PROVE  IInv'
  BY <1>4, CopyPassInfoKeeps, ThreadFuncKeeps
     DEF Worker, BlockChild, NonblockChild, ClientSocketCB, PollEvent
<1>5. ASSUME NEW p \in Client \cup {Main}, Acceptor(p)
      PROVE  IInv'
  BY <1>5 DEF Acceptor, Wakes, NonblockAccept, NonblockAcceptNone
<1>6. QED
  BY <1>1, <1>2, <1>3, <1>4, <1>5 DEF Next

\* With any number of clients, whose connections come and go and whose
\* descriptors are used again: as long as no copy of pass_info was overtaken,
\* every thread keeps to its own connection.
THEOREM ThreadsKeepTheirConnections == Spec => []HandOver
<1>1. Init => IInv
  BY InitIInv
<1>2. IInv /\ [Next]_vars => IInv'
  BY NextKeeps
<1>3. IInv => HandOver
  BY IInvHandOver
<1>4. QED
  BY <1>1, <1>2, <1>3, PTL DEF Spec

-----------------------------------------------------------------------------
(* Every server: what the invariants of the runs rest on. *)

Byte == [of : Client, n : Int]

\* Where the bytes of client c are: those from number a + 1 on, or any in the
\* order of their numbers.
RunFrom(c, a, s) == \A i \in 1..Len(s) : s[i] = [of |-> c, n |-> a + i]
Sorted(c, top, s) ==
  /\ \A i \in 1..Len(s) : s[i].of = c /\ s[i].n \in 1..top
  /\ \A i, j \in 1..Len(s) : i < j => s[i].n < s[j].n
Precedes(s, t) == \A i \in 1..Len(s), j \in 1..Len(t) : s[i].n < t[j].n

\* The four places a byte goes through, from the last to the first.
Whole(c, top, g, d, b, u) ==
  /\ RunFrom(c, 0, g)
  /\ RunFrom(c, Len(g), d)
  /\ RunFrom(c, Len(g) + Len(d), b)
  /\ RunFrom(c, Len(g) + Len(d) + Len(b), u)
  /\ Len(g) + Len(d) + Len(b) + Len(u) = top
Ordered(c, top, g, d, b, u) ==
  /\ Sorted(c, top, g) /\ Sorted(c, top, d) /\ Sorted(c, top, b) /\ Sorted(c, top, u)
  /\ Precedes(g, d) /\ Precedes(g, b) /\ Precedes(g, u)
  /\ Precedes(d, b) /\ Precedes(d, u) /\ Precedes(b, u)
  /\ Len(g) + Len(d) + Len(b) + Len(u) <= top

\* A worker has something to write when and only when it is about to, and
\* ends only after the end of its connection.
Fine(w) ==
  /\ pos[w] \in {"echo", "write"} => buf[w] # <<>>
  /\ buf[w] # <<>> => pos[w] \in {"echo", "write", "done"}
  /\ link[w] = "open" => pos[w] \notin {"close", "accept", "done"}
WorkersInv == ~overtaken => \A w \in Client : Fine(w)

-----------------------------------------------------------------------------
(* Pieces of a stream. *)

LEMMA Cut ==
  ASSUME NEW s \in Seq(Byte), NEW k \in 0..Len(s)
  PROVE  /\ SubSeq(s, 1, k) \in Seq(Byte) /\ Len(SubSeq(s, 1, k)) = k
         /\ \A i \in 1..k : SubSeq(s, 1, k)[i] = s[i]
         /\ SubSeq(s, k + 1, Len(s)) \in Seq(Byte)
         /\ Len(SubSeq(s, k + 1, Len(s))) = Len(s) - k
         /\ \A i \in 1..Len(s) - k :
              k + i \in 1..Len(s) /\ SubSeq(s, k + 1, Len(s))[i] = s[k + i]
         /\ Len(s) \in Nat /\ k \in Nat
<1>1. Len(s) \in Nat /\ k \in Nat /\ k <= Len(s)
  OBVIOUS
<1>2. /\ SubSeq(s, 1, k) \in Seq(Byte) /\ Len(SubSeq(s, 1, k)) = k
      /\ \A i \in 1..k : SubSeq(s, 1, k)[i] = s[i]
  BY <1>1
<1>3. /\ SubSeq(s, k + 1, Len(s)) \in Seq(Byte)
      /\ Len(SubSeq(s, k + 1, Len(s))) = Len(s) - k
  BY <1>1
<1>4. \A i \in 1..Len(s) - k :
        k + i \in 1..Len(s) /\ SubSeq(s, k + 1, Len(s))[i] = s[k + i]
  BY <1>1
<1>5. QED
  BY <1>1, <1>2, <1>3, <1>4

LEMMA Join ==
  ASSUME NEW s \in Seq(Byte), NEW t \in Seq(Byte)
  PROVE  /\ s \o t \in Seq(Byte) /\ Len(s \o t) = Len(s) + Len(t)
         /\ \A i \in 1..Len(s) : (s \o t)[i] = s[i]
         /\ \A i \in 1..Len(t) : (s \o t)[Len(s) + i] = t[i]
         /\ \A i \in 1..Len(s \o t) :
              i \in 1..Len(s) \/ (i - Len(s) \in 1..Len(t) /\ i = Len(s) + (i - Len(s)))
         /\ Len(s) \in Nat /\ Len(t) \in Nat
OBVIOUS

\* The first k bytes of y move to the end of x, which become y2 and x2.
Moved(x, y, k, x2, y2) ==
  /\ x2 \in Seq(Byte) /\ y2 \in Seq(Byte)
  /\ Len(x2) = Len(x) + k /\ Len(y2) = Len(y) - k
  /\ \A c : \A a \in Nat :
       RunFrom(c, a, x) /\ RunFrom(c, a + Len(x), y) =>
         RunFrom(c, a, x2) /\ RunFrom(c, a + Len(x2), y2)
  /\ \A c, top :
       Sorted(c, top, x) /\ Sorted(c, top, y) /\ Precedes(x, y) =>
         Sorted(c, top, x2) /\ Sorted(c, top, y2) /\ Precedes(x2, y2)
  /\ \A z : Precedes(z, x) /\ Precedes(z, y) => Precedes(z, x2) /\ Precedes(z, y2)
  /\ \A z : Precedes(x, z) /\ Precedes(y, z) => Precedes(x2, z) /\ Precedes(y2, z)

LEMMA MoveOn ==
  ASSUME NEW x \in Seq(Byte), NEW y \in Seq(Byte), NEW k \in 0..Len(y),
         NEW x2, x2 = x \o SubSeq(y, 1, k),
         NEW y2, y2 = SubSeq(y, k + 1, Len(y))
  PROVE  Moved(x, y, k, x2, y2)
<1>0. PICK p \in Seq(Byte) :
        /\ p = SubSeq(y, 1, k) /\ Len(p) = k /\ \A i \in 1..k : p[i] = y[i]
  BY Cut
<1>1. /\ x2 = x \o p /\ x2 \in Seq(Byte) /\ Len(x2) = Len(x) + k
      /\ \A i \in 1..Len(x) : x2[i] = x[i]
      /\ \A i \in 1..k : x2[Len(x) + i] = y[i]
      /\ \A i \in 1..Len(x2) :
           i \in 1..Len(x) \/ (i - Len(x) \in 1..k /\ i = Len(x) + (i - Len(x)))
      /\ Len(x) \in Nat /\ k \in Nat /\ k <= Len(y) /\ Len(y) \in Nat
  BY <1>0, Join
<1>2. /\ y2 \in Seq(Byte) /\ Len(y2) = Len(y) - k
      /\ \A i \in 1..Len(y) - k : k + i \in 1..Len(y) /\ y2[i] = y[k + i]
  BY Cut
\* Every byte of x2 is one of x or of the first of y, every byte of y2 a
\* later one of y.
<1>3. ASSUME NEW i \in 1..Len(x2)
      PROVE  \/ i \in 1..Len(x) /\ x2[i] = x[i]
             \/ \E h \in 1..Len(y) : h <= k /\ i = Len(x) + h /\ x2[i] = y[h]
  <2>1. CASE i \in 1..Len(x)
    BY <1>1, <2>1
  <2>2. CASE i \notin 1..Len(x)
    <3>1. PICK h \in 1..k : i = Len(x) + h
      BY <1>1, <2>2
    <3>2. h \in 1..Len(y) /\ h <= k /\ x2[i] = y[h]
      BY <1>1, <3>1
    <3>3. QED
      BY <3>1, <3>2
  <2>3. QED
    BY <2>1, <2>2
<1>4. ASSUME NEW i \in 1..Len(y2)
      PROVE  k + i \in 1..Len(y) /\ y2[i] = y[k + i]
  BY <1>2
<1>5. ASSUME NEW c, NEW a \in Nat, RunFrom(c, a, x), RunFrom(c, a + Len(x), y)
      PROVE  RunFrom(c, a, x2) /\ RunFrom(c, a + Len(x2), y2)
  <2>1. ASSUME NEW i \in 1..Len(x2) PROVE x2[i] = [of |-> c, n |-> a + i]
    <3>1. CASE i \in 1..Len(x) /\ x2[i] = x[i]
      BY <1>5, <3>1 DEF RunFrom
    <3>2. ASSUME NEW h \in 1..Len(y), i = Len(x) + h, x2[i] = y[h]
          PROVE  x2[i] = [of |-> c, n |-> a + i]
      <4>1. y[h] = [of |-> c, n |-> a + Len(x) + h]
        BY <1>5 DEF RunFrom
      <4>2. a + Len(x) + h = a + i
        BY <1>1, <3>2
      <4>3. QED
        BY <3>2, <4>1, <4>2
    <3>3. QED
      BY <1>3, <3>1, <3>2
  <2>2. ASSUME NEW i \in 1..Len(y2)
        PROVE  y2[i] = [of |-> c, n |-> a + Len(x2) + i]
    <3>1. y[k + i] = [of |-> c, n |-> a + Len(x) + (k + i)]
      BY <1>4, <1>5 DEF RunFrom
    <3>2. a + Len(x) + (k + i) = a + Len(x2) + i
      BY <1>1
    <3>3. QED
      BY <1>4, <3>1, <3>2
  <2>3. QED
    BY <2>1, <2>2 DEF RunFrom
<1>6. ASSUME NEW c, NEW top, Sorted(c, top, x), Sorted(c, top, y), Precedes(x, y)
      PROVE  Sorted(c, top, x2) /\ Sorted(c, top, y2) /\ Precedes(x2, y2)
  <2>1. \A i \in 1..Len(x2) : x2[i].of = c /\ x2[i].n \in 1..top
    BY <1>3, <1>6 DEF Sorted
  <2>2. ASSUME NEW i \in 1..Len(x2), NEW j \in 1..Len(x2), i < j
        PROVE  x2[i].n < x2[j].n
    <3>1. CASE i \in 1..Len(x) /\ x2[i] = x[i] /\ j \in 1..Len(x) /\ x2[j] = x[j]
      BY <1>6, <2>2, <3>1 DEF Sorted
    <3>2. ASSUME NEW h \in 1..Len(y), x2[j] = y[h], i \in 1..Len(x), x2[i] = x[i]
          PROVE  x2[i].n < x2[j].n
      BY <1>6, <3>2 DEF Precedes
    <3>3. ASSUME NEW h \in 1..Len(y), i = Len(x) + h, j \in 1..Len(x) PROVE FALSE
      BY <1>1, <2>2, <3>3
    <3>4. ASSUME NEW h \in 1..Len(y), i = Len(x) + h, x2[i] = y[h],
                 NEW l \in 1..Len(y), j = Len(x) + l, x2[j] = y[l]
          PROVE  x2[i].n < x2[j].n
      <4>1. h < l
        BY <1>1, <2>2, <3>4
      <4>2. QED
        BY <1>6, <3>4, <4>1 DEF Sorted
    <3>5. QED
      BY <1>3, <3>1, <3>2, <3>3, <3>4
  <2>3. Sorted(c, top, y2)
    <3>1. \A i \in 1..Len(y2) : y2[i].of = c /\ y2[i].n \in 1..top
      BY <1>4, <1>6 DEF Sorted
    <3>2. ASSUME NEW i \in 1..Len(y2), NEW j \in 1..Len(y2), i < j
          PROVE  y2[i].n < y2[j].n
      <4>1. k + i < k + j
        BY <1>1, <3>2
      <4>2. QED
        BY <1>4, <1>6, <4>1 DEF Sorted
    <3>3. QED
      BY <3>1, <3>2 DEF Sorted
  <2>4. ASSUME NEW i \in 1..Len(x2), NEW j \in 1..Len(y2)
        PROVE  x2[i].n < y2[j].n
    <3>1. k + j \in 1..Len(y) /\ y2[j] = y[k + j]
      BY <1>4
    <3>2. CASE i \in 1..Len(x) /\ x2[i] = x[i]
      BY <1>6, <3>1, <3>2 DEF Precedes
    <3>3. ASSUME NEW h \in 1..Len(y), h <= k, x2[i] = y[h]
          PROVE  x2[i].n < y2[j].n
      <4>1. h < k + j
        BY <1>1, <3>3
      <4>2. QED
        BY <1>6, <3>1, <3>3, <4>1 DEF Sorted
    <3>4. QED
      BY <1>3, <3>2, <3>3
  <2>5. QED
    BY <2>1, <2>2, <2>3, <2>4 DEF Sorted, Precedes
<1>7. ASSUME NEW z, Precedes(z, x), Precedes(z, y)
      PROVE  Precedes(z, x2) /\ Precedes(z, y2)
  <2>1. Precedes(z, x2)
    BY <1>3, <1>7 DEF Precedes
  <2>2. Precedes(z, y2)
    BY <1>4, <1>7 DEF Precedes
  <2>3. QED
    BY <2>1, <2>2
<1>8. ASSUME NEW z, Precedes(x, z), Precedes(y, z)
      PROVE  Precedes(x2, z) /\ Precedes(y2, z)
  <2>1. Precedes(x2, z)
    BY <1>3, <1>8 DEF Precedes
  <2>2. Precedes(y2, z)
    BY <1>4, <1>8 DEF Precedes
  <2>3. QED
    BY <2>1, <2>2
<1>9. QED
  BY <1>1, <1>2, <1>5, <1>6, <1>7, <1>8 DEF Moved

\* A stream in its four places.
Intact(c, top, whole, g, d, b, u) ==
  Ordered(c, top, g, d, b, u) /\ (whole => Whole(c, top, g, d, b, u))

LEMMA Received ==
  ASSUME NEW g \in Seq(Byte), NEW d \in Seq(Byte), NEW b \in Seq(Byte),
         NEW u \in Seq(Byte), NEW c, NEW top, NEW whole, Intact(c, top, whole, g, d, b, u),
         NEW k \in Nat, NEW g2, NEW d2, Moved(g, d, k, g2, d2)
  PROVE  Intact(c, top, whole, g2, d2, b, u)
<1>0. Len(g) \in Nat /\ Len(d) \in Nat /\ Len(b) \in Nat /\ Len(u) \in Nat
  OBVIOUS
<1>1. Len(g2) = Len(g) + k /\ Len(d2) = Len(d) - k
  BY DEF Moved
<1>2. Len(g2) + Len(d2) = Len(g) + Len(d) /\ 0 + Len(g2) = Len(g2) /\ 0 + Len(g) = Len(g)
  BY <1>0, <1>1
<1>3. Ordered(c, top, g2, d2, b, u)
  BY <1>2 DEF Intact, Ordered, Moved
<1>4. ASSUME Whole(c, top, g, d, b, u) PROVE Whole(c, top, g2, d2, b, u)
  <2>1. RunFrom(c, 0, g) /\ RunFrom(c, 0 + Len(g), d)
    BY <1>2, <1>4 DEF Whole
  <2>2. RunFrom(c, 0, g2) /\ RunFrom(c, 0 + Len(g2), d2)
    BY <2>1 DEF Moved
  <2>3. QED
    BY <1>2, <1>4, <2>2 DEF Whole
<1>5. QED
  BY <1>3, <1>4 DEF Intact

LEMMA Written ==
  ASSUME NEW g \in Seq(Byte), NEW d \in Seq(Byte), NEW b \in Seq(Byte),
         NEW u \in Seq(Byte), NEW c, NEW top, NEW whole, Intact(c, top, whole, g, d, b, u),
         NEW k \in Nat, NEW d2, NEW b2, Moved(d, b, k, d2, b2)
  PROVE  Intact(c, top, whole, g, d2, b2, u)
<1>0. Len(g) \in Nat /\ Len(d) \in Nat /\ Len(b) \in Nat /\ Len(u) \in Nat
  OBVIOUS
<1>1. Len(d2) = Len(d) + k /\ Len(b2) = Len(b) - k
  BY DEF Moved
<1>2. Len(g) + Len(d2) + Len(b2) = Len(g) + Len(d) + Len(b)
  BY <1>0, <1>1
<1>3. Ordered(c, top, g, d2, b2, u)
  BY <1>2 DEF Intact, Ordered, Moved
<1>4. ASSUME Whole(c, top, g, d, b, u) PROVE Whole(c, top, g, d2, b2, u)
  <2>1. RunFrom(c, Len(g), d) /\ RunFrom(c, Len(g) + Len(d), b)
    BY <1>4 DEF Whole
  <2>2. RunFrom(c, Len(g), d2) /\ RunFrom(c, Len(g) + Len(d2), b2)
    BY <1>0, <2>1 DEF Moved
  <2>3. QED
    BY <1>2, <1>4, <2>2 DEF Whole
<1>5. QED
  BY <1>3, <1>4 DEF Intact

LEMMA Taken ==
  ASSUME NEW g \in Seq(Byte), NEW d \in Seq(Byte), NEW b \in Seq(Byte),
         NEW u \in Seq(Byte), NEW c, NEW top, NEW whole, Intact(c, top, whole, g, d, b, u),
         NEW k \in Nat, NEW b2, NEW u2, Moved(b, u, k, b2, u2)
  PROVE  Intact(c, top, whole, g, d, b2, u2)
<1>0. Len(g) \in Nat /\ Len(d) \in Nat /\ Len(b) \in Nat /\ Len(u) \in Nat
  OBVIOUS
<1>1. Len(b2) = Len(b) + k /\ Len(u2) = Len(u) - k
  BY DEF Moved
<1>2. Len(g) + Len(d) + Len(b2) + Len(u2) = Len(g) + Len(d) + Len(b) + Len(u)
  BY <1>0, <1>1
<1>3. Ordered(c, top, g, d, b2, u2)
  BY <1>2 DEF Intact, Ordered, Moved
<1>4. ASSUME Whole(c, top, g, d, b, u) PROVE Whole(c, top, g, d, b2, u2)
  <2>0. Len(g) + Len(d) \in Nat
    BY <1>0
  <2>1. RunFrom(c, Len(g) + Len(d), b) /\ RunFrom(c, Len(g) + Len(d) + Len(b), u)
    BY <1>4 DEF Whole
  <2>2. RunFrom(c, Len(g) + Len(d), b2) /\ RunFrom(c, Len(g) + Len(d) + Len(b2), u2)
    BY <2>0, <2>1 DEF Moved
  <2>3. QED
    BY <1>2, <1>4, <2>2 DEF Whole
<1>5. QED
  BY <1>3, <1>4 DEF Intact

\* Pieces may be lost, except for what the client has received.
LEMMA Lost ==
  ASSUME NEW g \in Seq(Byte), NEW d \in Seq(Byte), NEW b \in Seq(Byte),
         NEW u \in Seq(Byte), NEW c, NEW top \in Int, Ordered(c, top, g, d, b, u),
         NEW d2 \in {d, <<>>}, NEW b2 \in {b, <<>>}, NEW u2 \in Prefixes(u)
  PROVE  /\ d2 \in Seq(Byte) /\ b2 \in Seq(Byte) /\ u2 \in Seq(Byte)
         /\ Len(d2) <= Len(d) /\ Len(u2) <= Len(u)
         /\ Ordered(c, top, g, d2, b2, u2)
<1>0. /\ Len(g) \in Nat /\ Len(d) \in Nat /\ Len(b) \in Nat /\ Len(u) \in Nat
  OBVIOUS
<1>1. PICK k \in 0..Len(u) : u2 = SubSeq(u, 1, k)
  BY DEF Prefixes
<1>2. /\ u2 \in Seq(Byte) /\ Len(u2) = k /\ k \in Nat /\ k <= Len(u)
      /\ \A i \in 1..Len(u2) : i \in 1..Len(u) /\ u2[i] = u[i]
  BY <1>0, <1>1, Cut
<1>3. ASSUME NEW s \in Seq(Byte), NEW s2 \in {s, <<>>}
      PROVE  /\ s2 \in Seq(Byte) /\ Len(s2) \in Nat /\ Len(s2) <= Len(s)
             /\ \A i \in 1..Len(s2) : i \in 1..Len(s) /\ s2[i] = s[i]
  <2>1. CASE s2 = s
    BY <2>1
  <2>2. CASE s2 = <<>>
    <3>1. Len(s2) = 0 /\ s2 \in Seq(Byte) /\ Len(s) \in Nat
      BY <2>2
    <3>2. QED
      BY <3>1
  <2>3. QED
    BY <2>1, <2>2
<1>4. /\ d2 \in Seq(Byte) /\ Len(d2) \in Nat /\ Len(d2) <= Len(d)
      /\ \A i \in 1..Len(d2) : i \in 1..Len(d) /\ d2[i] = d[i]
      /\ b2 \in Seq(Byte) /\ Len(b2) \in Nat /\ Len(b2) <= Len(b)
      /\ \A i \in 1..Len(b2) : i \in 1..Len(b) /\ b2[i] = b[i]
  BY <1>3
\* Both are inherited by whatever keeps the first bytes of a piece.
<1>5. /\ \A s, s2 : (\A i \in 1..Len(s2) : i \in 1..Len(s) /\ s2[i] = s[i])
                     /\ Sorted(c, top, s) => Sorted(c, top, s2)
      /\ \A s, s2, t, t2 :
           /\ \A i \in 1..Len(s2) : i \in 1..Len(s) /\ s2[i] = s[i]
           /\ \A i \in 1..Len(t2) : i \in 1..Len(t) /\ t2[i] = t[i]
           /\ Precedes(s, t)
           => Precedes(s2, t2)
  <2>1. ASSUME NEW s, NEW s2, Sorted(c, top, s),
               \A i \in 1..Len(s2) : i \in 1..Len(s) /\ s2[i] = s[i]
        PROVE  Sorted(c, top, s2)
    BY <2>1 DEF Sorted
  <2>2. ASSUME NEW s, NEW s2, NEW t, NEW t2, Precedes(s, t),
               \A i \in 1..Len(s2) : i \in 1..Len(s) /\ s2[i] = s[i],
               \A i \in 1..Len(t2) : i \in 1..Len(t) /\ t2[i] = t[i]
        PROVE  Precedes(s2, t2)
    BY <2>2 DEF Precedes
  <2>3. QED
    BY <2>1, <2>2
<1>6. /\ Sorted(c, top, g) /\ Sorted(c, top, d2) /\ Sorted(c, top, b2) /\ Sorted(c, top, u2)
      /\ Precedes(g, d2) /\ Precedes(g, b2) /\ Precedes(g, u2)
      /\ Precedes(d2, b2) /\ Precedes(d2, u2) /\ Precedes(b2, u2)
  <2>1. /\ Sorted(c, top, g) /\ Sorted(c, top, d) /\ Sorted(c, top, b) /\ Sorted(c, top, u)
        /\ Precedes(g, d) /\ Precedes(g, b) /\ Precedes(g, u)
        /\ Precedes(d, b) /\ Precedes(d, u) /\ Precedes(b, u)
    BY DEF Ordered
  <2>2. Sorted(c, top, d2) /\ Sorted(c, top, b2) /\ Sorted(c, top, u2)
    BY <1>2, <1>4, <1>5, <2>1
  <2>3. \A i \in 1..Len(g) : i \in 1..Len(g) /\ g[i] = g[i]
    OBVIOUS
  <2>4. Precedes(g, d2) /\ Precedes(g, b2) /\ Precedes(g, u2)
    BY <1>2, <1>4, <1>5, <2>1, <2>3
  <2>5. Precedes(d2, b2) /\ Precedes(d2, u2) /\ Precedes(b2, u2)
    BY <1>2, <1>4, <1>5, <2>1
  <2>6. QED
    BY <2>1, <2>2, <2>4, <2>5
<1>7. Len(g) + Len(d2) + Len(b2) + Len(u2) <= top
  BY <1>0, <1>2, <1>4 DEF Ordered
<1>8. QED
  BY <1>2, <1>4, <1>6, <1>7 DEF Ordered

LEMMA NextBytes ==
  ASSUME NEW c \in Client, NEW top \in Int, NEW k \in Nat
  PROVE  /\ Bytes(c, top + 1, top + k) \in Seq(Byte)
         /\ Len(Bytes(c, top + 1, top + k)) = k
         /\ RunFrom(c, top, Bytes(c, top + 1, top + k))
<1> DEFINE f == [i \in 1..k |-> [of |-> c, n |-> top + i]]
<1>1. Bytes(c, top + 1, top + k) = f
  <2>1. (top + k) - (top + 1) + 1 = k
    OBVIOUS
  <2>2. \A i \in 1..k : (top + 1) + i - 1 = top + i
    OBVIOUS
  <2>3. QED
    BY <2>1, <2>2 DEF Bytes
<1>2. f \in [1..k -> Byte]
  <2>1. \A i \in 1..k : [of |-> c, n |-> top + i] \in Byte
    BY DEF Byte
  <2>2. QED
    BY <2>1
<1>3. \A i \in 1..k : f[i] = [of |-> c, n |-> top + i]
  OBVIOUS
<1> HIDE DEF f
<1>4. f \in Seq(Byte) /\ Len(f) = k
  BY <1>2
<1>5. QED
  BY <1>1, <1>3, <1>4 DEF RunFrom

\* All of y moves to the end of x.
LEMMA Joined ==
  ASSUME NEW x \in Seq(Byte), NEW y \in Seq(Byte)
  PROVE  Moved(x, y, Len(y), x \o y, <<>>)
<1>1. /\ Len(y) \in 0..Len(y)
      /\ y = SubSeq(y, 1, Len(y)) /\ <<>> = SubSeq(y, Len(y) + 1, Len(y))
  OBVIOUS
<1>2. x \o y = x \o SubSeq(y, 1, Len(y))
  BY <1>1, Zenon
<1>3. QED
  BY <1>1, <1>2, MoveOn, Zenon

LEMMA RunOf ==
  ASSUME NEW c, NEW a \in Int, NEW s, RunFrom(c, a, s), NEW i \in 1..Len(s)
  PROVE  s[i].of = c /\ s[i].n = a + i
<1>1. s[i] = [of |-> c, n |-> a + i]
  BY Zenon DEF RunFrom
<1>2. QED
  BY <1>1

\* The client sends its next bytes, p; they come after all the others.
LEMMA SentOn ==
  ASSUME NEW g \in Seq(Byte), NEW d \in Seq(Byte), NEW b \in Seq(Byte),
         NEW u \in Seq(Byte), NEW c, NEW top \in Int, NEW whole,
         Intact(c, top, whole, g, d, b, u), NEW p \in Seq(Byte),
         RunFrom(c, top, p), NEW u2, Moved(u, p, Len(p), u2, <<>>)
  PROVE  Intact(c, top + Len(p), whole, g, d, b, u2)
<1>0. Len(g) \in Nat /\ Len(d) \in Nat /\ Len(b) \in Nat /\ Len(u) \in Nat /\ Len(p) \in Nat
  OBVIOUS
<1>1. Len(u2) = Len(u) + Len(p) /\ Len(u2) \in Nat
  <2>1. Len(u2) = Len(u) + Len(p)
    BY DEF Moved
  <2>2. QED
    BY <1>0, <2>1
<1>2. /\ top >= 0
      /\ Len(g) + Len(d) + Len(b) + Len(u2) <= top + Len(p)
  <2>1. Len(g) + Len(d) + Len(b) + Len(u) <= top
    BY DEF Intact, Ordered
  <2>2. QED
    BY <1>0, <1>1, <2>1
<1>3. \A z : Sorted(c, top, z) => Sorted(c, top + Len(p), z)
  <2>1. 1..top \subseteq 1..top + Len(p)
    BY <1>0, <1>2
  <2>2. QED
    BY <2>1 DEF Sorted
<1>4. Sorted(c, top + Len(p), p)
  <2>1. \A i \in 1..Len(p) : p[i].of = c /\ p[i].n = top + i
    BY RunOf
  <2>2. \A i \in 1..Len(p) : top + i \in 1..top + Len(p)
    BY <1>0, <1>2
  <2>3. \A i, j \in 1..Len(p) : i < j => top + i < top + j
    BY <1>0
  <2>4. \A i \in 1..Len(p) : p[i].of = c /\ p[i].n \in 1..top + Len(p)
    BY <2>1, <2>2, Zenon
  <2>5. ASSUME NEW i \in 1..Len(p), NEW j \in 1..Len(p), i < j
        PROVE  p[i].n < p[j].n
    <3>1. p[i].n = top + i /\ p[j].n = top + j
      BY <2>1
    <3>2. top + i < top + j
      BY <2>3, <2>5
    <3>3. QED
      BY <3>1, <3>2, Zenon
  <2>6. QED
    BY <2>4, <2>5 DEF Sorted
<1>5. ASSUME NEW z, Sorted(c, top, z) PROVE Precedes(z, p)
  <2>1. SUFFICES ASSUME NEW i \in 1..Len(z), NEW j \in 1..Len(p)
                 PROVE  z[i].n < p[j].n
    BY DEF Precedes
  <2>2. z[i].n \in 1..top
    BY <1>5 DEF Sorted
  <2>3. p[j].n = top + j
    BY RunOf
  <2>4. QED
    BY <1>0, <2>2, <2>3
<1>6. /\ Sorted(c, top, g) /\ Sorted(c, top, d) /\ Sorted(c, top, b) /\ Sorted(c, top, u)
      /\ Precedes(g, d) /\ Precedes(g, b) /\ Precedes(g, u)
      /\ Precedes(d, b) /\ Precedes(d, u) /\ Precedes(b, u)
  BY DEF Intact, Ordered
<1>7. Precedes(g, u2) /\ Precedes(d, u2) /\ Precedes(b, u2)
  BY <1>5, <1>6 DEF Moved
<1>8. Sorted(c, top + Len(p), u2)
  BY <1>3, <1>4, <1>5, <1>6 DEF Moved
<1>9. Ordered(c, top + Len(p), g, d, b, u2)
  BY <1>2, <1>3, <1>6, <1>7, <1>8 DEF Ordered
<1>10. ASSUME Whole(c, top, g, d, b, u) PROVE Whole(c, top + Len(p), g, d, b, u2)
  <2>1. PICK a : a = Len(g) + Len(d) + Len(b)
    OBVIOUS
  <2>2. a \in Nat /\ a + Len(u) = top
    BY <1>0, <1>10, <2>1 DEF Whole
  <2>3. RunFrom(c, a, u) /\ RunFrom(c, a + Len(u), p)
    BY <1>10, <2>1, <2>2 DEF Whole
  <2>4. RunFrom(c, a, u2)
    BY <2>2, <2>3 DEF Moved
  <2>5. a + Len(u2) = top + Len(p)
    <3>1. PICK x \in Int, y \in Int, v \in Int :
            x = Len(u) /\ y = Len(p) /\ v = Len(u2)
      BY <1>0, <1>1
    <3>2. v = x + y
      BY <1>1, <3>1, Zenon
    <3>3. a + x = top
      BY <2>2, <3>1, Zenon
    <3>4. a + v = top + y
      BY <2>2, <3>2, <3>3
    <3>5. QED
      BY <3>1, <3>4, Zenon
  <2>6. QED
    BY <1>10, <2>1, <2>4, <2>5 DEF Whole
<1>11. QED
  BY <1>9, <1>10 DEF Intact

\* What the places say of the stream as a whole.
Stream(g, d, b, u) == g \o d \o b \o u

LEMMA Assembled ==
  ASSUME NEW g \in Seq(Byte), NEW d \in Seq(Byte), NEW b \in Seq(Byte),
         NEW u \in Seq(Byte), NEW c \in Client, NEW top, Ordered(c, top, g, d, b, u)
  PROVE  /\ OwnBytesInOrder(c, Stream(g, d, b, u))
         /\ Whole(c, top, g, d, b, u) => Stream(g, d, b, u) = Bytes(c, 1, top)
<1>0. /\ Len(g) \in Nat /\ Len(d) \in Nat /\ Len(b) \in Nat /\ Len(u) \in Nat
      /\ 0 + Len(g) = Len(g) /\ 0 \in Nat
  OBVIOUS
<1>1. PICK x : x = g \o d /\ Moved(g, d, Len(d), x, <<>>)
  BY Joined
<1>2. x \in Seq(Byte)
  BY <1>1 DEF Moved
<1>3. PICK y : y = x \o b /\ Moved(x, b, Len(b), y, <<>>)
  BY <1>2, Joined
<1>4. y \in Seq(Byte)
  BY <1>3 DEF Moved
<1>5. PICK z : z = y \o u /\ Moved(y, u, Len(u), z, <<>>)
  BY <1>4, Joined
<1>6. z \in Seq(Byte) /\ z = Stream(g, d, b, u)
  BY <1>1, <1>3, <1>5 DEF Moved, Stream
<1>7. Sorted(c, top, z)
  <2>1. Sorted(c, top, x) /\ Precedes(x, b) /\ Precedes(x, u)
    BY <1>1 DEF Moved, Ordered
  <2>2. Sorted(c, top, y) /\ Precedes(y, u)
    BY <1>3, <2>1 DEF Moved, Ordered
  <2>3. QED
    BY <1>5, <2>2 DEF Moved, Ordered
<1>8. OwnBytesInOrder(c, z)
  <2>1. DOMAIN z = 1..Len(z)
    BY <1>6
  <2>2. QED
    BY <1>7, <2>1 DEF Sorted, OwnBytesInOrder
<1>9. ASSUME Whole(c, top, g, d, b, u) PROVE z = Bytes(c, 1, top)
  <2>1. RunFrom(c, 0, g) /\ RunFrom(c, 0 + Len(g), d)
    BY <1>0, <1>9 DEF Whole
  <2>2. RunFrom(c, 0, x) /\ Len(x) = Len(g) + Len(d)
    BY <1>0, <1>1, <2>1 DEF Moved
  <2>3. RunFrom(c, 0 + Len(x), b)
    <3>1. 0 + Len(x) = Len(g) + Len(d)
      BY <1>0, <2>2
    <3>2. QED
      BY <1>9, <3>1 DEF Whole
  <2>4. RunFrom(c, 0, y) /\ Len(y) = Len(g) + Len(d) + Len(b)
    BY <1>0, <1>3, <2>2, <2>3 DEF Moved
  <2>5. RunFrom(c, 0 + Len(y), u)
    <3>1. 0 + Len(y) = Len(g) + Len(d) + Len(b)
      BY <1>0, <2>4
    <3>2. QED
      BY <1>9, <3>1 DEF Whole
  <2>6. RunFrom(c, 0, z) /\ Len(z) = top /\ top \in Nat
    <3>1. RunFrom(c, 0, z)
      BY <1>0, <1>5, <2>4, <2>5 DEF Moved
    <3>2. Len(z) = Len(y) + Len(u)
      BY <1>5 DEF Moved
    <3>3. Len(z) = top
      BY <1>9, <2>4, <3>2 DEF Whole
    <3>4. QED
      BY <1>6, <3>1, <3>3
  <2>7. PICK zero \in Int : zero = 0
    OBVIOUS
  <2>8. PICK all \in Seq(Byte) :
          all = Bytes(c, 1, top) /\ Len(all) = top /\ RunFrom(c, 0, all)
    <3>1. zero + 1 = 1 /\ zero + top = top
      BY <2>6, <2>7
    <3>2. /\ Bytes(c, zero + 1, zero + top) \in Seq(Byte)
          /\ Len(Bytes(c, zero + 1, zero + top)) = top
          /\ RunFrom(c, zero, Bytes(c, zero + 1, zero + top))
      BY <2>6, NextBytes, Zenon
    <3>3. QED
      BY <2>7, <3>1, <3>2
  <2>9. \A i \in 1..Len(z) : z[i] = all[i]
    BY <2>6, <2>8 DEF RunFrom
  <2>10. QED
    BY <1>6, <2>6, <2>8, <2>9, SeqEqual
<1>10. QED
  BY <1>6, <1>8, <1>9

-----------------------------------------------------------------------------
(* The clients and their streams. *)

\* A client and the buffers of its connection: what it has sent and received
\* at each place where it may stand.
ClientOK(c) ==
  /\ at[c] \in {"absent", "message", "send", "recv", "close", "done"}
  /\ link[c] \in Links
  /\ due[c] \in 0..Length(c) /\ typed[c] \in 0..MaxLines + 1
  /\ up[c] \in Seq(Byte) /\ down[c] \in Seq(Byte)
  /\ buf[c] \in Seq(Byte) /\ got[c] \in Seq(Byte)
  /\ Len(up[c]) <= Window /\ Len(down[c]) <= Window
  /\ at[c] \in {"absent", "message"} => due[c] = 0 /\ Len(got[c]) = Sent(c)
  /\ at[c] = "send" => Len(got[c]) + Length(c) = Sent(c) + due[c]
  /\ at[c] = "recv" /\ program[c] # "nonblock" => due[c] = 0
  /\ at[c] = "close" => program[c] # "line"
  /\ link[c] # "open" => at[c] = "done"

\* StreamsIntact, place by place.
StreamOK(c) ==
  Intact(c, Sent(c), link[c] = "open" /\ server # "poll",
         got[c], down[c], buf[c], up[c])

OfClients ==
  /\ at = [c \in Client |-> at[c]] /\ link = [c \in Client |-> link[c]]
  /\ due = [c \in Client |-> due[c]] /\ typed = [c \in Client |-> typed[c]]
  /\ up = [c \in Client |-> up[c]] /\ down = [c \in Client |-> down[c]]
  /\ buf = [c \in Client |-> buf[c]] /\ got = [c \in Client |-> got[c]]

ClientsInv ==
  /\ program \in Mixes
  /\ OfClients
  /\ \A c \in Client : ClientOK(c)
  /\ ~overtaken => \A c \in Client : StreamOK(c)

LEMMA Sizes ==
  ASSUME program \in Mixes, NEW c \in Client
  PROVE  program[c] \in Programs /\ Length(c) \in Nat \ {0}
BY EchoClientsAssumption DEF Length

LEMMA SentInt ==
  ASSUME program \in Mixes, NEW c \in Client, ClientOK(c)
  PROVE  /\ Sent(c) \in Int /\ typed[c] \in Nat /\ due[c] \in Nat
         /\ due[c] <= Length(c) /\ Length(c) \in Nat \ {0}
<1>1. Length(c) \in Nat \ {0} /\ typed[c] \in Nat /\ due[c] \in Nat
  BY Sizes, EchoClientsAssumption DEF ClientOK
<1>2. \A m, n \in Int : m * n \in Int
  OBVIOUS
<1>3. QED
  BY <1>1, <1>2 DEF Sent, ClientOK

LEMMA InitClients == Init => ClientsInv
<1> SUFFICES ASSUME Init PROVE ClientsInv
  OBVIOUS
<1>1. program \in Mixes /\ OfClients
  BY DEF Init, ClientsInit, OfClients
<1>2. ASSUME NEW c \in Client PROVE ClientOK(c) /\ StreamOK(c)
  <2>1. /\ at[c] = "absent" /\ link[c] = "open" /\ due[c] = 0 /\ typed[c] = 0
        /\ up[c] = <<>> /\ down[c] = <<>> /\ buf[c] = <<>> /\ got[c] = <<>>
    BY DEF Init, ClientsInit
  <2>2. <<>> \in Seq(Byte) /\ Len(<<>>) = 0
    BY EmptySeq
  <2>3. Length(c) \in Nat \ {0}
    BY <1>1, Sizes
  <2>4. Sent(c) = 0
    BY <2>1, <2>3 DEF Sent
  <2>5. ClientOK(c)
    BY <2>1, <2>2, <2>3, <2>4, EchoSocketsAssumption, EchoClientsAssumption
       DEF ClientOK, Links
  <2>6. StreamOK(c)
    <3>1. RunFrom(c, 0, <<>>) /\ Sorted(c, 0, <<>>) /\ Precedes(<<>>, <<>>)
      BY <2>2 DEF RunFrom, Sorted, Precedes
    <3>2. /\ Len(<<>>) + Len(<<>>) = 0 /\ Len(<<>>) + Len(<<>>) + Len(<<>>) = 0
          /\ Len(<<>>) + Len(<<>>) + Len(<<>>) + Len(<<>>) = 0
      BY <2>2
    <3>3. Ordered(c, 0, <<>>, <<>>, <<>>, <<>>)
      BY <3>1, <3>2 DEF Ordered
    <3>4. Whole(c, 0, <<>>, <<>>, <<>>, <<>>)
      BY <2>2, <3>1, <3>2 DEF Whole
    <3>5. QED
      BY <2>1, <2>4, <3>3, <3>4 DEF StreamOK, Intact
  <2>7. QED
    BY <2>5, <2>6
<1>3. QED
  BY <1>1, <1>2 DEF ClientsInv

\* A step of client c.
LEMMA OneClient ==
  ASSUME ClientsInv, NEW c \in Client, OfClients',
         UNCHANGED <<program, server, overtaken>>,
         \A d \in Client \ {c} :
           UNCHANGED <<at[d], link[d], due[d], typed[d], up[d], down[d], buf[d], got[d]>>,
         ClientOK(c)', ~overtaken => StreamOK(c)'
  PROVE  ClientsInv'
<1>1. ASSUME NEW d \in Client, d # c
      PROVE  ClientOK(d)' /\ (~overtaken => StreamOK(d)')
  <2>1. /\ UNCHANGED <<at[d], link[d], due[d], typed[d], up[d], down[d], buf[d], got[d]>>
        /\ ClientOK(d) /\ (~overtaken => StreamOK(d))
    BY <1>1 DEF ClientsInv
  <2>2. UNCHANGED <<Length(d), Sent(d)>>
    BY <2>1 DEF Length, Sent
  <2>3. ClientOK(d)'
    BY <2>1, <2>2 DEF ClientOK
  <2>4. ~overtaken => StreamOK(d)'
    BY <2>1, <2>2 DEF StreamOK
  <2>5. QED
    BY <2>3, <2>4
<1>2. program' \in Mixes
  BY DEF ClientsInv
<1>3. QED
  BY <1>1, <1>2 DEF ClientsInv

LEMMA RoomFits ==
  ASSUME NEW s \in Seq(Byte), Len(s) <= Window, NEW n \in Nat
  PROVE  Room(s, n) \in 0..n /\ Len(s) + Room(s, n) <= Window
<1>1. Len(s) \in Nat /\ Window \in Nat
  BY EchoSocketsAssumption
<1>2. QED
  BY <1>1 DEF Room

\* send() of k bytes of the message.
LEMMA HandsOverKeeps ==
  ASSUME ClientsInv, NEW c \in Client, at[c] = "send",
         NEW k \in 0..due[c], Len(up[c]) + k <= Window, HandsOver(c, k),
         \/ at' = at
         \/ at' = [at EXCEPT ![c] = "recv"] /\ (k = due[c] \/ program[c] = "nonblock"),
         UNCHANGED <<server, buf, overtaken>>
  PROVE  ClientsInv'
<1>0. program \in Mixes /\ OfClients /\ ClientOK(c)
  BY DEF ClientsInv
<1>1. /\ Sent(c) \in Int /\ typed[c] \in Nat /\ due[c] \in Nat
      /\ due[c] <= Length(c) /\ Length(c) \in Nat \ {0} /\ k \in Nat
  BY <1>0, SentInt
<1>2. PICK p \in Seq(Byte) : /\ p = Bytes(c, Sent(c) + 1, Sent(c) + k)
                             /\ Len(p) = k /\ RunFrom(c, Sent(c), p)
  BY <1>1, NextBytes
<1>3. PICK u2 : u2 = up[c] \o p /\ Moved(up[c], p, Len(p), u2, <<>>)
  BY <1>0, Joined DEF ClientOK
<1>4. u2 \in Seq(Byte) /\ Len(u2) = Len(up[c]) + k
  <2>1. u2 \in Seq(Byte) /\ Len(u2) = Len(up[c]) + Len(p)
    BY <1>3 DEF Moved
  <2>2. QED
    BY <1>2, <2>1
<1>5. /\ up' = [up EXCEPT ![c] = u2] /\ due' = [due EXCEPT ![c] = due[c] - k]
      /\ UNCHANGED <<down, link, program, typed, got>>
  BY <1>2, <1>3 DEF HandsOver
<1>6. /\ up'[c] = u2 /\ due'[c] = due[c] - k /\ at'[c] \in {"send", "recv"}
      /\ at'[c] = "recv" => k = due[c] \/ program[c] = "nonblock"
      /\ OfClients'
      /\ \A d \in Client \ {c} :
           UNCHANGED <<at[d], link[d], due[d], typed[d], up[d], down[d], buf[d], got[d]>>
  BY <1>0, <1>5 DEF OfClients
<1>7. Length(c)' = Length(c) /\ Sent(c)' = Sent(c) + k
  <2>1. PICK t \in Int : t = typed[c] * Length(c)
    <3>1. \A m, n \in Int : m * n \in Int
      OBVIOUS
    <3>2. QED
      BY <1>1, <3>1
  <2>2. Length(c)' = Length(c) /\ typed'[c] = typed[c]
    BY <1>5 DEF Length
  <2>3. Sent(c) = t - due[c] /\ Sent(c)' = t - (due[c] - k)
    BY <1>6, <2>1, <2>2 DEF Sent
  <2>4. QED
    BY <1>1, <2>1, <2>2, <2>3
<1>8. ClientOK(c)'
  <2>1. /\ link'[c] \in Links /\ typed'[c] \in 0..MaxLines + 1
        /\ down'[c] \in Seq(Byte) /\ buf'[c] \in Seq(Byte) /\ got'[c] \in Seq(Byte)
        /\ Len(down'[c]) <= Window /\ link'[c] = "open"
        /\ Len(got'[c]) = Len(got[c]) /\ program'[c] = program[c]
    BY <1>0, <1>5 DEF ClientOK
  <2>2. due'[c] \in 0..Length(c) /\ Sent(c)' + due'[c] = Sent(c) + due[c]
    BY <1>1, <1>6, <1>7
  <2>3. Len(got[c]) + Length(c) = Sent(c) + due[c]
    BY <1>0 DEF ClientOK
  <2>4. at'[c] = "recv" /\ program'[c] # "nonblock" => due'[c] = 0
    BY <1>1, <1>6, <2>1
  <2>5. up'[c] \in Seq(Byte) /\ Len(up'[c]) <= Window
    BY <1>4, <1>6
  <2>6. QED
    BY <1>6, <1>7, <2>1, <2>2, <2>3, <2>4, <2>5 DEF ClientOK
<1>9. ~overtaken => StreamOK(c)'
  <2> SUFFICES ASSUME ~overtaken PROVE StreamOK(c)'
    OBVIOUS
  <2> DEFINE open == link[c] = "open" /\ server # "poll"
  <2>1. Intact(c, Sent(c), open, got[c], down[c], buf[c], up[c])
    BY DEF ClientsInv, StreamOK
  <2>2. /\ got[c] \in Seq(Byte) /\ down[c] \in Seq(Byte) /\ buf[c] \in Seq(Byte)
        /\ up[c] \in Seq(Byte)
    BY <1>0 DEF ClientOK
  <2> HIDE DEF open
  <2>3. Intact(c, Sent(c) + Len(p), open, got[c], down[c], buf[c], u2)
    BY <1>1, <1>2, <1>3, <2>1, <2>2, SentOn
  <2>4. Intact(c, Sent(c)', open, got'[c], down'[c], buf'[c], up'[c])
    BY <1>2, <1>5, <1>6, <1>7, <2>3
  <2>5. open = (link'[c] = "open" /\ server' # "poll")
    BY <1>5 DEF open
  <2>6. QED
    BY <2>4, <2>5 DEF StreamOK
<1>10. QED
  BY <1>5, <1>6, <1>8, <1>9, OneClient

\* recv() of k bytes.
LEMMA ReceivesKeeps ==
  ASSUME ClientsInv, NEW c \in Client, at[c] = "recv",
         NEW k \in 0..Len(down[c]), Receives(c, k),
         \/ program[c] = "line" /\ at' = at
         \/ /\ program[c] = "line" /\ Complete(c, k)
            /\ at' = [at EXCEPT ![c] = "message"]
         \/ program[c] # "line" /\ at' = [at EXCEPT ![c] = "close"],
         UNCHANGED <<server, buf, overtaken>>
  PROVE  ClientsInv'
<1>0. program \in Mixes /\ OfClients /\ ClientOK(c)
  BY DEF ClientsInv
<1>1. /\ Sent(c) \in Int /\ due[c] \in Nat /\ Length(c) \in Nat \ {0} /\ k \in Nat
      /\ got[c] \in Seq(Byte) /\ down[c] \in Seq(Byte)
      /\ Len(got[c]) \in Nat /\ Len(down[c]) \in Nat
  BY <1>0, SentInt DEF ClientOK
<1>2. PICK g2, d2 : /\ g2 = got[c] \o SubSeq(down[c], 1, k)
                    /\ d2 = SubSeq(down[c], k + 1, Len(down[c]))
                    /\ Moved(got[c], down[c], k, g2, d2)
  BY <1>1, MoveOn
<1>3. /\ g2 \in Seq(Byte) /\ d2 \in Seq(Byte)
      /\ Len(g2) = Len(got[c]) + k /\ Len(d2) = Len(down[c]) - k
  BY <1>2 DEF Moved
<1>4. /\ got' = [got EXCEPT ![c] = g2] /\ down' = [down EXCEPT ![c] = d2]
      /\ UNCHANGED <<up, link, program, typed, due>>
  BY <1>2 DEF Receives
<1>5. /\ got'[c] = g2 /\ down'[c] = d2 /\ at'[c] \in {"recv", "message", "close"}
      /\ at'[c] = "message" => program[c] = "line" /\ Len(got[c]) + k = Sent(c)
      /\ at'[c] = "close" => program[c] # "line"
      /\ OfClients'
      /\ \A d \in Client \ {c} :
           UNCHANGED <<at[d], link[d], due[d], typed[d], up[d], down[d], buf[d], got[d]>>
  BY <1>0, <1>4 DEF OfClients, Complete
<1>6. Length(c)' = Length(c) /\ Sent(c)' = Sent(c)
  BY <1>4 DEF Length, Sent
<1>7. ClientOK(c)'
  <2>1. Len(d2) <= Window
    BY <1>0, <1>1, <1>3, EchoSocketsAssumption DEF ClientOK
  <2>2. program[c] = "line" => due[c] = 0
    BY <1>0 DEF ClientOK
  <2>3. at'[c] = "recv" => program'[c] = "line" \/ program'[c] = program[c]
    BY <1>4
  <2>4. QED
    BY <1>0, <1>3, <1>4, <1>5, <1>6, <2>1, <2>2 DEF ClientOK
<1>8. ~overtaken => StreamOK(c)'
  <2> SUFFICES ASSUME ~overtaken PROVE StreamOK(c)'
    OBVIOUS
  <2> DEFINE open == link[c] = "open" /\ server # "poll"
  <2>1. Intact(c, Sent(c), open, got[c], down[c], buf[c], up[c])
    BY DEF ClientsInv, StreamOK
  <2>2. buf[c] \in Seq(Byte) /\ up[c] \in Seq(Byte)
    BY <1>0 DEF ClientOK
  <2> HIDE DEF open
  <2>3. Intact(c, Sent(c), open, g2, d2, buf[c], up[c])
    BY <1>1, <1>2, <2>1, <2>2, Received
  <2>4. Intact(c, Sent(c)', open, got'[c], down'[c], buf'[c], up'[c])
    BY <1>4, <1>5, <1>6, <2>3
  <2>5. open = (link'[c] = "open" /\ server' # "poll")
    BY <1>4 DEF open
  <2>6. QED
    BY <2>4, <2>5 DEF StreamOK
<1>9. QED
  BY <1>4, <1>5, <1>7, <1>8, OneClient

LEMMA AllIsPrefix ==
  ASSUME NEW s \in Seq(Byte)
  PROVE  s \in Prefixes(s)
<1>1. Len(s) \in 0..Len(s) /\ SubSeq(s, 1, Len(s)) = s
  OBVIOUS
<1>2. QED
  BY <1>1 DEF Prefixes

\* Where bytes are lost, the rest stays in order.
LEMMA LossKeepsOrder ==
  ASSUME ClientsInv, ~overtaken, NEW c \in Client,
         Sent(c)' = Sent(c), got'[c] = got[c],
         link'[c] # "open" \/ server' = "poll",
         down'[c] \in {down[c], <<>>}, buf'[c] \in {buf[c], <<>>},
         up'[c] \in Prefixes(up[c])
  PROVE  StreamOK(c)'
<1>0. program \in Mixes /\ ClientOK(c) /\ StreamOK(c)
  BY DEF ClientsInv
<1>1. /\ got[c] \in Seq(Byte) /\ down[c] \in Seq(Byte) /\ buf[c] \in Seq(Byte)
      /\ up[c] \in Seq(Byte) /\ Sent(c) \in Int
  BY <1>0, SentInt DEF ClientOK
<1>2. Ordered(c, Sent(c), got[c], down[c], buf[c], up[c])
  BY <1>0 DEF StreamOK, Intact
<1>3. PICK d2 \in {down[c], <<>>}, b2 \in {buf[c], <<>>}, u2 \in Prefixes(up[c]) :
        d2 = down'[c] /\ b2 = buf'[c] /\ u2 = up'[c]
  OBVIOUS
<1>4. Ordered(c, Sent(c), got[c], d2, b2, u2)
  <2> DEFINE g == got[c]
             d == down[c]
             b == buf[c]
             u == up[c]
             top == Sent(c)
  <2>1. /\ g \in Seq(Byte) /\ d \in Seq(Byte) /\ b \in Seq(Byte) /\ u \in Seq(Byte)
        /\ top \in Int /\ Ordered(c, top, g, d, b, u)
    BY <1>1, <1>2
  <2>2. d2 \in {d, <<>>} /\ b2 \in {b, <<>>} /\ u2 \in Prefixes(u)
    OBVIOUS
  <2> HIDE DEF g, d, b, u, top
  <2>3. Ordered(c, top, g, d2, b2, u2)
    BY <2>1, <2>2, Lost
  <2>4. QED
    BY <2>3 DEF g, top
<1>5. Ordered(c, Sent(c)', got'[c], down'[c], buf'[c], up'[c])
  BY <1>3, <1>4
<1>6. QED
  BY <1>5 DEF StreamOK, Intact

LEMMA ShorterPrefix ==
  ASSUME NEW s \in Seq(Byte), NEW u \in Prefixes(s)
  PROVE  u \in Seq(Byte) /\ Len(u) <= Len(s)
<1>1. PICK k \in 0..Len(s) : u = SubSeq(s, 1, k)
  BY DEF Prefixes
<1>2. /\ SubSeq(s, 1, k) \in Seq(Byte) /\ Len(SubSeq(s, 1, k)) = k
      /\ Len(s) \in Nat
  BY Cut
<1>3. QED
  BY <1>1, <1>2

LEMMA ClosesEnd ==
  ASSUME ClientsInv, NEW c \in Client, ClientCloses(c),
         at' = [at EXCEPT ![c] = "done"],
         UNCHANGED <<program, typed, due, got, server, buf, overtaken>>
  PROVE  ClientsInv'
<1>0. program \in Mixes /\ OfClients /\ ClientOK(c)
  BY DEF ClientsInv
<1>1. /\ down[c] \in Seq(Byte) /\ up[c] \in Seq(Byte) /\ Len(up[c]) \in Nat
      /\ up[c] \in Prefixes(up[c])
  BY <1>0, AllIsPrefix DEF ClientOK
<1>2. PICK l \in {"fin", "reset"}, d2 \in {down[c], <<>>}, u2 \in Prefixes(up[c]) :
        /\ link' = [link EXCEPT ![c] = l] /\ down' = [down EXCEPT ![c] = d2]
        /\ up' = [up EXCEPT ![c] = u2]
  <2>1. CASE down[c] = <<>> /\ link' = [link EXCEPT ![c] = "fin"] /\ UNCHANGED <<up, down>>
    <3>1. up' = [up EXCEPT ![c] = up[c]] /\ down' = [down EXCEPT ![c] = down[c]]
      BY <1>0, <2>1 DEF OfClients
    <3>2. QED
      BY <1>1, <2>1, <3>1
  <2>2. CASE /\ link' = [link EXCEPT ![c] = "reset"]
             /\ \E rest \in Prefixes(up[c]) : up' = [up EXCEPT ![c] = rest]
             /\ down' = [down EXCEPT ![c] = <<>>]
    BY <2>2
  <2>3. QED
    BY <2>1, <2>2 DEF ClientCloses
<1>6. /\ link'[c] \in {"fin", "reset"} /\ down'[c] \in {down[c], <<>>}
      /\ up'[c] \in Prefixes(up[c]) /\ at'[c] = "done"
      /\ OfClients'
      /\ \A d \in Client \ {c} :
           UNCHANGED <<at[d], link[d], due[d], typed[d], up[d], down[d], buf[d], got[d]>>
  BY <1>0, <1>2 DEF OfClients
<1>3. Length(c)' = Length(c) /\ Sent(c)' = Sent(c)
  BY DEF Length, Sent
<1>4. ClientOK(c)'
  <2>1. up'[c] \in Seq(Byte) /\ Len(up'[c]) <= Len(up[c])
    BY <1>1, <1>6, ShorterPrefix
  <2>2. Len(up'[c]) <= Window
    BY <1>0, <1>1, <2>1, EchoSocketsAssumption DEF ClientOK
  <2>3. down'[c] \in Seq(Byte) /\ Len(down'[c]) <= Window
    <3>1. CASE down'[c] = down[c]
      BY <1>0, <3>1 DEF ClientOK
    <3>2. CASE down'[c] = <<>>
      <4>1. <<>> \in Seq(Byte) /\ Len(<<>>) = 0 /\ 0 <= Window
        BY EmptySeq, EchoSocketsAssumption
      <4>2. QED
        BY <3>2, <4>1
    <3>3. QED
      BY <1>6, <3>1, <3>2
  <2>4. QED
    BY <1>0, <1>3, <1>6, <2>1, <2>2, <2>3 DEF ClientOK, Links
<1>5. ~overtaken => StreamOK(c)'
  BY <1>3, <1>6, LossKeepsOrder
<1>7. QED
  BY <1>4, <1>5, <1>6, OneClient

LEMMA ConnectKeeps ==
  ASSUME ClientsInv, NEW c \in Client, Connect(c), UNCHANGED <<server, buf, overtaken>>
  PROVE  ClientsInv'
<1>0. /\ OfClients /\ ClientOK(c) /\ at[c] = "absent"
      /\ at' = [at EXCEPT ![c] = "message"]
      /\ UNCHANGED <<up, down, link, program, typed, due, got>>
  BY DEF ClientsInv, Connect, sockets
<1>1. Length(c)' = Length(c) /\ Sent(c)' = Sent(c)
  BY <1>0 DEF Length, Sent
<1>2. at'[c] = "message" /\ OfClients'
  BY <1>0 DEF OfClients
<1>3. ClientOK(c)'
  BY <1>0, <1>1, <1>2 DEF ClientOK
<1>4. ~overtaken => StreamOK(c)'
  BY <1>0, <1>1 DEF ClientsInv, StreamOK
<1>5. QED
  BY <1>0, <1>2, <1>3, <1>4, OneClient

LEMMA NextMessageKeeps ==
  ASSUME ClientsInv, NEW c \in Client, NextMessage(c), UNCHANGED <<server, buf, overtaken>>
  PROVE  ClientsInv'
<1>0. /\ program \in Mixes /\ OfClients /\ ClientOK(c) /\ at[c] = "message"
      /\ at' = [at EXCEPT ![c] = "send"]
      /\ typed' = [typed EXCEPT ![c] = typed[c] + 1]
      /\ due' = [due EXCEPT ![c] = Length(c)]
      /\ typed[c] < IF program[c] = "line" THEN MaxLines ELSE 1
      /\ UNCHANGED <<up, down, link, program, got>>
  BY DEF ClientsInv, NextMessage, sockets
<1>1. /\ at'[c] = "send" /\ typed'[c] = typed[c] + 1 /\ due'[c] = Length(c)
      /\ OfClients'
      /\ \A d \in Client \ {c} :
           UNCHANGED <<at[d], link[d], due[d], typed[d], up[d], down[d], buf[d], got[d]>>
  BY <1>0 DEF OfClients
<1>2. /\ Length(c) \in Nat \ {0} /\ typed[c] \in Nat /\ due[c] = 0
      /\ Len(got[c]) = Sent(c)
  BY <1>0, SentInt DEF ClientOK
<1>3. Length(c)' = Length(c) /\ Sent(c)' = Sent(c)
  <2>1. Length(c)' = Length(c)
    BY <1>0 DEF Length
  <2>2. \A m, n \in Int : (m + 1) * n - n = m * n - 0
    OBVIOUS
  <2>3. QED
    BY <1>1, <1>2, <2>1, <2>2 DEF Sent
<1>4. ClientOK(c)'
  <2>1. typed'[c] \in 0..MaxLines + 1
    BY <1>0, <1>1, <1>2, EchoClientsAssumption
  <2>2. due'[c] \in 0..Length(c) /\ Len(got'[c]) + Length(c) = Sent(c) + due'[c]
    BY <1>0, <1>1, <1>2
  <2>3. QED
    BY <1>0, <1>1, <1>3, <2>1, <2>2 DEF ClientOK
<1>5. ~overtaken => StreamOK(c)'
  BY <1>0, <1>3 DEF ClientsInv, StreamOK
<1>6. QED
  BY <1>0, <1>1, <1>4, <1>5, OneClient

LEMMA ClientStepsKeep ==
  ASSUME ClientsInv, NEW c \in Client, UserStep(c) \/ ClientStep(c)
  PROVE  ClientsInv'
<1>0. /\ UNCHANGED <<server, buf, overtaken>>
      /\ program \in Mixes /\ ClientOK(c)
  BY DEF UserStep, ClientStep, threads, ClientsInv
<1>1. /\ up[c] \in Seq(Byte) /\ Len(up[c]) <= Window /\ due[c] \in Nat
      /\ Room(up[c], due[c]) \in 0..due[c]
      /\ Len(up[c]) + Room(up[c], due[c]) <= Window
  BY <1>0, SentInt, RoomFits DEF ClientOK
<1>2. CASE Connect(c) \/ NextMessage(c)
  BY <1>0, <1>2, ConnectKeeps, NextMessageKeeps
<1>3. CASE EndInput(c) \/ Close(c, ~ServerOpen(c))
  BY <1>0, <1>3, ClosesEnd DEF EndInput, Close
<1>4. CASE BlockingSend(c)
  BY <1>0, <1>1, <1>4, HandsOverKeeps DEF BlockingSend
<1>5. CASE NonblockingSend(c)
  BY <1>0, <1>1, <1>5, HandsOverKeeps DEF NonblockingSend
<1>6. ASSUME NEW k \in 0..Window, RecvLine(c, k)
      PROVE  ClientsInv'
  <2>1. k \in 0..Len(down[c])
    BY <1>6 DEF RecvLine
  <2>2. QED
    BY <1>0, <1>6, <2>1, ReceivesKeeps DEF RecvLine
<1>7. ASSUME NEW k \in 0..Window, RecvOnce(c, k)
      PROVE  ClientsInv'
  <2>1. k \in 0..Len(down[c])
    BY <1>7 DEF RecvOnce
  <2>2. QED
    BY <1>0, <1>7, <2>1, ReceivesKeeps DEF RecvOnce
<1>8. QED
  BY <1>2, <1>3, <1>4, <1>5, <1>6, <1>7 DEF UserStep, ClientStep

-----------------------------------------------------------------------------
(* The servers and their workers. *)

Places == {"none", "start", "loop", "read", "echo", "write", "close", "accept", "done"}

\* A call works on some connection, also after a mix-up, and only threads have
\* places of their own between the calls.
WorkerOK(w) ==
  /\ InCall(w) => Conn(w) \in Client
  /\ pos[w] \in {"start", "loop", "echo", "close"} => server = "thread"

ServersInv ==
  /\ server \in Servers /\ ended \in BOOLEAN
  /\ pos \in [Client -> Places]
  /\ woken \subseteq Acceptors /\ strays \in Nat
  /\ file \in [Fd -> Client \cup {NoClient}] /\ passInfo \in Fd \cup {NoFd}
  /\ fd \in [Client -> Fd \cup {NoFd}] /\ held \in [Client -> Client \cup {NoClient}]
  /\ \A w \in Client : WorkerOK(w)
  /\ IInv

\* What a worker does on its connection, whichever server it is part of.
AfterRead == IF server = "thread" THEN "echo" ELSE "write"
AfterWrite == IF server = "thread" THEN "loop" ELSE "read"
AfterEnd == IF server = "thread" THEN {"close"} ELSE {"accept", "done"}

Kills(w) ==
  /\ server \in {"thread"} \cup Loops /\ ~ended
  /\ InCall(w) /\ link[Conn(w)] \in {"reset", "pipe"}
  /\ ServerKilled

Calls(w) ==
  \/ \E k \in 1..Window : Reads(w, k, AfterRead)
  \/ Writes(w, AfterWrite)
  \/ server = "poll" /\ WritesWhatFits(w, AfterWrite)
  \/ WritesInVain(w, AfterWrite)
  \/ \E next \in AfterEnd : ReadsEnd(w, next) \/ ReadsError(w, next)
  \/ server \in {"fork", "poll"} /\ ChildKilled(w)
  \/ Kills(w)

\* What a thread does between its calls.
MovesOn(w) ==
  /\ server = "thread" /\ ~ended
  /\ CopyPassInfo(w) \/ EntersCall(w) \/ Closes(w)
  /\ UNCHANGED <<sockets, buf, ended>>

LEMMA WorkerSteps ==
  ASSUME NEW w \in Client, Worker(w)
  PROVE  /\ UNCHANGED <<clients, server, herd, overtaken>>
         /\ (Calls(w) /\ UNCHANGED threads) \/ MovesOn(w)
<1>1. CASE BlockChild(w)
  BY <1>1 DEF BlockChild, Calls, AfterRead, AfterWrite, AfterEnd, threads
<1>2. CASE NonblockChild(w)
  BY <1>2 DEF NonblockChild, Calls, AfterRead, AfterWrite, AfterEnd, threads
<1>3. CASE CopyPassInfo(w)
  BY <1>3 DEF CopyPassInfo, MovesOn
<1>4. CASE ThreadFunc(w)
  <2>0. /\ server = "thread" /\ ~ended
        /\ UNCHANGED <<clients, server, herd, passInfo, fd, overtaken>>
    BY <1>4 DEF ThreadFunc
  <2>1. CASE EntersCall(w) \/ Closes(w)
    BY <2>0, <2>1 DEF MovesOn, EntersCall, Closes
  <2>2. CASE BrokenPipe(w) /\ ServerKilled /\ UNCHANGED <<file, held>>
    BY <2>0, <2>2 DEF Calls, Kills, BrokenPipe, InCall, threads
  <2>3. CASE /\ \/ \E k \in 1..Window : Reads(w, k, "echo")
                \/ Writes(w, "loop")
                \/ WritesInVain(w, "loop")
                \/ ReadsEnd(w, "close")
                \/ ReadsError(w, "close")
             /\ UNCHANGED <<file, held>>
    BY <2>0, <2>3 DEF Calls, AfterRead, AfterWrite, AfterEnd, threads
  <2>4. QED
    BY <1>4, <2>1, <2>2, <2>3 DEF ThreadFunc
<1>5. CASE ClientSocketCB(w)
  <2>0. /\ server = "libev" /\ ~ended
        /\ UNCHANGED <<clients, server, herd, threads>>
    BY <1>5 DEF ClientSocketCB, LoopFree
  <2>1. CASE BrokenPipe(w) /\ ServerKilled
    BY <2>0, <2>1 DEF Calls, Kills, BrokenPipe, InCall, Loops, threads
  <2>2. QED
    BY <1>5, <2>0, <2>1
       DEF ClientSocketCB, Calls, AfterRead, AfterWrite, AfterEnd, threads
<1>6. CASE PollEvent(w)
  <2>0. /\ server = "python" /\ ~ended /\ Conn(w) = w
        /\ UNCHANGED <<clients, server, herd, threads>>
    BY <1>6 DEF PollEvent, LoopFree, Conn
  <2>1. CASE /\ \/ pos[w] = "write" /\ link[w] \in {"reset", "pipe"}
                \/ pos[w] = "read" /\ ReadFails(w)
             /\ ServerKilled
    BY <2>0, <2>1 DEF Calls, Kills, ReadFails, InCall, Loops, threads
  <2>2. QED
    BY <1>6, <2>0, <2>1
       DEF PollEvent, Calls, AfterRead, AfterWrite, AfterEnd, threads
<1>7. QED
  BY <1>1, <1>2, <1>3, <1>4, <1>5, <1>6 DEF Worker

\* Where a worker stands before and after.
LEMMA WorkerGoes ==
  ASSUME ServersInv, NEW w \in Client, Worker(w)
  PROVE  /\ pos[w] \in {"start", "loop", "read", "echo", "write", "close"}
         /\ \E next \in Places \ {"none", "start"} :
              /\ pos' = [pos EXCEPT ![w] = next]
              /\ next \in {"loop", "echo", "close"} => server = "thread"
              /\ \/ next \in {"read", "write"} => held'[w] \in Client
                 \/ server # "thread"
<1>0. /\ pos \in [Client -> Places] /\ WorkerOK(w)
      /\ held \in [Client -> Client \cup {NoClient}]
      /\ file \in [Fd -> Client \cup {NoClient}]
  BY DEF ServersInv
<1>1. (Calls(w) /\ UNCHANGED threads) \/ MovesOn(w)
  BY WorkerSteps
<1>2. CASE Calls(w) /\ UNCHANGED threads
  <2>1. /\ InCall(w)
        /\ \/ pos' = pos
           \/ pos' = [pos EXCEPT ![w] = AfterRead]
           \/ pos' = [pos EXCEPT ![w] = AfterWrite]
           \/ \E next \in AfterEnd : pos' = [pos EXCEPT ![w] = next]
           \/ server \in {"fork", "poll"} /\ pos' = [pos EXCEPT ![w] = "done"]
    BY <1>2 DEF Calls, Kills, Reads, Writes, WritesWhatFits, WritesInVain, ReadsEnd,
                ReadsError, ChildKilled, BrokenPipe, ServerKilled, Goes, InCall
  <2>2. CASE pos' = pos
    <3>1. pos' = [pos EXCEPT ![w] = pos[w]] /\ pos[w] \in {"read", "write"}
      BY <1>0, <2>1, <2>2 DEF InCall
    <3>2. server = "thread" => held'[w] \in Client
      BY <1>0, <1>2, <2>1 DEF WorkerOK, Conn, threads
    <3>3. QED
      BY <3>1, <3>2 DEF Places
  <2>3. QED
    BY <2>1, <2>2 DEF InCall, AfterRead, AfterWrite, AfterEnd, Places
<1>3. CASE MovesOn(w)
  <2>0. server = "thread" /\ {"loop", "done"} \subseteq Places \ {"none", "start"}
    BY <1>3 DEF MovesOn, Places
  <2>1. CASE CopyPassInfo(w)
    <3>1. pos[w] = "start" /\ pos' = [pos EXCEPT ![w] = "loop"]
      BY <2>1 DEF CopyPassInfo, Goes
    <3>2. QED
      BY <2>0, <3>1
  <2>2. CASE Closes(w)
    <3>1. pos[w] = "close" /\ pos' = [pos EXCEPT ![w] = "done"]
      BY <2>2 DEF Closes, Goes
    <3>2. QED
      BY <2>0, <3>1
  <2>3. CASE EntersCall(w)
    <3>1. /\ server = "thread" /\ pos[w] \in {"loop", "echo"}
          /\ held' = [held EXCEPT ![w] = file[fd[w]]]
          /\ \E next \in {"close", "loop", "read", "write"} :
               /\ pos' = [pos EXCEPT ![w] = next]
               /\ next \in {"read", "write"} => file[fd[w]] # NoClient
      BY <2>3, <1>3 DEF EntersCall, OwnInfo, Goes, MovesOn
    <3>2. fd[w] \in Fd
      BY <3>1 DEF ServersInv, IInv, ThreadTypeOK, Running
    <3>3. QED
      BY <1>0, <3>1, <3>2 DEF Places
  <2>4. QED
    BY <1>3, <2>1, <2>2, <2>3 DEF MovesOn
<1>4. QED
  BY <1>1, <1>2, <1>3

LEMMA InitServers == Init => ServersInv
<1> SUFFICES ASSUME Init PROVE ServersInv
  OBVIOUS
<1>1. IInv
  BY InitIInv
<1>2. QED
  BY <1>1 DEF Init, ServersInv, Places, Acceptors, WorkerOK, InCall, Main

LEMMA ServersKeep == ServersInv /\ [Next]_vars => ServersInv'
<1> SUFFICES ASSUME ServersInv, [Next]_vars PROVE ServersInv'
  OBVIOUS
<1>0. IInv'
  BY NextKeeps DEF ServersInv
<1>1. CASE UNCHANGED vars
  BY <1>0, <1>1 DEF ServersInv, vars, threads, herd, Acceptors, WorkerOK, InCall, Conn
<1>2. ASSUME NEW c \in Client, UserStep(c) \/ ClientStep(c)
      PROVE  ServersInv'
  BY <1>0, <1>2 DEF UserStep, ClientStep,
     ServersInv, threads, herd, Acceptors, WorkerOK, InCall, Conn
<1>3. ASSUME NEW c \in Client, Accept(c)
      PROVE  ServersInv'
  <2>0. pos[c] = "none" /\ pos \in [Client -> Places]
    BY <1>3 DEF Accept, BlockAccept, ThreadAccept, ListenSocketCB, PollAccept, Backlog,
       ServersInv
  <2>1. CASE ThreadAccept(c)
    <3>1. /\ server = "thread" /\ pos' = [pos EXCEPT ![c] = "start"]
          /\ UNCHANGED <<server, ended, herd, fd, held>>
          /\ \E f \in Fd : file' = [file EXCEPT ![f] = c] /\ passInfo' = f
      BY <2>1 DEF ThreadAccept, Goes
    <3>2. \A w \in Client : WorkerOK(w)'
      BY <2>0, <3>1 DEF ServersInv, WorkerOK, InCall, Conn
    <3>3. woken' \subseteq Acceptors'
      BY <2>0, <3>1 DEF ServersInv, Acceptors, herd
    <3>4. pos' \in [Client -> Places]
      BY <2>0, <3>1 DEF Places
    <3>5. QED
      BY <1>0, <3>1, <3>2, <3>3, <3>4 DEF ServersInv, herd
  <2>2. CASE BlockAccept(c) \/ ListenSocketCB(c) \/ PollAccept(c)
    <3>1. /\ server # "thread" /\ pos' = [pos EXCEPT ![c] = "read"]
          /\ UNCHANGED <<server, ended, herd, threads>>
      BY <2>2 DEF BlockAccept, ListenSocketCB, PollAccept, Goes
    <3>2. \A w \in Client : WorkerOK(w)'
      BY <2>0, <3>1 DEF ServersInv, WorkerOK, InCall, Conn
    <3>3. woken' \subseteq Acceptors'
      BY <2>0, <3>1 DEF ServersInv, Acceptors, herd
    <3>4. pos' \in [Client -> Places]
      BY <2>0, <3>1 DEF Places
    <3>5. QED
      BY <1>0, <3>1, <3>2, <3>3, <3>4 DEF ServersInv, herd, threads
  <2>3. QED
    BY <1>3, <2>1, <2>2 DEF Accept
<1>4. ASSUME NEW w \in Client, Worker(w)
      PROVE  ServersInv'
  <2>1. UNCHANGED <<clients, server, herd, overtaken>>
    BY <1>4, WorkerSteps
  <2>2. PICK next \in Places \ {"none", "start"} :
          /\ pos' = [pos EXCEPT ![w] = next]
          /\ next \in {"loop", "echo", "close"} => server = "thread"
          /\ (next \in {"read", "write"} => held'[w] \in Client) \/ server # "thread"
    BY <1>4, WorkerGoes
  <2>3. pos[w] # "accept" /\ pos \in [Client -> Places]
    BY <1>4, WorkerGoes DEF ServersInv
  <2>4. (Calls(w) /\ UNCHANGED threads) \/ MovesOn(w)
    BY <1>4, WorkerSteps
  <2>5. /\ ended' \in BOOLEAN
        /\ file' \in [Fd -> Client \cup {NoClient}] /\ passInfo' = passInfo
        /\ fd' \in [Client -> Fd \cup {NoFd}] /\ held' \in [Client -> Client \cup {NoClient}]
        /\ \A v \in Client \ {w} : held'[v] = held[v]
    <3>1. CASE Calls(w) /\ UNCHANGED threads
      <4>1. ended' \in BOOLEAN
        BY <3>1 DEF Calls, Kills, Reads, Writes, WritesWhatFits, WritesInVain, ReadsEnd,
                    ReadsError, ChildKilled, ServerKilled, ServersInv
      <4>2. QED
        BY <3>1, <4>1 DEF threads, ServersInv
    <3>2. CASE MovesOn(w)
      <4>1. CASE CopyPassInfo(w)
        BY <3>2, <4>1 DEF MovesOn, CopyPassInfo, ServersInv
      <4>2. CASE Closes(w)
        <5>1. passInfo' = passInfo /\ fd' = fd
          BY <1>4, <4>2 DEF Worker, BlockChild, NonblockChild, CopyPassInfo, ThreadFunc,
             ClientSocketCB, PollEvent, threads, Closes, ServersInv
        <5>2. QED
          BY <3>2, <4>2, <5>1 DEF MovesOn, Closes, OwnInfo, ServersInv
      <4>3. CASE EntersCall(w)
        <5>1. passInfo' = passInfo /\ fd' = fd
          BY <1>4, <4>3 DEF Worker, BlockChild, NonblockChild, CopyPassInfo, ThreadFunc,
             ClientSocketCB, PollEvent, threads, EntersCall, ServersInv
        <5>2. fd[w] \in Fd
          BY <3>2, <4>3 DEF MovesOn, EntersCall, ServersInv, IInv, ThreadTypeOK, Running
        <5>3. /\ held' = [held EXCEPT ![w] = file[fd[w]]]
              /\ UNCHANGED <<ended, file>>
          BY <3>2, <4>3 DEF MovesOn, EntersCall, OwnInfo
        <5>4. QED
          BY <5>1, <5>2, <5>3 DEF ServersInv
      <4>4. QED
        BY <3>2, <4>1, <4>2, <4>3 DEF MovesOn
    <3>3. QED
      BY <2>4, <3>1, <3>2
  <2>6. \A v \in Client : WorkerOK(v)'
    <3>1. ASSUME NEW v \in Client, v # w PROVE WorkerOK(v)'
      BY <2>1, <2>2, <2>3, <2>5, <3>1 DEF ServersInv, WorkerOK, InCall, Conn
    <3>2. WorkerOK(w)'
      BY <2>1, <2>2, <2>3 DEF WorkerOK, InCall, Conn
    <3>3. QED
      BY <3>1, <3>2
  <2>7. woken' \subseteq Acceptors'
    BY <2>1, <2>2, <2>3 DEF ServersInv, Acceptors, herd
  <2>8. QED
    BY <1>0, <2>1, <2>2, <2>3, <2>5, <2>6, <2>7 DEF ServersInv, herd
<1>5. ASSUME NEW p \in Client \cup {Main}, Acceptor(p)
      PROVE  ServersInv'
  <2>1. CASE Wakes(p) \/ NonblockAcceptNone(p)
    <3>1. /\ UNCHANGED <<server, pos, ended, threads>>
          /\ woken' \subseteq woken \cup Acceptors /\ strays' \in Nat
      BY <2>1 DEF Wakes, NonblockAcceptNone, PolledAgain, ServersInv
    <3>2. QED
      BY <1>0, <3>1 DEF ServersInv, threads, Acceptors, WorkerOK, InCall, Conn
  <2>2. ASSUME NEW c \in Client, NonblockAccept(p, c)
        PROVE  ServersInv'
    <3>1. /\ server = "poll" /\ pos[c] = "none" /\ pos' = [pos EXCEPT ![c] = "read"]
          /\ UNCHANGED <<server, ended, strays, threads>> /\ woken' \subseteq woken
      BY <2>2 DEF NonblockAccept, Backlog, Goes, PolledAgain
    <3>2. pos \in [Client -> Places]
      BY DEF ServersInv
    <3>3. \A w \in Client : WorkerOK(w)'
      BY <3>1, <3>2 DEF ServersInv, WorkerOK, InCall, Conn
    <3>4. woken' \subseteq Acceptors'
      BY <3>1, <3>2 DEF ServersInv, Acceptors
    <3>5. pos' \in [Client -> Places]
      BY <3>1, <3>2 DEF Places
    <3>6. QED
      BY <1>0, <3>1, <3>3, <3>4, <3>5 DEF ServersInv, threads
  <2>3. QED
    BY <1>5, <2>1, <2>2 DEF Acceptor
<1>6. QED
  BY <1>1, <1>2, <1>3, <1>4, <1>5 DEF Next

-----------------------------------------------------------------------------
(* The workers and the streams. *)

\* Without a mix-up a worker works on its own connection.
LEMMA OwnConnection ==
  ASSUME ServersInv, ~overtaken, NEW w \in Client, InCall(w)
  PROVE  Conn(w) = w
BY DEF ServersInv, IInv, Own, Conn, InCall

\* A step of worker w on connection c, after which the buffers hold u2, d2 and
\* b2.
StepOn(w, c, u2, d2, b2, l) ==
  /\ ~overtaken => c = w
  /\ u2 \in Seq(Byte) /\ Len(u2) <= Window /\ up' = [up EXCEPT ![c] = u2]
  /\ d2 \in Seq(Byte) /\ Len(d2) <= Window /\ down' = [down EXCEPT ![c] = d2]
  /\ b2 \in Seq(Byte) /\ buf' = [buf EXCEPT ![w] = b2]
  /\ l \in Links /\ link' = [link EXCEPT ![c] = l] /\ (l = "open") = (link[c] = "open")
  /\ ~overtaken =>
       Intact(w, Sent(w), link[w] = "open" /\ server # "poll", got[w], d2, b2, u2)

LEMMA OneStream ==
  ASSUME ClientsInv, UNCHANGED <<clients, server, overtaken>>,
         NEW w \in Client, NEW c \in Client, NEW u2, NEW d2, NEW b2, NEW l,
         StepOn(w, c, u2, d2, b2, l)
  PROVE  ClientsInv'
<1>0. /\ ~overtaken => c = w
      /\ u2 \in Seq(Byte) /\ Len(u2) <= Window /\ up' = [up EXCEPT ![c] = u2]
      /\ d2 \in Seq(Byte) /\ Len(d2) <= Window /\ down' = [down EXCEPT ![c] = d2]
      /\ b2 \in Seq(Byte) /\ buf' = [buf EXCEPT ![w] = b2]
      /\ l \in Links /\ link' = [link EXCEPT ![c] = l] /\ (l = "open") = (link[c] = "open")
      /\ ~overtaken =>
           Intact(w, Sent(w), link[w] = "open" /\ server # "poll", got[w], d2, b2, u2)
  BY DEF StepOn
<1>1. /\ program \in Mixes /\ OfClients
      /\ UNCHANGED <<program, at, typed, due, got>>
  BY DEF ClientsInv, clients
<1>2. program' \in Mixes /\ OfClients'
  BY <1>0, <1>1 DEF OfClients
<1>3. ASSUME NEW d \in Client
      PROVE  ClientOK(d)' /\ (~overtaken => StreamOK(d)')
  <2>0. ClientOK(d) /\ (~overtaken => StreamOK(d))
    BY DEF ClientsInv
  <2>1. Length(d)' = Length(d) /\ Sent(d)' = Sent(d)
    BY <1>1 DEF Length, Sent
  <2>2. /\ up'[d] \in {up[d], u2} /\ down'[d] \in {down[d], d2} /\ buf'[d] \in {buf[d], b2}
        /\ link'[d] \in Links /\ (link'[d] = "open") = (link[d] = "open")
        /\ ~overtaken /\ d # w => up'[d] = up[d] /\ down'[d] = down[d]
        /\ d # w => buf'[d] = buf[d]
        /\ ~overtaken /\ d = w => up'[d] = u2 /\ down'[d] = d2
        /\ d = w => buf'[d] = b2
    <3>1. up'[d] \in {up[d], u2} /\ (d = c => up'[d] = u2) /\ (d # c => up'[d] = up[d])
      BY <1>0, <1>1 DEF OfClients
    <3>2. down'[d] \in {down[d], d2} /\ (d = c => down'[d] = d2) /\ (d # c => down'[d] = down[d])
      BY <1>0, <1>1 DEF OfClients
    <3>3. buf'[d] \in {buf[d], b2} /\ (d = w => buf'[d] = b2) /\ (d # w => buf'[d] = buf[d])
      BY <1>0, <1>1 DEF OfClients
    <3>4. link'[d] \in Links /\ (link'[d] = "open") = (link[d] = "open")
      BY <1>0, <1>1, <2>0 DEF OfClients, ClientOK
    <3>5. QED
      BY <1>0, <3>1, <3>2, <3>3, <3>4
  <2>3. ClientOK(d)'
    BY <1>0, <1>1, <2>0, <2>1, <2>2 DEF ClientOK
  <2>4. ASSUME ~overtaken PROVE StreamOK(d)'
    <3>1. CASE d = w
      <4>1. /\ up'[d] = u2 /\ down'[d] = d2 /\ buf'[d] = b2
            /\ (link'[d] = "open" /\ server' # "poll") = (link[w] = "open" /\ server # "poll")
            /\ Sent(d)' = Sent(w) /\ got'[d] = got[w]
        BY <1>1, <2>1, <2>2, <2>4, <3>1
      <4>2. QED
        BY <1>0, <2>4, <3>1, <4>1, Zenon DEF StreamOK
    <3>2. CASE d # w
      <4>1. /\ up'[d] = up[d] /\ down'[d] = down[d] /\ buf'[d] = buf[d]
            /\ (link'[d] = "open" /\ server' # "poll") = (link[d] = "open" /\ server # "poll")
            /\ Sent(d)' = Sent(d) /\ got'[d] = got[d]
        BY <1>1, <2>1, <2>2, <2>4, <3>2
      <4>2. QED
        BY <2>0, <2>4, <4>1, Zenon DEF StreamOK
    <3>3. QED
      BY <3>1, <3>2
  <2>5. QED
    BY <2>3, <2>4
<1>4. QED
  BY <1>2, <1>3 DEF ClientsInv

LEMMA OneWorker ==
  ASSUME ClientsInv, ServersInv, WorkersInv, overtaken => overtaken', NEW w \in Client,
         NEW next, pos' = [pos EXCEPT ![w] = next],
         NEW b2, buf' = [buf EXCEPT ![w] = b2],
         \A d \in Client : link'[d] = "open" => link[d] = "open",
         ~overtaken' => Fine(w)'
  PROVE  WorkersInv'
<1>1. ASSUME ~overtaken', NEW v \in Client, v # w PROVE Fine(v)'
  <2>1. Fine(v) /\ pos \in [Client -> Places] /\ OfClients
    BY <1>1 DEF WorkersInv, ServersInv, ClientsInv
  <2>2. pos'[v] = pos[v] /\ buf'[v] = buf[v] /\ (link'[v] = "open" => link[v] = "open")
    BY <1>1, <2>1 DEF OfClients
  <2>3. QED
    BY <2>1, <2>2 DEF Fine
<1>2. QED
  BY <1>1 DEF WorkersInv

\* Before a read a worker has nothing left to write.
LEMMA ReadsKeep ==
  ASSUME ClientsInv, ServersInv, WorkersInv, UNCHANGED <<clients, server, overtaken>>,
         NEW w \in Client, NEW k \in 1..Window, Reads(w, k, AfterRead)
  PROVE  ClientsInv' /\ WorkersInv'
<1>0. PICK c \in Client : c = Conn(w) /\ (~overtaken => c = w)
  BY OwnConnection DEF ServersInv, WorkerOK, Reads, InCall
<1>1. /\ pos[w] = "read" /\ k \in 1..Len(up[c]) /\ OfClients /\ ClientOK(c) /\ ClientOK(w)
      /\ pos \in [Client -> Places]
  BY <1>0 DEF Reads, ClientsInv, ServersInv
<1>2. PICK u2, b2 : /\ u2 = SubSeq(up[c], k + 1, Len(up[c])) /\ b2 = SubSeq(up[c], 1, k)
                    /\ up' = [up EXCEPT ![c] = u2] /\ buf' = [buf EXCEPT ![w] = b2]
                    /\ down' = down /\ link' = link /\ pos' = [pos EXCEPT ![w] = AfterRead]
  BY <1>0 DEF Reads, Goes
<1>3. up[c] \in Seq(Byte) /\ k \in 0..Len(up[c]) /\ Len(up[c]) \in Nat /\ k \in Nat
  BY <1>1 DEF ClientOK
<1>4. /\ u2 \in Seq(Byte) /\ b2 \in Seq(Byte) /\ Len(u2) = Len(up[c]) - k /\ Len(b2) = k
  BY <1>2, <1>3, Cut
<1>5. Len(u2) <= Window /\ b2 # <<>>
  <2>1. Len(up[c]) <= Window /\ Window \in Nat /\ k > 0
    BY <1>1, EchoSocketsAssumption DEF ClientOK
  <2>2. QED
    BY <1>3, <1>4, <2>1
<1>6. ASSUME ~overtaken
      PROVE  Intact(w, Sent(w), link[w] = "open" /\ server # "poll", got[w], down[c], b2, u2)
  <2>1. c = w /\ buf[w] = <<>> /\ StreamOK(w)
    BY <1>0, <1>1, <1>6 DEF WorkersInv, Fine, ClientsInv
  <2>2. b2 = buf[w] \o SubSeq(up[w], 1, k) /\ u2 = SubSeq(up[w], k + 1, Len(up[w]))
    BY <1>2, <1>4, <2>1
  <2>3. /\ got[w] \in Seq(Byte) /\ down[w] \in Seq(Byte) /\ buf[w] \in Seq(Byte)
        /\ up[w] \in Seq(Byte)
    BY <1>1 DEF ClientOK
  <2>4. Moved(buf[w], up[w], k, b2, u2)
    BY <1>3, <2>1, <2>2, <2>3, MoveOn
  <2>5. Intact(w, Sent(w), link[w] = "open" /\ server # "poll", got[w], down[w], b2, u2)
    <3> DEFINE whole == link[w] = "open" /\ server # "poll"
    <3>1. Intact(w, Sent(w), whole, got[w], down[w], buf[w], up[w])
      BY <2>1 DEF StreamOK
    <3> HIDE DEF whole
    <3>2. Intact(w, Sent(w), whole, got[w], down[w], b2, u2)
      BY <1>3, <2>3, <2>4, <3>1, Taken
    <3>3. QED
      BY <3>2 DEF whole
  <2>6. QED
    BY <2>1, <2>5
<1>7. ClientsInv'
  <2>1. PICK d2 \in Seq(Byte), l \in Links : d2 = down[c] /\ l = link[c]
    BY <1>1 DEF ClientOK
  <2>2. /\ Len(d2) <= Window /\ (l = "open") = (link[c] = "open")
        /\ down' = [down EXCEPT ![c] = d2] /\ link' = [link EXCEPT ![c] = l]
        /\ ~overtaken => Intact(w, Sent(w), link[w] = "open" /\ server # "poll",
                                got[w], d2, b2, u2)
    BY <1>1, <1>2, <1>6, <2>1 DEF ClientOK, OfClients
  <2>3. StepOn(w, c, u2, d2, b2, l)
    BY <1>0, <1>2, <1>4, <1>5, <2>1, <2>2 DEF StepOn
  <2>4. QED
    BY <1>0, <2>3, OneStream
<1>8. WorkersInv'
  <2>1. pos'[w] \in {"echo", "write"} /\ buf'[w] = b2
    BY <1>1, <1>2 DEF AfterRead, OfClients
  <2>2. Fine(w)'
    BY <1>5, <2>1 DEF Fine
  <2>3. QED
    BY <1>2, <2>2, OneWorker
<1>9. QED
  BY <1>7, <1>8

\* The first bytes a worker holds join those on their way to the client.
LEMMA WritesSome ==
  ASSUME ClientsInv, ServersInv, WorkersInv, NEW w \in Client, pos[w] = "write",
         NEW c \in Client, ~overtaken => c = w,
         NEW k, k = Room(down[c], Len(buf[w])), NEW d2, NEW b2,
         d2 = down[c] \o SubSeq(buf[w], 1, k), b2 = SubSeq(buf[w], k + 1, Len(buf[w]))
  PROVE  /\ d2 \in Seq(Byte) /\ Len(d2) <= Window /\ b2 \in Seq(Byte)
         /\ ~overtaken =>
              Intact(w, Sent(w), link[w] = "open" /\ server # "poll",
                     got[w], d2, b2, up[w])
<1>1. /\ down[c] \in Seq(Byte) /\ Len(down[c]) <= Window /\ buf[w] \in Seq(Byte)
      /\ got[w] \in Seq(Byte) /\ down[w] \in Seq(Byte) /\ up[w] \in Seq(Byte)
  BY DEF ClientsInv, ClientOK
<1>2. Len(buf[w]) \in Nat
  BY <1>1
<1>3. k \in 0..Len(buf[w]) /\ Len(down[c]) + k <= Window
  BY <1>1, <1>2, RoomFits
<1>4. Moved(down[c], buf[w], k, d2, b2)
  BY <1>1, <1>3, MoveOn
<1>5. d2 \in Seq(Byte) /\ b2 \in Seq(Byte) /\ Len(d2) = Len(down[c]) + k
  BY <1>4 DEF Moved
<1>6. ASSUME ~overtaken
      PROVE  Intact(w, Sent(w), link[w] = "open" /\ server # "poll",
                    got[w], d2, b2, up[w])
  <2> DEFINE whole == link[w] = "open" /\ server # "poll"
  <2>1. c = w /\ Intact(w, Sent(w), whole, got[w], down[w], buf[w], up[w])
    BY <1>6 DEF ClientsInv, StreamOK
  <2> HIDE DEF whole
  <2>2. k \in Nat
    BY <1>2, <1>3
  <2>3. Intact(w, Sent(w), whole, got[w], d2, b2, up[w])
    BY <1>1, <1>4, <2>1, <2>2, Written
  <2>4. QED
    BY <2>3 DEF whole
<1>7. QED
  BY <1>3, <1>5, <1>6

\* A blocking write.
LEMMA WritesKeep ==
  ASSUME ClientsInv, ServersInv, WorkersInv, UNCHANGED <<clients, server, overtaken>>,
         NEW w \in Client, Writes(w, AfterWrite)
  PROVE  ClientsInv' /\ WorkersInv'
<1>0. PICK c \in Client : c = Conn(w) /\ (~overtaken => c = w)
  BY OwnConnection DEF ServersInv, WorkerOK, Writes, InCall
<1>1. /\ pos[w] = "write" /\ OfClients /\ ClientOK(c) /\ pos \in [Client -> Places]
  BY <1>0 DEF Writes, ClientsInv, ServersInv
<1>2. PICK k, d2, b2 :
        /\ k = Room(down[c], Len(buf[w]))
        /\ d2 = down[c] \o SubSeq(buf[w], 1, k) /\ b2 = SubSeq(buf[w], k + 1, Len(buf[w]))
        /\ down' = [down EXCEPT ![c] = d2] /\ buf' = [buf EXCEPT ![w] = b2]
        /\ up' = up /\ link' = link
        /\ b2 = <<>> => pos' = [pos EXCEPT ![w] = AfterWrite]
        /\ b2 # <<>> => pos' = pos
  <2> DEFINE K == Room(down[c], Len(buf[w]))
  <2>1. /\ down' = [down EXCEPT ![c] = down[c] \o SubSeq(buf[w], 1, K)]
        /\ buf' = [buf EXCEPT ![w] = Left(w, K)]
        /\ up' = up /\ link' = link
        /\ Left(w, K) = <<>> => pos' = [pos EXCEPT ![w] = AfterWrite]
        /\ Left(w, K) # <<>> => pos' = pos
    BY <1>0, Zenon DEF Writes, Goes
  <2>2. Left(w, K) = SubSeq(buf[w], K + 1, Len(buf[w]))
    BY DEF Left
  <2> HIDE DEF K
  <2>3. QED
    BY <2>1, <2>2, Zenon DEF K
<1>3. /\ d2 \in Seq(Byte) /\ Len(d2) <= Window /\ b2 \in Seq(Byte)
      /\ ~overtaken =>
           Intact(w, Sent(w), link[w] = "open" /\ server # "poll",
                  got[w], d2, b2, up[w])
  BY <1>0, <1>1, <1>2, WritesSome
<1>4. ClientsInv'
  <2>1. PICK u2, l : u2 = up[c] /\ l = link[c]
    OBVIOUS
  <2>2. /\ u2 \in Seq(Byte) /\ Len(u2) <= Window /\ l \in Links
        /\ (l = "open") = (link[c] = "open")
        /\ up' = [up EXCEPT ![c] = u2] /\ link' = [link EXCEPT ![c] = l]
        /\ ~overtaken => Intact(w, Sent(w), link[w] = "open" /\ server # "poll",
                                got[w], d2, b2, u2)
    BY <1>0, <1>1, <1>2, <1>3, <2>1 DEF ClientOK, OfClients
  <2>3. StepOn(w, c, u2, d2, b2, l)
    BY <1>0, <1>2, <1>3, <2>2 DEF StepOn
  <2>4. QED
    BY <1>0, <2>3, OneStream
<1>5. WorkersInv'
  <2>1. PICK next : /\ pos' = [pos EXCEPT ![w] = next]
                    /\ \/ b2 = <<>> /\ next \in {"read", "loop"}
                       \/ b2 # <<>> /\ next = "write"
    <3>1. CASE b2 = <<>>
      BY <1>2, <3>1 DEF AfterWrite
    <3>2. CASE b2 # <<>>
      <4>1. pos' = [pos EXCEPT ![w] = "write"]
        BY <1>1, <1>2, <3>2
      <4>2. QED
        BY <3>2, <4>1
    <3>3. QED
      BY <3>1, <3>2
  <2>2. Fine(w)'
    <3>1. pos'[w] = next /\ buf'[w] = b2
      BY <1>1, <1>2, <2>1 DEF OfClients
    <3>2. QED
      BY <2>1, <3>1 DEF Fine
  <2>3. QED
    BY <1>2, <2>1, <2>2, OneWorker
<1>6. QED
  BY <1>4, <1>5

\* A nonblocking write, which drops the rest.
LEMMA WritesWhatFitsKeep ==
  ASSUME ClientsInv, ServersInv, WorkersInv, UNCHANGED <<clients, server, overtaken>>,
         NEW w \in Client, server = "poll", WritesWhatFits(w, AfterWrite)
  PROVE  ClientsInv' /\ WorkersInv'
<1>0. PICK c \in Client : c = Conn(w) /\ (~overtaken => c = w)
  BY OwnConnection DEF ServersInv, WorkerOK, WritesWhatFits, InCall
<1>1. /\ pos[w] = "write" /\ OfClients /\ ClientOK(c) /\ ClientOK(w)
      /\ pos \in [Client -> Places]
  BY <1>0 DEF WritesWhatFits, ClientsInv, ServersInv
<1>2. PICK k, d2, b2 :
        /\ k = Room(down[c], Len(buf[w]))
        /\ d2 = down[c] \o SubSeq(buf[w], 1, k) /\ b2 = SubSeq(buf[w], k + 1, Len(buf[w]))
        /\ down' = [down EXCEPT ![c] = d2] /\ buf' = [buf EXCEPT ![w] = <<>>]
        /\ up' = up /\ link' = link /\ pos' = [pos EXCEPT ![w] = AfterWrite]
  BY <1>0 DEF WritesWhatFits, Goes
<1>3. /\ d2 \in Seq(Byte) /\ Len(d2) <= Window /\ b2 \in Seq(Byte)
      /\ ~overtaken =>
           Intact(w, Sent(w), link[w] = "open" /\ server # "poll",
                  got[w], d2, b2, up[w])
  BY <1>0, <1>1, <1>2, WritesSome
<1>4. PICK b3, u2, l : b3 = <<>> /\ u2 = up[c] /\ l = link[c]
  OBVIOUS
<1>5. ASSUME ~overtaken
      PROVE  Intact(w, Sent(w), link[w] = "open" /\ server # "poll", got[w], d2, b3, u2)
  <2>1. Ordered(w, Sent(w), got[w], d2, b2, up[w]) /\ c = w
    BY <1>0, <1>3, <1>5 DEF Intact
  <2>2. got[w] \in Seq(Byte) /\ up[w] \in Seq(Byte) /\ Sent(w) \in Int
    BY <1>1, SentInt DEF ClientsInv, ClientOK
  <2>3. d2 \in {d2, <<>>} /\ b3 \in {b2, <<>>} /\ u2 \in Prefixes(up[w])
    BY <1>4, <2>1, <2>2, AllIsPrefix
  <2>4. Ordered(w, Sent(w), got[w], d2, b3, u2)
    BY <1>3, <2>1, <2>2, <2>3, Lost
  <2>5. QED
    BY <2>4 DEF Intact
<1>6. ClientsInv'
  <2>1. /\ u2 \in Seq(Byte) /\ Len(u2) <= Window /\ l \in Links /\ b3 \in Seq(Byte)
        /\ (l = "open") = (link[c] = "open")
        /\ up' = [up EXCEPT ![c] = u2] /\ link' = [link EXCEPT ![c] = l]
        /\ buf' = [buf EXCEPT ![w] = b3]
    BY <1>0, <1>1, <1>2, <1>4, EmptySeq DEF ClientOK, OfClients
  <2>2. StepOn(w, c, u2, d2, b3, l)
    BY <1>0, <1>2, <1>3, <1>5, <2>1 DEF StepOn
  <2>3. QED
    BY <1>0, <2>2, OneStream
<1>7. WorkersInv'
  <2>1. Fine(w)'
    <3>1. pos'[w] = AfterWrite /\ buf'[w] = <<>>
      BY <1>1, <1>2 DEF OfClients
    <3>2. QED
      BY <3>1 DEF Fine, AfterWrite
  <2>2. QED
    BY <1>2, <2>1, OneWorker
<1>8. QED
  BY <1>6, <1>7

\* A write to a client that has closed, which may lose its bytes on both ways.
LEMMA WritesInVainKeep ==
  ASSUME ClientsInv, ServersInv, WorkersInv, UNCHANGED <<clients, server, overtaken>>,
         NEW w \in Client, WritesInVain(w, AfterWrite)
  PROVE  ClientsInv' /\ WorkersInv'
<1>0. PICK c \in Client : c = Conn(w) /\ (~overtaken => c = w)
  BY OwnConnection DEF ServersInv, WorkerOK, WritesInVain, InCall
<1>1. /\ pos[w] = "write" /\ OfClients /\ ClientOK(c) /\ ClientOK(w)
      /\ pos \in [Client -> Places] /\ link[c] # "open" /\ link[c] \in Links
  BY <1>0 DEF WritesInVain, ClientsInv, ServersInv, ClientOK
<1>2. PICK l \in {link[c], "pipe"}, u2 \in Prefixes(up[c]) :
        /\ link' = [link EXCEPT ![c] = l] /\ up' = [up EXCEPT ![c] = u2]
        /\ down' = down /\ buf' = [buf EXCEPT ![w] = <<>>]
        /\ pos' = [pos EXCEPT ![w] = AfterWrite]
  <2>1. link = [link EXCEPT ![c] = link[c]]
    BY <1>1 DEF OfClients
  <2>2. WriteVanishes(c) /\ buf' = [buf EXCEPT ![w] = <<>>]
        /\ pos' = [pos EXCEPT ![w] = AfterWrite]
    BY <1>0 DEF WritesInVain, Goes
  <2>3. \E l \in {link[c], "pipe"} : link' = [link EXCEPT ![c] = l]
    BY <2>1, <2>2 DEF WriteVanishes
  <2>4. \E u2 \in Prefixes(up[c]) : up' = [up EXCEPT ![c] = u2]
    BY <2>2 DEF WriteVanishes
  <2>5. QED
    BY <2>2, <2>3, <2>4 DEF WriteVanishes
<1>3. PICK b3, d2 : b3 = <<>> /\ d2 = down[c]
  OBVIOUS
<1>4. ASSUME ~overtaken
      PROVE  Intact(w, Sent(w), link[w] = "open" /\ server # "poll", got[w], d2, b3, u2)
  <2>1. Ordered(w, Sent(w), got[w], down[w], buf[w], up[w]) /\ c = w
    BY <1>0, <1>4 DEF ClientsInv, StreamOK, Intact
  <2>2. /\ got[w] \in Seq(Byte) /\ up[w] \in Seq(Byte) /\ Sent(w) \in Int
        /\ down[w] \in Seq(Byte) /\ buf[w] \in Seq(Byte)
    BY <1>1, SentInt DEF ClientsInv, ClientOK
  <2>3. d2 \in {down[w], <<>>} /\ b3 \in {buf[w], <<>>} /\ u2 \in Prefixes(up[w])
    BY <1>2, <1>3, <2>1
  <2>4. Ordered(w, Sent(w), got[w], d2, b3, u2)
    BY <2>1, <2>2, <2>3, Lost
  <2>5. QED
    BY <1>1, <2>1, <2>4 DEF Intact
<1>5. ClientsInv'
  <2>1. u2 \in Seq(Byte) /\ Len(u2) <= Window
    <3>1. up[c] \in Seq(Byte) /\ Len(up[c]) <= Window /\ Window \in Nat
      BY <1>1, EchoSocketsAssumption DEF ClientOK
    <3>2. u2 \in Seq(Byte) /\ Len(u2) <= Len(up[c])
      BY <1>2, <3>1, ShorterPrefix
    <3>3. Len(u2) \in Nat /\ Len(up[c]) \in Nat
      BY <3>1, <3>2
    <3>4. QED
      BY <3>1, <3>2, <3>3
  <2>2. /\ d2 \in Seq(Byte) /\ Len(d2) <= Window /\ l \in Links /\ b3 \in Seq(Byte)
        /\ (l = "open") = (link[c] = "open")
        /\ down' = [down EXCEPT ![c] = d2] /\ buf' = [buf EXCEPT ![w] = b3]
    BY <1>0, <1>1, <1>2, <1>3, EmptySeq DEF ClientOK, OfClients, Links
  <2>3. StepOn(w, c, u2, d2, b3, l)
    BY <1>0, <1>2, <1>4, <2>1, <2>2 DEF StepOn
  <2>4. QED
    BY <1>0, <2>3, OneStream
<1>6. WorkersInv'
  <2>1. Fine(w)'
    <3>1. pos'[w] = AfterWrite /\ buf'[w] = <<>>
      BY <1>1, <1>2 DEF OfClients
    <3>2. QED
      BY <3>1 DEF Fine, AfterWrite
  <2>2. \A d \in Client : link'[d] = "open" => link[d] = "open"
    BY <1>1, <1>2 DEF OfClients
  <2>3. QED
    BY <1>2, <2>1, <2>2, OneWorker
<1>7. QED
  BY <1>5, <1>6

\* The end of a connection, or of a child or the server that wrote to it.
LEMMA EndsKeep ==
  ASSUME ClientsInv, ServersInv, WorkersInv, UNCHANGED <<clients, server, overtaken>>,
         NEW w \in Client,
         \/ \E next \in AfterEnd : ReadsEnd(w, next) \/ ReadsError(w, next)
         \/ ChildKilled(w)
         \/ Kills(w)
  PROVE  ClientsInv' /\ WorkersInv'
<1>0. PICK c \in Client : c = Conn(w) /\ (~overtaken => c = w)
  BY OwnConnection
     DEF ServersInv, WorkerOK, ReadsEnd, ReadsError, ChildKilled, BrokenPipe, Kills, InCall
<1>1. OfClients /\ ClientOK(c) /\ ClientOK(w) /\ pos \in [Client -> Places]
  BY DEF ClientsInv, ServersInv
<1> DEFINE Ending(l, next) ==
      /\ link' = [link EXCEPT ![c] = l] /\ pos' = [pos EXCEPT ![w] = next]
      /\ up' = up /\ down' = down /\ buf' = buf
      /\ \/ l # "open" /\ link[c] # "open" /\ pos[w] = "read" /\ next \in AfterEnd
         \/ l # "open" /\ link[c] # "open" /\ next = "done"
         \/ l = link[c] /\ next = pos[w]
<1>2. PICK l \in {link[c], "pipe"}, next \in Places : Ending(l, next)
  <2>0. link = [link EXCEPT ![c] = link[c]] /\ pos = [pos EXCEPT ![w] = pos[w]]
        /\ pos[w] \in Places /\ AfterEnd \subseteq Places /\ "done" \in Places
    BY <1>1 DEF OfClients, AfterEnd, Places
  <2>1. ASSUME NEW next \in AfterEnd, ReadsEnd(w, next) \/ ReadsError(w, next)
        PROVE  \E l \in {link[c], "pipe"} : Ending(l, next)
    BY <1>0, <2>0, <2>1 DEF ReadsEnd, ReadsError, ReadEnds, ReadFails, Goes, sockets
  <2>2. ASSUME ChildKilled(w) PROVE Ending(link[c], "done")
    BY <1>0, <2>0, <2>2 DEF ChildKilled, BrokenPipe, Goes, sockets
  <2>3. ASSUME Kills(w) PROVE Ending(link[c], pos[w])
    BY <1>0, <2>0, <2>3 DEF Kills, ServerKilled, sockets
  <2>4. QED
    BY <2>0, <2>1, <2>2, <2>3
<1>3. ClientsInv'
  <2>1. PICK u2, d2, b2 : u2 = up[c] /\ d2 = down[c] /\ b2 = buf[w]
    OBVIOUS
  <2>2. /\ u2 \in Seq(Byte) /\ Len(u2) <= Window /\ up' = [up EXCEPT ![c] = u2]
        /\ d2 \in Seq(Byte) /\ Len(d2) <= Window /\ down' = [down EXCEPT ![c] = d2]
        /\ b2 \in Seq(Byte) /\ buf' = [buf EXCEPT ![w] = b2]
        /\ l \in Links /\ (l = "open") = (link[c] = "open")
    BY <1>1, <1>2, <2>1 DEF OfClients, ClientOK, Links
  <2>3. ~overtaken => Intact(w, Sent(w), link[w] = "open" /\ server # "poll",
                             got[w], d2, b2, u2)
    BY <1>0, <2>1 DEF ClientsInv, StreamOK
  <2>4. StepOn(w, c, u2, d2, b2, l)
    BY <1>0, <1>2, <2>2, <2>3 DEF StepOn
  <2>5. QED
    BY <1>0, <2>4, OneStream
<1>4. WorkersInv'
  <2>1. PICK b2 : b2 = buf[w] /\ buf' = [buf EXCEPT ![w] = b2]
    BY <1>1, <1>2 DEF OfClients
  <2>2. ASSUME ~overtaken PROVE Fine(w)'
    <3>1. /\ c = w /\ Fine(w) /\ pos'[w] = next /\ buf'[w] = buf[w] /\ link'[w] = l
      BY <1>0, <1>1, <1>2, <2>2 DEF WorkersInv, OfClients
    <3>2. QED
      BY <1>2, <3>1 DEF Fine, AfterEnd
  <2>3. \A d \in Client : link'[d] = "open" => link[d] = "open"
    BY <1>1, <1>2 DEF OfClients
  <2>4. QED
    BY <1>2, <2>1, <2>2, <2>3, OneWorker
<1>5. QED
  BY <1>3, <1>4

\* What a thread does between its calls brings it to a read with nothing to
\* write, to a write with something, or to its end after that of its
\* connection.
LEMMA MovesOnKeeps ==
  ASSUME ClientsInv, ServersInv, WorkersInv, UNCHANGED <<clients, server, overtaken>>,
         NEW w \in Client, MovesOn(w)
  PROVE  WorkersInv'
<1>0. pos \in [Client -> Places] /\ OfClients /\ UNCHANGED <<buf, link>>
  BY DEF ServersInv, ClientsInv, MovesOn, sockets
<1>1. PICK b2 : b2 = buf[w] /\ buf' = [buf EXCEPT ![w] = b2]
  BY <1>0 DEF OfClients
<1>2. PICK next : pos' = [pos EXCEPT ![w] = next] /\ (~overtaken => Fine(w)')
  <2>1. CASE CopyPassInfo(w)
    <3>1. pos[w] = "start" /\ pos' = [pos EXCEPT ![w] = "loop"]
      BY <2>1 DEF CopyPassInfo, Goes
    <3>2. ~overtaken => Fine(w)'
      <4>1. pos'[w] = "loop" /\ buf'[w] = buf[w] /\ link'[w] = link[w]
        BY <1>0, <3>1
      <4>2. QED
        BY <3>1, <4>1 DEF WorkersInv, Fine
    <3>3. QED
      BY <3>1, <3>2
  <2>2. CASE Closes(w)
    <3>1. pos[w] = "close" /\ pos' = [pos EXCEPT ![w] = "done"]
      BY <2>2 DEF Closes, Goes
    <3>2. ~overtaken => Fine(w)'
      <4>1. pos'[w] = "done" /\ buf'[w] = buf[w] /\ link'[w] = link[w]
        BY <1>0, <3>1
      <4>2. QED
        BY <3>1, <4>1 DEF WorkersInv, Fine
    <3>3. QED
      BY <3>1, <3>2
  <2>3. CASE EntersCall(w)
    <3>1. PICK next : /\ pos' = [pos EXCEPT ![w] = next]
                      /\ \/ pos[w] = "loop" /\ next = "read"
                         \/ pos[w] = "echo" /\ next = "write"
                         \/ file[fd[w]] = NoClient
      BY <2>3 DEF EntersCall, OwnInfo, Goes
    <3>2. ASSUME ~overtaken PROVE Fine(w)'
      <4>1. file[fd[w]] = w /\ Fine(w)
        BY <2>3, <3>2 DEF MovesOn, EntersCall, ServersInv, IInv, Own, Running, WorkersInv
      <4>2. pos'[w] = next /\ buf'[w] = buf[w] /\ link'[w] = link[w]
        BY <1>0, <3>1
      <4>3. QED
        BY <3>1, <4>1, <4>2, EchoSocketsAssumption DEF Fine
    <3>3. QED
      BY <3>1, <3>2
  <2>4. QED
    BY <2>1, <2>2, <2>3 DEF MovesOn
<1>3. QED
  BY <1>0, <1>1, <1>2, OneWorker

LEMMA StreamsStay ==
  ASSUME ClientsInv, UNCHANGED <<sockets, clients, server, buf>>, overtaken => overtaken'
  PROVE  ClientsInv'
<1>1. UNCHANGED <<up, down, link, program, at, typed, due, got, server, buf>>
  BY DEF sockets, clients
<1>2. \A c \in Client : Length(c)' = Length(c) /\ Sent(c)' = Sent(c)
  BY <1>1 DEF Length, Sent
<1>3. OfClients' /\ program' \in Mixes
  BY <1>1 DEF ClientsInv, OfClients
<1>4. ASSUME NEW c \in Client PROVE ClientOK(c)' /\ (~overtaken' => StreamOK(c)')
  <2>1. ClientOK(c) /\ (~overtaken' => StreamOK(c))
    BY DEF ClientsInv
  <2>2. QED
    BY <1>1, <1>2, <2>1 DEF ClientOK, StreamOK
<1>5. QED
  BY <1>3, <1>4 DEF ClientsInv

\* Of the connections a client changes its own only, and that until it closes.
LEMMA OwnLinkOnly ==
  ASSUME ClientsInv, NEW c \in Client, UserStep(c) \/ ClientStep(c)
  PROVE  /\ UNCHANGED <<program, server, pos, buf, ended, herd, threads>>
         /\ at[c] # "done" /\ link[c] = "open"
         /\ at' = [at EXCEPT ![c] = at'[c]] /\ at'[c] # "absent"
         /\ \A d \in Client \ {c} : link'[d] = link[d] /\ up'[d] = up[d]
         /\ \/ link' = link
            \/ ClientCloses(c) /\ EndInput(c)
            \/ ClientCloses(c) /\ Close(c, ~ServerOpen(c)) /\ ClientStep(c)
<1>0. OfClients /\ ClientOK(c)
  BY DEF ClientsInv
<1>1. UNCHANGED <<program, server, pos, buf, ended, herd, threads>>
  BY DEF UserStep, ClientStep, Connect, NextMessage, EndInput, BlockingSend,
         NonblockingSend, RecvLine, RecvOnce, Close, HandsOver, Receives
<1>2. /\ at[c] # "done"
      /\ at' = at \/ \E next \in {"message", "send", "recv", "close", "done"} :
                       at' = [at EXCEPT ![c] = next]
      /\ at' = at => at[c] # "absent"
  <2>1. CASE Connect(c)
    <3>1. at[c] = "absent" /\ at' = [at EXCEPT ![c] = "message"]
      BY <2>1 DEF Connect
    <3>2. at'[c] = "message"
      BY <1>0, <3>1 DEF OfClients
    <3>3. QED
      BY <3>1, <3>2
  <2>2. CASE NextMessage(c)
    BY <2>2 DEF NextMessage
  <2>3. CASE EndInput(c) \/ Close(c, ~ServerOpen(c))
    BY <2>3 DEF EndInput, Close
  <2>4. CASE BlockingSend(c)
    <3>1. at[c] = "send" /\ (at' = at \/ at' = [at EXCEPT ![c] = "recv"])
      BY <2>4 DEF BlockingSend
    <3>2. QED
      BY <3>1
  <2>5. CASE NonblockingSend(c)
    BY <2>5 DEF NonblockingSend
  <2>6. CASE \E k \in 0..Window : RecvLine(c, k) \/ RecvOnce(c, k)
    <3>1. /\ at[c] = "recv"
          /\ \/ at' = at
             \/ at' = [at EXCEPT ![c] = "message"]
             \/ at' = [at EXCEPT ![c] = "close"]
      BY <2>6 DEF RecvLine, RecvOnce
    <3>2. QED
      BY <3>1
  <2>7. QED
    BY <2>1, <2>2, <2>3, <2>4, <2>5, <2>6 DEF UserStep, ClientStep
<1>3. /\ \/ link' = link
         \/ ClientCloses(c) /\ EndInput(c)
         \/ ClientCloses(c) /\ Close(c, ~ServerOpen(c)) /\ ClientStep(c)
  BY DEF UserStep, ClientStep, Connect, NextMessage, EndInput, BlockingSend, sockets,
         NonblockingSend, RecvLine, RecvOnce, Close, HandsOver, Receives
<1>4. \A d \in Client \ {c} : link'[d] = link[d]
  BY <1>0, <1>3 DEF OfClients, ClientCloses
<1>5. \A d \in Client \ {c} : up'[d] = up[d]
  <2>1. CASE ClientCloses(c)
    BY <1>0, <2>1 DEF OfClients, ClientCloses
  <2>2. CASE Connect(c) \/ NextMessage(c)
    BY <2>2 DEF Connect, NextMessage, sockets
  <2>3. CASE \E k : HandsOver(c, k) \/ Receives(c, k)
    BY <1>0, <2>3 DEF OfClients, HandsOver, Receives
  <2>4. QED
    BY <2>1, <2>2, <2>3 DEF UserStep, ClientStep, EndInput, BlockingSend,
       NonblockingSend, RecvLine, RecvOnce, Close
<1>6. at' = [at EXCEPT ![c] = at'[c]] /\ at'[c] # "absent"
  BY <1>0, <1>2 DEF OfClients
<1>7. link[c] = "open"
  BY <1>0, <1>2 DEF ClientOK
<1>8. QED
  BY <1>1, <1>2, <1>3, <1>4, <1>5, <1>6, <1>7

Flow == ClientsInv /\ ServersInv /\ WorkersInv

LEMMA InitFlow == Init => Flow
<1>1. Init => WorkersInv
  BY DEF Init, WorkersInv, Fine
<1>2. QED
  BY <1>1, InitClients, InitServers DEF Flow

LEMMA AcceptsFlow ==
  ASSUME Flow, NEW c \in Client, pos[c] = "none",
         NEW next \in {"read", "start"}, pos' = [pos EXCEPT ![c] = next],
         UNCHANGED <<sockets, clients, server, buf>>, overtaken => overtaken'
  PROVE  ClientsInv' /\ WorkersInv'
<1>1. /\ ClientsInv /\ ServersInv /\ WorkersInv /\ OfClients /\ pos \in [Client -> Places]
      /\ UNCHANGED <<buf, link>>
  BY DEF Flow, ClientsInv, ServersInv, sockets
<1>2. PICK b2 : b2 = buf[c] /\ buf' = [buf EXCEPT ![c] = b2]
  <2>1. buf = [buf EXCEPT ![c] = buf[c]]
    BY <1>1 DEF OfClients
  <2>2. QED
    BY <1>1, <2>1
<1>3. ASSUME ~overtaken' PROVE Fine(c)'
  <2>1. Fine(c) /\ pos'[c] = next /\ buf'[c] = buf[c] /\ link'[c] = link[c]
    BY <1>1, <1>3 DEF WorkersInv
  <2>2. QED
    BY <2>1 DEF Fine
<1>4. WorkersInv'
  BY <1>1, <1>2, <1>3, OneWorker
<1>5. QED
  BY <1>1, <1>4, StreamsStay

LEMMA FlowKeeps == Flow /\ [Next]_vars => Flow'
<1> SUFFICES ASSUME Flow, [Next]_vars PROVE Flow'
  OBVIOUS
<1>0. ClientsInv /\ ServersInv /\ WorkersInv /\ ServersInv'
  BY ServersKeep DEF Flow
<1>1. CASE UNCHANGED vars
  <2>1. UNCHANGED <<sockets, clients, server, buf, pos, link, threads>>
    BY <1>1 DEF vars, sockets
  <2>2. ClientsInv'
    BY <1>0, <2>1, StreamsStay DEF threads
  <2>3. WorkersInv'
    BY <1>0, <2>1 DEF WorkersInv, Fine, threads
  <2>4. QED
    BY <1>0, <2>2, <2>3 DEF Flow
<1>2. ASSUME NEW c \in Client, UserStep(c) \/ ClientStep(c)
      PROVE  Flow'
  <2>1. ClientsInv'
    BY <1>0, <1>2, ClientStepsKeep
  <2>2. /\ UNCHANGED <<pos, buf, threads>> /\ link[c] = "open"
        /\ \A d \in Client \ {c} : link'[d] = link[d]
    BY <1>0, <1>2, OwnLinkOnly
  <2>3. WorkersInv'
    BY <1>0, <2>2 DEF WorkersInv, Fine, threads
  <2>4. QED
    BY <1>0, <2>1, <2>3 DEF Flow
<1>3. ASSUME NEW c \in Client, Accept(c)
      PROVE  Flow'
  <2>1. /\ pos[c] = "none" /\ UNCHANGED <<sockets, clients, server, buf>>
        /\ overtaken => overtaken'
        /\ \E next \in {"read", "start"} : pos' = [pos EXCEPT ![c] = next]
    <3>1. CASE ThreadAccept(c)
      <4>1. pos' = [pos EXCEPT ![c] = "start"]
        BY <3>1 DEF ThreadAccept, Goes
      <4>2. QED
        BY <3>1, <4>1 DEF ThreadAccept, Backlog
    <3>2. CASE BlockAccept(c) \/ ListenSocketCB(c) \/ PollAccept(c)
      <4>1. pos' = [pos EXCEPT ![c] = "read"]
        BY <3>2 DEF BlockAccept, ListenSocketCB, PollAccept, Goes
      <4>2. QED
        BY <3>2, <4>1 DEF BlockAccept, ListenSocketCB, PollAccept, Backlog, threads
    <3>3. QED
      BY <1>3, <3>1, <3>2 DEF Accept
  <2>2. QED
    BY <1>0, <2>1, AcceptsFlow DEF Flow
<1>4. ASSUME NEW w \in Client, Worker(w)
      PROVE  Flow'
  <2>1. /\ UNCHANGED <<clients, server, overtaken>>
        /\ (Calls(w) /\ UNCHANGED threads) \/ MovesOn(w)
    BY <1>4, WorkerSteps
  <2>2. CASE MovesOn(w)
    <3>1. ClientsInv'
      BY <1>0, <2>1, <2>2, StreamsStay DEF MovesOn
    <3>2. QED
      BY <1>0, <2>1, <2>2, <3>1, MovesOnKeeps DEF Flow
  <2>3. CASE Calls(w)
    <3>1. ClientsInv' /\ WorkersInv'
      BY <1>0, <2>1, <2>3, ReadsKeep, WritesKeep, WritesWhatFitsKeep, WritesInVainKeep,
         EndsKeep
         DEF Calls
    <3>2. QED
      BY <1>0, <3>1 DEF Flow
  <2>4. QED
    BY <2>1, <2>2, <2>3
<1>5. ASSUME NEW p \in Client \cup {Main}, Acceptor(p)
      PROVE  Flow'
  <2>1. CASE Wakes(p) \/ NonblockAcceptNone(p)
    <3>1. UNCHANGED <<sockets, clients, server, buf, pos, link, threads>>
      BY <2>1 DEF Wakes, NonblockAcceptNone, sockets
    <3>2. ClientsInv'
      BY <1>0, <3>1, StreamsStay DEF threads
    <3>3. WorkersInv'
      BY <1>0, <3>1 DEF WorkersInv, Fine, threads
    <3>4. QED
      BY <1>0, <3>2, <3>3 DEF Flow
  <2>2. ASSUME NEW c \in Client, NonblockAccept(p, c)
        PROVE  Flow'
    <3>1. /\ pos[c] = "none" /\ UNCHANGED <<sockets, clients, server, buf>>
          /\ overtaken' = overtaken /\ pos' = [pos EXCEPT ![c] = "read"]
      BY <2>2 DEF NonblockAccept, Backlog, Goes, threads
    <3>2. QED
      BY <1>0, <3>1, AcceptsFlow DEF Flow
  <2>3. QED
    BY <1>5, <2>1, <2>2 DEF Acceptor
<1>6. QED
  BY <1>1, <1>2, <1>3, <1>4, <1>5 DEF Next

-----------------------------------------------------------------------------
LEMMA FlowTypeOK == Flow => TypeOK
<1> SUFFICES ASSUME Flow PROVE TypeOK
  OBVIOUS
<1>1. /\ program \in Mixes /\ OfClients /\ \A c \in Client : ClientOK(c)
      /\ ServersInv
  BY DEF Flow, ClientsInv
<1>2. /\ at \in [Client -> {"absent", "message", "send", "recv", "close", "done"}]
      /\ link \in [Client -> Links]
      /\ \A c \in Client : due[c] \in 0..Length(c) /\ typed[c] \in 0..MaxLines + 1
  BY <1>1 DEF OfClients, ClientOK
<1>3. QED
  BY <1>1, <1>2 DEF TypeOK, ServersInv, Places

LEMMA FlowStreamsIntact == Flow => StreamsIntact
<1> SUFFICES ASSUME Flow, ~overtaken, NEW c \in Client
             PROVE  LET s == got[c] \o down[c] \o buf[c] \o up[c] IN
                      /\ OwnBytesInOrder(c, s)
                      /\ link[c] = "open" /\ server # "poll" => s = Bytes(c, 1, Sent(c))
  BY FlowTypeOK DEF StreamsIntact
<1>1. ClientOK(c) /\ StreamOK(c)
  BY DEF Flow, ClientsInv
<1>2. /\ got[c] \in Seq(Byte) /\ down[c] \in Seq(Byte) /\ buf[c] \in Seq(Byte)
      /\ up[c] \in Seq(Byte)
  BY <1>1 DEF ClientOK
<1>3. /\ Ordered(c, Sent(c), got[c], down[c], buf[c], up[c])
      /\ link[c] = "open" /\ server # "poll" =>
           Whole(c, Sent(c), got[c], down[c], buf[c], up[c])
  BY <1>1 DEF StreamOK, Intact
<1>4. /\ OwnBytesInOrder(c, Stream(got[c], down[c], buf[c], up[c]))
      /\ Whole(c, Sent(c), got[c], down[c], buf[c], up[c]) =>
           Stream(got[c], down[c], buf[c], up[c]) = Bytes(c, 1, Sent(c))
  BY <1>2, <1>3, Assembled
<1>5. QED
  BY <1>3, <1>4 DEF Stream

LEMMA FlowStuck == Flow => StuckOnlyWhenTooLong
<1> SUFFICES ASSUME Flow, ~overtaken, NEW c \in Client, Stuck(c)
             PROVE  Length(c) >= 2 * Window + 2
  BY DEF StuckOnlyWhenTooLong
<1>1. ClientsInv /\ ServersInv /\ WorkersInv /\ ClientOK(c) /\ StreamOK(c)
  BY DEF Flow, ClientsInv
<1>2. PICK w \in Client : pos[w] = "write" /\ Conn(w) = c /\ Len(down[c]) = Window
  BY DEF Stuck
<1>3. w = c
  BY <1>1, <1>2, OwnConnection DEF InCall
<1>4. buf[c] # <<>> /\ buf[c] \in Seq(Byte) /\ got[c] \in Seq(Byte)
  BY <1>1, <1>2, <1>3 DEF WorkersInv, Fine, ClientOK
<1>5. Len(buf[c]) \in Nat /\ Len(buf[c]) >= 1 /\ Len(got[c]) \in Nat
  BY <1>4, EmptySeq
<1>6. /\ Sent(c) \in Int /\ due[c] \in Nat /\ Length(c) \in Nat
      /\ Len(got[c]) + Length(c) = Sent(c) + due[c] /\ due[c] > 0
      /\ Len(up[c]) = Window
  BY <1>1, SentInt DEF Stuck, ClientOK, ClientsInv
<1>7. Len(got[c]) + Len(down[c]) + Len(buf[c]) + Len(up[c]) <= Sent(c)
  BY <1>1 DEF StreamOK, Intact, Ordered
<1>8. PICK g \in Nat, b \in Nat, d \in Nat, sent \in Int, size \in Nat :
        /\ g = Len(got[c]) /\ b = Len(buf[c]) /\ d = due[c]
        /\ sent = Sent(c) /\ size = Length(c)
  BY <1>5, <1>6
<1>9. /\ b >= 1 /\ d > 0 /\ g + size = sent + d
      /\ g + Window + b + Window <= sent
  BY <1>2, <1>5, <1>6, <1>7, <1>8
<1>10. size >= 2 * Window + 2
  BY <1>9, EchoSocketsAssumption
<1>11. QED
  BY <1>8, <1>10

\* "Echo back anything received", for any number of clients of any of the
\* three programs, any size of the messages and of the buffers: what a client
\* has sent is in its own streams only, in order and, while the connection is
\* open and no byte is dropped, complete.
THEOREM EchoesEverything == Spec => []StreamsIntact
<1>1. Init => Flow
  BY InitFlow
<1>2. Flow /\ [Next]_vars => Flow'
  BY FlowKeeps
<1>3. Flow => StreamsIntact
  BY FlowStreamsIntact
<1>4. QED
  BY <1>1, <1>2, <1>3, PTL DEF Spec

\* A client and its worker can only wait for each other in the middle of a
\* message that both windows and the buffer of the server cannot hold.
THEOREM LongMessagesOnlyGetStuck == Spec => []StuckOnlyWhenTooLong
<1>1. Init => Flow
  BY InitFlow
<1>2. Flow /\ [Next]_vars => Flow'
  BY FlowKeeps
<1>3. Flow => StuckOnlyWhenTooLong
  BY FlowStuck
<1>4. QED
  BY <1>1, <1>2, <1>3, PTL DEF Spec

-----------------------------------------------------------------------------
(* Who ends a server. *)

\* A client that sends lines closes only when nothing of its own is on the
\* way any more.
ClosedClean(c) ==
  program[c] = "line" /\ link[c] # "open" =>
    link[c] = "fin" /\ buf[c] = <<>> /\ up[c] = <<>>

KillInv ==
  /\ ended => server \in {"thread"} \cup Loops
  /\ LinesNeverKill
  /\ ~overtaken /\ ~ended => \A c \in Client : ClosedClean(c)

\* While its server runs, a connection that is open has its server's end.
LEMMA OpenIsServed ==
  ASSUME Flow, ~overtaken, ~ended, NEW c \in Client, link[c] = "open"
  PROVE  ServerOpen(c)
<1>1. /\ pos[c] \in Places /\ pos[c] \notin {"close", "accept", "done"} /\ WorkerOK(c)
      /\ IInv
  BY DEF Flow, WorkersInv, Fine, ServersInv
<1>2. CASE pos[c] = "none"
  BY <1>2 DEF ServerOpen
<1>3. CASE server # "thread" /\ pos[c] # "none"
  BY <1>1, <1>3 DEF ServerOpen, InCall, WorkerOK, Places
<1>4. CASE server = "thread" /\ pos[c] # "none"
  <2>1. ThreadTypeOK /\ Own(c)
    BY <1>1, <1>4 DEF IInv
  <2>2. PICK f \in Fd : file[f] = c
    BY <1>1, <1>4, <2>1 DEF ThreadTypeOK, Own, Running, Places
  <2>3. c \in Range(file)
    BY <2>1, <2>2 DEF ThreadTypeOK, Range
  <2>4. QED
    BY <1>4, <2>3 DEF ServerOpen
<1>5. QED
  BY <1>2, <1>3, <1>4

\* echo_client ends its input between two lines, with all it has sent back.
LEMMA EndInputClean ==
  ASSUME Flow, ~overtaken, NEW c \in Client, EndInput(c), buf' = buf
  PROVE  link'[c] = "fin" /\ buf'[c] = <<>> /\ up'[c] = <<>>
<1>1. ClientsInv /\ OfClients /\ ClientOK(c) /\ StreamOK(c) /\ at[c] = "message"
  BY DEF Flow, ClientsInv, EndInput
<1>2. /\ got[c] \in Seq(Byte) /\ down[c] \in Seq(Byte) /\ buf[c] \in Seq(Byte)
      /\ up[c] \in Seq(Byte) /\ Len(got[c]) = Sent(c) /\ Sent(c) \in Int
  BY <1>1, SentInt DEF ClientOK, ClientsInv
<1>3. Len(got[c]) + Len(down[c]) + Len(buf[c]) + Len(up[c]) <= Sent(c)
  BY <1>1 DEF StreamOK, Intact, Ordered
<1>4. /\ Len(got[c]) \in Nat /\ Len(down[c]) \in Nat /\ Len(buf[c]) \in Nat
      /\ Len(up[c]) \in Nat
  BY <1>2
<1>5. Len(down[c]) = 0 /\ Len(buf[c]) = 0 /\ Len(up[c]) = 0
  BY <1>2, <1>3, <1>4
<1>6. down[c] = <<>> /\ buf[c] = <<>> /\ up[c] = <<>>
  BY <1>2, <1>5, EmptySeq
<1>7. link' = [link EXCEPT ![c] = "fin"] /\ up' = up
  BY <1>6 DEF EndInput, ClientCloses
<1>8. QED
  BY <1>1, <1>6, <1>7 DEF OfClients

\* Nothing takes an end of a connection back.
LEMMA ResetStays ==
  ASSUME Flow, Next, NEW c \in Client, link[c] \in {"reset", "pipe"}
  PROVE  link'[c] \in {"reset", "pipe"} /\ program' = program
<1>0. ClientsInv /\ ServersInv /\ OfClients
  BY DEF Flow, ClientsInv
<1>1. ASSUME NEW d \in Client, UserStep(d) \/ ClientStep(d)
      PROVE  link'[c] = link[c] /\ program' = program
  BY <1>0, <1>1, OwnLinkOnly
<1>2. ASSUME NEW d \in Client, Accept(d)
      PROVE  UNCHANGED <<link, program>>
  BY <1>2 DEF Accept, BlockAccept, ThreadAccept, ListenSocketCB, PollAccept, sockets, clients
<1>3. ASSUME NEW w \in Client, Worker(w)
      PROVE  link'[c] \in {link[c], "pipe"} /\ program' = program
  <2>1. /\ UNCHANGED <<clients, server, overtaken>>
        /\ (Calls(w) /\ UNCHANGED threads) \/ MovesOn(w)
    BY <1>3, WorkerSteps
  <2>2. link' = link \/ \E d : link' = [link EXCEPT ![d] = "pipe"]
    BY <2>1 DEF MovesOn, Calls, Kills, Reads, Writes, WritesWhatFits, WritesInVain,
       WriteVanishes, ReadsEnd, ReadsError, ChildKilled, ServerKilled, sockets
  <2>3. QED
    BY <1>0, <2>1, <2>2 DEF OfClients, clients
<1>4. ASSUME NEW p \in Client \cup {Main}, Acceptor(p)
      PROVE  UNCHANGED <<link, program>>
  BY <1>4 DEF Acceptor, Wakes, NonblockAccept, NonblockAcceptNone, sockets, clients
<1>5. QED
  BY <1>1, <1>2, <1>3, <1>4 DEF Next

\* A worker leaves a clean end alone.
LEMMA WorkersKeepClean ==
  ASSUME Flow, ~overtaken, NEW w \in Client, Worker(w), NEW c \in Client, ClosedClean(c)
  PROVE  ClosedClean(c)'
<1>0. /\ ClientsInv /\ ServersInv /\ WorkersInv /\ OfClients /\ ClientOK(c) /\ Fine(c)
      /\ pos \in [Client -> Places]
  BY DEF Flow, ClientsInv, WorkersInv, ServersInv
<1>1. /\ UNCHANGED <<program, overtaken>>
      /\ (Calls(w) /\ UNCHANGED threads) \/ MovesOn(w)
  BY WorkerSteps DEF clients
<1>2. CASE MovesOn(w)
  BY <1>1, <1>2 DEF MovesOn, ClosedClean, sockets
<1>3. CASE Calls(w)
  <2>1. InCall(w) /\ Conn(w) = w
    <3>1. InCall(w)
      BY <1>3 DEF Calls, Kills, Reads, Writes, WritesWhatFits, WritesInVain, ReadsEnd,
         ReadsError, ChildKilled, BrokenPipe, InCall
    <3>2. QED
      BY <1>0, <3>1, OwnConnection
  <2>2. CASE c # w
    <3>1. /\ up' = up \/ \E u : up' = [up EXCEPT ![w] = u]
          /\ buf' = buf \/ \E b : buf' = [buf EXCEPT ![w] = b]
          /\ link' = link \/ \E l : link' = [link EXCEPT ![w] = l]
      BY <1>3, <2>1 DEF Calls, Kills, Reads, Writes, WritesWhatFits, WritesInVain,
         WriteVanishes, ReadsEnd, ReadsError, ChildKilled, ServerKilled, sockets
    <3>2. up'[c] = up[c] /\ buf'[c] = buf[c] /\ link'[c] = link[c]
      BY <1>0, <2>2, <3>1 DEF OfClients
    <3>3. QED
      BY <1>1, <3>2 DEF ClosedClean
  <2>3. CASE c = w
    <3> SUFFICES ASSUME program[w] = "line", link'[w] # "open"
                 PROVE  link'[w] = "fin" /\ buf'[w] = <<>> /\ up'[w] = <<>>
      BY <1>1, <2>3 DEF ClosedClean
    <3>1. CASE link[w] = "open"
      <4>1. link' = link
        BY <1>3, <2>1, <3>1 DEF Calls, Kills, Reads, Writes, WritesWhatFits, WritesInVain,
           ReadsEnd, ReadsError, ReadFails, ChildKilled, ServerKilled, sockets
      <4>2. QED
        BY <3>1, <4>1
    <3>2. CASE link[w] # "open"
      <4>1. link[w] = "fin" /\ buf[w] = <<>> /\ up[w] = <<>> /\ pos[w] # "write"
        BY <1>0, <2>3, <3>2 DEF ClosedClean, Fine
      <4>2. /\ ~\E k \in 1..Window : Reads(w, k, AfterRead)
            /\ ~Writes(w, AfterWrite) /\ ~WritesWhatFits(w, AfterWrite)
            /\ ~WritesInVain(w, AfterWrite) /\ ~ChildKilled(w) /\ ~Kills(w)
            /\ ~\E next \in AfterEnd : ReadsError(w, next)
        BY <2>1, <4>1 DEF Reads, Writes, WritesWhatFits, WritesInVain, ChildKilled,
           BrokenPipe, Kills, ReadsError, ReadFails
      <4>3. link' = link /\ buf' = buf /\ up' = up
        BY <1>3, <4>2 DEF Calls, ReadsEnd, sockets
      <4>4. QED
        BY <4>1, <4>3
    <3>3. QED
      BY <3>1, <3>2
  <2>4. QED
    BY <2>2, <2>3
<1>4. QED
  BY <1>1, <1>2, <1>3

LEMMA KillInvKeeps == Flow /\ KillInv /\ [Next]_vars => KillInv'
<1> SUFFICES ASSUME Flow, KillInv, [Next]_vars PROVE KillInv'
  OBVIOUS
<1>0. ClientsInv /\ ServersInv /\ WorkersInv
  BY DEF Flow
<1>1. CASE UNCHANGED vars
  BY <1>1 DEF vars, threads, clients, sockets, KillInv, LinesNeverKill, ClosedClean
<1>2. CASE Next
  <2>1. /\ server' = server /\ (overtaken => overtaken')
        /\ \/ ended' = ended
           \/ \E w \in Client : Kills(w)
    <3>1. ASSUME NEW c \in Client, UserStep(c) \/ ClientStep(c)
          PROVE  UNCHANGED <<server, ended, overtaken>>
      BY <3>1 DEF UserStep, ClientStep, threads
    <3>2. ASSUME NEW c \in Client, Accept(c)
          PROVE  server' = server /\ ended' = ended /\ (overtaken => overtaken')
      <4>1. CASE ThreadAccept(c)
        BY <4>1 DEF ThreadAccept
      <4>2. CASE BlockAccept(c) \/ ListenSocketCB(c) \/ PollAccept(c)
        BY <4>2 DEF BlockAccept, ListenSocketCB, PollAccept, threads
      <4>3. QED
        BY <3>2, <4>1, <4>2 DEF Accept
    <3>3. ASSUME NEW w \in Client, Worker(w)
          PROVE  /\ server' = server /\ overtaken' = overtaken
                 /\ ended' = ended \/ Kills(w)
      <4>1. /\ server' = server /\ overtaken' = overtaken
            /\ Calls(w) \/ MovesOn(w)
        BY <3>3, WorkerSteps
      <4>2. ended' = ended \/ Kills(w)
        BY <4>1 DEF MovesOn, Calls, Reads, Writes, WritesWhatFits, WritesInVain, ReadsEnd,
           ReadsError, ChildKilled
      <4>3. QED
        BY <4>1, <4>2
    <3>4. ASSUME NEW p \in Client \cup {Main}, Acceptor(p)
          PROVE  UNCHANGED <<server, ended, overtaken>>
      BY <3>4 DEF Acceptor, Wakes, NonblockAccept, NonblockAcceptNone, threads
    <3>5. QED
      BY <1>2, <3>1, <3>2, <3>3, <3>4 DEF Next
  <2>2. ended' => server' \in {"thread"} \cup Loops
    BY <2>1 DEF KillInv, Kills
  <2>3. LinesNeverKill'
    <3> SUFFICES ASSUME ended', ~overtaken'
                 PROVE  \E c \in Client : program'[c] # "line" /\ link'[c] \in {"reset", "pipe"}
      BY DEF LinesNeverKill
    <3>1. CASE ended
      <4>1. PICK c \in Client : program[c] # "line" /\ link[c] \in {"reset", "pipe"}
        BY <2>1, <3>1 DEF KillInv, LinesNeverKill
      <4>2. link'[c] \in {"reset", "pipe"} /\ program' = program
        BY <1>2, <4>1, ResetStays
      <4>3. QED
        BY <4>1, <4>2
    <3>2. CASE ~ended
      <4>1. PICK w \in Client : Kills(w)
        BY <2>1, <3>2
      <4>2. link[w] \in {"reset", "pipe"}
        BY <1>0, <2>1, <4>1, OwnConnection DEF Kills
      <4>3. program[w] # "line"
        BY <2>1, <3>2, <4>2 DEF KillInv, ClosedClean
      <4>4. link'[w] \in {"reset", "pipe"} /\ program' = program
        BY <1>2, <4>2, ResetStays
      <4>5. QED
        BY <4>3, <4>4
    <3>3. QED
      BY <3>1, <3>2
  <2>4. ASSUME ~overtaken', ~ended', NEW c \in Client
        PROVE  ClosedClean(c)'
    <3>0. ~overtaken /\ ~ended /\ ClosedClean(c)
      <4>1. ended => ended'
        BY <2>1 DEF Kills, ServerKilled
      <4>2. QED
        BY <2>1, <2>4, <4>1 DEF KillInv
    <3>1. ASSUME NEW d \in Client, UserStep(d) \/ ClientStep(d)
          PROVE  ClosedClean(c)'
      <4>1. /\ UNCHANGED <<program, buf>> /\ link[d] = "open"
            /\ \A e \in Client \ {d} : link'[e] = link[e] /\ up'[e] = up[e]
            /\ \/ link' = link
               \/ ClientCloses(d) /\ EndInput(d)
               \/ ClientCloses(d) /\ Close(d, ~ServerOpen(d)) /\ ClientStep(d)
        BY <1>0, <3>1, OwnLinkOnly
      <4>2. CASE c # d
        <5>1. UNCHANGED <<program[c], buf[c], link[c], up[c]>>
          BY <4>1, <4>2
        <5>2. QED
          BY <3>0, <5>1 DEF ClosedClean
      <4>3. CASE c = d /\ link' = link
        BY <4>1, <4>3 DEF ClosedClean
      <4>4. CASE c = d /\ EndInput(d)
        BY <3>0, <4>1, <4>4, EndInputClean DEF ClosedClean
      <4>5. CASE c = d /\ Close(d, ~ServerOpen(d))
        <5>1. ServerOpen(d)
          BY <3>0, <4>1, OpenIsServed
        <5>2. at[d] = "close" /\ ClientOK(d)
          BY <4>5, <5>1 DEF Close, Flow, ClientsInv
        <5>3. program[c] # "line"
          BY <4>5, <5>2 DEF ClientOK
        <5>4. QED
          BY <4>1, <5>3 DEF ClosedClean
      <4>6. QED
        BY <4>1, <4>2, <4>3, <4>4, <4>5
    <3>2. ASSUME NEW d \in Client, Accept(d)
          PROVE  ClosedClean(c)'
      <4>1. UNCHANGED <<program, link, up, buf>>
        BY <3>2 DEF Accept, BlockAccept, ThreadAccept, ListenSocketCB, PollAccept, sockets,
           clients
      <4>2. QED
        BY <3>0, <4>1 DEF ClosedClean
    <3>3. ASSUME NEW w \in Client, Worker(w)
          PROVE  ClosedClean(c)'
      BY <3>0, <3>3, WorkersKeepClean
    <3>4. ASSUME NEW p \in Client \cup {Main}, Acceptor(p)
          PROVE  ClosedClean(c)'
      <4>1. UNCHANGED <<program, link, up, buf>>
        BY <3>4 DEF Acceptor, Wakes, NonblockAccept, NonblockAcceptNone, sockets, clients
      <4>2. QED
        BY <3>0, <4>1 DEF ClosedClean
    <3>5. QED
      BY <1>2, <3>1, <3>2, <3>3, <3>4 DEF Next
  <2>5. QED
    BY <2>2, <2>3, <2>4 DEF KillInv
<1>3. QED
  BY <1>1, <1>2

\* However many clients of echo_client come and go, they never end a server:
\* that takes a client that hangs up on bytes it has not read.
THEOREM LinesKeepServersAlive == Spec => []LinesNeverKill
<1>1. Init => Flow /\ KillInv
  BY InitFlow DEF Init, ClientsInit, KillInv, LinesNeverKill, ClosedClean
<1>2. Flow /\ KillInv /\ [Next]_vars => (Flow /\ KillInv)'
  BY FlowKeeps, KillInvKeeps
<1>3. KillInv => LinesNeverKill
  BY DEF KillInv
<1>4. QED
  BY <1>1, <1>2, <1>3, PTL DEF Spec

-----------------------------------------------------------------------------
(* The strays of echo_server_nonblock.c. *)

Accepted == {c \in Client : pos[c] # "none"}
Beside == Acceptors \ {Main}

\* A stray needs a process that was woken and found the backlog empty again.
\* At most one process for each acceptor is woken, and one of them accepts.
StrayInv ==
  /\ server # "poll" => strays = 0 /\ woken = {}
  /\ strays <= Cardinality(Accepted) * Cardinality(Beside)
  /\ Backlog = {} =>
       strays + Cardinality(woken) <= Cardinality(Accepted) * Cardinality(Beside)

LEMMA Products ==
  /\ \A m, n \in Nat : m * n \in Nat
  /\ \A m, n, m2, n2 \in Nat : m <= m2 /\ n <= n2 => m * n <= m2 * n2
  /\ \A m, n \in Nat : m * n + n = (m + 1) * n
<1>1. \A m, n \in Nat : m * n \in Nat
  OBVIOUS
<1>2. ASSUME NEW m \in Nat, NEW n \in Nat, NEW m2 \in Nat, NEW n2 \in Nat, m <= m2, n <= n2
      PROVE  m * n <= m2 * n2
  <2>1. PICK a \in Nat, b \in Nat : m2 = m + a /\ n2 = n + b
    <3>1. m2 - m \in Nat /\ n2 - n \in Nat /\ m2 = m + (m2 - m) /\ n2 = n + (n2 - n)
      BY <1>2
    <3>2. QED
      BY <3>1
  <2>2. m2 * n2 = m * n + m * b + a * n2
    BY <2>1
  <2>3. m * b \in Nat /\ a * n2 \in Nat /\ m * n \in Nat
    BY <1>1, <1>2, <2>1
  <2>4. QED
    BY <2>2, <2>3
<1>3. \A m, n \in Nat : m * n + n = (m + 1) * n
  OBVIOUS
<1>4. QED
  BY <1>1, <1>2, <1>3

LEMMA Finite ==
  ASSUME NEW S \in SUBSET Client
  PROVE  IsFiniteSet(S) /\ Cardinality(S) \in Nat
BY FS_Subset, FS_CardinalityType, EchoServersAssumption

\* At most one process for each acceptor is woken.
LEMMA WokenFew ==
  ASSUME ServersInv
  PROVE  /\ Accepted \in SUBSET Client /\ Beside \in SUBSET Client
         /\ IsFiniteSet(woken) /\ Cardinality(woken) \in Nat
         /\ Cardinality(woken) <= Cardinality(Beside) + 1
<1>1. Accepted \in SUBSET Client /\ Beside \in SUBSET Client
  BY DEF Accepted, Beside, Acceptors
<1>2. Main \notin Beside /\ IsFiniteSet(Beside) /\ Cardinality(Beside) \in Nat
  BY <1>1, Finite DEF Beside
<1>3. IsFiniteSet(Beside \cup {Main}) /\ Cardinality(Beside \cup {Main}) = Cardinality(Beside) + 1
  BY <1>2, FS_AddElement
<1>4. woken \in SUBSET (Beside \cup {Main})
  BY DEF ServersInv, Beside, Acceptors
<1>5. IsFiniteSet(woken) /\ Cardinality(woken) <= Cardinality(Beside \cup {Main})
  BY <1>3, <1>4, FS_Subset
<1>6. Cardinality(woken) \in Nat
  BY <1>5, FS_CardinalityType
<1>7. QED
  BY <1>1, <1>3, <1>5, <1>6

\* Steps of the others.
LEMMA StraysStay ==
  ASSUME ServersInv, ServersInv', StrayInv, UNCHANGED <<server, woken, strays>>,
         \/ server # "poll"
         \/ /\ Accepted \subseteq Accepted' /\ Beside \subseteq Beside'
            /\ Backlog' = {} => Backlog = {}
  PROVE  StrayInv'
<1>1. PICK A \in SUBSET Client, B \in SUBSET Client : A = Accepted /\ B = Beside
  BY WokenFew
<1>2. PICK A2 \in SUBSET Client, B2 \in SUBSET Client : A2 = Accepted' /\ B2 = Beside'
  BY DEF Accepted, Beside, Acceptors
<1>3. PICK a \in Nat, b \in Nat, a2 \in Nat, b2 \in Nat :
        /\ a = Cardinality(A) /\ b = Cardinality(B)
        /\ a2 = Cardinality(A2) /\ b2 = Cardinality(B2)
  BY <1>1, <1>2, Finite
<1>4. a * b \in Nat /\ a2 * b2 \in Nat
  BY <1>3, Products
<1>5. CASE server # "poll"
  <2>1. strays' = 0 /\ woken' = {}
    BY <1>5 DEF StrayInv
  <2>2. strays' <= a2 * b2 /\ strays' + Cardinality(woken') <= a2 * b2
    BY <1>4, <2>1, FS_EmptySet
  <2>3. QED
    BY <1>2, <1>3, <2>1, <2>2 DEF StrayInv
<1>6. CASE /\ server = "poll" /\ A \subseteq A2 /\ B \subseteq B2
           /\ Backlog' = {} => Backlog = {}
  <2>1. a <= a2 /\ b <= b2
    <3>1. IsFiniteSet(A2) /\ IsFiniteSet(B2) /\ A \in SUBSET A2 /\ B \in SUBSET B2
      BY <1>2, <1>6, Finite
    <3>2. QED
      BY <1>3, <3>1, FS_Subset
  <2>2. a * b <= a2 * b2
    BY <1>3, <2>1, Products
  <2>3. PICK n \in Nat : n = Cardinality(woken)
    BY WokenFew
  <2>4. /\ strays \in Nat /\ strays <= a * b
        /\ Backlog = {} => strays + n <= a * b
    BY <1>1, <1>3, <2>3 DEF StrayInv, ServersInv
  <2>5. /\ strays <= a2 * b2
        /\ Backlog' = {} => strays + n <= a2 * b2
    BY <1>4, <1>6, <2>2, <2>3, <2>4
  <2>6. QED
    BY <1>2, <1>3, <1>6, <2>3, <2>5 DEF StrayInv
<1>7. QED
  BY <1>1, <1>2, <1>5, <1>6

LEMMA AcceptorsKeep ==
  ASSUME ServersInv, StrayInv, NEW p \in Client \cup {Main}, Acceptor(p)
  PROVE  StrayInv'
<1>0. PICK A \in SUBSET Client, B \in SUBSET Client : A = Accepted /\ B = Beside
  BY WokenFew
<1>1. PICK a \in Nat, b \in Nat, n \in Nat :
        a = Cardinality(A) /\ b = Cardinality(B) /\ n = Cardinality(woken) /\ n <= b + 1
  BY <1>0, Finite, WokenFew
<1>2. /\ a * b \in Nat /\ a * b + b = (a + 1) * b
      /\ strays \in Nat /\ strays <= a * b
      /\ Backlog = {} => strays + n <= a * b
  BY <1>0, <1>1, Products DEF StrayInv, ServersInv
<1>3. p \in woken =>
        IsFiniteSet(woken \ {p}) /\ Cardinality(woken \ {p}) = n - 1
  BY <1>1, WokenFew, FS_RemoveElement
<1>4. CASE Wakes(p)
  <2>1. /\ server = "poll" /\ Backlog # {} /\ UNCHANGED <<server, strays, pos, at>>
    BY <1>4 DEF Wakes, clients
  <2>2. Backlog' # {} /\ Accepted' = A /\ Beside' = B
    BY <1>0, <2>1 DEF Backlog, Accepted, Beside, Acceptors
  <2>3. QED
    BY <1>1, <1>2, <2>1, <2>2 DEF StrayInv
<1>5. CASE NonblockAcceptNone(p)
  <2>1. /\ server = "poll" /\ p \in woken /\ Backlog = {} /\ woken' = woken \ {p}
        /\ strays' = strays + 1 /\ UNCHANGED <<server, pos>>
    BY <1>5 DEF NonblockAcceptNone, PolledAgain
  <2>2. Accepted' = A /\ Beside' = B
    BY <1>0, <2>1 DEF Accepted, Beside, Acceptors
  <2>3. strays' + (n - 1) <= a * b /\ strays' <= a * b
    <3>1. n >= 1
      <4>1. n # 0
        BY <1>1, <2>1, WokenFew, FS_EmptySet
      <4>2. QED
        BY <4>1
    <3>2. QED
      BY <1>2, <2>1, <3>1
  <2>4. Cardinality(woken') = n - 1
    BY <1>3, <2>1
  <2>5. QED
    BY <1>1, <2>1, <2>2, <2>3, <2>4 DEF StrayInv
<1>6. ASSUME NEW c \in Client, NonblockAccept(p, c)
      PROVE  StrayInv'
  <2>1. /\ server = "poll" /\ p \in woken /\ woken' = woken \ {p} /\ pos[c] = "none"
        /\ pos' = [pos EXCEPT ![c] = "read"] /\ UNCHANGED <<server, strays>>
    BY <1>6 DEF NonblockAccept, PolledAgain, Goes, Backlog
  <2>2. pos \in [Client -> Places]
    BY DEF ServersInv
  <2>3. Accepted' = A \cup {c} /\ c \notin A /\ Beside' = B
    BY <1>0, <2>1, <2>2 DEF Accepted, Beside, Acceptors
  <2>4. Cardinality(A \cup {c}) = a + 1
    BY <1>0, <1>1, <2>3, Finite, FS_AddElement
  <2>5. strays <= (a + 1) * b /\ strays + (n - 1) <= (a + 1) * b
    <3>1. PICK x \in Nat, y \in Int : x = a * b /\ y = (a + 1) * b
      BY <1>2
    <3>2. x + b = y /\ strays <= x /\ n - 1 <= b
      BY <1>1, <1>2, <3>1
    <3>3. strays <= y /\ strays + (n - 1) <= y
      BY <1>1, <1>2, <3>1, <3>2
    <3>4. QED
      BY <3>1, <3>3
  <2>6. Cardinality(woken') = n - 1
    BY <1>3, <2>1
  <2>7. QED
    BY <1>1, <2>1, <2>3, <2>4, <2>5, <2>6 DEF StrayInv
<1>7. QED
  BY <1>4, <1>5, <1>6 DEF Acceptor

LEMMA StrayInvKeeps == Flow /\ StrayInv /\ [Next]_vars => StrayInv'
<1> SUFFICES ASSUME Flow, StrayInv, [Next]_vars PROVE StrayInv'
  OBVIOUS
<1>0. ClientsInv /\ ServersInv /\ ServersInv' /\ OfClients
  BY FlowKeeps DEF Flow, ClientsInv
<1>1. CASE UNCHANGED vars
  <2>1. UNCHANGED <<server, woken, strays, pos, at>>
    BY <1>1 DEF vars, herd, clients
  <2>2. UNCHANGED <<Accepted, Beside, Backlog>>
    BY <2>1 DEF Accepted, Beside, Acceptors, Backlog
  <2>3. QED
    BY <1>0, <2>1, <2>2, StraysStay
<1>2. ASSUME NEW c \in Client, UserStep(c) \/ ClientStep(c)
      PROVE  StrayInv'
  <2>1. /\ UNCHANGED <<server, woken, strays, pos>>
        /\ at' = [at EXCEPT ![c] = at'[c]] /\ at'[c] # "absent"
    BY <1>0, <1>2, OwnLinkOnly DEF herd
  <2>2. UNCHANGED <<Accepted, Beside>> /\ Backlog \subseteq Backlog'
    BY <1>0, <2>1 DEF Accepted, Beside, Acceptors, Backlog, OfClients
  <2>3. QED
    BY <1>0, <2>1, <2>2, StraysStay
<1>3. ASSUME NEW c \in Client, Accept(c)
      PROVE  StrayInv'
  <2>1. server # "poll" /\ UNCHANGED <<server, woken, strays>>
    BY <1>3 DEF Accept, BlockAccept, ThreadAccept, ListenSocketCB, PollAccept, herd
  <2>2. QED
    BY <1>0, <2>1, StraysStay
<1>4. ASSUME NEW w \in Client, Worker(w)
      PROVE  StrayInv'
  <2>1. UNCHANGED <<server, woken, strays, at>>
    BY <1>4, WorkerSteps DEF herd, clients
  <2>2. /\ pos \in [Client -> Places] /\ pos[w] \notin {"none", "accept"}
        /\ \E next : pos' = [pos EXCEPT ![w] = next] /\ next # "none"
    BY <1>0, <1>4, WorkerGoes DEF ServersInv
  <2>3. Accepted \subseteq Accepted' /\ Beside \subseteq Beside' /\ Backlog' \subseteq Backlog
    BY <2>1, <2>2 DEF Accepted, Beside, Acceptors, Backlog
  <2>4. Backlog \subseteq Backlog'
    BY <2>1, <2>2 DEF Backlog
  <2>5. QED
    BY <1>0, <2>1, <2>3, <2>4, StraysStay
<1>5. ASSUME NEW p \in Client \cup {Main}, Acceptor(p)
      PROVE  StrayInv'
  BY <1>0, <1>5, AcceptorsKeep
<1>6. QED
  BY <1>1, <1>2, <1>3, <1>4, <1>5 DEF Next

\* For any number of connections: the children forked for descriptor -1 are
\* at most as many as the connections times the children that accept beside
\* their parent.
THEOREM StraysStayBounded == Spec => []StraysBounded
<1>1. Init => Flow /\ StrayInv
  <2>1. ASSUME Init PROVE StrayInv
    <3>1. strays = 0 /\ woken = {} /\ ServersInv
      BY <2>1, InitServers DEF Init
    <3>2. Cardinality(Accepted) \in Nat /\ Cardinality(Beside) \in Nat
      BY <3>1, WokenFew, Finite
    <3>3. QED
      BY <3>1, <3>2, Products, FS_EmptySet DEF StrayInv
  <2>2. QED
    BY <2>1, InitFlow
<1>2. Flow /\ StrayInv /\ [Next]_vars => (Flow /\ StrayInv)'
  BY FlowKeeps, StrayInvKeeps
<1>3. StrayInv => StraysBounded
  BY DEF StrayInv, StraysBounded, Accepted, Beside
<1>4. QED
  BY <1>1, <1>2, <1>3, PTL DEF Spec
=============================================================================
