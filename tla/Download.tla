------------------------------- MODULE Download -------------------------------
(***************************************************************************)
(* src/muduo-based/filetransfer/download3.cc: one connection of the file    *)
(* server.  Connections share the name of the file and nothing else, each   *)
(* has a FILE of its own.  The file is read a buffer at a time, and the     *)
(* callback for an emptied output buffer reads the next one.                *)
(*                                                                          *)
(* Of the bytes only their number matters: the FILE and the output buffer   *)
(* keep the order.  The file does not change while it is sent, and the      *)
(* high-water mark callback only logs.                                      *)
(***************************************************************************)
EXTENDS Integers, MuduoConn

CONSTANTS
  BufSize,  \* kBufSize
  NoFile,   \* the file cannot be opened
  MaxSize   \* bound: the size of the file

ASSUME DownloadAssumption ==
  BufSize \in Nat \ {0} /\ NoFile \notin Nat /\ MaxSize \in Nat

VARIABLES
  conn,     \* state of the connection
  file,     \* the size of the file, or NoFile
  ctx,      \* does its context hold a FILE
  offset,   \* bytes read from it
  taken,    \* bytes the connection has taken to send
  flushed,  \* of these, bytes the kernel has
  queued    \* write-complete callbacks queued in the loop

downloadVars == <<conn, file, ctx, offset, taken, flushed, queued>>

DownloadInit ==
  /\ conn = "accepted"
  /\ file \in {NoFile} \cup 0..MaxSize
  /\ ctx = FALSE
  /\ offset = 0
  /\ taken = 0
  /\ flushed = 0
  /\ queued = 0

-----------------------------------------------------------------------------
Unwritten == taken - flushed

\* fread: fewer bytes than the buffer holds only at the end of the file.
NextRead == IF file - offset < BufSize THEN file - offset ELSE BufSize

\* Is there something to send?  A server that took a short read for the end
\* would leave its bytes out.
FullRead(nread) == nread = BufSize
SomeRead(nread) == nread > 0

\* sendInLoop queues a write-complete callback when nothing of n bytes is
\* left to write, also for none at all.
CompletesSome(n) == IF n > 0 THEN 1 ELSE 0
Completes(n) == 1

\* TcpConnection::send of n bytes with an empty output buffer: the kernel
\* takes some at once.  left is the number of callbacks queued before.
SendBuffer(n, left) ==
  /\ taken' = taken + n
  /\ \E k \in 0..n :
       /\ flushed' = flushed + k
       /\ queued' = IF k = n THEN left + Completes(n) ELSE left

\* onConnection: up.  The first buffer of a file is sent, empty or not.
OnConnectionUp ==
  /\ conn = "accepted"
  /\ \/ /\ file # NoFile
        /\ conn' = "connected"
        /\ ctx' = TRUE
        /\ offset' = NextRead
        /\ SendBuffer(NextRead, queued)
     \/ /\ file = NoFile
        /\ conn' = AfterShutdown("connected")
        /\ UNCHANGED <<ctx, offset, taken, flushed, queued>>
  /\ UNCHANGED file

\* onWriteComplete; the connection may be down by now, and takes nothing.
OnWriteComplete ==
  /\ queued > 0
  /\ offset' = offset + NextRead
  /\ \/ /\ SomeRead(NextRead) /\ Sendable(conn)
        /\ SendBuffer(NextRead, queued - 1)
        /\ UNCHANGED conn
     \/ /\ ~(SomeRead(NextRead) /\ Sendable(conn))
        /\ conn' = IF SomeRead(NextRead) THEN conn ELSE AfterShutdown(conn)
        /\ queued' = queued - 1
        /\ UNCHANGED <<taken, flushed>>
  /\ UNCHANGED <<file, ctx>>

\* The kernel takes k bytes of the output buffer.
WriteOut(k) ==
  /\ Readable(conn)
  /\ k <= Unwritten
  /\ flushed' = flushed + k
  /\ queued' = IF k = Unwritten THEN queued + 1 ELSE queued
  /\ UNCHANGED <<conn, file, ctx, offset, taken>>

\* onConnection: down.
OnConnectionDown ==
  /\ Readable(conn)
  /\ conn' = "disconnected"
  /\ UNCHANGED <<file, ctx, offset, taken, flushed, queued>>

DownloadNext ==
  \/ OnConnectionUp
  \/ OnWriteComplete
  \/ \E k \in 1..BufSize : WriteOut(k)
  \/ OnConnectionDown

\* The loop runs what is queued in it.
DownloadFairness == WF_downloadVars(OnConnectionUp) /\ WF_downloadVars(OnWriteComplete)

DownloadSpec == DownloadInit /\ [][DownloadNext]_downloadVars
FairDownload == DownloadSpec /\ DownloadFairness

-----------------------------------------------------------------------------
DownloadTypeOK ==
  /\ conn \in ConnStates \ {"absent"}
  /\ file \in Nat \cup {NoFile}
  /\ ctx \in BOOLEAN
  /\ offset \in Nat /\ taken \in Nat /\ flushed \in Nat /\ queued \in Nat

\* What a connection that is up has taken is what was read so far, without a
\* gap; and the server shuts a connection down only when the kernel has the
\* whole file, or there is none.
WholeFile ==
  /\ DownloadTypeOK
  /\ conn = "connected" => taken = offset
  /\ conn = "disconnecting" => flushed = IF file = NoFile THEN 0 ELSE file
  /\ flushed <= taken /\ taken <= offset
  /\ offset <= IF file = NoFile THEN 0 ELSE file

\* A connection that is up waits for exactly one thing, either a buffer being
\* written or one callback: the chain of reads neither breaks nor forks.  So
\* no more than one buffer is unsent, below the high-water mark of kBufSize +
\* 1; and a callback always finds the FILE that its any_cast asks for.
OneContinuation ==
  /\ conn = "connected" => queued = IF Unwritten > 0 THEN 0 ELSE 1
  /\ queued <= 1
  /\ Unwritten <= BufSize
  /\ queued > 0 => ctx

\* A download ends, also of an empty or a missing file, if the peer reads what
\* it is sent; and so it does if the peer goes away.
EveryDownloadEnds ==
  []<>(Unwritten = 0 \/ conn = "disconnected")
    => (conn = "accepted" ~> conn \in {"disconnecting", "disconnected"})
=============================================================================
