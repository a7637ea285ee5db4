---------------------------- MODULE MCEchoServers -----------------------------
(***************************************************************************)
(* EchoServers with a line client and one of the others.                    *)
(***************************************************************************)
EXTENDS EchoServers, TLC

CONSTANTS c1, c2

\* A line fits into the two windows and the buffer of the server together, a
\* block does not.
MCSize == "line" :> 4 @@ "block" :> 6 @@ "nonblock" :> 2

MCMixes == {c1 :> "line" @@ c2 :> p : p \in {"block", "nonblock"}}
=============================================================================
