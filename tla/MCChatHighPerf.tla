---------------------------- MODULE MCChatHighPerf ----------------------------
(***************************************************************************)
(* ChatHighPerf on two loops: a talker on each, a listener on the first.    *)
(***************************************************************************)
EXTENDS ChatHighPerf, TLC

CONSTANTS c1, c2, c3, l1, l2

MCConn3 == {c1, c2, c3}
MCLoop2 == {l1, l2}
TwoLoops == (c1 :> l1) @@ (c2 :> l1) @@ (c3 :> l2)
OneMore == (c1 :> 2) @@ (c2 :> 0) @@ (c3 :> 1)
=============================================================================
