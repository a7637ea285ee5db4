---------------------------- MODULE MCChatThreaded ----------------------------
(***************************************************************************)
(* ChatThreaded on three loops: a talker on each of two, two listeners that *)
(* only read on the third.                                                  *)
(***************************************************************************)
EXTENDS ChatThreaded, TLC

CONSTANTS c1, c2, c3, c4, l1, l2, l3

MCConn == {c1, c2, c3, c4}
MCLoop == {l1, l2, l3}
MCLoopOf == (c1 :> l1) @@ (c2 :> l3) @@ (c3 :> l2) @@ (c4 :> l3)
OneEach == (c1 :> 1) @@ (c2 :> 0) @@ (c3 :> 1) @@ (c4 :> 0)
Listeners == Permutations({c2, c4})
=============================================================================
