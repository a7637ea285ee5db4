-------------------------- MODULE MCMultiplexerMulti -------------------------
(***************************************************************************)
(* Instances of MultiplexerMulti for TLC: three clients over two IO loops,  *)
(* so that two clients share a loop and a third runs beside them.  One      *)
(* client sends three packets, so that the header of the third may find no  *)
(* room, one a single packet, the third none.                               *)
(***************************************************************************)
EXTENDS MultiplexerMulti

CONSTANTS c1, c2, c3, l1, l2

MCConn == {c1, c2, c3}
MCLoop == {l1, l2}
MCLoopOf == [c \in MCConn |-> IF c = c2 THEN l2 ELSE l1]
MCMaxTaken ==
  [c \in MCConn |-> CASE c = c1 -> 3 [] c = c2 -> 1 [] c = c3 -> 0]
MCNoPackets == [c \in MCConn |-> 0]
=============================================================================
