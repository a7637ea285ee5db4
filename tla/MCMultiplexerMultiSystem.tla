---------------------- MODULE MCMultiplexerMultiSystem -----------------------
(***************************************************************************)
(* An instance of MultiplexerMultiSystem for TLC: as for MultiplexerMulti,  *)
(* three clients over two IO loops share two ids; two of the clients send a *)
(* packet each, and the backend answers both and sends a command.           *)
(***************************************************************************)
EXTENDS MultiplexerMultiSystem

CONSTANTS c1, c2, c3, l1, l2

MCConn == {c1, c2, c3}
MCLoop == {l1, l2}
MCLoopOf == [c \in MCConn |-> IF c = c2 THEN l2 ELSE l1]
MCMaxTaken == [c \in MCConn |-> IF c = c3 THEN 0 ELSE 1]
=============================================================================
