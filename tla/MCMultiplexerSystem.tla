------------------------- MODULE MCMultiplexerSystem -------------------------
(***************************************************************************)
(* An instance of MultiplexerSystem for TLC: three interchangeable clients  *)
(* for two ids, so that one is turned away and a freed id is leased again   *)
(* while the backend's answers are still on their way.                      *)
(***************************************************************************)
EXTENDS MultiplexerSystem, TLC

CONSTANTS c1, c2, c3

MCConn == {c1, c2, c3}
Clients == Permutations(MCConn)
=============================================================================
