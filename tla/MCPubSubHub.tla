----------------------------- MODULE MCPubSubHub -----------------------------
(***************************************************************************)
(* PubSubHub with two clients and two topics, one of them utc_time.         *)
(***************************************************************************)
EXTENDS PubSubHub, TLC

CONSTANTS c1, c2, news, utc

MCConn == {c1, c2}
MCTopic == {news, utc}
Clients == Permutations(MCConn)
=============================================================================
