---------------------------- MODULE MCPubSubSystem ----------------------------
(***************************************************************************)
(* PubSubSystem with a few calls by each of two clients.                    *)
(***************************************************************************)
EXTENDS PubSubSystem

CONSTANTS c1, c2, news, utc

MCConn == {c1, c2}
=============================================================================
