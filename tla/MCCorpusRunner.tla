--------------------------- MODULE MCCorpusRunner ---------------------------
(***************************************************************************)
(* Two pairs and two threads: enough for every interleaving of two calls   *)
(* of update_state, for a pair that waits behind another in the queue when *)
(* there is a single thread, and for a crash at every step of either.      *)
(***************************************************************************)
EXTENDS CorpusRunner

CONSTANTS p1, p2

MCPairs == {p1, p2}
MCOrder == <<p1, p2>>
=============================================================================
