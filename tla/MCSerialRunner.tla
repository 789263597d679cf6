--------------------------- MODULE MCSerialRunner ---------------------------
(***************************************************************************)
(* A pair of each kind: without candidates (p1), with some that help no    *)
(* table (p2), with some that help no table of one slot (p3), and one that *)
(* every runner can complete (p4), last, so that each of the others can    *)
(* stop the run before it.  One mishap leaves a stray study beside those of*)
(* the reruns that follow.                                                 *)
(***************************************************************************)
EXTENDS SerialRunner

CONSTANTS p1, p2, p3, p4

MCPairs == {p1, p2, p3, p4}
MCOrder == <<p1, p2, p3, p4>>
MCHopeless == {p1, p2}
MCUnimproved == {p1, p2, p3}
=============================================================================
