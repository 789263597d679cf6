------------------------- MODULE MCGlobalSelection --------------------------
(***************************************************************************)
(* Base 2, so that three digits and a byte of implicit size are soon past. *)
(* ADD 1, COPY 2 of either mode and two pairs of each kind are in the      *)
(* default table; ADD 3 and RUN 2 are not; no pattern holds a COPY of 5.   *)
(***************************************************************************)
EXTENDS GlobalSelection

CONSTANT MaxCount

A(size) == [type |-> ADD, size |-> size, mode |-> 0]
C(size, mode) == [type |-> COPY, size |-> size, mode |-> mode]

MCAtoms == {A(1), A(3), C(2, 0), C(2, 1), C(5, 0)}
(* Some windows are longer, for two pairs in a row.                        *)
MCWindows ==
  (BoundedSeq(MCAtoms, MaxCount) \ {<<>>})
    \cup [1..(MaxCount + 1) -> {A(1), C(2, 0)}] \cup [1..(MaxCount + 1) -> {A(3), C(2, 0)}]

(* A header that grows with the slots, and one that does not.              *)
MCHeaderLengths ==
  {[q \in Slots |-> IF q = 0 THEN 1 ELSE 2 + q], [q \in Slots |-> 1]}
=============================================================================
