--------------------------- MODULE MCIntegerDual ----------------------------
(***************************************************************************)
(* Two instructions, alike or not, with the scaled-down table of           *)
(* MCGlobalSelection, in words of 8 bits.  Multipliers of 1 and 2 prove    *)
(* bounds; larger ones are for the guard.                                  *)
(***************************************************************************)
EXTENDS IntegerDual

A(size) == [type |-> ADD, size |-> size, mode |-> 0]
C(size, mode) == [type |-> COPY, size |-> size, mode |-> mode]

MCProblems ==
  {[window |-> w, slots |-> q] :
     w \in {<<A(3), A(3)>>, <<A(1), C(2, 0)>>}, q \in {1, 2}}

MCDenominators == <<1, 2>>
MCEqMultipliers == {-1, 0, 1, 2}
MCUbMultipliers == {-70, -1, 0, 1}
MCLeast == {-128, 0}
=============================================================================
