--------------------------- MODULE MCFixedQSweep ----------------------------
(***************************************************************************)
(* Slots up to 4 with bounds of their own at 2 and 3, so one bound is      *)
(* transferred.  The optima lie about the length at which the varints of   *)
(* the section and of the window get a second digit.                       *)
(***************************************************************************)
EXTENDS FixedQSweep, TLC

CONSTANTS t1, t2, w1, w2

MCHeader == [q \in 0..Last |-> IF q = 0 THEN 1 ELSE 5 + q]

MCOptima ==
  {[q \in 0..Last |-> IF q = 0 THEN 24 ELSE IF q < Last THEN middle ELSE last] :
     middle \in {13, 16}, last \in {13, 15}}
  \ {[q \in 0..Last |-> IF q = 0 THEN 24 ELSE IF q < Last THEN 13 ELSE 15]}

MCSweeps ==
  {[qs |-> Direct, boundOnly |-> TRUE, replay |-> FALSE],
   [qs |-> Anchor..Last, boundOnly |-> FALSE, replay |-> TRUE],
   [qs |-> {Last}, boundOnly |-> FALSE, replay |-> FALSE]}

Symmetry == Permutations(Workers) \cup Permutations(Traces)
=============================================================================
