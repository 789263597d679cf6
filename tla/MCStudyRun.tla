----------------------------- MODULE MCStudyRun -----------------------------
(***************************************************************************)
(* Two versions of the inputs, of which one has nothing to gain from a     *)
(* table, and a faithful, a second faithful and an unfaithful tracer, the  *)
(* second with a trace that the first slot cannot improve; two studies that*)
(* may overlap, three in all, so that one can find what two that overlapped*)
(* have left.                                                              *)
(***************************************************************************)
EXTENDS StudyRun, TLC

CONSTANTS i1, i2, t1, t2, t3, s1, s2

MCStudies == {s1, s2}
MCUnimproved == {[inputs |-> i1, tracer |-> t3]}
Symmetry == Permutations(MCStudies)
=============================================================================
