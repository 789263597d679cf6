------------------------------ MODULE MCParser ------------------------------
(***************************************************************************)
(* A scaled-down default table with two COPY modes and its pair bank, and  *)
(* every custom table that installs up to MaxSlots of some patterns in it. *)
(* Sizes reach two varint digits; a COPY of mode 3 exists that no entry    *)
(* covers.                                                                 *)
(***************************************************************************)
EXTENDS ParserTables

CONSTANTS MaxCount, MaxSlots

A(size) == [type |-> ADD, size |-> size, mode |-> 0]
R(size) == [type |-> RUN, size |-> size, mode |-> 0]
C(size, mode) == [type |-> COPY, size |-> size, mode |-> mode]

MCAtoms == {A(1), A(5), C(2, 0), C(5, 1), R(4), C(2, 3)}
MCPrograms == BoundedSeq(MCAtoms, MaxCount)
MCOpcodes == TableOpcodes

MCPatterns == {<<A(5)>>, <<C(5, 1)>>, <<A(5), C(2, 0)>>, <<R(4), A(5)>>}

MCTables ==
  {DefaultTable} \cup
  {CustomTable(selected, slots) :
     <<selected, slots>> \in {choice \in (SUBSET MCPatterns) \X (1..MaxSlots) :
                                CanInstall(choice[1], choice[2])}}
=============================================================================
