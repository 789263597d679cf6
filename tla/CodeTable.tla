----------------------------- MODULE CodeTable ------------------------------
(***************************************************************************)
(* The code tables of default_table.py and codec.build_custom_table.  The  *)
(* shape of RFC 3284's default table is kept and its extents are           *)
(* parameters; with the extents of the code it has exactly 256 entries.    *)
(***************************************************************************)
EXTENDS Instructions, SequencesExt

CONSTANTS
  Near,          \* DEFAULT_NEAR, 4 in the code
  Same,          \* DEFAULT_SAME, 3 in the code
  AddTo,         \* the largest implicit ADD size, 17 in the code
  CopyFrom,      \* the smallest implicit COPY size, 4 in the code
  CopyTo,        \* the largest implicit COPY size, 18 in the code
  PairAddTo,     \* the largest ADD size of a pair, 4 in the code
  PairCopyTo     \* the largest COPY size of a cheap-mode pair, 6 in the code

Modes == 2 + Near + Same

(* Every field of an entry is a byte, and only generic entries leave a     *)
(* size open.                                                              *)
ASSUME TableAssumption ==
  /\ {Near, Same, AddTo, CopyTo} \subseteq Nat
  /\ {PairAddTo, PairCopyTo, Modes} \subseteq Byte
  /\ CopyFrom \in Byte \ {0}

Rows(from, to, Row(_)) == [i \in 1..(to - from + 1) |-> Row(from + i - 1)]

Singles ==
  LET Add(size) == Single(ADD, size, 0)
      Copies(mode) ==
        LET Copy(size) == Single(COPY, size, mode)
        IN  <<Copy(0)>> \o Rows(CopyFrom, CopyTo, Copy)
  IN  <<Single(RUN, 0, 0)>> \o Rows(0, AddTo, Add)
        \o FlattenSeq(Rows(0, Modes - 1, Copies))

(* ADD then COPY for the modes with an explicit address (up to size        *)
(* PairCopyTo) and for the SAME modes (one size), then COPY and ADD 1.     *)
Pairs ==
  LET AddCopies(mode, copyTo) ==
        LET ForAdd(add) ==
              LET Entry(size) == Pair(ADD, add, 0, COPY, size, mode)
              IN  Rows(CopyFrom, copyTo, Entry)
        IN  FlattenSeq(Rows(1, PairAddTo, ForAdd))
      Explicit(mode) == AddCopies(mode, PairCopyTo)
      Cached(mode)   == AddCopies(mode, CopyFrom)
      CopyAdd(mode)  == Pair(COPY, CopyFrom, mode, ADD, 1, 0)
  IN  FlattenSeq(Rows(0, 1 + Near, Explicit))
        \o FlattenSeq(Rows(2 + Near, Modes - 1, Cached))
        \o Rows(0, Modes - 1, CopyAdd)

PairBankStart == Len(Singles)          \* 163 in the code
PairBankCapacity == Len(Pairs)         \* 93 in the code
TableSize == PairBankStart + PairBankCapacity
TableOpcodes == 0..(TableSize - 1)

DefaultTable ==
  LET entries == Singles \o Pairs
  IN  [op \in TableOpcodes |-> entries[op + 1]]

(* validate_table with the largest COPY mode the caches provide.           *)
IsValidTable(table) ==
  LET generic == {<<table[op].inst1, table[op].mode1>> :
                    op \in {o \in TableOpcodes : /\ table[o].size1 = 0
                                                 /\ table[o].inst2 = NOOP}}
  IN  /\ \A op \in TableOpcodes :
           table[op].mode1 < Modes /\ table[op].mode2 < Modes
      /\ {<<RUN, 0>>, <<ADD, 0>>} \cup ({COPY} \X (0..(Modes - 1)))
           \subseteq generic

(* Patterns in the order of sorted(): atom by atom on type, size and mode. *)
AtomLess(a, b) ==
  \/ a.type < b.type
  \/ a.type = b.type /\ a.size < b.size
  \/ a.type = b.type /\ a.size = b.size /\ a.mode < b.mode

PatternLess(p, q) ==
  \/ IsStrictPrefix(p, q)
  \/ \E i \in DOMAIN p \cap DOMAIN q :
       AtomLess(p[i], q[i]) /\ \A j \in 1..(i - 1) : p[j] = q[j]

(* The k-th of some patterns in this order.                                *)
Place(p, patterns) == 1 + Cardinality({r \in patterns : PatternLess(r, p)})

InPlace(k, patterns) == CHOOSE p \in patterns : Place(p, patterns) = k

(* build_custom_table: the selection, padded with copies of its first      *)
(* entry, over the first `slots` opcodes of the pair bank.                 *)
CanInstall(selected, slots) ==
  /\ slots \in 1..PairBankCapacity
  /\ Cardinality(selected) \in 1..slots

CustomTable(selected, slots) ==
  LET slot(op) == op - PairBankStart + 1
  IN  [op \in TableOpcodes |->
         IF op < PairBankStart \/ slot(op) > slots THEN DefaultTable[op]
         ELSE IF slot(op) <= Cardinality(selected)
              THEN FromPattern(InPlace(slot(op), selected))
              ELSE FromPattern(InPlace(1, selected))]
=============================================================================
