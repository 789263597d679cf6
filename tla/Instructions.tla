---------------------------- MODULE Instructions ----------------------------
(***************************************************************************)
(* The data of model.py: logical instructions without their payload        *)
(* (atoms), the exact patterns a table may install, and the code-table     *)
(* entries with what parser.py charges for using one.                      *)
(***************************************************************************)
EXTENDS Varint

NOOP == 0
ADD  == 1
RUN  == 2
COPY == 3

ModeIsLegal(type, mode) == type # COPY => mode = 0

Atom ==
  {a \in [type : {ADD, RUN, COPY}, size : Nat \ {0}, mode : Nat] :
     ModeIsLegal(a.type, a.mode)}

(* Implicit sizes are single bytes of the table; 0 means that the size     *)
(* follows the opcode in the instruction section.                          *)
CodeEntry ==
  {e \in [inst1 : {ADD, RUN, COPY}, size1 : Byte, mode1 : Byte,
          inst2 : {NOOP, ADD, RUN, COPY}, size2 : Byte, mode2 : Byte] :
     /\ ModeIsLegal(e.inst1, e.mode1)
     /\ ModeIsLegal(e.inst2, e.mode2)
     /\ e.inst2 = NOOP => e.size2 = 0}

Single(type, size, mode) ==
  [inst1 |-> type, size1 |-> size, mode1 |-> mode,
   inst2 |-> NOOP, size2 |-> 0, mode2 |-> 0]

Pair(type1, size1, mode1, type2, size2, mode2) ==
  [inst1 |-> type1, size1 |-> size1, mode1 |-> mode1,
   inst2 |-> type2, size2 |-> size2, mode2 |-> mode2]

Width(entry) == IF entry.inst2 = NOOP THEN 1 ELSE 2

(* A pattern is one atom or two, each with a size that a table byte holds. *)
FromPattern(p) ==
  IF Len(p) = 1
  THEN Single(p[1].type, p[1].size, p[1].mode)
  ELSE Pair(p[1].type, p[1].size, p[1].mode, p[2].type, p[2].size, p[2].mode)
-----------------------------------------------------------------------------
HalfMatchesExactly(inst, size, mode, atom) ==   \* Slip: no explicit sizes
  inst = atom.type /\ mode = atom.mode /\ size = atom.size

HalfMatches(inst, size, mode, atom) ==
  inst = atom.type /\ mode = atom.mode /\ size \in {0, atom.size}

HalfCost(size, atom) == IF size = atom.size THEN 0 ELSE VarintSize(atom.size)

EntryMatches(entry, atoms) ==
  /\ Len(atoms) = Width(entry)
  /\ HalfMatches(entry.inst1, entry.size1, entry.mode1, atoms[1])
  /\ Len(atoms) = 2 =>
       HalfMatches(entry.inst2, entry.size2, entry.mode2, atoms[2])

(* The bytes of the instruction section an entry that matches takes.       *)
EntryCost(entry, atoms) ==
  1 + HalfCost(entry.size1, atoms[1])
    + (IF Len(atoms) = 2 THEN HalfCost(entry.size2, atoms[2]) ELSE 0)

EmissionExplicit(opcode, entry, atoms) ==   \* Slip: implicit sizes are spelled
  <<opcode>> \o EncodeVarint(atoms[1].size)
    \o (IF entry.inst2 # NOOP THEN EncodeVarint(atoms[2].size) ELSE <<>>)

(* The bytes themselves: the opcode, then the sizes the entry leaves open. *)
Emission(opcode, entry, atoms) ==
  <<opcode>>
    \o (IF entry.size1 = 0 THEN EncodeVarint(atoms[1].size) ELSE <<>>)
    \o (IF entry.inst2 # NOOP /\ entry.size2 = 0
        THEN EncodeVarint(atoms[2].size) ELSE <<>>)
=============================================================================
