----------------------------- MODULE TableDelta -----------------------------
(***************************************************************************)
(* The code table that a file carries: the bytes of table_to_bytes, sent as*)
(* a delta against those of the default table.  The instructions of the    *)
(* delta, hence its length, depend on the number of slots alone, and the   *)
(* optimizer counts it as a constant of that number.                       *)
(***************************************************************************)
EXTENDS CodeTable, Replay

Fields == 0..5

(* Field by field, each for every opcode.                                  *)
TableBytes(table) ==
  LET fields(e) == <<e.inst1, e.inst2, e.size1, e.size2, e.mode1, e.mode2>>
  IN  [i \in 1..(6 * TableSize) |->
         fields(table[(i - 1) % TableSize])[(i - 1) \div TableSize + 1]]

Bank(slots) == PairBankStart..(PairBankStart + slots - 1)

(* Only the bytes of the first opcodes of the pair bank may be new.        *)
IsCanonical(bytes, slots) ==
  \A field \in Fields, op \in TableOpcodes \ Bank(slots) :
    LET i == field * TableSize + op + 1
    IN  bytes[i] = TableBytes(DefaultTable)[i]

(* append_copy and append_add: the next instruction starts where the last  *)
(* one ended, and nothing is copied for a size of 0.                       *)
AppendPiece(delta, type, size, address) ==
  [instructions |-> Append(delta.instructions,
     [type |-> type, size |-> size, address |-> address,
      position |-> delta.position]),
   position |-> delta.position + size]

AppendCopy(delta, size, address) ==
  IF size = 0 THEN delta ELSE AppendPiece(delta, COPY, size, address)

AppendAdd(delta, size) == AppendPiece(delta, ADD, size, 0)

(* A COPY up to the bank.                                                  *)
DeltaStart == AppendCopy([instructions |-> <<>>, position |-> 0], PairBankStart, 0)

AppendFieldOfFirst(delta, field, slots) ==   \* Slip: COPYs of the first field
  AppendCopy(AppendAdd(delta, slots),
             IF field < 5 THEN TableSize - slots
             ELSE TableSize - PairBankStart - slots,
             PairBankStart + slots)

(* A field's part of the bank, and a COPY up to that of the next.          *)
AppendField(delta, field, slots) ==
  AppendCopy(AppendAdd(delta, slots),
             IF field < 5 THEN TableSize - slots
             ELSE TableSize - PairBankStart - slots,
             field * TableSize + PairBankStart + slots)

Delta(slots) ==
  LET delta[n \in 0..6] ==
        IF n = 0 THEN DeltaStart ELSE AppendField(delta[n - 1], n - 1, slots)
  IN  delta[6].instructions

(* The window that encode_table_delta encodes, against the default table.  *)
DeltaWindow(table, slots) ==
  [source |-> TableBytes(DefaultTable), target |-> TableBytes(table),
   instructions |-> Delta(slots)]
=============================================================================
