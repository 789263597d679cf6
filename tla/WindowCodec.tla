----------------------------- MODULE WindowCodec -----------------------------
(***************************************************************************)
(* One window from trace to patch and back.  The encoder of codec.py       *)
(* (encode_window) writes three sections, data, instructions and           *)
(* addresses; the decoder of decoder.py reads them with three readers, half *)
(* an entry at a time, and keeps address caches that must stay in step     *)
(* with those the encoder had.  The parse is any tiling: Parser says which *)
(* one is chosen, and nothing here depends on it.                          *)
(***************************************************************************)
EXTENDS Replay, SequencesExt

CONSTANTS
  Windows,   \* the window traces to encode
  Tables,    \* code tables, functions from opcodes to entries
  Near,      \* 4 in the code
  Same       \* 3 in the code

Bucket == 2 * Base            \* 256: the addresses a SAME byte tells apart
SameStart == 2 + Near
Modes == 2 + Near + Same

(* What the constructors of Instruction and WindowTrace let pass; lengths  *)
(* are numbers that the header of the window can hold.                     *)
LogicalInstruction ==
  [type : {ADD, RUN, COPY}, size : Nat \ {0}, mode : Nat,
   position : Nat, address : Nat, byte : Byte]

IsTrace(w) ==
  /\ w.source \in Seq(Byte) /\ w.target \in Seq(Byte)
  /\ w.instructions \in Seq(LogicalInstruction)
  /\ IsWindow(w)
  /\ Len(w.source) + Len(w.target) <= MaxValue

ASSUME WindowAssumption ==
  /\ Near \in Nat /\ Same \in Nat
  /\ \A t \in Tables : DOMAIN t \subseteq Nat
  /\ \A w \in Windows : IsTrace(w)

VARIABLES
  window, table,
  phase,        \* "replay", "data", "instructions", "addresses", "decode",
                \* then "done", "rejected" (encoder) or "failed" (decoder)
  index,        \* the encoder's position in the instructions
  data, inst, addr,        \* the three sections
  dataAt, instAt, addrAt,  \* the decoder's readers
  opcode,       \* the entry the decoder is half through, or None
  caches,       \* of the encoder, then afresh of the decoder
  output        \* the decoder's target window

vars == <<window, table, phase, index, data, inst, addr,
          dataAt, instAt, addrAt, opcode, caches, output>>
sections == <<data, inst, addr>>
readers == <<dataAt, instAt, addrAt, opcode, output>>

None == -1

(* The instructions whose bytes the decoder has produced.                  *)
Decoded == Cardinality({i \in 1..Len(window.instructions) :
                          window.instructions[i].position < Len(output)})

Logical == INSTANCE LogicalReplay WITH applied <- Decoded

EmptyCaches ==
  [near |-> [s \in 0..(Near - 1) |-> 0],
   next |-> 0,
   same |-> [s \in 0..(Same * Bucket - 1) |-> 0]]

(* Both sides do this after every COPY; a cache of no slots stays as it is. *)
Remember(c, address) ==
  [near |-> IF Near = 0 THEN c.near ELSE [c.near EXCEPT ![c.next] = address],
   next |-> IF Near = 0 THEN c.next ELSE (c.next + 1) % Near,
   same |-> IF Same = 0 THEN c.same
            ELSE [c.same EXCEPT ![address % (Same * Bucket)] = address]]

Instruction(i) == window.instructions[i]
AtomOf(i) == [type |-> Instruction(i).type, size |-> Instruction(i).size,
              mode |-> Instruction(i).mode]

Init ==
  /\ table \in Tables
  /\ window \in Windows
  /\ phase = "replay"
  /\ index = 1
  /\ data = <<>> /\ inst = <<>> /\ addr = <<>>
  /\ dataAt = 0 /\ instAt = 0 /\ addrAt = 0
  /\ opcode = None
  /\ caches = EmptyCaches
  /\ output = <<>>
-----------------------------------------------------------------------------
(* The encoder.                                                            *)

Replay ==
  /\ phase = "replay"
  /\ phase' = IF Accepts(window) THEN "data" ELSE "rejected"
  /\ UNCHANGED <<window, table, index, sections, readers, caches>>

(* _encode_data_section: an ADD's bytes, a RUN's single byte.              *)
EncodeData ==
  /\ phase = "data"
  /\ data' = FlattenSeq([i \in 1..Len(window.instructions) |->
       LET in == Instruction(i)
       IN  CASE in.type = ADD  -> SubSeq(window.target, in.position + 1,
                                         in.position + in.size)
             [] in.type = RUN  -> <<in.byte>>
             [] in.type = COPY -> <<>>])
  /\ phase' = "instructions"
  /\ UNCHANGED <<window, table, index, inst, addr, readers, caches>>

EncodeToken ==
  /\ phase = "instructions"
  /\ index <= Len(window.instructions)
  /\ \E width \in {1, 2}, op \in DOMAIN table :
       /\ index + width - 1 <= Len(window.instructions)
       /\ LET atoms == [k \in 1..width |-> AtomOf(index + k - 1)]
          IN  /\ EntryMatches(table[op], atoms)
              /\ inst' = inst \o Emission(op, table[op], atoms)
       /\ index' = index + width
  /\ UNCHANGED <<window, table, phase, data, addr, readers, caches>>

TokensComplete ==
  /\ phase = "instructions"
  /\ index > Len(window.instructions)
  /\ phase' = "addresses"
  /\ index' = 1
  /\ UNCHANGED <<window, table, sections, readers, caches>>

(* The slot of the SAME cache that a mode reads for an address.            *)
SameSlot(mode, address) == (mode - SameStart) * Bucket + (address % Bucket)

(* Slip: a miss of the SAME cache is not noticed.                          *)
ExpressibleUnchecked(in) ==
  /\ in.address < Len(window.source) + in.position
  /\ in.mode < Modes
  /\ in.mode \in 2..(SameStart - 1) => in.address >= caches.near[in.mode - 2]

(* The mode of a COPY must be able to express its address.                 *)
Expressible(in) ==
  LET here == Len(window.source) + in.position
  IN  /\ in.address < here
      /\ in.mode < Modes
      /\ in.mode \in 2..(SameStart - 1) =>
           in.address >= caches.near[in.mode - 2]
      /\ in.mode >= SameStart =>
           caches.same[SameSlot(in.mode, in.address)] = in.address

AddressBytes(in) ==
  LET here == Len(window.source) + in.position
  IN  CASE in.mode = 0 -> EncodeVarint(in.address)
        [] in.mode = 1 -> EncodeVarint(here - in.address)
        [] in.mode \in 2..(SameStart - 1) ->
             EncodeVarint(in.address - caches.near[in.mode - 2])
        [] OTHER -> <<in.address % Bucket>>

(* One iteration of the loop of _encode_address_section.                   *)
EncodeAddress ==
  /\ phase = "addresses"
  /\ index <= Len(window.instructions)
  /\ LET in == Instruction(index)
     IN  IF in.type # COPY
         THEN UNCHANGED <<phase, addr, caches>>
         ELSE IF Expressible(in)
         THEN /\ addr' = addr \o AddressBytes(in)
              /\ caches' = Remember(caches, in.address)
              /\ UNCHANGED phase
         ELSE /\ phase' = "rejected"
              /\ UNCHANGED <<addr, caches>>
  /\ index' = index + 1
  /\ UNCHANGED <<window, table, data, inst, readers>>

(* The window is written; the decoder opens it with caches of its own.     *)
OpenWindow ==
  /\ phase = "addresses"
  /\ index > Len(window.instructions)
  /\ phase' = "decode"
  /\ caches' = EmptyCaches
  /\ UNCHANGED <<window, table, index, sections, readers>>
-----------------------------------------------------------------------------
(* The decoder.  What a call of _decode_half leaves behind is a record of  *)
(* the readers' offsets, the caches and the output; Failed where it raises. *)

Failed == [ok |-> FALSE]

Decoder == [ok |-> TRUE, dataAt |-> dataAt, instAt |-> instAt,
            addrAt |-> addrAt, caches |-> caches, output |-> output]

(* _decode_address: the address, and the offset behind its bytes.          *)
DecodeAddress(mode, here) ==
  IF mode < SameStart
  THEN LET read == DecodeVarint(addr, addrAt)
           address == CASE mode = 0 -> read.value
                        [] mode = 1 -> here - read.value
                        [] OTHER -> caches.near[mode - 2] + read.value
       IN  IF read.status # "done" \/ address < 0 THEN Failed
           ELSE [ok |-> TRUE, address |-> address, at |-> read.offset]
  ELSE IF mode - SameStart >= Same \/ addrAt >= Len(addr) THEN Failed
  ELSE [ok |-> TRUE, at |-> addrAt + 1,
        address |-> caches.same[(mode - SameStart) * Bucket + addr[addrAt + 1]]]

(* The size of a half: from the entry, or read behind the opcode.          *)
DecodeSize(size, at) ==
  IF size # 0 THEN [ok |-> TRUE, size |-> size, at |-> at]
  ELSE LET read == DecodeVarint(inst, at)
       IN  IF read.status # "done" \/ read.value = 0 THEN Failed
           ELSE [ok |-> TRUE, size |-> read.value, at |-> read.offset]

AddHalfRereading(size, at) ==   \* Slip: the data reader does not move on
  IF dataAt + size > Len(data) THEN Failed
  ELSE [Decoder EXCEPT !.instAt = at,
          !.output = @ \o SubSeq(data, dataAt + 1, dataAt + size)]

AddHalf(size, at) ==
  IF dataAt + size > Len(data) THEN Failed
  ELSE [Decoder EXCEPT !.instAt = at, !.dataAt = @ + size,
          !.output = @ \o SubSeq(data, dataAt + 1, dataAt + size)]

RunHalf(size, at) ==
  IF dataAt >= Len(data) THEN Failed
  ELSE [Decoder EXCEPT !.instAt = at, !.dataAt = @ + 1,
          !.output = @ \o [i \in 1..size |-> data[dataAt + 1]]]

CopyHalfForgetful(size, mode, at) ==   \* Slip: a SAME hit updates no cache
  LET here == Len(window.source) + Len(output)
      read == DecodeAddress(mode, here)
  IN  IF ~read.ok THEN Failed
      ELSE IF read.address >= here THEN Failed
      ELSE [Decoder EXCEPT !.instAt = at, !.addrAt = read.at,
              !.output = @ \o Copied(window.source, output, read.address, size),
              !.caches = IF mode < SameStart THEN Remember(@, read.address)
                         ELSE @]

CopyHalfUnshifted(size, mode, at) ==   \* Slip: `here` leaves out the source
  LET here == Len(output)
      read == DecodeAddress(mode, here)
  IN  IF ~read.ok THEN Failed
      ELSE IF read.address >= here THEN Failed
      ELSE [Decoder EXCEPT !.instAt = at, !.addrAt = read.at,
              !.output = @ \o Copied(window.source, output, read.address, size),
              !.caches = Remember(@, read.address)]

CopyHalf(size, mode, at) ==
  LET here == Len(window.source) + Len(output)
      read == DecodeAddress(mode, here)
  IN  IF ~read.ok THEN Failed
      ELSE IF read.address >= here THEN Failed
      ELSE [Decoder EXCEPT !.instAt = at, !.addrAt = read.at,
              !.output = @ \o Copied(window.source, output,
                                     read.address, size),
              !.caches = Remember(@, read.address)]

(* _decode_half with the instruction reader at offset `at`.                *)
DecodedHalf(type, size, mode, at) ==
  LET read == DecodeSize(size, at)
  IN  IF type = NOOP THEN [Decoder EXCEPT !.instAt = at]
      ELSE IF ~read.ok THEN Failed
      ELSE CASE type = ADD  -> AddHalf(read.size, read.at)
             [] type = RUN  -> RunHalf(read.size, read.at)
             [] type = COPY -> CopyHalf(read.size, mode, read.at)

DecodeHalf(half, pending) ==
  /\ IF half.ok
     THEN /\ dataAt' = half.dataAt /\ instAt' = half.instAt
          /\ addrAt' = half.addrAt
          /\ caches' = half.caches
          /\ output' = half.output
          /\ opcode' = pending
          /\ UNCHANGED phase
     ELSE /\ phase' = "failed"
          /\ UNCHANGED <<readers, caches>>
  /\ UNCHANGED <<window, table, index, sections>>

DecodeFirstHalf ==
  /\ phase = "decode"
  /\ opcode = None
  /\ instAt < Len(inst)
  /\ LET op == inst[instAt + 1]
         entry == table[op]
     IN  DecodeHalf(DecodedHalf(entry.inst1, entry.size1, entry.mode1,
                                instAt + 1), op)

DecodeSecondHalf ==
  /\ phase = "decode"
  /\ opcode # None
  /\ LET entry == table[opcode]
     IN  DecodeHalf(DecodedHalf(entry.inst2, entry.size2, entry.mode2,
                                instAt), None)

(* The checks of decode_file behind the last instruction.                  *)
CloseWindow ==
  /\ phase = "decode"
  /\ opcode = None
  /\ instAt = Len(inst)
  /\ phase' = IF /\ Len(output) = Len(window.target)
                 /\ dataAt = Len(data)
                 /\ addrAt = Len(addr)
              THEN "done" ELSE "failed"
  /\ UNCHANGED <<window, table, index, sections, readers, caches>>

Next ==
  \/ Replay
  \/ EncodeData
  \/ EncodeToken
  \/ TokensComplete
  \/ EncodeAddress
  \/ OpenWindow
  \/ DecodeFirstHalf
  \/ DecodeSecondHalf
  \/ CloseWindow

Spec == Init /\ [][Next]_vars
-----------------------------------------------------------------------------
(* The address caches after the first n instructions, said without the      *)
(* loop: NEAR slot s holds the address of the last of the COPYs whose       *)
(* ordinal is s modulo Near, SAME slot s that of the last COPY from an      *)
(* address that is s modulo the size of the cache; 0 where there is none.   *)
CopiesAmong(w, n) == {i \in 1..n : w.instructions[i].type = COPY}

LastAddress(w, copies) ==
  IF copies = {} THEN 0
  ELSE w.instructions[CHOOSE i \in copies : \A j \in copies : j <= i].address

CachesOf(w, n) ==
  LET copies == CopiesAmong(w, n)
      ordinal(i) == Cardinality(CopiesAmong(w, i - 1))
      address(i) == w.instructions[i].address
  IN  [near |-> [s \in 0..(Near - 1) |->
                   LastAddress(w, {i \in copies : ordinal(i) % Near = s})],
       next |-> IF Near = 0 THEN 0 ELSE Cardinality(copies) % Near,
       same |-> [s \in 0..(Same * Bucket - 1) |->
                   LastAddress(w, {i \in copies :
                                     address(i) % (Same * Bucket) = s})]]

CachesAfter(n) == CachesOf(window, n)

(* The caches of encoder (codec.py:64-102) and decoder (decoder.py:90-133)  *)
(* agree at every COPY although the one walks instructions and the other    *)
(* halves of entries: each is the same function of the instructions done.   *)
CachesAgree ==
  /\ phase = "addresses" => caches = CachesAfter(index - 1)
  /\ phase = "decode" => caches = CachesAfter(Decoded)

(* The decoder (decoder.py:199-238) accepts every window that the encoder   *)
(* wrote, whatever tiling and address modes it used: no reader runs dry, no *)
(* bytes are left in a section, and the target is the one encoded.          *)
Lossless ==
  /\ phase # "failed"
  /\ phase = "done" => output = window.target

(* The encoder refuses a window for, and only for, a COPY that             *)
(* replay_window does not allow or a COPY whose address its mode cannot     *)
(* express given the COPYs before it (codec.py:78-97, 121-163).             *)
OutOfReach(i) ==
  LET in == Instruction(i)
      before == CachesAfter(i - 1)
  IN  /\ in.type = COPY
      /\ \/ in.mode >= Modes
         \/ /\ in.mode \in 2..(SameStart - 1)
            /\ in.address < before.near[in.mode - 2]
         \/ /\ in.mode \in SameStart..(Modes - 1)
            /\ before.same[SameSlot(in.mode, in.address)] # in.address

RefusalsJustified ==
  /\ phase = "rejected" =>
       ~Accepts(window) \/ \E i \in 1..Len(window.instructions) : OutOfReach(i)
  /\ phase \in {"decode", "done"} =>
       /\ Accepts(window)
       /\ \A i \in 1..Len(window.instructions) : ~OutOfReach(i)

(* The decoder appends to the target one logical instruction at a time, in  *)
(* order, and nothing else: it implements LogicalReplay.                    *)
ImplementsReplay == Logical!Spec
=============================================================================
