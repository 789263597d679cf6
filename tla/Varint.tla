------------------------------- MODULE Varint -------------------------------
(***************************************************************************)
(* The variable-length integers of RFC 3284 as varint.py writes and reads  *)
(* them: big-endian digits, every byte but the last carrying a             *)
(* continuation bit.  The code uses base 128; Base is a parameter so that  *)
(* small instances meet numbers of several digits.                         *)
(***************************************************************************)
EXTENDS Integers, Sequences, FiniteSets

CONSTANTS
  Base,        \* 128 in the code; a byte is below 2 * Base
  DigitLimit   \* 10 in the code: decode_varint gives up past this many bytes

ASSUME VarintAssumption ==
  /\ Base \in Nat \ {0, 1}
  /\ DigitLimit \in Nat
  /\ \A k \in 0..DigitLimit : Base ^ k \in Nat \ {0}
     \* arithmetic that holds for every Base; the prover has no theory of ^

(* More of it: how ^ is defined, for the powers that the code meets.       *)
ASSUME PowerAssumption ==
  /\ Base ^ 0 = 1
  /\ \A k \in 0..DigitLimit : Base ^ (k + 1) = Base ^ k * Base

Byte == 0 .. (2 * Base - 1)

(* The bound on encoded integers: the largest one decode_varint accepts.   *)
(* It is 128^11 - 1 for the code, more than any length or address.         *)
MaxValue == Base ^ (DigitLimit + 1) - 1

VarintSizeBelow(n) ==   \* Slip: > for >=
  1 + Cardinality({k \in 1..DigitLimit : n > Base ^ k})

VarintSizePadded(n) ==   \* Slip: the loop divides once before it looks
  2 + Cardinality({k \in 1..DigitLimit : n >= Base ^ k})

(* The number of digits, hence of bytes, of n <= MaxValue.                 *)
VarintSize(n) == 1 + Cardinality({k \in 1..DigitLimit : n >= Base ^ k})

Digit(n, k) == (n \div (Base ^ k)) % Base

EncodeVarint(n) ==
  LET size == VarintSize(n)
  IN  [i \in 1..size |-> Digit(n, size - i) + (IF i < size THEN Base ELSE 0)]

Continues(byte) == byte >= Base

Payload(byte) == byte % Base

(* The number that a sequence of bytes spells, whatever its length.        *)
Value(bytes) ==
  LET value[k \in 0..Len(bytes)] ==
        IF k = 0 THEN 0 ELSE value[k - 1] * Base + Payload(bytes[k])
  IN  value[Len(bytes)]

(* The offsets just past the bytes, read from offset, that end an integer. *)
Ends(data, offset) ==
  {i \in (offset + 1)..Len(data) :
     /\ ~Continues(data[i])
     /\ \A j \in (offset + 1)..(i - 1) : Continues(data[j])
     /\ i - offset <= DigitLimit + 1}

(* decode_varint as a function of the data and the offset it starts from.  *)
DecodeVarint(data, offset) ==
  IF Ends(data, offset) = {}
  THEN [status |-> IF Len(data) - offset > DigitLimit
                   THEN "oversized" ELSE "truncated",
        value  |-> 0,
        offset |-> offset]
  ELSE LET end == CHOOSE i \in Ends(data, offset) : TRUE
       IN  [status |-> "done",
            value  |-> Value(SubSeq(data, offset + 1, end)),
            offset |-> end]
=============================================================================
