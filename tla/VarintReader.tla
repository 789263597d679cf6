---------------------------- MODULE VarintReader ----------------------------
(***************************************************************************)
(* The loop of decode_varint, one action per way through its body, over    *)
(* any data and any starting offset.  The other modules read integers in   *)
(* one step with Varint!DecodeVarint; this module shows that step is what  *)
(* the loop computes.  Its names are its own, so that what is proved of it *)
(* can be used where the other modules' states are in scope.               *)
(***************************************************************************)
EXTENDS Varint

CONSTANT Streams   \* the data decode_varint may be called on

ASSUME StreamsAssumption == \A s \in Streams : s \in Seq(Byte)

VARIABLES
  readData,     \* the section being read
  readFrom,     \* the offset the call was given
  readTo,       \* bytes of data consumed
  readValue,    \* the digits accumulated so far
  readStatus    \* "reading", or how the call ended

readVars == <<readData, readFrom, readTo, readValue, readStatus>>

ReadInit ==
  /\ readData \in Streams
  /\ readFrom \in 0..Len(readData)
  /\ readTo = readFrom
  /\ readValue = 0
  /\ readStatus = "reading"

Truncated ==
  /\ readStatus = "reading"
  /\ readTo >= Len(readData)
  /\ readStatus' = "truncated"
  /\ UNCHANGED <<readData, readFrom, readTo, readValue>>

ReadByteLimited ==   \* Slip: the limit is one digit lower
  /\ readStatus = "reading"
  /\ readTo < Len(readData)
  /\ LET byte == readData[readTo + 1]
     IN  /\ readTo' = readTo + 1
         /\ readValue' = readValue * Base + Payload(byte)
         /\ readStatus' = IF ~Continues(byte) THEN "done"
                          ELSE IF readTo' - readFrom >= DigitLimit THEN "oversized"
                          ELSE "reading"
  /\ UNCHANGED <<readData, readFrom>>

ReadByte ==
  /\ readStatus = "reading"
  /\ readTo < Len(readData)
  /\ LET byte == readData[readTo + 1]
     IN  /\ readTo' = readTo + 1
         /\ readValue' = readValue * Base + Payload(byte)
         /\ readStatus' = IF ~Continues(byte) THEN "done"
                          ELSE IF readTo' - readFrom > DigitLimit THEN "oversized"
                          ELSE "reading"
  /\ UNCHANGED <<readData, readFrom>>

ReadNext == Truncated \/ ReadByte

ReadSpec == ReadInit /\ [][ReadNext]_readVars
-----------------------------------------------------------------------------
(* When the loop of decode_varint (varint.py:23-35) ends it has computed   *)
(* what the operator DecodeVarint says, or failed the same way.            *)
LoopMeetsDefinition ==
  readStatus # "reading" =>
    LET result == DecodeVarint(readData, readFrom)
    IN  /\ readStatus = result.status
        /\ readStatus = "done" => readValue = result.value /\ readTo = result.offset

(* Wherever encode_varint (varint.py:4-16) wrote an integer, decode_varint *)
(* ends exactly behind it with that integer, whatever bytes follow.        *)
RoundTrip ==
  \A n \in 0..MaxValue :
    LET size == VarintSize(n)
    IN  /\ readFrom + size <= Len(readData)
        /\ SubSeq(readData, readFrom + 1, readFrom + size) = EncodeVarint(n)
        =>
          /\ readStatus \in {"reading", "done"}
          /\ readStatus = "done" => readValue = n /\ readTo = readFrom + size

(* encode_varint is the shortest spelling decode_varint accepts: padded    *)
(* spellings exist, but none is shorter and none other has the same length.*)
ShortestSpelling ==
  readStatus = "done" =>
    /\ readTo - readFrom >= VarintSize(readValue)
    /\ readTo - readFrom = VarintSize(readValue) =>
         SubSeq(readData, readFrom + 1, readTo) = EncodeVarint(readValue)
=============================================================================
