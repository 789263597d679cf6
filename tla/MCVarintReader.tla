--------------------------- MODULE MCVarintReader ---------------------------
(* All byte strings of at most MaxLength bytes.                            *)
EXTENDS VarintReader, SequencesExt

CONSTANT MaxLength

MCStreams == BoundedSeq(Byte, MaxLength)
=============================================================================
