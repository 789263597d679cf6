---------------------------- MODULE MCWindowCodec ----------------------------
(***************************************************************************)
(* Every window of at most MaxInstructions instructions over a source of   *)
(* two bytes or of none: COPYs from any address up to the end of the       *)
(* output, by any mode, ADDs of one byte and of two, and a RUN.  A window  *)
(* that replay_window refuses is kept, and not extended.  The tables are a *)
(* scaled-down default table and one whose pair bank holds pairs that the  *)
(* default table never has.                                                *)
(***************************************************************************)
EXTENDS WindowCodec

CONSTANTS AddTo, CopyFrom, CopyTo, PairAddTo, PairCopyTo,
          MaxInstructions, CopySizes, MaxAddress

T == INSTANCE CodeTable

Here(w) == Len(w.source) + Len(w.target)

Step(type, size, mode, address, byte, bytes) ==
  [type |-> type, size |-> size, mode |-> mode,
   address |-> address, byte |-> byte, bytes |-> bytes]

(* The bytes of a COPY depend on the window it extends.                    *)
Steps ==
  {Step(ADD, Len(b), 0, 0, 0, b) : b \in {<<0>>, <<1, 0>>}}
    \cup {Step(RUN, 2, 0, 0, 1, <<1, 1>>)}
    \cup {Step(COPY, size, mode, address, 0, <<>>) :
            <<size, mode, address>> \in
               CopySizes \X (0..(Modes - 1)) \X (0..MaxAddress)}

Bytes(w, s) ==
  IF s.type # COPY THEN s.bytes
  ELSE IF s.address < Here(w) THEN Copied(w.source, w.target, s.address, s.size)
  ELSE [i \in 1..s.size |-> 0]

Extended(w, s) ==
  [source |-> w.source,
   target |-> w.target \o Bytes(w, s),
   instructions |-> Append(w.instructions,
     [type |-> s.type, size |-> s.size, mode |-> s.mode,
      position |-> Len(w.target), address |-> s.address, byte |-> s.byte])]

EmptyWindows ==
  {[source |-> s, target |-> <<>>, instructions |-> <<>>] : s \in {<<>>, <<0, 1>>}}

WindowsOfLength ==
  LET all[n \in 0..MaxInstructions] ==
        IF n = 0 THEN EmptyWindows
        ELSE LET accepted == {w \in all[n - 1] : Accepts(w)}
             IN  {Extended(p[1], p[2]) :
                    p \in {q \in accepted \X Steps : q[2].address <= Here(q[1])}}
  IN  all

MCWindows ==
  LET all == WindowsOfLength
      upTo[n \in 0..MaxInstructions] ==
        IF n = 0 THEN all[0] ELSE upTo[n - 1] \cup all[n]
  IN  upTo[MaxInstructions]

CopyOf(size, mode) == [type |-> COPY, size |-> size, mode |-> mode]
AddOf(size) == [type |-> ADD, size |-> size, mode |-> 0]
RunOf(size) == [type |-> RUN, size |-> size, mode |-> 0]

(* Of the pair bank's ten entries the custom table replaces four, and      *)
(* leaves an ADD and a SAME COPY, and a COPY of every mode and an ADD.      *)
MCTables ==
  {T!DefaultTable,
   T!CustomTable({<<CopyOf(2, 0), CopyOf(2, 2)>>, <<AddOf(1), AddOf(2)>>,
                  <<RunOf(2), CopyOf(2, 4)>>, <<CopyOf(2, 1), RunOf(2)>>}, 4)}
=============================================================================
