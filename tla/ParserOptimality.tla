-------------------------- MODULE ParserOptimality --------------------------
(***************************************************************************)
(* The promise of parser.py: no legal tiling of a window's instructions by *)
(* entries of the table takes fewer bytes than the section that            *)
(* encode_instruction_section wrote.  Beside the parser runs a rival that, *)
(* once the section is written, tiles the same instructions with the same  *)
(* table by any matching entries it likes and counts the bytes.            *)
(***************************************************************************)
EXTENDS Parser

VARIABLES
  rivalPosition,  \* the instructions the rival has covered
  rivalCost       \* the bytes it has spent on them

allVars == <<vars, rivalPosition, rivalCost>>

RivalInit ==
  /\ Init
  /\ rivalPosition = 0
  /\ rivalCost = 0

ParserStep ==
  /\ Next
  /\ UNCHANGED <<rivalPosition, rivalCost>>

RivalStep ==
  /\ phase = "done"
  /\ \E width \in {1, 2} :
       /\ rivalPosition + width <= Count
       /\ \E op \in Codable(rivalPosition, width) :
            rivalCost' = rivalCost + Cost(op, rivalPosition, width)
       /\ rivalPosition' = rivalPosition + width
  /\ UNCHANGED vars

RivalNext == ParserStep \/ RivalStep

RivalSpec == RivalInit /\ [][RivalNext]_allVars
-----------------------------------------------------------------------------
Phases ==
  {"cost", "walk", "emit", "done", "unencodable", "bad_token", "uncovered", "drift"}

Token ==
  [start : 0..(Count - 1), width : {1, 2}, opcode : Opcodes, cost : Nat]

TypeOK ==
  /\ atoms \in Seq(Atom)
  /\ table \in [Opcodes -> CodeEntry]
  /\ phase \in Phases
  /\ start \in -1..(Count - 1)
  /\ costs \in [0..Count -> Nat \cup {Infinite}]
  /\ choices \in [0..(Count - 1) -> Token \cup {NoToken}]
  /\ position \in 0..Count
  /\ tokens \in Seq(Token)
  /\ emitted \in 0..Len(tokens)
  /\ output \in Seq(Byte \cup Opcodes)
  /\ rivalPosition \in 0..Count
  /\ rivalCost \in Nat

(* A rival that has tiled all the instructions (any parse that              *)
(* encode_instruction_section would accept) has spent at least the bytes    *)
(* of the section the parser wrote: optimal_parse (parser.py:71-109) is     *)
(* optimal over every tiling by singles and pairs, ties and all.            *)
Optimal ==
  phase = "done" /\ rivalPosition = Count => rivalCost >= Len(output)

(* The checks of encode_instruction_section (parser.py:122-141) never fire  *)
(* on a parse that optimal_parse returned: the tokens are contiguous and    *)
(* cover, and the bytes they spell are as many as the parse charged.        *)
SectionMatchesParse ==
  phase \notin {"bad_token", "uncovered", "drift"}
-----------------------------------------------------------------------------
(***************************************************************************)
(* The inductive invariant of the proof.  Bellman's equation holds for the *)
(* suffixes the backward loop has passed; the tokens are its choices, end  *)
(* to end; the bytes spelled and the cheapest bytes for the rest make up   *)
(* the cost of the whole; and no step of the rival gains on that cost.     *)
(***************************************************************************)
SoundChoice(i) ==
  LET choice == choices[i]
  IN  /\ choice \in Token
      /\ choice.start = i
      /\ i + choice.width <= Count
      /\ choice.opcode \in Codable(i, choice.width)
      /\ choice.cost = Cost(choice.opcode, i, choice.width)
      /\ costs[i] = Total(choice)

CheapestSuffix(i) ==
  \A width \in {1, 2} :
    i + width <= Count =>
      \A op \in Codable(i, width) :
        costs[i] <= Cost(op, i, width) + costs[i + width]

DynamicProgramme ==
  /\ costs[Count] = 0
  /\ \A i \in (start + 1)..(Count - 1) :
       costs[i] \in Nat /\ SoundChoice(i) /\ CheapestSuffix(i)
  /\ phase \notin {"cost", "unencodable"} => start = -1

End(k) == IF k = 0 THEN 0 ELSE tokens[k].start + tokens[k].width

Contiguous ==
  /\ \A k \in 1..Len(tokens) :
       /\ tokens[k].start = End(k - 1)
       /\ tokens[k] = choices[tokens[k].start]
  /\ phase \in {"cost", "unencodable"} => tokens = <<>> /\ position = 0
  /\ phase = "walk" => position = End(Len(tokens))
  /\ phase \in {"emit", "done"} =>
       End(Len(tokens)) = Count /\ position = End(emitted)

Spelled ==
  /\ phase \in {"cost", "walk", "unencodable"} => emitted = 0 /\ output = <<>>
  /\ phase \in {"emit", "done"} => Len(output) + costs[position] = costs[0]
  /\ phase = "done" => position = Count

RivalBound ==
  /\ phase # "done" => rivalPosition = 0 /\ rivalCost = 0
  /\ phase = "done" => costs[0] <= rivalCost + costs[rivalPosition]

IInv ==
  /\ TypeOK
  /\ SectionMatchesParse
  /\ DynamicProgramme
  /\ Contiguous
  /\ Spelled
  /\ RivalBound
=============================================================================
