------------------------------- MODULE Parser -------------------------------
(***************************************************************************)
(* parser.py: the dynamic programme of optimal_parse, which runs backwards *)
(* over the instructions of a window, the walk that reads its choices      *)
(* forwards into tokens, and encode_instruction_section, which spells the  *)
(* tokens as bytes and re-checks them.                                     *)
(***************************************************************************)
EXTENDS Instructions

CONSTANTS
  Opcodes,   \* 0..255 in the code
  Programs,  \* the instruction sequences to parse, as sequences of atoms
  Tables     \* the code tables to parse them with

ASSUME ParserAssumption ==
  /\ Opcodes \subseteq Nat
  /\ \A p \in Programs : p \in Seq(Atom)
  /\ \A t \in Tables : t \in [Opcodes -> CodeEntry]

Infinite == -1   \* math.inf, the cost of a suffix not reached yet
NoToken == [start |-> 0, width |-> 0, opcode |-> 0, cost |-> 0]

VARIABLES
  atoms,     \* the instructions of the window
  table,     \* the code table
  phase,     \* "cost", "walk", "emit", then "done" or how the call failed
  start,     \* optimal_parse: the instruction the backward loop is at
  costs,     \* optimal_parse: the cheapest bytes for each suffix
  choices,   \* optimal_parse: the token that suffix begins with
  position,  \* the instruction the forward walk, or the emission, is at
  tokens,    \* the parse so far
  emitted,   \* encode_instruction_section: tokens spelled so far
  output     \* encode_instruction_section: the bytes of the section

vars == <<atoms, table, phase, start, costs, choices,
          position, tokens, emitted, output>>

Count == Len(atoms)

Window(first, width) == SubSeq(atoms, first + 1, first + width)

Codable(first, width) ==
  {op \in Opcodes : EntryMatches(table[op], Window(first, width))}

Cost(op, first, width) == EntryCost(table[op], Window(first, width))

(* Slip: the first entry of the table that matches.                        *)
IsFirstEntry(op, first, width) ==
  /\ op \in Codable(first, width)
  /\ \A o \in Codable(first, width) : op <= o

(* best_entry: the cheapest matching opcode, the smaller one on a tie.     *)
IsBestEntry(op, first, width) ==
  /\ op \in Codable(first, width)
  /\ \A o \in Codable(first, width) :
       \/ Cost(op, first, width) < Cost(o, first, width)
       \/ /\ Cost(op, first, width) = Cost(o, first, width)
          /\ op <= o

(* The options of one iteration: the best entry of each width that fits.   *)
Options(first) ==
  UNION {{[start |-> first, width |-> w, opcode |-> op,
           cost |-> Cost(op, first, w)] :
             op \in {o \in Opcodes : IsBestEntry(o, first, w)}} :
          w \in {v \in {1, 2} : first + v <= Count}}

Total(token) == token.cost + costs[token.start + token.width]

(* min over (total, -width, opcode).                                       *)
Preferred(t, u) ==
  \/ Total(t) < Total(u)
  \/ /\ Total(t) = Total(u)
     /\ \/ t.width > u.width
        \/ t.width = u.width /\ t.opcode <= u.opcode

Init ==
  /\ table \in Tables
  /\ atoms \in Programs
  /\ phase = "cost"
  /\ start = Count - 1
  /\ costs = [i \in 0..Count |-> IF i = Count THEN 0 ELSE Infinite]
  /\ choices = [i \in 0..(Count - 1) |-> NoToken]
  /\ position = 0
  /\ tokens = <<>>
  /\ emitted = 0
  /\ output = <<>>
-----------------------------------------------------------------------------
ChooseToken ==
  /\ phase = "cost"
  /\ start >= 0
  /\ \E choice \in Options(start) :
       /\ \A other \in Options(start) : Preferred(choice, other)
       /\ costs' = [costs EXCEPT ![start] = Total(choice)]
       /\ choices' = [choices EXCEPT ![start] = choice]
  /\ start' = start - 1
  /\ UNCHANGED <<atoms, table, phase, position, tokens, emitted, output>>

CannotEncode ==
  /\ phase = "cost"
  /\ start >= 0
  /\ Options(start) = {}
  /\ phase' = "unencodable"
  /\ UNCHANGED <<atoms, table, start, costs, choices,
                 position, tokens, emitted, output>>

CostsCompleteEarly ==   \* Slip: the loop stops short of the first suffix
  /\ phase = "cost"
  /\ start <= 0
  /\ phase' = "walk"
  /\ UNCHANGED <<atoms, table, start, costs, choices,
                 position, tokens, emitted, output>>

CostsComplete ==
  /\ phase = "cost"
  /\ start < 0
  /\ phase' = "walk"
  /\ UNCHANGED <<atoms, table, start, costs, choices,
                 position, tokens, emitted, output>>

Walk ==
  /\ phase = "walk"
  /\ position < Count
  /\ tokens' = Append(tokens, choices[position])
  /\ position' = position + choices[position].width
  /\ UNCHANGED <<atoms, table, phase, start, costs, choices, emitted, output>>

(* optimal_parse returns; encode_instruction_section starts at the front.  *)
WalkComplete ==
  /\ phase = "walk"
  /\ position >= Count
  /\ phase' = "emit"
  /\ position' = 0
  /\ UNCHANGED <<atoms, table, start, costs, choices, tokens, emitted, output>>

(* The checks encode_instruction_section makes before it spells a token.   *)
TokenIsSound(token) ==
  /\ token.start = position
  /\ token.opcode \in Codable(token.start, token.width)
  /\ token.cost = Cost(token.opcode, token.start, token.width)

Emit ==
  /\ phase = "emit"
  /\ emitted < Len(tokens)
  /\ LET token == tokens[emitted + 1]
     IN  IF TokenIsSound(token)
         THEN /\ output' = output \o Emission(token.opcode, table[token.opcode],
                                            Window(token.start, token.width))
              /\ position' = position + token.width
              /\ emitted' = emitted + 1
              /\ UNCHANGED phase
         ELSE /\ phase' = "bad_token"
              /\ UNCHANGED <<output, position, emitted>>
  /\ UNCHANGED <<atoms, table, start, costs, choices, tokens>>

(* The two checks at the end: coverage, and the byte count of the parse.   *)
EmitComplete ==
  /\ phase = "emit"
  /\ emitted = Len(tokens)
  /\ phase' = IF position # Count THEN "uncovered"
              ELSE IF Len(output) # costs[0] THEN "drift"
              ELSE "done"
  /\ UNCHANGED <<atoms, table, start, costs, choices,
                 position, tokens, emitted, output>>

Next ==
  \/ ChooseToken
  \/ CannotEncode
  \/ CostsComplete
  \/ Walk
  \/ WalkComplete
  \/ Emit
  \/ EmitComplete

Spec == Init /\ [][Next]_vars
=============================================================================
