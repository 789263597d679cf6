-------------------------- MODULE GlobalSelection ---------------------------
(***************************************************************************)
(* The search for the best patch of one window: solve_global_selection of  *)
(* optimizer.py builds an integer program edge by edge, a solver answers,  *)
(* and what it answers is checked, there and in study.run_study, before a  *)
(* certificate is written.                                                 *)
(*                                                                         *)
(* The solver computes in floating point.  Its answer is compared with     *)
(* recomputed values, all but its dual bound, which is only compared with  *)
(* its primal one: that it is a bound is taken on trust.                   *)
(***************************************************************************)
EXTENDS SelectionModel, TableDelta

CONSTANTS
  Windows,        \* the instruction sequences considered
  MaxSlots,       \* max_physical_slots
  HeaderLengths,  \* file_header_lengths considered: functions on 0..MaxSlots
  DeltaConstants, \* delta_constant: the bytes of the delta that never change
  Slack           \* how far from the optimum the solver's numbers may be

Slots == 0..MaxSlots

(* max_instruction_bytes: an entry of the default table per instruction.   *)
SingleBytes == [w \in Windows |-> LeastCover(Len(w), SingleEdges(w))]

(* No window is empty, and the address caches have the modes of its COPYs. *)
(* A file that carries a code table has a longer header than one that does *)
(* not.  No patch is longer than the longest integer.                      *)
ASSUME SelectionAssumption ==
  /\ MaxSlots \in 1..PairBankCapacity
  /\ \A w \in Windows :
       w \in Seq(Atom) \ {<<>>} /\ \A i \in 1..Len(w) : w[i].mode < Modes
  /\ \A w \in Windows, d \in DeltaConstants :
       d + SingleBytes[w] + DigitLimit + 1 <= MaxValue
  /\ \A h \in HeaderLengths : h \in [Slots -> Nat] /\ \A q \in Slots : h[0] <= h[q]
  /\ DeltaConstants \subseteq Nat
  /\ Slack \in Nat

VARIABLES
  window,         \* the atoms of the window's instructions
  headers,        \* file_header_lengths
  deltaConstant,
  phase,
  next,           \* the next instruction that edges start from
  edges,
  solution,       \* what the solver answered, or the presolve settled
  exact,          \* history: the solver kept to the mathematics
  bounded         \* history: its dual bound does not exceed the optimum

input == <<window, headers, deltaConstant>>
history == <<exact, bounded>>
vars == <<input, phase, next, edges, solution, history>>

Count == Len(window)

Solution(slots, selected, bytes, instruction, delta, primal, dual) ==
  [slots |-> slots, selected |-> selected, bytes |-> bytes,
   instruction |-> instruction, delta |-> delta, primal |-> primal, dual |-> dual]

NoSolution == Solution(0, {}, 0, 0, 0, 0, 0)

Candidates == Patterns(edges)

(* The table of a choice of slots and patterns.                            *)
Table(slots, selected) ==
  IF slots = 0 THEN DefaultTable ELSE CustomTable(selected, slots)

(* What varies of the patch for a number of instruction bytes.             *)
DeltaLength(bytes) == deltaConstant + VarintSize(bytes) + bytes

VariablePatchBytes(slots, bytes) ==
  headers[slots] + bytes + VarintSize(bytes) + VarintSize(DeltaLength(bytes))

Init ==
  /\ window \in Windows
  /\ headers \in HeaderLengths
  /\ deltaConstant \in DeltaConstants
  /\ phase = "build"
  /\ next = 1
  /\ edges = {}
  /\ solution = NoSolution
  /\ exact = FALSE /\ bounded = FALSE
-----------------------------------------------------------------------------
(* One turn of the loop over the instructions.                             *)
AddEdges ==
  /\ phase = "build"
  /\ next <= Count
  /\ edges' = edges \cup EdgesAt(window, next, MaxSlots)
  /\ next' = next + 1
  /\ UNCHANGED <<input, phase, solution, history>>

(* No pattern improves any place where it occurs: the default table it is. *)
SkipSolver ==
  /\ phase = "build"
  /\ next > Count
  /\ Candidates = {}
  /\ LET bytes == OptimalParse(window, DefaultTable)
         total == VariablePatchBytes(0, bytes)
     IN  solution' = Solution(0, {}, bytes, VarintSize(bytes),
                              VarintSize(DeltaLength(bytes)), total, total)
  /\ exact' = TRUE /\ bounded' = TRUE
  /\ phase' = "emit"
  /\ UNCHANGED <<input, next, edges>>

(* The answers open to the solver: a slot count, as many patterns at most, *)
(* one at least if there is a table, and a regime.  Only the selection,    *)
(* the slots and the regime are integers: the edges may be mixed, so any   *)
(* cost between the least and the greatest can be met.                     *)
SelectionsFor(slots) ==
  IF slots = 0 THEN {{}} ELSE Selections(Candidates, slots)

Answers(q, selected, regimes) ==
  LET allowed == AllowedEdges(edges, q, selected)
      least == LeastCover(Count, allowed)
      most == MostCover(Count, allowed)
      Answer(r) ==
        LET bytes == Max({least, r.low})
            total == headers[q] + bytes + r.instruction + r.delta
        IN  Solution(q, selected, bytes, r.instruction, r.delta, total, total)
  IN  {Answer(r) : r \in {s \in regimes : Max({least, s.low}) <= Min({most, s.high})}}

PatchRegimes == Regimes(Count, SingleBytes[window], deltaConstant)

Feasible ==
  LET regimes == PatchRegimes
  IN  UNION {UNION {Answers(q, selected, regimes) : selected \in SelectionsFor(q)} :
             q \in Slots}

Optimum == Min({answer.primal : answer \in Feasible})

(* The solver finds one of the optimal answers, exactly.                   *)
Solve ==
  /\ phase = "build"
  /\ next > Count
  /\ Candidates # {}
  /\ LET feasible == Feasible
         optimum == Min({answer.primal : answer \in feasible})
     IN  solution' \in {answer \in feasible : answer.primal = optimum}
  /\ exact' = TRUE /\ bounded' = TRUE
  /\ phase' = "check"
  /\ UNCHANGED <<input, next, edges>>

(* Any other answer near the optimum, within the solver's tolerances or    *)
(* without them: the selection is whatever is rounded up, and the primal   *)
(* value, the costs of the edges and the dual bound lie on either side, as *)
(* those of HiGHS with presolve did (README.md:8-10).                      *)
SolveInexactly ==
  /\ phase = "build"
  /\ next > Count
  /\ Candidates # {}
  /\ \E optimum \in {Optimum} :
       \E q \in Slots,
          selected \in {s \in SUBSET Candidates : Cardinality(s) <= MaxSlots},
          r \in PatchRegimes,
          primal, dual, sum \in (optimum - Slack)..(optimum + Slack) :
         /\ sum >= headers[q] + r.instruction + r.delta
         /\ solution' = Solution(q, selected,
                          sum - headers[q] - r.instruction - r.delta,
                          r.instruction, r.delta, primal, dual)
         /\ bounded' = (dual <= optimum)
  /\ exact' = FALSE
  /\ phase' = "check"
  /\ UNCHANGED <<input, next, edges>>
-----------------------------------------------------------------------------
(* The checks of solve_global_selection that read the answer alone.        *)
GapIsZero == solution.primal = solution.dual

Decomposes ==
  headers[solution.slots] + solution.bytes + solution.instruction + solution.delta
    = solution.primal

FitsSlots ==
  IF solution.slots = 0 THEN solution.selected = {}
  ELSE Cardinality(solution.selected) \in 1..solution.slots

(* The dynamic programme on the selected table.                            *)
AttainedBytes == OptimalParse(window, Table(solution.slots, solution.selected))

Refuse ==
  /\ phase = "check"
  /\ ~(GapIsZero /\ Decomposes /\ FitsSlots)
  /\ phase' = "refused"
  /\ UNCHANGED <<input, next, edges, solution, history>>

CompareBytes ==
  /\ phase = "check"
  /\ GapIsZero /\ Decomposes /\ FitsSlots
  /\ phase' = IF AttainedBytes = solution.bytes THEN "emit" ELSE "unattained"
  /\ UNCHANGED <<input, next, edges, solution, history>>

(* run_study encodes the file with the chosen table and compares its bytes *)
(* with those the selection promises.                                      *)
CompareLength ==
  /\ phase = "emit"
  /\ phase' = IF /\ AttainedBytes = solution.bytes
                /\ VariablePatchBytes(solution.slots, AttainedBytes) = solution.primal
              THEN "certified" ELSE "mismatch"
  /\ UNCHANGED <<input, next, edges, solution, history>>

Next ==
  \/ AddEdges
  \/ SkipSolver
  \/ Solve
  \/ SolveInexactly
  \/ Refuse
  \/ CompareBytes
  \/ CompareLength

Spec == Init /\ [][Next]_vars
-----------------------------------------------------------------------------
(* Every table of the family, with any of the observed patterns.           *)
LeastPatch ==
  Min({VariablePatchBytes(0, OptimalParse(window, DefaultTable))} \cup
      UNION {{VariablePatchBytes(q, OptimalParse(window, CustomTable(selected, q))) :
                selected \in Selections(ObservedPatterns(window), q)} : q \in 1..MaxSlots})

TypeOK ==
  /\ window \in Windows /\ headers \in HeaderLengths
  /\ deltaConstant \in DeltaConstants
  /\ phase \in {"build", "check", "emit", "certified", "refused", "unattained",
                "mismatch"}
  /\ next \in 1..(Count + 1)
  /\ \A p \in Candidates : FromPattern(p) \in CodeEntry
  /\ solution.slots \in Slots
  /\ solution.selected \subseteq Candidates
  /\ exact \in BOOLEAN /\ bounded \in BOOLEAN

(* Whatever the solver answered, a patch that is certified is a patch of    *)
(* the family and has the size that the certificate gives.  If the solver's *)
(* bound was one, it is as short as any: the candidates left out, the       *)
(* default pairs given up and the varint regimes lose no optimum, and the   *)
(* checks (optimizer.py:665-683, study.py:384-391) catch a bound that is    *)
(* not attained.  docs/model.md:3-7 states the premise.                     *)
CertifiedIsOptimal ==
  phase = "certified" =>
    LET least == LeastPatch IN
    /\ solution.primal = VariablePatchBytes(solution.slots, AttainedBytes)
    /\ solution.primal >= least
    /\ bounded => solution.primal = least

(* The relaxation of the parse is tight at the optimum: with a solver that *)
(* finds it, "this formulation must be strengthened" (optimizer.py:676)    *)
(* never happens, and nothing else is refused.                             *)
ExactSolverCertifies == exact => phase \notin {"refused", "unattained", "mismatch"}

(* solve_selection loses no optimum either: for every number of slots it   *)
(* finds the cheapest parse with any selection of observed patterns, the   *)
(* dominated ones it leaves out included (optimizer.py:222-228).           *)
SweepIsOptimal ==
  phase = "check" /\ exact =>
    \A q \in 1..MaxSlots :
      SolveSelection(window, q) =
        Min({OptimalParse(window, CustomTable(selected, q)) :
               selected \in Selections(ObservedPatterns(window), q)})

(* The argument by which one bound serves all smaller numbers of slots     *)
(* (finalize_integer_dual_pair.py:290-294): of the fixed-q optima none is  *)
(* below that of one slot more, though the slot costs a pair of the default*)
(* table, and the patterns dominated at one q need not be so at the next.  *)
MoreSlotsNoWorse ==
  phase = "check" /\ exact =>
    \A q \in 1..(MaxSlots - 1) :
      SolveSelection(window, q) >= SolveSelection(window, q + 1)

(* The header of a patch carries its table (codec.py:203-292): for every    *)
(* number of slots that the chosen patterns fit into, the bank's last       *)
(* opcode included, the guard accepts the table, and replaying the          *)
(* instructions that this number alone determines over the default table's  *)
(* bytes gives the custom table's; so file_header_lengths is a function of  *)
(* the number.                                                             *)
HeaderCarriesTable ==
  phase = "certified" =>
    \A slots \in 1..PairBankCapacity :
      CanInstall(solution.selected, slots) =>
        LET custom == CustomTable(solution.selected, slots) IN
        /\ IsCanonical(TableBytes(custom), slots)
        /\ IsWindow(DeltaWindow(custom, slots))
        /\ Accepts(DeltaWindow(custom, slots))
=============================================================================
