---------------------------- MODULE IntegerDual -----------------------------
(***************************************************************************)
(* benchmark/integer_dual_adapter.py, which stands in for the solver of    *)
(* solve_selection: a linear relaxation proposes row multipliers, which    *)
(* are rationalized and replayed in 64-bit integers into a lower bound; a  *)
(* witness that attains the bound makes it an optimum.  Nothing that comes *)
(* from a floating-point solver is trusted: here it is arbitrary.          *)
(***************************************************************************)
EXTENDS SelectionModel

CONSTANTS
  Problems,       \* pairs of a window and a number of slots
  WordBits,       \* 64 in the code
  Denominators,   \* the sequence of denominators that are tried
  EqMultipliers,  \* what the marginals of the rows of each kind may be, once
  UbMultipliers,  \* scaled, rounded and cast to int64
  MaxCalls

ASSUME DualAssumption ==
  /\ WordBits \in Nat \ (0..3)
  /\ EqMultipliers \cup UbMultipliers
       \subseteq (-(2 ^ (WordBits - 1)))..(2 ^ (WordBits - 1) - 1)
  /\ Denominators \in Seq(Nat \ {0})
  /\ \A p \in Problems :
       /\ p.slots \in Nat \ {0}
       /\ p.window \in Seq(Range(p.window))
       /\ \A i \in 1..Len(p.window) :
            Matching(DefaultTable, BaseOpcodes(p.slots), Covered(p.window, <<i, 1>>)) # {}
       /\ Patterns(FixedEdges(p.window, p.slots)) # {}

(* Arithmetic that holds for every word; the prover has no theory of ^.    *)
ASSUME WordAssumption ==
  /\ 2 ^ (WordBits - 3) \in Nat \ {0}
  /\ 2 ^ (WordBits - 1) = 4 * 2 ^ (WordBits - 3)
  /\ 2 ^ WordBits = 2 * 2 ^ (WordBits - 1)

VARIABLES
  program, duals, witnesses, \* given: see Init
  phase, adapter, late, \* of the call; whether its deadline has passed
  attempts,             \* relaxations solved, later searches for a witness
  scale,                \* how many denominators were tried
  best,                 \* the best dual bound so far
  proof, witness,       \* the bound and the witness on disk
  answer,
  calls

given == <<program, duals, witnesses>>
vars == <<given, phase, adapter, late, attempts, scale, best, proof, witness, answer, calls>>
-----------------------------------------------------------------------------
(* The program of a problem, as standardized.  Its columns are the edges,  *)
(* and one without extent or cost for the selection of each pattern.  Every*)
(* instruction is covered once; one slot makes the number of patterns an   *)
(* equality too; and each use is linked to its selection, where the solver *)
(* was given one row for all uses of a pattern.                            *)
Choice(pattern) == Edge(<<0, 0>>, 0, pattern, Never)
IsChoice(v) == v.width = 0
Is(condition) == IF condition THEN 1 ELSE 0
Magnitude(x) == IF x >= 0 THEN x ELSE -x

Row(is, of, rhs) == [is |-> is, of |-> of, rhs |-> rhs]

Coefficient(row, v) ==
  CASE row.is = "cover"    -> Is(row.of \in v.start..(v.start + v.width - 1))
    [] row.is = "at most"  -> Is(IsChoice(v))
    [] row.is = "at least" -> -Is(IsChoice(v))
    [] row.is = "link"     -> Is(v = row.of) - Is(v = Choice(row.of.pattern))

Equalities(window, slots) ==
  [i \in 1..Len(window) |-> Row("cover", i, 1)]
    \o IF slots = 1 THEN <<Row("at most", "all", 1)>> ELSE <<>>

Inequalities(edges, slots) ==
  LET uses == SetToSeq({e \in edges : e.pattern # NoPattern})
  IN  (IF slots = 1 THEN <<>>
       ELSE <<Row("at most", "all", slots), Row("at least", "all", -1)>>)
        \o [i \in 1..Len(uses) |-> Row("link", uses[i], 0)]

Standardize(window, slots, edges) ==
  [slots |-> slots, edges |-> edges, length |-> Len(window),
   columns |-> edges \cup {Choice(p) : p \in Patterns(edges)},
   eq |-> Equalities(window, slots), ub |-> Inequalities(edges, slots)]
-----------------------------------------------------------------------------
(* int64: sums and products wrap, and the least number is its own absolute *)
(* value.                                                                  *)
Least == -(2 ^ (WordBits - 1))
Wrapped(x) == ((x - Least) % (2 ^ WordBits)) + Least
WordAbs(x) == Wrapped(Magnitude(x))

(* _guard_sparse_products, for multipliers of the rows: a bound on the     *)
(* products by the most that the coefficients of a column come to.         *)
Mass(rows, v) ==
  SumFunction([r \in DOMAIN rows |-> Magnitude(Coefficient(rows[r], v))])

LargestMass(rows) == Max({0} \cup {Mass(rows, v) : v \in program.columns})

Largest(dual) == Max({0} \cup {WordAbs(dual[r]) : r \in DOMAIN dual})

LargestProduct(eq, ub, denominator) ==
  LargestMass(program.eq) * Largest(eq) + LargestMass(program.ub) * Largest(ub)
    + denominator * Max({0} \cup {v.cost : v \in program.columns})

GuardedLoosely(eq, ub, denominator) ==   \* Slip: the range of a word
  LargestProduct(eq, ub, denominator) < 2 ^ WordBits

Guarded(eq, ub, denominator) ==
  LargestProduct(eq, ub, denominator) < 2 ^ (WordBits - 3)

(* The value of a dual, in words or in unbounded integers: each column     *)
(* counts at its better bound, 0 or 1.                                     *)
Product(rows, dual, v) ==
  SumFunction([r \in DOMAIN rows |-> Coefficient(rows[r], v) * dual[r]])

Constant(rows, dual) ==
  SumFunction([r \in DOMAIN rows |-> rows[r].rhs * dual[r]])

Reduced(eq, ub, denominator, v) ==
  denominator * v.cost - Product(program.eq, eq, v) - Product(program.ub, ub, v)

Numerator(eq, ub, denominator, inWords) ==
  LET reduced(v) == IF inWords THEN Wrapped(Reduced(eq, ub, denominator, v))
                               ELSE Reduced(eq, ub, denominator, v)
  IN  Constant(program.eq, eq) + Constant(program.ub, ub)
        + SumFunction([v \in program.columns |-> Min({0, reduced(v)})])

(* What _dual_numerator accepts and gives; beside it the value in unbounded*)
(* integers (not in the code).                                             *)
DualBounds(denominator) ==
  LET proposals == [1..Len(program.eq) -> EqMultipliers]
                     \X [1..Len(program.ub) -> {m \in UbMultipliers : m <= 0}]
  IN  {[numerator |-> Numerator(d[1], d[2], denominator, TRUE),
        denominator |-> denominator,
        exact |-> Numerator(d[1], d[2], denominator, FALSE)] :
         d \in {x \in proposals : Guarded(x[1], x[2], denominator)}}

CeilFraction(numerator, denominator) == -((-numerator) \div denominator)
Lower(bound) == CeilFraction(bound.numerator, bound.denominator)

NoBound == [numerator |-> 0, denominator |-> 0, exact |-> 0]

Improves(bound) ==
  best = NoBound \/ bound.numerator * best.denominator > best.numerator * bound.denominator
-----------------------------------------------------------------------------
(* _candidate_objective: a candidate is the set of columns that are 1.     *)
Activity(row, candidate) == SumFunction([v \in candidate |-> Coefficient(row, v)])

Objective(candidate) == SumFunction([v \in candidate |-> v.cost])

MeetsEqualities(candidate) ==
  \A r \in DOMAIN program.eq : Activity(program.eq[r], candidate) = program.eq[r].rhs

FeasibleUnlinked(candidate) ==   \* Slip: the inequalities are not replayed
  MeetsEqualities(candidate)

(* The rows as standardized, and the aggregates that the links replace.    *)
Feasible(candidate) ==
  /\ MeetsEqualities(candidate)
  /\ \A r \in DOMAIN program.ub : Activity(program.ub[r], candidate) <= program.ub[r].rhs
  /\ \A p \in Patterns(program.edges) :
       LET uses == {e \in program.edges : e.pattern = p}
       IN  Cardinality(uses \cap candidate) <= Cardinality(uses) * Is(Choice(p) \in candidate)

Answer(is) == [is |-> is]

(* What a witness says: its objective and the patterns that it selects.    *)
Witness(candidate) ==
  [is |-> "success", objective |-> Objective(candidate),
   selected |-> {v.pattern : v \in {u \in candidate : IsChoice(u)}}]

(* The program, and what can come of it: the bounds that replay for each   *)
(* denominator, and the feasible candidates.                               *)
Init ==
  /\ \E p \in Problems :
       program = Standardize(p.window, p.slots, FixedEdges(p.window, p.slots))
  /\ duals = [d \in Range(Denominators) |-> DualBounds(d)]
  /\ witnesses = {Witness(c) : c \in {x \in SUBSET program.columns : Feasible(x)}}
  /\ phase = "idle" /\ adapter = "none" /\ late = FALSE
  /\ attempts = 0 /\ scale = 0
  /\ best = NoBound /\ proof = NoBound
  /\ witness = Answer("none") /\ answer = Answer("none")
  /\ calls = 0

(* Adapters: one that solves, for a bound only or with a witness, one that *)
(* takes the stored bound, and two that replay what is stored.             *)
Begin(a) ==
  /\ phase = "idle" /\ calls < MaxCalls
  /\ calls' = calls + 1
  /\ adapter' = a
  /\ phase' = CASE a \in {"solve", "bound"}        -> "relax"
                [] a \in {"reuse", "replay bound"} -> "read"
                [] a = "replay"                    -> "reread"
  /\ late' = FALSE /\ attempts' = 0 /\ scale' = 0
  /\ best' = NoBound /\ answer' = Answer("none")
  /\ UNCHANGED <<given, proof, witness>>

DeadlinePasses ==
  /\ phase # "idle" /\ ~late
  /\ late' = TRUE
  /\ UNCHANGED <<given, phase, adapter, attempts, scale, best, proof, witness,
                 answer, calls>>

Return(a) == phase' = "idle" /\ answer' = a

(* A relaxation that fails is tried again without presolve.                *)
Relax ==
  /\ phase = "relax"
  /\ IF late \/ attempts = 2
     THEN Return(Answer("failed")) /\ UNCHANGED <<attempts, scale>>
     ELSE /\ attempts' = attempts + 1 /\ scale' = 0
          /\ phase' \in {"relax", "rationalize"}
          /\ UNCHANGED answer
  /\ UNCHANGED <<given, adapter, late, best, proof, witness, calls>>

(* One denominator: the marginals, scaled and rounded, if they replay.     *)
Rationalize ==
  /\ phase = "rationalize" /\ scale < Len(Denominators)
  /\ scale' = scale + 1
  /\ \/ UNCHANGED best
     \/ \E bound \in duals[Denominators[scale + 1]] :
          Improves(bound) /\ best' = bound
  /\ UNCHANGED <<given, phase, adapter, late, attempts, proof, witness, answer, calls>>

Rationalized ==
  /\ phase = "rationalize" /\ scale = Len(Denominators)
  /\ phase' = IF best = NoBound THEN "relax" ELSE "record"
  /\ UNCHANGED <<given, adapter, late, attempts, scale, best, proof, witness,
                 answer, calls>>

(* A stored bound is recomputed from its vectors; a missing one raises.    *)
ReadBound ==
  /\ phase = "read"
  /\ best' = proof
  /\ IF proof # NoBound /\ adapter = "reuse" THEN phase' = "record" /\ UNCHANGED answer
     ELSE Return(Answer(IF proof = NoBound THEN "raised" ELSE "bound"))
  /\ UNCHANGED <<given, adapter, late, attempts, scale, proof, witness, calls>>

ReadWitness ==
  /\ phase = "reread"
  /\ Return(IF witness.is = "none" THEN Answer("raised") ELSE witness)
  /\ UNCHANGED <<given, adapter, late, attempts, scale, best, proof, witness, calls>>

RecordBound ==
  /\ phase = "record"
  /\ proof' = best
  /\ attempts' = 0
  /\ IF adapter = "bound" THEN Return(Answer("bound"))
     ELSE phase' = (IF adapter = "reuse" THEN "search" ELSE "round") /\ UNCHANGED answer
  /\ UNCHANGED <<given, adapter, late, scale, best, witness, calls>>

(* A candidate that is feasible and attains the bound.                     *)
Certify ==
  /\ witness' \in {w \in witnesses : w.objective = Lower(best)}
  /\ Return(witness')

(* The point of the relaxation, rounded.                                   *)
Round ==
  /\ phase = "round"
  /\ Certify \/ (phase' = "fix" /\ UNCHANGED <<witness, answer>>)
  /\ UNCHANGED <<given, adapter, late, attempts, scale, best, proof, calls>>

(* _selection_cardinality_limit finds the row of the limit and rejects one  *)
(* that is more than the patterns; nothing catches it.                     *)
OddLimit == program.slots > Cardinality(Patterns(program.edges))

(* The best parse for one of the selections near that point.               *)
Fix ==
  /\ phase = "fix"
  /\ IF OddLimit THEN Return(Answer("raised")) /\ UNCHANGED witness
     ELSE (~late /\ Certify) \/ (phase' = "search" /\ UNCHANGED <<witness, answer>>)
  /\ UNCHANGED <<given, adapter, late, attempts, scale, best, proof, calls>>

(* A search for a point at the bound, with presolve and then without.      *)
Search ==
  /\ phase = "search"
  /\ IF late \/ attempts = 2
     THEN Return(Answer("unattained")) /\ UNCHANGED <<attempts, witness>>
     ELSE /\ attempts' = attempts + 1
          /\ Certify \/ UNCHANGED <<phase, witness, answer>>
  /\ UNCHANGED <<given, adapter, late, scale, best, proof, calls>>

Next ==
  \/ \E a \in {"solve", "bound", "reuse", "replay bound", "replay"} : Begin(a)
  \/ DeadlinePasses
  \/ Relax \/ Rationalize \/ Rationalized
  \/ ReadBound \/ ReadWitness \/ RecordBound
  \/ Round \/ Fix \/ Search

Spec == Init /\ [][Next]_vars
-----------------------------------------------------------------------------
(* The optimum of solve_selection, as SolveSelection has it.               *)
Attained(selected) ==
  LeastCover(program.length,
             {e \in program.edges : e.pattern \in selected \cup {NoPattern}})
Optimum ==
  Min({Attained(s) : s \in Selections(Patterns(program.edges), program.slots)})

(* As long as no multiplier is the least number of a word, the ceiling of a *)
(* bound that is stored is not above the optimum of the program it was     *)
(* captured from, before its aggregates were replaced: signs, rounding, the*)
(* choice of the best of several denominators and 64-bit arithmetic do no  *)
(* harm.  GuardRulesOutOverflow below is about the least number.           *)
BoundIsValid == proof # NoBound => Lower(proof) <= Optimum

(* A call that succeeds, or replays one that did, names an optimum that    *)
(* its selection attains, also when the deadline cut the searches short or *)
(* the bound was another call's.                                           *)
SuccessIsOptimal ==
  answer.is = "success" =>
    /\ answer.objective = Optimum
    /\ Cardinality(answer.selected) \in 1..program.slots
    /\ Attained(answer.selected) = Optimum

(* "The guard itself must not be vulnerable to the int64 overflow it is    *)
(* meant to rule out" (integer_dual_adapter.py:292-294): a dual it lets    *)
(* pass has the value that exact integers give it.                         *)
GuardRulesOutOverflow == best.numerator = best.exact
=============================================================================
