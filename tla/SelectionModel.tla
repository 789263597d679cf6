--------------------------- MODULE SelectionModel ---------------------------
(***************************************************************************)
(* The integer programs of optimizer.py: a set of patterns to install at   *)
(* the start of the pair bank, and a cover of the window by edges, each a  *)
(* use of an entry by one or two instructions.                             *)
(***************************************************************************)
EXTENDS CodeTable

(* best_entry over the given opcodes: the cost, and the least opcode.      *)
Matching(table, opcodes, atoms) ==
  {op \in opcodes : EntryMatches(table[op], atoms)}

BestCost(table, opcodes, atoms) ==
  Min({EntryCost(table[op], atoms) : op \in Matching(table, opcodes, atoms)})

BestOpcode(table, opcodes, atoms) ==
  Min({op \in Matching(table, opcodes, atoms) :
         EntryCost(table[op], atoms) = BestCost(table, opcodes, atoms)})

Spans(window) ==
  {span \in (1..Len(window)) \X {1, 2} : span[1] + span[2] <= Len(window) + 1}

Covered(window, span) == SubSeq(window, span[1], span[1] + span[2] - 1)

NoPattern == <<>>

(* lostAt is the number of slots from which on the entry is overwritten.   *)
Never == PairBankCapacity + 1

Edge(span, cost, pattern, lostAt) ==
  [start |-> span[1], width |-> span[2], cost |-> cost,
   pattern |-> pattern, lostAt |-> lostAt]

(* The cheapest and the dearest way to cover n instructions with edges.    *)
LeastCover(n, edges) ==
  LET least[i \in 1..(n + 1)] ==
        IF i = n + 1 THEN 0
        ELSE Min({e.cost + least[i + e.width] : e \in {f \in edges : f.start = i}})
  IN  least[1]

MostCover(n, edges) ==
  LET most[i \in 1..(n + 1)] ==
        IF i = n + 1 THEN 0
        ELSE Max({e.cost + most[i + e.width] : e \in {f \in edges : f.start = i}})
  IN  most[1]

(* optimal_parse(window, table).byte_cost                                  *)
OptimalParse(window, table) ==
  LET usable == {span \in Spans(window) :
                   Matching(table, TableOpcodes, Covered(window, span)) # {}}
  IN  LeastCover(Len(window),
        {Edge(span, BestCost(table, TableOpcodes, Covered(window, span)),
              NoPattern, Never) : span \in usable})

ObservedPatternsAny(window) ==   \* Slip: of any size
  {Covered(window, span) : span \in Spans(window)}

ObservedPatterns(window) ==
  {p \in {Covered(window, span) : span \in Spans(window)} :
     \A i \in 1..Len(p) : p[i].size \in Byte}

Patterns(edges) == {e.pattern : e \in edges} \ {NoPattern}

Selections(patterns, slots) ==
  {s \in SUBSET patterns : Cardinality(s) \in 1..slots}
-----------------------------------------------------------------------------
(* solve_selection: a fixed number of slots, hence a fixed base table.     *)
BaseOpcodesBelow(slots) ==   \* Slip: one overwritten entry is kept
  TableOpcodes \ (PairBankStart..(PairBankStart + slots - 2))

BaseOpcodes(slots) ==
  TableOpcodes \ (PairBankStart..(PairBankStart + slots - 1))

FixedEdgesForgetful(window, slots) ==   \* Slip: no slot for a pair that is
  LET Available(span) ==                \* overwritten
        Matching(DefaultTable, BaseOpcodes(slots), Covered(window, span))
      Cost(span) ==
        BestCost(DefaultTable, BaseOpcodes(slots), Covered(window, span))
  IN  {Edge(span, Cost(span), NoPattern, Never) :
         span \in {s \in Spans(window) : Available(s) # {}}}
      \cup
      {Edge(span, 1, Covered(window, span), Never) :
         span \in {s \in Spans(window) :
                     /\ Covered(window, s) \in ObservedPatterns(window)
                     /\ Matching(DefaultTable, TableOpcodes, Covered(window, s)) # {}
                          => BestCost(DefaultTable, TableOpcodes, Covered(window, s)) > 1}}

FixedEdges(window, slots) ==
  LET Available(span) ==
        Matching(DefaultTable, BaseOpcodes(slots), Covered(window, span))
      Cost(span) ==
        BestCost(DefaultTable, BaseOpcodes(slots), Covered(window, span))
  IN  {Edge(span, Cost(span), NoPattern, Never) :
         span \in {s \in Spans(window) : Available(s) # {}}}
      \cup
      {Edge(span, 1, Covered(window, span), Never) :
         span \in {s \in Spans(window) :
                     /\ Covered(window, s) \in ObservedPatterns(window)
                     /\ Available(s) # {} => Cost(s) > 1}}

(* Its optimum.  With the selection fixed, the edges form a path problem,   *)
(* whose relaxation is integral.                                           *)
SolveSelection(window, slots) ==
  LET edges == FixedEdges(window, slots)
      first == InPlace(1, ObservedPatterns(window))
  IN  IF Patterns(edges) = {}
      THEN OptimalParse(window, CustomTable({first}, slots))
      ELSE Min({LeastCover(Len(window),
                  {e \in edges : e.pattern \in selected \cup {NoPattern}}) :
                selected \in Selections(Patterns(edges), slots)})
-----------------------------------------------------------------------------
(* solve_global_selection, with up to maxSlots slots.  Where an edge starts *)
(* the model has an edge for the default entry, if there is one, and one   *)
(* for the pattern, unless the default entry is as cheap and stays.        *)
DefaultEdge(window, span) ==
  LET atoms == Covered(window, span)
      opcode == BestOpcode(DefaultTable, TableOpcodes, atoms)
  IN  Edge(span, BestCost(DefaultTable, TableOpcodes, atoms), NoPattern,
           IF opcode >= PairBankStart THEN opcode - PairBankStart + 1 ELSE Never)

InDefaultTable(window, span) ==
  Matching(DefaultTable, TableOpcodes, Covered(window, span)) # {}

AlwaysAsCheapForgetful(window, span, maxSlots) ==   \* Slip: the default entry
  /\ InDefaultTable(window, span)                   \* may be overwritten
  /\ DefaultEdge(window, span).cost = 1

AlwaysAsCheap(window, span, maxSlots) ==
  /\ InDefaultTable(window, span)
  /\ DefaultEdge(window, span).cost = 1
  /\ DefaultEdge(window, span).lostAt > maxSlots

EdgesAt(window, start, maxSlots) ==
  LET spans == {span \in Spans(window) : span[1] = start}
  IN  {DefaultEdge(window, span) : span \in {s \in spans : InDefaultTable(window, s)}}
      \cup
      {Edge(span, 1, Covered(window, span), Never) :
         span \in {s \in spans :
                     /\ Covered(window, s) \in ObservedPatterns(window)
                     /\ ~AlwaysAsCheap(window, s, maxSlots)}}

(* The rows that link the edges to the selection and to the slot count.    *)
AllowedEdgesLate(edges, slots, selected) ==   \* Slip: lost one slot too late
  {e \in edges : IF e.pattern = NoPattern
                 THEN slots <= e.lostAt ELSE e.pattern \in selected}

AllowedEdges(edges, slots, selected) ==
  {e \in edges : IF e.pattern = NoPattern
                 THEN slots < e.lostAt ELSE e.pattern \in selected}

(* One entry of the default table for each instruction.                    *)
SingleEdges(window) == {DefaultEdge(window, <<i, 1>>) : i \in 1..Len(window)}

(* _varint_interval                                                        *)
VarintInterval(length) ==
  [low |-> IF length = 1 THEN 0 ELSE Base ^ (length - 1),
   high |-> Base ^ length - 1]

(* The combinations of the two varint lengths, each with the instruction   *)
(* bytes for which it is right: count instructions take `most` at most.    *)
Regimes(count, most, deltaConstant) ==
  LET least == (count + 1) \div 2
      maxLength == VarintSize(most)
      maxDelta == VarintSize(deltaConstant + most + maxLength)
      Regime(i, d) ==
        [instruction |-> i, delta |-> d,
         low |-> Max({least, VarintInterval(i).low,
                      VarintInterval(d).low - deltaConstant - i}),
         high |-> Min({most, VarintInterval(i).high,
                       VarintInterval(d).high - deltaConstant - i})]
  IN  {r \in {Regime(i, d) : i \in 1..maxLength, d \in 1..maxDelta} :
         r.low <= r.high}
=============================================================================
