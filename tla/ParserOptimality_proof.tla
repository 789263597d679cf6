----------------------- MODULE ParserOptimality_proof -----------------------
(***************************************************************************)
(* Proofs, for every program, table and varint base, that the parse of     *)
(* optimal_parse is optimal and that encode_instruction_section accepts it.*)
(***************************************************************************)
EXTENDS ParserTables, FiniteSetTheorems, WellFoundedInduction, TLAPS

-----------------------------------------------------------------------------
(* Lengths of variable-length integers.                                    *)

(* varint_size is at least 1 and at most what decode_varint accepts.       *)
LEMMA VarintSizeType == \A n : VarintSize(n) \in 1..(DigitLimit + 1)
<1> TAKE n
<1> DEFINE K == {k \in 1..DigitLimit : n >= Base ^ k}
<1>1. /\ DigitLimit \in Nat
      /\ IsFiniteSet(1..DigitLimit)
      /\ Cardinality(1..DigitLimit) = DigitLimit
  BY VarintAssumption, FS_Interval DEF VarintAssumption
<1>2. K \subseteq 1..DigitLimit
  OBVIOUS
<1>3. Cardinality(K) \in Nat /\ Cardinality(K) <= DigitLimit
  BY <1>1, <1>2, FS_Subset, FS_CardinalityType
<1>4. QED
  BY <1>1, <1>3 DEF VarintSize

(* encode_varint writes varint_size bytes.                                 *)
LEMMA EncodeVarintType ==
  ASSUME NEW n \in Nat
  PROVE  /\ EncodeVarint(n) \in Seq(Byte)
         /\ Len(EncodeVarint(n)) = VarintSize(n)
<1> DEFINE size == VarintSize(n)
           byte(i) == Digit(n, size - i) + (IF i < size THEN Base ELSE 0)
<1>1. size \in 1..(DigitLimit + 1)
  BY VarintSizeType
<1>2. ASSUME NEW i \in 1..size PROVE byte(i) \in Byte
  <2> DEFINE power == Base ^ (size - i)
  <2>1. Base \in Nat \ {0, 1} /\ DigitLimit \in Nat
    BY VarintAssumption DEF VarintAssumption
  <2>2. size - i \in 0..DigitLimit
    BY <1>1, <2>1
  <2>3. power \in Nat \ {0}
    BY <2>2, VarintAssumption DEF VarintAssumption
  <2>4. n \div power \in Nat
    BY <2>3
  <2> HIDE DEF power
  <2>5. (n \div power) % Base \in 0..(Base - 1)
    BY <2>1, <2>4
  <2>6. Digit(n, size - i) = (n \div power) % Base
    BY DEF Digit, power
  <2> HIDE DEF size
  <2>7. QED
    BY <1>1, <2>1, <2>5, <2>6 DEF Byte
<1> HIDE DEF size, byte
<1>3. [i \in 1..size |-> byte(i)] \in Seq(Byte)
  BY <1>1, <1>2
<1>4. EncodeVarint(n) = [i \in 1..size |-> byte(i)]
  BY DEF EncodeVarint, size, byte
<1>5. QED
  BY <1>1, <1>3, <1>4 DEF size
-----------------------------------------------------------------------------
(* The atoms of a token are as many as its width, and are atoms.           *)
LEMMA WindowType ==
  ASSUME atoms \in Seq(Atom), NEW first \in Nat, NEW width \in {1, 2},
         first + width <= Count
  PROVE  /\ Len(Window(first, width)) = width
         /\ \A i \in 1..width : Window(first, width)[i] \in Atom
BY DEF Window, Count

(* entry_cost is a number of bytes, at least the opcode's one.             *)
LEMMA CostType ==
  ASSUME atoms \in Seq(Atom), NEW op, NEW first \in Nat, NEW width \in {1, 2},
         first + width <= Count
  PROVE  Cost(op, first, width) \in Nat
<1> DEFINE w == Window(first, width)
           half(size, i) == HalfCost(size, w[i])
<1>1. Len(w) = width
  BY WindowType
<1>2. \A size, i : half(size, i) \in Nat
  BY VarintSizeType, VarintAssumption DEF HalfCost, VarintAssumption
<1>3. Cost(op, first, width)
        = 1 + half(table[op].size1, 1)
            + (IF Len(w) = 2 THEN half(table[op].size2, 2) ELSE 0)
  BY DEF Cost, EntryCost
<1> HIDE DEF w, half
<1>4. QED
  BY <1>2, <1>3

(* Concatenation, as Emission and the output use it.                       *)
LEMMA ConcatType ==
  ASSUME NEW S, NEW s \in Seq(S), NEW t \in Seq(S)
  PROVE  s \o t \in Seq(S) /\ Len(s \o t) = Len(s) + Len(t)
OBVIOUS

(* entry_cost counts the bytes that encode_instruction_section appends.    *)
LEMMA EmissionLength ==
  ASSUME atoms \in Seq(Atom), table \in [Opcodes -> CodeEntry],
         NEW first \in Nat, NEW width \in {1, 2}, first + width <= Count,
         NEW op \in Codable(first, width)
  PROVE  LET emission == Emission(op, table[op], Window(first, width))
         IN  /\ emission \in Seq(Byte \cup Opcodes)
             /\ Len(emission) = Cost(op, first, width)
<1> DEFINE w == Window(first, width)
           entry == table[op]
           S == Byte \cup Opcodes
           varint1 == IF entry.size1 = 0 THEN EncodeVarint(w[1].size) ELSE <<>>
           varint2 == IF entry.inst2 # NOOP /\ entry.size2 = 0
                      THEN EncodeVarint(w[2].size) ELSE <<>>
<1>1. op \in Opcodes /\ entry \in CodeEntry /\ EntryMatches(entry, w)
  BY DEF Codable
<1>2. Len(w) = width /\ \A i \in 1..width : w[i] \in Atom
  BY WindowType
<1>3. Width(entry) = width /\ (entry.inst2 # NOOP <=> width = 2)
  <2>1. Width(entry) = width
    BY <1>1, <1>2 DEF EntryMatches
  <2>2. QED
    BY <2>1 DEF Width
<1>4. /\ entry.size1 \in {0, w[1].size}
      /\ w[1].size \in Nat \ {0}
  BY <1>1, <1>2 DEF EntryMatches, HalfMatches, Atom
<1>5. ASSUME NEW n \in Nat
      PROVE  EncodeVarint(n) \in Seq(S) /\ Len(EncodeVarint(n)) = VarintSize(n)
  <2>1. EncodeVarint(n) \in Seq(Byte) /\ Len(EncodeVarint(n)) = VarintSize(n)
    BY EncodeVarintType
  <2>2. Byte \subseteq S
    OBVIOUS
  <2> HIDE DEF S
  <2>3. QED
    BY <2>1, <2>2
<1> HIDE DEF S
<1>13. /\ varint1 \in Seq(S)
       /\ Len(varint1) = HalfCost(entry.size1, w[1])
  <2>1. CASE entry.size1 = 0
    BY <1>4, <1>5, <2>1 DEF HalfCost
  <2>2. CASE entry.size1 # 0
    BY <1>4, <2>2 DEF HalfCost
  <2>3. QED
    BY <2>1, <2>2
<1>6. ASSUME width = 2
      PROVE  /\ entry.size2 \in {0, w[2].size}
             /\ w[2].size \in Nat \ {0}
  BY <1>1, <1>2, <1>6 DEF EntryMatches, HalfMatches, Atom
<1>7. /\ varint2 \in Seq(S)
      /\ Len(varint2) = IF width = 2 THEN HalfCost(entry.size2, w[2]) ELSE 0
  <2>1. CASE width = 2 /\ entry.size2 = 0
    BY <1>3, <1>5, <1>6, <2>1 DEF HalfCost
  <2>4. CASE width = 2 /\ entry.size2 # 0
    BY <1>3, <1>6, <2>4 DEF HalfCost
  <2>2. CASE width = 1
    BY <1>3, <2>2
  <2>3. QED
    BY <2>1, <2>2, <2>4
<1>8. Emission(op, entry, w) = <<op>> \o varint1 \o varint2
  BY DEF Emission
<1>9. Cost(op, first, width)
        = 1 + HalfCost(entry.size1, w[1])
            + (IF width = 2 THEN HalfCost(entry.size2, w[2]) ELSE 0)
  BY <1>2 DEF Cost, EntryCost
<1>10. <<op>> \in Seq(S) /\ Len(<<op>>) = 1
  BY <1>1 DEF S
<1> HIDE DEF w, entry, varint1, varint2
<1>11. /\ (<<op>> \o varint1) \o varint2 \in Seq(S)
       /\ Len((<<op>> \o varint1) \o varint2) = (1 + Len(varint1)) + Len(varint2)
  <2>1. /\ <<op>> \o varint1 \in Seq(S)
        /\ Len(<<op>> \o varint1) = 1 + Len(varint1)
    BY <1>10, <1>13, ConcatType
  <2>2. QED
    BY <1>7, <2>1, ConcatType
<1>12. QED
  BY <1>7, <1>8, <1>9, <1>11, <1>13 DEF w, entry, S
-----------------------------------------------------------------------------
(* A nonempty set of numbers has a least one.                              *)
LEMMA LeastNumber ==
  ASSUME NEW T \in SUBSET Nat, T # {}
  PROVE  \E m \in T : \A n \in T : m <= n
<1> DEFINE less == OpToRel(<, Nat)
<1>1. PICK m \in T : \A n \in T : ~(<<n, m>> \in less)
  BY NatLessThanWellFounded, WFMin, Zenon
<1>2. ASSUME NEW n \in Nat, n < m PROVE <<n, m>> \in less
  BY <1>2 DEF OpToRel
<1> HIDE DEF less
<1>3. ASSUME NEW n \in T PROVE m <= n
  <2>1. ~(n < m)
    BY <1>1, <1>2
  <2>2. QED
    BY <2>1
<1>4. QED
  BY <1>3

(* best_entry finds an entry at least as cheap as any that matches.        *)
LEMMA BestEntryExists ==
  ASSUME ParserAssumption,
         atoms \in Seq(Atom), NEW first \in Nat, NEW width \in {1, 2},
         first + width <= Count, NEW op \in Codable(first, width)
  PROVE  \E best \in Opcodes : /\ IsBestEntry(best, first, width)
                               /\ Cost(best, first, width) <= Cost(op, first, width)
<1> DEFINE cost(o) == Cost(o, first, width)
           costsOf == {cost(o) : o \in Codable(first, width)}
<1>1. \A o : cost(o) \in Nat
  BY CostType
<1>2. Codable(first, width) \subseteq Nat
  BY DEF Codable, ParserAssumption
<1>3. PICK least \in costsOf : \A c \in costsOf : least <= c
  <2>1. costsOf \in SUBSET Nat /\ costsOf # {}
    BY <1>1
  <2> HIDE DEF costsOf
  <2>2. QED
    BY <2>1, LeastNumber
<1> DEFINE cheapest == {o \in Codable(first, width) : cost(o) = least}
<1>4. PICK best \in cheapest : \A o \in cheapest : best <= o
  <2>1. cheapest \in SUBSET Nat /\ cheapest # {}
    BY <1>2
  <2> HIDE DEF cheapest
  <2>2. QED
    BY <2>1, LeastNumber
<1>5. best \in Codable(first, width) /\ best \in Opcodes /\ cost(best) = least
  BY <1>4 DEF Codable
<1>6. ASSUME NEW o \in Codable(first, width)
      PROVE  cost(best) < cost(o) \/ (cost(best) = cost(o) /\ best <= o)
  <2>1. cost(best) <= cost(o)
    BY <1>3, <1>5
  <2>2. CASE cost(o) = least
    BY <1>4, <1>5, <2>2
  <2>3. CASE cost(o) # least
    BY <1>1, <1>5, <2>1, <2>3
  <2>4. QED
    BY <2>2, <2>3
<1>7. cost(best) <= cost(op)
  BY <1>3, <1>5
<1>8. QED
  BY <1>5, <1>6, <1>7 DEF IsBestEntry
-----------------------------------------------------------------------------
(* What depends on the program and the table alone stays when they stay.   *)
LEMMA SameInputs ==
  ASSUME UNCHANGED <<atoms, table>>
  PROVE  /\ Count' = Count
         /\ Token' = Token
         /\ \A first, width : Codable(first, width)' = Codable(first, width)
         /\ \A op, first, width : Cost(op, first, width)' = Cost(op, first, width)
<1>1. Count' = Count
  BY DEF Count
<1>2. \A first, width : Window(first, width)' = Window(first, width)
  BY DEF Window
<1>3. Token' = Token
  BY <1>1 DEF Token
<1>4. \A first, width : Codable(first, width)' = Codable(first, width)
  BY <1>2 DEF Codable
<1>5. \A op, first, width : Cost(op, first, width)' = Cost(op, first, width)
  BY <1>2 DEF Cost
<1>6. QED
  BY <1>1, <1>3, <1>4, <1>5

(* Once the costs are complete only phase changes matter to them.          *)
LEMMA DynamicProgrammeStable ==
  ASSUME DynamicProgramme,
         UNCHANGED <<atoms, table, start, costs, choices>>,
         phase' \notin {"cost", "unencodable"} => start = -1
  PROVE  DynamicProgramme'
<1>1. /\ Count' = Count
      /\ Token' = Token
      /\ \A first, width : Codable(first, width)' = Codable(first, width)
      /\ \A op, first, width : Cost(op, first, width)' = Cost(op, first, width)
  BY SameInputs
<1>2. costs'[Count'] = 0
  BY <1>1 DEF DynamicProgramme
<1>3. ASSUME NEW i \in (start' + 1)..(Count' - 1)
      PROVE  costs'[i] \in Nat /\ SoundChoice(i)' /\ CheapestSuffix(i)'
  <2>1. i \in (start + 1)..(Count - 1)
    BY <1>1, <1>3
  <2>2. costs[i] \in Nat /\ SoundChoice(i) /\ CheapestSuffix(i)
    BY <2>1 DEF DynamicProgramme
  <2>3. SoundChoice(i)'
    BY <1>1, <2>2 DEF SoundChoice, Total
  <2>4. CheapestSuffix(i)'
    BY <1>1, <2>2 DEF CheapestSuffix
  <2>5. QED
    BY <2>2, <2>3, <2>4
<1>4. QED
  BY <1>2, <1>3 DEF DynamicProgramme
-----------------------------------------------------------------------------
(* The state optimal_parse starts from, before its backward loop.          *)
LEMMA InitInvariant ==
  ASSUME RivalInit PROVE IInv
<1> USE DEF RivalInit, Init
<1>1. atoms \in Seq(Atom) /\ table \in [Opcodes -> CodeEntry]
  BY ParserAssumption DEF ParserAssumption
<1>2. Count \in Nat
  BY <1>1 DEF Count
<1>3. TypeOK
  BY <1>1, <1>2 DEF TypeOK, Phases, Infinite
<1>4. DynamicProgramme
  BY <1>2 DEF DynamicProgramme
<1>5. Contiguous
  BY DEF Contiguous
<1>6. QED
  BY <1>3, <1>4, <1>5 DEF IInv, SectionMatchesParse, Spelled, RivalBound

(* One turn of the backward loop extends Bellman's equation by a suffix.   *)
LEMMA ChooseTokenInvariant ==
  ASSUME IInv, ChooseToken, UNCHANGED <<rivalPosition, rivalCost>>
  PROVE  IInv'
<1> USE DEF ChooseToken
<1>0. TypeOK /\ DynamicProgramme /\ Contiguous /\ Spelled /\ RivalBound
  BY DEF IInv
<1>1. /\ Count' = Count
      /\ Token' = Token
      /\ \A first, width : Codable(first, width)' = Codable(first, width)
      /\ \A op, first, width : Cost(op, first, width)' = Cost(op, first, width)
  BY SameInputs
<1>2. /\ Count \in Nat
      /\ start \in 0..(Count - 1)
  BY <1>0 DEF TypeOK, Count
<1>3. PICK choice \in Options(start) :
        /\ \A other \in Options(start) : Preferred(choice, other)
        /\ costs' = [costs EXCEPT ![start] = Total(choice)]
        /\ choices' = [choices EXCEPT ![start] = choice]
  OBVIOUS
<1>4. PICK width \in {1, 2}, op \in Opcodes :
        /\ start + width <= Count
        /\ IsBestEntry(op, start, width)
        /\ choice = [start |-> start, width |-> width, opcode |-> op,
                     cost |-> Cost(op, start, width)]
  BY <1>3 DEF Options
<1>5. /\ choice \in Token
      /\ op \in Codable(start, width)
  BY <1>0, <1>2, <1>4, CostType DEF Token, IsBestEntry, TypeOK
<1>6. \A i \in (start + 1)..Count : costs[i] \in Nat
  BY <1>0, <1>2 DEF DynamicProgramme
<1>7. /\ Total(choice) \in Nat
      /\ Total(choice) = Cost(op, start, width) + costs[start + width]
  BY <1>2, <1>4, <1>5, <1>6 DEF Total, Token
<1>8. ASSUME NEW w \in {1, 2}, start + w <= Count, NEW o \in Codable(start, w)
      PROVE  Total(choice) <= Cost(o, start, w) + costs[start + w]
  <2>1. PICK best \in Opcodes : /\ IsBestEntry(best, start, w)
                                /\ Cost(best, start, w) <= Cost(o, start, w)
    BY <1>0, <1>2, <1>8, BestEntryExists, ParserAssumption DEF TypeOK
  <2> DEFINE other == [start |-> start, width |-> w, opcode |-> best,
                       cost |-> Cost(best, start, w)]
  <2>2. other \in Options(start)
    BY <1>8, <2>1 DEF Options
  <2>3. Total(choice) <= Total(other)
    <3>1. Preferred(choice, other)
      BY <1>3, <2>2
    <3>2. Total(other) = Cost(best, start, w) + costs[start + w]
      BY DEF Total
    <3>3. Cost(best, start, w) \in Nat /\ costs[start + w] \in Nat
      BY <1>0, <1>2, <1>6, <1>8, CostType DEF TypeOK
    <3> HIDE DEF other
    <3>4. QED
      BY <1>7, <3>1, <3>2, <3>3 DEF Preferred
  <2>4. /\ Cost(best, start, w) \in Nat
        /\ Cost(o, start, w) \in Nat
        /\ costs[start + w] \in Nat
    BY <1>0, <1>2, <1>6, <1>8, CostType DEF TypeOK
  <2>5. QED
    BY <1>7, <2>1, <2>3, <2>4 DEF Total
<1>9. TypeOK'
  <2>1. costs' \in [0..Count -> Nat \cup {Infinite}]
    BY <1>0, <1>3, <1>7 DEF TypeOK
  <2>2. choices' \in [0..(Count - 1) -> Token \cup {NoToken}]
    BY <1>0, <1>3, <1>5 DEF TypeOK
  <2>3. start' \in -1..(Count - 1)
    BY <1>2
  <2>4. QED
    BY <1>0, <1>1, <2>1, <2>2, <2>3 DEF TypeOK, Phases
<1>10. DynamicProgramme'
  <2>1. costs'[Count] = 0
    BY <1>0, <1>2, <1>3 DEF DynamicProgramme, TypeOK
  <2>2. \A i \in 0..Count : i # start => costs'[i] = costs[i]
    BY <1>0, <1>3 DEF TypeOK
  <2>3. \A i \in 0..(Count - 1) : i # start => choices'[i] = choices[i]
    BY <1>0, <1>3 DEF TypeOK
  <2>4. costs'[start] = Total(choice) /\ choices'[start] = choice
    BY <1>0, <1>2, <1>3 DEF TypeOK
  <2>5. ASSUME NEW i \in (start' + 1)..(Count' - 1)
        PROVE  costs'[i] \in Nat /\ SoundChoice(i)' /\ CheapestSuffix(i)'
    <3>1. i \in start..(Count - 1)
      BY <1>1, <1>2, <2>5
    <3>2. CASE i = start
      <4>1. costs'[i] = Total(choice) /\ choices'[i] = choice
        BY <2>4, <3>2
      <4>2. \A w \in {1, 2} : i + w <= Count => costs'[i + w] = costs[i + w]
        BY <1>2, <2>2, <3>2
      <4>3. SoundChoice(i)'
        <5>1. /\ choice.start = i
              /\ choice.width = width
              /\ choice.opcode = op
              /\ choice.cost = Cost(op, i, width)
          BY <1>4, <3>2
        <5>2. costs'[i] = choice.cost + costs'[i + width]
          BY <1>4, <1>7, <3>2, <4>1, <4>2, <5>1
        <5>3. i + width <= Count /\ op \in Codable(i, width) /\ choice \in Token
          BY <1>4, <1>5, <3>2
        <5>4. QED
          BY <1>1, <4>1, <5>1, <5>2, <5>3 DEF SoundChoice, Total
      <4>4. CheapestSuffix(i)'
        BY <1>1, <1>8, <3>2, <4>1, <4>2 DEF CheapestSuffix
      <4>5. QED
        BY <1>7, <4>1, <4>3, <4>4
    <3>3. CASE i # start
      <4>1. i \in (start + 1)..(Count - 1)
        BY <3>1, <3>3, <1>2
      <4>2. costs[i] \in Nat /\ SoundChoice(i) /\ CheapestSuffix(i)
        BY <1>0, <4>1 DEF DynamicProgramme
      <4>3. costs'[i] = costs[i] /\ choices'[i] = choices[i]
        BY <1>2, <2>2, <2>3, <4>1
      <4>4. \A w \in {1, 2} : i + w <= Count => costs'[i + w] = costs[i + w]
        BY <1>2, <2>2, <4>1
      <4>5. SoundChoice(i)'
        <5>1. choices[i].start = i /\ choices[i].width \in {1, 2}
          BY <4>2 DEF SoundChoice, Token
        <5>2. QED
          BY <1>1, <4>2, <4>3, <4>4, <5>1 DEF SoundChoice, Total
      <4>6. CheapestSuffix(i)'
        BY <1>1, <4>2, <4>3, <4>4 DEF CheapestSuffix
      <4>7. QED
        BY <4>2, <4>3, <4>5, <4>6
    <3>4. QED
      BY <3>2, <3>3
  <2>6. QED
    BY <1>1, <2>1, <2>5 DEF DynamicProgramme
<1>11. Contiguous'
  BY <1>0, <1>1 DEF Contiguous
<1>12. SectionMatchesParse' /\ Spelled' /\ RivalBound'
  BY <1>0 DEF IInv, SectionMatchesParse, Spelled, RivalBound
<1>13. QED
  BY <1>9, <1>10, <1>11, <1>12 DEF IInv

(* The error of the backward loop leaves no parse behind.                  *)
LEMMA CannotEncodeInvariant ==
  ASSUME IInv, CannotEncode, UNCHANGED <<rivalPosition, rivalCost>>
  PROVE  IInv'
<1> USE DEF CannotEncode
<1>1. Count' = Count /\ Token' = Token
  BY SameInputs
<1>2. TypeOK'
  BY <1>1 DEF IInv, TypeOK, Phases
<1>3. DynamicProgramme'
  BY DynamicProgrammeStable DEF IInv
<1>4. Contiguous' /\ Spelled' /\ RivalBound' /\ SectionMatchesParse'
  BY <1>1 DEF IInv, Contiguous, Spelled, RivalBound, SectionMatchesParse
<1>5. QED
  BY <1>2, <1>3, <1>4 DEF IInv

(* The forward walk starts with every suffix costed.                       *)
LEMMA CostsCompleteInvariant ==
  ASSUME IInv, CostsComplete, UNCHANGED <<rivalPosition, rivalCost>>
  PROVE  IInv'
<1> USE DEF CostsComplete
<1>1. Count' = Count /\ Token' = Token /\ Count \in Nat /\ start = -1
  BY SameInputs DEF IInv, TypeOK, Count
<1>2. TypeOK'
  BY <1>1 DEF IInv, TypeOK, Phases
<1>3. DynamicProgramme'
  BY <1>1, DynamicProgrammeStable DEF IInv
<1>4. Contiguous' /\ Spelled' /\ RivalBound' /\ SectionMatchesParse'
  BY <1>1 DEF IInv, Contiguous, Spelled, RivalBound, SectionMatchesParse, End
<1>5. QED
  BY <1>2, <1>3, <1>4 DEF IInv

(* The walk appends the choice at its position, end to end.                *)
LEMMA WalkInvariant ==
  ASSUME IInv, Walk, UNCHANGED <<rivalPosition, rivalCost>>
  PROVE  IInv'
<1> USE DEF Walk
<1>0. TypeOK /\ DynamicProgramme /\ Contiguous /\ Spelled /\ RivalBound
  BY DEF IInv
<1>1. Count' = Count /\ Token' = Token /\ Count \in Nat
  BY <1>0, SameInputs DEF TypeOK, Count
<1> DEFINE token == choices[position]
<1>2. /\ position \in 0..(Count - 1)
      /\ SoundChoice(position)
  BY <1>0, <1>1 DEF TypeOK, DynamicProgramme
<1>3. /\ token \in Token
      /\ token.start = position
      /\ token.width \in {1, 2}
      /\ position + token.width \in 0..Count
  BY <1>1, <1>2 DEF SoundChoice, Token
<1>4. tokens' = Append(tokens, token) /\ position' = position + token.width
  OBVIOUS
<1> HIDE DEF token
<1>5. /\ tokens \in Seq(Token)
      /\ tokens' \in Seq(Token)
      /\ Len(tokens') = Len(tokens) + 1
      /\ \A k \in 1..Len(tokens) : tokens'[k] = tokens[k]
      /\ tokens'[Len(tokens) + 1] = token
  BY <1>0, <1>3, <1>4 DEF TypeOK
<1>6. TypeOK'
  BY <1>0, <1>1, <1>3, <1>4, <1>5 DEF TypeOK, Spelled
<1>7. DynamicProgramme'
  BY <1>0, DynamicProgrammeStable DEF DynamicProgramme
<1>8. Contiguous'
  <2>1. Len(tokens) \in Nat /\ position = End(Len(tokens))
    BY <1>0, <1>5 DEF Contiguous
  <2>2. ASSUME NEW k \in 0..Len(tokens) PROVE End(k)' = End(k)
    BY <1>5, <2>1 DEF End
  <2>3. ASSUME NEW k \in Nat, k = Len(tokens) + 1 PROVE End(k)' = position'
    BY <1>3, <1>4, <1>5, <2>1, <2>3 DEF End
  <2>4. ASSUME NEW k \in 1..Len(tokens')
        PROVE  /\ tokens'[k].start = End(k - 1)'
               /\ tokens'[k] = choices[tokens'[k].start]
    <3>1. End(k - 1)' = End(k - 1)
      BY <1>5, <2>1, <2>2
    <3>2. CASE k = Len(tokens) + 1
      <4>1. tokens'[k] = token /\ End(k - 1) = position
        BY <1>5, <2>1, <3>2
      <4>2. QED
        BY <1>3, <3>1, <4>1 DEF token
    <3>3. CASE k # Len(tokens) + 1
      <4>1. k \in 1..Len(tokens)
        BY <1>5, <2>1, <3>3
      <4>2. QED
        BY <1>0, <1>5, <3>1, <4>1 DEF Contiguous
    <3>4. QED
      BY <3>2, <3>3
  <2>5. position' = End(Len(tokens))'
    BY <1>5, <2>1, <2>3
  <2>6. QED
    BY <2>4, <2>5 DEF Contiguous
<1>9. Spelled' /\ RivalBound' /\ SectionMatchesParse'
  BY <1>0 DEF Spelled, RivalBound, SectionMatchesParse
<1>10. QED
  BY <1>6, <1>7, <1>8, <1>9 DEF IInv

(* The walk ends exactly behind the last instruction.                      *)
LEMMA WalkCompleteInvariant ==
  ASSUME IInv, WalkComplete, UNCHANGED <<rivalPosition, rivalCost>>
  PROVE  IInv'
<1> USE DEF WalkComplete
<1>0. TypeOK /\ DynamicProgramme /\ Contiguous /\ Spelled /\ RivalBound
  BY DEF IInv
<1>1. Count' = Count /\ Token' = Token /\ Count \in Nat
  BY <1>0, SameInputs DEF TypeOK, Count
<1>2. TypeOK'
  BY <1>0, <1>1 DEF TypeOK, Phases
<1>3. DynamicProgramme'
  BY <1>0, DynamicProgrammeStable DEF DynamicProgramme
<1>4. Contiguous'
  <2>1. position = Count /\ End(Len(tokens)) = Count /\ emitted = 0
    BY <1>0, <1>1 DEF TypeOK, Contiguous, Spelled
  <2>2. QED
    BY <1>0, <1>1, <2>1 DEF Contiguous, End
<1>5. Spelled' /\ RivalBound' /\ SectionMatchesParse'
  <2>1. costs[0] \in Nat
    BY <1>0, <1>1 DEF DynamicProgramme
  <2>2. QED
    BY <1>0, <2>1 DEF Spelled, RivalBound, SectionMatchesParse
<1>6. QED
  BY <1>2, <1>3, <1>4, <1>5 DEF IInv

(* A token passes its checks, and its bytes are those its cost counted.    *)
LEMMA EmitInvariant ==
  ASSUME IInv, Emit, UNCHANGED <<rivalPosition, rivalCost>>
  PROVE  IInv'
<1> USE DEF Emit
<1>0. /\ TypeOK /\ DynamicProgramme /\ Contiguous /\ Spelled /\ RivalBound
      /\ UNCHANGED <<atoms, table>>
  BY DEF IInv
<1>1. Count' = Count /\ Token' = Token /\ Count \in Nat
  BY <1>0, SameInputs DEF TypeOK, Count
<1> DEFINE token == tokens[emitted + 1]
           emission == Emission(token.opcode, table[token.opcode],
                                Window(token.start, token.width))
<1>2. /\ emitted \in Nat
      /\ emitted + 1 \in 1..Len(tokens)
      /\ token \in Token
  BY <1>0 DEF TypeOK
<1>3. /\ token.start = position
      /\ token = choices[position]
      /\ position \in 0..(Count - 1)
  <2>1. token.start = End(emitted) /\ token = choices[token.start]
    BY <1>0, <1>2 DEF Contiguous
  <2>2. QED
    BY <1>0, <1>2, <2>1 DEF Contiguous, Token
<1>4. SoundChoice(position) /\ costs[position] \in Nat
  BY <1>0, <1>1, <1>3 DEF DynamicProgramme
<1>5. /\ position + token.width \in 0..Count
      /\ token.width \in {1, 2}
      /\ token.opcode \in Codable(position, token.width)
      /\ token.cost = Cost(token.opcode, position, token.width)
      /\ costs[position] = token.cost + costs[position + token.width]
  BY <1>1, <1>3, <1>4 DEF SoundChoice, Token, Total
<1>6. TokenIsSound(token)
  BY <1>3, <1>5 DEF TokenIsSound
<1>7. /\ output' = output \o emission
      /\ position' = position + token.width
      /\ emitted' = emitted + 1
      /\ phase' = phase
  BY <1>6
<1>8. emission \in Seq(Byte \cup Opcodes) /\ Len(emission) = token.cost
  <2> HIDE DEF token
  <2>1. atoms \in Seq(Atom) /\ table \in [Opcodes -> CodeEntry]
    BY <1>0 DEF TypeOK
  <2>2. position \in Nat /\ position + token.width <= Count
    BY <1>1, <1>3, <1>5
  <2>3. emission = Emission(token.opcode, table[token.opcode],
                            Window(position, token.width))
    BY <1>3
  <2>4. QED
    BY <1>5, <2>1, <2>2, <2>3, EmissionLength
<1> HIDE DEF token, emission
<1>9. /\ output' \in Seq(Byte \cup Opcodes)
      /\ Len(output') = Len(output) + token.cost
  BY <1>0, <1>7, <1>8, ConcatType DEF TypeOK
<1>10. TypeOK'
  BY <1>0, <1>1, <1>2, <1>5, <1>7, <1>9 DEF TypeOK, Phases
<1>11. DynamicProgramme'
  BY <1>0, <1>7, DynamicProgrammeStable DEF DynamicProgramme
<1>12. Contiguous'
  <2>1. ASSUME NEW k \in Nat, k = emitted + 1 PROVE End(k)' = position'
    BY <1>2, <1>3, <1>7, <2>1 DEF End, token
  <2>2. position' = End(emitted)'
    BY <1>2, <1>7, <2>1
  <2>3. \A k : End(k)' = End(k)
    BY DEF End
  <2>4. QED
    BY <1>0, <1>1, <1>7, <2>2, <2>3 DEF Contiguous
<1>13. Spelled' /\ RivalBound' /\ SectionMatchesParse'
  <2>1. Len(output') + costs[position'] = costs[0]
    <3>1. /\ Len(output) \in Nat
          /\ token.cost \in Nat
          /\ costs[position + token.width] \in Nat
          /\ Len(output) + costs[position] = costs[0]
      <4>1. costs[position + token.width] \in Nat
        BY <1>0, <1>1, <1>5 DEF DynamicProgramme
      <4>2. QED
        BY <1>0, <1>2, <4>1 DEF TypeOK, Spelled, Token
    <3>2. QED
      BY <1>5, <1>7, <1>9, <3>1
  <2>2. QED
    BY <1>0, <1>7, <2>1 DEF Spelled, RivalBound, SectionMatchesParse
<1>14. QED
  BY <1>10, <1>11, <1>12, <1>13 DEF IInv

(* The final checks of the section pass.                                   *)
LEMMA EmitCompleteInvariant ==
  ASSUME IInv, EmitComplete, UNCHANGED <<rivalPosition, rivalCost>>
  PROVE  IInv'
<1> USE DEF EmitComplete
<1>0. TypeOK /\ DynamicProgramme /\ Contiguous /\ Spelled /\ RivalBound
  BY DEF IInv
<1>1. Count' = Count /\ Token' = Token /\ Count \in Nat
  BY <1>0, SameInputs DEF TypeOK, Count
<1>2. /\ position = Count
      /\ costs[Count] = 0
      /\ Len(output) \in Nat
      /\ Len(output) = costs[0]
  BY <1>0, <1>1 DEF TypeOK, Contiguous, Spelled, DynamicProgramme
<1>3. phase' = "done"
  BY <1>2
<1>4. TypeOK'
  BY <1>0, <1>1, <1>3 DEF TypeOK, Phases
<1>5. DynamicProgramme'
  BY <1>0, DynamicProgrammeStable DEF DynamicProgramme
<1>6. Contiguous'
  BY <1>0, <1>1, <1>3 DEF Contiguous, End
<1>7. Spelled' /\ RivalBound' /\ SectionMatchesParse'
  BY <1>0, <1>1, <1>2, <1>3 DEF Spelled, RivalBound, SectionMatchesParse
<1>8. QED
  BY <1>4, <1>5, <1>6, <1>7 DEF IInv

(* The rival's step: what it pays is at least what it takes off the cost   *)
(* of the rest, by Bellman's equation at its position.                     *)
LEMMA RivalInvariant ==
  ASSUME IInv, RivalStep
  PROVE  IInv'
<1> USE DEF RivalStep, vars
<1>0. TypeOK /\ DynamicProgramme /\ Contiguous /\ Spelled /\ RivalBound
  BY DEF IInv
<1>1. /\ Count' = Count /\ Token' = Token /\ Count \in Nat
      /\ UNCHANGED <<atoms, table, phase, start, costs, choices,
                     position, tokens, emitted, output>>
  BY <1>0, SameInputs DEF TypeOK, Count
<1>2. PICK width \in {1, 2} :
        /\ rivalPosition + width <= Count
        /\ \E op \in Codable(rivalPosition, width) :
             rivalCost' = rivalCost + Cost(op, rivalPosition, width)
        /\ rivalPosition' = rivalPosition + width
  OBVIOUS
<1>3. PICK op \in Codable(rivalPosition, width) :
        rivalCost' = rivalCost + Cost(op, rivalPosition, width)
  BY <1>2
<1>4. /\ rivalPosition \in 0..(Count - 1)
      /\ rivalPosition' \in 0..Count
      /\ rivalCost \in Nat
      /\ Cost(op, rivalPosition, width) \in Nat
  BY <1>0, <1>1, <1>2, CostType DEF TypeOK
<1>5. /\ costs[rivalPosition] \in Nat
      /\ CheapestSuffix(rivalPosition)
      /\ costs[rivalPosition'] \in Nat
      /\ costs[0] \in Nat
  BY <1>0, <1>1, <1>4 DEF DynamicProgramme, RivalStep
<1>6. costs[rivalPosition]
        <= Cost(op, rivalPosition, width) + costs[rivalPosition']
  BY <1>2, <1>5 DEF CheapestSuffix
<1>7. costs[0] <= rivalCost' + costs[rivalPosition']
  BY <1>0, <1>3, <1>4, <1>5, <1>6 DEF RivalBound
<1>8. TypeOK'
  BY <1>0, <1>1, <1>3, <1>4 DEF TypeOK
<1>9. DynamicProgramme'
  BY <1>0, <1>1, DynamicProgrammeStable DEF DynamicProgramme
<1>10. Contiguous'
  BY <1>0, <1>1 DEF Contiguous, End
<1>11. Spelled' /\ RivalBound' /\ SectionMatchesParse'
  BY <1>0, <1>1, <1>7 DEF Spelled, RivalBound, SectionMatchesParse
<1>12. QED
  BY <1>8, <1>9, <1>10, <1>11 DEF IInv
-----------------------------------------------------------------------------
(* The invariant is preserved by every step ...                            *)
LEMMA StepInvariant == IInv /\ [RivalNext]_allVars => IInv'
<1> SUFFICES ASSUME IInv, [RivalNext]_allVars PROVE IInv'
  OBVIOUS
<1>1. ASSUME Next, UNCHANGED <<rivalPosition, rivalCost>> PROVE IInv'
  BY <1>1, ChooseTokenInvariant, CannotEncodeInvariant, CostsCompleteInvariant,
     WalkInvariant, WalkCompleteInvariant, EmitInvariant, EmitCompleteInvariant
     DEF Next
<1>2. CASE RivalStep
  BY <1>2, RivalInvariant
<1>3. CASE UNCHANGED allVars
  <2>1. /\ UNCHANGED <<atoms, table, phase, start, costs, choices, position,
                       tokens, emitted, output, rivalPosition, rivalCost>>
        /\ Count' = Count /\ Token' = Token
    BY <1>3, SameInputs DEF allVars, vars
  <2>2. TypeOK'
    BY <2>1 DEF IInv, TypeOK
  <2>3. DynamicProgramme'
    BY <2>1, DynamicProgrammeStable DEF IInv, DynamicProgramme
  <2>4. Contiguous' /\ Spelled' /\ RivalBound' /\ SectionMatchesParse'
    BY <2>1 DEF IInv, Contiguous, End, Spelled, RivalBound, SectionMatchesParse
  <2>5. QED
    BY <2>2, <2>3, <2>4 DEF IInv
<1>4. QED
  BY <1>1, <1>2, <1>3 DEF RivalNext, ParserStep

(* ... so it holds throughout the parse, for every program and table.      *)
THEOREM Invariance == RivalSpec => []IInv
<1>1. RivalInit => IInv
  BY InitInvariant
<1>2. QED
  BY <1>1, StepInvariant, PTL DEF RivalSpec

(* The variables of the parse keep their types.                            *)
THEOREM TypeCorrect == RivalSpec => []TypeOK
<1>1. IInv => TypeOK
  BY DEF IInv
<1>2. QED
  BY <1>1, Invariance, PTL

(* encode_instruction_section accepts every parse of optimal_parse.        *)
THEOREM SectionCorrect == RivalSpec => []SectionMatchesParse
<1>1. IInv => SectionMatchesParse
  BY DEF IInv
<1>2. QED
  BY <1>1, Invariance, PTL

(* The section that is written is the shortest the table allows.           *)
THEOREM ParseIsOptimal == RivalSpec => []Optimal
<1>1. IInv => Optimal
  BY DEF IInv, TypeOK, RivalBound, Spelled, DynamicProgramme, Optimal
<1>2. QED
  BY <1>1, Invariance, PTL
-----------------------------------------------------------------------------
(* What optimal_parse raises for: an instruction that no entry begins at.   *)
Stuck ==
  phase = "unencodable" => start \in 0..(Count - 1) /\ Options(start) = {}

(* It raises for nothing else, and nothing happens after.                   *)
LEMMA StuckStep ==
  ASSUME TypeOK, Stuck, [RivalNext]_allVars
  PROVE  Stuck'
<1>1. CASE CannotEncode
  <2>1. /\ start \in 0..(Count - 1) /\ Options(start) = {}
        /\ atoms' = atoms /\ table' = table /\ start' = start
    BY <1>1 DEF CannotEncode, TypeOK, Count
  <2>2. Count' = Count /\ Options(start)' = Options(start)
    BY <2>1 DEF Count, Options, IsBestEntry, Codable, Cost, Window
  <2>3. QED
    BY <2>1, <2>2 DEF Stuck
<1>2. CASE UNCHANGED allVars
  <2>1. phase' = phase /\ atoms' = atoms /\ table' = table /\ start' = start
    BY <1>2 DEF allVars, vars
  <2>2. Count' = Count /\ Options(start)' = Options(start)
    BY <2>1 DEF Count, Options, IsBestEntry, Codable, Cost, Window
  <2>3. QED
    BY <2>1, <2>2 DEF Stuck
<1>3. CASE RivalStep
  <2>1. phase' = "done"
    BY <1>3 DEF RivalStep, vars
  <2>2. QED
    BY <2>1 DEF Stuck
<1>4. ASSUME ChooseToken \/ CostsComplete \/ Walk \/ WalkComplete \/ Emit \/ EmitComplete
      PROVE  Stuck'
  <2>1. phase' # "unencodable"
    BY <1>4 DEF ChooseToken, CostsComplete, Walk, WalkComplete, Emit, EmitComplete
  <2>2. QED
    BY <2>1 DEF Stuck
<1>5. QED
  BY <1>1, <1>2, <1>3, <1>4 DEF RivalNext, ParserStep, Next

(* A table that validate_table accepts has a generic entry for every        *)
(* instruction whose mode the caches have.                                  *)
LEMMA GenericEntry ==
  ASSUME TypeOK, IsValidTable(table), NEW i \in 1..Count, atoms[i].mode < Modes
  PROVE  Codable(i - 1, 1) # {}
<1> DEFINE a == atoms[i]
           open == {o \in TableOpcodes : table[o].size1 = 0 /\ table[o].inst2 = NOOP}
<1>1. a \in Atom
  BY DEF TypeOK, Count
<1>2. /\ a.type \in {ADD, RUN, COPY} /\ a.mode \in Nat
      /\ a.type # COPY => a.mode = 0
  BY <1>1 DEF Atom, ModeIsLegal
<1>3. Modes \in Nat
  BY TableAssumption DEF TableAssumption, Modes
<1>4. <<a.type, a.mode>> \in {<<RUN, 0>>, <<ADD, 0>>} \cup ({COPY} \X (0..(Modes - 1)))
  <2>1. a.type = COPY => a.mode \in 0..(Modes - 1)
    BY <1>2, <1>3
  <2>2. QED
    BY <1>2, <2>1
<1>5. <<a.type, a.mode>> \in {<<table[op].inst1, table[op].mode1>> : op \in open}
  BY <1>4 DEF IsValidTable
<1>6. PICK op \in open : <<a.type, a.mode>> = <<table[op].inst1, table[op].mode1>>
  BY <1>5
<1>7. op \in Opcodes /\ table[op].size1 = 0 /\ table[op].inst2 = NOOP
      /\ table[op].inst1 = a.type /\ table[op].mode1 = a.mode
  BY <1>6, OpcodesAssumption DEF OpcodesAssumption
<1>8. Window(i - 1, 1) = SubSeq(atoms, i, i) /\ Len(Window(i - 1, 1)) = 1
      /\ Window(i - 1, 1)[1] = a
  BY DEF Window, TypeOK, Count
<1>9. EntryMatches(table[op], Window(i - 1, 1))
  BY <1>7, <1>8 DEF EntryMatches, HalfMatches, Width
<1>10. QED
  BY <1>7, <1>9 DEF Codable

(* With a valid table the parse fails only on a mode that the caches do not *)
(* have.                                                                    *)
THEOREM ValidTablesServe == RivalSpec => []ValidTablesEncode
<1>1. RivalInit => Stuck
  BY DEF RivalInit, Init, Stuck
<1>2. TypeOK /\ Stuck /\ [RivalNext]_allVars => Stuck'
  BY StuckStep
<1>3. TypeOK /\ Stuck => ValidTablesEncode
  <2>1. SUFFICES ASSUME TypeOK, Stuck, phase = "unencodable", IsValidTable(table),
                        \A i \in 1..Count : ~(atoms[i].mode >= Modes)
                 PROVE  FALSE
    BY DEF ValidTablesEncode
  <2>2. start \in 0..(Count - 1) /\ Options(start) = {} /\ Count \in Nat
        /\ atoms \in Seq(Atom)
    BY <2>1 DEF Stuck, TypeOK, Count
  <2>3. start + 1 \in 1..Count /\ start + 1 - 1 = start /\ start \in Nat /\ start + 1 <= Count
    BY <2>2
  <2>4. Modes \in Nat /\ atoms[start + 1].mode \in Nat
    BY <2>2, <2>3, TableAssumption DEF TableAssumption, Modes, Atom, Count
  <2>5. atoms[start + 1].mode < Modes
    BY <2>1, <2>3, <2>4
  <2>6. PICK op : op \in Codable(start, 1)
    BY <2>1, <2>3, <2>5, GenericEntry
  <2>7. PICK best \in Opcodes : IsBestEntry(best, start, 1)
    BY <2>2, <2>3, <2>6, BestEntryExists, ParserAssumption
  <2>8. [start |-> start, width |-> 1, opcode |-> best, cost |-> Cost(best, start, 1)]
          \in Options(start)
    BY <2>3, <2>7 DEF Options
  <2>9. QED
    BY <2>2, <2>8
<1>4. QED
  BY <1>1, <1>2, <1>3, TypeCorrect, PTL DEF RivalSpec
=============================================================================
