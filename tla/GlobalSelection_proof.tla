----------------------- MODULE GlobalSelection_proof -----------------------
(***************************************************************************)
(* Proofs about GlobalSelection: that the search over slots, selections    *)
(* and varint regimes finds a shortest patch of the whole family, and that *)
(* the pruning, the fixed edges and the relaxation on the way lose         *)
(* nothing, for every window, table extent, number of slots and header     *)
(* length.                                                                 *)
(*                                                                         *)
(* The argument: build_custom_table installs a selection in the first      *)
(* opcodes of the pair bank, a bijection from the sorted selection; so a   *)
(* parse with the table and a cover by the edges that solve_selection or   *)
(* solve_global_selection left can be compared edge by edge, and since     *)
(* every length has just one varint regime, the answers open to the solver *)
(* are as short as the patches they stand for.                             *)
(*                                                                         *)
(* Last, that the header carries the table that was found: the delta       *)
(* copies from the default table only what no selection changes.           *)
(***************************************************************************)
EXTENDS GlobalSelection, FiniteSetTheorems, WellFoundedInduction, SequenceTheorems,
        TLAPS
-----------------------------------------------------------------------------
(* Numbers and finite sets.                                                *)

(* The naturals are well ordered.                                          *)
LEMMA LeastNumber ==
  ASSUME NEW T, T \subseteq Nat, T # {}
  PROVE  \E m \in T : \A n \in T : m <= n
<1> DEFINE less == OpToRel(<, Nat)
<1>1. PICK m \in T : \A n \in T : ~(<<n, m>> \in less)
  BY NatLessThanWellFounded, WFMin, Zenon
<1>2. ASSUME NEW n \in Nat, n < m PROVE <<n, m>> \in less
  BY <1>2 DEF OpToRel
<1> HIDE DEF less
<1>3. ASSUME NEW n \in T PROVE m <= n
  <2>1. ~(n < m)
    BY <1>1, <1>2
  <2> QED
    BY <2>1
<1> QED
  BY <1>3

(* The least of some naturals is one of them.                              *)
LEMMA MinNumber ==
  ASSUME NEW T, T \subseteq Nat, T # {}
  PROVE  Min(T) \in T /\ \A n \in T : Min(T) <= n
BY LeastNumber DEF Min

(* So is the greatest of finitely many.                                    *)
LEMMA MaxNumber ==
  ASSUME NEW T, T \subseteq Nat, T # {}, IsFiniteSet(T)
  PROVE  Max(T) \in T /\ \A n \in T : n <= Max(T)
<1> DEFINE Has(U) == U = {} \/ \E m \in U : \A n \in U : n <= m
           Sizes == {k \in Nat : \E U \in SUBSET T : Cardinality(U) = k /\ ~Has(U)}
<1>1. \A U \in SUBSET T : IsFiniteSet(U) /\ Cardinality(U) \in Nat
  BY FS_Subset, FS_CardinalityType
<1>2. Sizes = {}
  <2>1. SUFFICES ASSUME Sizes # {} PROVE FALSE
    OBVIOUS
  <2>2. PICK k \in Sizes : \A n \in Sizes : k <= n
    <3>1. Sizes \subseteq Nat
      OBVIOUS
    <3> HIDE DEF Sizes
    <3> QED
      BY <2>1, <3>1, LeastNumber
  <2>3. PICK U \in SUBSET T : Cardinality(U) = k /\ ~Has(U)
    BY <2>2
  <2>4. PICK x \in U : TRUE
    BY <2>3
  <2>5. Cardinality(U \ {x}) = Cardinality(U) - 1
    BY <1>1, FS_RemoveElement
  <2>6. Cardinality(U \ {x}) \in Nat /\ k \in Nat
    BY <1>1, <2>3
  <2>7. Has(U \ {x})
    <3>1. ~(k <= Cardinality(U \ {x}))
      BY <2>3, <2>5, <2>6
    <3>2. Cardinality(U \ {x}) \notin Sizes
      BY <2>2, <3>1
    <3> HIDE DEF Has
    <3> QED
      BY <2>6, <3>2
  <2>8. CASE U \ {x} = {}
    <3>1. \A n \in U : n = x /\ n \in Nat
      BY <2>8
    <3>2. \A n \in U : n <= x
      BY <3>1
    <3> QED
      BY <2>3, <3>2
  <2>9. CASE U \ {x} # {}
    <3>1. PICK m \in U \ {x} : \A n \in U \ {x} : n <= m
      BY <2>7, <2>9
    <3>2. \A n \in U : n \in Nat
      OBVIOUS
    <3>3. CASE x <= m
      BY <2>3, <3>1, <3>3
    <3>4. CASE ~(x <= m)
      <4>1. \A n \in U : n <= x
        BY <3>1, <3>2, <3>4
      <4> QED
        BY <2>3, <4>1
    <3> QED
      BY <3>3, <3>4
  <2> QED
    BY <2>8, <2>9
<1>3. Has(T)
  <2>1. T \in SUBSET T /\ Cardinality(T) \in Nat
    BY <1>1
  <2> HIDE DEF Has
  <2> QED
    BY <1>2, <2>1
<1>4. \E m \in T : \A n \in T : m >= n
  BY <1>3
<1>5. Max(T) \in T /\ \A n \in T : Max(T) >= n
  BY <1>4 DEF Max
<1> QED
  BY <1>5

(* The least and the greatest of two or three integers.                    *)
LEMMA Extremes ==
  ASSUME NEW a \in Int, NEW b \in Int, NEW c \in Int
  PROVE  /\ Max({a, b}) \in {a, b} /\ a <= Max({a, b}) /\ b <= Max({a, b})
         /\ Min({a, b}) \in {a, b} /\ Min({a, b}) <= a /\ Min({a, b}) <= b
         /\ Max({a, b, c}) \in {a, b, c}
         /\ a <= Max({a, b, c}) /\ b <= Max({a, b, c}) /\ c <= Max({a, b, c})
         /\ Min({a, b, c}) \in {a, b, c}
         /\ Min({a, b, c}) <= a /\ Min({a, b, c}) <= b /\ Min({a, b, c}) <= c
<1>1. /\ \E m \in {a, b} : \A n \in {a, b} : m >= n
      /\ \E m \in {a, b} : \A n \in {a, b} : m <= n
  OBVIOUS
<1>2. /\ \E m \in {a, b, c} : \A n \in {a, b, c} : m >= n
      /\ \E m \in {a, b, c} : \A n \in {a, b, c} : m <= n
  OBVIOUS
<1>3. /\ Max({a, b}) \in {a, b} /\ \A n \in {a, b} : Max({a, b}) >= n
      /\ Min({a, b}) \in {a, b} /\ \A n \in {a, b} : Min({a, b}) <= n
  BY <1>1 DEF Max, Min
<1>4. /\ Max({a, b, c}) \in {a, b, c} /\ \A n \in {a, b, c} : Max({a, b, c}) >= n
      /\ Min({a, b, c}) \in {a, b, c} /\ \A n \in {a, b, c} : Min({a, b, c}) <= n
  BY <1>2 DEF Max, Min
<1> QED
  BY <1>3, <1>4

(* The image of a finite set is finite.                                    *)
LEMMA ImageFinite ==
  ASSUME NEW S, IsFiniteSet(S), NEW f
  PROVE  IsFiniteSet({f[x] : x \in S})
<1> DEFINE T == {f[x] : x \in S}
           g == [x \in S |-> f[x]]
<1>1. g \in Surjection(S, T)
  BY DEF Surjection
<1> HIDE DEF T, g
<1>2. IsFiniteSet(T)
  BY <1>1, FS_Surjection
<1> QED
  BY <1>2 DEF T
-----------------------------------------------------------------------------
(* The lengths of integers (varint.py).                                    *)

(* The powers that the code meets are naturals, each one Base times the    *)
(* last.                                                                   *)
LEMMA Powers ==
  /\ Base \in Nat \ {0, 1} /\ DigitLimit \in Nat /\ Base ^ 0 = 1
  /\ \A k \in 0..(DigitLimit + 1) : Base ^ k \in Nat \ {0}
  /\ \A k \in 0..DigitLimit : Base ^ (k + 1) = Base ^ k * Base
<1>1. /\ Base \in Nat \ {0, 1} /\ DigitLimit \in Nat /\ Base ^ 0 = 1
      /\ \A k \in 0..DigitLimit : Base ^ k \in Nat \ {0} /\ Base ^ (k + 1) = Base ^ k * Base
  BY VarintAssumption, PowerAssumption DEF VarintAssumption, PowerAssumption
<1>2. ASSUME NEW k \in 0..(DigitLimit + 1) PROVE Base ^ k \in Nat \ {0}
  <2>1. CASE k \in 0..DigitLimit
    BY <1>1, <2>1
  <2>2. CASE k = DigitLimit + 1
    <3>1. /\ Base ^ (DigitLimit + 1) = Base ^ DigitLimit * Base
          /\ Base ^ DigitLimit \in Nat /\ Base ^ DigitLimit # 0
      BY <1>1
    <3>2. \A a, b \in Nat : a # 0 /\ b # 0 => a * b \in Nat \ {0}
      OBVIOUS
    <3> QED
      BY <1>1, <2>2, <3>1, <3>2
  <2> QED
    BY <1>1, <2>1, <2>2
<1> QED
  BY <1>1, <1>2

(* They grow.                                                              *)
LEMMA PowersGrow ==
  ASSUME NEW j \in 0..(DigitLimit + 1), NEW k \in 0..(DigitLimit + 1), j <= k
  PROVE  Base ^ j <= Base ^ k
<1> DEFINE Bad == {m \in j..(DigitLimit + 1) : ~(Base ^ j <= Base ^ m)}
<1>1. DigitLimit \in Nat
  BY Powers
<1>2. SUFFICES ASSUME Bad # {} PROVE FALSE
  BY <1>1
<1>3. PICK m \in Bad : \A n \in Bad : m <= n
  <2>1. Bad \subseteq Nat
    BY <1>1
  <2> HIDE DEF Bad
  <2> QED
    BY <1>2, <2>1, LeastNumber
<1>4. m # j
  BY <1>1, Powers
<1>5. m - 1 \in j..(DigitLimit + 1) /\ m - 1 \in 0..DigitLimit /\ ~(m <= m - 1)
      /\ (m - 1) + 1 = m
  BY <1>1, <1>4
<1>6. Base ^ j <= Base ^ (m - 1)
  BY <1>3, <1>5
<1>7. Base ^ m = Base ^ (m - 1) * Base
  BY <1>5, Powers
<1>8. Base ^ (m - 1) \in Nat /\ Base ^ j \in Nat /\ Base \in Nat /\ Base # 0
  BY <1>1, <1>5, Powers
<1>9. \A a, b \in Nat : b # 0 => a <= a * b
  OBVIOUS
<1>10. Base ^ (m - 1) <= Base ^ m
  BY <1>7, <1>8, <1>9
<1>11. Base ^ m \in Nat
  BY <1>1, Powers
<1> QED
  BY <1>6, <1>8, <1>10, <1>11

(* The size of an integer lies between the powers that it lies between.    *)
LEMMA SizeBounds ==
  ASSUME NEW n \in 0..MaxValue
  PROVE  /\ VarintSize(n) \in 1..(DigitLimit + 1) /\ n < Base ^ VarintSize(n)
         /\ VarintSize(n) > 1 => n >= Base ^ (VarintSize(n) - 1)
<1> DEFINE Above == {m \in 1..(DigitLimit + 1) : n < Base ^ m}
           K == {k \in 1..DigitLimit : n >= Base ^ k}
<1>1. DigitLimit \in Nat /\ Base ^ (DigitLimit + 1) \in Nat
  BY Powers
<1>2. n \in Nat /\ n < Base ^ (DigitLimit + 1)
  BY <1>1 DEF MaxValue
<1>3. PICK m \in Above : \A k \in Above : m <= k
  <2>1. Above \subseteq Nat /\ Above # {}
    BY <1>1, <1>2
  <2> HIDE DEF Above
  <2> QED
    BY <2>1, LeastNumber
<1>4. m \in 1..(DigitLimit + 1) /\ n < Base ^ m
  BY <1>3
<1>5. ASSUME NEW k \in 1..(m - 1) PROVE k \in 1..DigitLimit /\ n >= Base ^ k
  <2>1. k \in 1..DigitLimit /\ k \in 1..(DigitLimit + 1) /\ ~(m <= k)
    BY <1>1, <1>4
  <2>2. ~(n < Base ^ k)
    BY <1>3, <2>1
  <2>3. Base ^ k \in Nat
    BY <1>1, <2>1, Powers
  <2> QED
    BY <1>2, <2>1, <2>2, <2>3
<1>6. ASSUME NEW k \in 1..DigitLimit, ~(k \in 1..(m - 1)) PROVE ~(n >= Base ^ k)
  <2>1. m <= k /\ m \in 0..(DigitLimit + 1) /\ k \in 0..(DigitLimit + 1)
    BY <1>1, <1>4, <1>6
  <2>2. Base ^ m <= Base ^ k /\ Base ^ m \in Nat /\ Base ^ k \in Nat
    BY <2>1, PowersGrow, Powers
  <2> QED
    BY <1>2, <1>4, <2>2
<1>7. K = 1..(m - 1)
  BY <1>5, <1>6
<1>8. Cardinality(K) = m - 1
  <2>1. 1 \in Int /\ m - 1 \in Int /\ m - 1 >= 0
    BY <1>1, <1>4
  <2> HIDE DEF K
  <2> QED
    BY <1>7, <2>1, FS_Interval
<1>9. VarintSize(n) = m
  <2>1. VarintSize(n) = 1 + Cardinality(K)
    BY DEF VarintSize
  <2> HIDE DEF K
  <2> QED
    BY <1>1, <1>4, <1>8, <2>1
<1>10. m > 1 => n >= Base ^ (m - 1)
  BY <1>1, <1>4, <1>5
<1> QED
  BY <1>4, <1>9, <1>10

(* varint_size does not decrease.                                          *)
LEMMA VarintSizeMonotone ==
  ASSUME NEW m \in Nat, NEW n \in Nat, m <= n
  PROVE  /\ VarintSize(m) \in Nat /\ VarintSize(n) \in Nat
         /\ VarintSize(m) <= VarintSize(n)
<1> DEFINE Below(x) == {k \in 1..DigitLimit : x >= Base ^ k}
<1>1. \A k \in 1..DigitLimit : Base ^ k \in Nat
  BY VarintAssumption DEF VarintAssumption
<1>2. Below(m) \subseteq Below(n) /\ Below(n) \subseteq 1..DigitLimit
  <2> SUFFICES ASSUME NEW k \in 1..DigitLimit, m >= Base ^ k PROVE n >= Base ^ k
    OBVIOUS
  <2> QED
    BY <1>1
<1>3. IsFiniteSet(1..DigitLimit)
  BY VarintAssumption, FS_Interval DEF VarintAssumption
<1>4. /\ IsFiniteSet(Below(n)) /\ IsFiniteSet(Below(m))
      /\ Cardinality(Below(m)) <= Cardinality(Below(n))
  BY <1>2, <1>3, FS_Subset
<1>5. Cardinality(Below(m)) \in Nat /\ Cardinality(Below(n)) \in Nat
  BY <1>4, FS_CardinalityType
<1> QED
  BY <1>4, <1>5 DEF VarintSize

(* _varint_interval is the interval of the integers of a length.           *)
LEMMA IntervalIs ==
  ASSUME NEW n \in 0..MaxValue, NEW k \in 1..(DigitLimit + 1)
  PROVE  /\ VarintInterval(k).low \in Int /\ VarintInterval(k).high \in Int
         /\ VarintInterval(k).low <= n /\ n <= VarintInterval(k).high <=> VarintSize(n) = k
<1> DEFINE s == VarintSize(n)
<1>1. DigitLimit \in Nat /\ Base ^ (DigitLimit + 1) \in Nat
  BY Powers
<1>2. n \in Nat
  BY <1>1 DEF MaxValue
<1>3. s \in 1..(DigitLimit + 1) /\ n < Base ^ s /\ (s > 1 => n >= Base ^ (s - 1))
  BY SizeBounds
<1> HIDE DEF s
<1>4. k \in 0..(DigitLimit + 1) /\ k - 1 \in 0..(DigitLimit + 1)
      /\ s \in 0..(DigitLimit + 1) /\ s - 1 \in 0..(DigitLimit + 1)
  BY <1>1, <1>3
<1>5. /\ Base ^ k \in Nat /\ Base ^ (k - 1) \in Nat
      /\ Base ^ s \in Nat /\ Base ^ (s - 1) \in Nat
  BY <1>4, Powers
<1>6. VarintInterval(k).low = (IF k = 1 THEN 0 ELSE Base ^ (k - 1))
      /\ VarintInterval(k).high = Base ^ k - 1
  BY DEF VarintInterval
<1>7. CASE s = k
  BY <1>2, <1>3, <1>5, <1>6, <1>7 DEF s
<1>8. CASE s < k
  <2>1. s <= k - 1 /\ k # 1
    BY <1>1, <1>3, <1>8
  <2>2. Base ^ s <= Base ^ (k - 1)
    BY <1>4, <2>1, PowersGrow
  <2> QED
    BY <1>2, <1>3, <1>5, <1>6, <1>8, <2>1, <2>2 DEF s
<1>9. CASE k < s
  <2>1. k <= s - 1 /\ s > 1
    BY <1>1, <1>3, <1>9
  <2>2. Base ^ k <= Base ^ (s - 1)
    BY <1>4, <2>1, PowersGrow
  <2> QED
    BY <1>2, <1>3, <1>5, <1>6, <1>9, <2>1, <2>2 DEF s
<1> QED
  BY <1>1, <1>3, <1>7, <1>8, <1>9

-----------------------------------------------------------------------------
(* Covers of a window by edges.                                            *)

(* Edges, finitely many, by which one gets from every instruction to the   *)
(* end.                                                                    *)
Passable(n, E) ==
  /\ n \in Nat /\ IsFiniteSet(E)
  /\ \A e \in E : /\ e.start \in 1..n /\ e.width \in {1, 2}
                  /\ e.start + e.width <= n + 1
                  /\ e.cost \in Nat
  /\ \A i \in 1..n : \E e \in E : e.start = i

From(i, E) == {e \in E : e.start = i}

StepCosts(f, i, E) == {e.cost + f[i + e.width] : e \in From(i, E)}

(* The costs of going on from an instruction, once those of the later ones *)
(* are numbers.                                                            *)
LEMMA StepCostsType ==
  ASSUME NEW n, NEW E, Passable(n, E), NEW i \in 1..n, NEW f,
         \A k \in (i + 1)..(n + 1) : f[k] \in Nat
  PROVE  /\ StepCosts(f, i, E) \subseteq Nat /\ StepCosts(f, i, E) # {}
         /\ IsFiniteSet(StepCosts(f, i, E))
         /\ \A e \in From(i, E) : /\ i + e.width \in (i + 1)..(n + 1)
                                  /\ e.cost + f[i + e.width] \in StepCosts(f, i, E)
<1>1. ASSUME NEW e \in From(i, E)
      PROVE  e.cost \in Nat /\ f[i + e.width] \in Nat /\ i + e.width \in (i + 1)..(n + 1)
  <2>1. e.start = i /\ e.width \in {1, 2} /\ e.start + e.width <= n + 1 /\ e.cost \in Nat
        /\ n \in Nat
    BY DEF From, Passable
  <2>2. i + e.width \in (i + 1)..(n + 1)
    BY <2>1
  <2> QED
    BY <2>1, <2>2
<1>2. From(i, E) # {} /\ IsFiniteSet(From(i, E))
  <2>1. From(i, E) \subseteq E
    BY DEF From
  <2>2. IsFiniteSet(From(i, E))
    BY <2>1, FS_Subset DEF Passable
  <2> QED
    BY <2>2 DEF From, Passable
<1>3. IsFiniteSet(StepCosts(f, i, E))
  <2> DEFINE g == [e \in From(i, E) |-> e.cost + f[i + e.width]]
  <2>1. StepCosts(f, i, E) = {g[e] : e \in From(i, E)}
    BY DEF StepCosts
  <2> HIDE DEF g
  <2>2. IsFiniteSet({g[e] : e \in From(i, E)})
    BY <1>2, ImageFinite
  <2> QED
    BY <2>1, <2>2
<1> QED
  BY <1>1, <1>2, <1>3 DEF StepCosts

(* Where a way to choose among costs leads: it chooses one of them from    *)
(* each instruction, from the last one on.                                 *)
LEMMA LeadsExist ==
  ASSUME NEW n, NEW E, Passable(n, E), NEW c,
         \A T \in SUBSET Nat : T # {} /\ IsFiniteSet(T) => c[T] \in T
  PROVE  \E f \in [1..(n + 1) -> Nat] :
           f[n + 1] = 0 /\ \A i \in 1..n : f[i] = c[StepCosts(f, i, E)]
<1> DEFINE value(f, i) == IF i = n + 1 THEN 0 ELSE c[StepCosts(f, i, E)]
           Good == {k \in 0..n : \E f \in [1..(n + 1) -> Nat] :
                                   \A i \in (n + 1 - k)..(n + 1) : f[i] = value(f, i)}
           Bad == (0..n) \ Good
<1>0. n \in Nat
  BY DEF Passable
<1>1. Bad = {}
  <2> SUFFICES ASSUME Bad # {} PROVE FALSE
    OBVIOUS
  <2>1. Bad \subseteq Nat
    BY <1>0
  <2>2. PICK m \in Bad : \A k \in Bad : m <= k
    <3> HIDE DEF Bad
    <3> QED
      BY <2>1, LeastNumber
  <2>3. m \in 0..n /\ m \in Nat
    BY <1>0, <2>2
  <2>4. m # 0
    <3> SUFFICES 0 \in Good
      BY <2>2
    <3> DEFINE f == [i \in 1..(n + 1) |-> 0]
    <3>1. f \in [1..(n + 1) -> Nat]
      OBVIOUS
    <3>2. \A i \in (n + 1 - 0)..(n + 1) : f[i] = value(f, i)
      <4> SUFFICES ASSUME NEW i \in (n + 1 - 0)..(n + 1) PROVE f[i] = value(f, i)
        OBVIOUS
      <4>1. i = n + 1 /\ i \in 1..(n + 1)
        BY <1>0
      <4> QED
        BY <4>1
    <3>3. 0 \in 0..n
      BY <1>0
    <3> HIDE DEF f, value
    <3> QED
      BY <3>1, <3>2, <3>3
  <2>5. m - 1 \in Good
    <3>1. m - 1 \in 0..n /\ ~(m <= m - 1)
      BY <1>0, <2>3, <2>4
    <3>2. m - 1 \notin Bad
      BY <2>2, <3>1
    <3> HIDE DEF Good
    <3> QED
      BY <3>1, <3>2
  <2>6. PICK f \in [1..(n + 1) -> Nat] :
          \A i \in (n + 1 - (m - 1))..(n + 1) : f[i] = value(f, i)
    <3> HIDE DEF value
    <3> QED
      BY <2>5
  <2> DEFINE j == n + 1 - m
             chosen == c[StepCosts(f, j, E)]
             g == [i \in 1..(n + 1) |-> IF i = j THEN chosen ELSE f[i]]
  <2>7. j \in 1..n /\ j # n + 1 /\ n + 1 - (m - 1) = j + 1
    BY <1>0, <2>3, <2>4
  <2>8. chosen \in Nat
    <3>1. \A k \in (j + 1)..(n + 1) : f[k] \in Nat
      BY <1>0, <2>7
    <3> HIDE DEF j
    <3>2. /\ StepCosts(f, j, E) \subseteq Nat /\ StepCosts(f, j, E) # {}
          /\ IsFiniteSet(StepCosts(f, j, E))
      BY <2>7, <3>1, StepCostsType
    <3> QED
      BY <3>2
  <2>9. g \in [1..(n + 1) -> Nat]
    <3> HIDE DEF chosen
    <3> QED
      BY <2>8
  <2>10. ASSUME NEW i \in j..n PROVE StepCosts(g, i, E) = StepCosts(f, i, E)
    <3>1. ASSUME NEW e \in From(i, E) PROVE g[i + e.width] = f[i + e.width]
      <4>1. e.start = i /\ e.width \in {1, 2} /\ e.start + e.width <= n + 1
        BY DEF From, Passable
      <4>2. i + e.width \in 1..(n + 1) /\ i + e.width # j
        BY <1>0, <2>7, <4>1, SMTT(30)
      <4> HIDE DEF j
      <4> QED
        BY <4>2
    <3> HIDE DEF g
    <3> QED
      BY <3>1 DEF StepCosts
  <2>11. ASSUME NEW i \in j..(n + 1) PROVE g[i] = value(g, i)
    <3>1. i \in 1..(n + 1)
      BY <1>0, <2>7
    <3>2. CASE i = j
      <4>1. g[i] = chosen /\ i # n + 1 /\ i \in j..n
        BY <1>0, <2>7, <3>1, <3>2
      <4>2. StepCosts(g, i, E) = StepCosts(f, j, E)
        BY <2>10, <3>2, <4>1
      <4> HIDE DEF g, j
      <4> QED
        BY <4>1, <4>2
    <3>3. CASE i # j
      <4>1. i \in (j + 1)..(n + 1)
        BY <1>0, <2>7, <3>3
      <4>2. f[i] = value(f, i)
        <5> HIDE DEF value, j
        <5> QED
          BY <2>6, <2>7, <4>1
      <4>3. g[i] = f[i]
        BY <3>1, <3>3
      <4>4. i # n + 1 => i \in j..n
        BY <1>0, <2>7
      <4> HIDE DEF g, j
      <4> QED
        BY <2>10, <4>2, <4>3, <4>4
    <3> QED
      BY <3>2, <3>3
  <2>12. m \in Good
    <3> HIDE DEF value, g
    <3> QED
      BY <2>3, <2>9, <2>11
  <2> QED
    BY <2>2, <2>12
<1>2. n \in Good
  <2>1. n \in 0..n
    BY <1>0
  <2> HIDE DEF Good
  <2> QED
    BY <1>1, <2>1
<1>3. PICK f \in [1..(n + 1) -> Nat] : \A i \in (n + 1 - n)..(n + 1) : f[i] = value(f, i)
  <2> HIDE DEF value
  <2> QED
    BY <1>2
<1>4. n + 1 - n = 1
  BY <1>0
<1>5. \A i \in 1..(n + 1) : f[i] = value(f, i)
  <2> HIDE DEF value
  <2> QED
    BY <1>3, <1>4
<1>6. f[n + 1] = 0 /\ \A i \in 1..n : f[i] = c[StepCosts(f, i, E)]
  <2>1. n + 1 \in 1..(n + 1) /\ \A i \in 1..n : i \in 1..(n + 1) /\ i # n + 1
    BY <1>0
  <2> QED
    BY <1>5, <2>1
<1> QED
  BY <1>3, <1>6

(* What goes from the end of the window to its start, an edge or two back  *)
(* at a time, reaches the start.                                           *)
LEMMA Backwards ==
  ASSUME NEW n \in Nat, NEW G, n + 1 \in G,
         ASSUME NEW i \in 1..n, \A k \in (i + 1)..(n + 1) : k \in G
         PROVE  i \in G
  PROVE  \A i \in 1..(n + 1) : i \in G
<1> DEFINE Bad == {j \in 0..n : n + 1 - j \notin G}
<1>1. Bad = {}
  <2> SUFFICES ASSUME Bad # {} PROVE FALSE
    OBVIOUS
  <2>1. PICK m \in Bad : \A j \in Bad : m <= j
    <3>1. Bad \subseteq Nat
      OBVIOUS
    <3> HIDE DEF Bad
    <3> QED
      BY <3>1, LeastNumber
  <2> DEFINE i == n + 1 - m
  <2>2. m \in 0..n /\ m # 0
    BY <2>1
  <2>3. i \in 1..n
    BY <2>2
  <2>4. ASSUME NEW k \in (i + 1)..(n + 1) PROVE k \in G
    <3>1. n + 1 - k \in 0..n /\ ~(m <= n + 1 - k) /\ n + 1 - (n + 1 - k) = k
      BY <2>2
    <3>2. n + 1 - k \notin Bad
      BY <2>1, <3>1
    <3> QED
      BY <3>1, <3>2
  <2>5. i \in G
    <3> HIDE DEF i
    <3> QED
      BY <2>3, <2>4
  <2> QED
    BY <2>1, <2>5
<1> QED
  <2> SUFFICES ASSUME NEW i \in 1..(n + 1) PROVE i \in G
    OBVIOUS
  <2>1. n + 1 - i \in 0..n /\ n + 1 - (n + 1 - i) = i
    OBVIOUS
  <2> QED
    BY <1>1, <2>1

(* LeastCover is where the least costs from every instruction start, and   *)
(* MostCover where the greatest do.                                        *)
IsLeast(f, n, E) ==
  f = [i \in 1..(n + 1) |-> IF i = n + 1 THEN 0 ELSE Min(StepCosts(f, i, E))]

IsMost(f, n, E) ==
  f = [i \in 1..(n + 1) |-> IF i = n + 1 THEN 0 ELSE Max(StepCosts(f, i, E))]

(* The least costs exist, and are the least.                               *)
LEMMA LeastCoverIs ==
  ASSUME NEW n, NEW E, Passable(n, E)
  PROVE  \E f : /\ LeastCover(n, E) = f[1] /\ f[n + 1] = 0
                /\ \A i \in 1..(n + 1) : f[i] \in Nat
                /\ \A i \in 1..n : \A e \in From(i, E) : f[i] <= e.cost + f[i + e.width]
                /\ \A i \in 1..n : \E e \in From(i, E) : f[i] = e.cost + f[i + e.width]
<1> DEFINE f == CHOOSE f : IsLeast(f, n, E)
<1>0. n \in Nat
  BY DEF Passable
<1>1. LeastCover(n, E) = f[1]
  BY DEF LeastCover, IsLeast, StepCosts, From
<1>2. IsLeast(f, n, E)
  <2> DEFINE c == [T \in SUBSET Nat |-> Min(T)]
  <2>1. \A T \in SUBSET Nat : T # {} /\ IsFiniteSet(T) => c[T] \in T
    BY MinNumber
  <2> HIDE DEF c
  <2>2. PICK g \in [1..(n + 1) -> Nat] :
          g[n + 1] = 0 /\ \A i \in 1..n : g[i] = c[StepCosts(g, i, E)]
    BY <2>1, LeadsExist
  <2>3. ASSUME NEW i \in 1..n PROVE g[i] = Min(StepCosts(g, i, E))
    <3>1. \A k \in (i + 1)..(n + 1) : g[k] \in Nat
      BY <1>0
    <3>2. StepCosts(g, i, E) \subseteq Nat
      BY <3>1, StepCostsType
    <3> QED
      BY <2>2, <3>2 DEF c
  <2>4. ASSUME NEW i \in 1..(n + 1)
        PROVE  g[i] = IF i = n + 1 THEN 0 ELSE Min(StepCosts(g, i, E))
    <3>1. i # n + 1 => i \in 1..n
      BY <1>0
    <3> QED
      BY <2>2, <2>3, <3>1
  <2>5. IsLeast(g, n, E)
    BY <2>4 DEF IsLeast
  <2> QED
    BY <2>5
<1> HIDE DEF f
<1>3. f[n + 1] = 0 /\ \A i \in 1..n : f[i] = Min(StepCosts(f, i, E))
  <2>1. \A i \in 1..(n + 1) : f[i] = IF i = n + 1 THEN 0 ELSE Min(StepCosts(f, i, E))
    BY <1>2 DEF IsLeast
  <2>2. n + 1 \in 1..(n + 1) /\ \A i \in 1..n : i \in 1..(n + 1) /\ i # n + 1
    BY <1>0
  <2> QED
    BY <2>1, <2>2
<1>4. ASSUME NEW i \in 1..n, \A k \in (i + 1)..(n + 1) : f[k] \in Nat
      PROVE  /\ f[i] \in StepCosts(f, i, E) /\ f[i] \in Nat
             /\ \A k \in StepCosts(f, i, E) : f[i] <= k
  <2>1. StepCosts(f, i, E) \subseteq Nat /\ StepCosts(f, i, E) # {}
    BY <1>4, StepCostsType
  <2> QED
    BY <1>3, <2>1, MinNumber
<1>5. \A i \in 1..(n + 1) : f[i] \in Nat
  <2> DEFINE G == {i \in 1..(n + 1) : f[i] \in Nat}
  <2>1. n + 1 \in G
    BY <1>0, <1>3
  <2>2. ASSUME NEW i \in 1..n, \A k \in (i + 1)..(n + 1) : k \in G PROVE i \in G
    BY <1>0, <1>4, <2>2
  <2> HIDE DEF G
  <2>3. \A i \in 1..(n + 1) : i \in G
    BY <1>0, <2>1, <2>2, Backwards
  <2> QED
    BY <2>3 DEF G
<1>6. ASSUME NEW i \in 1..n
      PROVE  /\ \A e \in From(i, E) : f[i] <= e.cost + f[i + e.width]
             /\ \E e \in From(i, E) : f[i] = e.cost + f[i + e.width]
  <2>1. \A k \in (i + 1)..(n + 1) : f[k] \in Nat
    BY <1>0, <1>5
  <2> QED
    BY <1>4, <2>1 DEF StepCosts
<1> QED
  BY <1>1, <1>3, <1>5, <1>6

(* The dearest cover is not cheaper than the cheapest.                     *)
LEMMA MostCoverIs ==
  ASSUME NEW n, NEW E, Passable(n, E)
  PROVE  /\ LeastCover(n, E) \in Nat /\ MostCover(n, E) \in Nat
         /\ LeastCover(n, E) <= MostCover(n, E)
<1> DEFINE g == CHOOSE f : IsMost(f, n, E)
<1>0. n \in Nat
  BY DEF Passable
<1>1. MostCover(n, E) = g[1]
  BY DEF MostCover, IsMost, StepCosts, From
<1>2. IsMost(g, n, E)
  <2> DEFINE c == [T \in SUBSET Nat |-> Max(T)]
  <2>1. \A T \in SUBSET Nat : T # {} /\ IsFiniteSet(T) => c[T] \in T
    BY MaxNumber
  <2> HIDE DEF c
  <2>2. PICK f \in [1..(n + 1) -> Nat] :
          f[n + 1] = 0 /\ \A i \in 1..n : f[i] = c[StepCosts(f, i, E)]
    BY <2>1, LeadsExist
  <2>3. ASSUME NEW i \in 1..n PROVE f[i] = Max(StepCosts(f, i, E))
    <3>1. \A k \in (i + 1)..(n + 1) : f[k] \in Nat
      BY <1>0
    <3>2. StepCosts(f, i, E) \subseteq Nat
      BY <3>1, StepCostsType
    <3> QED
      BY <2>2, <3>2 DEF c
  <2>4. ASSUME NEW i \in 1..(n + 1)
        PROVE  f[i] = IF i = n + 1 THEN 0 ELSE Max(StepCosts(f, i, E))
    <3>1. i # n + 1 => i \in 1..n
      BY <1>0
    <3> QED
      BY <2>2, <2>3, <3>1
  <2>5. IsMost(f, n, E)
    BY <2>4 DEF IsMost
  <2> QED
    BY <2>5
<1> HIDE DEF g
<1>3. g[n + 1] = 0 /\ \A i \in 1..n : g[i] = Max(StepCosts(g, i, E))
  <2>1. \A i \in 1..(n + 1) : g[i] = IF i = n + 1 THEN 0 ELSE Max(StepCosts(g, i, E))
    BY <1>2 DEF IsMost
  <2>2. n + 1 \in 1..(n + 1) /\ \A i \in 1..n : i \in 1..(n + 1) /\ i # n + 1
    BY <1>0
  <2> QED
    BY <2>1, <2>2
<1>4. PICK f : /\ LeastCover(n, E) = f[1] /\ f[n + 1] = 0
               /\ \A i \in 1..(n + 1) : f[i] \in Nat
               /\ \A i \in 1..n : \E e \in From(i, E) : f[i] = e.cost + f[i + e.width]
  BY LeastCoverIs
<1> DEFINE G == {i \in 1..(n + 1) : g[i] \in Nat /\ f[i] <= g[i]}
<1>5. n + 1 \in G
  BY <1>0, <1>3, <1>4
<1>6. ASSUME NEW i \in 1..n, \A k \in (i + 1)..(n + 1) : k \in G
      PROVE  i \in G
  <2>1. \A k \in (i + 1)..(n + 1) : g[k] \in Nat /\ f[k] \in Nat /\ f[k] <= g[k]
    BY <1>0, <1>4, <1>6
  <2> HIDE DEF G
  <2>2. /\ StepCosts(g, i, E) \subseteq Nat /\ StepCosts(g, i, E) # {}
        /\ IsFiniteSet(StepCosts(g, i, E))
        /\ \A e \in From(i, E) : /\ i + e.width \in (i + 1)..(n + 1)
                                 /\ e.cost + g[i + e.width] \in StepCosts(g, i, E)
    BY <2>1, StepCostsType
  <2>3. g[i] \in Nat /\ \A k \in StepCosts(g, i, E) : k <= g[i]
    BY <1>3, <2>2, MaxNumber
  <2>4. PICK e \in From(i, E) : f[i] = e.cost + f[i + e.width]
    BY <1>4
  <2>5. e.cost \in Nat
    BY DEF From, Passable
  <2>6. f[i + e.width] <= g[i + e.width] /\ e.cost + g[i + e.width] <= g[i]
        /\ f[i + e.width] \in Nat /\ g[i + e.width] \in Nat /\ f[i] \in Nat
    BY <1>0, <1>4, <2>1, <2>2, <2>3
  <2>7. i \in 1..(n + 1) /\ f[i] <= g[i]
    BY <1>0, <2>3, <2>4, <2>5, <2>6
  <2> QED
    BY <2>3, <2>7 DEF G
<1> HIDE DEF G
<1>7. 1 \in 1..(n + 1) /\ \A i \in 1..(n + 1) : i \in G
  <2>1. \A i \in 1..(n + 1) : i \in G
    BY <1>0, <1>5, <1>6, Backwards
  <2> QED
    BY <1>0, <2>1
<1> QED
  BY <1>1, <1>4, <1>7 DEF G

(* Where every edge can be replaced by one that is not dearer, the cover   *)
(* is not dearer either.                                                   *)
LEMMA CoverCompare ==
  ASSUME NEW n, NEW E, Passable(n, E), NEW F, Passable(n, F),
         \A e \in E : \E d \in F :
           d.start = e.start /\ d.width = e.width /\ d.cost <= e.cost
  PROVE  LeastCover(n, F) <= LeastCover(n, E)
<1>0. n \in Nat
  BY DEF Passable
<1>1. PICK f : /\ LeastCover(n, E) = f[1] /\ f[n + 1] = 0
               /\ \A i \in 1..(n + 1) : f[i] \in Nat
               /\ \A i \in 1..n : \E e \in From(i, E) : f[i] = e.cost + f[i + e.width]
  BY LeastCoverIs
<1>2. PICK g : /\ LeastCover(n, F) = g[1] /\ g[n + 1] = 0
               /\ \A i \in 1..(n + 1) : g[i] \in Nat
               /\ \A i \in 1..n : \A e \in From(i, F) : g[i] <= e.cost + g[i + e.width]
  BY LeastCoverIs
<1> DEFINE G == {i \in 1..(n + 1) : g[i] <= f[i]}
<1>3. n + 1 \in G
  BY <1>0, <1>1, <1>2
<1>4. ASSUME NEW i \in 1..n, \A k \in (i + 1)..(n + 1) : k \in G
      PROVE  i \in G
  <2>1. PICK e \in From(i, E) : f[i] = e.cost + f[i + e.width]
    BY <1>1
  <2>2. e \in E /\ e.start = i /\ e.width \in {1, 2} /\ i + e.width <= n + 1 /\ e.cost \in Nat
    BY DEF From, Passable
  <2>3. PICK d \in F : d.start = i /\ d.width = e.width /\ d.cost <= e.cost
    BY <2>2
  <2>4. d \in From(i, F) /\ d.cost \in Nat
    BY <2>3 DEF From, Passable
  <2>5. i + e.width \in (i + 1)..(n + 1) /\ i \in 1..(n + 1)
    BY <1>0, <2>2
  <2>6. g[i + e.width] <= f[i + e.width]
    BY <1>4, <2>5
  <2>7. g[i] <= d.cost + g[i + e.width]
    BY <1>2, <2>3, <2>4
  <2>8. g[i] \in Nat /\ f[i] \in Nat /\ g[i + e.width] \in Nat /\ f[i + e.width] \in Nat
    BY <1>0, <1>1, <1>2, <2>5
  <2>9. g[i] <= f[i]
    <3> DEFINE a == g[i + e.width]
               b == f[i + e.width]
    <3>1. a \in Nat /\ b \in Nat /\ a <= b /\ g[i] <= d.cost + a /\ f[i] = e.cost + b
      BY <2>1, <2>6, <2>7, <2>8
    <3> HIDE DEF a, b
    <3> QED
      BY <2>2, <2>3, <2>4, <2>8, <3>1
  <2> QED
    BY <2>5, <2>9
<1> HIDE DEF G
<1>5. 1 \in 1..(n + 1) /\ \A i \in 1..(n + 1) : i \in G
  <2>1. \A i \in 1..(n + 1) : i \in G
    BY <1>0, <1>3, <1>4, Backwards
  <2> QED
    BY <1>0, <2>1
<1> QED
  BY <1>1, <1>2, <1>5 DEF G

(* With a byte for every edge there is at least one for two instructions.  *)
LEMMA CoverAtLeast ==
  ASSUME NEW n, NEW E, Passable(n, E), \A e \in E : e.cost >= 1
  PROVE  (n + 1) \div 2 <= LeastCover(n, E)
<1>0. n \in Nat
  BY DEF Passable
<1>1. PICK f : /\ LeastCover(n, E) = f[1] /\ f[n + 1] = 0
               /\ \A i \in 1..(n + 1) : f[i] \in Nat
               /\ \A i \in 1..n : \E e \in From(i, E) : f[i] = e.cost + f[i + e.width]
  BY LeastCoverIs
<1> DEFINE G == {i \in 1..(n + 1) : n + 1 - i <= 2 * f[i]}
<1>2. n + 1 \in G
  BY <1>0, <1>1
<1>3. ASSUME NEW i \in 1..n, \A k \in (i + 1)..(n + 1) : k \in G
      PROVE  i \in G
  <2>1. PICK e \in From(i, E) : f[i] = e.cost + f[i + e.width]
    BY <1>1
  <2>2. e.start = i /\ e.width \in {1, 2} /\ i + e.width <= n + 1 /\ e.cost \in Nat /\ e.cost >= 1
    BY DEF From, Passable
  <2>3. i + e.width \in (i + 1)..(n + 1) /\ i \in 1..(n + 1)
    BY <1>0, <2>2
  <2>4. n + 1 - (i + e.width) <= 2 * f[i + e.width]
    BY <1>3, <2>3
  <2> DEFINE b == f[i + e.width]
  <2>5. b \in Nat /\ f[i] \in Nat /\ f[i] = e.cost + b /\ n + 1 - (i + e.width) <= 2 * b
    BY <1>0, <1>1, <2>1, <2>3, <2>4
  <2> HIDE DEF b
  <2> QED
    BY <1>0, <2>2, <2>3, <2>5
<1> HIDE DEF G
<1>4. 1 \in 1..(n + 1) /\ \A i \in 1..(n + 1) : i \in G
  <2>1. \A i \in 1..(n + 1) : i \in G
    BY <1>0, <1>2, <1>3, Backwards
  <2> QED
    BY <1>0, <2>1
<1>5. n <= 2 * f[1] /\ f[1] \in Nat
  BY <1>0, <1>1, <1>4 DEF G
<1> QED
  BY <1>0, <1>1, <1>5

-----------------------------------------------------------------------------
(* The default table.                                                      *)

Elements(s) == {s[i] : i \in 1..Len(s)}

Distinct(s) == \A i, j \in 1..Len(s) : s[i] = s[j] => i = j

(* Two sequences joined.                                                   *)
LEMMA Joined ==
  ASSUME NEW S, NEW s \in Seq(S), NEW t \in Seq(S)
  PROVE  /\ s \o t \in Seq(S) /\ Len(s \o t) = Len(s) + Len(t)
         /\ \A i \in 1..Len(s) : (s \o t)[i] = s[i]
         /\ \A i \in 1..Len(t) : (s \o t)[Len(s) + i] = t[i]
         /\ Elements(s \o t) = Elements(s) \cup Elements(t)
         /\ Distinct(s) /\ Distinct(t) /\ Elements(s) \cap Elements(t) = {}
              => Distinct(s \o t)
<1> DEFINE u == s \o t
           m == Len(s)
           n == Len(t)
<1>1. /\ u \in Seq(S) /\ Len(u) = m + n /\ m \in Nat /\ n \in Nat
      /\ \A i \in 1..(m + n) : u[i] = IF i <= m THEN s[i] ELSE t[i - m]
  BY ConcatProperties, LenProperties
<1> HIDE DEF u, m, n
<1>2. ASSUME NEW i \in 1..m PROVE u[i] = s[i] /\ i \in 1..(m + n)
  BY <1>1
<1>3. ASSUME NEW i \in 1..n PROVE u[m + i] = t[i] /\ m + i \in 1..(m + n)
  <2>1. m + i \in 1..(m + n) /\ ~(m + i <= m) /\ m + i - m = i
    BY <1>1
  <2> QED
    BY <1>1, <2>1
<1>4. ASSUME NEW i \in 1..(m + n), ~(i <= m) PROVE i - m \in 1..n /\ u[i] = t[i - m]
  BY <1>1, <1>4
<1>5. Elements(u) = Elements(s) \cup Elements(t)
  <2>1. ASSUME NEW x \in Elements(u) PROVE x \in Elements(s) \cup Elements(t)
    <3>1. PICK i \in 1..(m + n) : x = u[i]
      BY <1>1 DEF Elements
    <3>2. CASE i <= m
      <4>1. i \in 1..m
        BY <1>1, <3>2
      <4> QED
        BY <1>2, <3>1, <4>1 DEF Elements, m
    <3>3. CASE ~(i <= m)
      BY <1>4, <3>1, <3>3 DEF Elements, n
    <3> QED
      BY <3>2, <3>3
  <2>2. ASSUME NEW x \in Elements(s) \cup Elements(t) PROVE x \in Elements(u)
    <3>1. CASE x \in Elements(s)
      <4>1. PICK i \in 1..m : x = s[i]
        BY <3>1 DEF Elements, m
      <4> QED
        BY <1>1, <1>2, <4>1 DEF Elements
    <3>2. CASE x \in Elements(t)
      <4>1. PICK i \in 1..n : x = t[i]
        BY <3>2 DEF Elements, n
      <4> QED
        BY <1>1, <1>3, <4>1 DEF Elements
    <3> QED
      BY <3>1, <3>2
  <2> QED
    BY <2>1, <2>2
<1>6. ASSUME Distinct(s), Distinct(t), Elements(s) \cap Elements(t) = {}
      PROVE  Distinct(u)
  <2> SUFFICES ASSUME NEW i \in 1..(m + n), NEW j \in 1..(m + n), u[i] = u[j]
               PROVE  i = j
    BY <1>1 DEF Distinct
  <2>1. CASE i <= m /\ j <= m
    <3>1. i \in 1..m /\ j \in 1..m
      BY <1>1, <2>1
    <3>2. s[i] = s[j]
      BY <1>2, <3>1
    <3> QED
      BY <1>6, <3>1, <3>2 DEF Distinct, m
  <2>2. CASE ~(i <= m) /\ ~(j <= m)
    <3>1. i - m \in 1..n /\ j - m \in 1..n /\ t[i - m] = t[j - m]
      BY <1>4, <2>2
    <3>2. i - m = j - m
      BY <1>6, <3>1 DEF Distinct, n
    <3> QED
      BY <1>1, <3>2
  <2>3. ASSUME NEW k \in 1..(m + n), NEW l \in 1..(m + n), k <= m, ~(l <= m)
        PROVE  u[k] # u[l]
    <3>1. k \in 1..m /\ l - m \in 1..n
      BY <1>1, <1>4, <2>3
    <3>2. u[k] \in Elements(s)
      BY <1>2, <3>1 DEF Elements, m
    <3>3. u[l] \in Elements(t)
      BY <1>4, <2>3, <3>1 DEF Elements, n
    <3> QED
      BY <1>6, <3>2, <3>3
  <2> QED
    BY <2>1, <2>2, <2>3
<1> QED
  BY <1>1, <1>2, <1>3, <1>5, <1>6 DEF u, m, n

NextFlat(seqs, flat, i) ==
  IF i = 1 THEN seqs[i] ELSE flat[i - 1] \o seqs[i]

(* Joining any number of sequences has a result.                           *)
LEMMA FlatExists ==
  ASSUME NEW seqs, NEW n \in Nat \ {0}
  PROVE  \E f : f = [i \in 1..n |-> NextFlat(seqs, f, i)]
<1> DEFINE P(m) == \E f : f = [i \in 1..m |-> NextFlat(seqs, f, i)]
           Bad == {m \in Nat \ {0} : ~P(m)}
<1>1. SUFFICES ASSUME Bad # {} PROVE FALSE
  OBVIOUS
<1>2. PICK m \in Bad : \A k \in Bad : m <= k
  <2>1. Bad \subseteq Nat
    OBVIOUS
  <2> HIDE DEF Bad
  <2> QED
    BY <1>1, <2>1, LeastNumber
<1>3. m \in Nat \ {0} /\ ~P(m)
  BY <1>2
<1>4. m # 1
  <2>1. P(1)
    <3> DEFINE f == [i \in 1..1 |-> seqs[1]]
    <3>1. f = [i \in 1..1 |-> NextFlat(seqs, f, i)]
      <4>1. \A i \in 1..1 : i = 1
        OBVIOUS
      <4> HIDE DEF f
      <4>2. \A i \in 1..1 : NextFlat(seqs, f, i) = seqs[1]
        BY <4>1 DEF NextFlat
      <4> QED
        BY <4>2 DEF f
    <3> QED
      BY <3>1
  <2> HIDE DEF P
  <2> QED
    BY <1>3, <2>1
<1>5. m - 1 \in Nat \ {0} /\ P(m - 1)
  <2>1. m - 1 \in Nat \ {0} /\ ~(m <= m - 1)
    BY <1>3, <1>4
  <2> HIDE DEF P
  <2> QED
    BY <1>2, <2>1
<1>6. PICK f : f = [i \in 1..(m - 1) |-> NextFlat(seqs, f, i)]
  BY <1>5
<1> DEFINE last == f[m - 1] \o seqs[m]
<1> HIDE DEF last
<1> DEFINE g == [i \in 1..m |-> IF i < m THEN f[i] ELSE last]
<1>7. ASSUME NEW i \in 1..m PROVE g[i] = NextFlat(seqs, g, i)
  <2>1. i # 1 => i - 1 \in 1..m /\ i - 1 < m
    BY <1>3
  <2>2. i # 1 => g[i - 1] = f[i - 1]
    BY <2>1
  <2>3. CASE i < m
    <3>1. i \in 1..(m - 1)
      BY <1>3, <2>3
    <3>2. g[i] = f[i]
      BY <2>3
    <3>3. f[i] = NextFlat(seqs, f, i)
      BY <1>6, <3>1
    <3> HIDE DEF g
    <3> QED
      BY <2>2, <3>2, <3>3 DEF NextFlat
  <2>4. CASE ~(i < m)
    <3>1. i = m /\ i # 1
      BY <1>3, <1>4, <2>4
    <3>2. g[i] = last
      BY <2>4
    <3> HIDE DEF g
    <3> QED
      BY <2>2, <3>1, <3>2 DEF NextFlat, last
  <2> QED
    BY <2>3, <2>4
<1>8. P(m)
  <2>1. g = [i \in 1..m |-> NextFlat(seqs, g, i)]
    BY <1>7
  <2> HIDE DEF g
  <2> QED
    BY <2>1
<1> QED
  BY <1>3, <1>8

(* It holds the elements of all of them, each once if no two share one.    *)
LEMMA Flattened ==
  ASSUME NEW S, NEW n \in Nat, NEW seqs \in [1..n -> Seq(S)]
  PROVE  /\ FlattenSeq(seqs) \in Seq(S)
         /\ \A i \in 1..n : Elements(seqs[i]) \subseteq Elements(FlattenSeq(seqs))
         /\ \A x \in Elements(FlattenSeq(seqs)) : \E i \in 1..n : x \in Elements(seqs[i])
         /\ /\ \A i \in 1..n : Distinct(seqs[i])
            /\ \A i, j \in 1..n : i # j => Elements(seqs[i]) \cap Elements(seqs[j]) = {}
            => Distinct(FlattenSeq(seqs))
<1> DEFINE Apart == /\ \A i \in 1..n : Distinct(seqs[i])
                    /\ \A i, j \in 1..n :
                         i # j => Elements(seqs[i]) \cap Elements(seqs[j]) = {}
           Is(s, k) == /\ s \in Seq(S)
                       /\ \A i \in 1..k : Elements(seqs[i]) \subseteq Elements(s)
                       /\ \A x \in Elements(s) : \E i \in 1..k : x \in Elements(seqs[i])
                       /\ Apart => Distinct(s)
<1> SUFFICES Is(FlattenSeq(seqs), n)
  OBVIOUS
<1>1. Len(seqs) = n
  OBVIOUS
<1>2. CASE n = 0
  <2>1. FlattenSeq(seqs) = seqs
    BY <1>1, <1>2 DEF FlattenSeq
  <2>2. seqs = <<>>
    BY <1>2
  <2>3. Len(<<>>) = 0 /\ <<>> \in Seq(S) /\ 1..0 = {}
    OBVIOUS
  <2>4. Elements(<<>>) = {} /\ Distinct(<<>>)
    BY <2>3 DEF Elements, Distinct
  <2>5. Is(<<>>, 0)
    BY <2>3, <2>4
  <2> HIDE DEF Is
  <2> QED
    BY <1>2, <2>1, <2>2, <2>5
<1>3. CASE n # 0
  <2> DEFINE Following(f, i) == IF i = 1 THEN seqs[i] ELSE f[i - 1] \o seqs[i]
             Joins(f) == f = [i \in 1..Len(seqs) |-> Following(f, i)]
             flat == CHOOSE f : Joins(f)
  <2>1. Joins(flat)
    <3>1. PICK f : f = [i \in 1..n |-> NextFlat(seqs, f, i)]
      BY <1>3, FlatExists
    <3>2. ASSUME NEW i \in 1..n PROVE Following(f, i) = NextFlat(seqs, f, i)
      <4> HIDE DEF flat, Joins
      <4> QED
        BY DEF NextFlat
    <3>3. Joins(f)
      <4> HIDE DEF Following
      <4> QED
        BY <1>1, <3>1, <3>2
    <3> QED
      BY <3>3
  <2>2. FlattenSeq(seqs) = flat[n]
    <3>1. Len(seqs) # 0
      BY <1>1, <1>3
    <3>2. FlattenSeq(seqs) = flat[Len(seqs)]
      BY <3>1, Zenon DEF FlattenSeq
    <3> QED
      BY <1>1, <3>2
  <2>3. ASSUME NEW i \in 1..n PROVE flat[i] = Following(flat, i)
    <3> HIDE DEF flat, Following
    <3> QED
      BY <1>1, <2>1
  <2> HIDE DEF flat
  <2> DEFINE Bad == {i \in 1..n : ~Is(flat[i], i)}
  <2>4. Bad = {}
    <3>1. SUFFICES ASSUME Bad # {} PROVE FALSE
      OBVIOUS
    <3>2. PICK m \in Bad : \A k \in Bad : m <= k
      <4>1. Bad \subseteq Nat
        OBVIOUS
      <4> HIDE DEF Bad
      <4> QED
        BY <3>1, <4>1, LeastNumber
    <3>3. m \in 1..n /\ ~Is(flat[m], m) /\ seqs[m] \in Seq(S)
      BY <3>2
    <3>4. CASE m = 1
      <4>1. flat[1] = seqs[1] /\ 1 \in 1..n
        BY <2>3, <3>3, <3>4
      <4>2. \A i \in 1..1 : i = 1
        OBVIOUS
      <4>3. Is(seqs[1], 1)
        BY <3>3, <3>4, <4>1, <4>2
      <4> HIDE DEF Is
      <4> QED
        BY <3>3, <3>4, <4>1, <4>3
    <3>5. CASE m # 1
      <4> DEFINE s == flat[m - 1]
                 t == seqs[m]
                 u == s \o t
      <4>1. m - 1 \in 1..n /\ ~(m <= m - 1)
        BY <3>3, <3>5
      <4>2. Is(s, m - 1)
        <5> HIDE DEF Is
        <5> QED
          BY <3>2, <4>1
      <4>3. flat[m] = u
        BY <2>3, <3>3, <3>5
      <4>4. s \in Seq(S) /\ t \in Seq(S)
        BY <3>3, <4>2
      <4>5. /\ u \in Seq(S) /\ Elements(u) = Elements(s) \cup Elements(t)
            /\ Distinct(s) /\ Distinct(t) /\ Elements(s) \cap Elements(t) = {} => Distinct(u)
        <5> HIDE DEF s, t
        <5> QED
          BY <4>4, Joined
      <4> HIDE DEF s, u
      <4>6. \A i \in 1..m : Elements(seqs[i]) \subseteq Elements(u)
        <5> SUFFICES ASSUME NEW i \in 1..m PROVE Elements(seqs[i]) \subseteq Elements(u)
          OBVIOUS
        <5>1. i = m \/ i \in 1..(m - 1)
          BY <3>3
        <5> QED
          BY <4>2, <4>5, <5>1
      <4>7. ASSUME NEW x \in Elements(u) PROVE \E i \in 1..m : x \in Elements(seqs[i])
        <5>1. CASE x \in Elements(t)
          <6>1. m \in 1..m
            BY <3>3
          <6> QED
            BY <5>1, <6>1
        <5>2. CASE x \in Elements(s)
          <6>1. PICK i \in 1..(m - 1) : x \in Elements(seqs[i])
            BY <4>2, <5>2
          <6>2. i \in 1..m
            BY <3>3
          <6> QED
            BY <6>1, <6>2
        <5> QED
          BY <4>5, <5>1, <5>2
      <4>8. ASSUME Apart PROVE Distinct(u)
        <5>1. Distinct(s) /\ Distinct(t)
          BY <3>3, <4>2, <4>8
        <5>2. ASSUME NEW x \in Elements(s), x \in Elements(t) PROVE FALSE
          <6>1. PICK i \in 1..(m - 1) : x \in Elements(seqs[i])
            BY <4>2
          <6>2. i \in 1..n /\ i # m
            BY <3>3
          <6>3. Elements(seqs[i]) \cap Elements(seqs[m]) = {}
            BY <3>3, <4>8, <6>2
          <6> QED
            BY <5>2, <6>1, <6>3
        <5> QED
          BY <4>5, <5>1, <5>2
      <4>9. Is(u, m)
        <5> HIDE DEF Apart
        <5> QED
          BY <4>5, <4>6, <4>7, <4>8
      <4> HIDE DEF Is
      <4> QED
        BY <3>3, <4>3, <4>9
    <3> QED
      BY <3>4, <3>5
  <2>5. Is(flat[n], n)
    <3>1. n \in 1..n
      BY <1>3
    <3> HIDE DEF Is
    <3> QED
      BY <2>4, <3>1
  <2> HIDE DEF Is
  <2> QED
    BY <2>2, <2>5
<1> HIDE DEF Is
<1> QED
  BY <1>2, <1>3

(* Rows of entries for the numbers of an interval, which may be empty.     *)
LEMMA RowsAre ==
  ASSUME NEW S, NEW m \in Int, NEW f \in [1..m -> S]
  PROVE  /\ f \in Seq(S)
         /\ Len(f) \in Nat
         /\ \A i : i \in 1..Len(f) <=> i \in 1..m
         /\ \A x \in Elements(f) : \E i \in 1..m : x = f[i]
         /\ \A i \in 1..m : f[i] \in Elements(f)
<1>1. CASE m >= 0
  <2>1. m \in Nat
    BY <1>1
  <2>2. f \in Seq(S) /\ Len(f) = m
    BY <2>1
  <2> QED
    BY <2>1, <2>2 DEF Elements
<1>2. CASE m < 0
  <2>1. 1..m = {} /\ 1..0 = {} /\ 0 \in Nat
    BY <1>2
  <2>2. f \in [1..0 -> S]
    BY <2>1
  <2>3. f \in Seq(S) /\ Len(f) = 0
    BY <2>2
  <2> QED
    BY <2>1, <2>3 DEF Elements
<1> QED
  BY <1>1, <1>2

(* The entries, with fields that are numbers.                              *)
EntryFields ==
  [inst1 : Nat, size1 : Nat, mode1 : Nat, inst2 : Nat, size2 : Nat, mode2 : Nat]

(* Those of one instruction, and those of two, which leave no size open.   *)
OneEntry == {e \in EntryFields : e.inst2 = NOOP}

TwoEntry ==
  {e \in EntryFields : /\ e.inst2 # NOOP
                  /\ e.size1 \in Byte \ {0} /\ e.size2 \in Byte \ {0}}

(* The rows of default_table.py.                                           *)
AddRow == [i \in 1..(AddTo - 0 + 1) |-> Single(ADD, 0 + i - 1, 0)]

CopySizes(mode) ==
  [i \in 1..(CopyTo - CopyFrom + 1) |-> Single(COPY, CopyFrom + i - 1, mode)]

CopyRow(mode) == <<Single(COPY, 0, mode)>> \o CopySizes(mode)

CopyRows == [j \in 1..(Modes - 1 - 0 + 1) |-> CopyRow(0 + j - 1)]

AddCopyRow(add, mode, to) ==
  [i \in 1..(to - CopyFrom + 1) |-> Pair(ADD, add, 0, COPY, CopyFrom + i - 1, mode)]

AddCopyRows(mode, to) ==
  [j \in 1..(PairAddTo - 1 + 1) |-> AddCopyRow(1 + j - 1, mode, to)]

ExplicitRows ==
  [k \in 1..((1 + Near) - 0 + 1) |-> FlattenSeq(AddCopyRows(0 + k - 1, PairCopyTo))]

CachedRows ==
  [k \in 1..(Modes - 1 - (2 + Near) + 1) |->
     FlattenSeq(AddCopyRows(2 + Near + k - 1, CopyFrom))]

CopyAddRow ==
  [k \in 1..(Modes - 1 - 0 + 1) |-> Pair(COPY, CopyFrom, 0 + k - 1, ADD, 1, 0)]

(* The table is made of them.                                              *)
LEMMA TableParts ==
  /\ Singles = (<<Single(RUN, 0, 0)>> \o AddRow) \o FlattenSeq(CopyRows)
  /\ Pairs = (FlattenSeq(ExplicitRows) \o FlattenSeq(CachedRows)) \o CopyAddRow
<1>1. Singles = (<<Single(RUN, 0, 0)>> \o AddRow) \o FlattenSeq(CopyRows)
  BY Zenon DEF Singles, Rows, AddRow, CopyRows, CopyRow, CopySizes
<1>2. Pairs = (FlattenSeq(ExplicitRows) \o FlattenSeq(CachedRows)) \o CopyAddRow
  BY Zenon DEF Pairs, Rows, ExplicitRows, CachedRows, CopyAddRow, AddCopyRows, AddCopyRow
<1> QED
  BY <1>1, <1>2

(* The extents are numbers, and one byte is one.                           *)
LEMMA Extents ==
  /\ Near \in Nat /\ Same \in Nat /\ AddTo \in Nat /\ CopyTo \in Nat
  /\ Modes = 2 + Near + Same /\ Modes \in Byte
  /\ PairAddTo \in Byte /\ PairCopyTo \in Byte /\ CopyFrom \in Byte \ {0}
  /\ Base \in Nat /\ Base >= 2 /\ Byte = 0..(2 * Base - 1) /\ 1 \in Byte \ {0}
<1>1. Base \in Nat /\ Base >= 2
  BY Powers
<1>2. 1 \in Byte \ {0} /\ Byte = 0..(2 * Base - 1)
  BY <1>1 DEF Byte
<1> QED
  BY <1>1, <1>2, TableAssumption DEF TableAssumption, Modes

(* The first part of the table: entries of one instruction, among them one *)
(* for every instruction of any size (default_table.py:15-20).             *)
LEMMA SinglesAre ==
  /\ Singles \in Seq(OneEntry)
  /\ \A a \in Atom : a.mode < Modes =>
       \E i \in 1..Len(Singles) : Singles[i] = Single(a.type, 0, a.mode)
<1> DEFINE run == Single(RUN, 0, 0)
           front == <<run>> \o AddRow
           back == FlattenSeq(CopyRows)
<1>0. \A t, s, m \in Nat : Single(t, s, m) \in OneEntry
  BY DEF Single, OneEntry, EntryFields, NOOP
<1>1. <<run>> \in Seq(OneEntry) /\ Elements(<<run>>) = {run}
  <2>1. run \in OneEntry
    BY <1>0 DEF RUN
  <2> HIDE DEF run
  <2>2. <<run>> \in Seq(OneEntry) /\ Len(<<run>>) = 1 /\ <<run>>[1] = run /\ 1..1 = {1}
    BY <2>1
  <2> QED
    BY <2>2 DEF Elements
<1>2. AddRow \in Seq(OneEntry) /\ Single(ADD, 0, 0) \in Elements(AddRow)
  <2>1. AddTo - 0 + 1 \in Int /\ 1 \in 1..(AddTo - 0 + 1) /\ 0 + 1 - 1 = 0
    BY Extents
  <2>2. ASSUME NEW i \in 1..(AddTo - 0 + 1) PROVE Single(ADD, 0 + i - 1, 0) \in OneEntry
    <3>1. 0 + i - 1 \in Nat
      BY Extents
    <3> QED
      BY <1>0, <3>1 DEF ADD
  <2>3. AddRow \in [1..(AddTo - 0 + 1) -> OneEntry]
    BY <2>2 DEF AddRow
  <2>4. /\ AddRow \in Seq(OneEntry)
        /\ \A i \in 1..(AddTo - 0 + 1) : AddRow[i] \in Elements(AddRow)
    <3>1. AddTo - 0 + 1 \in Int
      BY <2>1
    <3> QED
      BY <2>3, <3>1, RowsAre, Zenon
  <2>5. AddRow[1] = Single(ADD, 0, 0)
    BY <2>1 DEF AddRow
  <2> QED
    BY <2>1, <2>4, <2>5
<1>3. ASSUME NEW mode \in Nat
      PROVE  CopyRow(mode) \in Seq(OneEntry) /\ Single(COPY, 0, mode) \in Elements(CopyRow(mode))
  <2> DEFINE generic == Single(COPY, 0, mode)
             sizes == CopySizes(mode)
  <2>1. CopyTo - CopyFrom + 1 \in Int
    BY Extents
  <2>2. ASSUME NEW i \in 1..(CopyTo - CopyFrom + 1)
        PROVE  Single(COPY, CopyFrom + i - 1, mode) \in OneEntry
    <3>1. CopyFrom + i - 1 \in Nat
      BY Extents
    <3> QED
      BY <1>0, <3>1 DEF COPY
  <2>3. sizes \in [1..(CopyTo - CopyFrom + 1) -> OneEntry]
    BY <2>2 DEF CopySizes
  <2> HIDE DEF sizes
  <2>4. sizes \in Seq(OneEntry)
    BY <2>1, <2>3, RowsAre
  <2>5. generic \in OneEntry
    BY <1>0 DEF COPY
  <2> HIDE DEF generic
  <2>6. <<generic>> \in Seq(OneEntry) /\ Len(<<generic>>) = 1 /\ <<generic>>[1] = generic
        /\ 1 \in 1..1
    BY <2>5
  <2>7. generic \in Elements(<<generic>>)
    BY <2>6 DEF Elements
  <2>8. /\ <<generic>> \o sizes \in Seq(OneEntry)
        /\ Elements(<<generic>> \o sizes) = Elements(<<generic>>) \cup Elements(sizes)
    BY <2>4, <2>6, Joined
  <2>9. CopyRow(mode) = <<generic>> \o sizes
    BY DEF CopyRow, generic, sizes
  <2> QED
    BY <2>7, <2>8, <2>9 DEF generic
<1>4. /\ back \in Seq(OneEntry)
      /\ \A mode \in 0..(Modes - 1) : Single(COPY, 0, mode) \in Elements(back)
  <2> DEFINE n == Modes - 1 - 0 + 1
  <2>1. n \in Nat /\ n = Modes
    BY Extents
  <2>2. CopyRows \in [1..n -> Seq(OneEntry)]
    <3>1. \A j \in 1..n : 0 + j - 1 \in Nat
      BY <2>1
    <3>2. \A j \in 1..n : CopyRow(0 + j - 1) \in Seq(OneEntry)
      BY <1>3, <3>1
    <3> QED
      BY <3>2 DEF CopyRows
  <2>3. ASSUME NEW mode \in 0..(Modes - 1) PROVE Single(COPY, 0, mode) \in Elements(back)
    <3>1. mode + 1 \in 1..n /\ 0 + (mode + 1) - 1 = mode /\ mode \in Nat
      BY <2>1
    <3>2. CopyRows[mode + 1] = CopyRow(mode)
      BY <3>1 DEF CopyRows
    <3>3. Elements(CopyRows[mode + 1]) \subseteq Elements(back)
      <4> HIDE DEF n
      <4> QED
        BY <2>1, <2>2, <3>1, Flattened
    <3> QED
      BY <1>3, <3>1, <3>2, <3>3
  <2>4. back \in Seq(OneEntry)
    <3> HIDE DEF n
    <3> QED
      BY <2>1, <2>2, Flattened
  <2> QED
    BY <2>3, <2>4
<1> HIDE DEF back, run
<1>5. front \in Seq(OneEntry) /\ Elements(front) = {run} \cup Elements(AddRow)
  <2> DEFINE one == <<run>>
  <2>1. one \in Seq(OneEntry) /\ Elements(one) = {run}
    BY <1>1
  <2> HIDE DEF one
  <2>2. one \o AddRow \in Seq(OneEntry) /\ Elements(one \o AddRow) = Elements(one) \cup Elements(AddRow)
    BY <1>2, <2>1, Joined
  <2> QED
    BY <2>1, <2>2 DEF one
<1> HIDE DEF front
<1>6. /\ front \o back \in Seq(OneEntry)
      /\ Elements(front \o back) = Elements(front) \cup Elements(back)
  BY <1>4, <1>5, Joined
<1>7. Singles = front \o back
  BY TableParts DEF front, back, run
<1>8. ASSUME NEW a \in Atom, a.mode < Modes
      PROVE  Single(a.type, 0, a.mode) \in Elements(Singles)
  <2>1. a.type \in {ADD, RUN, COPY} /\ a.mode \in Nat /\ (a.type # COPY => a.mode = 0)
    BY DEF Atom, ModeIsLegal
  <2>2. CASE a.type = RUN
    BY <1>5, <1>6, <1>7, <2>1, <2>2 DEF run, RUN, COPY
  <2>3. CASE a.type = ADD
    BY <1>2, <1>5, <1>6, <1>7, <2>1, <2>3 DEF ADD, COPY
  <2>4. CASE a.type = COPY
    <3>1. a.mode \in 0..(Modes - 1)
      BY <1>8, <2>1, Extents
    <3> QED
      BY <1>4, <1>6, <1>7, <2>4, <3>1
  <2> QED
    BY <2>1, <2>2, <2>3, <2>4
<1> QED
  BY <1>6, <1>7, <1>8 DEF Elements

(* The pair bank: entries of two instructions with both sizes, each of     *)
(* them once (default_table.py:22-34).                                     *)
LEMMA PairsAre == Pairs \in Seq(TwoEntry) /\ Distinct(Pairs)
<1> DEFINE AddCopy(e, mode) == /\ e.inst1 = ADD /\ e.inst2 = COPY /\ e.mode2 = mode
<1>1. ASSUME NEW add \in Byte \ {0}, NEW mode \in Nat, NEW to \in Byte
      PROVE  /\ AddCopyRow(add, mode, to) \in Seq(TwoEntry)
             /\ Distinct(AddCopyRow(add, mode, to))
             /\ \A e \in Elements(AddCopyRow(add, mode, to)) : e.size1 = add /\ AddCopy(e, mode)
  <2> DEFINE m == to - CopyFrom + 1
             row == AddCopyRow(add, mode, to)
             entry(i) == Pair(ADD, add, 0, COPY, CopyFrom + i - 1, mode)
  <2>1. m \in Int /\ \A i \in 1..m : CopyFrom + i - 1 \in Byte \ {0}
    BY Extents
  <2>2. ASSUME NEW i \in 1..m
        PROVE  /\ entry(i) \in TwoEntry /\ entry(i).size1 = add /\ AddCopy(entry(i), mode)
               /\ entry(i).size2 = CopyFrom + i - 1
    <3> DEFINE size == CopyFrom + i - 1
    <3>1. size \in Byte \ {0} /\ size \in Nat /\ add \in Nat
      BY <2>1, Extents
    <3> HIDE DEF size
    <3>2. /\ Pair(ADD, add, 0, COPY, size, mode) \in TwoEntry
          /\ Pair(ADD, add, 0, COPY, size, mode).size1 = add
          /\ Pair(ADD, add, 0, COPY, size, mode).size2 = size
          /\ Pair(ADD, add, 0, COPY, size, mode).inst1 = ADD
          /\ Pair(ADD, add, 0, COPY, size, mode).inst2 = COPY
          /\ Pair(ADD, add, 0, COPY, size, mode).mode2 = mode
      BY <3>1 DEF Pair, TwoEntry, EntryFields, NOOP, ADD, COPY
    <3>3. entry(i) = Pair(ADD, add, 0, COPY, size, mode)
      BY DEF size
    <3> QED
      BY <3>2, <3>3 DEF size
  <2>3. row = [i \in 1..m |-> entry(i)]
    BY DEF AddCopyRow
  <2> HIDE DEF entry, row
  <2>4. row \in [1..m -> TwoEntry] /\ \A i \in 1..m : row[i] = entry(i)
    BY <2>2, <2>3
  <2> HIDE DEF m, AddCopy
  <2>5. /\ row \in Seq(TwoEntry)
        /\ \A i : i \in 1..Len(row) <=> i \in 1..m
        /\ \A x \in Elements(row) : \E i \in 1..m : x = row[i]
    <3>1. m \in Int
      BY <2>1
    <3> QED
      BY <2>4, <3>1, RowsAre, Zenon
  <2>6. Distinct(row)
    <3> SUFFICES ASSUME NEW i \in 1..m, NEW j \in 1..m, row[i] = row[j] PROVE i = j
      BY <2>5 DEF Distinct
    <3>1. CopyFrom + i - 1 = CopyFrom + j - 1
      BY <2>2, <2>4
    <3> QED
      <4>1. i \in Int /\ j \in Int /\ CopyFrom \in Int
        BY <2>1, Extents
      <4> QED
        BY <3>1, <4>1
  <2>7. \A e \in Elements(row) : e.size1 = add /\ AddCopy(e, mode)
    <3> SUFFICES ASSUME NEW e \in Elements(row) PROVE e.size1 = add /\ AddCopy(e, mode)
      OBVIOUS
    <3>1. PICK i \in 1..m : e = row[i]
      BY <2>5, Zenon
    <3> QED
      BY <2>2, <2>4, <3>1
  <2> QED
    BY <2>5, <2>6, <2>7 DEF row
<1>2. ASSUME NEW mode \in Nat, NEW to \in Byte
      PROVE  LET flat == FlattenSeq(AddCopyRows(mode, to)) IN
             /\ flat \in Seq(TwoEntry) /\ Distinct(flat)
             /\ \A e \in Elements(flat) : AddCopy(e, mode)
  <2> DEFINE n == PairAddTo - 1 + 1
             rows == AddCopyRows(mode, to)
             row(j) == AddCopyRow(1 + j - 1, mode, to)
             flat == FlattenSeq(rows)
  <2>1. n \in Nat /\ \A j \in 1..n : 1 + j - 1 \in Byte \ {0} /\ 1 + j - 1 = j
    BY Extents
  <2>2. rows = [j \in 1..n |-> row(j)]
    BY DEF AddCopyRows
  <2> HIDE DEF AddCopy, n, rows
  <2>3. ASSUME NEW j \in 1..n
        PROVE  /\ row(j) \in Seq(TwoEntry) /\ Distinct(row(j))
               /\ \A e \in Elements(row(j)) : e.size1 = j /\ AddCopy(e, mode)
    BY <1>1, <2>1
  <2> HIDE DEF row
  <2>4. rows \in [1..n -> Seq(TwoEntry)] /\ \A j \in 1..n : rows[j] = row(j)
    BY <2>2, <2>3
  <2>5. \A j \in 1..n : Distinct(rows[j])
    BY <2>3, <2>4
  <2>6. \A i, j \in 1..n : i # j => Elements(rows[i]) \cap Elements(rows[j]) = {}
    BY <2>3, <2>4
  <2>7. /\ flat \in Seq(TwoEntry) /\ Distinct(flat)
        /\ \A x \in Elements(flat) : \E i \in 1..n : x \in Elements(rows[i])
    BY <2>1, <2>4, <2>5, <2>6, Flattened
  <2>8. \A e \in Elements(flat) : AddCopy(e, mode)
    BY <2>3, <2>4, <2>7
  <2> QED
    BY <2>7, <2>8 DEF rows
<1>3. ASSUME NEW n \in Nat, NEW first \in Nat, NEW to \in Byte, NEW rows,
             rows = [k \in 1..n |-> FlattenSeq(AddCopyRows(first + k - 1, to))]
      PROVE  /\ FlattenSeq(rows) \in Seq(TwoEntry) /\ Distinct(FlattenSeq(rows))
             /\ \A e \in Elements(FlattenSeq(rows)) :
                  \E k \in 1..n : AddCopy(e, first + k - 1)
  <2> DEFINE row(k) == FlattenSeq(AddCopyRows(first + k - 1, to))
  <2>1. \A k \in 1..n : first + k - 1 \in Nat
    OBVIOUS
  <2> HIDE DEF AddCopy
  <2>2. ASSUME NEW k \in 1..n
        PROVE  /\ row(k) \in Seq(TwoEntry) /\ Distinct(row(k))
               /\ \A e \in Elements(row(k)) : AddCopy(e, first + k - 1)
    BY <1>2, <2>1
  <2>3. rows = [k \in 1..n |-> row(k)]
    BY <1>3
  <2> HIDE DEF row
  <2>4. rows \in [1..n -> Seq(TwoEntry)] /\ \A k \in 1..n : rows[k] = row(k)
    BY <2>2, <2>3
  <2>5. \A k \in 1..n : Distinct(rows[k])
    BY <2>2, <2>4
  <2>6. ASSUME NEW i \in 1..n, NEW j \in 1..n, i # j,
               NEW e \in Elements(rows[i]), e \in Elements(rows[j])
        PROVE  FALSE
    <3>1. e.mode2 = first + i - 1 /\ e.mode2 = first + j - 1
      BY <2>2, <2>4, <2>6 DEF AddCopy
    <3> QED
      BY <2>6, <3>1
  <2>7. \A i, j \in 1..n : i # j => Elements(rows[i]) \cap Elements(rows[j]) = {}
    BY <2>6
  <2>8. /\ FlattenSeq(rows) \in Seq(TwoEntry) /\ Distinct(FlattenSeq(rows))
        /\ \A x \in Elements(FlattenSeq(rows)) : \E i \in 1..n : x \in Elements(rows[i])
    BY <2>4, <2>5, <2>7, Flattened
  <2>9. \A e \in Elements(FlattenSeq(rows)) : \E k \in 1..n : AddCopy(e, first + k - 1)
    BY <2>2, <2>4, <2>8
  <2> QED
    BY <2>8, <2>9
<1> DEFINE explicit == FlattenSeq(ExplicitRows)
           cached == FlattenSeq(CachedRows)
<1>4. /\ explicit \in Seq(TwoEntry) /\ Distinct(explicit)
      /\ \A e \in Elements(explicit) : e.inst1 = ADD /\ e.mode2 < 2 + Near
  <2> DEFINE n == (1 + Near) - 0 + 1
  <2>1. n \in Nat /\ 0 \in Nat /\ PairCopyTo \in Byte
    BY Extents
  <2>2. ExplicitRows = [k \in 1..n |-> FlattenSeq(AddCopyRows(0 + k - 1, PairCopyTo))]
    BY DEF ExplicitRows
  <2> HIDE DEF n
  <2>3. /\ explicit \in Seq(TwoEntry) /\ Distinct(explicit)
        /\ \A e \in Elements(explicit) : \E k \in 1..n : AddCopy(e, 0 + k - 1)
    BY <1>3, <2>1, <2>2
  <2>4. ASSUME NEW e \in Elements(explicit) PROVE e.inst1 = ADD /\ e.mode2 < 2 + Near
    <3>1. PICK k \in 1..n : AddCopy(e, 0 + k - 1)
      BY <2>3
    <3>2. e.mode2 = 0 + k - 1 /\ 0 + k - 1 < 2 + Near
      BY <3>1, Extents DEF n
    <3> QED
      BY <3>1, <3>2
  <2> QED
    BY <2>3, <2>4
<1>5. /\ cached \in Seq(TwoEntry) /\ Distinct(cached)
      /\ \A e \in Elements(cached) : e.inst1 = ADD /\ ~(e.mode2 < 2 + Near)
  <2> DEFINE first == 2 + Near
             n == Modes - 1 - first + 1
  <2>1. n \in Nat /\ first \in Nat /\ CopyFrom \in Byte
    BY Extents
  <2>2. CachedRows = [k \in 1..n |-> FlattenSeq(AddCopyRows(first + k - 1, CopyFrom))]
    BY DEF CachedRows
  <2> HIDE DEF n, first, AddCopy
  <2>3. /\ cached \in Seq(TwoEntry) /\ Distinct(cached)
        /\ \A e \in Elements(cached) : \E k \in 1..n : AddCopy(e, first + k - 1)
    BY <1>3, <2>1, <2>2
  <2>4. ASSUME NEW e \in Elements(cached) PROVE e.inst1 = ADD /\ ~(e.mode2 < 2 + Near)
    <3>1. PICK k \in 1..n : AddCopy(e, first + k - 1)
      BY <2>3
    <3>2. ~(first + k - 1 < first)
      BY <2>1
    <3> QED
      BY <3>1, <3>2 DEF AddCopy, first
  <2> QED
    BY <2>3, <2>4
<1>6. /\ CopyAddRow \in Seq(TwoEntry) /\ Distinct(CopyAddRow)
      /\ \A e \in Elements(CopyAddRow) : e.inst1 = COPY
  <2> DEFINE n == Modes - 1 - 0 + 1
             entry(k) == Pair(COPY, CopyFrom, 0 + k - 1, ADD, 1, 0)
  <2>1. n \in Int /\ \A k \in 1..n : 0 + k - 1 \in Nat
    BY Extents
  <2>2. ASSUME NEW k \in 1..n
        PROVE  entry(k) \in TwoEntry /\ entry(k).inst1 = COPY /\ entry(k).mode1 = 0 + k - 1
    <3> DEFINE mode == 0 + k - 1
    <3>1. mode \in Nat
      BY <2>1
    <3>2. CopyFrom \in Byte \ {0} /\ CopyFrom \in Nat /\ 1 \in Byte \ {0}
      BY Extents
    <3> HIDE DEF mode
    <3>3. /\ Pair(COPY, CopyFrom, mode, ADD, 1, 0) \in TwoEntry
          /\ Pair(COPY, CopyFrom, mode, ADD, 1, 0).inst1 = COPY
          /\ Pair(COPY, CopyFrom, mode, ADD, 1, 0).mode1 = mode
      BY <3>1, <3>2 DEF Pair, TwoEntry, EntryFields, NOOP, ADD, COPY
    <3>4. entry(k) = Pair(COPY, CopyFrom, mode, ADD, 1, 0)
      BY DEF mode
    <3> QED
      BY <3>3, <3>4 DEF mode
  <2>3. CopyAddRow = [k \in 1..n |-> entry(k)]
    BY DEF CopyAddRow
  <2> HIDE DEF entry
  <2>4. CopyAddRow \in [1..n -> TwoEntry] /\ \A k \in 1..n : CopyAddRow[k] = entry(k)
    BY <2>2, <2>3
  <2> HIDE DEF n
  <2>5. /\ CopyAddRow \in Seq(TwoEntry)
        /\ \A k : k \in 1..Len(CopyAddRow) <=> k \in 1..n
        /\ \A x \in Elements(CopyAddRow) : \E k \in 1..n : x = CopyAddRow[k]
    <3>1. n \in Int
      BY <2>1
    <3> QED
      BY <2>4, <3>1, RowsAre, Zenon
  <2>6. Distinct(CopyAddRow)
    <3> SUFFICES ASSUME NEW i \in 1..n, NEW j \in 1..n, CopyAddRow[i] = CopyAddRow[j]
                 PROVE  i = j
      BY <2>5 DEF Distinct
    <3>1. 0 + i - 1 = 0 + j - 1
      BY <2>2, <2>4
    <3> QED
      BY <3>1
  <2> QED
    BY <2>2, <2>4, <2>5, <2>6
<1> HIDE DEF explicit, cached
<1> DEFINE adds == explicit \o cached
<1>7. adds \in Seq(TwoEntry) /\ Distinct(adds) /\ Elements(adds) = Elements(explicit) \cup Elements(cached)
  <2>1. Elements(explicit) \cap Elements(cached) = {}
    BY <1>4, <1>5
  <2> QED
    BY <1>4, <1>5, <2>1, Joined
<1> HIDE DEF adds
<1>8. Elements(adds) \cap Elements(CopyAddRow) = {}
  BY <1>4, <1>5, <1>6, <1>7 DEF ADD, COPY
<1>9. adds \o CopyAddRow \in Seq(TwoEntry) /\ Distinct(adds \o CopyAddRow)
  BY <1>6, <1>7, <1>8, Joined
<1> QED
  BY <1>9, TableParts DEF adds, explicit, cached

(* The default table, opcode by opcode: the first ones take one            *)
(* instruction, the pair bank two, and no pair is in it twice.             *)
LEMMA DefaultTableIs ==
  /\ PairBankStart \in Nat /\ PairBankCapacity \in Nat
  /\ \A op \in TableOpcodes :
       /\ op \in Nat /\ op < PairBankStart + PairBankCapacity
       /\ op < PairBankStart => DefaultTable[op] \in OneEntry
       /\ op >= PairBankStart => DefaultTable[op] \in TwoEntry
  /\ \A op \in 0..(PairBankStart + PairBankCapacity - 1) : op \in TableOpcodes
  /\ \A op, other \in TableOpcodes :
       /\ op >= PairBankStart /\ other >= PairBankStart
       /\ DefaultTable[op] = DefaultTable[other]
       => op = other
  /\ \A a \in Atom : a.mode < Modes =>
       \E op \in TableOpcodes :
         op < PairBankStart /\ DefaultTable[op] = Single(a.type, 0, a.mode)
<1> DEFINE m == PairBankStart
           n == PairBankCapacity
           entries == Singles \o Pairs
<1>1. /\ Singles \in Seq(OneEntry \cup TwoEntry) /\ Pairs \in Seq(OneEntry \cup TwoEntry)
  <2>1. \A S, T : \A s \in Seq(S) : s \in Seq(S \cup T) /\ s \in Seq(T \cup S)
    OBVIOUS
  <2> QED
    BY <2>1, SinglesAre, PairsAre
<1>2. /\ Len(Singles) \in Nat /\ Len(Pairs) \in Nat
      /\ \A i \in 1..Len(Singles) : entries[i] = Singles[i] /\ Singles[i] \in OneEntry
      /\ \A i \in 1..Len(Pairs) : entries[Len(Singles) + i] = Pairs[i] /\ Pairs[i] \in TwoEntry
  BY <1>1, Joined, SinglesAre, PairsAre, LenProperties, ElementOfSeq
<1>3. m = Len(Singles) /\ n = Len(Pairs) /\ TableOpcodes = 0..(m + n - 1)
      /\ \A op \in TableOpcodes : DefaultTable[op] = entries[op + 1]
  BY DEF PairBankStart, PairBankCapacity, TableOpcodes, TableSize, DefaultTable
<1> HIDE DEF entries, m, n
<1>4. ASSUME NEW op \in TableOpcodes
      PROVE  /\ op \in Nat /\ op < m + n
             /\ op < m => /\ op + 1 \in 1..m /\ DefaultTable[op] = Singles[op + 1]
                          /\ DefaultTable[op] \in OneEntry
             /\ op >= m => /\ op - m + 1 \in 1..n /\ DefaultTable[op] = Pairs[op - m + 1]
                           /\ DefaultTable[op] \in TwoEntry
  <2>1. op \in Nat /\ op < m + n /\ m \in Nat /\ n \in Nat
    BY <1>2, <1>3
  <2>2. CASE op < m
    <3>1. op + 1 \in 1..m /\ ~(op >= m)
      BY <2>1, <2>2
    <3> QED
      BY <1>2, <1>3, <2>1, <2>2, <3>1
  <2>3. CASE op >= m
    <3> DEFINE i == op - m + 1
    <3>1. i \in 1..n /\ m + i = op + 1 /\ ~(op < m)
      BY <2>1, <2>3
    <3> HIDE DEF i
    <3>2. DefaultTable[op] = entries[m + i] /\ entries[m + i] = Pairs[i] /\ Pairs[i] \in TwoEntry
      BY <1>2, <1>3, <3>1
    <3> QED
      BY <2>1, <3>1, <3>2 DEF i
  <2> QED
    BY <2>1, <2>2, <2>3
<1>5. ASSUME NEW op \in TableOpcodes, NEW other \in TableOpcodes,
             op >= m, other >= m, DefaultTable[op] = DefaultTable[other]
      PROVE  op = other
  <2>1. op - m + 1 = other - m + 1
    <3>1. Pairs[op - m + 1] = Pairs[other - m + 1]
          /\ op - m + 1 \in 1..Len(Pairs) /\ other - m + 1 \in 1..Len(Pairs)
      BY <1>3, <1>4, <1>5
    <3> QED
      BY <3>1, PairsAre DEF Distinct
  <2> QED
    BY <1>2, <1>3, <1>4, <2>1
<1>6. ASSUME NEW a \in Atom, a.mode < Modes
      PROVE  \E op \in TableOpcodes : op < m /\ DefaultTable[op] = Single(a.type, 0, a.mode)
  <2>1. PICK i \in 1..Len(Singles) : Singles[i] = Single(a.type, 0, a.mode)
    BY <1>6, SinglesAre
  <2>2. i - 1 \in TableOpcodes /\ i - 1 < m /\ (i - 1) + 1 = i
    BY <1>2, <1>3
  <2>3. DefaultTable[i - 1] = Singles[i]
    BY <1>4, <2>2
  <2> QED
    BY <2>1, <2>2, <2>3
<1> QED
  BY <1>2, <1>3, <1>4, <1>5, <1>6 DEF m, n

-----------------------------------------------------------------------------
(* What one entry may stand for, and the order in which patterns are       *)
(* installed.                                                              *)
Words == {p \in Seq(Atom) : Len(p) \in {1, 2}}

(* Words are equal that agree on their atoms.                              *)
LEMMA WordsEqual ==
  ASSUME NEW p \in Words, NEW q \in Words
  PROVE  /\ p[1] \in Atom /\ (Len(p) = 2 => p[2] \in Atom)
         /\ Len(p) = Len(q) /\ p[1] = q[1] /\ (Len(p) = 2 => p[2] = q[2]) => p = q
<1>1. p \in Seq(Atom) /\ q \in Seq(Atom) /\ Len(p) \in {1, 2} /\ Len(q) \in {1, 2}
  BY DEF Words
<1>2. p[1] \in Atom /\ (Len(p) = 2 => p[2] \in Atom)
  BY <1>1, ElementOfSeq
<1>3. ASSUME Len(p) = Len(q), p[1] = q[1], Len(p) = 2 => p[2] = q[2]
      PROVE  p = q
  <2>1. \A i \in 1..Len(p) : p[i] = q[i]
    BY <1>1, <1>3
  <2> QED
    BY <1>1, <1>3, <2>1, SeqEqual
<1> QED
  BY <1>2, <1>3

(* The order of the words, atom by atom.                                   *)
Before(p, q) ==
  \/ AtomLess(p[1], q[1])
  \/ /\ p[1] = q[1]
     /\ Len(q) = 2
     /\ Len(p) = 1 \/ AtomLess(p[2], q[2])

(* The order of the code on patterns, spelled out for patterns of one or two*)
(* atoms.                                                                  *)
LEMMA LessIs ==
  ASSUME NEW p \in Words, NEW q \in Words
  PROVE  PatternLess(p, q) <=> Before(p, q)
<1>1. /\ p \in Seq(Atom) /\ q \in Seq(Atom) /\ Len(p) \in {1, 2} /\ Len(q) \in {1, 2}
      /\ DOMAIN p = 1..Len(p) /\ DOMAIN q = 1..Len(q)
  BY DEF Words
<1>2. ASSUME NEW a \in Atom PROVE ~AtomLess(a, a)
  BY DEF AtomLess, Atom, ADD, RUN, COPY
<1>3. p[1] \in Atom /\ q[1] \in Atom /\ (Len(p) = 2 => p[2] \in Atom)
      /\ (Len(q) = 2 => q[2] \in Atom)
  BY WordsEqual
<1>4. IsStrictPrefix(p, q) <=> Len(p) = 1 /\ Len(q) = 2 /\ p[1] = q[1]
  <2> DEFINE s == SubSeq(p, 1, Len(p))
             t == SubSeq(q, 1, Len(p))
  <2>1. Len(p) <= Len(q) => /\ s \in Words /\ t \in Words /\ Len(s) = Len(p) /\ Len(t) = Len(p)
                            /\ s[1] = p[1] /\ t[1] = q[1]
                            /\ Len(p) = 2 => s[2] = p[2] /\ t[2] = q[2]
    <3> SUFFICES ASSUME Len(p) <= Len(q)
                 PROVE  /\ s \in Words /\ t \in Words /\ Len(s) = Len(p) /\ Len(t) = Len(p)
                        /\ s[1] = p[1] /\ t[1] = q[1]
                        /\ Len(p) = 2 => s[2] = p[2] /\ t[2] = q[2]
      OBVIOUS
    <3>1. Len(p) \in Int /\ 1 \in Int /\ 1 <= Len(p) /\ Len(p) - 1 + 1 = Len(p)
          /\ 1 \in 1..(Len(p) - 1 + 1) /\ (Len(p) = 2 => 2 \in 1..(Len(p) - 1 + 1))
          /\ 1 + 1 - 1 = 1 /\ 1 + 2 - 1 = 2
      BY <1>1
    <3>2. \A i \in 1..Len(p) : p[i] \in Atom /\ q[i] \in Atom
      BY <1>1, <1>3
    <3>3. /\ s \in Seq(Atom) /\ Len(s) = Len(p)
          /\ \A i \in 1..(Len(p) - 1 + 1) : s[i] = p[1 + i - 1]
      BY <3>1, <3>2, SubSeqProperties
    <3>4. /\ t \in Seq(Atom) /\ Len(t) = Len(p)
          /\ \A i \in 1..(Len(p) - 1 + 1) : t[i] = q[1 + i - 1]
      BY <3>1, <3>2, SubSeqProperties
    <3> HIDE DEF s, t
    <3>5. s \in Words /\ t \in Words
      BY <1>1, <3>3, <3>4 DEF Words
    <3>6. s[1] = p[1] /\ t[1] = q[1]
      BY <3>1, <3>3, <3>4
    <3>7. Len(p) = 2 => s[2] = p[2] /\ t[2] = q[2]
      BY <3>1, <3>3, <3>4
    <3> QED
      BY <3>3, <3>4, <3>5, <3>6, <3>7
  <2>2. IsStrictPrefix(p, q) <=> Len(p) <= Len(q) /\ s = t /\ p # q
    BY DEF IsStrictPrefix, IsPrefix
  <2> HIDE DEF s, t
  <2>3. Len(p) <= Len(q) =>
          (s = t <=> p[1] = q[1] /\ (Len(p) = 2 => p[2] = q[2]))
    BY <2>1, WordsEqual
  <2>4. CASE Len(p) = Len(q)
    <3>1. p # q <=> ~(p[1] = q[1] /\ (Len(p) = 2 => p[2] = q[2]))
      BY <2>4, WordsEqual
    <3> QED
      BY <1>1, <2>2, <2>3, <2>4, <3>1
  <2>5. CASE Len(p) # Len(q)
    <3>1. p # q
      BY <2>5
    <3>2. Len(p) <= Len(q) <=> Len(p) = 1 /\ Len(q) = 2
      <4>1. \A m, n \in {1, 2} : m # n => (m <= n <=> m = 1 /\ n = 2)
        OBVIOUS
      <4> QED
        BY <1>1, <2>5, <4>1
    <3> QED
      BY <2>2, <2>3, <3>1, <3>2
  <2> QED
    BY <2>4, <2>5
<1>5. (\E i \in DOMAIN p \cap DOMAIN q :
         AtomLess(p[i], q[i]) /\ \A j \in 1..(i - 1) : p[j] = q[j])
      <=> \/ AtomLess(p[1], q[1])
          \/ /\ Len(p) = 2 /\ Len(q) = 2
             /\ p[1] = q[1] /\ AtomLess(p[2], q[2])
  <2> DEFINE First(i) == AtomLess(p[i], q[i]) /\ \A j \in 1..(i - 1) : p[j] = q[j]
  <2>1. First(1) <=> AtomLess(p[1], q[1])
    BY SMT
  <2>2. First(2) <=> p[1] = q[1] /\ AtomLess(p[2], q[2])
    <3>1. 1..(2 - 1) = {1}
      OBVIOUS
    <3> QED
      BY <3>1
  <2>3. \A i : i \in DOMAIN p \cap DOMAIN q <=> i = 1 \/ (i = 2 /\ Len(p) = 2 /\ Len(q) = 2)
    BY <1>1
  <2> HIDE DEF First
  <2>4. (\E i \in DOMAIN p \cap DOMAIN q : First(i))
          <=> First(1) \/ (Len(p) = 2 /\ Len(q) = 2 /\ First(2))
    BY <2>3
  <2>5. (\E i \in DOMAIN p \cap DOMAIN q : First(i))
          <=> \/ AtomLess(p[1], q[1])
              \/ /\ Len(p) = 2 /\ Len(q) = 2
                 /\ p[1] = q[1] /\ AtomLess(p[2], q[2])
    BY <2>1, <2>2, <2>4
  <2> QED
    BY <2>5 DEF First
<1>6. PatternLess(p, q)
        <=> \/ Len(p) = 1 /\ Len(q) = 2 /\ p[1] = q[1]
            \/ AtomLess(p[1], q[1])
            \/ /\ Len(p) = 2 /\ Len(q) = 2
               /\ p[1] = q[1] /\ AtomLess(p[2], q[2])
  BY <1>4, <1>5 DEF PatternLess
<1>7. Len(p) = 1 \/ Len(p) = 2
  BY <1>1
<1> QED
  BY <1>6, <1>7, Zenon DEF Before

(* It is a total order.                                                    *)
LEMMA AtomsOrdered ==
  ASSUME NEW a \in Atom, NEW b \in Atom, NEW c \in Atom
  PROVE  /\ ~AtomLess(a, a)
         /\ AtomLess(a, b) /\ AtomLess(b, c) => AtomLess(a, c)
         /\ a = b \/ AtomLess(a, b) \/ AtomLess(b, a)
BY DEF AtomLess, Atom, ADD, RUN, COPY

(* PatternLess is a strict total order of the patterns, so that sorting a  *)
(* selection has one result.                                               *)
LEMMA WordsOrdered ==
  ASSUME NEW p \in Words, NEW q \in Words, NEW r \in Words
  PROVE  /\ ~PatternLess(p, p)
         /\ PatternLess(p, q) /\ PatternLess(q, r) => PatternLess(p, r)
         /\ p = q \/ PatternLess(p, q) \/ PatternLess(q, p)
<1>1. /\ p[1] \in Atom /\ q[1] \in Atom /\ r[1] \in Atom
      /\ Len(p) = 2 => p[2] \in Atom
      /\ Len(q) = 2 => q[2] \in Atom
      /\ Len(r) = 2 => r[2] \in Atom
      /\ Len(p) \in {1, 2} /\ Len(q) \in {1, 2} /\ Len(r) \in {1, 2}
  BY WordsEqual DEF Words
<1>2. ~Before(p, p)
  <2>1. ~AtomLess(p[1], p[1]) /\ (Len(p) = 2 => ~AtomLess(p[2], p[2]))
    BY <1>1, AtomsOrdered
  <2>2. Len(p) = 1 \/ Len(p) = 2
    BY <1>1
  <2>3. Len(p) = 2 => Len(p) # 1
    OBVIOUS
  <2> QED
    BY <2>1, <2>2, <2>3 DEF Before
<1>3. ASSUME Before(p, q), Before(q, r) PROVE Before(p, r)
  <2>1. AtomLess(p[1], q[1]) /\ AtomLess(q[1], r[1]) => AtomLess(p[1], r[1])
    BY <1>1, AtomsOrdered
  <2>2. Len(p) = 2 /\ Len(q) = 2 /\ Len(r) = 2 /\ AtomLess(p[2], q[2]) /\ AtomLess(q[2], r[2])
        => AtomLess(p[2], r[2])
    BY <1>1, AtomsOrdered
  <2>3. (Len(p) = 1 \/ Len(p) = 2) /\ (Len(q) = 2 => Len(q) # 1)
    BY <1>1
  <2> QED
    BY <1>3, <2>1, <2>2, <2>3 DEF Before
<1>4. p = q \/ Before(p, q) \/ Before(q, p)
  <2>1. p[1] = q[1] \/ AtomLess(p[1], q[1]) \/ AtomLess(q[1], p[1])
    BY <1>1, AtomsOrdered
  <2>2. Len(p) = 2 /\ Len(q) = 2
        => p[2] = q[2] \/ AtomLess(p[2], q[2]) \/ AtomLess(q[2], p[2])
    BY <1>1, AtomsOrdered
  <2>3. Len(p) = Len(q) /\ p[1] = q[1] /\ (Len(p) = 2 => p[2] = q[2]) => p = q
    BY WordsEqual
  <2>4. (Len(p) = 1 \/ Len(p) = 2) /\ (Len(q) = 1 \/ Len(q) = 2)
    BY <1>1
  <2>5. (Len(p) = 1 /\ Len(q) = 1 => Len(p) = Len(q) /\ Len(p) # 2)
        /\ (Len(p) = 2 /\ Len(q) = 2 => Len(p) = Len(q))
    OBVIOUS
  <2> QED
    BY <2>1, <2>2, <2>3, <2>4, <2>5 DEF Before
<1> QED
  BY <1>2, <1>3, <1>4, LessIs

(* So every place up to the number of some patterns is that of one.        *)
LEMMA InPlaceIs ==
  ASSUME NEW S \in SUBSET Words, IsFiniteSet(S)
  PROVE  /\ \A k \in 1..Cardinality(S) : InPlace(k, S) \in S
         /\ \A p \in S : Place(p, S) \in 1..Cardinality(S) /\ InPlace(Place(p, S), S) = p
<1> DEFINE L(p) == {r \in S : PatternLess(r, p)}
           n == Cardinality(S)
           f == [p \in S |-> Place(p, S)]
<1>1. n \in Nat
  BY FS_CardinalityType
<1>2. ASSUME NEW p \in S
      PROVE  /\ L(p) \in SUBSET S /\ IsFiniteSet(L(p)) /\ Cardinality(L(p)) \in Nat
             /\ Cardinality(L(p)) <= n /\ Cardinality(L(p)) # n /\ p \notin L(p)
  <2>1. p \notin L(p) /\ L(p) \in SUBSET S
    BY WordsOrdered
  <2> HIDE DEF L
  <2>2. IsFiniteSet(L(p)) /\ Cardinality(L(p)) <= n /\ (n = Cardinality(L(p)) => S = L(p))
    BY <2>1, FS_Subset
  <2>3. Cardinality(L(p)) \in Nat
    BY <2>2, FS_CardinalityType
  <2> QED
    BY <2>1, <2>2, <2>3
<1>3. ASSUME NEW p \in S, NEW q \in S, PatternLess(p, q)
      PROVE  Cardinality(L(p)) # Cardinality(L(q))
  <2>1. L(p) \in SUBSET L(q)
    BY <1>3, WordsOrdered
  <2>2. p \in L(q)
    BY <1>3
  <2> HIDE DEF L
  <2>3. Cardinality(L(q)) = Cardinality(L(p)) => L(q) = L(p)
    BY <1>2, <2>1, FS_Subset
  <2> QED
    BY <1>2, <2>2, <2>3
<1>4. ASSUME NEW p \in S PROVE Place(p, S) = 1 + Cardinality(L(p))
  BY DEF Place
<1> HIDE DEF L
<1>5. ASSUME NEW p \in S PROVE Place(p, S) \in 1..n
  <2> HIDE DEF n
  <2> QED
    BY <1>1, <1>2, <1>4
<1>6. ASSUME NEW p \in S, NEW q \in S, Place(p, S) = Place(q, S) PROVE p = q
  <2>1. Cardinality(L(p)) = Cardinality(L(q))
    <3>1. Cardinality(L(p)) \in Nat /\ Cardinality(L(q)) \in Nat
      BY <1>2
    <3>2. 1 + Cardinality(L(p)) = 1 + Cardinality(L(q))
      BY <1>4, <1>6
    <3> QED
      BY <3>1, <3>2
  <2>2. p = q \/ PatternLess(p, q) \/ PatternLess(q, p)
    BY WordsOrdered
  <2> QED
    BY <1>3, <2>1, <2>2
<1>7. f \in Injection(S, 1..n)
  <2>1. \A p \in S : f[p] = Place(p, S)
    OBVIOUS
  <2>2. f \in [S -> 1..n]
    <3> HIDE DEF n
    <3> QED
      BY <1>5
  <2> HIDE DEF f, n
  <2>3. \A p, q \in S : f[p] = f[q] => p = q
    BY <1>6, <2>1
  <2> QED
    BY <2>2, <2>3 DEF Injection, IsInjective
<1>8. f \in Surjection(S, 1..n)
  <2>1. IsFiniteSet(1..n) /\ Cardinality(1..n) = n
    <3> HIDE DEF n
    <3>1. IsFiniteSet(1..n) /\ Cardinality(1..n) = IF 1 > n THEN 0 ELSE n - 1 + 1
      BY <1>1, FS_Interval
    <3> QED
      BY <1>1, <3>1
  <2>2. Cardinality(S) = n
    OBVIOUS
  <2> HIDE DEF f, n
  <2> QED
    BY <1>7, <2>1, <2>2, FS_Injection
<1>9. ASSUME NEW k \in 1..n PROVE InPlace(k, S) \in S /\ Place(InPlace(k, S), S) = k
  <2>1. \E p \in S : Place(p, S) = k
    <3> HIDE DEF n
    <3> QED
      BY <1>8 DEF Surjection
  <2> QED
    BY <2>1 DEF InPlace
<1> HIDE DEF n, f
<1>10. ASSUME NEW p \in S PROVE InPlace(Place(p, S), S) = p
  <2>1. Place(p, S) \in 1..n
    BY <1>5
  <2> QED
    BY <1>6, <1>9, <2>1
<1> QED
  BY <1>5, <1>9, <1>10 DEF n

-----------------------------------------------------------------------------
(* What entries match, and at what cost.                                   *)

(* No use of an entry is free.                                             *)
LEMMA CostsAre ==
  ASSUME NEW a \in Words, NEW e
  PROVE  EntryCost(e, a) \in Nat /\ EntryCost(e, a) >= 1
<1>1. \A s : \A b \in Atom : HalfCost(s, b) \in Nat
  <2>1. \A b \in Atom : b.size \in Nat
    BY DEF Atom
  <2>2. \A b \in Atom : VarintSize(b.size) \in Nat
    <3> SUFFICES ASSUME NEW b \in Atom PROVE VarintSize(b.size) \in Nat
      OBVIOUS
    <3>1. b.size \in Nat /\ b.size <= b.size
      BY <2>1
    <3> QED
      BY <3>1, VarintSizeMonotone
  <2> QED
    BY <2>2 DEF HalfCost
<1>2. HalfCost(e.size1, a[1]) \in Nat /\ (Len(a) = 2 => HalfCost(e.size2, a[2]) \in Nat)
  BY <1>1, WordsEqual
<1> QED
  BY <1>2 DEF EntryCost

(* A pattern's entry stands for the pattern, for a byte.                   *)
LEMMA PatternMatches ==
  ASSUME NEW p \in Words, NEW a \in Words
  PROVE  /\ EntryMatches(FromPattern(p), a) => a = p
         /\ EntryMatches(FromPattern(a), a) /\ EntryCost(FromPattern(a), a) = 1
<1>1. /\ p[1] \in Atom /\ (Len(p) = 2 => p[2] \in Atom) /\ Len(p) \in {1, 2}
      /\ a[1] \in Atom /\ (Len(a) = 2 => a[2] \in Atom) /\ Len(a) \in {1, 2}
  BY WordsEqual DEF Words
<1>2. ASSUME NEW b \in Atom
      PROVE  /\ b.size # 0 /\ b.type # NOOP
             /\ b = [type |-> b.type, size |-> b.size, mode |-> b.mode]
  BY DEF Atom, NOOP, ADD, RUN, COPY
<1>3. ASSUME NEW b \in Atom, NEW c \in Atom, HalfMatches(b.type, b.size, b.mode, c)
      PROVE  c = b
  BY <1>2, <1>3 DEF HalfMatches
<1>4. ASSUME EntryMatches(FromPattern(p), a) PROVE a = p
  <2>1. CASE Len(p) = 1
    <3>1. Len(a) = 1 /\ HalfMatches(p[1].type, p[1].size, p[1].mode, a[1])
      BY <1>4, <2>1 DEF EntryMatches, FromPattern, Single, Width
    <3> QED
      BY <1>1, <1>3, <2>1, <3>1, WordsEqual
  <2>2. CASE Len(p) = 2
    <3>1. p[2].type # NOOP
      BY <1>1, <1>2, <2>2
    <3>2. Len(a) = 2 /\ HalfMatches(p[1].type, p[1].size, p[1].mode, a[1])
                     /\ HalfMatches(p[2].type, p[2].size, p[2].mode, a[2])
      BY <1>4, <2>2, <3>1 DEF EntryMatches, FromPattern, Pair, Width
    <3>3. a[1] = p[1] /\ a[2] = p[2]
      BY <1>1, <1>3, <2>2, <3>2
    <3> QED
      BY <2>2, <3>2, <3>3, WordsEqual
  <2> QED
    BY <1>1, <2>1, <2>2
<1>5. EntryMatches(FromPattern(a), a) /\ EntryCost(FromPattern(a), a) = 1
  <2>1. CASE Len(a) = 1
    BY <2>1 DEF EntryMatches, EntryCost, FromPattern, Single, Width, HalfMatches, HalfCost
  <2>2. CASE Len(a) = 2
    <3>1. a[2].type # NOOP
      BY <1>1, <1>2, <2>2
    <3> QED
      BY <2>2, <3>1 DEF EntryMatches, EntryCost, FromPattern, Pair, Width, HalfMatches, HalfCost
  <2> QED
    BY <1>1, <2>1, <2>2
<1> QED
  BY <1>4, <1>5

(* An entry of one instruction matches one, and leaves its size open if it *)
(* is generic.                                                             *)
LEMMA SingleMatches ==
  ASSUME NEW a \in Words
  PROVE  /\ \A e \in OneEntry : EntryMatches(e, a) => Len(a) = 1
         /\ Len(a) = 1 => EntryMatches(Single(a[1].type, 0, a[1].mode), a)
BY DEF EntryMatches, OneEntry, Width, Single, HalfMatches

(* One of two is the entry of the pattern it matches.                      *)
LEMMA PairMatches ==
  ASSUME NEW a \in Words, NEW e \in TwoEntry, EntryMatches(e, a)
  PROVE  /\ Len(a) = 2 /\ e = FromPattern(a) /\ EntryCost(e, a) = 1
         /\ a[1].size \in Byte /\ a[2].size \in Byte
<1>1. /\ e \in EntryFields /\ e.inst2 # NOOP /\ e.size1 \in Byte \ {0} /\ e.size2 \in Byte \ {0}
  BY DEF TwoEntry
<1>2. Len(a) = 2 /\ HalfMatches(e.inst1, e.size1, e.mode1, a[1])
      /\ HalfMatches(e.inst2, e.size2, e.mode2, a[2])
  BY <1>1 DEF EntryMatches, Width
<1>3. /\ e.inst1 = a[1].type /\ e.mode1 = a[1].mode /\ e.size1 = a[1].size
      /\ e.inst2 = a[2].type /\ e.mode2 = a[2].mode /\ e.size2 = a[2].size
  BY <1>1, <1>2 DEF HalfMatches
<1>4. e = [inst1 |-> e.inst1, size1 |-> e.size1, mode1 |-> e.mode1,
           inst2 |-> e.inst2, size2 |-> e.size2, mode2 |-> e.mode2]
  BY <1>1 DEF EntryFields
<1>5. e = FromPattern(a)
  BY <1>2, <1>3, <1>4 DEF FromPattern, Pair
<1>6. EntryCost(e, a) = 1
  BY <1>2, <1>3 DEF EntryCost, HalfCost
<1> QED
  BY <1>1, <1>2, <1>3, <1>5, <1>6

(* best_entry: an entry of least cost.                                     *)
LEMMA BestIs ==
  ASSUME NEW T, NEW opcodes \in SUBSET Nat, NEW a \in Words,
         Matching(T, opcodes, a) # {}
  PROVE  /\ BestCost(T, opcodes, a) \in Nat /\ BestCost(T, opcodes, a) >= 1
         /\ \A op \in Matching(T, opcodes, a) : BestCost(T, opcodes, a) <= EntryCost(T[op], a)
         /\ BestOpcode(T, opcodes, a) \in Matching(T, opcodes, a)
         /\ EntryCost(T[BestOpcode(T, opcodes, a)], a) = BestCost(T, opcodes, a)
<1> DEFINE M == Matching(T, opcodes, a)
           C == {EntryCost(T[op], a) : op \in M}
           b == BestCost(T, opcodes, a)
           B == {op \in M : EntryCost(T[op], a) = b}
<1>1. C \subseteq Nat /\ C # {} /\ \A c \in C : c >= 1
  <2> HIDE DEF M
  <2>1. M # {}
    BY DEF M
  <2> QED
    BY <2>1, CostsAre
<1>2. b = Min(C)
  BY DEF BestCost
<1> HIDE DEF C, b
<1>3. b \in C /\ \A c \in C : b <= c
  <2>1. Min(C) \in C /\ \A c \in C : Min(C) <= c
    BY <1>1, MinNumber
  <2> QED
    BY <1>2, <2>1
<1>4. B # {} /\ B \subseteq Nat
  <2>1. M \subseteq Nat
    BY DEF Matching
  <2> QED
    BY <1>3, <2>1 DEF C
<1>5. BestOpcode(T, opcodes, a) = Min(B)
  BY DEF BestOpcode, b
<1> HIDE DEF B
<1>6. BestOpcode(T, opcodes, a) \in B
  BY <1>4, <1>5, MinNumber
<1>7. \A op \in M : b <= EntryCost(T[op], a)
  BY <1>3 DEF C
<1> QED
  BY <1>1, <1>3, <1>6, <1>7 DEF b, B
-----------------------------------------------------------------------------
(* The tables of the family.                                               *)

(* A table with so many slots and so many patterns.                        *)
Installed(T, q, sel) ==
  /\ \A op \in BaseOpcodes(q) : T[op] = DefaultTable[op]
  /\ \A op \in TableOpcodes \ BaseOpcodes(q) : \E p \in sel : T[op] = FromPattern(p)
  /\ \A p \in sel : \E op \in TableOpcodes : T[op] = FromPattern(p)

(* The opcodes that keep their default entry.                              *)
LEMMA BaseIs ==
  ASSUME NEW q \in Nat, q <= PairBankCapacity
  PROVE  /\ BaseOpcodes(q) \subseteq TableOpcodes /\ TableOpcodes \subseteq Nat
         /\ \A op \in TableOpcodes :
              op \in BaseOpcodes(q) <=> op < PairBankStart \/ op - PairBankStart + 1 > q
<1>1. /\ PairBankStart \in Nat /\ PairBankCapacity \in Nat
      /\ \A op \in TableOpcodes : op \in Nat
  BY DefaultTableIs
<1> QED
  BY <1>1 DEF BaseOpcodes

(* The default table is that of no slots.                                  *)
LEMMA DefaultInstalled == Installed(DefaultTable, 0, {})
<1>1. /\ PairBankStart \in Nat /\ PairBankCapacity \in Nat
      /\ \A op \in TableOpcodes : op \in Nat
  BY DefaultTableIs
<1>2. \A op \in TableOpcodes : op \in BaseOpcodes(0)
  BY <1>1 DEF BaseOpcodes
<1> QED
  BY <1>2 DEF Installed

(* build_custom_table: the patterns are there, and nothing else in their   *)
(* place, whatever the padding.                                            *)
LEMMA CustomInstalled ==
  ASSUME NEW q \in 1..PairBankCapacity, NEW sel \in SUBSET Words,
         IsFiniteSet(sel), Cardinality(sel) \in 1..q
  PROVE  Installed(CustomTable(sel, q), q, sel)
<1> DEFINE m == PairBankStart
           T == CustomTable(sel, q)
           c == Cardinality(sel)
<1>1. /\ m \in Nat /\ PairBankCapacity \in Nat /\ q \in Nat /\ c \in 1..q
      /\ \A op \in TableOpcodes : op \in Nat
      /\ \A op \in 0..(m + PairBankCapacity - 1) : op \in TableOpcodes
  BY DefaultTableIs
<1>2. /\ \A k \in 1..c : InPlace(k, sel) \in sel
      /\ \A p \in sel : Place(p, sel) \in 1..c /\ InPlace(Place(p, sel), sel) = p
  BY InPlaceIs
<1>3. \A op \in TableOpcodes :
        op \in BaseOpcodes(q) <=> op < m \/ op - m + 1 > q
  BY <1>1, BaseIs
<1>4. \A op \in TableOpcodes :
        T[op] = IF op < m \/ op - m + 1 > q THEN DefaultTable[op]
                ELSE IF op - m + 1 <= c THEN FromPattern(InPlace(op - m + 1, sel))
                ELSE FromPattern(InPlace(1, sel))
  BY DEF CustomTable
<1> HIDE DEF m, T, c
<1>5. \A op \in BaseOpcodes(q) : T[op] = DefaultTable[op]
  <2>1. BaseOpcodes(q) \subseteq TableOpcodes
    BY DEF BaseOpcodes
  <2> QED
    BY <1>3, <1>4, <2>1
<1>6. ASSUME NEW op \in TableOpcodes \ BaseOpcodes(q)
      PROVE  \E p \in sel : T[op] = FromPattern(p)
  <2>1. ~(op < m \/ op - m + 1 > q)
    BY <1>3
  <2>2. CASE op - m + 1 <= c
    <3>1. op - m + 1 \in 1..c
      BY <1>1, <2>1, <2>2
    <3> QED
      BY <1>2, <1>4, <2>1, <2>2, <3>1
  <2>3. CASE ~(op - m + 1 <= c)
    <3>1. 1 \in 1..c
      BY <1>1
    <3> QED
      BY <1>2, <1>4, <2>1, <2>3, <3>1
  <2> QED
    BY <2>2, <2>3
<1>7. ASSUME NEW p \in sel PROVE \E op \in TableOpcodes : T[op] = FromPattern(p)
  <2> DEFINE k == Place(p, sel)
             op == m + k - 1
  <2>1. k \in 1..c /\ InPlace(k, sel) = p
    BY <1>2
  <2> HIDE DEF k
  <2>2. op - m + 1 = k /\ ~(op < m) /\ ~(k > q) /\ k <= c /\ op \in 0..(m + PairBankCapacity - 1)
    BY <1>1, <2>1
  <2> HIDE DEF op
  <2>3. op \in TableOpcodes
    BY <1>1, <2>2
  <2>4. T[op] = FromPattern(InPlace(k, sel))
    BY <1>4, <2>2, <2>3
  <2> QED
    BY <2>1, <2>3, <2>4
<1> QED
  BY <1>5, <1>6, <1>7 DEF Installed, T

(* Atoms of modes the caches have, as in the windows.                      *)
IsProgram(w) == w \in Seq(Atom) /\ \A i \in 1..Len(w) : w[i].mode < Modes

(* A span covers a word, of as many atoms.                                 *)
LEMMA CoveredIs ==
  ASSUME NEW w, IsProgram(w), NEW span \in Spans(w)
  PROVE  /\ Covered(w, span) \in Words /\ Len(Covered(w, span)) = span[2]
         /\ Covered(w, span)[1] = w[span[1]]
         /\ \A i \in 1..Len(Covered(w, span)) : Covered(w, span)[i].mode < Modes
         /\ span[1] \in 1..Len(w) /\ span[2] \in {1, 2} /\ span[1] + span[2] <= Len(w) + 1
<1> DEFINE s == span[1]
           k == span[2]
           t == Covered(w, span)
<1>1. /\ w \in Seq(Atom) /\ Len(w) \in Nat
      /\ s \in 1..Len(w) /\ k \in {1, 2} /\ s + k <= Len(w) + 1
  BY DEF IsProgram, Spans
<1> HIDE DEF s, k
<1>2. \A i \in s..(s + k - 1) : i \in 1..Len(w)
  BY <1>1
<1>3. \A i \in s..(s + k - 1) : w[i] \in Atom /\ w[i].mode < Modes
  BY <1>1, <1>2, ElementOfSeq DEF IsProgram
<1>4. t = SubSeq(w, s, s + k - 1)
  BY DEF Covered, s, k
<1>5. /\ SubSeq(w, s, s + k - 1) \in Seq(Atom)
      /\ Len(SubSeq(w, s, s + k - 1)) = IF s <= s + k - 1 THEN s + k - 1 - s + 1 ELSE 0
      /\ \A i \in 1..(s + k - 1 - s + 1) : SubSeq(w, s, s + k - 1)[i] = w[s + i - 1]
  BY <1>1, <1>3, SubSeqProperties
<1> HIDE DEF t
<1>6. s <= s + k - 1 /\ s + k - 1 - s + 1 = k /\ s + 1 - 1 = s /\ 1 \in 1..k
      /\ \A i \in 1..k : s + i - 1 \in s..(s + k - 1)
  BY <1>1
<1>7. t \in Seq(Atom) /\ Len(t) = k /\ \A i \in 1..k : t[i] = w[s + i - 1]
  BY <1>4, <1>5, <1>6
<1>8. t \in Words /\ t[1] = w[s]
  BY <1>1, <1>6, <1>7 DEF Words
<1>9. \A i \in 1..Len(t) : t[i].mode < Modes
  BY <1>3, <1>6, <1>7
<1> QED
  BY <1>1, <1>7, <1>8, <1>9 DEF s, k, t

(* Finitely many spans, and patterns among them.                           *)
LEMMA SpansFinite ==
  ASSUME NEW w, IsProgram(w)
  PROVE  /\ IsFiniteSet(Spans(w)) /\ IsFiniteSet(ObservedPatterns(w))
         /\ ObservedPatterns(w) \subseteq Words
<1>1. Len(w) \in Nat
  BY DEF IsProgram
<1>2. IsFiniteSet(Spans(w))
  <2>1. IsFiniteSet(1..Len(w))
    BY <1>1, FS_Interval
  <2>2. IsFiniteSet({1, 2})
    <3>1. {1, 2} = 1..2 /\ 1 \in Int /\ 2 \in Int
      OBVIOUS
    <3> QED
      BY <3>1, FS_Interval
  <2>3. IsFiniteSet((1..Len(w)) \X {1, 2})
    BY <2>1, <2>2, FS_Product
  <2> QED
    BY <2>3, FS_Subset DEF Spans
<1>3. IsFiniteSet({Covered(w, span) : span \in Spans(w)})
  <2> DEFINE f == [span \in Spans(w) |-> Covered(w, span)]
  <2>1. {Covered(w, span) : span \in Spans(w)} = {f[span] : span \in Spans(w)}
    OBVIOUS
  <2> HIDE DEF f
  <2>2. IsFiniteSet({f[span] : span \in Spans(w)})
    BY <1>2, ImageFinite
  <2> QED
    BY <2>1, <2>2
<1>4. ObservedPatterns(w) \in SUBSET {Covered(w, span) : span \in Spans(w)}
  BY DEF ObservedPatterns
<1>5. IsFiniteSet(ObservedPatterns(w))
  BY <1>3, <1>4, FS_Subset
<1>6. ObservedPatterns(w) \subseteq Words
  BY <1>4, CoveredIs
<1> QED
  BY <1>2, <1>5, <1>6

-----------------------------------------------------------------------------
(* Parses with a table, as covers.                                         *)

(* One set of numbers with smaller ones for all of another's.              *)
LEMMA MinDominates ==
  ASSUME NEW A, NEW B, A \subseteq Nat, B \subseteq Nat, B # {},
         \A b \in B : \E a \in A : a <= b
  PROVE  Min(A) <= Min(B) /\ Min(A) \in Nat /\ Min(B) \in Nat
<1>1. A # {}
  OBVIOUS
<1>2. Min(A) \in A /\ \A n \in A : Min(A) <= n
  BY <1>1, MinNumber
<1>3. Min(B) \in B
  BY MinNumber
<1>4. PICK a \in A : a <= Min(B)
  BY <1>3
<1>5. Min(A) \in Nat /\ Min(B) \in Nat /\ a \in Nat /\ Min(A) <= a
  BY <1>2, <1>3
<1> QED
  BY <1>4, <1>5

(* The edges of a table's entries.                                         *)
TableEdges(w, T, opcodes) ==
  {Edge(span, BestCost(T, opcodes, Covered(w, span)), NoPattern, Never) :
     span \in {s \in Spans(w) : Matching(T, opcodes, Covered(w, s)) # {}}}

On(e, span) == e.start = span[1] /\ e.width = span[2]

(* optimal_parse is a least cover by the edges of the whole table.         *)
LEMMA ParseIsCover ==
  ASSUME NEW w, NEW T
  PROVE  OptimalParse(w, T) = LeastCover(Len(w), TableEdges(w, T, TableOpcodes))
BY Zenon DEF OptimalParse, TableEdges

(* A generic entry for whatever the window holds.                          *)
Generic(T, opcodes) ==
  \A a \in Atom : a.mode < Modes =>
    \E op \in opcodes : T[op] = Single(a.type, 0, a.mode)

(* Finitely many edges, one at least from every instruction, get from any  *)
(* instruction to the end.                                                 *)
LEMMA Passes ==
  ASSUME NEW w, IsProgram(w), NEW E, IsFiniteSet(E),
         \A e \in E : e.cost \in Nat /\ \E span \in Spans(w) : On(e, span),
         \A i \in 1..Len(w) : \E e \in E : e.start = i
  PROVE  Passable(Len(w), E)
<1>1. ASSUME NEW e \in E
      PROVE  e.start \in 1..Len(w) /\ e.width \in {1, 2} /\ e.start + e.width <= Len(w) + 1
  BY CoveredIs DEF On
<1>2. Len(w) \in Nat
  BY DEF IsProgram
<1> QED
  BY <1>1, <1>2 DEF Passable

(* From each instruction there is the span of that instruction.            *)
LEMMA SingleSpans ==
  ASSUME NEW w, IsProgram(w), NEW i \in 1..Len(w)
  PROVE  /\ <<i, 1>> \in Spans(w) /\ w[i] \in Atom /\ w[i].mode < Modes
         /\ Covered(w, <<i, 1>>) \in Words /\ Len(Covered(w, <<i, 1>>)) = 1
         /\ Covered(w, <<i, 1>>)[1] = w[i]
<1>1. Len(w) \in Nat /\ w \in Seq(Atom) /\ w[i].mode < Modes
  BY DEF IsProgram
<1>2. <<i, 1>> \in Spans(w)
  BY <1>1 DEF Spans
<1> QED
  BY <1>1, <1>2, CoveredIs, ElementOfSeq

(* The edges of a table with generic entries: they pass, they cost something,*)
(* and each is the use of one of the entries.                              *)
LEMMA TableEdgesAre ==
  ASSUME NEW w, IsProgram(w), NEW T, NEW opcodes \in SUBSET Nat, Generic(T, opcodes)
  PROVE  /\ Passable(Len(w), TableEdges(w, T, opcodes))
         /\ \A e \in TableEdges(w, T, opcodes) :
              /\ e.pattern = NoPattern /\ e.cost >= 1
              /\ \E span \in Spans(w), op \in opcodes :
                   /\ On(e, span)
                   /\ EntryMatches(T[op], Covered(w, span))
                   /\ e.cost = EntryCost(T[op], Covered(w, span))
         /\ \A span \in Spans(w), op \in opcodes :
              EntryMatches(T[op], Covered(w, span)) =>
                \E e \in TableEdges(w, T, opcodes) :
                  On(e, span) /\ e.cost <= EntryCost(T[op], Covered(w, span))
<1> DEFINE TE == TableEdges(w, T, opcodes)
           edge(span) == Edge(span, BestCost(T, opcodes, Covered(w, span)), NoPattern, Never)
<1>1. ASSUME NEW span \in Spans(w), Matching(T, opcodes, Covered(w, span)) # {}
      PROVE  /\ edge(span) \in TE /\ On(edge(span), span)
             /\ edge(span).pattern = NoPattern
             /\ edge(span).cost \in Nat /\ edge(span).cost >= 1
             /\ \E op \in opcodes : /\ EntryMatches(T[op], Covered(w, span))
                                    /\ edge(span).cost = EntryCost(T[op], Covered(w, span))
             /\ \A op \in opcodes : EntryMatches(T[op], Covered(w, span))
                  => edge(span).cost <= EntryCost(T[op], Covered(w, span))
  <2>1. edge(span) \in TE
    BY <1>1 DEF TableEdges
  <2>2. On(edge(span), span) /\ edge(span).pattern = NoPattern
        /\ edge(span).cost = BestCost(T, opcodes, Covered(w, span))
    BY DEF Edge, On
  <2> HIDE DEF edge
  <2>3. Covered(w, span) \in Words
    BY CoveredIs
  <2>4. /\ BestCost(T, opcodes, Covered(w, span)) \in Nat
        /\ BestCost(T, opcodes, Covered(w, span)) >= 1
        /\ \A op \in Matching(T, opcodes, Covered(w, span)) :
             BestCost(T, opcodes, Covered(w, span)) <= EntryCost(T[op], Covered(w, span))
        /\ \E op \in Matching(T, opcodes, Covered(w, span)) :
             BestCost(T, opcodes, Covered(w, span)) = EntryCost(T[op], Covered(w, span))
    BY <1>1, <2>3, BestIs
  <2> QED
    BY <2>1, <2>2, <2>4 DEF Matching
<1>2. ASSUME NEW e \in TE
      PROVE  \E span \in Spans(w) : Matching(T, opcodes, Covered(w, span)) # {} /\ e = edge(span)
  BY DEF TableEdges
<1>3. IsFiniteSet(TE)
  <2> DEFINE S == {s \in Spans(w) : Matching(T, opcodes, Covered(w, s)) # {}}
             f == [span \in S |-> edge(span)]
  <2>1. TE = {f[span] : span \in S}
    BY DEF TableEdges
  <2>2. IsFiniteSet(S)
    <3>1. S \in SUBSET Spans(w)
      OBVIOUS
    <3> QED
      BY <3>1, SpansFinite, FS_Subset
  <2> HIDE DEF f, S
  <2>3. IsFiniteSet({f[span] : span \in S})
    BY <2>2, ImageFinite
  <2> QED
    BY <2>1, <2>3
<1> HIDE DEF TE, edge
<1>4. \A i \in 1..Len(w) : \E e \in TE : e.start = i
  <2> SUFFICES ASSUME NEW i \in 1..Len(w) PROVE \E e \in TE : e.start = i
    OBVIOUS
  <2> DEFINE span == <<i, 1>>
             a == Covered(w, <<i, 1>>)
  <2>1. /\ span \in Spans(w) /\ w[i] \in Atom /\ w[i].mode < Modes
        /\ a \in Words /\ Len(a) = 1 /\ a[1] = w[i]
    BY SingleSpans
  <2>2. PICK op \in opcodes : T[op] = Single(w[i].type, 0, w[i].mode)
    BY <2>1 DEF Generic
  <2>3. EntryMatches(T[op], a)
    BY <2>1, <2>2, SingleMatches
  <2>4. Matching(T, opcodes, Covered(w, span)) # {}
    BY <2>3 DEF Matching
  <2>5. edge(span) \in TE /\ edge(span).start = span[1]
    BY <1>1, <2>1, <2>4 DEF On
  <2> QED
    BY <2>5
<1>5. Passable(Len(w), TE)
  BY <1>1, <1>2, <1>3, <1>4, Passes
<1>6. ASSUME NEW span \in Spans(w), NEW op \in opcodes, EntryMatches(T[op], Covered(w, span))
      PROVE  \E e \in TE : On(e, span) /\ e.cost <= EntryCost(T[op], Covered(w, span))
  <2>1. Matching(T, opcodes, Covered(w, span)) # {}
    BY <1>6 DEF Matching
  <2> QED
    BY <1>1, <1>6, <2>1
<1>7. ASSUME NEW e \in TE
      PROVE  /\ e.pattern = NoPattern /\ e.cost >= 1
             /\ \E span \in Spans(w), op \in opcodes :
                  /\ On(e, span)
                  /\ EntryMatches(T[op], Covered(w, span))
                  /\ e.cost = EntryCost(T[op], Covered(w, span))
  BY <1>1, <1>2
<1> QED
  BY <1>5, <1>6, <1>7 DEF TE

(* Slots take no generic entry.                                            *)
LEMMA GenericStays ==
  ASSUME NEW q \in Nat, q <= PairBankCapacity, NEW T, NEW sel, Installed(T, q, sel)
  PROVE  Generic(T, TableOpcodes) /\ Generic(DefaultTable, BaseOpcodes(q))
<1>1. ASSUME NEW a \in Atom, a.mode < Modes
      PROVE  \E op \in BaseOpcodes(q) :
               op \in TableOpcodes /\ DefaultTable[op] = Single(a.type, 0, a.mode)
                 /\ T[op] = DefaultTable[op]
  <2>1. PICK op \in TableOpcodes :
          op < PairBankStart /\ DefaultTable[op] = Single(a.type, 0, a.mode)
    BY <1>1, DefaultTableIs
  <2>2. op \in BaseOpcodes(q)
    BY <2>1, BaseIs
  <2> QED
    BY <2>1, <2>2 DEF Installed
<1> QED
  BY <1>1 DEF Generic

(* A use of a table is one of an entry that was kept, or of a pattern that *)
(* was installed.                                                          *)
LEMMA UsesAre ==
  ASSUME NEW q \in Nat, q <= PairBankCapacity, NEW T, NEW sel \in SUBSET Words,
         Installed(T, q, sel), NEW a \in Words
  PROVE  /\ \A op \in TableOpcodes : EntryMatches(T[op], a) =>
              \/ op \in BaseOpcodes(q) /\ T[op] = DefaultTable[op]
              \/ a \in sel /\ EntryCost(T[op], a) = 1
         /\ a \in sel => \E op \in TableOpcodes :
                           EntryMatches(T[op], a) /\ EntryCost(T[op], a) = 1
<1>1. ASSUME NEW op \in TableOpcodes, EntryMatches(T[op], a)
      PROVE  \/ op \in BaseOpcodes(q) /\ T[op] = DefaultTable[op]
             \/ a \in sel /\ EntryCost(T[op], a) = 1
  <2>1. CASE op \in BaseOpcodes(q)
    BY <2>1 DEF Installed
  <2>2. CASE op \notin BaseOpcodes(q)
    <3>1. PICK p \in sel : T[op] = FromPattern(p)
      BY <2>2 DEF Installed
    <3>2. p \in Words /\ a = p
      BY <1>1, <3>1, PatternMatches
    <3> QED
      BY <3>1, <3>2, PatternMatches
  <2> QED
    BY <2>1, <2>2
<1>2. ASSUME a \in sel
      PROVE  \E op \in TableOpcodes : EntryMatches(T[op], a) /\ EntryCost(T[op], a) = 1
  <2>1. PICK op \in TableOpcodes : T[op] = FromPattern(a)
    BY <1>2 DEF Installed
  <2> QED
    BY <2>1, PatternMatches
<1> QED
  BY <1>1, <1>2
-----------------------------------------------------------------------------
(* The sweep over the numbers of slots (solve_selection).                  *)
FixedPart(w, q) == TableEdges(w, DefaultTable, BaseOpcodes(q))

PatternEdge(w, span) == Edge(span, 1, Covered(w, span), Never)

SelectedEdges(w, q, sel) == {e \in FixedEdges(w, q) : e.pattern \in sel \cup {NoPattern}}

(* The edge of an installed pattern costs its opcode, and carries the pattern*)
(* as no edge of the default table does.                                   *)
LEMMA PatternEdgeIs ==
  ASSUME NEW w, IsProgram(w), NEW span \in Spans(w)
  PROVE  /\ On(PatternEdge(w, span), span) /\ PatternEdge(w, span).cost = 1
         /\ PatternEdge(w, span).pattern = Covered(w, span)
         /\ PatternEdge(w, span).pattern # NoPattern
         /\ NoPattern \notin Words
<1>1. Covered(w, span) \in Words
  BY CoveredIs
<1>2. NoPattern \notin Words
  BY DEF Words, NoPattern
<1> QED
  BY <1>1, <1>2 DEF PatternEdge, Edge, On

(* The edges: the entries that stay, and patterns where these are dearer.  *)
LEMMA FixedEdgesAre ==
  ASSUME NEW w, IsProgram(w), NEW q \in Nat, q <= PairBankCapacity
  PROVE  /\ FixedPart(w, q) \subseteq FixedEdges(w, q)
         /\ \A e \in FixedEdges(w, q) :
              \/ e \in FixedPart(w, q)
              \/ \E span \in Spans(w) :
                   e = PatternEdge(w, span) /\ Covered(w, span) \in ObservedPatterns(w)
         /\ \A span \in Spans(w) : Covered(w, span) \in ObservedPatterns(w) =>
              \/ PatternEdge(w, span) \in FixedEdges(w, q)
              \/ \E e \in FixedPart(w, q) : On(e, span) /\ e.cost <= 1
         /\ IsFiniteSet(FixedEdges(w, q))
<1> DEFINE Available(span) == Matching(DefaultTable, BaseOpcodes(q), Covered(w, span))
           Cost(span) == BestCost(DefaultTable, BaseOpcodes(q), Covered(w, span))
           D == {span \in Spans(w) : Covered(w, span) \in ObservedPatterns(w)
                                     /\ (Available(span) # {} => Cost(span) > 1)}
           PE == {PatternEdge(w, span) : span \in D}
<1>1. FixedEdges(w, q) = FixedPart(w, q) \cup PE
  BY Zenon DEF FixedEdges, FixedPart, TableEdges, PatternEdge
<1>2. BaseOpcodes(q) \in SUBSET Nat /\ Generic(DefaultTable, BaseOpcodes(q))
  <2>1. BaseOpcodes(q) \subseteq TableOpcodes /\ TableOpcodes \subseteq Nat
    BY BaseIs
  <2>2. ASSUME NEW a \in Atom, a.mode < Modes
        PROVE  \E op \in BaseOpcodes(q) : DefaultTable[op] = Single(a.type, 0, a.mode)
    <3>1. PICK op \in TableOpcodes :
            op < PairBankStart /\ DefaultTable[op] = Single(a.type, 0, a.mode)
      BY <2>2, DefaultTableIs
    <3> QED
      BY <3>1, BaseIs
  <2> QED
    BY <2>1, <2>2 DEF Generic
<1>3. Passable(Len(w), FixedPart(w, q))
  BY <1>2, TableEdgesAre DEF FixedPart
<1>4. IsFiniteSet(PE)
  <2> DEFINE f == [span \in D |-> PatternEdge(w, span)]
  <2>1. PE = {f[span] : span \in D}
    OBVIOUS
  <2>2. D \in SUBSET Spans(w)
    OBVIOUS
  <2> HIDE DEF f, D
  <2>3. IsFiniteSet(D)
    BY <2>2, SpansFinite, FS_Subset
  <2>4. IsFiniteSet({f[span] : span \in D})
    BY <2>3, ImageFinite
  <2> QED
    BY <2>1, <2>4
<1>5. IsFiniteSet(FixedEdges(w, q))
  <2> HIDE DEF PE
  <2> QED
    BY <1>1, <1>3, <1>4, FS_Union DEF Passable
<1>6. ASSUME NEW span \in Spans(w), Covered(w, span) \in ObservedPatterns(w)
      PROVE  \/ PatternEdge(w, span) \in PE
             \/ \E e \in FixedPart(w, q) : On(e, span) /\ e.cost <= 1
  <2>1. CASE span \in D
    BY <2>1
  <2>2. CASE span \notin D
    <3>1. Available(span) # {} /\ ~(Cost(span) > 1)
      BY <1>6, <2>2
    <3> DEFINE e == Edge(span, Cost(span), NoPattern, Never)
    <3>2. e \in FixedPart(w, q)
      BY <3>1 DEF FixedPart, TableEdges
    <3>3. On(e, span) /\ e.cost = Cost(span)
      BY DEF Edge, On
    <3>4. e.cost \in Nat
      BY <1>3, <3>2 DEF Passable
    <3> HIDE DEF e
    <3>5. e.cost <= 1
      BY <3>1, <3>3, <3>4
    <3> QED
      BY <3>2, <3>3, <3>5
  <2> QED
    BY <2>1, <2>2
<1>7. ASSUME NEW e \in PE
      PROVE  \E span \in Spans(w) :
               e = PatternEdge(w, span) /\ Covered(w, span) \in ObservedPatterns(w)
  OBVIOUS
<1> HIDE DEF PE
<1> QED
  BY <1>1, <1>5, <1>6, <1>7

(* The edges that a selection leaves cover the window.                     *)
LEMMA SelectedPassable ==
  ASSUME NEW w, IsProgram(w), NEW q \in Nat, q <= PairBankCapacity, NEW sel
  PROVE  /\ Passable(Len(w), SelectedEdges(w, q, sel))
         /\ FixedPart(w, q) \subseteq SelectedEdges(w, q, sel)
         /\ BaseOpcodes(q) \in SUBSET Nat /\ Generic(DefaultTable, BaseOpcodes(q))
         /\ Passable(Len(w), FixedPart(w, q))
<1>1. BaseOpcodes(q) \in SUBSET Nat /\ Generic(DefaultTable, BaseOpcodes(q))
  <2>1. BaseOpcodes(q) \subseteq TableOpcodes /\ TableOpcodes \subseteq Nat
    BY BaseIs
  <2>2. ASSUME NEW a \in Atom, a.mode < Modes
        PROVE  \E op \in BaseOpcodes(q) : DefaultTable[op] = Single(a.type, 0, a.mode)
    <3>1. PICK op \in TableOpcodes :
            op < PairBankStart /\ DefaultTable[op] = Single(a.type, 0, a.mode)
      BY <2>2, DefaultTableIs
    <3> QED
      BY <3>1, BaseIs
  <2> QED
    BY <2>1, <2>2 DEF Generic
<1>2. /\ Passable(Len(w), FixedPart(w, q))
      /\ \A e \in FixedPart(w, q) :
           e.pattern = NoPattern /\ \E span \in Spans(w) : On(e, span)
  BY <1>1, TableEdgesAre DEF FixedPart
<1>3. FixedPart(w, q) \subseteq SelectedEdges(w, q, sel)
  BY <1>2, FixedEdgesAre DEF SelectedEdges
<1>4. IsFiniteSet(SelectedEdges(w, q, sel))
  <2>1. SelectedEdges(w, q, sel) \in SUBSET FixedEdges(w, q)
    BY DEF SelectedEdges
  <2> QED
    BY <2>1, FixedEdgesAre, FS_Subset
<1>5. ASSUME NEW e \in SelectedEdges(w, q, sel)
      PROVE  e.cost \in Nat /\ \E span \in Spans(w) : On(e, span)
  <2>1. e \in FixedEdges(w, q)
    BY DEF SelectedEdges
  <2>2. CASE e \in FixedPart(w, q)
    BY <1>2, <2>2 DEF Passable
  <2>3. CASE e \notin FixedPart(w, q)
    <3>1. PICK span \in Spans(w) : e = PatternEdge(w, span)
      BY <2>1, <2>3, FixedEdgesAre
    <3> QED
      BY <3>1, PatternEdgeIs
  <2> QED
    BY <2>2, <2>3
<1>6. \A i \in 1..Len(w) : \E e \in SelectedEdges(w, q, sel) : e.start = i
  BY <1>2, <1>3 DEF Passable
<1>7. Passable(Len(w), SelectedEdges(w, q, sel))
  BY <1>4, <1>5, <1>6, Passes
<1> QED
  BY <1>1, <1>2, <1>3, <1>7

(* What the edges promise a table with the selection delivers.             *)
LEMMA SweepAttained ==
  ASSUME NEW w, IsProgram(w), NEW q \in Nat, q <= PairBankCapacity,
         NEW sel \in SUBSET Words, NEW T, Installed(T, q, sel)
  PROVE  OptimalParse(w, T) <= LeastCover(Len(w), SelectedEdges(w, q, sel))
<1> DEFINE E == SelectedEdges(w, q, sel)
           F == TableEdges(w, T, TableOpcodes)
<1>1. Generic(T, TableOpcodes) /\ TableOpcodes \in SUBSET Nat
      /\ BaseOpcodes(q) \subseteq TableOpcodes
  BY GenericStays, BaseIs
<1>2. Passable(Len(w), E) /\ BaseOpcodes(q) \in SUBSET Nat /\ Generic(DefaultTable, BaseOpcodes(q))
  BY SelectedPassable
<1>3. /\ Passable(Len(w), F)
      /\ \A span \in Spans(w), op \in TableOpcodes :
           EntryMatches(T[op], Covered(w, span)) =>
             \E d \in F : On(d, span) /\ d.cost <= EntryCost(T[op], Covered(w, span))
  BY <1>1, TableEdgesAre
<1> HIDE DEF F
<1>4. ASSUME NEW e \in E
      PROVE  \E d \in F : d.start = e.start /\ d.width = e.width /\ d.cost <= e.cost
  <2>1. e \in FixedEdges(w, q) /\ e.pattern \in sel \cup {NoPattern}
    BY DEF SelectedEdges
  <2>2. CASE e \in FixedPart(w, q)
    <3>1. PICK span \in Spans(w), op \in BaseOpcodes(q) :
            /\ On(e, span)
            /\ EntryMatches(DefaultTable[op], Covered(w, span))
            /\ e.cost = EntryCost(DefaultTable[op], Covered(w, span))
      BY <1>2, <2>2, TableEdgesAre DEF FixedPart
    <3>2. op \in TableOpcodes /\ T[op] = DefaultTable[op]
      BY <1>1 DEF Installed
    <3>3. PICK d \in F : On(d, span) /\ d.cost <= EntryCost(T[op], Covered(w, span))
      BY <1>3, <3>1, <3>2
    <3> QED
      BY <3>1, <3>2, <3>3 DEF On
  <2>3. CASE e \notin FixedPart(w, q)
    <3>1. PICK span \in Spans(w) : e = PatternEdge(w, span)
      BY <2>1, <2>3, FixedEdgesAre
    <3>2. On(e, span) /\ e.cost = 1 /\ Covered(w, span) \in sel
      BY <2>1, <3>1, PatternEdgeIs
    <3>3. Covered(w, span) \in Words
      BY CoveredIs
    <3>4. PICK op \in TableOpcodes : /\ EntryMatches(T[op], Covered(w, span))
                                     /\ EntryCost(T[op], Covered(w, span)) = 1
      BY <3>2, <3>3, UsesAre
    <3>5. PICK d \in F : On(d, span) /\ d.cost <= EntryCost(T[op], Covered(w, span))
      BY <1>3, <3>4
    <3> QED
      BY <3>2, <3>4, <3>5 DEF On
  <2> QED
    BY <2>2, <2>3
<1> HIDE DEF E
<1>5. LeastCover(Len(w), F) <= LeastCover(Len(w), E)
  BY <1>2, <1>3, <1>4, CoverCompare
<1> QED
  BY <1>5, ParseIsCover DEF E, F

(* No table with observed patterns does better than the edges, though      *)
(* these leave out the patterns that are dominated.                        *)
LEMMA SweepBounds ==
  ASSUME NEW w, IsProgram(w), NEW q \in Nat, q <= PairBankCapacity,
         NEW sel \in SUBSET ObservedPatterns(w), NEW T, Installed(T, q, sel),
         NEW more, sel \cap Patterns(FixedEdges(w, q)) \subseteq more
  PROVE  LeastCover(Len(w), SelectedEdges(w, q, more)) <= OptimalParse(w, T)
<1> DEFINE E == TableEdges(w, T, TableOpcodes)
           F == SelectedEdges(w, q, more)
<1>1. Generic(T, TableOpcodes) /\ TableOpcodes \in SUBSET Nat
      /\ sel \in SUBSET Words
  BY GenericStays, BaseIs, SpansFinite
<1>2. /\ Passable(Len(w), F) /\ FixedPart(w, q) \subseteq F
      /\ BaseOpcodes(q) \in SUBSET Nat /\ Generic(DefaultTable, BaseOpcodes(q))
  BY SelectedPassable
<1>3. Passable(Len(w), E)
  BY <1>1, TableEdgesAre
<1>4. ASSUME NEW e \in E
      PROVE  \E d \in F : d.start = e.start /\ d.width = e.width /\ d.cost <= e.cost
  <2>1. PICK span \in Spans(w), op \in TableOpcodes :
          /\ On(e, span)
          /\ EntryMatches(T[op], Covered(w, span))
          /\ e.cost = EntryCost(T[op], Covered(w, span))
    BY <1>1, TableEdgesAre
  <2>2. Covered(w, span) \in Words
    BY CoveredIs
  <2>3. CASE op \in BaseOpcodes(q) /\ T[op] = DefaultTable[op]
    <3>1. PICK d \in FixedPart(w, q) :
            On(d, span) /\ d.cost <= EntryCost(DefaultTable[op], Covered(w, span))
      BY <1>2, <2>1, <2>3, TableEdgesAre DEF FixedPart
    <3> QED
      BY <1>2, <2>1, <2>3, <3>1 DEF On
  <2>4. CASE Covered(w, span) \in sel /\ EntryCost(T[op], Covered(w, span)) = 1
    <3>1. CASE PatternEdge(w, span) \in FixedEdges(w, q)
      <4> DEFINE d == PatternEdge(w, span)
      <4>1. On(d, span) /\ d.cost = 1 /\ d.pattern = Covered(w, span) /\ d.pattern # NoPattern
        BY PatternEdgeIs
      <4> HIDE DEF d
      <4>2. d \in FixedEdges(w, q)
        BY <3>1 DEF d
      <4>3. d.pattern \in more
        BY <2>4, <4>1, <4>2 DEF Patterns
      <4>4. d \in F
        BY <4>2, <4>3 DEF SelectedEdges
      <4>5. d.cost <= e.cost
        BY <2>1, <2>4, <4>1
      <4> QED
        BY <2>1, <4>1, <4>4, <4>5 DEF On
    <3>2. CASE PatternEdge(w, span) \notin FixedEdges(w, q)
      <4>1. PICK d \in FixedPart(w, q) : On(d, span) /\ d.cost <= 1
        BY <2>4, <3>2, FixedEdgesAre
      <4> QED
        BY <1>2, <2>1, <2>4, <4>1 DEF On
    <3> QED
      BY <3>1, <3>2
  <2> QED
    BY <1>1, <2>1, <2>2, <2>3, <2>4, UsesAre
<1> HIDE DEF E, F
<1>5. LeastCover(Len(w), F) <= LeastCover(Len(w), E)
  BY <1>2, <1>3, <1>4, CoverCompare
<1> QED
  BY <1>5, ParseIsCover DEF E, F

(* The best parses with each selection of observed patterns.               *)
Optima(w, q) ==
  {OptimalParse(w, CustomTable(sel, q)) : sel \in Selections(ObservedPatterns(w), q)}

(* Every selection that the sweep ranges over is installed by custom_table,*)
(* and the window parses with the table.                                   *)
LEMMA SelectionsInstall ==
  ASSUME NEW w, IsProgram(w), NEW q \in 1..PairBankCapacity,
         NEW sel \in Selections(ObservedPatterns(w), q)
  PROVE  /\ Installed(CustomTable(sel, q), q, sel) /\ IsFiniteSet(sel)
         /\ sel \in SUBSET ObservedPatterns(w) /\ sel \in SUBSET Words
         /\ q \in Nat /\ q <= PairBankCapacity
         /\ OptimalParse(w, CustomTable(sel, q)) \in Nat
<1>1. sel \in SUBSET ObservedPatterns(w) /\ Cardinality(sel) \in 1..q
  BY DEF Selections
<1>2. IsFiniteSet(sel) /\ sel \in SUBSET Words
  BY <1>1, SpansFinite, FS_Subset
<1>3. Installed(CustomTable(sel, q), q, sel)
  BY <1>1, <1>2, CustomInstalled
<1>4. q \in Nat /\ q <= PairBankCapacity
  BY DefaultTableIs
<1>5. Passable(Len(w), TableEdges(w, CustomTable(sel, q), TableOpcodes))
  <2>1. TableOpcodes \in SUBSET Nat /\ Generic(CustomTable(sel, q), TableOpcodes)
    BY <1>3, <1>4, GenericStays, BaseIs
  <2> QED
    BY <2>1, TableEdgesAre
<1>6. OptimalParse(w, CustomTable(sel, q)) \in Nat
  BY <1>5, MostCoverIs, ParseIsCover
<1> QED
  BY <1>1, <1>2, <1>3, <1>4, <1>6

(* A single pattern is a selection for any number of slots.                *)
LEMMA OneSelected ==
  ASSUME NEW q \in Nat \ {0}, NEW S, NEW p \in S
  PROVE  {p} \in Selections(S, q)
<1>1. Cardinality({p}) = 1
  BY FS_Singleton
<1> QED
  BY <1>1 DEF Selections

(* The sweep has something to choose from, and it is made of naturals.     *)
LEMMA OptimaType ==
  ASSUME NEW w, IsProgram(w), NEW q \in 1..PairBankCapacity, ObservedPatterns(w) # {}
  PROVE  Optima(w, q) \subseteq Nat /\ Optima(w, q) # {}
<1>1. Optima(w, q) \subseteq Nat
  BY SelectionsInstall DEF Optima
<1>2. PICK p : p \in ObservedPatterns(w)
  OBVIOUS
<1>3. {p} \in Selections(ObservedPatterns(w), q)
  BY <1>2, OneSelected
<1> QED
  BY <1>1, <1>3 DEF Optima

(* The first of the observed patterns is one.                              *)
LEMMA FirstObserved ==
  ASSUME NEW w, IsProgram(w), ObservedPatterns(w) # {}
  PROVE  InPlace(1, ObservedPatterns(w)) \in ObservedPatterns(w)
<1>1. IsFiniteSet(ObservedPatterns(w)) /\ ObservedPatterns(w) \in SUBSET Words
  BY SpansFinite
<1>2. 1 \in 1..Cardinality(ObservedPatterns(w))
  BY <1>1, FS_CardinalityType, FS_EmptySet
<1> QED
  BY <1>1, <1>2, InPlaceIs

(* solve_selection finds the least of them.                                *)
LEMMA SweepFindsLeast ==
  ASSUME NEW w, IsProgram(w), NEW q \in 1..PairBankCapacity, ObservedPatterns(w) # {}
  PROVE  SolveSelection(w, q) = Min(Optima(w, q))
<1> DEFINE P == Patterns(FixedEdges(w, q))
           O == ObservedPatterns(w)
           first == InPlace(1, ObservedPatterns(w))
           C == {LeastCover(Len(w), SelectedEdges(w, q, sel)) : sel \in Selections(P, q)}
<1>1. SolveSelection(w, q) = IF P = {} THEN OptimalParse(w, CustomTable({first}, q)) ELSE Min(C)
  BY Zenon DEF SolveSelection, SelectedEdges
<1>2. P \subseteq O
  <2> SUFFICES ASSUME NEW e \in FixedEdges(w, q), e.pattern # NoPattern
               PROVE  e.pattern \in O
    BY DEF Patterns
  <2>1. q \in Nat /\ q <= PairBankCapacity
    BY DefaultTableIs
  <2>2. e \notin FixedPart(w, q)
    BY <2>1, SelectedPassable, TableEdgesAre DEF FixedPart
  <2>3. PICK span \in Spans(w) : e = PatternEdge(w, span) /\ Covered(w, span) \in O
    BY <2>1, <2>2, FixedEdgesAre
  <2> QED
    BY <2>3, PatternEdgeIs
<1> HIDE DEF P
<1>3. Optima(w, q) \subseteq Nat /\ Optima(w, q) # {}
  BY OptimaType
<1>4. CASE P = {}
  <2>1. first \in O
    BY FirstObserved
  <2>2. {first} \in Selections(O, q)
    BY <2>1, OneSelected
  <2> DEFINE b == OptimalParse(w, CustomTable({first}, q))
  <2>3. b \in Optima(w, q)
    BY <2>2 DEF Optima
  <2>4. ASSUME NEW sel \in Selections(O, q)
        PROVE  b <= OptimalParse(w, CustomTable(sel, q))
    <3> DEFINE c == LeastCover(Len(w), SelectedEdges(w, q, {first}))
               o == OptimalParse(w, CustomTable(sel, q))
    <3>1. b <= c
      BY <2>2, SelectionsInstall, SweepAttained
    <3>2. c <= o
      <4>1. sel \cap Patterns(FixedEdges(w, q)) \subseteq {first}
        BY <1>4 DEF P
      <4> QED
        BY <4>1, SelectionsInstall, SweepBounds
    <3>3. b \in Nat /\ o \in Nat
      BY <2>2, SelectionsInstall
    <3>4. c \in Nat
      <4>1. q \in Nat /\ q <= PairBankCapacity
        BY DefaultTableIs
      <4> QED
        BY <4>1, SelectedPassable, MostCoverIs
    <3> HIDE DEF b, c, o
    <3>5. b <= o
      BY <3>1, <3>2, <3>3, <3>4
    <3> QED
      BY <3>5 DEF o
  <2> HIDE DEF b
  <2>5. \A n \in Optima(w, q) : b <= n
    BY <2>4 DEF Optima
  <2>6. Min(Optima(w, q)) = b
    <3>1. Min(Optima(w, q)) \in Optima(w, q) /\ \A n \in Optima(w, q) : Min(Optima(w, q)) <= n
      BY <1>3, MinNumber
    <3>2. Min(Optima(w, q)) \in Nat /\ b \in Nat /\ Min(Optima(w, q)) <= b /\ b <= Min(Optima(w, q))
      BY <1>3, <2>3, <2>5, <3>1
    <3> QED
      BY <3>2
  <2> QED
    BY <1>1, <1>4, <2>6 DEF b
<1>5. CASE P # {}
  <2>1. q \in Nat \ {0} /\ q \in Nat /\ q <= PairBankCapacity
    BY DefaultTableIs
  <2>2. C \subseteq Nat /\ C # {}
    <3>1. C \subseteq Nat
      BY <2>1, SelectedPassable, MostCoverIs
    <3>2. PICK p : p \in P
      BY <1>5
    <3>3. {p} \in Selections(P, q)
      BY <2>1, <3>2, OneSelected
    <3> QED
      BY <3>1, <3>3
  <2>3. ASSUME NEW sel \in Selections(P, q)
        PROVE  OptimalParse(w, CustomTable(sel, q)) <= LeastCover(Len(w), SelectedEdges(w, q, sel))
               /\ sel \in Selections(O, q)
    <3>1. sel \in Selections(O, q)
      BY <1>2 DEF Selections
    <3> QED
      BY <3>1, SelectionsInstall, SweepAttained
  <2>4. ASSUME NEW sel \in Selections(O, q)
        PROVE  \E more \in Selections(P, q) :
                 LeastCover(Len(w), SelectedEdges(w, q, more)) <= OptimalParse(w, CustomTable(sel, q))
    <3>1. ASSUME NEW more, sel \cap P \subseteq more
          PROVE  LeastCover(Len(w), SelectedEdges(w, q, more)) <= OptimalParse(w, CustomTable(sel, q))
      BY <3>1, SelectionsInstall, SweepBounds DEF P
    <3>2. CASE sel \cap P = {}
      <4>1. PICK p : p \in P
        BY <1>5
      <4>2. {p} \in Selections(P, q)
        BY <2>1, <4>1, OneSelected
      <4>3. sel \cap P \subseteq {p}
        BY <3>2
      <4> QED
        BY <3>1, <4>2, <4>3
    <3>3. CASE sel \cap P # {}
      <4>1. IsFiniteSet(sel) /\ Cardinality(sel) \in 1..q
        BY SelectionsInstall DEF Selections
      <4>2. sel \cap P \in SUBSET sel
        OBVIOUS
      <4>3. /\ IsFiniteSet(sel \cap P) /\ Cardinality(sel \cap P) <= Cardinality(sel)
            /\ Cardinality(sel \cap P) \in Nat /\ Cardinality(sel \cap P) # 0
        BY <3>3, <4>1, <4>2, FS_Subset, FS_CardinalityType, FS_EmptySet
      <4>4. Cardinality(sel \cap P) \in 1..q
        BY <2>1, <4>1, <4>3
      <4>5. sel \cap P \in Selections(P, q)
        BY <4>4 DEF Selections
      <4> QED
        BY <3>1, <4>5
    <3> QED
      BY <3>2, <3>3
  <2>5. \A c \in C : \E o \in Optima(w, q) : o <= c
    BY <2>3 DEF Optima
  <2>6. \A o \in Optima(w, q) : \E c \in C : c <= o
    BY <2>4 DEF Optima
  <2> HIDE DEF C
  <2>7. Min(Optima(w, q)) <= Min(C) /\ Min(C) <= Min(Optima(w, q))
        /\ Min(C) \in Nat /\ Min(Optima(w, q)) \in Nat
    BY <1>3, <2>2, <2>5, <2>6, MinDominates
  <2> HIDE DEF first, O
  <2>8. Min(C) = Min(Optima(w, q))
    BY <2>7
  <2> QED
    BY <1>1, <1>5, <2>8
<1> QED
  BY <1>4, <1>5

(* The pattern of the pair that one more slot takes makes up for it.       *)
LEMMA OneMoreSlot ==
  ASSUME NEW w, IsProgram(w), NEW q \in 1..PairBankCapacity, q + 1 <= PairBankCapacity,
         NEW sel \in Selections(ObservedPatterns(w), q)
  PROVE  \E more \in Selections(ObservedPatterns(w), q + 1) :
           OptimalParse(w, CustomTable(more, q + 1)) <= OptimalParse(w, CustomTable(sel, q))
<1> DEFINE O == ObservedPatterns(w)
           lost == PairBankStart + q
           X == {p \in O : EntryMatches(DefaultTable[lost], p)}
           more == sel \cup X
           T == CustomTable(sel, q)
           U == CustomTable(more, q + 1)
           E == TableEdges(w, T, TableOpcodes)
           F == TableEdges(w, U, TableOpcodes)
<1>1. /\ q \in Nat /\ q + 1 \in Nat /\ q <= PairBankCapacity /\ q + 1 \in 1..PairBankCapacity
      /\ PairBankStart \in Nat /\ PairBankCapacity \in Nat
      /\ lost \in 0..(PairBankStart + PairBankCapacity - 1) /\ lost >= PairBankStart
  BY DefaultTableIs
<1>2. lost \in TableOpcodes
  BY <1>1, DefaultTableIs
<1>3. DefaultTable[lost] \in TwoEntry
  BY <1>1, <1>2, DefaultTableIs
<1>4. O \subseteq Words /\ IsFiniteSet(O)
  BY SpansFinite
<1>5. \A x, y \in X : x = y
  <2> SUFFICES ASSUME NEW x \in X, NEW y \in X PROVE x = y
    OBVIOUS
  <2>1. x \in Words /\ y \in Words /\ DefaultTable[lost] = FromPattern(x)
        /\ EntryMatches(DefaultTable[lost], y)
    BY <1>3, <1>4, PairMatches
  <2>2. EntryMatches(FromPattern(x), y)
    BY <2>1
  <2> QED
    BY <2>1, <2>2, PatternMatches
<1>6. /\ Installed(T, q, sel) /\ IsFiniteSet(sel) /\ sel \in SUBSET O /\ sel \in SUBSET Words
      /\ Cardinality(sel) \in 1..q
  BY SelectionsInstall DEF Selections
<1>7. more \in Selections(O, q + 1)
  <2>1. Cardinality(more) \in 1..(q + 1)
    <3>1. CASE X = {}
      <4>1. more = sel
        BY <3>1
      <4> HIDE DEF more
      <4>2. Cardinality(more) \in 1..q
        BY <1>6, <4>1
      <4> QED
        BY <1>1, <4>2
    <3>2. CASE X # {}
      <4>1. PICK x : x \in X
        BY <3>2
      <4>2. more = sel \cup {x}
        BY <1>5, <4>1
      <4>3. Cardinality(more) = IF x \in sel THEN Cardinality(sel) ELSE Cardinality(sel) + 1
        BY <1>6, <4>2, FS_AddElement
      <4> HIDE DEF more
      <4> QED
        BY <1>1, <1>6, <4>3
    <3> QED
      BY <3>1, <3>2
  <2>2. more \in SUBSET O
    BY <1>6
  <2> QED
    BY <2>1, <2>2 DEF Selections
<1> HIDE DEF X, more, lost, T, U
<1>8. Installed(U, q + 1, more) /\ more \in SUBSET Words
  BY <1>1, <1>7, SelectionsInstall DEF U
<1>9. Generic(T, TableOpcodes) /\ Generic(U, TableOpcodes) /\ TableOpcodes \in SUBSET Nat
  BY <1>1, <1>6, <1>8, GenericStays, BaseIs
<1>10. Passable(Len(w), E) /\ Passable(Len(w), F)
  BY <1>9, TableEdgesAre
<1>11. \A op \in BaseOpcodes(q) : op \in BaseOpcodes(q + 1) \/ op = lost
  <2> SUFFICES ASSUME NEW op \in BaseOpcodes(q), op \notin BaseOpcodes(q + 1)
               PROVE  op = lost
    OBVIOUS
  <2>1. op \in TableOpcodes /\ op \in Nat
    BY <1>1, BaseIs
  <2>2. op < PairBankStart \/ op - PairBankStart + 1 > q
    BY <1>1, <2>1, BaseIs
  <2>3. ~(op < PairBankStart \/ op - PairBankStart + 1 > q + 1)
    BY <1>1, <2>1, BaseIs
  <2> QED
    BY <1>1, <2>1, <2>2, <2>3 DEF lost
<1>12. ASSUME NEW e \in E
       PROVE  \E d \in F : d.start = e.start /\ d.width = e.width /\ d.cost <= e.cost
  <2>1. PICK span \in Spans(w), op \in TableOpcodes :
          /\ On(e, span)
          /\ EntryMatches(T[op], Covered(w, span))
          /\ e.cost = EntryCost(T[op], Covered(w, span))
    BY <1>9, TableEdgesAre
  <2> DEFINE a == Covered(w, span)
  <2>2. a \in Words
    BY CoveredIs
  <2>3. SUFFICES \E o \in TableOpcodes : EntryMatches(U[o], a) /\ EntryCost(U[o], a) <= e.cost
    <3>1. PICK o \in TableOpcodes : EntryMatches(U[o], a) /\ EntryCost(U[o], a) <= e.cost
      BY <2>3
    <3>2. PICK d \in F : On(d, span) /\ d.cost <= EntryCost(U[o], a)
      BY <1>9, <3>1, TableEdgesAre
    <3>3. d.cost \in Nat /\ e.cost \in Nat /\ EntryCost(U[o], a) \in Nat
      BY <1>10, <2>2, CostsAre DEF Passable
    <3>4. d.cost <= e.cost
      <4> HIDE DEF a
      <4> QED
        BY <3>1, <3>2, <3>3
    <3> QED
      BY <2>1, <3>2, <3>4 DEF On
  <2>4. ASSUME a \in more, e.cost = 1
        PROVE  \E o \in TableOpcodes : EntryMatches(U[o], a) /\ EntryCost(U[o], a) <= e.cost
    <3>1. PICK o \in TableOpcodes : EntryMatches(U[o], a) /\ EntryCost(U[o], a) = 1
      BY <1>1, <1>8, <2>2, <2>4, UsesAre
    <3> QED
      BY <2>4, <3>1
  <2>5. CASE op \in BaseOpcodes(q + 1) /\ op \in BaseOpcodes(q)
    <3>1. T[op] = DefaultTable[op] /\ U[op] = DefaultTable[op]
      BY <1>6, <1>8, <2>5 DEF Installed
    <3>2. EntryCost(T[op], a) \in Nat
      BY <2>2, CostsAre
    <3>3. EntryMatches(U[op], a) /\ EntryCost(U[op], a) = e.cost /\ e.cost \in Nat
      BY <2>1, <3>1, <3>2
    <3> QED
      BY <3>3
  <2>6. CASE op \in BaseOpcodes(q) /\ op \notin BaseOpcodes(q + 1)
    <3>1. op = lost /\ T[op] = DefaultTable[lost]
      BY <1>6, <1>11, <2>6 DEF Installed
    <3>2. EntryMatches(DefaultTable[lost], a)
      BY <2>1, <3>1
    <3>3. /\ Len(a) = 2 /\ EntryCost(DefaultTable[lost], a) = 1
          /\ a[1].size \in Byte /\ a[2].size \in Byte
      BY <1>3, <2>2, <3>2, PairMatches
    <3>4. a \in O
      <4>1. \A i \in 1..Len(a) : a[i].size \in Byte
        BY <3>3
      <4> QED
        BY <4>1 DEF ObservedPatterns
    <3>5. a \in more
      BY <3>2, <3>4 DEF more, X
    <3>6. e.cost = 1
      BY <2>1, <3>1, <3>3
    <3> QED
      BY <2>4, <3>5, <3>6
  <2>7. CASE op \notin BaseOpcodes(q)
    <3>1. a \in sel /\ EntryCost(T[op], a) = 1
      BY <1>1, <1>6, <2>1, <2>2, <2>7, UsesAre
    <3> QED
      BY <2>1, <2>4, <3>1 DEF more
  <2> QED
    BY <2>5, <2>6, <2>7
<1> HIDE DEF E, F
<1>13. LeastCover(Len(w), F) <= LeastCover(Len(w), E)
  BY <1>10, <1>12, CoverCompare
<1>14. OptimalParse(w, U) <= OptimalParse(w, T)
  BY <1>13, ParseIsCover DEF E, F
<1> QED
  BY <1>7, <1>14 DEF U, T

(* So more slots serve at least as well.                                   *)
LEMMA SlotsServe ==
  ASSUME NEW w, IsProgram(w), ObservedPatterns(w) # {},
         NEW q \in 1..PairBankCapacity, q + 1 <= PairBankCapacity
  PROVE  SolveSelection(w, q) >= SolveSelection(w, q + 1)
<1>1. q + 1 \in 1..PairBankCapacity
  BY DefaultTableIs
<1>2. /\ Optima(w, q) \subseteq Nat /\ Optima(w, q) # {} /\ Optima(w, q + 1) \subseteq Nat
      /\ SolveSelection(w, q) = Min(Optima(w, q))
      /\ SolveSelection(w, q + 1) = Min(Optima(w, q + 1))
  BY <1>1, OptimaType, SweepFindsLeast
<1>3. \A b \in Optima(w, q) : \E a \in Optima(w, q + 1) : a <= b
  BY OneMoreSlot DEF Optima
<1>4. Min(Optima(w, q + 1)) <= Min(Optima(w, q)) /\ Min(Optima(w, q + 1)) \in Nat
      /\ Min(Optima(w, q)) \in Nat
  BY <1>2, <1>3, MinDominates
<1> QED
  BY <1>2, <1>4

-----------------------------------------------------------------------------
(* The edges of solve_global_selection.                                    *)
Collected(w, n) == UNION {EdgesAt(w, i, MaxSlots) : i \in 1..n}

(* The edge of the best default entry: it is lost with that entry, and as  *)
(* long as any entry is left that serves, that one is.                     *)
LEMMA DefaultEdgeIs ==
  ASSUME NEW w, IsProgram(w), NEW span \in Spans(w), InDefaultTable(w, span)
  PROVE  LET a == Covered(w, span)
             d == DefaultEdge(w, span)
         IN  /\ On(d, span) /\ d.pattern = NoPattern
             /\ d.cost \in Nat /\ d.cost >= 1
             /\ \A op \in TableOpcodes : EntryMatches(DefaultTable[op], a)
                  => d.cost <= EntryCost(DefaultTable[op], a)
             /\ \E op \in TableOpcodes :
                  /\ EntryMatches(DefaultTable[op], a)
                  /\ d.cost = EntryCost(DefaultTable[op], a)
                  /\ \A q \in 0..PairBankCapacity : q < d.lostAt => op \in BaseOpcodes(q)
             /\ \A q \in 0..PairBankCapacity : \A op \in BaseOpcodes(q) :
                  EntryMatches(DefaultTable[op], a) => q < d.lostAt
<1> DEFINE a == Covered(w, span)
           d == DefaultEdge(w, span)
           best == BestOpcode(DefaultTable, TableOpcodes, a)
           m == PairBankStart
           n == PairBankCapacity
           two == DefaultTable[best]
<1>1. /\ m \in Nat /\ n \in Nat /\ TableOpcodes \in SUBSET Nat
      /\ \A op \in TableOpcodes :
           /\ op \in Nat /\ op < m + n
           /\ op < m => DefaultTable[op] \in OneEntry
           /\ op >= m => DefaultTable[op] \in TwoEntry
      /\ \A op, other \in TableOpcodes :
           op >= m /\ other >= m /\ DefaultTable[op] = DefaultTable[other] => op = other
  <2>1. \A op \in TableOpcodes : op \in Nat
    BY DefaultTableIs
  <2> QED
    BY <2>1, DefaultTableIs
<1>2. \A q \in 0..n : /\ BaseOpcodes(q) \subseteq TableOpcodes
                      /\ \A op \in TableOpcodes : op \in BaseOpcodes(q) <=> op < m \/ op - m + 1 > q
  BY <1>1, BaseIs
<1>3. a \in Words
  BY CoveredIs
<1>4. /\ d.cost = BestCost(DefaultTable, TableOpcodes, a) /\ On(d, span)
      /\ d.pattern = NoPattern
      /\ d.lostAt = IF best >= m THEN best - m + 1 ELSE n + 1
  BY DEF DefaultEdge, Edge, On, Never
<1>5. /\ d.cost \in Nat /\ d.cost >= 1
      /\ \A op \in Matching(DefaultTable, TableOpcodes, a) : d.cost <= EntryCost(DefaultTable[op], a)
      /\ best \in Matching(DefaultTable, TableOpcodes, a)
      /\ EntryCost(DefaultTable[best], a) = d.cost
  <2>1. Matching(DefaultTable, TableOpcodes, a) # {}
    BY DEF InDefaultTable
  <2> HIDE DEF a, d
  <2> QED
    BY <1>1, <1>3, <1>4, <2>1, BestIs
<1>6. best \in TableOpcodes /\ EntryMatches(DefaultTable[best], a)
  BY <1>5 DEF Matching
<1>7. \A op \in TableOpcodes : EntryMatches(DefaultTable[op], a)
        => d.cost <= EntryCost(DefaultTable[op], a)
  BY <1>5 DEF Matching
<1> HIDE DEF a, d, best, m, n
<1>8. ASSUME NEW q \in 0..n, q < d.lostAt PROVE best \in BaseOpcodes(q)
  <2>1. best < m \/ best - m + 1 > q
    BY <1>1, <1>4, <1>6, <1>8
  <2> QED
    BY <1>2, <1>6, <2>1
<1>9. ASSUME NEW q \in 0..n, NEW op \in BaseOpcodes(q), EntryMatches(DefaultTable[op], a)
      PROVE  q < d.lostAt
  <2>1. CASE ~(best >= m)
    BY <1>1, <1>4, <2>1
  <2>2. CASE best >= m
    <3>1. op \in TableOpcodes /\ (op < m \/ op - m + 1 > q) /\ op \in Nat
      BY <1>1, <1>2
    <3>2. two \in TwoEntry
      BY <1>1, <1>6, <2>2
    <3>3. Len(a) = 2 /\ two = FromPattern(a)
      BY <1>3, <1>6, <3>2, PairMatches
    <3>4. op >= m
      <4>1. op < m => Len(a) = 1
        BY <1>1, <1>3, <1>9, <3>1, SingleMatches
      <4>2. ~(op < m)
        BY <3>3, <4>1
      <4> QED
        BY <1>1, <3>1, <4>2
    <3>5. DefaultTable[op] = FromPattern(a)
      <4>1. DefaultTable[op] \in TwoEntry
        BY <1>1, <3>1, <3>4
      <4> QED
        BY <1>3, <1>9, <4>1, PairMatches
    <3>6. op = best
      BY <1>1, <1>6, <2>2, <3>1, <3>3, <3>4, <3>5
    <3> QED
      BY <1>1, <1>4, <2>2, <3>1, <3>4, <3>6
  <2> QED
    BY <2>1, <2>2
<1> QED
  BY <1>4, <1>5, <1>6, <1>7, <1>8, <1>9 DEF a, d, n

(* What is collected from all the instructions.                            *)
LEMMA CollectedAre ==
  ASSUME NEW w, IsProgram(w), NEW n, n \subseteq 1..Len(w)
  PROVE  /\ IsFiniteSet(UNION {EdgesAt(w, i, MaxSlots) : i \in n})
         /\ \A e \in UNION {EdgesAt(w, i, MaxSlots) : i \in n} :
              \E span \in Spans(w) :
                \/ e = DefaultEdge(w, span) /\ InDefaultTable(w, span)
                \/ e = PatternEdge(w, span) /\ Covered(w, span) \in ObservedPatterns(w)
<1> DEFINE U == UNION {EdgesAt(w, i, MaxSlots) : i \in n}
           f == [span \in Spans(w) |-> DefaultEdge(w, span)]
           g == [span \in Spans(w) |-> PatternEdge(w, span)]
           D == {f[span] : span \in Spans(w)}
           P == {g[span] : span \in Spans(w)}
<1>1. ASSUME NEW e \in U
      PROVE  \E span \in Spans(w) :
               \/ e = DefaultEdge(w, span) /\ InDefaultTable(w, span)
               \/ e = PatternEdge(w, span) /\ Covered(w, span) \in ObservedPatterns(w)
  BY DEF EdgesAt, PatternEdge
<1>2. U \in SUBSET (D \cup P)
  BY <1>1
<1> HIDE DEF f, g, U
<1>3. IsFiniteSet(D) /\ IsFiniteSet(P)
  BY SpansFinite, ImageFinite
<1> HIDE DEF D, P
<1>4. IsFiniteSet(U)
  BY <1>2, <1>3, FS_Union, FS_Subset
<1> QED
  BY <1>1, <1>4 DEF U

(* The loop over the instructions leaves out no edge of the default table, *)
(* and no observed pattern but those that never save a byte.               *)
LEMMA CollectedAll ==
  ASSUME NEW w, IsProgram(w), NEW span \in Spans(w)
  PROVE  /\ InDefaultTable(w, span) => DefaultEdge(w, span) \in Collected(w, Len(w))
         /\ Covered(w, span) \in ObservedPatterns(w) /\ ~AlwaysAsCheap(w, span, MaxSlots)
              => PatternEdge(w, span) \in Collected(w, Len(w))
<1>1. span[1] \in 1..Len(w)
  BY CoveredIs
<1>2. InDefaultTable(w, span) => DefaultEdge(w, span) \in EdgesAt(w, span[1], MaxSlots)
  BY DEF EdgesAt
<1>3. Covered(w, span) \in ObservedPatterns(w) /\ ~AlwaysAsCheap(w, span, MaxSlots)
        => PatternEdge(w, span) \in EdgesAt(w, span[1], MaxSlots)
  BY DEF EdgesAt, PatternEdge
<1> QED
  BY <1>1, <1>2, <1>3 DEF Collected

(* The edges allowed to a choice, with one for every instruction that no   *)
(* choice takes away.                                                      *)
Allowed(w, q, sel) == AllowedEdges(Collected(w, Len(w)), q, sel)

(* The edges that a choice leaves open get to the end of the window, as do *)
(* those of single instructions alone.                                     *)
LEMMA AllowedAre ==
  ASSUME NEW w, IsProgram(w), NEW q \in 0..PairBankCapacity, NEW sel
  PROVE  /\ Passable(Len(w), Allowed(w, q, sel))
         /\ \A e \in Allowed(w, q, sel) : e.cost >= 1
         /\ SingleEdges(w) \subseteq Allowed(w, q, sel)
         /\ Passable(Len(w), SingleEdges(w))
<1> DEFINE C == Collected(w, Len(w))
           A == Allowed(w, q, sel)
<1>1. /\ IsFiniteSet(C)
      /\ \A e \in C : \E span \in Spans(w) :
           \/ e = DefaultEdge(w, span) /\ InDefaultTable(w, span)
           \/ e = PatternEdge(w, span) /\ Covered(w, span) \in ObservedPatterns(w)
  BY CollectedAre DEF Collected
<1>2. A \in SUBSET C
  BY DEF Allowed, AllowedEdges
<1>3. ASSUME NEW e \in C
      PROVE  e.cost \in Nat /\ e.cost >= 1 /\ \E span \in Spans(w) : On(e, span)
  <2>1. PICK span \in Spans(w) :
           \/ e = DefaultEdge(w, span) /\ InDefaultTable(w, span)
           \/ e = PatternEdge(w, span) /\ Covered(w, span) \in ObservedPatterns(w)
    BY <1>1
  <2> QED
    BY <2>1, DefaultEdgeIs, PatternEdgeIs
<1>4. ASSUME NEW i \in 1..Len(w)
      PROVE  DefaultEdge(w, <<i, 1>>) \in A /\ DefaultEdge(w, <<i, 1>>).start = i
  <2> DEFINE a == Covered(w, <<i, 1>>)
             d == DefaultEdge(w, <<i, 1>>)
  <2>1. /\ <<i, 1>> \in Spans(w) /\ w[i] \in Atom /\ w[i].mode < Modes
        /\ a \in Words /\ Len(a) = 1 /\ a[1] = w[i]
    BY SingleSpans
  <2>2. PICK op \in TableOpcodes :
          op < PairBankStart /\ DefaultTable[op] = Single(w[i].type, 0, w[i].mode)
    BY <2>1, DefaultTableIs
  <2>3. EntryMatches(DefaultTable[op], a)
    BY <2>1, <2>2, SingleMatches
  <2>4. InDefaultTable(w, <<i, 1>>)
    BY <2>3 DEF InDefaultTable, Matching
  <2>5. q \in Nat /\ q <= PairBankCapacity
    BY DefaultTableIs
  <2>6. op \in BaseOpcodes(q)
    BY <2>2, <2>5, BaseIs
  <2>7. q < d.lostAt /\ d.pattern = NoPattern /\ d.start = i
    BY <2>1, <2>3, <2>4, <2>6, DefaultEdgeIs DEF On
  <2>8. d \in C
    BY <2>1, <2>4, CollectedAll
  <2> QED
    BY <2>7, <2>8 DEF Allowed, AllowedEdges
<1>5. SingleEdges(w) \subseteq A
  BY <1>4 DEF SingleEdges
<1>6. \A i \in 1..Len(w) : \E e \in SingleEdges(w) : e.start = i
  BY <1>4 DEF SingleEdges
<1> HIDE DEF C, A
<1>7. IsFiniteSet(A) /\ IsFiniteSet(SingleEdges(w))
  BY <1>1, <1>2, <1>5, FS_Subset
<1>8. Passable(Len(w), A) /\ Passable(Len(w), SingleEdges(w))
  BY <1>2, <1>3, <1>5, <1>6, <1>7, Passes
<1> QED
  BY <1>2, <1>3, <1>5, <1>8 DEF A

(* What the edges promise a table with the selection delivers.             *)
LEMMA AllowedAttained ==
  ASSUME NEW w, IsProgram(w), NEW q \in 0..PairBankCapacity,
         NEW sel \in SUBSET Words, NEW T, Installed(T, q, sel)
  PROVE  OptimalParse(w, T) <= LeastCover(Len(w), Allowed(w, q, sel))
<1> DEFINE E == Allowed(w, q, sel)
           F == TableEdges(w, T, TableOpcodes)
<1>0. q \in Nat /\ q <= PairBankCapacity
  BY DefaultTableIs
<1>1. Generic(T, TableOpcodes) /\ TableOpcodes \in SUBSET Nat
      /\ BaseOpcodes(q) \subseteq TableOpcodes
  BY <1>0, GenericStays, BaseIs
<1>2. Passable(Len(w), E)
  BY AllowedAre
<1>3. /\ Passable(Len(w), F)
      /\ \A span \in Spans(w), op \in TableOpcodes :
           EntryMatches(T[op], Covered(w, span)) =>
             \E d \in F : On(d, span) /\ d.cost <= EntryCost(T[op], Covered(w, span))
  BY <1>1, TableEdgesAre
<1> HIDE DEF F
<1>4. ASSUME NEW e \in E
      PROVE  \E d \in F : d.start = e.start /\ d.width = e.width /\ d.cost <= e.cost
  <2>1. /\ e \in Collected(w, Len(w))
        /\ IF e.pattern = NoPattern THEN q < e.lostAt ELSE e.pattern \in sel
    BY DEF Allowed, AllowedEdges
  <2>2. PICK span \in Spans(w) :
           \/ e = DefaultEdge(w, span) /\ InDefaultTable(w, span)
           \/ e = PatternEdge(w, span) /\ Covered(w, span) \in ObservedPatterns(w)
    BY <2>1, CollectedAre DEF Collected
  <2>3. CASE e = DefaultEdge(w, span) /\ InDefaultTable(w, span)
    <3>1. q < e.lostAt /\ On(e, span)
      BY <2>1, <2>3, DefaultEdgeIs
    <3>2. PICK op \in TableOpcodes : /\ EntryMatches(DefaultTable[op], Covered(w, span))
                                     /\ e.cost = EntryCost(DefaultTable[op], Covered(w, span))
                                     /\ op \in BaseOpcodes(q)
      BY <2>3, <3>1, DefaultEdgeIs
    <3>3. T[op] = DefaultTable[op]
      BY <3>2 DEF Installed
    <3>4. PICK d \in F : On(d, span) /\ d.cost <= EntryCost(T[op], Covered(w, span))
      BY <1>3, <3>2, <3>3
    <3> QED
      BY <3>1, <3>2, <3>3, <3>4 DEF On
  <2>4. CASE e = PatternEdge(w, span)
    <3>1. On(e, span) /\ e.cost = 1 /\ Covered(w, span) \in sel
      BY <2>1, <2>4, PatternEdgeIs
    <3>2. Covered(w, span) \in Words
      BY CoveredIs
    <3>3. PICK op \in TableOpcodes : /\ EntryMatches(T[op], Covered(w, span))
                                     /\ EntryCost(T[op], Covered(w, span)) = 1
      BY <1>0, <3>1, <3>2, UsesAre
    <3>4. PICK d \in F : On(d, span) /\ d.cost <= EntryCost(T[op], Covered(w, span))
      BY <1>3, <3>3
    <3> QED
      BY <3>1, <3>3, <3>4 DEF On
  <2> QED
    BY <2>2, <2>3, <2>4
<1> HIDE DEF E
<1>5. LeastCover(Len(w), F) <= LeastCover(Len(w), E)
  BY <1>2, <1>3, <1>4, CoverCompare
<1> QED
  BY <1>5, ParseIsCover DEF E, F

(* No table with observed patterns does better than the edges, though they *)
(* leave patterns out and know only one entry of the default table.        *)
LEMMA AllowedBounds ==
  ASSUME NEW w, IsProgram(w), NEW q \in 0..PairBankCapacity, q <= MaxSlots, MaxSlots \in Nat,
         NEW sel \in SUBSET ObservedPatterns(w), NEW T, Installed(T, q, sel)
  PROVE  LeastCover(Len(w), Allowed(w, q, sel \cap Patterns(Collected(w, Len(w)))))
           <= OptimalParse(w, T)
<1> DEFINE C == Collected(w, Len(w))
           more == sel \cap Patterns(C)
           E == TableEdges(w, T, TableOpcodes)
           F == Allowed(w, q, more)
<1>0. q \in Nat /\ q <= PairBankCapacity
  BY DefaultTableIs
<1>1. Generic(T, TableOpcodes) /\ TableOpcodes \in SUBSET Nat /\ sel \in SUBSET Words
      /\ BaseOpcodes(q) \subseteq TableOpcodes
  BY <1>0, GenericStays, BaseIs, SpansFinite
<1>2. Passable(Len(w), F)
  BY AllowedAre
<1>3. Passable(Len(w), E)
  BY <1>1, TableEdgesAre
<1>4. ASSUME NEW e \in E
      PROVE  \E d \in F : d.start = e.start /\ d.width = e.width /\ d.cost <= e.cost
  <2>1. PICK span \in Spans(w), op \in TableOpcodes :
          /\ On(e, span)
          /\ EntryMatches(T[op], Covered(w, span))
          /\ e.cost = EntryCost(T[op], Covered(w, span))
    BY <1>1, TableEdgesAre
  <2> DEFINE a == Covered(w, span)
             d == DefaultEdge(w, span)
             p == PatternEdge(w, span)
  <2>2. a \in Words
    BY CoveredIs
  <2>3. CASE op \in BaseOpcodes(q) /\ T[op] = DefaultTable[op]
    <3>1. EntryMatches(DefaultTable[op], a) /\ e.cost = EntryCost(DefaultTable[op], a)
      BY <2>1, <2>3
    <3>2. InDefaultTable(w, span)
      BY <3>1 DEF InDefaultTable, Matching
    <3>3. On(d, span) /\ d.pattern = NoPattern /\ d.cost <= e.cost /\ q < d.lostAt
      BY <2>3, <3>1, <3>2, DefaultEdgeIs
    <3>4. d \in C
      BY <3>2, CollectedAll
    <3>5. d \in F
      BY <3>3, <3>4 DEF Allowed, AllowedEdges
    <3> QED
      BY <2>1, <3>3, <3>5 DEF On
  <2>4. CASE a \in sel /\ EntryCost(T[op], a) = 1
    <3>1. CASE AlwaysAsCheap(w, span, MaxSlots)
      <4>1. InDefaultTable(w, span) /\ d.cost = 1 /\ d.lostAt > MaxSlots
        BY <3>1 DEF AlwaysAsCheap
      <4>2. On(d, span) /\ d.pattern = NoPattern
        BY <4>1, DefaultEdgeIs
      <4>3. d.lostAt \in Int
        <5>1. /\ PairBankStart \in Nat /\ PairBankCapacity \in Nat /\ TableOpcodes \in SUBSET Nat
          BY <1>1, DefaultTableIs
        <5>2. Matching(DefaultTable, TableOpcodes, a) # {}
          BY <4>1 DEF InDefaultTable
        <5>3. BestOpcode(DefaultTable, TableOpcodes, a) \in Nat
          BY <1>1, <2>2, <5>2, BestIs DEF Matching
        <5> QED
          BY <5>1, <5>3 DEF DefaultEdge, Edge, Never
      <4>4. q < d.lostAt
        <5> HIDE DEF d
        <5> QED
          BY <1>0, <4>1, <4>3
      <4>5. d \in C
        BY <4>1, CollectedAll
      <4>6. d \in F
        BY <4>2, <4>4, <4>5 DEF Allowed, AllowedEdges
      <4>7. d.cost <= e.cost
        BY <2>1, <2>4, <4>1
      <4> QED
        BY <2>1, <4>2, <4>6, <4>7 DEF On
    <3>2. CASE ~AlwaysAsCheap(w, span, MaxSlots)
      <4>1. p \in C
        BY <2>4, <3>2, CollectedAll
      <4>2. On(p, span) /\ p.cost = 1 /\ p.pattern = a /\ p.pattern # NoPattern
        BY PatternEdgeIs
      <4> HIDE DEF p, C
      <4>3. p.pattern \in more
        BY <2>4, <4>1, <4>2 DEF Patterns
      <4> HIDE DEF more
      <4>4. p \in F
        BY <4>1, <4>2, <4>3 DEF Allowed, AllowedEdges, C
      <4>5. p.cost <= e.cost
        BY <2>1, <2>4, <4>2
      <4> QED
        BY <2>1, <4>2, <4>4, <4>5 DEF On
    <3> QED
      BY <3>1, <3>2
  <2>5. \/ op \in BaseOpcodes(q) /\ T[op] = DefaultTable[op]
        \/ a \in sel /\ EntryCost(T[op], a) = 1
    <3>1. EntryMatches(T[op], a)
      BY <2>1
    <3> HIDE DEF a
    <3> QED
      BY <1>0, <1>1, <2>2, <3>1, UsesAre
  <2> QED
    BY <2>3, <2>4, <2>5
<1> HIDE DEF E, F, more
<1>5. LeastCover(Len(w), F) <= LeastCover(Len(w), E)
  BY <1>2, <1>3, <1>4, CoverCompare
<1> QED
  BY <1>5, ParseIsCover DEF E, F, more

-----------------------------------------------------------------------------
(* The answers open to the solver.                                         *)

(* The inputs, and the edges once the loop over them is done.              *)
Given ==
  /\ window \in Windows /\ headers \in HeaderLengths /\ deltaConstant \in DeltaConstants
  /\ edges = Collected(window, Count)

Most == LeastCover(Count, SingleEdges(window))

Best(q, sel) == LeastCover(Count, AllowedEdges(edges, q, sel))

(* The most instruction bytes a regime is made for.                        *)
LEMMA MostIs ==
  ASSUME window \in Windows
  PROVE  SingleBytes[window] = Most
BY DEF SingleBytes, Most, Count

(* What the assumptions on the constants say of the inputs.                *)
LEMMA InputsAre ==
  ASSUME window \in Windows, headers \in HeaderLengths, deltaConstant \in DeltaConstants
  PROVE  /\ IsProgram(window) /\ Count \in Nat /\ Count >= 1
         /\ deltaConstant \in Nat /\ Slack \in Nat
         /\ headers \in [Slots -> Nat] /\ \A q \in Slots : headers[q] \in Nat /\ headers[0] <= headers[q]
         /\ MaxSlots \in Nat /\ MaxSlots >= 1 /\ PairBankCapacity \in Nat
         /\ MaxSlots <= PairBankCapacity /\ 0 \in Slots
         /\ \A q \in Slots : q \in Nat /\ q \in 0..PairBankCapacity /\ q <= MaxSlots
         /\ Most \in Nat /\ deltaConstant + Most + DigitLimit + 1 <= MaxValue
<1>1. /\ PairBankCapacity \in Nat
  BY DefaultTableIs
<1>2. /\ MaxSlots \in Nat /\ MaxSlots >= 1 /\ MaxSlots <= PairBankCapacity /\ 0 \in Slots
      /\ \A q \in Slots : q \in Nat /\ q \in 0..PairBankCapacity /\ q <= MaxSlots
  BY <1>1, SelectionAssumption DEF SelectionAssumption, Slots
<1>3. /\ window \in Seq(Atom) /\ window # <<>> /\ \A i \in 1..Len(window) : window[i].mode < Modes
      /\ headers \in [Slots -> Nat] /\ \A q \in Slots : headers[0] <= headers[q]
      /\ deltaConstant \in Nat /\ Slack \in Nat
      /\ deltaConstant + SingleBytes[window] + DigitLimit + 1 <= MaxValue
  BY SelectionAssumption DEF SelectionAssumption
<1>4. IsProgram(window)
  BY <1>3 DEF IsProgram
<1>5. Count \in Nat /\ Count >= 1
  BY <1>3 DEF Count
<1>0. SingleBytes[window] = Most
  BY MostIs
<1>6. Most \in Nat
  BY <1>2, <1>4, AllowedAre, MostCoverIs DEF Most, Count
<1> QED
  BY <1>1, <1>2, <1>3, <1>4, <1>5, <1>6, <1>0

(* The more instruction bytes, the longer the patch.                       *)
LEMMA PatchBytesGrow ==
  ASSUME headers \in [Slots -> Nat], deltaConstant \in Nat, NEW q \in Slots,
         NEW a \in Nat, NEW b \in Nat, a <= b
  PROVE  /\ VariablePatchBytes(q, a) \in Nat
         /\ VariablePatchBytes(q, a) <= VariablePatchBytes(q, b)
         /\ a < b => VariablePatchBytes(q, a) < VariablePatchBytes(q, b)
<1>1. VarintSize(a) \in Nat /\ VarintSize(b) \in Nat /\ VarintSize(a) <= VarintSize(b)
  BY VarintSizeMonotone
<1>2. DeltaLength(a) \in Nat /\ DeltaLength(b) \in Nat /\ DeltaLength(a) <= DeltaLength(b)
  <2> DEFINE m == VarintSize(a)
             n == VarintSize(b)
  <2> HIDE DEF m, n
  <2>1. m \in Nat /\ n \in Nat /\ m <= n
    BY <1>1 DEF m, n
  <2>2. deltaConstant + m + a \in Nat /\ deltaConstant + n + b \in Nat
        /\ deltaConstant + m + a <= deltaConstant + n + b
    BY <2>1
  <2> QED
    BY <2>2 DEF DeltaLength, m, n
<1>3. /\ VarintSize(DeltaLength(a)) \in Nat /\ VarintSize(DeltaLength(b)) \in Nat
      /\ VarintSize(DeltaLength(a)) <= VarintSize(DeltaLength(b))
  BY <1>2, VarintSizeMonotone
<1>4. headers[q] \in Nat
  OBVIOUS
<1>5. \A h, m, n, u, v \in Nat : m <= n /\ u <= v =>
        /\ h + a + m + u \in Nat /\ h + a + m + u <= h + b + n + v
        /\ a < b => h + a + m + u < h + b + n + v
  OBVIOUS
<1> QED
  BY <1>1, <1>3, <1>4, <1>5, Zenon DEF VariablePatchBytes

(* One regime, and what the numbers within its limits are.                 *)
RegimeOf(i, d) ==
  [instruction |-> i, delta |-> d,
   low |-> Max({(Count + 1) \div 2, VarintInterval(i).low, VarintInterval(d).low - deltaConstant - i}),
   high |-> Min({Most, VarintInterval(i).high, VarintInterval(d).high - deltaConstant - i})]

(* The regimes, one for each pair of varint lengths with a parse length that*)
(* has them.                                                               *)
LEMMA RegimesAre ==
  ASSUME window \in Windows
  PROVE  \A r : r \in PatchRegimes <=>
           \E i \in 1..VarintSize(Most),
              d \in 1..VarintSize(deltaConstant + Most + VarintSize(Most)) :
             r = RegimeOf(i, d) /\ r.low <= r.high
<1>1. PatchRegimes =
        {r \in {RegimeOf(i, d) : i \in 1..VarintSize(Most),
                                d \in 1..VarintSize(deltaConstant + Most + VarintSize(Most))} :
           r.low <= r.high}
  <2>1. PatchRegimes = Regimes(Count, Most, deltaConstant)
    BY MostIs DEF PatchRegimes
  <2> QED
    BY <2>1, SMTT(20) DEF Regimes, RegimeOf
<1> QED
  BY <1>1

(* A regime holds just the parse lengths whose two varints have its lengths.*)
LEMMA RegimeBounds ==
  ASSUME window \in Windows, headers \in HeaderLengths, deltaConstant \in DeltaConstants,
         NEW i \in 1..(DigitLimit + 1), NEW d \in 1..(DigitLimit + 1)
  PROVE  /\ RegimeOf(i, d).low \in Int /\ RegimeOf(i, d).high \in Int
         /\ RegimeOf(i, d).high <= Most
         /\ RegimeOf(i, d).instruction = i /\ RegimeOf(i, d).delta = d
         /\ \A n \in Nat : n <= Most =>
              (RegimeOf(i, d).low <= n /\ n <= RegimeOf(i, d).high
                 <=> /\ (Count + 1) \div 2 <= n
                     /\ VarintSize(n) = i /\ VarintSize(deltaConstant + i + n) = d)
<1> DEFINE il == VarintInterval(i).low
           ih == VarintInterval(i).high
           dl == VarintInterval(d).low
           dh == VarintInterval(d).high
           half == (Count + 1) \div 2
           low == RegimeOf(i, d).low
           high == RegimeOf(i, d).high
<1>1. /\ Count \in Nat /\ deltaConstant \in Nat /\ Most \in Nat /\ DigitLimit \in Nat
      /\ deltaConstant + Most + DigitLimit + 1 <= MaxValue /\ MaxValue \in Int
  <2>1. MaxValue \in Int
    BY Powers DEF MaxValue
  <2> QED
    BY <2>1, InputsAre, Powers
<1>2. ASSUME NEW n \in Nat, n <= Most
      PROVE  n \in 0..MaxValue /\ deltaConstant + i + n \in 0..MaxValue
  BY <1>1, <1>2
<1>3. ASSUME NEW n \in 0..MaxValue, NEW k \in 1..(DigitLimit + 1)
      PROVE  /\ VarintInterval(k).low \in Int /\ VarintInterval(k).high \in Int
             /\ (VarintInterval(k).low <= n /\ n <= VarintInterval(k).high) <=> VarintSize(n) = k
  BY IntervalIs
<1>4. il \in Int /\ ih \in Int /\ dl \in Int /\ dh \in Int
  <2>1. 0 \in 0..MaxValue
    BY <1>1
  <2> QED
    BY <1>3, <2>1
<1>5. low = Max({half, il, dl - deltaConstant - i})
      /\ high = Min({Most, ih, dh - deltaConstant - i})
      /\ RegimeOf(i, d).instruction = i /\ RegimeOf(i, d).delta = d
  BY DEF RegimeOf
<1> HIDE DEF il, ih, dl, dh
<1>6. half \in Int /\ dl - deltaConstant - i \in Int /\ dh - deltaConstant - i \in Int
  BY <1>1, <1>4
<1>7. /\ low \in {half, il, dl - deltaConstant - i}
      /\ half <= low /\ il <= low /\ dl - deltaConstant - i <= low
      /\ high \in {Most, ih, dh - deltaConstant - i}
      /\ high <= Most /\ high <= ih /\ high <= dh - deltaConstant - i
  <2> HIDE DEF low, high, half
  <2>1. Most \in Int
    BY <1>1
  <2> QED
    BY <1>4, <1>5, <1>6, <2>1, Extremes
<1> HIDE DEF low, high
<1>8. low \in Int /\ high \in Int
  BY <1>1, <1>4, <1>6, <1>7
<1>9. ASSUME NEW n \in Nat, n <= Most
      PROVE  (low <= n /\ n <= high)
               <=> (half <= n /\ VarintSize(n) = i /\ VarintSize(deltaConstant + i + n) = d)
  <2> HIDE DEF half
  <2>1. (low <= n /\ n <= high)
          <=> /\ half <= n /\ il <= n /\ n <= ih
              /\ dl <= deltaConstant + i + n /\ deltaConstant + i + n <= dh
    <3>1. low <= n <=> half <= n /\ il <= n /\ dl - deltaConstant - i <= n
      BY <1>4, <1>6, <1>7, <1>8
    <3>2. n <= high <=> n <= ih /\ n <= dh - deltaConstant - i
      BY <1>1, <1>4, <1>6, <1>7, <1>8, <1>9
    <3>3. dl - deltaConstant - i <= n <=> dl <= deltaConstant + i + n
      BY <1>1, <1>4
    <3>4. n <= dh - deltaConstant - i <=> deltaConstant + i + n <= dh
      BY <1>1, <1>4
    <3> QED
      BY <3>1, <3>2, <3>3, <3>4
  <2>2. (il <= n /\ n <= ih) <=> VarintSize(n) = i
    BY <1>2, <1>3, <1>9 DEF il, ih
  <2>3. (dl <= deltaConstant + i + n /\ deltaConstant + i + n <= dh)
          <=> VarintSize(deltaConstant + i + n) = d
    <3>1. deltaConstant + i + n \in 0..MaxValue
      BY <1>2, <1>9
    <3> QED
      BY <1>3, <3>1 DEF dl, dh
  <2> QED
    BY <2>1, <2>2, <2>3
<1> QED
  BY <1>5, <1>7, <1>8, <1>9 DEF low, high, half

(* The greater and the lesser of two integers.                             *)
LEMMA ExtremesOfTwo ==
  ASSUME NEW a \in Int, NEW b \in Int
  PROVE  /\ Max({a, b}) \in {a, b} /\ a <= Max({a, b}) /\ b <= Max({a, b})
         /\ Min({a, b}) \in {a, b} /\ Min({a, b}) <= a /\ Min({a, b}) <= b
<1>1. 0 \in Int
  OBVIOUS
<1> QED
  BY <1>1, Extremes

(* The answer with a choice and a regime.                                  *)
AnswerOf(q, sel, r) ==
  LET bytes == Max({Best(q, sel), r.low})
      total == headers[q] + bytes + r.instruction + r.delta
  IN  Solution(q, sel, bytes, r.instruction, r.delta, total, total)

Open(q, sel, r) ==
  Max({Best(q, sel), r.low}) <= Min({MostCover(Count, AllowedEdges(edges, q, sel)), r.high})

(* The answers with one choice, regime by regime.                          *)
LEMMA AnswersFrom ==
  ASSUME NEW q, NEW sel
  PROVE  \A x : x \in Answers(q, sel, PatchRegimes) <=>
           \E r \in PatchRegimes : Open(q, sel, r) /\ x = AnswerOf(q, sel, r)
<1> DEFINE R == PatchRegimes
<1>1. Answers(q, sel, R) = {AnswerOf(q, sel, r) : r \in {s \in R : Open(q, sel, s)}}
  BY DEF Answers, AnswerOf, Open, Best
<1> HIDE DEF R
<1>2. \A x : x \in Answers(q, sel, R) <=> \E r \in R : Open(q, sel, r) /\ x = AnswerOf(q, sel, r)
  BY <1>1
<1> QED
  BY <1>2 DEF R

(* Among them is that of the cheapest cover, with the lengths it has; all  *)
(* others take more instruction bytes, and are as long as they say.        *)
LEMMA AnswersAre ==
  ASSUME Given, NEW q \in Slots, NEW sel
  PROVE  /\ Best(q, sel) \in Nat
         /\ \E x \in Answers(q, sel, PatchRegimes) :
              x.primal = VariablePatchBytes(q, Best(q, sel))
         /\ \A x \in Answers(q, sel, PatchRegimes) :
              /\ x.slots = q /\ x.selected = sel /\ x.primal = x.dual
              /\ x.bytes \in Nat /\ Best(q, sel) <= x.bytes
              /\ x.primal = VariablePatchBytes(q, x.bytes)
              /\ x.primal = headers[q] + x.bytes + x.instruction + x.delta
<1> DEFINE b == Best(q, sel)
           mc == MostCover(Count, AllowedEdges(edges, q, sel))
           R == PatchRegimes
           topI == VarintSize(Most)
           topD == VarintSize(deltaConstant + Most + VarintSize(Most))
<1>1. /\ window \in Windows /\ headers \in HeaderLengths /\ deltaConstant \in DeltaConstants
      /\ edges = Collected(window, Count)
  BY DEF Given
<1>2. /\ IsProgram(window) /\ Count \in Nat /\ deltaConstant \in Nat /\ headers[q] \in Nat
      /\ q \in 0..PairBankCapacity
      /\ Most \in Nat /\ deltaConstant + Most + DigitLimit + 1 <= MaxValue
      /\ DigitLimit \in Nat /\ MaxValue \in Int
  <2>1. MaxValue \in Int /\ DigitLimit \in Nat
    BY Powers DEF MaxValue
  <2> QED
    BY <1>1, <2>1, InputsAre
<1>3. /\ b \in Nat /\ mc \in Nat /\ b <= mc /\ b <= Most /\ (Count + 1) \div 2 <= b
  <2> DEFINE A == Allowed(window, q, sel)
  <2>1. /\ Passable(Count, A) /\ \A e \in A : e.cost >= 1
        /\ SingleEdges(window) \subseteq A /\ Passable(Count, SingleEdges(window))
    BY <1>2, AllowedAre DEF Count
  <2>2. b = LeastCover(Count, A) /\ mc = MostCover(Count, A)
    BY <1>1 DEF Best, Allowed, Count
  <2> HIDE DEF A, b, mc
  <2>3. b \in Nat /\ mc \in Nat /\ b <= mc
    BY <2>1, <2>2, MostCoverIs
  <2>4. (Count + 1) \div 2 <= b
    BY <2>1, <2>2, CoverAtLeast
  <2>5. b <= Most
    <3>1. \A e \in SingleEdges(window) : e.cost \in Nat
      BY <2>1 DEF Passable
    <3>2. \A e \in SingleEdges(window) : \E d \in A :
            d.start = e.start /\ d.width = e.width /\ d.cost <= e.cost
      BY <2>1, <3>1
    <3> QED
      BY <2>1, <2>2, <3>2, CoverCompare DEF Most
  <2> QED
    BY <2>3, <2>4, <2>5
<1>4. topI \in 1..(DigitLimit + 1) /\ topD \in 1..(DigitLimit + 1)
  <2>1. Most \in 0..MaxValue
    BY <1>2
  <2>2. topI \in 1..(DigitLimit + 1)
    BY <2>1, SizeBounds
  <2>3. deltaConstant + Most + topI \in 0..MaxValue
    <3> HIDE DEF topI
    <3> QED
      BY <1>2, <2>2
  <2>4. topD \in 1..(DigitLimit + 1)
    BY <2>3, SizeBounds
  <2> QED
    BY <2>2, <2>4
<1>5. \A i \in 1..topI : i \in 1..(DigitLimit + 1)
  <2> HIDE DEF topI
  <2> QED
    BY <1>2, <1>4
<1>6. \A d \in 1..topD : d \in 1..(DigitLimit + 1)
  <2> HIDE DEF topD
  <2> QED
    BY <1>2, <1>4
<1>7. \A r : r \in R <=> \E i \in 1..topI, d \in 1..topD :
                           r = RegimeOf(i, d) /\ r.low <= r.high
  BY <1>1, RegimesAre
<1> HIDE DEF R, topI, topD
<1>8. \E x \in Answers(q, sel, R) : x.primal = VariablePatchBytes(q, b)
  <2> DEFINE i == VarintSize(b)
             d == VarintSize(deltaConstant + i + b)
             r == RegimeOf(i, d)
             mx == Max({b, r.low})
             mn == Min({mc, r.high})
  <2>1. i \in 1..topI
    <3>1. VarintSize(b) <= VarintSize(Most) /\ VarintSize(b) \in Nat
      BY <1>2, <1>3, VarintSizeMonotone
    <3>2. b \in 0..MaxValue
      BY <1>2, <1>3
    <3>3. VarintSize(b) \in 1..(DigitLimit + 1)
      BY <3>2, SizeBounds
    <3> HIDE DEF b
    <3>4. i \in Nat /\ i >= 1 /\ i <= topI /\ topI \in Nat
      <4>1. topI = VarintSize(Most)
        BY DEF topI
      <4> QED
        BY <1>2, <1>4, <3>1, <3>3, <4>1
    <3> HIDE DEF i
    <3> QED
      BY <3>4
  <2> HIDE DEF i
  <2>2. d \in 1..topD
    <3>1. i \in Nat /\ topI \in Nat /\ i <= topI /\ i \in 1..(DigitLimit + 1)
      BY <1>2, <1>4, <1>5, <2>1
    <3>2. /\ deltaConstant + i + b \in Nat /\ deltaConstant + Most + topI \in Nat
          /\ deltaConstant + i + b <= deltaConstant + Most + topI
          /\ deltaConstant + i + b \in 0..MaxValue
      <4> HIDE DEF b
      <4> QED
        BY <1>2, <1>3, <3>1
    <3>3. VarintSize(deltaConstant + i + b) <= VarintSize(deltaConstant + Most + topI)
      BY <3>2, VarintSizeMonotone
    <3>4. VarintSize(deltaConstant + i + b) \in 1..(DigitLimit + 1)
      BY <3>2, SizeBounds
    <3>5. topD = VarintSize(deltaConstant + Most + topI)
      BY DEF topD, topI
    <3>6. d <= topD /\ d \in 1..(DigitLimit + 1)
      BY <3>3, <3>4, <3>5
    <3> HIDE DEF d
    <3> QED
      BY <1>2, <1>4, <3>6
  <2>3. VarintSize(b) = i /\ VarintSize(deltaConstant + i + b) = d
    BY DEF i
  <2> HIDE DEF d
  <2>4. /\ r.low \in Int /\ r.high \in Int /\ r.instruction = i /\ r.delta = d
        /\ r.low <= b /\ b <= r.high
    <3>1. i \in 1..(DigitLimit + 1) /\ d \in 1..(DigitLimit + 1)
      BY <1>5, <1>6, <2>1, <2>2
    <3> HIDE DEF b
    <3> QED
      BY <1>1, <1>3, <2>3, <3>1, RegimeBounds
  <2>5. r \in R
    <3>1. r.low <= r.high
      <4> HIDE DEF r, b
      <4> QED
        BY <1>3, <2>4
    <3> HIDE DEF r
    <3> QED
      BY <1>7, <2>1, <2>2, <3>1 DEF r
  <2> HIDE DEF r
  <2>6. mx = b /\ mn >= b
    <3> HIDE DEF b, mc
    <3>1. mx \in {b, r.low} /\ b <= mx /\ mn \in {mc, r.high}
      <4>1. b \in Int /\ mc \in Int /\ r.low \in Int /\ r.high \in Int
        BY <1>3, <2>4
      <4> QED
        BY <4>1, ExtremesOfTwo, Zenon
    <3>2. mx \in Int /\ mn \in Int
      BY <1>3, <2>4, <3>1
    <3> HIDE DEF mx, mn
    <3> QED
      BY <1>3, <2>4, <3>1, <3>2
  <2>7. Open(q, sel, r)
    <3>1. mn \in {mc, r.high}
      <4> HIDE DEF b, mc
      <4>1. mc \in Int /\ r.high \in Int
        BY <1>3, <2>4
      <4> QED
        BY <4>1, ExtremesOfTwo, Zenon
    <3>2. mx <= mn
      <4> HIDE DEF b, mc, mx, mn
      <4> QED
        BY <1>3, <2>4, <2>6, <3>1
    <3> QED
      BY <3>2 DEF Open
  <2>8. AnswerOf(q, sel, r) \in Answers(q, sel, R)
    BY <2>5, <2>7, AnswersFrom DEF R
  <2>9. AnswerOf(q, sel, r).primal = headers[q] + b + i + d
    <3>1. AnswerOf(q, sel, r).primal = headers[q] + mx + r.instruction + r.delta
      BY DEF AnswerOf, Solution
    <3> HIDE DEF mx
    <3> QED
      BY <2>4, <2>6, <3>1
  <2>10. VariablePatchBytes(q, b) = headers[q] + b + i + d
    <3>1. DeltaLength(b) = deltaConstant + i + b
      BY <2>3 DEF DeltaLength
    <3> QED
      BY <2>3, <3>1 DEF VariablePatchBytes
  <2> QED
    BY <2>8, <2>9, <2>10
<1>9. ASSUME NEW x \in Answers(q, sel, R)
      PROVE  /\ x.slots = q /\ x.selected = sel /\ x.primal = x.dual
             /\ x.bytes \in Nat /\ b <= x.bytes
             /\ x.primal = VariablePatchBytes(q, x.bytes)
             /\ x.primal = headers[q] + x.bytes + x.instruction + x.delta
  <2>1. PICK r \in R : Open(q, sel, r) /\ x = AnswerOf(q, sel, r)
    BY AnswersFrom DEF R
  <2>2. PICK i \in 1..topI, d \in 1..topD : r = RegimeOf(i, d) /\ r.low <= r.high
    BY <1>7
  <2>3. i \in 1..(DigitLimit + 1) /\ d \in 1..(DigitLimit + 1)
    BY <1>5, <1>6
  <2>4. /\ r.low \in Int /\ r.high \in Int /\ r.high <= Most /\ r.instruction = i /\ r.delta = d
        /\ \A n \in Nat : n <= Most => (r.low <= n /\ n <= r.high =>
             VarintSize(n) = i /\ VarintSize(deltaConstant + i + n) = d)
    BY <1>1, <2>2, <2>3, RegimeBounds
  <2> DEFINE mx == Max({b, r.low})
             mn == Min({mc, r.high})
  <2>5. /\ x.slots = q /\ x.selected = sel /\ x.primal = x.dual
        /\ x.bytes = mx /\ x.instruction = i /\ x.delta = d
        /\ x.primal = headers[q] + mx + i + d
    BY <2>1, <2>4 DEF AnswerOf, Solution
  <2>6. mx <= mn
    BY <2>1 DEF Open
  <2>7. mx \in {b, r.low} /\ b <= mx /\ r.low <= mx /\ mn \in {mc, r.high} /\ mn <= r.high
    <3> HIDE DEF b, mc
    <3>1. b \in Int /\ mc \in Int /\ r.low \in Int /\ r.high \in Int
      BY <1>3, <2>4
    <3> QED
      BY <3>1, ExtremesOfTwo, Zenon
  <2> HIDE DEF mx, mn, b, mc
  <2>8. mx \in Nat /\ mx <= r.high /\ mx <= Most
    BY <1>2, <1>3, <2>4, <2>6, <2>7
  <2>9. VarintSize(mx) = i /\ VarintSize(deltaConstant + i + mx) = d
    BY <2>4, <2>7, <2>8
  <2>10. VariablePatchBytes(q, mx) = headers[q] + mx + i + d
    <3>1. DeltaLength(mx) = deltaConstant + i + mx
      BY <2>9 DEF DeltaLength
    <3> QED
      BY <2>9, <3>1 DEF VariablePatchBytes
  <2> QED
    BY <2>5, <2>7, <2>8, <2>10
<1> QED
  BY <1>3, <1>8, <1>9 DEF R
-----------------------------------------------------------------------------
(* The patches of the family.                                              *)
Patches ==
  {VariablePatchBytes(0, OptimalParse(window, DefaultTable))} \cup
  UNION {{VariablePatchBytes(q, OptimalParse(window, CustomTable(selected, q))) :
            selected \in Selections(ObservedPatterns(window), q)} : q \in 1..MaxSlots}

(* A patch of the family has a table with so many slots and patterns.      *)
LEMMA PatchesAre ==
  ASSUME window \in Windows, headers \in HeaderLengths, deltaConstant \in DeltaConstants
  PROVE  /\ LeastPatch = Min(Patches) /\ Patches \subseteq Nat /\ Patches # {}
         /\ \A x \in Patches :
              \E q \in Slots, sel \in SUBSET ObservedPatterns(window) : \E T :
                /\ (q = 0 /\ sel = {}) \/ sel \in Selections(ObservedPatterns(window), q)
                /\ Installed(T, q, sel) /\ OptimalParse(window, T) \in Nat
                /\ x = VariablePatchBytes(q, OptimalParse(window, T))
<1> DEFINE O == ObservedPatterns(window)
<1>1. /\ IsProgram(window) /\ headers \in [Slots -> Nat] /\ deltaConstant \in Nat
      /\ MaxSlots \in Nat /\ PairBankCapacity \in Nat /\ MaxSlots <= PairBankCapacity
      /\ 0 \in Slots
  BY InputsAre
<1>2. LeastPatch = Min(Patches) /\ Patches # {}
  BY DEF LeastPatch, Patches
<1>3. /\ Installed(DefaultTable, 0, {}) /\ OptimalParse(window, DefaultTable) \in Nat
  <2>1. Installed(DefaultTable, 0, {})
    BY DefaultInstalled
  <2>2. Generic(DefaultTable, TableOpcodes) /\ TableOpcodes \in SUBSET Nat
    BY <1>1, <2>1, GenericStays, BaseIs
  <2> QED
    BY <1>1, <2>1, <2>2, TableEdgesAre, MostCoverIs, ParseIsCover
<1>4. ASSUME NEW q \in 1..MaxSlots, NEW sel \in Selections(O, q)
      PROVE  /\ q \in Slots /\ sel \in SUBSET O /\ Installed(CustomTable(sel, q), q, sel)
             /\ OptimalParse(window, CustomTable(sel, q)) \in Nat
  <2>1. q \in 1..PairBankCapacity /\ q \in Slots
    BY <1>1 DEF Slots
  <2> QED
    BY <1>1, <2>1, SelectionsInstall
<1>5. ASSUME NEW x \in Patches
      PROVE  \E q \in Slots, sel \in SUBSET O : \E T :
               /\ (q = 0 /\ sel = {}) \/ sel \in Selections(O, q)
               /\ Installed(T, q, sel) /\ OptimalParse(window, T) \in Nat
               /\ x = VariablePatchBytes(q, OptimalParse(window, T))
  <2>1. CASE x = VariablePatchBytes(0, OptimalParse(window, DefaultTable))
    <3>1. {} \in SUBSET O
      OBVIOUS
    <3> HIDE DEF O
    <3> QED
      BY <1>1, <1>3, <2>1, <3>1
  <2>2. ASSUME NEW q \in 1..MaxSlots, NEW sel \in Selections(O, q),
               x = VariablePatchBytes(q, OptimalParse(window, CustomTable(sel, q)))
        PROVE  \E qq \in Slots, s \in SUBSET O : \E T :
                 /\ (qq = 0 /\ s = {}) \/ s \in Selections(O, qq)
                 /\ Installed(T, qq, s) /\ OptimalParse(window, T) \in Nat
                 /\ x = VariablePatchBytes(qq, OptimalParse(window, T))
    <3> HIDE DEF O
    <3> QED
      BY <1>4, <2>2
  <2>3. \/ x = VariablePatchBytes(0, OptimalParse(window, DefaultTable))
        \/ \E q \in 1..MaxSlots : \E sel \in Selections(O, q) :
             x = VariablePatchBytes(q, OptimalParse(window, CustomTable(sel, q)))
    BY DEF Patches
  <2> QED
    BY <2>1, <2>2, <2>3
<1>6. Patches \subseteq Nat
  <2> SUFFICES ASSUME NEW x \in Patches PROVE x \in Nat
    OBVIOUS
  <2>1. PICK q \in Slots : \E sel \in SUBSET O : \E T :
          OptimalParse(window, T) \in Nat /\ x = VariablePatchBytes(q, OptimalParse(window, T))
    BY <1>5
  <2>2. PICK T : OptimalParse(window, T) \in Nat /\ x = VariablePatchBytes(q, OptimalParse(window, T))
    BY <2>1
  <2>3. OptimalParse(window, T) <= OptimalParse(window, T)
    BY <2>2
  <2> QED
    BY <1>1, <2>1, <2>2, <2>3, PatchBytesGrow
<1> QED
  BY <1>2, <1>5, <1>6

(* A choice open to the solver is one of the family, and its cheapest      *)
(* cover the parse with its table.                                         *)
LEMMA ChoicesAre ==
  ASSUME Given, NEW q \in Slots, NEW sel \in SelectionsFor(q)
  PROVE  /\ Best(q, sel) = OptimalParse(window, Table(q, sel))
         /\ VariablePatchBytes(q, OptimalParse(window, Table(q, sel))) \in Patches
<1> DEFINE T == Table(q, sel)
<1>1. /\ IsProgram(window) /\ edges = Collected(window, Count) /\ MaxSlots \in Nat
      /\ q \in 0..PairBankCapacity /\ q <= MaxSlots /\ q \in Nat /\ PairBankCapacity \in Nat
  BY InputsAre DEF Given
<1>2. Candidates \subseteq ObservedPatterns(window)
  <2> SUFFICES ASSUME NEW e \in edges, e.pattern # NoPattern
               PROVE  e.pattern \in ObservedPatterns(window)
    BY DEF Candidates, Patterns
  <2>1. PICK span \in Spans(window) :
           \/ e = DefaultEdge(window, span) /\ InDefaultTable(window, span)
           \/ e = PatternEdge(window, span) /\ Covered(window, span) \in ObservedPatterns(window)
    BY <1>1, CollectedAre DEF Collected, Count
  <2> QED
    BY <1>1, <2>1, DefaultEdgeIs, PatternEdgeIs
<1>3. /\ Installed(T, q, sel) /\ sel \in SUBSET ObservedPatterns(window)
      /\ sel \in SUBSET Candidates
      /\ \/ q = 0 /\ T = DefaultTable
         \/ q # 0 /\ T = CustomTable(sel, q) /\ sel \in Selections(ObservedPatterns(window), q)
  <2>1. CASE q = 0
    <3>1. sel = {} /\ T = DefaultTable
      BY <2>1 DEF SelectionsFor, Table
    <3>2. Installed(T, q, sel)
      BY <2>1, <3>1, DefaultInstalled
    <3>3. sel \in SUBSET ObservedPatterns(window) /\ sel \in SUBSET Candidates
      BY <3>1
    <3> HIDE DEF T
    <3> QED
      BY <2>1, <3>1, <3>2, <3>3
  <2>2. CASE q # 0
    <3>1. sel \in Selections(Candidates, q) /\ T = CustomTable(sel, q)
      BY <2>2 DEF SelectionsFor, Table
    <3>2. sel \in Selections(ObservedPatterns(window), q) /\ sel \in SUBSET Candidates
      BY <1>2, <3>1 DEF Selections
    <3>3. q \in 1..PairBankCapacity
      BY <1>1, <2>2
    <3> HIDE DEF T
    <3> QED
      BY <1>1, <2>2, <3>1, <3>2, <3>3, SelectionsInstall
  <2> QED
    BY <2>1, <2>2
<1>4. VariablePatchBytes(q, OptimalParse(window, T)) \in Patches
  <2>1. q # 0 => q \in 1..MaxSlots
    BY <1>1
  <2> HIDE DEF T
  <2> QED
    BY <1>3, <2>1 DEF Patches
<1> DEFINE b == LeastCover(Len(window), Allowed(window, q, sel))
           o == OptimalParse(window, T)
<1>5. Best(q, sel) = b
  BY <1>1 DEF Best, Allowed, Count
<1> HIDE DEF T
<1>6. sel \in SUBSET Words
  BY <1>1, <1>3, SpansFinite
<1>7. o <= b
  BY <1>1, <1>3, <1>6, AllowedAttained
<1>8. b <= o
  <2>1. sel \cap Patterns(Collected(window, Len(window))) = sel
    BY <1>1, <1>3 DEF Candidates, Count
  <2> QED
    BY <1>1, <1>3, <2>1, AllowedBounds
<1>9. b \in Nat /\ o \in Nat
  <2>1. b \in Nat
    BY <1>1, AllowedAre, MostCoverIs
  <2>2. Generic(T, TableOpcodes) /\ TableOpcodes \in SUBSET Nat
    BY <1>1, <1>3, GenericStays, BaseIs
  <2>3. o \in Nat
    BY <1>1, <2>2, TableEdgesAre, MostCoverIs, ParseIsCover
  <2> QED
    BY <2>1, <2>3
<1> HIDE DEF b, o
<1>10. b = o
  BY <1>7, <1>8, <1>9
<1> QED
  BY <1>4, <1>5, <1>10 DEF o, T

(* No patch of the family is shorter than some choice of the solver's.     *)
LEMMA PatchesBounded ==
  ASSUME Given, NEW x \in Patches
  PROVE  \E q \in Slots : \E sel \in SelectionsFor(q) :
           VariablePatchBytes(q, Best(q, sel)) <= x
<1> DEFINE O == ObservedPatterns(window)
<1>1. /\ window \in Windows /\ headers \in HeaderLengths /\ deltaConstant \in DeltaConstants
      /\ edges = Collected(window, Count)
  BY DEF Given
<1>2. /\ IsProgram(window) /\ deltaConstant \in Nat /\ headers \in [Slots -> Nat]
      /\ MaxSlots \in Nat /\ 0 \in Slots /\ PairBankCapacity \in Nat
      /\ \A q \in Slots : /\ q \in Nat /\ q \in 0..PairBankCapacity /\ q <= MaxSlots
                          /\ headers[q] \in Nat /\ headers[0] <= headers[q]
  BY <1>1, InputsAre
<1>3. PICK q \in Slots, sel \in SUBSET O :
        \E T : /\ (q = 0 /\ sel = {}) \/ sel \in Selections(O, q)
               /\ Installed(T, q, sel) /\ OptimalParse(window, T) \in Nat
               /\ x = VariablePatchBytes(q, OptimalParse(window, T))
  BY <1>1, PatchesAre
<1>4. PICK T :
        /\ (q = 0 /\ sel = {}) \/ sel \in Selections(O, q)
        /\ Installed(T, q, sel) /\ OptimalParse(window, T) \in Nat
        /\ x = VariablePatchBytes(q, OptimalParse(window, T))
  BY <1>3
<1> DEFINE kept == sel \cap Candidates
           o == OptimalParse(window, T)
<1>5. \A p \in Slots : \A s : Best(p, s) \in Nat /\ Best(p, s) = LeastCover(Len(window), Allowed(window, p, s))
  <2> SUFFICES ASSUME NEW p \in Slots, NEW s
               PROVE  Best(p, s) \in Nat /\ Best(p, s) = LeastCover(Len(window), Allowed(window, p, s))
    OBVIOUS
  <2>1. Best(p, s) = LeastCover(Len(window), Allowed(window, p, s))
    BY <1>1 DEF Best, Allowed, Count
  <2>2. LeastCover(Len(window), Allowed(window, p, s)) \in Nat
    BY <1>2, AllowedAre, MostCoverIs
  <2> QED
    BY <2>1, <2>2
<1>6. Best(q, kept) <= o
  <2>1. kept = sel \cap Patterns(Collected(window, Len(window)))
    BY <1>1 DEF Candidates, Count
  <2>2. LeastCover(Len(window), Allowed(window, q, kept)) <= o
    BY <1>2, <1>3, <1>4, <2>1, AllowedBounds
  <2> QED
    BY <1>5, <2>2
<1>7. VariablePatchBytes(q, Best(q, kept)) <= x
  BY <1>2, <1>3, <1>4, <1>5, <1>6, PatchBytesGrow
<1>8. CASE q = 0
  <2>1. sel = {}
    <3>1. Cardinality(sel) \notin 1..0
      OBVIOUS
    <3> QED
      BY <1>3, <1>4, <1>8, <3>1 DEF Selections
  <2>2. kept \in SelectionsFor(q)
    BY <1>8, <2>1 DEF SelectionsFor
  <2> QED
    BY <1>7, <2>2
<1>9. CASE q # 0 /\ kept # {}
  <2>1. sel \in Selections(O, q)
    BY <1>3, <1>4, <1>9
  <2>2. IsFiniteSet(sel) /\ Cardinality(sel) \in 1..q
    <3>1. IsFiniteSet(O)
      BY <1>2, SpansFinite
    <3> QED
      BY <2>1, <3>1, FS_Subset DEF Selections
  <2>3. kept \in SUBSET sel
    OBVIOUS
  <2> HIDE DEF kept
  <2>4. /\ IsFiniteSet(kept) /\ Cardinality(kept) <= Cardinality(sel)
        /\ Cardinality(kept) \in Nat /\ Cardinality(kept) # 0
    BY <1>9, <2>2, <2>3, FS_Subset, FS_CardinalityType, FS_EmptySet
  <2>5. Cardinality(kept) \in 1..q
    BY <1>2, <2>2, <2>4
  <2>6. kept \in SelectionsFor(q)
    BY <1>9, <2>5 DEF SelectionsFor, Selections, kept
  <2> QED
    BY <1>7, <2>6
<1>10. CASE q # 0 /\ kept = {}
  <2>1. Best(0, {}) <= Best(q, {})
    <3> DEFINE E == Allowed(window, q, {})
               F == Allowed(window, 0, {})
    <3>1. Passable(Len(window), E) /\ Passable(Len(window), F)
      BY <1>2, AllowedAre
    <3>2. ASSUME NEW e \in E PROVE e \in F /\ e.cost \in Nat
      <4>1. e \in Collected(window, Len(window)) /\ e.pattern = NoPattern /\ q < e.lostAt
        BY DEF Allowed, AllowedEdges
      <4>2. PICK span \in Spans(window) :
               \/ e = DefaultEdge(window, span) /\ InDefaultTable(window, span)
               \/ e = PatternEdge(window, span)
        BY <1>2, <4>1, CollectedAre DEF Collected
      <4>3. e = DefaultEdge(window, span) /\ InDefaultTable(window, span)
        BY <1>2, <4>1, <4>2, PatternEdgeIs
      <4>4. PICK op \in TableOpcodes : EntryMatches(DefaultTable[op], Covered(window, span))
        BY <1>2, <4>3, DefaultEdgeIs
      <4>5. 0 \in 0..PairBankCapacity /\ op \in BaseOpcodes(0)
        <5>1. PairBankStart \in Nat /\ op \in Nat
          BY DefaultTableIs
        <5> QED
          BY <1>2, <4>4, <5>1, BaseIs
      <4>6. 0 < e.lostAt
        BY <1>2, <4>3, <4>4, <4>5, DefaultEdgeIs
      <4>7. e \in F
        BY <4>1, <4>6 DEF Allowed, AllowedEdges
      <4>8. e.cost \in Nat
        BY <3>1 DEF Passable
      <4> QED
        BY <4>7, <4>8
    <3> HIDE DEF E, F
    <3>3. \A e \in E : \E d \in F :
            d.start = e.start /\ d.width = e.width /\ d.cost <= e.cost
      BY <3>2
    <3>4. LeastCover(Len(window), F) <= LeastCover(Len(window), E)
      BY <3>1, <3>3, CoverCompare
    <3> QED
      BY <1>2, <1>5, <3>4 DEF E, F
  <2>2. /\ Best(0, {}) \in Nat /\ Best(q, {}) \in Nat
        /\ VariablePatchBytes(0, Best(0, {})) \in Nat
        /\ VariablePatchBytes(0, Best(0, {})) <= VariablePatchBytes(0, Best(q, {}))
        /\ VariablePatchBytes(0, Best(q, {})) \in Nat
        /\ VariablePatchBytes(q, Best(q, {})) \in Nat
    <3>1. Best(0, {}) \in Nat /\ Best(q, {}) \in Nat /\ Best(q, {}) <= Best(q, {})
      BY <1>2, <1>5
    <3> QED
      BY <1>2, <2>1, <3>1, PatchBytesGrow
  <2>3. VariablePatchBytes(0, Best(q, {})) <= VariablePatchBytes(q, Best(q, {}))
    <3> DEFINE b == Best(q, {})
    <3>1. b \in Nat
      BY <2>2
    <3> HIDE DEF b
    <3>2. VarintSize(b) \in Nat
      <4>1. b <= b
        BY <3>1
      <4> QED
        BY <3>1, <4>1, VarintSizeMonotone
    <3>3. DeltaLength(b) \in Nat /\ DeltaLength(b) <= DeltaLength(b)
      BY <1>2, <3>1, <3>2 DEF DeltaLength
    <3>4. VarintSize(DeltaLength(b)) \in Nat
      BY <3>3, VarintSizeMonotone
    <3>5. headers[0] \in Nat /\ headers[q] \in Nat /\ headers[0] <= headers[q]
      BY <1>2
    <3>6. \A g, h, m, n \in Nat : g <= h => g + b + m + n <= h + b + m + n
      BY <3>1
    <3> QED
      BY <3>2, <3>4, <3>5, <3>6, Zenon DEF VariablePatchBytes, b
  <2>4. x \in Nat /\ VariablePatchBytes(q, Best(q, {})) <= x
    BY <1>1, <1>7, <1>10, PatchesAre
  <2>5. VariablePatchBytes(0, Best(0, {})) <= x
    <3> DEFINE l == VariablePatchBytes(0, Best(0, {}))
               m == VariablePatchBytes(0, Best(q, {}))
               n == VariablePatchBytes(q, Best(q, {}))
    <3>1. l \in Nat /\ m \in Nat /\ n \in Nat /\ x \in Nat /\ l <= m /\ m <= n /\ n <= x
      BY <2>2, <2>3, <2>4
    <3> HIDE DEF l, m, n
    <3>2. l <= x
      BY <3>1
    <3> QED
      BY <3>2 DEF l
  <2>6. {} \in SelectionsFor(0)
    BY DEF SelectionsFor
  <2> QED
    BY <1>2, <2>5, <2>6
<1> QED
  BY <1>8, <1>9, <1>10

(* The least answer is the least patch of the family, and an optimal       *)
(* answer is attained.                                                     *)
SoundAnswer(x) ==
  /\ x.slots \in Slots /\ x.selected \in SelectionsFor(x.slots)
  /\ x.bytes = OptimalParse(window, Table(x.slots, x.selected))
  /\ x.primal = x.dual
  /\ x.primal = VariablePatchBytes(x.slots, x.bytes)
  /\ x.primal = headers[x.slots] + x.bytes + x.instruction + x.delta

(* The optimum of the solver is the least patch of the family, and an answer*)
(* that reaches it is sound.                                               *)
LEMMA OptimumIs ==
  ASSUME Given
  PROVE  /\ Optimum = LeastPatch /\ Optimum \in Nat
         /\ \A x \in Feasible : x.primal = Optimum => SoundAnswer(x)
<1> DEFINE R == PatchRegimes
           P == {answer.primal : answer \in Feasible}
<1>1. /\ window \in Windows /\ headers \in HeaderLengths /\ deltaConstant \in DeltaConstants
      /\ headers \in [Slots -> Nat] /\ deltaConstant \in Nat
      /\ LeastPatch = Min(Patches) /\ Patches \subseteq Nat /\ Patches # {}
  BY InputsAre, PatchesAre DEF Given
<1>2. \A x : x \in Feasible <=>
        \E q \in Slots : \E sel \in SelectionsFor(q) : x \in Answers(q, sel, R)
  <2>1. Feasible = UNION {UNION {Answers(q, selected, R) : selected \in SelectionsFor(q)} : q \in Slots}
    BY Zenon DEF Feasible
  <2> HIDE DEF R
  <2> QED
    BY <2>1
<1>3. ASSUME NEW q \in Slots, NEW sel \in SelectionsFor(q)
      PROVE  \E x \in Feasible : x.primal = VariablePatchBytes(q, Best(q, sel))
  <2>1. PICK x \in Answers(q, sel, R) : x.primal = VariablePatchBytes(q, Best(q, sel))
    BY AnswersAre
  <2> HIDE DEF R
  <2> QED
    BY <1>2, <2>1
<1>4. ASSUME NEW x \in Feasible
      PROVE  /\ x.slots \in Slots /\ x.selected \in SelectionsFor(x.slots)
             /\ x.primal = x.dual /\ x.bytes \in Nat
             /\ Best(x.slots, x.selected) \in Nat
             /\ Best(x.slots, x.selected) <= x.bytes
             /\ x.primal = VariablePatchBytes(x.slots, x.bytes) /\ x.primal \in Nat
             /\ x.primal = headers[x.slots] + x.bytes + x.instruction + x.delta
  <2>0. PICK q \in Slots : \E sel \in SelectionsFor(q) : x \in Answers(q, sel, R)
    BY <1>2
  <2>1. PICK sel \in SelectionsFor(q) : x \in Answers(q, sel, R)
    BY <2>0
  <2>2. /\ x.slots = q /\ x.selected = sel /\ x.primal = x.dual
        /\ x.bytes \in Nat /\ Best(q, sel) <= x.bytes /\ Best(q, sel) \in Nat
        /\ x.primal = VariablePatchBytes(q, x.bytes)
        /\ x.primal = headers[q] + x.bytes + x.instruction + x.delta
    BY <2>1, AnswersAre
  <2>3. x.primal \in Nat
    <3>1. x.bytes \in Nat /\ x.bytes <= x.bytes
      BY <2>2
    <3> QED
      BY <1>1, <2>2, <3>1, PatchBytesGrow
  <2> QED
    BY <2>1, <2>2, <2>3
<1>5. Optimum = Min(P)
  BY DEF Optimum
<1>6. P \subseteq Nat
  BY <1>4
<1>7. \A p \in Patches : \E a \in P : a <= p
  BY <1>3, PatchesBounded
<1>8. \A a \in P : \E p \in Patches : p <= a
  <2> SUFFICES ASSUME NEW x \in Feasible PROVE \E p \in Patches : p <= x.primal
    OBVIOUS
  <2> DEFINE q == x.slots
             sel == x.selected
  <2>1. VariablePatchBytes(q, Best(q, sel)) \in Patches
    BY <1>4, ChoicesAre
  <2>2. VariablePatchBytes(q, Best(q, sel)) <= VariablePatchBytes(q, x.bytes)
    BY <1>1, <1>4, PatchBytesGrow
  <2> QED
    BY <1>4, <2>1, <2>2
<1>9. P # {}
  BY <1>1, <1>7
<1> HIDE DEF P
<1>10. /\ Min(P) <= Min(Patches) /\ Min(Patches) <= Min(P)
       /\ Min(P) \in Nat /\ Min(Patches) \in Nat
  BY <1>1, <1>6, <1>7, <1>8, <1>9, MinDominates
<1>11. Min(P) = Min(Patches)
  BY <1>10
<1>12. Optimum = LeastPatch /\ Optimum \in Nat
  BY <1>1, <1>5, <1>10, <1>11
<1>13. ASSUME NEW x \in Feasible, x.primal = Optimum PROVE SoundAnswer(x)
  <2> DEFINE q == x.slots
             sel == x.selected
             b == Best(q, sel)
  <2>1. PICK y \in Feasible : y.primal = VariablePatchBytes(q, b)
    BY <1>3, <1>4
  <2>2. Min(P) <= y.primal
    <3>1. y.primal \in P
      BY DEF P
    <3> QED
      BY <1>6, <1>9, <3>1, MinNumber
  <2>3. b = x.bytes
    <3> SUFFICES ASSUME b # x.bytes PROVE FALSE
      OBVIOUS
    <3> DEFINE m == VariablePatchBytes(q, b)
               n == VariablePatchBytes(q, x.bytes)
    <3>1. b \in Nat /\ x.bytes \in Nat /\ b < x.bytes /\ b <= x.bytes /\ q \in Slots
      BY <1>4
    <3>2. m < n /\ m \in Nat
      BY <1>1, <3>1, PatchBytesGrow
    <3>3. n = Min(P) /\ n \in Nat /\ n <= m
      BY <1>4, <1>5, <1>13, <2>1, <2>2
    <3> HIDE DEF m, n
    <3> QED
      BY <3>2, <3>3
  <2>4. b = OptimalParse(window, Table(q, sel))
    BY <1>4, ChoicesAre
  <2> QED
    BY <1>4, <2>3, <2>4 DEF SoundAnswer
<1> QED
  BY <1>12, <1>13

-----------------------------------------------------------------------------
(* The search.                                                             *)

(* What the checks of solve_global_selection settle, and those of          *)
(* run_study after them.                                                   *)
Checked == GapIsZero /\ Decomposes /\ FitsSlots

Attained ==
  /\ AttainedBytes = solution.bytes
  /\ VariablePatchBytes(solution.slots, AttainedBytes) = solution.primal

(* The inductive invariant: the edges of the instructions so far, then an  *)
(* answer, of which nothing is known but that its selection is of          *)
(* candidates, what has been checked of it and, of a bound of the program, *)
(* that it is one of the family.                                           *)
IInv ==
  /\ window \in Windows /\ headers \in HeaderLengths /\ deltaConstant \in DeltaConstants
  /\ phase \in {"build", "check", "emit", "certified", "refused", "unattained", "mismatch"}
  /\ exact \in BOOLEAN /\ bounded \in BOOLEAN
  /\ next \in 1..(Count + 1) /\ edges = Collected(window, next - 1)
  /\ phase = "build" => solution = NoSolution /\ exact = FALSE /\ bounded = FALSE
  /\ phase # "build" =>
       /\ next = Count + 1
       /\ solution.slots \in Slots /\ solution.selected \subseteq Candidates
       /\ bounded => solution.dual <= LeastPatch
  /\ phase = "check" => Candidates # {}
  /\ phase \in {"emit", "certified"} => Checked
  /\ phase = "certified" => Attained
  /\ exact => phase \in {"check", "emit", "certified"} /\ Checked /\ Attained

(* What is known of the edges once they are all there.                     *)
LEMMA BuiltIs ==
  ASSUME IInv, next = Count + 1
  PROVE  Given
<1>1. Count \in Nat /\ Count + 1 - 1 = Count
  <2>1. Count \in Nat
    BY InputsAre DEF IInv
  <2> QED
    BY <2>1
<1> QED
  BY <1>1 DEF IInv, Given

(* The loop over the instructions stops right behind the last of them.     *)
LEMMA BuildEnds ==
  ASSUME IInv, next > Count
  PROVE  next = Count + 1
<1>1. Count \in Nat /\ next \in 1..(Count + 1)
  BY InputsAre DEF IInv
<1> QED
  BY <1>1

(* Without candidates there is no choice but the default table.            *)
LEMMA NoCandidates ==
  ASSUME Given, Candidates = {}
  PROVE  VariablePatchBytes(0, OptimalParse(window, DefaultTable)) <= LeastPatch
<1>1. LeastPatch \in Patches
  <2>1. LeastPatch = Min(Patches) /\ Patches \subseteq Nat /\ Patches # {}
    BY PatchesAre DEF Given
  <2> QED
    BY <2>1, MinNumber
<1>0. PICK q \in Slots : \E sel \in SelectionsFor(q) :
        VariablePatchBytes(q, Best(q, sel)) <= LeastPatch
  BY <1>1, PatchesBounded
<1>2. PICK sel \in SelectionsFor(q) : VariablePatchBytes(q, Best(q, sel)) <= LeastPatch
  BY <1>0
<1>3. q = 0 /\ sel = {}
  <2>1. ASSUME q # 0 PROVE FALSE
    <3>1. sel \subseteq {} /\ Cardinality(sel) \in 1..q
      BY <1>2, <2>1 DEF SelectionsFor, Selections
    <3>2. sel = {} /\ Cardinality({}) = 0
      BY <3>1, FS_EmptySet
    <3>3. q \in Nat
      BY InputsAre DEF Given
    <3> QED
      BY <3>1, <3>2, <3>3
  <2>2. q = 0
    BY <2>1
  <2> QED
    BY <1>2, <2>2 DEF SelectionsFor
<1>4. Best(q, sel) = OptimalParse(window, Table(q, sel))
  BY <1>2, ChoicesAre
<1>5. Table(0, {}) = DefaultTable
  BY DEF Table
<1> QED
  BY <1>2, <1>3, <1>4, <1>5

(* An optimal answer, once it is there, passes every check.                *)
LEMMA OptimalPasses ==
  ASSUME UNCHANGED <<input, edges>>, SoundAnswer(solution')
  PROVE  /\ Checked' /\ Attained'
         /\ solution'.slots \in Slots
         /\ solution'.selected \subseteq Candidates
<1> DEFINE x == solution'
<1>1. /\ x.slots \in Slots /\ x.selected \in SelectionsFor(x.slots)
      /\ x.bytes = OptimalParse(window, Table(x.slots, x.selected))
      /\ x.primal = x.dual
      /\ x.primal = VariablePatchBytes(x.slots, x.bytes)
      /\ x.primal = headers[x.slots] + x.bytes + x.instruction + x.delta
  BY DEF SoundAnswer
<1>2. x.selected \subseteq Candidates
      /\ IF x.slots = 0 THEN x.selected = {} ELSE Cardinality(x.selected) \in 1..x.slots
  BY <1>1 DEF SelectionsFor, Selections
<1>3. window' = window /\ headers' = headers /\ deltaConstant' = deltaConstant
  BY DEF input
<1>4. AttainedBytes' = OptimalParse(window, Table(x.slots, x.selected))
  BY <1>3 DEF AttainedBytes, Table
<1>5. GapIsZero' /\ FitsSlots'
  BY <1>1, <1>2 DEF GapIsZero, FitsSlots
<1>6. Decomposes'
  BY <1>1, <1>3 DEF Decomposes
<1>7. Attained'
  <2>1. AttainedBytes' = x.bytes
    BY <1>1, <1>4
  <2>2. VariablePatchBytes(solution.slots, AttainedBytes)' =
          VariablePatchBytes(solution'.slots, solution'.bytes)
    BY <1>3, <2>1 DEF VariablePatchBytes, DeltaLength
  <2> QED
    BY <1>1, <2>1, <2>2 DEF Attained
<1> QED
  BY <1>1, <1>2, <1>5, <1>6, <1>7 DEF Checked

(* The invariant holds before the first edge.                              *)
LEMMA InitHolds == Init => IInv
<1> SUFFICES ASSUME Init PROVE IInv
  OBVIOUS
<1>1. window \in Windows /\ headers \in HeaderLengths /\ deltaConstant \in DeltaConstants
  BY DEF Init
<1>2. Count \in Nat
  BY <1>1, InputsAre
<1>3. next \in 1..(Count + 1)
  BY <1>2 DEF Init
<1>4. edges = Collected(window, next - 1)
  <2>1. edges = {} /\ 1..(next - 1) = {}
    BY DEF Init
  <2> QED
    BY <2>1 DEF Collected
<1> QED
  BY <1>1, <1>3, <1>4 DEF Init, IInv

(* The parts of the state that a step of the search leaves alone.          *)
LEMMA InputStays ==
  ASSUME UNCHANGED input
  PROVE  /\ window' = window /\ headers' = headers /\ deltaConstant' = deltaConstant
         /\ Count' = Count /\ LeastPatch' = LeastPatch
BY DEF input, Count, LeastPatch, VariablePatchBytes, DeltaLength

(* An answer that the search has, with the input that it had.              *)
LEMMA AnswerStays ==
  ASSUME UNCHANGED <<input, edges, solution>>
  PROVE  /\ Candidates' = Candidates
         /\ Checked' <=> Checked
         /\ Attained' <=> Attained
         /\ GapIsZero' <=> GapIsZero
         /\ Decomposes' <=> Decomposes
         /\ FitsSlots' <=> FitsSlots
BY DEF input, Candidates, Checked, Attained, GapIsZero, Decomposes, FitsSlots,
       AttainedBytes, VariablePatchBytes, DeltaLength

(* One more instruction's edges.                                           *)
LEMMA AddEdgesKeeps ==
  ASSUME IInv, AddEdges
  PROVE  IInv'
<1>1. /\ phase = "build" /\ next <= Count /\ next' = next + 1 /\ phase' = phase
      /\ edges' = edges \cup EdgesAt(window, next, MaxSlots)
      /\ UNCHANGED input /\ solution' = solution
      /\ exact' = exact /\ bounded' = bounded
  BY DEF AddEdges, history
<1>2. /\ window' = window /\ headers' = headers /\ deltaConstant' = deltaConstant
      /\ Count' = Count
  BY <1>1, InputStays
<1>3. Count \in Nat /\ next \in 1..(Count + 1) /\ edges = Collected(window, next - 1)
  BY InputsAre DEF IInv
<1>4. next' \in 1..(Count' + 1)
  BY <1>1, <1>2, <1>3
<1>5. edges' = Collected(window', next' - 1)
  <2>1. next' - 1 = next
    BY <1>1, <1>3
  <2>2. \A i : i \in 1..next <=> i \in 1..(next - 1) \/ i = next
    BY <1>3
  <2>3. Collected(window, next) = Collected(window, next - 1) \cup EdgesAt(window, next, MaxSlots)
    BY <2>2 DEF Collected
  <2> QED
    BY <1>1, <1>2, <1>3, <2>1, <2>3
<1> QED
  BY <1>1, <1>2, <1>4, <1>5 DEF IInv

(* The presolve's answer is an optimal one.                                *)
LEMMA SkipSolverKeeps ==
  ASSUME IInv, SkipSolver
  PROVE  IInv'
<1> DEFINE bytes == OptimalParse(window, DefaultTable)
           total == VariablePatchBytes(0, bytes)
<1>1. /\ phase = "build" /\ next > Count /\ Candidates = {} /\ phase' = "emit"
      /\ solution' = Solution(0, {}, bytes, VarintSize(bytes), VarintSize(DeltaLength(bytes)),
                              total, total)
      /\ UNCHANGED input /\ next' = next /\ edges' = edges
      /\ exact' = TRUE /\ bounded' = TRUE
  BY DEF SkipSolver
<1>2. /\ window' = window /\ headers' = headers /\ deltaConstant' = deltaConstant
      /\ Count' = Count /\ LeastPatch' = LeastPatch /\ Candidates' = Candidates
  BY <1>1, InputStays DEF Candidates
<1>3. next = Count + 1 /\ Given
  BY <1>1, BuildEnds, BuiltIs
<1>4. total <= LeastPatch
  BY <1>1, <1>3, NoCandidates
<1>5. SoundAnswer(solution')
  <2>1. /\ solution'.slots = 0 /\ solution'.selected = {} /\ solution'.bytes = bytes
        /\ solution'.instruction = VarintSize(bytes)
        /\ solution'.delta = VarintSize(DeltaLength(bytes))
        /\ solution'.primal = total /\ solution'.dual = total
    BY <1>1, Zenon DEF Solution
  <2>2. 0 \in Slots /\ {} \in SelectionsFor(0) /\ Table(0, {}) = DefaultTable
    BY <1>3, InputsAre DEF Given, SelectionsFor, Table
  <2>3. total = headers[0] + bytes + VarintSize(bytes) + VarintSize(DeltaLength(bytes))
    BY Zenon DEF VariablePatchBytes
  <2> HIDE DEF bytes, total
  <2> QED
    BY <2>1, <2>2, <2>3 DEF SoundAnswer, bytes, total
<1>6. solution'.dual = total
  BY <1>1 DEF Solution
<1> HIDE DEF bytes, total
<1>7. /\ Checked' /\ Attained'
      /\ solution'.slots \in Slots /\ solution'.selected \subseteq Candidates
  BY <1>1, <1>5, OptimalPasses
<1> QED
  BY <1>1, <1>2, <1>3, <1>4, <1>6, <1>7 DEF IInv

(* So is the solver's, when it is exact.                                   *)
LEMMA SolveKeeps ==
  ASSUME IInv, Solve
  PROVE  IInv'
<1>1. /\ phase = "build" /\ next > Count /\ Candidates # {} /\ phase' = "check"
      /\ solution' \in Feasible /\ solution'.primal = Optimum
      /\ UNCHANGED input /\ next' = next /\ edges' = edges
      /\ exact' = TRUE /\ bounded' = TRUE
  BY DEF Solve, Optimum
<1>2. /\ window' = window /\ headers' = headers /\ deltaConstant' = deltaConstant
      /\ Count' = Count /\ LeastPatch' = LeastPatch /\ Candidates' = Candidates
  BY <1>1, InputStays DEF Candidates
<1>3. next = Count + 1 /\ Given
  BY <1>1, BuildEnds, BuiltIs
<1>4. SoundAnswer(solution') /\ Optimum = LeastPatch /\ Optimum \in Nat
  BY <1>1, <1>3, OptimumIs
<1>5. solution'.dual <= LeastPatch
  <2>1. solution'.dual = LeastPatch /\ LeastPatch \in Nat
    BY <1>1, <1>4 DEF SoundAnswer
  <2> QED
    BY <2>1
<1>6. /\ Checked' /\ Attained'
      /\ solution'.slots \in Slots /\ solution'.selected \subseteq Candidates
  BY <1>1, <1>4, OptimalPasses
<1> QED
  BY <1>1, <1>2, <1>3, <1>5, <1>6 DEF IInv

(* Of any other answer nothing is known but whether its bound is one of    *)
(* the program, whose optimum is that of the family.                       *)
LEMMA SolveInexactlyKeeps ==
  ASSUME IInv, SolveInexactly
  PROVE  IInv'
<1>1. /\ phase = "build" /\ next > Count /\ Candidates # {} /\ phase' = "check"
      /\ UNCHANGED input /\ next' = next /\ edges' = edges /\ exact' = FALSE
  BY DEF SolveInexactly
<1>2. PICK optimum \in {Optimum} :
        \E q \in Slots,
           selected \in {s \in SUBSET Candidates : Cardinality(s) <= MaxSlots},
           r \in PatchRegimes,
           primal, dual, sum \in (optimum - Slack)..(optimum + Slack) :
          /\ solution' = Solution(q, selected, sum - headers[q] - r.instruction - r.delta,
                                  r.instruction, r.delta, primal, dual)
          /\ bounded' = (dual <= optimum)
  BY DEF SolveInexactly
<1>3. PICK q \in Slots, selected \in {s \in SUBSET Candidates : Cardinality(s) <= MaxSlots},
           r \in PatchRegimes,
           primal, dual, sum \in (optimum - Slack)..(optimum + Slack) :
        /\ solution' = Solution(q, selected, sum - headers[q] - r.instruction - r.delta,
                                r.instruction, r.delta, primal, dual)
        /\ bounded' = (dual <= optimum)
  BY <1>2
<1>4. /\ window' = window /\ headers' = headers /\ deltaConstant' = deltaConstant
      /\ Count' = Count /\ LeastPatch' = LeastPatch /\ Candidates' = Candidates
  BY <1>1, InputStays DEF Candidates
<1>5. next = Count + 1 /\ Given
  BY <1>1, BuildEnds, BuiltIs
<1>6. optimum = LeastPatch
  BY <1>2, <1>5, OptimumIs
<1>7. solution'.slots = q /\ solution'.selected = selected /\ solution'.dual = dual
  BY <1>3 DEF Solution
<1>8. bounded' \in BOOLEAN /\ (bounded' => solution'.dual <= LeastPatch)
  <2>1. CASE dual <= optimum
    <3>1. bounded' = TRUE
      BY <1>3, <2>1, Zenon
    <3> QED
      BY <1>6, <1>7, <2>1, <3>1
  <2>2. CASE ~(dual <= optimum)
    <3>1. (dual <= optimum) = FALSE
      BY <2>2, SMT
    <3>2. bounded' = FALSE
      BY <1>3, <3>1, Zenon
    <3> QED
      BY <3>2
  <2> QED
    BY <2>1, <2>2
<1> QED
  BY <1>1, <1>4, <1>5, <1>7, <1>8 DEF IInv

(* The checks look, and leave the answer as it is.                         *)
LEMMA ChecksKeep ==
  ASSUME IInv, Refuse \/ CompareBytes \/ CompareLength
  PROVE  IInv'
<1>1. /\ UNCHANGED input /\ next' = next /\ edges' = edges /\ solution' = solution
      /\ exact' = exact /\ bounded' = bounded /\ phase \in {"check", "emit"}
      /\ UNCHANGED <<input, edges, solution>>
  BY DEF Refuse, CompareBytes, CompareLength, history
<1>2. /\ window' = window /\ headers' = headers /\ deltaConstant' = deltaConstant
      /\ Count' = Count /\ LeastPatch' = LeastPatch /\ Candidates' = Candidates
      /\ (Checked' <=> Checked) /\ (Attained' <=> Attained)
  BY <1>1, InputStays, AnswerStays
<1>3. /\ phase' \in {"emit", "certified", "refused", "unattained", "mismatch"}
      /\ phase' \in {"emit", "certified"} => Checked
      /\ phase' = "certified" => Attained
      /\ Checked /\ Attained => phase' \in {"emit", "certified"}
  <2>1. CASE Refuse
    BY <2>1 DEF Refuse, Checked
  <2>2. CASE CompareBytes
    BY <2>2 DEF CompareBytes, Checked, Attained
  <2>3. CASE CompareLength
    <3>1. Checked
      BY <2>3 DEF CompareLength, IInv
    <3> QED
      BY <2>3, <3>1 DEF CompareLength, Attained
  <2> QED
    BY <2>1, <2>2, <2>3
<1> QED
  BY <1>1, <1>2, <1>3 DEF IInv

(* It is kept when nothing changes.                                        *)
LEMMA StutterKeeps ==
  ASSUME IInv, UNCHANGED vars
  PROVE  IInv'
<1>1. /\ UNCHANGED input /\ next' = next /\ edges' = edges /\ solution' = solution
      /\ exact' = exact /\ bounded' = bounded /\ phase' = phase
      /\ UNCHANGED <<input, edges, solution>>
  BY DEF vars, history
<1>2. /\ window' = window /\ headers' = headers /\ deltaConstant' = deltaConstant
      /\ Count' = Count /\ LeastPatch' = LeastPatch /\ Candidates' = Candidates
      /\ (Checked' <=> Checked) /\ (Attained' <=> Attained)
  BY <1>1, InputStays, AnswerStays
<1> QED
  BY <1>1, <1>2 DEF IInv

(* The invariant holds of every state the search reaches.                  *)
THEOREM Invariant == Spec => []IInv
<1>1. Init => IInv
  BY InitHolds
<1>2. IInv /\ [Next]_vars => IInv'
  <2> SUFFICES ASSUME IInv, [Next]_vars PROVE IInv'
    OBVIOUS
  <2>1. CASE AddEdges
    BY <2>1, AddEdgesKeeps
  <2>2. CASE SkipSolver
    BY <2>2, SkipSolverKeeps
  <2>3. CASE Solve
    BY <2>3, SolveKeeps
  <2>4. CASE SolveInexactly
    BY <2>4, SolveInexactlyKeeps
  <2>5. CASE Refuse \/ CompareBytes \/ CompareLength
    BY <2>5, ChecksKeep
  <2>6. CASE UNCHANGED vars
    BY <2>6, StutterKeeps
  <2> QED
    BY <2>1, <2>2, <2>3, <2>4, <2>5, <2>6 DEF Next
<1> QED
  BY <1>1, <1>2, PTL DEF Spec
-----------------------------------------------------------------------------
(* The state is well formed: every candidate is an entry that a table may  *)
(* hold, and the answer selects among the candidates.                      *)
THEOREM TypeCorrect == Spec => []TypeOK
<1>1. ASSUME IInv, NEW p \in Candidates PROVE FromPattern(p) \in CodeEntry
  <2>1. IsProgram(window) /\ next \in 1..(Count + 1) /\ edges = Collected(window, next - 1)
        /\ Count \in Nat
    BY <1>1, InputsAre DEF IInv
  <2>2. PICK e \in edges : e.pattern = p /\ p # NoPattern
    BY DEF Candidates, Patterns
  <2>3. 1..(next - 1) \subseteq 1..Len(window)
    BY <2>1 DEF Count
  <2>4. PICK span \in Spans(window) :
           \/ e = DefaultEdge(window, span) /\ InDefaultTable(window, span)
           \/ e = PatternEdge(window, span) /\ Covered(window, span) \in ObservedPatterns(window)
    BY <2>1, <2>2, <2>3, CollectedAre DEF Collected
  <2>5. p = Covered(window, span) /\ Covered(window, span) \in ObservedPatterns(window)
    BY <2>1, <2>2, <2>4, DefaultEdgeIs, PatternEdgeIs
  <2>6. /\ p \in Words /\ \A i \in 1..Len(p) : p[i].mode < Modes
        /\ \A i \in 1..Len(p) : p[i].size \in Byte
    BY <2>1, <2>5, CoveredIs DEF ObservedPatterns
  <2>7. Len(p) \in {1, 2} /\ p[1] \in Atom /\ (Len(p) = 2 => p[2] \in Atom)
    BY <2>6, WordsEqual DEF Words
  <2>8. ASSUME NEW i \in 1..Len(p), p[i] \in Atom
        PROVE  /\ p[i].type \in {ADD, RUN, COPY} /\ p[i].size \in Byte /\ p[i].mode \in Byte
               /\ p[i].size # 0 /\ ModeIsLegal(p[i].type, p[i].mode)
    <3>1. p[i].mode \in Nat /\ p[i].mode < Modes /\ p[i].size \in Byte
      BY <2>6, <2>8 DEF Atom
    <3>2. p[i].mode \in Byte
      BY <3>1, Extents
    <3> QED
      BY <2>8, <3>1, <3>2 DEF Atom
  <2>9. 0 \in Byte /\ NOOP = 0 /\ ADD = 1 /\ RUN = 2 /\ COPY = 3
    BY Extents DEF NOOP, ADD, RUN, COPY
  <2>10. CASE Len(p) = 1
    <3>1. 1 \in 1..Len(p)
      BY <2>10
    <3>2. /\ p[1].type \in {ADD, RUN, COPY} /\ p[1].size \in Byte /\ p[1].mode \in Byte
          /\ ModeIsLegal(p[1].type, p[1].mode)
      BY <2>7, <2>8, <3>1
    <3> QED
      BY <2>9, <2>10, <3>2 DEF FromPattern, Single, CodeEntry, ModeIsLegal
  <2>11. CASE Len(p) = 2
    <3>1. 1 \in 1..Len(p) /\ 2 \in 1..Len(p)
      BY <2>11
    <3>2. /\ p[1].type \in {ADD, RUN, COPY} /\ p[1].size \in Byte /\ p[1].mode \in Byte
          /\ ModeIsLegal(p[1].type, p[1].mode)
      BY <2>7, <2>8, <3>1
    <3>3. /\ p[2].type \in {ADD, RUN, COPY} /\ p[2].size \in Byte /\ p[2].mode \in Byte
          /\ ModeIsLegal(p[2].type, p[2].mode)
      BY <2>7, <2>8, <2>11, <3>1
    <3> QED
      BY <2>9, <2>11, <3>2, <3>3 DEF FromPattern, Pair, CodeEntry, ModeIsLegal
  <2> QED
    BY <2>7, <2>10, <2>11
<1>2. IInv => TypeOK
  <2> SUFFICES ASSUME IInv PROVE TypeOK
    OBVIOUS
  <2>1. solution.slots \in Slots /\ solution.selected \subseteq Candidates
    <3>1. CASE phase = "build"
      <4>1. solution = NoSolution
        BY <3>1 DEF IInv
      <4>2. 0 \in Slots
        BY InputsAre DEF IInv
      <4> QED
        BY <4>1, <4>2 DEF NoSolution, Solution
    <3>2. CASE phase # "build"
      BY <3>2 DEF IInv
    <3> QED
      BY <3>1, <3>2
  <2>2. \A p \in Candidates : FromPattern(p) \in CodeEntry
    BY <1>1
  <2> QED
    BY <2>1, <2>2 DEF IInv, TypeOK
<1> QED
  BY <1>2, Invariant, PTL

(* Whatever the solver answered, a patch that gets a certificate is one of *)
(* the family, and has the size that is certified.  If the solver's bound  *)
(* is one of the program it was given, no table of the family makes a      *)
(* shorter patch (optimizer.py:665-683, study.py:384-391).                 *)
THEOREM CertifiedPatchIsOptimal == Spec => []CertifiedIsOptimal
<1>1. IInv => CertifiedIsOptimal
  <2> SUFFICES ASSUME IInv, phase = "certified"
               PROVE  /\ solution.primal = VariablePatchBytes(solution.slots, AttainedBytes)
                      /\ solution.primal >= LeastPatch
                      /\ bounded => solution.primal = LeastPatch
    BY DEF CertifiedIsOptimal
  <2> DEFINE q == solution.slots
             sel == solution.selected
             attained == VariablePatchBytes(q, AttainedBytes)
  <2>1. /\ next = Count + 1 /\ q \in Slots /\ sel \subseteq Candidates
        /\ bounded => solution.dual <= LeastPatch
        /\ Checked /\ Attained
    BY DEF IInv
  <2>2. Given
    BY <2>1, BuiltIs
  <2>3. sel \in SelectionsFor(q)
    BY <2>1 DEF Checked, FitsSlots, SelectionsFor, Selections
  <2>4. attained \in Patches
    BY <2>1, <2>2, <2>3, ChoicesAre DEF AttainedBytes
  <2>5. LeastPatch <= attained /\ LeastPatch \in Nat /\ attained \in Nat
    <3>1. LeastPatch = Min(Patches) /\ Patches \subseteq Nat /\ Patches # {}
      BY <2>2, PatchesAre DEF Given
    <3>2. Min(Patches) \in Patches /\ \A n \in Patches : Min(Patches) <= n
      BY <3>1, MinNumber
    <3> HIDE DEF attained
    <3> QED
      BY <2>4, <3>1, <3>2
  <2>6. attained = solution.primal /\ solution.primal = solution.dual
    BY <2>1 DEF Checked, Attained, GapIsZero
  <2> HIDE DEF attained
  <2>7. bounded => attained = LeastPatch
    BY <2>1, <2>5, <2>6
  <2>8. solution.primal >= LeastPatch
    BY <2>5, <2>6
  <2> QED
    BY <2>6, <2>7, <2>8 DEF attained
<1> QED
  BY <1>1, Invariant, PTL

(* With an exact solver nothing is refused: the relaxation of the parse    *)
(* and the varint regimes are tight at the optimum (optimizer.py:676).     *)
THEOREM ExactCertifies == Spec => []ExactSolverCertifies
<1>1. IInv => ExactSolverCertifies
  BY DEF IInv, ExactSolverCertifies
<1> QED
  BY <1>1, Invariant, PTL

(* What is observed when there is anything to choose.                      *)
LEMMA CandidatesObserved ==
  ASSUME IInv, phase = "check"
  PROVE  /\ IsProgram(window) /\ ObservedPatterns(window) # {}
         /\ MaxSlots \in Nat /\ PairBankCapacity \in Nat /\ MaxSlots <= PairBankCapacity
<1>1. Given /\ Candidates # {}
  BY BuiltIs DEF IInv
<1>2. /\ IsProgram(window) /\ MaxSlots \in Nat /\ PairBankCapacity \in Nat
      /\ MaxSlots <= PairBankCapacity /\ edges = Collected(window, Count)
  BY <1>1, InputsAre DEF Given
<1>3. PICK e \in edges : e.pattern # NoPattern
  BY <1>1 DEF Candidates, Patterns
<1>4. PICK span \in Spans(window) :
         \/ e = DefaultEdge(window, span) /\ InDefaultTable(window, span)
         \/ e = PatternEdge(window, span) /\ Covered(window, span) \in ObservedPatterns(window)
  BY <1>2, <1>3, CollectedAre DEF Collected, Count
<1>5. Covered(window, span) \in ObservedPatterns(window)
  BY <1>2, <1>3, <1>4, DefaultEdgeIs
<1> QED
  BY <1>2, <1>5

(* For every number of slots solve_selection finds the cheapest parse with *)
(* any selection of observed patterns, although it leaves the dominated    *)
(* ones out (optimizer.py:222-228).                                        *)
THEOREM SweepFindsOptimum == Spec => []SweepIsOptimal
<1>1. IInv => SweepIsOptimal
  <2> SUFFICES ASSUME IInv, phase = "check", NEW q \in 1..MaxSlots
               PROVE  SolveSelection(window, q) =
                        Min({OptimalParse(window, CustomTable(selected, q)) :
                               selected \in Selections(ObservedPatterns(window), q)})
    BY DEF SweepIsOptimal
  <2>1. /\ IsProgram(window) /\ ObservedPatterns(window) # {} /\ q \in 1..PairBankCapacity
    BY CandidatesObserved
  <2>2. SolveSelection(window, q) = Min(Optima(window, q))
    BY <2>1, SweepFindsLeast
  <2> QED
    BY <2>2 DEF Optima
<1> QED
  BY <1>1, Invariant, PTL

(* The pattern of the pair that one more slot overwrites fills the slot,   *)
(* so one bound serves all smaller numbers of slots                        *)
(* (finalize_integer_dual_pair.py:290-294).                                *)
THEOREM MoreSlotsNeverWorse == Spec => []MoreSlotsNoWorse
<1>1. IInv => MoreSlotsNoWorse
  <2> SUFFICES ASSUME IInv, phase = "check", NEW q \in 1..(MaxSlots - 1)
               PROVE  SolveSelection(window, q) >= SolveSelection(window, q + 1)
    BY DEF MoreSlotsNoWorse
  <2>1. /\ IsProgram(window) /\ ObservedPatterns(window) # {}
        /\ q \in 1..PairBankCapacity /\ q + 1 <= PairBankCapacity
    BY CandidatesObserved
  <2> QED
    BY <2>1, SlotsServe
<1> QED
  BY <1>1, Invariant, PTL

-----------------------------------------------------------------------------
(* The delta that carries a table in the header.                           *)

(* There is one remainder only.                                            *)
LEMMA RemainderUnique ==
  ASSUME NEW n \in Nat, NEW p \in Nat, p # 0, NEW q \in Nat, NEW r \in 0..(p - 1),
         n = p * q + r
  PROVE  n % p = r
OBVIOUS

(* The bytes that no selection of so many slots changes.                   *)
Kept(slots, at) == at % TableSize \notin Bank(slots)

(* The bank is one part of the opcodes, and not the first of them.         *)
LEMMA TableSizes ==
  /\ PairBankStart \in Nat /\ PairBankCapacity \in Nat /\ PairBankStart >= 1
  /\ TableSize = PairBankStart + PairBankCapacity /\ TableSize \in Nat /\ TableSize # 0
<1> DEFINE a == [type |-> ADD, size |-> 1, mode |-> 0]
<1>1. a \in Atom /\ a.mode < Modes
  BY Extents DEF Atom, ModeIsLegal, ADD, RUN, COPY
<1>2. PairBankStart \in Nat /\ PairBankCapacity \in Nat
      /\ \E op \in TableOpcodes : op \in Nat /\ op < PairBankStart
  <2> HIDE DEF a
  <2> QED
    BY <1>1, DefaultTableIs
<1> QED
  BY <1>2 DEF TableSize

(* Between the banks of two fields, and before and after all of them,      *)
(* nothing changes.                                                        *)
LEMMA KeptBetween ==
  ASSUME NEW slots \in 1..PairBankCapacity, NEW field \in Nat, NEW at \in Nat,
         \/ /\ field * TableSize + PairBankStart + slots <= at
            /\ at < (field + 1) * TableSize
         \/ /\ field * TableSize <= at
            /\ at < field * TableSize + PairBankStart
  PROVE  Kept(slots, at)
<1> DEFINE base == field * TableSize
           r == at - base
<1>1. base \in Nat /\ (field + 1) * TableSize = base + TableSize /\ base = TableSize * field
  BY TableSizes
<1> HIDE DEF base
<1>2. \/ PairBankStart + slots <= r /\ r < TableSize
      \/ 0 <= r /\ r < PairBankStart
  BY <1>1, TableSizes DEF base
<1>3. r \in 0..(TableSize - 1) /\ at = base + r
  BY <1>1, <1>2, TableSizes
<1>4. at % TableSize = r
  <2>1. at = TableSize * field + r
    BY <1>1, <1>3
  <2> HIDE DEF r
  <2> QED
    <3>1. /\ r \in 0..(TableSize - 1) /\ at \in Nat /\ field \in Nat
          /\ TableSize \in Nat /\ TableSize # 0
      BY <1>3, TableSizes
    <3> QED
      BY <2>1, <3>1, RemainderUnique
<1>5. r \notin PairBankStart..(PairBankStart + slots - 1)
  BY <1>2, <1>3, TableSizes
<1> QED
  BY <1>4, <1>5 DEF Kept, Bank

(* What a delta is made of, and where its first instructions end.          *)
Piece == [type : {ADD, COPY}, size : Nat \ {0}, address : Nat, position : Nat]

Stop(s, i) == IF i = 0 THEN 0 ELSE s[i].position + s[i].size

(* The instructions so far tile the table up to a position, and copy from  *)
(* where they are bytes that do not change.                                *)
CopiesInPlace(step, slots) ==
  step.type = COPY =>
    /\ step.address = step.position
    /\ \A at \in step.position..(step.position + step.size - 1) : Kept(slots, at)

Reaches(delta, slots) ==
  LET s == delta.instructions
  IN  /\ s \in Seq(Piece) /\ delta.position \in Nat
      /\ \A i \in 1..Len(s) : /\ s[i].position = Stop(s, i - 1)
                              /\ Stop(s, i) <= delta.position
                              /\ CopiesInPlace(s[i], slots)
      /\ delta.position = Stop(s, Len(s))

(* One more instruction that does so.                                      *)
LEMMA PieceAppended ==
  ASSUME NEW slots, NEW delta, Reaches(delta, slots), NEW type \in {ADD, COPY},
         NEW size \in Nat \ {0}, NEW address \in Nat,
         type = COPY => /\ address = delta.position
                        /\ \A at \in delta.position..(delta.position + size - 1) :
                             Kept(slots, at)
  PROVE  /\ Reaches(AppendPiece(delta, type, size, address), slots)
         /\ AppendPiece(delta, type, size, address).position = delta.position + size
<1> DEFINE s == delta.instructions
           step == [type |-> type, size |-> size, address |-> address,
                    position |-> delta.position]
           more == Append(s, step)
           n == Len(s)
           further == AppendPiece(delta, type, size, address)
<1>1. /\ s \in Seq(Piece) /\ delta.position \in Nat
      /\ \A i \in 1..n : /\ s[i].position = Stop(s, i - 1)
                         /\ Stop(s, i) <= delta.position
                         /\ CopiesInPlace(s[i], slots)
      /\ delta.position = Stop(s, n)
  BY DEF Reaches
<1>2. step \in Piece
  BY <1>1 DEF Piece
<1>3. CopiesInPlace(step, slots)
  BY DEF CopiesInPlace
<1>4. step.position = delta.position /\ step.size = size
  OBVIOUS
<1>5. further.instructions = more /\ further.position = delta.position + size
  BY DEF AppendPiece
<1> HIDE DEF s, step, further
<1>6. /\ more \in Seq(Piece) /\ Len(more) = n + 1 /\ n \in Nat
      /\ \A i \in 1..n : more[i] = s[i]
      /\ more[n + 1] = step
  BY <1>1, <1>2, AppendProperties, LenProperties
<1> HIDE DEF more
<1>7. ASSUME NEW i \in 0..n PROVE Stop(more, i) = Stop(s, i)
  <2>1. i # 0 => i \in 1..n
    BY <1>6
  <2> QED
    BY <1>6, <2>1 DEF Stop
<1>8. Stop(more, n + 1) = delta.position + size
  <2>1. n + 1 # 0
    BY <1>6
  <2> QED
    BY <1>4, <1>6, <2>1 DEF Stop
<1>9. ASSUME NEW i \in 1..(n + 1)
      PROVE  /\ more[i].position = Stop(more, i - 1)
             /\ Stop(more, i) <= delta.position + size
             /\ CopiesInPlace(more[i], slots)
  <2>1. CASE i = n + 1
    <3>1. i - 1 = n /\ n \in 0..n
      BY <1>6, <2>1
    <3>2. Stop(more, i - 1) = delta.position
      BY <1>1, <1>7, <3>1
    <3>3. delta.position + size <= delta.position + size
      BY <1>1
    <3> QED
      BY <1>3, <1>4, <1>6, <1>8, <2>1, <3>2, <3>3
  <2>2. CASE i # n + 1
    <3>1. i \in 1..n /\ i \in 0..n /\ i - 1 \in 0..n
      BY <1>6, <2>2
    <3>2. more[i] = s[i] /\ Stop(more, i) = Stop(s, i) /\ Stop(more, i - 1) = Stop(s, i - 1)
      BY <1>6, <1>7, <3>1
    <3>3. s[i].position = Stop(s, i - 1) /\ Stop(s, i) <= delta.position
          /\ CopiesInPlace(s[i], slots)
      BY <1>1, <3>1
    <3>4. Stop(s, i) \in Nat
      <4>1. s[i] \in Piece
        BY <1>1, <3>1, ElementOfSeq
      <4> QED
        BY <3>1, <4>1 DEF Piece, Stop
    <3>5. Stop(s, i) <= delta.position + size
      BY <1>1, <3>3, <3>4
    <3> QED
      BY <3>2, <3>3, <3>5
  <2> QED
    BY <2>1, <2>2
<1>10. delta.position + size \in Nat
  BY <1>1
<1>11. Reaches(further, slots)
  BY <1>5, <1>6, <1>8, <1>9, <1>10 DEF Reaches
<1> QED
  BY <1>5, <1>11 DEF further

(* The COPY up to the first bank.                                          *)
LEMMA StartReaches ==
  ASSUME NEW slots \in 1..PairBankCapacity
  PROVE  Reaches(DeltaStart, slots) /\ DeltaStart.position = PairBankStart
<1> DEFINE none == [instructions |-> <<>>, position |-> 0]
<1>1. Reaches(none, slots) /\ none.position = 0
  <2>1. none.instructions = <<>> /\ none.position = 0
    OBVIOUS
  <2>2. none.instructions \in Seq(Piece) /\ Len(none.instructions) = 0
    BY <2>1, EmptySeq
  <2> HIDE DEF none
  <2> QED
    BY <2>1, <2>2 DEF Reaches, Stop
<1>2. ASSUME NEW at \in 0..(0 + PairBankStart - 1) PROVE Kept(slots, at)
  <2>1. 0 \in Nat /\ at \in Nat /\ 0 * TableSize <= at /\ at < 0 * TableSize + PairBankStart
    BY <1>2, TableSizes
  <2> QED
    BY <2>1, KeptBetween
<1>3. DeltaStart = AppendPiece(none, COPY, PairBankStart, 0)
  BY TableSizes DEF DeltaStart, AppendCopy
<1> HIDE DEF none
<1>4. PairBankStart \in Nat \ {0} /\ 0 \in Nat /\ COPY \in {ADD, COPY}
  BY TableSizes
<1>5. /\ Reaches(AppendPiece(none, COPY, PairBankStart, 0), slots)
      /\ AppendPiece(none, COPY, PairBankStart, 0).position = none.position + PairBankStart
  BY <1>1, <1>2, <1>4, PieceAppended
<1> QED
  BY <1>1, <1>3, <1>4, <1>5

(* A field: its part of the bank, and a COPY up to the next, or to the end *)
(* of the table.                                                           *)
LEMMA FieldReaches ==
  ASSUME NEW slots \in 1..PairBankCapacity, NEW field \in 0..5, NEW delta,
         Reaches(delta, slots), delta.position = field * TableSize + PairBankStart
  PROVE  /\ Reaches(AppendField(delta, field, slots), slots)
         /\ AppendField(delta, field, slots).position =
              IF field < 5 THEN (field + 1) * TableSize + PairBankStart
              ELSE 6 * TableSize
<1> DEFINE base == field * TableSize
           added == AppendAdd(delta, slots)
           size == IF field < 5 THEN TableSize - slots
                   ELSE TableSize - PairBankStart - slots
           address == base + PairBankStart + slots
<1>1. base \in Nat /\ (field + 1) * TableSize = base + TableSize
      /\ (field = 5 => base = 5 * TableSize)
  BY TableSizes
<1>2. /\ slots \in Nat \ {0} /\ slots <= PairBankCapacity /\ field \in Nat /\ field + 1 \in Nat
      /\ ADD # COPY
  BY TableSizes DEF ADD, COPY
<1> HIDE DEF base
<1>3. Reaches(added, slots) /\ added.position = address
  <2>1. /\ Reaches(AppendPiece(delta, ADD, slots, 0), slots)
        /\ AppendPiece(delta, ADD, slots, 0).position = delta.position + slots
    BY <1>2, PieceAppended
  <2>2. delta.position = base + PairBankStart
    BY DEF base
  <2> QED
    BY <2>1, <2>2 DEF AppendAdd
<1>4. size \in Nat /\ address \in Nat
  BY <1>1, <1>2, TableSizes
<1>5. ASSUME NEW at \in address..(address + size - 1) PROVE Kept(slots, at)
  <2>1. at \in Nat /\ base + PairBankStart + slots <= at
    BY <1>4
  <2>2. CASE at < base + TableSize
    <3>1. field * TableSize + PairBankStart + slots <= at /\ at < (field + 1) * TableSize
      BY <1>1, <2>1, <2>2 DEF base
    <3> QED
      BY <1>2, <2>1, <3>1, KeptBetween
  <2>3. CASE ~(at < base + TableSize)
    <3>1. base + TableSize <= at /\ at < base + TableSize + PairBankStart
      BY <1>1, <1>2, <2>1, <2>3, TableSizes
    <3>2. (field + 1) * TableSize <= at /\ at < (field + 1) * TableSize + PairBankStart
      BY <1>1, <3>1
    <3> QED
      BY <1>2, <2>1, <3>2, KeptBetween
  <2> QED
    BY <2>2, <2>3
<1>6. AppendField(delta, field, slots) = AppendCopy(added, size, address)
  BY DEF AppendField, base
<1>7. address + size = IF field < 5 THEN (field + 1) * TableSize + PairBankStart
                       ELSE 6 * TableSize
  BY <1>1, <1>2, TableSizes
<1> HIDE DEF added, size, address
<1>8. CASE size = 0
  BY <1>3, <1>4, <1>6, <1>7, <1>8 DEF AppendCopy
<1>9. CASE size # 0
  <2>1. size \in Nat \ {0} /\ COPY \in {ADD, COPY}
    BY <1>4, <1>9
  <2>2. /\ Reaches(AppendPiece(added, COPY, size, address), slots)
        /\ AppendPiece(added, COPY, size, address).position = added.position + size
    BY <1>3, <1>4, <1>5, <2>1, PieceAppended
  <2> QED
    BY <1>3, <1>6, <1>7, <1>9, <2>2 DEF AppendCopy
<1> QED
  BY <1>8, <1>9

(* The loop over the fields (codec.py:248-259), field by field.            *)
LEMMA DeltaIs ==
  ASSUME NEW slots \in 1..PairBankCapacity
  PROVE  \E delta : /\ Delta(slots) = delta.instructions
                    /\ Reaches(delta, slots) /\ delta.position = 6 * TableSize
<1> DEFINE Following(f, n) == IF n = 0 THEN DeltaStart ELSE AppendField(f[n - 1], n - 1, slots)
           Is(f) == f = [n \in 0..6 |-> Following(f, n)]
           delta == CHOOSE f : Is(f)
           d1 == AppendField(DeltaStart, 0, slots)
           d2 == AppendField(d1, 1, slots)
           d3 == AppendField(d2, 2, slots)
           d4 == AppendField(d3, 3, slots)
           d5 == AppendField(d4, 4, slots)
           d6 == AppendField(d5, 5, slots)
<1>1. Delta(slots) = delta[6].instructions
  BY DEF Delta
<1>2. Is(delta)
  <2> DEFINE f == [n \in 0..6 |->
                     IF n = 0 THEN DeltaStart ELSE IF n = 1 THEN d1 ELSE IF n = 2 THEN d2
                     ELSE IF n = 3 THEN d3 ELSE IF n = 4 THEN d4 ELSE IF n = 5 THEN d5
                     ELSE d6]
  <2>1. /\ f[0] = DeltaStart /\ f[1] = d1 /\ f[2] = d2 /\ f[3] = d3 /\ f[4] = d4
        /\ f[5] = d5 /\ f[6] = d6
    <3> HIDE DEF d1, d2, d3, d4, d5, d6
    <3> QED
      OBVIOUS
  <2>2. f = [n \in 0..6 |-> f[n]]
    OBVIOUS
  <2> HIDE DEF f
  <2>3. ASSUME NEW n \in 0..6 PROVE f[n] = Following(f, n)
    <3>1. n = 0 \/ n = 1 \/ n = 2 \/ n = 3 \/ n = 4 \/ n = 5 \/ n = 6
      OBVIOUS
    <3>2. 1 - 1 = 0 /\ 2 - 1 = 1 /\ 3 - 1 = 2 /\ 4 - 1 = 3 /\ 5 - 1 = 4 /\ 6 - 1 = 5
      OBVIOUS
    <3>3. Following(f, 0) = DeltaStart /\ Following(f, 1) = d1 /\ Following(f, 2) = d2
          /\ Following(f, 3) = d3 /\ Following(f, 4) = d4 /\ Following(f, 5) = d5
          /\ Following(f, 6) = d6
      BY <2>1, <3>2
    <3> HIDE DEF Following, d1, d2, d3, d4, d5, d6
    <3> QED
      BY <2>1, <3>1, <3>3
  <2>4. Is(f)
    <3> HIDE DEF Following
    <3> QED
      BY <2>2, <2>3
  <2> HIDE DEF Is
  <2> QED
    BY <2>4
<1>3. ASSUME NEW n \in 0..6 PROVE delta[n] = Following(delta, n)
  <2> HIDE DEF delta, Following
  <2> QED
    BY <1>2
<1> HIDE DEF delta
<1>4. Reaches(delta[0], slots) /\ delta[0].position = PairBankStart
  <2>1. 0 \in 0..6
    OBVIOUS
  <2>2. delta[0] = DeltaStart
    BY <1>3, <2>1
  <2> QED
    BY <2>2, StartReaches
<1>5. ASSUME NEW n \in 1..6, Reaches(delta[n - 1], slots),
             delta[n - 1].position = (n - 1) * TableSize + PairBankStart
      PROVE  /\ Reaches(delta[n], slots)
             /\ delta[n].position = IF n < 6 THEN n * TableSize + PairBankStart
                                    ELSE 6 * TableSize
  <2>1. n \in 0..6 /\ n # 0 /\ n - 1 \in 0..5 /\ n - 1 + 1 = n /\ (n - 1 < 5 <=> n < 6)
    OBVIOUS
  <2>2. delta[n] = AppendField(delta[n - 1], n - 1, slots)
    BY <1>3, <2>1
  <2>3. /\ Reaches(AppendField(delta[n - 1], n - 1, slots), slots)
        /\ AppendField(delta[n - 1], n - 1, slots).position =
             IF n - 1 < 5 THEN (n - 1 + 1) * TableSize + PairBankStart ELSE 6 * TableSize
    BY <1>5, <2>1, FieldReaches
  <2> QED
    BY <2>1, <2>2, <2>3
<1>6. PairBankStart = 0 * TableSize + PairBankStart
  BY TableSizes
<1> DEFINE At(n, position) == Reaches(delta[n], slots) /\ delta[n].position = position
<1>7. At(1, 1 * TableSize + PairBankStart)
  BY <1>4, <1>5, <1>6
<1>8. At(2, 2 * TableSize + PairBankStart)
  BY <1>5, <1>7
<1>9. At(3, 3 * TableSize + PairBankStart)
  BY <1>5, <1>8
<1>10. At(4, 4 * TableSize + PairBankStart)
  BY <1>5, <1>9
<1>11. At(5, 5 * TableSize + PairBankStart)
  BY <1>5, <1>10
<1>12. At(6, 6 * TableSize)
  BY <1>5, <1>11
<1> QED
  BY <1>1, <1>12

-----------------------------------------------------------------------------
(* The bytes of a table: six fields, and the same where the entries are.   *)
LEMMA TableBytesAre ==
  ASSUME NEW table
  PROVE  /\ Len(TableBytes(table)) = 6 * TableSize
         /\ \E S : TableBytes(table) \in Seq(S)
         /\ \A other : \A at \in 0..(6 * TableSize - 1) :
              table[at % TableSize] = other[at % TableSize]
                => TableBytes(table)[at + 1] = TableBytes(other)[at + 1]
<1> DEFINE b(t, i) == LET e == t[(i - 1) % TableSize]
                      IN  <<e.inst1, e.inst2, e.size1, e.size2, e.mode1, e.mode2>>
                            [(i - 1) \div TableSize + 1]
           S == {b(table, i) : i \in 1..(6 * TableSize)}
<1>1. \A t : TableBytes(t) = [i \in 1..(6 * TableSize) |-> b(t, i)]
  BY DEF TableBytes
<1>2. 6 * TableSize \in Nat
  BY TableSizes
<1>3. ASSUME NEW other, NEW at \in 0..(6 * TableSize - 1),
             table[at % TableSize] = other[at % TableSize]
      PROVE  TableBytes(table)[at + 1] = TableBytes(other)[at + 1]
  <2>1. at + 1 \in 1..(6 * TableSize) /\ at + 1 - 1 = at
    BY <1>2
  <2>2. b(table, at + 1) = b(other, at + 1)
    BY <1>3, <2>1
  <2> HIDE DEF b
  <2> QED
    BY <1>1, <2>1, <2>2
<1>4. ASSUME NEW i \in 1..(6 * TableSize) PROVE b(table, i) \in S
  OBVIOUS
<1> HIDE DEF b, S
<1>5. TableBytes(table) = [i \in 1..(6 * TableSize) |-> b(table, i)]
  BY <1>1, Zenon
<1>6. Len(TableBytes(table)) = 6 * TableSize /\ TableBytes(table) \in Seq(S)
  BY <1>2, <1>4, <1>5
<1> QED
  BY <1>3, <1>6, Zenon

(* Outside the bank a custom table is the default one, and so are its       *)
(* bytes.                                                                  *)
LEMMA KeptBytes ==
  ASSUME NEW slots \in 1..PairBankCapacity, NEW selected,
         NEW at \in 0..(6 * TableSize - 1), Kept(slots, at)
  PROVE  TableBytes(CustomTable(selected, slots))[at + 1] = TableBytes(DefaultTable)[at + 1]
<1> DEFINE op == at % TableSize
<1>1. /\ PairBankStart \in Nat /\ PairBankCapacity \in Nat /\ slots \in Nat
      /\ TableSize \in Nat /\ TableSize # 0 /\ at \in Nat
  BY TableSizes
<1>2. op \in TableOpcodes /\ op \in Nat
  BY <1>1 DEF TableOpcodes
<1>3. op \notin PairBankStart..(PairBankStart + slots - 1)
  BY DEF Kept, Bank
<1> HIDE DEF op
<1>4. op < PairBankStart \/ op - PairBankStart + 1 > slots
  BY <1>1, <1>2, <1>3
<1>5. CustomTable(selected, slots)[op] = DefaultTable[op]
  BY <1>2, <1>4 DEF CustomTable
<1> QED
  BY <1>5, TableBytesAre DEF op

(* The guard of the delta lets a custom table pass.                        *)
LEMMA CanonicalBytes ==
  ASSUME NEW slots \in 1..PairBankCapacity, NEW selected
  PROVE  IsCanonical(TableBytes(CustomTable(selected, slots)), slots)
<1> SUFFICES ASSUME NEW field \in Fields, NEW op \in TableOpcodes \ Bank(slots)
             PROVE  TableBytes(CustomTable(selected, slots))[field * TableSize + op + 1]
                      = TableBytes(DefaultTable)[field * TableSize + op + 1]
  BY DEF IsCanonical
<1> DEFINE base == field * TableSize
<1>1. /\ TableSize \in Nat /\ TableSize # 0 /\ field \in Nat /\ field <= 5
      /\ op \in 0..(TableSize - 1)
  BY TableSizes DEF Fields, TableOpcodes
<1>2. base \in Nat /\ base = TableSize * field /\ base <= 5 * TableSize
  <2>1. field \in {0, 1, 2, 3, 4, 5}
    BY <1>1
  <2> QED
    BY <1>1, <2>1
<1> HIDE DEF base
<1>3. base + op \in 0..(6 * TableSize - 1) /\ base + op \in Nat
  BY <1>1, <1>2
<1>4. base + op = TableSize * field + op
  BY <1>2
<1>5. (base + op) % TableSize = op
  BY <1>1, <1>3, <1>4, RemainderUnique
<1>6. Kept(slots, base + op)
  BY <1>5 DEF Kept
<1>7. TableBytes(CustomTable(selected, slots))[base + op + 1] = TableBytes(DefaultTable)[base + op + 1]
  BY <1>3, <1>6, KeptBytes
<1> QED
  BY <1>7 DEF base

(* So many bytes from an address on.                                       *)
Slice(t, address, size) == [k \in 1..size |-> t[address + k]]

(* A COPY that stays in the source yields what is there.                   *)
LEMMA SourceCopied ==
  ASSUME NEW source, NEW out, NEW address \in Nat, NEW size \in Nat,
         Len(source) \in Nat, Len(out) \in Nat, address + size <= Len(source)
  PROVE  Copied(source, out, address, size) = Slice(source, address, size)
<1> DEFINE here == Len(source) + Len(out)
           Byte1(f, i) ==
             IF address + i < Len(source) THEN source[(address + i) + 1]
             ELSE IF address + i < here THEN out[(address + i) - Len(source) + 1]
             ELSE f[(address + i) - here]
           Is(f) == f = [i \in 0..(size - 1) |-> Byte1(f, i)]
           byte == CHOOSE f : Is(f)
           g == [i \in 0..(size - 1) |-> source[address + i + 1]]
<1>1. Copied(source, out, address, size) = [k \in 1..size |-> byte[k - 1]]
  BY DEF Copied
<1>2. ASSUME NEW f, NEW i \in 0..(size - 1) PROVE Byte1(f, i) = source[address + i + 1]
  <2>1. address + i < Len(source)
    OBVIOUS
  <2> QED
    BY <2>1
<1> HIDE DEF Byte1
<1>3. Is(g)
  BY <1>2
<1> HIDE DEF g
<1>4. Is(byte)
  <2> HIDE DEF Is
  <2> QED
    BY <1>3
<1> HIDE DEF byte
<1>5. \A i \in 0..(size - 1) : byte[i] = source[address + i + 1]
  BY <1>2, <1>4
<1>6. ASSUME NEW k \in 1..size PROVE byte[k - 1] = source[address + k]
  <2>1. k - 1 \in 0..(size - 1) /\ address + (k - 1) + 1 = address + k
    OBVIOUS
  <2> QED
    BY <1>5, <2>1
<1> QED
  BY <1>1, <1>6 DEF Slice

(* Two parts of a sequence that meet.                                      *)
LEMMA PartsMeet ==
  ASSUME NEW S, NEW t \in Seq(S), NEW a \in Nat, NEW b \in Nat, a <= b, b <= Len(t)
  PROVE  SubSeq(t, 1, a) \o SubSeq(t, a + 1, b) = SubSeq(t, 1, b)
<1> DEFINE u == SubSeq(t, 1, a)
           v == SubSeq(t, a + 1, b)
           w == SubSeq(t, 1, b)
<1>1. Len(t) \in Nat /\ \A i \in 1..Len(t) : t[i] \in S
  BY LenProperties, ElementOfSeq
<1>2. u \in Seq(S) /\ Len(u) = a /\ \A i \in 1..a : u[i] = t[i]
  BY <1>1
<1>3. v \in Seq(S) /\ Len(v) = b - a /\ \A i \in 1..(b - a) : v[i] = t[a + i]
  BY <1>1
<1>4. w \in Seq(S) /\ Len(w) = b /\ \A i \in 1..b : w[i] = t[i]
  BY <1>1
<1> HIDE DEF u, v, w
<1>8. u \o v \in Seq(S) /\ Len(u \o v) = Len(u) + Len(v)
  BY <1>2, <1>3, ConcatProperties, Zenon
<1>5. u \o v \in Seq(S) /\ Len(u \o v) = b
  BY <1>2, <1>3, <1>8
<1>7. ASSUME NEW i \in 1..b PROVE (u \o v)[i] = t[i]
  <2>1. (u \o v)[i] = IF i <= a THEN u[i] ELSE v[i - a]
    BY <1>2, <1>3, ConcatProperties
  <2>2. CASE i <= a
    BY <1>2, <2>1, <2>2
  <2>3. CASE ~(i <= a)
    <3>1. i - a \in 1..(b - a) /\ a + (i - a) = i
      BY <2>3
    <3> QED
      BY <1>3, <2>1, <2>3, <3>1
  <2> QED
    BY <2>2, <2>3
<1>6. u \o v = w
  BY <1>4, <1>5, <1>7, SeqEqual
<1> QED
  BY <1>6 DEF u, v, w

-----------------------------------------------------------------------------
(* What a piece produces once the bytes before it are those of the custom   *)
(* table is the next bytes of the custom table.                            *)
LEMMA PieceProduces ==
  ASSUME NEW slots \in 1..PairBankCapacity, NEW selected, NEW step \in Piece,
         CopiesInPlace(step, slots), step.position + step.size <= 6 * TableSize,
         NEW out, Len(out) \in Nat,
         NEW w, w = DeltaWindow(CustomTable(selected, slots), slots)
  PROVE  /\ Produced(w, step, out)
              = SubSeq(w.target, step.position + 1, step.position + step.size)
         /\ Replayable(w, step, out)
<1> DEFINE first == step.position
           size == step.size
<1>1. /\ w.source = TableBytes(DefaultTable)
      /\ w.target = TableBytes(CustomTable(selected, slots))
  BY DEF DeltaWindow
<1>2. /\ first \in Nat /\ size \in Nat /\ size # 0 /\ step.type \in {ADD, COPY}
      /\ 6 * TableSize \in Nat
  BY TableSizes DEF Piece
<1>3. Len(w.source) = 6 * TableSize /\ Len(w.target) = 6 * TableSize
  BY <1>1, TableBytesAre, Zenon
<1>4. CASE step.type = ADD
  <2>1. ADD # COPY /\ ADD # RUN
    BY DEF ADD, RUN, COPY
  <2> QED
    BY <1>4, <2>1 DEF Produced, Replayable
<1>5. CASE step.type = COPY
  <2>1. COPY # ADD /\ COPY # RUN
    BY DEF ADD, RUN, COPY
  <2>2. /\ step.address = first
        /\ \A at \in first..(first + size - 1) : Kept(slots, at)
    BY <1>5 DEF CopiesInPlace
  <2>3. first + size <= Len(w.source)
    BY <1>3
  <2>4. Produced(w, step, out) = Copied(w.source, out, first, size)
    BY <1>5, <2>1, <2>2 DEF Produced
  <2>5. Copied(w.source, out, first, size) = Slice(w.source, first, size)
    <3>1. Len(w.source) \in Nat
      BY <1>2, <1>3
    <3>2. first \in Nat /\ size \in Nat
      BY <1>2
    <3> DEFINE source == w.source
    <3> HIDE DEF first, size, source
    <3>3. first + size <= Len(source) /\ Len(source) \in Nat
      BY <2>3, <3>1 DEF source
    <3>4. Copied(source, out, first, size) = Slice(source, first, size)
      BY <3>2, <3>3, SourceCopied
    <3> QED
      BY <3>4 DEF source
  <2>6. ASSUME NEW k \in 1..size PROVE w.source[first + k] = w.target[first + k]
    <3>1. /\ first + k - 1 \in first..(first + size - 1)
          /\ first + k - 1 \in 0..(6 * TableSize - 1)
          /\ first + k - 1 + 1 = first + k
      <4>1. first \in Nat /\ size \in Nat /\ 6 * TableSize \in Nat /\ first + size <= 6 * TableSize
        BY <1>2
      <4> HIDE DEF first, size
      <4> QED
        BY <4>1
    <3>2. Kept(slots, first + k - 1)
      BY <2>2, <3>1
    <3> QED
      BY <1>1, <3>1, <3>2, KeptBytes
  <2>7. PICK S : w.target \in Seq(S)
    BY <1>1, TableBytesAre, Zenon
  <2>8. SubSeq(w.target, first + 1, first + size) = Slice(w.target, first, size)
    <3> DEFINE t == w.target
               part == SubSeq(t, first + 1, first + size)
               row == [k \in 1..size |-> t[first + k]]
    <3>1. t \in Seq(S) /\ first + size <= Len(t) /\ Len(t) = 6 * TableSize
      BY <1>3, <2>7
    <3> HIDE DEF t
    <3>2. \A i \in 1..Len(t) : t[i] \in S
      BY <3>1, ElementOfSeq
    <3>3. /\ part \in Seq(S) /\ Len(part) = size
          /\ \A k \in 1..size : part[k] = t[first + k]
      <4>1. first \in Nat /\ size \in Nat
        BY <1>2
      <4> HIDE DEF first, size
      <4> QED
        BY <3>1, <4>1
    <3>4. ASSUME NEW k \in 1..size PROVE t[first + k] \in S
      <4>1. first + k \in 1..Len(t)
        BY <1>2, <3>1
      <4> QED
        BY <3>2, <4>1
    <3>5. row \in Seq(S) /\ Len(row) = size /\ \A k \in 1..size : row[k] = t[first + k]
      BY <1>2, <3>4
    <3> HIDE DEF part, row
    <3>6. part = row
      BY <3>3, <3>5, SeqEqual
    <3> QED
      BY <3>6 DEF part, row, t, Slice
  <2>9. Produced(w, step, out) = SubSeq(w.target, first + 1, first + size)
    <3>1. Slice(w.source, first, size) = Slice(w.target, first, size)
      BY <2>6 DEF Slice
    <3> QED
      BY <2>4, <2>5, <2>8, <3>1
  <2>10. Replayable(w, step, out)
    <3>1. step.address < Len(w.source) /\ step.address + step.size <= Len(w.source)
      BY <1>2, <2>2, <2>3
    <3> QED
      BY <3>1 DEF Replayable
  <2> QED
    BY <2>9, <2>10
<1> QED
  BY <1>2, <1>4, <1>5

(* After every instruction the output is the custom table's first bytes.   *)
LEMMA DeltaReplays ==
  ASSUME NEW slots \in 1..PairBankCapacity, NEW selected
  PROVE  LET w == DeltaWindow(CustomTable(selected, slots), slots)
         IN  IsWindow(w) /\ Accepts(w)
<1> DEFINE w == DeltaWindow(CustomTable(selected, slots), slots)
           s == w.instructions
           n == Len(s)
           t == w.target
           Following(f, i) == IF i = 0 THEN <<>>
                              ELSE f[i - 1] \o Produced(w, w.instructions[i], f[i - 1])
           Is(f) == f = [i \in 0..Len(w.instructions) |-> Following(f, i)]
           out == CHOOSE f : Is(f)
           g == [i \in 0..n |-> SubSeq(t, 1, Stop(s, i))]
<1>1. PICK delta : /\ Delta(slots) = delta.instructions
                   /\ Reaches(delta, slots) /\ delta.position = 6 * TableSize
  BY DeltaIs
<1>2. s = Delta(slots) /\ t = TableBytes(CustomTable(selected, slots))
  BY DEF DeltaWindow
<1>3. Outputs(w) = out
  BY DEF Outputs
<1>4. /\ s \in Seq(Piece) /\ 6 * TableSize \in Nat
      /\ \A i \in 1..n : /\ s[i].position = Stop(s, i - 1)
                         /\ Stop(s, i) <= 6 * TableSize
                         /\ CopiesInPlace(s[i], slots)
      /\ Stop(s, n) = 6 * TableSize
  <2>1. s = delta.instructions
    BY <1>1, <1>2
  <2> HIDE DEF w
  <2> QED
    BY <1>1, <2>1, TableSizes DEF Reaches
<1>5. Len(t) = 6 * TableSize /\ \E S : t \in Seq(S)
  BY <1>2, TableBytesAre, Zenon
<1> HIDE DEF w
<1>6. n \in Nat /\ \A i \in 1..n : s[i] \in Piece
  BY <1>4, LenProperties, ElementOfSeq
<1>7. ASSUME NEW i \in 1..n
      PROVE  /\ Stop(s, i) = s[i].position + s[i].size /\ s[i].position = Stop(s, i - 1)
             /\ s[i].position \in Nat /\ s[i].size \in Nat \ {0}
             /\ Stop(s, i) <= Len(t)
  <2>1. s[i] \in Piece /\ i # 0 /\ Stop(s, i) <= 6 * TableSize /\ s[i].position = Stop(s, i - 1)
    BY <1>4, <1>6
  <2> HIDE DEF s, n, t
  <2>2. s[i].position \in Nat /\ s[i].size \in Nat \ {0}
    BY <2>1 DEF Piece
  <2>3. Stop(s, i) = s[i].position + s[i].size
    BY <2>1 DEF Stop
  <2> QED
    BY <1>5, <2>1, <2>2, <2>3
<1>8. ASSUME NEW i \in 0..n PROVE Stop(s, i) \in Nat /\ Stop(s, i) <= Len(t)
  <2>1. i = 0 \/ i \in 1..n
    OBVIOUS
  <2> HIDE DEF s, t, n
  <2> QED
    BY <1>4, <1>5, <1>7, <2>1 DEF Stop
<1>9. ASSUME NEW i \in 1..n
      PROVE  /\ g[i] = g[i - 1] \o Produced(w, s[i], g[i - 1])
             /\ Replayable(w, s[i], g[i - 1])
  <2> DEFINE a == Stop(s, i - 1)
             b == Stop(s, i)
  <2>1. i - 1 \in 0..n /\ i \in 0..n
    BY <1>6
  <2>2. a \in Nat /\ b \in Nat /\ a <= b /\ b <= Len(t)
        /\ a = s[i].position /\ b = s[i].position + s[i].size
    <3>1. a \in Nat /\ b \in Nat /\ b <= Len(t)
      BY <1>8, <2>1
    <3>2. a = s[i].position /\ b = s[i].position + s[i].size /\ s[i].size \in Nat
      BY <1>7
    <3> HIDE DEF a, b
    <3> QED
      BY <3>1, <3>2
  <2>3. g[i - 1] = SubSeq(t, 1, a) /\ g[i] = SubSeq(t, 1, b)
    BY <2>1
  <2> HIDE DEF g
  <2>4. PICK S : t \in Seq(S)
    BY <1>5
  <2>5. Len(g[i - 1]) \in Nat
    <3> HIDE DEF t, a
    <3> QED
      BY <2>2, <2>3, <2>4, LenProperties
  <2>6. /\ Produced(w, s[i], g[i - 1]) = SubSeq(t, a + 1, b)
        /\ Replayable(w, s[i], g[i - 1])
    <3>1. /\ s[i] \in Piece /\ CopiesInPlace(s[i], slots)
          /\ s[i].position + s[i].size <= 6 * TableSize
      BY <1>4, <1>6, <1>7
    <3>2. w = DeltaWindow(CustomTable(selected, slots), slots)
      BY DEF w
    <3> HIDE DEF a, b, s
    <3>3. /\ Produced(w, s[i], g[i - 1])
               = SubSeq(w.target, s[i].position + 1, s[i].position + s[i].size)
          /\ Replayable(w, s[i], g[i - 1])
      BY <2>5, <3>1, <3>2, PieceProduces
    <3> QED
      BY <2>2, <3>3
  <2>7. SubSeq(t, 1, a) \o SubSeq(t, a + 1, b) = SubSeq(t, 1, b)
    <3> HIDE DEF a, b, t
    <3> QED
      BY <2>2, <2>4, PartsMeet
  <2> QED
    BY <2>3, <2>6, <2>7
<1>10. g[0] = <<>>
  <2>1. 0 \in 0..n /\ Stop(s, 0) = 0
    BY <1>6 DEF Stop
  <2>2. SubSeq(t, 1, 0) = <<>>
    BY <1>5
  <2> QED
    BY <2>1, <2>2
<1>11. Is(g)
  <2>1. ASSUME NEW i \in 0..n PROVE g[i] = Following(g, i)
    <3>1. i = 0 \/ (i \in 1..n /\ i # 0)
      OBVIOUS
    <3> HIDE DEF g, n
    <3> QED
      BY <1>9, <1>10, <3>1
  <2>2. g = [i \in 0..n |-> g[i]]
    OBVIOUS
  <2> HIDE DEF g, Following
  <2> QED
    BY <2>1, <2>2
<1>12. Is(out)
  <2> HIDE DEF Is
  <2> QED
    BY <1>11
<1> HIDE DEF out
<1>13. ASSUME NEW i \in 0..n PROVE out[i] = Following(out, i)
  <2> HIDE DEF Following
  <2> QED
    BY <1>12
<1>14. \A i \in 0..n : out[i] = g[i]
  <2> DEFINE Bad == {i \in 0..n : out[i] # g[i]}
  <2>1. SUFFICES ASSUME Bad # {} PROVE FALSE
    BY Zenon
  <2>2. PICK m \in Bad : \A i \in Bad : m <= i
    <3>1. Bad \subseteq Nat
      BY <1>6
    <3> HIDE DEF Bad
    <3> QED
      BY <2>1, <3>1, LeastNumber
  <2>3. m \in 0..n /\ out[m] # g[m]
    BY <2>2
  <2>4. CASE m = 0
    BY <1>10, <1>13, <2>3, <2>4
  <2>5. CASE m # 0
    <3>1. m \in 1..n /\ m - 1 \in 0..n /\ ~(m <= m - 1)
      BY <1>6, <2>3, <2>5
    <3>2. out[m - 1] = g[m - 1]
      BY <2>2, <3>1
    <3>3. out[m] = out[m - 1] \o Produced(w, s[m], out[m - 1])
      BY <1>13, <2>3, <2>5
    <3>4. g[m] = g[m - 1] \o Produced(w, s[m], g[m - 1])
      BY <1>9, <3>1
    <3> HIDE DEF g
    <3> QED
      BY <2>3, <3>2, <3>3, <3>4
  <2> QED
    BY <2>4, <2>5
<1>15. out[n] = t
  <2>1. n \in 0..n /\ Stop(s, n) = Len(t)
    BY <1>4, <1>5, <1>6
  <2>2. g[n] = SubSeq(t, 1, Len(t))
    BY <2>1
  <2>3. PICK S : t \in Seq(S)
    BY <1>5
  <2>4. SubSeq(t, 1, Len(t)) = t
    <3> HIDE DEF t
    <3> QED
      BY <2>3
  <2> HIDE DEF g
  <2> QED
    BY <1>14, <2>1, <2>2, <2>4
<1>16. Accepts(w)
  <2>1. ASSUME NEW i \in 1..n PROVE Replayable(w, s[i], out[i - 1])
    <3>1. i - 1 \in 0..n
      BY <1>6
    <3>2. out[i - 1] = g[i - 1]
      BY <1>14, <3>1
    <3> HIDE DEF g
    <3> QED
      BY <1>9, <3>2
  <2> QED
    BY <1>3, <1>15, <2>1 DEF Accepts
<1>17. IsWindow(w)
  <2>1. ASSUME NEW i \in 1..n
        PROVE  s[i].position = IF i = 1 THEN 0 ELSE s[i - 1].position + s[i - 1].size
    <3>1. s[i].position = Stop(s, i - 1)
      BY <1>7
    <3>2. i - 1 = 0 <=> i = 1
      OBVIOUS
    <3> HIDE DEF s, n
    <3> QED
      BY <3>1, <3>2 DEF Stop
  <2>2. Len(t) = IF n = 0 THEN 0 ELSE s[n].position + s[n].size
    <3> HIDE DEF s, n, t
    <3> QED
      BY <1>4, <1>5 DEF Stop
  <2> QED
    BY <2>1, <2>2 DEF IsWindow
<1> QED
  BY <1>16, <1>17 DEF w

(* The header of a patch carries its table, in any number of slots.        *)
THEOREM HeaderIsCarried == Spec => []HeaderCarriesTable
<1>1. HeaderCarriesTable
  <2>1. ASSUME NEW slots \in 1..PairBankCapacity
        PROVE  LET custom == CustomTable(solution.selected, slots)
               IN  /\ IsCanonical(TableBytes(custom), slots)
                   /\ IsWindow(DeltaWindow(custom, slots))
                   /\ Accepts(DeltaWindow(custom, slots))
    BY CanonicalBytes, DeltaReplays, Zenon
  <2> QED
    BY <2>1, Zenon DEF HeaderCarriesTable
<1> QED
  BY <1>1, PTL
=============================================================================
