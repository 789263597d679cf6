------------------------- MODULE IntegerDual_proof --------------------------
(***************************************************************************)
(* Proofs, for every window, number of slots, table and word size, that    *)
(* the bounds that integer_dual_adapter.py stores are bounds and that its  *)
(* successes are optima.  The argument is the weak duality of linear       *)
(* programs, here in integers: what a dual is worth is at most what a      *)
(* feasible candidate costs, and the best cover is a feasible candidate.   *)
(***************************************************************************)
EXTENDS IntegerDual, FiniteSetTheorems, WellFoundedInduction, SequenceTheorems, TLAPS

-----------------------------------------------------------------------------
(* Induction.                                                              *)

(* The naturals are well ordered.                                          *)
LEMMA LeastNumber ==
  ASSUME NEW T, T \subseteq Nat, T # {}
  PROVE  \E m \in T : \A n \in T : m <= n
<1> DEFINE less == OpToRel(<, Nat)
<1>1. PICK m \in T : \A n \in T : ~(<<n, m>> \in less)
  BY NatLessThanWellFounded, WFMin, Zenon
<1>2. ASSUME NEW n \in Nat, n < m PROVE <<n, m>> \in less
  BY <1>2 DEF OpToRel
<1> HIDE DEF less
<1>3. ASSUME NEW n \in T PROVE m <= n
  <2>1. ~(n < m)
    BY <1>1, <1>2
  <2> QED
    BY <2>1
<1> QED
  BY <1>3

(* The least of some naturals is one of them.                              *)
LEMMA MinNumber ==
  ASSUME NEW T, T \subseteq Nat, T # {}
  PROVE  Min(T) \in T /\ \A n \in T : Min(T) <= n
BY LeastNumber DEF Min

(* What holds of a set as soon as it holds of its proper subsets holds of  *)
(* every finite set.                                                       *)
LEMMA SubsetInduction ==
  ASSUME NEW S, IsFiniteSet(S), NEW G,
         ASSUME NEW T \in SUBSET S, \A U \in SUBSET T : U # T => U \in G
         PROVE  T \in G
  PROVE  \A T \in SUBSET S : T \in G
<1> DEFINE Bad == {T \in SUBSET S : T \notin G}
           Sizes == {Cardinality(T) : T \in Bad}
<1>1. SUFFICES ASSUME Bad # {} PROVE FALSE
  OBVIOUS
<1>2. \A T \in SUBSET S : IsFiniteSet(T) /\ Cardinality(T) \in Nat
  BY FS_Subset, FS_CardinalityType
<1>3. Sizes \subseteq Nat /\ Sizes # {}
  BY <1>1, <1>2
<1>4. PICK m \in Sizes : \A n \in Sizes : m <= n
  <2> HIDE DEF Sizes
  <2> QED
    BY <1>3, LeastNumber
<1>5. PICK T \in Bad : m = Cardinality(T)
  BY <1>4
<1>6. ASSUME NEW U \in SUBSET T, U # T PROVE U \in G
  <2>1. Cardinality(U) \in Nat /\ Cardinality(T) \in Nat /\ Cardinality(U) < Cardinality(T)
    BY <1>2, <1>6, FS_Subset
  <2>2. ~(m <= Cardinality(U))
    BY <1>5, <2>1
  <2> QED
    BY <1>4, <2>2
<1>7. T \in G
  BY <1>5, <1>6
<1> QED
  BY <1>5, <1>7

(* The same one element at a time.                                         *)
LEMMA ElementInduction ==
  ASSUME NEW S, IsFiniteSet(S), NEW G, {} \in G,
         ASSUME NEW T \in SUBSET S, NEW x \in T, T \ {x} \in G
         PROVE  T \in G
  PROVE  S \in G
<1>1. ASSUME NEW T \in SUBSET S, \A U \in SUBSET T : U # T => U \in G
      PROVE  T \in G
  <2>1. CASE T = {}
    BY <2>1
  <2>2. CASE T # {}
    <3>1. PICK x \in T : TRUE
      BY <2>2
    <3>2. T \ {x} \in SUBSET T /\ T \ {x} # T
      BY <3>1
    <3>3. T \ {x} \in G
      BY <1>1, <3>2
    <3> QED
      BY <3>3
  <2> QED
    BY <2>1, <2>2
<1>2. \A T \in SUBSET S : T \in G
  BY <1>1, SubsetInduction
<1> QED
  BY <1>2
-----------------------------------------------------------------------------
(* Sums, which the model takes from Functions.                             *)
Pick(s) == CHOOSE x \in s : TRUE

Adding(f, S, g) ==
  g = [s \in SUBSET S |-> IF s = {} THEN 0 ELSE f[Pick(s)] + g[s \ {Pick(s)}]]

(* The library's definition, in those words.                               *)
LEMMA SumDef ==
  \A f, S : SumFunctionOnSet(f, S) = (CHOOSE g : Adding(f, S, g))[S]
BY DEF SumFunctionOnSet, FoldFunctionOnSet, MapThenFoldSet, Adding, Pick

(* The sums of subsets do not depend on the set that they are subsets of.  *)
LEMMA SumsAgree ==
  ASSUME NEW f, NEW T, NEW U, NEW g, NEW h, IsFiniteSet(T),
         Adding(f, T, g), Adding(f, U, h)
  PROVE  \A s \in SUBSET (T \cap U) : g[s] = h[s]
<1> DEFINE E == {s \in SUBSET (T \cap U) : g[s] = h[s]}
<1>1. IsFiniteSet(T \cap U)
  BY FS_Subset
<1>2. ASSUME NEW s \in SUBSET (T \cap U), \A t \in SUBSET s : t # s => t \in E
      PROVE  s \in E
  <2>1. /\ g[s] = IF s = {} THEN 0 ELSE f[Pick(s)] + g[s \ {Pick(s)}]
        /\ h[s] = IF s = {} THEN 0 ELSE f[Pick(s)] + h[s \ {Pick(s)}]
    BY DEF Adding
  <2>2. CASE s = {}
    BY <2>1, <2>2
  <2>3. CASE s # {}
    <3>1. Pick(s) \in s
      BY <2>3 DEF Pick
    <3>2. s \ {Pick(s)} \in E
      BY <1>2, <3>1
    <3> QED
      BY <2>1, <3>2
  <2> QED
    BY <2>2, <2>3
<1> HIDE DEF E
<1>3. \A s \in SUBSET (T \cap U) : s \in E
  BY <1>1, <1>2, SubsetInduction
<1> QED
  BY <1>3 DEF E

(* The subsets of a finite set have sums.                                  *)
LEMMA SumsExist ==
  ASSUME NEW f, NEW S, IsFiniteSet(S)
  PROVE  \E g : Adding(f, S, g)
<1> DEFINE G == {T \in SUBSET S : \E g : Adding(f, T, g)}
           step(s, g) == IF s = {} THEN 0 ELSE f[Pick(s)] + g[s \ {Pick(s)}]
<1>1. \A T, g : Adding(f, T, g) <=> g = [s \in SUBSET T |-> step(s, g)]
  BY DEF Adding
<1>2. ASSUME NEW U, NEW g, Adding(f, U, g), NEW s \in SUBSET U
      PROVE  g[s] = step(s, g)
  BY <1>2 DEF Adding
<1>3. ASSUME NEW T \in SUBSET S, \A U \in SUBSET T : U # T => U \in G
      PROVE  T \in G
  <2> DEFINE of(U) == CHOOSE g : Adding(f, U, g)
             value(s) == IF s = T THEN step(T, of(T \ {Pick(T)})) ELSE of(s)[s]
             g == [s \in SUBSET T |-> value(s)]
  <2>1. ASSUME NEW U \in SUBSET T, U # T PROVE Adding(f, U, of(U))
    BY <1>3, <2>1
  <2>2. ASSUME NEW s \in SUBSET T PROVE value(s) = step(s, g)
    <3>1. CASE s = {}
      <4>1. CASE T = {}
        BY <3>1, <4>1
      <4>2. CASE T # {}
        <5>1. Adding(f, {}, of({}))
          BY <2>1, <4>2
        <5>2. of({})[{}] = step({}, of({}))
          <6> HIDE DEF of, step
          <6> QED
            BY <5>1, <1>2
        <5> QED
          BY <3>1, <4>2, <5>2
      <4> QED
        BY <4>1, <4>2
    <3>2. CASE s # {}
      <4> DEFINE t == s \ {Pick(s)}
      <4>1. Pick(s) \in s /\ t \in SUBSET s /\ t # s /\ t # T
        BY <3>2 DEF Pick
      <4>2. g[t] = of(t)[t]
        BY <4>1
      <4>3. Adding(f, t, of(t))
        BY <4>1, <2>1
      <4>4. value(s) = f[Pick(s)] + of(t)[t]
        <5>1. CASE s = T
          BY <5>1, <3>2
        <5>2. CASE s # T
          <6>1. Adding(f, s, of(s))
            BY <5>2, <2>1
          <6>2. of(s)[s] = step(s, of(s))
            <7> HIDE DEF of, step
            <7> QED
              BY <6>1, <1>2
          <6>3. IsFiniteSet(s)
            BY FS_Subset
          <6>4. of(s)[t] = of(t)[t]
            <7> HIDE DEF of, t
            <7> QED
              BY <4>1, <4>3, <6>1, <6>3, SumsAgree
          <6> QED
            BY <3>2, <5>2, <6>2, <6>4
        <5> QED
          BY <5>1, <5>2
      <4> QED
        BY <3>2, <4>2, <4>4
    <3> QED
      BY <3>1, <3>2
  <2>3. g = [s \in SUBSET T |-> value(s)]
    OBVIOUS
  <2> HIDE DEF g, value, step
  <2>4. g = [s \in SUBSET T |-> step(s, g)]
    BY <2>2, <2>3
  <2> QED
    BY <2>4, <1>1
<1> HIDE DEF G
<1>4. S \in G
  BY <1>3, SubsetInduction
<1> QED
  BY <1>4 DEF G

(* The sum of nothing, and of something by the element that is picked.     *)
LEMMA SumPick ==
  ASSUME NEW f, NEW S, IsFiniteSet(S)
  PROVE  SumFunctionOnSet(f, S) =
           IF S = {} THEN 0 ELSE f[Pick(S)] + SumFunctionOnSet(f, S \ {Pick(S)})
<1> DEFINE g == CHOOSE g : Adding(f, S, g)
           t == S \ {Pick(S)}
           h == CHOOSE h : Adding(f, t, h)
<1>1. SumFunctionOnSet(f, S) = g[S] /\ SumFunctionOnSet(f, t) = h[t]
  BY SumDef
<1>2. Adding(f, S, g)
  BY SumsExist
<1>3. IsFiniteSet(t)
  BY FS_Subset
<1>4. Adding(f, t, h)
  BY <1>3, SumsExist
<1> HIDE DEF g, h
<1>5. g[t] = h[t]
  BY <1>2, <1>4, SumsAgree
<1>6. g[S] = IF S = {} THEN 0 ELSE f[Pick(S)] + g[t]
  BY <1>2 DEF Adding
<1> QED
  BY <1>1, <1>5, <1>6

(* The sum of nothing.                                                     *)
LEMMA SumEmpty == \A f : SumFunctionOnSet(f, {}) = 0
BY SumPick, FS_EmptySet

(* Sums of integers are integers.                                          *)
LEMMA SumType ==
  ASSUME NEW S, IsFiniteSet(S), NEW f, \A x \in S : f[x] \in Int
  PROVE  SumFunctionOnSet(f, S) \in Int
<1> DEFINE E == {T \in SUBSET S : SumFunctionOnSet(f, T) \in Int}
<1>1. ASSUME NEW T \in SUBSET S, \A U \in SUBSET T : U # T => U \in E
      PROVE  T \in E
  <2>1. IsFiniteSet(T)
    BY FS_Subset
  <2>2. CASE T = {}
    BY <2>2, SumEmpty
  <2>3. CASE T # {}
    <3>1. Pick(T) \in T
      BY <2>3 DEF Pick
    <3>2. T \ {Pick(T)} \in E
      BY <1>1, <3>1
    <3>3. f[Pick(T)] \in Int
      BY <3>1
    <3>4. SumFunctionOnSet(f, T) = f[Pick(T)] + SumFunctionOnSet(f, T \ {Pick(T)})
      BY <2>1, <2>3, SumPick
    <3> QED
      BY <3>2, <3>3, <3>4
  <2> QED
    BY <2>2, <2>3
<1> HIDE DEF E
<1>2. \A T \in SUBSET S : T \in E
  BY <1>1, SubsetInduction
<1> QED
  BY <1>2 DEF E

(* A sum by any of its elements.                                           *)
LEMMA SumAdd ==
  ASSUME NEW S, IsFiniteSet(S), NEW f, \A x \in S : f[x] \in Int, NEW x \in S
  PROVE  SumFunctionOnSet(f, S) = f[x] + SumFunctionOnSet(f, S \ {x})
<1> DEFINE total(T) == SumFunctionOnSet(f, T)
           E == {T \in SUBSET S : \A y \in T : total(T) = f[y] + total(T \ {y})}
<1>1. ASSUME NEW T \in SUBSET S, \A U \in SUBSET T : U # T => U \in E
      PROVE  T \in E
  <2> SUFFICES ASSUME NEW y \in T PROVE total(T) = f[y] + total(T \ {y})
    OBVIOUS
  <2> DEFINE p == Pick(T)
             rest == T \ {p, y}
  <2>1. p \in T
    BY DEF Pick
  <2>2. total(T) = f[p] + total(T \ {p})
    <3>1. IsFiniteSet(T) /\ T # {}
      BY FS_Subset
    <3> QED
      BY <3>1, SumPick
  <2>3. CASE p = y
    BY <2>2, <2>3
  <2>4. CASE p # y
    <3>1. T \ {p} \in E /\ T \ {y} \in E
      BY <1>1, <2>1
    <3>2. /\ y \in T \ {p} /\ (T \ {p}) \ {y} = rest
          /\ p \in T \ {y} /\ (T \ {y}) \ {p} = rest
      BY <2>1, <2>4
    <3>3. total(T \ {p}) = f[y] + total(rest) /\ total(T \ {y}) = f[p] + total(rest)
      <4> HIDE DEF total, rest, p
      <4> QED
        BY <3>1, <3>2
    <3>4. f[p] \in Int /\ f[y] \in Int
      BY <2>1
    <3>5. total(rest) \in Int
      <4>1. IsFiniteSet(rest)
        BY FS_Subset
      <4> QED
        BY <4>1, SumType
    <3> HIDE DEF total, rest, p
    <3> QED
      BY <2>2, <3>3, <3>4, <3>5
  <2> QED
    BY <2>3, <2>4
<1> HIDE DEF E
<1>2. S \in E
  BY <1>1, SubsetInduction
<1> QED
  BY <1>2 DEF E

(* Sums of the same numbers are the same.                                  *)
LEMMA SumSame ==
  ASSUME NEW S, IsFiniteSet(S), NEW f, NEW g, \A x \in S : f[x] = g[x]
  PROVE  SumFunctionOnSet(f, S) = SumFunctionOnSet(g, S)
<1> DEFINE E == {T \in SUBSET S : SumFunctionOnSet(f, T) = SumFunctionOnSet(g, T)}
<1>1. ASSUME NEW T \in SUBSET S, \A U \in SUBSET T : U # T => U \in E
      PROVE  T \in E
  <2>1. IsFiniteSet(T)
    BY FS_Subset
  <2>2. CASE T = {}
    BY <2>2, SumEmpty
  <2>3. CASE T # {}
    <3>1. Pick(T) \in T
      BY <2>3 DEF Pick
    <3>2. T \ {Pick(T)} \in E
      BY <1>1, <3>1
    <3>3. f[Pick(T)] = g[Pick(T)]
      BY <3>1
    <3>4. /\ SumFunctionOnSet(f, T) = f[Pick(T)] + SumFunctionOnSet(f, T \ {Pick(T)})
          /\ SumFunctionOnSet(g, T) = g[Pick(T)] + SumFunctionOnSet(g, T \ {Pick(T)})
      BY <2>1, <2>3, SumPick
    <3> QED
      BY <3>2, <3>3, <3>4
  <2> QED
    BY <2>2, <2>3
<1> HIDE DEF E
<1>2. \A T \in SUBSET S : T \in E
  BY <1>1, SubsetInduction
<1> QED
  BY <1>2 DEF E

(* A sum of smaller numbers is smaller.                                    *)
LEMMA SumMonotone ==
  ASSUME NEW S, IsFiniteSet(S), NEW f, NEW g,
         \A x \in S : f[x] \in Int /\ g[x] \in Int /\ f[x] <= g[x]
  PROVE  SumFunctionOnSet(f, S) <= SumFunctionOnSet(g, S)
<1> DEFINE E == {T \in SUBSET S : SumFunctionOnSet(f, T) <= SumFunctionOnSet(g, T)}
<1>1. {} \in E
  BY SumEmpty
<1>2. ASSUME NEW T \in SUBSET S, NEW x \in T, T \ {x} \in E PROVE T \in E
  <2>1. IsFiniteSet(T) /\ IsFiniteSet(T \ {x})
    BY FS_Subset
  <2>2. /\ SumFunctionOnSet(f, T) = f[x] + SumFunctionOnSet(f, T \ {x})
        /\ SumFunctionOnSet(g, T) = g[x] + SumFunctionOnSet(g, T \ {x})
    BY <2>1, SumAdd
  <2>3. SumFunctionOnSet(f, T \ {x}) \in Int /\ SumFunctionOnSet(g, T \ {x}) \in Int
    BY <2>1, SumType
  <2>4. f[x] \in Int /\ g[x] \in Int /\ f[x] <= g[x]
    BY <1>2
  <2>5. SumFunctionOnSet(f, T \ {x}) <= SumFunctionOnSet(g, T \ {x})
    BY <1>2
  <2> QED
    BY <2>2, <2>3, <2>4, <2>5
<1> HIDE DEF E
<1>3. S \in E
  BY <1>1, <1>2, ElementInduction
<1> QED
  BY <1>3 DEF E

(* The sum of sums.                                                        *)
LEMMA SumPlus ==
  ASSUME NEW S, IsFiniteSet(S), NEW f, NEW g, NEW h,
         \A x \in S : f[x] \in Int /\ g[x] \in Int /\ h[x] = f[x] + g[x]
  PROVE  SumFunctionOnSet(h, S) = SumFunctionOnSet(f, S) + SumFunctionOnSet(g, S)
<1> DEFINE total(e, T) == SumFunctionOnSet(e, T)
           E == {T \in SUBSET S : total(h, T) = total(f, T) + total(g, T)}
<1>1. {} \in E
  BY SumEmpty
<1>2. ASSUME NEW T \in SUBSET S, NEW x \in T, T \ {x} \in E PROVE T \in E
  <2>1. IsFiniteSet(T) /\ IsFiniteSet(T \ {x})
    BY FS_Subset
  <2>2. \A y \in S : h[y] \in Int
    OBVIOUS
  <2>3. /\ total(f, T) = f[x] + total(f, T \ {x})
        /\ total(g, T) = g[x] + total(g, T \ {x})
        /\ total(h, T) = h[x] + total(h, T \ {x})
    BY <2>1, <2>2, SumAdd
  <2>4. total(f, T \ {x}) \in Int /\ total(g, T \ {x}) \in Int
    BY <2>1, SumType
  <2>5. f[x] \in Int /\ g[x] \in Int /\ h[x] = f[x] + g[x]
    BY <1>2
  <2>6. total(h, T \ {x}) = total(f, T \ {x}) + total(g, T \ {x})
    BY <1>2
  <2> HIDE DEF total
  <2>7. total(h, T) = total(f, T) + total(g, T)
    BY <2>3, <2>4, <2>5, <2>6
  <2> QED
    BY <2>7
<1> HIDE DEF E
<1>3. S \in E
  BY <1>1, <1>2, ElementInduction
<1> QED
  BY <1>3 DEF E

(* The sum of multiples.                                                   *)
LEMMA SumTimes ==
  ASSUME NEW S, IsFiniteSet(S), NEW f, NEW h, NEW c \in Int,
         \A x \in S : f[x] \in Int /\ h[x] = c * f[x]
  PROVE  SumFunctionOnSet(h, S) = c * SumFunctionOnSet(f, S)
<1> DEFINE total(e, T) == SumFunctionOnSet(e, T)
           E == {T \in SUBSET S : total(h, T) = c * total(f, T)}
<1>1. {} \in E
  BY SumEmpty
<1>2. ASSUME NEW T \in SUBSET S, NEW x \in T, T \ {x} \in E PROVE T \in E
  <2>1. IsFiniteSet(T) /\ IsFiniteSet(T \ {x})
    BY FS_Subset
  <2>2. \A y \in S : h[y] \in Int
    OBVIOUS
  <2>3. /\ total(f, T) = f[x] + total(f, T \ {x})
        /\ total(h, T) = h[x] + total(h, T \ {x})
    BY <2>1, <2>2, SumAdd
  <2>4. total(f, T \ {x}) \in Int
    BY <2>1, SumType
  <2>5. f[x] \in Int /\ h[x] = c * f[x]
    BY <1>2
  <2>6. total(h, T \ {x}) = c * total(f, T \ {x})
    BY <1>2
  <2> HIDE DEF total
  <2>7. ASSUME NEW a \in Int, NEW b \in Int PROVE c * (a + b) = c * a + c * b
    OBVIOUS
  <2>8. total(h, T) = c * total(f, T)
    BY <2>3, <2>4, <2>5, <2>6, <2>7
  <2> QED
    BY <2>8
<1> HIDE DEF E
<1>3. S \in E
  BY <1>1, <1>2, ElementInduction
<1> QED
  BY <1>3 DEF E

(* A sum of ones counts.                                                   *)
LEMMA SumCount ==
  ASSUME NEW S, IsFiniteSet(S), NEW U, NEW f,
         \A x \in S : f[x] = IF x \in U THEN 1 ELSE 0
  PROVE  SumFunctionOnSet(f, S) = Cardinality(S \cap U)
<1> DEFINE E == {T \in SUBSET S : SumFunctionOnSet(f, T) = Cardinality(T \cap U)}
<1>1. {} \in E
  BY SumEmpty, FS_EmptySet
<1>2. ASSUME NEW T \in SUBSET S, NEW x \in T, T \ {x} \in E PROVE T \in E
  <2>1. IsFiniteSet(T) /\ IsFiniteSet((T \ {x}) \cap U)
    BY FS_Subset
  <2>2. \A y \in S : f[y] \in Int
    OBVIOUS
  <2>3. SumFunctionOnSet(f, T) = f[x] + SumFunctionOnSet(f, T \ {x})
    BY <2>1, <2>2, SumAdd
  <2>4. SumFunctionOnSet(f, T \ {x}) = Cardinality((T \ {x}) \cap U)
    BY <1>2
  <2>5. Cardinality((T \ {x}) \cap U) \in Nat
    BY <2>1, FS_CardinalityType
  <2>6. CASE x \in U
    <3>1. T \cap U = ((T \ {x}) \cap U) \cup {x}
      BY <2>6
    <3>2. Cardinality(T \cap U) = Cardinality((T \ {x}) \cap U) + 1
      <4>1. x \notin (T \ {x}) \cap U
        OBVIOUS
      <4> QED
        BY <2>1, <3>1, <4>1, FS_AddElement
    <3>3. f[x] = 1
      BY <2>6
    <3> QED
      BY <2>3, <2>4, <2>5, <3>2, <3>3
  <2>7. CASE x \notin U
    <3>1. T \cap U = (T \ {x}) \cap U
      BY <2>7
    <3>2. f[x] = 0
      BY <2>7
    <3>3. SumFunctionOnSet(f, T) = Cardinality((T \ {x}) \cap U)
      BY <2>3, <2>4, <2>5, <3>2
    <3> QED
      BY <3>1, <3>3
  <2> QED
    BY <2>6, <2>7
<1> HIDE DEF E
<1>3. S \in E
  BY <1>1, <1>2, ElementInduction
<1> QED
  BY <1>3 DEF E

(* Leaving out what is not positive leaves no less.                        *)
LEMMA SumPart ==
  ASSUME NEW S, IsFiniteSet(S), NEW U \in SUBSET S, NEW f, \A x \in S : f[x] \in Int,
         \A x \in S \ U : f[x] <= 0
  PROVE  SumFunctionOnSet(f, S) <= SumFunctionOnSet(f, U)
<1> DEFINE total(T) == SumFunctionOnSet(f, T)
           E == {T \in SUBSET S : total(T) <= total(T \cap U)}
<1>1. {} \in E
  BY SumEmpty
<1>2. ASSUME NEW T \in SUBSET S, NEW x \in T, T \ {x} \in E PROVE T \in E
  <2>1. IsFiniteSet(T) /\ IsFiniteSet(T \ {x}) /\ IsFiniteSet(T \cap U)
        /\ IsFiniteSet((T \ {x}) \cap U)
    BY FS_Subset
  <2>2. total(T) = f[x] + total(T \ {x})
    BY <2>1, SumAdd
  <2>3. total(T \ {x}) <= total((T \ {x}) \cap U)
    BY <1>2
  <2>4. f[x] \in Int /\ total(T \ {x}) \in Int /\ total((T \ {x}) \cap U) \in Int
    BY <2>1, SumType
  <2>5. total(T) <= total(T \cap U)
    <3>1. CASE x \in U
      <4>1. (T \cap U) \ {x} = (T \ {x}) \cap U
        OBVIOUS
      <4>2. total(T \cap U) = f[x] + total((T \cap U) \ {x})
        BY <2>1, <3>1, SumAdd
      <4>3. total(T \cap U) = f[x] + total((T \ {x}) \cap U)
        BY <4>1, <4>2
      <4> HIDE DEF total
      <4> QED
        BY <2>2, <2>3, <2>4, <4>3
    <3>2. CASE x \notin U
      <4>1. T \cap U = (T \ {x}) \cap U /\ f[x] <= 0
        BY <3>2
      <4> HIDE DEF total
      <4> QED
        BY <2>2, <2>3, <2>4, <4>1, SMTT(30)
    <3> QED
      BY <3>1, <3>2
  <2> QED
    BY <2>5
<1> HIDE DEF E
<1>3. S \in E
  BY <1>1, <1>2, ElementInduction
<1>4. S \cap U = U
  OBVIOUS
<1> QED
  BY <1>3, <1>4 DEF E

(* A table of numbers has one sum, by rows and by columns.                 *)
LEMMA SumExchange ==
  ASSUME NEW S, NEW R, IsFiniteSet(S), IsFiniteSet(R), NEW m,
         \A x \in S, r \in R : m[x][r] \in Int
  PROVE  SumFunctionOnSet([x \in S |-> SumFunctionOnSet(m[x], R)], S)
           = SumFunctionOnSet([r \in R |-> SumFunctionOnSet([x \in S |-> m[x][r]], S)], R)
<1> DEFINE row == [x \in S |-> SumFunctionOnSet(m[x], R)]
           column(r) == [x \in S |-> m[x][r]]
           columns(T) == [r \in R |-> SumFunctionOnSet(column(r), T)]
           E == {T \in SUBSET S : SumFunctionOnSet(row, T) = SumFunctionOnSet(columns(T), R)}
<1>1. ASSUME NEW T \in SUBSET S PROVE \A r \in R : columns(T)[r] \in Int
  <2>1. IsFiniteSet(T)
    BY FS_Subset
  <2>2. ASSUME NEW r \in R PROVE SumFunctionOnSet(column(r), T) \in Int
    BY <2>1, SumType
  <2> HIDE DEF column
  <2> QED
    BY <2>2
<1>2. \A x \in S : row[x] \in Int
  <2> SUFFICES ASSUME NEW x \in S PROVE SumFunctionOnSet(m[x], R) \in Int
    OBVIOUS
  <2> QED
    BY SumType
<1>3. {} \in E
  <2> DEFINE zero == columns({})
  <2>1. \A r \in R : zero[r] = 0 * zero[r] /\ zero[r] \in Int
    BY SumEmpty
  <2> HIDE DEF zero
  <2>2. SumFunctionOnSet(zero, R) = 0 * SumFunctionOnSet(zero, R)
    BY <2>1, SumTimes
  <2>3. SumFunctionOnSet(zero, R) \in Int
    BY <2>1, SumType
  <2>4. SumFunctionOnSet(zero, R) = 0
    BY <2>2, <2>3
  <2> QED
    BY <2>4, SumEmpty DEF zero
<1>4. ASSUME NEW T \in SUBSET S, NEW x \in T, T \ {x} \in E PROVE T \in E
  <2>1. IsFiniteSet(T) /\ T \ {x} \in SUBSET S
    BY FS_Subset
  <2>2. SumFunctionOnSet(row, T) = row[x] + SumFunctionOnSet(row, T \ {x})
    BY <1>2, <2>1, SumAdd
  <2>3. ASSUME NEW r \in R PROVE columns(T)[r] = m[x][r] + columns(T \ {x})[r]
    <3>1. \A y \in T : column(r)[y] \in Int
      OBVIOUS
    <3>2. SumFunctionOnSet(column(r), T)
            = column(r)[x] + SumFunctionOnSet(column(r), T \ {x})
      <4> HIDE DEF column
      <4> QED
        BY <2>1, <3>1, SumAdd
    <3> QED
      BY <3>2
  <2>4. \A r \in R : columns(T \ {x})[r] \in Int
    BY <1>1, <2>1
  <2>5. SumFunctionOnSet(columns(T), R)
          = SumFunctionOnSet(m[x], R) + SumFunctionOnSet(columns(T \ {x}), R)
    <3> DEFINE f == m[x]
               g == columns(T \ {x})
               h == columns(T)
    <3>1. \A r \in R : f[r] \in Int /\ g[r] \in Int /\ h[r] = f[r] + g[r]
      BY <2>3, <2>4
    <3> HIDE DEF f, g, h
    <3>2. SumFunctionOnSet(h, R) = SumFunctionOnSet(f, R) + SumFunctionOnSet(g, R)
      BY <3>1, SumPlus
    <3> QED
      BY <3>2 DEF f, g, h
  <2>6. row[x] = SumFunctionOnSet(m[x], R)
    OBVIOUS
  <2>7. SumFunctionOnSet(row, T \ {x}) = SumFunctionOnSet(columns(T \ {x}), R)
    BY <1>4
  <2> HIDE DEF row, columns
  <2>8. SumFunctionOnSet(row, T) = SumFunctionOnSet(columns(T), R)
    BY <2>2, <2>5, <2>6, <2>7
  <2> QED
    BY <2>8
<1> HIDE DEF E, row, columns
<1>5. S \in E
  BY <1>3, <1>4, ElementInduction
<1> QED
  BY <1>5 DEF E, row, columns
-----------------------------------------------------------------------------
(* What a program is.                                                      *)

(* The image of a finite set is finite.                                    *)
LEMMA ImageFinite ==
  ASSUME NEW S, IsFiniteSet(S), NEW f
  PROVE  IsFiniteSet({f[x] : x \in S})
<1> DEFINE T == {f[x] : x \in S}
           g == [x \in S |-> f[x]]
<1>1. g \in Surjection(S, T)
  BY DEF Surjection
<1> HIDE DEF T, g
<1>2. IsFiniteSet(T)
  BY <1>1, FS_Surjection
<1> QED
  BY <1>2 DEF T

(* What using an entry costs is a number of bytes.                         *)
LEMMA BestCostType ==
  ASSUME NEW table, NEW opcodes, NEW atoms, Matching(table, opcodes, atoms) # {}
  PROVE  BestCost(table, opcodes, atoms) \in Nat
<1>1. ASSUME NEW n PROVE VarintSize(n) \in Nat
  <2> DEFINE K == {k \in 1..DigitLimit : n >= Base ^ k}
  <2>1. IsFiniteSet(1..DigitLimit)
    BY VarintAssumption, FS_Interval DEF VarintAssumption
  <2>2. IsFiniteSet(K)
    BY <2>1, FS_Subset
  <2>3. Cardinality(K) \in Nat
    BY <2>2, FS_CardinalityType
  <2> QED
    BY <2>3 DEF VarintSize
<1>2. \A size, atom : HalfCost(size, atom) \in Nat
  BY <1>1 DEF HalfCost
<1>3. \A entry : EntryCost(entry, atoms) \in Nat
  <2> SUFFICES ASSUME NEW entry PROVE EntryCost(entry, atoms) \in Nat
    OBVIOUS
  <2>1. HalfCost(entry.size1, atoms[1]) \in Nat /\ HalfCost(entry.size2, atoms[2]) \in Nat
    BY <1>2
  <2> QED
    BY <2>1 DEF EntryCost
<1> DEFINE costs == {EntryCost(table[op], atoms) : op \in Matching(table, opcodes, atoms)}
<1>4. costs \subseteq Nat /\ costs # {}
  BY <1>3
<1> HIDE DEF costs
<1>5. Min(costs) \in Nat
  BY <1>4, MinNumber
<1> QED
  BY <1>5 DEF BestCost, costs

(* The edges of optimizer.py: 288-334 lie in the window, and every         *)
(* instruction has one of its own without a pattern.                       *)
EdgesFit(length, edges) ==
  /\ IsFiniteSet(edges)
  /\ \A e \in edges : /\ e.start \in 1..length /\ e.width \in {1, 2}
                      /\ e.start + e.width <= length + 1
                      /\ e.cost \in Nat
  /\ \A i \in 1..length :
       \E e \in edges : e.start = i /\ e.width = 1 /\ e.pattern = NoPattern

(* So do the edges of every problem.                                       *)
LEMMA FixedEdgesFit ==
  ASSUME NEW p \in Problems
  PROVE  Len(p.window) \in Nat /\ EdgesFit(Len(p.window), FixedEdges(p.window, p.slots))
<1> DEFINE window == p.window
           opcodes == BaseOpcodes(p.slots)
           spans == Spans(window)
           Available(span) == Matching(DefaultTable, opcodes, Covered(window, span))
           Cost(span) == BestCost(DefaultTable, opcodes, Covered(window, span))
           usable == {s \in spans : Available(s) # {}}
           gainful == {s \in spans : /\ Covered(window, s) \in ObservedPatterns(window)
                                     /\ Available(s) # {} => Cost(s) > 1}
           plain(span) == Edge(span, Cost(span), NoPattern, Never)
           installed(span) == Edge(span, 1, Covered(window, span), Never)
           edges == FixedEdges(window, p.slots)
<1>1. edges = {plain(s) : s \in usable} \cup {installed(s) : s \in gainful}
  BY DEF FixedEdges
<1>2. Len(window) \in Nat
  BY DualAssumption, LenProperties DEF DualAssumption
<1>3. IsFiniteSet(spans)
  <2>1. IsFiniteSet(1..Len(window)) /\ IsFiniteSet({1, 2})
    <3>1. IsFiniteSet({1} \cup {2})
      BY FS_Singleton, FS_Union
    <3>2. {1} \cup {2} = {1, 2}
      OBVIOUS
    <3> QED
      BY <1>2, <3>1, <3>2, FS_Interval
  <2>2. IsFiniteSet((1..Len(window)) \X {1, 2})
    BY <2>1, FS_Product
  <2> QED
    BY <2>2, FS_Subset DEF Spans
<1>4. ASSUME NEW s \in spans
      PROVE  /\ s[1] \in 1..Len(window) /\ s[2] \in {1, 2}
             /\ s[1] + s[2] <= Len(window) + 1
  BY <1>4 DEF Spans
<1>5. \A s \in usable : Cost(s) \in Nat
  BY BestCostType
<1>6. IsFiniteSet(edges)
  <2> DEFINE f == [s \in usable |-> plain(s)]
             g == [s \in gainful |-> installed(s)]
             P == {f[s] : s \in usable}
             Q == {g[s] : s \in gainful}
  <2>1. edges = P \cup Q
    BY <1>1
  <2>2. IsFiniteSet(usable) /\ IsFiniteSet(gainful)
    BY <1>3, FS_Subset
  <2> HIDE DEF f, g, usable, gainful, edges
  <2>3. IsFiniteSet(P) /\ IsFiniteSet(Q)
    BY <2>2, ImageFinite
  <2> HIDE DEF P, Q
  <2>4. IsFiniteSet(P \cup Q)
    BY <2>3, FS_Union
  <2> QED
    BY <2>1, <2>4
<1>7. ASSUME NEW e \in edges
      PROVE  /\ e.start \in 1..Len(window) /\ e.width \in {1, 2}
             /\ e.start + e.width <= Len(window) + 1
             /\ e.cost \in Nat
  <2>1. ASSUME NEW s \in usable, e = plain(s)
        PROVE  e.start = s[1] /\ e.width = s[2] /\ e.cost \in Nat
    BY <1>5, <2>1 DEF Edge
  <2>2. ASSUME NEW s \in gainful, e = installed(s)
        PROVE  e.start = s[1] /\ e.width = s[2] /\ e.cost \in Nat
    BY <2>2 DEF Edge
  <2>3. \E s \in spans : e.start = s[1] /\ e.width = s[2] /\ e.cost \in Nat
    <3> HIDE DEF edges, plain, installed, spans, Available, Cost
    <3> QED
      BY <1>1, <1>7, <2>1, <2>2
  <2> HIDE DEF spans, edges
  <2> QED
    BY <1>4, <2>3
<1>8. ASSUME NEW i \in 1..Len(window)
      PROVE  \E e \in edges : e.start = i /\ e.width = 1 /\ e.pattern = NoPattern
  <2> DEFINE s == <<i, 1>>
  <2>1. s \in spans
    BY <1>2 DEF Spans
  <2>2. Available(s) # {}
    BY DualAssumption DEF DualAssumption
  <2>3. plain(s) \in edges
    BY <1>1, <2>1, <2>2
  <2>4. plain(s).start = i /\ plain(s).width = 1 /\ plain(s).pattern = NoPattern
    BY DEF Edge
  <2> HIDE DEF plain, edges
  <2> QED
    BY <2>3, <2>4
<1> HIDE DEF edges
<1> QED
  BY <1>2, <1>6, <1>7, <1>8 DEF EdgesFit, edges

(* The elements of sequences that are joined.                              *)
LEMMA RangeOfJoin ==
  ASSUME NEW S, NEW s \in Seq(S), NEW t \in Seq(S)
  PROVE  s \o t \in Seq(S) /\ Range(s \o t) = Range(s) \cup Range(t)
<1> DEFINE m == Len(s)
           n == Len(t)
           st == s \o t
<1>1. m \in Nat /\ n \in Nat /\ DOMAIN s = 1..m /\ DOMAIN t = 1..n
  BY LenProperties
<1>2. st \in Seq(S) /\ DOMAIN st = 1..(m + n)
  <2>1. st \in Seq(S) /\ Len(st) = m + n
    BY ConcatProperties
  <2> QED
    BY <2>1, LenProperties
<1>3. \A i \in 1..(m + n) : st[i] = IF i <= m THEN s[i] ELSE t[i - m]
  BY ConcatProperties
<1> HIDE DEF m, n, st
<1>4. \A i \in 1..m : s[i] = st[i] /\ i \in 1..(m + n)
  BY <1>1, <1>3
<1>5. \A i \in 1..n : t[i] = st[m + i] /\ m + i \in 1..(m + n)
  <2> SUFFICES ASSUME NEW i \in 1..n PROVE t[i] = st[m + i] /\ m + i \in 1..(m + n)
    OBVIOUS
  <2>1. m + i \in 1..(m + n) /\ ~(m + i <= m) /\ (m + i) - m = i
    BY <1>1
  <2> QED
    BY <1>3, <2>1
<1>6. \A i \in 1..(m + n) : (i \in 1..m /\ st[i] = s[i])
                              \/ (i - m \in 1..n /\ st[i] = t[i - m])
  <2> SUFFICES ASSUME NEW i \in 1..(m + n)
               PROVE  (i \in 1..m /\ st[i] = s[i]) \/ (i - m \in 1..n /\ st[i] = t[i - m])
    OBVIOUS
  <2>1. CASE i <= m
    BY <1>1, <1>3, <2>1
  <2>2. CASE ~(i <= m)
    BY <1>1, <1>3, <2>2
  <2> QED
    BY <2>1, <2>2
<1>7. Range(st) = Range(s) \cup Range(t)
  <2>1. Range(st) \subseteq Range(s) \cup Range(t)
    BY <1>1, <1>2, <1>6 DEF Range
  <2>2. Range(s) \subseteq Range(st)
    BY <1>1, <1>2, <1>4 DEF Range
  <2>3. Range(t) \subseteq Range(st)
    BY <1>1, <1>2, <1>5 DEF Range
  <2> QED
    BY <2>1, <2>2, <2>3
<1> QED
  BY <1>2, <1>7 DEF st

(* SetToSeq lists a finite set.                                            *)
LEMMA SetListed ==
  ASSUME NEW S, IsFiniteSet(S)
  PROVE  SetToSeq(S) \in Seq(S) /\ Range(SetToSeq(S)) = S
<1> DEFINE n == Cardinality(S)
           f == SetToSeq(S)
<1>1. n \in Nat /\ ExistsBijection(1..n, S)
  BY FS_CardinalityType
<1>2. \E g \in [1..n -> S] : IsInjective(g)
  BY <1>1 DEF ExistsBijection, Bijection, Injection
<1>3. f \in [1..n -> S] /\ IsInjective(f)
  <2> HIDE DEF n
  <2>1. f = CHOOSE g \in [1..n -> S] : IsInjective(g)
    BY DEF SetToSeq, n
  <2> HIDE DEF f
  <2> QED
    BY <1>2, <2>1
<1> HIDE DEF f
<1>4. f \in Seq(S)
  BY <1>1, <1>3
<1>5. f \in Surjection(1..n, S)
  <2>1. f \in Injection(1..n, S)
    BY <1>3 DEF Injection
  <2>2. Cardinality(1..n) = n
    BY <1>1, FS_Interval
  <2> QED
    BY <2>1, <2>2, FS_Injection
<1>6. Range(f) = S
  BY <1>3, <1>5 DEF Range, Surjection
<1> QED
  BY <1>4, <1>6 DEF f

(* A program: its columns and rows, as _standardize leaves them            *)
(* (integer_dual_adapter.py: 153-278), in whatever order.                  *)
Uses(edges) == {e \in edges : e.pattern # NoPattern}

EqualityRows(length, slots) ==
  {Row("cover", i, 1) : i \in 1..length}
    \cup (IF slots = 1 THEN {Row("at most", "all", 1)} ELSE {})

InequalityRows(edges, slots) ==
  {Row("link", e, 0) : e \in Uses(edges)}
    \cup (IF slots = 1 THEN {} ELSE {Row("at most", "all", slots), Row("at least", "all", -1)})

IsProgram(P) ==
  /\ P.slots \in Nat \ {0}
  /\ P.length \in Nat
  /\ EdgesFit(P.length, P.edges)
  /\ Patterns(P.edges) # {}
  /\ P.columns = P.edges \cup {Choice(p) : p \in Patterns(P.edges)}
  /\ P.eq \in Seq(Range(P.eq)) /\ Range(P.eq) = EqualityRows(P.length, P.slots)
  /\ P.ub \in Seq(Range(P.ub)) /\ Range(P.ub) = InequalityRows(P.edges, P.slots)

(* The equalities of a window.                                             *)
LEMMA EqualitiesListed ==
  ASSUME NEW window, Len(window) \in Nat, NEW slots
  PROVE  LET eq == Equalities(window, slots)
             rows == EqualityRows(Len(window), slots)
         IN  eq \in Seq(rows) /\ Range(eq) = rows
<1> DEFINE n == Len(window)
           rows == EqualityRows(n, slots)
           covers == [i \in 1..n |-> Row("cover", i, 1)]
           last == Row("at most", "all", 1)
           more == IF slots = 1 THEN <<last>> ELSE <<>>
<1> HIDE DEF n
<1>1. n \in Nat
  BY DEF n
<1>2. rows = {Row("cover", i, 1) : i \in 1..n} \cup (IF slots = 1 THEN {last} ELSE {})
  BY DEF EqualityRows
<1> HIDE DEF rows
<1>3. covers \in Seq(rows) /\ Range(covers) = {Row("cover", i, 1) : i \in 1..n}
  <2>1. \A i \in 1..n : Row("cover", i, 1) \in rows
    BY <1>2
  <2>2. covers \in Seq(rows)
    BY <1>1, <2>1
  <2>3. Range(covers) = {Row("cover", i, 1) : i \in 1..n}
    BY DEF Range
  <2> QED
    BY <2>2, <2>3
<1>4. more \in Seq(rows) /\ Range(more) = IF slots = 1 THEN {last} ELSE {}
  <2> HIDE DEF last
  <2>1. CASE slots = 1
    <3>1. last \in rows
      BY <1>2, <2>1
    <3>2. <<last>> \in Seq(rows) /\ Range(<<last>>) = {last}
      BY <3>1 DEF Range
    <3> QED
      BY <2>1, <3>2
  <2>2. CASE slots # 1
    BY <2>2 DEF Range
  <2> QED
    BY <2>1, <2>2
<1>5. Equalities(window, slots) = covers \o more
  BY DEF Equalities, n
<1> HIDE DEF covers, more
<1>6. covers \o more \in Seq(rows) /\ Range(covers \o more) = rows
  <2>1. covers \in Seq(rows) /\ more \in Seq(rows)
    BY <1>3, <1>4
  <2>2. /\ covers \o more \in Seq(rows)
        /\ Range(covers \o more) = Range(covers) \cup Range(more)
    BY <2>1, RangeOfJoin
  <2>3. Range(covers) \cup Range(more) = rows
    BY <1>2, <1>3, <1>4, Zenon
  <2> QED
    BY <2>2, <2>3
<1> QED
  BY <1>5, <1>6 DEF rows, n

(* The inequalities of edges.                                              *)
LEMMA InequalitiesListed ==
  ASSUME NEW edges, IsFiniteSet(edges), NEW slots
  PROVE  LET ub == Inequalities(edges, slots)
             rows == InequalityRows(edges, slots)
         IN  ub \in Seq(rows) /\ Range(ub) = rows
<1> DEFINE S == Uses(edges)
           uses == SetToSeq(S)
           n == Len(uses)
           rows == InequalityRows(edges, slots)
           links == [i \in 1..n |-> Row("link", uses[i], 0)]
           most == Row("at most", "all", slots)
           least == Row("at least", "all", -1)
           first == IF slots = 1 THEN <<>> ELSE <<most, least>>
<1>1. uses \in Seq(S) /\ Range(uses) = S
  <2>1. IsFiniteSet(S)
    BY FS_Subset DEF Uses
  <2> QED
    BY <2>1, SetListed
<1>2. Inequalities(edges, slots) = first \o links
  BY DEF Inequalities, Uses
<1>3. rows = {Row("link", e, 0) : e \in S} \cup (IF slots = 1 THEN {} ELSE {most, least})
  BY DEF InequalityRows
<1> HIDE DEF S, uses, rows
<1>4. n \in Nat /\ DOMAIN uses = 1..n
  BY <1>1, LenProperties
<1>5. links \in Seq(rows) /\ Range(links) = {Row("link", e, 0) : e \in S}
  <2>1. \A i \in 1..n : uses[i] \in S
    BY <1>1, <1>4 DEF Range
  <2>2. \A e \in S : \E i \in 1..n : e = uses[i]
    BY <1>1, <1>4 DEF Range
  <2> HIDE DEF n
  <2>3. \A i \in 1..n : Row("link", uses[i], 0) \in rows
    BY <1>3, <2>1
  <2>4. links \in Seq(rows)
    BY <1>4, <2>3
  <2>5. Range(links) = {Row("link", e, 0) : e \in S}
    BY <2>1, <2>2 DEF Range
  <2> QED
    BY <2>4, <2>5
<1>6. first \in Seq(rows) /\ Range(first) = IF slots = 1 THEN {} ELSE {most, least}
  <2> HIDE DEF most, least
  <2>1. CASE slots # 1
    <3>1. most \in rows /\ least \in rows
      BY <1>3, <2>1
    <3>2. <<most, least>> \in Seq(rows)
      BY <3>1
    <3>3. Range(<<most, least>>) = {most, least}
      BY DEF Range
    <3> QED
      BY <2>1, <3>2, <3>3
  <2>2. CASE slots = 1
    BY <2>2 DEF Range
  <2> QED
    BY <2>1, <2>2
<1> HIDE DEF links, first
<1>7. first \o links \in Seq(rows) /\ Range(first \o links) = rows
  <2>1. first \in Seq(rows) /\ links \in Seq(rows)
    BY <1>5, <1>6
  <2>2. /\ first \o links \in Seq(rows)
        /\ Range(first \o links) = Range(first) \cup Range(links)
    BY <2>1, RangeOfJoin
  <2>3. Range(first) \cup Range(links) = rows
    BY <1>3, <1>5, <1>6, Zenon
  <2> QED
    BY <2>2, <2>3
<1> QED
  BY <1>2, <1>7 DEF rows

(* What the problems give are programs.                                    *)
LEMMA StandardizeGives ==
  ASSUME NEW p \in Problems
  PROVE  IsProgram(Standardize(p.window, p.slots, FixedEdges(p.window, p.slots)))
<1> DEFINE window == p.window
           slots == p.slots
           edges == FixedEdges(window, slots)
           eq == Equalities(window, slots)
           ub == Inequalities(edges, slots)
           P == Standardize(window, slots, edges)
<1>1. Len(window) \in Nat /\ EdgesFit(Len(window), edges)
  BY FixedEdgesFit
<1>2. slots \in Nat \ {0} /\ Patterns(edges) # {}
  BY DualAssumption DEF DualAssumption
<1> HIDE DEF window, slots, edges
<1>3. eq \in Seq(Range(eq)) /\ Range(eq) = EqualityRows(Len(window), slots)
  BY <1>1, EqualitiesListed
<1>4. ub \in Seq(Range(ub)) /\ Range(ub) = InequalityRows(edges, slots)
  BY <1>1, InequalitiesListed DEF EdgesFit
<1>5. /\ P.slots = slots /\ P.edges = edges /\ P.length = Len(window)
      /\ P.columns = edges \cup {Choice(q) : q \in Patterns(edges)}
      /\ P.eq = eq /\ P.ub = ub
  BY DEF Standardize
<1> HIDE DEF P, eq, ub
<1>6. IsProgram(P)
  BY <1>1, <1>2, <1>3, <1>4, <1>5 DEF IsProgram
<1> QED
  BY <1>6 DEF P, window, slots, edges
-----------------------------------------------------------------------------
(* Weak duality.                                                           *)

(* The patterns, the columns and the rows of a program are finitely many.  *)
LEMMA ProgramFinite ==
  ASSUME NEW P, IsProgram(P)
  PROVE  /\ IsFiniteSet(Patterns(P.edges)) /\ IsFiniteSet(P.columns)
         /\ IsFiniteSet(DOMAIN P.eq) /\ IsFiniteSet(DOMAIN P.ub)
         /\ DOMAIN P.eq = 1..Len(P.eq) /\ DOMAIN P.ub = 1..Len(P.ub)
<1> DEFINE patterns == Patterns(P.edges)
<1>1. IsFiniteSet(P.edges)
  BY DEF IsProgram, EdgesFit
<1>2. IsFiniteSet(patterns)
  <2> DEFINE f == [e \in P.edges |-> e.pattern]
  <2>1. IsFiniteSet({f[e] : e \in P.edges})
    BY <1>1, ImageFinite
  <2>2. patterns \subseteq {f[e] : e \in P.edges}
    BY DEF Patterns
  <2> QED
    BY <2>1, <2>2, FS_Subset
<1>3. IsFiniteSet(P.columns)
  <2> DEFINE f == [p \in patterns |-> Choice(p)]
             choices == {f[p] : p \in patterns}
  <2>1. P.columns = P.edges \cup choices
    BY DEF IsProgram
  <2> HIDE DEF f, patterns
  <2>2. IsFiniteSet(choices)
    BY <1>2, ImageFinite
  <2> HIDE DEF choices
  <2> QED
    BY <1>1, <2>1, <2>2, FS_Union
<1>4. ASSUME NEW s, s \in Seq(Range(s))
      PROVE  DOMAIN s = 1..Len(s) /\ IsFiniteSet(DOMAIN s)
  BY <1>4, LenProperties, FS_Interval
<1>5. P.eq \in Seq(Range(P.eq)) /\ P.ub \in Seq(Range(P.ub))
  BY DEF IsProgram
<1> QED
  BY <1>2, <1>3, <1>4, <1>5

(* What is in a row.                                                       *)
LEMMA RowFields ==
  \A is, of, rhs : /\ Row(is, of, rhs).is = is
                   /\ Row(is, of, rhs).of = of
                   /\ Row(is, of, rhs).rhs = rhs
BY DEF Row

(* Rows have coefficients that are integers, and so are their limits.      *)
IsRow(row) ==
  /\ \/ row.is = "cover" \/ row.is = "at most"
     \/ row.is = "at least" \/ row.is = "link"
  /\ row.rhs \in Int

(* The rows of a program are of these kinds.                               *)
LEMMA RowsAre ==
  ASSUME NEW P, IsProgram(P)
  PROVE  /\ \A r \in DOMAIN P.eq : IsRow(P.eq[r])
         /\ \A r \in DOMAIN P.ub : IsRow(P.ub[r])
<1>1. ASSUME NEW is, NEW of, NEW rhs \in Int,
             is = "cover" \/ is = "at most" \/ is = "at least" \/ is = "link"
      PROVE  IsRow(Row(is, of, rhs))
  <2>1. Row(is, of, rhs).is = is /\ Row(is, of, rhs).rhs = rhs
    BY DEF Row
  <2> QED
    BY <1>1, <2>1, Zenon DEF IsRow
<1>2. 1 \in Int /\ -1 \in Int /\ 0 \in Int /\ P.slots \in Int
  BY DEF IsProgram
<1>3. \A row \in EqualityRows(P.length, P.slots) : IsRow(row)
  <2> SUFFICES ASSUME NEW row \in EqualityRows(P.length, P.slots) PROVE IsRow(row)
    OBVIOUS
  <2>1. \/ row = Row("at most", "all", 1)
        \/ \E i \in 1..P.length : row = Row("cover", i, 1)
    BY Zenon DEF EqualityRows
  <2> QED
    BY <1>1, <1>2, <2>1, Zenon
<1>4. \A row \in InequalityRows(P.edges, P.slots) : IsRow(row)
  <2> SUFFICES ASSUME NEW row \in InequalityRows(P.edges, P.slots) PROVE IsRow(row)
    OBVIOUS
  <2>1. \/ row = Row("at most", "all", P.slots)
        \/ row = Row("at least", "all", -1)
        \/ \E e \in Uses(P.edges) : row = Row("link", e, 0)
    BY Zenon DEF InequalityRows
  <2> QED
    BY <1>1, <1>2, <2>1, Zenon
<1>5. /\ Range(P.eq) = EqualityRows(P.length, P.slots)
      /\ Range(P.ub) = InequalityRows(P.edges, P.slots)
  BY DEF IsProgram
<1>6. /\ \A r \in DOMAIN P.eq : P.eq[r] \in Range(P.eq)
      /\ \A r \in DOMAIN P.ub : P.ub[r] \in Range(P.ub)
  BY DEF Range
<1> QED
  BY <1>3, <1>4, <1>5, <1>6

(* The numbers of a program are integers.                                  *)
LEMMA ProgramNumbers ==
  ASSUME NEW P, IsProgram(P)
  PROVE  /\ \A v \in P.columns : v.cost \in Nat
         /\ \A r \in DOMAIN P.eq :
              P.eq[r].rhs \in Int /\ \A v : Coefficient(P.eq[r], v) \in Int
         /\ \A r \in DOMAIN P.ub :
              P.ub[r].rhs \in Int /\ \A v : Coefficient(P.ub[r], v) \in Int
<1>1. ASSUME NEW v \in P.columns PROVE v.cost \in Nat
  <2>1. CASE v \in P.edges
    BY <2>1 DEF IsProgram, EdgesFit
  <2>2. ASSUME NEW p, v = Choice(p) PROVE v.cost \in Nat
    BY <2>2 DEF Choice, Edge
  <2> QED
    BY <2>1, <2>2 DEF IsProgram
<1>2. \A c : Is(c) \in Int
  BY DEF Is
<1>3. ASSUME NEW row, IsRow(row), NEW v
      PROVE  Coefficient(row, v) \in Int
  <2> DEFINE a == Is(row.of \in v.start..(v.start + v.width - 1))
             b == Is(IsChoice(v))
             c == Is(v = row.of)
             d == Is(v = Choice(row.of.pattern))
  <2>1. Coefficient(row, v) \in {a, b, -b, c - d}
    BY <1>3, Zenon DEF Coefficient, IsRow
  <2>2. a \in Int /\ b \in Int /\ c \in Int /\ d \in Int
    BY <1>2
  <2> HIDE DEF a, b, c, d
  <2> QED
    BY <2>1, <2>2
<1>4. \A row : IsRow(row) => row.rhs \in Int
  BY DEF IsRow
<1> QED
  BY <1>1, <1>3, <1>4, RowsAre

(* The products of the columns of a candidate come to those of its rows.   *)
LEMMA ProductExchange ==
  ASSUME NEW C, IsFiniteSet(C), NEW rows, IsFiniteSet(DOMAIN rows), NEW dual,
         \A r \in DOMAIN rows : dual[r] \in Int /\ \A v : Coefficient(rows[r], v) \in Int
  PROVE  /\ \A v : Product(rows, dual, v) \in Int
         /\ \A r \in DOMAIN rows : Activity(rows[r], C) \in Int
         /\ SumFunctionOnSet([v \in C |-> Product(rows, dual, v)], C)
              = SumFunctionOnSet([r \in DOMAIN rows |-> Activity(rows[r], C) * dual[r]],
                                 DOMAIN rows)
<1> DEFINE D == DOMAIN rows
           products(v) == [r \in D |-> Coefficient(rows[r], v) * dual[r]]
           coefficients(r) == [v \in C |-> Coefficient(rows[r], v)]
           m == [v \in C |-> products(v)]
           column(r) == [v \in C |-> m[v][r]]
<1>1. \A v : Product(rows, dual, v) = SumFunctionOnSet(products(v), D)
  BY DEF Product, SumFunction
<1>2. \A r : Activity(rows[r], C) = SumFunctionOnSet(coefficients(r), C)
  BY DEF Activity, SumFunction
<1>3. ASSUME NEW v PROVE SumFunctionOnSet(products(v), D) \in Int
  <2>1. \A r \in D : products(v)[r] \in Int
    OBVIOUS
  <2> HIDE DEF products, D
  <2> QED
    BY <2>1, SumType DEF D
<1>4. ASSUME NEW r \in D
      PROVE  /\ SumFunctionOnSet(coefficients(r), C) \in Int
             /\ SumFunctionOnSet(column(r), C)
                  = SumFunctionOnSet(coefficients(r), C) * dual[r]
  <2> DEFINE f == coefficients(r)
             h == column(r)
  <2>1. \A v \in C : f[v] \in Int /\ h[v] = dual[r] * f[v]
    OBVIOUS
  <2> HIDE DEF f, h
  <2>2. SumFunctionOnSet(f, C) \in Int
    BY <2>1, SumType
  <2>3. SumFunctionOnSet(h, C) = dual[r] * SumFunctionOnSet(f, C)
    BY <2>1, SumTimes
  <2>4. dual[r] * SumFunctionOnSet(f, C) = SumFunctionOnSet(f, C) * dual[r]
    BY <2>2
  <2> QED
    BY <2>2, <2>3, <2>4 DEF f, h
<1>5. SumFunctionOnSet([v \in C |-> SumFunctionOnSet(m[v], D)], C)
        = SumFunctionOnSet([r \in D |-> SumFunctionOnSet(column(r), C)], D)
  <2>1. \A v \in C, r \in D : m[v][r] \in Int
    OBVIOUS
  <2> HIDE DEF m, D
  <2> QED
    BY <2>1, SumExchange DEF D
<1>6. SumFunctionOnSet([v \in C |-> Product(rows, dual, v)], C)
        = SumFunctionOnSet([v \in C |-> SumFunctionOnSet(m[v], D)], C)
  <2> DEFINE f == [v \in C |-> Product(rows, dual, v)]
             g == [v \in C |-> SumFunctionOnSet(m[v], D)]
  <2>1. \A v \in C : f[v] = g[v]
    BY <1>1
  <2> HIDE DEF f, g
  <2>2. SumFunctionOnSet(f, C) = SumFunctionOnSet(g, C)
    BY <2>1, SumSame
  <2> QED
    BY <2>2 DEF f, g
<1>7. SumFunctionOnSet([r \in D |-> SumFunctionOnSet(column(r), C)], D)
        = SumFunctionOnSet([r \in D |-> Activity(rows[r], C) * dual[r]], D)
  <2> DEFINE f == [r \in D |-> SumFunctionOnSet(column(r), C)]
             g == [r \in D |-> Activity(rows[r], C) * dual[r]]
  <2>1. \A r \in D : f[r] = g[r]
    BY <1>2, <1>4
  <2> HIDE DEF f, g, D
  <2>2. SumFunctionOnSet(f, D) = SumFunctionOnSet(g, D)
    BY <2>1, SumSame DEF D
  <2> QED
    BY <2>2 DEF f, g
<1> HIDE DEF m, column
<1> QED
  BY <1>1, <1>2, <1>3, <1>4, <1>5, <1>6, <1>7

(* The better bound of a column.                                           *)
LEMMA MinZero ==
  ASSUME NEW x \in Int
  PROVE  Min({0, x}) \in Int /\ Min({0, x}) <= 0 /\ Min({0, x}) <= x
<1> DEFINE least(y) == y \in {0, x} /\ \A z \in {0, x} : y <= z
           m == CHOOSE y : least(y)
<1>1. \E y : least(y)
  <2>1. CASE x <= 0
    <3>1. least(x)
      BY <2>1
    <3> QED
      BY <3>1
  <2>2. CASE ~(x <= 0)
    <3>1. least(0)
      BY <2>2
    <3> QED
      BY <3>1
  <2> QED
    BY <2>1, <2>2
<1>2. least(m)
  <2> HIDE DEF least
  <2> QED
    BY <1>1
<1>3. Min({0, x}) = m
  BY DEF Min
<1> HIDE DEF m
<1> QED
  BY <1>2, <1>3

(* Whatever multipliers of the right sign a dual has, it is worth no more  *)
(* than a feasible candidate costs (integer_dual_adapter.py: 307-343).     *)
LEMMA WeakDuality ==
  ASSUME IsProgram(program),
         NEW C \in SUBSET program.columns, Feasible(C),
         NEW eq, \A r \in DOMAIN program.eq : eq[r] \in Int,
         NEW ub, \A r \in DOMAIN program.ub : ub[r] \in Int /\ ub[r] <= 0,
         NEW den \in Nat
  PROVE  /\ Numerator(eq, ub, den, FALSE) \in Int /\ Objective(C) \in Nat
         /\ Numerator(eq, ub, den, FALSE) <= den * Objective(C)
<1> DEFINE V == program.columns
           D1 == DOMAIN program.eq
           D2 == DOMAIN program.ub
           q == [v \in V |-> Reduced(eq, ub, den, v)]
           kept == [v \in V |-> Min({0, q[v]})]
           p1 == [v \in C |-> Product(program.eq, eq, v)]
           p2 == [v \in C |-> Product(program.ub, ub, v)]
           cost == [v \in C |-> v.cost]
           k1 == [r \in D1 |-> program.eq[r].rhs * eq[r]]
           k2 == [r \in D2 |-> program.ub[r].rhs * ub[r]]
           a1 == [r \in D1 |-> Activity(program.eq[r], C) * eq[r]]
           a2 == [r \in D2 |-> Activity(program.ub[r], C) * ub[r]]
<1>1. IsFiniteSet(V) /\ IsFiniteSet(C) /\ IsFiniteSet(D1) /\ IsFiniteSet(D2)
  BY ProgramFinite, FS_Subset
<1>2. \A v \in V : v.cost \in Nat
  BY ProgramNumbers
<1>3. /\ \A v : Product(program.eq, eq, v) \in Int
      /\ \A r \in D1 : Activity(program.eq[r], C) \in Int
      /\ SumFunctionOnSet(p1, C) = SumFunctionOnSet(a1, D1)
  <2>1. \A r \in D1 : eq[r] \in Int /\ \A v : Coefficient(program.eq[r], v) \in Int
    BY ProgramNumbers
  <2> QED
    BY <1>1, <2>1, ProductExchange
<1>4. /\ \A v : Product(program.ub, ub, v) \in Int
      /\ \A r \in D2 : Activity(program.ub[r], C) \in Int
      /\ SumFunctionOnSet(p2, C) = SumFunctionOnSet(a2, D2)
  <2>1. \A r \in D2 : ub[r] \in Int /\ \A v : Coefficient(program.ub[r], v) \in Int
    BY ProgramNumbers
  <2> QED
    BY <1>1, <2>1, ProductExchange
<1>5. \A v \in V : q[v] \in Int /\ kept[v] \in Int /\ kept[v] <= 0 /\ kept[v] <= q[v]
  <2> SUFFICES ASSUME NEW v \in V
               PROVE  q[v] \in Int /\ Min({0, q[v]}) \in Int
                      /\ Min({0, q[v]}) <= 0 /\ Min({0, q[v]}) <= q[v]
    OBVIOUS
  <2>1. /\ v.cost \in Int /\ den \in Int
        /\ Product(program.eq, eq, v) \in Int /\ Product(program.ub, ub, v) \in Int
    BY <1>2, <1>3, <1>4
  <2>2. q[v] \in Int
    BY <2>1 DEF Reduced
  <2> HIDE DEF q
  <2> QED
    BY <2>2, MinZero
<1>6. \A v \in C : /\ p1[v] \in Int /\ p2[v] \in Int /\ cost[v] \in Nat
                   /\ q[v] = den * cost[v] - p1[v] - p2[v]
  <2> SUFFICES ASSUME NEW v \in C
               PROVE  /\ p1[v] \in Int /\ p2[v] \in Int /\ cost[v] \in Nat
                      /\ q[v] = den * cost[v] - p1[v] - p2[v]
    OBVIOUS
  <2>1. v \in V /\ p1[v] = Product(program.eq, eq, v) /\ p2[v] = Product(program.ub, ub, v)
        /\ cost[v] = v.cost /\ q[v] = Reduced(eq, ub, den, v)
    OBVIOUS
  <2> HIDE DEF p1, p2, cost, q
  <2> QED
    BY <1>2, <1>3, <1>4, <2>1 DEF Reduced
<1>7. \A r \in D1 : k1[r] = a1[r]
  BY DEF Feasible, MeetsEqualities
<1>8. \A r \in D2 : k2[r] \in Int /\ a2[r] \in Int /\ k2[r] <= a2[r]
  <2> SUFFICES ASSUME NEW r \in D2
               PROVE  k2[r] \in Int /\ a2[r] \in Int /\ k2[r] <= a2[r]
    OBVIOUS
  <2> DEFINE b == program.ub[r].rhs
             a == Activity(program.ub[r], C)
             z == ub[r]
  <2>1. b \in Int
    BY ProgramNumbers
  <2>2. a \in Int /\ a <= b
    BY <1>4 DEF Feasible
  <2>3. z \in Int /\ z <= 0
    OBVIOUS
  <2>4. k2[r] = b * z /\ a2[r] = a * z
    OBVIOUS
  <2> HIDE DEF a, b, z, k2, a2
  <2>5. PICK n \in Nat : b = a + n
    <3>1. b - a \in Nat /\ b = a + (b - a)
      BY <2>1, <2>2
    <3> QED
      BY <3>1
  <2>6. b * z = a * z + n * z
    BY <2>2, <2>3, <2>5
  <2>7. n * z \in Int /\ n * z <= 0
    BY <2>3
  <2>8. a * z \in Int
    BY <2>2, <2>3
  <2> QED
    BY <2>4, <2>6, <2>7, <2>8
<1>9. Objective(C) = SumFunctionOnSet(cost, C)
  BY DEF Objective, SumFunction
<1>10. Numerator(eq, ub, den, FALSE)
         = SumFunctionOnSet(k1, D1) + SumFunctionOnSet(k2, D2) + SumFunctionOnSet(kept, V)
  <2> DEFINE k == [v \in V |-> Min({0, Reduced(eq, ub, den, v)})]
  <2>1. Numerator(eq, ub, den, FALSE)
          = Constant(program.eq, eq) + Constant(program.ub, ub) + SumFunction(k)
    BY DEF Numerator
  <2>2. k = kept
    OBVIOUS
  <2>3. SumFunction(k) = SumFunctionOnSet(kept, V)
    BY <2>2 DEF SumFunction
  <2>4. /\ Constant(program.eq, eq) = SumFunctionOnSet(k1, D1)
        /\ Constant(program.ub, ub) = SumFunctionOnSet(k2, D2)
    BY DEF Constant, SumFunction
  <2> HIDE DEF k, k1, k2, kept
  <2> QED
    BY <2>1, <2>3, <2>4
<1> HIDE DEF V, D1, D2, q, kept, p1, p2, cost, k1, k2, a1, a2
<1> DEFINE total == SumFunctionOnSet(q, C)
           P1 == SumFunctionOnSet(p1, C)
           P2 == SumFunctionOnSet(p2, C)
           K2 == SumFunctionOnSet(k2, D2)
           K == SumFunctionOnSet(kept, V)
           O == SumFunctionOnSet(cost, C)
<1>11. C \in SUBSET V
  BY DEF V
<1>12. K <= SumFunctionOnSet(kept, C) /\ SumFunctionOnSet(kept, C) <= total
  <2>1. K <= SumFunctionOnSet(kept, C)
    BY <1>1, <1>5, <1>11, SumPart
  <2>2. \A v \in C : kept[v] \in Int /\ q[v] \in Int /\ kept[v] <= q[v]
    BY <1>5, <1>11
  <2> QED
    BY <1>1, <2>1, <2>2, SumMonotone
<1>13. /\ P1 \in Int /\ P2 \in Int /\ total \in Int /\ K \in Int /\ K2 \in Int
       /\ SumFunctionOnSet(kept, C) \in Int
  <2>1. \A v \in C : p1[v] \in Int /\ p2[v] \in Int /\ q[v] \in Int /\ kept[v] \in Int
    BY <1>5, <1>6, <1>11
  <2>2. \A v \in V : kept[v] \in Int
    BY <1>5
  <2>3. \A r \in D2 : k2[r] \in Int
    BY <1>8
  <2> QED
    BY <1>1, <2>1, <2>2, <2>3, SumType
<1>14. O \in Nat
  <2>1. \A v \in C : cost[v] \in Int
    BY <1>6
  <2>2. O \in Int
    BY <1>1, <2>1, SumType
  <2> DEFINE zero == [v \in C |-> 0 * cost[v]]
  <2>3. SumFunctionOnSet(zero, C) = 0 * O
    <3>1. \A v \in C : cost[v] \in Int /\ zero[v] = 0 * cost[v]
      BY <2>1
    <3> HIDE DEF zero, O
    <3> QED
      BY <1>1, <3>1, SumTimes DEF O
  <2>4. \A v \in C : zero[v] \in Int /\ cost[v] \in Int /\ zero[v] <= cost[v]
    BY <1>6
  <2> HIDE DEF zero
  <2>5. SumFunctionOnSet(zero, C) <= O
    BY <1>1, <2>4, SumMonotone
  <2> HIDE DEF O
  <2> QED
    BY <2>2, <2>3, <2>5
<1>15. den * O = total + (P1 + P2)
  <2> DEFINE both == [v \in C |-> p1[v] + p2[v]]
             scaled == [v \in C |-> den * cost[v]]
  <2>1. \A v \in C : p1[v] \in Int /\ p2[v] \in Int /\ both[v] = p1[v] + p2[v]
    BY <1>6
  <2>2. \A v \in C : q[v] \in Int /\ both[v] \in Int /\ scaled[v] = q[v] + both[v]
    BY <1>5, <1>6, <1>11
  <2>3. \A v \in C : cost[v] \in Int /\ scaled[v] = den * cost[v]
    BY <1>6
  <2> HIDE DEF both, scaled
  <2>4. SumFunctionOnSet(both, C) = P1 + P2
    BY <1>1, <2>1, SumPlus
  <2>5. SumFunctionOnSet(scaled, C) = total + SumFunctionOnSet(both, C)
    BY <1>1, <2>2, SumPlus
  <2>6. SumFunctionOnSet(scaled, C) = den * O
    BY <1>1, <2>3, SumTimes
  <2> QED
    BY <2>4, <2>5, <2>6
<1>16. SumFunctionOnSet(k1, D1) = P1
  BY <1>1, <1>3, <1>7, SumSame
<1>17. K2 <= P2
  BY <1>1, <1>4, <1>8, SumMonotone
<1> HIDE DEF total, P1, P2, K2, K, O
<1>18. Numerator(eq, ub, den, FALSE) = P1 + K2 + K
  BY <1>10, <1>16 DEF K2, K
<1>19. K <= total
  BY <1>12, <1>13
<1>20. P1 + K2 + K <= total + (P1 + P2) /\ P1 + K2 + K \in Int
  BY <1>13, <1>17, <1>19
<1> QED
  BY <1>9, <1>14, <1>15, <1>18, <1>20 DEF O
-----------------------------------------------------------------------------
(* Covers of a window by edges.                                            *)

(* Edges by which one gets from every instruction to the end.              *)
Passable(n, edges) ==
  /\ n \in Nat
  /\ \A e \in edges : /\ e.start \in 1..n /\ e.width \in {1, 2}
                      /\ e.start + e.width <= n + 1
                      /\ e.cost \in Nat
  /\ \A i \in 1..n : \E e \in edges : e.start = i

From(i, edges) == {e \in edges : e.start = i}

StepCosts(f, i, edges) == {e.cost + f[i + e.width] : e \in From(i, edges)}

(* The costs of going on from an instruction, once those of the later ones *)
(* are numbers.                                                            *)
LEMMA StepCostsType ==
  ASSUME NEW n, NEW edges, Passable(n, edges), NEW i \in 1..n, NEW f,
         \A k \in (i + 1)..(n + 1) : f[k] \in Nat
  PROVE  /\ StepCosts(f, i, edges) \subseteq Nat /\ StepCosts(f, i, edges) # {}
         /\ Min(StepCosts(f, i, edges)) \in StepCosts(f, i, edges)
         /\ \A c \in StepCosts(f, i, edges) : Min(StepCosts(f, i, edges)) <= c
<1>1. \A e \in From(i, edges) : e.cost \in Nat /\ f[i + e.width] \in Nat
  <2> SUFFICES ASSUME NEW e \in From(i, edges) PROVE e.cost \in Nat /\ f[i + e.width] \in Nat
    OBVIOUS
  <2>1. e.start = i /\ e.width \in {1, 2} /\ e.start + e.width <= n + 1 /\ e.cost \in Nat
        /\ n \in Nat
    BY DEF From, Passable
  <2>2. i + e.width \in (i + 1)..(n + 1)
    BY <2>1
  <2> QED
    BY <2>1, <2>2
<1>2. From(i, edges) # {}
  BY DEF From, Passable
<1>3. StepCosts(f, i, edges) \subseteq Nat /\ StepCosts(f, i, edges) # {}
  BY <1>1, <1>2 DEF StepCosts
<1> QED
  BY <1>3, MinNumber

(* LeastCover is where the least costs from every instruction start.       *)
Leads(f, n, edges) ==
  f = [i \in 1..(n + 1) |-> IF i = n + 1 THEN 0 ELSE Min(StepCosts(f, i, edges))]

(* These least costs exist: those from the end on are found one by one.    *)
LEMMA LeadsExists ==
  ASSUME NEW n, NEW edges, Passable(n, edges)
  PROVE  \E f : Leads(f, n, edges)
<1> DEFINE value(f, i) == IF i = n + 1 THEN 0 ELSE Min(StepCosts(f, i, edges))
           Good == {k \in 0..n : \E f \in [1..(n + 1) -> Nat] :
                                   \A i \in (n + 1 - k)..(n + 1) : f[i] = value(f, i)}
           Bad == (0..n) \ Good
<1>0. n \in Nat
  BY DEF Passable
<1>1. Bad = {}
  <2> SUFFICES ASSUME Bad # {} PROVE FALSE
    OBVIOUS
  <2>1. Bad \subseteq Nat
    BY <1>0
  <2>2. PICK m \in Bad : \A k \in Bad : m <= k
    <3> HIDE DEF Bad
    <3> QED
      BY <2>1, LeastNumber
  <2>3. m \in 0..n /\ m \in Nat
    BY <1>0, <2>2
  <2>4. m # 0
    <3> SUFFICES 0 \in Good
      BY <2>2
    <3> DEFINE f == [i \in 1..(n + 1) |-> 0]
    <3>1. f \in [1..(n + 1) -> Nat]
      OBVIOUS
    <3>2. \A i \in (n + 1 - 0)..(n + 1) : f[i] = value(f, i)
      <4> SUFFICES ASSUME NEW i \in (n + 1 - 0)..(n + 1) PROVE f[i] = value(f, i)
        OBVIOUS
      <4>1. i = n + 1 /\ i \in 1..(n + 1)
        BY <1>0
      <4> QED
        BY <4>1
    <3>3. 0 \in 0..n
      BY <1>0
    <3> HIDE DEF f, value
    <3> QED
      BY <3>1, <3>2, <3>3
  <2>5. m - 1 \in Good
    <3>1. m - 1 \in 0..n /\ ~(m <= m - 1)
      BY <1>0, <2>3, <2>4
    <3>2. m - 1 \notin Bad
      BY <2>2, <3>1
    <3> HIDE DEF Good
    <3> QED
      BY <3>1, <3>2
  <2>6. PICK f \in [1..(n + 1) -> Nat] :
          \A i \in (n + 1 - (m - 1))..(n + 1) : f[i] = value(f, i)
    <3> HIDE DEF value
    <3> QED
      BY <2>5
  <2> DEFINE j == n + 1 - m
             least == Min(StepCosts(f, j, edges))
             g == [i \in 1..(n + 1) |-> IF i = j THEN least ELSE f[i]]
  <2>7. j \in 1..n /\ j # n + 1 /\ n + 1 - (m - 1) = j + 1
    BY <1>0, <2>3, <2>4
  <2>8. least \in Nat
    <3>1. \A k \in (j + 1)..(n + 1) : f[k] \in Nat
      BY <1>0, <2>7
    <3> HIDE DEF j
    <3> QED
      BY <2>7, <3>1, StepCostsType
  <2>9. g \in [1..(n + 1) -> Nat]
    <3> HIDE DEF least
    <3> QED
      BY <2>8
  <2>10. ASSUME NEW i \in j..n PROVE StepCosts(g, i, edges) = StepCosts(f, i, edges)
    <3>1. ASSUME NEW e \in From(i, edges) PROVE g[i + e.width] = f[i + e.width]
      <4>1. e.start = i /\ e.width \in {1, 2} /\ e.start + e.width <= n + 1
        BY DEF From, Passable
      <4>2. i + e.width \in 1..(n + 1) /\ i + e.width # j
        BY <1>0, <2>7, <4>1, SMTT(30)
      <4> HIDE DEF j
      <4> QED
        BY <4>2
    <3> HIDE DEF g
    <3> QED
      BY <3>1 DEF StepCosts
  <2>11. ASSUME NEW i \in j..(n + 1) PROVE g[i] = value(g, i)
    <3>1. i \in 1..(n + 1)
      BY <1>0, <2>7
    <3>2. CASE i = j
      <4>1. g[i] = least /\ i # n + 1 /\ i \in j..n
        BY <1>0, <2>7, <3>1, <3>2
      <4>2. StepCosts(g, i, edges) = StepCosts(f, j, edges)
        BY <2>10, <3>2, <4>1
      <4> HIDE DEF g, j
      <4> QED
        BY <4>1, <4>2
    <3>3. CASE i # j
      <4>1. i \in (j + 1)..(n + 1)
        BY <1>0, <2>7, <3>3
      <4>2. f[i] = value(f, i)
        <5> HIDE DEF value, j
        <5> QED
          BY <2>6, <2>7, <4>1
      <4>3. g[i] = f[i]
        BY <3>1, <3>3
      <4>4. i # n + 1 => i \in j..n
        BY <1>0, <2>7
      <4> HIDE DEF g, j
      <4> QED
        BY <2>10, <4>2, <4>3, <4>4
    <3> QED
      BY <3>2, <3>3
  <2>12. m \in Good
    <3> HIDE DEF value, g
    <3> QED
      BY <2>3, <2>9, <2>11
  <2> QED
    BY <2>2, <2>12
<1>2. n \in Good
  <2>1. n \in 0..n
    BY <1>0
  <2> HIDE DEF Good
  <2> QED
    BY <1>1, <2>1
<1>3. PICK f \in [1..(n + 1) -> Nat] : \A i \in (n + 1 - n)..(n + 1) : f[i] = value(f, i)
  <2> HIDE DEF value
  <2> QED
    BY <1>2
<1>4. n + 1 - n = 1
  BY <1>0
<1>5. f = [i \in 1..(n + 1) |-> value(f, i)]
  <2> HIDE DEF value
  <2> QED
    BY <1>3, <1>4
<1> QED
  BY <1>5 DEF Leads

(* What it is good for.                                                    *)
LEMMA LeastCoverIs ==
  ASSUME NEW n, NEW edges, Passable(n, edges)
  PROVE  \E f : /\ LeastCover(n, edges) = f[1] /\ f[n + 1] = 0
                /\ \A i \in 1..(n + 1) : f[i] \in Nat
                /\ \A i \in 1..n : \A e \in From(i, edges) : f[i] <= e.cost + f[i + e.width]
                /\ \A i \in 1..n : \E e \in From(i, edges) : f[i] = e.cost + f[i + e.width]
<1> DEFINE f == CHOOSE f : Leads(f, n, edges)
<1>0. n \in Nat
  BY DEF Passable
<1>1. LeastCover(n, edges) = f[1]
  BY DEF LeastCover, Leads, StepCosts, From
<1>2. Leads(f, n, edges)
  BY LeadsExists
<1> HIDE DEF f
<1>3. f[n + 1] = 0 /\ \A i \in 1..n : f[i] = Min(StepCosts(f, i, edges))
  <2>1. \A i \in 1..(n + 1) : f[i] = IF i = n + 1 THEN 0 ELSE Min(StepCosts(f, i, edges))
    BY <1>2 DEF Leads
  <2>2. n + 1 \in 1..(n + 1) /\ \A i \in 1..n : i \in 1..(n + 1) /\ i # n + 1
    BY <1>0
  <2> QED
    BY <2>1, <2>2
<1> DEFINE Bad == {j \in 0..n : f[n + 1 - j] \notin Nat}
<1>4. Bad = {}
  <2> SUFFICES ASSUME Bad # {} PROVE FALSE
    OBVIOUS
  <2>1. Bad \subseteq Nat
    BY <1>0
  <2>2. PICK m \in Bad : \A j \in Bad : m <= j
    <3> HIDE DEF Bad
    <3> QED
      BY <2>1, LeastNumber
  <2> DEFINE i == n + 1 - m
  <2>3. m \in 0..n /\ m # 0
    BY <1>0, <1>3, <2>2
  <2>4. i \in 1..n
    BY <1>0, <2>3
  <2>5. ASSUME NEW k \in (i + 1)..(n + 1) PROVE f[k] \in Nat
    <3>1. n + 1 - k \in 0..n /\ ~(m <= n + 1 - k) /\ n + 1 - (n + 1 - k) = k
      BY <1>0, <2>3
    <3>2. n + 1 - k \notin Bad
      BY <2>2, <3>1
    <3> QED
      BY <3>1, <3>2
  <2>6. f[i] \in Nat
    <3> HIDE DEF i
    <3>1. /\ StepCosts(f, i, edges) \subseteq Nat
          /\ Min(StepCosts(f, i, edges)) \in StepCosts(f, i, edges)
      BY <2>4, <2>5, StepCostsType
    <3> QED
      BY <1>3, <2>4, <3>1
  <2> QED
    BY <2>2, <2>6
<1>5. \A i \in 1..(n + 1) : f[i] \in Nat
  <2> SUFFICES ASSUME NEW i \in 1..(n + 1) PROVE f[i] \in Nat
    OBVIOUS
  <2>1. n + 1 - i \in 0..n /\ n + 1 - (n + 1 - i) = i
    BY <1>0
  <2> QED
    BY <1>4, <2>1
<1>6. ASSUME NEW i \in 1..n
      PROVE  /\ \A e \in From(i, edges) : f[i] <= e.cost + f[i + e.width]
             /\ \E e \in From(i, edges) : f[i] = e.cost + f[i + e.width]
  <2>1. \A k \in (i + 1)..(n + 1) : f[k] \in Nat
    BY <1>0, <1>5
  <2>2. /\ f[i] \in StepCosts(f, i, edges)
        /\ \A c \in StepCosts(f, i, edges) : f[i] <= c
    BY <1>3, <2>1, StepCostsType
  <2> QED
    BY <2>2 DEF StepCosts
<1> QED
  BY <1>1, <1>3, <1>5, <1>6
-----------------------------------------------------------------------------
(* What it is for a candidate to be feasible.                              *)
Lies(i, v) == i \in v.start..(v.start + v.width - 1)

Chosen(C) == {v \in C : IsChoice(v)}

(* What is in the column of a selection; the edges are columns of another  *)
(* kind.                                                                   *)
LEMMA ChoiceFields ==
  \A p : LET v == Choice(p)
         IN  /\ v.start = 0 /\ v.width = 0 /\ v.cost = 0 /\ v.pattern = p
             /\ IsChoice(v) /\ \A i \in Int : ~Lies(i, v)
<1> TAKE p
<1>1. /\ Choice(p).start = 0 /\ Choice(p).width = 0 /\ Choice(p).cost = 0
      /\ Choice(p).pattern = p
  BY DEF Choice, Edge
<1>2. IsChoice(Choice(p))
  BY <1>1 DEF IsChoice
<1>3. \A i \in Int : ~Lies(i, Choice(p))
  <2> DEFINE v == Choice(p)
  <2>1. v.start + v.width - 1 = -1 /\ v.start = 0
    BY <1>1
  <2> HIDE DEF v
  <2>2. \A i \in Int : ~(i \in v.start..(v.start + v.width - 1))
    BY <2>1
  <2> QED
    BY <2>2 DEF Lies, v
<1> QED
  BY <1>1, <1>2, <1>3

(* A column is an edge or a choice, and the choices are those of patterns. *)
LEMMA ColumnsAre ==
  ASSUME NEW P, IsProgram(P), NEW v \in P.columns
  PROVE  /\ IsChoice(v) => \E p \in Patterns(P.edges) : v = Choice(p)
         /\ ~IsChoice(v) => v \in P.edges
         /\ v \in P.edges => ~IsChoice(v)
<1>1. v \in P.edges => ~IsChoice(v)
  BY DEF IsProgram, EdgesFit, IsChoice
<1>2. v \in P.edges \/ \E p \in Patterns(P.edges) : v = Choice(p)
  BY DEF IsProgram
<1>3. \A p : IsChoice(Choice(p))
  BY ChoiceFields
<1> QED
  BY <1>1, <1>2, <1>3

(* The activity of each kind of row.                                       *)
LEMMA ActivityIs ==
  ASSUME NEW C, IsFiniteSet(C), NEW rhs
  PROVE  /\ \A i : Activity(Row("cover", i, rhs), C) = Cardinality({v \in C : Lies(i, v)})
         /\ Activity(Row("at most", "all", rhs), C) = Cardinality(Chosen(C))
         /\ Activity(Row("at least", "all", rhs), C) = -Cardinality(Chosen(C))
         /\ \A e : Choice(e.pattern) # e =>
              Activity(Row("link", e, rhs), C) = Is(e \in C) - Is(Choice(e.pattern) \in C)
<1> DEFINE f(row) == [v \in C |-> Coefficient(row, v)]
<1>1. \A row : Activity(row, C) = SumFunctionOnSet(f(row), C)
  BY DEF Activity, SumFunction
<1>2. ASSUME NEW i
      PROVE  Activity(Row("cover", i, rhs), C) = Cardinality({v \in C : Lies(i, v)})
  <2> DEFINE row == Row("cover", i, rhs)
             U == {v \in C : Lies(i, v)}
             g == f(row)
  <2>1. row.is = "cover" /\ row.of = i
    BY DEF Row
  <2> HIDE DEF row
  <2>2. \A v : Coefficient(row, v) = Is(Lies(i, v))
    BY <2>1, Zenon DEF Coefficient, Lies
  <2>3. \A v \in C : g[v] = IF v \in U THEN 1 ELSE 0
    BY <2>2 DEF Is
  <2>4. C \cap U = U
    OBVIOUS
  <2> HIDE DEF g, U
  <2>5. SumFunctionOnSet(g, C) = Cardinality(C \cap U)
    BY <2>3, SumCount
  <2>6. Activity(row, C) = Cardinality(U)
    BY <1>1, <2>4, <2>5 DEF g
  <2> QED
    BY <2>6 DEF row, U
<1>3. Activity(Row("at most", "all", rhs), C) = Cardinality(Chosen(C))
  <2> DEFINE row == Row("at most", "all", rhs)
             U == Chosen(C)
             g == f(row)
  <2>1. row.is = "at most"
    BY DEF Row
  <2> HIDE DEF row
  <2>2. \A v : Coefficient(row, v) = Is(IsChoice(v))
    BY <2>1, Zenon DEF Coefficient
  <2>3. \A v \in C : g[v] = IF v \in U THEN 1 ELSE 0
    BY <2>2 DEF Is, Chosen
  <2>4. C \cap U = U
    BY DEF Chosen
  <2> HIDE DEF g, U
  <2>5. SumFunctionOnSet(g, C) = Cardinality(C \cap U)
    BY <2>3, SumCount
  <2>6. Activity(row, C) = Cardinality(U)
    BY <1>1, <2>4, <2>5 DEF g
  <2> QED
    BY <2>6 DEF row, U
<1>4. Activity(Row("at least", "all", rhs), C) = -Cardinality(Chosen(C))
  <2> DEFINE row == Row("at least", "all", rhs)
             U == Chosen(C)
             g == f(row)
             h == [v \in C |-> IF v \in U THEN 1 ELSE 0]
             minus == -1
  <2>1. row.is = "at least"
    BY DEF Row
  <2> HIDE DEF row
  <2>2. \A v : Coefficient(row, v) = -Is(IsChoice(v))
    BY <2>1, Zenon DEF Coefficient
  <2>3. \A v \in C : h[v] \in Int /\ g[v] = minus * h[v]
    BY <2>2 DEF Is, Chosen
  <2>4. C \cap U = U
    BY DEF Chosen
  <2>5. \A v \in C : h[v] = IF v \in U THEN 1 ELSE 0
    OBVIOUS
  <2> HIDE DEF g, h, U
  <2>6. minus \in Int /\ \A n \in Int : minus * n = -n
    OBVIOUS
  <2> HIDE DEF minus
  <2>7. SumFunctionOnSet(h, C) = Cardinality(C \cap U)
    BY <2>5, SumCount
  <2>8. SumFunctionOnSet(g, C) = minus * SumFunctionOnSet(h, C)
    BY <2>3, <2>6, SumTimes
  <2>9. Cardinality(U) \in Nat
    <3>1. IsFiniteSet(U)
      BY FS_Subset DEF U, Chosen
    <3> QED
      BY <3>1, FS_CardinalityType
  <2>10. Activity(row, C) = minus * Cardinality(U)
    BY <1>1, <2>4, <2>7, <2>8 DEF g
  <2>11. Activity(row, C) = -Cardinality(U)
    BY <2>9, <2>10, <2>6
  <2> QED
    BY <2>11 DEF row, U
<1>5. ASSUME NEW e, Choice(e.pattern) # e
      PROVE  Activity(Row("link", e, rhs), C) = Is(e \in C) - Is(Choice(e.pattern) \in C)
  <2> DEFINE row == Row("link", e, rhs)
             c == Choice(e.pattern)
             g == f(row)
             h == [v \in C |-> IF v \in {e} THEN 1 ELSE 0]
             k == [v \in C |-> IF v \in {c} THEN 1 ELSE 0]
  <2>1. row.is = "link" /\ row.of = e
    BY DEF Row
  <2> HIDE DEF row
  <2>2. \A v : Coefficient(row, v) = Is(v = e) - Is(v = c)
    BY <2>1, Zenon DEF Coefficient
  <2> HIDE DEF c
  <2>3. \A v \in C : g[v] \in Int /\ k[v] \in Int /\ h[v] = g[v] + k[v]
    BY <2>2 DEF Is
  <2>4. /\ \A v \in C : h[v] = IF v \in {e} THEN 1 ELSE 0
        /\ \A v \in C : k[v] = IF v \in {c} THEN 1 ELSE 0
    OBVIOUS
  <2> HIDE DEF g, h, k
  <2>5. SumFunctionOnSet(h, C) = Cardinality(C \cap {e})
    BY <2>4, SumCount
  <2>6. SumFunctionOnSet(k, C) = Cardinality(C \cap {c})
    BY <2>4, SumCount
  <2>7. SumFunctionOnSet(h, C) = SumFunctionOnSet(g, C) + SumFunctionOnSet(k, C)
    BY <2>3, SumPlus
  <2>8. SumFunctionOnSet(g, C) \in Int
    BY <2>3, SumType
  <2>9. \A x : Cardinality(C \cap {x}) = Is(x \in C)
    <3> TAKE x
    <3>1. CASE x \in C
      <4>1. C \cap {x} = {x}
        BY <3>1
      <4> QED
        BY <3>1, <4>1, FS_Singleton DEF Is
    <3>2. CASE x \notin C
      <4>1. C \cap {x} = {}
        BY <3>2
      <4> QED
        BY <3>2, <4>1, FS_EmptySet DEF Is
    <3> QED
      BY <3>1, <3>2
  <2>10. Is(e \in C) \in Int /\ Is(c \in C) \in Int
    BY DEF Is
  <2>11. SumFunctionOnSet(g, C) = Is(e \in C) - Is(c \in C)
    <3>1. SumFunctionOnSet(h, C) = Is(e \in C) /\ SumFunctionOnSet(k, C) = Is(c \in C)
      BY <2>5, <2>6, <2>9
    <3> DEFINE x == Is(e \in C)
               y == Is(c \in C)
               s == SumFunctionOnSet(g, C)
    <3>2. x = s + y /\ x \in Int /\ y \in Int /\ s \in Int
      BY <2>7, <2>8, <2>10, <3>1
    <3> HIDE DEF x, y, s
    <3>3. s = x - y
      BY <3>2
    <3> QED
      BY <3>3 DEF x, y, s
  <2> QED
    BY <1>1, <2>11 DEF row, g, c
<1> QED
  BY <1>2, <1>3, <1>4, <1>5

(* A feasible candidate covers every instruction once, selects as many     *)
(* patterns as it may, and uses those only; the rows that the links        *)
(* replace add nothing (integer_dual_adapter.py: 174-225, 350-374).        *)
Coherent(C) ==
  /\ \A i \in 1..program.length : Cardinality({v \in C : Lies(i, v)}) = 1
  /\ Cardinality(Chosen(C)) \in 1..program.slots
  /\ \A e \in Uses(program.edges) : e \in C => Choice(e.pattern) \in C

(* That is what the replay of the rows accepts.                            *)
LEMMA FeasibleIs ==
  ASSUME IsProgram(program), NEW C \in SUBSET program.columns
  PROVE  Feasible(C) <=> Coherent(C)
<1> DEFINE slots == program.slots
           edges == program.edges
           n == program.length
           size == Cardinality(Chosen(C))
           Covering == \A i \in 1..n : Cardinality({v \in C : Lies(i, v)}) = 1
           Linked == \A e \in Uses(edges) : e \in C => Choice(e.pattern) \in C
           Meets(row) == Activity(row, C) = row.rhs
           Within(row) == Activity(row, C) <= row.rhs
           uses(p) == {e \in edges : e.pattern = p}
           Aggregates == \A p \in Patterns(edges) :
                           Cardinality(uses(p) \cap C)
                             <= Cardinality(uses(p)) * Is(Choice(p) \in C)
<1>1. IsFiniteSet(C) /\ IsFiniteSet(edges)
  BY ProgramFinite, FS_Subset DEF IsProgram, EdgesFit
<1>2. size \in Nat /\ slots \in Nat \ {0}
  <2>1. IsFiniteSet(Chosen(C))
    BY <1>1, FS_Subset DEF Chosen
  <2> QED
    BY <2>1, FS_CardinalityType DEF IsProgram
<1>3. Feasible(C) <=> /\ \A row \in EqualityRows(n, slots) : Meets(row)
                      /\ \A row \in InequalityRows(edges, slots) : Within(row)
                      /\ Aggregates
  <2>1. /\ {program.eq[r] : r \in DOMAIN program.eq} = EqualityRows(n, slots)
        /\ {program.ub[r] : r \in DOMAIN program.ub} = InequalityRows(edges, slots)
    BY DEF IsProgram, Range
  <2>2. (\A r \in DOMAIN program.eq : Meets(program.eq[r]))
          <=> \A row \in EqualityRows(n, slots) : Meets(row)
    <3> HIDE DEF Meets
    <3> QED
      BY <2>1
  <2>3. (\A r \in DOMAIN program.ub : Within(program.ub[r]))
          <=> \A row \in InequalityRows(edges, slots) : Within(row)
    <3> HIDE DEF Within
    <3> QED
      BY <2>1
  <2>4. Feasible(C) <=> /\ \A r \in DOMAIN program.eq : Meets(program.eq[r])
                        /\ \A r \in DOMAIN program.ub : Within(program.ub[r])
                        /\ Aggregates
    BY DEF Feasible, MeetsEqualities
  <2> QED
    BY <2>2, <2>3, <2>4
<1>4. (\A row \in EqualityRows(n, slots) : Meets(row))
        <=> Covering /\ (slots = 1 => size = 1)
  <2>1. \A i : Meets(Row("cover", i, 1)) <=> Cardinality({v \in C : Lies(i, v)}) = 1
    <3>1. \A i : Activity(Row("cover", i, 1), C) = Cardinality({v \in C : Lies(i, v)})
      BY <1>1, ActivityIs, Zenon
    <3>2. \A i : Row("cover", i, 1).rhs = 1
      BY DEF Row
    <3> QED
      BY <3>1, <3>2, Zenon
  <2>2. Meets(Row("at most", "all", 1)) <=> size = 1
    <3>1. Activity(Row("at most", "all", 1), C) = size
      BY <1>1, ActivityIs, Zenon
    <3>2. Row("at most", "all", 1).rhs = 1
      BY DEF Row
    <3> QED
      BY <3>1, <3>2, Zenon
  <2>3. (\A row \in EqualityRows(n, slots) : Meets(row))
          <=> /\ \A i \in 1..n : Meets(Row("cover", i, 1))
              /\ slots = 1 => Meets(Row("at most", "all", 1))
    <3> HIDE DEF Meets
    <3> QED
      BY Zenon DEF EqualityRows
  <2> HIDE DEF Meets
  <2> QED
    BY <2>1, <2>2, <2>3
<1>5. (\A row \in InequalityRows(edges, slots) : Within(row))
        <=> Linked /\ (slots # 1 => size \in 1..slots)
  <2>1. \A e \in Uses(edges) :
          Within(Row("link", e, 0)) <=> (e \in C => Choice(e.pattern) \in C)
    <3> SUFFICES ASSUME NEW e \in Uses(edges)
                 PROVE  Within(Row("link", e, 0)) <=> (e \in C => Choice(e.pattern) \in C)
      OBVIOUS
    <3>1. e \in edges
      BY DEF Uses
    <3>2. e \in program.columns
      BY <3>1 DEF IsProgram
    <3>3. ~IsChoice(e)
      BY <3>1, <3>2, ColumnsAre
    <3>4. Choice(e.pattern) # e
      BY <3>3, ChoiceFields
    <3>5. Within(Row("link", e, 0)) <=> Is(e \in C) - Is(Choice(e.pattern) \in C) <= 0
      <4>1. Activity(Row("link", e, 0), C) = Is(e \in C) - Is(Choice(e.pattern) \in C)
        BY <1>1, <3>4, ActivityIs, Zenon
      <4>2. Row("link", e, 0).rhs = 0
        BY DEF Row
      <4> QED
        BY <4>1, <4>2, Zenon
    <3> HIDE DEF Within
    <3>6. (Is(e \in C) - Is(Choice(e.pattern) \in C) <= 0) <=> (e \in C => Choice(e.pattern) \in C)
      BY DEF Is
    <3> QED
      BY <3>5, <3>6
  <2>2. Within(Row("at most", "all", slots)) <=> size <= slots
    <3>1. Activity(Row("at most", "all", slots), C) = size
      BY <1>1, ActivityIs, Zenon
    <3>2. Row("at most", "all", slots).rhs = slots
      BY DEF Row
    <3> QED
      BY <3>1, <3>2, Zenon
  <2>3. Within(Row("at least", "all", -1)) <=> 1 <= size
    <3> DEFINE row == Row("at least", "all", -1)
               activity == Activity(row, C)
               rhs == row.rhs
    <3>1. activity = -size
      BY <1>1, ActivityIs, Zenon
    <3>2. rhs = -1
      BY DEF Row
    <3>3. activity <= rhs <=> 1 <= size
      <4> HIDE DEF activity, rhs, size
      <4> QED
        BY <1>2, <3>1, <3>2
    <3> QED
      BY <3>3, Zenon
  <2>4. (\A row \in InequalityRows(edges, slots) : Within(row))
          <=> /\ \A e \in Uses(edges) : Within(Row("link", e, 0))
              /\ slots # 1 => /\ Within(Row("at most", "all", slots))
                              /\ Within(Row("at least", "all", -1))
    <3> HIDE DEF Within
    <3> QED
      BY Zenon DEF InequalityRows
  <2>5. (size <= slots /\ 1 <= size) <=> size \in 1..slots
    <3> HIDE DEF size, slots
    <3> QED
      BY <1>2
  <2>6. (\A e \in Uses(edges) : Within(Row("link", e, 0))) <=> Linked
    <3> HIDE DEF Within
    <3> QED
      BY <2>1
  <2> HIDE DEF Within, Linked, size, slots
  <2> QED
    BY <2>2, <2>3, <2>4, <2>5, <2>6
<1>6. Linked => Aggregates
  <2> SUFFICES ASSUME Linked, NEW p \in Patterns(edges)
               PROVE  Cardinality(uses(p) \cap C) <= Cardinality(uses(p)) * Is(Choice(p) \in C)
    OBVIOUS
  <2>1. IsFiniteSet(uses(p))
    BY <1>1, FS_Subset
  <2>2. Cardinality(uses(p)) \in Nat
    BY <2>1, FS_CardinalityType
  <2>3. CASE Choice(p) \in C
    <3>1. Cardinality(uses(p) \cap C) <= Cardinality(uses(p))
      BY <2>1, FS_Intersection
    <3>2. Cardinality(uses(p)) * Is(Choice(p) \in C) = Cardinality(uses(p))
      BY <2>2, <2>3 DEF Is
    <3> HIDE DEF uses
    <3> QED
      BY <3>1, <3>2
  <2>4. CASE Choice(p) \notin C
    <3>1. p # NoPattern
      BY DEF Patterns
    <3>2. \A e \in uses(p) : e \in Uses(edges) /\ Choice(e.pattern) \notin C
      BY <2>4, <3>1 DEF Uses
    <3>3. uses(p) \cap C = {}
      BY <3>2
    <3>4. Cardinality(uses(p) \cap C) = 0
      BY <3>3, FS_EmptySet
    <3>5. Cardinality(uses(p)) * Is(Choice(p) \in C) = 0
      BY <2>2, <2>4 DEF Is
    <3> HIDE DEF uses
    <3> QED
      BY <3>4, <3>5
  <2> QED
    BY <2>3, <2>4
<1>7. Coherent(C) <=> Covering /\ size \in 1..slots /\ Linked
  BY DEF Coherent
<1>8. size \in 1..slots <=> (slots = 1 => size = 1) /\ (slots # 1 => size \in 1..slots)
  <2> HIDE DEF size, slots
  <2> QED
    BY <1>2
<1> HIDE DEF Covering, Linked, Aggregates, Meets, Within, size
<1> QED
  BY <1>3, <1>4, <1>5, <1>6, <1>7, <1>8
-----------------------------------------------------------------------------
(* From a cover of the window to a candidate.                              *)

(* An edge more adds its cost.                                             *)
LEMMA ObjectiveAdd ==
  ASSUME NEW C, IsFiniteSet(C), NEW e, e \notin C, \A v \in C \cup {e} : v.cost \in Int
  PROVE  Objective(C \cup {e}) = e.cost + Objective(C)
<1> DEFINE D == C \cup {e}
           f == [v \in D |-> v.cost]
           g == [v \in C |-> v.cost]
<1>1. Objective(D) = SumFunctionOnSet(f, D) /\ Objective(C) = SumFunctionOnSet(g, C)
  BY DEF Objective, SumFunction
<1>2. IsFiniteSet(D)
  BY FS_AddElement
<1>3. (\A v \in D : f[v] \in Int) /\ e \in D /\ f[e] = e.cost /\ D \ {e} = C
  OBVIOUS
<1>4. \A v \in C : f[v] = g[v]
  OBVIOUS
<1> HIDE DEF f, g, D
<1>5. SumFunctionOnSet(f, D) = f[e] + SumFunctionOnSet(f, D \ {e})
  BY <1>2, <1>3, SumAdd
<1>6. SumFunctionOnSet(f, C) = SumFunctionOnSet(g, C)
  BY <1>4, SumSame
<1> QED
  BY <1>1, <1>3, <1>5, <1>6 DEF D

(* The edges C cover every instruction from i on once.                     *)
CoversFrom(i, n, C) ==
  /\ \A v \in C : v.start >= i
  /\ \A k \in i..n : \E e \in C : \A v \in C : Lies(k, v) <=> v = e

(* A cheapest cover is a set of edges.                                     *)
LEMMA PathExists ==
  ASSUME NEW n, NEW edges, IsFiniteSet(edges), Passable(n, edges)
  PROVE  \E C \in SUBSET edges :
           CoversFrom(1, n, C) /\ Objective(C) = LeastCover(n, edges)
<1>0. n \in Nat
  BY DEF Passable
<1>1. PICK f : /\ LeastCover(n, edges) = f[1] /\ f[n + 1] = 0
               /\ \A i \in 1..(n + 1) : f[i] \in Nat
               /\ \A i \in 1..n : \E e \in From(i, edges) : f[i] = e.cost + f[i + e.width]
  BY LeastCoverIs
<1> DEFINE Path(i, C) == CoversFrom(i, n, C) /\ Objective(C) = f[i]
           Bad == {m \in 0..n : ~\E C \in SUBSET edges : Path(n + 1 - m, C)}
<1>2. Bad = {}
  <2> SUFFICES ASSUME Bad # {} PROVE FALSE
    OBVIOUS
  <2>1. Bad \subseteq Nat
    BY <1>0
  <2>2. PICK m \in Bad : \A j \in Bad : m <= j
    <3> HIDE DEF Bad
    <3> QED
      BY <2>1, LeastNumber
  <2> DEFINE i == n + 1 - m
  <2>3. m \in 0..n
    BY <2>2
  <2>4. \E C \in SUBSET edges : Path(i, C)
    <3>1. CASE m = 0
      <4>1. i = n + 1 /\ i..n = {}
        BY <1>0, <3>1
      <4>2. Objective({}) = 0
        BY SumEmpty DEF Objective, SumFunction
      <4>3. CoversFrom(i, n, {})
        BY <4>1 DEF CoversFrom
      <4>4. {} \in SUBSET edges
        OBVIOUS
      <4> HIDE DEF i
      <4> QED
        BY <1>1, <4>1, <4>2, <4>3, <4>4
    <3>2. CASE m # 0
      <4>1. i \in 1..n
        BY <1>0, <2>3, <3>2
      <4>2. PICK e \in From(i, edges) : f[i] = e.cost + f[i + e.width]
        BY <1>1, <4>1
      <4> DEFINE w == e.width
                 j == i + w
      <4>3. /\ e \in edges /\ e.start = i /\ w \in {1, 2} /\ j <= n + 1
            /\ e.cost \in Nat
        BY DEF From, Passable
      <4>4. \E C \in SUBSET edges : Path(j, C)
        <5>1. n + 1 - j \in 0..n /\ ~(m <= n + 1 - j) /\ n + 1 - (n + 1 - j) = j
          <6> HIDE DEF w
          <6> QED
            BY <1>0, <2>3, <4>1, <4>3
        <5>2. n + 1 - j \notin Bad
          <6> HIDE DEF Bad, j
          <6> QED
            BY <2>2, <5>1
        <5> HIDE DEF Path, j
        <5> QED
          BY <5>1, <5>2
      <4>5. PICK C \in SUBSET edges : Path(j, C)
        BY <4>4
      <4> DEFINE D == C \cup {e}
      <4>6. e \notin C
        <5>1. \A v \in C : v.start >= j
          BY <4>5 DEF CoversFrom
        <5>2. ~(i >= j)
          BY <4>1, <4>3
        <5> HIDE DEF j, i
        <5> QED
          BY <4>3, <5>1, <5>2
      <4>7. Objective(D) = e.cost + Objective(C)
        <5>1. IsFiniteSet(C)
          BY FS_Subset
        <5>2. \A v \in C \cup {e} : v.cost \in Int
          BY <4>3 DEF Passable
        <5> QED
          BY <4>6, <5>1, <5>2, ObjectiveAdd
      <4>8. Objective(D) = f[i]
        <5> HIDE DEF D, i
        <5> QED
          BY <4>2, <4>5, <4>7
      <4>9. \A v \in D : v.start >= i
        <5>1. \A v \in C : v.start >= j /\ v.start \in Int
          BY <4>5 DEF CoversFrom, Passable
        <5>2. \A x \in Int : x >= j => x >= i
          BY <4>1, <4>3
        <5> HIDE DEF i, j
        <5>3. i >= i
          BY <4>1
        <5> QED
          BY <4>3, <5>1, <5>2, <5>3
      <4>10. \A k \in i..n : \E d \in D : \A v \in D : Lies(k, v) <=> v = d
        <5> SUFFICES ASSUME NEW k \in i..n
                     PROVE  \E d \in D : \A v \in D : Lies(k, v) <=> v = d
          OBVIOUS
        <5>1. Lies(k, e) <=> k < j
          BY <4>1, <4>3 DEF Lies
        <5>2. CASE k < j
          <6>1. \A v \in C : ~Lies(k, v)
            <7> SUFFICES ASSUME NEW v \in C PROVE ~Lies(k, v)
              OBVIOUS
            <7>1. v.start >= j /\ v.start \in Int
              BY <4>5 DEF CoversFrom, Passable
            <7>2. k \in Int /\ j \in Int
              BY <1>0, <4>1, <4>3
            <7>3. ~(v.start <= k)
              <8> HIDE DEF j
              <8> QED
                BY <5>2, <7>1, <7>2
            <7> QED
              BY <7>3 DEF Lies
          <6> HIDE DEF j
          <6> QED
            BY <4>6, <5>1, <5>2, <6>1
        <5>3. CASE ~(k < j)
          <6>1. k \in j..n
            BY <1>0, <4>1, <4>3, <5>3
          <6>2. PICK d \in C : \A v \in C : Lies(k, v) <=> v = d
            BY <4>5, <6>1 DEF CoversFrom
          <6> HIDE DEF j
          <6> QED
            BY <4>6, <5>1, <5>3, <6>2
        <5> QED
          BY <5>2, <5>3
      <4>11. D \in SUBSET edges
        BY <4>3
      <4> HIDE DEF D, i
      <4> QED
        BY <4>8, <4>9, <4>10, <4>11 DEF CoversFrom
    <3> QED
      BY <3>1, <3>2
  <2> QED
    BY <2>2, <2>4
<1>3. n \in 0..n /\ n \notin Bad /\ n + 1 - n = 1
  BY <1>0, <1>2
<1>4. \E C \in SUBSET edges : Path(1, C)
  <2> HIDE DEF Path
  <2> QED
    BY <1>3
<1> QED
  BY <1>1, <1>4

(* As many choices as patterns.                                            *)
LEMMA ChoicesCount ==
  ASSUME NEW S, IsFiniteSet(S)
  PROVE  Cardinality({Choice(p) : p \in S}) = Cardinality(S)
<1> DEFINE T == {Choice(p) : p \in S}
           f == [p \in S |-> Choice(p)]
<1>1. f \in Surjection(S, T)
  BY DEF Surjection
<1>2. f \in Injection(S, T)
  <2>1. f \in [S -> T]
    OBVIOUS
  <2>2. \A p, q : Choice(p) = Choice(q) => p = q
    <3> SUFFICES ASSUME NEW p, NEW q, Choice(p) = Choice(q) PROVE p = q
      OBVIOUS
    <3>1. Choice(p).pattern = p /\ Choice(q).pattern = q
      BY ChoiceFields, Zenon
    <3> QED
      BY <3>1
  <2>3. \A p, q \in S : f[p] = f[q] => p = q
    BY <2>2
  <2> HIDE DEF f, T
  <2> QED
    BY <2>1, <2>3 DEF Injection, IsInjective
<1> HIDE DEF f, T
<1>3. Cardinality(T) = Cardinality(S)
  BY <1>1, <1>2, FS_Surjection
<1> QED
  BY <1>3 DEF T

(* The edges that a selection allows lead through the window.              *)
Allowed(s) == {e \in program.edges : e.pattern \in s \cup {NoPattern}}

(* One gets through with the edges without a pattern alone.                *)
LEMMA AllowedFit ==
  ASSUME IsProgram(program), NEW s
  PROVE  IsFiniteSet(Allowed(s)) /\ Passable(program.length, Allowed(s))
<1>1. IsFiniteSet(Allowed(s))
  BY FS_Subset DEF IsProgram, EdgesFit, Allowed
<1>2. Passable(program.length, Allowed(s))
  BY DEF IsProgram, EdgesFit, Allowed, Passable
<1> QED
  BY <1>1, <1>2

(* What the optimum of a selection attains, a candidate does not exceed.   *)
LEMMA BestCandidate ==
  ASSUME IsProgram(program),
         NEW s \in Selections(Patterns(program.edges), program.slots)
  PROVE  \E D \in SUBSET program.columns : Feasible(D) /\ Objective(D) <= Attained(s)
<1> DEFINE n == program.length
           edges == program.edges
           patterns == Patterns(edges)
           choices == {Choice(p) : p \in s}
<1>1. IsFiniteSet(Allowed(s)) /\ Passable(n, Allowed(s))
  BY AllowedFit
<1>2. PICK C \in SUBSET Allowed(s) : CoversFrom(1, n, C) /\ Objective(C) = Attained(s)
  <2>1. Attained(s) = LeastCover(n, Allowed(s))
    BY DEF Attained, Allowed
  <2> QED
    BY <1>1, <2>1, PathExists
<1> DEFINE D == C \cup choices
<1>3. s \in SUBSET patterns /\ Cardinality(s) \in 1..program.slots
  BY DEF Selections
<1>4. \A v \in C : v \in edges /\ v \in program.columns /\ ~IsChoice(v) /\ v \notin choices
  <2>1. \A v \in C : v \in edges /\ v \in program.columns
    BY DEF IsProgram, Allowed
  <2>2. \A v \in C : ~IsChoice(v)
    BY <2>1, ColumnsAre
  <2>3. \A v \in choices : IsChoice(v)
    BY ChoiceFields, Zenon
  <2> HIDE DEF choices
  <2> QED
    BY <2>1, <2>2, <2>3
<1>5. D \in SUBSET program.columns
  <2>1. choices \subseteq program.columns
    BY <1>3 DEF IsProgram
  <2> HIDE DEF choices
  <2> QED
    BY <1>4, <2>1
<1>6. Coherent(D)
  <2>1. ASSUME NEW i \in 1..n PROVE Cardinality({v \in D : Lies(i, v)}) = 1
    <3>1. PICK e \in C : \A v \in C : Lies(i, v) <=> v = e
      BY <1>2 DEF CoversFrom
    <3>2. i \in Int
      BY DEF IsProgram
    <3>3. \A v \in choices : ~Lies(i, v)
      BY <3>2, ChoiceFields, Zenon
    <3>4. {v \in D : Lies(i, v)} = {e}
      <4> HIDE DEF choices
      <4> QED
        BY <3>1, <3>3
    <3> QED
      BY <3>4, FS_Singleton
  <2>2. Cardinality(Chosen(D)) \in 1..program.slots
    <3>1. \A v \in choices : IsChoice(v)
      BY ChoiceFields, Zenon
    <3>2. Chosen(D) = choices
      <4> HIDE DEF choices
      <4> QED
        BY <1>4, <3>1 DEF Chosen
    <3>3. IsFiniteSet(s)
      BY <1>3, ProgramFinite, FS_Subset
    <3> QED
      BY <1>3, <3>2, <3>3, ChoicesCount
  <2>3. \A e \in Uses(edges) : e \in D => Choice(e.pattern) \in D
    <3> SUFFICES ASSUME NEW e \in Uses(edges), e \in D PROVE Choice(e.pattern) \in D
      OBVIOUS
    <3>1. e \notin choices
      <4>1. ~IsChoice(e)
        BY <1>5, ColumnsAre DEF Uses
      <4> QED
        BY <4>1, ChoiceFields, Zenon
    <3>2. e \in Allowed(s) /\ e.pattern # NoPattern
      BY <3>1 DEF Uses
    <3>3. e.pattern \in s
      BY <3>2 DEF Allowed
    <3> QED
      BY <3>3
  <2> HIDE DEF D
  <2> QED
    BY <2>1, <2>2, <2>3 DEF Coherent
<1>7. Feasible(D)
  <2> HIDE DEF D
  <2> QED
    BY <1>5, <1>6, FeasibleIs
<1>8. Objective(D) <= Objective(C)
  <2> DEFINE f == [v \in D |-> v.cost]
             g == [v \in C |-> v.cost]
  <2>1. Objective(D) = SumFunctionOnSet(f, D) /\ Objective(C) = SumFunctionOnSet(g, C)
    BY DEF Objective, SumFunction
  <2>2. IsFiniteSet(D) /\ IsFiniteSet(C)
    <3>1. IsFiniteSet(program.columns) /\ C \subseteq D
      BY ProgramFinite
    <3> HIDE DEF D
    <3> QED
      BY <1>5, <3>1, FS_Subset
  <2>3. \A v \in D : f[v] \in Int
    <3>1. \A v \in D : v.cost \in Nat
      <4> HIDE DEF D
      <4> QED
        BY <1>5, ProgramNumbers
    <3> HIDE DEF D
    <3> QED
      BY <3>1
  <2>4. \A v \in D \ C : f[v] <= 0
    <3>1. \A v \in choices : v.cost = 0
      BY ChoiceFields, Zenon
    <3> HIDE DEF choices
    <3> QED
      BY <3>1
  <2>5. \A v \in C : f[v] = g[v]
    OBVIOUS
  <2>6. C \in SUBSET D
    OBVIOUS
  <2> HIDE DEF D, f, g
  <2>7. SumFunctionOnSet(f, D) <= SumFunctionOnSet(f, C)
    BY <2>2, <2>3, <2>4, <2>6, SumPart
  <2>8. SumFunctionOnSet(f, C) = SumFunctionOnSet(g, C)
    BY <2>2, <2>5, SumSame
  <2> QED
    BY <2>1, <2>7, <2>8
<1> HIDE DEF D
<1> QED
  BY <1>2, <1>5, <1>7, <1>8
-----------------------------------------------------------------------------
(* From a candidate to a cover of the window.                              *)

(* Less of what costs something costs no more.                             *)
LEMMA ObjectiveSubset ==
  ASSUME NEW C, IsFiniteSet(C), \A v \in C : v.cost \in Nat, NEW D \in SUBSET C
  PROVE  Objective(D) \in Nat /\ Objective(D) <= Objective(C)
<1> DEFINE minus == -1
           cost(S) == [v \in S |-> v.cost]
           f == cost(C)
           h == [v \in C |-> minus * f[v]]
           total(S) == SumFunctionOnSet(f, S)
<1>1. \A S : Objective(S) = SumFunctionOnSet(cost(S), S)
  BY DEF Objective, SumFunction
<1>2. \A S \in SUBSET C : /\ IsFiniteSet(S)
                          /\ \A v \in S : cost(S)[v] = f[v]
  BY FS_Subset
<1>3. \A v \in C : f[v] \in Nat /\ h[v] = minus * f[v]
  OBVIOUS
<1>4. minus \in Int /\ \A x \in Nat : minus * x \in Int /\ minus * x <= 0
  OBVIOUS
<1> HIDE DEF cost, f, h, minus
<1>5. \A S \in SUBSET C : Objective(S) = total(S)
  <2> SUFFICES ASSUME NEW S \in SUBSET C PROVE Objective(S) = total(S)
    OBVIOUS
  <2>1. IsFiniteSet(S) /\ \A v \in S : cost(S)[v] = f[v]
    BY <1>2
  <2>2. SumFunctionOnSet(cost(S), S) = SumFunctionOnSet(f, S)
    BY <2>1, SumSame
  <2> QED
    BY <1>1, <2>2
<1>6. \A S \in SUBSET C : total(S) \in Int /\ SumFunctionOnSet(h, S) = minus * total(S)
  <2> SUFFICES ASSUME NEW S \in SUBSET C
               PROVE  total(S) \in Int /\ SumFunctionOnSet(h, S) = minus * total(S)
    OBVIOUS
  <2>1. IsFiniteSet(S) /\ \A v \in S : f[v] \in Int /\ h[v] = minus * f[v]
    BY <1>2, <1>3
  <2> QED
    BY <1>4, <2>1, SumType, SumTimes
<1>7. \A S \in SUBSET C : \A U \in SUBSET S :
        SumFunctionOnSet(h, S) <= SumFunctionOnSet(h, U)
  <2> SUFFICES ASSUME NEW S \in SUBSET C, NEW U \in SUBSET S
               PROVE  SumFunctionOnSet(h, S) <= SumFunctionOnSet(h, U)
    OBVIOUS
  <2>1. IsFiniteSet(S) /\ (\A v \in S : h[v] \in Int) /\ (\A v \in S \ U : h[v] <= 0)
    BY <1>2, <1>3, <1>4
  <2> QED
    BY <2>1, SumPart
<1>8. ASSUME NEW S \in SUBSET C, NEW U \in SUBSET S PROVE total(U) <= total(S)
  <2> DEFINE x == total(S)
             y == total(U)
  <2>1. U \in SUBSET C
    OBVIOUS
  <2>2. x \in Int /\ y \in Int /\ minus * x <= minus * y
    BY <1>6, <1>7, <2>1
  <2>3. \A z \in Int : minus * z = -z
    BY DEF minus
  <2> HIDE DEF x, y
  <2>4. y <= x
    BY <2>2, <2>3
  <2> QED
    BY <2>4 DEF x, y
<1>9. total({}) = 0
  BY SumEmpty
<1> HIDE DEF total
<1>10. total(D) \in Int /\ 0 <= total(D) /\ total(D) <= total(C)
  BY <1>6, <1>8, <1>9
<1> QED
  BY <1>5, <1>10

(* What a candidate selects, with its edges, is a selection with a cover of *)
(* the window that costs no more.                                          *)
Selected(C) == {v.pattern : v \in Chosen(C)}

(* It selects as many patterns as it may, and uses those only.             *)
LEMMA CandidateSelects ==
  ASSUME IsProgram(program), NEW C \in SUBSET program.columns, Feasible(C)
  PROVE  /\ Selected(C) \in Selections(Patterns(program.edges), program.slots)
         /\ C \ Chosen(C) \subseteq Allowed(Selected(C))
<1> DEFINE edges == program.edges
           s == Selected(C)
<1>1. Coherent(C)
  BY FeasibleIs
<1>2. \A v \in Chosen(C) : v.pattern \in Patterns(edges) /\ v = Choice(v.pattern)
  <2> SUFFICES ASSUME NEW v \in Chosen(C)
               PROVE  v.pattern \in Patterns(edges) /\ v = Choice(v.pattern)
    OBVIOUS
  <2>1. v \in program.columns /\ IsChoice(v)
    BY DEF Chosen
  <2>2. PICK p \in Patterns(edges) : v = Choice(p)
    BY <2>1, ColumnsAre
  <2>3. Choice(p).pattern = p
    BY ChoiceFields, Zenon
  <2> QED
    BY <2>2, <2>3
<1>3. s \in SUBSET Patterns(edges)
  BY <1>2 DEF Selected
<1>4. Chosen(C) = {Choice(p) : p \in s}
  BY <1>2, Zenon DEF Selected
<1>5. IsFiniteSet(s)
  BY <1>3, ProgramFinite, FS_Subset
<1>6. Cardinality(s) \in 1..program.slots
  BY <1>1, <1>4, <1>5, ChoicesCount DEF Coherent
<1>7. ASSUME NEW e \in C, e \notin Chosen(C) PROVE e \in Allowed(s)
  <2>1. e \in edges
    BY <1>7, ColumnsAre DEF Chosen
  <2>2. CASE e.pattern = NoPattern
    BY <2>1, <2>2 DEF Allowed
  <2>3. CASE e.pattern # NoPattern
    <3>1. Choice(e.pattern) \in C
      BY <1>1, <2>1, <2>3 DEF Coherent, Uses
    <3>2. IsChoice(Choice(e.pattern)) /\ Choice(e.pattern).pattern = e.pattern
      BY ChoiceFields, Zenon
    <3>3. e.pattern \in s
      BY <3>1, <3>2, Zenon DEF Selected, Chosen
    <3> QED
      BY <2>1, <3>3 DEF Allowed
  <2> QED
    BY <2>2, <2>3
<1> QED
  BY <1>3, <1>6, <1>7 DEF Selections

(* Its edges, one after the other, lead through the window: where none     *)
(* straddles, the one that lies there begins.                              *)
LEMMA CandidateCover ==
  ASSUME IsProgram(program), NEW C \in SUBSET program.columns, Feasible(C)
  PROVE  Attained(Selected(C)) <= Objective(C)
<1> DEFINE n == program.length
           s == Selected(C)
           E == C \ Chosen(C)
           Later(i) == {v \in E : v.start >= i}
           Boundary(i) == \A v \in E : ~(v.start < i /\ i < v.start + v.width)
<1>0. n \in Nat
  BY DEF IsProgram
<1>1. IsFiniteSet(Allowed(s)) /\ Passable(n, Allowed(s)) /\ E \subseteq Allowed(s)
  BY AllowedFit, CandidateSelects
<1>2. PICK f : /\ LeastCover(n, Allowed(s)) = f[1] /\ f[n + 1] = 0
               /\ \A i \in 1..(n + 1) : f[i] \in Nat
               /\ \A i \in 1..n : \A e \in From(i, Allowed(s)) : f[i] <= e.cost + f[i + e.width]
  BY <1>1, LeastCoverIs
<1>3. IsFiniteSet(C) /\ \A v \in C : v.cost \in Nat
  BY ProgramFinite, ProgramNumbers, FS_Subset
<1>4. \A v \in E : /\ v.start \in 1..n /\ v.width \in {1, 2}
                   /\ v.start + v.width <= n + 1 /\ v.cost \in Nat
  BY <1>1 DEF Passable
<1>5. \A i \in 1..n : \E e \in E : \A v \in E : Lies(i, v) <=> v = e
  <2> SUFFICES ASSUME NEW i \in 1..n PROVE \E e \in E : \A v \in E : Lies(i, v) <=> v = e
    OBVIOUS
  <2> DEFINE here == {v \in C : Lies(i, v)}
  <2>1. IsFiniteSet(here)
    BY <1>3, FS_Subset
  <2>2. Cardinality(here) = 1
    BY FeasibleIs DEF Coherent
  <2>3. PICK e : here = {e}
    BY <2>1, <2>2, FS_Singleton
  <2>4. i \in Int
    BY <1>0
  <2>5. e \notin Chosen(C)
    <3> SUFFICES ASSUME e \in Chosen(C) PROVE FALSE
      OBVIOUS
    <3>1. e \in program.columns /\ IsChoice(e)
      BY DEF Chosen
    <3>2. PICK p : e = Choice(p)
      BY <3>1, ColumnsAre
    <3>3. ~Lies(i, e)
      BY <2>4, <3>2, ChoiceFields, Zenon
    <3> QED
      BY <2>3, <3>3
  <2> QED
    BY <2>3, <2>5
<1> HIDE DEF E
<1>6. \A i : Objective(Later(i)) \in Nat /\ Later(i) \subseteq C /\ IsFiniteSet(Later(i))
  <2> SUFFICES ASSUME NEW i
               PROVE Objective(Later(i)) \in Nat /\ Later(i) \subseteq C /\ IsFiniteSet(Later(i))
    OBVIOUS
  <2>1. Later(i) \in SUBSET C
    BY DEF E
  <2> HIDE DEF Later
  <2> QED
    BY <1>3, <2>1, ObjectiveSubset, FS_Subset
<1> DEFINE Bad == {m \in 0..n : Boundary(n + 1 - m)
                                  /\ ~(f[n + 1 - m] <= Objective(Later(n + 1 - m)))}
<1>7. Bad = {}
  <2> SUFFICES ASSUME Bad # {} PROVE FALSE
    OBVIOUS
  <2>1. Bad \subseteq Nat
    BY <1>0
  <2>2. PICK m \in Bad : \A j \in Bad : m <= j
    <3> HIDE DEF Bad
    <3> QED
      BY <2>1, LeastNumber
  <2> DEFINE i == n + 1 - m
             cost(k) == Objective(Later(k))
  <2>3. m \in 0..n /\ Boundary(i) /\ ~(f[i] <= cost(i))
    BY <2>2
  <2>4. f[i] <= cost(i)
    <3>1. CASE m = 0
      <4>1. i = n + 1
        BY <1>0, <3>1
      <4>2. cost(i) \in Nat
        BY <1>6
      <4> HIDE DEF i, cost
      <4> QED
        BY <1>2, <4>1, <4>2
    <3>2. CASE m # 0
      <4>1. i \in 1..n /\ i \in Int
        BY <1>0, <2>3, <3>2
      <4>2. PICK e \in E : \A v \in E : Lies(i, v) <=> v = e
        BY <1>5, <4>1
      <4> DEFINE w == e.width
                 j == i + w
      <4>3. e.start = i /\ w \in {1, 2} /\ j <= n + 1 /\ e.cost \in Nat
        <5> DEFINE x == e.start
        <5>1. i \in x..(x + w - 1)
          BY <4>2 DEF Lies
        <5>2. x \in 1..n /\ w \in {1, 2} /\ x + w <= n + 1 /\ e.cost \in Nat
          BY <1>4
        <5>3. ~(x < i /\ i < x + w)
          BY <2>3
        <5> HIDE DEF x, w, i
        <5>4. x = i
          BY <4>1, <5>1, <5>2, <5>3
        <5> QED
          BY <5>2, <5>4 DEF x
      <4>4. j \in Int /\ i < j /\ j <= i + 2 /\ j - 1 \in 1..n
        <5> HIDE DEF i, w
        <5> QED
          BY <1>0, <4>1, <4>3
      <4>5. \A k \in Int : Lies(k, e) <=> i <= k /\ k < j
        <5> SUFFICES ASSUME NEW k \in Int PROVE Lies(k, e) <=> i <= k /\ k < j
          OBVIOUS
        <5>1. k \in i..(i + w - 1) <=> i <= k /\ k < i + w
          <6> HIDE DEF i, w
          <6> QED
            BY <4>1, <4>3
        <5> QED
          BY <4>3, <5>1 DEF Lies
      <4> HIDE DEF i, j, w
      <4>6. \A k \in 1..n : i <= k /\ k < j => \A v \in E : Lies(k, v) => v = e
        <5> SUFFICES ASSUME NEW k \in 1..n, i <= k, k < j, NEW v \in E, Lies(k, v)
                     PROVE  v = e
          OBVIOUS
        <5>1. Lies(k, e)
          BY <1>0, <4>5
        <5> QED
          BY <1>5, <5>1
      <4>7. Boundary(j)
        <5> SUFFICES ASSUME NEW v \in E, v.start < j, j < v.start + v.width PROVE FALSE
          OBVIOUS
        <5> DEFINE x == v.start
                   y == v.width
        <5>1. x \in 1..n /\ y \in {1, 2} /\ x < j /\ j < x + y
          BY <1>4
        <5> HIDE DEF x, y
        <5>2. j - 1 \in x..(x + y - 1) /\ j \in x..(x + y - 1)
          BY <1>0, <4>4, <5>1
        <5>3. i <= j - 1 /\ j - 1 < j
          BY <4>1, <4>4
        <5>4. Lies(j - 1, v) /\ Lies(j, v)
          BY <5>2 DEF Lies, x, y
        <5>5. v = e
          BY <4>4, <4>6, <5>3, <5>4
        <5>6. ~Lies(j, e)
          BY <4>4, <4>5
        <5> QED
          BY <5>4, <5>5, <5>6
      <4>8. Later(i) = Later(j) \cup {e} /\ e \notin Later(j)
        <5>1. ~(e.start >= j) /\ e.start >= i
          BY <4>1, <4>3, <4>4
        <5>2. ASSUME NEW v \in E, v.start >= i, ~(v.start >= j) PROVE v = e
          <6> DEFINE x == v.start
                     y == v.width
          <6>1. x \in 1..n /\ y \in {1, 2} /\ x >= i /\ ~(x >= j)
            BY <1>4, <5>2
          <6> HIDE DEF x, y
          <6>2. x \in x..(x + y - 1) /\ i <= x /\ x < j
            BY <1>0, <4>1, <4>4, <6>1
          <6>3. Lies(x, v)
            BY <6>2 DEF Lies, x, y
          <6> QED
            BY <4>6, <6>1, <6>2, <6>3
        <5>3. ASSUME NEW v \in E, v.start >= j PROVE v.start >= i
          <6> DEFINE x == v.start
          <6>1. x \in Int /\ x >= j
            BY <1>0, <1>4, <5>3
          <6> HIDE DEF x
          <6>2. x >= i
            BY <4>1, <4>4, <6>1
          <6> QED
            BY <6>2 DEF x
        <5> QED
          BY <4>2, <5>1, <5>2, <5>3
      <4>9. cost(i) = e.cost + cost(j)
        <5>1. IsFiniteSet(Later(j)) /\ e \notin Later(j)
          BY <1>6, <4>8
        <5>2. \A v \in Later(j) \cup {e} : v.cost \in Int
          BY <1>4
        <5> HIDE DEF Later
        <5>3. Objective(Later(j) \cup {e}) = e.cost + Objective(Later(j))
          BY <5>1, <5>2, ObjectiveAdd
        <5> QED
          BY <4>8, <5>3
      <4>10. f[j] <= cost(j)
        <5>1. n + 1 - j \in 0..n /\ ~(m <= n + 1 - j) /\ n + 1 - (n + 1 - j) = j
          BY <1>0, <2>3, <4>1, <4>3, <4>4 DEF i
        <5>2. n + 1 - j \notin Bad
          <6> HIDE DEF Bad
          <6> QED
            BY <2>2, <5>1
        <5> HIDE DEF Boundary, Later
        <5> QED
          BY <4>7, <5>1, <5>2
      <4>11. f[i] <= e.cost + f[j]
        <5>1. e \in From(i, Allowed(s))
          BY <1>1, <4>3 DEF From
        <5> QED
          BY <1>2, <4>1, <5>1 DEF j, w
      <4>12. f[i] \in Nat /\ f[j] \in Nat /\ cost(j) \in Nat
        <5>1. i \in 1..(n + 1) /\ j \in 1..(n + 1)
          BY <1>0, <4>1, <4>3, <4>4
        <5> QED
          BY <1>2, <1>6, <5>1
      <4> HIDE DEF cost
      <4> QED
        BY <4>3, <4>9, <4>10, <4>11, <4>12
    <3> QED
      BY <3>1, <3>2
  <2> QED
    BY <2>3, <2>4
<1>8. f[1] <= Objective(Later(1))
  <2>1. n \in 0..n /\ n \notin Bad /\ n + 1 - n = 1
    BY <1>0, <1>7
  <2>2. Boundary(1)
    <3> SUFFICES ASSUME NEW v \in E, v.start < 1 PROVE FALSE
      OBVIOUS
    <3> QED
      BY <1>0, <1>4
  <2> HIDE DEF Boundary, Later
  <2> QED
    BY <2>1, <2>2
<1>9. Objective(Later(1)) <= Objective(C)
  <2>1. Later(1) \in SUBSET C
    BY <1>6
  <2> HIDE DEF Later
  <2> QED
    BY <1>3, <2>1, ObjectiveSubset
<1>10. f[1] \in Nat /\ Objective(Later(1)) \in Nat /\ Objective(C) \in Nat
  <2>1. 1 \in 1..(n + 1) /\ C \in SUBSET C
    BY <1>0
  <2>2. Objective(C) \in Nat
    BY <1>3, <2>1, ObjectiveSubset
  <2> QED
    BY <1>2, <1>6, <2>1, <2>2
<1>11. Attained(s) = f[1]
  BY <1>2 DEF Attained, Allowed
<1> HIDE DEF Later, s
<1>12. f[1] <= Objective(C)
  BY <1>8, <1>9, <1>10
<1> QED
  BY <1>11, <1>12 DEF s
-----------------------------------------------------------------------------
(* The optimum.                                                            *)

(* It is that of a selection, and no other attains less.                   *)
LEMMA OptimumIs ==
  ASSUME IsProgram(program)
  PROVE  LET selections == Selections(Patterns(program.edges), program.slots)
         IN  /\ Optimum \in Nat
             /\ \E s \in selections : Attained(s) = Optimum
             /\ \A s \in selections : Optimum <= Attained(s)
<1> DEFINE patterns == Patterns(program.edges)
           selections == Selections(patterns, program.slots)
           values == {Attained(s) : s \in selections}
<1>1. \A s : Attained(s) \in Nat
  <2> SUFFICES ASSUME NEW s PROVE Attained(s) \in Nat
    OBVIOUS
  <2> DEFINE n == program.length
  <2>1. Passable(n, Allowed(s))
    BY AllowedFit
  <2>2. PICK f : /\ LeastCover(n, Allowed(s)) = f[1]
                 /\ \A i \in 1..(n + 1) : f[i] \in Nat
    BY <2>1, LeastCoverIs
  <2>3. 1 \in 1..(n + 1)
    BY DEF IsProgram
  <2> QED
    BY <2>2, <2>3 DEF Attained, Allowed
<1>2. selections # {}
  <2>1. PICK p : p \in patterns
    BY DEF IsProgram
  <2>2. Cardinality({p}) = 1
    BY FS_Singleton
  <2>3. 1 \in 1..program.slots
    BY DEF IsProgram
  <2>4. {p} \in selections
    BY <2>1, <2>2, <2>3 DEF Selections
  <2> QED
    BY <2>4
<1> HIDE DEF selections
<1>3. values \subseteq Nat /\ values # {}
  BY <1>1, <1>2
<1>4. Min(values) \in values /\ \A x \in values : Min(values) <= x
  <2> HIDE DEF values
  <2> QED
    BY <1>3, MinNumber
<1>5. Optimum = Min(values)
  BY DEF Optimum, selections
<1>6. Optimum \in Nat /\ (\E s \in selections : Attained(s) = Optimum)
        /\ \A s \in selections : Optimum <= Attained(s)
  BY <1>1, <1>4, <1>5
<1> QED
  BY <1>6 DEF selections

(* Multiplying by a number keeps the order.                                *)
LEMMA TimesMonotone ==
  ASSUME NEW d \in Nat, NEW x \in Int, NEW y \in Int, x <= y
  PROVE  d * x <= d * y
<1>1. PICK k \in Nat : y = x + k
  <2>1. y - x \in Nat /\ y = x + (y - x)
    OBVIOUS
  <2> QED
    BY <2>1
<1>2. d * y = d * x + d * k
  BY <1>1
<1>3. d * k \in Nat /\ d * x \in Int
  BY <1>1
<1> DEFINE a == d * x
           b == d * k
           c == d * y
<1> HIDE DEF a, b, c
<1>4. a <= c
  BY <1>2, <1>3 DEF a, b, c
<1> QED
  BY <1>4 DEF a, c

(* In unbounded integers, a dual is worth at most the optimum.             *)
LEMMA ExactBound ==
  ASSUME IsProgram(program),
         NEW eq, \A r \in DOMAIN program.eq : eq[r] \in Int,
         NEW ub, \A r \in DOMAIN program.ub : ub[r] \in Int /\ ub[r] <= 0,
         NEW den \in Nat
  PROVE  /\ Numerator(eq, ub, den, FALSE) \in Int
         /\ Numerator(eq, ub, den, FALSE) <= den * Optimum
<1> DEFINE x == Numerator(eq, ub, den, FALSE)
<1>1. PICK s \in Selections(Patterns(program.edges), program.slots) : Attained(s) = Optimum
  BY OptimumIs
<1>2. PICK D \in SUBSET program.columns : Feasible(D) /\ Objective(D) <= Attained(s)
  BY BestCandidate
<1>3. x \in Int /\ Objective(D) \in Nat /\ x <= den * Objective(D)
  BY <1>2, WeakDuality
<1>4. Optimum \in Nat /\ Objective(D) <= Optimum
  BY <1>1, <1>2, OptimumIs
<1> DEFINE o == Objective(D)
           y == den * o
           z == den * Optimum
<1>5. y <= z
  BY <1>3, <1>4, TimesMonotone
<1>6. y \in Int /\ z \in Int
  BY <1>3, <1>4
<1> HIDE DEF x, y, z
<1>7. x <= z
  BY <1>3, <1>5, <1>6 DEF y
<1> QED
  BY <1>3, <1>7 DEF x, z

(* And the ceiling of the quotient is at most the optimum.                 *)
LEMMA CeilFractionIs ==
  ASSUME NEW x \in Int, NEW d \in Nat \ {0}, NEW o \in Nat, x <= d * o
  PROVE  CeilFraction(x, d) \in Int /\ CeilFraction(x, d) <= o
<1> DEFINE q == (-x) \div d
           r == (-x) % d
           p == d * q
<1>1. q \in Int /\ r \in 0..(d - 1) /\ -x = p + r
  OBVIOUS
<1>2. -q <= o
  <2> SUFFICES ASSUME ~(-q <= o) PROVE FALSE
    OBVIOUS
  <2> HIDE DEF q, r
  <2>1. q <= -o - 1
    BY <1>1
  <2>2. p <= d * (-o - 1)
    <3> HIDE DEF p
    <3>1. -o - 1 \in Int
      OBVIOUS
    <3> QED
      BY <1>1, <2>1, <3>1, TimesMonotone DEF p
  <2>3. d * (-o - 1) = -(d * o) - d
    OBVIOUS
  <2> DEFINE z == d * o
  <2>4. z \in Int /\ x <= z /\ p <= -z - d /\ p \in Int
    BY <1>1, <2>2, <2>3
  <2> HIDE DEF p, z
  <2> QED
    BY <1>1, <2>4
<1> HIDE DEF q
<1> QED
  BY <1>1, <1>2 DEF CeilFraction, q
-----------------------------------------------------------------------------
(* The guard against overflow.                                             *)

(* The greatest of zero and finitely many naturals.                        *)
LEMMA MaxNumber ==
  ASSUME NEW S, IsFiniteSet(S), NEW f, \A x \in S : f[x] \in Nat
  PROVE  LET m == Max({0} \cup {f[x] : x \in S})
         IN  m \in Nat /\ \A x \in S : f[x] <= m
<1> DEFINE values(U) == {0} \cup {f[x] : x \in U}
           Top(m, U) == m \in values(U) /\ \A y \in values(U) : m >= y
           G == {U \in SUBSET S : \E m : Top(m, U)}
<1>1. {} \in G
  <2>1. Top(0, {})
    OBVIOUS
  <2> HIDE DEF Top
  <2> QED
    BY <2>1
<1>2. ASSUME NEW T \in SUBSET S, NEW x \in T, T \ {x} \in G
      PROVE  T \in G
  <2> DEFINE U == T \ {x}
  <2>1. PICK m : Top(m, U)
    <3> HIDE DEF Top
    <3> QED
      BY <1>2
  <2>2. values(T) = values(U) \cup {f[x]} /\ values(U) \subseteq Nat /\ f[x] \in Nat
    OBVIOUS
  <2>3. m \in Nat /\ m \in values(U) /\ \A y \in values(U) : y \in Nat /\ m >= y
    BY <2>1, <2>2
  <2> HIDE DEF values
  <2>4. CASE m >= f[x]
    <3>1. Top(m, T)
      BY <2>2, <2>3, <2>4
    <3> HIDE DEF Top
    <3> QED
      BY <3>1
  <2>5. CASE ~(m >= f[x])
    <3>1. \A y \in values(U) : f[x] >= y
      BY <2>2, <2>3, <2>5
    <3>2. f[x] >= f[x]
      BY <2>2
    <3>3. Top(f[x], T)
      BY <2>2, <3>1, <3>2
    <3> HIDE DEF Top
    <3> QED
      BY <3>3
  <2> QED
    BY <2>4, <2>5
<1> HIDE DEF G
<1>3. S \in G
  BY <1>1, <1>2, ElementInduction
<1>4. PICK m : Top(m, S)
  BY <1>3 DEF G
<1> DEFINE V == values(S)
<1>5. \E x \in V : \A y \in V : x >= y
  BY <1>4
<1>6. V \subseteq Nat /\ \A x \in S : f[x] \in V
  OBVIOUS
<1> HIDE DEF V
<1>7. Max(V) \in V /\ \A y \in V : Max(V) >= y
  BY <1>5 DEF Max
<1>8. Max(V) \in Nat /\ \A x \in S : f[x] <= Max(V)
  BY <1>6, <1>7
<1> QED
  BY <1>8 DEF V

(* A product of two integers is within the product of their bounds.        *)
LEMMA ProductWithin ==
  ASSUME NEW c \in Int, NEW d \in Int, NEW l \in Nat, -l <= d, d <= l
  PROVE  LET p == Magnitude(c) * l IN p \in Nat /\ -p <= c * d /\ c * d <= p
<1>0. -l \in Int /\ l \in Int /\ -d \in Int /\ -d <= l /\ -l <= -d
  OBVIOUS
<1>1. CASE c >= 0
  <2>1. Magnitude(c) = c /\ c \in Nat
    BY <1>1 DEF Magnitude
  <2>2. c * d <= c * l /\ c * (-l) <= c * d
    BY <1>0, <2>1, TimesMonotone
  <2>3. c * (-l) = -(c * l) /\ c * l \in Nat
    BY <2>1
  <2> QED
    BY <2>1, <2>2, <2>3
<1>2. CASE ~(c >= 0)
  <2> DEFINE b == -c
  <2>1. Magnitude(c) = b /\ b \in Nat
    BY <1>2 DEF Magnitude
  <2>2. c * d = b * (-d)
    OBVIOUS
  <2> HIDE DEF b
  <2>3. b * (-d) <= b * l /\ b * (-l) <= b * (-d)
    BY <1>0, <2>1, TimesMonotone
  <2>4. b * (-l) = -(b * l) /\ b * l \in Nat
    BY <2>1
  <2> QED
    BY <2>1, <2>2, <2>3, <2>4
<1> QED
  BY <1>1, <1>2

(* Both factors of a product may be replaced by bounds.                    *)
LEMMA TimesWithin ==
  ASSUME NEW a \in Nat, NEW b \in Nat, NEW c \in Nat, NEW d \in Nat, a <= c, b <= d
  PROVE  a * b \in Nat /\ c * d \in Nat /\ a * b <= c * d
<1>1. a * b <= a * d
  BY TimesMonotone
<1>2. d * a <= d * c
  BY TimesMonotone
<1>3. a * d = d * a /\ c * d = d * c
  OBVIOUS
<1>4. a * b \in Nat /\ a * d \in Nat /\ c * d \in Nat
  OBVIOUS
<1> DEFINE x == a * b
           y == a * d
           z == c * d
<1>5. x <= y /\ y <= z /\ x \in Nat /\ y \in Nat /\ z \in Nat
  BY <1>1, <1>2, <1>3, <1>4
<1> HIDE DEF x, y, z
<1>6. x <= z
  BY <1>5
<1> QED
  BY <1>5, <1>6 DEF x, y, z

(* A number that fits in a word is what it is in words.                    *)
InWord(x) == x \in Int /\ Least <= x /\ x < -Least

(* Wrapping it changes nothing.                                            *)
LEMMA WrappedIs ==
  ASSUME NEW x, InWord(x)
  PROVE  Wrapped(x) = x
<1> DEFINE half == 2 ^ (WordBits - 1)
           word == 2 ^ WordBits
           q == 2 ^ (WordBits - 3)
<1>1. half \in Nat \ {0} /\ word = 2 * half
  <2>1. q \in Nat \ {0} /\ half = 4 * q /\ word = 2 * half
    BY WordAssumption DEF WordAssumption
  <2> HIDE DEF q, half, word
  <2> QED
    BY <2>1
<1>2. Least = -half
  BY DEF Least
<1>3. x \in Int /\ -half <= x /\ x < half
  <2> HIDE DEF half
  <2>1. x \in Int /\ -half <= x /\ x < -(-half)
    BY <1>2 DEF InWord
  <2> QED
    BY <1>1, <2>1
<1>4. Wrapped(x) = ((x - (-half)) % word) + (-half)
  BY <1>2 DEF Wrapped
<1> HIDE DEF half, word
<1>5. x - (-half) \in 0..(word - 1)
  BY <1>1, <1>3
<1>6. (x - (-half)) % word = x - (-half)
  <2> DEFINE y == x - (-half)
  <2>1. y \in 0..(word - 1) /\ word \in Nat \ {0}
    BY <1>1, <1>5
  <2> HIDE DEF y
  <2>2. y % word = y
    BY <2>1
  <2> QED
    BY <2>2 DEF y
<1> QED
  BY <1>1, <1>3, <1>4, <1>6

(* A dual whose entries are not the least number of a word.                *)
IsDual(rows, dual) ==
  /\ DOMAIN dual = DOMAIN rows
  /\ \A r \in DOMAIN rows : dual[r] \in Int /\ Least < dual[r] /\ dual[r] < -Least

(* Its greatest entry bounds them all, since no absolute value wraps.      *)
LEMMA LargestIs ==
  ASSUME NEW rows, IsFiniteSet(DOMAIN rows), NEW dual, IsDual(rows, dual)
  PROVE  /\ Largest(dual) \in Nat
         /\ \A r \in DOMAIN rows : -Largest(dual) <= dual[r] /\ dual[r] <= Largest(dual)
<1> DEFINE D == DOMAIN rows
           f == [r \in D |-> WordAbs(dual[r])]
           l == Largest(dual)
<1>1. \A r \in D : f[r] = Magnitude(dual[r]) /\ f[r] \in Nat
  <2> SUFFICES ASSUME NEW r \in D PROVE f[r] = Magnitude(dual[r]) /\ f[r] \in Nat
    OBVIOUS
  <2> DEFINE d == dual[r]
             h == 2 ^ (WordBits - 1)
  <2>1. d \in Int /\ Least < d /\ d < -Least
    BY DEF IsDual
  <2>2. Least = -h /\ h \in Nat
    <3> DEFINE q == 2 ^ (WordBits - 3)
    <3>1. q \in Nat \ {0} /\ h = 4 * q
      BY WordAssumption DEF WordAssumption
    <3> HIDE DEF q
    <3> QED
      BY <3>1 DEF Least
  <2> HIDE DEF d, h
  <2>3. InWord(Magnitude(d)) /\ Magnitude(d) \in Nat
    <3>1. Magnitude(d) \in Nat /\ Magnitude(d) < h
      BY <2>1, <2>2 DEF Magnitude
    <3> DEFINE m == Magnitude(d)
    <3> HIDE DEF m
    <3>2. m \in Int /\ -h <= m /\ m < -(-h)
      BY <2>2, <3>1 DEF m
    <3> QED
      BY <2>2, <3>1, <3>2 DEF InWord, m
  <2>4. WordAbs(d) = Magnitude(d)
    BY <2>3, WrappedIs DEF WordAbs
  <2> QED
    BY <2>3, <2>4 DEF d
<1>2. l = Max({0} \cup {f[r] : r \in D})
  <2>1. {WordAbs(dual[r]) : r \in DOMAIN dual} = {f[r] : r \in D}
    BY DEF IsDual
  <2> QED
    BY <2>1 DEF Largest
<1>3. l \in Nat /\ \A r \in D : f[r] <= l
  <2> HIDE DEF f, l
  <2> QED
    BY <1>1, <1>2, MaxNumber
<1>4. ASSUME NEW r \in D PROVE -l <= dual[r] /\ dual[r] <= l
  <2> DEFINE d == dual[r]
  <2>1. d \in Int /\ Magnitude(d) <= l
    BY <1>1, <1>3 DEF IsDual
  <2> HIDE DEF l, d
  <2>2. -l <= d /\ d <= l
    BY <1>3, <2>1 DEF Magnitude
  <2> QED
    BY <2>2 DEF d
<1> QED
  BY <1>3, <1>4

(* What a column makes of the rows, between what it makes at most.         *)
LEMMA ProductWithinMass ==
  ASSUME NEW rows, IsFiniteSet(DOMAIN rows), NEW v,
         \A r \in DOMAIN rows : Coefficient(rows[r], v) \in Int,
         NEW dual, NEW l \in Nat,
         \A r \in DOMAIN rows : dual[r] \in Int /\ -l <= dual[r] /\ dual[r] <= l
  PROVE  /\ Mass(rows, v) \in Nat /\ Product(rows, dual, v) \in Int
         /\ -(Mass(rows, v) * l) <= Product(rows, dual, v)
         /\ Product(rows, dual, v) <= Mass(rows, v) * l
<1> DEFINE D == DOMAIN rows
           minus == -1
           zero == 0
           a == [r \in D |-> Magnitude(Coefficient(rows[r], v))]
           p == [r \in D |-> Coefficient(rows[r], v) * dual[r]]
           u == [r \in D |-> l * a[r]]
           w == [r \in D |-> minus * u[r]]
           none == [r \in D |-> zero]
<1>1. Mass(rows, v) = SumFunctionOnSet(a, D)
  BY DEF Mass, SumFunction
<1>2. Product(rows, dual, v) = SumFunctionOnSet(p, D)
  BY DEF Product, SumFunction
<1>3. ASSUME NEW r \in D
      PROVE  /\ a[r] \in Int /\ 0 <= a[r] /\ p[r] \in Int
             /\ u[r] = l * a[r] /\ w[r] = minus * u[r]
             /\ u[r] \in Int /\ w[r] \in Int /\ w[r] <= p[r] /\ p[r] <= u[r]
  <2> DEFINE c == Coefficient(rows[r], v)
             d == dual[r]
             m == Magnitude(c)
  <2>1. c \in Int /\ d \in Int /\ -l <= d /\ d <= l
    OBVIOUS
  <2> HIDE DEF c, d
  <2>2. m \in Nat
    BY <2>1 DEF Magnitude
  <2>3. m * l \in Nat /\ -(m * l) <= c * d /\ c * d <= m * l
    BY <2>1, ProductWithin
  <2>4. m * l = l * m /\ minus * (l * m) = -(l * m) /\ c * d \in Int
    BY <2>1, <2>2
  <2>5. a[r] = m /\ p[r] = c * d /\ u[r] = l * m /\ w[r] = minus * (l * m)
    BY DEF c, d
  <2> HIDE DEF a, p, u, w, m
  <2> DEFINE x == l * m
             y == c * d
  <2>6. x \in Nat /\ y \in Int /\ -x <= y /\ y <= x
    BY <2>3, <2>4
  <2>7. u[r] = x /\ w[r] = -x /\ p[r] = y
    BY <2>4, <2>5
  <2> HIDE DEF x, y
  <2>8. u[r] \in Int /\ w[r] \in Int /\ w[r] <= p[r] /\ p[r] <= u[r] /\ p[r] \in Int
    BY <2>6, <2>7
  <2>9. u[r] = l * a[r] /\ w[r] = minus * u[r]
    BY DEF u, w
  <2> QED
    BY <2>2, <2>5, <2>8, <2>9
<1>4. minus \in Int /\ zero \in Int /\ l \in Int
  OBVIOUS
<1>5. \A r \in D : none[r] = zero
  OBVIOUS
<1>6. (\A x \in Int : minus * x = -x /\ zero * x = zero) /\ zero = 0
  OBVIOUS
<1> HIDE DEF a, p, u, w, none, minus, zero
<1>7. SumFunctionOnSet(a, D) \in Int /\ SumFunctionOnSet(p, D) \in Int
  BY <1>3, SumType
<1>8. SumFunctionOnSet(u, D) = l * SumFunctionOnSet(a, D)
  BY <1>3, <1>4, SumTimes
<1>9. SumFunctionOnSet(u, D) \in Int
  BY <1>3, SumType
<1>10. SumFunctionOnSet(w, D) = minus * SumFunctionOnSet(u, D)
  BY <1>3, <1>4, SumTimes
<1>11. SumFunctionOnSet(w, D) <= SumFunctionOnSet(p, D)
  BY <1>3, SumMonotone
<1>12. SumFunctionOnSet(p, D) <= SumFunctionOnSet(u, D)
  BY <1>3, SumMonotone
<1>13. SumFunctionOnSet(none, D) = zero * SumFunctionOnSet(a, D)
  <2>1. \A r \in D : a[r] \in Int /\ none[r] = zero * a[r]
    BY <1>3, <1>5, <1>6
  <2> QED
    BY <1>4, <2>1, SumTimes
<1>14. SumFunctionOnSet(none, D) <= SumFunctionOnSet(a, D)
  <2>1. \A r \in D : none[r] \in Int /\ a[r] \in Int /\ none[r] <= a[r]
    BY <1>3, <1>4, <1>5, <1>6
  <2> QED
    BY <2>1, SumMonotone
<1> DEFINE m == SumFunctionOnSet(a, D)
           x == SumFunctionOnSet(p, D)
           y == SumFunctionOnSet(u, D)
<1>15. m \in Int /\ 0 <= m
  BY <1>6, <1>7, <1>13, <1>14
<1>16. y \in Int /\ x \in Int /\ -y <= x /\ x <= y /\ y = l * m
  BY <1>6, <1>7, <1>8, <1>9, <1>10, <1>11, <1>12
<1> HIDE DEF m, x, y
<1>17. l * m = m * l
  BY <1>15
<1> QED
  BY <1>1, <1>2, <1>15, <1>16, <1>17 DEF m, x

(* A reduced cost that the guard lets pass fits in a word.                 *)
LEMMA ReducedFits ==
  ASSUME IsProgram(program), NEW eq, IsDual(program.eq, eq),
         NEW ub, IsDual(program.ub, ub), NEW den \in Nat, Guarded(eq, ub, den),
         NEW v \in program.columns
  PROVE  InWord(Reduced(eq, ub, den, v))
<1> DEFINE V == program.columns
           mass1 == [u \in V |-> Mass(program.eq, u)]
           mass2 == [u \in V |-> Mass(program.ub, u)]
           cost == [u \in V |-> u.cost]
           m1 == LargestMass(program.eq)
           m2 == LargestMass(program.ub)
           l1 == Largest(eq)
           l2 == Largest(ub)
           top == Max({0} \cup {u.cost : u \in V})
           p1 == Product(program.eq, eq, v)
           p2 == Product(program.ub, ub, v)
           c == v.cost
<1>1. /\ IsFiniteSet(V) /\ IsFiniteSet(DOMAIN program.eq) /\ IsFiniteSet(DOMAIN program.ub)
      /\ \A u \in V : u.cost \in Nat
      /\ \A r \in DOMAIN program.eq : \A u : Coefficient(program.eq[r], u) \in Int
      /\ \A r \in DOMAIN program.ub : \A u : Coefficient(program.ub[r], u) \in Int
  BY ProgramFinite, ProgramNumbers
<1>2. /\ l1 \in Nat
      /\ \A r \in DOMAIN program.eq : eq[r] \in Int /\ -l1 <= eq[r] /\ eq[r] <= l1
  BY <1>1, LargestIs DEF IsDual
<1>3. /\ l2 \in Nat
      /\ \A r \in DOMAIN program.ub : ub[r] \in Int /\ -l2 <= ub[r] /\ ub[r] <= l2
  BY <1>1, LargestIs DEF IsDual
<1> HIDE DEF l1, l2
<1>4. /\ \A u : Mass(program.eq, u) \in Nat
      /\ p1 \in Int /\ -(Mass(program.eq, v) * l1) <= p1 /\ p1 <= Mass(program.eq, v) * l1
  BY <1>1, <1>2, ProductWithinMass
<1>5. /\ \A u : Mass(program.ub, u) \in Nat
      /\ p2 \in Int /\ -(Mass(program.ub, v) * l2) <= p2 /\ p2 <= Mass(program.ub, v) * l2
  BY <1>1, <1>3, ProductWithinMass
<1>6. m1 \in Nat /\ Mass(program.eq, v) <= m1
  <2>1. m1 = Max({0} \cup {mass1[u] : u \in V})
    <3>1. {Mass(program.eq, u) : u \in V} = {mass1[u] : u \in V}
      OBVIOUS
    <3> QED
      BY <3>1 DEF LargestMass
  <2>2. \A u \in V : mass1[u] \in Nat
    BY <1>4
  <2>3. mass1[v] = Mass(program.eq, v)
    OBVIOUS
  <2> HIDE DEF m1, mass1
  <2> QED
    BY <1>1, <2>1, <2>2, <2>3, MaxNumber
<1>7. m2 \in Nat /\ Mass(program.ub, v) <= m2
  <2>1. m2 = Max({0} \cup {mass2[u] : u \in V})
    <3>1. {Mass(program.ub, u) : u \in V} = {mass2[u] : u \in V}
      OBVIOUS
    <3> QED
      BY <3>1 DEF LargestMass
  <2>2. \A u \in V : mass2[u] \in Nat
    BY <1>5
  <2>3. mass2[v] = Mass(program.ub, v)
    OBVIOUS
  <2> HIDE DEF m2, mass2
  <2> QED
    BY <1>1, <2>1, <2>2, <2>3, MaxNumber
<1>8. top \in Nat /\ c \in Nat /\ c <= top
  <2>1. top = Max({0} \cup {cost[u] : u \in V})
    <3>1. {u.cost : u \in V} = {cost[u] : u \in V}
      OBVIOUS
    <3> QED
      BY <3>1
  <2>2. \A u \in V : cost[u] \in Nat
    BY <1>1
  <2>3. cost[v] = c
    OBVIOUS
  <2> HIDE DEF top, cost, c
  <2>4. top \in Nat /\ cost[v] <= top
    BY <1>1, <2>1, <2>2, MaxNumber
  <2> QED
    BY <2>2, <2>3, <2>4
<1> DEFINE w1 == Mass(program.eq, v)
           w2 == Mass(program.ub, v)
           q == 2 ^ (WordBits - 3)
<1>9. m1 * l1 + m2 * l2 + den * top < q
  BY DEF Guarded, LargestProduct, l1, l2
<1>10. Least = -(4 * q) /\ q \in Nat \ {0}
  BY WordAssumption DEF WordAssumption, Least
<1>11. Reduced(eq, ub, den, v) = den * c - p1 - p2
  BY DEF Reduced
<1>12. w1 \in Nat /\ w2 \in Nat
  BY <1>4, <1>5
<1> HIDE DEF m1, m2, top, p1, p2, c, w1, w2, q
<1>13. w1 * l1 \in Nat /\ m1 * l1 \in Nat /\ w1 * l1 <= m1 * l1
  BY <1>2, <1>6, <1>12, TimesWithin DEF w1
<1>14. w2 * l2 \in Nat /\ m2 * l2 \in Nat /\ w2 * l2 <= m2 * l2
  BY <1>3, <1>7, <1>12, TimesWithin DEF w2
<1>15. den * c \in Nat /\ den * top \in Nat /\ den * c <= den * top
  <2>1. den <= den
    OBVIOUS
  <2> QED
    BY <1>8, <2>1, TimesWithin
<1> DEFINE x1 == w1 * l1
           x2 == w2 * l2
           y1 == m1 * l1
           y2 == m2 * l2
           x3 == den * c
           y3 == den * top
           r == x3 - p1 - p2
<1>16. /\ x1 \in Nat /\ y1 \in Nat /\ x1 <= y1
       /\ x2 \in Nat /\ y2 \in Nat /\ x2 <= y2
       /\ x3 \in Nat /\ y3 \in Nat /\ x3 <= y3
       /\ y1 + y2 + y3 < q
  BY <1>9, <1>13, <1>14, <1>15
<1>17. /\ p1 \in Int /\ -x1 <= p1 /\ p1 <= x1
       /\ p2 \in Int /\ -x2 <= p2 /\ p2 <= x2
  BY <1>4, <1>5 DEF w1, w2
<1> HIDE DEF x1, x2, x3, y1, y2, y3
<1>18. r \in Int /\ -(4 * q) <= r /\ r < 4 * q
  BY <1>10, <1>16, <1>17
<1>19. -Least = 4 * q
  BY <1>10
<1> QED
  BY <1>10, <1>11, <1>18, <1>19 DEF InWord, x3

(* So that words change nothing.                                           *)
LEMMA GuardedIsExact ==
  ASSUME IsProgram(program), NEW eq, IsDual(program.eq, eq),
         NEW ub, IsDual(program.ub, ub), NEW den \in Nat, Guarded(eq, ub, den)
  PROVE  Numerator(eq, ub, den, TRUE) = Numerator(eq, ub, den, FALSE)
<1>1. \A v \in program.columns : Wrapped(Reduced(eq, ub, den, v)) = Reduced(eq, ub, den, v)
  BY ReducedFits, WrappedIs
<1> DEFINE kept(inWords) ==
             [v \in program.columns |->
                Min({0, IF inWords THEN Wrapped(Reduced(eq, ub, den, v))
                                   ELSE Reduced(eq, ub, den, v)})]
<1>2. kept(TRUE) = kept(FALSE)
  BY <1>1
<1>3. \A b \in BOOLEAN : Numerator(eq, ub, den, b) =
        Constant(program.eq, eq) + Constant(program.ub, ub) + SumFunction(kept(b))
  BY DEF Numerator
<1> HIDE DEF kept
<1> QED
  BY <1>2, <1>3

(* Where no multiplier is the least number of a word, whose absolute value  *)
(* is negative.                                                            *)
NoLeast == Least \notin EqMultipliers \cup UbMultipliers

(* Every bound that replays is one: integer_dual_adapter.py: 278-343.      *)
IsBound(b, den) ==
  /\ b.denominator = den /\ b.numerator = b.exact /\ b.numerator \in Int
  /\ Lower(b) \in Int /\ Lower(b) <= Optimum

(* A dual that _dual_numerator accepts is one of them.                     *)
LEMMA DualBoundsAre ==
  ASSUME NoLeast, IsProgram(program), NEW den \in Nat \ {0}, NEW b \in DualBounds(den)
  PROVE  IsBound(b, den)
<1> DEFINE D1 == 1..Len(program.eq)
           D2 == 1..Len(program.ub)
           negative == {m \in UbMultipliers : m <= 0}
           proposals == [D1 -> EqMultipliers] \X [D2 -> negative]
<1>1. PICK d \in {x \in proposals : Guarded(x[1], x[2], den)} :
        b = [numerator |-> Numerator(d[1], d[2], den, TRUE),
             denominator |-> den,
             exact |-> Numerator(d[1], d[2], den, FALSE)]
  BY DEF DualBounds
<1> DEFINE eq == d[1]
           ub == d[2]
           x == Numerator(eq, ub, den, FALSE)
<1>2. eq \in [D1 -> EqMultipliers] /\ ub \in [D2 -> negative] /\ Guarded(eq, ub, den)
  BY <1>1
<1> HIDE DEF eq, ub
<1>3. D1 = DOMAIN program.eq /\ D2 = DOMAIN program.ub
  BY ProgramFinite
<1>4. \A m \in EqMultipliers \cup UbMultipliers : m \in Int /\ Least < m /\ m < -Least
  <2> SUFFICES ASSUME NEW m \in EqMultipliers \cup UbMultipliers
               PROVE  m \in Int /\ Least < m /\ m < -Least
    OBVIOUS
  <2> DEFINE h == 2 ^ (WordBits - 1)
             q == 2 ^ (WordBits - 3)
  <2>1. m \in (-h)..(h - 1)
    BY DualAssumption DEF DualAssumption
  <2>2. m # Least
    BY DEF NoLeast
  <2>3. Least = -h /\ h = 4 * q /\ q \in Nat
    BY WordAssumption DEF WordAssumption, Least
  <2> HIDE DEF h, q
  <2> QED
    BY <2>1, <2>2, <2>3
<1>5. IsDual(program.eq, eq)
  BY <1>2, <1>3, <1>4 DEF IsDual
<1>6. IsDual(program.ub, ub)
  BY <1>2, <1>3, <1>4 DEF IsDual
<1>7. /\ \A r \in DOMAIN program.eq : eq[r] \in Int
      /\ \A r \in DOMAIN program.ub : ub[r] \in Int /\ ub[r] <= 0
  BY <1>2, <1>3, <1>4
<1>8. Numerator(eq, ub, den, TRUE) = x
  BY <1>2, <1>5, <1>6, GuardedIsExact
<1>9. x \in Int /\ x <= den * Optimum
  BY <1>7, ExactBound
<1>10. Optimum \in Nat
  BY OptimumIs
<1>11. b = [numerator |-> Numerator(eq, ub, den, TRUE), denominator |-> den, exact |-> x]
  BY <1>1 DEF eq, ub
<1>12. b.numerator = x /\ b.denominator = den /\ b.exact = x
  BY <1>8, <1>11
<1> HIDE DEF x
<1>13. CeilFraction(x, den) \in Int /\ CeilFraction(x, den) <= Optimum
  BY <1>9, <1>10, CeilFractionIs
<1> QED
  BY <1>9, <1>12, <1>13 DEF IsBound, Lower
-----------------------------------------------------------------------------
(* The invariant.                                                          *)

(* The optimum of a program that is given.                                 *)
Attains(P, s) ==
  LeastCover(P.length, {e \in P.edges : e.pattern \in s \cup {NoPattern}})

Best(P) == Min({Attains(P, s) : s \in Selections(Patterns(P.edges), P.slots)})

(* It is that of the program of the state.                                 *)
LEMMA BestIs == Optimum = Best(program) /\ \A s : Attained(s) = Attains(program, s)
BY DEF Optimum, Best, Attained, Attains

(* A bound on disk or at hand is none, or one in exact integers.           *)
Known(P, b) ==
  b = NoBound \/ (Lower(b) \in Int /\ Lower(b) <= Best(P) /\ b.numerator = b.exact)

(* An answer names an optimum.                                             *)
Optimal(P, a) ==
  /\ a.objective = Best(P)
  /\ Cardinality(a.selected) \in 1..P.slots
  /\ Attains(P, a.selected) = Best(P)

(* Nothing that comes of the program misleads.                             *)
GivenInv(P, d, w) ==
  /\ IsProgram(P)
  /\ \A x \in Range(Denominators) : \A b \in d[x] : Known(P, b)
  /\ \A a \in w : a.objective <= Best(P) => Optimal(P, a)

(* A witness is certified only against a bound that is there.              *)
IInv ==
  /\ GivenInv(program, duals, witnesses)
  /\ scale \in Nat
  /\ Known(program, best) /\ Known(program, proof)
  /\ (phase = "record" \/ phase = "round" \/ phase = "fix" \/ phase = "search")
       => best # NoBound
  /\ witness.is = "none" \/ Optimal(program, witness)
  /\ answer.is = "success" => Optimal(program, answer)

(* A candidate whose objective is a lower bound is an optimum.             *)
LEMMA WitnessIs ==
  ASSUME IsProgram(program), NEW C \in SUBSET program.columns, Feasible(C),
         Witness(C).objective <= Optimum
  PROVE  Optimal(program, Witness(C))
<1> DEFINE w == Witness(C)
           s == Selected(C)
           o == Objective(C)
           a == Attained(s)
<1>1. w.objective = o /\ w.selected = s
  BY DEF Witness, Selected, Chosen
<1>2. s \in Selections(Patterns(program.edges), program.slots)
  BY CandidateSelects
<1>3. a <= o
  BY CandidateCover
<1>4. Optimum \in Nat /\ Optimum <= a
  BY <1>2, OptimumIs
<1>5. o \in Nat
  <2>1. IsFiniteSet(C) /\ (\A v \in C : v.cost \in Nat) /\ C \in SUBSET C
    BY ProgramFinite, ProgramNumbers, FS_Subset
  <2> QED
    BY <2>1, ObjectiveSubset
<1>6. a \in Nat
  <2> DEFINE n == program.length
  <2>1. Passable(n, Allowed(s))
    BY AllowedFit
  <2>2. PICK f : /\ LeastCover(n, Allowed(s)) = f[1]
                 /\ \A i \in 1..(n + 1) : f[i] \in Nat
    BY <2>1, LeastCoverIs
  <2>3. 1 \in 1..(n + 1)
    BY DEF IsProgram
  <2> QED
    BY <2>2, <2>3 DEF Attained, Allowed
<1>7. o <= Optimum
  BY <1>1
<1>8. Cardinality(s) \in 1..program.slots
  BY <1>2 DEF Selections
<1> HIDE DEF w, s, o, a
<1>9. o = Optimum /\ a = Optimum
  BY <1>3, <1>4, <1>5, <1>6, <1>7
<1>10. Optimal(program, w)
  BY <1>1, <1>8, <1>9, BestIs DEF Optimal, a
<1> QED
  BY <1>10 DEF w

(* It holds of the program as it is captured.                              *)
LEMMA InitInvariant ==
  ASSUME NoLeast, Init
  PROVE  IInv
<1>1. IsProgram(program)
  BY StandardizeGives DEF Init
<1>2. ASSUME NEW x \in Range(Denominators), NEW b \in duals[x] PROVE Known(program, b)
  <2>1. x \in Nat \ {0}
    BY DualAssumption DEF DualAssumption, Range
  <2>2. b \in DualBounds(x)
    BY DEF Init
  <2>3. IsBound(b, x)
    BY <1>1, <2>1, <2>2, DualBoundsAre
  <2> QED
    BY <2>3, BestIs DEF IsBound, Known
<1>3. ASSUME NEW a \in witnesses, a.objective <= Best(program) PROVE Optimal(program, a)
  <2>1. PICK C \in SUBSET program.columns : Feasible(C) /\ a = Witness(C)
    BY DEF Init
  <2>2. Witness(C).objective <= Optimum
    BY <1>3, <2>1, BestIs
  <2> QED
    BY <1>1, <2>1, <2>2, WitnessIs
<1>4. GivenInv(program, duals, witnesses)
  BY <1>1, <1>2, <1>3 DEF GivenInv
<1>5. /\ scale = 0 /\ best = NoBound /\ proof = NoBound /\ phase = "idle"
      /\ witness = Answer("none") /\ answer = Answer("none")
  BY DEF Init
<1>6. witness.is = "none" /\ answer.is # "success"
  BY <1>5 DEF Answer
<1>7. Known(program, best) /\ Known(program, proof)
  BY <1>5 DEF Known
<1> QED
  BY <1>4, <1>5, <1>6, <1>7 DEF IInv

(* Certify, against a bound that is there.                                 *)
LEMMA CertifyStep ==
  ASSUME IInv, best # NoBound, Certify
  PROVE  /\ Optimal(program, witness') /\ answer' = witness' /\ phase' = "idle"
<1>1. witness' \in witnesses /\ witness'.objective = Lower(best) /\ answer' = witness'
        /\ phase' = "idle"
  BY DEF Certify, Return
<1>2. Lower(best) <= Best(program)
  BY DEF IInv, Known
<1>3. witness'.objective <= Best(program)
  BY <1>1, <1>2
<1> QED
  BY <1>1, <1>3 DEF IInv, GivenInv

(* A failure is no success.                                                *)
LEMMA Failures ==
  \A x : x = "none" \/ x = "failed" \/ x = "raised" \/ x = "bound" \/ x = "unattained"
           => Answer(x).is # "success"
BY DEF Answer

(* It holds after every step of an adapter.                                *)
LEMMA NextInvariant ==
  ASSUME IInv, [Next]_vars
  PROVE  IInv'
<1>1. UNCHANGED given
  BY DEF Next, vars, Begin, DeadlinePasses, Relax, Rationalize, Rationalized, ReadBound,
         ReadWitness, RecordBound, Round, Fix, Search
<1>2. program' = program /\ GivenInv(program', duals', witnesses')
  BY <1>1 DEF IInv, given
<1> DEFINE Searching(p) == p = "record" \/ p = "round" \/ p = "fix" \/ p = "search"
           Holds(s, b, q, p, w, a) ==
             /\ s \in Nat
             /\ Known(program, b) /\ Known(program, q)
             /\ Searching(p) => b # NoBound
             /\ w.is = "none" \/ Optimal(program, w)
             /\ a.is = "success" => Optimal(program, a)
<1>3. Holds(scale, best, proof, phase, witness, answer)
  BY DEF IInv
<1>4. SUFFICES Holds(scale', best', proof', phase', witness', answer')
  BY <1>2 DEF IInv
<1>5. ASSUME NEW a \in {"solve", "bound", "reuse", "replay bound", "replay"}, Begin(a)
      PROVE  Holds(scale', best', proof', phase', witness', answer')
  <2>1. /\ scale' = 0 /\ best' = NoBound /\ proof' = proof /\ witness' = witness
        /\ answer' = Answer("none")
    BY <1>5 DEF Begin
  <2>2. phase' = "relax" \/ phase' = "read" \/ phase' = "reread"
    BY <1>5 DEF Begin
  <2>3. ~Searching(phase')
    BY <2>2
  <2>4. Known(program, NoBound)
    BY DEF Known
  <2>5. answer'.is # "success"
    BY <2>1, Failures
  <2> HIDE DEF Searching
  <2> QED
    BY <1>3, <2>1, <2>3, <2>4, <2>5
<1>6. CASE DeadlinePasses
  BY <1>3, <1>6 DEF DeadlinePasses
<1>7. CASE Relax
  <2>1. best' = best /\ proof' = proof /\ witness' = witness
    BY <1>7 DEF Relax
  <2>2. phase' = "idle" \/ phase' = "relax" \/ phase' = "rationalize"
    BY <1>7 DEF Relax, Return
  <2>3. ~Searching(phase')
    BY <2>2
  <2>4. scale' = scale \/ scale' = 0
    BY <1>7 DEF Relax
  <2>5. answer' = answer \/ answer' = Answer("failed")
    BY <1>7 DEF Relax, Return
  <2>6. answer'.is = "success" => answer' = answer
    BY <2>5, Failures
  <2> HIDE DEF Searching
  <2> QED
    BY <1>3, <2>1, <2>3, <2>4, <2>6
<1>8. CASE Rationalize
  <2>1. /\ scale' = scale + 1 /\ scale < Len(Denominators)
        /\ proof' = proof /\ witness' = witness /\ answer' = answer /\ phase' = phase
        /\ phase = "rationalize"
    BY <1>8 DEF Rationalize
  <2>2. ~Searching(phase')
    BY <2>1
  <2>3. Known(program, best')
    <3>1. CASE best' = best
      BY <1>3, <3>1
    <3>2. CASE \E bound \in duals[Denominators[scale + 1]] : best' = bound
      <4> DEFINE n == Len(Denominators)
      <4>1. n \in Nat /\ DOMAIN Denominators = 1..n
        BY DualAssumption, LenProperties DEF DualAssumption
      <4>2. scale \in Nat /\ scale < n
        BY <1>3, <2>1
      <4> HIDE DEF n
      <4>3. scale + 1 \in DOMAIN Denominators
        BY <4>1, <4>2
      <4>4. Denominators[scale + 1] \in Range(Denominators)
        BY <4>3 DEF Range
      <4> QED
        BY <3>2, <4>4 DEF IInv, GivenInv
    <3> QED
      BY <1>8, <3>1, <3>2 DEF Rationalize
  <2>4. scale' \in Nat
    BY <1>3, <2>1
  <2> HIDE DEF Searching
  <2> QED
    BY <1>3, <2>1, <2>2, <2>3, <2>4
<1>9. CASE Rationalized
  <2>1. /\ scale' = scale /\ best' = best /\ proof' = proof
        /\ witness' = witness /\ answer' = answer
    BY <1>9 DEF Rationalized
  <2>2. Searching(phase') => best # NoBound
    BY <1>9 DEF Rationalized
  <2> HIDE DEF Searching
  <2> QED
    BY <1>3, <2>1, <2>2
<1>10. CASE ReadBound
  <2>1. scale' = scale /\ best' = proof /\ proof' = proof /\ witness' = witness
    BY <1>10 DEF ReadBound
  <2>2. Searching(phase') => proof # NoBound
    BY <1>10 DEF ReadBound, Return
  <2>3. answer' = answer \/ answer' = Answer("raised") \/ answer' = Answer("bound")
    BY <1>10 DEF ReadBound, Return
  <2>4. answer'.is = "success" => answer' = answer
    BY <2>3, Failures
  <2> HIDE DEF Searching
  <2> QED
    BY <1>3, <2>1, <2>2, <2>4
<1>11. CASE ReadWitness
  <2>1. scale' = scale /\ best' = best /\ proof' = proof /\ witness' = witness
    BY <1>11 DEF ReadWitness
  <2>2. phase' = "idle" /\ answer' = IF witness.is = "none" THEN Answer("raised") ELSE witness
    BY <1>11 DEF ReadWitness, Return
  <2>3. ~Searching(phase')
    BY <2>2
  <2>4. answer'.is = "success" => Optimal(program, answer')
    BY <1>3, <2>2, Failures
  <2> HIDE DEF Searching
  <2> QED
    BY <1>3, <2>1, <2>3, <2>4
<1>12. CASE RecordBound
  <2>1. scale' = scale /\ best' = best /\ proof' = best /\ witness' = witness
    BY <1>12 DEF RecordBound
  <2>2. Searching(phase') => best # NoBound
    BY <1>3, <1>12 DEF RecordBound
  <2>3. answer' = answer \/ answer' = Answer("bound")
    BY <1>12 DEF RecordBound, Return
  <2>4. answer'.is = "success" => answer' = answer
    BY <2>3, Failures
  <2> HIDE DEF Searching
  <2> QED
    BY <1>3, <2>1, <2>2, <2>4
<1>13. ASSUME scale' = scale, best' = best, proof' = proof, best # NoBound,
              \/ Certify
              \/ witness' = witness /\ (answer' = answer \/ answer' = Answer("unattained")
                                                        \/ answer' = Answer("raised"))
       PROVE  Holds(scale', best', proof', phase', witness', answer')
  <2>1. CASE Certify
    <3>1. Optimal(program, witness') /\ answer' = witness'
      BY <1>13, <2>1, CertifyStep
    <3> QED
      BY <1>3, <1>13, <3>1
  <2>2. CASE witness' = witness /\ (answer' = answer \/ answer' = Answer("unattained")
                                                     \/ answer' = Answer("raised"))
    <3>1. answer'.is = "success" => answer' = answer
      BY <2>2, Failures
    <3> QED
      BY <1>3, <1>13, <2>2, <3>1
  <2> QED
    BY <1>13, <2>1, <2>2
<1>14. CASE Round
  BY <1>3, <1>13, <1>14 DEF Round
<1>15. CASE Fix
  BY <1>3, <1>13, <1>15 DEF Fix, Return
<1>16. CASE Search
  <2>1. scale' = scale /\ best' = best /\ proof' = proof /\ best # NoBound
    BY <1>3, <1>16 DEF Search
  <2>2. \/ Certify
        \/ witness' = witness /\ (answer' = answer \/ answer' = Answer("unattained"))
    BY <1>16 DEF Search, Return
  <2> QED
    BY <1>13, <2>1, <2>2
<1>17. CASE UNCHANGED vars
  BY <1>3, <1>17 DEF vars
<1> QED
  BY <1>5, <1>6, <1>7, <1>8, <1>9, <1>10, <1>11, <1>12, <1>14, <1>15, <1>16, <1>17 DEF Next

(* Every reachable state is one from which the code goes on to bounds and  *)
(* optima only.                                                            *)
THEOREM Invariant ==
  ASSUME NoLeast
  PROVE  Spec => []IInv
<1>1. Init => IInv
  BY InitInvariant
<1>2. IInv /\ [Next]_vars => IInv'
  BY NextInvariant
<1> QED
  BY <1>1, <1>2, PTL DEF Spec

(* integer_dual_adapter.py stores bounds only that the optimum is not      *)
(* below, as long as no multiplier is the least number of a word: whatever *)
(* the solver's other multipliers, the rounding, the choice among the      *)
(* denominators and the words in which they are replayed.                  *)
THEOREM BoundsAreBounds ==
  ASSUME NoLeast
  PROVE  Spec => []BoundIsValid
<1>1. IInv => BoundIsValid
  BY BestIs DEF IInv, Known, BoundIsValid
<1> QED
  BY <1>1, Invariant, PTL

(* A call of it that succeeds, or replays one that did, names an optimum   *)
(* that its selection attains.                                             *)
THEOREM SuccessesAreOptima ==
  ASSUME NoLeast
  PROVE  Spec => []SuccessIsOptimal
<1>1. IInv => SuccessIsOptimal
  BY BestIs DEF IInv, Optimal, SuccessIsOptimal
<1> QED
  BY <1>1, Invariant, PTL

(* The guard of _guard_sparse_products keeps its promise unless a          *)
(* multiplier is the least number of a word: that one, whose absolute value *)
(* wraps, is all that it misses.                                           *)
THEOREM GuardRulesOutTheRest ==
  ASSUME NoLeast
  PROVE  Spec => []GuardRulesOutOverflow
<1>1. IInv => GuardRulesOutOverflow
  BY DEF IInv, Known, NoBound, GuardRulesOutOverflow
<1> QED
  BY <1>1, Invariant, PTL
=============================================================================
