------------------------- MODULE WindowCodec_proof --------------------------
(***************************************************************************)
(* Proofs about one window from trace to patch and back: for every window, *)
(* every table, every tiling by its entries and every size of the caches,  *)
(* the decoder gives back the target, one logical instruction at a time.   *)
(*                                                                         *)
(* First about the loop of decode_varint: for every base, every limit on   *)
(* the digits, every data and every offset it computes what the operator   *)
(* DecodeVarint says, by which the decoder of a window reads integers.     *)
(***************************************************************************)
EXTENDS WindowCodec, VarintReader, FiniteSetTheorems, WellFoundedInduction,
        SequenceTheorems, TLAPS

(* The naturals are well ordered.                                          *)
LEMMA Least ==
  ASSUME NEW T, T \subseteq Nat, T # {}
  PROVE  \E m \in T : \A n \in T : m <= n
<1> DEFINE less == OpToRel(<, Nat)
<1>1. PICK m \in T : \A n \in T : ~(<<n, m>> \in less)
  BY NatLessThanWellFounded, WFMin, Zenon
<1>2. ASSUME NEW n \in Nat, n < m PROVE <<n, m>> \in less
  BY <1>2 DEF OpToRel
<1> HIDE DEF less
<1>3. ASSUME NEW n \in T PROVE m <= n
  <2>1. ~(n < m)
    BY <1>1, <1>2
  <2> QED
    BY <2>1
<1> QED
  BY <1>3

(* A digit is a natural, and so is a number with one digit more.           *)
LEMMA NextNumber ==
  ASSUME NEW m \in Nat, NEW byte \in Byte
  PROVE  m * Base + Payload(byte) \in Nat
<1>1. Base \in Nat /\ Base # 0 /\ byte \in Nat
  BY VarintAssumption DEF VarintAssumption, Byte
<1>2. Payload(byte) \in Nat
  BY <1>1 DEF Payload
<1>3. m * Base \in Nat
  BY <1>1
<1> QED
  BY <1>2, <1>3
-----------------------------------------------------------------------------
(* The numbers that the prefixes of a sequence of bytes spell, up to n.    *)
Spells(f, bytes, n) ==
  \A k \in 0..n : f[k] = IF k = 0 THEN 0 ELSE f[k - 1] * Base + Payload(bytes[k])

(* There are such numbers for every length.                                *)
LEMMA NumbersExist ==
  ASSUME NEW bytes \in Seq(Byte)
  PROVE  \E f \in [0..Len(bytes) -> Nat] : Spells(f, bytes, Len(bytes))
<1> DEFINE Good == {n \in 0..Len(bytes) : \E f \in [0..n -> Nat] : Spells(f, bytes, n)}
           Bad == (0..Len(bytes)) \ Good
<1>1. SUFFICES ASSUME Bad # {} PROVE FALSE
  BY LenProperties
<1>2. PICK m \in Bad : \A n \in Bad : m <= n
  <2>1. Bad \subseteq Nat
    BY LenProperties
  <2> HIDE DEF Bad
  <2> QED
    BY <1>1, <2>1, Least
<1>3. m \in 0..Len(bytes) /\ Len(bytes) \in Nat /\ m \in Nat
  BY LenProperties
<1>4. m # 0
  <2> SUFFICES ASSUME m = 0 PROVE FALSE
    OBVIOUS
  <2>1. [k \in 0..0 |-> 0] \in [0..0 -> Nat]
    OBVIOUS
  <2>2. Spells([k \in 0..0 |-> 0], bytes, 0)
    BY DEF Spells
  <2> QED
    BY <1>3, <2>1, <2>2
<1>5. m - 1 \in 0..Len(bytes) /\ m - 1 \in Nat /\ m - 1 \in Good
  <2>1. m - 1 \in 0..Len(bytes) /\ m - 1 \in Nat /\ ~(m <= m - 1)
    BY <1>3, <1>4
  <2>2. m - 1 \notin Bad
    BY <1>2, <2>1
  <2> HIDE DEF Good
  <2> QED
    BY <2>1, <2>2
<1>6. PICK f \in [0..(m - 1) -> Nat] : Spells(f, bytes, m - 1)
  BY <1>5
<1> DEFINE last == f[m - 1] * Base + Payload(bytes[m])
           g == [k \in 0..m |-> IF k = m THEN last ELSE f[k]]
<1>7. last \in Nat
  <2>1. bytes[m] \in Byte
    BY <1>3, <1>4
  <2>2. f[m - 1] \in Nat
    BY <1>5
  <2> QED
    BY <2>1, <2>2, NextNumber
<1> HIDE DEF last
<1>8. g \in [0..m -> Nat]
  <2> SUFFICES ASSUME NEW k \in 0..m, k # m PROVE f[k] \in Nat
    BY <1>7
  <2>1. k \in 0..(m - 1)
    BY <1>3
  <2> QED
    BY <2>1
<1>9. Spells(g, bytes, m)
  <2> SUFFICES ASSUME NEW k \in 0..m
               PROVE  g[k] = IF k = 0 THEN 0 ELSE g[k - 1] * Base + Payload(bytes[k])
    BY DEF Spells
  <2>1. CASE k = m
    <3>1. k # 0 /\ k - 1 \in 0..m /\ k - 1 # m
      BY <1>3, <1>4, <2>1
    <3>2. g[k - 1] = f[m - 1] /\ g[k] = last
      BY <2>1, <3>1
    <3> QED
      BY <2>1, <3>1, <3>2 DEF last
  <2>2. CASE k # m
    <3>1. k \in 0..(m - 1)
      BY <1>3, <2>2
    <3>2. f[k] = IF k = 0 THEN 0 ELSE f[k - 1] * Base + Payload(bytes[k])
      BY <1>6, <3>1 DEF Spells
    <3>3. k # 0 => k - 1 \in 0..m /\ k - 1 # m
      BY <1>3, <3>1
    <3>4. g[k] = f[k] /\ (k # 0 => g[k - 1] = f[k - 1])
      BY <2>2, <3>3
    <3> HIDE DEF g
    <3> QED
      BY <3>2, <3>4
  <2> QED
    BY <2>1, <2>2
<1>10. m \in Good
  <2> HIDE DEF g
  <2> QED
    BY <1>3, <1>8, <1>9
<1> QED
  BY <1>2, <1>10

(* And no others.                                                          *)
LEMMA NumbersAgree ==
  ASSUME NEW bytes, NEW n \in Nat, NEW f, NEW g, Spells(f, bytes, n), Spells(g, bytes, n)
  PROVE  f[n] = g[n]
<1> DEFINE Bad == {k \in 0..n : f[k] # g[k]}
<1>1. SUFFICES ASSUME Bad # {} PROVE FALSE
  OBVIOUS
<1>2. PICK m \in Bad : \A k \in Bad : m <= k
  <2>1. Bad \subseteq Nat
    OBVIOUS
  <2> HIDE DEF Bad
  <2> QED
    BY <1>1, <2>1, Least
<1>3. m # 0
  BY DEF Spells
<1>4. m - 1 \in 0..n /\ ~(m <= m - 1)
  BY <1>3
<1>5. f[m - 1] = g[m - 1]
  BY <1>2, <1>4
<1>6. /\ f[m] = f[m - 1] * Base + Payload(bytes[m])
      /\ g[m] = g[m - 1] * Base + Payload(bytes[m])
  BY <1>3 DEF Spells
<1> QED
  BY <1>5, <1>6

(* Value is the last of them.                                              *)
LEMMA ValueSpelled ==
  ASSUME NEW bytes \in Seq(Byte), NEW f \in [0..Len(bytes) -> Nat],
         Spells(f, bytes, Len(bytes))
  PROVE  Value(bytes) = f[Len(bytes)]
<1> DEFINE Is(h) == h = [k \in 0..Len(bytes) |->
                           IF k = 0 THEN 0 ELSE h[k - 1] * Base + Payload(bytes[k])]
           g == CHOOSE h : Is(h)
<1>1. Is(f)
  BY DEF Spells
<1>2. Is(g)
  BY <1>1
<1>3. Value(bytes) = g[Len(bytes)]
  BY DEF Value
<1>4. Spells(g, bytes, Len(bytes))
  <2> HIDE DEF g
  <2> QED
    BY <1>2 DEF Spells
<1> HIDE DEF g
<1> QED
  BY <1>3, <1>4, NumbersAgree, LenProperties

(* No bytes spell zero.                                                    *)
LEMMA ValueOfNone ==
  Value(<<>>) = 0
<1>1. <<>> \in Seq(Byte) /\ Len(<<>>) = 0
  OBVIOUS
<1>2. [k \in 0..0 |-> 0] \in [0..0 -> Nat] /\ Spells([k \in 0..0 |-> 0], <<>>, 0)
  BY DEF Spells
<1> QED
  BY <1>1, <1>2, ValueSpelled

(* A byte more is a digit more (varint.py:29-31).                          *)
LEMMA ValueAppended ==
  ASSUME NEW bytes \in Seq(Byte), NEW byte \in Byte
  PROVE  /\ Value(bytes) \in Nat
         /\ Value(Append(bytes, byte)) = Value(bytes) * Base + Payload(byte)
<1> DEFINE all == Append(bytes, byte)
           n == Len(bytes)
<1>1. /\ all \in Seq(Byte) /\ n \in Nat /\ Len(all) = n + 1
      /\ \A k \in 1..n : all[k] = bytes[k]
      /\ all[n + 1] = byte
  OBVIOUS
<1> HIDE DEF all
<1>2. PICK f \in [0..(n + 1) -> Nat] : Spells(f, all, n + 1)
  BY <1>1, NumbersExist
<1>3. Value(all) = f[n + 1]
  BY <1>1, <1>2, ValueSpelled
<1> DEFINE g == [k \in 0..n |-> f[k]]
<1>4. g \in [0..n -> Nat]
  BY <1>1
<1>5. Spells(g, bytes, n)
  <2> SUFFICES ASSUME NEW k \in 0..n
               PROVE  g[k] = IF k = 0 THEN 0 ELSE g[k - 1] * Base + Payload(bytes[k])
    BY DEF Spells
  <2>1. k \in 0..(n + 1) /\ (k # 0 => k - 1 \in 0..n /\ k \in 1..n)
    BY <1>1
  <2>2. f[k] = IF k = 0 THEN 0 ELSE f[k - 1] * Base + Payload(all[k])
    BY <1>2, <2>1 DEF Spells
  <2>3. g[k] = f[k] /\ (k # 0 => g[k - 1] = f[k - 1] /\ all[k] = bytes[k])
    BY <1>1, <2>1
  <2> HIDE DEF g
  <2> QED
    BY <2>2, <2>3
<1>6. Value(bytes) = f[n] /\ f[n] \in Nat
  <2>1. g[n] = f[n] /\ f[n] \in Nat
    BY <1>1
  <2> HIDE DEF g
  <2> QED
    BY <1>4, <1>5, <2>1, ValueSpelled
<1>7. f[n + 1] = f[n] * Base + Payload(byte)
  <2>1. n + 1 \in 0..(n + 1) /\ n + 1 # 0 /\ (n + 1) - 1 = n
    BY <1>1
  <2>2. f[n + 1] = f[(n + 1) - 1] * Base + Payload(all[n + 1])
    BY <1>2, <2>1 DEF Spells
  <2> QED
    BY <1>1, <2>1, <2>2
<1> QED
  BY <1>3, <1>6, <1>7 DEF all
-----------------------------------------------------------------------------
(* Division.                                                               *)

(* An integer is its quotient and remainder.                               *)
LEMMA DivMod ==
  ASSUME NEW n \in Nat, NEW p \in Nat, p # 0
  PROVE  /\ n \div p \in Nat /\ n % p \in 0..(p - 1)
         /\ n = p * (n \div p) + (n % p)
OBVIOUS

(* Quotient and remainder are the only ones.                               *)
LEMMA DivUnique ==
  ASSUME NEW n \in Nat, NEW p \in Nat, p # 0, NEW q \in Nat, NEW r \in 0..(p - 1),
         n = p * q + r
  PROVE  n \div p = q /\ n % p = r
OBVIOUS

(* Dividing twice is dividing by the product.                              *)
LEMMA DivDiv ==
  ASSUME NEW n \in Nat, NEW p \in Nat, NEW b \in Nat, p # 0, b # 0
  PROVE  /\ (n \div p) \div b = n \div (p * b)
         /\ n \div p = (n \div (p * b)) * b + ((n \div p) % b)
<1> DEFINE q == n \div p
           r == n % p
           s == q \div b
           t == q % b
<1>1. q \in Nat /\ r \in 0..(p - 1) /\ n = p * q + r
  BY DivMod
<1>2. s \in Nat /\ t \in 0..(b - 1) /\ q = b * s + t
  BY <1>1, DivMod
<1> HIDE DEF q, r, s, t
<1>3. n = (p * b) * s + (p * t + r)
  <2>1. p * q = p * (b * s) + p * t
    BY <1>1, <1>2
  <2>2. p * (b * s) = (p * b) * s
    BY <1>2
  <2> QED
    BY <1>1, <1>2, <2>1, <2>2
<1>4. p * t + r \in 0..(p * b - 1)
  <2>1. PICK d \in Nat : b = t + 1 + d
    <3>1. b - t - 1 \in Nat /\ b = t + 1 + (b - t - 1)
      BY <1>2
    <3> QED
      BY <3>1
  <2>2. p * b = p * t + p + p * d
    BY <1>2, <2>1
  <2>3. p * d \in Nat /\ p * t \in Nat
    BY <1>2, <2>1
  <2> QED
    BY <1>1, <1>2, <2>2, <2>3
<1>5. p * b \in Nat /\ p * b # 0
  OBVIOUS
<1>6. n \div (p * b) = s
  <2> DEFINE pb == p * b
             u == p * t + r
  <2> HIDE DEF pb, u
  <2>1. pb \in Nat /\ pb # 0 /\ n = pb * s + u /\ u \in 0..(pb - 1)
    BY <1>3, <1>4, <1>5 DEF pb, u
  <2>2. n \div pb = s
    BY <1>2, <2>1, DivUnique
  <2> QED
    BY <2>2 DEF pb
<1>7. b * s = s * b
  BY <1>2
<1> QED
  BY <1>2, <1>6, <1>7 DEF q, s, t

(* The powers of the base.                                                 *)
LEMMA Powers ==
  /\ Base \in Nat \ {0, 1} /\ DigitLimit \in Nat /\ Base ^ 0 = 1
  /\ \A k \in 0..(DigitLimit + 1) : Base ^ k \in Nat \ {0}
  /\ \A k \in 0..DigitLimit : Base ^ (k + 1) = Base ^ k * Base
<1>1. /\ Base \in Nat \ {0, 1} /\ DigitLimit \in Nat /\ Base ^ 0 = 1
      /\ \A k \in 0..DigitLimit : Base ^ k \in Nat \ {0} /\ Base ^ (k + 1) = Base ^ k * Base
  BY VarintAssumption, PowerAssumption DEF VarintAssumption, PowerAssumption
<1>2. ASSUME NEW k \in 0..(DigitLimit + 1) PROVE Base ^ k \in Nat \ {0}
  <2>1. CASE k \in 0..DigitLimit
    BY <1>1, <2>1
  <2>2. CASE k = DigitLimit + 1
    <3>1. /\ Base ^ (DigitLimit + 1) = Base ^ DigitLimit * Base
          /\ Base ^ DigitLimit \in Nat /\ Base ^ DigitLimit # 0
      BY <1>1
    <3>2. \A a, b \in Nat : a # 0 /\ b # 0 => a * b \in Nat \ {0}
      OBVIOUS
    <3> QED
      BY <1>1, <2>2, <3>1, <3>2
  <2> QED
    BY <1>1, <2>1, <2>2
<1> QED
  BY <1>1, <1>2

(* They grow.                                                              *)
LEMMA PowersGrow ==
  ASSUME NEW j \in 0..(DigitLimit + 1), NEW k \in 0..(DigitLimit + 1), j <= k
  PROVE  Base ^ j <= Base ^ k
<1> DEFINE Bad == {m \in j..(DigitLimit + 1) : ~(Base ^ j <= Base ^ m)}
<1>1. DigitLimit \in Nat
  BY Powers
<1>2. SUFFICES ASSUME Bad # {} PROVE FALSE
  BY <1>1
<1>3. PICK m \in Bad : \A n \in Bad : m <= n
  <2>1. Bad \subseteq Nat
    BY <1>1
  <2> HIDE DEF Bad
  <2> QED
    BY <1>2, <2>1, Least
<1>4. m # j
  BY <1>1, Powers
<1>5. m - 1 \in j..(DigitLimit + 1) /\ m - 1 \in 0..DigitLimit /\ ~(m <= m - 1)
      /\ (m - 1) + 1 = m
  BY <1>1, <1>4
<1>6. Base ^ j <= Base ^ (m - 1)
  BY <1>3, <1>5
<1>7. Base ^ m = Base ^ (m - 1) * Base
  BY <1>5, Powers
<1>8. Base ^ (m - 1) \in Nat /\ Base ^ j \in Nat /\ Base \in Nat /\ Base # 0
  BY <1>1, <1>5, Powers
<1>9. \A a, b \in Nat : b # 0 => a <= a * b
  OBVIOUS
<1>10. Base ^ (m - 1) <= Base ^ m
  BY <1>7, <1>8, <1>9
<1>11. Base ^ m \in Nat
  BY <1>1, Powers
<1> QED
  BY <1>6, <1>8, <1>10, <1>11

(* The size of an integer lies between the powers that it lies between.    *)
LEMMA SizeBounds ==
  ASSUME NEW n \in 0..MaxValue
  PROVE  /\ VarintSize(n) \in 1..(DigitLimit + 1) /\ n < Base ^ VarintSize(n)
         /\ VarintSize(n) > 1 => n >= Base ^ (VarintSize(n) - 1)
<1> DEFINE Above == {m \in 1..(DigitLimit + 1) : n < Base ^ m}
           K == {k \in 1..DigitLimit : n >= Base ^ k}
<1>1. DigitLimit \in Nat /\ Base ^ (DigitLimit + 1) \in Nat
  BY Powers
<1>2. n \in Nat /\ n < Base ^ (DigitLimit + 1)
  BY <1>1 DEF MaxValue
<1>3. PICK m \in Above : \A k \in Above : m <= k
  <2>1. Above \subseteq Nat /\ Above # {}
    BY <1>1, <1>2
  <2> HIDE DEF Above
  <2> QED
    BY <2>1, Least
<1>4. m \in 1..(DigitLimit + 1) /\ n < Base ^ m
  BY <1>3
<1>5. ASSUME NEW k \in 1..(m - 1) PROVE k \in 1..DigitLimit /\ n >= Base ^ k
  <2>1. k \in 1..DigitLimit /\ k \in 1..(DigitLimit + 1) /\ ~(m <= k)
    BY <1>1, <1>4
  <2>2. ~(n < Base ^ k)
    BY <1>3, <2>1
  <2>3. Base ^ k \in Nat
    BY <1>1, <2>1, Powers
  <2> QED
    BY <1>2, <2>1, <2>2, <2>3
<1>6. ASSUME NEW k \in 1..DigitLimit, ~(k \in 1..(m - 1)) PROVE ~(n >= Base ^ k)
  <2>1. m <= k /\ m \in 0..(DigitLimit + 1) /\ k \in 0..(DigitLimit + 1)
    BY <1>1, <1>4, <1>6
  <2>2. Base ^ m <= Base ^ k /\ Base ^ m \in Nat /\ Base ^ k \in Nat
    BY <2>1, PowersGrow, Powers
  <2> QED
    BY <1>2, <1>4, <2>2
<1>7. K = 1..(m - 1)
  BY <1>5, <1>6
<1>8. Cardinality(K) = m - 1
  <2>1. 1 \in Int /\ m - 1 \in Int /\ m - 1 >= 0
    BY <1>1, <1>4
  <2> HIDE DEF K
  <2> QED
    BY <1>7, <2>1, FS_Interval
<1>9. VarintSize(n) = m
  <2>1. VarintSize(n) = 1 + Cardinality(K)
    BY DEF VarintSize
  <2> HIDE DEF K
  <2> QED
    BY <1>1, <1>4, <1>8, <2>1
<1>10. m > 1 => n >= Base ^ (m - 1)
  BY <1>1, <1>4, <1>5
<1> QED
  BY <1>4, <1>9, <1>10

(* What encode_varint writes (varint.py:4-16).                             *)
LEMMA Encoded ==
  ASSUME NEW n \in 0..MaxValue
  PROVE  /\ VarintSize(n) \in 1..(DigitLimit + 1)
         /\ EncodeVarint(n) \in Seq(Byte) /\ Len(EncodeVarint(n)) = VarintSize(n)
         /\ \A i \in 1..VarintSize(n) :
              /\ Continues(EncodeVarint(n)[i]) <=> i < VarintSize(n)
              /\ Payload(EncodeVarint(n)[i]) = Digit(n, VarintSize(n) - i)
              /\ EncodeVarint(n)[i] =
                   Digit(n, VarintSize(n) - i) + (IF i < VarintSize(n) THEN Base ELSE 0)
<1> DEFINE s == VarintSize(n)
<1>1. s \in 1..(DigitLimit + 1) /\ DigitLimit \in Nat /\ Base \in Nat \ {0, 1}
  BY SizeBounds, Powers
<1>2. EncodeVarint(n) = [i \in 1..s |-> Digit(n, s - i) + (IF i < s THEN Base ELSE 0)]
  BY DEF EncodeVarint
<1> HIDE DEF s
<1>3. n \in Nat
  BY Powers DEF MaxValue
<1>4. ASSUME NEW i \in 1..s
      PROVE  Digit(n, s - i) \in 0..(Base - 1)
  <2>1. s - i \in 0..(DigitLimit + 1)
    BY <1>1
  <2>2. Base ^ (s - i) \in Nat \ {0}
    BY <2>1, Powers
  <2> DEFINE p == Base ^ (s - i)
  <2>3. n \div p \in Nat
    <3> HIDE DEF p
    <3>1. p \in Nat /\ p # 0
      BY <2>2 DEF p
    <3> QED
      BY <1>3, <3>1, DivMod
  <2> DEFINE q == n \div p
  <2> HIDE DEF q
  <2>4. q % Base \in 0..(Base - 1)
    BY <1>1, <2>3, DivMod DEF q
  <2> QED
    BY <2>4 DEF Digit, q
<1>5. ASSUME NEW i \in 1..s
      PROVE  LET b == EncodeVarint(n)[i] IN
             /\ b \in Byte /\ (Continues(b) <=> i < s) /\ Payload(b) = Digit(n, s - i)
             /\ b = Digit(n, s - i) + (IF i < s THEN Base ELSE 0)
  <2> DEFINE d == Digit(n, s - i)
             b == EncodeVarint(n)[i]
  <2>1. d \in 0..(Base - 1) /\ b = d + (IF i < s THEN Base ELSE 0)
    BY <1>2, <1>4
  <2> HIDE DEF d, b
  <2>2. b \in Byte /\ (Continues(b) <=> i < s)
    BY <1>1, <2>1 DEF Byte, Continues
  <2>3. b % Base = d
    <3>1. CASE i < s
      <4>1. b \in Nat /\ b = Base * 1 + d
        BY <1>1, <2>1, <3>1
      <4> QED
        BY <1>1, <2>1, <4>1, DivUnique
    <3>2. CASE ~(i < s)
      <4>1. b \in Nat /\ b = Base * 0 + d
        BY <1>1, <2>1, <3>2
      <4> QED
        BY <1>1, <2>1, <4>1, DivUnique
    <3> QED
      BY <3>1, <3>2
  <2> QED
    BY <2>1, <2>2, <2>3 DEF Payload, d, b
<1>6. EncodeVarint(n) \in Seq(Byte) /\ Len(EncodeVarint(n)) = s
  <2>1. EncodeVarint(n) \in [1..s -> Byte]
    BY <1>2, <1>5
  <2>2. s \in Nat
    BY <1>1
  <2> QED
    BY <2>1, <2>2
<1> QED
  BY <1>1, <1>5, <1>6 DEF s

(* It spells the integer.                                                  *)
LEMMA EncodedValue ==
  ASSUME NEW n \in 0..MaxValue
  PROVE  Value(EncodeVarint(n)) = n
<1> DEFINE s == VarintSize(n)
           e == EncodeVarint(n)
           f == [k \in 0..s |-> n \div (Base ^ (s - k))]
<1>1. /\ s \in 1..(DigitLimit + 1) /\ DigitLimit \in Nat /\ Base \in Nat /\ Base # 0
      /\ e \in Seq(Byte) /\ Len(e) = s /\ n \in Nat
      /\ \A i \in 1..s : Payload(e[i]) = Digit(n, s - i)
  BY Encoded, Powers DEF MaxValue
<1>2. n < Base ^ s
  BY SizeBounds
<1> HIDE DEF s, e
<1>3. ASSUME NEW k \in 0..s
      PROVE  Base ^ (s - k) \in Nat /\ Base ^ (s - k) # 0 /\ n \div (Base ^ (s - k)) \in Nat
  <2>1. s - k \in 0..(DigitLimit + 1)
    BY <1>1
  <2> DEFINE p == Base ^ (s - k)
  <2>2. p \in Nat /\ p # 0
    BY <2>1, Powers
  <2> HIDE DEF p
  <2>3. n \div p \in Nat
    BY <1>1, <2>2, DivMod
  <2> QED
    BY <2>2, <2>3 DEF p
<1>4. f \in [0..s -> Nat]
  BY <1>3
<1>5. f[0] = 0
  <2> DEFINE p == Base ^ s
  <2>1. s - 0 = s /\ 0 \in 0..s
    BY <1>1
  <2>2. p \in Nat /\ p # 0 /\ n < p
    BY <1>1, <1>2, Powers
  <2>3. f[0] = n \div p
    BY <2>1
  <2> HIDE DEF p, f
  <2>4. n = p * 0 + n /\ n \in 0..(p - 1)
    BY <1>1, <2>2
  <2>5. n \div p = 0
    BY <1>1, <2>2, <2>4, DivUnique
  <2> QED
    BY <2>3, <2>5
<1>6. ASSUME NEW k \in 1..s PROVE f[k] = f[k - 1] * Base + Payload(e[k])
  <2> DEFINE p == Base ^ (s - k)
  <2>1. k \in 0..s /\ k - 1 \in 0..s /\ s - k \in 0..DigitLimit /\ s - (k - 1) = (s - k) + 1
    BY <1>1
  <2>2. Base ^ (s - (k - 1)) = p * Base
    BY <2>1, Powers
  <2>3. f[k] = n \div p /\ f[k - 1] = n \div (p * Base)
    BY <2>1, <2>2
  <2>4. p \in Nat /\ p # 0
    BY <1>3, <2>1
  <2>5. Payload(e[k]) = (n \div p) % Base
    BY <1>1 DEF Digit
  <2> HIDE DEF p, f
  <2>6. n \div p = (n \div (p * Base)) * Base + ((n \div p) % Base)
    BY <1>1, <2>4, DivDiv
  <2> QED
    BY <2>3, <2>5, <2>6
<1>7. Spells(f, e, s)
  <2> SUFFICES ASSUME NEW k \in 0..s
               PROVE  f[k] = IF k = 0 THEN 0 ELSE f[k - 1] * Base + Payload(e[k])
    BY DEF Spells
  <2> HIDE DEF f
  <2>1. k # 0 => k \in 1..s
    BY <1>1
  <2> QED
    BY <1>5, <1>6, <2>1
<1>8. f[s] = n
  <2>1. s - s = 0 /\ s \in 0..s
    BY <1>1
  <2>2. f[s] = n \div 1
    BY <2>1, Powers
  <2> HIDE DEF f
  <2>3. n = 1 * n + 0 /\ 0 \in 0..(1 - 1)
    BY <1>1
  <2>4. n \div 1 = n
    BY <1>1, <2>3, DivUnique
  <2> QED
    BY <2>2, <2>4
<1> HIDE DEF f
<1>9. Value(e) = f[s]
  BY <1>1, <1>4, <1>7, ValueSpelled
<1> QED
  BY <1>8, <1>9 DEF e

(* Bytes spell a number below the power of their length, and their digits  *)
(* are its digits.                                                         *)
LEMMA SpelledDigits ==
  ASSUME NEW bytes \in Seq(Byte), Len(bytes) <= DigitLimit + 1
  PROVE  /\ Value(bytes) \in Nat /\ Value(bytes) < Base ^ Len(bytes)
         /\ \A k \in 1..Len(bytes) :
              Payload(bytes[k]) = Digit(Value(bytes), Len(bytes) - k)
<1> DEFINE n == Len(bytes)
           v == Value(bytes)
<1>1. n \in 0..(DigitLimit + 1) /\ DigitLimit \in Nat /\ Base \in Nat /\ Base # 0 /\ n \in Nat
  BY LenProperties, Powers
<1>2. PICK f \in [0..n -> Nat] : Spells(f, bytes, n)
  BY NumbersExist
<1>3. v = f[n]
  BY <1>2, ValueSpelled
<1>4. ASSUME NEW k \in 1..n
      PROVE  /\ Payload(bytes[k]) \in 0..(Base - 1) /\ f[k] \in Nat /\ f[k - 1] \in Nat
             /\ f[k] = f[k - 1] * Base + Payload(bytes[k])
             /\ f[k] \div Base = f[k - 1] /\ f[k] % Base = Payload(bytes[k])
  <2>1. k \in 0..n /\ k - 1 \in 0..n /\ k # 0
    BY <1>1
  <2>2. f[k] = f[k - 1] * Base + Payload(bytes[k]) /\ f[k] \in Nat /\ f[k - 1] \in Nat
    BY <1>2, <2>1 DEF Spells
  <2>3. bytes[k] \in Nat
    BY <1>1 DEF Byte
  <2>4. Payload(bytes[k]) \in 0..(Base - 1)
    BY <1>1, <2>3, DivMod DEF Payload
  <2>5. f[k] = Base * f[k - 1] + Payload(bytes[k])
    BY <1>1, <2>2, <2>4
  <2>6. f[k] \div Base = f[k - 1] /\ f[k] % Base = Payload(bytes[k])
    <3> DEFINE a == f[k]
               c == f[k - 1]
               d == Payload(bytes[k])
    <3>1. a \in Nat /\ c \in Nat /\ d \in 0..(Base - 1) /\ a = Base * c + d
      BY <2>2, <2>4, <2>5
    <3> HIDE DEF a, c, d
    <3>2. a \div Base = c /\ a % Base = d
      BY <1>1, <3>1, DivUnique
    <3> QED
      BY <3>2 DEF a, c, d
  <2> QED
    BY <2>2, <2>4, <2>6
<1> HIDE DEF n, v
<1>5. \A k \in 0..n : f[k] < Base ^ k
  <2> DEFINE Bad == {k \in 0..n : ~(f[k] < Base ^ k)}
  <2>1. SUFFICES ASSUME Bad # {} PROVE FALSE
    OBVIOUS
  <2>2. PICK m \in Bad : \A k \in Bad : m <= k
    <3>1. Bad \subseteq Nat
      BY <1>1
    <3> HIDE DEF Bad
    <3> QED
      BY <2>1, <3>1, Least
  <2>3. m # 0
    <3>1. f[0] = 0
      BY <1>1, <1>2 DEF Spells
    <3> QED
      BY <3>1, Powers
  <2>4. m \in 1..n /\ m - 1 \in 0..n /\ ~(m <= m - 1) /\ m - 1 \in 0..DigitLimit
        /\ (m - 1) + 1 = m /\ m - 1 \in 0..(DigitLimit + 1)
    BY <1>1, <2>3
  <2>5. f[m - 1] < Base ^ (m - 1)
    BY <2>2, <2>4
  <2>6. Base ^ m = Base ^ (m - 1) * Base /\ Base ^ (m - 1) \in Nat
    BY <2>4, Powers
  <2>7. \A x, b, y \in Nat : \A d \in 0..(b - 1) : x < y => x * b + d < y * b
    <3> SUFFICES ASSUME NEW x \in Nat, NEW b \in Nat, NEW y \in Nat, NEW d \in 0..(b - 1), x < y
                 PROVE  x * b + d < y * b
      OBVIOUS
    <3>1. PICK c \in Nat : y = x + 1 + c
      <4>1. y - x - 1 \in Nat /\ y = x + 1 + (y - x - 1)
        OBVIOUS
      <4> QED
        BY <4>1
    <3>2. y * b = x * b + b + c * b /\ c * b \in Nat /\ x * b \in Nat
      BY <3>1
    <3> QED
      BY <3>2
  <2>8. f[m] < Base ^ m
    <3> DEFINE x == f[m - 1]
               y == Base ^ (m - 1)
               d == Payload(bytes[m])
    <3>1. /\ f[m] = x * Base + d /\ x \in Nat /\ y \in Nat /\ x < y
          /\ d \in 0..(Base - 1) /\ Base ^ m = y * Base
      BY <1>4, <2>4, <2>5, <2>6
    <3> HIDE DEF x, y, d
    <3>2. x * Base + d < y * Base
      BY <1>1, <2>7, <3>1
    <3> QED
      BY <3>1, <3>2
  <2> QED
    BY <2>8
<1>6. \A k \in 0..n : f[n - k] = v \div (Base ^ k)
  <2> DEFINE Bad == {k \in 0..n : f[n - k] # v \div (Base ^ k)}
  <2>1. SUFFICES ASSUME Bad # {} PROVE FALSE
    OBVIOUS
  <2>2. PICK m \in Bad : \A k \in Bad : m <= k
    <3>1. Bad \subseteq Nat
      BY <1>1
    <3> HIDE DEF Bad
    <3> QED
      BY <2>1, <3>1, Least
  <2>3. v \in Nat
    BY <1>1, <1>2, <1>3
  <2>4. m # 0
    <3>1. n - 0 = n /\ v = 1 * v + 0 /\ 0 \in 0..(1 - 1)
      BY <1>1, <2>3
    <3>2. v \div 1 = v
      BY <2>3, <3>1, DivUnique
    <3> QED
      BY <1>3, <3>1, <3>2, Powers
  <2>5. /\ m - 1 \in 0..n /\ ~(m <= m - 1) /\ m - 1 \in 0..DigitLimit /\ (m - 1) + 1 = m
        /\ n - (m - 1) \in 1..n /\ (n - (m - 1)) - 1 = n - m /\ m - 1 \in 0..(DigitLimit + 1)
    BY <1>1, <2>4
  <2>6. f[n - (m - 1)] = v \div (Base ^ (m - 1))
    BY <2>2, <2>5
  <2>7. f[n - m] = f[n - (m - 1)] \div Base
    BY <1>4, <2>5
  <2>8. Base ^ m = Base ^ (m - 1) * Base /\ Base ^ (m - 1) \in Nat /\ Base ^ (m - 1) # 0
    BY <2>5, Powers
  <2> DEFINE p == Base ^ (m - 1)
  <2> HIDE DEF p
  <2>9. (v \div p) \div Base = v \div (p * Base)
    <3>1. p \in Nat /\ p # 0
      BY <2>8 DEF p
    <3> QED
      BY <1>1, <2>3, <3>1, DivDiv
  <2>10. f[n - m] = v \div (Base ^ m)
    <3>1. f[n - m] = (v \div p) \div Base
      BY <2>6, <2>7 DEF p
    <3>2. Base ^ m = p * Base
      BY <2>8 DEF p
    <3> QED
      BY <2>9, <3>1, <3>2
  <2> QED
    BY <2>10
<1>7. ASSUME NEW k \in 1..n PROVE Payload(bytes[k]) = Digit(v, n - k)
  <2>1. n - k \in 0..n /\ n - (n - k) = k
    BY <1>1
  <2>2. f[k] = v \div (Base ^ (n - k))
    BY <1>6, <2>1
  <2> QED
    BY <1>4, <2>2 DEF Digit
<1>8. v \in Nat /\ v < Base ^ n
  BY <1>1, <1>2, <1>3, <1>5
<1> QED
  BY <1>7, <1>8 DEF n, v
-----------------------------------------------------------------------------
Statuses == {"reading", "truncated", "done", "oversized"}

(* Every byte before the last one read goes on, and so does the last one,  *)
(* unless the loop is done; no more were read than the limit allows.       *)
Read ==
  /\ \A j \in (readFrom + 1)..(readTo - 1) : Continues(readData[j])
  /\ readTo > readFrom /\ readStatus # "done" => Continues(readData[readTo])
  /\ readStatus = "done" =>
       readTo > readFrom /\ ~Continues(readData[readTo]) /\ readTo - readFrom <= DigitLimit + 1
  /\ readStatus \in {"reading", "truncated"} => readTo - readFrom <= DigitLimit
  /\ readStatus = "truncated" => readTo = Len(readData)
  /\ readStatus = "oversized" => readTo - readFrom = DigitLimit + 1

ReadIInv ==
  /\ readData \in Seq(Byte) /\ readFrom \in 0..Len(readData) /\ readTo \in readFrom..Len(readData)
  /\ readStatus \in Statuses
  /\ readValue = Value(SubSeq(readData, readFrom + 1, readTo))
  /\ Read

(* The bytes read are a sequence, and one more is appended to them.        *)
LEMMA BytesRead ==
  ASSUME NEW s \in Seq(Byte), NEW m \in 0..Len(s), NEW n \in m..Len(s)
  PROVE  /\ SubSeq(s, m + 1, n) \in Seq(Byte)
         /\ m = n => SubSeq(s, m + 1, n) = <<>>
         /\ n < Len(s) =>
              /\ s[n + 1] \in Byte
              /\ SubSeq(s, m + 1, n + 1) = Append(SubSeq(s, m + 1, n), s[n + 1])
<1>1. Len(s) \in Nat /\ m \in Nat /\ n \in Nat /\ m <= n /\ n <= Len(s)
  BY LenProperties
<1>2. SubSeq(s, m + 1, n) \in Seq(Byte)
  BY <1>1
<1>3. m = n => SubSeq(s, m + 1, n) = <<>>
  BY <1>1
<1>4. ASSUME n < Len(s)
      PROVE  /\ s[n + 1] \in Byte
             /\ SubSeq(s, m + 1, n + 1) = Append(SubSeq(s, m + 1, n), s[n + 1])
  <2>1. n + 1 \in 1..Len(s)
    BY <1>1, <1>4
  <2>2. s[n + 1] \in Byte
    BY <2>1
  <2> DEFINE a == SubSeq(s, m + 1, n)
             b == SubSeq(s, m + 1, n + 1)
             c == Append(a, s[n + 1])
  <2>3. /\ Len(a) = n - m /\ Len(b) = n + 1 - m /\ b \in Seq(Byte)
        /\ \A k \in 1..(n - m) : a[k] = s[m + k]
        /\ \A k \in 1..(n + 1 - m) : b[k] = s[m + k]
    BY <1>1, <1>4
  <2> HIDE DEF a, b
  <2>4. /\ c \in Seq(Byte) /\ Len(c) = n + 1 - m
        /\ \A k \in 1..(n - m) : c[k] = a[k]
        /\ c[n + 1 - m] = s[n + 1]
    <3>1. a \in Seq(Byte)
      BY <1>2 DEF a
    <3> DEFINE l == n - m
    <3>2. l \in Nat /\ Len(a) = l /\ n + 1 - m = l + 1
      BY <1>1, <2>3
    <3> HIDE DEF l
    <3>3. /\ c \in Seq(Byte) /\ Len(c) = l + 1
          /\ \A k \in 1..l : c[k] = a[k]
          /\ c[l + 1] = s[n + 1]
      BY <2>2, <3>1, <3>2
    <3> QED
      BY <3>2, <3>3 DEF l
  <2> HIDE DEF c
  <2>5. \A k \in 1..(n + 1 - m) : c[k] = b[k]
    <3> SUFFICES ASSUME NEW k \in 1..(n + 1 - m) PROVE c[k] = b[k]
      OBVIOUS
    <3>1. CASE k = n + 1 - m
      BY <1>1, <2>3, <2>4, <3>1
    <3>2. CASE k # n + 1 - m
      <4>1. k \in 1..(n - m)
        BY <1>1, <3>2
      <4> QED
        BY <2>3, <2>4, <4>1
    <3> QED
      BY <3>1, <3>2
  <2>6. b = c
    BY <2>3, <2>4, <2>5, SeqEqual
  <2> QED
    BY <2>2, <2>6 DEF a, b, c
<1> QED
  BY <1>2, <1>3, <1>4

(* Nothing is read at first.                                               *)
LEMMA InitInvariant ==
  ASSUME ReadInit
  PROVE  ReadIInv
<1>1. readData \in Seq(Byte) /\ readFrom \in 0..Len(readData) /\ readTo = readFrom /\ readValue = 0
      /\ readStatus = "reading"
  BY StreamsAssumption DEF StreamsAssumption, ReadInit
<1>2. Len(readData) \in Nat /\ readTo \in readFrom..Len(readData) /\ DigitLimit \in Nat
  BY <1>1, LenProperties, VarintAssumption DEF VarintAssumption
<1>3. SubSeq(readData, readFrom + 1, readTo) = <<>>
  BY <1>1, <1>2, BytesRead
<1>4. readValue = Value(SubSeq(readData, readFrom + 1, readTo))
  BY <1>1, <1>3, ValueOfNone
<1>5. Read
  BY <1>1, <1>2 DEF Read
<1> QED
  BY <1>1, <1>2, <1>4, <1>5 DEF ReadIInv, Statuses

(* The data runs out (varint.py:26-27).                                    *)
LEMMA TruncatedInvariant ==
  ASSUME ReadIInv, Truncated
  PROVE  ReadIInv'
<1>1. /\ readStatus = "reading" /\ readTo >= Len(readData) /\ readStatus' = "truncated"
      /\ UNCHANGED <<readData, readFrom, readTo, readValue>>
  BY DEF Truncated
<1>2. readTo = Len(readData)
  BY <1>1, LenProperties DEF ReadIInv
<1>3. Read'
  BY <1>1, <1>2 DEF ReadIInv, Read
<1> QED
  BY <1>1, <1>3 DEF ReadIInv, Statuses

(* One turn of the loop (varint.py:28-35).                                 *)
LEMMA ReadByteInvariant ==
  ASSUME ReadIInv, ReadByte
  PROVE  ReadIInv'
<1> DEFINE byte == readData[readTo + 1]
           sofar == SubSeq(readData, readFrom + 1, readTo)
<1>1. /\ readStatus = "reading" /\ readTo < Len(readData) /\ readTo' = readTo + 1
      /\ readValue' = readValue * Base + Payload(byte)
      /\ readStatus' = IF ~Continues(byte) THEN "done"
                   ELSE IF readTo' - readFrom > DigitLimit THEN "oversized" ELSE "reading"
      /\ readData' = readData /\ readFrom' = readFrom
  BY DEF ReadByte
<1>2. /\ readData \in Seq(Byte) /\ Len(readData) \in Nat /\ readFrom \in Nat /\ readTo \in Nat
      /\ readFrom \in 0..Len(readData) /\ readTo \in readFrom..Len(readData) /\ readFrom <= readTo
      /\ DigitLimit \in Nat /\ readValue = Value(sofar)
  BY LenProperties, VarintAssumption DEF VarintAssumption, ReadIInv
<1>3. readTo + 1 \in readFrom..Len(readData)
  BY <1>1, <1>2
<1>4. readValue' = Value(SubSeq(readData, readFrom + 1, readTo + 1))
  <2>1. /\ sofar \in Seq(Byte) /\ byte \in Byte
        /\ SubSeq(readData, readFrom + 1, readTo + 1) = Append(sofar, byte)
    BY <1>1, <1>2, BytesRead
  <2> HIDE DEF sofar, byte
  <2>2. Value(Append(sofar, byte)) = Value(sofar) * Base + Payload(byte)
    BY <2>1, ValueAppended
  <2> QED
    BY <1>1, <1>2, <2>1, <2>2
<1>5. \A j \in (readFrom + 1)..readTo : Continues(readData[j])
  <2> SUFFICES ASSUME NEW j \in (readFrom + 1)..readTo PROVE Continues(readData[j])
    OBVIOUS
  <2>1. CASE j = readTo
    BY <1>1, <1>2, <2>1 DEF ReadIInv, Read
  <2>2. CASE j # readTo
    <3>1. j \in (readFrom + 1)..(readTo - 1)
      BY <1>2, <2>2
    <3> QED
      BY <3>1 DEF ReadIInv, Read
  <2> QED
    BY <2>1, <2>2
<1>6. readTo - readFrom <= DigitLimit
  BY <1>1 DEF ReadIInv, Read
<1>7. Read'
  <2>1. \A j \in (readFrom' + 1)..(readTo' - 1) : Continues(readData'[j])
    <3>1. readTo' - 1 = readTo
      BY <1>1, <1>2
    <3> QED
      BY <1>1, <1>5, <3>1
  <2>2. readData'[readTo'] = byte /\ readTo' > readFrom' /\ readTo' - readFrom' <= DigitLimit + 1
    BY <1>1, <1>2, <1>6
  <2>3. CASE ~Continues(byte)
    BY <1>1, <2>1, <2>2, <2>3 DEF Read, Continues
  <2>4. CASE Continues(byte) /\ readTo' - readFrom > DigitLimit
    BY <1>1, <1>2, <2>1, <2>2, <2>4 DEF Read, Continues
  <2>5. CASE Continues(byte) /\ ~(readTo' - readFrom > DigitLimit)
    BY <1>1, <1>2, <2>1, <2>2, <2>5 DEF Read, Continues
  <2> QED
    BY <2>3, <2>4, <2>5
<1>8. readStatus' \in Statuses
  BY <1>1 DEF Statuses
<1> QED
  BY <1>1, <1>2, <1>3, <1>4, <1>7, <1>8 DEF ReadIInv

(* The inductive invariant: what was read so far went on, and value is the *)
(* number that it spells.                                                  *)
THEOREM ReaderInvariant == ReadSpec => []ReadIInv
<1>1. ReadInit => ReadIInv
  BY InitInvariant
<1>2. ReadIInv /\ [ReadNext]_readVars => ReadIInv'
  <2> SUFFICES ASSUME ReadIInv, [ReadNext]_readVars PROVE ReadIInv'
    OBVIOUS
  <2>1. CASE UNCHANGED readVars
    BY <2>1 DEF readVars, ReadIInv, Read
  <2> QED
    BY <2>1, TruncatedInvariant, ReadByteInvariant DEF ReadNext
<1> QED
  BY <1>1, <1>2, PTL DEF ReadSpec

(* The loop ends where the operator says, with what it says.               *)
LEMMA LoopEnds ==
  ASSUME ReadIInv
  PROVE  LoopMeetsDefinition
<1>1. /\ readData \in Seq(Byte) /\ Len(readData) \in Nat /\ readFrom \in Nat /\ readTo \in Nat
      /\ readFrom <= readTo /\ readTo <= Len(readData) /\ DigitLimit \in Nat
      /\ readStatus \in Statuses /\ readValue = Value(SubSeq(readData, readFrom + 1, readTo))
  BY LenProperties, VarintAssumption DEF VarintAssumption, ReadIInv
<1>2. CASE readStatus = "done"
  <2>1. readTo \in Ends(readData, readFrom)
    BY <1>1, <1>2 DEF ReadIInv, Read, Ends
  <2>2. ASSUME NEW i \in Ends(readData, readFrom) PROVE i = readTo
    <3>1. /\ i \in (readFrom + 1)..Len(readData) /\ ~Continues(readData[i])
          /\ \A j \in (readFrom + 1)..(i - 1) : Continues(readData[j])
      BY <2>2 DEF Ends
    <3>2. ~(i < readTo)
      <4>1. i < readTo => i \in (readFrom + 1)..(readTo - 1)
        BY <1>1, <3>1
      <4> QED
        BY <3>1, <4>1 DEF ReadIInv, Read
    <3>3. ~(readTo < i)
      <4>1. readTo < i => readTo \in (readFrom + 1)..(i - 1)
        BY <1>1, <1>2, <3>1 DEF ReadIInv, Read
      <4> QED
        BY <1>2, <3>1, <4>1 DEF ReadIInv, Read
    <3> QED
      BY <1>1, <3>1, <3>2, <3>3
  <2>3. (CHOOSE i \in Ends(readData, readFrom) : TRUE) = readTo
    BY <2>1, <2>2
  <2>4. DecodeVarint(readData, readFrom) =
          [status |-> "done", value |-> Value(SubSeq(readData, readFrom + 1, readTo)),
           offset |-> readTo]
    BY <2>1, <2>3, Zenon DEF DecodeVarint
  <2> QED
    BY <1>1, <1>2, <2>4 DEF LoopMeetsDefinition
<1>3. CASE readStatus \in {"truncated", "oversized"}
  <2>1. Ends(readData, readFrom) = {}
    <3> SUFFICES ASSUME NEW i \in Ends(readData, readFrom) PROVE FALSE
      OBVIOUS
    <3>1. /\ i \in (readFrom + 1)..Len(readData) /\ ~Continues(readData[i])
          /\ i - readFrom <= DigitLimit + 1
      BY DEF Ends
    <3>2. i <= readTo /\ readTo > readFrom
      BY <1>1, <1>3, <3>1 DEF ReadIInv, Read
    <3>3. i # readTo
      BY <1>3, <3>1, <3>2 DEF ReadIInv, Read
    <3>4. i \in (readFrom + 1)..(readTo - 1)
      BY <1>1, <3>1, <3>2, <3>3
    <3> QED
      BY <3>1, <3>4 DEF ReadIInv, Read
  <2>2. (Len(readData) - readFrom > DigitLimit) <=> readStatus = "oversized"
    BY <1>1, <1>3 DEF ReadIInv, Read
  <2> QED
    BY <1>3, <2>1, <2>2 DEF LoopMeetsDefinition, DecodeVarint
<1> QED
  BY <1>1, <1>2, <1>3 DEF LoopMeetsDefinition, Statuses

(* The loop of decode_varint (varint.py:23-35) computes what the operator  *)
(* says by which every other module reads integers, or fails as it says.   *)
THEOREM LoopCorrect == ReadSpec => []LoopMeetsDefinition
<1>1. ReadIInv => LoopMeetsDefinition
  BY LoopEnds
<1> QED
  BY <1>1, ReaderInvariant, PTL
-----------------------------------------------------------------------------
(* The bytes read end at the first that does not go on.                    *)
LEMMA EndsThere ==
  ASSUME ReadIInv, NEW n \in 1..(DigitLimit + 1), readFrom + n <= Len(readData),
         \A i \in 1..n : Continues(readData[readFrom + i]) <=> i < n
  PROVE  readStatus \in {"reading", "done"} /\ (readStatus = "done" => readTo = readFrom + n)
<1>1. /\ Len(readData) \in Nat /\ readFrom \in Nat /\ readTo \in Nat /\ DigitLimit \in Nat
      /\ readFrom <= readTo /\ readTo <= Len(readData) /\ readStatus \in Statuses
  BY LenProperties, VarintAssumption DEF VarintAssumption, ReadIInv
<1>2. ~Continues(readData[readFrom + n])
  BY <1>1
<1>3. ASSUME readTo >= readFrom + n, readStatus # "done" PROVE FALSE
  <2>1. CASE readTo = readFrom + n
    BY <1>1, <1>2, <1>3, <2>1 DEF ReadIInv, Read
  <2>2. CASE readTo # readFrom + n
    <3>1. readFrom + n \in (readFrom + 1)..(readTo - 1)
      BY <1>1, <1>3, <2>2
    <3> QED
      BY <1>2, <3>1 DEF ReadIInv, Read
  <2> QED
    BY <2>1, <2>2
<1>4. readStatus \notin {"truncated", "oversized"}
  BY <1>1, <1>3 DEF ReadIInv, Read
<1>5. ASSUME readStatus = "done" PROVE readTo = readFrom + n
  <2>1. readTo > readFrom /\ ~Continues(readData[readTo])
    BY <1>5 DEF ReadIInv, Read
  <2>2. ~(readTo < readFrom + n)
    <3> SUFFICES ASSUME readTo < readFrom + n PROVE FALSE
      OBVIOUS
    <3>1. readTo - readFrom \in 1..n /\ readTo - readFrom < n /\ readFrom + (readTo - readFrom) = readTo
      BY <1>1, <2>1
    <3> QED
      BY <2>1, <3>1
  <2>3. ~(readTo > readFrom + n)
    <3> SUFFICES ASSUME readTo > readFrom + n PROVE FALSE
      OBVIOUS
    <3>1. readFrom + n \in (readFrom + 1)..(readTo - 1)
      BY <1>1
    <3> QED
      BY <1>2, <3>1 DEF ReadIInv, Read
  <2> QED
    BY <1>1, <2>2, <2>3
<1> QED
  BY <1>1, <1>4, <1>5 DEF Statuses

(* What encode_varint writes is read back (varint.py:4-36).                *)
LEMMA ReadsWhatWasWritten ==
  ASSUME ReadIInv
  PROVE  RoundTrip
<1> SUFFICES ASSUME NEW n \in 0..MaxValue,
                    readFrom + VarintSize(n) <= Len(readData),
                    SubSeq(readData, readFrom + 1, readFrom + VarintSize(n)) = EncodeVarint(n)
             PROVE  /\ readStatus \in {"reading", "done"}
                    /\ readStatus = "done" => readValue = n /\ readTo = readFrom + VarintSize(n)
  BY DEF RoundTrip
<1> DEFINE s == VarintSize(n)
<1>1. /\ s \in 1..(DigitLimit + 1) /\ DigitLimit \in Nat /\ readData \in Seq(Byte)
      /\ Len(readData) \in Nat /\ readFrom \in Nat /\ readFrom + s <= Len(readData)
  BY LenProperties, Encoded, Powers DEF ReadIInv
<1>2. \A i \in 1..s : Continues(EncodeVarint(n)[i]) <=> i < s
  BY Encoded
<1>3. ASSUME NEW i \in 1..s PROVE readData[readFrom + i] = EncodeVarint(n)[i]
  <2>1. SubSeq(readData, readFrom + 1, readFrom + s)[i] = readData[readFrom + i]
    <3> HIDE DEF s
    <3> QED
      BY <1>1
  <2> QED
    BY <2>1
<1>4. \A i \in 1..s : Continues(readData[readFrom + i]) <=> i < s
  BY <1>2, <1>3
<1> HIDE DEF s
<1>5. readStatus \in {"reading", "done"} /\ (readStatus = "done" => readTo = readFrom + s)
  BY <1>1, <1>4, EndsThere
<1>6. readStatus = "done" => readValue = Value(EncodeVarint(n))
  BY <1>5 DEF ReadIInv, s
<1> QED
  BY <1>5, <1>6, EncodedValue DEF s

(* No accepted bytes are shorter than those that encode_varint writes.     *)
LEMMA ReadsNothingShorter ==
  ASSUME ReadIInv
  PROVE  ShortestSpelling
<1> SUFFICES ASSUME readStatus = "done"
             PROVE  /\ readTo - readFrom >= VarintSize(readValue)
                    /\ readTo - readFrom = VarintSize(readValue) =>
                         SubSeq(readData, readFrom + 1, readTo) = EncodeVarint(readValue)
  BY DEF ShortestSpelling
<1> DEFINE n == readTo - readFrom
           bytes == SubSeq(readData, readFrom + 1, readTo)
           s == VarintSize(readValue)
<1>1. /\ readData \in Seq(Byte) /\ Len(readData) \in Nat /\ readFrom \in Nat /\ readTo \in Nat
      /\ DigitLimit \in Nat /\ Base \in Nat \ {0, 1}
      /\ readFrom < readTo /\ readTo <= Len(readData) /\ n <= DigitLimit + 1
      /\ n \in 1..(DigitLimit + 1) /\ readValue = Value(bytes)
  BY LenProperties, Powers DEF ReadIInv, Read
<1>2. /\ bytes \in Seq(Byte) /\ Len(bytes) = n
      /\ \A i \in 1..n : bytes[i] = readData[readFrom + i]
  BY <1>1
<1>3. \A i \in 1..n : Continues(bytes[i]) <=> i < n
  <2> SUFFICES ASSUME NEW i \in 1..n PROVE Continues(bytes[i]) <=> i < n
    OBVIOUS
  <2>1. CASE i = n
    <3>1. readFrom + i = readTo
      BY <1>1, <2>1
    <3>2. ~Continues(readData[readTo])
      BY DEF ReadIInv, Read
    <3>3. bytes[i] = readData[readTo]
      BY <1>2, <3>1
    <3> HIDE DEF bytes, n
    <3> QED
      BY <2>1, <3>2, <3>3, <1>1
  <2>2. CASE i # n
    <3>1. readFrom + i \in (readFrom + 1)..(readTo - 1) /\ i < n
      BY <1>1, <2>2
    <3> QED
      BY <1>2, <3>1 DEF ReadIInv, Read
  <2> QED
    BY <2>1, <2>2
<1> HIDE DEF n, bytes
<1>4. /\ readValue \in Nat /\ readValue < Base ^ n
      /\ \A i \in 1..n : Payload(bytes[i]) = Digit(readValue, n - i)
  BY <1>1, <1>2, SpelledDigits
<1>5. readValue \in 0..MaxValue
  <2>1. Base ^ n <= Base ^ (DigitLimit + 1) /\ Base ^ n \in Nat
        /\ Base ^ (DigitLimit + 1) \in Nat
    BY <1>1, PowersGrow, Powers
  <2> QED
    BY <1>4, <2>1 DEF MaxValue
<1>6. /\ s \in 1..(DigitLimit + 1) /\ (s > 1 => readValue >= Base ^ (s - 1))
      /\ EncodeVarint(readValue) \in Seq(Byte) /\ Len(EncodeVarint(readValue)) = s
      /\ \A i \in 1..s :
           EncodeVarint(readValue)[i] = Digit(readValue, s - i) + (IF i < s THEN Base ELSE 0)
  BY <1>5, SizeBounds, Encoded
<1> HIDE DEF s
<1>7. n >= s
  <2> SUFFICES ASSUME ~(n >= s) PROVE FALSE
    OBVIOUS
  <2>1. s > 1 /\ n <= s - 1 /\ s - 1 \in 0..(DigitLimit + 1) /\ n \in 0..(DigitLimit + 1)
    BY <1>1, <1>6
  <2>2. Base ^ n <= Base ^ (s - 1) /\ Base ^ n \in Nat /\ Base ^ (s - 1) \in Nat
    BY <2>1, PowersGrow, Powers
  <2> QED
    BY <1>4, <1>6, <2>1, <2>2
<1>8. ASSUME n = s PROVE bytes = EncodeVarint(readValue)
  <2>1. ASSUME NEW i \in 1..n PROVE bytes[i] = EncodeVarint(readValue)[i]
    <3> DEFINE b == bytes[i]
    <3>1. b \in 0..(2 * Base - 1)
      <4>1. bytes[i] \in Byte
        BY <1>2
      <4> QED
        BY <4>1 DEF Byte
    <3>2. (b >= Base <=> i < n) /\ b % Base = Digit(readValue, n - i)
      BY <1>3, <1>4 DEF Continues, Payload
    <3>3. EncodeVarint(readValue)[i] = Digit(readValue, n - i) + (IF i < n THEN Base ELSE 0)
      BY <1>6, <1>8
    <3> HIDE DEF b
    <3>4. CASE b >= Base
      <4>1. b = Base * 1 + (b - Base) /\ b - Base \in 0..(Base - 1) /\ b \in Nat
        BY <1>1, <3>1, <3>4
      <4>2. b % Base = b - Base
        BY <1>1, <4>1, DivUnique
      <4>3. Digit(readValue, n - i) + Base = b
        BY <1>1, <3>1, <3>2, <4>2
      <4> QED
        BY <3>2, <3>3, <3>4, <4>3 DEF b
    <3>5. CASE ~(b >= Base)
      <4>1. b = Base * 0 + b /\ b \in 0..(Base - 1) /\ b \in Nat
        BY <1>1, <3>1, <3>5
      <4>2. b % Base = b
        BY <1>1, <4>1, DivUnique
      <4>3. Digit(readValue, n - i) + 0 = b
        BY <1>1, <3>1, <3>2, <4>2
      <4> QED
        BY <3>2, <3>3, <3>5, <4>3 DEF b
    <3> QED
      BY <3>4, <3>5
  <2> QED
    BY <1>2, <1>6, <1>8, <2>1, SeqEqual
<1> QED
  BY <1>7, <1>8 DEF n, bytes, s

(* Wherever encode_varint (varint.py:4-16) wrote an integer, decode_varint *)
(* reads it back and stops behind it, for every base and every integer     *)
(* that it accepts at all.                                                 *)
THEOREM RoundTrips == ReadSpec => []RoundTrip
<1>1. ReadIInv => RoundTrip
  BY ReadsWhatWasWritten
<1> QED
  BY <1>1, ReaderInvariant, PTL

(* No spelling that decode_varint (varint.py:19-36) accepts is shorter than*)
(* that of encode_varint, and none other is as short.                      *)
THEOREM EncodingIsShortest == ReadSpec => []ShortestSpelling
<1>1. ReadIInv => ShortestSpelling
  BY ReadsNothingShorter
<1> QED
  BY <1>1, ReaderInvariant, PTL
-----------------------------------------------------------------------------
(* What encode_varint writes (varint.py:4-16).                             *)
LEMMA Written ==
  ASSUME NEW n \in 0..MaxValue
  PROVE  /\ VarintSize(n) \in 1..(DigitLimit + 1) /\ DigitLimit \in Nat
         /\ VarintSize(n) \in Nat \ {0}
         /\ EncodeVarint(n) \in Seq(Byte) /\ Len(EncodeVarint(n)) = VarintSize(n)
         /\ \A i \in 1..VarintSize(n) :
              EncodeVarint(n)[i] \in Byte
              /\ (Continues(EncodeVarint(n)[i]) <=> i < VarintSize(n))
         /\ Value(EncodeVarint(n)) = n
<1>1. /\ VarintSize(n) \in 1..(DigitLimit + 1)
      /\ EncodeVarint(n) \in Seq(Byte) /\ Len(EncodeVarint(n)) = VarintSize(n)
      /\ \A i \in 1..VarintSize(n) : Continues(EncodeVarint(n)[i]) <=> i < VarintSize(n)
  BY Encoded
<1>2. Value(EncodeVarint(n)) = n
  BY EncodedValue
<1>3. DigitLimit \in Nat
  BY VarintAssumption DEF VarintAssumption
<1>4. ASSUME NEW i \in 1..VarintSize(n) PROVE EncodeVarint(n)[i] \in Byte
  BY <1>1, ElementOfSeq
<1> QED
  BY <1>1, <1>2, <1>3, <1>4

(* decode_varint (varint.py:19-36) reads it, wherever it stands.           *)
LEMMA WrittenIsRead ==
  ASSUME NEW s \in Seq(Nat), NEW at \in Nat, NEW n \in 0..MaxValue,
         at + VarintSize(n) <= Len(s),
         \A k \in 1..VarintSize(n) : s[at + k] = EncodeVarint(n)[k]
  PROVE  DecodeVarint(s, at) =
           [status |-> "done", value |-> n, offset |-> at + VarintSize(n)]
<1> DEFINE size == VarintSize(n)
           end == at + size
<1>1. /\ size \in 1..(DigitLimit + 1) /\ size \in Nat /\ DigitLimit \in Nat
      /\ Len(s) \in Nat /\ end \in Nat /\ end <= Len(s)
  BY Written, LenProperties
<1>2. ASSUME NEW k \in 1..size PROVE Continues(s[at + k]) <=> k < size
  BY <1>1, <1>2, Written
<1> HIDE DEF size
<1>3. end \in Ends(s, at)
  <2>1. ~Continues(s[end])
    BY <1>1, <1>2
  <2>2. ASSUME NEW j \in (at + 1)..(end - 1) PROVE Continues(s[j])
    <3>1. j - at \in 1..size /\ j - at < size /\ at + (j - at) = j
      BY <1>1
    <3> QED
      BY <1>2, <3>1
  <2> QED
    BY <1>1, <2>1, <2>2 DEF Ends
<1>4. ASSUME NEW i \in Ends(s, at) PROVE i = end
  <2>1. /\ i \in (at + 1)..Len(s) /\ ~Continues(s[i])
        /\ \A j \in (at + 1)..(i - 1) : Continues(s[j])
    BY DEF Ends
  <2>2. ~(i < end)
    <3> SUFFICES ASSUME i < end PROVE FALSE
      OBVIOUS
    <3>1. i - at \in 1..size /\ i - at < size /\ at + (i - at) = i
      BY <1>1, <2>1
    <3> QED
      BY <1>2, <2>1, <3>1
  <2>3. ~(end < i)
    <3> SUFFICES ASSUME end < i PROVE FALSE
      OBVIOUS
    <3>1. end \in (at + 1)..(i - 1)
      BY <1>1, <2>1
    <3>2. ~Continues(s[end])
      BY <1>3 DEF Ends
    <3> QED
      BY <2>1, <3>1, <3>2
  <2> QED
    BY <1>1, <2>1, <2>2, <2>3
<1>5. (CHOOSE i \in Ends(s, at) : TRUE) = end
  BY <1>3, <1>4
<1>6. SubSeq(s, at + 1, end) = EncodeVarint(n)
  <2>1. /\ SubSeq(s, at + 1, end) \in Seq(Nat) /\ Len(SubSeq(s, at + 1, end)) = size
        /\ \A k \in 1..size : SubSeq(s, at + 1, end)[k] = s[at + k]
    BY <1>1
  <2>2. EncodeVarint(n) \in Seq(Nat) /\ Len(EncodeVarint(n)) = size
    <3>1. Byte \subseteq Nat
      BY VarintAssumption DEF VarintAssumption, Byte
    <3> QED
      BY <3>1, Written, SeqMonotonic DEF size
  <2>3. \A k \in 1..size : SubSeq(s, at + 1, end)[k] = EncodeVarint(n)[k]
    BY <2>1 DEF size
  <2> QED
    BY <2>1, <2>2, <2>3, SeqEqual
<1>7. Value(SubSeq(s, at + 1, end)) = n
  BY <1>6, Written
<1> QED
  BY <1>3, <1>5, <1>7 DEF DecodeVarint, size
-----------------------------------------------------------------------------
(* Windows.                                                                *)

Count(w) == Len(w.instructions)

(* Where in the target an instruction ends.                                *)
Ending(w, i) ==
  IF i = 0 THEN 0 ELSE w.instructions[i].position + w.instructions[i].size

(* The instructions of a trace stand end to end.                           *)
LEMMA Tiled ==
  ASSUME NEW w, IsTrace(w)
  PROVE  /\ Count(w) \in Nat
         /\ w.source \in Seq(Byte) /\ w.target \in Seq(Byte)
         /\ Len(w.source) \in Nat /\ Len(w.target) \in Nat
         /\ \A i \in 1..Count(w) :
              /\ w.instructions[i].type \in {ADD, RUN, COPY}
              /\ w.instructions[i].size \in Nat \ {0} /\ w.instructions[i].mode \in Nat
              /\ w.instructions[i].position \in Nat /\ w.instructions[i].address \in Nat
              /\ w.instructions[i].byte \in Byte
              /\ w.instructions[i].position = Ending(w, i - 1)
              /\ Ending(w, i) = Ending(w, i - 1) + w.instructions[i].size
         /\ \A i \in 0..Count(w) : Ending(w, i) \in Nat
         /\ Ending(w, 0) = 0 /\ Ending(w, Count(w)) = Len(w.target)
<1>1. /\ Count(w) \in Nat /\ w.source \in Seq(Byte) /\ w.target \in Seq(Byte)
      /\ Len(w.source) \in Nat /\ Len(w.target) \in Nat
  BY LenProperties DEF IsTrace, Count
<1>2. ASSUME NEW i \in 1..Count(w) PROVE w.instructions[i] \in LogicalInstruction
  BY ElementOfSeq DEF IsTrace, Count
<1>3. ASSUME NEW i \in 1..Count(w)
      PROVE  /\ w.instructions[i].type \in {ADD, RUN, COPY}
             /\ w.instructions[i].size \in Nat \ {0} /\ w.instructions[i].mode \in Nat
             /\ w.instructions[i].position \in Nat /\ w.instructions[i].address \in Nat
             /\ w.instructions[i].byte \in Byte
  BY <1>2 DEF LogicalInstruction
<1>4. ASSUME NEW i \in 1..Count(w) PROVE w.instructions[i].position = Ending(w, i - 1)
  BY <1>1 DEF IsTrace, IsWindow, Ending, Count
<1>5. ASSUME NEW i \in 1..Count(w)
      PROVE  Ending(w, i) = Ending(w, i - 1) + w.instructions[i].size
  BY <1>1, <1>4 DEF Ending
<1>6. Ending(w, 0) = 0 /\ Ending(w, Count(w)) = Len(w.target)
  BY DEF IsTrace, IsWindow, Ending, Count
<1>7. ASSUME NEW i \in 0..Count(w) PROVE Ending(w, i) \in Nat
  BY <1>1, <1>3 DEF Ending
<1> QED
  BY <1>1, <1>3, <1>4, <1>5, <1>6, <1>7

(* So none is empty, and all end within the target.                        *)
LEMMA EndingGrows ==
  ASSUME NEW w, IsTrace(w), NEW i \in 0..Count(w), NEW j \in 0..Count(w), i < j
  PROVE  Ending(w, i) < Ending(w, j)
<1> DEFINE Bad == {k \in 0..Count(w) : i < k /\ ~(Ending(w, i) < Ending(w, k))}
<1>1. SUFFICES ASSUME Bad # {} PROVE FALSE
  BY Zenon
<1>2. PICK m \in Bad : \A k \in Bad : m <= k
  <2>1. Bad \subseteq Nat
    OBVIOUS
  <2> HIDE DEF Bad
  <2> QED
    BY <1>1, <2>1, Least
<1>3. m \in 1..Count(w) /\ m - 1 \in 0..Count(w) /\ i < m /\ ~(m <= m - 1)
  BY Tiled
<1>4. Ending(w, m) = Ending(w, m - 1) + w.instructions[m].size
      /\ w.instructions[m].size \in Nat \ {0} /\ Ending(w, m - 1) \in Nat
      /\ Ending(w, i) \in Nat
  BY <1>3, Tiled
<1>5. ~(Ending(w, i) < Ending(w, m)) /\ m - 1 \notin Bad
  BY <1>2, <1>3
<1>6. CASE i = m - 1
  BY <1>4, <1>5, <1>6
<1>7. CASE i # m - 1
  <2>1. i < m - 1
    BY <1>3, <1>7
  <2>2. Ending(w, i) < Ending(w, m - 1)
    BY <1>3, <1>5, <2>1
  <2> QED
    BY <1>4, <1>5, <2>2
<1> QED
  BY <1>6, <1>7

(* No instruction ends behind the target.                                  *)
LEMMA EndingWithin ==
  ASSUME NEW w, IsTrace(w), NEW i \in 0..Count(w)
  PROVE  Ending(w, i) <= Len(w.target)
<1>1. CASE i = Count(w)
  BY <1>1, Tiled
<1>2. CASE i # Count(w)
  <2>1. Count(w) \in 0..Count(w) /\ i < Count(w)
    BY <1>2, Tiled
  <2>2. Ending(w, i) < Ending(w, Count(w))
    BY <2>1, EndingGrows
  <2> QED
    BY <2>1, <2>2, Tiled
<1> QED
  BY <1>1, <1>2

(* The bytes of a COPY from below the end of the output, itself included.  *)
CopyByte(source, out, address, byte, i) ==
  IF address + i < Len(source) THEN source[address + i + 1]
  ELSE IF address + i < Len(source) + Len(out)
       THEN out[address + i - Len(source) + 1]
       ELSE byte[address + i - (Len(source) + Len(out))]

(* Byte after byte, there are such bytes for any size.                     *)
LEMMA BytesExist ==
  ASSUME NEW source \in Seq(Byte), NEW out \in Seq(Byte), NEW address \in Nat,
         address < Len(source) + Len(out), NEW n \in Nat
  PROVE  \E f : f = [i \in 0..(n - 1) |-> CopyByte(source, out, address, f, i)]
<1> DEFINE here == Len(source) + Len(out)
           P(m) == \E f : f = [i \in 0..(m - 1) |-> CopyByte(source, out, address, f, i)]
           Bad == {m \in Nat : ~P(m)}
<1>1. here \in Nat /\ Len(source) \in Nat /\ Len(out) \in Nat
  BY LenProperties
<1>2. SUFFICES ASSUME Bad # {} PROVE FALSE
  OBVIOUS
<1>3. PICK m \in Bad : \A k \in Bad : m <= k
  <2>1. Bad \subseteq Nat
    OBVIOUS
  <2> HIDE DEF Bad
  <2> QED
    BY <1>2, <2>1, Least
<1>4. m \in Nat /\ ~P(m)
  BY <1>3
<1>5. m # 0
  <2>1. P(0)
    <3> DEFINE f == [i \in {} |-> 0]
    <3>1. f = [i \in 0..(0 - 1) |-> CopyByte(source, out, address, f, i)]
      OBVIOUS
    <3> QED
      BY <3>1
  <2> HIDE DEF P
  <2> QED
    BY <1>4, <2>1
<1>6. m - 1 \in Nat /\ P(m - 1)
  <2>1. m - 1 \in Nat /\ ~(m <= m - 1)
    BY <1>4, <1>5
  <2> HIDE DEF P
  <2> QED
    BY <1>3, <2>1
<1>7. PICK f : f = [i \in 0..((m - 1) - 1) |-> CopyByte(source, out, address, f, i)]
  BY <1>6
<1> DEFINE g == [i \in 0..(m - 1) |->
                   IF i < m - 1 THEN f[i] ELSE CopyByte(source, out, address, f, m - 1)]
<1>8. ASSUME NEW i \in 0..(m - 1)
      PROVE  g[i] = CopyByte(source, out, address, g, i)
  <2>1. g[i] = CopyByte(source, out, address, f, i)
    <3>1. CASE i < m - 1
      <4>1. i \in 0..((m - 1) - 1)
        BY <1>4, <3>1
      <4> QED
        BY <1>7, <3>1, <4>1
    <3>2. CASE ~(i < m - 1)
      <4>1. i = m - 1
        BY <1>4, <3>2
      <4> QED
        BY <3>2, <4>1
    <3> QED
      BY <3>1, <3>2
  <2>2. CASE ~(address + i < here)
    <3> DEFINE j == address + i - here
    <3>1. j \in 0..(m - 1) /\ j < m - 1
      BY <1>1, <1>4, <2>2
    <3>2. g[j] = f[j]
      BY <3>1
    <3> HIDE DEF g
    <3> QED
      BY <2>1, <3>2 DEF CopyByte
  <2>3. CASE address + i < here
    <3> HIDE DEF g
    <3> QED
      BY <2>1, <2>3 DEF CopyByte
  <2> QED
    BY <2>2, <2>3
<1>9. P(m)
  <2>1. g = [i \in 0..(m - 1) |-> CopyByte(source, out, address, g, i)]
    BY <1>8
  <2> HIDE DEF g
  <2> QED
    BY <2>1
<1> QED
  BY <1>4, <1>9

(* A COPY yields as many bytes as its size (decoder.py:117-125).           *)
LEMMA CopiedBytes ==
  ASSUME NEW source \in Seq(Byte), NEW out \in Seq(Byte), NEW address \in Nat,
         address < Len(source) + Len(out), NEW size \in Nat
  PROVE  /\ Copied(source, out, address, size) \in Seq(Byte)
         /\ Len(Copied(source, out, address, size)) = size
<1> DEFINE here == Len(source) + Len(out)
           Following(f, i) == LET at == address + i
                              upTo == Len(source) + Len(out)
                          IN  IF at < Len(source) THEN source[at + 1]
                              ELSE IF at < upTo THEN out[at - Len(source) + 1]
                              ELSE f[at - upTo]
           Is(f) == f = [i \in 0..(size - 1) |-> Following(f, i)]
           byte == CHOOSE f : Is(f)
<1>1. here \in Nat /\ Len(source) \in Nat /\ Len(out) \in Nat
  BY LenProperties
<1>2. Is(byte)
  <2>1. PICK f : f = [i \in 0..(size - 1) |-> CopyByte(source, out, address, f, i)]
    BY BytesExist
  <2>2. ASSUME NEW i \in 0..(size - 1)
        PROVE  Following(f, i) = CopyByte(source, out, address, f, i)
    <3> HIDE DEF byte, Is, here
    <3> QED
      BY <1>1 DEF CopyByte
  <2>3. Is(f)
    <3> HIDE DEF Following
    <3> QED
      BY <2>1, <2>2
  <2> QED
    BY <2>3
<1>3. Copied(source, out, address, size) = [i \in 1..size |-> byte[i - 1]]
  BY DEF Copied
<1>4. ASSUME NEW i \in 0..(size - 1) PROVE byte[i] = CopyByte(source, out, address, byte, i)
  <2>1. byte[i] = Following(byte, i)
    <3> HIDE DEF byte, Following
    <3> QED
      BY <1>2
  <2> HIDE DEF byte
  <2> QED
    BY <2>1 DEF CopyByte
<1> HIDE DEF byte
<1>5. \A i \in 0..(size - 1) : byte[i] \in Byte
  <2> DEFINE Bad == {i \in 0..(size - 1) : byte[i] \notin Byte}
  <2>1. SUFFICES ASSUME Bad # {} PROVE FALSE
    BY Zenon
  <2>2. PICK m \in Bad : \A k \in Bad : m <= k
    <3>1. Bad \subseteq Nat
      OBVIOUS
    <3> HIDE DEF Bad
    <3> QED
      BY <2>1, <3>1, Least
  <2>3. m \in 0..(size - 1) /\ byte[m] \notin Byte
    BY <2>2
  <2>4. CASE address + m < Len(source)
    <3>1. address + m + 1 \in 1..Len(source)
      BY <1>1, <2>3, <2>4
    <3>2. byte[m] = source[address + m + 1]
      BY <1>4, <2>3, <2>4 DEF CopyByte
    <3> QED
      BY <2>3, <3>1, <3>2, ElementOfSeq
  <2>5. CASE ~(address + m < Len(source)) /\ address + m < here
    <3>1. address + m - Len(source) + 1 \in 1..Len(out)
      BY <1>1, <2>3, <2>5
    <3>2. byte[m] = out[address + m - Len(source) + 1]
      BY <1>4, <2>3, <2>5 DEF CopyByte
    <3> QED
      BY <2>3, <3>1, <3>2, ElementOfSeq
  <2>6. CASE ~(address + m < here)
    <3>1. address + m - here \in 0..(size - 1) /\ ~(m <= address + m - here)
      BY <1>1, <2>3, <2>6
    <3>2. byte[m] = byte[address + m - here]
      BY <1>1, <1>4, <2>3, <2>6 DEF CopyByte
    <3> QED
      BY <2>2, <2>3, <3>1, <3>2
  <2> QED
    BY <2>4, <2>5, <2>6
<1>6. [i \in 1..size |-> byte[i - 1]] \in Seq(Byte)
  <2>1. \A i \in 1..size : byte[i - 1] \in Byte
    BY <1>5
  <2> QED
    BY <2>1
<1>7. Len([i \in 1..size |-> byte[i - 1]]) = size
  OBVIOUS
<1> QED
  BY <1>3, <1>6, <1>7

-----------------------------------------------------------------------------
(* What a window stands for.                                               *)

NextOutput(w, out, i) ==
  IF i = 0 THEN <<>> ELSE out[i - 1] \o Produced(w, w.instructions[i], out[i - 1])

(* There is such a sequence of outputs, after each instruction.            *)
LEMMA OutputsExist ==
  ASSUME NEW w, Count(w) \in Nat
  PROVE  \E f : f = [i \in 0..Count(w) |-> NextOutput(w, f, i)]
<1> DEFINE P(m) == \E f : f = [i \in 0..m |-> NextOutput(w, f, i)]
           Bad == {m \in Nat : ~P(m)}
<1>1. SUFFICES ASSUME Bad # {} PROVE FALSE
  OBVIOUS
<1>2. PICK m \in Bad : \A k \in Bad : m <= k
  <2>1. Bad \subseteq Nat
    OBVIOUS
  <2> HIDE DEF Bad
  <2> QED
    BY <1>1, <2>1, Least
<1>3. m \in Nat /\ ~P(m)
  BY <1>2
<1>4. m # 0
  <2>1. P(0)
    <3> DEFINE f == [i \in 0..0 |-> <<>>]
    <3>1. f = [i \in 0..0 |-> NextOutput(w, f, i)]
      <4>1. \A i \in 0..0 : i = 0
        OBVIOUS
      <4> HIDE DEF f
      <4>2. \A i \in 0..0 : NextOutput(w, f, i) = <<>>
        BY <4>1 DEF NextOutput
      <4> QED
        BY <4>2 DEF f
    <3> QED
      BY <3>1
  <2> HIDE DEF P
  <2> QED
    BY <1>3, <2>1
<1>5. m - 1 \in Nat /\ P(m - 1)
  <2>1. m - 1 \in Nat /\ ~(m <= m - 1)
    BY <1>3, <1>4
  <2> HIDE DEF P
  <2> QED
    BY <1>2, <2>1
<1>6. PICK f : f = [i \in 0..(m - 1) |-> NextOutput(w, f, i)]
  BY <1>5
<1> DEFINE last == f[m - 1] \o Produced(w, w.instructions[m], f[m - 1])
<1> HIDE DEF last
<1> DEFINE g == [i \in 0..m |-> IF i < m THEN f[i] ELSE last]
<1>7. ASSUME NEW i \in 0..m PROVE g[i] = NextOutput(w, g, i)
  <2>1. i # 0 => i - 1 \in 0..m /\ i - 1 < m
    BY <1>3
  <2>2. i # 0 => g[i - 1] = f[i - 1]
    BY <2>1
  <2>3. CASE i < m
    <3>1. i \in 0..(m - 1)
      BY <1>3, <2>3
    <3>2. g[i] = f[i]
      BY <2>3
    <3>3. f[i] = NextOutput(w, f, i)
      BY <1>6, <3>1
    <3> HIDE DEF g
    <3> QED
      BY <2>2, <3>2, <3>3 DEF NextOutput
  <2>4. CASE ~(i < m)
    <3>1. i = m /\ i # 0
      BY <1>3, <1>4, <2>4
    <3>2. g[i] = last
      BY <2>4
    <3> HIDE DEF g
    <3> QED
      BY <2>2, <3>1, <3>2 DEF NextOutput, last
  <2> QED
    BY <2>3, <2>4
<1>8. P(m)
  <2>1. g = [i \in 0..m |-> NextOutput(w, g, i)]
    BY <1>7
  <2> HIDE DEF g
  <2> QED
    BY <2>1
<1> QED
  BY <1>3, <1>8

(* The loop of replay_window (codec.py:121-163) is the recursion it is.    *)
LEMMA OutputsSpelled ==
  ASSUME NEW w, Count(w) \in Nat
  PROVE  /\ Outputs(w)[0] = <<>>
         /\ \A i \in 1..Count(w) :
              Outputs(w)[i] = Outputs(w)[i - 1]
                \o Produced(w, w.instructions[i], Outputs(w)[i - 1])
<1> DEFINE Following(f, i) ==
             IF i = 0 THEN <<>>
             ELSE f[i - 1] \o Produced(w, w.instructions[i], f[i - 1])
           Is(f) == f = [i \in 0..Len(w.instructions) |-> Following(f, i)]
           out == CHOOSE f : Is(f)
<1>1. Is(out)
  <2>1. PICK f : f = [i \in 0..Count(w) |-> NextOutput(w, f, i)]
    BY OutputsExist
  <2>2. ASSUME NEW i \in 0..Count(w) PROVE Following(f, i) = NextOutput(w, f, i)
    <3> HIDE DEF out, Is
    <3> QED
      BY DEF NextOutput
  <2>3. Is(f)
    <3> HIDE DEF Following
    <3> QED
      BY <2>1, <2>2 DEF Count
  <2> QED
    BY <2>3
<1>2. Outputs(w) = out
  BY DEF Outputs
<1>3. ASSUME NEW i \in 0..Count(w) PROVE out[i] = Following(out, i)
  <2> HIDE DEF out, Following
  <2> QED
    BY <1>1 DEF Count
<1> HIDE DEF out
<1>4. out[0] = <<>>
  <2>1. 0 \in 0..Count(w)
    OBVIOUS
  <2> QED
    BY <1>3, <2>1
<1>5. ASSUME NEW i \in 1..Count(w)
      PROVE  out[i] = out[i - 1] \o Produced(w, w.instructions[i], out[i - 1])
  <2>1. i \in 0..Count(w) /\ i # 0
    OBVIOUS
  <2> QED
    BY <1>3, <2>1
<1> QED
  BY <1>2, <1>4, <1>5

(* The three kinds of instruction, one at a time.                          *)
LEMMA ProducedCases ==
  ASSUME NEW w, NEW step, NEW out
  PROVE  /\ step.type = ADD => Produced(w, step, out) =
              SubSeq(w.target, step.position + 1, step.position + step.size)
         /\ step.type = RUN => Produced(w, step, out) = [k \in 1..step.size |-> step.byte]
         /\ step.type = COPY =>
              Produced(w, step, out) = Copied(w.source, out, step.address, step.size)
<1>1. ADD # RUN /\ ADD # COPY /\ RUN # COPY
  BY DEF ADD, RUN, COPY
<1>2. step.type = ADD => Produced(w, step, out) =
        SubSeq(w.target, step.position + 1, step.position + step.size)
  BY <1>1, Zenon DEF Produced
<1>3. step.type = RUN => Produced(w, step, out) = [k \in 1..step.size |-> step.byte]
  BY <1>1, Zenon DEF Produced
<1>4. step.type = COPY =>
        Produced(w, step, out) = Copied(w.source, out, step.address, step.size)
  BY <1>1, Zenon DEF Produced
<1> QED
  BY <1>2, <1>3, <1>4

(* A stretch of bytes, and a byte repeated.                                *)
LEMMA Slice ==
  ASSUME NEW s \in Seq(Byte), NEW p \in Nat, NEW n \in Nat, p + n <= Len(s)
  PROVE  /\ SubSeq(s, p + 1, p + n) \in Seq(Byte) /\ Len(SubSeq(s, p + 1, p + n)) = n
         /\ \A k \in 1..n : SubSeq(s, p + 1, p + n)[k] = s[p + k]
<1>1. Len(s) \in Nat
  BY LenProperties
<1>2. \A k \in (p + 1)..(p + n) : s[k] \in Byte
  BY <1>1, ElementOfSeq
<1>3. SubSeq(s, p + 1, p + n) \in Seq(Byte) /\ Len(SubSeq(s, p + 1, p + n)) = n
  BY <1>2, SubSeqProperties
<1>4. ASSUME NEW k \in 1..n PROVE SubSeq(s, p + 1, p + n)[k] = s[p + k]
  BY <1>1
<1> QED
  BY <1>3, <1>4

(* The bytes of a RUN.                                                     *)
LEMMA Repeated ==
  ASSUME NEW b \in Byte, NEW n \in Nat
  PROVE  [k \in 1..n |-> b] \in Seq(Byte) /\ Len([k \in 1..n |-> b]) = n
OBVIOUS

(* An instruction that may be replayed yields as many bytes as its size.   *)
LEMMA ProducedBytes ==
  ASSUME NEW w, IsTrace(w), NEW i \in 1..Count(w), NEW out \in Seq(Byte),
         Replayable(w, w.instructions[i], out)
  PROVE  /\ Produced(w, w.instructions[i], out) \in Seq(Byte)
         /\ Len(Produced(w, w.instructions[i], out)) = w.instructions[i].size
         /\ w.instructions[i].type = COPY =>
              w.instructions[i].address < Len(w.source) + Len(out)
<1> DEFINE step == w.instructions[i]
<1>1. /\ step.type \in {ADD, RUN, COPY} /\ step.size \in Nat \ {0} /\ step.position \in Nat
      /\ step.address \in Nat /\ step.byte \in Byte
      /\ Len(w.source) \in Nat /\ Len(out) \in Nat
      /\ w.source \in Seq(Byte) /\ w.target \in Seq(Byte)
  BY Tiled, LenProperties
<1>2. step.position + step.size <= Len(w.target)
  <2>1. i \in 0..Count(w) /\ i # 0
    OBVIOUS
  <2>2. Ending(w, i) <= Len(w.target)
    BY <2>1, EndingWithin
  <2> QED
    BY <2>1, <2>2 DEF Ending
<1>3. Len(w.target) \in Nat
  BY <1>1, LenProperties
<1> HIDE DEF step
<1>4. CASE step.type = ADD
  <2>1. Produced(w, step, out) = SubSeq(w.target, step.position + 1, step.position + step.size)
    BY <1>4, ProducedCases
  <2>2. /\ SubSeq(w.target, step.position + 1, step.position + step.size) \in Seq(Byte)
        /\ Len(SubSeq(w.target, step.position + 1, step.position + step.size)) = step.size
    BY <1>1, <1>2, Slice, SMTT(30)
  <2>3. step.type # COPY
    BY <1>4 DEF ADD, COPY
  <2> QED
    BY <2>1, <2>2, <2>3 DEF step
<1>5. CASE step.type = RUN
  <2>1. Produced(w, step, out) = [k \in 1..step.size |-> step.byte]
    BY <1>5, ProducedCases
  <2>2. /\ [k \in 1..step.size |-> step.byte] \in Seq(Byte)
        /\ Len([k \in 1..step.size |-> step.byte]) = step.size
    BY <1>1, Repeated
  <2>3. step.type # COPY
    BY <1>5 DEF RUN, COPY
  <2> QED
    BY <2>1, <2>2, <2>3 DEF step
<1>6. CASE step.type = COPY
  <2>1. Produced(w, step, out) = Copied(w.source, out, step.address, step.size)
    BY <1>6, ProducedCases
  <2>2. step.address < Len(w.source) + Len(out)
    BY <1>1, <1>6 DEF Replayable, step
  <2>3. /\ Copied(w.source, out, step.address, step.size) \in Seq(Byte)
        /\ Len(Copied(w.source, out, step.address, step.size)) = step.size
    <3>1. step.size \in Nat /\ step.address \in Nat /\ w.source \in Seq(Byte)
      BY <1>1
    <3> QED
      BY <2>2, <3>1, CopiedBytes, Zenon
  <2> QED
    BY <2>1, <2>2, <2>3 DEF step
<1> QED
  BY <1>1, <1>4, <1>5, <1>6

(* As long as every instruction may be replayed, the output ends where the *)
(* instructions do.                                                        *)
LEMMA OutputsGrow ==
  ASSUME NEW w, IsTrace(w), Accepts(w)
  PROVE  \A i \in 0..Count(w) :
           Outputs(w)[i] \in Seq(Byte) /\ Len(Outputs(w)[i]) = Ending(w, i)
<1> DEFINE Good(i) == Outputs(w)[i] \in Seq(Byte) /\ Len(Outputs(w)[i]) = Ending(w, i)
           Bad == {i \in 0..Count(w) : ~Good(i)}
<1>1. Count(w) \in Nat
  BY Tiled
<1>2. SUFFICES ASSUME Bad # {} PROVE FALSE
  BY Zenon
<1>3. PICK m \in Bad : \A k \in Bad : m <= k
  <2>1. Bad \subseteq Nat
    OBVIOUS
  <2> HIDE DEF Bad
  <2> QED
    BY <1>2, <2>1, Least
<1>4. m \in 0..Count(w) /\ ~Good(m)
  BY <1>3
<1>5. CASE m = 0
  BY <1>1, <1>4, <1>5, OutputsSpelled, EmptySeq, Tiled
<1>6. CASE m # 0
  <2>1. m \in 1..Count(w) /\ m - 1 \in 0..Count(w) /\ ~(m <= m - 1)
    BY <1>1, <1>4, <1>6
  <2>2. Good(m - 1)
    <3> HIDE DEF Good
    <3> QED
      BY <1>3, <2>1
  <2>3. Replayable(w, w.instructions[m], Outputs(w)[m - 1])
    BY <2>1 DEF Accepts, Count
  <2>4. /\ Produced(w, w.instructions[m], Outputs(w)[m - 1]) \in Seq(Byte)
        /\ Len(Produced(w, w.instructions[m], Outputs(w)[m - 1])) = w.instructions[m].size
    BY <2>1, <2>2, <2>3, ProducedBytes
  <2>5. Outputs(w)[m] = Outputs(w)[m - 1] \o Produced(w, w.instructions[m], Outputs(w)[m - 1])
    BY <1>1, <2>1, OutputsSpelled
  <2>6. Ending(w, m) = Ending(w, m - 1) + w.instructions[m].size
    BY <2>1, Tiled
  <2> DEFINE before == Outputs(w)[m - 1]
             more == Produced(w, w.instructions[m], before)
  <2>7. Good(m)
    <3>1. before \in Seq(Byte) /\ more \in Seq(Byte)
      BY <2>2, <2>4
    <3> HIDE DEF before, more
    <3>2. before \o more \in Seq(Byte) /\ Len(before \o more) = Len(before) + Len(more)
      BY <3>1, ConcatProperties
    <3>3. Len(before) = Ending(w, m - 1) /\ Len(more) = w.instructions[m].size
      BY <2>2, <2>4 DEF before, more
    <3>4. Outputs(w)[m] = before \o more
      BY <2>5 DEF before, more
    <3> QED
      BY <2>6, <3>2, <3>3, <3>4
  <2> QED
    BY <1>4, <2>7
<1> QED
  BY <1>5, <1>6

(* Counting the instructions that begin before the output ends counts      *)
(* those whose bytes are in it.                                            *)
LEMMA Counted ==
  ASSUME NEW w, IsTrace(w), NEW d \in 0..Count(w)
  PROVE  Cardinality({i \in 1..Len(w.instructions) :
                        w.instructions[i].position < Ending(w, d)}) = d
<1>1. Count(w) \in Nat /\ d \in Nat
  BY Tiled
<1>2. ASSUME NEW i \in 1..Count(w)
      PROVE  w.instructions[i].position < Ending(w, d) <=> i <= d
  <2>1. /\ w.instructions[i].position = Ending(w, i - 1) /\ i - 1 \in 0..Count(w)
        /\ Ending(w, i - 1) \in Nat /\ Ending(w, d) \in Nat
    BY Tiled
  <2>2. CASE i <= d
    BY <1>1, <2>1, <2>2, EndingGrows
  <2>3. CASE d = i - 1
    BY <2>1, <2>3
  <2>4. CASE d < i - 1
    <3>1. Ending(w, d) < Ending(w, i - 1)
      BY <2>1, <2>4, EndingGrows
    <3> QED
      BY <1>1, <2>1, <2>4, <3>1
  <2> QED
    BY <1>1, <2>2, <2>3, <2>4
<1>3. {i \in 1..Len(w.instructions) : w.instructions[i].position < Ending(w, d)} = 1..d
  BY <1>1, <1>2 DEF Count
<1>4. Cardinality(1..d) = d
  BY <1>1, FS_Interval
<1> QED
  BY <1>3, <1>4
-----------------------------------------------------------------------------
(* The address caches.                                                     *)

(* Division with remainder.                                                *)
LEMMA Remainder ==
  ASSUME NEW n \in Nat, NEW p \in Nat, p # 0
  PROVE  n \div p \in Nat /\ n % p \in 0..(p - 1) /\ n = p * (n \div p) + (n % p)
OBVIOUS

(* There is one remainder only.                                            *)
LEMMA RemainderUnique ==
  ASSUME NEW n \in Nat, NEW p \in Nat, p # 0, NEW q \in Nat, NEW r \in 0..(p - 1),
         n = p * q + r
  PROVE  n % p = r
OBVIOUS

(* Counting round a cache one step at a time.                              *)
LEMMA NextSlot ==
  ASSUME NEW n \in Nat, NEW p \in Nat, p # 0
  PROVE  (n + 1) % p = ((n % p) + 1) % p
<1> DEFINE q == n \div p
           r == n % p
<1>1. q \in Nat /\ r \in 0..(p - 1) /\ n = p * q + r
  BY Remainder
<1> HIDE DEF q, r
<1>2. CASE r + 1 < p
  <2>1. r + 1 \in 0..(p - 1) /\ n + 1 = p * q + (r + 1) /\ r + 1 = p * 0 + (r + 1)
    BY <1>1, <1>2
  <2>2. (n + 1) % p = r + 1
    BY <1>1, <2>1, RemainderUnique
  <2>3. (r + 1) % p = r + 1
    BY <1>1, <2>1, RemainderUnique
  <2> QED
    BY <2>2, <2>3 DEF r
<1>3. CASE ~(r + 1 < p)
  <2>1. r + 1 = p
    BY <1>1, <1>3
  <2>2. p * (q + 1) = p * q + p
    BY <1>1
  <2>3. 0 \in 0..(p - 1) /\ n + 1 = p * (q + 1) + 0 /\ r + 1 = p * 1 + 0 /\ q + 1 \in Nat
    BY <1>1, <2>1, <2>2
  <2>4. (n + 1) % p = 0
    BY <1>1, <2>3, RemainderUnique
  <2>5. (r + 1) % p = 0
    BY <1>1, <2>3, RemainderUnique
  <2> QED
    BY <2>4, <2>5 DEF r
<1> QED
  BY <1>2, <1>3

(* The sizes of the caches.                                                *)
LEMMA Sizes ==
  /\ Near \in Nat /\ Same \in Nat /\ Bucket \in Nat \ {0} /\ Base \in Nat \ {0, 1}
  /\ Same * Bucket \in Nat /\ (Same # 0 => Same * Bucket # 0)
  /\ SameStart = 2 + Near /\ Modes = 2 + Near + Same /\ Bucket = 2 * Base
<1>1. /\ Near \in Nat /\ Same \in Nat /\ Bucket \in Nat \ {0} /\ Base \in Nat \ {0, 1}
      /\ SameStart = 2 + Near /\ Modes = 2 + Near + Same /\ Bucket = 2 * Base
  BY WindowAssumption, VarintAssumption
     DEF WindowAssumption, VarintAssumption, Bucket, SameStart, Modes
<1>2. \A b \in Nat \ {0} : Same * b \in Nat /\ (Same # 0 => Same * b # 0)
  BY <1>1
<1> QED
  BY <1>1, <1>2

(* What the caches hold.                                                   *)
Cache ==
  [near : [0..(Near - 1) -> Nat], next : Nat, same : [0..(Same * Bucket - 1) -> Nat]]

(* There are finitely many COPYs before an instruction.                    *)
LEMMA CopiesCounted ==
  ASSUME NEW w, NEW n \in Nat
  PROVE  /\ IsFiniteSet(CopiesAmong(w, n)) /\ Cardinality(CopiesAmong(w, n)) \in Nat
         /\ CopiesAmong(w, n) \subseteq 1..n
<1>1. CopiesAmong(w, n) \subseteq 1..n
  BY DEF CopiesAmong
<1>2. IsFiniteSet(1..n)
  BY FS_Interval
<1> QED
  BY <1>1, <1>2, FS_Subset, FS_CardinalityType

(* Some copies have a last one.                                            *)
LEMMA LastExists ==
  ASSUME NEW n \in Nat, NEW S, S \subseteq 1..n, S # {}
  PROVE  \E m \in S : \A j \in S : j <= m
<1> DEFINE Above == {k \in Nat : \A j \in S : j <= k}
<1>1. n \in Above
  OBVIOUS
<1>2. PICK m \in Above : \A k \in Above : m <= k
  <2>1. Above \subseteq Nat /\ Above # {}
    BY <1>1
  <2> HIDE DEF Above
  <2> QED
    BY <2>1, Least
<1>3. m \in Nat /\ \A j \in S : j <= m
  BY <1>2
<1>4. CASE m \in S
  BY <1>3, <1>4
<1>5. CASE m \notin S
  <2>1. PICK s \in S : TRUE
    OBVIOUS
  <2>2. s \in 1..n /\ s <= m
    BY <1>3, <2>1
  <2>3. m - 1 \in Nat
    BY <1>3, <2>2
  <2>4. \A j \in S : j <= m - 1
    BY <1>3, <1>5
  <2>5. m - 1 \in Above
    BY <2>3, <2>4
  <2> HIDE DEF Above
  <2>6. m <= m - 1
    BY <1>2, <2>5
  <2> QED
    BY <1>3, <2>6
<1> QED
  BY <1>4, <1>5

(* What a slot holds is an address, or the 0 it began with.                *)
LEMMA LastAddressType ==
  ASSUME NEW w, IsTrace(w), NEW n \in 0..Count(w), NEW S, S \subseteq 1..n
  PROVE  LastAddress(w, S) \in Nat
<1>1. Count(w) \in Nat /\ n \in Nat
  BY Tiled
<1>2. CASE S = {}
  BY <1>2 DEF LastAddress
<1>3. CASE S # {}
  <2> DEFINE m == CHOOSE i \in S : \A j \in S : j <= i
  <2>1. \E i \in S : \A j \in S : j <= i
    BY <1>1, <1>3, LastExists
  <2>2. m \in S
    BY <2>1
  <2>3. LastAddress(w, S) = w.instructions[m].address
    BY <1>3 DEF LastAddress
  <2> HIDE DEF m
  <2>4. m \in 1..Count(w)
    BY <1>1, <2>2
  <2> QED
    BY <2>3, <2>4, Tiled
<1> QED
  BY <1>2, <1>3

(* The last of some COPYs and a later one is the later one.                *)
LEMMA LastAddressAdded ==
  ASSUME NEW w, NEW i \in Nat, NEW S, S \subseteq 1..(i - 1)
  PROVE  LastAddress(w, S \cup {i}) = w.instructions[i].address
<1> DEFINE T == S \cup {i}
<1>1. i \in T /\ \A j \in T : j <= i
  OBVIOUS
<1>2. \A k \in T : (\A j \in T : j <= k) => k = i
  OBVIOUS
<1>3. T # {}
  BY <1>1
<1> HIDE DEF T
<1>4. (CHOOSE k \in T : \A j \in T : j <= k) = i
  BY <1>1, <1>2
<1>5. LastAddress(w, T) = w.instructions[i].address
  BY <1>3, <1>4 DEF LastAddress
<1> QED
  BY <1>5 DEF T

(* The caches hold addresses, and the next NEAR slot is one of theirs.     *)
LEMMA CachesType ==
  ASSUME NEW w, IsTrace(w), NEW n \in 0..Count(w)
  PROVE  /\ CachesOf(w, n) \in Cache
         /\ Near # 0 => CachesOf(w, n).next \in 0..(Near - 1)
<1> DEFINE copies == CopiesAmong(w, n)
           total == Cardinality(copies)
           Ordinal(i) == Cardinality(CopiesAmong(w, i - 1))
           InSlot(s) == {i \in copies : Ordinal(i) % Near = s}
           InBucket(s) == {i \in copies : w.instructions[i].address % (Same * Bucket) = s}
<1>1. n \in Nat /\ Near \in Nat /\ total \in Nat /\ copies \subseteq 1..n
  BY Tiled, Sizes, CopiesCounted
<1>2. CachesOf(w, n) =
        [near |-> [s \in 0..(Near - 1) |-> LastAddress(w, InSlot(s))],
         next |-> IF Near = 0 THEN 0 ELSE total % Near,
         same |-> [s \in 0..(Same * Bucket - 1) |-> LastAddress(w, InBucket(s))]]
  BY DEF CachesOf
<1>3. ASSUME NEW s PROVE LastAddress(w, InSlot(s)) \in Nat /\ LastAddress(w, InBucket(s)) \in Nat
  <2>1. InSlot(s) \subseteq 1..n /\ InBucket(s) \subseteq 1..n
    BY <1>1
  <2> HIDE DEF InSlot, InBucket
  <2> QED
    BY <2>1, LastAddressType
<1> HIDE DEF copies, total, InSlot, InBucket
<1>4. Near # 0 => total % Near \in 0..(Near - 1)
  BY <1>1, Remainder
<1>5. (IF Near = 0 THEN 0 ELSE total % Near) \in Nat
  BY <1>1, <1>4
<1>6. [s \in 0..(Near - 1) |-> LastAddress(w, InSlot(s))] \in [0..(Near - 1) -> Nat]
  BY <1>3
<1>7. [s \in 0..(Same * Bucket - 1) |-> LastAddress(w, InBucket(s))]
        \in [0..(Same * Bucket - 1) -> Nat]
  BY <1>3
<1> QED
  BY <1>2, <1>4, <1>5, <1>6, <1>7 DEF Cache

(* Before the first instruction the caches are empty (codec.py:65-67).     *)
LEMMA CachesBefore ==
  ASSUME NEW w
  PROVE  CachesOf(w, 0) = EmptyCaches
<1>1. CopiesAmong(w, 0) = {}
  BY DEF CopiesAmong
<1>2. Near \in Nat /\ Same * Bucket \in Nat
  BY Sizes
<1>3. Cardinality({}) = 0
  BY FS_EmptySet
<1>4. Near # 0 => 0 % Near = 0
  <2>1. Near # 0 => 0 \in 0..(Near - 1) /\ 0 = Near * 0 + 0
    BY <1>2
  <2> QED
    BY <1>2, <2>1, RemainderUnique
<1>5. LastAddress(w, {}) = 0
  BY DEF LastAddress
<1> DEFINE Slot(s) == {i \in CopiesAmong(w, 0) : Cardinality(CopiesAmong(w, i - 1)) % Near = s}
           InBucket(s) == {i \in CopiesAmong(w, 0) :
                             w.instructions[i].address % (Same * Bucket) = s}
<1>6. CachesOf(w, 0) =
        [near |-> [s \in 0..(Near - 1) |-> LastAddress(w, Slot(s))],
         next |-> IF Near = 0 THEN 0 ELSE Cardinality(CopiesAmong(w, 0)) % Near,
         same |-> [s \in 0..(Same * Bucket - 1) |-> LastAddress(w, InBucket(s))]]
  BY DEF CachesOf
<1>7. \A s : Slot(s) = {} /\ InBucket(s) = {}
  BY <1>1
<1> HIDE DEF Slot, InBucket
<1>8. [s \in 0..(Near - 1) |-> LastAddress(w, Slot(s))] = [s \in 0..(Near - 1) |-> 0]
  BY <1>5, <1>7
<1>9. [s \in 0..(Same * Bucket - 1) |-> LastAddress(w, InBucket(s))]
        = [s \in 0..(Same * Bucket - 1) |-> 0]
  BY <1>5, <1>7
<1>10. (IF Near = 0 THEN 0 ELSE Cardinality(CopiesAmong(w, 0)) % Near) = 0
  BY <1>1, <1>3, <1>4
<1> QED
  BY <1>6, <1>8, <1>9, <1>10, Zenon DEF EmptyCaches

(* An instruction that copies nothing changes no cache.                    *)
LEMMA CachesKept ==
  ASSUME NEW w, NEW i \in Nat \ {0}, w.instructions[i].type # COPY
  PROVE  CachesOf(w, i) = CachesOf(w, i - 1)
<1>1. CopiesAmong(w, i) = CopiesAmong(w, i - 1)
  BY DEF CopiesAmong
<1> QED
  BY <1>1, Zenon DEF CachesOf

(* A COPY is remembered: what the caches hold after so many instructions   *)
(* is what the loop over them leaves (codec.py:64-102, decoder.py:90-133). *)
LEMMA CachesStep ==
  ASSUME NEW w, IsTrace(w), NEW i \in 1..Count(w), w.instructions[i].type = COPY
  PROVE  CachesOf(w, i) = Remember(CachesOf(w, i - 1), w.instructions[i].address)
<1> DEFINE Copies(n) == CopiesAmong(w, n)
           Total(n) == Cardinality(Copies(n))
           InSlot(n, s) == {j \in Copies(n) : Cardinality(CopiesAmong(w, j - 1)) % Near = s}
           InBucket(n, s) == {j \in Copies(n) : w.instructions[j].address % (Same * Bucket) = s}
           address == w.instructions[i].address
           before == CachesOf(w, i - 1)
           after == CachesOf(w, i)
<1>1. /\ i \in Nat /\ i - 1 \in Nat /\ address \in Nat /\ Near \in Nat /\ Same \in Nat
      /\ Same * Bucket \in Nat /\ (Same # 0 => Same * Bucket # 0)
      /\ Count(w) \in Nat /\ i - 1 \in 0..Count(w)
  BY Tiled, Sizes
<1>2. Copies(i) = Copies(i - 1) \cup {i} /\ i \notin Copies(i - 1)
  BY <1>1 DEF CopiesAmong
<1>3. Total(i) = Total(i - 1) + 1 /\ Total(i - 1) \in Nat /\ Copies(i - 1) \subseteq 1..(i - 1)
  <2>1. IsFiniteSet(Copies(i - 1)) /\ Total(i - 1) \in Nat /\ Copies(i - 1) \subseteq 1..(i - 1)
    BY <1>1, CopiesCounted
  <2> QED
    BY <1>2, <2>1, FS_AddElement
<1>4. ASSUME NEW n \in {i - 1, i}
      PROVE  CachesOf(w, n) =
               [near |-> [s \in 0..(Near - 1) |-> LastAddress(w, InSlot(n, s))],
                next |-> IF Near = 0 THEN 0 ELSE Total(n) % Near,
                same |-> [s \in 0..(Same * Bucket - 1) |-> LastAddress(w, InBucket(n, s))]]
  BY DEF CachesOf
<1>5. ASSUME NEW s
      PROVE  /\ InSlot(i, s) = IF Total(i - 1) % Near = s THEN InSlot(i - 1, s) \cup {i}
                               ELSE InSlot(i - 1, s)
             /\ InSlot(i - 1, s) \subseteq 1..(i - 1)
  BY <1>2, <1>3
<1>6. ASSUME NEW s
      PROVE  /\ InBucket(i, s) = IF address % (Same * Bucket) = s
                                 THEN InBucket(i - 1, s) \cup {i}
                                 ELSE InBucket(i - 1, s)
             /\ InBucket(i - 1, s) \subseteq 1..(i - 1)
  BY <1>2, <1>3
<1> HIDE DEF Copies, Total, InSlot, InBucket
<1>7. after.next = IF Near = 0 THEN before.next ELSE (before.next + 1) % Near
  <2>1. /\ after.next = IF Near = 0 THEN 0 ELSE Total(i) % Near
        /\ before.next = IF Near = 0 THEN 0 ELSE Total(i - 1) % Near
    BY <1>4
  <2>2. Near # 0 => Total(i) % Near = ((Total(i - 1) % Near) + 1) % Near
    BY <1>1, <1>3, NextSlot
  <2> QED
    BY <2>1, <2>2
<1>8. /\ before.near = [s \in 0..(Near - 1) |-> LastAddress(w, InSlot(i - 1, s))]
      /\ after.near = [s \in 0..(Near - 1) |-> LastAddress(w, InSlot(i, s))]
      /\ before.same = [s \in 0..(Same * Bucket - 1) |-> LastAddress(w, InBucket(i - 1, s))]
      /\ after.same = [s \in 0..(Same * Bucket - 1) |-> LastAddress(w, InBucket(i, s))]
      /\ Near # 0 => before.next = Total(i - 1) % Near
  <2>1. before =
          [near |-> [s \in 0..(Near - 1) |-> LastAddress(w, InSlot(i - 1, s))],
           next |-> IF Near = 0 THEN 0 ELSE Total(i - 1) % Near,
           same |-> [s \in 0..(Same * Bucket - 1) |-> LastAddress(w, InBucket(i - 1, s))]]
    BY <1>4
  <2>2. after =
          [near |-> [s \in 0..(Near - 1) |-> LastAddress(w, InSlot(i, s))],
           next |-> IF Near = 0 THEN 0 ELSE Total(i) % Near,
           same |-> [s \in 0..(Same * Bucket - 1) |-> LastAddress(w, InBucket(i, s))]]
    BY <1>4
  <2> HIDE DEF before, after
  <2> QED
    BY <2>1, <2>2
<1>9. after.near = IF Near = 0 THEN before.near
                   ELSE [before.near EXCEPT ![before.next] = address]
  <2>1. CASE Near = 0
    <3>1. 0..(Near - 1) = {}
      BY <2>1
    <3>2. after.near = [s \in {} |-> 0] /\ before.near = [s \in {} |-> 0]
      BY <1>8, <3>1
    <3> QED
      BY <2>1, <3>2
  <2>2. CASE Near # 0
    <3>1. before.next \in 0..(Near - 1)
      <4>1. Total(i - 1) % Near \in 0..(Near - 1)
        BY <1>1, <1>3, <2>2, Remainder
      <4> QED
        BY <1>8, <2>2, <4>1
    <3>2. ASSUME NEW s \in 0..(Near - 1)
          PROVE  LastAddress(w, InSlot(i, s)) =
                   IF s = before.next THEN address ELSE LastAddress(w, InSlot(i - 1, s))
      <4>1. CASE s = before.next
        <5>1. InSlot(i, s) = InSlot(i - 1, s) \cup {i} /\ InSlot(i - 1, s) \subseteq 1..(i - 1)
          BY <1>5, <1>8, <2>2, <4>1
        <5> QED
          BY <1>1, <4>1, <5>1, LastAddressAdded, ZenonT(30)
      <4>2. CASE s # before.next
        <5>1. InSlot(i, s) = InSlot(i - 1, s)
          BY <1>5, <1>8, <2>2, <4>2
        <5> QED
          BY <4>2, <5>1
      <4> QED
        BY <4>1, <4>2
    <3> HIDE DEF before, after, address
    <3>3. [before.near EXCEPT ![before.next] = address] =
            [s \in 0..(Near - 1) |->
               IF s = before.next THEN address ELSE LastAddress(w, InSlot(i - 1, s))]
      BY <1>8, <3>1
    <3>4. after.near = [s \in 0..(Near - 1) |->
               IF s = before.next THEN address ELSE LastAddress(w, InSlot(i - 1, s))]
      BY <1>8, <3>2
    <3> QED
      BY <2>2, <3>3, <3>4
  <2> QED
    BY <2>1, <2>2
<1>10. after.same = IF Same = 0 THEN before.same
                    ELSE [before.same EXCEPT ![address % (Same * Bucket)] = address]
  <2> DEFINE slot == address % (Same * Bucket)
  <2>1. CASE Same = 0
    <3>1. Same * Bucket = 0
      BY <2>1, Sizes
    <3>2. 0..(Same * Bucket - 1) = {}
      BY <3>1
    <3>3. after.same = [s \in {} |-> 0] /\ before.same = [s \in {} |-> 0]
      BY <1>8, <3>2
    <3> QED
      BY <2>1, <3>3
  <2>2. CASE Same # 0
    <3>1. slot \in 0..(Same * Bucket - 1)
      BY <1>1, <2>2, Remainder
    <3>2. ASSUME NEW s \in 0..(Same * Bucket - 1)
          PROVE  LastAddress(w, InBucket(i, s)) =
                   IF s = slot THEN address ELSE LastAddress(w, InBucket(i - 1, s))
      <4>1. CASE s = slot
        <5>1. InBucket(i, s) = InBucket(i - 1, s) \cup {i} /\ InBucket(i - 1, s) \subseteq 1..(i - 1)
          BY <1>6, <4>1
        <5> QED
          BY <1>1, <4>1, <5>1, LastAddressAdded, ZenonT(30)
      <4>2. CASE s # slot
        <5>1. InBucket(i, s) = InBucket(i - 1, s)
          BY <1>6, <4>2
        <5> QED
          BY <4>2, <5>1
      <4> QED
        BY <4>1, <4>2
    <3> HIDE DEF before, after, slot
    <3>3. [before.same EXCEPT ![slot] = address] =
            [s \in 0..(Same * Bucket - 1) |->
               IF s = slot THEN address ELSE LastAddress(w, InBucket(i - 1, s))]
      <4> HIDE DEF address
      <4> QED
        BY <1>8, <3>1
    <3>4. after.same = [s \in 0..(Same * Bucket - 1) |->
               IF s = slot THEN address ELSE LastAddress(w, InBucket(i - 1, s))]
      BY <1>8, <3>2
    <3> QED
      BY <2>2, <3>3, <3>4 DEF slot
  <2> QED
    BY <2>1, <2>2
<1>11. after = [near |-> after.near, next |-> after.next, same |-> after.same]
  <2>1. after \in Cache
    BY CachesType
  <2> HIDE DEF after
  <2> QED
    BY <2>1 DEF Cache
<1> HIDE DEF before, after, address
<1>12. after = Remember(before, address)
  BY <1>7, <1>9, <1>10, <1>11, Zenon DEF Remember
<1> QED
  BY <1>12 DEF before, after, address

-----------------------------------------------------------------------------
(* Sections.                                                               *)

(* A section is the first n pieces end to end, the i-th up to ends[i].     *)
Laid(section, piece, ends, n) ==
  /\ ends \in [0..n -> 0..Len(section)]
  /\ ends[0] = 0 /\ ends[n] = Len(section)
  /\ \A i \in 1..n :
       /\ piece[i] \in Seq(Byte)
       /\ ends[i] = ends[i - 1] + Len(piece[i])
       /\ \A k \in 1..Len(piece[i]) : section[ends[i - 1] + k] = piece[i][k]

(* No pieces make an empty section.                                        *)
LEMMA LaidNothing ==
  ASSUME NEW piece
  PROVE  \E ends : Laid(<<>>, piece, ends, 0)
<1> DEFINE ends == [i \in 0..0 |-> 0]
<1>1. ends \in [0..0 -> 0..Len(<<>>)] /\ ends[0] = 0 /\ ends[0] = Len(<<>>)
  OBVIOUS
<1>2. 1..0 = {}
  OBVIOUS
<1> HIDE DEF ends
<1>3. Laid(<<>>, piece, ends, 0)
  BY <1>1, <1>2 DEF Laid
<1> QED
  BY <1>3

(* One more piece behind the others.                                       *)
LEMMA LaidMore ==
  ASSUME NEW n \in Nat, NEW section \in Seq(Byte), NEW piece, NEW ends,
         Laid(section, piece, ends, n), piece[n + 1] \in Seq(Byte)
  PROVE  /\ section \o piece[n + 1] \in Seq(Byte)
         /\ \E more : Laid(section \o piece[n + 1], piece, more, n + 1)
<1> DEFINE last == piece[n + 1]
           all == section \o last
           more == [i \in 0..(n + 1) |-> IF i <= n THEN ends[i] ELSE Len(all)]
<1>1. last \in Seq(Byte)
  OBVIOUS
<1> HIDE DEF last
<1>2. /\ all \in Seq(Byte) /\ Len(all) = Len(section) + Len(last)
      /\ Len(section) \in Nat /\ Len(last) \in Nat
      /\ \A k \in 1..Len(section) : all[k] = section[k]
      /\ \A k \in 1..Len(last) : all[Len(section) + k] = last[k]
  <2>1. /\ all \in Seq(Byte) /\ Len(all) = Len(section) + Len(last)
        /\ Len(section) \in Nat /\ Len(last) \in Nat
        /\ \A k \in 1..(Len(section) + Len(last)) :
             all[k] = IF k <= Len(section) THEN section[k] ELSE last[k - Len(section)]
    BY <1>1, ConcatProperties, LenProperties
  <2> HIDE DEF all
  <2> QED
    BY <2>1
<1> HIDE DEF all
<1>3. /\ ends \in [0..n -> 0..Len(section)] /\ ends[0] = 0 /\ ends[n] = Len(section)
      /\ \A i \in 1..n :
           /\ piece[i] \in Seq(Byte)
           /\ ends[i] = ends[i - 1] + Len(piece[i])
           /\ \A k \in 1..Len(piece[i]) : section[ends[i - 1] + k] = piece[i][k]
  BY DEF Laid
<1>4. \A i \in 0..n : more[i] = ends[i] /\ ends[i] \in 0..Len(section)
  BY <1>3
<1>5. more \in [0..(n + 1) -> 0..Len(all)] /\ more[n + 1] = Len(all) /\ more[0] = 0
  BY <1>2, <1>3
<1> HIDE DEF more
<1>6. ASSUME NEW i \in 1..(n + 1)
      PROVE  /\ piece[i] \in Seq(Byte)
             /\ more[i] = more[i - 1] + Len(piece[i])
             /\ \A k \in 1..Len(piece[i]) : all[more[i - 1] + k] = piece[i][k]
  <2>1. CASE i = n + 1
    <3>1. more[i - 1] = Len(section) /\ piece[i] = last
      BY <1>3, <1>4, <2>1 DEF last
    <3> QED
      BY <1>1, <1>2, <1>5, <2>1, <3>1
  <2>2. CASE i # n + 1
    <3>1. i \in 1..n /\ i - 1 \in 0..n
      BY <2>2
    <3>2. /\ more[i] = ends[i] /\ more[i - 1] = ends[i - 1]
          /\ ends[i] \in 0..Len(section) /\ ends[i - 1] \in 0..Len(section)
          /\ piece[i] \in Seq(Byte) /\ ends[i] = ends[i - 1] + Len(piece[i])
      BY <1>3, <1>4, <3>1
    <3>3. ASSUME NEW k \in 1..Len(piece[i]) PROVE all[ends[i - 1] + k] = piece[i][k]
      <4>1. Len(piece[i]) \in Nat
        BY <3>2, LenProperties
      <4>2. ends[i - 1] + k \in 1..Len(section)
        <5> DEFINE size == Len(piece[i])
                   total == Len(section)
                   from == ends[i - 1]
                   to == ends[i]
        <5>1. size \in Nat /\ total \in Nat /\ from \in 0..total /\ to \in 0..total
              /\ to = from + size /\ k \in 1..size
          BY <1>2, <3>2, <4>1
        <5> HIDE DEF size, total, from, to
        <5>2. from + k \in 1..total
          BY <5>1
        <5> QED
          BY <5>2 DEF from, total
      <4>3. section[ends[i - 1] + k] = piece[i][k]
        BY <1>3, <3>1
      <4> QED
        BY <1>2, <4>2, <4>3
    <3> QED
      BY <3>2, <3>3
  <2> QED
    BY <2>1, <2>2
<1>7. Laid(all, piece, more, n + 1)
  BY <1>5, <1>6 DEF Laid
<1> QED
  BY <1>2, <1>7 DEF last, all

NextFlat(seqs, flat, i) ==
  IF i = 1 THEN seqs[i] ELSE flat[i - 1] \o seqs[i]

(* Joining any number of sequences has a result.                           *)
LEMMA FlatExists ==
  ASSUME NEW seqs, NEW n \in Nat \ {0}
  PROVE  \E f : f = [i \in 1..n |-> NextFlat(seqs, f, i)]
<1> DEFINE P(m) == \E f : f = [i \in 1..m |-> NextFlat(seqs, f, i)]
           Bad == {m \in Nat \ {0} : ~P(m)}
<1>1. SUFFICES ASSUME Bad # {} PROVE FALSE
  OBVIOUS
<1>2. PICK m \in Bad : \A k \in Bad : m <= k
  <2>1. Bad \subseteq Nat
    OBVIOUS
  <2> HIDE DEF Bad
  <2> QED
    BY <1>1, <2>1, Least
<1>3. m \in Nat \ {0} /\ ~P(m)
  BY <1>2
<1>4. m # 1
  <2>1. P(1)
    <3> DEFINE f == [i \in 1..1 |-> seqs[1]]
    <3>1. f = [i \in 1..1 |-> NextFlat(seqs, f, i)]
      <4>1. \A i \in 1..1 : i = 1
        OBVIOUS
      <4> HIDE DEF f
      <4>2. \A i \in 1..1 : NextFlat(seqs, f, i) = seqs[1]
        BY <4>1 DEF NextFlat
      <4> QED
        BY <4>2 DEF f
    <3> QED
      BY <3>1
  <2> HIDE DEF P
  <2> QED
    BY <1>3, <2>1
<1>5. m - 1 \in Nat \ {0} /\ P(m - 1)
  <2>1. m - 1 \in Nat \ {0} /\ ~(m <= m - 1)
    BY <1>3, <1>4
  <2> HIDE DEF P
  <2> QED
    BY <1>2, <2>1
<1>6. PICK f : f = [i \in 1..(m - 1) |-> NextFlat(seqs, f, i)]
  BY <1>5
<1> DEFINE last == f[m - 1] \o seqs[m]
<1> HIDE DEF last
<1> DEFINE g == [i \in 1..m |-> IF i < m THEN f[i] ELSE last]
<1>7. ASSUME NEW i \in 1..m PROVE g[i] = NextFlat(seqs, g, i)
  <2>1. i # 1 => i - 1 \in 1..m /\ i - 1 < m
    BY <1>3
  <2>2. i # 1 => g[i - 1] = f[i - 1]
    BY <2>1
  <2>3. CASE i < m
    <3>1. i \in 1..(m - 1)
      BY <1>3, <2>3
    <3>2. g[i] = f[i]
      BY <2>3
    <3>3. f[i] = NextFlat(seqs, f, i)
      BY <1>6, <3>1
    <3> HIDE DEF g
    <3> QED
      BY <2>2, <3>2, <3>3 DEF NextFlat
  <2>4. CASE ~(i < m)
    <3>1. i = m /\ i # 1
      BY <1>3, <1>4, <2>4
    <3>2. g[i] = last
      BY <2>4
    <3> HIDE DEF g
    <3> QED
      BY <2>2, <3>1, <3>2 DEF NextFlat, last
  <2> QED
    BY <2>3, <2>4
<1>8. P(m)
  <2>1. g = [i \in 1..m |-> NextFlat(seqs, g, i)]
    BY <1>7
  <2> HIDE DEF g
  <2> QED
    BY <2>1
<1> QED
  BY <1>3, <1>8

(* b"".join: sequences of bytes joined lie end to end.                     *)
LEMMA FlattenLaid ==
  ASSUME NEW n \in Nat, NEW seqs \in [1..n -> Seq(Byte)]
  PROVE  /\ FlattenSeq(seqs) \in Seq(Byte)
         /\ \E ends : Laid(FlattenSeq(seqs), seqs, ends, n)
<1>1. Len(seqs) = n
  OBVIOUS
<1>2. CASE n = 0
  <2>1. FlattenSeq(seqs) = seqs
    BY <1>1, <1>2 DEF FlattenSeq
  <2>2. seqs = <<>>
    BY <1>2
  <2>3. <<>> \in Seq(Byte) /\ \E ends : Laid(<<>>, seqs, ends, 0)
    BY LaidNothing
  <2>4. FlattenSeq(seqs) = <<>>
    BY <2>1, <2>2
  <2> QED
    BY <1>2, <2>3, <2>4
<1>3. CASE n # 0
  <2> DEFINE Following(f, i) == IF i = 1 THEN seqs[i] ELSE f[i - 1] \o seqs[i]
             Is(f) == f = [i \in 1..Len(seqs) |-> Following(f, i)]
             flat == CHOOSE f : Is(f)
  <2>1. Is(flat)
    <3>1. PICK f : f = [i \in 1..n |-> NextFlat(seqs, f, i)]
      BY <1>3, FlatExists
    <3>2. ASSUME NEW i \in 1..n PROVE Following(f, i) = NextFlat(seqs, f, i)
      <4> HIDE DEF flat, Is
      <4> QED
        BY DEF NextFlat
    <3>3. Is(f)
      <4> HIDE DEF Following
      <4> QED
        BY <1>1, <3>1, <3>2
    <3> QED
      BY <3>3
  <2>2. FlattenSeq(seqs) = flat[n]
    <3>1. Len(seqs) # 0
      BY <1>1, <1>3
    <3>2. FlattenSeq(seqs) = flat[Len(seqs)]
      BY <3>1, Zenon DEF FlattenSeq
    <3> QED
      BY <1>1, <3>2
  <2>3. ASSUME NEW i \in 1..n PROVE flat[i] = Following(flat, i)
    <3> HIDE DEF flat, Following
    <3> QED
      BY <1>1, <2>1
  <2> HIDE DEF flat
  <2> DEFINE Good(i) == flat[i] \in Seq(Byte) /\ \E ends : Laid(flat[i], seqs, ends, i)
             Bad == {i \in 1..n : ~Good(i)}
  <2>4. Bad = {}
    <3>1. SUFFICES ASSUME Bad # {} PROVE FALSE
      OBVIOUS
    <3>2. PICK m \in Bad : \A k \in Bad : m <= k
      <4>1. Bad \subseteq Nat
        OBVIOUS
      <4> HIDE DEF Bad
      <4> QED
        BY <3>1, <4>1, Least
    <3>3. m \in 1..n /\ ~Good(m) /\ seqs[m] \in Seq(Byte)
      BY <3>2
    <3>4. CASE m = 1
      <4>1. flat[1] = seqs[1]
        BY <2>3, <3>3, <3>4
      <4>2. <<>> \o seqs[1] = seqs[1]
        BY <3>3, <3>4, ConcatEmptySeq
      <4>3. PICK ends : Laid(<<>>, seqs, ends, 0)
        BY LaidNothing
      <4>4. /\ <<>> \in Seq(Byte) /\ 0 \in Nat /\ seqs[0 + 1] \in Seq(Byte)
            /\ 0 + 1 = 1
        BY <3>3, <3>4
      <4>5. /\ <<>> \o seqs[0 + 1] \in Seq(Byte)
            /\ \E more : Laid(<<>> \o seqs[0 + 1], seqs, more, 0 + 1)
        BY <4>3, <4>4, LaidMore, Zenon
      <4>6. Good(1)
        BY <4>1, <4>2, <4>4, <4>5
      <4> QED
        BY <3>3, <3>4, <4>6
    <3>5. CASE m # 1
      <4>1. m - 1 \in 1..n /\ ~(m <= m - 1) /\ m - 1 \in Nat /\ (m - 1) + 1 = m
        BY <3>3, <3>5
      <4>2. Good(m - 1)
        <5> HIDE DEF Good
        <5> QED
          BY <3>2, <4>1
      <4>3. PICK ends : Laid(flat[m - 1], seqs, ends, m - 1)
        BY <4>2
      <4>4. seqs[(m - 1) + 1] \in Seq(Byte) /\ flat[m - 1] \in Seq(Byte)
        BY <3>3, <4>1, <4>2
      <4>5. /\ flat[m - 1] \o seqs[(m - 1) + 1] \in Seq(Byte)
            /\ \E more : Laid(flat[m - 1] \o seqs[(m - 1) + 1], seqs, more, (m - 1) + 1)
        BY <4>1, <4>3, <4>4, LaidMore, Zenon
      <4>6. flat[m] = flat[m - 1] \o seqs[m]
        BY <2>3, <3>3, <3>5
      <4>7. Good(m)
        BY <4>1, <4>5, <4>6
      <4> QED
        BY <3>3, <4>7
    <3> QED
      BY <3>4, <3>5
  <2>5. Good(n)
    <3>1. n \in 1..n
      BY <1>3
    <3> HIDE DEF Good
    <3> QED
      BY <2>4, <3>1
  <2> QED
    BY <2>2, <2>5
<1> QED
  BY <1>2, <1>3

-----------------------------------------------------------------------------
(* What an instruction puts into the data section (codec.py:105-118).      *)
DataPiece(w, i) ==
  LET in == w.instructions[i]
  IN  CASE in.type = ADD  -> SubSeq(w.target, in.position + 1, in.position + in.size)
        [] in.type = RUN  -> <<in.byte>>
        [] in.type = COPY -> <<>>

DataPieces(w) == [i \in 1..Count(w) |-> DataPiece(w, i)]

(* The COPY's mode can say its address, given what the caches hold.        *)
Reachable(w, c, i) ==
  LET in == w.instructions[i]
  IN  /\ in.mode < Modes
      /\ in.mode \in 2..(SameStart - 1) => in.address >= c.near[in.mode - 2]
      /\ in.mode >= SameStart => c.same[SameSlot(in.mode, in.address)] = in.address

(* What an instruction puts into the address section (codec.py:64-102).    *)
AddressPiece(w, i) ==
  LET in == w.instructions[i]
      here == Len(w.source) + in.position
      c == CachesOf(w, i - 1)
  IN  IF in.type # COPY THEN <<>>
      ELSE IF in.mode = 0 THEN EncodeVarint(in.address)
      ELSE IF in.mode = 1 THEN EncodeVarint(here - in.address)
      ELSE IF in.mode < SameStart THEN EncodeVarint(in.address - c.near[in.mode - 2])
      ELSE <<in.address % Bucket>>

AddressPieces(w) == [i \in 1..Count(w) |-> AddressPiece(w, i)]

(* The three kinds of instruction, one at a time.                          *)
LEMMA DataCases ==
  ASSUME NEW w, NEW i
  PROVE  /\ w.instructions[i].type = ADD => DataPiece(w, i) =
              SubSeq(w.target, w.instructions[i].position + 1,
                     w.instructions[i].position + w.instructions[i].size)
         /\ w.instructions[i].type = RUN => DataPiece(w, i) = <<w.instructions[i].byte>>
         /\ w.instructions[i].type = COPY => DataPiece(w, i) = <<>>
<1>1. ADD # RUN /\ ADD # COPY /\ RUN # COPY
  BY DEF ADD, RUN, COPY
<1> DEFINE step == w.instructions[i]
           piece == DataPiece(w, i)
<1>2. step.type = ADD =>
        piece = SubSeq(w.target, step.position + 1, step.position + step.size)
  BY <1>1, Zenon DEF DataPiece
<1>3. step.type = RUN => piece = <<step.byte>>
  BY <1>1, Zenon DEF DataPiece
<1>4. step.type = COPY => piece = <<>>
  BY <1>1, Zenon DEF DataPiece
<1> QED
  BY <1>2, <1>3, <1>4

(* The bytes of an ADD are where it stands in the target.                  *)
LEMMA AddSlice ==
  ASSUME NEW w, IsTrace(w), NEW i \in 1..Count(w)
  PROVE  LET piece == SubSeq(w.target, w.instructions[i].position + 1,
                             w.instructions[i].position + w.instructions[i].size)
         IN  /\ piece \in Seq(Byte) /\ Len(piece) = w.instructions[i].size
             /\ \A k \in 1..w.instructions[i].size :
                  piece[k] = w.target[w.instructions[i].position + k]
<1> DEFINE p == w.instructions[i].position
           n == w.instructions[i].size
           s == w.target
<1>1. p \in Nat /\ n \in Nat /\ s \in Seq(Byte)
  BY Tiled
<1>2. p + n <= Len(s)
  <2>1. i \in 0..Count(w) /\ i # 0
    OBVIOUS
  <2>2. Ending(w, i) <= Len(w.target)
    BY <2>1, EndingWithin
  <2> QED
    BY <2>1, <2>2 DEF Ending
<1> HIDE DEF p, n, s
<1>3. /\ SubSeq(s, p + 1, p + n) \in Seq(Byte) /\ Len(SubSeq(s, p + 1, p + n)) = n
      /\ \A k \in 1..n : SubSeq(s, p + 1, p + n)[k] = s[p + k]
  BY <1>1, <1>2, Slice
<1> QED
  BY <1>3 DEF p, n, s

(* The data section is its pieces end to end (codec.py:105-118).           *)
LEMMA DataLaid ==
  ASSUME NEW w, IsTrace(w)
  PROVE  /\ FlattenSeq(DataPieces(w)) \in Seq(Byte)
         /\ \E ends : Laid(FlattenSeq(DataPieces(w)), DataPieces(w), ends, Count(w))
<1>1. Count(w) \in Nat
  BY Tiled
<1>2. ASSUME NEW i \in 1..Count(w) PROVE DataPiece(w, i) \in Seq(Byte)
  <2>1. w.instructions[i].type \in {ADD, RUN, COPY} /\ w.instructions[i].byte \in Byte
    BY Tiled
  <2>2. CASE w.instructions[i].type = ADD
    <3>1. SubSeq(w.target, w.instructions[i].position + 1,
                 w.instructions[i].position + w.instructions[i].size) \in Seq(Byte)
      BY AddSlice
    <3> QED
      BY <2>2, <3>1, DataCases
  <2>3. CASE w.instructions[i].type = RUN
    <3>1. DataPiece(w, i) = <<w.instructions[i].byte>>
      BY <2>3, DataCases
    <3> QED
      BY <2>1, <3>1
  <2>4. CASE w.instructions[i].type = COPY
    <3>1. DataPiece(w, i) = <<>>
      BY <2>4, DataCases
    <3> QED
      BY <3>1
  <2> QED
    BY <2>1, <2>2, <2>3, <2>4
<1>3. DataPieces(w) \in [1..Count(w) -> Seq(Byte)]
  BY <1>2 DEF DataPieces
<1> QED
  BY <1>1, <1>3, FlattenLaid

(* What a piece says is what the section says there.                       *)
LEMMA PieceAt ==
  ASSUME NEW section \in Seq(Byte), NEW piece, NEW ends, NEW n \in Nat,
         Laid(section, piece, ends, n), NEW d \in 0..(n - 1)
  PROVE  /\ ends[d] \in Nat /\ ends[d + 1] \in Nat /\ ends[d + 1] <= Len(section)
         /\ piece[d + 1] \in Seq(Byte) /\ Len(piece[d + 1]) \in Nat
         /\ ends[d + 1] = ends[d] + Len(piece[d + 1])
         /\ \A k \in 1..Len(piece[d + 1]) : section[ends[d] + k] = piece[d + 1][k]
<1>1. d + 1 \in 1..n /\ (d + 1) - 1 = d /\ d \in 0..n /\ d + 1 \in 0..n
  OBVIOUS
<1>2. Len(section) \in Nat
  BY LenProperties
<1>3. ends[d] \in 0..Len(section) /\ ends[d + 1] \in 0..Len(section)
  BY <1>1 DEF Laid
<1>4. /\ piece[d + 1] \in Seq(Byte)
      /\ ends[d + 1] = ends[(d + 1) - 1] + Len(piece[d + 1])
      /\ \A k \in 1..Len(piece[d + 1]) : section[ends[(d + 1) - 1] + k] = piece[d + 1][k]
  BY <1>1, Zenon DEF Laid
<1>5. Len(piece[d + 1]) \in Nat
  BY <1>4, LenProperties
<1>6. ends[(d + 1) - 1] = ends[d]
  BY <1>1
<1>7. \A k \in 1..Len(piece[d + 1]) : section[ends[d] + k] = piece[d + 1][k]
  BY <1>4, <1>6, Zenon
<1>8. ends[d + 1] = ends[d] + Len(piece[d + 1])
  BY <1>4, <1>6
<1> QED
  BY <1>2, <1>3, <1>4, <1>5, <1>7, <1>8

-----------------------------------------------------------------------------
(* The decoder, one instruction at a time.                                 *)

(* The data and address sections of a window that the encoder wrote, their *)
(* pieces up to D[i] and F[i].                                             *)
WellWritten(w, dataBytes, addrBytes, D, F) ==
  /\ IsTrace(w) /\ Accepts(w)
  /\ dataBytes \in Seq(Byte) /\ Laid(dataBytes, DataPieces(w), D, Count(w))
  /\ addrBytes \in Seq(Byte) /\ Laid(addrBytes, AddressPieces(w), F, Count(w))
  /\ \A i \in 1..Count(w) :
       w.instructions[i].type = COPY => Reachable(w, CachesOf(w, i - 1), i)

(* The decoder has done d instructions.                                    *)
HasDone(d, D, F) ==
  /\ d \in 0..Count(window)
  /\ output = Outputs(window)[d] /\ caches = CachesOf(window, d)
  /\ dataAt = D[d] /\ addrAt = F[d]

(* What is known before an instruction is decoded.                         *)
LEMMA BeforeHalf ==
  ASSUME NEW D, NEW F, NEW d, WellWritten(window, data, addr, D, F), HasDone(d, D, F),
         d < Count(window)
  PROVE  LET in == window.instructions[d + 1]
         IN  /\ d + 1 \in 1..Count(window) /\ d \in Nat /\ (d + 1) - 1 = d
             /\ output \in Seq(Byte) /\ Len(output) = in.position
             /\ Outputs(window)[d + 1] = output \o Produced(window, in, output)
             /\ Produced(window, in, output) \in Seq(Byte)
             /\ Len(Produced(window, in, output)) = in.size
             /\ in.type = COPY => in.address < Len(window.source) + Len(output)
             /\ in.type \in {ADD, RUN, COPY} /\ in.size \in Nat \ {0}
             /\ in.mode \in Nat /\ in.address \in Nat /\ in.byte \in Byte
             /\ Len(window.source) \in Nat /\ window.source \in Seq(Byte)
             /\ in.position \in Nat
<1> DEFINE in == window.instructions[d + 1]
<1>1. IsTrace(window) /\ Accepts(window) /\ d \in 0..Count(window) /\ output = Outputs(window)[d]
  BY DEF WellWritten, HasDone
<1>2. Count(window) \in Nat
  BY <1>1, Tiled
<1>3. d + 1 \in 1..Count(window) /\ d \in Nat /\ (d + 1) - 1 = d
  BY <1>1, <1>2
<1>4. /\ in.type \in {ADD, RUN, COPY} /\ in.size \in Nat \ {0}
      /\ in.mode \in Nat /\ in.address \in Nat /\ in.byte \in Byte
      /\ Len(window.source) \in Nat /\ window.source \in Seq(Byte)
      /\ in.position \in Nat /\ in.position = Ending(window, (d + 1) - 1)
  BY <1>1, <1>3, Tiled
<1>5. output \in Seq(Byte) /\ Len(output) = Ending(window, d)
  BY <1>1, OutputsGrow
<1>6. Outputs(window)[d + 1] = output \o Produced(window, in, output)
  <2>1. Outputs(window)[d + 1] = Outputs(window)[(d + 1) - 1]
          \o Produced(window, in, Outputs(window)[(d + 1) - 1])
    BY <1>2, <1>3, OutputsSpelled
  <2> HIDE DEF in
  <2> QED
    BY <1>1, <1>3, <2>1
<1>7. Replayable(window, in, output)
  <2>1. Replayable(window, in, Outputs(window)[(d + 1) - 1])
    BY <1>1, <1>3 DEF Accepts, Count
  <2> HIDE DEF in
  <2> QED
    BY <1>1, <1>3, <2>1
<1>8. /\ Produced(window, in, output) \in Seq(Byte)
      /\ Len(Produced(window, in, output)) = in.size
      /\ in.type = COPY => in.address < Len(window.source) + Len(output)
  BY <1>1, <1>3, <1>5, <1>7, ProducedBytes
<1> HIDE DEF in
<1>9. Len(output) = in.position
  BY <1>3, <1>4, <1>5
<1> QED
  BY <1>3, <1>4, <1>5, <1>6, <1>8, <1>9 DEF in

(* What is left behind when instruction d + 1 is done.                     *)
Left(d, D, F, at) ==
  [ok |-> TRUE, dataAt |-> D[d + 1], instAt |-> at, addrAt |-> F[d + 1],
   caches |-> CachesOf(window, d + 1), output |-> Outputs(window)[d + 1]]

(* An ADD takes its bytes from the data section (decoder.py:108-109).      *)
LEMMA AddDecoded ==
  ASSUME NEW D, NEW F, NEW d, WellWritten(window, data, addr, D, F), HasDone(d, D, F),
         d < Count(window), window.instructions[d + 1].type = ADD, NEW at
  PROVE  AddHalf(window.instructions[d + 1].size, at) = Left(d, D, F, at)
<1> DEFINE in == window.instructions[d + 1]
           piece == DataPieces(window)[d + 1]
           bytes == SubSeq(data, dataAt + 1, dataAt + in.size)
<1>1. /\ d + 1 \in 1..Count(window) /\ d \in Nat /\ (d + 1) - 1 = d /\ output \in Seq(Byte)
      /\ Outputs(window)[d + 1] = output \o Produced(window, in, output)
      /\ in.size \in Nat \ {0} /\ ADD # COPY
  BY BeforeHalf DEF ADD, COPY
<1>2. /\ IsTrace(window) /\ data \in Seq(Byte) /\ addr \in Seq(Byte)
      /\ Laid(data, DataPieces(window), D, Count(window))
      /\ Laid(addr, AddressPieces(window), F, Count(window))
      /\ dataAt = D[d] /\ addrAt = F[d] /\ caches = CachesOf(window, d)
      /\ Count(window) \in Nat /\ d \in 0..(Count(window) - 1)
  BY <1>1, Tiled DEF WellWritten, HasDone
<1>3. piece = DataPiece(window, d + 1)
  BY <1>1 DEF DataPieces
<1> DEFINE slice == SubSeq(window.target, in.position + 1, in.position + in.size)
<1>4. /\ piece = slice /\ Produced(window, in, output) = slice
      /\ piece \in Seq(Byte) /\ Len(piece) = in.size
  <2>1. DataPiece(window, d + 1) = slice
    BY DataCases, Zenon
  <2>2. Produced(window, in, output) = slice
    BY ProducedCases, Zenon
  <2>3. slice \in Seq(Byte) /\ Len(slice) = in.size
    BY <1>1, <1>2, AddSlice, Zenon
  <2> HIDE DEF slice, piece
  <2> QED
    BY <1>3, <2>1, <2>2, <2>3
<1>5. /\ D[d] \in Nat /\ D[d + 1] = D[d] + Len(piece) /\ D[d + 1] <= Len(data)
      /\ \A k \in 1..Len(piece) : data[D[d] + k] = piece[k]
  BY <1>2, PieceAt
<1>6. F[d + 1] = F[d]
  <2>1. AddressPieces(window)[d + 1] = <<>>
    BY <1>1 DEF AddressPieces, AddressPiece
  <2>2. /\ F[d] \in Nat /\ F[d + 1] = F[d] + Len(AddressPieces(window)[d + 1])
    BY <1>2, PieceAt
  <2> QED
    BY <2>1, <2>2
<1>7. CachesOf(window, d + 1) = caches
  BY <1>1, <1>2, CachesKept
<1> HIDE DEF in, piece, slice
<1>8. bytes = piece
  <2>1. /\ bytes \in Seq(Byte) /\ Len(bytes) = in.size
        /\ \A k \in 1..in.size : bytes[k] = data[dataAt + k]
    <3>1. dataAt \in Nat /\ in.size \in Nat /\ dataAt + in.size <= Len(data)
      BY <1>1, <1>2, <1>4, <1>5
    <3> QED
      BY <1>2, <3>1, Slice
  <2> HIDE DEF bytes
  <2>2. \A k \in 1..Len(bytes) : bytes[k] = piece[k]
    BY <1>2, <1>4, <1>5, <2>1
  <2> QED
    BY <1>4, <2>1, <2>2, SeqEqual
<1>9. ~(dataAt + in.size > Len(data)) /\ dataAt + in.size = D[d + 1]
  <2>1. Len(data) \in Nat
    BY <1>2, LenProperties
  <2> QED
    BY <1>1, <1>2, <1>4, <1>5, <2>1
<1>10. AddHalf(in.size, at) =
         [ok |-> TRUE, dataAt |-> dataAt + in.size, instAt |-> at, addrAt |-> addrAt,
          caches |-> caches, output |-> output \o bytes]
  <2> HIDE DEF bytes
  <2> QED
    BY <1>9 DEF AddHalf, Decoder, bytes
<1> QED
  BY <1>1, <1>2, <1>4, <1>6, <1>7, <1>8, <1>9, <1>10, Zenon DEF in, Left

(* A RUN takes its byte from the data section (decoder.py:110-111).        *)
LEMMA RunDecoded ==
  ASSUME NEW D, NEW F, NEW d, WellWritten(window, data, addr, D, F), HasDone(d, D, F),
         d < Count(window), window.instructions[d + 1].type = RUN, NEW at
  PROVE  RunHalf(window.instructions[d + 1].size, at) = Left(d, D, F, at)
<1> DEFINE in == window.instructions[d + 1]
           piece == DataPieces(window)[d + 1]
           bytes == [i \in 1..in.size |-> data[dataAt + 1]]
<1>1. /\ d + 1 \in 1..Count(window) /\ d \in Nat /\ (d + 1) - 1 = d /\ output \in Seq(Byte)
      /\ Outputs(window)[d + 1] = output \o Produced(window, in, output)
      /\ in.size \in Nat \ {0} /\ RUN # COPY
  BY BeforeHalf DEF RUN, COPY
<1>2. /\ IsTrace(window) /\ data \in Seq(Byte) /\ addr \in Seq(Byte)
      /\ Laid(data, DataPieces(window), D, Count(window))
      /\ Laid(addr, AddressPieces(window), F, Count(window))
      /\ dataAt = D[d] /\ addrAt = F[d] /\ caches = CachesOf(window, d)
      /\ Count(window) \in Nat /\ d \in 0..(Count(window) - 1)
  BY <1>1, Tiled DEF WellWritten, HasDone
<1>3. piece = <<in.byte>> /\ Len(piece) = 1 /\ piece[1] = in.byte
  <2>1. piece = DataPiece(window, d + 1)
    BY <1>1 DEF DataPieces
  <2>2. piece = <<in.byte>>
    BY <2>1, DataCases, Zenon
  <2> HIDE DEF piece, in
  <2> QED
    BY <2>2
<1>5. /\ D[d] \in Nat /\ D[d + 1] = D[d] + Len(piece) /\ D[d + 1] <= Len(data)
      /\ \A k \in 1..Len(piece) : data[D[d] + k] = piece[k]
  BY <1>2, PieceAt
<1>6. F[d + 1] = F[d]
  <2>1. AddressPieces(window)[d + 1] = <<>>
    BY <1>1 DEF AddressPieces, AddressPiece
  <2>2. /\ F[d] \in Nat /\ F[d + 1] = F[d] + Len(AddressPieces(window)[d + 1])
    BY <1>2, PieceAt
  <2> QED
    BY <2>1, <2>2
<1>7. CachesOf(window, d + 1) = caches
  BY <1>1, <1>2, CachesKept
<1> HIDE DEF piece
<1>8. bytes = Produced(window, in, output)
  <2>1. Produced(window, in, output) = [k \in 1..in.size |-> in.byte]
    <3>1. in.type = RUN
      OBVIOUS
    <3> HIDE DEF in
    <3> QED
      BY <3>1, ProducedCases
  <2>2. data[dataAt + 1] = in.byte
    BY <1>2, <1>3, <1>5
  <2> HIDE DEF in
  <2> QED
    BY <2>1, <2>2
<1>9. ~(dataAt >= Len(data)) /\ dataAt + 1 = D[d + 1]
  <2>1. Len(data) \in Nat
    BY <1>2, LenProperties
  <2> QED
    BY <1>2, <1>3, <1>5, <2>1
<1> HIDE DEF in
<1>10. RunHalf(in.size, at) =
         [ok |-> TRUE, dataAt |-> dataAt + 1, instAt |-> at, addrAt |-> addrAt,
          caches |-> caches, output |-> output \o bytes]
  <2> HIDE DEF bytes
  <2> QED
    BY <1>9 DEF RunHalf, Decoder, bytes
<1> HIDE DEF bytes
<1> QED
  BY <1>1, <1>2, <1>6, <1>7, <1>8, <1>9, <1>10, Zenon DEF in, Left

(* Bytes are numbers, and so is the largest integer that is written.       *)
LEMMA MaxValueType ==
  /\ MaxValue \in Nat /\ Byte \subseteq Nat
  /\ \A s \in Seq(Byte) : s \in Seq(Nat)
<1>1. DigitLimit + 1 \in 0..(DigitLimit + 1)
  BY VarintAssumption DEF VarintAssumption
<1>2. Base ^ (DigitLimit + 1) \in Nat \ {0}
  BY <1>1, Powers
<1>3. Byte \subseteq Nat
  BY DEF Byte
<1>4. ASSUME NEW s \in Seq(Byte) PROVE s \in Seq(Nat)
  BY <1>3, SeqMonotonic
<1>5. MaxValue \in Nat
  BY <1>2 DEF MaxValue
<1> QED
  BY <1>3, <1>4, <1>5

(* The numbers that may stand for the address of a COPY.                   *)
LEMMA AddressNumbers ==
  ASSUME NEW w, IsTrace(w), NEW i \in 1..Count(w),
         Reachable(w, CachesOf(w, i - 1), i),
         w.instructions[i].address < Len(w.source) + w.instructions[i].position
  PROVE  LET in == w.instructions[i]
             c == CachesOf(w, i - 1)
             here == Len(w.source) + in.position
         IN  /\ in.mode \in 0..(Modes - 1) /\ in.address \in 0..MaxValue
             /\ here \in Nat /\ here - in.address \in 0..MaxValue
             /\ in.mode \in 2..(SameStart - 1) =>
                  c.near[in.mode - 2] \in Nat /\ in.address - c.near[in.mode - 2] \in 0..MaxValue
             /\ in.mode >= SameStart => c.same[SameSlot(in.mode, in.address)] = in.address
<1> DEFINE in == w.instructions[i]
           c == CachesOf(w, i - 1)
           before == Len(w.source)
           here == before + in.position
<1>1. /\ in.mode \in Nat /\ in.address \in Nat /\ in.position \in Nat /\ before \in Nat
      /\ Len(w.target) \in Nat /\ MaxValue \in Nat /\ i - 1 \in 0..Count(w)
      /\ in.position = Ending(w, i - 1)
  BY Tiled, MaxValueType
<1>2. in.position <= Len(w.target) /\ before + Len(w.target) <= MaxValue
  <2>1. Ending(w, i - 1) <= Len(w.target)
    BY <1>1, EndingWithin
  <2>2. before + Len(w.target) <= MaxValue
    BY DEF IsTrace
  <2> QED
    BY <1>1, <2>1, <2>2
<1>3. c \in Cache
  BY <1>1, CachesType
<1>4. /\ in.mode < Modes /\ in.address < here
      /\ in.mode \in 2..(SameStart - 1) => in.address >= c.near[in.mode - 2]
      /\ in.mode >= SameStart => c.same[SameSlot(in.mode, in.address)] = in.address
  BY DEF Reachable
<1> HIDE DEF in, c, before
<1>5. here \in Nat /\ here <= MaxValue
  BY <1>1, <1>2
<1>6. ASSUME in.mode \in 2..(SameStart - 1)
      PROVE  c.near[in.mode - 2] \in Nat
  <2>1. in.mode - 2 \in 0..(Near - 1)
    BY <1>1, <1>6, Sizes
  <2>2. c.near \in [0..(Near - 1) -> Nat]
    BY <1>3 DEF Cache
  <2> QED
    BY <2>1, <2>2
<1>7. Modes \in Nat
  BY Sizes
<1>8. in.mode \in 0..(Modes - 1) /\ in.address \in 0..MaxValue /\ here - in.address \in 0..MaxValue
  <2>1. in.mode \in 0..(Modes - 1)
    BY <1>1, <1>4, <1>7
  <2> DEFINE address == in.address
  <2> HIDE DEF here
  <2>2. /\ address \in Nat /\ address < here /\ here \in Nat
        /\ here <= MaxValue /\ MaxValue \in Nat
    BY <1>1, <1>4, <1>5
  <2> HIDE DEF address
  <2>3. address \in 0..MaxValue /\ here - address \in 0..MaxValue
    BY <2>2
  <2> QED
    BY <2>1, <2>3 DEF address
<1>9. in.mode \in 2..(SameStart - 1) => in.address - c.near[in.mode - 2] \in 0..MaxValue
  <2> SUFFICES ASSUME in.mode \in 2..(SameStart - 1)
               PROVE  in.address - c.near[in.mode - 2] \in 0..MaxValue
    OBVIOUS
  <2> DEFINE near == c.near[in.mode - 2]
             address == in.address
  <2>1. /\ near \in Nat /\ address >= near
        /\ address \in Nat /\ address <= MaxValue /\ MaxValue \in Nat
    BY <1>1, <1>4, <1>6, <1>8
  <2> HIDE DEF near, address
  <2>2. address - near \in 0..MaxValue
    BY <2>1
  <2> QED
    BY <2>2 DEF near, address
<1> QED
  BY <1>4, <1>5, <1>6, <1>8, <1>9 DEF in, c, before

(* Which form the address of a COPY takes.                                 *)
LEMMA AddressCases ==
  ASSUME NEW w, NEW i, w.instructions[i].type = COPY, w.instructions[i].mode \in Nat
  PROVE  LET in == w.instructions[i]
             c == CachesOf(w, i - 1)
             here == Len(w.source) + in.position
         IN  /\ in.mode = 0 => AddressPiece(w, i) = EncodeVarint(in.address)
             /\ in.mode = 1 => AddressPiece(w, i) = EncodeVarint(here - in.address)
             /\ in.mode \in 2..(SameStart - 1) =>
                  AddressPiece(w, i) = EncodeVarint(in.address - c.near[in.mode - 2])
             /\ in.mode >= SameStart => AddressPiece(w, i) = <<in.address % Bucket>>
<1> DEFINE in == w.instructions[i]
           c == CachesOf(w, i - 1)
           here == Len(w.source) + in.position
           piece == AddressPiece(w, i)
<1>1. SameStart \in Nat /\ SameStart > 1
  BY Sizes
<1>2. piece = IF in.mode = 0 THEN EncodeVarint(in.address)
              ELSE IF in.mode = 1 THEN EncodeVarint(here - in.address)
              ELSE IF in.mode < SameStart THEN EncodeVarint(in.address - c.near[in.mode - 2])
              ELSE <<in.address % Bucket>>
  BY DEF AddressPiece
<1>3. in.mode \in Nat
  OBVIOUS
<1> HIDE DEF in, c, here, piece
<1>4. /\ in.mode = 0 => piece = EncodeVarint(in.address)
      /\ in.mode = 1 => piece = EncodeVarint(here - in.address)
      /\ in.mode \in 2..(SameStart - 1) => piece = EncodeVarint(in.address - c.near[in.mode - 2])
      /\ in.mode >= SameStart => piece = <<in.address % Bucket>>
  BY <1>1, <1>2, <1>3
<1> QED
  BY <1>4 DEF in, c, here, piece

(* An address is written as bytes.                                         *)
LEMMA AddressPieceType ==
  ASSUME NEW w, IsTrace(w), NEW i \in 1..Count(w),
         w.instructions[i].type = COPY => Reachable(w, CachesOf(w, i - 1), i)
                /\ w.instructions[i].address < Len(w.source) + w.instructions[i].position
  PROVE  AddressPiece(w, i) \in Seq(Byte)
<1> DEFINE in == w.instructions[i]
           c == CachesOf(w, i - 1)
           here == Len(w.source) + in.position
           piece == AddressPiece(w, i)
<1>1. CASE in.type # COPY
  <2>1. piece = <<>>
    BY <1>1 DEF AddressPiece
  <2> QED
    BY <2>1, EmptySeq
<1>2. CASE in.type = COPY
  <2>1. /\ in.mode \in 0..(Modes - 1) /\ in.address \in 0..MaxValue
        /\ here - in.address \in 0..MaxValue
        /\ in.mode \in 2..(SameStart - 1) => in.address - c.near[in.mode - 2] \in 0..MaxValue
    BY <1>2, AddressNumbers
  <2>2. in.mode \in Nat /\ SameStart \in Nat
    BY <2>1, Sizes
  <2>3. /\ in.mode = 0 => piece = EncodeVarint(in.address)
        /\ in.mode = 1 => piece = EncodeVarint(here - in.address)
        /\ in.mode \in 2..(SameStart - 1) => piece = EncodeVarint(in.address - c.near[in.mode - 2])
        /\ in.mode >= SameStart => piece = <<in.address % Bucket>>
    BY <1>2, <2>2, AddressCases
  <2> HIDE DEF in, c, here, piece
  <2>4. in.address % Bucket \in Byte
    <3>1. Bucket \in Nat \ {0} /\ Bucket = 2 * Base /\ in.address \in Nat
      BY <2>1, Sizes, MaxValueType, SMTT(30)
    <3>2. in.address % Bucket \in 0..(Bucket - 1)
      BY <3>1, Remainder
    <3> QED
      BY <3>1, <3>2 DEF Byte
  <2>5. \A n \in 0..MaxValue : EncodeVarint(n) \in Seq(Byte)
    BY Written
  <2>6. <<in.address % Bucket>> \in Seq(Byte)
    BY <2>4
  <2>7. in.mode = 0 \/ in.mode = 1 \/ in.mode \in 2..(SameStart - 1) \/ in.mode >= SameStart
    BY <2>2
  <2> QED
    BY <2>1, <2>3, <2>5, <2>6, <2>7 DEF piece
<1> QED
  BY <1>1, <1>2

(* _decode_address gives back the address that the encoder wrote           *)
(* (decoder.py:63-87).                                                     *)
LEMMA AddressDecoded ==
  ASSUME IsTrace(window), NEW i \in 1..Count(window),
         window.instructions[i].type = COPY,
         Reachable(window, CachesOf(window, i - 1), i),
         window.instructions[i].address
           < Len(window.source) + window.instructions[i].position,
         addr \in Seq(Byte), caches = CachesOf(window, i - 1), addrAt \in Nat,
         addrAt + Len(AddressPiece(window, i)) <= Len(addr),
         \A k \in 1..Len(AddressPiece(window, i)) :
           addr[addrAt + k] = AddressPiece(window, i)[k]
  PROVE  DecodeAddress(window.instructions[i].mode,
                       Len(window.source) + window.instructions[i].position) =
           [ok |-> TRUE, address |-> window.instructions[i].address,
            at |-> addrAt + Len(AddressPiece(window, i))]
<1> DEFINE in == window.instructions[i]
           mode == in.mode
           address == in.address
           here == Len(window.source) + in.position
           piece == AddressPiece(window, i)
           near == caches.near[mode - 2]
           read == DecodeVarint(addr, addrAt)
<1>1. /\ mode \in 0..(Modes - 1) /\ address \in 0..MaxValue
      /\ here \in Nat /\ here - address \in 0..MaxValue
      /\ mode \in 2..(SameStart - 1) => near \in Nat /\ address - near \in 0..MaxValue
      /\ mode >= SameStart => caches.same[SameSlot(mode, address)] = address
  BY AddressNumbers
<1>2. /\ mode \in Nat /\ SameStart \in Nat /\ SameStart > 1 /\ Modes = SameStart + Same
      /\ Same \in Nat /\ address \in Nat /\ Len(addr) \in Nat /\ addr \in Seq(Nat)
  BY <1>1, Sizes, MaxValueType, LenProperties, SMTT(30)
<1>3. /\ mode = 0 => piece = EncodeVarint(address)
      /\ mode = 1 => piece = EncodeVarint(here - address)
      /\ mode \in 2..(SameStart - 1) => piece = EncodeVarint(address - near)
      /\ mode >= SameStart => piece = <<address % Bucket>>
  BY <1>2, AddressCases
<1>4. addrAt + Len(piece) <= Len(addr) /\ \A k \in 1..Len(piece) : addr[addrAt + k] = piece[k]
  OBVIOUS
<1> HIDE DEF in, mode, address, here, piece, near, read
<1>5. ASSUME NEW n \in 0..MaxValue, piece = EncodeVarint(n)
      PROVE  read.status = "done" /\ read.value = n /\ read.offset = addrAt + Len(piece)
  <2>1. Len(piece) = VarintSize(n)
    BY <1>5, Written
  <2>2. /\ addrAt + VarintSize(n) <= Len(addr)
        /\ \A k \in 1..VarintSize(n) : addr[addrAt + k] = EncodeVarint(n)[k]
    BY <1>4, <1>5, <2>1
  <2>3. read = [status |-> "done", value |-> n, offset |-> addrAt + VarintSize(n)]
    BY <1>2, <2>2, WrittenIsRead DEF read
  <2> QED
    BY <2>1, <2>3
<1> DEFINE result == [ok |-> TRUE, address |-> address, at |-> addrAt + Len(piece)]
           Spoken(r) == CASE mode = 0 -> r.value
                          [] mode = 1 -> here - r.value
                          [] OTHER -> caches.near[mode - 2] + r.value
<1>6. mode < SameStart =>
        DecodeAddress(mode, here) =
          IF read.status # "done" \/ Spoken(read) < 0 THEN Failed
          ELSE [ok |-> TRUE, address |-> Spoken(read), at |-> read.offset]
  BY DEF DecodeAddress, read
<1>7. CASE mode = 0
  <2>1. read.status = "done" /\ read.value = address /\ read.offset = addrAt + Len(piece)
    BY <1>1, <1>3, <1>5, <1>7
  <2>2. Spoken(read) = address
    BY <1>7, <2>1
  <2> HIDE DEF Spoken
  <2>3. DecodeAddress(mode, here) = result
    BY <1>2, <1>6, <1>7, <2>1, <2>2
  <2> QED
    BY <2>3 DEF mode, here, in, address, piece
<1>8. CASE mode = 1
  <2>1. read.status = "done" /\ read.value = here - address /\ read.offset = addrAt + Len(piece)
    BY <1>1, <1>3, <1>5, <1>8
  <2>2. Spoken(read) = address
    <3>1. Spoken(read) = here - read.value
      BY <1>8
    <3> HIDE DEF Spoken
    <3> QED
      BY <1>1, <1>2, <2>1, <3>1
  <2> HIDE DEF Spoken
  <2>3. DecodeAddress(mode, here) = result
    BY <1>2, <1>6, <1>8, <2>1, <2>2
  <2> QED
    BY <2>3 DEF mode, here, in, address, piece
<1>9. CASE mode \in 2..(SameStart - 1)
  <2>1. /\ read.status = "done" /\ read.value = address - near
        /\ read.offset = addrAt + Len(piece)
    BY <1>1, <1>3, <1>5, <1>9
  <2>2. Spoken(read) = address
    <3>1. Spoken(read) = near + read.value
      BY <1>9 DEF near
    <3> HIDE DEF Spoken
    <3> QED
      BY <1>1, <1>2, <1>9, <2>1, <3>1
  <2> HIDE DEF Spoken
  <2>3. DecodeAddress(mode, here) = result
    BY <1>2, <1>6, <1>9, <2>1, <2>2
  <2> QED
    BY <2>3 DEF mode, here, in, address, piece
<1>10. CASE mode >= SameStart
  <2>1. Len(piece) = 1 /\ piece[1] = address % Bucket
    BY <1>3, <1>10
  <2>2. addr[addrAt + 1] = address % Bucket /\ addrAt < Len(addr)
    BY <1>2, <1>4, <2>1
  <2>3. ~(mode < SameStart) /\ ~(mode - SameStart >= Same \/ addrAt >= Len(addr))
    BY <1>1, <1>2, <1>10, <2>2
  <2>4. DecodeAddress(mode, here) =
          [ok |-> TRUE, at |-> addrAt + 1,
           address |-> caches.same[(mode - SameStart) * Bucket + addr[addrAt + 1]]]
    BY <2>3 DEF DecodeAddress
  <2>5. caches.same[(mode - SameStart) * Bucket + addr[addrAt + 1]] = address
    BY <1>1, <1>10, <2>2 DEF SameSlot
  <2>6. DecodeAddress(mode, here) = result
    BY <2>1, <2>4, <2>5
  <2> QED
    BY <2>6 DEF mode, here, in, address, piece
<1> QED
  BY <1>2, <1>7, <1>8, <1>9, <1>10

(* A COPY reads its address and copies from there (decoder.py:112-130).    *)
LEMMA CopyDecoded ==
  ASSUME NEW D, NEW F, NEW d, WellWritten(window, data, addr, D, F), HasDone(d, D, F),
         d < Count(window), window.instructions[d + 1].type = COPY, NEW at
  PROVE  CopyHalf(window.instructions[d + 1].size, window.instructions[d + 1].mode, at)
           = Left(d, D, F, at)
<1> DEFINE in == window.instructions[d + 1]
           piece == AddressPiece(window, d + 1)
           here == Len(window.source) + Len(output)
           address == in.address
           bytes == Copied(window.source, output, in.address, in.size)
           read == DecodeAddress(in.mode, here)
<1>1. /\ d + 1 \in 1..Count(window) /\ d \in Nat /\ (d + 1) - 1 = d /\ output \in Seq(Byte)
      /\ Len(output) = in.position
      /\ Outputs(window)[d + 1] = output \o Produced(window, in, output)
      /\ in.size \in Nat \ {0} /\ in.address < here
      /\ in.address \in Nat /\ here \in Nat
  <2>1. Len(output) \in Nat /\ Len(window.source) \in Nat
    BY BeforeHalf, LenProperties
  <2> QED
    BY <2>1, BeforeHalf
<1>2. /\ IsTrace(window) /\ data \in Seq(Byte) /\ addr \in Seq(Byte)
      /\ Laid(data, DataPieces(window), D, Count(window))
      /\ Laid(addr, AddressPieces(window), F, Count(window))
      /\ dataAt = D[d] /\ addrAt = F[d] /\ caches = CachesOf(window, d)
      /\ Count(window) \in Nat /\ d \in 0..(Count(window) - 1)
      /\ Reachable(window, CachesOf(window, (d + 1) - 1), d + 1)
  BY <1>1, Tiled DEF WellWritten, HasDone
<1>3. AddressPieces(window)[d + 1] = piece
  BY <1>1 DEF AddressPieces
<1>4. /\ F[d] \in Nat /\ F[d + 1] = F[d] + Len(piece) /\ F[d + 1] <= Len(addr)
      /\ \A k \in 1..Len(piece) : addr[F[d] + k] = piece[k]
  <2> HIDE DEF piece
  <2> QED
    BY <1>2, <1>3, PieceAt
<1>5. read = [ok |-> TRUE, address |-> address, at |-> F[d + 1]]
  <2>1. /\ addrAt \in Nat /\ addrAt + Len(piece) <= Len(addr)
        /\ \A k \in 1..Len(piece) : addr[addrAt + k] = piece[k]
        /\ caches = CachesOf(window, (d + 1) - 1)
        /\ in.address < Len(window.source) + in.position
        /\ in.type = COPY
    BY <1>1, <1>2, <1>4
  <2>2. DecodeAddress(in.mode, Len(window.source) + in.position) =
          [ok |-> TRUE, address |-> in.address, at |-> addrAt + Len(piece)]
    BY <1>1, <1>2, <2>1, AddressDecoded, Zenon
  <2> QED
    BY <1>1, <1>2, <1>4, <2>2
<1>6. Produced(window, in, output) = bytes
  BY ProducedCases, Zenon
<1>7. D[d + 1] = D[d]
  <2>1. DataPieces(window)[d + 1] = DataPiece(window, d + 1)
    BY <1>1 DEF DataPieces
  <2>2. DataPiece(window, d + 1) = <<>>
    BY DataCases, Zenon
  <2>3. /\ D[d] \in Nat /\ D[d + 1] = D[d] + Len(DataPieces(window)[d + 1])
    BY <1>2, PieceAt
  <2> QED
    BY <2>1, <2>2, <2>3
<1>8. CachesOf(window, d + 1) = Remember(caches, address)
  BY <1>1, <1>2, CachesStep
<1>9. CopyHalf(in.size, in.mode, at) =
        [ok |-> TRUE, dataAt |-> dataAt, instAt |-> at, addrAt |-> F[d + 1],
         caches |-> Remember(caches, address), output |-> output \o bytes]
  <2>1. read.ok = TRUE /\ read.address = address /\ read.at = F[d + 1] /\ ~(read.address >= here)
    <3>1. address < here /\ address \in Nat
      BY <1>1
    <3> HIDE DEF read, here, address
    <3>2. read.ok = TRUE /\ read.address = address /\ read.at = F[d + 1]
      BY <1>5
    <3> QED
      BY <1>1, <3>1, <3>2
  <2>2. CopyHalf(in.size, in.mode, at) =
          [Decoder EXCEPT !.instAt = at, !.addrAt = read.at,
              !.output = @ \o Copied(window.source, output, read.address, in.size),
              !.caches = Remember(@, read.address)]
    <3> HIDE DEF in
    <3> QED
      BY <2>1, Zenon DEF CopyHalf
  <2> HIDE DEF read, here
  <2> QED
    BY <2>1, <2>2, ZenonT(30) DEF Decoder
<1> HIDE DEF bytes, address
<1> QED
  BY <1>1, <1>2, <1>6, <1>7, <1>8, <1>9, Zenon DEF Left

(* Between at and end the bytes s say the size of instruction i, unless    *)
(* the half of an entry that stands for it does.                           *)
Half(w, s, at, end, type, size, mode, i) ==
  LET in == w.instructions[i]
  IN  /\ i \in 1..Count(w)
      /\ at \in 0..Len(s) /\ end \in at..Len(s)
      /\ type = in.type /\ mode = in.mode /\ size \in {0, in.size}
      /\ size # 0 => end = at
      /\ size = 0 => /\ end = at + VarintSize(in.size)
                     /\ \A k \in 1..VarintSize(in.size) : s[at + k] = EncodeVarint(in.size)[k]

(* Sizes can be written.                                                   *)
LEMMA SizeWritten ==
  ASSUME NEW w, IsTrace(w), NEW i \in 1..Count(w)
  PROVE  /\ w.instructions[i].size \in 0..MaxValue
         /\ VarintSize(w.instructions[i].size) \in Nat \ {0}
         /\ EncodeVarint(w.instructions[i].size) \in Seq(Nat)
         /\ Len(EncodeVarint(w.instructions[i].size)) = VarintSize(w.instructions[i].size)
<1> DEFINE n == w.instructions[i].size
           p == w.instructions[i].position
           before == Len(w.source)
           after == Len(w.target)
<1>1. /\ n \in Nat /\ p \in Nat /\ after \in Nat /\ before \in Nat
      /\ MaxValue \in Nat
  BY Tiled, MaxValueType
<1>2. before + after <= MaxValue
  BY DEF IsTrace
<1>3. p + n <= after
  <2>1. i \in 0..Count(w) /\ i # 0
    OBVIOUS
  <2>2. Ending(w, i) <= Len(w.target)
    BY <2>1, EndingWithin
  <2> QED
    BY <2>1, <2>2 DEF Ending
<1> HIDE DEF n, p, before, after
<1>4. n \in 0..MaxValue
  BY <1>1, <1>2, <1>3
<1>5. /\ VarintSize(n) \in Nat \ {0} /\ EncodeVarint(n) \in Seq(Byte)
      /\ Len(EncodeVarint(n)) = VarintSize(n)
  BY <1>4, Written
<1>6. EncodeVarint(n) \in Seq(Nat)
  BY <1>5, MaxValueType
<1> QED
  BY <1>4, <1>5, <1>6 DEF n

(* The size of an instruction is read where it was written.                *)
LEMMA SizeDecoded ==
  ASSUME IsTrace(window), inst \in Seq(Nat), NEW at, NEW end, NEW type, NEW size,
         NEW mode, NEW i, Half(window, inst, at, end, type, size, mode, i)
  PROVE  DecodeSize(size, at) =
           [ok |-> TRUE, size |-> window.instructions[i].size, at |-> end]
<1> DEFINE n == window.instructions[i].size
<1>1. /\ i \in 1..Count(window) /\ at \in 0..Len(inst) /\ end \in at..Len(inst)
      /\ size \in {0, n} /\ (size # 0 => end = at)
      /\ size = 0 => /\ end = at + VarintSize(n)
                     /\ \A k \in 1..VarintSize(n) : inst[at + k] = EncodeVarint(n)[k]
  BY DEF Half
<1>2. n \in 0..MaxValue /\ n \in Nat \ {0} /\ Len(inst) \in Nat
  BY <1>1, SizeWritten, Tiled, LenProperties
<1> HIDE DEF n
<1>3. CASE size # 0
  <2>1. size = n /\ end = at
    BY <1>1, <1>3
  <2> QED
    BY <1>3, <2>1 DEF DecodeSize, n
<1>4. CASE size = 0
  <2>1. at \in Nat /\ at + VarintSize(n) <= Len(inst)
    BY <1>1, <1>2, <1>4
  <2>2. DecodeVarint(inst, at) = [status |-> "done", value |-> n, offset |-> end]
    BY <1>1, <1>2, <1>4, <2>1, WrittenIsRead
  <2> DEFINE read == DecodeVarint(inst, at)
  <2>3. read.status = "done" /\ read.value = n /\ read.offset = end
    <3> HIDE DEF read
    <3>1. read = [status |-> "done", value |-> n, offset |-> end]
      BY <2>2 DEF read
    <3> QED
      BY <3>1
  <2>4. DecodeSize(size, at) =
          IF read.status # "done" \/ read.value = 0 THEN Failed
          ELSE [ok |-> TRUE, size |-> read.value, at |-> read.offset]
    BY <1>4 DEF DecodeSize
  <2> HIDE DEF read
  <2> QED
    BY <1>2, <2>3, <2>4 DEF n
<1> QED
  BY <1>3, <1>4

(* The half of an entry that stands for the next instruction does what     *)
(* the instruction says, and reads its bytes and no others                 *)
(* (decoder.py:90-133).                                                    *)
LEMMA HalfDecoded ==
  ASSUME NEW D, NEW F, NEW d, WellWritten(window, data, addr, D, F), HasDone(d, D, F),
         inst \in Seq(Nat), NEW at, NEW end, NEW type, NEW size, NEW mode,
         Half(window, inst, at, end, type, size, mode, d + 1)
  PROVE  DecodedHalf(type, size, mode, at) = Left(d, D, F, end)
<1> DEFINE in == window.instructions[d + 1]
           read == DecodeSize(size, at)
<1>1. /\ IsTrace(window) /\ d \in 0..Count(window) /\ d + 1 \in 1..Count(window)
      /\ type = in.type /\ mode = in.mode
  BY DEF WellWritten, HasDone, Half
<1>2. Count(window) \in Nat /\ in.type \in {ADD, RUN, COPY}
  BY <1>1, Tiled
<1>3. d < Count(window)
  BY <1>1, <1>2
<1>4. read.ok /\ read.size = in.size /\ read.at = end
  <2>1. read = [ok |-> TRUE, size |-> in.size, at |-> end]
    BY <1>1, SizeDecoded
  <2> HIDE DEF read, in
  <2> QED
    BY <2>1
<1>5. type # NOOP /\ ADD # RUN /\ ADD # COPY /\ RUN # COPY
  BY <1>1, <1>2 DEF NOOP, ADD, RUN, COPY
<1>6. /\ type = ADD => DecodedHalf(type, size, mode, at) = AddHalf(read.size, read.at)
      /\ type = RUN => DecodedHalf(type, size, mode, at) = RunHalf(read.size, read.at)
      /\ type = COPY => DecodedHalf(type, size, mode, at) = CopyHalf(read.size, mode, read.at)
  <2> HIDE DEF in
  <2>1. type = ADD => DecodedHalf(type, size, mode, at) = AddHalf(read.size, read.at)
    BY <1>4, <1>5, Zenon DEF DecodedHalf
  <2>2. type = RUN => DecodedHalf(type, size, mode, at) = RunHalf(read.size, read.at)
    BY <1>4, <1>5, Zenon DEF DecodedHalf
  <2>3. type = COPY => DecodedHalf(type, size, mode, at) = CopyHalf(read.size, mode, read.at)
    BY <1>4, <1>5, Zenon DEF DecodedHalf
  <2> QED
    BY <2>1, <2>2, <2>3
<1>7. CASE type = ADD
  <2>1. AddHalf(in.size, end) = Left(d, D, F, end)
    <3>1. window.instructions[d + 1].type = ADD
      BY <1>1, <1>7
    <3> QED
      BY <1>3, <3>1, AddDecoded, ZenonT(30)
  <2> HIDE DEF read, in
  <2> QED
    BY <1>4, <1>6, <1>7, <2>1
<1>8. CASE type = RUN
  <2>1. RunHalf(in.size, end) = Left(d, D, F, end)
    <3>1. window.instructions[d + 1].type = RUN
      BY <1>1, <1>8
    <3> QED
      BY <1>3, <3>1, RunDecoded, ZenonT(30)
  <2> HIDE DEF read, in
  <2> QED
    BY <1>4, <1>6, <1>8, <2>1
<1>9. CASE type = COPY
  <2>1. CopyHalf(in.size, in.mode, end) = Left(d, D, F, end)
    <3>1. window.instructions[d + 1].type = COPY
      BY <1>1, <1>9
    <3> QED
      BY <1>3, <3>1, CopyDecoded, ZenonT(30)
  <2>2. mode = in.mode
    BY <1>1
  <2> HIDE DEF read, in
  <2> QED
    BY <1>4, <1>6, <1>9, <2>1, <2>2
<1> QED
  BY <1>1, <1>2, <1>7, <1>8, <1>9

-----------------------------------------------------------------------------
(* The instruction section.                                                *)

(* At `at`, behind i instructions, an entry of t begins that stands for    *)
(* the next ones; behind its bytes, at `end`, j instructions are done.     *)
Token(w, t, s, at, i, end, j) ==
  /\ at \in 0..(Len(s) - 1) /\ i \in Nat /\ s[at + 1] \in DOMAIN t
  /\ LET entry == t[s[at + 1]]
     IN  \E mid \in Nat :
           /\ Half(w, s, at + 1, mid, entry.inst1, entry.size1, entry.mode1, i + 1)
           /\ IF entry.inst2 = NOOP THEN end = mid /\ j = i + 1
              ELSE /\ Half(w, s, mid, end, entry.inst2, entry.size2, entry.mode2, i + 2)
                   /\ j = i + 2

(* The bytes s are a tiling of the first n instructions by entries of t    *)
(* whose boundaries, in the bytes and in the instructions, are B.          *)
Tiling(w, t, s, B, n) ==
  /\ B \subseteq (0..Len(s)) \X (0..n)
  /\ <<0, 0>> \in B
  /\ \A p \in B : \/ p = <<Len(s), n>>
                  \/ \E q \in B : Token(w, t, s, p[1], p[2], q[1], q[2])

(* What is appended to the section changes no half before it.              *)
LEMMA HalfKept ==
  ASSUME NEW w, NEW s \in Seq(Nat), NEW more \in Seq(Nat), NEW at, NEW end, NEW type,
         NEW size, NEW mode, NEW i, IsTrace(w), Half(w, s, at, end, type, size, mode, i)
  PROVE  Half(w, s \o more, at, end, type, size, mode, i)
<1> DEFINE in == w.instructions[i]
           all == s \o more
<1>1. /\ i \in 1..Count(w) /\ at \in 0..Len(s) /\ end \in at..Len(s)
      /\ type = in.type /\ mode = in.mode /\ size \in {0, in.size}
      /\ size # 0 => end = at
      /\ size = 0 => /\ end = at + VarintSize(in.size)
                     /\ \A k \in 1..VarintSize(in.size) : s[at + k] = EncodeVarint(in.size)[k]
  BY DEF Half
<1>2. VarintSize(in.size) \in Nat
  BY <1>1, SizeWritten
<1> HIDE DEF in
<1>3. /\ Len(s) \in Nat /\ Len(more) \in Nat /\ Len(all) = Len(s) + Len(more)
      /\ \A k \in 1..Len(s) : all[k] = s[k]
  <2>1. /\ Len(s) \in Nat /\ Len(more) \in Nat /\ Len(all) = Len(s) + Len(more)
        /\ \A k \in 1..(Len(s) + Len(more)) :
             all[k] = IF k <= Len(s) THEN s[k] ELSE more[k - Len(s)]
    BY ConcatProperties, LenProperties
  <2> HIDE DEF all
  <2> QED
    BY <2>1
<1> HIDE DEF all
<1>4. at \in 0..Len(all) /\ end \in at..Len(all)
  BY <1>1, <1>3
<1>5. ASSUME size = 0, NEW k \in 1..VarintSize(in.size)
      PROVE  all[at + k] = EncodeVarint(in.size)[k]
  <2>1. at + k \in 1..Len(s)
    BY <1>1, <1>2, <1>3, <1>5, SMTT(30)
  <2> QED
    BY <1>1, <1>3, <1>5, <2>1
<1> QED
  BY <1>1, <1>4, <1>5 DEF Half, in, all

(* Nor does it change an entry before it.                                  *)
LEMMA TokenKept ==
  ASSUME NEW w, NEW t, NEW s \in Seq(Nat), NEW more \in Seq(Nat), NEW at, NEW i, NEW end,
         NEW j, IsTrace(w), Token(w, t, s, at, i, end, j)
  PROVE  Token(w, t, s \o more, at, i, end, j)
<1> DEFINE entry == t[s[at + 1]]
           all == s \o more
<1>1. at \in 0..(Len(s) - 1) /\ i \in Nat /\ s[at + 1] \in DOMAIN t
  BY DEF Token
<1>2. /\ Len(s) \in Nat /\ Len(more) \in Nat /\ Len(all) = Len(s) + Len(more)
      /\ \A k \in 1..Len(s) : all[k] = s[k]
  <2>1. /\ Len(s) \in Nat /\ Len(more) \in Nat /\ Len(all) = Len(s) + Len(more)
        /\ \A k \in 1..(Len(s) + Len(more)) :
             all[k] = IF k <= Len(s) THEN s[k] ELSE more[k - Len(s)]
    BY ConcatProperties, LenProperties
  <2> HIDE DEF all
  <2> QED
    BY <2>1
<1>3. PICK mid \in Nat :
        /\ Half(w, s, at + 1, mid, entry.inst1, entry.size1, entry.mode1, i + 1)
        /\ IF entry.inst2 = NOOP THEN end = mid /\ j = i + 1
           ELSE /\ Half(w, s, mid, end, entry.inst2, entry.size2, entry.mode2, i + 2)
                /\ j = i + 2
  BY DEF Token
<1>4. /\ Half(w, all, at + 1, mid, entry.inst1, entry.size1, entry.mode1, i + 1)
      /\ IF entry.inst2 = NOOP THEN end = mid /\ j = i + 1
         ELSE /\ Half(w, all, mid, end, entry.inst2, entry.size2, entry.mode2, i + 2)
              /\ j = i + 2
  <2> HIDE DEF entry
  <2> QED
    BY <1>3, HalfKept
<1> HIDE DEF all
<1>5. at \in 0..(Len(all) - 1) /\ all[at + 1] = s[at + 1]
  BY <1>1, <1>2
<1> QED
  BY <1>1, <1>4, <1>5 DEF Token, entry, all

(* Where the elements of two sequences stand when they are joined.         *)
LEMMA Concatenated ==
  ASSUME NEW S, NEW x \in Seq(S), NEW y \in Seq(S)
  PROVE  /\ x \o y \in Seq(S) /\ Len(x) \in Nat /\ Len(y) \in Nat
         /\ Len(x \o y) = Len(x) + Len(y)
         /\ \A k \in 1..Len(x) : (x \o y)[k] = x[k]
         /\ \A k \in 1..Len(y) : (x \o y)[Len(x) + k] = y[k]
<1> DEFINE all == x \o y
           m == Len(x)
           n == Len(y)
<1>1. /\ all \in Seq(S) /\ m \in Nat /\ n \in Nat /\ Len(all) = m + n
      /\ \A k \in 1..(m + n) : all[k] = IF k <= m THEN x[k] ELSE y[k - m]
  BY ConcatProperties, LenProperties
<1> HIDE DEF all, m, n
<1>2. \A k \in 1..m : all[k] = x[k]
  BY <1>1
<1>3. ASSUME NEW k \in 1..n PROVE all[m + k] = y[k]
  <2>1. m + k \in 1..(m + n) /\ ~(m + k <= m) /\ (m + k) - m = k
    BY <1>1
  <2> QED
    BY <1>1, <2>1
<1> QED
  BY <1>1, <1>2, <1>3 DEF all, m, n

(* An opcode and two stretches of bytes behind a section.                  *)
Behind(s, op, x, y, total) ==
  /\ total \in Seq(Nat)
  /\ Len(s) \in Nat /\ Len(x) \in Nat /\ Len(y) \in Nat
  /\ Len(total) = (Len(s) + 1) + Len(x) + Len(y)
  /\ total[Len(s) + 1] = op
  /\ \A k \in 1..Len(x) : total[(Len(s) + 1) + k] = x[k]
  /\ \A k \in 1..Len(y) : total[(Len(s) + 1) + Len(x) + k] = y[k]

(* Where the bytes of two sequences are, end to end.                       *)
LEMMA Joined ==
  ASSUME NEW s \in Seq(Nat), NEW op \in Nat, NEW x \in Seq(Nat), NEW y \in Seq(Nat),
         NEW joined, joined = <<op>> \o x \o y
  PROVE  joined \in Seq(Nat) /\ Behind(s, op, x, y, s \o joined)
<1> DEFINE one == <<op>>
           head == one \o x
           more == head \o y
           all == s \o more
           l == Len(s)
           m == Len(x)
           n == Len(y)
<1>1. one \in Seq(Nat) /\ Len(one) = 1 /\ one[1] = op
  OBVIOUS
<1> HIDE DEF one
<1>2. /\ head \in Seq(Nat) /\ Len(head) = 1 + m /\ m \in Nat
      /\ \A k \in 1..1 : head[k] = one[k]
      /\ \A k \in 1..m : head[1 + k] = x[k]
  <2>1. head \in Seq(Nat) /\ Len(head) = Len(one) + m /\ m \in Nat
    BY <1>1, Concatenated
  <2>2. \A k \in 1..Len(one) : head[k] = one[k]
    BY <1>1, Concatenated
  <2>3. ASSUME NEW k \in 1..m PROVE head[Len(one) + k] = x[k]
    <3>1. one \in Seq(Nat)
      BY <1>1
    <3> QED
      BY <3>1, Concatenated
  <2> HIDE DEF head, m
  <2> QED
    BY <1>1, <2>1, <2>2, <2>3
<1> HIDE DEF head
<1>3. /\ more \in Seq(Nat) /\ Len(more) = Len(head) + n /\ n \in Nat
      /\ \A k \in 1..Len(head) : more[k] = head[k]
      /\ \A k \in 1..n : more[Len(head) + k] = y[k]
  <2>1. more \in Seq(Nat) /\ Len(more) = Len(head) + n /\ n \in Nat
    BY <1>2, Concatenated
  <2>2. \A k \in 1..Len(head) : more[k] = head[k]
    BY <1>2, Concatenated
  <2>3. ASSUME NEW k \in 1..n PROVE more[Len(head) + k] = y[k]
    <3>1. head \in Seq(Nat)
      BY <1>2
    <3> QED
      BY <3>1, Concatenated
  <2> QED
    BY <2>1, <2>2, <2>3
<1> HIDE DEF more
<1>4. /\ all \in Seq(Nat) /\ Len(all) = l + Len(more) /\ l \in Nat
      /\ \A k \in 1..Len(more) : all[l + k] = more[k]
  <2>1. all \in Seq(Nat) /\ Len(all) = l + Len(more) /\ l \in Nat
    BY <1>3, Concatenated
  <2>2. \A k \in 1..Len(more) : all[l + k] = more[k]
    BY <1>3, Concatenated
  <2> QED
    BY <2>1, <2>2
<1> HIDE DEF all, l, m, n
<1>5. Len(more) = 1 + m + n /\ Len(all) = (l + 1) + m + n
  BY <1>2, <1>3, <1>4
<1>6. all[l + 1] = op
  <2>1. 1 \in 1..Len(head) /\ 1 \in 1..Len(more) /\ 1 \in 1..1
    BY <1>2, <1>3, <1>5
  <2> QED
    BY <1>1, <1>2, <1>3, <1>4, <2>1
<1>7. ASSUME NEW k \in 1..m PROVE all[(l + 1) + k] = x[k]
  <2>1. 1 + k \in 1..Len(head) /\ 1 + k \in 1..Len(more) /\ l + (1 + k) = (l + 1) + k
    BY <1>2, <1>3, <1>4, <1>5
  <2>2. all[l + (1 + k)] = more[1 + k] /\ more[1 + k] = head[1 + k] /\ head[1 + k] = x[k]
    BY <1>2, <1>3, <1>4, <2>1
  <2> QED
    BY <2>1, <2>2
<1>8. ASSUME NEW k \in 1..n PROVE all[(l + 1) + m + k] = y[k]
  <2>1. /\ Len(head) + k \in 1..Len(more)
        /\ l + (Len(head) + k) = (l + 1) + m + k
    <3> DEFINE h == Len(head)
               t == Len(more)
    <3>1. h = 1 + m /\ t = 1 + m + n /\ l \in Nat /\ m \in Nat /\ n \in Nat
      BY <1>2, <1>3, <1>4, <1>5
    <3> HIDE DEF h, t
    <3>2. h + k \in 1..t /\ l + (h + k) = (l + 1) + m + k
      BY <3>1
    <3> QED
      BY <3>2 DEF h, t
  <2>2. all[l + (Len(head) + k)] = more[Len(head) + k] /\ more[Len(head) + k] = y[k]
    BY <1>3, <1>4, <2>1
  <2> QED
    BY <2>1, <2>2
<1>9. joined = more
  BY DEF one, head, more
<1>10. Behind(s, op, x, y, all)
  BY <1>2, <1>3, <1>4, <1>5, <1>6, <1>7, <1>8 DEF Behind, m, n, l
<1> QED
  BY <1>3, <1>9, <1>10 DEF all

AtomIn(w, i) == [type |-> w.instructions[i].type, size |-> w.instructions[i].size,
                 mode |-> w.instructions[i].mode]

(* The bytes a size takes, or none where the entry says it.                *)
SizeBytes(size, n) == IF size = 0 THEN EncodeVarint(n) ELSE <<>>

(* One half of an entry, written where it is to stand.                     *)
LEMMA HalfWritten ==
  ASSUME NEW w, IsTrace(w), NEW i \in 1..Count(w), NEW s \in Seq(Nat), NEW at \in Nat,
         NEW type, NEW size, NEW mode, HalfMatches(type, size, mode, AtomIn(w, i)),
         at + Len(SizeBytes(size, w.instructions[i].size)) <= Len(s),
         \A k \in 1..Len(SizeBytes(size, w.instructions[i].size)) :
           s[at + k] = SizeBytes(size, w.instructions[i].size)[k]
  PROVE  Half(w, s, at, at + Len(SizeBytes(size, w.instructions[i].size)), type, size, mode, i)
<1> DEFINE n == w.instructions[i].size
           bytes == SizeBytes(size, n)
           in == w.instructions[i]
<1>1. type = in.type /\ mode = in.mode /\ size \in {0, n}
  BY DEF HalfMatches, AtomIn
<1>2. EncodeVarint(n) \in Seq(Nat) /\ Len(EncodeVarint(n)) = VarintSize(n) /\ VarintSize(n) \in Nat
  BY SizeWritten
<1>3. /\ size # 0 => Len(bytes) = 0
      /\ size = 0 => bytes = EncodeVarint(n) /\ Len(bytes) = VarintSize(n)
  BY <1>2 DEF SizeBytes
<1>4. at + Len(bytes) <= Len(s) /\ \A k \in 1..Len(bytes) : s[at + k] = bytes[k]
  OBVIOUS
<1>5. Len(s) \in Nat /\ Len(bytes) \in Nat
  BY <1>2, <1>3, LenProperties
<1> HIDE DEF bytes, n, in
<1>6. at \in 0..Len(s) /\ at + Len(bytes) \in at..Len(s)
  BY <1>4, <1>5
<1>7. size # 0 => at + Len(bytes) = at
  BY <1>3
<1>8. size = 0 => /\ at + Len(bytes) = at + VarintSize(n)
                  /\ \A k \in 1..VarintSize(n) : s[at + k] = EncodeVarint(n)[k]
  BY <1>3, <1>4
<1> QED
  BY <1>1, <1>6, <1>7, <1>8 DEF Half, bytes, n, in

(* The atoms are those of the next instructions behind i.                  *)
AtomsBehind(w, i, width, atoms) ==
  /\ Len(atoms) = width /\ atoms[1] = AtomIn(w, i + 1)
  /\ width = 2 => atoms[2] = AtomIn(w, i + 2)

EmissionToken(w, t, s, i, width, bytes, total) ==
  /\ bytes \in Seq(Nat) /\ total \in Seq(Nat)
  /\ Len(s) \in Nat /\ Len(total) \in Nat
  /\ Token(w, t, total, Len(s), i, Len(total), i + width)

(* Behind i instructions, the bytes of an entry that matches the next are  *)
(* a token (parser.py:112-142).                                            *)
LEMMA EmissionIsToken ==
  ASSUME NEW w, IsTrace(w), NEW t, DOMAIN t \subseteq Nat, NEW s \in Seq(Nat),
         NEW i \in Nat, NEW width \in {1, 2}, i + width <= Count(w), NEW op \in DOMAIN t,
         NEW atoms, AtomsBehind(w, i, width, atoms),
         EntryMatches(t[op], atoms), NEW bytes, bytes = Emission(op, t[op], atoms),
         NEW total, total = s \o bytes
  PROVE  EmissionToken(w, t, s, i, width, bytes, total)
<1> DEFINE entry == t[op]
           more == Emission(op, entry, atoms)
           all == s \o more
           n == Len(s) + 1
           first == SizeBytes(entry.size1, w.instructions[i + 1].size)
           second == IF width = 2 THEN SizeBytes(entry.size2, w.instructions[i + 2].size)
                     ELSE <<>>
<1>1. /\ i + 1 \in 1..Count(w) /\ (width = 2 => i + 2 \in 1..Count(w)) /\ op \in Nat
      /\ Count(w) \in Nat
  BY Tiled
<1>2. /\ atoms[1] = AtomIn(w, i + 1) /\ Len(atoms) = width
      /\ width = 2 => atoms[2] = AtomIn(w, i + 2)
  BY DEF AtomsBehind
<1>3. /\ width = Width(entry)
      /\ HalfMatches(entry.inst1, entry.size1, entry.mode1, AtomIn(w, i + 1))
      /\ width = 2 => HalfMatches(entry.inst2, entry.size2, entry.mode2, AtomIn(w, i + 2))
  BY <1>2 DEF EntryMatches
<1>4. entry.inst2 = NOOP <=> width = 1
  BY <1>3 DEF Width
<1>5. atoms[1].size = w.instructions[i + 1].size
      /\ (width = 2 => atoms[2].size = w.instructions[i + 2].size)
  BY <1>2 DEF AtomIn
<1>6. more = <<op>> \o first \o second
  <2>1. first = IF entry.size1 = 0 THEN EncodeVarint(atoms[1].size) ELSE <<>>
    BY <1>5 DEF SizeBytes
  <2>2. second = IF entry.inst2 # NOOP /\ entry.size2 = 0
                 THEN EncodeVarint(atoms[2].size) ELSE <<>>
    BY <1>4, <1>5 DEF SizeBytes
  <2> HIDE DEF first, second, entry
  <2> QED
    BY <2>1, <2>2 DEF Emission
<1>7. first \in Seq(Nat) /\ second \in Seq(Nat)
  <2>1. <<>> \in Seq(Nat)
    BY EmptySeq
  <2>2. EncodeVarint(w.instructions[i + 1].size) \in Seq(Nat)
    BY <1>1, SizeWritten
  <2>3. width = 2 => EncodeVarint(w.instructions[i + 2].size) \in Seq(Nat)
    BY <1>1, SizeWritten
  <2> QED
    BY <2>1, <2>2, <2>3 DEF SizeBytes
<1> HIDE DEF more, first, second
<1>8. /\ more \in Seq(Nat) /\ all \in Seq(Nat)
      /\ Len(s) \in Nat /\ Len(first) \in Nat /\ Len(second) \in Nat
      /\ Len(all) = n + Len(first) + Len(second) /\ all[n] = op
      /\ \A k \in 1..Len(first) : all[n + k] = first[k]
      /\ \A k \in 1..Len(second) : all[n + Len(first) + k] = second[k]
  <2>1. op \in Nat
    BY <1>1
  <2>2. more = <<op>> \o first \o second
    BY <1>6
  <2>4. first \in Seq(Nat)
    BY <1>7
  <2>5. second \in Seq(Nat)
    BY <1>7
  <2>6. more \in Seq(Nat)
    BY <2>1, <2>2, <2>4, <2>5, Joined
  <2>7. Behind(s, op, first, second, s \o more)
    BY <2>1, <2>2, <2>4, <2>5, Joined
  <2>8. Behind(s, op, first, second, all)
    BY <2>7
  <2> HIDE DEF all
  <2> QED
    BY <2>6, <2>8 DEF Behind
<1> HIDE DEF all
<1> DEFINE a == Len(first)
           b == Len(second)
           l == Len(s)
           mid == n + a
<1>9. /\ mid \in Nat /\ n \in Nat /\ n = l + 1 /\ l \in Nat /\ a \in Nat /\ b \in Nat
      /\ Len(all) = mid + b /\ mid <= Len(all) /\ l \in 0..(Len(all) - 1) /\ Len(all) \in Nat
  <2>1. Len(all) = n + a + b
    BY <1>8
  <2>2. l \in Nat /\ a \in Nat /\ b \in Nat
    BY <1>8
  <2> DEFINE m == Len(all)
  <2> HIDE DEF a, b, l, m
  <2>3. m = n + a + b /\ n = l + 1
    BY <2>1 DEF m, l
  <2>4. mid \in Nat /\ n \in Nat /\ m = mid + b /\ mid <= m /\ l \in 0..(m - 1) /\ m \in Nat
    BY <2>2, <2>3
  <2> QED
    BY <2>2, <2>3, <2>4 DEF m
<1>10. Half(w, all, n, mid, entry.inst1, entry.size1, entry.mode1, i + 1)
  <2>1. n + Len(first) <= Len(all) /\ \A k \in 1..Len(first) : all[n + k] = first[k]
    BY <1>8, <1>9
  <2> HIDE DEF n, entry
  <2>2. Half(w, all, n, n + Len(first), entry.inst1, entry.size1, entry.mode1, i + 1)
    BY <1>1, <1>3, <1>8, <1>9, <2>1, HalfWritten DEF first
  <2> QED
    BY <2>2
<1>11. CASE width = 1
  <2>1. second = <<>> /\ entry.inst2 = NOOP
    BY <1>4, <1>11 DEF second
  <2>2. b = 0
    BY <2>1
  <2>3. Len(all) = mid
    BY <1>9, <2>2
  <2> HIDE DEF mid, entry
  <2>4. Token(w, t, all, Len(s), i, Len(all), i + width)
    BY <1>8, <1>9, <1>10, <1>11, <2>1, <2>3 DEF Token, entry
  <2> QED
    BY <1>8, <1>9, <2>4 DEF all, more, entry, EmissionToken
<1>12. CASE width = 2
  <2>1. second = SizeBytes(entry.size2, w.instructions[i + 2].size) /\ entry.inst2 # NOOP
    BY <1>4, <1>12 DEF second
  <2>2. mid + Len(second) <= Len(all) /\ \A k \in 1..Len(second) : all[mid + k] = second[k]
    BY <1>8, <1>9
  <2>3. HalfMatches(entry.inst2, entry.size2, entry.mode2, AtomIn(w, i + 2)) /\ i + 2 \in 1..Count(w)
    BY <1>1, <1>3, <1>12
  <2> HIDE DEF mid, entry
  <2>4. Half(w, all, mid, mid + Len(second), entry.inst2, entry.size2, entry.mode2, i + 2)
    BY <1>8, <1>9, <2>1, <2>2, <2>3, HalfWritten
  <2>5. Half(w, all, mid, Len(all), entry.inst2, entry.size2, entry.mode2, i + 2)
    BY <1>9, <2>4
  <2>6. Token(w, t, all, Len(s), i, Len(all), i + width)
    BY <1>8, <1>9, <1>10, <1>12, <2>1, <2>5 DEF Token, entry
  <2> QED
    BY <1>8, <1>9, <2>6 DEF all, more, entry, EmissionToken
<1> QED
  BY <1>11, <1>12

(* One more entry behind the others: the step of the encoder.              *)
LEMMA TilingMore ==
  ASSUME NEW w, IsTrace(w), NEW t, DOMAIN t \subseteq Nat, NEW s \in Seq(Nat),
         NEW i \in Nat, NEW width \in {1, 2}, i + width <= Count(w), NEW op \in DOMAIN t,
         NEW atoms, AtomsBehind(w, i, width, atoms),
         EntryMatches(t[op], atoms), NEW B, Tiling(w, t, s, B, i)
  PROVE  LET all == s \o Emission(op, t[op], atoms)
         IN  /\ all \in Seq(Nat)
             /\ \E C : Tiling(w, t, all, C, i + width)
<1> DEFINE more == Emission(op, t[op], atoms)
           all == s \o more
           C == B \cup {<<Len(all), i + width>>}
<1>1. /\ more \in Seq(Nat) /\ all \in Seq(Nat) /\ Len(s) \in Nat /\ Len(all) \in Nat
      /\ Token(w, t, all, Len(s), i, Len(all), i + width)
  <2>1. all = s \o more
    OBVIOUS
  <2> HIDE DEF all
  <2>2. more = Emission(op, t[op], atoms)
    OBVIOUS
  <2> HIDE DEF more
  <2>3. EmissionToken(w, t, s, i, width, more, all)
    BY <2>1, <2>2, EmissionIsToken
  <2> QED
    BY <2>3 DEF EmissionToken
<1> HIDE DEF more
<1>2. Len(s) <= Len(all)
  <2>1. Len(all) = Len(s) + Len(more) /\ Len(more) \in Nat
    BY <1>1, Concatenated
  <2> HIDE DEF all
  <2> QED
    BY <1>1, <2>1
<1>3. ASSUME NEW p \in B, NEW q \in B, Token(w, t, s, p[1], p[2], q[1], q[2])
      PROVE  Token(w, t, all, p[1], p[2], q[1], q[2])
  BY <1>1, <1>3, TokenKept
<1> HIDE DEF all
<1>4. /\ B \subseteq (0..Len(s)) \X (0..i) /\ <<0, 0>> \in B
      /\ \A p \in B : \/ p = <<Len(s), i>>
                      \/ \E q \in B : Token(w, t, s, p[1], p[2], q[1], q[2])
  BY DEF Tiling
<1>5. C \subseteq (0..Len(all)) \X (0..(i + width)) /\ <<0, 0>> \in C
  <2>1. ASSUME NEW p \in B PROVE p \in (0..Len(all)) \X (0..(i + width))
    <3>1. p \in (0..Len(s)) \X (0..i)
      BY <1>4
    <3>2. 0..Len(s) \subseteq 0..Len(all) /\ 0..i \subseteq 0..(i + width)
      BY <1>1, <1>2
    <3> QED
      BY <3>1, <3>2
  <2>2. <<Len(all), i + width>> \in (0..Len(all)) \X (0..(i + width))
    BY <1>1
  <2> QED
    BY <1>4, <2>1, <2>2
<1>6. ASSUME NEW p \in C
      PROVE  \/ p = <<Len(all), i + width>>
             \/ \E q \in C : Token(w, t, all, p[1], p[2], q[1], q[2])
  <2>1. CASE p = <<Len(all), i + width>>
    BY <2>1
  <2>2. CASE p = <<Len(s), i>>
    <3> DEFINE q == <<Len(all), i + width>>
    <3>1. q \in C /\ q[1] = Len(all) /\ q[2] = i + width /\ p[1] = Len(s) /\ p[2] = i
      BY <2>2
    <3> HIDE DEF q, C
    <3>2. Token(w, t, all, p[1], p[2], q[1], q[2])
      BY <1>1, <3>1
    <3> QED
      BY <3>1, <3>2
  <2>3. CASE p \in B /\ p # <<Len(s), i>>
    <3>1. PICK q \in B : Token(w, t, s, p[1], p[2], q[1], q[2])
      BY <1>4, <2>3
    <3>2. Token(w, t, all, p[1], p[2], q[1], q[2]) /\ q \in C
      BY <1>3, <2>3, <3>1
    <3> QED
      BY <3>2
  <2> QED
    BY <2>1, <2>2, <2>3
<1> HIDE DEF C
<1>7. Tiling(w, t, all, C, i + width)
  BY <1>5, <1>6 DEF Tiling
<1> QED
  BY <1>1, <1>7 DEF all, more

(* No instructions take no bytes.                                          *)
LEMMA TilingNothing ==
  ASSUME NEW w, NEW t
  PROVE  Tiling(w, t, <<>>, {<<0, 0>>}, 0)
<1>1. Len(<<>>) = 0
  OBVIOUS
<1>2. {<<0, 0>>} \subseteq (0..0) \X (0..0)
  OBVIOUS
<1> QED
  BY <1>1, <1>2 DEF Tiling

-----------------------------------------------------------------------------
(* The invariant.                                                          *)

(* Every COPY among the first n can be told by its mode.                   *)
ReachableTo(w, n) ==
  \A i \in 1..n :
    w.instructions[i].type = COPY => Reachable(w, CachesOf(w, i - 1), i)

(* The instruction reader stands at a boundary of the tiling, or between   *)
(* the halves of an entry, with d instructions done.                       *)
AtBoundary(B, d) ==
  IF opcode = None THEN <<instAt, d>> \in B
  ELSE /\ opcode \in DOMAIN table
       /\ LET entry == table[opcode]
          IN  IF entry.inst2 = NOOP THEN <<instAt, d>> \in B
              ELSE \E end \in Nat :
                     /\ Half(window, inst, instAt, end,
                             entry.inst2, entry.size2, entry.mode2, d + 1)
                     /\ <<end, d + 1>> \in B

(* The readers are where the encoder put the pieces of instruction d + 1.  *)
InStep(B, D, F, d) ==
  /\ WellWritten(window, data, addr, D, F)
  /\ Tiling(window, table, inst, B, Count(window))
  /\ HasDone(d, D, F)
  /\ AtBoundary(B, d)

AddressesWritten ==
  /\ addr \in Seq(Byte) /\ caches = CachesOf(window, index - 1)
  /\ \E F : Laid(addr, AddressPieces(window), F, index - 1)
  /\ ReachableTo(window, index - 1)

Refused ==
  \/ ~Accepts(window)
  \/ \E i \in 1..Count(window) :
       window.instructions[i].type = COPY /\ ~Reachable(window, CachesOf(window, i - 1), i)

IInv ==
  /\ window \in Windows /\ table \in Tables
  /\ phase \in {"replay", "data", "instructions", "addresses", "decode", "done", "rejected"}
  /\ index \in 1..(Count(window) + 1)
  /\ inst \in Seq(Nat)
  /\ phase \notin {"decode", "done"} =>
       output = <<>> /\ opcode = None /\ dataAt = 0 /\ instAt = 0 /\ addrAt = 0
  /\ phase \in {"replay", "data", "instructions"} => caches = EmptyCaches /\ addr = <<>>
  /\ phase \in {"replay", "data"} => index = 1 /\ inst = <<>>
  /\ phase \notin {"replay", "rejected"} => Accepts(window)
  /\ phase \in {"instructions", "addresses"} => data = FlattenSeq(DataPieces(window))
  /\ phase = "instructions" => \E B : Tiling(window, table, inst, B, index - 1)
  /\ phase = "addresses" => \E B : Tiling(window, table, inst, B, Count(window))
  /\ phase = "addresses" => AddressesWritten
  /\ phase = "decode" => \E B, D, F, d : InStep(B, D, F, d)
  /\ phase = "done" => output = window.target /\ ReachableTo(window, Count(window))
  /\ phase = "rejected" => Refused

(* What the constants give of the window and the table at hand.            *)
LEMMA Given ==
  ASSUME IInv
  PROVE  /\ IsTrace(window) /\ DOMAIN table \subseteq Nat /\ Count(window) \in Nat
<1>1. IsTrace(window) /\ DOMAIN table \subseteq Nat
  BY WindowAssumption DEF WindowAssumption, IInv
<1> QED
  BY <1>1, Tiled

(* The invariant holds at first.                                           *)
LEMMA InitInv ==
  ASSUME Init
  PROVE  IInv
<1>1. window \in Windows /\ table \in Tables
  BY DEF Init
<1>2. IsTrace(window)
  BY <1>1, WindowAssumption DEF WindowAssumption
<1>3. Count(window) \in Nat
  BY <1>2, Tiled
<1>4. 1 \in 1..(Count(window) + 1) /\ <<>> \in Seq(Nat)
  BY <1>3
<1> QED
  BY <1>1, <1>4 DEF Init, IInv

(* replay_window (codec.py:121-163) keeps it.                              *)
LEMMA ReplayInv ==
  ASSUME IInv, Replay
  PROVE  IInv'
<1>1. /\ phase = "replay" /\ phase' = IF Accepts(window) THEN "data" ELSE "rejected"
      /\ UNCHANGED <<window, table, index, data, inst, addr,
                     dataAt, instAt, addrAt, opcode, output, caches>>
  BY DEF Replay, sections, readers
<1>2. CASE Accepts(window)
  BY <1>1, <1>2 DEF IInv
<1>3. CASE ~Accepts(window)
  BY <1>1, <1>3 DEF IInv, Refused
<1> QED
  BY <1>2, <1>3

(* The data section (codec.py:105-118) keeps it.                           *)
LEMMA EncodeDataInv ==
  ASSUME IInv, EncodeData
  PROVE  IInv'
<1>1. /\ phase = "data" /\ phase' = "instructions"
      /\ data' = FlattenSeq(DataPieces(window))
      /\ UNCHANGED <<window, table, index, inst, addr,
                     dataAt, instAt, addrAt, opcode, output, caches>>
  <2>1. data' = FlattenSeq(DataPieces(window))
    BY DEF EncodeData, DataPieces, DataPiece, Count, Instruction
  <2> QED
    BY <2>1 DEF EncodeData, readers
<1>2. index = 1 /\ inst = <<>>
  BY <1>1 DEF IInv
<1>3. Tiling(window, table, inst, {<<0, 0>>}, index - 1)
  <2>1. index - 1 = 0
    BY <1>2
  <2> QED
    BY <1>2, <2>1, TilingNothing
<1>4. (\E B : Tiling(window, table, inst, B, index - 1))'
  BY <1>1, <1>3
<1> QED
  BY <1>1, <1>4 DEF IInv

(* An entry's opcode and sizes keep it.                                    *)
LEMMA EncodeTokenInv ==
  ASSUME IInv, EncodeToken
  PROVE  IInv'
<1>1. /\ phase = "instructions" /\ index \in Nat \ {0} /\ Count(window) \in Nat
      /\ inst \in Seq(Nat) /\ IsTrace(window) /\ DOMAIN table \subseteq Nat
      /\ UNCHANGED <<window, table, phase, data, addr,
                     dataAt, instAt, addrAt, opcode, output, caches>>
  BY Given DEF EncodeToken, readers, IInv
<1>2. PICK width \in {1, 2}, op \in DOMAIN table :
        LET atoms == [k \in 1..width |-> AtomOf(index + k - 1)]
        IN  /\ index + width - 1 <= Count(window)
            /\ EntryMatches(table[op], atoms)
            /\ inst' = inst \o Emission(op, table[op], atoms)
            /\ index' = index + width
  BY DEF EncodeToken, Count
<1> DEFINE atoms == [k \in 1..width |-> AtomOf(index + k - 1)]
           i == index - 1
<1>3. i \in Nat /\ i + width <= Count(window) /\ index' - 1 = i + width
      /\ index' \in 1..(Count(window) + 1)
  BY <1>1, <1>2
<1>4. AtomsBehind(window, i, width, atoms)
  <2>1. Len(atoms) = width
    OBVIOUS
  <2>2. atoms[1] = AtomIn(window, i + 1)
    <3>1. 1 \in 1..width /\ index + 1 - 1 = i + 1
      BY <1>1
    <3>2. atoms[1] = AtomOf(i + 1)
      BY <3>1
    <3> QED
      BY <3>2 DEF AtomOf, AtomIn, Instruction
  <2>3. width = 2 => atoms[2] = AtomIn(window, i + 2)
    <3>1. width = 2 => 2 \in 1..width /\ index + 2 - 1 = i + 2
      BY <1>1
    <3>2. width = 2 => atoms[2] = AtomOf(i + 2)
      BY <3>1
    <3> QED
      BY <3>2 DEF AtomOf, AtomIn, Instruction
  <2> HIDE DEF atoms, i
  <2> QED
    BY <2>1, <2>2, <2>3 DEF AtomsBehind
<1>5. PICK B : Tiling(window, table, inst, B, i)
  BY <1>1 DEF IInv
<1>6. EntryMatches(table[op], atoms) /\ inst' = inst \o Emission(op, table[op], atoms)
  BY <1>2
<1> HIDE DEF atoms, i
<1>7. /\ inst' \in Seq(Nat) /\ \E C : Tiling(window, table, inst', C, i + width)
  BY <1>1, <1>3, <1>4, <1>5, <1>6, TilingMore
<1>8. (\E C : Tiling(window, table, inst, C, index - 1))'
  BY <1>1, <1>3, <1>7
<1> QED
  BY <1>1, <1>3, <1>7, <1>8 DEF IInv

(* The end of the instruction section keeps it.                            *)
LEMMA TokensCompleteInv ==
  ASSUME IInv, TokensComplete
  PROVE  IInv'
<1>1. /\ phase = "instructions" /\ phase' = "addresses" /\ index > Count(window) /\ index' = 1
      /\ index \in 1..(Count(window) + 1) /\ Count(window) \in Nat
      /\ caches = EmptyCaches /\ addr = <<>>
      /\ UNCHANGED <<window, table, data, inst, addr,
                     dataAt, instAt, addrAt, opcode, output, caches>>
  BY Given DEF TokensComplete, sections, readers, IInv, Count
<1>2. index - 1 = Count(window) /\ index' \in 1..(Count(window) + 1) /\ index' - 1 = 0
  BY <1>1
<1>3. (\E B : Tiling(window, table, inst, B, Count(window)))'
  <2>1. \E B : Tiling(window, table, inst, B, index - 1)
    BY <1>1 DEF IInv
  <2> QED
    BY <1>1, <1>2, <2>1 DEF Count
<1>4. AddressesWritten'
  <2>1. addr' = <<>> /\ addr' \in Seq(Byte)
    BY <1>1, EmptySeq
  <2>2. caches' = CachesOf(window', index' - 1)
    BY <1>1, <1>2, CachesBefore
  <2>3. \E F : Laid(addr', AddressPieces(window'), F, index' - 1)
    <3>1. \E F : Laid(<<>>, AddressPieces(window'), F, 0)
      BY LaidNothing
    <3> QED
      BY <1>2, <2>1, <3>1
  <2>4. ReachableTo(window', index' - 1)
    <3>1. 1..(index' - 1) = {}
      BY <1>2
    <3> QED
      BY <3>1 DEF ReachableTo
  <2> QED
    BY <2>1, <2>2, <2>3, <2>4 DEF AddressesWritten
<1>5. index' \in (1..(Count(window) + 1))'
  BY <1>1, <1>2 DEF Count
<1> QED
  BY <1>1, <1>3, <1>4, <1>5 DEF IInv

(* A COPY that may be replayed starts below the end of the output.         *)
LEMMA AddressBelow ==
  ASSUME NEW w, IsTrace(w), Accepts(w), NEW i \in 1..Count(w), w.instructions[i].type = COPY
  PROVE  w.instructions[i].address < Len(w.source) + w.instructions[i].position
<1> DEFINE out == Outputs(w)[i - 1]
<1>1. /\ Count(w) \in Nat /\ i - 1 \in 0..Count(w)
      /\ w.instructions[i].position = Ending(w, i - 1)
  BY Tiled
<1>2. out \in Seq(Byte) /\ Len(out) = w.instructions[i].position
  BY <1>1, OutputsGrow
<1>3. Replayable(w, w.instructions[i], out)
  BY DEF Accepts, Count
<1> HIDE DEF out
<1>4. w.instructions[i].address < Len(w.source) + Len(out)
  BY <1>2, <1>3, ProducedBytes
<1> QED
  BY <1>2, <1>4

(* The encoder writes the piece that belongs there.                        *)
LEMMA AddressBytesWritten ==
  ASSUME NEW i, window.instructions[i].type = COPY, window.instructions[i].mode \in Nat,
         caches = CachesOf(window, i - 1)
  PROVE  AddressBytes(Instruction(i)) = AddressPiece(window, i)
<1> DEFINE in == window.instructions[i]
           here == Len(window.source) + in.position
           bytes == AddressBytes(in)
<1>1. bytes = CASE in.mode = 0 -> EncodeVarint(in.address)
                [] in.mode = 1 -> EncodeVarint(here - in.address)
                [] in.mode \in 2..(SameStart - 1) ->
                     EncodeVarint(in.address - caches.near[in.mode - 2])
                [] OTHER -> <<in.address % Bucket>>
  BY DEF AddressBytes
<1>2. /\ in.mode = 0 => AddressPiece(window, i) = EncodeVarint(in.address)
      /\ in.mode = 1 => AddressPiece(window, i) = EncodeVarint(here - in.address)
      /\ in.mode \in 2..(SameStart - 1) =>
           AddressPiece(window, i) = EncodeVarint(in.address - caches.near[in.mode - 2])
      /\ in.mode >= SameStart => AddressPiece(window, i) = <<in.address % Bucket>>
  BY AddressCases
<1>3. in.mode \in Nat /\ SameStart \in Nat /\ SameStart > 1
  BY Sizes
<1>4. Instruction(i) = in
  BY DEF Instruction
<1> HIDE DEF in, here, bytes
<1>5. in.mode = 0 \/ in.mode = 1 \/ in.mode \in 2..(SameStart - 1) \/ in.mode >= SameStart
  BY <1>3
<1>6. CASE in.mode = 0
  <2>1. bytes = EncodeVarint(in.address)
    BY <1>1, <1>3, <1>6
  <2> QED
    BY <1>2, <1>4, <1>6, <2>1 DEF bytes
<1>7. CASE in.mode = 1
  <2>1. bytes = EncodeVarint(here - in.address)
    BY <1>1, <1>3, <1>7
  <2> QED
    BY <1>2, <1>4, <1>7, <2>1 DEF bytes
<1>8. CASE in.mode \in 2..(SameStart - 1)
  <2>1. bytes = EncodeVarint(in.address - caches.near[in.mode - 2])
    BY <1>1, <1>3, <1>8
  <2> QED
    BY <1>2, <1>4, <1>8, <2>1 DEF bytes
<1>9. CASE in.mode >= SameStart
  <2>1. bytes = <<in.address % Bucket>>
    BY <1>1, <1>3, <1>9
  <2> QED
    BY <1>2, <1>4, <1>9, <2>1 DEF bytes
<1> QED
  BY <1>5, <1>6, <1>7, <1>8, <1>9

(* What the encoder tests of a COPY, given the caches.                     *)
LEMMA ExpressibleReachable ==
  ASSUME NEW i, caches = CachesOf(window, i - 1)
  PROVE  Expressible(Instruction(i)) <=>
           /\ window.instructions[i].address
                < Len(window.source) + window.instructions[i].position
           /\ Reachable(window, CachesOf(window, i - 1), i)
BY DEF Expressible, Reachable, Instruction

(* The next piece is there.                                                *)
LEMMA AddressesMore ==
  ASSUME IsTrace(window), Accepts(window), AddressesWritten, index \in 1..Count(window),
         window.instructions[index].type = COPY =>
           Reachable(window, CachesOf(window, index - 1), index)
  PROVE  /\ addr \o AddressPiece(window, index) \in Seq(Byte)
         /\ \E F : Laid(addr \o AddressPiece(window, index), AddressPieces(window), F, index)
         /\ ReachableTo(window, index)
<1> DEFINE n == index - 1
           piece == AddressPieces(window)
<1>1. /\ Count(window) \in Nat /\ n \in Nat /\ n + 1 = index
      /\ addr \in Seq(Byte) /\ ReachableTo(window, n)
  BY Tiled DEF AddressesWritten
<1>2. PICK F : Laid(addr, piece, F, n)
  BY DEF AddressesWritten
<1>3. piece[index] = AddressPiece(window, index)
  BY DEF AddressPieces
<1>4. AddressPiece(window, index) \in Seq(Byte)
  BY AddressBelow, AddressPieceType
<1>5. ReachableTo(window, index)
  <2> SUFFICES ASSUME NEW i \in 1..index, window.instructions[i].type = COPY
               PROVE  Reachable(window, CachesOf(window, i - 1), i)
    BY DEF ReachableTo
  <2>1. i \in 1..n \/ i = index
    BY <1>1
  <2> QED
    BY <1>1, <2>1 DEF ReachableTo
<1> HIDE DEF n, piece
<1>6. /\ addr \o piece[n + 1] \in Seq(Byte)
      /\ \E more : Laid(addr \o piece[n + 1], piece, more, n + 1)
  BY <1>1, <1>2, <1>3, <1>4, LaidMore
<1> QED
  BY <1>1, <1>3, <1>5, <1>6 DEF piece

(* An address, written or refused (codec.py:78-101), keeps it.             *)
LEMMA EncodeAddressInv ==
  ASSUME IInv, EncodeAddress
  PROVE  IInv'
<1> DEFINE in == Instruction(index)
<1>1. /\ phase = "addresses" /\ index \in 1..Count(window) /\ Count(window) \in Nat
      /\ IsTrace(window) /\ Accepts(window) /\ AddressesWritten
      /\ index' = index + 1 /\ in.mode \in Nat
      /\ UNCHANGED <<window, table, data, inst, dataAt, instAt, addrAt, opcode, output>>
  <2>1. /\ phase = "addresses" /\ index <= Count(window) /\ index \in 1..(Count(window) + 1)
        /\ index' = index + 1 /\ Accepts(window) /\ AddressesWritten
        /\ UNCHANGED <<window, table, data, inst, dataAt, instAt, addrAt, opcode, output>>
    BY DEF EncodeAddress, readers, IInv, Count
  <2>2. Count(window) \in Nat /\ IsTrace(window)
    BY Given
  <2>3. index \in 1..Count(window)
    BY <2>1, <2>2
  <2>4. in.mode \in Nat
    BY <2>2, <2>3, Tiled DEF Instruction
  <2> QED
    BY <2>1, <2>2, <2>3, <2>4
<1>2. IF in.type # COPY THEN UNCHANGED <<phase, addr, caches>>
      ELSE IF Expressible(in)
      THEN /\ addr' = addr \o AddressBytes(in) /\ caches' = Remember(caches, in.address)
           /\ UNCHANGED phase
      ELSE phase' = "rejected" /\ UNCHANGED <<addr, caches>>
  BY DEF EncodeAddress
<1>3. caches = CachesOf(window, index - 1) /\ addr \in Seq(Byte)
  BY <1>1 DEF AddressesWritten
<1>4. in = window.instructions[index]
  BY DEF Instruction
<1> HIDE DEF in
<1>5. CASE in.type = COPY /\ ~Expressible(in)
  <2>1. phase' = "rejected"
    BY <1>2, <1>5
  <2>2. ~Reachable(window, CachesOf(window, index - 1), index)
    BY <1>1, <1>3, <1>4, <1>5, AddressBelow, ExpressibleReachable DEF in
  <2>3. Refused'
    <3>1. Refused
      BY <1>1, <1>4, <1>5, <2>2 DEF Refused
    <3> QED
      BY <1>1, <3>1 DEF Refused, Count
  <2>4. (index \in 1..(Count(window) + 1))'
    BY <1>1 DEF Count
  <2>5. (output = <<>> /\ opcode = None /\ dataAt = 0 /\ instAt = 0 /\ addrAt = 0)'
    BY <1>1 DEF IInv
  <2> QED
    BY <1>1, <2>1, <2>3, <2>4, <2>5 DEF IInv
<1>6. CASE in.type # COPY \/ Expressible(in)
  <2>1. phase' = "addresses"
    BY <1>1, <1>2, <1>6
  <2>2. in.type = COPY => Reachable(window, CachesOf(window, index - 1), index)
    BY <1>3, <1>6, ExpressibleReachable DEF in
  <2>3. addr' = addr \o AddressPiece(window, index) /\ caches' = CachesOf(window, index)
    <3>1. CASE in.type # COPY
      <4>1. AddressPiece(window, index) = <<>>
        BY <1>4, <3>1 DEF AddressPiece
      <4>2. addr \o <<>> = addr
        BY <1>3, ConcatEmptySeq
      <4>3. CachesOf(window, index) = CachesOf(window, index - 1)
        BY <1>1, <1>4, <3>1, CachesKept
      <4> QED
        BY <1>2, <1>3, <3>1, <4>1, <4>2, <4>3
    <3>2. CASE in.type = COPY
      <4>1. AddressBytes(in) = AddressPiece(window, index)
        BY <1>1, <1>3, <1>4, <3>2, AddressBytesWritten DEF in
      <4>2. CachesOf(window, index) = Remember(caches, in.address)
        BY <1>1, <1>3, <1>4, <3>2, CachesStep
      <4> QED
        BY <1>2, <1>6, <3>2, <4>1, <4>2
    <3> QED
      BY <3>1, <3>2
  <2>4. /\ addr \o AddressPiece(window, index) \in Seq(Byte)
        /\ \E F : Laid(addr \o AddressPiece(window, index), AddressPieces(window), F, index)
        /\ ReachableTo(window, index)
    BY <1>1, <1>4, <2>2, AddressesMore
  <2>5. index' - 1 = index
    BY <1>1
  <2>6. AddressesWritten'
    BY <1>1, <2>3, <2>4, <2>5 DEF AddressesWritten
  <2>7. (index \in 1..(Count(window) + 1))'
    BY <1>1 DEF Count
  <2>8. (\E B : Tiling(window, table, inst, B, Count(window)))'
    BY <1>1 DEF IInv, Count
  <2>9. (output = <<>> /\ opcode = None /\ dataAt = 0 /\ instAt = 0 /\ addrAt = 0)'
    BY <1>1 DEF IInv
  <2> QED
    BY <1>1, <2>1, <2>6, <2>7, <2>8, <2>9 DEF IInv
<1> QED
  BY <1>5, <1>6

(* The decoder opens the window with empty caches.                         *)
LEMMA OpenWindowInv ==
  ASSUME IInv, OpenWindow
  PROVE  IInv'
<1>1. /\ phase = "addresses" /\ phase' = "decode" /\ caches' = EmptyCaches
      /\ index > Count(window) /\ index \in 1..(Count(window) + 1)
      /\ Accepts(window) /\ AddressesWritten
      /\ data = FlattenSeq(DataPieces(window))
      /\ output = <<>> /\ opcode = None /\ dataAt = 0 /\ instAt = 0 /\ addrAt = 0
      /\ UNCHANGED <<window, table, index, data, inst, addr,
                     dataAt, instAt, addrAt, opcode, output>>
  BY DEF OpenWindow, sections, readers, IInv, Count
<1>2. IsTrace(window) /\ Count(window) \in Nat
  BY Given
<1>3. index - 1 = Count(window)
  BY <1>1, <1>2
<1>4. PICK F : Laid(addr, AddressPieces(window), F, Count(window))
  BY <1>1, <1>3 DEF AddressesWritten
<1>5. data \in Seq(Byte) /\ \E D : Laid(data, DataPieces(window), D, Count(window))
  BY <1>1, <1>2, DataLaid
<1>6. PICK D : Laid(data, DataPieces(window), D, Count(window))
  BY <1>5
<1>7. PICK B : Tiling(window, table, inst, B, Count(window))
  BY <1>1 DEF IInv
<1>8. WellWritten(window, data, addr, D, F)
  <2>1. addr \in Seq(Byte) /\ ReachableTo(window, Count(window))
    BY <1>1, <1>3 DEF AddressesWritten
  <2> QED
    BY <1>1, <1>2, <1>4, <1>5, <1>6, <2>1 DEF WellWritten, ReachableTo
<1>9. InStep(B, D, F, 0)'
  <2>1. HasDone(0, D, F)'
    <3>1. 0 \in 0..Count(window) /\ Outputs(window)[0] = <<>>
      <4>1. Outputs(window)[0] = <<>>
        BY <1>2, OutputsSpelled
      <4>2. 0 \in 0..Count(window)
        BY <1>2
      <4> QED
        BY <4>1, <4>2
    <3>2. CachesOf(window, 0) = EmptyCaches
      BY CachesBefore
    <3>3. D[0] = 0 /\ F[0] = 0
      BY <1>4, <1>6 DEF Laid
    <3> QED
      BY <1>1, <3>1, <3>2, <3>3 DEF HasDone, Count
  <2>2. AtBoundary(B, 0)'
    BY <1>1, <1>7 DEF AtBoundary, Tiling
  <2> QED
    BY <1>1, <1>7, <1>8, <2>1, <2>2 DEF InStep, Count
<1>10. (\E C, E, G, d : InStep(C, E, G, d))'
  BY <1>9
<1>11. (index \in 1..(Count(window) + 1))'
  BY <1>1 DEF Count
<1> QED
  BY <1>1, <1>10, <1>11 DEF IInv

(* What a step of the decoder does: the next instruction, or nothing but   *)
(* to find that an entry has no second half.                               *)
Advance(B, D, F, d) ==
  /\ InStep(B, D, F, d)
  /\ \/ InStep(B, D, F, d + 1)'
     \/ InStep(B, D, F, d)' /\ UNCHANGED output

Decodes ==
  /\ phase = "decode" /\ phase' = "decode"
  /\ UNCHANGED <<window, table, index, data, inst, addr>>
  /\ \E B, D, F, d : Advance(B, D, F, d)

(* The readers after a half that was decoded.                              *)
LEMMA HalfDone ==
  ASSUME NEW D, NEW F, NEW d, WellWritten(window, data, addr, D, F), HasDone(d, D, F),
         inst \in Seq(Nat), NEW at, NEW end, NEW type, NEW size, NEW mode,
         Half(window, inst, at, end, type, size, mode, d + 1), NEW pending,
         DecodeHalf(DecodedHalf(type, size, mode, at), pending)
  PROVE  /\ UNCHANGED <<window, table, phase, index, data, inst, addr>>
         /\ HasDone(d + 1, D, F)'
         /\ instAt' = end /\ opcode' = pending
<1> DEFINE half == DecodedHalf(type, size, mode, at)
<1>1. half = Left(d, D, F, end)
  BY HalfDecoded
<1>2. /\ half.ok /\ half.dataAt = D[d + 1] /\ half.instAt = end /\ half.addrAt = F[d + 1]
      /\ half.caches = CachesOf(window, d + 1) /\ half.output = Outputs(window)[d + 1]
  BY <1>1 DEF Left
<1>3. d + 1 \in 0..Count(window)
  BY Tiled DEF Half, WellWritten
<1>4. DecodeHalf(half, pending)
  OBVIOUS
<1> HIDE DEF half
<1>5. /\ dataAt' = D[d + 1] /\ instAt' = end /\ addrAt' = F[d + 1]
      /\ caches' = CachesOf(window, d + 1) /\ output' = Outputs(window)[d + 1]
      /\ opcode' = pending
      /\ UNCHANGED <<window, table, phase, index, data, inst, addr>>
  BY <1>2, <1>4 DEF DecodeHalf, sections
<1>6. HasDone(d + 1, D, F)'
  BY <1>3, <1>5 DEF HasDone, Count
<1> QED
  BY <1>5, <1>6

(* Opcodes are not None.                                                   *)
LEMMA DecodesFirstHalf ==
  ASSUME IInv, DecodeFirstHalf
  PROVE  Decodes
<1>1. /\ phase = "decode" /\ opcode = None /\ instAt < Len(inst) /\ inst \in Seq(Nat)
      /\ DOMAIN table \subseteq Nat
  BY Given DEF DecodeFirstHalf, IInv
<1>2. PICK B, D, F, d : InStep(B, D, F, d)
  BY <1>1 DEF IInv
<1>3. /\ WellWritten(window, data, addr, D, F) /\ HasDone(d, D, F)
      /\ Tiling(window, table, inst, B, Count(window)) /\ <<instAt, d>> \in B
  BY <1>1, <1>2 DEF InStep, AtBoundary
<1>4. PICK q \in B : Token(window, table, inst, instAt, d, q[1], q[2])
  <2> DEFINE p == <<instAt, d>>
  <2>1. \/ p = <<Len(inst), Count(window)>>
        \/ \E q \in B : Token(window, table, inst, p[1], p[2], q[1], q[2])
    BY <1>3 DEF Tiling
  <2>2. p # <<Len(inst), Count(window)>>
    BY <1>1
  <2> QED
    BY <2>1, <2>2
<1>5. q = <<q[1], q[2]>> /\ q[1] \in Nat
  BY <1>1, <1>3, LenProperties DEF Tiling
<1> DEFINE op == inst[instAt + 1]
           entry == table[op]
<1>6. /\ op \in DOMAIN table /\ op # None /\ d \in Nat
      /\ \E mid \in Nat :
           /\ Half(window, inst, instAt + 1, mid, entry.inst1, entry.size1, entry.mode1, d + 1)
           /\ IF entry.inst2 = NOOP THEN q[1] = mid /\ q[2] = d + 1
              ELSE /\ Half(window, inst, mid, q[1], entry.inst2, entry.size2, entry.mode2, d + 2)
                   /\ q[2] = d + 2
  BY <1>1, <1>4 DEF Token, None
<1>7. PICK mid \in Nat :
        /\ Half(window, inst, instAt + 1, mid, entry.inst1, entry.size1, entry.mode1, d + 1)
        /\ IF entry.inst2 = NOOP THEN q[1] = mid /\ q[2] = d + 1
           ELSE /\ Half(window, inst, mid, q[1], entry.inst2, entry.size2, entry.mode2, d + 2)
                /\ q[2] = d + 2
  BY <1>6
<1>8. DecodeHalf(DecodedHalf(entry.inst1, entry.size1, entry.mode1, instAt + 1), op)
  BY DEF DecodeFirstHalf
<1> HIDE DEF op, entry
<1>9. /\ UNCHANGED <<window, table, phase, index, data, inst, addr>>
      /\ HasDone(d + 1, D, F)' /\ instAt' = mid /\ opcode' = op
  BY <1>1, <1>3, <1>7, <1>8, HalfDone
<1>10. AtBoundary(B, d + 1)'
  <2>1. CASE entry.inst2 = NOOP
    <3>1. <<instAt', d + 1>> \in B
      BY <1>5, <1>7, <1>9, <2>1
    <3> QED
      BY <1>6, <1>9, <2>1, <3>1 DEF AtBoundary, entry
  <2>2. CASE entry.inst2 # NOOP
    <3>1. /\ Half(window, inst, instAt', q[1], entry.inst2, entry.size2, entry.mode2, d + 2)
          /\ <<q[1], d + 2>> \in B /\ (d + 1) + 1 = d + 2
      BY <1>5, <1>6, <1>7, <1>9, <2>2
    <3>2. Half(window', inst', instAt', q[1], entry.inst2, entry.size2, entry.mode2, (d + 1) + 1)
          /\ <<q[1], (d + 1) + 1>> \in B
      BY <1>9, <3>1
    <3>3. opcode' # None /\ opcode' \in DOMAIN table' /\ table'[opcode'] = entry
      BY <1>6, <1>9 DEF entry
    <3> QED
      BY <1>5, <2>2, <3>2, <3>3 DEF AtBoundary
  <2> QED
    BY <2>1, <2>2
<1>11. InStep(B, D, F, d + 1)'
  BY <1>3, <1>9, <1>10 DEF InStep, Count
<1>12. Advance(B, D, F, d)
  BY <1>2, <1>11 DEF Advance
<1> QED
  BY <1>1, <1>9, <1>12 DEF Decodes

(* The second half of an entry may be missing (decoder.py:103-104).        *)
LEMMA DecodesSecondHalf ==
  ASSUME IInv, DecodeSecondHalf
  PROVE  Decodes
<1>1. phase = "decode" /\ opcode # None /\ inst \in Seq(Nat)
  BY DEF DecodeSecondHalf, IInv
<1>2. PICK B, D, F, d : InStep(B, D, F, d)
  BY <1>1 DEF IInv
<1> DEFINE entry == table[opcode]
<1>3. /\ WellWritten(window, data, addr, D, F) /\ HasDone(d, D, F)
      /\ Tiling(window, table, inst, B, Count(window))
      /\ IF entry.inst2 = NOOP THEN <<instAt, d>> \in B
         ELSE \E end \in Nat :
                /\ Half(window, inst, instAt, end, entry.inst2, entry.size2, entry.mode2, d + 1)
                /\ <<end, d + 1>> \in B
  BY <1>1, <1>2 DEF InStep, AtBoundary
<1>4. DecodeHalf(DecodedHalf(entry.inst2, entry.size2, entry.mode2, instAt), None)
  BY DEF DecodeSecondHalf
<1> HIDE DEF entry
<1>5. CASE entry.inst2 = NOOP
  <2> DEFINE half == DecodedHalf(entry.inst2, entry.size2, entry.mode2, instAt)
  <2>1. half = [Decoder EXCEPT !.instAt = instAt]
    BY <1>5, Zenon DEF DecodedHalf
  <2>2. /\ half.ok /\ half.dataAt = dataAt /\ half.instAt = instAt
        /\ half.addrAt = addrAt /\ half.caches = caches /\ half.output = output
    BY <2>1 DEF Decoder
  <2>3. DecodeHalf(half, None)
    BY <1>4
  <2> HIDE DEF half
  <2>4. UNCHANGED <<window, table, phase, index, data, inst, addr, dataAt, instAt, addrAt,
                    caches, output>> /\ opcode' = None
    BY <2>2, <2>3 DEF DecodeHalf, sections
  <2>5. HasDone(d, D, F)'
    BY <1>3, <2>4 DEF HasDone, Count
  <2>6. AtBoundary(B, d)'
    BY <1>3, <1>5, <2>4 DEF AtBoundary
  <2>7. InStep(B, D, F, d)'
    BY <1>3, <2>4, <2>5, <2>6 DEF InStep, Count
  <2>8. Advance(B, D, F, d)
    BY <1>2, <2>4, <2>7 DEF Advance
  <2> QED
    BY <1>1, <2>4, <2>8 DEF Decodes
<1>6. CASE entry.inst2 # NOOP
  <2>1. PICK end \in Nat :
          /\ Half(window, inst, instAt, end, entry.inst2, entry.size2, entry.mode2, d + 1)
          /\ <<end, d + 1>> \in B
    BY <1>3, <1>6
  <2>2. /\ UNCHANGED <<window, table, phase, index, data, inst, addr>>
        /\ HasDone(d + 1, D, F)' /\ instAt' = end /\ opcode' = None
    BY <1>1, <1>3, <1>4, <2>1, HalfDone
  <2>3. AtBoundary(B, d + 1)'
    BY <2>1, <2>2 DEF AtBoundary
  <2>4. InStep(B, D, F, d + 1)'
    BY <1>3, <2>2, <2>3 DEF InStep, Count
  <2>5. Advance(B, D, F, d)
    BY <1>2, <2>4 DEF Advance
  <2> QED
    BY <1>1, <2>2, <2>5 DEF Decodes
<1> QED
  BY <1>5, <1>6

(* Decoding keeps the invariant.                                           *)
LEMMA DecodesInv ==
  ASSUME IInv, Decodes
  PROVE  IInv'
<1>1. /\ phase = "decode" /\ phase' = "decode"
      /\ UNCHANGED <<window, table, index, data, inst, addr>>
      /\ Accepts(window)
  BY DEF Decodes, IInv
<1>2. (\E B, D, F, d : InStep(B, D, F, d))'
  BY DEF Decodes, Advance
<1>3. (index \in 1..(Count(window) + 1))'
  BY <1>1 DEF IInv, Count
<1> QED
  BY <1>1, <1>2, <1>3 DEF IInv

(* Behind the last byte of the instruction section nothing is left over    *)
(* (decoder.py:232-237).                                                   *)
LEMMA CloseWindowInv ==
  ASSUME IInv, CloseWindow
  PROVE  IInv'
<1>1. /\ phase = "decode" /\ opcode = None /\ instAt = Len(inst) /\ inst \in Seq(Nat)
      /\ Accepts(window)
      /\ UNCHANGED <<window, table, index, data, inst, addr, caches,
                     dataAt, instAt, addrAt, opcode, output>>
      /\ phase' = IF /\ Len(output) = Len(window.target)
                     /\ dataAt = Len(data) /\ addrAt = Len(addr)
                  THEN "done" ELSE "failed"
  BY DEF CloseWindow, sections, readers, IInv
<1>2. PICK B, D, F, d : InStep(B, D, F, d)
  BY <1>1 DEF IInv
<1>3. /\ WellWritten(window, data, addr, D, F) /\ HasDone(d, D, F)
      /\ Tiling(window, table, inst, B, Count(window)) /\ <<instAt, d>> \in B
  BY <1>1, <1>2 DEF InStep, AtBoundary
<1>4. d = Count(window)
  <2> DEFINE p == <<instAt, d>>
  <2>1. \/ p = <<Len(inst), Count(window)>>
        \/ \E q \in B : Token(window, table, inst, p[1], p[2], q[1], q[2])
    BY <1>3 DEF Tiling
  <2>2. ASSUME NEW q, Token(window, table, inst, instAt, d, q[1], q[2]) PROVE FALSE
    <3>1. instAt \in 0..(Len(inst) - 1) /\ Len(inst) \in Nat
      BY <1>1, <2>2, LenProperties DEF Token
    <3> QED
      BY <1>1, <3>1
  <2> QED
    BY <2>1, <2>2
<1>5. output = window.target
  <2>1. output = Outputs(window)[Count(window)]
    BY <1>3, <1>4 DEF HasDone
  <2>2. Outputs(window)[Count(window)] = window.target
    BY <1>1 DEF Accepts, Count
  <2> QED
    BY <2>1, <2>2
<1>6. dataAt = Len(data) /\ addrAt = Len(addr)
  BY <1>3, <1>4 DEF HasDone, WellWritten, Laid
<1>7. phase' = "done"
  BY <1>1, <1>5, <1>6
<1>8. ReachableTo(window, Count(window))
  BY <1>3 DEF WellWritten, ReachableTo
<1>9. (output = window.target /\ ReachableTo(window, Count(window)))'
  BY <1>1, <1>5, <1>8 DEF Count
<1>10. (index \in 1..(Count(window) + 1))'
  BY <1>1 DEF IInv, Count
<1> QED
  BY <1>1, <1>7, <1>9, <1>10 DEF IInv

(* No step leaves the invariant.                                           *)
LEMMA StepInv ==
  ASSUME IInv, [Next]_vars
  PROVE  IInv'
<1>1. CASE Replay
  BY <1>1, ReplayInv
<1>2. CASE EncodeData
  BY <1>2, EncodeDataInv
<1>3. CASE EncodeToken
  BY <1>3, EncodeTokenInv
<1>4. CASE TokensComplete
  BY <1>4, TokensCompleteInv
<1>5. CASE EncodeAddress
  BY <1>5, EncodeAddressInv
<1>6. CASE OpenWindow
  BY <1>6, OpenWindowInv
<1>7. CASE DecodeFirstHalf
  BY <1>7, DecodesFirstHalf, DecodesInv
<1>8. CASE DecodeSecondHalf
  BY <1>8, DecodesSecondHalf, DecodesInv
<1>9. CASE CloseWindow
  BY <1>9, CloseWindowInv
<1>10. CASE UNCHANGED vars
  <2>1. UNCHANGED <<window, table, phase, index, data, inst, addr,
                    dataAt, instAt, addrAt, opcode, caches, output>>
    BY <1>10 DEF vars
  <2>2. ASSUME NEW B, NEW D, NEW F, NEW d, InStep(B, D, F, d)
        PROVE  InStep(B, D, F, d)'
    <3>1. WellWritten(window, data, addr, D, F)'
      BY <2>1, <2>2 DEF InStep
    <3>2. Tiling(window, table, inst, B, Count(window))'
      BY <2>1, <2>2 DEF InStep
    <3>3. HasDone(d, D, F)'
      BY <2>1, <2>2 DEF InStep, HasDone
    <3>4. AtBoundary(B, d)'
      BY <2>1, <2>2 DEF InStep, AtBoundary
    <3> QED
      BY <3>1, <3>2, <3>3, <3>4 DEF InStep
  <2>3. AddressesWritten => AddressesWritten'
    BY <2>1 DEF AddressesWritten
  <2>4. Refused => Refused'
    BY <2>1 DEF Refused, Count
  <2>5. (\E B, D, F, d : InStep(B, D, F, d)) => (\E B, D, F, d : InStep(B, D, F, d))'
    BY <2>2
  <2> QED
    BY <2>1, <2>3, <2>4, <2>5 DEF IInv, Count
<1> QED
  BY <1>1, <1>2, <1>3, <1>4, <1>5, <1>6, <1>7, <1>8, <1>9, <1>10 DEF Next

(* In every state the sections hold what the encoder has done so far, end  *)
(* to end and parsed one way only, and the decoder stands at a place where *)
(* one instruction ends and the next begins in all three of them           *)
(* (codec.py:64-163, decoder.py:90-238).                                   *)
THEOREM Invariant == Spec => []IInv
<1>1. Init => IInv
  BY InitInv
<1>2. IInv /\ [Next]_vars => IInv'
  BY StepInv
<1> QED
  BY <1>1, <1>2, PTL DEF Spec
-----------------------------------------------------------------------------
(* The properties.                                                         *)

(* Of the instructions whose bytes are there, as many have been decoded.   *)
LEMMA DecodedAre ==
  ASSUME NEW w, IsTrace(w), Accepts(w), NEW d \in 0..Count(w)
  PROVE  Cardinality({i \in 1..Len(w.instructions) :
                        w.instructions[i].position < Len(Outputs(w)[d])}) = d
<1>1. Len(Outputs(w)[d]) = Ending(w, d)
  BY OutputsGrow
<1> QED
  BY <1>1, Counted

(* Encoder and decoder have the same caches at every COPY, each those of   *)
(* the instructions it has done (codec.py:64-102, decoder.py:90-133).      *)
THEOREM CachesInStep == Spec => []CachesAgree
<1>1. IInv => CachesAgree
  <2>1. ASSUME IInv, phase = "addresses" PROVE caches = CachesAfter(index - 1)
    BY <2>1 DEF IInv, AddressesWritten, CachesAfter
  <2>2. ASSUME IInv, phase = "decode" PROVE caches = CachesAfter(Decoded)
    <3>1. PICK B, D, F, d : InStep(B, D, F, d)
      BY <2>2 DEF IInv
    <3>2. /\ IsTrace(window) /\ Accepts(window) /\ d \in 0..Count(window)
          /\ output = Outputs(window)[d] /\ caches = CachesOf(window, d)
      BY <3>1 DEF InStep, WellWritten, HasDone
    <3>3. Decoded = d
      BY <3>2, DecodedAre DEF Decoded
    <3> QED
      BY <3>2, <3>3 DEF CachesAfter
  <2> QED
    BY <2>1, <2>2 DEF CachesAgree
<1> QED
  BY <1>1, Invariant, PTL

(* What is encoded is decoded, by every table and tiling: the decoder      *)
(* never fails and ends with the target (decoder.py:199-238).              *)
THEOREM LosslessCoding == Spec => []Lossless
<1>1. IInv => Lossless
  BY DEF IInv, Lossless
<1> QED
  BY <1>1, Invariant, PTL

(* What the encoder tests of an address, said the other way round.         *)
LEMMA OutOfReachIsNot ==
  ASSUME IsTrace(window), NEW i \in 1..Count(window)
  PROVE  OutOfReach(i) <=> /\ window.instructions[i].type = COPY
                           /\ ~Reachable(window, CachesOf(window, i - 1), i)
<1> DEFINE in == window.instructions[i]
           mode == in.mode
           address == in.address
           c == CachesOf(window, i - 1)
           near == c.near[mode - 2]
           same == c.same[SameSlot(mode, address)]
<1>1. mode \in Nat /\ address \in Nat /\ i - 1 \in 0..Count(window)
  BY Tiled
<1>2. c \in Cache
  BY <1>1, CachesType
<1>3. SameStart \in Nat /\ Modes \in Nat /\ Near \in Nat /\ SameStart = 2 + Near
  BY Sizes
<1>4. OutOfReach(i) <=>
        /\ in.type = COPY
        /\ \/ mode >= Modes
           \/ mode \in 2..(SameStart - 1) /\ address < near
           \/ mode \in SameStart..(Modes - 1) /\ same # address
  BY DEF OutOfReach, Instruction, CachesAfter
<1>5. Reachable(window, c, i) <=>
        /\ mode < Modes
        /\ mode \in 2..(SameStart - 1) => address >= near
        /\ mode >= SameStart => same = address
  BY DEF Reachable
<1>6. mode \in 2..(SameStart - 1) => near \in Nat
  <2>1. c.near \in [0..(Near - 1) -> Nat]
    BY <1>2 DEF Cache
  <2>2. mode \in 2..(SameStart - 1) => mode - 2 \in 0..(Near - 1)
    BY <1>1, <1>3
  <2> QED
    BY <2>1, <2>2
<1> HIDE DEF mode, address, near, same, c
<1>7. (\/ mode >= Modes
       \/ mode \in 2..(SameStart - 1) /\ address < near
       \/ mode \in SameStart..(Modes - 1) /\ same # address)
      <=> ~(/\ mode < Modes
            /\ mode \in 2..(SameStart - 1) => address >= near
            /\ mode >= SameStart => same = address)
  BY <1>1, <1>3, <1>6
<1> QED
  BY <1>4, <1>5, <1>7 DEF c

(* The encoder refuses for a reason, and writes nothing it would have to   *)
(* refuse (codec.py:64-102, 121-163).                                      *)
THEOREM RefusalsAreJustified == Spec => []RefusalsJustified
<1>1. IInv => RefusalsJustified
  <2> SUFFICES ASSUME IInv PROVE RefusalsJustified
    OBVIOUS
  <2>1. IsTrace(window)
    BY Given
  <2>2. ASSUME phase = "rejected"
        PROVE  ~Accepts(window) \/ \E i \in 1..Len(window.instructions) : OutOfReach(i)
    <3>1. Refused
      BY <2>2 DEF IInv
    <3> QED
      BY <2>1, <3>1, OutOfReachIsNot DEF Refused, Count
  <2>3. ASSUME phase \in {"decode", "done"}
        PROVE  /\ Accepts(window)
               /\ \A i \in 1..Len(window.instructions) : ~OutOfReach(i)
    <3>1. Accepts(window)
      BY <2>3 DEF IInv
    <3>2. ReachableTo(window, Count(window))
      <4>1. CASE phase = "decode"
        BY <4>1 DEF IInv, InStep, WellWritten, ReachableTo
      <4>2. CASE phase = "done"
        BY <4>2 DEF IInv
      <4> QED
        BY <2>3, <4>1, <4>2
    <3> QED
      BY <2>1, <3>1, <3>2, OutOfReachIsNot DEF ReachableTo, Count
  <2> QED
    BY <2>2, <2>3 DEF RefusalsJustified
<1> QED
  BY <1>1, Invariant, PTL
-----------------------------------------------------------------------------
(* The refinement.                                                         *)

(* The abstract specification means the same by its operators.             *)
LEMMA SameReplay ==
  /\ \A w : Logical!IsWindow(w) <=> IsWindow(w)
  /\ \A w, in, out : Logical!Replayable(w, in, out) <=> Replayable(w, in, out)
  /\ \A w, in, out : Logical!Produced(w, in, out) = Produced(w, in, out)
<1>1. ASSUME NEW w PROVE Logical!IsWindow(w) <=> IsWindow(w)
  BY DEF IsWindow, Logical!IsWindow
<1>2. ASSUME NEW w, NEW in, NEW out
      PROVE  Logical!Replayable(w, in, out) <=> Replayable(w, in, out)
  BY DEF Replayable, Logical!Replayable, COPY, Logical!COPY
<1>3. ASSUME NEW w, NEW in, NEW out
      PROVE  Logical!Produced(w, in, out) = Produced(w, in, out)
  BY DEF Produced, Logical!Produced, Copied, Logical!Copied, ADD, RUN, COPY,
         Logical!ADD, Logical!RUN, Logical!COPY
<1> QED
  BY <1>1, <1>2, <1>3

(* Nothing is decoded at first.                                            *)
LEMMA LogicalInit ==
  ASSUME Init
  PROVE  Logical!Init
<1>1. IsTrace(window) /\ output = <<>>
  BY WindowAssumption DEF Init, WindowAssumption
<1>2. IsWindow(window)
  BY <1>1 DEF IsTrace
<1>3. Decoded = 0
  <2>1. \A i \in 1..Len(window.instructions) : ~(window.instructions[i].position < Len(output))
    <3>1. Len(output) = 0
      BY <1>1, EmptySeq
    <3> QED
      BY <1>1, <3>1, Tiled DEF Count
  <2>2. {i \in 1..Len(window.instructions) :
           window.instructions[i].position < Len(output)} = {}
    BY <2>1
  <2> QED
    BY <2>2, FS_EmptySet DEF Decoded
<1> QED
  BY <1>1, <1>2, <1>3, SameReplay DEF Logical!Init

(* What the decoder does between two instructions, the abstract            *)
(* specification does in one step.                                         *)
LEMMA LogicalStep ==
  ASSUME IInv, Decodes
  PROVE  Logical!Apply \/ UNCHANGED <<window, Decoded, output>>
<1>1. PICK B, D, F, d : Advance(B, D, F, d)
  BY DEF Decodes
<1>2. window' = window
  BY DEF Decodes
<1>3. CASE UNCHANGED output
  BY <1>2, <1>3 DEF Decoded
<1>4. CASE InStep(B, D, F, d + 1)'
  <2>1. /\ WellWritten(window, data, addr, D, F) /\ HasDone(d, D, F)
        /\ IsTrace(window) /\ Accepts(window) /\ d \in 0..Count(window)
        /\ output = Outputs(window)[d]
    BY <1>1 DEF Advance, InStep, WellWritten, HasDone
  <2>2. d + 1 \in 0..Count(window) /\ output' = Outputs(window)[d + 1]
    BY <1>2, <1>4 DEF InStep, HasDone, Count
  <2>3. Count(window) \in Nat
    BY <2>1, Tiled
  <2>4. d < Count(window) /\ d + 1 \in 1..Count(window) /\ d \in Nat
    BY <2>1, <2>2, <2>3
  <2>5. output' = output \o Produced(window, window.instructions[d + 1], output)
    <3>1. WellWritten(window, data, addr, D, F) /\ HasDone(d, D, F) /\ d < Count(window)
      BY <2>1, <2>4
    <3>2. Outputs(window)[d + 1] = output \o Produced(window, window.instructions[d + 1], output)
      BY <3>1, BeforeHalf
    <3> QED
      BY <2>2, <3>2
  <2>6. Replayable(window, window.instructions[d + 1], output)
    <3>1. Replayable(window, window.instructions[d + 1], Outputs(window)[(d + 1) - 1])
      BY <2>1, <2>4 DEF Accepts, Count
    <3>2. (d + 1) - 1 = d
      BY <2>4
    <3> QED
      BY <2>1, <3>1, <3>2
  <2>7. Decoded = d
    BY <2>1, DecodedAre DEF Decoded
  <2>8. Decoded' = d + 1
    <3>1. Cardinality({i \in 1..Len(window.instructions) :
                         window.instructions[i].position < Len(output')}) = d + 1
      BY <2>1, <2>2, DecodedAre
    <3> QED
      BY <1>2, <3>1 DEF Decoded
  <2>9. Decoded < Len(window.instructions)
    BY <2>4, <2>7 DEF Count
  <2> QED
    BY <1>2, <2>5, <2>6, <2>7, <2>8, <2>9, SameReplay DEF Logical!Apply
<1> QED
  BY <1>1, <1>3, <1>4 DEF Advance

(* The decoder appends the bytes of one logical instruction after the      *)
(* other and does nothing else to its target: it implements replay_window  *)
(* (decoder.py:203-231, codec.py:121-163).                                 *)
THEOREM Refinement == Spec => ImplementsReplay
<1>1. Init => Logical!Init
  BY LogicalInit
<1>2. IInv /\ [Next]_vars => [Logical!Apply]_<<window, Decoded, output>>
  <2> SUFFICES ASSUME IInv, [Next]_vars
               PROVE  Logical!Apply \/ UNCHANGED <<window, Decoded, output>>
    OBVIOUS
  <2>1. CASE DecodeFirstHalf
    BY <2>1, DecodesFirstHalf, LogicalStep
  <2>2. CASE DecodeSecondHalf
    BY <2>2, DecodesSecondHalf, LogicalStep
  <2>3. CASE UNCHANGED <<window, output>>
    BY <2>3 DEF Decoded
  <2>4. \/ DecodeFirstHalf \/ DecodeSecondHalf \/ UNCHANGED <<window, output>>
    BY DEF Next, vars, readers, Replay, EncodeData, EncodeToken, TokensComplete,
           EncodeAddress, OpenWindow, CloseWindow
  <2> QED
    BY <2>1, <2>2, <2>3, <2>4
<1> QED
  BY <1>1, <1>2, Invariant, PTL DEF Spec, ImplementsReplay, Logical!Spec

=============================================================================
