------------------------ MODULE AdjacencyList_proofs ------------------------
(***************************************************************************)
(* What is packed into words is read back, for words and numbers of any    *)
(* width, and an adjacency list gives back the pairs it was built from.    *)
(***************************************************************************)
EXTENDS AdjacencyList, SequenceTheorems, FiniteSetTheorems, NaturalsInduction,
        WellFoundedInduction, TLAPS

\* A set of natural numbers that is not empty has a least member.
LEMMA LeastNat == \A T \in SUBSET Nat : T # {} => \E x \in T : \A y \in T : x <= y
<1> SUFFICES ASSUME NEW T \in SUBSET Nat, T # {} PROVE \E x \in T : \A y \in T : x <= y
  OBVIOUS
<1>1. PICK x \in T : \A y \in T : ~(<<y, x>> \in OpToRel(<, Nat))
  BY NatLessThanWellFounded, WFMin
<1>2. \A y \in T : ~(y < x)
  BY <1>1 DEF OpToRel
<1> QED BY <1>2

\* Induction: a set with 0 and the successors of its members has all natural numbers.
LEMMA AllNat == \A T \in SUBSET Nat : 0 \in T /\ (\A n \in T : n + 1 \in T) => T = Nat
<1> SUFFICES ASSUME NEW T \in SUBSET Nat, 0 \in T, \A n \in T : n + 1 \in T, T # Nat
             PROVE  FALSE
  OBVIOUS
<1>1. PICK x \in Nat \ T : \A y \in Nat \ T : x <= y
  <2> DEFINE U == Nat \ T
  <2>1. U \in SUBSET Nat /\ U # {}
    OBVIOUS
  <2> HIDE DEF U
  <2>2. \E x \in U : \A y \in U : x <= y
    BY <2>1, LeastNat
  <2> QED BY <2>2 DEF U
<1>2. x # 0 /\ x - 1 \in Nat /\ x - 1 \notin Nat \ T
  BY <1>1
<1>3. (x - 1) + 1 \in T
  BY <1>2
<1> QED BY <1>1, <1>3

\* A recursion on 0..n: its first value, and its step as a function.
IsStep(step, V) == step \in [Nat \X V -> V]
Solves(h, V, a, step, n) ==
  h \in [0..n -> V] /\ h[0] = a /\ \A k \in 1..n : h[k] = step[<<k, h[k - 1]>>]

\* It has a solution.
LEMMA Recursion ==
  ASSUME NEW V, NEW a \in V, NEW step, IsStep(step, V), NEW n \in Nat
  PROVE  \E h : Solves(h, V, a, step, n)
<1> DEFINE Sol(h, m) == h[0] = a /\ \A k \in 1..m : h[k] = step[<<k, h[k - 1]>>]
           T == {m \in Nat : \E h \in [0..m -> V] : Sol(h, m)}
<1> USE DEF IsStep
<1>1. 0 \in T
  <2>1. [k \in 0..0 |-> a] \in [0..0 -> V] /\ Sol([k \in 0..0 |-> a], 0)
    OBVIOUS
  <2> QED BY <2>1
<1>2. ASSUME NEW m \in T PROVE m + 1 \in T
  <2>1. PICK h \in [0..m -> V] : Sol(h, m)
    OBVIOUS
  <2> DEFINE v == step[<<m + 1, h[m]>>]
             g == [k \in 0..(m + 1) |-> IF k = m + 1 THEN v ELSE h[k]]
  <2>2. m \in Nat /\ h[m] \in V /\ v \in V
    OBVIOUS
  <2>3. g \in [0..(m + 1) -> V]
    BY <2>2
  <2>4. g[m + 1] = v /\ \A k \in 0..m : g[k] = h[k]
    BY <2>2
  <2>5. Sol(g, m + 1)
    <3>1. g[0] = a
      BY <2>1, <2>2, <2>4
    <3>2. ASSUME NEW k \in 1..(m + 1) PROVE g[k] = step[<<k, g[k - 1]>>]
      <4>1. CASE k = m + 1
        <5>1. k - 1 = m /\ g[k - 1] = h[m] /\ g[k] = v
          BY <4>1, <2>2, <2>4
        <5> HIDE DEF g
        <5> QED BY <4>1, <5>1
      <4>2. CASE k # m + 1
        <5>1. k \in 1..m /\ k \in 0..m /\ k - 1 \in 0..m
          BY <4>2, <2>2
        <5> HIDE DEF g
        <5> QED BY <5>1, <2>1, <2>4
      <4> QED BY <4>1, <4>2
    <3> QED BY <3>1, <3>2
  <2> HIDE DEF g, Sol
  <2> QED BY <2>2, <2>3, <2>5
<1> T \in SUBSET Nat
  OBVIOUS
<1> HIDE DEF T, Sol
<1>3. T = Nat
  BY <1>1, <1>2, AllNat
<1> QED BY <1>3 DEF T, Sol, Solves

-----------------------------------------------------------------------------
(***************************************************************************)
(* Division with remainder, and the powers of two.                         *)
(***************************************************************************)
\* Quotient and remainder.
LEMMA DivMod ==
  ASSUME NEW n \in Nat, NEW d \in Nat \ {0}
  PROVE  /\ n \div d \in Nat /\ n % d \in Nat /\ n % d < d
         /\ n = d * (n \div d) + (n % d)
  OBVIOUS

\* They are determined by their equation.
LEMMA DivModUnique ==
  ASSUME NEW d \in Nat \ {0}, NEW q \in Nat, NEW r \in Nat, r < d
  PROVE  (d * q + r) \div d = q /\ (d * q + r) % d = r
  OBVIOUS

\* Both again, for a number that is known by another name.
LEMMA DivModIs ==
  ASSUME NEW n \in Nat, NEW d \in Nat \ {0}, NEW q \in Nat, NEW r \in Nat, r < d,
         n = d * q + r
  PROVE  n \div d = q /\ n % d = r
  BY DivModUnique

\* The product of two numbers that are not 0.
LEMMA ProductType ==
  ASSUME NEW a \in Nat \ {0}, NEW b \in Nat \ {0}
  PROVE  a * b \in Nat \ {0}
  OBVIOUS

\* r below a and q below b make a number below a * b.
LEMMA DigitsBelow ==
  ASSUME NEW a \in Nat \ {0}, NEW b \in Nat \ {0}, NEW q \in Nat, NEW r \in Nat, r < a, q < b
  PROVE  a * q + r \in Nat /\ a * q + r < a * b
<1>1. q + 1 <= b /\ a * q \in Nat /\ a * q + r < a * q + a
  OBVIOUS
<1>2. a * q + a = a * (q + 1)
  OBVIOUS
<1>3. a * (q + 1) <= a * b
  BY <1>1
<1> QED BY <1>1, <1>2, <1>3

\* Dividing in two steps; the remainder of the first is the low part of the last.
LEMMA DivDiv ==
  ASSUME NEW n \in Nat, NEW a \in Nat \ {0}, NEW b \in Nat \ {0}
  PROVE  /\ (n \div a) \div b = n \div (a * b)
         /\ (n % (a * b)) \div a = (n \div a) % b
         /\ n % (a * b) = a * ((n \div a) % b) + (n % a)
<1> DEFINE q == n \div a  r == n % a  s == q \div b  t == q % b
<1>1. q \in Nat /\ r \in Nat /\ r < a /\ n = a * q + r
  BY DivMod
<1>2. s \in Nat /\ t \in Nat /\ t < b /\ q = b * s + t
  BY <1>1, DivMod
<1> HIDE DEF q, r, s, t
<1>3. a * b \in Nat \ {0} /\ a * t + r \in Nat /\ a * t + r < a * b
  BY <1>1, <1>2, DigitsBelow, ProductType
<1>4. n = (a * b) * s + (a * t + r)
  <2>1. a * q = a * (b * s) + a * t
    BY <1>1, <1>2
  <2>2. a * (b * s) = (a * b) * s
    BY <1>1, <1>2
  <2>3. a * (b * s) \in Nat /\ a * t \in Nat
    BY <1>1, <1>2
  <2> QED BY <1>1, <1>2, <2>1, <2>2, <2>3
<1>5. n \div (a * b) = s /\ n % (a * b) = a * t + r
  BY <1>2, <1>3, <1>4, DivModIs
<1>6. (a * t + r) \div a = t
  BY <1>1, <1>2, DivModUnique
<1> QED BY <1>5, <1>6 DEF q, r, s, t

\* Pow2 is the function of its definition.
LEMMA PowFacts ==
  /\ Pow2 \in [0..Word -> Nat \ {0}] /\ Pow2[0] = 1
  /\ \A k \in 0..Word : k + 1 <= Word => Pow2[k + 1] = 2 * Pow2[k]
<1> DEFINE Is(f) == f = [k \in 0..Word |-> IF k = 0 THEN 1 ELSE 2 * f[k - 1]]
           V == Nat \ {0}
           step == [p \in Nat \X V |-> 2 * p[2]]
<1>0. Word \in Nat /\ IsStep(step, V) /\ 1 \in V
  BY WordAssumption DEF IsStep
<1>1. PICK h : /\ h \in [0..Word -> V] /\ h[0] = 1
               /\ \A k \in 1..Word : h[k] = step[<<k, h[k - 1]>>]
  <2> HIDE DEF step, V
  <2>1. \E h : Solves(h, V, 1, step, Word)
    BY <1>0, Recursion
  <2> QED BY <2>1 DEF Solves
<1>2. ASSUME NEW k \in 1..Word PROVE h[k] = 2 * h[k - 1]
  <2>0. k \in Nat /\ k - 1 \in 0..Word
    BY <1>0
  <2>1. h[k - 1] \in V
    <3> HIDE DEF V
    <3> QED BY <1>1, <2>0
  <2> QED BY <1>1, <2>0, <2>1
<1>3. \E f : Is(f)
  <2>1. ASSUME NEW k \in 0..Word PROVE h[k] = IF k = 0 THEN 1 ELSE 2 * h[k - 1]
    <3>1. k = 0 \/ k \in 1..Word
      BY <1>0
    <3> QED BY <1>1, <1>2, <3>1
  <2>2. h = [k \in 0..Word |-> h[k]]
    BY <1>1
  <2>3. Is(h)
    BY <2>1, <2>2
  <2> QED BY <2>3
<1>4. Is(Pow2)
  <2>1. Pow2 = CHOOSE f : Is(f)
    BY DEF Pow2
  <2> HIDE DEF Is
  <2> QED BY <1>3, <2>1
<1>5. \A k \in 0..Word : Pow2[k] = IF k = 0 THEN 1 ELSE 2 * Pow2[k - 1]
  <2> SUFFICES ASSUME NEW P, Is(P)
               PROVE  \A k \in 0..Word : P[k] = IF k = 0 THEN 1 ELSE 2 * P[k - 1]
    BY <1>4
  <2> QED OBVIOUS
<1>6. DOMAIN Pow2 = 0..Word /\ Pow2 = [k \in 0..Word |-> Pow2[k]]
  <2> SUFFICES ASSUME NEW P, Is(P) PROVE DOMAIN P = 0..Word /\ P = [k \in 0..Word |-> P[k]]
    BY <1>4
  <2> QED OBVIOUS
<1>7. \A k \in Nat : k <= Word => Pow2[k] \in V
  <2> DEFINE T == {k \in Nat : k <= Word => Pow2[k] \in V}
  <2>1. 0 \in T
    BY <1>0, <1>5
  <2>2. ASSUME NEW k \in T PROVE k + 1 \in T
    <3> SUFFICES ASSUME k + 1 <= Word PROVE Pow2[k + 1] \in V
      OBVIOUS
    <3>1. k \in Nat /\ Pow2[k] \in V /\ k + 1 \in 0..Word /\ k + 1 # 0 /\ (k + 1) - 1 = k
      BY <1>0
    <3>2. Pow2[k + 1] = 2 * Pow2[k]
      BY <1>5, <3>1
    <3> QED BY <3>1, <3>2
  <2> T \in SUBSET Nat
    OBVIOUS
  <2> HIDE DEF T
  <2>3. T = Nat
    BY <2>1, <2>2, AllNat
  <2> QED BY <2>3 DEF T
<1>8. \A k \in 0..Word : Pow2[k] \in V
  BY <1>0, <1>7
<1>9. Pow2 \in [0..Word -> V] /\ Pow2[0] = 1
  <2>1. 0 \in 0..Word
    BY <1>0
  <2>2. Pow2 \in [0..Word -> V]
    <3> HIDE DEF V
    <3> QED BY <1>6, <1>8
  <2> QED BY <1>5, <2>1, <2>2
<1>10. ASSUME NEW k \in 0..Word, k + 1 <= Word PROVE Pow2[k + 1] = 2 * Pow2[k]
  <2>1. k + 1 \in 0..Word /\ k + 1 # 0 /\ (k + 1) - 1 = k
    BY <1>0, <1>10
  <2> QED BY <1>5, <2>1
<1> QED BY <1>9, <1>10

\* The type of the powers.
LEMMA PowType == \A k \in 0..Word : Pow2[k] \in Nat \ {0}
  BY PowFacts

\* The power of a sum is the product of the powers.
LEMMA PowAdd ==
  ASSUME NEW a \in Nat, NEW b \in Nat, a + b <= Word
  PROVE  /\ a \in 0..Word /\ b \in 0..Word /\ a + b \in 0..Word
         /\ Pow2[a + b] = Pow2[a] * Pow2[b]
<1>0. Word \in Nat /\ a \in 0..Word
  BY WordAssumption
<1> DEFINE T == {k \in Nat : a + k <= Word => Pow2[a + k] = Pow2[a] * Pow2[k]}
<1>1. 0 \in T
  BY <1>0, PowFacts
<1>2. ASSUME NEW k \in T PROVE k + 1 \in T
  <2> SUFFICES ASSUME a + (k + 1) <= Word PROVE Pow2[a + (k + 1)] = Pow2[a] * Pow2[k + 1]
    OBVIOUS
  <2>1. /\ k \in 0..Word /\ k + 1 <= Word /\ a + k \in 0..Word /\ (a + k) + 1 <= Word
        /\ a + (k + 1) = (a + k) + 1 /\ a + k <= Word
    BY <1>0
  <2>2. Pow2[a + k] = Pow2[a] * Pow2[k]
    BY <2>1
  <2>3. Pow2[(a + k) + 1] = 2 * Pow2[a + k] /\ Pow2[k + 1] = 2 * Pow2[k]
    BY <2>1, PowFacts
  <2>4. ASSUME NEW x \in Nat, NEW y \in Nat PROVE 2 * (x * y) = x * (2 * y)
    OBVIOUS
  <2>5. Pow2[a] \in Nat /\ Pow2[k] \in Nat
    BY <1>0, <2>1, PowType
  <2> QED BY <2>1, <2>2, <2>3, <2>4, <2>5
<1> T \in SUBSET Nat
  OBVIOUS
<1> HIDE DEF T
<1>3. T = Nat
  BY <1>1, <1>2, AllNat
<1>4. b \in T
  BY <1>3
<1> QED BY <1>0, <1>4 DEF T

\* A smaller power divides a larger one.
LEMMA PowDivides ==
  ASSUME NEW a \in 0..Word, NEW b \in 0..a
  PROVE  Pow2[a] = Pow2[b] * Pow2[a - b] /\ a - b \in 0..Word /\ b \in 0..Word
<1>1. b \in Nat /\ a - b \in Nat /\ b + (a - b) = a /\ b + (a - b) <= Word
  BY WordAssumption
<1> QED BY <1>1, PowAdd

-----------------------------------------------------------------------------
(***************************************************************************)
(* Shifts and | on words.                                                  *)
(***************************************************************************)
\* << keeps the bits that are not shifted out.
LEMMA ShlIs ==
  ASSUME NEW x \in Nat, NEW k \in 0..Word
  PROVE  Shl(x, k) = (x % Pow2[Word - k]) * Pow2[k] /\ Shl(x, k) \in Nat
<1> DEFINE a == Pow2[k]  b == Pow2[Word - k]  q == x \div b  r == x % b
<1>1. a \in Nat \ {0} /\ b \in Nat \ {0} /\ Pow2[Word] = a * b
  BY WordAssumption, PowType, PowDivides
<1> HIDE DEF a, b
<1>2. q \in Nat /\ r \in Nat /\ r < b /\ x = b * q + r
  BY <1>1, DivMod
<1> HIDE DEF q, r
<1>3. a * b \in Nat \ {0} /\ a * r + 0 \in Nat /\ a * r + 0 < a * b
  BY <1>1, <1>2, DigitsBelow, ProductType
<1>4. x * a = (a * b) * q + a * r
  <2>1. x * a = (b * q) * a + r * a
    BY <1>1, <1>2
  <2>2. (b * q) * a = (a * b) * q
    BY <1>1, <1>2
  <2> QED BY <1>1, <1>2, <2>1, <2>2
<1>5. (x * a) % (a * b) = a * r
  <2>1. x * a \in Nat /\ a * r \in Nat /\ a * r < a * b
    BY <1>1, <1>2, <1>3
  <2> QED BY <1>2, <1>3, <1>4, <2>1, DivModIs
<1> QED BY <1>1, <1>2, <1>5 DEF Shl, a, b, r

\* << and >> by the same number of bits clear the high bits.
LEMMA ShlShr ==
  ASSUME NEW x \in Nat, NEW k \in 0..Word
  PROVE  Shr(Shl(x, k), k) = x % Pow2[Word - k]
<1> DEFINE a == Pow2[k]  b == Pow2[Word - k]  r == x % b
<1>1. a \in Nat \ {0} /\ b \in Nat \ {0}
  BY WordAssumption, PowType, PowDivides
<1>2. r \in Nat
  BY <1>1, DivMod
<1>3. Shl(x, k) = r * a
  BY ShlIs
<1> HIDE DEF a, b, r
<1>4. (a * r + 0) \div a = r /\ a * r + 0 = r * a
  BY <1>1, <1>2, DivModUnique
<1> QED BY <1>3, <1>4 DEF Shr, a, b, r

\* A multiple of a product, divided by one of the factors.
LEMMA DivOfProduct ==
  ASSUME NEW x \in Nat, NEW a \in Nat \ {0}
  PROVE  (x * a) \div a = x /\ (x * a) % a = 0
<1>1. (a * x + 0) \div a = x /\ (a * x + 0) % a = 0 /\ a * x + 0 = x * a
  BY DivModUnique
<1> QED BY <1>1

\* A number below d is its own remainder.
LEMMA SmallMod ==
  ASSUME NEW d \in Nat \ {0}, NEW n \in Nat, n < d
  PROVE  n % d = n /\ n \div d = 0
<1>1. n = d * 0 + n
  OBVIOUS
<1> QED BY <1>1, DivModIs

\* A number with a remainder of 0 is a multiple.
LEMMA Multiple ==
  ASSUME NEW d \in Nat \ {0}, NEW n \in Nat, n % d = 0
  PROVE  n \div d \in Nat /\ n = d * (n \div d)
<1>1. n \div d \in Nat /\ n = d * (n \div d) + (n % d)
  BY DivMod
<1> QED BY <1>1

\* The powers grow.
LEMMA PowMonotonic ==
  ASSUME NEW a \in 0..Word, NEW b \in 0..a
  PROVE  Pow2[b] <= Pow2[a]
<1>1. Pow2[a] = Pow2[b] * Pow2[a - b] /\ Pow2[b] \in Nat \ {0} /\ Pow2[a - b] \in Nat \ {0}
  BY PowDivides, PowType
<1>2. ASSUME NEW x \in Nat, NEW y \in Nat \ {0} PROVE x <= x * y
  OBVIOUS
<1> QED BY <1>1, <1>2

\* Of a number without low bits and one that only has low bits, at most one has a bit.
LEMMA DisjointBits ==
  ASSUME NEW x \in Nat, NEW y \in Nat, NEW k \in 0..Word, NEW i \in 0..Word, i < Word,
         x % Pow2[k] = 0, y < Pow2[k]
  PROVE  (x \div Pow2[i]) % 2 = 0 \/ (y \div Pow2[i]) % 2 = 0
<1>1. Word \in Nat /\ Pow2[i] \in Nat \ {0} /\ Pow2[k] \in Nat \ {0}
  BY WordAssumption, PowType
<1>2. CASE i < k
  <2> DEFINE m == x \div Pow2[k]  a == Pow2[i]  b == Pow2[(k - i) - 1]
  <2>1. m \in Nat /\ x = Pow2[k] * m
    BY <1>1, Multiple
  <2>2. Pow2[k] = a * Pow2[k - i] /\ k - i \in 0..Word
    BY <1>1, <1>2, PowDivides
  <2>3. Pow2[k - i] = 2 * b /\ b \in Nat
    <3>1. (k - i) - 1 \in 0..Word /\ ((k - i) - 1) + 1 <= Word /\ ((k - i) - 1) + 1 = k - i
      BY <1>1, <1>2
    <3> QED BY <3>1, PowFacts, PowType
  <2> HIDE DEF m, b, a
  <2>4. x = ((b * m) * 2) * a /\ b * m \in Nat
    <3>1. x = (a * (2 * b)) * m
      BY <2>1, <2>2, <2>3
    <3>2. a \in Nat
      BY <1>1 DEF a
    <3> QED BY <2>1, <2>3, <3>1, <3>2
  <2>5. x \div a = (b * m) * 2
    <3>1. (b * m) * 2 \in Nat /\ a \in Nat \ {0}
      BY <1>1, <2>4 DEF a
    <3> QED BY <2>4, <3>1, DivOfProduct
  <2>6. ((b * m) * 2) % 2 = 0
    BY <2>4, DivOfProduct
  <2> QED BY <2>5, <2>6 DEF a
<1>3. CASE k <= i
  <2>1. Pow2[k] <= Pow2[i]
    BY <1>1, <1>3, PowMonotonic
  <2>2. y < Pow2[i]
    BY <1>1, <2>1
  <2>3. y \div Pow2[i] = 0
    BY <1>1, <2>2, SmallMod
  <2> QED BY <2>3
<1> QED BY <1>1, <1>2, <1>3

\* | of two such numbers is their sum.
LEMMA OrIs ==
  ASSUME NEW x \in Nat, NEW y \in Nat, NEW k \in 0..Word,
         x < Pow2[Word], x % Pow2[k] = 0, y < Pow2[k]
  PROVE  Or(x, y) = x + y
<1> DEFINE bit(i) == IF Shr(x, i) % 2 = 1 \/ Shr(y, i) % 2 = 1 THEN 1 ELSE 0
           Is(f) == f = [i \in 0..Word |-> IF i = 0 THEN 0 ELSE f[i - 1] + Pow2[i - 1] * bit(i - 1)]
           step == [p \in Nat \X Nat |->
                      IF p[1] \in 1..Word THEN p[2] + Pow2[p[1] - 1] * bit(p[1] - 1) ELSE 0]
<1>0. Word \in Nat /\ Word \in 0..Word /\ 0 \in 0..Word
  BY WordAssumption
<1>1. \A i \in 0..Word : bit(i) \in Nat /\ Pow2[i] \in Nat
  BY PowType
<1> HIDE DEF bit
<1>2. IsStep(step, Nat)
  <2>1. ASSUME NEW p \in Nat \X Nat PROVE step[p] \in Nat
    <3>1. p[1] \in 1..Word => p[1] - 1 \in 0..Word
      BY <1>0
    <3>2. p[1] \in 1..Word => Pow2[p[1] - 1] \in Nat /\ bit(p[1] - 1) \in Nat
      BY <1>1, <3>1
    <3> QED BY <3>2
  <2>2. step = [p \in Nat \X Nat |-> step[p]]
    OBVIOUS
  <2> HIDE DEF step
  <2> QED BY <2>1, <2>2 DEF IsStep
<1>3. PICK h : /\ h \in [0..Word -> Nat] /\ h[0] = 0
               /\ \A i \in 1..Word : h[i] = step[<<i, h[i - 1]>>]
  <2> HIDE DEF step
  <2>1. \E h : Solves(h, Nat, 0, step, Word)
    BY <1>0, <1>2, Recursion
  <2> QED BY <2>1 DEF Solves
<1>4. \E f : Is(f)
  <2>1. ASSUME NEW i \in 0..Word
        PROVE  h[i] = IF i = 0 THEN 0 ELSE h[i - 1] + Pow2[i - 1] * bit(i - 1)
    <3>1. CASE i = 0
      BY <1>3, <3>1
    <3>2. CASE i # 0
      <4>1. i \in 1..Word /\ i - 1 \in 0..Word /\ i \in Nat
        BY <1>0, <3>2
      <4>2. h[i - 1] \in Nat
        BY <1>3, <4>1
      <4> QED BY <1>3, <3>2, <4>1, <4>2
    <3> QED BY <3>1, <3>2
  <2>2. h = [i \in 0..Word |-> h[i]]
    BY <1>3
  <2>3. Is(h)
    BY <2>1, <2>2
  <2> QED BY <2>3
<1>5. PICK f : Is(f) /\ Or(x, y) = f[Word]
  <2>1. Or(x, y) = (CHOOSE f : Is(f))[Word]
    BY DEF Or, bit
  <2> HIDE DEF Is
  <2> QED BY <1>4, <2>1
<1>6. ASSUME NEW i \in 0..Word PROVE f[i] = IF i = 0 THEN 0 ELSE f[i - 1] + Pow2[i - 1] * bit(i - 1)
  BY <1>5
<1> DEFINE T == {i \in Nat : i <= Word => f[i] = (x % Pow2[i]) + (y % Pow2[i])}
<1>7. 0 \in T
  <2>1. Pow2[0] = 1 /\ x % 1 = 0 /\ y % 1 = 0
    BY PowFacts
  <2> QED BY <1>0, <1>6, <2>1
<1>8. ASSUME NEW i \in T PROVE i + 1 \in T
  <2> SUFFICES ASSUME i + 1 <= Word
               PROVE  f[i + 1] = (x % Pow2[i + 1]) + (y % Pow2[i + 1])
    OBVIOUS
  <2> DEFINE P == Pow2[i]  xb == (x \div P) % 2  yb == (y \div P) % 2
  <2>1. i \in 0..Word /\ i < Word /\ i + 1 \in 0..Word /\ i + 1 # 0 /\ (i + 1) - 1 = i
    BY <1>0
  <2>2. P \in Nat \ {0} /\ Pow2[i + 1] = P * 2
    BY <2>1, PowFacts
  <2>3. f[i] = (x % P) + (y % P) /\ f[i + 1] = f[i] + P * bit(i)
    BY <1>6, <2>1
  <2>4. x \div P \in Nat /\ y \div P \in Nat /\ x % P \in Nat /\ y % P \in Nat
    BY <2>2, DivMod
  <2>5. xb \in {0, 1} /\ yb \in {0, 1}
    BY <2>4
  <2>6. xb = 0 \/ yb = 0
    BY <2>1, DisjointBits
  <2>7. bit(i) = xb + yb
    BY <2>5, <2>6 DEF bit, Shr
  <2>8. x % (P * 2) = P * xb + (x % P) /\ y % (P * 2) = P * yb + (y % P)
    <3> HIDE DEF P
    <3>1. ASSUME NEW b \in Nat \ {0}
          PROVE  /\ x % (P * b) = P * ((x \div P) % b) + (x % P)
                 /\ y % (P * b) = P * ((y \div P) % b) + (y % P)
      BY <2>2, DivDiv, ZenonT(30)
    <3>2. 2 \in Nat \ {0}
      OBVIOUS
    <3> QED BY <3>1, <3>2
  <2> HIDE DEF P, xb, yb
  <2>9. P * bit(i) = P * xb + P * yb
    BY <2>2, <2>5, <2>7
  <2>10. P * xb \in Nat /\ P * yb \in Nat
    BY <2>2, <2>5
  <2>11. f[i + 1] = ((x % P) + (y % P)) + (P * xb + P * yb)
    BY <2>3, <2>9
  <2>12. ASSUME NEW u \in Nat, NEW v \in Nat, NEW c \in Nat, NEW d \in Nat
         PROVE  (u + v) + (c + d) = (c + u) + (d + v)
    OBVIOUS
  <2>13. f[i + 1] = (P * xb + (x % P)) + (P * yb + (y % P))
    BY <2>4, <2>10, <2>11, <2>12
  <2> QED BY <2>2, <2>8, <2>13
<1>9. T \in SUBSET Nat
  OBVIOUS
<1> HIDE DEF T
<1>10. T = Nat
  BY <1>7, <1>8, <1>9, AllNat
<1>11. f[Word] = (x % Pow2[Word]) + (y % Pow2[Word])
  BY <1>0, <1>10 DEF T
<1>12. Pow2[Word] \in Nat \ {0} /\ Pow2[k] \in Nat /\ Pow2[k] <= Pow2[Word]
  BY <1>0, PowType, PowMonotonic
<1>13. y < Pow2[Word]
  BY <1>12
<1> QED BY <1>5, <1>11, <1>12, <1>13, SmallMod

\* A number below a * b has a quotient below b.
LEMMA DivBelow ==
  ASSUME NEW a \in Nat \ {0}, NEW b \in Nat \ {0}, NEW n \in Nat, n < a * b
  PROVE  n \div a < b
<1> DEFINE q == n \div a  r == n % a
<1>1. q \in Nat /\ r \in Nat /\ n = a * q + r
  BY DivMod
<1> HIDE DEF q, r
<1>2. ASSUME b <= q PROVE FALSE
  <2>1. a * b <= a * q
    BY <1>1, <1>2
  <2> QED BY <1>1, <2>1
<1> QED BY <1>1, <1>2 DEF q

\* What push ors into the current word: the number, or its high bits.
LEMMA PushPart ==
  ASSUME NEW w \in 1..Word, NEW v \in Nat, v < Pow2[w], NEW off \in 0..(Word - 1),
         NEW part, part = Shr(Shl(v, Word - w), off)
  PROVE  /\ part \in Nat /\ part < Pow2[Word - off]
         /\ off + w <= Word => part = v * Pow2[Word - off - w]
         /\ off + w > Word => part = Shr(v, off + w - Word)
<1>0. /\ Word \in Nat /\ w \in 0..Word /\ Word - w \in 0..Word /\ Word - (Word - w) = w
      /\ off \in 0..Word /\ Word - off \in 0..Word
  BY WordAssumption
<1>1. \A k \in 0..Word : Pow2[k] \in Nat \ {0}
  BY PowType
<1>2. Shl(v, Word - w) = v * Pow2[Word - w]
  BY <1>0, <1>1, ShlIs, SmallMod
<1>3. CASE off + w <= Word
  <2> DEFINE c == Pow2[Word - off - w]  d == Pow2[off]
  <2>1. Word - off - w \in 0..Word /\ (Word - w) - off = Word - off - w /\ off \in 0..(Word - w)
    BY <1>0, <1>3
  <2>2. Pow2[Word - w] = d * c
    BY <1>0, <2>1, PowDivides
  <2>3. c \in Nat \ {0} /\ d \in Nat \ {0}
    BY <1>0, <1>1, <2>1
  <2>4. Pow2[Word - off] = Pow2[w] * c
    <3>1. w \in 0..(Word - off) /\ (Word - off) - w = Word - off - w
      BY <1>0, <1>3
    <3> QED BY <1>0, <3>1, PowDivides
  <2> HIDE DEF c, d
  <2>5. v * (d * c) = (v * c) * d /\ v * c \in Nat
    BY <2>3
  <2>6. part = v * c
    BY <1>2, <2>2, <2>3, <2>5, DivOfProduct DEF Shr, d
  <2>7. v * c < Pow2[w] * c
    BY <1>0, <1>1, <2>3
  <2> QED BY <1>0, <1>3, <2>4, <2>5, <2>6, <2>7 DEF c
<1>4. CASE off + w > Word
  <2> DEFINE s == off + w - Word  a == Pow2[Word - w]  b == Pow2[s]  e == Pow2[Word - off]
  <2>1. s \in 0..Word /\ (Word - w) \in 0..off /\ off - (Word - w) = s
    BY <1>0, <1>4
  <2>2. Pow2[off] = a * b
    BY <1>0, <2>1, PowDivides
  <2>3. Pow2[w] = b * e
    <3>1. s \in 0..w /\ w - s = Word - off
      BY <1>0, <1>4
    <3> QED BY <1>0, <3>1, PowDivides
  <2>4. a \in Nat \ {0} /\ b \in Nat \ {0} /\ e \in Nat \ {0} /\ v * a \in Nat
    BY <1>0, <1>1, <2>1
  <2>5. part = (v * a) \div (a * b)
    BY <1>2, <2>2 DEF Shr
  <2> HIDE DEF a, b, e, s
  <2>6. part = v \div b
    BY <2>4, <2>5, DivDiv, DivOfProduct
  <2>7. v \div b \in Nat /\ v \div b < e
    BY <2>3, <2>4, DivBelow, DivMod
  <2> QED BY <1>0, <1>4, <2>6, <2>7 DEF Shr, b, e, s
<1> QED BY <1>0, <1>3, <1>4

\* The current word with the new bits: the old bits are as they were.
LEMMA FullWord ==
  ASSUME NEW off \in 0..(Word - 1), NEW c \in Nat, c < Pow2[Word], c % Pow2[Word - off] = 0,
         NEW part \in Nat, part < Pow2[Word - off]
  PROVE  /\ Or(c, part) \in Nat /\ Or(c, part) < Pow2[Word]
         /\ Or(c, part) = c + part
         /\ Or(c, part) % Pow2[Word - off] = part
         /\ \A j \in 0..Word : Word - off <= j => Shr(Or(c, part), j) = Shr(c, j)
<1>0. Word \in Nat /\ Word \in 0..Word /\ off \in 0..Word /\ Word - off \in 0..Word
  BY WordAssumption
<1>1. \A k \in 0..Word : Pow2[k] \in Nat \ {0}
  BY PowType
<1> DEFINE B == Pow2[Word - off]  m == c \div B
<1>2. B \in Nat \ {0} /\ m \in Nat /\ c = B * m
  BY <1>0, <1>1, Multiple
<1>3. Or(c, part) = c + part
  BY <1>0, OrIs
<1>4. Pow2[Word] = B * Pow2[off]
  <2>1. Word - off \in 0..Word /\ Word - (Word - off) = off
    BY <1>0
  <2> QED BY <1>0, <2>1, PowDivides
<1>5. m < Pow2[off]
  BY <1>0, <1>1, <1>2, <1>4, DivBelow
<1> HIDE DEF m, B
<1>6. B * m + part < B * Pow2[off] /\ B * m + part \in Nat
  BY <1>0, <1>1, <1>2, <1>5, DigitsBelow DEF B
<1>7. (B * m + part) % B = part /\ (B * m + part) \div B = m
  BY <1>2, DivModUnique DEF B
<1>8. c \div B = m
  BY DEF m
<1>9. ASSUME NEW j \in 0..Word, Word - off <= j
      PROVE  (c + part) \div Pow2[j] = c \div Pow2[j]
  <2>1. Word - off \in 0..j
    BY <1>0, <1>9
  <2>2. Pow2[j] = B * Pow2[j - (Word - off)] /\ j - (Word - off) \in 0..Word
    BY <2>1, PowDivides DEF B
  <2> DEFINE J == Pow2[j - (Word - off)]
  <2>3. J \in Nat \ {0}
    BY <1>1, <2>2
  <2>4. Pow2[j] = B * J
    BY <2>2
  <2> HIDE DEF J
  <2>5. c + part \in Nat /\ (c + part) \div B = m
    BY <1>2, <1>6, <1>7
  <2>6. (c + part) \div (B * J) = m \div J /\ c \div (B * J) = m \div J
    <3>0. B \in Nat \ {0}
      BY <1>2
    <3>1. ASSUME NEW n \in Nat PROVE (n \div B) \div J = n \div (B * J)
      BY <2>3, <3>0, DivDiv
    <3> QED BY <1>8, <2>5, <3>1
  <2> QED BY <2>4, <2>6
<1> QED BY <1>2, <1>3, <1>4, <1>6, <1>7, <1>9 DEF Shr, B

\* A number that ends in the current word can be read from it.
LEMMA NewNumber ==
  ASSUME NEW w \in 1..Word, NEW v \in Nat, v < Pow2[w], NEW off \in 0..(Word - 1),
         off + w <= Word, NEW c \in Nat, c % Pow2[Word - off] = 0
  PROVE  /\ Shr(c + v * Pow2[Word - off - w], Word - off - w) % Pow2[w] = v
         /\ (c + v * Pow2[Word - off - w]) % Pow2[Word - off - w] = 0
<1>0. /\ Word \in Nat /\ w \in 0..Word /\ Word - off \in 0..Word /\ Word - off - w \in 0..Word
      /\ w \in 0..(Word - off) /\ (Word - off) - w = Word - off - w
  BY WordAssumption
<1> DEFINE a == Pow2[Word - off - w]  b == Pow2[w]  m == c \div Pow2[Word - off]
<1>1. a \in Nat \ {0} /\ b \in Nat \ {0} /\ Pow2[Word - off] \in Nat \ {0}
  BY <1>0, PowType
<1>2. Pow2[Word - off] = b * a
  BY <1>0, PowDivides
<1>3. m \in Nat /\ c = (b * a) * m
  BY <1>1, <1>2, Multiple
<1> HIDE DEF a, b, m
<1>4. c + v * a = (b * m + v) * a /\ b * m + v \in Nat
  <2>1. (b * a) * m = (b * m) * a /\ b * m \in Nat
    BY <1>1, <1>3
  <2>2. (b * m + v) * a = (b * m) * a + v * a
    BY <1>1, <2>1
  <2> QED BY <1>1, <1>3, <2>1, <2>2
<1>5. (c + v * a) \div a = b * m + v /\ (c + v * a) % a = 0
  BY <1>1, <1>4, DivOfProduct, ZenonT(30)
<1>6. (b * m + v) % b = v
  BY <1>1, <1>3, DivModUnique DEF b
<1> QED BY <1>5, <1>6 DEF Shr, a, b

-----------------------------------------------------------------------------
(***************************************************************************)
(* Packed: one more number.                                                *)
(***************************************************************************)
\* NumberAt, with the word and the offset of the bit.
LEMMA NumberAtIs ==
  ASSUME NEW w, NEW f, NEW c, NEW v, NEW bit, NEW k \in Nat, NEW o \in 0..(Word - 1),
         bit = Word * k + o
  PROVE  NumberAt(w, f, c, bit, v) <=>
           IF o + w <= Word
           THEN Shr(WordAt(f, c, k), Word - o - w) % Pow2[w] = v
           ELSE /\ WordAt(f, c, k) % Pow2[Word - o] = Shr(v, o + w - Word)
                /\ Shr(WordAt(f, c, k + 1), Word - (o + w - Word)) = v % Pow2[o + w - Word]
<1>1. bit \div Word = k /\ bit % Word = o
  BY WordAssumption, DivModUnique
<1>2. k + 0 = k
  OBVIOUS
<1> QED BY <1>1, <1>2 DEF NumberAt

\* The word of a bit before the end of n words and b bits.
LEMMA WordBefore ==
  ASSUME NEW k \in Nat, NEW n \in Nat, NEW a \in Nat, NEW b \in 0..(Word - 1),
         Word * k + a <= n * Word + b
  PROVE  k <= n /\ (k = n => a <= b)
<1>1. ASSUME n + 1 <= k PROVE FALSE
  <2>1. Word * (n + 1) <= Word * k
    BY <1>1, WordAssumption
  <2>2. Word * (n + 1) = n * Word + Word /\ n * Word \in Nat /\ Word * k \in Nat
    BY WordAssumption
  <2> QED BY <2>1, <2>2, WordAssumption
<1>2. k <= n
  BY <1>1
<1>3. ASSUME k = n PROVE a <= b
  <2>1. Word * k = n * Word /\ n * Word \in Nat
    BY <1>3, WordAssumption
  <2> QED BY <2>1, WordAssumption
<1> QED BY <1>2, <1>3

\* The words after a push, from w bits at an offset: the state of both builders.
Pushed(w, f, c, off, v, f2, c2, off2) ==
  LET full == Or(c, Shr(Shl(v, Word - w), off)) IN
  IF off + w < Word THEN f2 = f /\ c2 = full /\ off2 = off + w
  ELSE /\ f2 = Append(f, full) /\ off2 = off + w - Word
       /\ c2 = IF off + w = Word THEN 0 ELSE Shl(v, Word - (off + w - Word))

\* A push keeps what is packed and packs the number behind it.
LEMMA PackPush ==
  ASSUME NEW w \in 1..Word, NEW f, NEW c, NEW off, NEW vs, NEW v \in 0..(Pow2[w] - 1),
         Packed(w, f, c, off, vs),
         NEW f2, NEW c2, NEW off2, Pushed(w, f, c, off, v, f2, c2, off2)
  PROVE  Packed(w, f2, c2, off2, Append(vs, v))
<1> DEFINE words == 0..(Pow2[Word] - 1)
           part == Shr(Shl(v, Word - w), off)
           full == Or(c, part)
           n == Len(f)
           s == off + w - Word
<1>0. /\ Word \in Nat \ {0} /\ w \in Nat \ {0} /\ w <= Word /\ Word \in 0..Word /\ w \in 0..Word
      /\ \A k \in 0..Word : Pow2[k] \in Nat \ {0}
  BY WordAssumption, PowType
<1>1. /\ f \in Seq(words) /\ c \in words /\ off \in 0..(Word - 1) /\ vs \in Seq(0..(Pow2[w] - 1))
      /\ n * Word + off = Len(vs) * w /\ c % Pow2[Word - off] = 0
      /\ \A i \in 1..Len(vs) : NumberAt(w, f, c, (i - 1) * w, vs[i])
  BY DEF Packed
<1>2. /\ n \in Nat /\ Len(vs) \in Nat /\ off \in 0..Word /\ off < Word
      /\ c \in Nat /\ c < Pow2[Word] /\ v \in Nat /\ v < Pow2[w]
  BY <1>0, <1>1, SMTT(30)
<1>3. /\ part \in Nat /\ part < Pow2[Word - off]
      /\ off + w <= Word => part = v * Pow2[Word - off - w]
      /\ off + w > Word => part = Shr(v, off + w - Word)
  BY <1>1, <1>2, PushPart
<1> HIDE DEF part
<1>4. /\ full \in Nat /\ full < Pow2[Word] /\ full = c + part /\ full % Pow2[Word - off] = part
      /\ \A j \in 0..Word : Word - off <= j => Shr(full, j) = Shr(c, j)
  BY <1>1, <1>2, <1>3, FullWord
<1>5. full \in words
  BY <1>0, <1>4
<1>6. IF off + w < Word THEN f2 = f /\ c2 = full /\ off2 = off + w
      ELSE /\ f2 = Append(f, full) /\ off2 = off + w - Word
           /\ c2 = IF off + w = Word THEN 0 ELSE Shl(v, Word - (off + w - Word))
  BY DEF Pushed, part
<1> HIDE DEF full
<1>7. off2 \in 0..(Word - 1) /\ f2 \in Seq(words) /\ Len(f2) * Word + off2 = n * Word + off + w
  <2>1. CASE off + w < Word
    BY <1>0, <1>1, <1>2, <1>6, <2>1
  <2>2. CASE ~(off + w < Word)
    <3>1. f2 \in Seq(words) /\ Len(f2) = n + 1
      <4> HIDE DEF words
      <4> QED BY <1>1, <1>5, <1>6, <2>2, SMTT(30)
    <3>2. (n + 1) * Word = n * Word + Word /\ n * Word \in Nat
      BY <1>0, <1>2
    <3> QED BY <1>0, <1>1, <1>2, <1>6, <2>2, <3>1, <3>2
  <2> QED BY <2>1, <2>2
<1>8. Append(vs, v) \in Seq(0..(Pow2[w] - 1)) /\ Len(Append(vs, v)) = Len(vs) + 1
  BY <1>1
<1>9. (Len(vs) + 1) * w = Len(vs) * w + w
  BY <1>0, <1>2
<1>10. ASSUME off + w > Word
       PROVE  /\ s \in 0..Word /\ s > 0 /\ Word - s \in 0..Word
              /\ c2 \in words /\ c2 % Pow2[Word - s] = 0 /\ Shr(c2, Word - s) = v % Pow2[s]
  <2>1. s \in 0..Word /\ s > 0 /\ Word - s \in 0..Word /\ Word - (Word - s) = s
    BY <1>0, <1>2, <1>10
  <2> DEFINE lo == v % Pow2[s]  a == Pow2[Word - s]
  <2>2. Pow2[s] \in Nat \ {0} /\ a \in Nat \ {0} /\ lo \in Nat
    BY <1>0, <1>2, <2>1, DivMod
  <2>3. c2 = Shl(v, Word - s)
    BY <1>0, <1>2, <1>6, <1>10
  <2>4. c2 = lo * a
    BY <1>2, <2>1, <2>3, ShlIs
  <2>5. c2 \in words
    <3>1. v * a \in Nat /\ Pow2[Word] \in Nat \ {0}
      BY <1>0, <1>2, <2>2
    <3>2. c2 = (v * a) % Pow2[Word]
      BY <2>3 DEF Shl
    <3> HIDE DEF a
    <3>3. c2 \in Nat /\ c2 < Pow2[Word]
      BY <3>1, <3>2, DivMod
    <3> QED BY <3>1, <3>3
  <2>6. (lo * a) \div a = lo /\ (lo * a) % a = 0
    <3> HIDE DEF lo, a
    <3> QED BY <2>2, DivOfProduct
  <2> QED BY <2>1, <2>4, <2>5, <2>6 DEF Shr
<1>11. off + w <= Word =>
          /\ Shr(full, Word - off - w) % Pow2[w] = v
          /\ full % Pow2[Word - off - w] = 0
  BY <1>1, <1>2, <1>3, <1>4, NewNumber
<1>12. c2 \in words /\ c2 % Pow2[Word - off2] = 0
  <2>1. CASE off + w < Word
    <3>1. Word - off2 = Word - off - w /\ c2 = full
      BY <1>0, <1>2, <1>6, <2>1
    <3> QED BY <1>0, <1>2, <1>5, <1>11, <2>1, <3>1
  <2>2. CASE off + w = Word
    <3>0. off2 = 0 /\ c2 = 0
      BY <1>0, <1>2, <1>6, <2>2
    <3>1. Word - off2 = Word /\ c2 = 0 /\ Pow2[Word] \in Nat \ {0}
      BY <1>0, <3>0
    <3>2. 0 % Pow2[Word] = 0
      BY <3>1, SmallMod
    <3> QED BY <3>1, <3>2
  <2>3. CASE off + w > Word
    <3>1. off2 = s
      BY <1>0, <1>2, <1>6, <2>3
    <3> QED BY <1>10, <2>3, <3>1
  <2> QED BY <1>0, <1>2, <2>1, <2>2, <2>3
\* The words before the current one are as they were, the current one is full.
<1>13. /\ \A k \in Nat : k < n => WordAt(f2, c2, k) = WordAt(f, c, k)
       /\ WordAt(f2, c2, n) = full /\ WordAt(f, c, n) = c
       /\ off + w > Word => WordAt(f2, c2, n + 1) = c2
  <2>1. CASE off + w < Word
    <3>1. f2 = f /\ c2 = full /\ ~(off + w > Word)
      BY <1>0, <1>2, <1>6, <2>1
    <3> QED BY <1>2, <3>1 DEF WordAt, At
  <2>2. CASE ~(off + w < Word)
    <3>1. f2 = Append(f, full)
      BY <1>6, <2>2
    <3>2. /\ Len(f2) = n + 1 /\ f2[n + 1] = full
          /\ \A k \in Nat : k < n => f2[k + 1] = f[k + 1] /\ k < n + 1
      <4> HIDE DEF words
      <4> QED BY <1>1, <1>2, <1>5, <3>1
    <3> QED BY <1>2, <3>2 DEF WordAt, At
  <2> QED BY <2>1, <2>2
<1>14. ASSUME NEW i \in 1..Len(vs) PROVE NumberAt(w, f2, c2, (i - 1) * w, vs[i])
  <2> DEFINE bit == (i - 1) * w  k == bit \div Word  o == bit % Word  low == o + w - Word
  <2>1. i - 1 \in Nat /\ bit \in Nat /\ bit + w <= n * Word + off
    <3>1. i - 1 \in Nat /\ i <= Len(vs) /\ bit \in Nat
      BY <1>0, <1>2
    <3>2. bit + w = i * w
      <4>1. ASSUME NEW j \in Nat PROVE j * w + w = (j + 1) * w
        BY <1>0
      <4>2. (i - 1) + 1 = i
        BY <3>1
      <4> QED BY <3>1, <4>1, <4>2
    <3>3. i * w <= Len(vs) * w
      <4>1. ASSUME NEW a \in Nat, NEW b \in Nat, a <= b PROVE a * w <= b * w
        BY <1>0, <4>1
      <4> QED BY <1>2, <3>1, <4>1
    <3> QED BY <1>1, <3>1, <3>2, <3>3
  <2> HIDE DEF bit
  <2>2. k \in Nat /\ o \in Nat /\ o < Word /\ bit = Word * k + o
    BY <1>0, <2>1, DivMod
  <2> HIDE DEF k, o
  <2>3. o \in 0..(Word - 1)
    BY <1>0, <2>2
  <2>4. Word * k + (o + w) <= n * Word + off
    BY <1>0, <1>2, <2>1, <2>2
  <2>5. k <= n /\ (k = n => o + w <= off)
    <3>1. o + w \in Nat
      BY <1>0, <2>2
    <3> QED BY <3>1, <1>0, <1>1, <1>2, <2>2, <2>4, WordBefore
  <2>6. NumberAt(w, f, c, bit, vs[i])
    BY <1>1 DEF bit
  <2>7. CASE o + w <= Word
    <3>1. Shr(WordAt(f, c, k), Word - o - w) % Pow2[w] = vs[i]
      BY <2>2, <2>3, <2>6, <2>7, NumberAtIs
    <3>2. Shr(WordAt(f2, c2, k), Word - o - w) = Shr(WordAt(f, c, k), Word - o - w)
      <4>1. CASE k < n
        BY <1>13, <2>2, <4>1
      <4>2. CASE k = n
        <5>1. Word - o - w \in 0..Word /\ Word - off <= Word - o - w
          BY <1>0, <1>2, <2>2, <2>5, <2>7, <4>2
        <5> QED BY <1>4, <1>13, <4>2, <5>1
      <4> QED BY <1>2, <2>2, <2>5, <4>1, <4>2
    <3> QED BY <2>2, <2>3, <2>7, <3>1, <3>2, NumberAtIs DEF bit
  <2>8. CASE ~(o + w <= Word)
    <3>1. /\ WordAt(f, c, k) % Pow2[Word - o] = Shr(vs[i], low)
          /\ Shr(WordAt(f, c, k + 1), Word - low) = vs[i] % Pow2[low]
      <4>1. IF o + w <= Word
            THEN Shr(WordAt(f, c, k), Word - o - w) % Pow2[w] = vs[i]
            ELSE /\ WordAt(f, c, k) % Pow2[Word - o] = Shr(vs[i], o + w - Word)
                 /\ Shr(WordAt(f, c, k + 1), Word - (o + w - Word)) = vs[i] % Pow2[o + w - Word]
        BY <2>2, <2>3, <2>6, NumberAtIs
      <4> QED BY <2>8, <4>1
    <3>2. low \in Nat /\ low > 0 /\ low < Word /\ Word * (k + 1) + low <= n * Word + off
      <4>1. Word * (k + 1) = Word * k + Word /\ Word * k \in Nat
        BY <1>0, <2>2
      <4> QED BY <1>0, <1>2, <2>2, <2>4, <2>8, <4>1
    <3>3. k + 1 <= n /\ (k + 1 = n => low <= off)
      <4>1. k + 1 \in Nat
        BY <2>2
      <4> HIDE DEF low
      <4> QED BY <1>0, <1>1, <1>2, <3>2, <4>1, WordBefore
    <3>4. WordAt(f2, c2, k) = WordAt(f, c, k)
      BY <1>2, <1>13, <2>2, <3>3
    <3>5. Shr(WordAt(f2, c2, k + 1), Word - low) = Shr(WordAt(f, c, k + 1), Word - low)
      <4>1. CASE k + 1 < n
        BY <1>13, <2>2, <4>1
      <4>2. CASE k + 1 = n
        <5>1. Word - low \in 0..Word /\ Word - off <= Word - low
          BY <1>0, <1>2, <3>2, <3>3, <4>2, SMTT(30)
        <5> QED BY <1>4, <1>13, <4>2, <5>1
      <4> QED BY <1>2, <2>2, <3>3, <4>1, <4>2
    <3> QED BY <2>2, <2>3, <2>8, <3>1, <3>4, <3>5, NumberAtIs DEF bit
  <2> QED BY <2>7, <2>8
<1>15. NumberAt(w, f2, c2, Len(vs) * w, v)
  <2>1. Len(vs) * w = Word * n + off
    BY <1>0, <1>1, <1>2
  <2>2. CASE off + w <= Word
    BY <1>1, <1>2, <1>11, <1>13, <2>1, <2>2, NumberAtIs
  <2>3. CASE ~(off + w <= Word)
    <3>1. off + w > Word
      BY <1>0, <1>2, <2>3
    <3>2. /\ WordAt(f2, c2, n) % Pow2[Word - off] = Shr(v, off + w - Word)
          /\ Shr(WordAt(f2, c2, n + 1), Word - (off + w - Word)) = v % Pow2[off + w - Word]
      BY <1>3, <1>4, <1>10, <1>13, <3>1
    <3> QED BY <1>1, <1>2, <2>1, <2>3, <3>2, NumberAtIs
  <2> QED BY <2>2, <2>3
<1>16. ASSUME NEW i \in 1..Len(Append(vs, v))
       PROVE  NumberAt(w, f2, c2, (i - 1) * w, Append(vs, v)[i])
  <2>1. CASE i \in 1..Len(vs)
    <3>1. Append(vs, v)[i] = vs[i]
      BY <1>1, <2>1
    <3> QED BY <1>14, <2>1, <3>1
  <2>2. CASE i = Len(vs) + 1
    <3>1. Append(vs, v)[i] = v /\ i - 1 = Len(vs)
      BY <1>1, <1>2, <2>2
    <3> QED BY <1>15, <3>1
  <2> QED BY <1>2, <1>8, <2>1, <2>2
<1> QED BY <1>1, <1>7, <1>8, <1>9, <1>12, <1>16 DEF Packed

-----------------------------------------------------------------------------
(***************************************************************************)
(* Packed: reading the words that were written.                            *)
(***************************************************************************)
\* Shifting out what is before and behind a number leaves the number.
LEMMA ReadWithin ==
  ASSUME NEW w \in 1..Word, NEW off \in 0..(Word - 1), off + w <= Word, NEW x \in Nat
  PROVE  Shr(Shl(x, off), Word - w) = Shr(x, Word - off - w) % Pow2[w]
<1>0. /\ Word \in Nat /\ w \in 0..Word /\ off \in 0..Word /\ Word - off \in 0..Word
      /\ Word - w \in 0..Word /\ Word - off - w \in 0..Word
      /\ off \in 0..(Word - w) /\ (Word - w) - off = Word - off - w
      /\ w \in 0..(Word - off) /\ (Word - off) - w = Word - off - w
  BY WordAssumption
<1> DEFINE a == Pow2[Word - off - w]  b == Pow2[w]  d == Pow2[off]  y == x % Pow2[Word - off]
<1>1. a \in Nat \ {0} /\ b \in Nat \ {0} /\ d \in Nat \ {0} /\ Pow2[Word - off] \in Nat \ {0}
  BY <1>0, PowType
<1>2. Pow2[Word - w] = d * a /\ Pow2[Word - off] = b * a
  BY <1>0, PowDivides
<1>3. Shl(x, off) = y * d
  BY <1>0, ShlIs
<1>4. y \in Nat
  BY <1>1, DivMod
<1>5. y = x % (a * b)
  <2>1. b * a = a * b
    BY <1>1
  <2> QED BY <1>2, <2>1
<1> HIDE DEF a, b, d, y
<1>6. (y * d) \div (d * a) = y \div a
  <2>1. y * d \in Nat /\ (y * d) \div d = y
    BY <1>1, <1>4, DivOfProduct
  <2>2. ASSUME NEW z \in Nat PROVE (z \div d) \div a = z \div (d * a)
    BY <1>1, DivDiv
  <2> QED BY <2>1, <2>2
<1>7. y \div a = (x \div a) % b
  BY <1>1, <1>5, DivDiv
<1> QED BY <1>2, <1>3, <1>6, <1>7 DEF Shr, a, b

\* The two parts of a number that straddles two words make the number.
LEMMA StraddlingIs ==
  ASSUME NEW w \in 1..Word, NEW off \in 0..(Word - 1), off + w > Word, NEW x \in Nat, NEW y,
         NEW v \in Nat, v < Pow2[w],
         x % Pow2[Word - off] = Shr(v, off + w - Word),
         Shr(y, Word - (off + w - Word)) = v % Pow2[off + w - Word]
  PROVE  Straddling(x, y, off, w) = v
<1> DEFINE s == off + w - Word  d == Pow2[s]  h == v \div d  lo == v % d
<1>0. /\ Word \in Nat /\ w \in 0..Word /\ off \in 0..Word /\ Word - off \in 0..Word
      /\ s \in 0..Word /\ Word - s \in 0..Word /\ w - (Word - off) = s
      /\ Word - off \in 0..(Word - s) /\ Word \in 0..Word /\ w \in 0..Word
  BY WordAssumption
<1>1. /\ d \in Nat \ {0} /\ Pow2[Word - off] \in Nat \ {0} /\ Pow2[Word - s] \in Nat \ {0}
      /\ Pow2[w] \in Nat /\ Pow2[Word] \in Nat
  BY <1>0, PowType
<1>2. h \in Nat /\ lo \in Nat /\ lo < d /\ v = d * h + lo
  BY <1>1, DivMod
<1>3. Shr(Shl(x, off), off) = h
  BY <1>0, ShlShr DEF Shr
<1>4. h < Pow2[Word - off]
  <2>1. x % Pow2[Word - off] < Pow2[Word - off]
    BY <1>1, DivMod
  <2> QED BY <2>1 DEF Shr
<1>5. Pow2[Word - off] <= Pow2[Word - s]
  BY <1>0, PowMonotonic
<1>6. Shl(h, s) = h * d
  <2>1. h < Pow2[Word - s]
    BY <1>1, <1>2, <1>4, <1>5
  <2>2. h % Pow2[Word - s] = h
    BY <1>1, <1>2, <2>1, SmallMod
  <2> HIDE DEF h, s
  <2> QED BY <1>0, <1>2, <2>2, ShlIs
<1>7. Pow2[w] <= Pow2[Word]
  BY <1>0, PowMonotonic
<1>8. Straddling(x, y, off, w) = Or(h * d, lo)
  <2>1. Straddling(x, y, off, w) =
          Or(Shl(Shr(Shl(x, off), off), w - (Word - off)), Shr(y, Word - (w - (Word - off))))
    BY DEF Straddling
  <2>2. Shr(y, Word - s) = lo
    OBVIOUS
  <2> HIDE DEF s, lo, h, d
  <2> QED BY <1>0, <1>3, <1>6, <2>1, <2>2
<1>9. h * d \in Nat /\ h * d < Pow2[Word] /\ (h * d) % d = 0 /\ d * h = h * d
  <2> HIDE DEF s, lo, h, d
  <2>1. h * d \in Nat /\ d * h = h * d
    BY <1>1, <1>2
  <2>2. (h * d) % d = 0
    BY <1>1, <1>2, DivOfProduct
  <2>3. h * d <= v
    BY <1>2, <2>1
  <2> QED BY <1>1, <1>7, <2>1, <2>2, <2>3
<1>10. Or(h * d, lo) = h * d + lo
  <2> DEFINE u == h * d
  <2>1. u \in Nat /\ u < Pow2[Word] /\ u % Pow2[s] = 0 /\ lo < Pow2[s]
    BY <1>2, <1>9
  <2> HIDE DEF u, lo, s
  <2> QED BY <1>0, <1>2, <2>1, OrIs DEF u
<1> QED BY <1>2, <1>8, <1>9, <1>10

\* The words of the file once it is finished.
Written(f, c, off) == IF off = 0 THEN f ELSE Append(f, c)

\* They are those that were packed.
LEMMA WrittenWords ==
  ASSUME NEW S, NEW f \in Seq(S), NEW c \in S, NEW off, NEW ws, ws = Written(f, c, off)
  PROVE  /\ ws \in Seq(S) /\ Len(ws) = IF off = 0 THEN Len(f) ELSE Len(f) + 1
         /\ Len(f) \in Nat /\ Len(ws) \in Nat
         /\ \A k \in Nat : k < Len(ws) => At(ws, k) = WordAt(f, c, k) /\ At(ws, k) \in S
<1>1. CASE off = 0
  BY <1>1 DEF Written, WordAt, At
<1>2. CASE off # 0
  <2>1. ws = Append(f, c)
    BY <1>2 DEF Written
  <2>2. ws \in Seq(S) /\ Len(ws) = Len(f) + 1 /\ Len(f) \in Nat /\ Len(ws) \in Nat
    BY <2>1
  <2>3. ASSUME NEW k \in Nat, k < Len(ws)
        PROVE  At(ws, k) = WordAt(f, c, k) /\ At(ws, k) \in S
    <3>1. k + 1 \in 1..Len(ws)
      BY <2>2, <2>3
    <3>2. CASE k < Len(f)
      BY <2>1, <2>2, <3>1, <3>2 DEF WordAt, At
    <3>3. CASE ~(k < Len(f))
      <4>1. k = Len(f)
        BY <2>2, <2>3, <3>3
      <4> QED BY <2>1, <2>2, <4>1 DEF WordAt, At
    <3> QED BY <3>2, <3>3
  <2> QED BY <1>2, <2>2, <2>3
<1> QED BY <1>1, <1>2

\* A number reads back from the words, in either form.
LEMMA PackedRead ==
  ASSUME NEW w \in 1..Word, NEW f, NEW c, NEW off, NEW vs, Packed(w, f, c, off, vs),
         NEW ws, ws = Written(f, c, off), NEW i \in 1..Len(vs),
         NEW k \in Nat, NEW o \in 0..(Word - 1), (i - 1) * w = Word * k + o
  PROVE  /\ o + w <= Word =>
              /\ k < Len(ws) /\ At(ws, k) \in 0..(Pow2[Word] - 1)
              /\ Shr(Shl(At(ws, k), o), Word - w) = vs[i]
         /\ o + w > Word =>
              /\ k + 1 < Len(ws) /\ At(ws, k) \in 0..(Pow2[Word] - 1)
              /\ At(ws, k + 1) \in 0..(Pow2[Word] - 1)
              /\ Straddling(At(ws, k), At(ws, k + 1), o, w) = vs[i]
<1> DEFINE words == 0..(Pow2[Word] - 1)  n == Len(f)  low == o + w - Word  bit == (i - 1) * w
<1>0. /\ Word \in Nat \ {0} /\ w \in Nat \ {0} /\ w <= Word /\ Word \in 0..Word /\ w \in 0..Word
      /\ Pow2[Word] \in Nat \ {0} /\ Pow2[w] \in Nat \ {0}
  BY WordAssumption, PowType
<1>1. /\ f \in Seq(words) /\ c \in words /\ off \in 0..(Word - 1) /\ vs \in Seq(0..(Pow2[w] - 1))
      /\ n * Word + off = Len(vs) * w /\ NumberAt(w, f, c, bit, vs[i])
  BY DEF Packed
<1>2. /\ Len(ws) = (IF off = 0 THEN n ELSE n + 1) /\ n \in Nat
      /\ \A j \in Nat : j < Len(ws) => At(ws, j) = WordAt(f, c, j) /\ At(ws, j) \in words
  <2> HIDE DEF words
  <2> QED BY <1>1, WrittenWords
<1>3. Len(vs) \in Nat /\ vs[i] \in Nat /\ vs[i] < Pow2[w]
  BY <1>0, <1>1, SMTT(30)
<1>4. Word * k + (o + w) <= n * Word + off
  <2>1. i - 1 \in Nat /\ i \in Nat /\ i <= Len(vs) /\ (i - 1) + 1 = i
    BY <1>3
  <2>2. ASSUME NEW j \in Nat PROVE j * w + w = (j + 1) * w
    BY <1>0
  <2>3. ASSUME NEW a \in Nat, NEW b \in Nat, a <= b PROVE a * w <= b * w
    BY <1>0, <2>3
  <2>4. bit + w = i * w /\ i * w <= Len(vs) * w
    BY <1>3, <2>1, <2>2, <2>3
  <2>5. Word * k \in Nat /\ bit = Word * k + o
    BY <1>0
  <2> HIDE DEF bit
  <2> QED BY <1>0, <1>1, <2>4, <2>5
<1>5. bit = Word * k + o
  OBVIOUS
<1> HIDE DEF bit, words
<1>6. IF o + w <= Word
      THEN Shr(WordAt(f, c, k), Word - o - w) % Pow2[w] = vs[i]
      ELSE /\ WordAt(f, c, k) % Pow2[Word - o] = Shr(vs[i], o + w - Word)
           /\ Shr(WordAt(f, c, k + 1), Word - (o + w - Word)) = vs[i] % Pow2[o + w - Word]
  <2>1. NumberAt(w, f, c, bit, vs[i])
    BY <1>1
  <2> QED BY <1>5, <2>1, NumberAtIs
<1>7. \A x \in words : x \in Nat
  BY <1>0 DEF words
<1>8. ASSUME o + w <= Word
      PROVE  k < Len(ws) /\ At(ws, k) \in words /\ Shr(Shl(At(ws, k), o), Word - w) = vs[i]
  <2>1. o + w \in Nat /\ o + w > 0
    BY <1>0
  <2>2. k <= n /\ (k = n => o + w <= off)
    BY <1>1, <1>2, <1>4, <2>1, WordBefore
  <2>3. k < Len(ws)
    BY <1>0, <1>1, <1>2, <2>1, <2>2
  <2>4. At(ws, k) = WordAt(f, c, k) /\ At(ws, k) \in words /\ At(ws, k) \in Nat
    BY <1>2, <1>7, <2>3
  <2>5. Shr(WordAt(f, c, k), Word - o - w) % Pow2[w] = vs[i]
    BY <1>6, <1>8
  <2> QED BY <1>8, <2>3, <2>4, <2>5, ReadWithin
<1>9. ASSUME o + w > Word
      PROVE  /\ k + 1 < Len(ws) /\ At(ws, k) \in words /\ At(ws, k + 1) \in words
             /\ Straddling(At(ws, k), At(ws, k + 1), o, w) = vs[i]
  <2>1. low \in Nat /\ low > 0 /\ Word * (k + 1) + low <= n * Word + off /\ k + 1 \in Nat
    <3>1. Word * (k + 1) = Word * k + Word /\ Word * k \in Nat
      BY <1>0
    <3> QED BY <1>0, <1>1, <1>2, <1>4, <1>9, <3>1
  <2>2. k + 1 <= n /\ (k + 1 = n => low <= off)
    <3> HIDE DEF low
    <3> QED BY <1>1, <1>2, <2>1, WordBefore
  <2>3. k < Len(ws) /\ k + 1 < Len(ws)
    BY <1>0, <1>1, <1>2, <2>1, <2>2, SMTT(30)
  <2>4. /\ At(ws, k) = WordAt(f, c, k) /\ At(ws, k) \in words /\ At(ws, k) \in Nat
        /\ At(ws, k + 1) = WordAt(f, c, k + 1) /\ At(ws, k + 1) \in words
    BY <1>2, <1>7, <2>1, <2>3
  <2>5. ~(o + w <= Word)
    BY <1>0, <1>9
  <2>6. /\ At(ws, k) % Pow2[Word - o] = Shr(vs[i], o + w - Word)
        /\ Shr(At(ws, k + 1), Word - (o + w - Word)) = vs[i] % Pow2[o + w - Word]
    BY <1>6, <2>4, <2>5
  <2> QED BY <1>3, <1>9, <2>3, <2>4, <2>6, StraddlingIs
<1> QED BY <1>8, <1>9 DEF words

-----------------------------------------------------------------------------
(***************************************************************************)
(* The loops of the model, which are recursive functions: one proof that a *)
(* loop has a solution serves them all.                                    *)
(***************************************************************************)
\* One entry of logarray_stream_entries.
DecodeStep(a, d) ==
  LET next == At(a.words, d.read)
  IN  IF d.offset + a.width <= Word
      THEN [d EXCEPT !.out = Append(@, Shr(Shl(d.current, d.offset), Word - a.width)),
                     !.offset = @ + a.width]
      ELSE [out |-> Append(d.out,
                      IF d.offset = Word THEN Shr(next, Word - a.width)
                      ELSE Straddling(d.current, next, d.offset, a.width)),
            current |-> next,
            offset |-> IF d.offset = Word THEN a.width
                       ELSE a.width - (Word - d.offset),
            read |-> d.read + 1]

\* One entry of CountingPairs.
CountingStep(bs, ns, i, d) ==
  [left |-> IF bs[i] = 1 THEN d.left + 1 ELSE d.left,
   out |-> IF ns[i] = 0 THEN d.out ELSE Append(d.out, <<d.left, ns[i]>>)]

\* One pair of EntriesOf.
Before(ps, i) == IF i = 1 THEN 0 ELSE ps[i - 1][1]
HolesAt(ps, i) == IF ps[i][1] = Before(ps, i) THEN 0 ELSE ps[i][1] - Before(ps, i) - 1
EntriesStep(ps, i, d) ==
  d \o Append([k \in 1..HolesAt(ps, i) |-> <<Before(ps, i) + k, 0>>], ps[i])

\* A round of a loop, and all of its rounds.
LoopStep(loop, x, y, i, d) ==
  CASE loop = "decode" -> DecodeStep(x, d)
    [] loop = "zeros" -> LogPush(d, 0)
    [] loop = "bits" -> BitPush(d, x[i])
    [] loop = "counting" -> CountingStep(x, y, i, d)
    [] loop = "entries" -> EntriesStep(x, i, d)
    [] loop = "sum" -> d + x[i]
LoopIs(f, loop, x, y, start, n) ==
  f = [i \in 0..n |-> IF i = 0 THEN start ELSE LoopStep(loop, x, y, i, f[i - 1])]
LoopRuns(f, loop, x, y, start, n) ==
  /\ f[0] = start
  /\ \A i \in Nat : i + 1 <= n => f[i + 1] = LoopStep(loop, x, y, i + 1, f[i])

\* A loop has a solution, and its values are those of its rounds.
LEMMA Loops ==
  ASSUME NEW loop, NEW x, NEW y, NEW start, NEW n \in Nat
  PROVE  /\ \E f : LoopIs(f, loop, x, y, start, n)
         /\ \A f : LoopIs(f, loop, x, y, start, n) => LoopRuns(f, loop, x, y, start, n)
<1> DEFINE Round(i, d) == LoopStep(loop, x, y, i, d)
           Is(f, m) == LoopIs(f, loop, x, y, start, m)
           T == {m \in Nat : \E f : Is(f, m)}
<1>0. ASSUME NEW f, NEW m \in Nat, Is(f, m)
      PROVE  \A i \in 0..m : f[i] = IF i = 0 THEN start ELSE Round(i, f[i - 1])
  BY <1>0 DEF LoopIs
<1>1. 0 \in T
  <2>1. Is([i \in 0..0 |-> start], 0)
    BY DEF LoopIs
  <2> QED BY <2>1
<1>2. ASSUME NEW m \in T PROVE m + 1 \in T
  <2>1. PICK f : Is(f, m)
    OBVIOUS
  <2> DEFINE g == [i \in 0..(m + 1) |-> IF i = m + 1 THEN Round(m + 1, f[m]) ELSE f[i]]
  <2>2. \A i \in 0..m : f[i] = IF i = 0 THEN start ELSE Round(i, f[i - 1])
    BY <1>0, <2>1
  <2>3. ASSUME NEW i \in 0..(m + 1)
        PROVE  g[i] = IF i = 0 THEN start ELSE Round(i, g[i - 1])
    <3>1. CASE i = m + 1
      <4>1. i # 0 /\ i - 1 = m /\ m \in 0..(m + 1) /\ m # m + 1
        BY <3>1
      <4> QED BY <3>1, <4>1
    <3>2. CASE i # m + 1
      <4>1. i \in 0..m /\ (i # 0 => i - 1 \in 0..(m + 1) /\ i - 1 # m + 1)
        BY <3>2
      <4> QED BY <2>2, <3>2, <4>1
    <3> QED BY <3>1, <3>2
  <2>4. g = [i \in 0..(m + 1) |-> g[i]]
    OBVIOUS
  <2> HIDE DEF g
  <2>5. Is(g, m + 1)
    BY <2>3, <2>4 DEF LoopIs
  <2> QED BY <2>5
<1>3. T \in SUBSET Nat
  OBVIOUS
<1> HIDE DEF T
<1>4. T = Nat
  BY <1>1, <1>2, <1>3, AllNat
<1>5. \E f : Is(f, n)
  BY <1>4 DEF T
<1>6. ASSUME NEW f, Is(f, n)
      PROVE  LoopRuns(f, loop, x, y, start, n)
  <2>1. \A i \in 0..n : f[i] = IF i = 0 THEN start ELSE Round(i, f[i - 1])
    BY <1>0, <1>6
  <2>2. ASSUME NEW i \in Nat, i + 1 <= n PROVE f[i + 1] = Round(i + 1, f[i])
    <3>1. i + 1 \in 0..n /\ i + 1 # 0 /\ (i + 1) - 1 = i
      BY <2>2
    <3> QED BY <2>1, <3>1
  <2> QED BY <2>1, <2>2 DEF LoopRuns
<1> QED BY <1>5, <1>6

\* The loop of logarray_stream_entries.
LEMMA DecodeLoop ==
  ASSUME NEW a, NEW n \in Nat, n = a.len
  PROVE  \E f : /\ StreamEntries(a) = f[n].out
                /\ f[0] = [out |-> <<>>, current |-> 0, offset |-> Word, read |-> 0]
                /\ \A i \in Nat : i + 1 <= n => f[i + 1] = DecodeStep(a, f[i])
<1> DEFINE start == [out |-> <<>>, current |-> 0, offset |-> Word, read |-> 0]
           Is(f) == f = [i \in 0..n |-> IF i = 0 THEN start ELSE DecodeStep(a, f[i - 1])]
<1>1. StreamEntries(a) = (CHOOSE f : Is(f))[n].out
  BY DEF StreamEntries, DecodeStep
<1>2. \A i, d : LoopStep("decode", a, a, i, d) = DecodeStep(a, d)
  BY DEF LoopStep
<1>3. \A f : Is(f) <=> LoopIs(f, "decode", a, a, start, n)
  BY <1>2 DEF LoopIs
<1> HIDE DEF Is, start
<1>4. \E f : Is(f)
  BY <1>3, Loops
<1>5. PICK f : Is(f) /\ StreamEntries(a) = f[n].out
  BY <1>1, <1>4
<1>6. LoopIs(f, "decode", a, a, start, n)
  BY <1>3, <1>5
<1>7. LoopRuns(f, "decode", a, a, start, n)
  BY <1>6, Loops
<1> QED BY <1>2, <1>5, <1>7 DEF start, LoopRuns

\* The loop of LogPushZeros.
LEMMA ZerosLoop ==
  ASSUME NEW b, NEW n0, NEW n \in Nat, n = n0
  PROVE  \E f : /\ LogPushZeros(b, n0) = f[n]
                /\ f[0] = b
                /\ \A i \in Nat : i + 1 <= n => f[i + 1] = LogPush(f[i], 0)
<1> DEFINE start == b
           Is(f) == f = [i \in 0..n |-> IF i = 0 THEN start ELSE LogPush(f[i - 1], 0)]
<1>1. LogPushZeros(b, n0) = (CHOOSE f : Is(f))[n]
  BY DEF LogPushZeros
<1>2. \A i, d : LoopStep("zeros", b, b, i, d) = LogPush(d, 0)
  BY DEF LoopStep
<1>3. \A f : Is(f) <=> LoopIs(f, "zeros", b, b, start, n)
  BY <1>2 DEF LoopIs
<1> HIDE DEF Is, start
<1>4. \E f : Is(f)
  BY <1>3, Loops
<1>5. PICK f : Is(f) /\ LogPushZeros(b, n0) = f[n]
  BY <1>1, <1>4
<1>6. LoopIs(f, "zeros", b, b, start, n)
  BY <1>3, <1>5
<1>7. LoopRuns(f, "zeros", b, b, start, n)
  BY <1>6, Loops
<1> QED BY <1>2, <1>5, <1>7 DEF start, LoopRuns

\* The loop of push_all.
BitsRun(f, b, bs, n) ==
  /\ BitPushAll(b, bs) = f[n] /\ f[0] = b
  /\ \A i \in Nat : i + 1 <= n => f[i + 1] = BitPush(f[i], bs[i + 1])

\* It is run.
LEMMA BitsLoop ==
  ASSUME NEW b, NEW bs, NEW n \in Nat, n = Len(bs)
  PROVE  \E f : BitsRun(f, b, bs, n)
<1> DEFINE start == b
           Is(f) == f = [i \in 0..n |-> IF i = 0 THEN start ELSE BitPush(f[i - 1], bs[i])]
<1>1. BitPushAll(b, bs) = (CHOOSE f : Is(f))[n]
  BY DEF BitPushAll
<1>2. \A i, d : LoopStep("bits", bs, bs, i, d) = BitPush(d, bs[i])
  BY DEF LoopStep
<1>3. \A f : Is(f) <=> LoopIs(f, "bits", bs, bs, start, n)
  BY <1>2 DEF LoopIs
<1> HIDE DEF Is, start
<1>4. \E f : Is(f)
  BY <1>3, Loops
<1>5. PICK f : Is(f) /\ BitPushAll(b, bs) = f[n]
  BY <1>1, <1>4
<1>6. LoopIs(f, "bits", bs, bs, start, n)
  BY <1>3, <1>5
<1>7. LoopRuns(f, "bits", bs, bs, start, n)
  BY <1>6, Loops
<1> QED BY <1>2, <1>5, <1>7 DEF start, LoopRuns, BitsRun

\* The loop of CountingPairs.
CountingRun(f, bs, ns, n) ==
  /\ CountingPairs(bs, ns) = f[n].out
  /\ f[0] = [left |-> 1, out |-> <<>>]
  /\ \A i \in Nat : i + 1 <= n => f[i + 1] = CountingStep(bs, ns, i + 1, f[i])

\* It is run.
LEMMA CountingLoop ==
  ASSUME NEW bs, NEW ns, NEW n \in Nat, n = Len(bs)
  PROVE  \E f : CountingRun(f, bs, ns, n)
<1> DEFINE start == [left |-> 1, out |-> <<>>]
           Is(f) == f = [i \in 0..n |-> IF i = 0 THEN start ELSE CountingStep(bs, ns, i, f[i - 1])]
<1>1. CountingPairs(bs, ns) = (CHOOSE f : Is(f))[n].out
  BY DEF CountingPairs, CountingStep
<1>2. \A i, d : LoopStep("counting", bs, ns, i, d) = CountingStep(bs, ns, i, d)
  BY DEF LoopStep
<1>3. \A f : Is(f) <=> LoopIs(f, "counting", bs, ns, start, n)
  BY <1>2 DEF LoopIs
<1> HIDE DEF Is, start
<1>4. \E f : Is(f)
  BY <1>3, Loops
<1>5. PICK f : Is(f) /\ CountingPairs(bs, ns) = f[n].out
  BY <1>1, <1>4
<1>6. LoopIs(f, "counting", bs, ns, start, n)
  BY <1>3, <1>5
<1>7. LoopRuns(f, "counting", bs, ns, start, n)
  BY <1>6, Loops
<1> QED BY <1>2, <1>5, <1>7 DEF start, LoopRuns, CountingRun

\* The loop of EntriesOf.
EntriesRun(f, ps, n) ==
  /\ EntriesOf(ps) = f[n] /\ f[0] = <<>>
  /\ \A i \in Nat : i + 1 <= n => f[i + 1] = EntriesStep(ps, i + 1, f[i])

\* It is run.
LEMMA EntriesLoop ==
  ASSUME NEW ps, NEW n \in Nat, n = Len(ps)
  PROVE  \E f : EntriesRun(f, ps, n)
<1> DEFINE start == <<>>
           Is(f) == f = [i \in 0..n |-> IF i = 0 THEN start ELSE EntriesStep(ps, i, f[i - 1])]
<1>1. EntriesOf(ps) = (CHOOSE f : Is(f))[n]
  BY DEF EntriesOf, EntriesStep, Before, HolesAt
<1>2. \A i, d : LoopStep("entries", ps, ps, i, d) = EntriesStep(ps, i, d)
  BY DEF LoopStep
<1>3. \A f : Is(f) <=> LoopIs(f, "entries", ps, ps, start, n)
  BY <1>2 DEF LoopIs
<1> HIDE DEF Is, start
<1>4. \E f : Is(f)
  BY <1>3, Loops
<1>5. PICK f : Is(f) /\ EntriesOf(ps) = f[n]
  BY <1>1, <1>4
<1>6. LoopIs(f, "entries", ps, ps, start, n)
  BY <1>3, <1>5
<1>7. LoopRuns(f, "entries", ps, ps, start, n)
  BY <1>6, Loops
<1> QED BY <1>2, <1>5, <1>7 DEF start, LoopRuns, EntriesRun

\* The loop of Sum.
SumRun(f, s, n) ==
  /\ Sum(s) = f[n] /\ f[0] = 0
  /\ \A i \in Nat : i + 1 <= n => f[i + 1] = f[i] + s[i + 1]

\* It is run.
LEMMA SumLoop ==
  ASSUME NEW s, NEW n \in Nat, n = Len(s)
  PROVE  \E f : SumRun(f, s, n)
<1> DEFINE start == 0
           Is(f) == f = [i \in 0..n |-> IF i = 0 THEN start ELSE f[i - 1] + s[i]]
<1>1. Sum(s) = (CHOOSE f : Is(f))[n]
  BY DEF Sum
<1>2. \A i, d : LoopStep("sum", s, s, i, d) = d + s[i]
  BY DEF LoopStep
<1>3. \A f : Is(f) <=> LoopIs(f, "sum", s, s, start, n)
  BY <1>2 DEF LoopIs
<1> HIDE DEF Is, start
<1>4. \E f : Is(f)
  BY <1>3, Loops
<1>5. PICK f : Is(f) /\ Sum(s) = f[n]
  BY <1>1, <1>4
<1>6. LoopIs(f, "sum", s, s, start, n)
  BY <1>3, <1>5
<1>7. LoopRuns(f, "sum", s, s, start, n)
  BY <1>6, Loops
<1> QED BY <1>2, <1>5, <1>7 DEF start, LoopRuns, SumRun

-----------------------------------------------------------------------------
(***************************************************************************)
(* The numbers of a log array whose words are packed.                      *)
(***************************************************************************)
\* a is the array that finalize leaves of packed numbers.
ArrayOf(a, w, f, c, off, vs) ==
  /\ w \in 1..Word /\ Packed(w, f, c, off, vs)
  /\ a = [first |-> 0, len |-> Len(vs), width |-> w, words |-> Written(f, c, off)]

\* What is known of the array and the numbers.
LEMMA ArrayFacts ==
  ASSUME NEW a, NEW w, NEW f, NEW c, NEW off, NEW vs, ArrayOf(a, w, f, c, off, vs)
  PROVE  /\ a.first = 0 /\ a.len = Len(vs) /\ a.width = w /\ a.words = Written(f, c, off)
         /\ w \in 1..Word /\ w \in Nat \ {0} /\ Len(vs) \in Nat /\ Packed(w, f, c, off, vs)
         /\ vs \in Seq(0..(Pow2[w] - 1)) /\ off \in 0..(Word - 1) /\ Len(f) \in Nat
         /\ Len(f) * Word + off = Len(vs) * w
         /\ Len(a.words) = IF off = 0 THEN Len(f) ELSE Len(f) + 1
<1>1. /\ w \in 1..Word /\ Packed(w, f, c, off, vs)
      /\ a = [first |-> 0, len |-> Len(vs), width |-> w, words |-> Written(f, c, off)]
  BY DEF ArrayOf
<1> DEFINE words == 0..(Pow2[Word] - 1)
<1>2. /\ f \in Seq(words) /\ c \in words /\ vs \in Seq(0..(Pow2[w] - 1)) /\ off \in 0..(Word - 1)
      /\ Len(f) * Word + off = Len(vs) * w
  BY <1>1 DEF Packed
<1> HIDE DEF words
<1>3. Len(f) \in Nat /\ Len(vs) \in Nat
  BY <1>2
<1>4. Len(Written(f, c, off)) = IF off = 0 THEN Len(f) ELSE Len(f) + 1
  BY <1>2, WrittenWords
<1> QED BY <1>1, <1>2, <1>3, <1>4, WordAssumption

\* The file has the size that parse checks.
LEMMA SizeIsValid ==
  ASSUME NEW a, NEW w, NEW f, NEW c, NEW off, NEW vs, ArrayOf(a, w, f, c, off, vs)
  PROVE  ValidSize(a)
<1> DEFINE n == Len(f)
<1>1. /\ a.len = Len(vs) /\ a.width = w /\ off \in 0..(Word - 1) /\ n \in Nat
      /\ n * Word + off = Len(vs) * w /\ Word \in Nat \ {0}
      /\ Len(a.words) = IF off = 0 THEN n ELSE n + 1
  BY ArrayFacts, WordAssumption
<1> HIDE DEF n
<1>2. CASE off = 0
  <2>1. n * Word + off + 2 * Word - 1 = Word * (n + 1) + (Word - 1) /\ n * Word \in Nat
    BY <1>1, <1>2
  <2>2. (Word * (n + 1) + (Word - 1)) \div Word = n + 1
    <3>1. n + 1 \in Nat /\ Word - 1 \in Nat /\ Word - 1 < Word
      BY <1>1
    <3> QED BY <1>1, <3>1, DivModUnique
  <2> QED BY <1>1, <1>2, <2>1, <2>2 DEF ValidSize
<1>3. CASE off # 0
  <2>1. n * Word + off + 2 * Word - 1 = Word * (n + 2) + (off - 1) /\ n * Word \in Nat
    BY <1>1, <1>3
  <2>2. (Word * (n + 2) + (off - 1)) \div Word = n + 2
    <3>1. n + 2 \in Nat /\ off - 1 \in Nat /\ off - 1 < Word
      BY <1>1, <1>3
    <3> QED BY <1>1, <3>1, DivModUnique
  <2> QED BY <1>1, <1>3, <2>1, <2>2, SMTT(30) DEF ValidSize
<1> QED BY <1>2, <1>3

\* The iterator gives the numbers.
LEMMA IterReads ==
  ASSUME NEW a, NEW w, NEW f, NEW c, NEW off, NEW vs, ArrayOf(a, w, f, c, off, vs)
  PROVE  Iter(a) = vs /\ \A i \in 1..Len(vs) : Entry(a, i - 1) = vs[i]
<1> DEFINE ws == a.words
<1>1. /\ a.first = 0 /\ a.len = Len(vs) /\ a.width = w /\ ws = Written(f, c, off)
      /\ w \in 1..Word /\ w \in Nat \ {0} /\ Len(vs) \in Nat /\ Packed(w, f, c, off, vs)
      /\ vs \in Seq(0..(Pow2[w] - 1)) /\ Word \in Nat \ {0}
  BY ArrayFacts, WordAssumption
<1>2. ASSUME NEW i \in 1..Len(vs) PROVE Entry(a, i - 1) = vs[i]
  <2> DEFINE bit == w * (0 + (i - 1))  k == bit \div Word  o == bit % Word
  <2>1. i - 1 \in Nat /\ bit \in Nat /\ bit = (i - 1) * w
    BY <1>1
  <2>2. Entry(a, i - 1) = IF o + w <= Word THEN Shr(Shl(At(ws, k), o), Word - w)
                          ELSE Straddling(At(ws, k), At(ws, k + 1), o, w)
    BY <1>1 DEF Entry
  <2> HIDE DEF bit, ws
  <2>3. k \in Nat /\ o \in 0..(Word - 1) /\ bit = Word * k + o
    BY <1>1, <2>1, DivMod
  <2> HIDE DEF k, o
  <2>4. (i - 1) * w = Word * k + o
    BY <2>1, <2>3
  <2>5. /\ o + w <= Word => Shr(Shl(At(ws, k), o), Word - w) = vs[i]
        /\ o + w > Word => Straddling(At(ws, k), At(ws, k + 1), o, w) = vs[i]
    <3>1. /\ ws = Written(f, c, off) /\ w \in 1..Word /\ Packed(w, f, c, off, vs)
          /\ k \in Nat /\ o \in 0..(Word - 1)
      BY <1>1, <2>3
    <3> QED BY <2>4, <3>1, PackedRead
  <2>6. o + w <= Word \/ o + w > Word
    BY <1>1, <2>3
  <2> QED BY <2>2, <2>5, <2>6
<1>3. Iter(a) = [i \in 1..Len(vs) |-> vs[i]]
  BY <1>1, <1>2 DEF Iter
<1>4. vs = [i \in 1..Len(vs) |-> vs[i]]
  BY <1>1
<1> QED BY <1>2, <1>3, <1>4

\* The decoder has read n numbers: the words up to the one it is in, and it is in this
\* one at the bit where the next number begins.
Decoded(ws, w, vs, n, d) ==
  /\ d \in [out : Seq(Nat), current : Nat, offset : 1..Word, read : Nat]
  /\ Len(d.out) = n /\ \A i \in 1..n : d.out[i] = vs[i]
  /\ d.read * Word + d.offset = n * w + Word
  /\ d.read # 0 => d.current = At(ws, d.read - 1)

\* One more number.
LEMMA DecodeOneMore ==
  ASSUME NEW a, NEW w, NEW f, NEW c, NEW off, NEW vs, ArrayOf(a, w, f, c, off, vs),
         NEW n \in Nat, n + 1 <= Len(vs), NEW d, Decoded(a.words, w, vs, n, d)
  PROVE  Decoded(a.words, w, vs, n + 1, DecodeStep(a, d))
<1> DEFINE ws == a.words  words == 0..(Pow2[Word] - 1)  v == vs[n + 1]  e == DecodeStep(a, d)
<1>0. /\ Word \in Nat \ {0} /\ Word \in 0..Word /\ Pow2[Word] \in Nat \ {0}
  BY WordAssumption, PowType
<1>1. /\ a.first = 0 /\ a.len = Len(vs) /\ a.width = w /\ ws = Written(f, c, off)
      /\ w \in 1..Word /\ w \in Nat \ {0} /\ w <= Word /\ Len(vs) \in Nat
      /\ Packed(w, f, c, off, vs) /\ vs \in Seq(0..(Pow2[w] - 1))
  BY <1>0, ArrayFacts
<1>2. /\ d \in [out : Seq(Nat), current : Nat, offset : 1..Word, read : Nat]
      /\ Len(d.out) = n /\ \A i \in 1..n : d.out[i] = vs[i]
      /\ d.read * Word + d.offset = n * w + Word
      /\ d.read # 0 => d.current = At(ws, d.read - 1)
  BY DEF Decoded
<1> DEFINE q == d.offset  r == d.read
<1>3. /\ q \in 1..Word /\ r \in Nat /\ d.out \in Seq(Nat) /\ d.current \in Nat
      /\ q \in Nat /\ q > 0 /\ q <= Word /\ n * w \in Nat /\ r * Word \in Nat
      /\ (n + 1) * w = n * w + w /\ (r + 1) * Word = r * Word + Word
      /\ r * Word + q = n * w + Word
  <2>1. q \in 1..Word /\ r \in Nat /\ d.out \in Seq(Nat) /\ d.current \in Nat
    BY <1>2
  <2>2. r * Word + q = n * w + Word
    BY <1>2
  <2> HIDE DEF q, r
  <2>3. n * w \in Nat /\ r * Word \in Nat
    BY <1>0, <1>1, <2>1
  <2>4. (n + 1) * w = n * w + w
    BY <1>0, <1>1
  <2>5. (r + 1) * Word = r * Word + Word
    BY <1>0, <2>1
  <2> QED BY <1>0, <2>1, <2>2, <2>3, <2>4, <2>5
<1>4. n + 1 \in 1..Len(vs) /\ (n + 1) - 1 = n /\ v \in Nat
  <2>1. n + 1 \in 1..Len(vs) /\ (n + 1) - 1 = n
    BY <1>1
  <2>2. v \in 0..(Pow2[w] - 1)
    <3> DEFINE S == 0..(Pow2[w] - 1)
    <3>1. vs \in Seq(S)
      BY <1>1
    <3> HIDE DEF S
    <3>2. v \in S
      BY <2>1, <3>1
    <3> QED BY <3>2 DEF S
  <2> QED BY <2>1, <2>2, <1>0, <1>1, PowType
<1>5. e = LET next == At(ws, r)
          IN  IF q + w <= Word
              THEN [d EXCEPT !.out = Append(@, Shr(Shl(d.current, q), Word - w)), !.offset = @ + w]
              ELSE [out |-> Append(d.out, IF q = Word THEN Shr(next, Word - w)
                                          ELSE Straddling(d.current, next, q, w)),
                    current |-> next,
                    offset |-> IF q = Word THEN w ELSE w - (Word - q),
                    read |-> r + 1]
  BY <1>1 DEF DecodeStep
<1> HIDE DEF ws, v, e, q, r
<1>6. /\ Append(d.out, v) \in Seq(Nat) /\ Len(Append(d.out, v)) = n + 1
      /\ \A i \in 1..(n + 1) : Append(d.out, v)[i] = vs[i]
  <2>1. Append(d.out, v) \in Seq(Nat) /\ Len(Append(d.out, v)) = n + 1
    BY <1>2, <1>3, <1>4
  <2>2. ASSUME NEW i \in 1..(n + 1) PROVE Append(d.out, v)[i] = vs[i]
    <3>1. CASE i = n + 1
      BY <1>2, <1>3, <1>4, <3>1 DEF v
    <3>2. CASE i # n + 1
      <4>1. i \in 1..n
        BY <3>2
      <4> QED BY <1>2, <1>3, <1>4, <4>1
    <3> QED BY <3>1, <3>2
  <2> QED BY <2>1, <2>2
<1>7. CASE q + w <= Word
  <2>1. q < Word /\ q \in 0..(Word - 1)
    BY <1>0, <1>1, <1>3, <1>7
  <2>2. r # 0
    <3>1. ASSUME r = 0 PROVE FALSE
      <4>1. r * Word = 0
        BY <1>0, <3>1
      <4> QED BY <1>0, <1>2, <1>3, <2>1, <4>1 DEF q, r
    <3> QED BY <3>1
  <2>3. r - 1 \in Nat /\ n * w = Word * (r - 1) + q
    <3>1. r - 1 \in Nat /\ Word * (r - 1) + Word = r * Word /\ Word * (r - 1) \in Nat
      BY <1>0, <1>3, <2>2
    <3> QED BY <1>0, <1>3, <3>1
  <2>4. Shr(Shl(At(ws, r - 1), q), Word - w) = v
    <3>1. ((n + 1) - 1) * w = Word * (r - 1) + q
      BY <1>4, <2>3
    <3> QED BY <1>1, <1>4, <1>7, <2>1, <2>3, <3>1, PackedRead DEF v
  <2>5. d.current = At(ws, r - 1)
    BY <1>2, <2>2 DEF r
  <2>6. e = [d EXCEPT !.out = Append(@, v), !.offset = @ + w]
    BY <1>5, <1>7, <2>4, <2>5
  <2>7. /\ e.out = Append(d.out, v) /\ e.offset = q + w /\ e.read = r /\ e.current = d.current
        /\ e \in [out : Seq(Nat), current : Nat, offset : 1..Word, read : Nat]
    <3>1. q + w \in 1..Word
      BY <1>0, <1>1, <1>3, <1>7
    <3> QED BY <1>2, <1>3, <1>6, <2>6, <3>1 DEF q, r
  <2>8. r * Word + (q + w) = (n + 1) * w + Word
    BY <1>0, <1>1, <1>3
  <2> QED BY <1>6, <2>5, <2>7, <2>8 DEF Decoded, e, ws
<1>8. CASE ~(q + w <= Word)
  <2> DEFINE next == At(ws, r)  x == IF q = Word THEN Shr(next, Word - w)
                                     ELSE Straddling(d.current, next, q, w)
  <2>1. e = [out |-> Append(d.out, x), current |-> next,
             offset |-> IF q = Word THEN w ELSE w - (Word - q), read |-> r + 1]
    BY <1>5, <1>8
  <2>2. x = v /\ next \in words
    <3>1. CASE q = Word
      <4>1. n * w = Word * r + 0
        BY <1>0, <1>3, <3>1, SMTT(30)
      <4>2. ((n + 1) - 1) * w = Word * r + 0 /\ 0 \in 0..(Word - 1) /\ 0 + w <= Word
        BY <1>0, <1>1, <1>4, <4>1
      <4>3. next \in words /\ Shr(Shl(next, 0), Word - w) = v
        BY <1>1, <1>3, <1>4, <4>2, PackedRead DEF v
      <4>4. Shl(next, 0) = next
        <5>1. next \in Nat /\ next < Pow2[Word]
          BY <1>0, <4>3
        <5>2. next * Pow2[0] = next
          BY <5>1, PowFacts
        <5> QED BY <1>0, <5>1, <5>2, SmallMod DEF Shl
      <4> QED BY <3>1, <4>3, <4>4
    <3>2. CASE q # Word
      <4>1. q \in 0..(Word - 1) /\ q < Word /\ q + w > Word
        BY <1>0, <1>1, <1>3, <1>8, <3>2
      <4>2. r # 0
        <5>1. ASSUME r = 0 PROVE FALSE
          <6>1. r * Word = 0
            BY <1>0, <5>1
          <6> QED BY <1>0, <1>2, <1>3, <4>1, <6>1 DEF q, r
        <5> QED BY <5>1
      <4>3. r - 1 \in Nat /\ (r - 1) + 1 = r /\ n * w = Word * (r - 1) + q
        <5>1. r - 1 \in Nat /\ Word * (r - 1) + Word = r * Word /\ Word * (r - 1) \in Nat
          BY <1>0, <1>3, <4>2
        <5> QED BY <1>0, <1>3, <5>1
      <4>4. ((n + 1) - 1) * w = Word * (r - 1) + q
        BY <1>4, <4>3
      <4>5. /\ Straddling(At(ws, r - 1), At(ws, (r - 1) + 1), q, w) = v
            /\ At(ws, (r - 1) + 1) \in words
        BY <1>1, <1>4, <4>1, <4>3, <4>4, PackedRead DEF v
      <4>6. d.current = At(ws, r - 1)
        BY <1>2, <4>2 DEF r
      <4> QED BY <3>2, <4>3, <4>5, <4>6
    <3> QED BY <3>1, <3>2
  <2>3. next \in Nat
    BY <1>0, <2>2
  <2> HIDE DEF x, next
  <2> DEFINE o == IF q = Word THEN w ELSE w - (Word - q)
  <2>4. o \in 1..Word /\ (r + 1) * Word + o = (n + 1) * w + Word
    BY <1>0, <1>1, <1>3, <1>8
  <2> HIDE DEF o
  <2>5. e = [out |-> Append(d.out, v), current |-> next, offset |-> o, read |-> r + 1]
    BY <2>1, <2>2 DEF o
  <2>6. /\ e.out = Append(d.out, v) /\ e.offset = o /\ e.read = r + 1 /\ e.current = next
        /\ e \in [out : Seq(Nat), current : Nat, offset : 1..Word, read : Nat]
    BY <1>3, <1>6, <2>3, <2>4, <2>5
  <2>7. (r + 1) - 1 = r
    BY <1>3
  <2> QED BY <1>6, <2>4, <2>6, <2>7 DEF Decoded, e, ws, next
<1> QED BY <1>7, <1>8

\* logarray_stream_entries gives the numbers.
LEMMA StreamReads ==
  ASSUME NEW a, NEW w, NEW f, NEW c, NEW off, NEW vs, ArrayOf(a, w, f, c, off, vs)
  PROVE  StreamEntries(a) = vs
<1>1. a.len = Len(vs) /\ Len(vs) \in Nat /\ vs \in Seq(0..(Pow2[w] - 1)) /\ w \in Nat
  BY ArrayFacts
<1> DEFINE N == Len(vs)
<1>2. PICK g : /\ StreamEntries(a) = g[N].out
               /\ g[0] = [out |-> <<>>, current |-> 0, offset |-> Word, read |-> 0]
               /\ \A i \in Nat : i + 1 <= N => g[i + 1] = DecodeStep(a, g[i])
  BY <1>1, DecodeLoop
<1> DEFINE T == {n \in Nat : n <= N => Decoded(a.words, w, vs, n, g[n])}
<1>3. 0 \in T
  <2>1. /\ g[0] \in [out : Seq(Nat), current : Nat, offset : 1..Word, read : Nat]
        /\ g[0].out = <<>> /\ g[0].offset = Word /\ g[0].read = 0
    BY <1>2, WordAssumption
  <2>2. 0 * Word + Word = 0 * w + Word
    BY <1>1, WordAssumption
  <2> QED BY <2>1, <2>2 DEF Decoded
<1>4. ASSUME NEW n \in T PROVE n + 1 \in T
  <2> SUFFICES ASSUME n + 1 <= N PROVE Decoded(a.words, w, vs, n + 1, g[n + 1])
    OBVIOUS
  <2>1. n \in Nat /\ Decoded(a.words, w, vs, n, g[n])
    BY <1>1
  <2>2. g[n + 1] = DecodeStep(a, g[n])
    BY <1>2, <2>1
  <2> QED BY <2>1, <2>2, DecodeOneMore
<1>5. T \in SUBSET Nat
  OBVIOUS
<1> HIDE DEF T
<1>6. T = Nat
  BY <1>3, <1>4, <1>5, AllNat
<1>7. Decoded(a.words, w, vs, N, g[N])
  BY <1>1, <1>6 DEF T
<1>8. g[N].out \in Seq(Nat) /\ Len(g[N].out) = N /\ \A i \in 1..N : g[N].out[i] = vs[i]
  BY <1>7 DEF Decoded
<1> HIDE DEF N
<1>9. ASSUME NEW s, s \in Seq(Nat), Len(s) = N, \A i \in 1..N : s[i] = vs[i] PROVE s = vs
  <2>1. s = [i \in 1..N |-> s[i]]
    BY <1>9
  <2>2. vs = [i \in 1..N |-> vs[i]]
    BY <1>1 DEF N
  <2> QED BY <1>9, <2>1, <2>2
<1> QED BY <1>2, <1>8, <1>9

-----------------------------------------------------------------------------
(***************************************************************************)
(* The two builders.                                                       *)
(***************************************************************************)
\* The builders hold the numbers or bits vs.
LogHolds(b, vs) ==
  /\ b = [width |-> Width, file |-> b.file, current |-> b.current, offset |-> b.offset,
          count |-> Len(vs)]
  /\ Packed(Width, b.file, b.current, b.offset, vs)

BitHolds(b, vs) ==
  /\ b = [file |-> b.file, current |-> b.current, count |-> Len(vs)]
  /\ Packed(1, b.file, b.current, Len(vs) % Word, vs)

\* The numbers that fit in w bits.
Below(w) == 0..(Pow2[w] - 1)

\* The type of packed numbers.
LEMMA PackedType ==
  ASSUME NEW w, NEW f, NEW c, NEW off, NEW vs, Packed(w, f, c, off, vs)
  PROVE  vs \in Seq(Below(w)) /\ Len(vs) \in Nat /\ off \in 0..(Word - 1) /\ Len(f) \in Nat
         /\ Len(f) * Word + off = Len(vs) * w
<1> DEFINE words == 0..(Pow2[Word] - 1)
<1>1. /\ f \in Seq(words) /\ vs \in Seq(Below(w)) /\ off \in 0..(Word - 1)
      /\ Len(f) * Word + off = Len(vs) * w
  BY DEF Packed, Below
<1> HIDE DEF words
<1>2. Len(f) \in Nat /\ Len(vs) \in Nat
  BY <1>1
<1> QED BY <1>1, <1>2

\* The builder of a log array, field by field.
Rec(w, x, y, z, c) == [width |-> w, file |-> x, current |-> y, offset |-> z, count |-> c]

\* It is known by its fields.
LEMMA RecIs ==
  ASSUME NEW w, NEW x, NEW y, NEW z, NEW c, NEW S, NEW e,
         w \in S, x \in S, y \in S, z \in S, c \in S,
         e \in [width : S, file : S, current : S, offset : S, count : S],
         e.width = w /\ e.file = x /\ e.current = y /\ e.offset = z /\ e.count = c
  PROVE  e = Rec(w, x, y, z, c)
  BY DEF Rec

\* A push that stays in the word, and one that fills it.
InWord(p, y1, z1) == [p EXCEPT !.current = y1, !.offset = z1]
NextWord(p, v, y1, z1) == [p EXCEPT !.file = Append(@, v), !.offset = z1, !.current = y1]

\* What the first one changes.
LEMMA TwoFields ==
  ASSUME NEW w, NEW x, NEW y, NEW z, NEW c, NEW y1, NEW z1, NEW p, p = Rec(w, x, y, z, c)
  PROVE  InWord(p, y1, z1) = Rec(w, x, y1, z1, c)
<1> DEFINE S == {w, x, y, z, c, y1, z1}  e == [p EXCEPT !.current = y1, !.offset = z1]
<1>1. w \in S /\ x \in S /\ y \in S /\ z \in S /\ c \in S /\ y1 \in S /\ z1 \in S
  OBVIOUS
<1> HIDE DEF S
<1>2. e \in [width : S, file : S, current : S, offset : S, count : S]
  BY <1>1 DEF Rec
<1>3.  e.width = w /\ e.file = x /\ e.current = y1 /\ e.offset = z1 /\ e.count = c
  BY <1>1 DEF Rec
<1> HIDE DEF e
<1>4. e = Rec(w, x, y1, z1, c)
  BY <1>1, <1>2, <1>3, RecIs
<1> QED BY <1>4 DEF e, InWord

\* What the second one changes.
LEMMA ThreeFields ==
  ASSUME NEW w, NEW x, NEW y, NEW z, NEW c, NEW y1, NEW z1, NEW v, NEW p, p = Rec(w, x, y, z, c)
  PROVE  NextWord(p, v, y1, z1) = Rec(w, Append(x, v), y1, z1, c)
<1> DEFINE x1 == Append(x, v)  S == {w, x, y, z, c, x1, y1, z1}
           e == [p EXCEPT !.file = x1, !.offset = z1, !.current = y1]
<1>0. [p EXCEPT !.file = Append(@, v), !.offset = z1, !.current = y1] = e
  BY DEF Rec
<1> HIDE DEF x1
<1>1. w \in S /\ x \in S /\ y \in S /\ z \in S /\ c \in S /\ x1 \in S /\ y1 \in S /\ z1 \in S
  OBVIOUS
<1> HIDE DEF S
<1>2. e \in [width : S, file : S, current : S, offset : S, count : S]
  BY <1>1 DEF Rec
<1>3.  e.width = w /\ e.file = x1 /\ e.current = y1 /\ e.offset = z1 /\ e.count = c
  BY <1>1 DEF Rec
<1> HIDE DEF e
<1>4. e = Rec(w, x1, y1, z1, c)
  BY <1>1, <1>2, <1>3, RecIs
<1> QED BY <1>0, <1>4 DEF x1, NextWord

\* LogArrayFileBuilder::push
LEMMA LogPushHolds ==
  ASSUME NEW b, NEW vs, LogHolds(b, vs), NEW v \in Below(Width)
  PROVE  LogHolds(LogPush(b, v), Append(vs, v))
<1> DEFINE e == LogPush(b, v)  x == b.file  y == b.current  z == b.offset  o == z + Width
           n == Len(vs)
           full == Or(y, Shr(Shl(v, Word - Width), z))
           pushed == [b EXCEPT !.count = @ + 1]
           cur == IF o = Word THEN 0 ELSE Shl(v, Word - (o - Word))
<1>1. b = Rec(Width, x, y, z, n) /\ Packed(Width, x, y, z, vs)
  BY DEF LogHolds, Rec
<1>2. vs \in Seq(Below(Width)) /\ n \in Nat
  BY <1>1, PackedType
<1>3. Len(Append(vs, v)) = n + 1
  BY <1>2
<1>4. b.width = Width /\ b.count = n
  BY <1>1 DEF Rec
<1>5. pushed = Rec(Width, x, y, z, n + 1)
  <2>1. ASSUME NEW xx, NEW yy, NEW zz, NEW nn, b = Rec(Width, xx, yy, zz, nn)
        PROVE  pushed = Rec(Width, xx, yy, zz, nn + 1)
    BY <2>1 DEF Rec
  <2> HIDE DEF pushed, x, y, z, n
  <2> QED BY <1>1, <2>1
<1>6. e = IF o < Word THEN InWord(pushed, full, o) ELSE NextWord(pushed, full, cur, o - Word)
  BY <1>4 DEF LogPush, InWord, NextWord
<1> HIDE DEF e, x, y, z, n, o, full, pushed, cur
<1>7. e = IF o < Word THEN Rec(Width, x, full, o, n + 1)
          ELSE Rec(Width, Append(x, full), cur, o - Word, n + 1)
  <2>1. InWord(pushed, full, o) = Rec(Width, x, full, o, n + 1)
    BY <1>5, TwoFields
  <2>2. NextWord(pushed, full, cur, o - Word) = Rec(Width, Append(x, full), cur, o - Word, n + 1)
    BY <1>5, ThreeFields
  <2> QED BY <1>6, <2>1, <2>2
<1>8. ASSUME NEW x1, NEW y1, NEW z1, e = Rec(Width, x1, y1, z1, n + 1),
             Pushed(Width, x, y, z, v, x1, y1, z1)
      PROVE  LogHolds(e, Append(vs, v))
  <2>1. Packed(Width, x1, y1, z1, Append(vs, v))
    BY <1>1, <1>8, PackPush, WidthAssumption DEF Below
  <2>2. e.file = x1 /\ e.current = y1 /\ e.offset = z1
    BY <1>8 DEF Rec
  <2> QED BY <1>3, <1>8, <2>1, <2>2 DEF LogHolds, Rec
<1>9. CASE o < Word
  <2>1. Pushed(Width, x, y, z, v, x, full, o)
    BY <1>9 DEF Pushed, full, o
  <2> QED BY <1>7, <1>8, <1>9, <2>1 DEF e
<1>10. CASE ~(o < Word)
  <2>1. Pushed(Width, x, y, z, v, Append(x, full), cur, o - Word)
    <3>1. z \in Nat /\ Width \in Nat /\ Word \in Nat
      BY <1>1, PackedType, WidthAssumption, WordAssumption
    <3> QED BY <1>10, <3>1 DEF Pushed, full, o, cur
  <2> QED BY <1>7, <1>8, <1>10, <2>1 DEF e
<1> QED BY <1>9, <1>10

\* A function on 1..n is a sequence.
LEMMA MadeSeq ==
  ASSUME NEW S, NEW n \in Nat, NEW s \in [1..n -> S]
  PROVE  s \in Seq(S) /\ Len(s) = n
  OBVIOUS

\* Append behind a concatenation.
LEMMA ConcatAppend ==
  ASSUME NEW S, NEW s \in Seq(S), NEW t \in Seq(S), NEW x \in S
  PROVE  s \o Append(t, x) = Append(s \o t, x)
<1>1. s \o t \in Seq(S) /\ <<x>> \in Seq(S)
  BY ConcatProperties
<1>2. Append(t, x) = t \o <<x>> /\ Append(s \o t, x) = (s \o t) \o <<x>>
  BY <1>1, AppendIsConcat
<1> QED BY <1>1, <1>2, ConcatAssociative

\* n zeros
Zeros(n) == [i \in 1..n |-> 0]

\* Behind a sequence, one by one.
LEMMA ZerosStep ==
  ASSUME NEW S, 0 \in S, NEW vs \in Seq(S), NEW n \in Nat
  PROVE  /\ vs \o Zeros(0) = vs
         /\ Append(vs \o Zeros(n), 0) = vs \o Zeros(n + 1)
         /\ vs \o Zeros(n) \in Seq(S)
<1>1. \A m \in Nat : Zeros(m) \in Seq(S) /\ Len(Zeros(m)) = m /\ \A i \in 1..m : Zeros(m)[i] = 0
  <2> TAKE m \in Nat
  <2>1. Zeros(m) \in [1..m -> S] /\ \A i \in 1..m : Zeros(m)[i] = 0
    BY DEF Zeros
  <2> QED BY <2>1, MadeSeq
<1>2. Zeros(0) = <<>>
  BY <1>1, EmptySeq
<1>3. Zeros(n + 1) = Append(Zeros(n), 0)
  <2> DEFINE l == Append(Zeros(n), 0)
  <2>1. /\ l \in Seq(S) /\ Len(l) = n + 1 /\ l[n + 1] = 0
        /\ \A i \in 1..n : l[i] = 0
    BY <1>1, AppendProperties
  <2>2. /\ Zeros(n + 1) \in Seq(S) /\ Len(Zeros(n + 1)) = n + 1
        /\ \A i \in 1..(n + 1) : Zeros(n + 1)[i] = 0
    BY <1>1
  <2>3. \A i \in 1..(n + 1) : l[i] = 0
    BY <2>1
  <2> HIDE DEF l
  <2>4. l = Zeros(n + 1)
    BY <2>1, <2>2, <2>3, SeqEqual
  <2> QED BY <2>4 DEF l
<1>4. vs \o Zeros(0) = vs
  BY <1>2, ConcatEmptySeq
<1>5. vs \o Append(Zeros(n), 0) = Append(vs \o Zeros(n), 0)
  <2>1. Zeros(n) \in Seq(S)
    BY <1>1
  <2> QED BY <2>1, ConcatAppend
<1>6. vs \o Zeros(n) \in Seq(S)
  BY <1>1, ConcatProperties
<1> QED BY <1>3, <1>4, <1>5, <1>6

\* n times push(0)
LEMMA LogPushZerosHolds ==
  ASSUME NEW b, NEW vs, LogHolds(b, vs), NEW n \in Nat
  PROVE  LogHolds(LogPushZeros(b, n), vs \o Zeros(n))
<1>1. 0 \in Below(Width) /\ vs \in Seq(Below(Width))
  <2>1. Width \in 0..Word
    BY WidthAssumption, WordAssumption
  <2> QED BY <2>1, PowType, PackedType DEF LogHolds, Below
<1>2. PICK f : /\ LogPushZeros(b, n) = f[n] /\ f[0] = b
               /\ \A i \in Nat : i + 1 <= n => f[i + 1] = LogPush(f[i], 0)
  BY ZerosLoop
<1> DEFINE T == {m \in Nat : m <= n => LogHolds(f[m], vs \o Zeros(m))}
<1>3. 0 \in T
  BY <1>1, <1>2, ZerosStep
<1>4. ASSUME NEW m \in T PROVE m + 1 \in T
  <2> SUFFICES ASSUME m + 1 <= n PROVE LogHolds(f[m + 1], vs \o Zeros(m + 1))
    OBVIOUS
  <2>1. m \in Nat /\ LogHolds(f[m], vs \o Zeros(m))
    OBVIOUS
  <2>2. LogHolds(LogPush(f[m], 0), Append(vs \o Zeros(m), 0))
    BY <1>1, <2>1, LogPushHolds
  <2>3. Append(vs \o Zeros(m), 0) = vs \o Zeros(m + 1)
    BY <1>1, <2>1, ZerosStep
  <2> QED BY <1>2, <2>1, <2>2, <2>3
<1>5. T \in SUBSET Nat
  OBVIOUS
<1> HIDE DEF T
<1>6. T = Nat
  BY <1>3, <1>4, <1>5, AllNat
<1>7. LogHolds(f[n], vs \o Zeros(n))
  BY <1>6 DEF T
<1> QED BY <1>2, <1>7

\* A bit is a number of one bit.
LEMMA BitPart ==
  ASSUME NEW bit \in {0, 1}, NEW off \in 0..(Word - 1), NEW c \in 0..(Pow2[Word] - 1),
         c % Pow2[Word - off] = 0
  PROVE  Or(c, Shr(Shl(bit, Word - 1), off))
           = IF bit = 1 THEN Or(c, Shr(Pow2[Word - 1], off)) ELSE c
<1>1. Word - 1 \in 0..Word /\ (Word - 1) + 1 = Word /\ Word \in 0..Word /\ Word - off \in 0..Word
  BY WordAssumption
<1>2. Pow2[Word] = 2 * Pow2[Word - 1] /\ Pow2[Word - 1] \in Nat \ {0} /\ Pow2[Word] \in Nat \ {0}
      /\ Pow2[Word - off] \in Nat \ {0}
  BY <1>1, PowFacts, PowType
<1>3. CASE bit = 1
  <2>1. 1 * Pow2[Word - 1] = Pow2[Word - 1] /\ Pow2[Word - 1] < Pow2[Word]
    BY <1>2
  <2>2. Shl(1, Word - 1) = Pow2[Word - 1]
    BY <1>2, <2>1, SmallMod DEF Shl
  <2> QED BY <1>3, <2>2
<1>4. CASE bit = 0
  <2>1. Shl(0, Word - 1) = 0
    <3>1. 0 * Pow2[Word - 1] = 0 /\ 0 < Pow2[Word]
      BY <1>2
    <3> QED BY <1>2, <3>1, SmallMod DEF Shl
  <2>2. Shr(0, off) = 0
    <3>1. off \in 0..Word
      BY WordAssumption
    <3>2. Pow2[off] \in Nat \ {0} /\ 0 < Pow2[off]
      BY <3>1, PowType
    <3> QED BY <3>2, SmallMod DEF Shr
  <2>3. c \in Nat /\ c < Pow2[Word] /\ 0 < Pow2[Word - off] /\ c + 0 = c
    BY <1>2
  <2>4. Or(c, 0) = c
    BY <1>1, <2>3, OrIs
  <2> QED BY <1>4, <2>1, <2>2, <2>4
<1> QED BY <1>3, <1>4

\* The offset of the next bit.
LEMMA NextOffset ==
  ASSUME NEW n \in Nat
  PROVE  /\ (n % Word) \in 0..(Word - 1) /\ (n + 1) % Word \in 0..(Word - 1)
         /\ (n + 1) % Word = IF (n % Word) + 1 < Word THEN (n % Word) + 1 ELSE 0
         /\ (n % Word) + 1 <= Word
<1> DEFINE q == n \div Word  r == n % Word
<1>0. Word \in Nat \ {0}
  BY WordAssumption
<1>1. q \in Nat /\ r \in Nat /\ r < Word /\ n = Word * q + r
  BY <1>0, DivMod
<1> HIDE DEF q, r
<1>2. CASE r + 1 < Word
  <2>1. n + 1 \in Nat /\ r + 1 \in Nat /\ n + 1 = Word * q + (r + 1)
    BY <1>0, <1>1
  <2>2. (n + 1) % Word = r + 1
    BY <1>0, <1>1, <1>2, <2>1, DivModIs
  <2> QED BY <1>0, <1>1, <1>2, <2>2 DEF r
<1>3. CASE ~(r + 1 < Word)
  <2>1. r + 1 = Word /\ n + 1 \in Nat /\ q + 1 \in Nat
    BY <1>0, <1>1, <1>3
  <2>2. n + 1 = Word * (q + 1) + 0 /\ 0 < Word
    BY <1>0, <1>1, <2>1
  <2>3. (n + 1) % Word = 0
    BY <1>0, <2>1, <2>2, DivModIs
  <2> QED BY <1>0, <1>1, <1>3, <2>1, <2>3 DEF r
<1> QED BY <1>2, <1>3

\* BitArrayFileBuilder::push
LEMMA BitPushHolds ==
  ASSUME NEW b, NEW vs, BitHolds(b, vs), NEW bit \in {0, 1}
  PROVE  BitHolds(BitPush(b, bit), Append(vs, bit))
<1> DEFINE e == BitPush(b, bit)  x == b.file  y == b.current  n == Len(vs)  z == n % Word
           full == IF bit = 1 THEN Or(y, Shr(Pow2[Word - 1], z)) ELSE y
           rec(x1, y1, n1) == [file |-> x1, current |-> y1, count |-> n1]
<1>1. b = rec(x, y, n) /\ Packed(1, x, y, z, vs)
  BY DEF BitHolds
<1>2. vs \in Seq(Below(1)) /\ n \in Nat
  BY <1>1, PackedType
<1>3. Len(Append(vs, bit)) = n + 1
  BY <1>2
<1>4. b.count = n
  BY <1>1
<1>5. e = IF (n + 1) % Word = 0 THEN rec(Append(x, full), 0, n + 1) ELSE rec(x, full, n + 1)
  <2>1. e = IF (n + 1) % Word = 0 THEN rec(Append(x, full), 0, n + 1)
            ELSE [b EXCEPT !.current = full, !.count = @ + 1]
    BY <1>4 DEF BitPush
  <2>2. ASSUME NEW xx, NEW yy, NEW nn, NEW y1, b = rec(xx, yy, nn)
        PROVE  [b EXCEPT !.current = y1, !.count = @ + 1] = rec(xx, y1, nn + 1)
    <3> DEFINE n1 == nn + 1  S == {xx, yy, nn, y1, n1}  d == [b EXCEPT !.current = y1, !.count = n1]
    <3>0. [b EXCEPT !.current = y1, !.count = @ + 1] = d
      BY <2>2
    <3> HIDE DEF n1
    <3>1. xx \in S /\ yy \in S /\ nn \in S /\ y1 \in S /\ n1 \in S
      OBVIOUS
    <3> HIDE DEF S
    <3>2. d \in [file : S, current : S, count : S]
      BY <2>2, <3>1
    <3>3. d.file = xx /\ d.current = y1 /\ d.count = n1
      BY <2>2, <3>1
    <3> HIDE DEF d
    <3>4. d = rec(xx, y1, n1)
      BY <3>1, <3>2, <3>3
    <3> QED BY <3>0, <3>4 DEF n1
  <2> HIDE DEF e, x, y, n, full
  <2>3. [b EXCEPT !.current = full, !.count = @ + 1] = rec(x, full, n + 1)
    BY <1>1, <2>2, ZenonT(30)
  <2> QED BY <2>1, <2>3
<1>6. y \in 0..(Pow2[Word] - 1) /\ y % Pow2[Word - z] = 0 /\ z \in 0..(Word - 1)
  BY <1>1 DEF Packed
<1>7. full = Or(y, Shr(Shl(bit, Word - 1), z))
  BY <1>6, BitPart
<1>8. bit \in 0..(Pow2[1] - 1)
  <2>1. 0 \in 0..Word /\ 0 + 1 <= Word
    BY WordAssumption
  <2>2. Pow2[0 + 1] = 2 * Pow2[0] /\ Pow2[0] = 1
    BY <2>1, PowFacts
  <2>3. Pow2[1] = 2
    BY <2>2
  <2> QED BY <2>3
<1>9. /\ z + 1 <= Word /\ (n + 1) % Word = IF z + 1 < Word THEN z + 1 ELSE 0
  BY <1>2, NextOffset
<1> HIDE DEF e, x, y, n, z, full, rec
<1>10. ASSUME NEW x1, NEW y1, e = rec(x1, y1, n + 1),
             Pushed(1, x, y, z, bit, x1, y1, (n + 1) % Word)
      PROVE  BitHolds(e, Append(vs, bit))
  <2>1. Packed(1, x1, y1, (n + 1) % Word, Append(vs, bit))
    <3>1. 1 \in 1..Word
      BY WordAssumption
    <3> QED BY <1>1, <1>8, <1>10, <3>1, PackPush
  <2>2. e.file = x1 /\ e.current = y1
    BY <1>10 DEF rec
  <2> QED BY <1>3, <1>10, <2>1, <2>2 DEF BitHolds, rec
<1>11. CASE z + 1 < Word
  <2>1. (n + 1) % Word = z + 1 /\ (n + 1) % Word # 0
    BY <1>6, <1>9, <1>11
  <2>2. Pushed(1, x, y, z, bit, x, full, (n + 1) % Word)
    BY <1>7, <1>11, <2>1 DEF Pushed
  <2> QED BY <1>5, <1>10, <2>1, <2>2 DEF e
<1>12. CASE ~(z + 1 < Word)
  <2>1. (n + 1) % Word = 0 /\ z + 1 = Word /\ z + 1 - Word = 0
    BY <1>6, <1>9, <1>12, WordAssumption
  <2>2. Pushed(1, x, y, z, bit, Append(x, full), 0, (n + 1) % Word)
    BY <1>7, <1>12, <2>1 DEF Pushed
  <2> QED BY <1>5, <1>10, <2>1, <2>2 DEF e
<1> QED BY <1>11, <1>12

\* The first m members of a sequence
Prefix(s, m) == [i \in 1..m |-> s[i]]

\* One by one.
LEMMA PrefixStep ==
  ASSUME NEW S, NEW s \in Seq(S)
  PROVE  /\ Prefix(s, 0) = <<>> /\ Prefix(s, Len(s)) = s
         /\ \A m \in Nat : m <= Len(s) => Prefix(s, m) \in Seq(S)
         /\ \A m \in Nat : m + 1 <= Len(s) => Prefix(s, m + 1) = Append(Prefix(s, m), s[m + 1])
<1>0. Len(s) \in Nat /\ \A i \in 1..Len(s) : s[i] \in S
  BY LenProperties, ElementOfSeq
<1>1. ASSUME NEW m \in Nat, m <= Len(s)
      PROVE  /\ Prefix(s, m) \in Seq(S) /\ Len(Prefix(s, m)) = m
             /\ \A i \in 1..m : Prefix(s, m)[i] = s[i]
  <2>1. Prefix(s, m) \in [1..m -> S] /\ \A i \in 1..m : Prefix(s, m)[i] = s[i]
    BY <1>0, <1>1 DEF Prefix
  <2> QED BY <2>1, MadeSeq
<1>2. Prefix(s, 0) = <<>>
  BY <1>0, <1>1, EmptySeq
<1>3. Prefix(s, Len(s)) = s
  <2> DEFINE p == Prefix(s, Len(s))
  <2>1. p \in Seq(S) /\ Len(p) = Len(s) /\ \A i \in 1..Len(p) : p[i] = s[i]
    BY <1>0, <1>1
  <2> HIDE DEF p
  <2>2. p = s
    BY <2>1, SeqEqual
  <2> QED BY <2>2 DEF p
<1>4. ASSUME NEW m \in Nat, m + 1 <= Len(s)
      PROVE  Prefix(s, m + 1) = Append(Prefix(s, m), s[m + 1])
  <2> DEFINE l == Append(Prefix(s, m), s[m + 1])  r == Prefix(s, m + 1)
  <2>1. /\ m <= Len(s) /\ m + 1 \in Nat /\ s[m + 1] \in S
    BY <1>0, <1>4
  <2>2. /\ r \in Seq(S) /\ Len(r) = m + 1 /\ \A i \in 1..(m + 1) : r[i] = s[i]
    BY <1>1, <1>4, <2>1
  <2>3. /\ Prefix(s, m) \in Seq(S) /\ Len(Prefix(s, m)) = m
        /\ \A i \in 1..m : Prefix(s, m)[i] = s[i]
    BY <1>1, <2>1
  <2>4. l \in Seq(S) /\ Len(l) = m + 1 /\ l[m + 1] = s[m + 1] /\ \A i \in 1..m : l[i] = s[i]
    BY <2>1, <2>3, AppendProperties
  <2> HIDE DEF l, r
  <2>5. \A i \in 1..(m + 1) : l[i] = s[i]
    BY <2>4
  <2>6. l = r
    BY <2>2, <2>4, <2>5, SeqEqual
  <2> QED BY <2>6 DEF l, r
<1> QED BY <1>1, <1>2, <1>3, <1>4

\* push_all
LEMMA BitPushAllHolds ==
  ASSUME NEW b, NEW vs, BitHolds(b, vs), vs \in Seq({0, 1}), NEW bs \in Seq({0, 1})
  PROVE  BitHolds(BitPushAll(b, bs), vs \o bs)
<1> DEFINE B == {0, 1}
<1>0. vs \in Seq(B) /\ bs \in Seq(B) /\ Len(bs) \in Nat /\ \A i \in 1..Len(bs) : bs[i] \in B
  OBVIOUS
<1>1. ASSUME NEW m \in Nat, NEW d, m + 1 <= Len(bs), BitHolds(d, vs \o Prefix(bs, m))
      PROVE  BitHolds(BitPush(d, bs[m + 1]), vs \o Prefix(bs, m + 1))
  <2>1. bs[m + 1] \in B
    BY <1>0, <1>1
  <2>2. BitHolds(BitPush(d, bs[m + 1]), Append(vs \o Prefix(bs, m), bs[m + 1]))
    BY <1>1, <2>1, BitPushHolds
  <2> HIDE DEF B
  <2>3. Prefix(bs, m) \in Seq(B) /\ Prefix(bs, m + 1) = Append(Prefix(bs, m), bs[m + 1])
    BY <1>0, <1>1, PrefixStep
  <2>4. vs \o Append(Prefix(bs, m), bs[m + 1]) = Append(vs \o Prefix(bs, m), bs[m + 1])
    BY <1>0, <2>1, <2>3, ConcatAppend
  <2> QED BY <2>2, <2>3, <2>4
<1> HIDE DEF B
<1>2. PICK f : /\ BitPushAll(b, bs) = f[Len(bs)] /\ f[0] = b
               /\ \A i \in Nat : i + 1 <= Len(bs) => f[i + 1] = BitPush(f[i], bs[i + 1])
  <2>1. \E f : BitsRun(f, b, bs, Len(bs))
    BY <1>0, BitsLoop
  <2> QED BY <2>1 DEF BitsRun
<1> DEFINE T == {m \in Nat : m <= Len(bs) => BitHolds(f[m], vs \o Prefix(bs, m))}
<1>3. 0 \in T
  <2>1. vs \o Prefix(bs, 0) = vs
    BY <1>0, PrefixStep, ConcatEmptySeq
  <2> QED BY <1>2, <2>1
<1>4. ASSUME NEW m \in T PROVE m + 1 \in T
  <2> SUFFICES ASSUME m + 1 <= Len(bs) PROVE BitHolds(f[m + 1], vs \o Prefix(bs, m + 1))
    OBVIOUS
  <2>1. m \in Nat /\ BitHolds(f[m], vs \o Prefix(bs, m))
    BY <1>0
  <2> QED BY <1>1, <1>2, <2>1
<1>5. T \in SUBSET Nat
  OBVIOUS
<1> HIDE DEF T
<1>6. T = Nat
  BY <1>3, <1>4, <1>5, AllNat
<1>7. BitHolds(f[Len(bs)], vs \o Prefix(bs, Len(bs)))
  BY <1>0, <1>6 DEF T
<1> QED BY <1>0, <1>2, <1>7, PrefixStep

\* BitArray::get and bitarray_stream_bits give the bits.
LEMMA BitsRead ==
  ASSUME NEW b, NEW vs, BitHolds(b, vs), NEW a, a = BitFinalize(b)
  PROVE  /\ a.len = Len(vs) /\ Len(vs) \in Nat
         /\ \A i \in 1..Len(vs) : Get(a, i - 1) = vs[i]
         /\ StreamBits(a) = vs
<1> DEFINE off == Len(vs) % Word  n == Len(vs)  ws == Written(b.file, b.current, off)
<1>1. b.count = n /\ Packed(1, b.file, b.current, off, vs)
  BY DEF BitHolds
<1>2. a.len = n /\ a.words = ws
  BY <1>1 DEF BitFinalize, Written
<1>3. n \in Nat /\ vs \in Seq(Below(1))
  BY <1>1, PackedType
<1>4. Pow2[1] = 2 /\ 1 \in 1..Word
  <2>1. 0 \in 0..Word /\ 0 + 1 <= Word /\ 1 \in 1..Word
    BY WordAssumption
  <2>2. Pow2[0 + 1] = 2 * Pow2[0] /\ Pow2[0] = 1
    BY <2>1, PowFacts
  <2>3. Pow2[1] = 2
    BY <2>2
  <2> QED BY <2>1, <2>3
<1> HIDE DEF off, n
<1>5. ASSUME NEW i \in 1..n
      PROVE  BitOf(At(ws, (i - 1) \div Word), (i - 1) % Word) = vs[i]
  <2> DEFINE k == (i - 1) \div Word  o == (i - 1) % Word  x == At(ws, k)
  <2>1. i - 1 \in Nat /\ Word \in Nat \ {0} /\ i \in 1..Len(vs)
    BY <1>3, WordAssumption DEF n
  <2>2. k \in Nat /\ o \in Nat /\ o < Word /\ i - 1 = Word * k + o
    BY <2>1, DivMod
  <2> HIDE DEF k, o
  <2>3. o \in 0..(Word - 1) /\ o + 1 <= Word /\ (i - 1) * 1 = Word * k + o
    BY <2>1, <2>2
  <2>4. x \in 0..(Pow2[Word] - 1) /\ Shr(Shl(x, o), Word - 1) = vs[i]
    BY <1>1, <1>4, <2>1, <2>2, <2>3, PackedRead
  <2>5. x \in Nat
    <3>1. Word \in 0..Word
      BY <2>1
    <3>2. Pow2[Word] \in Nat
      BY <3>1, PowType
    <3> QED BY <2>4, <3>2
  <2>6. Shr(Shl(x, o), Word - 1) = Shr(x, Word - o - 1) % Pow2[1]
    BY <1>4, <2>3, <2>5, ReadWithin
  <2>7. Word - o - 1 = Word - 1 - o
    BY <2>1, <2>2
  <2> QED BY <1>4, <2>4, <2>6, <2>7 DEF BitOf, k, o
<1>6. \A i \in 1..n : Get(a, i - 1) = vs[i]
  BY <1>2, <1>5 DEF Get
<1>7. StreamBits(a) = [i \in 1..n |-> vs[i]]
  BY <1>2, <1>5 DEF StreamBits, At
<1>8. [i \in 1..n |-> vs[i]] = vs
  BY <1>3, LenProperties DEF n
<1> QED BY <1>2, <1>3, <1>6, <1>7, <1>8 DEF n

-----------------------------------------------------------------------------
(***************************************************************************)
(* The entries of a list, and how a pair makes them grow.                  *)
(***************************************************************************)
\* The entries es2 are es with h holes and the pair p behind them.
HoleSeq(base, h) == [k \in 1..h |-> <<base + k, 0>>]
Grows(es, es2, base, h, p) ==
  /\ es2 \in Seq(Nat \X Nat) /\ Len(es2) = Len(es) + h + 1
  /\ \A i \in 1..Len(es) : es2[i] = es[i]
  /\ \A k \in 1..h : es2[Len(es) + k] = <<base + k, 0>>
  /\ es2[Len(es) + h + 1] = p

\* The concatenation does that.
LEMMA ConcatGrows ==
  ASSUME NEW es \in Seq(Nat \X Nat), NEW base \in Nat, NEW h \in Nat, NEW p \in Nat \X Nat
  PROVE  Grows(es, es \o Append(HoleSeq(base, h), p), base, h, p)
<1> DEFINE E == Nat \X Nat  H == HoleSeq(base, h)  t == Append(H, p)  n == Len(es)
<1>1. H \in [1..h -> E] /\ \A k \in 1..h : H[k] = <<base + k, 0>>
  BY DEF HoleSeq
<1>2. es \in Seq(E) /\ p \in E
  OBVIOUS
<1> HIDE DEF E, H
<1>3. H \in Seq(E) /\ Len(H) = h
  BY <1>1, MadeSeq
<1>4. t \in Seq(E) /\ Len(t) = h + 1 /\ (\A k \in 1..h : t[k] = H[k]) /\ t[h + 1] = p
  BY <1>2, <1>3, AppendProperties
<1> HIDE DEF t
<1>5. /\ es \o t \in Seq(E) /\ Len(es \o t) = n + (h + 1) /\ n \in Nat
      /\ \A i \in 1..(n + (h + 1)) : (es \o t)[i] = IF i <= n THEN es[i] ELSE t[i - n]
  <2>1. /\ es \o t \in Seq(E) /\ Len(es \o t) = n + Len(t)
        /\ \A i \in 1..(n + Len(t)) : (es \o t)[i] = IF i <= n THEN es[i] ELSE t[i - n]
    BY <1>2, <1>4, ConcatProperties, ZenonT(30)
  <2>2. n \in Nat
    BY <1>2
  <2>3. Len(t) = h + 1
    BY <1>4
  <2> QED BY <2>1, <2>2, <2>3, ZenonT(30)
<1>6. \A i \in 1..n : (es \o t)[i] = es[i]
  BY <1>5
<1>7. ASSUME NEW k \in 1..(h + 1) PROVE (es \o t)[n + k] = t[k]
  <2>1. n + k \in 1..(n + (h + 1)) /\ ~(n + k <= n) /\ (n + k) - n = k
    BY <1>5
  <2> QED BY <1>5, <2>1
<1>8. \A k \in 1..h : (es \o t)[n + k] = <<base + k, 0>>
  BY <1>1, <1>4, <1>7
<1>9. (es \o t)[n + (h + 1)] = p
  BY <1>4, <1>7
<1>10. n + (h + 1) = n + h + 1
  BY <1>5
<1> QED BY <1>5, <1>6, <1>8, <1>9, <1>10 DEF Grows, E, t, H

\* Without pairs there are no entries.
LEMMA NoEntries == EntriesOf(<<>>) = <<>>
<1>1. \E f : EntriesRun(f, <<>>, 0)
  BY EntriesLoop
<1> QED BY <1>1 DEF EntriesRun

\* The left-hand side of the last pair
LastOf(ps) == IF ps = <<>> THEN 0 ELSE ps[Len(ps)][1]

\* p leaves h holes behind the pairs ps.
Follows(ps, p, base, h) ==
  /\ ps \in Seq(Nat \X Nat) /\ p \in Nat \X Nat /\ base \in Nat /\ h \in Nat
  /\ base = LastOf(ps) /\ h = IF p[1] = base THEN 0 ELSE p[1] - base - 1

\* One more pair.
LEMMA EntriesAppend ==
  ASSUME NEW ps, NEW p, NEW base, NEW h, Follows(ps, p, base, h)
  PROVE  EntriesOf(Append(ps, p)) = EntriesOf(ps) \o Append(HoleSeq(base, h), p)
<1> DEFINE N == Len(ps)  qs == Append(ps, p)  E == Nat \X Nat
<1>0. ps \in Seq(E) /\ p \in E
  BY DEF Follows
<1> HIDE DEF E
<1>1. /\ N \in Nat /\ Len(qs) = N + 1 /\ (\A i \in 1..N : qs[i] = ps[i]) /\ qs[N + 1] = p
  BY <1>0, AppendProperties
<1>2. (ps = <<>>) <=> (N = 0)
  BY <1>0, EmptySeq
<1> HIDE DEF N, qs
<1>3. PICK f : EntriesRun(f, ps, N)
  BY <1>1, EntriesLoop DEF N
<1>4. PICK g : EntriesRun(g, qs, N + 1)
  BY <1>1, EntriesLoop
<1>5. ASSUME NEW i \in 1..N, NEW d PROVE EntriesStep(qs, i, d) = EntriesStep(ps, i, d)
  <2>1. qs[i] = ps[i] /\ (i # 1 => qs[i - 1] = ps[i - 1])
    BY <1>1
  <2>2. Before(qs, i) = Before(ps, i)
    BY <2>1 DEF Before
  <2>3. HolesAt(qs, i) = HolesAt(ps, i)
    BY <2>1, <2>2 DEF HolesAt
  <2> QED BY <2>1, <2>2, <2>3 DEF EntriesStep
<1> DEFINE T == {m \in Nat : m <= N => g[m] = f[m]}
<1>6. 0 \in T
  BY <1>3, <1>4 DEF EntriesRun
<1>7. ASSUME NEW m \in T PROVE m + 1 \in T
  <2> SUFFICES ASSUME m + 1 <= N PROVE g[m + 1] = f[m + 1]
    OBVIOUS
  <2>1. m \in Nat /\ g[m] = f[m] /\ m + 1 \in 1..N /\ m + 1 <= N + 1
    BY <1>1
  <2>2. g[m + 1] = EntriesStep(qs, m + 1, g[m])
    BY <1>4, <2>1 DEF EntriesRun
  <2>3. f[m + 1] = EntriesStep(ps, m + 1, f[m])
    BY <1>3, <2>1 DEF EntriesRun
  <2> QED BY <1>5, <2>1, <2>2, <2>3
<1>8. T \in SUBSET Nat
  OBVIOUS
<1> HIDE DEF T
<1>9. T = Nat
  BY <1>6, <1>7, <1>8, AllNat
<1>10. g[N] = EntriesOf(ps)
  BY <1>1, <1>3, <1>9 DEF T, EntriesRun
<1>11. EntriesOf(qs) = EntriesStep(qs, N + 1, EntriesOf(ps))
  <2>1. N + 1 <= N + 1
    BY <1>1
  <2> QED BY <1>1, <1>4, <1>10, <2>1 DEF EntriesRun
<1>12. Before(qs, N + 1) = base
  <2>1. CASE N = 0
    BY <1>2, <2>1 DEF Before, LastOf, Follows
  <2>2. CASE N # 0
    <3>1. N + 1 # 1 /\ (N + 1) - 1 = N /\ N \in 1..N
      BY <1>1, <2>2
    <3> QED BY <1>1, <1>2, <2>2, <3>1 DEF Before, LastOf, N, Follows
  <2> QED BY <2>1, <2>2
<1>13. HolesAt(qs, N + 1) = h
  BY <1>1, <1>12 DEF HolesAt, Follows
<1> QED BY <1>1, <1>11, <1>12, <1>13 DEF EntriesStep, HoleSeq, qs

\* The entries go up one by one from 1 to the last pair.
Shape(es, left, right) ==
  /\ es \in Seq(Nat \X Nat)
  /\ es = <<>> => left = 0 /\ right = 0
  /\ es # <<>> => es[1][1] = 1 /\ es[Len(es)] = <<left, right>> /\ left # 0
  /\ \A i \in 2..Len(es) : es[i][1] - es[i - 1][1] \in {0, 1}

\* The bits of the first c entries
Marks(es, c) == [i \in 1..c |-> Mark(es, i)]

\* The entries whose bits are settled while the list is built
Settled(es) == IF es = <<>> THEN 0 ELSE Len(es) - 1

\* A pair that push takes: left is new, or the last one.
Takes(es, left, lastl, lastr, h, es2, right) ==
  /\ Shape(es, lastl, lastr) /\ lastl \in Nat /\ left \in Nat \ {0} /\ right \in Nat
  /\ left >= lastl /\ h = IF left = lastl THEN 0 ELSE left - lastl - 1
  /\ Grows(es, es2, lastl, h, <<left, right>>)

\* What is known of the entries before and after it.
Taken(es, left, lastl, h, es2, right, n) ==
  /\ n \in Nat /\ h \in Nat /\ left \in Nat \ {0} /\ lastl \in Nat
  /\ (es = <<>>) <=> (n = 0)
  /\ (n = 0) <=> (lastl = 0)
  /\ Len(es2) = n + h + 1 /\ es2 # <<>>
  /\ h = (IF left = lastl THEN 0 ELSE left - lastl - 1) /\ left >= lastl
  /\ \A i \in 1..n : es2[i] = es[i]
  /\ \A i \in 1..n : i = n => es2[i][1] = lastl
  /\ \A k \in 1..h : es2[n + k] = <<lastl + k, 0>>
  /\ es2[n + h + 1] = <<left, right>>

\* It holds.
LEMMA TakesFacts ==
  ASSUME NEW es, NEW left, NEW lastl, NEW lastr, NEW h, NEW es2, NEW right,
         Takes(es, left, lastl, lastr, h, es2, right), NEW n, n = Len(es)
  PROVE  Taken(es, left, lastl, h, es2, right, n)
<1> DEFINE E == Nat \X Nat
<1>1. es \in Seq(E) /\ es2 \in Seq(E) /\ Len(es2) = Len(es) + h + 1
  BY DEF Takes, Shape, Grows
<1> HIDE DEF E
<1>2. n \in Nat /\ ((es = <<>>) <=> (n = 0)) /\ ((es2 = <<>>) <=> (Len(es2) = 0))
  BY <1>1, EmptySeq, LenProperties
<1>3. left \in Nat \ {0} /\ lastl \in Nat /\ left >= lastl
      /\ h = (IF left = lastl THEN 0 ELSE left - lastl - 1)
  BY DEF Takes
<1>4. h \in Nat
  BY <1>3
<1>5. (n = 0) <=> (lastl = 0)
  BY <1>2 DEF Takes, Shape
<1>6. /\ \A i \in 1..n : es2[i] = es[i]
      /\ \A k \in 1..h : es2[n + k] = <<lastl + k, 0>>
      /\ es2[n + h + 1] = <<left, right>>
  BY DEF Takes, Grows
<1>7. n # 0 => es[n] = <<lastl, lastr>>
  BY <1>2 DEF Takes, Shape
<1>8. ASSUME NEW i \in 1..n, i = n PROVE es2[i][1] = lastl
  <2>1. n # 0 /\ es2[i] = es[i]
    BY <1>2, <1>6, <1>8
  <2> QED BY <1>7, <1>8, <2>1
<1>9. n + h + 1 # 0
  BY <1>2, <1>4
<1> QED BY <1>1, <1>2, <1>3, <1>4, <1>5, <1>6, <1>8, <1>9 DEF Taken

\* The left-hand sides of the new entries, from the last old one on.
LEMMA NewLefts ==
  ASSUME NEW es, NEW left, NEW lastl, NEW lastr, NEW h, NEW es2, NEW right,
         Takes(es, left, lastl, lastr, h, es2, right), NEW n, n = Len(es)
  PROVE  /\ left = lastl => h = 0 /\ n # 0 /\ es2[n + 1][1] = es2[n][1]
         /\ left # lastl => \A j \in 0..(h + 1) : n + j >= 1 => es2[n + j][1] = lastl + j
<1>0. Taken(es, left, lastl, h, es2, right, n)
  BY TakesFacts
<1>1. /\ n \in Nat /\ h \in Nat /\ left \in Nat \ {0} /\ lastl \in Nat
      /\ n = 0 => lastl = 0
      /\ h = (IF left = lastl THEN 0 ELSE left - lastl - 1) /\ left >= lastl
      /\ \A i \in 1..n : i = n => es2[i][1] = lastl
      /\ \A k \in 1..h : es2[n + k][1] = lastl + k
      /\ es2[n + h + 1][1] = left
  <2>1. /\ \A k \in 1..h : es2[n + k] = <<lastl + k, 0>>
        /\ es2[n + h + 1] = <<left, right>>
    BY <1>0 DEF Taken
  <2>2. (\A k \in 1..h : es2[n + k][1] = lastl + k) /\ es2[n + h + 1][1] = left
    BY <2>1
  <2> QED BY <1>0, <2>2 DEF Taken
<1>2. ASSUME left = lastl PROVE h = 0 /\ n # 0 /\ es2[n + 1][1] = es2[n][1]
  <2>1. h = 0 /\ n # 0
    BY <1>1, <1>2
  <2>2. n \in 1..n /\ n + h + 1 = n + 1
    BY <1>1, <2>1
  <2> QED BY <1>1, <1>2, <2>1, <2>2
<1>3. ASSUME left # lastl, NEW j \in 0..(h + 1), n + j >= 1 PROVE es2[n + j][1] = lastl + j
  <2>1. CASE j = 0
    <3>1. n + j = n /\ lastl + j = lastl /\ n \in 1..n
      BY <1>1, <1>3, <2>1
    <3> QED BY <1>1, <3>1
  <2>2. CASE j = h + 1
    <3>1. n + j = n + h + 1 /\ lastl + j = left
      BY <1>1, <1>3, <2>2
    <3> QED BY <1>1, <3>1
  <2>3. CASE j # 0 /\ j # h + 1
    <3>1. j \in 1..h
      BY <1>1, <2>3
    <3> QED BY <1>1, <3>1
  <2> QED BY <2>1, <2>2, <2>3
<1> QED BY <1>2, <1>3

\* The shape is kept.
LEMMA ShapeGrows ==
  ASSUME NEW es, NEW left, NEW lastl, NEW lastr, NEW h, NEW es2, NEW right,
         Takes(es, left, lastl, lastr, h, es2, right)
  PROVE  Shape(es2, left, right)
<1> DEFINE n == Len(es)
<1>0. n = Len(es)
  OBVIOUS
<1> HIDE DEF n
<1>1. /\ n \in Nat /\ h \in Nat /\ left \in Nat \ {0} /\ lastl \in Nat
      /\ (es = <<>>) <=> (n = 0)
      /\ n = 0 => lastl = 0
      /\ Len(es2) = n + h + 1 /\ es2 # <<>>
      /\ \A i \in 1..n : es2[i] = es[i]
      /\ es2[n + h + 1] = <<left, right>>
  BY <1>0, TakesFacts DEF Taken
<1>2. /\ left = lastl => h = 0 /\ n # 0 /\ es2[n + 1][1] = es2[n][1]
      /\ left # lastl => \A j \in 0..(h + 1) : n + j >= 1 => es2[n + j][1] = lastl + j
  BY <1>0, NewLefts
<1>3. /\ es2 \in Seq(Nat \X Nat)
      /\ n # 0 => es[1][1] = 1
      /\ \A i \in 2..n : es[i][1] - es[i - 1][1] \in {0, 1}
  BY <1>0, <1>1 DEF Takes, Grows, Shape
<1>4. es2[1][1] = 1
  <2>1. CASE n = 0
    <3>1. left # lastl /\ 1 \in 0..(h + 1) /\ n + 1 >= 1 /\ n + 1 = 1 /\ lastl + 1 = 1
      BY <1>1, <1>2, <2>1
    <3>2. es2[n + 1][1] = lastl + 1
      BY <1>2, <3>1
    <3> QED BY <3>1, <3>2
  <2>2. CASE n # 0
    <3>1. 1 \in 1..n
      BY <1>1, <2>2
    <3> QED BY <1>1, <1>3, <2>2, <3>1
  <2> QED BY <2>1, <2>2
<1>5. ASSUME NEW i \in 2..(n + h + 1) PROVE es2[i][1] - es2[i - 1][1] \in {0, 1}
  <2>1. CASE i <= n
    <3>1. i \in 2..n /\ i \in 1..n /\ i - 1 \in 1..n
      BY <1>1, <2>1
    <3>2. es2[i] = es[i] /\ es2[i - 1] = es[i - 1]
      BY <1>1, <3>1
    <3> QED BY <1>3, <3>1, <3>2
  <2>2. CASE ~(i <= n) /\ left = lastl
    <3>1. i = n + 1 /\ i - 1 = n /\ n \in 1..n
      BY <1>1, <1>2, <2>2
    <3>2. es2[n][1] \in Nat
      <4>1. n \in 1..Len(es2)
        BY <1>1, <3>1
      <4>2. es2[n] \in Nat \X Nat
        BY <1>3, <4>1, ElementOfSeq
      <4> QED BY <4>2
    <3> QED BY <1>2, <2>2, <3>1, <3>2
  <2>3. CASE ~(i <= n) /\ left # lastl
    <3> DEFINE j == i - n
    <3>1. /\ j \in 0..(h + 1) /\ n + j = i /\ n + j >= 1
          /\ j - 1 \in 0..(h + 1) /\ n + (j - 1) = i - 1 /\ n + (j - 1) >= 1
      BY <1>1, <2>3
    <3> HIDE DEF j
    <3>2. es2[n + j][1] = lastl + j /\ es2[n + (j - 1)][1] = lastl + (j - 1)
      BY <1>2, <2>3, <3>1
    <3>3. (lastl + j) - (lastl + (j - 1)) = 1
      BY <1>1, <3>1
    <3> QED BY <3>1, <3>2, <3>3
  <2> QED BY <2>1, <2>2, <2>3
<1> QED BY <1>1, <1>3, <1>4, <1>5 DEF Shape

\* There is one number for each entry.
LEMMA NumbersLen ==
  ASSUME NEW es \in Seq(Nat \X Nat)
  PROVE  /\ Numbers(es) \in Seq(Nat) /\ Len(Numbers(es)) = Len(es)
         /\ \A i \in 1..Len(es) : Numbers(es)[i] = es[i][2]
<1>1. Len(es) \in Nat /\ \A i \in 1..Len(es) : es[i] \in Nat \X Nat
  BY LenProperties, ElementOfSeq
<1>2. /\ Numbers(es) \in [1..Len(es) -> Nat]
      /\ \A i \in 1..Len(es) : Numbers(es)[i] = es[i][2]
  BY <1>1 DEF Numbers
<1> QED BY <1>1, <1>2, MadeSeq

\* The numbers: zeros for the holes, then the right-hand side.
LEMMA NumbersGrow ==
  ASSUME NEW es, NEW left, NEW lastl, NEW lastr, NEW h, NEW es2, NEW right,
         Takes(es, left, lastl, lastr, h, es2, right)
  PROVE  Numbers(es2) = Append(Numbers(es) \o Zeros(h), right)
<1> DEFINE n == Len(es)  N == Numbers(es)  l == Append(N \o Zeros(h), right)
           r == Numbers(es2)
<1>0. n = Len(es)
  OBVIOUS
<1>1. Taken(es, left, lastl, h, es2, right, n)
  BY <1>0, TakesFacts
<1>2. n \in Nat /\ h \in Nat /\ Len(es2) = n + h + 1
  BY <1>1 DEF Taken
<1>3. es \in Seq(Nat \X Nat) /\ es2 \in Seq(Nat \X Nat) /\ right \in Nat
  BY DEF Takes, Shape, Grows
<1>4. N \in Seq(Nat) /\ Len(N) = n /\ \A i \in 1..n : N[i] = es[i][2]
  BY <1>3, NumbersLen
<1>5. r \in Seq(Nat) /\ Len(r) = n + h + 1 /\ \A i \in 1..(n + h + 1) : r[i] = es2[i][2]
  BY <1>2, <1>3, NumbersLen
<1>6. Zeros(h) \in Seq(Nat) /\ Len(Zeros(h)) = h /\ \A i \in 1..h : Zeros(h)[i] = 0
  <2>1. Zeros(h) \in [1..h -> Nat] /\ \A i \in 1..h : Zeros(h)[i] = 0
    BY DEF Zeros
  <2> QED BY <1>2, <2>1, MadeSeq
<1> HIDE DEF N, r, n
<1> DEFINE Z == Zeros(h)
<1> HIDE DEF Z
<1>7. /\ N \o Zeros(h) \in Seq(Nat) /\ Len(N \o Zeros(h)) = n + h
      /\ \A i \in 1..(n + h) : (N \o Zeros(h))[i] = IF i <= n THEN N[i] ELSE Zeros(h)[i - n]
  <2>1. Z \in Seq(Nat) /\ Len(Z) = h
    BY <1>6 DEF Z
  <2>2. /\ N \o Z \in Seq(Nat) /\ Len(N \o Z) = n + h
        /\ \A i \in 1..(n + h) : (N \o Z)[i] = IF i <= n THEN N[i] ELSE Z[i - n]
    BY <1>4, <2>1, ConcatProperties
  <2> QED BY <2>2 DEF Z
<1>8. /\ l \in Seq(Nat) /\ Len(l) = n + h + 1 /\ l[n + h + 1] = right
      /\ \A i \in 1..(n + h) : l[i] = (N \o Zeros(h))[i]
  BY <1>3, <1>7, AppendProperties
<1> HIDE DEF l
<1>9. ASSUME NEW i \in 1..(n + h + 1) PROVE l[i] = r[i]
  <2>1. r[i] = es2[i][2]
    BY <1>5
  <2>2. CASE i <= n
    <3>1. i \in 1..n /\ i \in 1..(n + h)
      BY <1>2, <2>2
    <3>2. l[i] = N[i] /\ N[i] = es[i][2] /\ es2[i] = es[i]
      BY <1>1, <1>4, <1>7, <1>8, <2>2, <3>1 DEF Taken
    <3> QED BY <2>1, <3>2
  <2>3. CASE ~(i <= n) /\ i <= n + h
    <3>1. i - n \in 1..h /\ i \in 1..(n + h) /\ n + (i - n) = i
      BY <1>2, <2>3
    <3>2. l[i] = 0
      BY <1>6, <1>7, <1>8, <2>3, <3>1
    <3>3. es2[n + (i - n)] = <<lastl + (i - n), 0>>
      BY <1>1, <3>1 DEF Taken
    <3>4. es2[i][2] = 0
      BY <3>1, <3>3
    <3> QED BY <2>1, <3>2, <3>4
  <2>4. CASE ~(i <= n + h)
    <3>1. i = n + h + 1
      BY <1>2, <2>4
    <3>2. es2[i] = <<left, right>>
      BY <1>1, <3>1 DEF Taken
    <3> QED BY <1>8, <2>1, <3>1, <3>2
  <2> QED BY <2>2, <2>3, <2>4
<1>10. l = r
  BY <1>5, <1>8, <1>9, SeqEqual
<1> QED BY <1>10 DEF l, r, N

\* The bits that a pair settles
Closing(left, lastl) ==
  IF left - lastl = 0 THEN <<0>> ELSE Ones(IF lastl = 0 THEN left - lastl - 1 ELSE left - lastl)

\* The bits grow by them.
LEMMA MarksGrow ==
  ASSUME NEW es, NEW left, NEW lastl, NEW lastr, NEW h, NEW es2, NEW right,
         Takes(es, left, lastl, lastr, h, es2, right)
  PROVE  /\ Marks(es2, Settled(es2)) = Marks(es, Settled(es)) \o Closing(left, lastl)
         /\ Marks(es, Settled(es)) \in Seq({0, 1}) /\ Closing(left, lastl) \in Seq({0, 1})
         /\ Settled(es2) \in Nat /\ Len(Marks(es2, Settled(es2))) = Settled(es2)
<1> DEFINE B == {0, 1}  n == Len(es)  c == Settled(es)  d == Settled(es2)
           M == Marks(es, c)  C == Closing(left, lastl)  r == Marks(es2, d)
<1>0. n = Len(es)
  OBVIOUS
<1> HIDE DEF n
<1>1. Taken(es, left, lastl, h, es2, right, n)
  BY <1>0, TakesFacts
<1>2. /\ n \in Nat /\ h \in Nat /\ Len(es2) = n + h + 1 /\ lastl \in Nat /\ left \in Nat \ {0}
      /\ h = (IF left = lastl THEN 0 ELSE left - lastl - 1) /\ left >= lastl
      /\ (n = 0) <=> (lastl = 0)
      /\ es2 # <<>> /\ ((es = <<>>) <=> (n = 0))
      /\ \A i \in 1..n : es2[i] = es[i]
  BY <1>1 DEF Taken
<1>3. /\ left = lastl => h = 0 /\ n # 0 /\ es2[n + 1][1] = es2[n][1]
      /\ left # lastl => \A j \in 0..(h + 1) : n + j >= 1 => es2[n + j][1] = lastl + j
  BY <1>0, NewLefts
<1>4. /\ d = n + h /\ c = (IF n = 0 THEN 0 ELSE n - 1)
      /\ d \in Nat /\ c \in Nat /\ d - c \in Nat /\ c <= d
  BY <1>0, <1>2 DEF Settled
<1> HIDE DEF c, d
<1>5. \A e, k : Mark(e, k) \in B
  BY DEF Mark
<1>6. M \in Seq(B) /\ Len(M) = c /\ \A i \in 1..c : M[i] = Mark(es, i)
  <2>1. M \in [1..c -> B] /\ \A i \in 1..c : M[i] = Mark(es, i)
    BY <1>5 DEF Marks
  <2> QED BY <1>4, <2>1, MadeSeq
<1>7. r \in Seq(B) /\ Len(r) = d /\ \A i \in 1..d : r[i] = Mark(es2, i)
  <2>1. r \in [1..d -> B] /\ \A i \in 1..d : r[i] = Mark(es2, i)
    BY <1>5 DEF Marks
  <2> QED BY <1>4, <2>1, MadeSeq
<1>8. C \in Seq(B) /\ Len(C) = d - c /\ \A k \in 1..(d - c) : C[k] = IF left = lastl THEN 0 ELSE 1
  <2>1. CASE left = lastl
    <3>1. d - c = 1 /\ left - lastl = 0
      BY <1>2, <1>3, <1>4, <2>1
    <3>2. C = <<0>>
      BY <3>1 DEF Closing
    <3> QED BY <2>1, <3>1, <3>2
  <2>2. CASE left # lastl
    <3>1. left - lastl # 0 /\ d - c = IF lastl = 0 THEN left - lastl - 1 ELSE left - lastl
      BY <1>2, <1>4, <2>2
    <3>2. C = Ones(d - c)
      BY <3>1 DEF Closing
    <3>3. Ones(d - c) \in [1..(d - c) -> B] /\ \A k \in 1..(d - c) : Ones(d - c)[k] = 1
      BY DEF Ones
    <3>4. Ones(d - c) \in Seq(B) /\ Len(Ones(d - c)) = d - c
      BY <1>4, <3>3, MadeSeq
    <3> QED BY <2>2, <3>2, <3>3, <3>4
  <2> QED BY <2>1, <2>2
<1> HIDE DEF B, M, C, r
<1>9. /\ M \o C \in Seq(B) /\ Len(M \o C) = d
      /\ \A i \in 1..d : (M \o C)[i] = IF i <= c THEN M[i] ELSE C[i - c]
  <2>1. c + (d - c) = d
    BY <1>4
  <2>2. M \in Seq(B) /\ C \in Seq(B) /\ Len(M) = c /\ Len(C) = d - c
    BY <1>6, <1>8
  <2>3. /\ M \o C \in Seq(B) /\ Len(M \o C) = Len(M) + Len(C)
        /\ \A i \in 1..(Len(M) + Len(C)) :
               (M \o C)[i] = IF i <= Len(M) THEN M[i] ELSE C[i - Len(M)]
    BY <2>2, ConcatProperties
  <2> QED BY <2>1, <2>2, <2>3
<1>10. ASSUME NEW i \in 1..d PROVE r[i] = (M \o C)[i]
  <2>1. CASE i <= c
    <3>1. i \in 1..c /\ i # n /\ i \in 1..n /\ i + 1 \in 1..n /\ i # Len(es2)
      BY <1>2, <1>4, <2>1
    <3>2. es2[i] = es[i] /\ es2[i + 1] = es[i + 1]
      BY <1>2, <3>1
    <3>3. Mark(es2, i) = Mark(es, i)
      BY <1>0, <3>1, <3>2 DEF Mark
    <3> QED BY <1>6, <1>7, <1>9, <2>1, <3>1, <3>3
  <2>2. CASE ~(i <= c)
    <3>1. i - c \in 1..(d - c) /\ i # Len(es2)
      BY <1>2, <1>4, <2>2
    <3>2. r[i] = Mark(es2, i) /\ (M \o C)[i] = IF left = lastl THEN 0 ELSE 1
      BY <1>7, <1>8, <1>9, <2>2, <3>1
    <3>3. Mark(es2, i) = IF es2[i + 1][1] # es2[i][1] THEN 1 ELSE 0
      BY <3>1 DEF Mark
    <3>4. CASE left = lastl
      <4>1. i = n
        BY <1>2, <1>3, <1>4, <2>2, <3>4
      <4> QED BY <1>3, <3>2, <3>3, <3>4, <4>1
    <3>5. CASE left # lastl
      <4> DEFINE j == i - n
      <4>1. /\ j \in 0..(h + 1) /\ n + j = i /\ n + j >= 1
            /\ j + 1 \in 0..(h + 1) /\ n + (j + 1) = i + 1 /\ n + (j + 1) >= 1
        BY <1>2, <1>4, <2>2
      <4> HIDE DEF j
      <4>2. es2[n + j][1] = lastl + j /\ es2[n + (j + 1)][1] = lastl + (j + 1)
        BY <1>3, <3>5, <4>1
      <4>3. lastl + (j + 1) # lastl + j
        BY <1>2, <4>1
      <4> QED BY <3>2, <3>3, <3>5, <4>1, <4>2, <4>3
    <3> QED BY <3>4, <3>5
  <2> QED BY <2>1, <2>2
<1>11. r = M \o C
  BY <1>7, <1>9, <1>10, SeqEqual
<1> QED BY <1>4, <1>6, <1>7, <1>8, <1>11 DEF B, M, C, r, c, d

\* r collects the entries that are not holes, up to the pairs ps.
Reads(r, es, ps) ==
  /\ r[0] = <<>> /\ r[Len(es)] = ps
  /\ \A i \in Nat : i + 1 <= Len(es) =>
        r[i + 1] = IF es[i + 1][2] = 0 THEN r[i] ELSE Append(r[i], es[i + 1])

\* One pair more is collected from the grown entries.
LEMMA ReadsGrow ==
  ASSUME NEW es, NEW left, NEW lastl, NEW lastr, NEW h, NEW es2, NEW right, right # 0,
         Takes(es, left, lastl, lastr, h, es2, right), NEW r, NEW ps, Reads(r, es, ps)
  PROVE  \E s : Reads(s, es2, Append(ps, <<left, right>>))
<1> DEFINE n == Len(es)
<1>0. n = Len(es)
  OBVIOUS
<1> HIDE DEF n
<1>1. Taken(es, left, lastl, h, es2, right, n)
  BY <1>0, TakesFacts
<1>2. n \in Nat /\ h \in Nat /\ Len(es2) = n + h + 1 /\ \A i \in 1..n : es2[i] = es[i]
  BY <1>1 DEF Taken
<1> DEFINE qs == Append(ps, <<left, right>>)
           s == [i \in 0..(n + h + 1) |-> IF i <= n THEN r[i] ELSE IF i <= n + h THEN ps ELSE qs]
<1>3. s[0] = <<>> /\ s[n + h + 1] = qs
  BY <1>2 DEF Reads
<1>4. r[n] = ps
  BY <1>0 DEF Reads
<1>5. ASSUME NEW i \in Nat, i + 1 <= n + h + 1
      PROVE  s[i + 1] = IF es2[i + 1][2] = 0 THEN s[i] ELSE Append(s[i], es2[i + 1])
  <2>0. i \in 0..(n + h + 1) /\ i + 1 \in 0..(n + h + 1)
    BY <1>2, <1>5
  <2>1. CASE i + 1 <= n
    <3>1. s[i + 1] = r[i + 1] /\ s[i] = r[i]
      BY <1>2, <2>0, <2>1
    <3>2. es2[i + 1] = es[i + 1]
      BY <1>2, <2>1
    <3>3. r[i + 1] = IF es[i + 1][2] = 0 THEN r[i] ELSE Append(r[i], es[i + 1])
      BY <1>0, <2>1 DEF Reads
    <3> QED BY <3>1, <3>2, <3>3
  <2>2. CASE ~(i + 1 <= n)
    <3>1. s[i] = ps
      BY <1>2, <1>4, <1>5, <2>0, <2>2
    <3>2. CASE i + 1 <= n + h
      <4> DEFINE k == i + 1 - n
      <4>1. k \in 1..h /\ n + k = i + 1 /\ s[i + 1] = ps
        BY <1>2, <2>0, <2>2, <3>2
      <4> HIDE DEF k
      <4>2. es2[n + k] = <<lastl + k, 0>>
        BY <1>1, <4>1 DEF Taken
      <4>3. es2[i + 1][2] = 0
        BY <4>1, <4>2
      <4> QED BY <3>1, <4>1, <4>3
    <3>3. CASE ~(i + 1 <= n + h)
      <4>1. i + 1 = n + h + 1
        BY <1>2, <1>5, <3>3
      <4>2. es2[i + 1] = <<left, right>> /\ s[i + 1] = qs
        BY <1>1, <1>3, <4>1 DEF Taken
      <4>3. es2[i + 1][2] # 0
        BY <4>2
      <4> QED BY <3>1, <4>2, <4>3
    <3> QED BY <3>2, <3>3
  <2> QED BY <2>1, <2>2
<1> HIDE DEF s, qs
<1>6. Reads(s, es2, qs)
  BY <1>2, <1>3, <1>5 DEF Reads
<1> QED BY <1>6 DEF qs

\* The left-hand side counted up at each 1 is that of the entry.
LEMMA CountingIsReading ==
  ASSUME NEW es, NEW left, NEW right, Shape(es, left, right), NEW r, NEW ps, Reads(r, es, ps),
         NEW N, N = Len(es)
  PROVE  CountingPairs(Marks(es, N), Numbers(es)) = ps
<1> DEFINE E == Nat \X Nat  ms == Marks(es, N)  ns == Numbers(es)
<1>1. /\ es \in Seq(E)
      /\ N # 0 => es[1][1] = 1
      /\ \A i \in 2..N : es[i][1] - es[i - 1][1] \in {0, 1}
  <2>1. es \in Seq(Nat \X Nat)
    BY DEF Shape
  <2>2. (es = <<>>) <=> (N = 0)
    BY <2>1, EmptySeq
  <2> QED BY <2>1, <2>2 DEF Shape
<1>2. N \in Nat /\ \A i \in 1..N : es[i] \in E
  <2> HIDE DEF E
  <2> QED BY <1>1, LenProperties, ElementOfSeq
<1>3. \A i \in 1..N : es[i][1] \in Nat /\ es[i][2] \in Nat /\ es[i] = <<es[i][1], es[i][2]>>
  BY <1>2
<1>4. Len(ms) = N /\ \A i \in 1..N : ms[i] = Mark(es, i)
  <2>1. \A e, k : Mark(e, k) \in Nat
    BY DEF Mark
  <2>2. ms \in [1..N -> Nat] /\ \A i \in 1..N : ms[i] = Mark(es, i)
    BY <2>1 DEF Marks
  <2> QED BY <1>2, <2>2, MadeSeq
<1>5. \A i \in 1..N : ns[i] = es[i][2]
  BY DEF Numbers
<1> HIDE DEF ms, ns
<1>6. PICK g : /\ CountingPairs(ms, ns) = g[N].out
               /\ g[0] = [left |-> 1, out |-> <<>>]
               /\ \A i \in Nat : i + 1 <= N => g[i + 1] = CountingStep(ms, ns, i + 1, g[i])
  <2>1. \E g : CountingRun(g, ms, ns, N)
    BY <1>2, <1>4, CountingLoop
  <2> QED BY <2>1 DEF CountingRun
<1> DEFINE T == {m \in Nat : m <= N => g[m].out = r[m] /\ (m < N => g[m].left = es[m + 1][1])}
<1>7. 0 \in T
  <2>1. g[0].left = 1 /\ g[0].out = <<>>
    BY <1>6
  <2> QED BY <1>1, <1>2, <2>1 DEF Reads
<1>8. ASSUME NEW m \in T PROVE m + 1 \in T
  <2> SUFFICES ASSUME m + 1 <= N
               PROVE  /\ g[m + 1].out = r[m + 1]
                      /\ m + 1 < N => g[m + 1].left = es[(m + 1) + 1][1]
    OBVIOUS
  <2> DEFINE i == m + 1
  <2>1. m \in Nat /\ g[m].out = r[m] /\ g[m].left = es[m + 1][1] /\ i \in 1..N
    BY <1>2
  <2>2. /\ g[i].left = (IF ms[i] = 1 THEN g[m].left + 1 ELSE g[m].left)
        /\ g[i].out = (IF ns[i] = 0 THEN g[m].out ELSE Append(g[m].out, <<g[m].left, ns[i]>>))
    <3>1. g[i] = CountingStep(ms, ns, i, g[m])
      BY <1>6, <2>1
    <3>2. ASSUME NEW x, NEW y
          PROVE  [left |-> x, out |-> y].left = x /\ [left |-> x, out |-> y].out = y
      OBVIOUS
    <3> QED BY <3>1, <3>2 DEF CountingStep
  <2>3. <<g[m].left, ns[i]>> = es[i] /\ ns[i] = es[i][2]
    BY <1>3, <1>5, <2>1
  <2>4. r[i] = IF es[i][2] = 0 THEN r[m] ELSE Append(r[m], es[i])
    BY <2>1 DEF Reads
  <2>5. g[i].out = r[i]
    BY <2>1, <2>2, <2>3, <2>4
  <2>6. ASSUME i < N PROVE g[i].left = es[i + 1][1]
    <3>1. i + 1 \in 2..N /\ i + 1 \in 1..N /\ (i + 1) - 1 = i /\ i # N
      BY <1>2, <2>1, <2>6
    <3>2. es[i + 1][1] - es[i][1] \in {0, 1} /\ es[i + 1][1] \in Nat /\ es[i][1] \in Nat
      BY <1>1, <1>3, <2>1, <3>1
    <3>3. ms[i] = IF es[i + 1][1] # es[i][1] THEN 1 ELSE 0
      BY <1>4, <2>1, <3>1 DEF Mark
    <3> QED BY <2>1, <2>2, <3>2, <3>3
  <2> QED BY <2>5, <2>6
<1>9. T \in SUBSET Nat
  OBVIOUS
<1> HIDE DEF T
<1>10. T = Nat
  BY <1>7, <1>8, <1>9, AllNat
<1>11. g[N].out = r[N]
  BY <1>2, <1>10 DEF T
<1> QED BY <1>6, <1>11 DEF Reads, ms, ns

-----------------------------------------------------------------------------
(***************************************************************************)
(* The invariant of the builder.                                           *)
(***************************************************************************)
\* None is not a finished list.
NoneIsNoList == \A n, b : None # [nums |-> n, bits |-> b]

\* The entries of the pairs are what the two arrays hold, the bits one behind the
\* numbers until the list is finished, and reading them gives the pairs.
ListInv ==
  LET es == EntriesOf(pairs) IN
  /\ pairs \in Seq(Nat \X Nat) /\ lastLeft = LastOf(pairs)
  /\ lastLeft \in 0..MaxLeft /\ lastRight \in 0..MaxRight
  /\ Shape(es, lastLeft, lastRight)
  /\ LogHolds(nums, Numbers(es))
  /\ BitHolds(bits, Marks(es, bits.count))
  /\ bits.count = IF Built THEN Len(es) ELSE Settled(es)
  /\ \E r : Reads(r, es, pairs)
  /\ Built => list = [nums |-> LogFinalize(nums), bits |-> BuildBitIndex(BitFinalize(bits))]

\* Nothing is packed in no words.
LEMMA NothingPacked ==
  ASSUME NEW w \in Nat
  PROVE  Packed(w, <<>>, 0, 0, <<>>)
<1>0. Word \in Nat \ {0} /\ Word \in 0..Word /\ Word - 0 = Word
  BY WordAssumption
<1>1. Pow2[Word] \in Nat \ {0} /\ 0 < Pow2[Word]
  BY <1>0, PowType
<1>2. 0 % Pow2[Word] = 0
  BY <1>1, SmallMod
<1> DEFINE words == 0..(Pow2[Word] - 1)  vals == 0..(Pow2[w] - 1)
<1>3. 0 \in words
  BY <1>1
<1> HIDE DEF words, vals
<1>4. <<>> \in Seq(words) /\ <<>> \in Seq(vals) /\ Len(<<>>) = 0
  BY EmptySeq
<1>5. 0 \in 0..(Word - 1) /\ 0 * Word + 0 = 0 * w
  BY <1>0
<1>6. \A i \in 1..Len(<<>>) : NumberAt(w, <<>>, 0, (i - 1) * w, <<>>[i])
  BY <1>4
<1> QED BY <1>0, <1>2, <1>3, <1>4, <1>5, <1>6 DEF Packed, words, vals

\* It holds of a new builder.
LEMMA InitHolds == Init => ListInv
<1> SUFFICES ASSUME Init PROVE ListInv
  OBVIOUS
<1> DEFINE es == EntriesOf(pairs)
<1>1. pairs = <<>> /\ es = <<>> /\ Len(es) = 0 /\ ~Built /\ Settled(es) = 0
  BY NoEntries DEF Init, Built, Settled
<1>2. Numbers(<<>>) = <<>> /\ Marks(<<>>, 0) = <<>>
  BY DEF Numbers, Marks
<1>3. Shape(es, lastLeft, lastRight) /\ lastLeft = LastOf(pairs) /\ pairs \in Seq(Nat \X Nat)
  <2>1. /\ <<>> \in Seq(Nat \X Nat) /\ Len(<<>>) = 0 /\ ~(\E i \in 2..0 : TRUE)
        /\ lastLeft = 0 /\ lastRight = 0
    BY DEF Init
  <2>2. Shape(<<>>, 0, 0)
    BY <2>1 DEF Shape
  <2> QED BY <1>1, <2>1, <2>2 DEF LastOf
<1>4. LogHolds(nums, <<>>)
  <2>1. Width \in Nat /\ Packed(Width, <<>>, 0, 0, <<>>)
    BY NothingPacked, WidthAssumption
  <2>2. nums = [width |-> Width, file |-> <<>>, current |-> 0, offset |-> 0, count |-> 0]
    BY DEF Init, NewLogArray
  <2>3. /\ nums.file = <<>> /\ nums.current = 0 /\ nums.offset = 0 /\ Len(<<>>) = 0
    BY <2>2
  <2> QED BY <2>1, <2>2, <2>3 DEF LogHolds
<1>5. BitHolds(bits, <<>>) /\ bits.count = 0
  <2>1. Packed(1, <<>>, 0, 0, <<>>)
    BY NothingPacked
  <2>2. bits = [file |-> <<>>, current |-> 0, count |-> 0]
    BY DEF Init, NewBitArray
  <2>3. bits.file = <<>> /\ bits.current = 0 /\ bits.count = 0 /\ Len(<<>>) = 0
    BY <2>2
  <2>4. 0 % Word = 0
    BY SmallMod, WordAssumption
  <2> QED BY <2>1, <2>2, <2>3, <2>4 DEF BitHolds
<1>6. \E r : Reads(r, es, pairs)
  <2> DEFINE r == [i \in {0} |-> <<>>]
  <2>1. Reads(r, es, pairs)
    BY <1>1 DEF Reads
  <2> QED BY <2>1
<1>7. lastLeft \in 0..MaxLeft /\ lastRight \in 0..MaxRight
  BY BoundsAssumption DEF Init
<1> QED BY <1>1, <1>2, <1>3, <1>4, <1>5, <1>6, <1>7 DEF ListInv

\* push keeps it.
LEMMA PushHolds ==
  ASSUME ListInv, NEW left \in 1..MaxLeft, NEW right \in 1..MaxRight, Push(left, right)
  PROVE  ListInv'
<1> DEFINE es == EntriesOf(pairs)  es2 == EntriesOf(pairs')  p == <<left, right>>
           h == Holes(left)
<1>1. /\ pairs \in Seq(Nat \X Nat) /\ lastLeft = LastOf(pairs)
      /\ lastLeft \in 0..MaxLeft /\ lastRight \in 0..MaxRight
      /\ Shape(es, lastLeft, lastRight)
      /\ LogHolds(nums, Numbers(es))
      /\ BitHolds(bits, Marks(es, bits.count))
      /\ bits.count = IF Built THEN Len(es) ELSE Settled(es)
      /\ \E r : Reads(r, es, pairs)
  BY DEF ListInv
<1>2. /\ list = None /\ list' = list /\ (left > lastLeft \/ left = lastLeft) /\ Fits(nums, right)
      /\ bits' = BitPushAll(bits, ClosingBits(left))
      /\ nums' = LogPush(LogPushZeros(nums, h), right)
      /\ lastLeft' = left /\ lastRight' = right /\ pairs' = Append(pairs, p)
  BY DEF Push
<1>3. /\ left \in Nat \ {0} /\ right \in Nat /\ right # 0 /\ lastLeft \in Nat /\ left >= lastLeft
      /\ left \in 0..MaxLeft /\ right \in 0..MaxRight
  BY <1>1, <1>2, BoundsAssumption
<1>4. h = (IF left = lastLeft THEN 0 ELSE left - lastLeft - 1) /\ h \in Nat
  BY <1>3 DEF Holes
<1>5. p \in Nat \X Nat /\ p[1] = left
  BY <1>3
<1> HIDE DEF h, p
<1>6. es2 = es \o Append(HoleSeq(lastLeft, h), p)
  <2>1. h = IF p[1] = lastLeft THEN 0 ELSE p[1] - lastLeft - 1
    BY <1>4, <1>5
  <2>2. EntriesOf(Append(pairs, p)) = EntriesOf(pairs) \o Append(HoleSeq(lastLeft, h), p)
    <3>1. /\ pairs \in Seq(Nat \X Nat) /\ p \in Nat \X Nat /\ lastLeft \in Nat
          /\ lastLeft = LastOf(pairs) /\ h \in Nat
      BY <1>1, <1>3, <1>4, <1>5
    <3>2. Follows(pairs, p, lastLeft, h)
      BY <2>1, <3>1 DEF Follows
    <3> QED BY <3>2, EntriesAppend
  <2> QED BY <1>2, <2>2
<1> HIDE DEF es, es2
<1>7. Takes(es, left, lastLeft, lastRight, h, es2, right)
  <2>1. es \in Seq(Nat \X Nat)
    BY <1>1 DEF Shape
  <2>2. Grows(es, es2, lastLeft, h, p)
    BY <1>3, <1>4, <1>5, <1>6, <2>1, ConcatGrows
  <2> QED BY <1>1, <1>3, <1>4, <2>2 DEF Takes, p
<1>8. Shape(es2, lastLeft', lastRight')
  BY <1>2, <1>7, ShapeGrows
<1>9. LogHolds(nums', Numbers(es2))
  <2>1. right \in Below(Width)
    <3>1. nums.width = Width
      BY <1>1 DEF LogHolds
    <3>2. Width \in 0..Word
      BY WidthAssumption
    <3>3. Pow2[Width] \in Nat /\ right < Pow2[Width]
      BY <1>2, <3>1, <3>2, PowType DEF Fits
    <3> QED BY <1>3, <3>3 DEF Below
  <2>2. LogHolds(LogPushZeros(nums, h), Numbers(es) \o Zeros(h))
    BY <1>1, <1>4, LogPushZerosHolds
  <2>3. LogHolds(nums', Append(Numbers(es) \o Zeros(h), right))
    BY <1>2, <2>1, <2>2, LogPushHolds
  <2>4. Numbers(es2) = Append(Numbers(es) \o Zeros(h), right)
    BY <1>7, NumbersGrow
  <2> QED BY <2>3, <2>4
<1>10. BitHolds(bits', Marks(es2, bits'.count)) /\ bits'.count = Settled(es2)
  <2>1. bits.count = Settled(es)
    BY <1>1, <1>2 DEF Built
  <2>2. ClosingBits(left) = Closing(left, lastLeft)
    BY DEF ClosingBits, Closing
  <2> DEFINE ms == Marks(es, Settled(es))  cs == Closing(left, lastLeft)
             m2 == Marks(es2, Settled(es2))
  <2>3. m2 = ms \o cs /\ ms \in Seq({0, 1}) /\ cs \in Seq({0, 1}) /\ Len(m2) = Settled(es2)
    BY <1>7, MarksGrow
  <2> HIDE DEF ms, cs, m2
  <2>4. BitHolds(bits, ms)
    BY <1>1, <2>1 DEF ms
  <2>5. BitHolds(bits', m2)
    BY <1>2, <2>2, <2>3, <2>4, BitPushAllHolds DEF cs
  <2>6. bits'.count = Len(m2)
    BY <2>5 DEF BitHolds
  <2> QED BY <2>3, <2>5, <2>6 DEF m2
<1>11. \E r : Reads(r, es2, pairs')
  <2>1. PICK r : Reads(r, es, pairs)
    BY <1>1
  <2> QED BY <1>2, <1>3, <1>7, <2>1, ReadsGrow DEF p
<1>12. pairs' \in Seq(Nat \X Nat) /\ lastLeft' = LastOf(pairs')
  <2> DEFINE E == Nat \X Nat
  <2>1. pairs \in Seq(E) /\ p \in E
    BY <1>1, <1>5
  <2> HIDE DEF E
  <2>2. /\ pairs' \in Seq(E) /\ pairs' # <<>> /\ Len(pairs') = Len(pairs) + 1
        /\ pairs'[Len(pairs) + 1] = p
    BY <1>2, <2>1, AppendProperties
  <2> QED BY <1>2, <1>5, <2>2 DEF LastOf, E
<1>13. ~Built'
  BY <1>2 DEF Built
<1>14. lastLeft' \in 0..MaxLeft /\ lastRight' \in 0..MaxRight
  BY <1>2, <1>3
<1> QED BY <1>8, <1>9, <1>10, <1>11, <1>12, <1>13, <1>14 DEF ListInv, es2

\* finalize keeps it.
LEMMA FinalizeHolds ==
  ASSUME NoneIsNoList, ListInv, Finalize
  PROVE  ListInv'
<1> DEFINE es == EntriesOf(pairs)  n == Len(es)
<1>1. /\ pairs \in Seq(Nat \X Nat) /\ lastLeft = LastOf(pairs)
      /\ lastLeft \in 0..MaxLeft /\ lastRight \in 0..MaxRight
      /\ Shape(es, lastLeft, lastRight)
      /\ LogHolds(nums, Numbers(es))
      /\ BitHolds(bits, Marks(es, bits.count))
      /\ bits.count = IF Built THEN Len(es) ELSE Settled(es)
      /\ \E r : Reads(r, es, pairs)
  BY DEF ListInv
<1>2. /\ list = None /\ bits' = IF nums.count # 0 THEN BitPush(bits, 1) ELSE bits
      /\ list' = [nums |-> LogFinalize(nums), bits |-> BuildBitIndex(BitFinalize(bits'))]
      /\ nums' = nums /\ lastLeft' = lastLeft /\ lastRight' = lastRight /\ pairs' = pairs
  BY DEF Finalize
<1>3. Built'
  BY <1>2 DEF Built, NoneIsNoList
<1>4. n \in Nat /\ ((es = <<>>) <=> (n = 0))
  <2>1. es \in Seq(Nat \X Nat)
    BY <1>1 DEF Shape
  <2> QED BY <2>1, LenProperties, EmptySeq
<1> HIDE DEF es
<1>5. nums.count = n
  <2>1. nums.count = Len(Numbers(es))
    BY <1>1 DEF LogHolds
  <2>2. es \in Seq(Nat \X Nat)
    BY <1>1 DEF Shape
  <2> QED BY <2>1, <2>2, NumbersLen
<1>6. BitHolds(bits', Marks(es, n)) /\ bits'.count = n
  <2>1. bits.count = Settled(es)
    BY <1>1, <1>2 DEF Built
  <2>2. CASE n = 0
    <3>1. bits' = bits /\ Settled(es) = 0
      BY <1>2, <1>4, <1>5, <2>2 DEF Settled
    <3> QED BY <1>1, <2>1, <2>2, <3>1
  <2>3. CASE n # 0
    <3>1. bits' = BitPush(bits, 1) /\ Settled(es) = n - 1 /\ n - 1 \in Nat
      BY <1>2, <1>4, <1>5, <2>3 DEF Settled
    <3> DEFINE B == {0, 1}  s == Marks(es, n)  t == Marks(es, n - 1)
    <3>2. \A k : Mark(es, k) \in B
      BY DEF Mark
    <3>3. s \in [1..n -> B] /\ \A i \in 1..n : s[i] = Mark(es, i)
      BY <3>2 DEF Marks
    <3>4. t \in [1..(n - 1) -> B] /\ \A i \in 1..(n - 1) : t[i] = Mark(es, i)
      BY <3>2 DEF Marks
    <3>5. BitHolds(bits', Append(t, 1))
      BY <1>1, <2>1, <3>1, BitPushHolds
    <3>6. Mark(es, n) = 1 /\ 1 \in B
      BY DEF Mark
    <3> HIDE DEF B, s, t, n
    <3>7. s \in Seq(B) /\ Len(s) = n /\ t \in Seq(B) /\ Len(t) = n - 1
      BY <1>4, <3>1, <3>3, <3>4, MadeSeq
    <3>8. /\ Append(t, 1) \in Seq(B) /\ Len(Append(t, 1)) = n
          /\ (\A i \in 1..(n - 1) : Append(t, 1)[i] = t[i]) /\ Append(t, 1)[n] = 1
      <4>1. (n - 1) + 1 = n
        BY <1>4
      <4> QED BY <3>6, <3>7, <4>1, AppendProperties
    <3>9. \A i \in 1..n : Append(t, 1)[i] = s[i]
      <4> TAKE i \in 1..n
      <4>1. i = n \/ i \in 1..(n - 1)
        BY <1>4
      <4> QED BY <3>3, <3>4, <3>6, <3>8, <4>1
    <3>10. Append(t, 1) = s
      BY <3>7, <3>8, <3>9, SeqEqual
    <3>11. BitHolds(bits', s)
      BY <3>5, <3>10
    <3>12. bits'.count = n
      BY <3>7, <3>11 DEF BitHolds
    <3> QED BY <3>11, <3>12 DEF s
  <2> QED BY <2>2, <2>3
<1> QED BY <1>1, <1>2, <1>3, <1>6 DEF ListInv, es, n

\* The invariant holds of every reachable state.
LEMMA ListInvariant ==
  ASSUME NoneIsNoList
  PROVE  Spec => []ListInv
<1>1. ListInv /\ [Next]_vars => ListInv'
  <2> SUFFICES ASSUME ListInv, [Next]_vars PROVE ListInv'
    OBVIOUS
  <2>1. CASE \E left \in 1..MaxLeft, right \in 1..MaxRight : Push(left, right)
    BY <2>1, PushHolds
  <2>2. CASE Finalize
    BY <2>2, FinalizeHolds
  <2>3. CASE UNCHANGED vars
    BY <2>3 DEF ListInv, vars, Built
  <2> QED BY <2>1, <2>2, <2>3 DEF Next
<1> QED BY <1>1, InitHolds, PTL DEF Spec

-----------------------------------------------------------------------------
(***************************************************************************)
(* What the invariant says of the builders and of a finished list.         *)
(***************************************************************************)
\* The facts in it that the properties are drawn from.
LEMMA HeldFacts ==
  ASSUME ListInv, NEW es, es = EntriesOf(pairs), NEW n, n = Len(es)
  PROVE  /\ n \in Nat /\ ((es = <<>>) <=> (n = 0))
         /\ nums.width = Width /\ nums.count = n /\ Len(Numbers(es)) = n
         /\ Packed(Width, nums.file, nums.current, nums.offset, Numbers(es))
         /\ bits.count \in Nat /\ Len(Marks(es, bits.count)) = bits.count
         /\ Packed(1, bits.file, bits.current, bits.count % Word, Marks(es, bits.count))
<1>1. /\ Shape(es, lastLeft, lastRight) /\ LogHolds(nums, Numbers(es))
      /\ BitHolds(bits, Marks(es, bits.count))
  BY DEF ListInv
<1>2. es \in Seq(Nat \X Nat)
  BY <1>1 DEF Shape
<1>3. n \in Nat /\ ((es = <<>>) <=> (n = 0))
  BY <1>2, LenProperties, EmptySeq
<1>4. /\ nums.width = Width /\ nums.count = Len(Numbers(es))
      /\ Packed(Width, nums.file, nums.current, nums.offset, Numbers(es))
  BY <1>1 DEF LogHolds
<1>5. Len(Numbers(es)) = n
  BY <1>2, NumbersLen
<1> DEFINE ms == Marks(es, bits.count)
<1>6. bits.count = Len(ms) /\ Packed(1, bits.file, bits.current, Len(ms) % Word, ms)
  BY <1>1 DEF BitHolds
<1>7. Len(ms) \in Nat
  BY <1>6, PackedType
<1> QED BY <1>3, <1>4, <1>5, <1>6, <1>7

(***************************************************************************)
(* The words that the builders of the two arrays have written account for  *)
(* the entries pushed, and the bits lag behind the numbers by one entry    *)
(* until the list is finished (AdjacencyListBuilder::push, finalize).      *)
(***************************************************************************)
THEOREM TypeInvariant ==
  ASSUME NoneIsNoList
  PROVE  Spec => []TypeOK
<1>1. ListInv => TypeOK
  <2> SUFFICES ASSUME ListInv PROVE TypeOK
    OBVIOUS
  <2> DEFINE es == EntriesOf(pairs)  n == Len(es)  c == bits.count
  <2>1. /\ n \in Nat /\ ((es = <<>>) <=> (n = 0))
        /\ nums.count = n /\ Len(Numbers(es)) = n
        /\ Packed(Width, nums.file, nums.current, nums.offset, Numbers(es))
        /\ c \in Nat /\ Len(Marks(es, c)) = c
        /\ Packed(1, bits.file, bits.current, c % Word, Marks(es, c))
    BY HeldFacts
  <2>2. /\ lastLeft \in 0..MaxLeft /\ lastRight \in 0..MaxRight
        /\ c = IF Built THEN n ELSE Settled(es)
    BY DEF ListInv
  <2>3. n = c + IF Built \/ n = 0 THEN 0 ELSE 1
    <3>1. Settled(es) = IF n = 0 THEN 0 ELSE n - 1
      BY <2>1 DEF Settled
    <3> HIDE DEF es, n, c
    <3>2. CASE Built
      BY <2>1, <2>2, <3>2
    <3>3. CASE ~Built
      BY <2>1, <2>2, <3>1, <3>3
    <3> QED BY <3>2, <3>3
  <2> HIDE DEF es, n, c
  <2>4. nums.current \in 0..(Pow2[Word] - 1) /\ bits.current \in 0..(Pow2[Word] - 1)
    BY <2>1 DEF Packed
  <2>5. Len(nums.file) * Word + nums.offset = n * Width /\ nums.offset \in 0..(Word - 1)
    BY <2>1, PackedType
  <2>6. Len(bits.file) * Word + (c % Word) = c * 1 /\ Len(bits.file) \in Nat
    BY <2>1, PackedType
  <2>7. Len(bits.file) = c \div Word
    <3> DEFINE f == Len(bits.file)
    <3>1. Word \in Nat \ {0} /\ f \in Nat /\ c * 1 = c
      BY <2>1, <2>6, WordAssumption
    <3>2. c % Word \in Nat /\ c % Word < Word
      BY <2>1, <3>1, DivMod
    <3>3. c = Word * f + (c % Word)
      BY <2>1, <2>6, <3>1, <3>2
    <3> HIDE DEF f
    <3>4. c \div Word = f
      BY <2>1, <3>1, <3>2, <3>3, DivModIs
    <3> QED BY <3>4 DEF f
  <2> QED BY <2>1, <2>2, <2>3, <2>4, <2>5, <2>7 DEF TypeOK, c
<1> QED BY <1>1, ListInvariant, PTL

(***************************************************************************)
(* The words written and those being filled hold exactly the numbers of    *)
(* the entries and the bits that are settled, for words and numbers of any *)
(* width, and the left-hand sides go up one by one (LogArrayFileBuilder::  *)
(* push, BitArrayFileBuilder::push, AdjacencyListBuilder::push).           *)
(***************************************************************************)
THEOREM BuilderInvariant ==
  ASSUME NoneIsNoList
  PROVE  Spec => []BuilderInv
<1>1. ListInv => BuilderInv
  <2> SUFFICES ASSUME ListInv PROVE BuilderInv
    OBVIOUS
  <2> DEFINE es == EntriesOf(pairs)
  <2>1. /\ nums.width = Width /\ nums.count = Len(es)
        /\ Packed(Width, nums.file, nums.current, nums.offset, Numbers(es))
        /\ Packed(1, bits.file, bits.current, bits.count % Word, Marks(es, bits.count))
    BY HeldFacts
  <2>2. /\ es # <<>> => es[1][1] = 1 /\ es[Len(es)] = <<lastLeft, lastRight>>
        /\ \A i \in 2..Len(es) : es[i][1] - es[i - 1][1] \in {0, 1}
    BY DEF ListInv, Shape
  <2>3. Marks(es, bits.count) = [i \in 1..bits.count |-> Mark(es, i)]
    BY DEF Marks
  <2> QED BY <2>1, <2>2, <2>3 DEF BuilderInv
<1> QED BY <1>1, ListInvariant, PTL

\* The numbers of a finished list are the array that its builder leaves.
LEMMA FinishedNumbers ==
  ASSUME ListInv, Built
  PROVE  ArrayOf(list.nums, Width, nums.file, nums.current, nums.offset,
                 Numbers(EntriesOf(pairs)))
<1> DEFINE es == EntriesOf(pairs)  n == Len(es)  vs == Numbers(es)  off == nums.offset
<1>1. /\ n \in Nat /\ nums.width = Width /\ nums.count = n /\ Len(vs) = n
      /\ Packed(Width, nums.file, nums.current, off, vs)
  BY HeldFacts
<1>2. list.nums = LogFinalize(nums)
  BY DEF ListInv
<1>3. (n * Width) % Word = off
  <2>1. /\ off \in 0..(Word - 1) /\ Len(nums.file) \in Nat
        /\ Len(nums.file) * Word + off = Len(vs) * Width
    BY <1>1, PackedType
  <2> DEFINE f == Len(nums.file)  m == n * Width
  <2>2. /\ Word \in Nat \ {0} /\ f \in Nat /\ off \in Nat /\ off < Word /\ m \in Nat
        /\ m = Word * f + off
    <3>1. Word \in Nat \ {0} /\ Width \in Nat
      BY WordAssumption, WidthAssumption
    <3> QED BY <1>1, <2>1, <3>1
  <2> HIDE DEF f, m, off
  <2>3. m % Word = off
    BY <2>2, DivModIs
  <2> QED BY <2>3 DEF m
<1>4. LogFinalize(nums) = [first |-> 0, len |-> Len(vs), width |-> Width,
                           words |-> Written(nums.file, nums.current, off)]
  BY <1>1, <1>3 DEF LogFinalize, Written
<1> QED BY <1>1, <1>2, <1>4, WidthAssumption DEF ArrayOf

(***************************************************************************)
(* The log array of a finished list has the size that parse validates, and *)
(* reads back the numbers of the entries by index and as a stream of words *)
(* (LogArrayFileBuilder::push and finalize, LogArray::parse and entry,     *)
(* LogArrayDecoder).                                                       *)
(***************************************************************************)
THEOREM LogArrayInvariant ==
  ASSUME NoneIsNoList
  PROVE  Spec => []LogArrayReadsBack
<1>1. ListInv => LogArrayReadsBack
  <2> SUFFICES ASSUME ListInv, Built
               PROVE  /\ ValidSize(list.nums)
                      /\ Iter(list.nums) = Numbers(EntriesOf(pairs))
                      /\ StreamEntries(list.nums) = Numbers(EntriesOf(pairs))
    BY DEF LogArrayReadsBack
  <2> QED BY FinishedNumbers, SizeIsValid, IterReads, StreamReads
<1> QED BY <1>1, ListInvariant, PTL

(***************************************************************************)
(* The iterator over a finished list and the stream over its files give    *)
(* back the pairs that were pushed and no others, however long the holes   *)
(* between them (AdjacencyListBuilder::push and finalize,                  *)
(* AdjacencyListIterator, adjacency_list_stream_pairs).                    *)
(***************************************************************************)
LEMMA PairsRead ==
  ASSUME ListInv, Built
  PROVE  ListPairs(list) = pairs /\ StreamPairs(list) = pairs
<1> DEFINE es == EntriesOf(pairs)  n == Len(es)  vs == Numbers(es)  ms == Marks(es, n)
           a == BitFinalize(bits)
<1>1. Shape(es, lastLeft, lastRight) /\ \E r : Reads(r, es, pairs)
  BY DEF ListInv
<1>2. bits.count = n /\ BitHolds(bits, ms)
  BY DEF ListInv
<1>3. list.bits = BuildBitIndex(a)
  BY DEF ListInv
<1>4. BuildBitIndex(a).array = a
  BY DEF BuildBitIndex
<1>5. list.bits.array = a
  BY <1>3, <1>4
<1>6. n \in Nat /\ Len(vs) = n /\ Len(ms) = n
  BY <1>2, HeldFacts
<1>7. /\ \A i \in 1..n : Entry(list.nums, i - 1) = vs[i]
      /\ StreamEntries(list.nums) = vs
  BY <1>6, FinishedNumbers, IterReads, StreamReads
<1>8. CountingPairs(ms, vs) = pairs
  BY <1>1, CountingIsReading
<1> HIDE DEF a, ms, vs, n
<1>9. a.len = n /\ (\A i \in 1..n : Get(a, i - 1) = ms[i]) /\ StreamBits(a) = ms
  BY <1>2, <1>6, BitsRead DEF a
<1>10. RightCount(list) = n
  BY <1>5, <1>9 DEF RightCount
<1>11. [i \in 1..n |-> Get(a, i - 1)] = ms
  <2>1. [i \in 1..n |-> Get(a, i - 1)] = [i \in 1..n |-> ms[i]]
    BY <1>9
  <2>2. ms = [i \in 1..n |-> ms[i]]
    BY DEF ms, Marks
  <2> QED BY <2>1, <2>2
<1>12. [i \in 1..n |-> Entry(list.nums, i - 1)] = vs
  <2>1. [i \in 1..n |-> Entry(list.nums, i - 1)] = [i \in 1..n |-> vs[i]]
    BY <1>7
  <2>2. vs = [i \in 1..n |-> vs[i]]
    BY DEF vs, Numbers, n
  <2> QED BY <2>1, <2>2
<1>13. ListPairs(list) = CountingPairs(ms, vs)
  BY <1>5, <1>10, <1>11, <1>12 DEF ListPairs
<1>14. StreamPairs(list) = CountingPairs(ms, vs)
  BY <1>5, <1>7, <1>9 DEF StreamPairs
<1> QED BY <1>8, <1>13, <1>14

-----------------------------------------------------------------------------
(***************************************************************************)
(* Counting the members of a set of natural numbers in an interval.        *)
(***************************************************************************)
\* The members of P from a to b, b excluded, and how many there are.
Within(P, a, b) == {k \in a..(b - 1) : k \in P}
Cnt(P, a, b) == Cardinality(Within(P, a, b))

One(P, k) == IF k \in P THEN 1 ELSE 0

\* The members in an interval are finitely many, and none in an empty one.
LEMMA CountType ==
  ASSUME NEW P, NEW a \in Nat, NEW b \in Nat
  PROVE  IsFiniteSet(Within(P, a, b)) /\ Cnt(P, a, b) \in Nat /\ Cnt(P, a, a) = 0
<1>1. IsFiniteSet(Within(P, a, b)) /\ Cnt(P, a, b) \in Nat
  <2>1. IsFiniteSet(a..(b - 1))
    BY FS_Interval
  <2>2. Within(P, a, b) \in SUBSET (a..(b - 1))
    BY DEF Within
  <2>3. IsFiniteSet(Within(P, a, b))
    BY <2>1, <2>2, FS_Subset
  <2> QED BY <2>3, FS_CardinalityType DEF Cnt
<1>2. Cnt(P, a, a) = 0
  <2>1. Within(P, a, a) = {}
    BY DEF Within
  <2> QED BY <2>1, FS_EmptySet DEF Cnt
<1> QED BY <1>1, <1>2

\* One more number may be one more member.
LEMMA CountStep ==
  ASSUME NEW P, NEW a \in Nat, NEW b \in Nat, a <= b, NEW c \in Nat, c = b + 1
  PROVE  /\ Cnt(P, a, c) = Cnt(P, a, b) + One(P, b) /\ One(P, b) \in {0, 1}
         /\ Cnt(P, a, b) \in Nat /\ Cnt(P, a, c) \in Nat
<1>1. /\ IsFiniteSet(Within(P, a, b)) /\ Cnt(P, a, b) \in Nat /\ Cnt(P, a, c) \in Nat
      /\ One(P, b) \in {0, 1}
  BY CountType DEF One
<1>3. CASE b \in P
  <2>1. Within(P, a, c) = Within(P, a, b) \cup {b}
    <3>1. ASSUME NEW k PROVE k \in a..(c - 1) <=> (k \in a..(b - 1) \/ k = b)
      OBVIOUS
    <3> QED BY <1>3, <3>1 DEF Within
  <2>2. b \notin Within(P, a, b)
    BY DEF Within
  <2> QED BY <1>1, <1>3, <2>1, <2>2, FS_AddElement DEF Cnt, One
<1>4. CASE b \notin P
  <2>1. Within(P, a, c) = Within(P, a, b)
    <3>1. ASSUME NEW k PROVE k \in a..(c - 1) <=> (k \in a..(b - 1) \/ k = b)
      OBVIOUS
    <3> QED BY <1>4, <3>1 DEF Within
  <2> QED BY <1>1, <1>4, <2>1 DEF Cnt, One
<1> QED BY <1>1, <1>3, <1>4

\* The same numbers of two intervals of the same length are members: the counts are
\* the same.
SameOver(P, Q, a, c, m) == \A k \in Nat : k < m => (a + k \in P <=> c + k \in Q)
LEMMA CountShift ==
  ASSUME NEW P, NEW Q, NEW a \in Nat, NEW c \in Nat, NEW m \in Nat,
         SameOver(P, Q, a, c, m), NEW b, b = a + m, NEW d, d = c + m
  PROVE  Cnt(P, a, b) = Cnt(Q, c, d)
<1> DEFINE T == {j \in Nat : j <= m => Cnt(P, a, a + j) = Cnt(Q, c, c + j)}
<1>1. 0 \in T
  <2>1. Cnt(P, a, a) = 0 /\ Cnt(Q, c, c) = 0
    BY CountType
  <2> QED BY <2>1
<1>2. ASSUME NEW j \in T PROVE j + 1 \in T
  <2> SUFFICES ASSUME j + 1 <= m PROVE Cnt(P, a, a + (j + 1)) = Cnt(Q, c, c + (j + 1))
    OBVIOUS
  <2> DEFINE p == a + j  p1 == a + (j + 1)  q == c + j  q1 == c + (j + 1)
  <2>1. /\ j \in Nat /\ p \in Nat /\ a <= p /\ q \in Nat /\ c <= q
        /\ p1 \in Nat /\ q1 \in Nat /\ p1 = p + 1 /\ q1 = q + 1 /\ j < m /\ j <= m
    OBVIOUS
  <2>2. Cnt(P, a, p) = Cnt(Q, c, q) /\ (p \in P <=> q \in Q)
    BY <2>1 DEF SameOver
  <2> HIDE DEF T, p, q, p1, q1
  <2>3. Cnt(P, a, p1) = Cnt(P, a, p) + One(P, p)
    BY <2>1, CountStep
  <2>4. Cnt(Q, c, q1) = Cnt(Q, c, q) + One(Q, q)
    BY <2>1, CountStep
  <2>5. Cnt(P, a, p1) = Cnt(Q, c, q1)
    BY <2>2, <2>3, <2>4 DEF One
  <2> QED BY <2>5 DEF p1, q1
<1> T \in SUBSET Nat
  OBVIOUS
<1> HIDE DEF T
<1>3. T = Nat
  BY <1>1, <1>2, AllNat
<1> QED BY <1>3 DEF T

\* An interval in two parts.
LEMMA CountParts ==
  ASSUME NEW P, NEW a \in Nat, NEW b \in Nat, NEW c \in Nat, a <= b, b <= c
  PROVE  /\ Cnt(P, a, c) = Cnt(P, a, b) + Cnt(P, b, c)
         /\ Cnt(P, a, b) \in Nat /\ Cnt(P, b, c) \in Nat
<1> DEFINE T == {j \in Nat : Cnt(P, a, b + j) = Cnt(P, a, b) + Cnt(P, b, b + j)}
<1>1. 0 \in T
  <2>1. Cnt(P, a, b) \in Nat /\ Cnt(P, b, b) = 0
    BY CountType
  <2> QED BY <2>1
<1>2. ASSUME NEW j \in T PROVE j + 1 \in T
  <2> DEFINE p == b + j  p1 == b + (j + 1)
  <2>1. /\ j \in Nat /\ p \in Nat /\ a <= p /\ b <= p /\ p1 \in Nat /\ p1 = p + 1
    OBVIOUS
  <2>2. Cnt(P, a, p) = Cnt(P, a, b) + Cnt(P, b, p)
    OBVIOUS
  <2> HIDE DEF T, p, p1
  <2>3. /\ Cnt(P, a, p1) = Cnt(P, a, p) + One(P, p)
        /\ Cnt(P, b, p1) = Cnt(P, b, p) + One(P, p)
        /\ Cnt(P, b, p) \in Nat /\ One(P, p) \in {0, 1}
    BY <2>1, CountStep
  <2>4. Cnt(P, a, b) \in Nat
    BY CountType
  <2>5. Cnt(P, a, p1) = Cnt(P, a, b) + Cnt(P, b, p1)
    BY <2>2, <2>3, <2>4
  <2> QED BY <2>1, <2>5 DEF T, p1
<1> T \in SUBSET Nat
  OBVIOUS
<1> HIDE DEF T
<1>3. T = Nat
  BY <1>1, <1>2, AllNat
<1>4. c - b \in Nat /\ b + (c - b) = c
  OBVIOUS
<1>5. Cnt(P, a, b + (c - b)) = Cnt(P, a, b) + Cnt(P, b, b + (c - b))
  BY <1>3, <1>4 DEF T
<1> QED BY <1>4, <1>5, CountType

\* A longer interval has no fewer members, and more of them past a member.
LEMMA CountGrows ==
  ASSUME NEW P, NEW b \in Nat, NEW c \in Nat, b <= c
  PROVE  /\ Cnt(P, 0, b) \in Nat /\ Cnt(P, 0, c) \in Nat /\ Cnt(P, 0, b) <= Cnt(P, 0, c)
         /\ b \in P /\ b < c => Cnt(P, 0, b) < Cnt(P, 0, c)
<1>1. 0 \in Nat /\ 0 <= b /\ Cnt(P, 0, b) \in Nat /\ Cnt(P, 0, c) \in Nat
  BY CountType
<1>2. ASSUME NEW d \in Nat, d <= c PROVE Cnt(P, 0, d) \in Nat /\ Cnt(P, 0, d) <= Cnt(P, 0, c)
  <2>1. 0 \in Nat /\ 0 <= d /\ d <= c
    BY <1>2
  <2>2. /\ Cnt(P, 0, c) = Cnt(P, 0, d) + Cnt(P, d, c)
        /\ Cnt(P, 0, d) \in Nat /\ Cnt(P, d, c) \in Nat
    BY <2>1, CountParts
  <2> QED BY <2>2
<1>3. ASSUME b \in P, b < c PROVE Cnt(P, 0, b) < Cnt(P, 0, c)
  <2> DEFINE d == b + 1
  <2>1. d \in Nat /\ d = b + 1 /\ d <= c
    BY <1>3
  <2> HIDE DEF d
  <2>2. Cnt(P, 0, d) = Cnt(P, 0, b) + One(P, b)
    BY <1>1, <2>1, CountStep
  <2>3. One(P, b) = 1
    BY <1>3 DEF One
  <2>4. Cnt(P, 0, d) <= Cnt(P, 0, c)
    BY <1>2, <2>1
  <2> QED BY <1>1, <2>2, <2>3, <2>4
<1> QED BY <1>1, <1>2, <1>3

\* Members of two sets that share out the numbers.
LEMMA CountBoth ==
  ASSUME NEW P, NEW Q, NEW m \in Nat, \A k \in Nat : k < m => (k \in P <=> ~(k \in Q))
  PROVE  Cnt(P, 0, m) + Cnt(Q, 0, m) = m
<1> DEFINE T == {j \in Nat : j <= m => Cnt(P, 0, j) + Cnt(Q, 0, j) = j}
<1>1. 0 \in T
  <2>1. Cnt(P, 0, 0) = 0 /\ Cnt(Q, 0, 0) = 0
    BY CountType
  <2> QED BY <2>1
<1>2. ASSUME NEW j \in T PROVE j + 1 \in T
  <2> SUFFICES ASSUME j + 1 <= m PROVE Cnt(P, 0, j + 1) + Cnt(Q, 0, j + 1) = j + 1
    OBVIOUS
  <2> DEFINE k == j + 1
  <2>1. j \in Nat /\ j < m /\ j <= m /\ 0 <= j /\ k \in Nat /\ k = j + 1
    OBVIOUS
  <2>2. Cnt(P, 0, j) + Cnt(Q, 0, j) = j /\ (j \in P <=> ~(j \in Q))
    BY <2>1
  <2> HIDE DEF T, k
  <2>3. /\ Cnt(P, 0, k) = Cnt(P, 0, j) + One(P, j) /\ Cnt(P, 0, j) \in Nat
        /\ Cnt(Q, 0, k) = Cnt(Q, 0, j) + One(Q, j) /\ Cnt(Q, 0, j) \in Nat
    BY <2>1, CountStep
  <2>4. One(P, j) + One(Q, j) = 1 /\ One(P, j) \in Nat /\ One(Q, j) \in Nat
    BY <2>2 DEF One
  <2>5. Cnt(P, 0, k) + Cnt(Q, 0, k) = k
    BY <2>1, <2>2, <2>3, <2>4
  <2> QED BY <2>5 DEF k
<1> T \in SUBSET Nat
  OBVIOUS
<1> HIDE DEF T
<1>3. T = Nat
  BY <1>1, <1>2, AllNat
<1> QED BY <1>3 DEF T

\* No members, none counted.
LEMMA CountNone ==
  ASSUME NEW P, NEW b \in Nat, NEW c \in Nat, b <= c,
         \A k \in b..(c - 1) : k \notin P
  PROVE  Cnt(P, 0, c) = Cnt(P, 0, b)
<1>1. 0 \in Nat /\ 0 <= b
  OBVIOUS
<1>2. Cnt(P, 0, c) = Cnt(P, 0, b) + Cnt(P, b, c) /\ Cnt(P, 0, b) \in Nat
  BY <1>1, CountParts
<1>3. Within(P, b, c) = {}
  BY DEF Within
<1>4. Cnt(P, b, c) = 0
  BY <1>3, FS_EmptySet DEF Cnt
<1> QED BY <1>2, <1>4

-----------------------------------------------------------------------------
(***************************************************************************)
(* The searches by halving.                                                *)
(***************************************************************************)
\* What a search by halving returns for an interval: up is 1 for the one that looks
\* for the last number in L and 0 for the one that looks for the first one not in L.
Halve(f, up, L, s, e) ==
  LET mid == (s + e + up) \div 2 IN
  IF s = e THEN mid ELSE IF mid \in L THEN f[<<mid + 1 - up, e>>] ELSE f[<<s, mid - up>>]
SearchIs(f, lo, hi, up, L) ==
  f = [r \in (lo..hi) \X (lo..hi) |-> Halve(f, up, L, r[1], r[2])]

\* The number that it looks for.
Found(k, up, L, s, e) ==
  /\ k \in s..e /\ (\A j \in s..e : j < k => j + up \in L) /\ (k = e \/ k + up \notin L)

\* The middle of an interval.
LEMMA Middle ==
  ASSUME NEW s \in Nat, NEW e \in Nat, NEW up \in {0, 1}, NEW mid, mid = (s + e + up) \div 2
  PROVE  /\ mid \in Nat
         /\ s = e => mid = s
         /\ s < e => /\ s <= mid - up /\ mid - up < e
                     /\ mid - up \in Nat /\ mid - up + 1 = mid + 1 - up
         /\ s > e => /\ e <= mid - up /\ mid - up < s
                     /\ mid - up \in Nat /\ mid - up + 1 = mid + 1 - up
  OBVIOUS

\* There is such a number and only one.
LEMMA FoundOne ==
  ASSUME NEW s \in Nat, NEW e \in Nat, s <= e, NEW up \in {0, 1}, NEW L
  PROVE  /\ \E k : Found(k, up, L, s, e)
         /\ \A k, l : Found(k, up, L, s, e) /\ Found(l, up, L, s, e) => k = l
<1>1. \E k : Found(k, up, L, s, e)
  <2> DEFINE T == {k \in s..e : k = e \/ k + up \notin L}
  <2>1. T \in SUBSET Nat /\ e \in T
    OBVIOUS
  <2> HIDE DEF T
  <2>2. PICK k \in T : \A y \in T : k <= y
    BY <2>1, LeastNat
  <2>3. k \in s..e /\ (k = e \/ k + up \notin L)
    BY <2>2 DEF T
  <2>4. ASSUME NEW j \in s..e, j < k PROVE j + up \in L
    <3>1. j \notin T
      BY <2>2, <2>3, <2>4
    <3> QED BY <3>1 DEF T
  <2> QED BY <2>3, <2>4 DEF Found
<1>2. ASSUME NEW k, NEW l, Found(k, up, L, s, e), Found(l, up, L, s, e) PROVE k = l
  <2>1. k \in Nat /\ l \in Nat /\ k \in s..e /\ l \in s..e
    BY <1>2 DEF Found
  <2>2. ~(k < l)
    BY <1>2, <2>1 DEF Found
  <2>3. ~(l < k)
    BY <1>2, <2>1 DEF Found
  <2> QED BY <2>1, <2>2, <2>3
<1> QED BY <1>1, <1>2

\* A smaller number than one in L is in L.
Down(L) == \A i, j \in Nat : j \in L /\ i <= j => i \in L

\* Half of an interval has the number that the interval has.
LEMMA FoundHalf ==
  ASSUME NEW s \in Nat, NEW e \in Nat, s < e, NEW up \in {0, 1}, NEW L, Down(L),
         NEW mid, mid = (s + e + up) \div 2, NEW k
  PROVE  /\ mid \in L /\ Found(k, up, L, mid + 1 - up, e) => Found(k, up, L, s, e)
         /\ mid \notin L /\ Found(k, up, L, s, mid - up) => Found(k, up, L, s, e)
<1> DEFINE m == mid - up
<1>1. mid \in Nat /\ s <= m /\ m < e /\ m \in Nat /\ m + 1 = mid + 1 - up /\ m + up = mid
  BY Middle
<1> HIDE DEF m
<1>2. ASSUME mid \in L, Found(k, up, L, m + 1, e) PROVE Found(k, up, L, s, e)
  <2>1. k \in s..e /\ k \in Nat /\ (k = e \/ k + up \notin L)
    BY <1>1, <1>2 DEF Found
  <2>2. ASSUME NEW j \in s..e, j < k PROVE j + up \in L
    <3>1. CASE j <= m
      <4>1. j + up \in Nat /\ j + up <= mid
        BY <1>1, <3>1
      <4> QED BY <1>1, <1>2, <4>1 DEF Down
    <3>2. CASE m < j
      <4>1. j \in (m + 1)..e
        BY <1>1, <3>2
      <4> QED BY <1>2, <2>2, <4>1 DEF Found
    <3> QED BY <1>1, <3>1, <3>2
  <2> QED BY <2>1, <2>2 DEF Found
<1>3. ASSUME mid \notin L, Found(k, up, L, s, m) PROVE Found(k, up, L, s, e)
  <2>1. k \in s..m /\ k \in s..e /\ k + up \notin L
    BY <1>1, <1>3 DEF Found
  <2>2. ASSUME NEW j \in s..e, j < k PROVE j + up \in L
    <3>1. j \in s..m
      BY <1>1, <2>1, <2>2
    <3> QED BY <1>3, <2>2, <3>1 DEF Found
  <2> QED BY <2>1, <2>2 DEF Found
<1> QED BY <1>1, <1>2, <1>3 DEF m

\* The function of a search has a solution.
LEMMA SearchExists ==
  ASSUME NEW lo \in Nat, NEW hi \in Nat, NEW up \in {0, 1}, NEW L, Down(L)
  PROVE  \E f : SearchIs(f, lo, hi, up, L)
<1> DEFINE val(s, e) == IF s <= e THEN CHOOSE k : Found(k, up, L, s, e) ELSE 0
           f == [r \in (lo..hi) \X (lo..hi) |-> val(r[1], r[2])]
<1>1. ASSUME NEW s \in lo..hi, NEW e \in lo..hi PROVE f[<<s, e>>] = val(s, e)
  <2> HIDE DEF val
  <2>1. <<s, e>> \in (lo..hi) \X (lo..hi) /\ <<s, e>>[1] = s /\ <<s, e>>[2] = e
    OBVIOUS
  <2> QED BY <2>1
<1>2. ASSUME NEW s \in lo..hi, NEW e \in lo..hi, s <= e PROVE Found(f[<<s, e>>], up, L, s, e)
  <2>1. s \in Nat /\ e \in Nat
    OBVIOUS
  <2>2. f[<<s, e>>] = CHOOSE k : Found(k, up, L, s, e)
    BY <1>1, <1>2
  <2>3. \E k : Found(k, up, L, s, e)
    BY <1>2, <2>1, FoundOne
  <2> HIDE DEF f
  <2> QED BY <2>2, <2>3
<1>3. ASSUME NEW s \in lo..hi, NEW e \in lo..hi, ~(s <= e) PROVE f[<<s, e>>] = 0
  BY <1>1, <1>3
<1> HIDE DEF f
<1>4. ASSUME NEW s \in lo..hi, NEW e \in lo..hi PROVE f[<<s, e>>] = Halve(f, up, L, s, e)
  <2> DEFINE mid == (s + e + up) \div 2
  <2>1. /\ s \in Nat /\ e \in Nat /\ mid \in Nat
        /\ s = e => mid = s
        /\ s < e => s <= mid - up /\ mid - up < e /\ mid - up \in Nat /\ mid - up + 1 = mid + 1 - up
        /\ s > e => e <= mid - up /\ mid - up < s /\ mid - up \in Nat /\ mid - up + 1 = mid + 1 - up
    BY Middle
  <2> DEFINE m == mid - up  l == mid + 1 - up
  <2>2. Halve(f, up, L, s, e)
          = IF s = e THEN mid ELSE IF mid \in L THEN f[<<l, e>>] ELSE f[<<s, m>>]
    BY DEF Halve
  <2>3. mid = (s + e + up) \div 2
    OBVIOUS
  <2> HIDE DEF mid
  <2>4. CASE s = e
    <3>1. Found(f[<<s, e>>], up, L, s, e)
      BY <1>2, <2>1, <2>4
    <3>2. f[<<s, e>>] = s
      BY <2>1, <2>4, <3>1 DEF Found
    <3> QED BY <2>1, <2>2, <2>4, <3>2
  <2>5. CASE s < e
    <3>1. /\ l \in lo..hi /\ m \in lo..hi /\ l <= e /\ s <= m /\ s # e /\ s <= e
          /\ l = mid + 1 - up /\ m = mid - up
      BY <2>1, <2>5
    <3> HIDE DEF l, m
    <3>2. /\ Found(f[<<s, e>>], up, L, s, e) /\ Found(f[<<l, e>>], up, L, l, e)
          /\ Found(f[<<s, m>>], up, L, s, m)
      BY <1>2, <3>1
    <3>3. mid \in L => Found(f[<<l, e>>], up, L, s, e)
      BY <2>1, <2>3, <2>5, <3>1, <3>2, FoundHalf
    <3>4. mid \notin L => Found(f[<<s, m>>], up, L, s, e)
      BY <2>1, <2>3, <2>5, <3>1, <3>2, FoundHalf
    <3>5. \A k, l1 : Found(k, up, L, s, e) /\ Found(l1, up, L, s, e) => k = l1
      BY <2>1, <3>1, FoundOne
    <3> QED BY <2>2, <3>1, <3>2, <3>3, <3>4, <3>5
  <2>6. CASE s > e
    <3>1. /\ l \in lo..hi /\ m \in lo..hi /\ ~(l <= e) /\ ~(s <= m) /\ s # e /\ ~(s <= e)
      BY <2>1, <2>6
    <3> HIDE DEF l, m
    <3> QED BY <1>3, <2>2, <3>1
  <2> QED BY <2>1, <2>4, <2>5, <2>6
<1>5. f = [r \in (lo..hi) \X (lo..hi) |-> f[r]]
  BY DEF f
<1>6. ASSUME NEW r \in (lo..hi) \X (lo..hi) PROVE f[r] = Halve(f, up, L, r[1], r[2])
  <2>1. r[1] \in lo..hi /\ r[2] \in lo..hi /\ r = <<r[1], r[2]>>
    OBVIOUS
  <2> QED BY <1>4, <2>1
<1> QED BY <1>5, <1>6 DEF SearchIs

\* Any solution finds the number.
LEMMA SearchFinds ==
  ASSUME NEW lo \in Nat, NEW hi \in Nat, lo <= hi, NEW up \in {0, 1}, NEW L, Down(L),
         NEW f, SearchIs(f, lo, hi, up, L)
  PROVE  Found(f[<<lo, hi>>], up, L, lo, hi)
<1>0. ASSUME NEW s \in Nat, NEW e \in Nat, s < e, NEW mid, mid = (s + e + up) \div 2
      PROVE  /\ mid \in Nat /\ s <= mid - up /\ mid - up < e /\ mid - up \in Nat
             /\ mid - up + 1 = mid + 1 - up
  BY <1>0
<1>1. ASSUME NEW s \in lo..hi, NEW e \in lo..hi PROVE f[<<s, e>>] = Halve(f, up, L, s, e)
  BY DEF SearchIs
<1> DEFINE T == {n \in Nat : \A s, e \in lo..hi : s <= e /\ e - s <= n =>
                                                    Found(f[<<s, e>>], up, L, s, e)}
<1>2. ASSUME NEW s \in lo..hi, NEW e \in lo..hi, s = e PROVE Found(f[<<s, e>>], up, L, s, e)
  <2>1. s \in Nat /\ e \in Nat
    OBVIOUS
  <2>2. Halve(f, up, L, s, e) = s
    BY <1>2, <2>1, Middle DEF Halve
  <2> QED BY <1>1, <1>2, <2>1, <2>2 DEF Found
<1>3. 0 \in T
  <2>1. ASSUME NEW s \in lo..hi, NEW e \in lo..hi, s <= e, e - s <= 0 PROVE s = e
    BY <2>1
  <2> QED BY <1>2, <2>1
<1>4. ASSUME NEW n \in T PROVE n + 1 \in T
  <2>0. n \in Nat /\ \A s, e \in lo..hi : s <= e /\ e - s <= n => Found(f[<<s, e>>], up, L, s, e)
    OBVIOUS
  <2> SUFFICES ASSUME NEW s \in lo..hi, NEW e \in lo..hi, s < e, e - s <= n + 1
               PROVE  Found(f[<<s, e>>], up, L, s, e)
    BY <1>2, <2>0
  <2> DEFINE mid == (s + e + up) \div 2  m == mid - up  l == mid + 1 - up
  <2>a. s \in Nat /\ e \in Nat /\ mid = (s + e + up) \div 2
    OBVIOUS
  <2> HIDE DEF mid, T
  <2>b. /\ mid \in Nat /\ s <= mid - up /\ mid - up < e /\ mid - up \in Nat
        /\ mid - up + 1 = mid + 1 - up
    BY <1>0, <2>a, ZenonT(30)
  <2>1. /\ s \in Nat /\ e \in Nat /\ mid \in Nat
        /\ s <= m /\ m < e /\ m \in Nat /\ m + 1 = l
    BY <2>a, <2>b
  <2> USE DEF mid
  <2>2. Halve(f, up, L, s, e)
          = IF s = e THEN mid ELSE IF mid \in L THEN f[<<l, e>>] ELSE f[<<s, m>>]
    BY DEF Halve
  <2>3. mid = (s + e + up) \div 2 /\ m = mid - up /\ l = mid + 1 - up
    OBVIOUS
  <2> HIDE DEF mid, m, l
  <2>4. l \in lo..hi /\ m \in lo..hi /\ l <= e /\ s <= m /\ e - l <= n /\ m - s <= n /\ s # e
    BY <2>0, <2>1
  <2>5. Found(f[<<l, e>>], up, L, l, e) /\ Found(f[<<s, m>>], up, L, s, m)
    BY <2>0, <2>4
  <2>6. mid \in L => Found(f[<<l, e>>], up, L, s, e)
    BY <2>1, <2>3, <2>5, FoundHalf
  <2>7. mid \notin L => Found(f[<<s, m>>], up, L, s, e)
    BY <2>1, <2>3, <2>5, FoundHalf
  <2> QED BY <1>1, <2>2, <2>4, <2>6, <2>7
<1> T \in SUBSET Nat
  OBVIOUS
<1> HIDE DEF T
<1>5. T = Nat
  BY <1>3, <1>4, AllNat
<1>6. hi - lo \in T /\ lo \in lo..hi /\ hi \in lo..hi
  BY <1>5
<1> QED BY <1>6 DEF T

-----------------------------------------------------------------------------
(***************************************************************************)
(* The bits of the words of an array, and what the index counts of them.   *)
(***************************************************************************)
IsWords(ws) == ws \in Seq(0..(Pow2[Word] - 1))

\* The bit at a place, 0 behind the last word; the places of a bit, and how many of
\* them are before a place.
BitAt(ws, p) == IF p \div Word < Len(ws) THEN BitOf(At(ws, p \div Word), p % Word) ELSE 0
Places(ws, b) == {p \in Nat : BitAt(ws, p) = b}
Rank(ws, b, p) == Cnt(Places(ws, b), 0, p)

\* The bits of a word, by their index in it.
InWordPlaces(x, b) == {i \in Nat : BitOf(x, i) = b}

\* Word is not 0, and the words are numbers.
LEMMA WordFacts ==
  ASSUME NEW ws, IsWords(ws)
  PROVE  /\ Word \in Nat \ {0} /\ SBlock \in Nat \ {0} /\ Pow2[Word] \in Nat \ {0}
         /\ Len(ws) \in Nat
         /\ \A k \in Nat : k < Len(ws) => At(ws, k) \in Nat /\ At(ws, k) < Pow2[Word]
<1>1. Word \in Nat \ {0} /\ SBlock \in Nat \ {0} /\ Word \in 0..Word
  BY WordAssumption, SBlockAssumption
<1>2. Pow2[Word] \in Nat \ {0}
  BY <1>1, PowType
<1> DEFINE S == 0..(Pow2[Word] - 1)
<1>3. ws \in Seq(S)
  BY DEF IsWords
<1>4. \A x \in S : x \in Nat /\ x < Pow2[Word]
  BY <1>2
<1> HIDE DEF S
<1>5. Len(ws) \in Nat /\ \A k \in 1..Len(ws) : ws[k] \in S
  BY <1>3
<1>6. ASSUME NEW k \in Nat, k < Len(ws) PROVE At(ws, k) \in S
  <2>1. k + 1 \in 1..Len(ws)
    BY <1>5, <1>6
  <2> QED BY <1>5, <2>1 DEF At
<1> QED BY <1>1, <1>2, <1>4, <1>5, <1>6

\* A bit is 0 or 1.
LEMMA BitType ==
  ASSUME NEW x \in Nat, NEW i \in Nat, i < Word
  PROVE  BitOf(x, i) \in {0, 1}
<1>1. Word - 1 - i \in 0..Word
  BY WordAssumption
<1>2. Pow2[Word - 1 - i] \in Nat \ {0}
  BY <1>1, PowType
<1>3. x \div Pow2[Word - 1 - i] \in Nat
  BY <1>2, DivMod
<1> QED BY <1>3 DEF BitOf, Shr

\* So is the bit at each place, and the places of the two bits are all the places.
LEMMA BothBits ==
  ASSUME NEW ws, IsWords(ws), NEW p \in Nat
  PROVE  /\ BitAt(ws, p) \in {0, 1}
         /\ Rank(ws, 1, p) + Rank(ws, 0, p) = p
         /\ \A b : Rank(ws, b, p) \in Nat
<1>1. ASSUME NEW q \in Nat PROVE BitAt(ws, q) \in {0, 1}
  <2> DEFINE k == q \div Word  o == q % Word
  <2>1. Word \in Nat \ {0}
    BY WordAssumption
  <2>2. k \in Nat /\ o \in Nat /\ o < Word
    BY <2>1, DivMod
  <2> HIDE DEF k, o
  <2>3. k < Len(ws) => At(ws, k) \in Nat
    BY <2>2, WordFacts
  <2>4. k < Len(ws) => BitOf(At(ws, k), o) \in {0, 1}
    BY <2>2, <2>3, BitType
  <2> QED BY <2>4 DEF BitAt, k, o
<1>2. \A k \in Nat : k < p => (k \in Places(ws, 1) <=> ~(k \in Places(ws, 0)))
  BY <1>1 DEF Places
<1> DEFINE P == Places(ws, 1)  Q == Places(ws, 0)
<1>3. \A k \in Nat : k < p => (k \in P <=> ~(k \in Q))
  BY <1>2
<1> HIDE DEF P, Q
<1>4. Cnt(P, 0, p) + Cnt(Q, 0, p) = p
  BY <1>3, CountBoth
<1>5. \A b : Rank(ws, b, p) \in Nat
  BY CountType DEF Rank
<1> QED BY <1>1, <1>4, <1>5 DEF P, Q, Rank

\* The places in a word.
LEMMA PlaceInWord ==
  ASSUME NEW ws, IsWords(ws), NEW k \in Nat, k < Len(ws), NEW o \in Nat, o < Word, NEW b
  PROVE  /\ Word * k + o \in Nat
         /\ Word * k + o \in Places(ws, b) <=> BitOf(At(ws, k), o) = b
<1>1. Word \in Nat \ {0}
  BY WordAssumption
<1> DEFINE p == Word * k + o
<1>2. p \in Nat /\ p \div Word = k /\ p % Word = o
  BY <1>1, DivModUnique
<1> HIDE DEF p
<1>3. p \in Places(ws, b) <=> BitOf(At(ws, k), o) = b
  BY <1>2 DEF Places, BitAt
<1> QED BY <1>2, <1>3 DEF p

\* Counting in a word is counting from where it begins.
LEMMA CountInWord ==
  ASSUME NEW ws, IsWords(ws), NEW k \in Nat, k < Len(ws), NEW o \in Nat, o <= Word, NEW b
  PROVE  /\ Rank(ws, b, Word * k + o)
              = Rank(ws, b, Word * k) + Cnt(InWordPlaces(At(ws, k), b), 0, o)
         /\ Rank(ws, b, Word * k) \in Nat /\ Cnt(InWordPlaces(At(ws, k), b), 0, o) \in Nat
<1> DEFINE P == Places(ws, b)  Q == InWordPlaces(At(ws, k), b)  s == Word * k  e == s + o
<1>1. Word \in Nat \ {0}
  BY WordAssumption
<1>2. s \in Nat /\ e \in Nat /\ 0 \in Nat /\ 0 <= s /\ s <= e /\ e = s + o
  BY <1>1
<1>3. ASSUME NEW i \in Nat, i < o PROVE s + i \in P <=> 0 + i \in Q
  <2>1. i < Word /\ 0 + i = i
    BY <1>1, <1>3
  <2>2. Word * k + i \in Places(ws, b) <=> BitOf(At(ws, k), i) = b
    BY <2>1, PlaceInWord
  <2> QED BY <2>1, <2>2 DEF InWordPlaces
<1> HIDE DEF P, Q, s, e
<1>6. 0 + o = o /\ SameOver(P, Q, s, 0, o)
  BY <1>3 DEF SameOver
<1>4. Cnt(P, s, e) = Cnt(Q, 0, o)
  BY <1>2, <1>6, CountShift
<1>5. Cnt(P, 0, e) = Cnt(P, 0, s) + Cnt(P, s, e) /\ Cnt(P, 0, s) \in Nat /\ Cnt(P, s, e) \in Nat
  BY <1>2, CountParts
<1> QED BY <1>2, <1>4, <1>5 DEF Rank, P, Q, s, e

\* Counting the ones of a word.
LEMMA OnesOfWord ==
  ASSUME NEW x
  PROVE  CountOnes(x) = Cnt(InWordPlaces(x, 1), 0, Word)
<1>1. Word \in Nat
  BY WordAssumption
<1>2. {i \in 0..(Word - 1) : BitOf(x, i) = 1} = Within(InWordPlaces(x, 1), 0, Word)
  BY <1>1 DEF Within, InWordPlaces
<1> QED BY <1>2 DEF CountOnes, Cnt

\* Shifting out the bits behind an index leaves those up to it.
LEMMA ShiftedOnes ==
  ASSUME NEW x \in Nat, x < Pow2[Word], NEW o \in Nat, o < Word
  PROVE  CountOnes(Shr(x, Word - 1 - o)) = Cnt(InWordPlaces(x, 1), 0, o + 1)
<1> DEFINE k == Word - 1 - o  y == Shr(x, k)
<1>1. /\ Word \in Nat /\ k \in Nat /\ k <= Word /\ k \in 0..Word /\ Word - k \in 0..Word
      /\ k + (o + 1) = Word /\ k = Word - 1 - o /\ o + 1 \in Nat
  BY WordAssumption
<1> HIDE DEF k
<1>2. /\ Pow2[k] \in Nat \ {0} /\ Pow2[Word - k] \in Nat \ {0}
      /\ Pow2[Word] = Pow2[k] * Pow2[Word - k]
  <2>1. Word \in 0..Word /\ k \in 0..Word
    BY <1>1
  <2> QED BY <1>1, <2>1, PowType, PowDivides
<1>3. y \in Nat /\ y < Pow2[Word - k]
  BY <1>2, DivMod, DivBelow DEF Shr
<1>4. ASSUME NEW i \in 0..(k - 1) PROVE i \notin InWordPlaces(y, 1)
  <2> DEFINE j == Word - 1 - i
  <2>1. j \in 0..Word /\ Word - k \in 0..j
    BY <1>1
  <2>2. Pow2[Word - k] <= Pow2[j] /\ Pow2[j] \in Nat \ {0}
    BY <2>1, PowMonotonic, PowType
  <2> HIDE DEF y
  <2>3. y < Pow2[j]
    BY <1>2, <1>3, <2>2
  <2>4. y \div Pow2[j] = 0
    BY <1>3, <2>2, <2>3, SmallMod
  <2>5. BitOf(y, i) = 0
    BY <2>4 DEF BitOf, Shr
  <2> QED BY <2>5 DEF InWordPlaces
<1>5. ASSUME NEW i \in Nat, i < o + 1
      PROVE  k + i \in InWordPlaces(y, 1) <=> 0 + i \in InWordPlaces(x, 1)
  <2> DEFINE j == Word - 1 - (k + i)
  <2>1. /\ j \in Nat /\ j \in 0..Word /\ k + j = Word - 1 - i /\ k + j <= Word /\ k + i \in Nat
        /\ 0 + i = i
    BY <1>1, <1>5
  <2>2. Pow2[k + j] = Pow2[k] * Pow2[j]
    BY <1>1, <2>1, PowAdd
  <2>3. (x \div Pow2[k]) \div Pow2[j] = x \div (Pow2[k] * Pow2[j])
    BY <1>2, <2>1, PowType, DivDiv
  <2>4. BitOf(y, k + i) = BitOf(x, i)
    BY <2>1, <2>2, <2>3 DEF BitOf, Shr
  <2> QED BY <2>1, <2>4 DEF InWordPlaces
<1> DEFINE P == InWordPlaces(x, 1)  Q == InWordPlaces(y, 1)  m == o + 1
<1>6. m \in Nat /\ k + m = Word /\ 0 + m = m /\ 0 \in Nat /\ 0 <= k /\ 0 <= 0
  BY <1>1
<1>7. (\A i \in 0..(k - 1) : i \notin Q) /\ SameOver(Q, P, k, 0, m)
  BY <1>4, <1>5 DEF SameOver
<1> HIDE DEF P, Q, m, y
<1>8. Cnt(Q, k, Word) = Cnt(P, 0, m)
  BY <1>1, <1>6, <1>7, CountShift
<1>9. Cnt(Q, 0, k) = Cnt(Q, 0, 0) /\ Cnt(Q, 0, 0) = 0
  BY <1>1, <1>6, <1>7, CountNone, CountType
<1>10. Cnt(Q, 0, Word) = Cnt(Q, 0, k) + Cnt(Q, k, Word) /\ Cnt(Q, k, Word) \in Nat
  BY <1>1, <1>6, CountParts, SMTT(30)
<1>11. CountOnes(y) = Cnt(Q, 0, Word)
  BY OnesOfWord DEF Q
<1> QED BY <1>1, <1>6, <1>8, <1>9, <1>10, <1>11 DEF P, m, y

-----------------------------------------------------------------------------
(***************************************************************************)
(* The numbers of the index.                                               *)
(***************************************************************************)
\* range and end of BuildBitIndex.
RangeSum(ws, i, j) == Sum([k \in 1..(j - i) |-> CountOnes(At(ws, i + k - 1))])
IndexEnd(n, s) == IF (s + 1) * SBlock <= n THEN (s + 1) * SBlock ELSE n
SBlockCount(n) == (n + SBlock - 1) \div SBlock

\* The ones of some words, summed up.
LEMMA RangeIs ==
  ASSUME NEW ws, IsWords(ws), NEW i \in Nat, NEW j \in Nat, i <= j, j <= Len(ws)
  PROVE  /\ Rank(ws, 1, Word * j) = Rank(ws, 1, Word * i) + RangeSum(ws, i, j)
         /\ RangeSum(ws, i, j) \in Nat
<1> DEFINE n == j - i  s == [k \in 1..n |-> CountOnes(At(ws, i + k - 1))]
<1>1. n \in Nat /\ i + n = j /\ Len(s) = n /\ Word \in Nat \ {0} /\ Len(ws) \in Nat
  BY WordFacts
<1>2. RangeSum(ws, i, j) = Sum(s)
  BY DEF RangeSum
<1>3. ASSUME NEW k \in Nat, k + 1 <= n PROVE s[k + 1] = CountOnes(At(ws, i + k))
  <2>1. k + 1 \in 1..n /\ i + (k + 1) - 1 = i + k
    BY <1>1, <1>3
  <2> QED BY <2>1
<1> HIDE DEF n, s
<1>4. PICK f : SumRun(f, s, n)
  BY <1>1, SumLoop
<1>5. /\ Sum(s) = f[n] /\ f[0] = 0
      /\ \A k \in Nat : k + 1 <= n => f[k + 1] = f[k] + s[k + 1]
  BY <1>4 DEF SumRun
<1> DEFINE R(p) == Rank(ws, 1, p)
           Good(m) == f[m] \in Nat /\ R(Word * (i + m)) = R(Word * i) + f[m]
           T == {m \in Nat : m <= n => Good(m)}
<1>6. R(Word * i) \in Nat
  <2>1. Word * i \in Nat
    BY <1>1
  <2> QED BY <2>1, BothBits
<1>7. 0 \in T
  <2>1. i + 0 = i
    OBVIOUS
  <2> QED BY <1>5, <1>6, <2>1
<1>8. ASSUME NEW m \in T PROVE m + 1 \in T
  <2> SUFFICES ASSUME m + 1 <= n PROVE Good(m + 1)
    OBVIOUS
  <2>1. /\ m \in Nat /\ Good(m) /\ i + m \in Nat /\ i + m < Len(ws)
        /\ i + (m + 1) = (i + m) + 1
    BY <1>1
  <2> DEFINE k == i + m  x == At(ws, k)
  <2>2. f[m + 1] = f[m] + CountOnes(x)
    BY <1>3, <1>5, <2>1
  <2>3. CountOnes(x) = Cnt(InWordPlaces(x, 1), 0, Word)
    BY OnesOfWord
  <2>4. Word \in Nat /\ Word <= Word /\ k \in Nat /\ k < Len(ws) /\ Word * (k + 1) = Word * k + Word
    BY <1>1, <2>1
  <2>a. f[m] \in Nat /\ R(Word * k) = R(Word * i) + f[m] /\ i + (m + 1) = k + 1
    BY <2>1
  <2> HIDE DEF k, T, x, Good
  <2>5. R(Word * k + Word) = R(Word * k) + Cnt(InWordPlaces(At(ws, k), 1), 0, Word)
    BY <2>4, CountInWord
  <2>6. Cnt(InWordPlaces(At(ws, k), 1), 0, Word) \in Nat
    BY <2>4, CountType
  <2> HIDE DEF R
  <2>7. f[m + 1] \in Nat /\ R(Word * (k + 1)) = R(Word * i) + f[m + 1]
    BY <1>6, <2>a, <2>2, <2>3, <2>4, <2>5, <2>6 DEF x
  <2> QED BY <2>a, <2>7 DEF Good
<1> T \in SUBSET Nat
  OBVIOUS
<1> HIDE DEF T, Good
<1>9. T = Nat
  BY <1>7, <1>8, AllNat
<1>10. Good(n)
  <2>1. n \in T /\ n <= n
    BY <1>1, <1>9
  <2> QED BY <2>1 DEF T
<1> QED BY <1>1, <1>2, <1>5, <1>10 DEF Good

\* The superblocks are those that begin before the end.
LEMMA SBlockCountIs ==
  ASSUME NEW n \in Nat
  PROVE  /\ SBlockCount(n) \in Nat
         /\ \A s \in Nat : s < SBlockCount(n) <=> SBlock * s < n
<1>1. SBlock \in Nat \ {0}
  BY SBlockAssumption
<1> DEFINE m == n + SBlock - 1  c == m \div SBlock  r == m % SBlock
<1>2. m \in Nat /\ m = n + SBlock - 1
  BY <1>1
<1> HIDE DEF m
<1>3. c \in Nat /\ r \in Nat /\ r < SBlock /\ m = SBlock * c + r
  BY <1>1, <1>2, DivMod
<1>4. c = SBlockCount(n)
  BY DEF SBlockCount, m
<1> HIDE DEF c, r
<1>5. ASSUME NEW s \in Nat, s < c PROVE SBlock * s < n
  <2>1. s + 1 <= c
    BY <1>3, <1>5
  <2>2. SBlock * (s + 1) <= SBlock * c
    BY <1>1, <1>3, <2>1
  <2>3. SBlock * (s + 1) = SBlock * s + SBlock /\ SBlock * s \in Nat /\ SBlock * c \in Nat
    BY <1>1, <1>3
  <2> QED BY <1>1, <1>2, <1>3, <2>2, <2>3
<1>6. ASSUME NEW s \in Nat, ~(s < c) PROVE ~(SBlock * s < n)
  <2>1. SBlock * c <= SBlock * s
    BY <1>1, <1>3, <1>6
  <2>2. SBlock * s \in Nat /\ SBlock * c \in Nat
    BY <1>1, <1>3
  <2> QED BY <1>1, <1>2, <1>3, <2>1, <2>2
<1> QED BY <1>3, <1>4, <1>5, <1>6

\* The place where a superblock ends
SBlockEnd(s) == Word * (SBlock * (s + 1))

\* The ones up to where the words of a superblock end are those up to its end.
LEMMA EndIs ==
  ASSUME NEW ws, IsWords(ws), NEW s \in Nat
  PROVE  LET e == IndexEnd(Len(ws), s) IN
         /\ e \in Nat /\ e <= Len(ws) /\ SBlockEnd(s) \in Nat /\ Word * e \in Nat
         /\ Rank(ws, 1, SBlockEnd(s)) = Rank(ws, 1, Word * e)
<1> DEFINE n == Len(ws)  e == IndexEnd(n, s)  f == SBlock * (s + 1)
<1>1. Word \in Nat \ {0} /\ SBlock \in Nat \ {0} /\ n \in Nat
  BY WordFacts
<1>2. f \in Nat /\ (s + 1) * SBlock = f
  BY <1>1
<1> HIDE DEF n, f
<1>3. e \in Nat /\ e <= n /\ e <= f /\ (e = f \/ e = n)
  BY <1>1, <1>2 DEF IndexEnd
<1> HIDE DEF e
<1>4. Word * e \in Nat /\ Word * f \in Nat /\ Word * e <= Word * f
  BY <1>1, <1>2, <1>3
<1>5. CASE e = f
  BY <1>3, <1>4, <1>5 DEF e, n, f, SBlockEnd
<1>6. CASE e = n
  <2> DEFINE P == Places(ws, 1)  b == Word * e  c == Word * f
  <2>1. ASSUME NEW p \in b..(c - 1) PROVE p \notin P
    <3> DEFINE k == p \div Word
    <3>1. p \in Nat /\ b <= p
      BY <1>4
    <3>2. k \in Nat /\ p % Word \in Nat /\ p % Word < Word /\ p = Word * k + (p % Word)
      BY <1>1, <3>1, DivMod
    <3> HIDE DEF k
    <3>3. ~(k < n)
      <4> SUFFICES ASSUME k < n PROVE FALSE
        OBVIOUS
      <4>1. Word * (k + 1) <= Word * n
        BY <1>1, <3>2
      <4>2. Word * (k + 1) = Word * k + Word /\ Word * k \in Nat
        BY <1>1, <3>2
      <4> QED BY <1>1, <1>6, <3>1, <3>2, <4>1, <4>2
    <3>4. BitAt(ws, p) = 0
      BY <3>3 DEF BitAt, k, n
    <3> QED BY <3>4 DEF Places
  <2> HIDE DEF P, b, c
  <2>2. b \in Nat /\ c \in Nat /\ b <= c
    BY <1>4 DEF b, c
  <2>3. Cnt(P, 0, c) = Cnt(P, 0, b)
    BY <2>1, <2>2, CountNone
  <2> QED BY <1>3, <1>4, <2>3 DEF P, b, c, e, n, f, SBlockEnd, Rank
<1> QED BY <1>3, <1>5, <1>6

\* What BuildBitIndex makes.
LEMMA IndexIs ==
  ASSUME NEW a, NEW ws, ws = a.words, NEW n, n = Len(ws), NEW ix, ix = BuildBitIndex(a)
  PROVE  /\ ix.array = a
         /\ ix.blocks = [i \in 1..n |-> RangeSum(ws, i - 1, IndexEnd(n, (i - 1) \div SBlock))]
         /\ ix.sblocks = [s \in 1..SBlockCount(n) |-> RangeSum(ws, 0, IndexEnd(n, s - 1))]
  BY DEF BuildBitIndex, RangeSum, IndexEnd, SBlockCount

\* ix is the index of the array, whose words are ws.
IndexOf(ix, a, ws) == IsWords(ws) /\ ws = a.words /\ ix = BuildBitIndex(a)

\* The numbers of the index are ranks.
LEMMA IndexFacts ==
  ASSUME NEW ix, NEW a, NEW ws, IndexOf(ix, a, ws), NEW n, n = Len(ws)
  PROVE  /\ ix.array = a /\ Len(ix.blocks) = n /\ Len(ix.sblocks) = SBlockCount(n)
         /\ n \in Nat /\ SBlockCount(n) \in Nat
         /\ \A s \in Nat : s < SBlockCount(n) =>
              At(ix.sblocks, s) = Rank(ws, 1, SBlockEnd(s))
         /\ \A t \in Nat : t < n =>
              /\ At(ix.blocks, t) \in Nat
              /\ Rank(ws, 1, SBlockEnd(t \div SBlock)) = Rank(ws, 1, Word * t) + At(ix.blocks, t)
<1>1. /\ ix.array = a /\ IsWords(ws)
      /\ ix.blocks = [i \in 1..n |-> RangeSum(ws, i - 1, IndexEnd(n, (i - 1) \div SBlock))]
      /\ ix.sblocks = [s \in 1..SBlockCount(n) |-> RangeSum(ws, 0, IndexEnd(n, s - 1))]
  BY IndexIs DEF IndexOf
<1>2. n \in Nat /\ SBlock \in Nat \ {0} /\ Word \in Nat \ {0}
  BY <1>1, WordFacts
<1>3. SBlockCount(n) \in Nat
  BY <1>2, SBlockCountIs
<1>4. Len(ix.blocks) = n /\ Len(ix.sblocks) = SBlockCount(n)
  BY <1>1, <1>2, <1>3
<1>5. ASSUME NEW s \in Nat, s < SBlockCount(n)
      PROVE  At(ix.sblocks, s) = Rank(ws, 1, SBlockEnd(s))
  <2> DEFINE e == IndexEnd(n, s)
  <2>1. s + 1 \in 1..SBlockCount(n) /\ (s + 1) - 1 = s
    BY <1>3, <1>5
  <2>2. At(ix.sblocks, s) = RangeSum(ws, 0, e)
    BY <1>1, <2>1 DEF At
  <2>3. /\ e \in Nat /\ e <= n /\ Word * e \in Nat
        /\ Rank(ws, 1, SBlockEnd(s)) = Rank(ws, 1, Word * e)
    BY <1>1, EndIs
  <2> HIDE DEF e
  <2>4. 0 \in Nat /\ 0 <= e /\ Word * 0 = 0
    BY <1>2, <2>3
  <2>5. /\ Rank(ws, 1, Word * e) = Rank(ws, 1, Word * 0) + RangeSum(ws, 0, e)
        /\ RangeSum(ws, 0, e) \in Nat
    BY <1>1, <2>3, <2>4, RangeIs
  <2>6. Rank(ws, 1, 0) = 0
    BY <2>4, CountType DEF Rank
  <2> QED BY <2>2, <2>3, <2>4, <2>5, <2>6
<1>6. ASSUME NEW t \in Nat, t < n
      PROVE  /\ At(ix.blocks, t) \in Nat
             /\ Rank(ws, 1, SBlockEnd(t \div SBlock)) = Rank(ws, 1, Word * t) + At(ix.blocks, t)
  <2> DEFINE s == t \div SBlock  e == IndexEnd(n, s)
  <2>1. t + 1 \in 1..n /\ (t + 1) - 1 = t
    BY <1>2, <1>6
  <2>2. At(ix.blocks, t) = RangeSum(ws, t, e)
    BY <1>1, <2>1 DEF At
  <2>3. s \in Nat /\ t < (s + 1) * SBlock
    <3>1. /\ s \in Nat /\ t % SBlock \in Nat /\ t % SBlock < SBlock
          /\ t = SBlock * s + (t % SBlock)
      BY <1>2, DivMod
    <3> HIDE DEF s
    <3>2. (s + 1) * SBlock = SBlock * s + SBlock /\ SBlock * s \in Nat
      BY <1>2, <3>1
    <3> QED BY <1>2, <3>1, <3>2
  <2> HIDE DEF s
  <2>4. /\ e \in Nat /\ e <= n /\ Word * e \in Nat
        /\ Rank(ws, 1, SBlockEnd(s)) = Rank(ws, 1, Word * e)
    BY <1>1, <2>3, EndIs
  <2>5. t <= e
    BY <1>2, <1>6, <2>3 DEF IndexEnd
  <2> HIDE DEF e
  <2>6. /\ Rank(ws, 1, Word * e) = Rank(ws, 1, Word * t) + RangeSum(ws, t, e)
        /\ RangeSum(ws, t, e) \in Nat
    BY <1>1, <2>4, <2>5, RangeIs
  <2> QED BY <2>2, <2>4, <2>6 DEF s
<1> QED BY <1>1, <1>2, <1>3, <1>4, <1>5, <1>6

\* The rank of ones, and of zeros, that the search for a superblock compares.
LEMMA SBlockRankIs ==
  ASSUME NEW ix, NEW a, NEW ws, IndexOf(ix, a, ws), NEW n, n = Len(ws), NEW b \in {0, 1},
         NEW s \in Nat, s < SBlockCount(n)
  PROVE  /\ SBlockRank(ix, b, s) = Rank(ws, b, SBlockEnd(s))
         /\ SBlockEnd(s) \in Nat /\ SBlockRank(ix, b, s) \in Nat
<1>1. IsWords(ws) /\ At(ix.sblocks, s) = Rank(ws, 1, SBlockEnd(s))
  BY IndexFacts DEF IndexOf
<1>2. SBlockEnd(s) \in Nat /\ (1 + s) * SBlock * Word = SBlockEnd(s)
  BY WordAssumption, SBlockAssumption DEF SBlockEnd
<1> DEFINE e == SBlockEnd(s)
<1> HIDE DEF e
<1>3. /\ e \in Nat /\ Rank(ws, 1, e) + Rank(ws, 0, e) = e /\ Rank(ws, 1, e) \in Nat
      /\ Rank(ws, 0, e) \in Nat
  BY <1>1, <1>2, BothBits DEF e
<1>4. CASE b = 1
  BY <1>1, <1>3, <1>4 DEF SBlockRank, e
<1>5. CASE b = 0
  <2>1. SBlockRank(ix, b, s) = e - Rank(ws, 1, e)
    BY <1>1, <1>2, <1>5 DEF SBlockRank, e
  <2> QED BY <1>3, <1>5, <2>1 DEF e
<1> QED BY <1>4, <1>5

\* The ranks that the search for a block compares.
LEMMA BlockRankIs ==
  ASSUME NEW ix, NEW a, NEW ws, IndexOf(ix, a, ws), NEW n, n = Len(ws), NEW b \in {0, 1},
         NEW t \in Nat, t < n
  PROVE  /\ Rank(ws, b, SBlockEnd(t \div SBlock)) = Rank(ws, b, Word * t) + BlockRank(ix, b, t)
         /\ BlockRank(ix, b, t) \in Int
         /\ Rank(ws, b, Word * t) \in Nat
<1> DEFINE q == t \div SBlock  r == t % SBlock  e == SBlockEnd(q)
           w == Word * t  v == At(ix.blocks, t)
<1>1. IsWords(ws) /\ v \in Nat /\ Rank(ws, 1, e) = Rank(ws, 1, w) + v
  BY IndexFacts DEF IndexOf
<1>2. Word \in Nat \ {0} /\ SBlock \in Nat \ {0}
  BY WordAssumption, SBlockAssumption
<1>3. q \in Nat /\ r \in Nat /\ r < SBlock /\ t = SBlock * q + r
  BY <1>2, DivMod
<1>4. e = Word * (SBlock * (q + 1)) /\ w = Word * t
  BY DEF SBlockEnd
<1>5. BlockRank(ix, b, t) = IF b = 1 THEN v ELSE (SBlock - r) * Word - v
  BY DEF BlockRank
<1>a. /\ Rank(ws, b, SBlockEnd(t \div SBlock)) = Rank(ws, b, e)
      /\ Rank(ws, b, Word * t) = Rank(ws, b, w)
  OBVIOUS
<1> HIDE DEF q, r, e, w, v
<1>6. e \in Nat /\ w \in Nat /\ e = w + (SBlock - r) * Word /\ (SBlock - r) * Word \in Nat
  <2>1. SBlock - r \in Nat /\ SBlock * (q + 1) = t + (SBlock - r)
    BY <1>2, <1>3
  <2>2. Word * (t + (SBlock - r)) = Word * t + (SBlock - r) * Word
    BY <1>2, <2>1
  <2> QED BY <1>2, <1>4, <2>1, <2>2
<1>7. /\ Rank(ws, 1, e) + Rank(ws, 0, e) = e /\ Rank(ws, 1, e) \in Nat /\ Rank(ws, 0, e) \in Nat
      /\ Rank(ws, 1, w) + Rank(ws, 0, w) = w /\ Rank(ws, 1, w) \in Nat /\ Rank(ws, 0, w) \in Nat
  BY <1>1, <1>6, BothBits
<1>8. CASE b = 1
  BY <1>a, <1>1, <1>5, <1>7, <1>8
<1>9. CASE b = 0
  BY <1>a, <1>1, <1>5, <1>6, <1>7, <1>9, SMTT(30)
<1> QED BY <1>8, <1>9

\* rank1 counts the ones up to and including the index, rank0 the zeros.
LEMMA RankIs ==
  ASSUME NEW ix, NEW a, NEW ws, IndexOf(ix, a, ws), NEW p \in Nat, p \div Word < Len(ws)
  PROVE  Rank1(ix, p) = Rank(ws, 1, p + 1) /\ Rank0(ix, p) = Rank(ws, 0, p + 1)
<1> DEFINE n == Len(ws)  t == p \div Word  o == p % Word  q == t \div SBlock  x == At(ws, t)
<1>1. Word \in Nat \ {0} /\ SBlock \in Nat \ {0} /\ n \in Nat /\ IsWords(ws)
  BY WordFacts DEF IndexOf
<1>2. t \in Nat /\ o \in Nat /\ o < Word /\ p = Word * t + o /\ t < n
  BY <1>1, DivMod
<1>3. Rank1(ix, p) = At(ix.sblocks, q) - At(ix.blocks, t) + CountOnes(Shr(x, Word - 1 - o))
  <2>1. ix.array = a /\ ws = a.words
    BY IndexFacts DEF IndexOf
  <2> QED BY <2>1 DEF Rank1
<1> HIDE DEF n, o, t
<1>4. /\ q \in Nat /\ q < SBlockCount(n)
  <2>1. q \in Nat /\ t % SBlock \in Nat /\ t = SBlock * q + (t % SBlock)
    BY <1>1, <1>2, DivMod
  <2> HIDE DEF q
  <2>2. SBlock * q \in Nat /\ SBlock * q < n
    BY <1>1, <1>2, <2>1
  <2> QED BY <1>1, <2>1, <2>2, SBlockCountIs
<1>5. /\ At(ix.sblocks, q) = Rank(ws, 1, SBlockEnd(q)) /\ At(ix.blocks, t) \in Nat
      /\ Rank(ws, 1, SBlockEnd(q)) = Rank(ws, 1, Word * t) + At(ix.blocks, t)
  BY <1>2, <1>4, IndexFacts DEF n
<1>6. x \in Nat /\ x < Pow2[Word]
  BY <1>1, <1>2, WordFacts DEF n
<1>7. CountOnes(Shr(x, Word - 1 - o)) = Cnt(InWordPlaces(x, 1), 0, o + 1)
  <2> HIDE DEF x
  <2> QED BY <1>2, <1>6, ShiftedOnes
<1>8. o + 1 \in Nat /\ o + 1 <= Word /\ p + 1 = Word * t + (o + 1) /\ Word * t \in Nat
  BY <1>1, <1>2
<1>9. /\ Rank(ws, 1, Word * t + (o + 1)) = Rank(ws, 1, Word * t) + Cnt(InWordPlaces(x, 1), 0, o + 1)
      /\ Rank(ws, 1, Word * t) \in Nat /\ Cnt(InWordPlaces(x, 1), 0, o + 1) \in Nat
  BY <1>1, <1>2, <1>8, CountInWord DEF n
<1> HIDE DEF q, x
<1>10. Rank1(ix, p) = Rank(ws, 1, p + 1)
  BY <1>3, <1>5, <1>7, <1>8, <1>9
<1> DEFINE p1 == p + 1
<1>11. p1 \in Nat /\ p1 = p + 1
  OBVIOUS
<1> HIDE DEF p1
<1>b. Rank(ws, 1, p1) + Rank(ws, 0, p1) = p1 /\ Rank(ws, 1, p1) \in Nat /\ Rank(ws, 0, p1) \in Nat
  BY <1>1, <1>11, BothBits
<1>12. Rank0(ix, p) = Rank(ws, 0, p + 1)
  BY <1>b, <1>10, <1>11 DEF Rank0
<1> QED BY <1>10, <1>12

-----------------------------------------------------------------------------
(***************************************************************************)
(* Select.                                                                 *)
(***************************************************************************)
\* s is the superblock where the rank is reached, or the last of c superblocks.
ReachedIn(s, c, ws, b, rank) ==
  /\ s \in Nat /\ s < c
  /\ \A j \in Nat : j < s => Rank(ws, b, SBlockEnd(j)) < rank
  /\ s + 1 = c \/ Rank(ws, b, SBlockEnd(s)) >= rank

\* The first search finds it.
LEMMA SBlockFound ==
  ASSUME NEW ix, NEW a, NEW ws, IndexOf(ix, a, ws), NEW c, c = SBlockCount(Len(ws)), 0 < c,
         NEW b \in {0, 1}, NEW rank \in Nat, NEW s, s = SelectSBlock(ix, b, rank)
  PROVE  ReachedIn(s, c, ws, b, rank)
<1>1. c \in Nat /\ Len(ix.sblocks) = c /\ IsWords(ws)
  BY IndexFacts DEF IndexOf
<1> DEFINE last == Len(ix.sblocks) - 1
           L == {j \in Nat : Rank(ws, b, SBlockEnd(j)) < rank}
           Is(f) == f = [r \in (0..last) \X (0..last) |->
                           LET start == r[1]
                               end == r[2]
                               mid == (start + end) \div 2
                           IN  IF start = end THEN mid
                               ELSE IF SBlockRank(ix, b, mid) < rank THEN f[<<mid + 1, end>>]
                               ELSE f[<<start, mid>>]]
<1>2. s = (CHOOSE f : Is(f))[<<0, last>>]
  BY DEF SelectSBlock
<1>3. last \in Nat /\ last + 1 = c /\ 0 <= last
  BY <1>1
<1>4. ASSUME NEW j \in Nat, j < c PROVE SBlockRank(ix, b, j) < rank <=> j \in L
  <2>1. SBlockRank(ix, b, j) = Rank(ws, b, SBlockEnd(j))
    BY <1>4, SBlockRankIs
  <2> QED BY <2>1
<1>5. Down(L)
  <2> SUFFICES ASSUME NEW i \in Nat, NEW j \in Nat, j \in L, i <= j PROVE i \in L
    BY DEF Down
  <2> DEFINE P == Places(ws, b)  d == SBlockEnd(i)  e == SBlockEnd(j)
  <2>1. d \in Nat /\ e \in Nat /\ d <= e
    <3>1. Word \in Nat /\ SBlock \in Nat
      BY WordAssumption, SBlockAssumption
    <3>2. /\ SBlock * (i + 1) \in Nat /\ SBlock * (j + 1) \in Nat
          /\ SBlock * (i + 1) <= SBlock * (j + 1)
      BY <3>1
    <3>3. ASSUME NEW u \in Nat, NEW v \in Nat, u <= v
          PROVE  Word * u \in Nat /\ Word * v \in Nat /\ Word * u <= Word * v
      BY <3>1, <3>3
    <3> QED BY <3>2, <3>3 DEF SBlockEnd
  <2>2. Rank(ws, b, e) < rank
    OBVIOUS
  <2> HIDE DEF d, e, P
  <2>3. Cnt(P, 0, d) \in Nat /\ Cnt(P, 0, e) \in Nat /\ Cnt(P, 0, d) <= Cnt(P, 0, e)
    BY <2>1, CountGrows
  <2>4. Rank(ws, b, d) < rank
    BY <2>2, <2>3 DEF Rank, P
  <2> QED BY <2>4 DEF d
<1> HIDE DEF L, last
<1>6. ASSUME NEW f PROVE Is(f) <=> SearchIs(f, 0, last, 0, L)
  <2>1. ASSUME NEW r \in (0..last) \X (0..last)
        PROVE  Halve(f, 0, L, r[1], r[2])
                 = LET start == r[1]
                       end == r[2]
                       mid == (start + end) \div 2
                   IN  IF start = end THEN mid
                       ELSE IF SBlockRank(ix, b, mid) < rank THEN f[<<mid + 1, end>>]
                       ELSE f[<<start, mid>>]
    <3> DEFINE u == r[1]  v == r[2]  mid == (u + v) \div 2
    <3>1. u \in 0..last /\ v \in 0..last /\ u + v + 0 = u + v
      BY <1>3
    <3>2. mid \in Nat /\ mid < c /\ mid + 1 - 0 = mid + 1 /\ mid - 0 = mid
      BY <1>3, <3>1
    <3>3. SBlockRank(ix, b, mid) < rank <=> mid \in L
      BY <1>4, <3>2
    <3>4. Halve(f, 0, L, u, v)
            = IF u = v THEN mid ELSE IF mid \in L THEN f[<<mid + 1, v>>] ELSE f[<<u, mid>>]
      BY <3>1, <3>2 DEF Halve
    <3> HIDE DEF mid
    <3> QED BY <3>3, <3>4 DEF mid
  <2> QED BY <2>1 DEF SearchIs
<1> HIDE DEF Is
<1>7. \E f : Is(f)
  <2>1. \E f : SearchIs(f, 0, last, 0, L)
    BY <1>3, <1>5, SearchExists
  <2> QED BY <1>6, <2>1
<1>8. PICK f : Is(f) /\ s = f[<<0, last>>]
  BY <1>2, <1>7
<1>9. Found(f[<<0, last>>], 0, L, 0, last)
  BY <1>3, <1>5, <1>6, <1>8, SearchFinds
<1>10. /\ s \in 0..last /\ (\A j \in 0..last : j < s => j + 0 \in L)
       /\ (s = last \/ s + 0 \notin L)
  BY <1>8, <1>9 DEF Found
<1>11. s \in Nat /\ s < c /\ s + 0 = s
  BY <1>3, <1>10
<1>12. ASSUME NEW j \in Nat, j < s PROVE Rank(ws, b, SBlockEnd(j)) < rank
  <2>1. j \in 0..last /\ j + 0 = j
    BY <1>3, <1>11, <1>12
  <2> QED BY <1>10, <1>12, <2>1 DEF L
<1>13. s + 1 = c \/ Rank(ws, b, SBlockEnd(s)) >= rank
  <2>1. /\ SBlockEnd(s) \in Nat /\ SBlockRank(ix, b, s) = Rank(ws, b, SBlockEnd(s))
        /\ SBlockRank(ix, b, s) \in Nat
    BY <1>11, SBlockRankIs
  <2> QED BY <1>3, <1>10, <1>11, <2>1 DEF L
<1> QED BY <1>11, <1>12, <1>13 DEF ReachedIn

\* The second search finds the last block of the superblock that begins before the rank.
LEMMA BlockFound ==
  ASSUME NEW ix, NEW a, NEW ws, IndexOf(ix, a, ws), NEW n, n = Len(ws),
         NEW b \in {0, 1}, NEW rank \in Nat, NEW s \in Nat, s < SBlockCount(n),
         NEW sub, sub = Rank(ws, b, SBlockEnd(s)) - rank,
         Rank(ws, b, Word * (SBlock * s)) < rank,
         NEW t, t = SelectBlock(ix, b, s, sub)
  PROVE  /\ t \in Nat /\ t < n /\ t \div SBlock = s /\ Rank(ws, b, Word * t) < rank
         /\ \/ t + 1 = SBlock * (s + 1) \/ t + 1 = n
            \/ Rank(ws, b, Word * (t + 1)) >= rank
<1>1. n \in Nat /\ Len(ix.blocks) = n /\ IsWords(ws) /\ SBlock \in Nat \ {0} /\ Word \in Nat \ {0}
  BY IndexFacts, WordAssumption, SBlockAssumption DEF IndexOf
<1> DEFINE first == s * SBlock
           full == first + SBlock - 1
           last == IF full > Len(ix.blocks) - 1 THEN Len(ix.blocks) - 1 ELSE full
           L == {j \in Nat : Rank(ws, b, Word * j) < rank}
           Is(f) == f = [r \in (first..last) \X (first..last) |->
                           LET start == r[1]
                               end == r[2]
                               mid == (start + end + 1) \div 2
                           IN  IF start = end THEN mid
                               ELSE IF BlockRank(ix, b, mid) > sub THEN f[<<mid, end>>]
                               ELSE f[<<start, mid - 1>>]]
<1>2. t = (CHOOSE f : Is(f))[<<first, last>>]
  BY DEF SelectBlock
<1>3. /\ first \in Nat /\ last \in Nat /\ first <= last /\ last < n /\ last < SBlock * s + SBlock
      /\ (last + 1 = n \/ last + 1 = SBlock * (s + 1)) /\ first = SBlock * s
  <2>1. SBlock * s < n
    BY <1>1, SBlockCountIs
  <2>2. s * SBlock = SBlock * s /\ SBlock * s \in Nat /\ SBlock * (s + 1) = SBlock * s + SBlock
    BY <1>1
  <2> QED BY <1>1, <2>1, <2>2
<1>4. first \in L
  BY <1>3
<1>5. ASSUME NEW j \in Nat, first <= j, j <= last
      PROVE  j < n /\ j \div SBlock = s /\ (BlockRank(ix, b, j) > sub <=> j \in L)
  <2> DEFINE r == j - first
  <2>1. r \in Nat /\ r < SBlock /\ j = SBlock * s + r /\ j < n
    BY <1>1, <1>3, <1>5
  <2> HIDE DEF r, last, first
  <2>2. j \div SBlock = s
    BY <1>1, <2>1, DivModIs
  <2>3. /\ Rank(ws, b, SBlockEnd(s)) = Rank(ws, b, Word * j) + BlockRank(ix, b, j)
        /\ BlockRank(ix, b, j) \in Int /\ Rank(ws, b, Word * j) \in Nat
    BY <2>1, <2>2, BlockRankIs
  <2>4. BlockRank(ix, b, j) > sub <=> Rank(ws, b, Word * j) < rank
    BY <2>3
  <2> QED BY <2>1, <2>2, <2>4
<1>6. Down(L)
  <2> SUFFICES ASSUME NEW i \in Nat, NEW j \in Nat, j \in L, i <= j PROVE i \in L
    BY DEF Down
  <2> DEFINE P == Places(ws, b)  d == Word * i  e == Word * j
  <2>1. d \in Nat /\ e \in Nat /\ d <= e
    BY <1>1
  <2>2. Rank(ws, b, e) < rank
    OBVIOUS
  <2> HIDE DEF d, e, P
  <2>3. Cnt(P, 0, d) \in Nat /\ Cnt(P, 0, e) \in Nat /\ Cnt(P, 0, d) <= Cnt(P, 0, e)
    BY <2>1, CountGrows
  <2>4. Rank(ws, b, d) < rank
    BY <2>2, <2>3 DEF Rank, P
  <2> QED BY <2>4 DEF d
<1> HIDE DEF L, last, first
<1>7. ASSUME NEW f PROVE Is(f) <=> SearchIs(f, first, last, 1, L)
  <2>1. ASSUME NEW r \in (first..last) \X (first..last)
        PROVE  Halve(f, 1, L, r[1], r[2])
                 = LET start == r[1]
                       end == r[2]
                       mid == (start + end + 1) \div 2
                   IN  IF start = end THEN mid
                       ELSE IF BlockRank(ix, b, mid) > sub THEN f[<<mid, end>>]
                       ELSE f[<<start, mid - 1>>]
    <3> DEFINE u == r[1]  v == r[2]  mid == (u + v + 1) \div 2
    <3>1. u \in first..last /\ v \in first..last
      BY <1>3
    <3>2. mid \in Nat /\ first <= mid /\ mid + 1 - 1 = mid /\ (u = v \/ mid <= last)
      BY <1>3, <3>1
    <3>3. u # v => (BlockRank(ix, b, mid) > sub <=> mid \in L)
      BY <1>5, <3>2
    <3>4. Halve(f, 1, L, u, v)
            = IF u = v THEN mid ELSE IF mid \in L THEN f[<<mid, v>>] ELSE f[<<u, mid - 1>>]
      BY <3>1, <3>2 DEF Halve
    <3> HIDE DEF mid
    <3> QED BY <3>3, <3>4 DEF mid
  <2> QED BY <2>1 DEF SearchIs
<1> HIDE DEF Is
<1>8. \E f : Is(f)
  <2>1. \E f : SearchIs(f, first, last, 1, L)
    BY <1>3, <1>6, SearchExists
  <2> QED BY <1>7, <2>1
<1>9. PICK f : Is(f) /\ t = f[<<first, last>>]
  BY <1>2, <1>8
<1>10. Found(f[<<first, last>>], 1, L, first, last)
  BY <1>3, <1>6, <1>7, <1>9, SearchFinds
<1>11. /\ t \in first..last /\ (\A j \in first..last : j < t => j + 1 \in L)
       /\ (t = last \/ t + 1 \notin L)
  BY <1>9, <1>10 DEF Found
<1>12. t \in Nat /\ first <= t /\ t <= last /\ t < n /\ t \div SBlock = s
  BY <1>3, <1>5, <1>11
<1>13. t \in L
  <2>1. CASE t = first
    BY <1>4, <2>1
  <2>2. CASE t # first
    <3>1. t - 1 \in first..last /\ t - 1 < t /\ (t - 1) + 1 = t
      BY <1>3, <1>12, <2>2
    <3> QED BY <1>11, <3>1
  <2> QED BY <2>1, <2>2
<1>14. t + 1 \notin L => Rank(ws, b, Word * (t + 1)) >= rank
  <2>1. Word * (t + 1) \in Nat /\ t + 1 \in Nat
    BY <1>1, <1>12
  <2>2. Rank(ws, b, Word * (t + 1)) \in Nat
    BY <1>1, <2>1, BothBits
  <2> QED BY <2>1, <2>2 DEF L
<1> QED BY <1>3, <1>11, <1>12, <1>13, <1>14 DEF L

\* A place is told from other places of its bit by its rank.
LEMMA RankOrder ==
  ASSUME NEW ws, NEW b, NEW p \in Nat, NEW q \in Nat
  PROVE  /\ p <= q => Rank(ws, b, p) <= Rank(ws, b, q)
         /\ p \in Places(ws, b) => Rank(ws, b, p + 1) = Rank(ws, b, p) + 1
         /\ p \notin Places(ws, b) => Rank(ws, b, p + 1) = Rank(ws, b, p)
         /\ Rank(ws, b, p) \in Nat /\ Rank(ws, b, q) \in Nat /\ Rank(ws, b, 0) = 0
<1> DEFINE P == Places(ws, b)  d == p + 1
<1>1. d \in Nat /\ d = p + 1 /\ 0 \in Nat /\ 0 <= p
  OBVIOUS
<1> HIDE DEF P, d
<1>2. /\ Cnt(P, 0, d) = Cnt(P, 0, p) + One(P, p) /\ Cnt(P, 0, p) \in Nat
      /\ Cnt(P, 0, 0) = 0 /\ Cnt(P, 0, q) \in Nat
  BY <1>1, CountStep, CountType
<1>3. p <= q => Cnt(P, 0, p) <= Cnt(P, 0, q)
  BY CountGrows
<1> QED BY <1>1, <1>2, <1>3 DEF P, d, Rank, One

\* The blocks in which a bit is are found.
LEMMA BlockOfBit ==
  ASSUME NEW ix, NEW a, NEW ws, IndexOf(ix, a, ws), NEW n, n = Len(ws), NEW b \in {0, 1},
         NEW p \in Places(ws, b), p \div Word < n, NEW rank, rank = Rank(ws, b, p + 1),
         NEW s, s = SelectSBlock(ix, b, rank), NEW v, v = SBlockRank(ix, b, s),
         NEW t, t = SelectBlock(ix, b, s, v - rank)
  PROVE  /\ v >= rank /\ v \in Nat /\ rank \in Nat /\ t \in Nat /\ t < n
         /\ Word * t <= p /\ p < Word * t + Word
         /\ rank - (v - BlockRank(ix, b, t)) = rank - Rank(ws, b, Word * t)
<1> DEFINE c == SBlockCount(n)  R(x) == Rank(ws, b, x)
<1>1. /\ p \in Nat /\ IsWords(ws) /\ n \in Nat /\ SBlock \in Nat \ {0} /\ Word \in Nat \ {0}
      /\ c \in Nat
  BY IndexFacts, WordAssumption, SBlockAssumption DEF IndexOf, Places
<1> DEFINE k == p \div Word
<1>2. k \in Nat /\ k < n /\ p % Word \in Nat /\ p % Word < Word /\ p = Word * k + (p % Word)
  BY <1>1, DivMod
<1> HIDE DEF k
<1>3. p + 1 \in Nat /\ rank \in Nat /\ rank = R(p) + 1 /\ R(p) \in Nat
  BY <1>1, RankOrder, SMTT(30)
<1>4. p + 1 <= Word * n /\ Word * n \in Nat
  <2>1. k + 1 <= n
    BY <1>1, <1>2
  <2>2. Word * (k + 1) <= Word * n
    BY <1>1, <1>2, <2>1, SMTT(30)
  <2>3. Word * (k + 1) = Word * k + Word /\ Word * k \in Nat
    BY <1>1, <1>2
  <2> QED BY <1>1, <1>2, <2>2, <2>3
<1>5. ASSUME NEW x \in Nat, NEW y \in Nat, x <= y PROVE R(x) <= R(y) /\ R(x) \in Nat /\ R(y) \in Nat
  BY <1>5, RankOrder
<1>6. 0 < c
  <2>1. SBlock * 0 < n /\ 0 \in Nat
    BY <1>1, <1>2
  <2> QED BY <1>1, <2>1, SBlockCountIs
<1>a. R(0) = 0
  BY <1>1, RankOrder
<1> HIDE DEF c, R
<1>7. /\ s \in Nat /\ s < c
      /\ \A j \in Nat : j < s => R(SBlockEnd(j)) < rank
      /\ s + 1 = c \/ R(SBlockEnd(s)) >= rank
  <2>1. ReachedIn(s, c, ws, b, rank)
    BY <1>3, <1>6, SBlockFound DEF c
  <2> QED BY <2>1 DEF ReachedIn, R
<1>8. v = R(SBlockEnd(s)) /\ SBlockEnd(s) \in Nat /\ v \in Nat
  BY <1>7, SBlockRankIs DEF c, R
<1>9. v >= rank
  <2>1. CASE s + 1 = c
    <3>1. ~(SBlock * (s + 1) < n)
      <4>1. s + 1 \in Nat /\ ~(s + 1 < c)
        BY <1>1, <1>7, <2>1
      <4> QED BY <1>1, <4>1, SBlockCountIs DEF c
    <3>2. SBlock * (s + 1) \in Nat
      BY <1>1, <1>7
    <3>3. Word * n <= SBlockEnd(s)
      <4> DEFINE m == SBlock * (s + 1)
      <4>1. m \in Nat /\ n <= m
        BY <1>1, <3>1, <3>2
      <4> HIDE DEF m
      <4>2. Word * n <= Word * m
        BY <1>1, <4>1
      <4> QED BY <4>2 DEF m, SBlockEnd
    <3>4. p + 1 <= SBlockEnd(s)
      BY <1>3, <1>4, <1>8, <3>3
    <3> QED BY <1>3, <1>5, <1>8, <3>4 DEF R
  <2>2. CASE R(SBlockEnd(s)) >= rank
    BY <1>8, <2>2
  <2> QED BY <1>7, <2>1, <2>2
<1>10. R(Word * (SBlock * s)) < rank
  <2>1. CASE s = 0
    <3>1. Word * (SBlock * s) = 0
      BY <1>1, <2>1
    <3> QED BY <1>a, <1>3, <3>1
  <2>2. CASE s # 0
    <3>1. s - 1 \in Nat /\ s - 1 < s /\ (s - 1) + 1 = s
      BY <1>7, <2>2
    <3>2. SBlockEnd(s - 1) = Word * (SBlock * s)
      BY <3>1 DEF SBlockEnd
    <3> QED BY <1>7, <3>1, <3>2
  <2> QED BY <2>1, <2>2
<1>11. /\ t \in Nat /\ t < n /\ t \div SBlock = s /\ R(Word * t) < rank
       /\ \/ t + 1 = SBlock * (s + 1) \/ t + 1 = n
          \/ R(Word * (t + 1)) >= rank
  BY <1>3, <1>7, <1>8, <1>10, BlockFound, SMTT(30) DEF c, R
<1>12. /\ R(SBlockEnd(s)) = R(Word * t) + BlockRank(ix, b, t) /\ BlockRank(ix, b, t) \in Int
       /\ R(Word * t) \in Nat
  BY <1>11, BlockRankIs DEF R
<1>13. Word * t \in Nat /\ Word * (t + 1) \in Nat /\ Word * (t + 1) = Word * t + Word
  BY <1>1, <1>11, SMTT(30)
<1>14. Word * t <= p
  <2> SUFFICES ASSUME p + 1 <= Word * t PROVE FALSE
    BY <1>1, <1>13
  <2>1. R(p + 1) <= R(Word * t)
    BY <1>3, <1>5, <1>13
  <2> QED BY <1>3, <1>11, <1>12, <2>1 DEF R
<1>15. R(Word * (t + 1)) >= rank
  <2>1. CASE t + 1 = SBlock * (s + 1)
    BY <1>8, <1>9, <2>1 DEF SBlockEnd
  <2>2. CASE t + 1 = n
    <3>1. R(p + 1) <= R(Word * n)
      BY <1>3, <1>4, <1>5
    <3> QED BY <1>3, <1>4, <1>5, <2>2, <3>1 DEF R
  <2> QED BY <1>11, <2>1, <2>2
<1>16. p < Word * (t + 1)
  <2> SUFFICES ASSUME Word * (t + 1) <= p PROVE FALSE
    BY <1>1, <1>13
  <2>1. R(Word * (t + 1)) <= R(p) /\ R(Word * (t + 1)) \in Nat
    BY <1>1, <1>5, <1>13
  <2> QED BY <1>3, <1>15, <2>1
<1>17. rank - (v - BlockRank(ix, b, t)) = rank - R(Word * t)
  BY <1>3, <1>8, <1>12
<1> QED BY <1>3, <1>8, <1>9, <1>11, <1>13, <1>14, <1>16, <1>17 DEF R

\* select1 and select0 find the bit with a rank.
LEMMA SelectIs ==
  ASSUME NEW ix, NEW a, NEW ws, IndexOf(ix, a, ws), NEW b \in {0, 1},
         NEW p \in Places(ws, b), p \div Word < Len(ws), NEW rank, rank = Rank(ws, b, p + 1)
  PROVE  Select(ix, b, rank) = p
<1> DEFINE n == Len(ws)
           s == SelectSBlock(ix, b, rank)
           v == SBlockRank(ix, b, s)
           t == SelectBlock(ix, b, s, v - rank)
           x == At(ix.array.words, t)
           inBlock == rank - (v - BlockRank(ix, b, t))
           hits == {i \in 0..(Word - 1) :
                      /\ BitOf(x, i) = b
                      /\ Cardinality({j \in 0..i : BitOf(x, j) = b}) = inBlock}
           R(q) == Rank(ws, b, q)
<1>1. Select(ix, b, rank)
        = IF v < rank \/ hits = {} THEN None ELSE t * Word + CHOOSE i \in hits : TRUE
  BY DEF Select
<1>2. p \in Nat /\ IsWords(ws) /\ ix.array.words = ws /\ Word \in Nat \ {0}
  BY IndexFacts, WordAssumption DEF IndexOf, Places
<1>3. /\ v >= rank /\ v \in Nat /\ rank \in Nat /\ t \in Nat /\ t < n
      /\ Word * t <= p /\ p < Word * t + Word /\ inBlock = rank - R(Word * t)
  <2> HIDE DEF s, v, t
  <2> QED BY BlockOfBit DEF s, v, t
<1> HIDE DEF n, s, v, t, inBlock
<1>4. x = At(ws, t) /\ Word * t \in Nat
  BY <1>2, <1>3
<1> HIDE DEF x
<1>5. ASSUME NEW i \in 0..(Word - 1)
      PROVE  /\ Word * t + i \in Nat
             /\ BitOf(x, i) = b <=> Word * t + i \in Places(ws, b)
             /\ Cardinality({j \in 0..i : BitOf(x, j) = b}) = R(Word * t + (i + 1)) - R(Word * t)
  <2>1. i \in Nat /\ i < Word /\ i + 1 \in Nat /\ i + 1 <= Word /\ (i + 1) - 1 = i
    BY <1>2
  <2>2. Word * t + i \in Nat /\ (BitOf(x, i) = b <=> Word * t + i \in Places(ws, b))
    BY <1>2, <1>3, <1>4, <2>1, PlaceInWord DEF n
  <2>3. {j \in 0..i : BitOf(x, j) = b} = Within(InWordPlaces(x, b), 0, i + 1)
    BY <2>1 DEF Within, InWordPlaces
  <2>4. R(Word * t + (i + 1)) = R(Word * t) + Cnt(InWordPlaces(x, b), 0, i + 1)
        /\ R(Word * t) \in Nat /\ Cnt(InWordPlaces(x, b), 0, i + 1) \in Nat
    BY <1>2, <1>3, <1>4, <2>1, CountInWord DEF n
  <2> HIDE DEF R
  <2>5. Cnt(InWordPlaces(x, b), 0, i + 1) = R(Word * t + (i + 1)) - R(Word * t)
    BY <2>4
  <2> QED BY <2>2, <2>3, <2>5 DEF Cnt
<1> DEFINE d == p - Word * t
<1>6. d \in 0..(Word - 1) /\ Word * t + d = p /\ Word * t + (d + 1) = p + 1
  BY <1>2, <1>3, <1>4
<1> HIDE DEF d, R
<1>7. R(p + 1) = rank /\ R(p + 1) = R(p) + 1 /\ R(p) \in Nat /\ R(Word * t) \in Nat
  BY <1>2, <1>4, RankOrder DEF R
<1>8. d \in hits
  <2>1. BitOf(x, d) = b /\ Cardinality({j \in 0..d : BitOf(x, j) = b}) = R(p + 1) - R(Word * t)
    BY <1>5, <1>6
  <2> QED BY <1>3, <1>6, <1>7, <2>1
<1>9. ASSUME NEW i \in hits PROVE i = d
  <2> DEFINE q == Word * t + i  q1 == Word * t + (i + 1)
  <2>1. /\ i \in 0..(Word - 1) /\ BitOf(x, i) = b
        /\ Cardinality({j \in 0..i : BitOf(x, j) = b}) = inBlock
    OBVIOUS
  <2>2. q \in Nat /\ q \in Places(ws, b) /\ R(q1) - R(Word * t) = rank - R(Word * t) /\ q1 = q + 1
    BY <1>2, <1>3, <1>4, <1>5, <2>1
  <2> HIDE DEF q, q1, hits
  <2>3. R(q1) = R(q) + 1 /\ R(q) \in Nat
    BY <1>2, <2>2, RankOrder DEF R
  <2>4. R(q) = R(p)
    BY <1>7, <2>2, <2>3
  <2>5. ~(q < p)
    <3> SUFFICES ASSUME q < p PROVE FALSE
      OBVIOUS
    <3>1. q1 \in Nat /\ q1 <= p
      BY <1>2, <2>2
    <3>2. R(q1) <= R(p)
      BY <1>2, <3>1, RankOrder DEF R
    <3> QED BY <1>7, <2>3, <2>4, <3>2
  <2>6. ~(p < q)
    <3> SUFFICES ASSUME p < q PROVE FALSE
      OBVIOUS
    <3>1. p + 1 \in Nat /\ p + 1 <= q
      BY <1>2, <2>2
    <3>2. R(p + 1) <= R(q)
      BY <2>2, <3>1, RankOrder DEF R
    <3> QED BY <1>7, <2>3, <2>4, <3>2
  <2>7. q = p
    BY <1>2, <2>2, <2>5, <2>6
  <2> QED BY <1>4, <1>6, <2>1, <2>7 DEF q
<1> HIDE DEF hits
<1>10. (CHOOSE i \in hits : TRUE) = d
  BY <1>8, <1>9
<1>11. ~(v < rank) /\ hits # {}
  BY <1>3, <1>8
<1>12. t * Word + d = p
  BY <1>2, <1>3, <1>6
<1> QED BY <1>1, <1>10, <1>11, <1>12

\* They find none if the ones up to the end of each superblock are too few.
LEMMA SelectNone ==
  ASSUME NEW ix, NEW a, NEW ws, IndexOf(ix, a, ws), 0 < Len(ws), NEW b \in {0, 1},
         NEW rank \in Nat, \A s \in Nat : Rank(ws, b, SBlockEnd(s)) < rank
  PROVE  Select(ix, b, rank) = None
<1> DEFINE n == Len(ws)  c == SBlockCount(n)  s == SelectSBlock(ix, b, rank)
<1>1. n \in Nat /\ c \in Nat /\ SBlock \in Nat
  BY IndexFacts, SBlockAssumption
<1>2. 0 < c
  <2>1. SBlock * 0 < n
    BY <1>1
  <2> QED BY <1>1, <2>1, SBlockCountIs
<1>3. s \in Nat /\ s < c
  <2> HIDE DEF s, c
  <2>1. ReachedIn(s, c, ws, b, rank)
    BY <1>2, SBlockFound DEF s, c
  <2> QED BY <2>1 DEF ReachedIn
<1>4. SBlockRank(ix, b, s) < rank
  BY <1>3, SBlockRankIs
<1> HIDE DEF s
<1> QED BY <1>4 DEF Select, s

-----------------------------------------------------------------------------
(***************************************************************************)
(* The bits of a finished list.                                            *)
(***************************************************************************)
\* A word without low bits has a 0 at each of them.
LEMMA NoLowBits ==
  ASSUME NEW x \in Nat, NEW k \in 0..Word, x % Pow2[k] = 0, NEW i \in Nat, i < k
  PROVE  (x \div Pow2[i]) % 2 = 0
<1>1. Word \in Nat /\ i \in 0..Word /\ i < Word /\ i + 1 <= Word /\ i + 1 \in 0..k /\ k \in 0..Word
  BY WordAssumption
<1>2. /\ Pow2[i] \in Nat \ {0} /\ Pow2[i + 1] = 2 * Pow2[i] /\ Pow2[i + 1] <= Pow2[k]
      /\ Pow2[k] \in Nat
  BY <1>1, PowFacts, PowType, PowMonotonic
<1> DEFINE y == Pow2[i]
<1>3. y \in Nat /\ y < Pow2[k] /\ y = 1 * y
  BY <1>2
<1>4. y \div Pow2[i] = 1
  BY <1>2, <1>3, DivOfProduct
<1> HIDE DEF y
<1>5. (x \div Pow2[i]) % 2 = 0 \/ (y \div Pow2[i]) % 2 = 0
  BY <1>1, <1>3, DisjointBits
<1> QED BY <1>4, <1>5

\* The words ws have the bits ms and none behind them.
BitsOf(ws, ms, n) ==
  \A p \in Nat : /\ p < n => p \div Word < Len(ws) /\ BitAt(ws, p) = ms[p + 1]
                 /\ p >= n => BitAt(ws, p) = 0

\* So do those of a finished bit array.
LEMMA FinishedBits ==
  ASSUME NEW b, NEW ms, BitHolds(b, ms), NEW a, a = BitFinalize(b), NEW ws, ws = a.words,
         NEW n, n = Len(ms)
  PROVE  IsWords(ws) /\ BitsOf(ws, ms, n)
<1> DEFINE S == 0..(Pow2[Word] - 1)  off == n % Word  f == Len(b.file)
<1>1. b.count = n /\ Packed(1, b.file, b.current, off, ms)
  BY DEF BitHolds
<1>2. ws = Written(b.file, b.current, off)
  BY <1>1 DEF BitFinalize, Written
<1>3. /\ b.file \in Seq(S) /\ b.current \in S /\ off \in 0..(Word - 1)
      /\ b.current % Pow2[Word - off] = 0
  BY <1>1 DEF Packed
<1>4. n \in Nat /\ f \in Nat /\ f * Word + off = n * 1 /\ Word \in Nat \ {0} /\ 1 \in 1..Word
  BY <1>1, PackedType, WordAssumption, SMTT(30)
<1> HIDE DEF S
<1>5. /\ ws \in Seq(S) /\ Len(ws) = IF off = 0 THEN f ELSE f + 1
      /\ \A k \in Nat : k < Len(ws) => At(ws, k) = WordAt(b.file, b.current, k) /\ At(ws, k) \in S
  BY <1>2, <1>3, WrittenWords
<1> HIDE DEF off, f
<1>6. a.len = n /\ \A i \in 1..n : Get(a, i - 1) = ms[i]
  BY BitsRead
<1>7. ASSUME NEW p \in Nat, p < n PROVE p \div Word < Len(ws) /\ BitAt(ws, p) = ms[p + 1]
  <2> DEFINE k == p \div Word  o == p % Word  i == p + 1
  <2>1. k \in Nat /\ o \in Nat /\ o < Word /\ p = Word * k + o
    BY <1>4, DivMod
  <2>2. i \in 1..n /\ i - 1 = p
    BY <1>4, <1>7
  <2> HIDE DEF k, o, i
  <2>3. o \in 0..(Word - 1) /\ o + 1 <= Word /\ (i - 1) * 1 = Word * k + o /\ i \in 1..Len(ms)
    BY <1>4, <2>1, <2>2
  <2>4. k < Len(ws)
    BY <1>1, <1>2, <1>4, <2>1, <2>3, PackedRead
  <2>5. Get(a, p) = ms[i]
    BY <1>6, <2>2
  <2>6. BitAt(ws, p) = Get(a, p)
    BY <2>4 DEF BitAt, Get, k
  <2> QED BY <2>4, <2>5, <2>6 DEF k, i
<1>8. ASSUME NEW p \in Nat, p >= n PROVE BitAt(ws, p) = 0
  <2> DEFINE k == p \div Word  o == p % Word
  <2>1. k \in Nat /\ o \in Nat /\ o < Word /\ p = Word * k + o
    BY <1>4, DivMod
  <2> HIDE DEF k, o
  <2>2. CASE ~(k < Len(ws))
    BY <2>2 DEF BitAt, k
  <2>3. CASE k < Len(ws)
    <3>0. off \in Nat /\ off < Word /\ n = f * Word + off /\ f * Word = Word * f /\ Word * f \in Nat
      BY <1>3, <1>4
    <3>1. ~(k < f)
      <4> SUFFICES ASSUME k < f PROVE FALSE
        OBVIOUS
      <4>1. Word * (k + 1) <= Word * f
        BY <1>4, <2>1
      <4>2. Word * (k + 1) = Word * k + Word /\ Word * k \in Nat
        BY <1>4, <2>1
      <4> QED BY <1>4, <1>8, <2>1, <3>0, <4>1, <4>2
    <3>2. k = f /\ off # 0
      BY <1>4, <1>5, <2>1, <2>3, <3>1
    <3>3. At(ws, k) = b.current
      BY <1>5, <2>1, <2>3, <3>1 DEF WordAt, f
    <3>4. off <= o
      BY <1>4, <1>8, <2>1, <3>0, <3>2
    <3>5. b.current \in Nat
      <4>1. Pow2[Word] \in Nat
        <5>1. Word \in 0..Word
          BY <1>4
        <5> QED BY <5>1, PowType
      <4> QED BY <1>3, <4>1 DEF S
    <3>6. Word - off \in 0..Word /\ Word - 1 - o \in Nat /\ Word - 1 - o < Word - off
      BY <1>4, <2>1, <3>0, <3>4
    <3>7. (b.current \div Pow2[Word - 1 - o]) % 2 = 0
      BY <1>3, <3>5, <3>6, NoLowBits
    <3>8. BitOf(At(ws, k), o) = 0
      BY <3>3, <3>7 DEF BitOf, Shr
    <3> QED BY <2>3, <3>8 DEF BitAt, k, o
  <2> QED BY <2>2, <2>3
<1> QED BY <1>5, <1>7, <1>8 DEF S, IsWords, BitsOf

\* The rank of the words is that of the bits.
LEMMA RankOfBits ==
  ASSUME NEW ws, NEW ms, NEW n \in Nat, BitsOf(ws, ms, n), NEW i \in Nat, i <= n, NEW b
  PROVE  Cardinality({j \in 1..i : ms[j] = b}) = Rank(ws, b, i)
<1> DEFINE Q == {j \in Nat : ms[j] = b}  P == Places(ws, b)  i1 == i + 1
<1>1. {j \in 1..i : ms[j] = b} = Within(Q, 1, i1)
  BY DEF Within
<1>2. SameOver(P, Q, 0, 1, i)
  <2> SUFFICES ASSUME NEW k \in Nat, k < i PROVE 0 + k \in P <=> 1 + k \in Q
    BY DEF SameOver
  <2>1. 0 + k = k /\ 1 + k = k + 1 /\ k + 1 \in Nat /\ k < n
    OBVIOUS
  <2>2. BitAt(ws, k) = ms[k + 1]
    BY <2>1 DEF BitsOf
  <2> QED BY <2>1, <2>2 DEF Places
<1>3. 0 \in Nat /\ 1 \in Nat /\ i = 0 + i /\ i1 = 1 + i
  OBVIOUS
<1> HIDE DEF P, Q, i1
<1>4. Cnt(P, 0, i) = Cnt(Q, 1, i1)
  BY <1>2, <1>3, CountShift
<1> QED BY <1>1, <1>4 DEF Cnt, Rank, P

\* The index of a finished list.
LEMMA FinishedIndex ==
  ASSUME ListInv, Built, NEW ms, ms = Marks(EntriesOf(pairs), Len(EntriesOf(pairs))),
         NEW n, n = Len(EntriesOf(pairs))
  PROVE  \E a, ws : /\ IndexOf(list.bits, a, ws) /\ BitsOf(ws, ms, n) /\ list.bits.array = a
                    /\ a.len = n /\ n \in Nat /\ StreamBits(a) = ms /\ Len(ms) = n
                    /\ \A i \in 1..n : Get(a, i - 1) = ms[i]
<1> DEFINE a == BitFinalize(bits)  ws == a.words
<1>1. bits.count = n /\ BitHolds(bits, ms) /\ list.bits = BuildBitIndex(a)
  BY DEF ListInv
<1>2. BuildBitIndex(a).array = a
  BY DEF BuildBitIndex
<1>3. n \in Nat /\ Len(ms) = n
  BY <1>1, HeldFacts
<1>4. a.len = n /\ (\A i \in 1..n : Get(a, i - 1) = ms[i]) /\ StreamBits(a) = ms
  <2> HIDE DEF a
  <2> QED BY <1>1, <1>3, BitsRead DEF a
<1>5. IsWords(ws) /\ BitsOf(ws, ms, n)
  <2> HIDE DEF a
  <2> QED BY <1>1, <1>3, FinishedBits DEF a
<1>6. IndexOf(list.bits, a, ws)
  BY <1>1, <1>5 DEF IndexOf
<1> HIDE DEF a, ws
<1> QED BY <1>1, <1>2, <1>3, <1>4, <1>5, <1>6

(***************************************************************************)
(* rank1 and rank0 count the bits up to an index and select1 and select0   *)
(* find the bit of each rank, for words, superblocks and lists of any      *)
(* size; select1 finds no bit past the last one (build_bitindex,           *)
(* BitIndex::rank1, rank0, select1, select0).                              *)
(***************************************************************************)
THEOREM RankInvariant ==
  ASSUME NoneIsNoList
  PROVE  Spec => []RankAndSelect
<1>1. ListInv => RankAndSelect
  <2> SUFFICES ASSUME ListInv, Built PROVE RankAndSelect
    BY DEF RankAndSelect
  <2> DEFINE n == Len(EntriesOf(pairs))  ms == Marks(EntriesOf(pairs), n)  ix == list.bits
             upto(b, i) == {j \in 1..i : ms[j] = b}
  <2>1. PICK a, ws : /\ IndexOf(ix, a, ws) /\ BitsOf(ws, ms, n) /\ ix.array = a
                     /\ a.len = n /\ n \in Nat /\ StreamBits(a) = ms /\ Len(ms) = n
                     /\ \A i \in 1..n : Get(a, i - 1) = ms[i]
    BY FinishedIndex
  <2>2. DOMAIN ms = 1..n
    BY DEF Marks
  <2>3. StreamBits(ix.array) = ms
    BY <2>1
  <2>4. IsWords(ws) /\ Word \in Nat \ {0} /\ SBlock \in Nat \ {0}
    BY <2>1, WordAssumption, SBlockAssumption DEF IndexOf
  <2> HIDE DEF n, ms, ix
  <2>5. ASSUME NEW b, NEW i \in Nat, i <= n PROVE Cardinality(upto(b, i)) = Rank(ws, b, i)
    BY <2>1, <2>5, RankOfBits
  <2>6. ASSUME NEW i \in 1..n
        PROVE  /\ i - 1 \in Nat /\ (i - 1) + 1 = i /\ i \in Nat /\ i <= n
               /\ (i - 1) \div Word < Len(ws) /\ BitAt(ws, i - 1) = ms[i]
    <3> DEFINE p == i - 1
    <3>1. p \in Nat /\ p + 1 = i /\ i \in Nat /\ i <= n /\ p < n
      BY <2>1
    <3> HIDE DEF p
    <3>2. p \div Word < Len(ws) /\ BitAt(ws, p) = ms[p + 1]
      BY <2>1, <3>1 DEF BitsOf
    <3> QED BY <3>1, <3>2 DEF p
  <2>7. ASSUME NEW i \in 1..n
        PROVE  /\ Get(ix.array, i - 1) = ms[i]
               /\ Rank1(ix, i - 1) = Cardinality(upto(1, i))
               /\ Rank0(ix, i - 1) = Cardinality(upto(0, i))
    <3>1. Get(ix.array, i - 1) = ms[i]
      BY <2>1
    <3> DEFINE p == i - 1
    <3>2. p \in Nat /\ p + 1 = i /\ i \in Nat /\ i <= n /\ p \div Word < Len(ws)
      BY <2>6
    <3> HIDE DEF p
    <3>3. Rank1(ix, p) = Rank(ws, 1, p + 1) /\ Rank0(ix, p) = Rank(ws, 0, p + 1)
      BY <2>1, <3>2, RankIs
    <3> HIDE DEF upto
    <3> QED BY <2>5, <3>1, <3>2, <3>3 DEF p
  <2>8. ASSUME NEW b \in {0, 1}, NEW i \in upto(b, n)
        PROVE  Select(ix, b, Cardinality(upto(b, i))) = i - 1
    <3> DEFINE p == i - 1  r == Cardinality(upto(b, i))
    <3>1. i \in 1..n /\ ms[i] = b
      OBVIOUS
    <3>2. /\ p \in Nat /\ p + 1 = i /\ i \in Nat /\ i <= n
          /\ p \div Word < Len(ws) /\ BitAt(ws, p) = b
      BY <2>6, <3>1
    <3>3. r = Rank(ws, b, i)
      BY <2>5, <3>2
    <3> HIDE DEF p, r
    <3>4. p \in Places(ws, b)
      BY <3>2 DEF Places
    <3>5. Select(ix, b, r) = p
      BY <2>1, <3>2, <3>3, <3>4, SelectIs
    <3> QED BY <3>5 DEF p, r
  <2>9. ASSUME ms # <<>> PROVE Select(ix, 1, Cardinality(upto(1, n)) + 1) = None
    <3>1. n # 0
      BY <2>1, <2>2, <2>9 DEF ms, Marks
    <3>2. 0 < Len(ws)
      <4>1. 0 \in Nat /\ 0 < n
        BY <2>1, <3>1
      <4>2. 0 \div Word < Len(ws)
        BY <2>1, <4>1 DEF BitsOf
      <4>3. 0 \div Word = 0
        BY <2>4
      <4> QED BY <4>2, <4>3
    <3> DEFINE r == Cardinality(upto(1, n)) + 1
    <3>3. r = Rank(ws, 1, n) + 1 /\ Rank(ws, 1, n) \in Nat /\ r \in Nat
      <4>1. Cardinality(upto(1, n)) = Rank(ws, 1, n)
        BY <2>1, <2>5
      <4>2. Rank(ws, 1, n) \in Nat
        BY <2>1, <2>4, BothBits
      <4> QED BY <4>1, <4>2
    <3>4. ASSUME NEW s \in Nat PROVE Rank(ws, 1, SBlockEnd(s)) < r
      <4> DEFINE e == SBlockEnd(s)  P == Places(ws, 1)
      <4>1. e \in Nat
        BY <2>4 DEF SBlockEnd
      <4> HIDE DEF e, r
      <4>2. CASE e <= n
        <5>1. Rank(ws, 1, e) <= Rank(ws, 1, n) /\ Rank(ws, 1, e) \in Nat
          BY <2>1, <4>1, <4>2, RankOrder
        <5> QED BY <3>3, <5>1 DEF e
      <4>3. CASE n <= e
        <5>1. \A k \in n..(e - 1) : k \notin P
          <6> SUFFICES ASSUME NEW k \in n..(e - 1) PROVE k \notin P
            OBVIOUS
          <6>1. k \in Nat /\ k >= n
            BY <2>1, <4>1
          <6>2. BitAt(ws, k) = 0
            BY <2>1, <6>1 DEF BitsOf
          <6> QED BY <6>2 DEF Places
        <5> HIDE DEF P
        <5>2. Cnt(P, 0, e) = Cnt(P, 0, n)
          BY <2>1, <4>1, <4>3, <5>1, CountNone
        <5> QED BY <3>3, <5>2 DEF Rank, P, e
      <4> QED BY <2>1, <4>1, <4>2, <4>3
    <3> HIDE DEF r
    <3>5. Select(ix, 1, r) = None
      BY <2>1, <3>2, <3>3, <3>4, SelectNone
    <3> QED BY <3>5 DEF r
  <2> HIDE DEF upto
  <2>10. /\ \A i \in DOMAIN ms : /\ Get(ix.array, i - 1) = ms[i]
                                 /\ Rank1(ix, i - 1) = Cardinality(upto(1, i))
                                 /\ Rank0(ix, i - 1) = Cardinality(upto(0, i))
         /\ \A b \in {0, 1} : \A i \in upto(b, Len(ms)) :
                Select(ix, b, Cardinality(upto(b, i))) = i - 1
         /\ ms # <<>> => Select(ix, 1, Cardinality(upto(1, Len(ms))) + 1) = None
    BY <2>1, <2>2, <2>7, <2>8, <2>9
  <2> QED BY <2>3, <2>10 DEF RankAndSelect, upto, ix
<1> QED BY <1>1, ListInvariant, PTL

-----------------------------------------------------------------------------
(***************************************************************************)
(* The left-hand sides of a finished list.                                 *)
(***************************************************************************)
\* The left-hand side of an entry is one more than the ones before it.
LEMMA LeftIsRank ==
  ASSUME NEW es, NEW left, NEW right, Shape(es, left, right), left \in Nat, NEW n, n = Len(es),
         NEW ws, BitsOf(ws, Marks(es, n), n)
  PROVE  /\ n \in Nat /\ Rank(ws, 1, n) = left
         /\ \A i \in 1..n : es[i][1] = 1 + Rank(ws, 1, i - 1)
<1> DEFINE ms == Marks(es, n)  R(q) == Rank(ws, 1, q)
<1>1. /\ es \in Seq(Nat \X Nat) /\ (es = <<>> => left = 0)
      /\ es # <<>> => es[1][1] = 1 /\ es[n] = <<left, right>>
      /\ \A i \in 2..n : es[i][1] - es[i - 1][1] \in {0, 1}
  BY DEF Shape
<1>2. n \in Nat /\ ((es = <<>>) <=> (n = 0)) /\ \A i \in 1..n : es[i][1] \in Nat
  <2>1. n \in Nat /\ ((es = <<>>) <=> (n = 0)) /\ \A i \in 1..n : es[i] \in Nat \X Nat
    BY <1>1, LenProperties, EmptySeq, ElementOfSeq
  <2> QED BY <2>1
<1>3. ASSUME NEW m \in Nat, m < n
      PROVE  R(m + 1) = R(m) + Mark(es, m + 1) /\ R(m) \in Nat
  <2>1. m + 1 \in 1..n
    BY <1>2, <1>3
  <2>2. BitAt(ws, m) = Mark(es, m + 1)
    <3>1. ms[m + 1] = Mark(es, m + 1)
      BY <2>1 DEF Marks
    <3>2. BitAt(ws, m) = ms[m + 1]
      BY <1>3 DEF BitsOf
    <3> QED BY <3>1, <3>2
  <2>3. Mark(es, m + 1) \in {0, 1}
    BY DEF Mark
  <2>4. m \in Places(ws, 1) <=> Mark(es, m + 1) = 1
    BY <2>2 DEF Places
  <2>5. /\ m \in Places(ws, 1) => R(m + 1) = R(m) + 1
        /\ m \notin Places(ws, 1) => R(m + 1) = R(m)
        /\ R(m) \in Nat
    BY RankOrder
  <2> HIDE DEF R
  <2> QED BY <2>3, <2>4, <2>5
<1>4. R(0) = 0
  BY <1>2, RankOrder
<1> HIDE DEF R
<1> DEFINE T == {m \in Nat : m < n => es[m + 1][1] = 1 + R(m)}
<1>5. 0 \in T
  BY <1>1, <1>2, <1>4
<1>6. ASSUME NEW m \in T PROVE m + 1 \in T
  <2> SUFFICES ASSUME m + 1 < n PROVE es[(m + 1) + 1][1] = 1 + R(m + 1)
    OBVIOUS
  <2>1. m \in Nat /\ m < n /\ es[m + 1][1] = 1 + R(m)
    BY <1>2
  <2> DEFINE i == m + 2  j == m + 1
  <2>2. i \in 2..n /\ i - 1 = j /\ i \in 1..n /\ j \in 1..n /\ j # n /\ j + 1 = i /\ (m + 1) + 1 = i
    BY <1>2, <2>1
  <2>3. es[j][1] = 1 + R(m) /\ R(j) = R(m) + Mark(es, j) /\ R(m) \in Nat
    BY <1>3, <2>1
  <2> HIDE DEF i, j, T
  <2>4. es[i][1] - es[j][1] \in {0, 1} /\ es[i][1] \in Nat /\ es[j][1] \in Nat
    BY <1>1, <1>2, <2>2
  <2>5. Mark(es, j) = IF es[i][1] # es[j][1] THEN 1 ELSE 0
    BY <2>2 DEF Mark
  <2>6. es[i][1] = es[j][1] + Mark(es, j)
    BY <2>4, <2>5
  <2>7. es[i][1] = 1 + R(j)
    BY <2>3, <2>4, <2>5, <2>6
  <2> QED BY <2>2, <2>7 DEF j
<1> T \in SUBSET Nat
  OBVIOUS
<1> HIDE DEF T
<1>7. T = Nat
  BY <1>5, <1>6, AllNat
<1>8. ASSUME NEW i \in 1..n PROVE es[i][1] = 1 + R(i - 1)
  <2>1. i - 1 \in Nat /\ i - 1 < n /\ (i - 1) + 1 = i
    BY <1>2
  <2> QED BY <1>7, <2>1 DEF T
<1>9. R(n) = left
  <2>1. CASE n = 0
    BY <1>1, <1>2, <1>4, <2>1
  <2>2. CASE n # 0
    <3>1. n - 1 \in Nat /\ n - 1 < n /\ (n - 1) + 1 = n /\ n \in 1..n
      BY <1>2, <2>2
    <3>2. R(n) = R(n - 1) + Mark(es, n) /\ R(n - 1) \in Nat
      BY <1>3, <3>1
    <3>3. Mark(es, n) = 1
      BY DEF Mark
    <3>4. es[n][1] = 1 + R(n - 1) /\ es[n][1] = left
      BY <1>1, <1>2, <1>8, <2>2, <3>1
    <3> QED BY <3>2, <3>3, <3>4
  <2> QED BY <2>1, <2>2
<1> QED BY <1>2, <1>8, <1>9 DEF R

\* p is the place where the entries of a left-hand side end.
EndsAt(p, ws, left, n) ==
  /\ p \in Nat /\ p < n /\ p \in Places(ws, 1)
  /\ Rank(ws, 1, p + 1) = left /\ Rank(ws, 1, p) = left - 1

\* There is one.
LEMMA EndExists ==
  ASSUME NEW ws, NEW n \in Nat, NEW left \in Nat \ {0}, left <= Rank(ws, 1, n)
  PROVE  \E p : EndsAt(p, ws, left, n)
<1> DEFINE R(q) == Rank(ws, 1, q)  T == {q \in Nat : left <= R(q)}
<1>1. T \in SUBSET Nat /\ n \in T
  OBVIOUS
<1> HIDE DEF T
<1>2. PICK q \in T : \A y \in T : q <= y
  BY <1>1, LeastNat
<1>3. q \in Nat /\ left <= R(q) /\ q <= n
  BY <1>1, <1>2 DEF T
<1>4. q # 0
  <2>1. R(0) = 0
    BY RankOrder
  <2> HIDE DEF R
  <2> QED BY <1>3, <2>1
<1> DEFINE p == q - 1
<1>5. p \in Nat /\ p + 1 = q /\ p < n /\ p < q
  BY <1>3, <1>4
<1> HIDE DEF p
<1>6. ~(left <= R(p))
  BY <1>2, <1>3, <1>5 DEF T
<1>7. /\ p \in Places(ws, 1) => R(p + 1) = R(p) + 1
      /\ p \notin Places(ws, 1) => R(p + 1) = R(p)
      /\ R(p) \in Nat
  BY <1>5, RankOrder
<1>8. p \in Places(ws, 1) /\ R(p + 1) = left /\ R(p) = left - 1
  <2> HIDE DEF R
  <2> QED BY <1>3, <1>5, <1>6, <1>7
<1> QED BY <1>5, <1>8 DEF EndsAt

\* start is the place where they begin, behind those of the one before it.
BeginsAt(start, ws, left, n) ==
  \/ left = 1 /\ start = 0
  \/ left # 1 /\ \E q : EndsAt(q, ws, left - 1, n) /\ start = q + 1

\* They are from start to p.
Spans(start, p, ws, left) ==
  /\ start \in Nat /\ start <= p
  /\ \A i \in Nat : Rank(ws, 1, i) = left - 1 <=> start <= i /\ i <= p

\* A left-hand side has the entries from where they begin to where they end.
LEMMA EntriesOfLeft ==
  ASSUME NEW ws, NEW n \in Nat, NEW left \in Nat \ {0}, NEW p, EndsAt(p, ws, left, n),
         NEW start, BeginsAt(start, ws, left, n)
  PROVE  Spans(start, p, ws, left)
<1> DEFINE R(q) == Rank(ws, 1, q)
<1>1. /\ p \in Nat /\ p < n /\ R(p + 1) = left /\ R(p) = left - 1
  BY DEF EndsAt
<1>2. ASSUME NEW x \in Nat, NEW y \in Nat, x <= y PROVE R(x) <= R(y) /\ R(x) \in Nat /\ R(y) \in Nat
  BY <1>2, RankOrder
<1>3. R(0) = 0
  BY RankOrder
<1> HIDE DEF R
<1>4. ASSUME NEW i \in Nat PROVE R(i) <= left - 1 <=> i <= p
  <2>1. CASE i <= p
    BY <1>1, <1>2, <2>1
  <2>2. CASE ~(i <= p)
    <3>1. p + 1 \in Nat /\ p + 1 <= i
      BY <1>1, <2>2
    <3>2. R(p + 1) <= R(i) /\ R(i) \in Nat
      BY <1>2, <3>1
    <3> QED BY <1>1, <2>2, <3>2
  <2> QED BY <2>1, <2>2
<1>5. start \in Nat /\ R(start) = left - 1 /\ \A i \in Nat : left - 1 <= R(i) => start <= i
  <2>1. CASE left = 1 /\ start = 0
    BY <1>3, <2>1
  <2>2. CASE left # 1 /\ \E q : EndsAt(q, ws, left - 1, n) /\ start = q + 1
    <3>1. PICK q : EndsAt(q, ws, left - 1, n) /\ start = q + 1
      BY <2>2
    <3>2. q \in Nat /\ R(q + 1) = left - 1 /\ R(q) = left - 1 - 1
      BY <3>1 DEF EndsAt, R
    <3>3. ASSUME NEW i \in Nat, left - 1 <= R(i), i <= q PROVE FALSE
      <4>1. R(i) <= R(q)
        BY <1>2, <3>2, <3>3
      <4>2. R(i) \in Nat
        BY <1>2, <3>2, <3>3
      <4> QED BY <3>2, <3>3, <4>1, <4>2
    <3> QED BY <3>1, <3>2, <3>3
  <2> QED BY <2>1, <2>2 DEF BeginsAt
<1>6. start <= p
  BY <1>4, <1>5
<1>7. ASSUME NEW i \in Nat PROVE R(i) = left - 1 <=> start <= i /\ i <= p
  <2>1. R(i) \in Nat
    BY <1>2
  <2>2. start <= i => left - 1 <= R(i)
    BY <1>2, <1>5
  <2> QED BY <1>4, <1>5, <2>1, <2>2
<1> QED BY <1>5, <1>6, <1>7 DEF R, Spans

\* The numbers of a slice
SliceIs(s, vs, start, len) == s.len = len /\ Iter(s) = [k \in 1..len |-> vs[start + k]]

\* It reads those of the array.
LEMMA SliceReads ==
  ASSUME NEW a, NEW w, NEW f, NEW c, NEW off, NEW vs, ArrayOf(a, w, f, c, off, vs),
         NEW start \in Nat, NEW len \in Nat, start + len <= Len(vs),
         NEW s, s = Slice(a, start, len)
  PROVE  SliceIs(s, vs, start, len)
<1>1. /\ a = [first |-> 0, len |-> Len(vs), width |-> w, words |-> Written(f, c, off)]
      /\ Len(vs) \in Nat
  BY ArrayFacts DEF ArrayOf
<1>2. s = [first |-> 0 + start, len |-> len, width |-> w, words |-> Written(f, c, off)]
  BY <1>1 DEF Slice
<1>3. s.len = len /\ s.first = start /\ s.width = a.width /\ s.words = a.words /\ a.first = 0
  BY <1>1, <1>2
<1>4. ASSUME NEW k \in 1..len PROVE Entry(s, k - 1) = vs[start + k]
  <2> DEFINE i == start + k
  <2>1. i \in 1..Len(vs) /\ start + (k - 1) = 0 + (i - 1)
    BY <1>1
  <2>2. Entry(s, k - 1) = Entry(a, i - 1)
    BY <1>3, <2>1 DEF Entry
  <2>3. Entry(a, i - 1) = vs[i]
    <3> HIDE DEF i
    <3> QED BY <2>1, IterReads
  <2> QED BY <2>2, <2>3
<1>5. Iter(s) = [k \in 1..len |-> vs[start + k]]
  BY <1>3, <1>4 DEF Iter
<1> QED BY <1>3, <1>5 DEF SliceIs

\* get gives each left-hand side its entries, and they are where offset_for says.
LEMMA GetReads ==
  ASSUME ListInv, Built, NEW es, es = EntriesOf(pairs), NEW n, n = Len(es), n \in Nat,
         NEW a, NEW ws, IndexOf(list.bits, a, ws), BitsOf(ws, Marks(es, n), n),
         Rank(ws, 1, n) = lastLeft, lastLeft \in Nat,
         \A i \in 1..n : es[i][1] = 1 + Rank(ws, 1, i - 1),
         NEW left \in 1..lastLeft, NEW start, start = OffsetFor(list, left),
         NEW slice, slice = GetList(list, left)
  PROVE  /\ {i \in 1..n : es[i][1] = left} = (start + 1)..(start + slice.len)
         /\ Iter(slice) = [k \in 1..slice.len |-> es[start + k][2]]
<1>1. left \in Nat \ {0} /\ left <= Rank(ws, 1, n)
  OBVIOUS
<1>2. ASSUME NEW l \in Nat \ {0}, l <= lastLeft
      PROVE  \E p : EndsAt(p, ws, l, n) /\ Select(list.bits, 1, l) = p
  <2>1. PICK p : EndsAt(p, ws, l, n)
    BY <1>2, EndExists
  <2>2. p \in Places(ws, 1) /\ p \div Word < Len(ws) /\ l = Rank(ws, 1, p + 1) /\ 1 \in {0, 1}
    BY <2>1 DEF EndsAt, BitsOf
  <2>3. Select(list.bits, 1, l) = p
    BY <2>2, SelectIs
  <2> QED BY <2>1, <2>3
<1>3. PICK p : EndsAt(p, ws, left, n) /\ Select(list.bits, 1, left) = p
  BY <1>1, <1>2
<1>4. BeginsAt(start, ws, left, n)
  <2>1. CASE left = 1
    BY <2>1 DEF OffsetFor, BeginsAt
  <2>2. CASE left # 1
    <3> DEFINE l == left - 1
    <3>1. l \in Nat \ {0} /\ l <= lastLeft
      BY <1>1, <2>2
    <3>2. start = Select(list.bits, 1, l) + 1
      BY <2>2 DEF OffsetFor
    <3> HIDE DEF l
    <3>3. PICK q : EndsAt(q, ws, l, n) /\ Select(list.bits, 1, l) = q
      BY <1>2, <3>1
    <3> QED BY <2>2, <3>2, <3>3 DEF l, BeginsAt
  <2> QED BY <2>1, <2>2
<1>5. /\ start \in Nat /\ start <= p
      /\ \A i \in Nat : Rank(ws, 1, i) = left - 1 <=> start <= i /\ i <= p
  <2>1. Spans(start, p, ws, left)
    BY <1>1, <1>3, <1>4, EntriesOfLeft
  <2> QED BY <2>1 DEF Spans
<1> DEFINE len == p - start + 1
<1>6. p \in Nat /\ p < n /\ len \in Nat /\ start + len = p + 1 /\ start + len <= n
  BY <1>3, <1>5 DEF EndsAt
<1>7. slice = Slice(list.nums, start, len)
  BY <1>3 DEF GetList
<1> HIDE DEF len
<1> DEFINE vs == Numbers(es)
<1>8. Len(vs) = n
  BY HeldFacts
<1>9. ArrayOf(list.nums, Width, nums.file, nums.current, nums.offset, vs)
  BY FinishedNumbers
<1>10. \A i \in 1..n : vs[i] = es[i][2]
  BY DEF Numbers
<1> HIDE DEF vs
<1>11. slice.len = len /\ Iter(slice) = [k \in 1..len |-> vs[start + k]]
  <2>1. SliceIs(slice, vs, start, len)
    BY <1>5, <1>6, <1>7, <1>8, <1>9, SliceReads
  <2> QED BY <2>1 DEF SliceIs
<1>12. [k \in 1..len |-> vs[start + k]] = [k \in 1..len |-> es[start + k][2]]
  <2>1. ASSUME NEW k \in 1..len PROVE vs[start + k] = es[start + k][2]
    <3>1. start + k \in 1..n
      BY <1>5, <1>6
    <3> QED BY <1>10, <3>1
  <2> QED BY <2>1
<1>13. {i \in 1..n : es[i][1] = left} = (start + 1)..(p + 1)
  <2>1. ASSUME NEW i \in 1..n PROVE es[i][1] = left <=> i \in (start + 1)..(p + 1)
    <3> DEFINE j == i - 1
    <3>1. j \in Nat /\ j + 1 = i /\ es[i][1] = 1 + Rank(ws, 1, j)
      OBVIOUS
    <3> HIDE DEF j
    <3>2. Rank(ws, 1, j) \in Nat
      BY <3>1, RankOrder
    <3>3. es[i][1] = left <=> Rank(ws, 1, j) = left - 1
      BY <1>1, <3>1, <3>2
    <3>4. Rank(ws, 1, j) = left - 1 <=> start <= j /\ j <= p
      BY <1>5, <3>1
    <3>5. i \in (start + 1)..(p + 1) <=> start <= j /\ j <= p
      BY <1>5, <1>6, <3>1
    <3> QED BY <3>3, <3>4, <3>5
  <2>2. ASSUME NEW i \in (start + 1)..(p + 1) PROVE i \in 1..n
    BY <1>5, <1>6
  <2> QED BY <2>1, <2>2
<1> QED BY <1>6, <1>11, <1>12, <1>13

(***************************************************************************)
(* An adjacency list gives back the pairs it was built from: by its        *)
(* iterator and by the stream over its files, each left-hand side its own  *)
(* entries by get, and the left-hand side of each entry by left_at_pos     *)
(* (AdjacencyListBuilder::push and finalize, AdjacencyListIterator,        *)
(* adjacency_list_stream_pairs, left_count, offset_for, get, left_at_pos). *)
(***************************************************************************)
THEOREM ListReadsBackInvariant ==
  ASSUME NoneIsNoList
  PROVE  Spec => []ListReadsBack
<1>1. ListInv => ListReadsBack
  <2> SUFFICES ASSUME ListInv, Built PROVE ListReadsBack
    BY DEF ListReadsBack
  <2> DEFINE es == EntriesOf(pairs)  n == Len(es)  ms == Marks(es, n)  ix == list.bits
  <2>1. PICK a, ws : /\ IndexOf(ix, a, ws) /\ BitsOf(ws, ms, n) /\ ix.array = a
                     /\ a.len = n /\ n \in Nat
    BY FinishedIndex, ZenonT(30)
  <2>2. Shape(es, lastLeft, lastRight) /\ lastLeft \in Nat
    BY BoundsAssumption DEF ListInv
  <2>3. ListPairs(list) = pairs /\ StreamPairs(list) = pairs
    BY PairsRead
  <2>4. RightCount(list) = n
    BY <2>1 DEF RightCount
  <2> HIDE DEF n, es
  <2>5. /\ Rank(ws, 1, n) = lastLeft
        /\ \A i \in 1..n : es[i][1] = 1 + Rank(ws, 1, i - 1)
    BY <2>1, <2>2, LeftIsRank DEF n
  <2>6. ASSUME NEW p \in Nat, p < n PROVE Rank1(ix, p) = Rank(ws, 1, p + 1)
    <3>1. p \div Word < Len(ws)
      BY <2>1, <2>6 DEF BitsOf
    <3> HIDE DEF ix
    <3> QED BY <2>1, <3>1, RankIs
  <2>7. LeftCount(list) = lastLeft
    <3>1. CASE n = 0
      <4>1. Rank(ws, 1, 0) = 0
        BY <2>1, RankOrder
      <4> QED BY <2>4, <2>5, <3>1, <4>1 DEF LeftCount
    <3>2. CASE n # 0
      <4>1. n - 1 \in Nat /\ n - 1 < n /\ (n - 1) + 1 = n
        BY <2>1, <3>2
      <4>2. Rank1(ix, n - 1) = Rank(ws, 1, n)
        BY <2>6, <4>1
      <4> QED BY <2>4, <2>5, <3>2, <4>2 DEF LeftCount
    <3> QED BY <3>1, <3>2
  <2>8. ASSUME NEW i \in 1..n PROVE LeftAtPos(list, i - 1) = es[i][1]
    <3> DEFINE j == i - 1
    <3>1. j \in Nat /\ es[i][1] = 1 + Rank(ws, 1, j) /\ j < n
      BY <2>1, <2>5
    <3>2. CASE j = 0
      <4>1. Rank(ws, 1, 0) = 0
        BY <3>1, RankOrder
      <4> QED BY <3>1, <3>2, <4>1 DEF LeftAtPos
    <3>3. CASE j # 0
      <4>1. j - 1 \in Nat /\ j - 1 < n /\ (j - 1) + 1 = j
        BY <2>1, <3>1, <3>3
      <4>2. Rank1(ix, j - 1) = Rank(ws, 1, j)
        BY <2>6, <4>1
      <4> QED BY <3>1, <3>3, <4>2 DEF LeftAtPos
    <3> QED BY <3>2, <3>3
  <2>9. ASSUME NEW left \in 1..lastLeft
        PROVE  LET start == OffsetFor(list, left)
                   slice == GetList(list, left)
               IN  /\ {i \in 1..n : es[i][1] = left} = (start + 1)..(start + slice.len)
                   /\ Iter(slice) = [k \in 1..slice.len |-> es[start + k][2]]
    <3> DEFINE start == OffsetFor(list, left)  slice == GetList(list, left)
    <3> HIDE DEF start, slice
    <3>1. /\ {i \in 1..n : es[i][1] = left} = (start + 1)..(start + slice.len)
          /\ Iter(slice) = [k \in 1..slice.len |-> es[start + k][2]]
      BY <2>1, <2>2, <2>5, GetReads DEF start, slice, es, n
    <3> QED BY <3>1 DEF start, slice
  <2> QED BY <2>3, <2>4, <2>7, <2>8, <2>9 DEF ListReadsBack, es, n
<1> QED BY <1>1, ListInvariant, PTL
=============================================================================
