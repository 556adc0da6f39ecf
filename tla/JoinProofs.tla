----------------------------- MODULE JoinProofs -----------------------------
(***************************************************************************)
(* About the ordered merge join: the comparison and the digest of values   *)
(* agree with the numbers they stand for, files are packed, cursors read   *)
(* their rows in order, and the merge implements Join.                     *)
(*                                                                         *)
(* About a tree of materialized joins: it holds each row in one place, and *)
(* implements Join too.  All of it for any tables, row sizes, predicates,  *)
(* budgets, widths of numbers and sizes of blocks and batches.             *)
(***************************************************************************)
EXTENDS OrderedMergeJoin, MaterializedJoin, DataLemmas

-----------------------------------------------------------------------------
(* Powers of two and products.                                             *)

\* The recursion of PowerOfTwo, on the numbers up to n.
DoublesTo(n, p) == p = [i \in 0 .. n |-> IF i = 0 THEN 1 ELSE 2 * p[i - 1]]

LEMMA DoublesToEach == \A n \in Nat : \E p : DoublesTo(n, p)
<1> DEFINE solved(n) == \E p : DoublesTo(n, p)
           wrong == {n \in Nat : ~solved(n)}
<1> SUFFICES ASSUME wrong # {} PROVE FALSE
  OBVIOUS
<1>1. wrong \in SUBSET Nat
  OBVIOUS
<1> HIDE DEF solved
<1>2. PICK n \in wrong : \A k \in wrong : n <= k
  BY <1>1, LeastElement
<1>3. n \in Nat /\ ~solved(n)
  BY <1>2
<1>4. n # 0
  <2> DEFINE p == [i \in 0 .. 0 |-> 1]
  <2>1. \A i \in 0 .. 0 : i = 0
    OBVIOUS
  <2>2. p = [i \in 0 .. 0 |-> IF i = 0 THEN 1 ELSE 2 * p[i - 1]]
    BY <2>1
  <2>3. solved(0)
    BY <2>2 DEF solved, DoublesTo
  <2>4. QED  BY <1>3, <2>3
<1>5. n - 1 \in Nat /\ n - 1 \notin wrong
  BY <1>2, <1>3, <1>4
<1>6. PICK p : DoublesTo(n - 1, p)
  BY <1>5 DEF solved
<1> DEFINE q == [i \in 0 .. n |-> IF i = n THEN 2 * p[n - 1] ELSE p[i]]
<1>7. ASSUME NEW i \in 0 .. n
      PROVE  q[i] = IF i = 0 THEN 1 ELSE 2 * q[i - 1]
  <2>1. CASE i = n
    <3>1. q[i - 1] = p[n - 1] /\ q[i] = 2 * p[n - 1]
      BY <1>3, <1>4, <2>1
    <3>2. QED  BY <1>4, <2>1, <3>1
  <2>2. CASE i # n
    <3>1. i \in 0 .. n - 1 /\ q[i] = p[i] /\ (i # 0 => q[i - 1] = p[i - 1])
      BY <1>3, <2>2
    <3>2. p[i] = IF i = 0 THEN 1 ELSE 2 * p[i - 1]
      BY <1>6, <3>1, Zenon DEF DoublesTo
    <3>3. QED  BY <3>1, <3>2
  <2>3. QED  BY <2>1, <2>2
<1>8. DoublesTo(n, q)
  BY <1>7 DEF DoublesTo
<1>9. QED  BY <1>3, <1>8 DEF solved

LEMMA PowerOfTwoIs ==
  /\ PowerOfTwo[0] = 1
  /\ \A n \in Nat : PowerOfTwo[n + 1] = 2 * PowerOfTwo[n]
<1> DEFINE upTo(n) == CHOOSE p : DoublesTo(n, p)
           p == [n \in Nat |-> upTo(n)[n]]
           step(f) == [n \in Nat |-> IF n = 0 THEN 1 ELSE 2 * f[n - 1]]
<1>1. ASSUME NEW n \in Nat
      PROVE  DoublesTo(n, upTo(n))
  BY DoublesToEach
<1> HIDE DEF upTo
<1>2. ASSUME NEW n \in Nat, NEW i \in 0 .. n
      PROVE  upTo(n)[i] = IF i = 0 THEN 1 ELSE 2 * upTo(n)[i - 1]
  BY <1>1, Zenon DEF DoublesTo
<1>3. \A n \in Nat : \A i \in 0 .. n : upTo(n)[i] = upTo(i)[i]
  <2> SUFFICES ASSUME NEW n \in Nat PROVE \A i \in 0 .. n : upTo(n)[i] = upTo(i)[i]
    OBVIOUS
  <2>1. ASSUME NEW i \in 0 .. n
        PROVE  \A k \in 0 .. i : upTo(n)[k] = upTo(i)[k]
    <3> DEFINE wrong == {k \in 0 .. i : upTo(n)[k] # upTo(i)[k]}
    <3> SUFFICES ASSUME wrong # {} PROVE FALSE
      OBVIOUS
    <3>1. wrong \in SUBSET Nat
      OBVIOUS
    <3>2. PICK k \in wrong : \A j \in wrong : k <= j
      BY <3>1, LeastElement
    <3>3. k \in 0 .. i /\ k \in 0 .. n /\ upTo(n)[k] # upTo(i)[k] /\ i \in Nat
      BY <3>2
    <3>4. k # 0
      BY <1>2, <3>3
    <3>5. k - 1 \in 0 .. i /\ k - 1 \notin wrong
      BY <3>2, <3>3, <3>4
    <3>6. upTo(n)[k - 1] = upTo(i)[k - 1]
      BY <3>5
    <3>7. QED  BY <1>2, <3>3, <3>4, <3>6
  <2>2. QED  BY <2>1
<1>4. ASSUME NEW n \in Nat
      PROVE  p[n] = IF n = 0 THEN 1 ELSE 2 * p[n - 1]
  <2>1. n \in 0 .. n
    OBVIOUS
  <2>2. upTo(n)[n] = IF n = 0 THEN 1 ELSE 2 * upTo(n)[n - 1]
    BY <1>2, <2>1
  <2>3. n # 0 => n - 1 \in 0 .. n /\ n - 1 \in Nat
    OBVIOUS
  <2>4. n # 0 => upTo(n)[n - 1] = upTo(n - 1)[n - 1]
    BY <1>3, <2>3
  <2>5. QED  BY <2>2, <2>3, <2>4
<1>5. p = step(p)
  BY <1>4
<1>6. PowerOfTwo = CHOOSE f : f = step(f)
  BY DEF PowerOfTwo
<1> HIDE DEF p, step
<1>7. PowerOfTwo = step(PowerOfTwo)
  BY <1>5, <1>6
<1>8. \A n \in Nat : PowerOfTwo[n] = IF n = 0 THEN 1 ELSE 2 * PowerOfTwo[n - 1]
  BY <1>7, Zenon DEF step
<1>9. ASSUME NEW n \in Nat
      PROVE  PowerOfTwo[n + 1] = 2 * PowerOfTwo[n]
  <2>1. n + 1 \in Nat /\ n + 1 # 0 /\ (n + 1) - 1 = n
    OBVIOUS
  <2>2. QED  BY <1>8, <2>1
<1>10. QED  BY <1>8, <1>9

LEMMA PowerOfTwoType == \A n \in Nat : PowerOfTwo[n] \in Nat /\ PowerOfTwo[n] > n
<1> DEFINE wrong == {n \in Nat : ~(PowerOfTwo[n] \in Nat /\ PowerOfTwo[n] > n)}
<1> SUFFICES ASSUME wrong # {} PROVE FALSE
  OBVIOUS
<1>1. wrong \in SUBSET Nat
  OBVIOUS
<1>2. PICK n \in wrong : \A k \in wrong : n <= k
  BY <1>1, LeastElement
<1>3. n \in Nat /\ ~(PowerOfTwo[n] \in Nat /\ PowerOfTwo[n] > n)
  BY <1>2
<1>4. n # 0
  BY <1>3, PowerOfTwoIs
<1>5. n - 1 \in Nat /\ n - 1 \notin wrong
  BY <1>2, <1>3, <1>4
<1>6. PowerOfTwo[n - 1] \in Nat /\ PowerOfTwo[n - 1] > n - 1
  BY <1>5
<1>7. PowerOfTwo[n] = 2 * PowerOfTwo[n - 1]
  <2>1. (n - 1) + 1 = n
    BY <1>3
  <2>2. QED  BY <1>5, <2>1, PowerOfTwoIs
<1>8. QED  BY <1>3, <1>5, <1>6, <1>7

LEMMA PowerOfSum == \A m, n \in Nat : PowerOfTwo[m + n] = PowerOfTwo[m] * PowerOfTwo[n]
<1> SUFFICES ASSUME NEW m \in Nat
             PROVE  \A n \in Nat : PowerOfTwo[m + n] = PowerOfTwo[m] * PowerOfTwo[n]
  OBVIOUS
<1> DEFINE wrong == {n \in Nat : PowerOfTwo[m + n] # PowerOfTwo[m] * PowerOfTwo[n]}
<1> SUFFICES ASSUME wrong # {} PROVE FALSE
  OBVIOUS
<1>1. wrong \in SUBSET Nat
  OBVIOUS
<1>2. PICK n \in wrong : \A k \in wrong : n <= k
  BY <1>1, LeastElement
<1>3. n \in Nat /\ PowerOfTwo[m + n] # PowerOfTwo[m] * PowerOfTwo[n]
  BY <1>2
<1>4. PowerOfTwo[m] \in Nat
  BY PowerOfTwoType
<1>5. n # 0
  <2> SUFFICES ASSUME n = 0 PROVE FALSE
    OBVIOUS
  <2>1. \A a \in Nat : a * 1 = a
    OBVIOUS
  <2>2. m + n = m /\ PowerOfTwo[n] = 1
    BY PowerOfTwoIs
  <2>3. QED  BY <1>3, <1>4, <2>1, <2>2
<1>6. n - 1 \in Nat /\ n - 1 \notin wrong
  BY <1>2, <1>3, <1>5
<1>7. PowerOfTwo[m + (n - 1)] = PowerOfTwo[m] * PowerOfTwo[n - 1] /\ PowerOfTwo[n - 1] \in Nat
  BY <1>6, PowerOfTwoType
<1>8. (n - 1) + 1 = n /\ (m + (n - 1)) + 1 = m + n /\ m + (n - 1) \in Nat
  BY <1>6
<1>9. PowerOfTwo[n] = 2 * PowerOfTwo[n - 1] /\ PowerOfTwo[m + n] = 2 * PowerOfTwo[m + (n - 1)]
  BY <1>6, <1>8, PowerOfTwoIs
<1>10. \A a, b \in Nat : 2 * (a * b) = a * (2 * b)
  OBVIOUS
<1>11. QED  BY <1>3, <1>4, <1>7, <1>9, <1>10

LEMMA PowersGrow ==
  ASSUME NEW m \in Nat, NEW n \in Nat
  PROVE  /\ m <= n => PowerOfTwo[m] <= PowerOfTwo[n]
         /\ m < n => 2 * PowerOfTwo[m] <= PowerOfTwo[n]
<1>1. PowerOfTwo[m] \in Nat \ {0}
  BY PowerOfTwoType
<1>2. \A a, b \in Nat : b > 0 => a <= a * b
  OBVIOUS
<1>3. ASSUME m <= n PROVE PowerOfTwo[m] <= PowerOfTwo[n]
  <2>1. n - m \in Nat /\ m + (n - m) = n
    BY <1>3
  <2>2. PowerOfTwo[n - m] \in Nat /\ PowerOfTwo[n - m] > 0
    BY <2>1, PowerOfTwoType
  <2>3. PowerOfTwo[n] = PowerOfTwo[m] * PowerOfTwo[n - m]
    BY <2>1, PowerOfSum
  <2>4. QED  BY <1>1, <1>2, <2>2, <2>3
<1>4. ASSUME m < n PROVE 2 * PowerOfTwo[m] <= PowerOfTwo[n]
  <2>1. n - m - 1 \in Nat /\ (m + 1) + (n - m - 1) = n /\ m + 1 \in Nat
    BY <1>4
  <2>2. PowerOfTwo[n - m - 1] \in Nat /\ PowerOfTwo[n - m - 1] > 0
    BY <2>1, PowerOfTwoType
  <2>3. PowerOfTwo[n] = PowerOfTwo[m + 1] * PowerOfTwo[n - m - 1]
    BY <2>1, PowerOfSum
  <2>4. PowerOfTwo[m + 1] = 2 * PowerOfTwo[m] /\ 2 * PowerOfTwo[m] \in Nat
    BY <1>1, PowerOfTwoIs
  <2>5. QED  BY <1>2, <2>2, <2>3, <2>4
<1>5. QED  BY <1>3, <1>4

\* Comparison survives a positive factor.
LEMMA TimesKeepsOrder ==
  ASSUME NEW a \in Int, NEW b \in Int, NEW c \in Nat, c > 0
  PROVE  (a < b <=> a * c < b * c) /\ (a = b <=> a * c = b * c)
<1>1. \A x, y \in Int : x < y => x * c < y * c
  OBVIOUS
<1>2. a < b \/ a = b \/ b < a
  OBVIOUS
<1>3. a * c \in Int /\ b * c \in Int
  OBVIOUS
<1>4. QED  BY <1>1, <1>2, <1>3

LEMMA OrderOfProducts ==
  ASSUME NEW a \in Int, NEW b \in Int, NEW c \in Nat, c > 0
  PROVE  Order(a * c, b * c) = Order(a, b)
<1>1. a * c \in Int /\ b * c \in Int
  OBVIOUS
<1>2. CASE a < b
  BY <1>1, <1>2, TimesKeepsOrder DEF Order
<1>3. CASE a = b
  BY <1>1, <1>3 DEF Order
<1>4. CASE b < a
  BY <1>1, <1>4, TimesKeepsOrder DEF Order
<1>5. QED  BY <1>2, <1>3, <1>4

-----------------------------------------------------------------------------
(* Integers and floats.                                                    *)

LEMMA NumberFacts ==
  /\ IntBits \in Nat \ {0} /\ Precision \in Nat \ {0} /\ Precision <= IntBits
  /\ MinExponent \in Int /\ MaxExponent \in Nat /\ - MinExponent \in Nat
  /\ PowerOfTwo[- MinExponent] \in Nat \ {0}
  /\ PowerOfTwo[IntBits - 1] \in Nat \ {0} /\ MaxInt = PowerOfTwo[IntBits - 1] - 1
  /\ PowerOfTwo[2 * IntBits] \in Nat \ {0} /\ PowerOfTwo[Precision] \in Nat \ {0}
  /\ PowerOfTwo[Precision - 1] \in Nat \ {0}
  /\ PowerOfTwo[Precision] = 2 * PowerOfTwo[Precision - 1]
  /\ PowerOfTwo[Precision] <= PowerOfTwo[IntBits]
  /\ PowerOfTwo[Precision] <= PowerOfTwo[2 * IntBits]
  /\ PowerOfTwo[IntBits] \in Nat \ {0}
  /\ PowerOfTwo[IntBits - 1] < PowerOfTwo[2 * IntBits]
<1>1. /\ IntBits \in Nat \ {0} /\ Precision \in Nat \ {0} /\ Precision <= IntBits
      /\ MinExponent \in Int /\ MaxExponent \in Nat /\ - MinExponent \in Nat
  BY NumericOrderAssumption
<1>2. \A n \in Nat : PowerOfTwo[n] \in Nat \ {0}
  BY PowerOfTwoType
<1>3. /\ IntBits - 1 \in Nat /\ Precision - 1 \in Nat /\ 2 * IntBits \in Nat
      /\ (Precision - 1) + 1 = Precision /\ Precision <= 2 * IntBits /\ IntBits - 1 < 2 * IntBits
  BY <1>1
<1>4. PowerOfTwo[Precision] = 2 * PowerOfTwo[Precision - 1]
  BY <1>3, PowerOfTwoIs
<1>5. 2 * PowerOfTwo[IntBits - 1] <= PowerOfTwo[2 * IntBits]
  BY <1>3, PowersGrow
<1>6. PowerOfTwo[Precision] <= PowerOfTwo[IntBits] /\ PowerOfTwo[Precision] <= PowerOfTwo[2 * IntBits]
  BY <1>1, <1>3, PowersGrow
<1>7. PowerOfTwo[IntBits - 1] < PowerOfTwo[2 * IntBits]
  BY <1>2, <1>3, <1>5
<1>8. QED  BY <1>1, <1>2, <1>3, <1>4, <1>6, <1>7 DEF MaxInt

\* The shapes of floats.
LEMMA FloatFacts ==
  ASSUME NEW f \in Floats
  PROVE  /\ f.class \in {"nan", "infinite", "finite"} /\ f.negative \in BOOLEAN
         /\ f.class # "finite" => f.significand = 0
         /\ f.class = "nan" => f = NaN
         /\ f.class = "infinite" => f = Infinite(f.negative)
         /\ f.class = "finite" =>
              /\ f = Finite(f.negative, f.significand, f.exponent)
              /\ f.significand \in 0 .. PowerOfTwo[Precision] - 1
              /\ f.exponent \in Int /\ MinExponent <= f.exponent /\ f.exponent <= MaxExponent
              /\ f.significand = 0 => f.exponent = MinExponent
              /\ f.exponent # MinExponent => f.significand >= PowerOfTwo[Precision - 1]
<1>1. CASE f = NaN
  BY <1>1 DEF NaN
<1>2. CASE \E n \in BOOLEAN : f = Infinite(n)
  BY <1>2 DEF Infinite
<1>3. CASE \E n \in BOOLEAN : f = Zero(n)
  BY <1>3, NumberFacts, NumericOrderAssumption DEF Zero, Finite
<1>4. CASE \E n \in BOOLEAN, s \in 1 .. PowerOfTwo[Precision - 1] - 1 : f = Finite(n, s, MinExponent)
  BY <1>4, NumberFacts, NumericOrderAssumption DEF Finite
<1>5. CASE \E n \in BOOLEAN, s \in PowerOfTwo[Precision - 1] .. PowerOfTwo[Precision] - 1,
              e \in MinExponent .. MaxExponent : f = Finite(n, s, e)
  BY <1>5, NumberFacts DEF Finite
<1>6. QED  BY <1>1, <1>2, <1>3, <1>4, <1>5 DEF Floats

\* BitLength is the number of bits, for the numbers it is asked of.
LEMMA BitLengthIs ==
  ASSUME NEW n \in Nat, n < PowerOfTwo[2 * IntBits]
  PROVE  /\ BitLength(n) \in Nat /\ PowerOfTwo[BitLength(n)] > n
         /\ BitLength(n) > 0 => PowerOfTwo[BitLength(n) - 1] <= n
<1> DEFINE enough == {k \in 0 .. 2 * IntBits : PowerOfTwo[k] > n}
<1>1. 2 * IntBits \in Nat
  BY NumberFacts
<1>2. 2 * IntBits \in enough
  BY <1>1, PowerOfTwoType
<1>3. PICK k \in enough : \A j \in enough : k <= j
  <2>1. enough \in SUBSET Nat /\ enough # {}
    BY <1>1, <1>2
  <2> HIDE DEF enough
  <2>2. QED  BY <2>1, LeastElement
<1>4. k \in 0 .. 2 * IntBits /\ PowerOfTwo[k] > n
  BY <1>3
<1>5. k > 0 => PowerOfTwo[k - 1] <= n
  <2> SUFFICES ASSUME k > 0 PROVE PowerOfTwo[k - 1] <= n
    OBVIOUS
  <2>1. k - 1 \in 0 .. 2 * IntBits /\ ~(k <= k - 1) /\ k - 1 \in Nat
    BY <1>1, <1>4
  <2>2. ~(PowerOfTwo[k - 1] > n)
    BY <1>3, <2>1
  <2>3. QED  BY <2>1, <2>2, PowerOfTwoType
<1>6. \E j \in 0 .. 2 * IntBits : PowerOfTwo[j] > n /\ (j > 0 => PowerOfTwo[j - 1] <= n)
  BY <1>4, <1>5
<1>7. /\ BitLength(n) \in 0 .. 2 * IntBits /\ PowerOfTwo[BitLength(n)] > n
      /\ BitLength(n) > 0 => PowerOfTwo[BitLength(n) - 1] <= n
  BY <1>6 DEF BitLength
<1>8. QED  BY <1>1, <1>7

\* What the quotient and the remainder say of the dividend.
LEMMA QuotientOrder ==
  ASSUME NEW b \in Nat, NEW s \in Nat, NEW d \in Nat, d > 0
  PROVE  Order(b * d, s) = IF b = s \div d /\ s % d # 0 THEN "Less" ELSE Order(b, s \div d)
<1> DEFINE q == s \div d
           r == s % d
<1> SUFFICES Order(b * d, s) = IF b = q /\ r # 0 THEN "Less" ELSE Order(b, q)
  OBVIOUS
<1>1. q \in Nat /\ r \in Nat /\ r < d /\ s = q * d + r
  OBVIOUS
<1> HIDE DEF q, r
<1>2. b * d \in Int /\ q * d \in Int
  BY <1>1
<1>3. CASE b < q
  <2>1. b * d < q * d
    BY <1>1, <1>3, TimesKeepsOrder
  <2>2. QED  BY <1>1, <1>2, <1>3, <2>1 DEF Order
<1>4. CASE b = q
  BY <1>1, <1>2, <1>4 DEF Order
<1>5. CASE b > q
  <2>1. q + 1 <= b /\ (q + 1) * d = q * d + d
    BY <1>1, <1>5
  <2>2. (q + 1) * d <= b * d
    BY <1>1, <2>1, TimesKeepsOrder
  <2>3. b * d > s
    BY <1>1, <1>2, <2>1, <2>2
  <2>4. QED  BY <1>1, <1>2, <1>5, <2>3 DEF Order
<1>6. QED  BY <1>1, <1>3, <1>4, <1>5

\* The integer part is the quotient, also where it is zero for its exponent.
LEMMA IntegerPartIs ==
  ASSUME NEW f \in Floats, f.class = "finite", f.exponent < 0
  PROVE  /\ - f.exponent \in Nat /\ PowerOfTwo[- f.exponent] \in Nat \ {0}
         /\ IntegerPart(f) = f.significand \div PowerOfTwo[- f.exponent]
         /\ HasFraction(f) <=> f.significand % PowerOfTwo[- f.exponent] # 0
<1>1. /\ f.significand \in Nat /\ f.significand < PowerOfTwo[Precision] /\ f.exponent \in Int
  BY FloatFacts, NumberFacts
<1>2. - f.exponent \in Nat
  BY <1>1
<1>3. PowerOfTwo[- f.exponent] \in Nat \ {0}
  BY <1>2, PowerOfTwoType
<1>4. ASSUME - f.exponent >= IntBits
      PROVE  f.significand \div PowerOfTwo[- f.exponent] = 0
  <2>1. PowerOfTwo[IntBits] <= PowerOfTwo[- f.exponent]
    BY <1>2, <1>4, NumberFacts, PowersGrow
  <2>2. f.significand < PowerOfTwo[- f.exponent]
    BY <1>1, <1>3, <2>1, NumberFacts
  <2>3. \A s, d \in Nat : s < d => s \div d = 0
    OBVIOUS
  <2>4. QED  BY <1>1, <1>3, <2>2, <2>3
<1>5. QED  BY <1>2, <1>3, <1>4 DEF IntegerPart, HasFraction

\* A number with more bits is greater, whatever the bits.
LEMMA LengthOrder ==
  ASSUME NEW b \in Nat, b < PowerOfTwo[2 * IntBits],
         NEW s \in Nat \ {0}, s < PowerOfTwo[2 * IntBits], NEW e \in Nat,
         BitLength(b) # BitLength(s) + e
  PROVE  Order(b, s * PowerOfTwo[e]) = Order(BitLength(b), BitLength(s) + e)
<1> DEFINE k == BitLength(b)
           m == BitLength(s)
           p == PowerOfTwo[e]
<1>1. k \in Nat /\ PowerOfTwo[k] > b /\ (k > 0 => PowerOfTwo[k - 1] <= b)
  BY BitLengthIs
<1>2. m \in Nat /\ PowerOfTwo[m] > s /\ (m > 0 => PowerOfTwo[m - 1] <= s)
  BY BitLengthIs
<1>3. p \in Nat \ {0}
  BY PowerOfTwoType
<1>4. k # m + e
  OBVIOUS
<1> SUFFICES Order(b, s * p) = Order(k, m + e)
  OBVIOUS
<1>5. m > 0
  <2>1. m = 0 => PowerOfTwo[m] = 1
    BY PowerOfTwoIs
  <2> HIDE DEF m
  <2>2. QED  BY <1>2, <2>1
<1>6. /\ PowerOfTwo[m + e] = PowerOfTwo[m] * p
      /\ PowerOfTwo[m + e - 1] = PowerOfTwo[m - 1] * p
      /\ PowerOfTwo[m] \in Nat /\ PowerOfTwo[m - 1] \in Nat /\ m - 1 \in Nat /\ m + e \in Nat
      /\ m + e - 1 \in Nat
  <2> HIDE DEF m, p
  <2>1. m - 1 \in Nat /\ (m - 1) + e = m + e - 1 /\ m + e \in Nat /\ m + e - 1 \in Nat
    BY <1>2, <1>5
  <2>2. PowerOfTwo[m + e] = PowerOfTwo[m] * PowerOfTwo[e]
    BY <1>2, PowerOfSum
  <2>3. PowerOfTwo[(m - 1) + e] = PowerOfTwo[m - 1] * PowerOfTwo[e]
    BY <2>1, PowerOfSum
  <2>4. QED  BY <1>2, <2>1, <2>2, <2>3, PowerOfTwoType DEF p
<1>7. s * p \in Int
  BY <1>3
<1> HIDE DEF k, m, p
<1>8. CASE k < m + e
  <2>1. k <= m + e - 1
    BY <1>1, <1>2, <1>8
  <2>2. PowerOfTwo[k] <= PowerOfTwo[m + e - 1]
    BY <1>1, <1>6, <2>1, PowersGrow
  <2>3. PowerOfTwo[m - 1] * p <= s * p
    BY <1>2, <1>3, <1>5, <1>6, TimesKeepsOrder
  <2>4. b < s * p
    BY <1>1, <1>6, <1>7, <2>2, <2>3, PowerOfTwoType
  <2>5. QED  BY <1>1, <1>2, <1>7, <1>8, <2>4 DEF Order
<1>9. CASE k > m + e
  <2>1. k - 1 \in Nat /\ m + e <= k - 1 /\ k > 0
    BY <1>1, <1>6, <1>9
  <2>2. PowerOfTwo[m + e] <= PowerOfTwo[k - 1]
    BY <1>6, <2>1, PowersGrow
  <2>3. s * p < PowerOfTwo[m] * p
    BY <1>2, <1>3, <1>6, TimesKeepsOrder
  <2>4. s * p < b
    BY <1>1, <1>6, <1>7, <2>1, <2>2, <2>3, PowerOfTwoType
  <2>5. QED  BY <1>1, <1>2, <1>7, <1>9, <2>4 DEF Order
<1>10. QED  BY <1>1, <1>2, <1>4, <1>8, <1>9

\* What integers are counted in, so that all floats are integers.
Unit == PowerOfTwo[- MinExponent]

LEMMA ScaleOf ==
  ASSUME NEW f \in Floats, f.class = "finite"
  PROVE  /\ f.exponent - MinExponent \in Nat /\ PowerOfTwo[f.exponent - MinExponent] \in Nat \ {0}
         /\ f.exponent >= 0 =>
              /\ PowerOfTwo[f.exponent] \in Nat \ {0}
              /\ PowerOfTwo[f.exponent - MinExponent] = PowerOfTwo[f.exponent] * Unit
         /\ f.exponent < 0 =>
              /\ PowerOfTwo[- f.exponent] \in Nat \ {0}
              /\ Unit = PowerOfTwo[- f.exponent] * PowerOfTwo[f.exponent - MinExponent]
<1>1. f.exponent \in Int /\ f.exponent - MinExponent \in Nat /\ - MinExponent \in Nat
  BY FloatFacts, NumberFacts
<1>2. \A n \in Nat : PowerOfTwo[n] \in Nat \ {0}
  BY PowerOfTwoType
<1>3. ASSUME f.exponent >= 0
      PROVE  PowerOfTwo[f.exponent - MinExponent] = PowerOfTwo[f.exponent] * Unit
  <2>1. f.exponent \in Nat /\ f.exponent + (- MinExponent) = f.exponent - MinExponent
    BY <1>1, <1>3, NumberFacts
  <2>2. QED  BY <1>1, <2>1, PowerOfSum DEF Unit
<1>4. ASSUME f.exponent < 0
      PROVE  Unit = PowerOfTwo[- f.exponent] * PowerOfTwo[f.exponent - MinExponent]
  <2>1. - f.exponent \in Nat /\ (- f.exponent) + (f.exponent - MinExponent) = - MinExponent
    BY <1>1, <1>4, NumberFacts
  <2>2. QED  BY <1>1, <2>1, PowerOfSum DEF Unit
<1>5. f.exponent < 0 => - f.exponent \in Nat
  BY <1>1
<1>6. f.exponent >= 0 => f.exponent \in Nat
  BY <1>1
<1>7. QED  BY <1>1, <1>2, <1>3, <1>4, <1>5, <1>6

\* Lengths and quotients compare as the numbers do.
LEMMA PositiveOrder ==
  ASSUME NEW b \in Nat, b <= PowerOfTwo[IntBits - 1],
         NEW f \in Floats, f.class = "finite", f.significand # 0
  PROVE  ComparePositiveIntToPositiveFloat(b, f)
           = Order(b * Unit, f.significand * PowerOfTwo[f.exponent - MinExponent])
<1> DEFINE s == f.significand
<1>1. s \in Nat \ {0} /\ s < PowerOfTwo[2 * IntBits] /\ b < PowerOfTwo[2 * IntBits]
  <2>1. s \in 0 .. PowerOfTwo[Precision] - 1
    BY FloatFacts
  <2> HIDE DEF s
  <2>2. QED  BY <2>1, NumberFacts DEF s
<1>2. Unit \in Nat \ {0} /\ f.exponent \in Int
  BY NumberFacts, FloatFacts DEF Unit
<1>3. \A x, y, z \in Int : x * (y * z) = (x * y) * z
  OBVIOUS
<1>4. CASE f.exponent >= 0
  <2> DEFINE p == PowerOfTwo[f.exponent]
  <2>1. p \in Nat \ {0} /\ PowerOfTwo[f.exponent - MinExponent] = p * Unit /\ f.exponent \in Nat
    BY <1>2, <1>4, ScaleOf
  <2>2. s * PowerOfTwo[f.exponent - MinExponent] = (s * p) * Unit
    <3> HIDE DEF s, p
    <3>1. QED  BY <1>1, <1>2, <1>3, <2>1
  <2>3. s * p \in Int
    <3> HIDE DEF s, p
    <3>1. QED  BY <1>1, <2>1
  <2>4. Order(b * Unit, (s * p) * Unit) = Order(b, s * p)
    <3> DEFINE x == s * p
    <3>1. x \in Int
      BY <2>3
    <3> HIDE DEF x
    <3>2. b \in Int /\ Unit \in Nat /\ Unit > 0
      BY <1>2
    <3>3. Order(b * Unit, x * Unit) = Order(b, x)
      BY <3>1, <3>2, OrderOfProducts, Zenon
    <3>4. QED  BY <3>3 DEF x
  <2>5. BitLength(b) # BitLength(s) + f.exponent =>
          Order(b, s * p) = Order(BitLength(b), BitLength(s) + f.exponent)
    BY <1>1, <2>1, LengthOrder
  <2> HIDE DEF p
  <2>6. ComparePositiveIntToPositiveFloat(b, f) = Order(b, s * p)
    BY <1>4, <2>5 DEF ComparePositiveIntToPositiveFloat, p
  <2>7. QED  BY <2>2, <2>4, <2>6
<1>5. CASE f.exponent < 0
  <2> DEFINE d == PowerOfTwo[- f.exponent]
             w == PowerOfTwo[f.exponent - MinExponent]
  <2>1. d \in Nat \ {0} /\ w \in Nat \ {0} /\ Unit = d * w
    BY <1>5, ScaleOf
  <2>2. IntegerPart(f) = s \div d /\ (HasFraction(f) <=> s % d # 0)
    BY <1>5, IntegerPartIs
  <2> HIDE DEF d, w
  <2>3. b * Unit = (b * d) * w
    BY <1>2, <1>3, <2>1
  <2>4. b * d \in Int
    BY <2>1
  <2>5. Order((b * d) * w, s * w) = Order(b * d, s)
    <3> DEFINE x == b * d
    <3>1. x \in Int
      BY <2>4
    <3> HIDE DEF x, s
    <3>2. s \in Int /\ w \in Nat /\ w > 0
      BY <1>1, <2>1
    <3>3. Order(x * w, s * w) = Order(x, s)
      BY <3>1, <3>2, OrderOfProducts, Zenon
    <3>4. QED  BY <3>3 DEF x
  <2>6. Order(b * d, s) = IF b = s \div d /\ s % d # 0 THEN "Less" ELSE Order(b, s \div d)
    <3> HIDE DEF s
    <3>1. QED  BY <1>1, <2>1, QuotientOrder
  <2>7. ~(f.exponent >= 0)
    BY <1>2, <1>5
  <2>8. ComparePositiveIntToPositiveFloat(b, f) = Order(b * d, s)
    BY <2>2, <2>6, <2>7 DEF ComparePositiveIntToPositiveFloat
  <2>9. QED  BY <2>3, <2>5, <2>8 DEF w
<1>6. QED  BY <1>2, <1>4, <1>5

LEMMA IntsFacts ==
  ASSUME NEW i \in Ints
  PROVE  /\ i \in Int /\ Magnitude(i) \in Nat /\ Magnitude(i) <= PowerOfTwo[IntBits - 1]
         /\ Magnitude(i) < PowerOfTwo[2 * IntBits]
         /\ i < 0 => i = - Magnitude(i)
         /\ i >= 0 => i = Magnitude(i)
BY NumberFacts DEF Ints, Magnitude

\* No integer is as large as what stands for infinity.
LEMMA BeyondIntegers ==
  ASSUME NEW i \in Ints
  PROVE  Beyond \in Nat /\ - Beyond < i * Unit /\ i * Unit < Beyond
<1>1. /\ Precision + MaxExponent - MinExponent + IntBits \in Nat
      /\ IntBits - 1 \in Nat /\ - MinExponent \in Nat /\ (IntBits - 1) + (- MinExponent) \in Nat
      /\ (IntBits - 1) + (- MinExponent) < Precision + MaxExponent - MinExponent + IntBits
  BY NumberFacts
<1>2. 2 * PowerOfTwo[(IntBits - 1) + (- MinExponent)] <= Beyond /\ Beyond \in Nat
  BY <1>1, PowersGrow, PowerOfTwoType DEF Beyond
<1>3. PowerOfTwo[(IntBits - 1) + (- MinExponent)] = PowerOfTwo[IntBits - 1] * Unit
  BY <1>1, PowerOfSum DEF Unit
<1>4. Unit \in Nat /\ Unit > 0 /\ PowerOfTwo[IntBits - 1] \in Nat /\ PowerOfTwo[IntBits - 1] > 0
  BY NumberFacts DEF Unit
<1> DEFINE p == PowerOfTwo[IntBits - 1]
           m == Magnitude(i)
<1>5. m \in Nat /\ m <= p /\ (i = m \/ i = - m)
  BY IntsFacts
<1>6. p \in Nat /\ p > 0 /\ 2 * (p * Unit) <= Beyond
  BY <1>2, <1>3, <1>4
<1> HIDE DEF p, m
<1>7. m * Unit <= p * Unit /\ m * Unit \in Nat /\ p * Unit \in Nat /\ p * Unit > 0
  BY <1>4, <1>5, <1>6, TimesKeepsOrder
<1>8. (- m) * Unit = - (m * Unit)
  BY <1>4, <1>5
<1>9. m * Unit < Beyond
  BY <1>2, <1>6, <1>7
<1>10. i * Unit = m * Unit \/ i * Unit = - (m * Unit)
  BY <1>5, <1>8
<1>11. QED  BY <1>2, <1>7, <1>9, <1>10

\* An integer and a float compare as their numbers.
LEMMA IntFloatOrder ==
  ASSUME NEW i \in Ints, NEW f \in Floats, f.class # "nan"
  PROVE  CompareIntToFloat(i, f) = Order(i * Unit, Place(f)) /\ i * Unit \in Int /\ Place(f) \in Int
<1>1. i \in Int /\ Unit \in Nat /\ Unit > 0 /\ i * Unit \in Int
  BY IntsFacts, NumberFacts DEF Unit
<1>2. CASE f.class = "infinite"
  <2>1. CompareIntToFloat(i, f) = IF f.negative THEN "Greater" ELSE "Less"
    BY <1>2 DEF CompareIntToFloat
  <2>2. Place(f) = IF f.negative THEN - Beyond ELSE Beyond
    BY <1>2 DEF Place
  <2>3. QED  BY <1>1, <2>1, <2>2, BeyondIntegers DEF Order
<1>3. CASE f.class = "finite" /\ f.significand = 0
  <2>1. CompareIntToFloat(i, f) = Order(i, 0)
    BY <1>3 DEF CompareIntToFloat
  <2>2. Place(f) = 0
    <3>1. PowerOfTwo[f.exponent - MinExponent] \in Nat
      BY <1>3, ScaleOf
    <3>2. \A x \in Nat : 1 * 0 * x = 0 /\ (-1) * 0 * x = 0
      OBVIOUS
    <3>3. QED  BY <1>3, <3>1, <3>2 DEF Place, Scaled
  <2>3. Order(i * Unit, 0 * Unit) = Order(i, 0) /\ 0 * Unit = 0
    <3>1. 0 \in Int /\ 0 * Unit = 0
      BY <1>1
    <3>2. Order(i * Unit, 0 * Unit) = Order(i, 0)
      BY <1>1, <3>1, OrderOfProducts, Zenon
    <3>3. QED  BY <3>1, <3>2
  <2>4. QED  BY <1>1, <2>1, <2>2, <2>3
<1>4. CASE f.class = "finite" /\ f.significand # 0
  <2> DEFINE w == f.significand * PowerOfTwo[f.exponent - MinExponent]
             m == Magnitude(i)
  <2>1. w \in Nat /\ w > 0 /\ Place(f) = IF f.negative THEN - w ELSE w
    <3>1. f.significand \in Nat /\ f.significand > 0
      BY <1>4, FloatFacts, NumberFacts
    <3>2. PowerOfTwo[f.exponent - MinExponent] \in Nat /\ PowerOfTwo[f.exponent - MinExponent] > 0
      BY <1>4, ScaleOf
    <3>3. \A x, y \in Nat : /\ x > 0 /\ y > 0 => x * y > 0
                            /\ x * y \in Nat /\ 1 * x * y = x * y /\ (-1) * x * y = - (x * y)
      OBVIOUS
    <3>4. Place(f) = (IF f.negative THEN -1 ELSE 1) * f.significand * PowerOfTwo[f.exponent - MinExponent]
      BY <1>4 DEF Place, Scaled
    <3>5. w \in Nat /\ w > 0
      BY <3>1, <3>2, <3>3
    <3>6. CASE f.negative
      BY <3>1, <3>2, <3>3, <3>4, <3>5, <3>6
    <3>7. CASE ~f.negative
      BY <3>1, <3>2, <3>3, <3>4, <3>5, <3>7
    <3>8. QED  BY <3>6, <3>7
  <2>2. m \in Nat /\ m <= PowerOfTwo[IntBits - 1] /\ (i < 0 => i = - m) /\ (i >= 0 => i = m)
    BY IntsFacts
  <2>3. ComparePositiveIntToPositiveFloat(m, f) = Order(m * Unit, w)
    BY <1>4, <2>2, PositiveOrder
  <2>4. CompareIntToFloat(i, f) =
          IF (i < 0) # f.negative
          THEN IF i < 0 THEN "Less" ELSE "Greater"
          ELSE IF i < 0 THEN Reversed(Order(m * Unit, w)) ELSE Order(m * Unit, w)
    BY <1>4, <2>3 DEF CompareIntToFloat
  <2> HIDE DEF w, m
  <2>5. m * Unit \in Nat /\ (- m) * Unit = - (m * Unit) /\ (m > 0 => m * Unit > 0)
    BY <1>1, <2>2
  <2>6. f.negative \in BOOLEAN
    BY FloatFacts
  <2>7. CASE i < 0
    <3>1. i * Unit = - (m * Unit) /\ m * Unit > 0
      <4>1. m > 0 /\ i = - m
        BY <1>1, <2>2, <2>7
      <4>2. QED  BY <2>5, <4>1
    <3>2. CASE f.negative
      <4>1. CompareIntToFloat(i, f) = Reversed(Order(m * Unit, w)) /\ Place(f) = - w
        BY <2>1, <2>4, <2>7, <3>2
      <4>2. \A x, y \in Int : Reversed(Order(x, y)) = Order(- x, - y)
        BY DEF Reversed, Order
      <4>3. QED  BY <2>1, <2>5, <3>1, <4>1, <4>2
    <3>3. CASE ~f.negative
      <4>1. CompareIntToFloat(i, f) = "Less" /\ Place(f) = w
        BY <2>1, <2>4, <2>6, <2>7, <3>3
      <4>2. QED  BY <2>1, <2>5, <3>1, <4>1 DEF Order
    <3>4. QED  BY <3>2, <3>3
  <2>8. CASE ~(i < 0)
    <3>1. i * Unit = m * Unit
      BY <1>1, <2>2, <2>8
    <3>2. CASE f.negative
      <4>1. CompareIntToFloat(i, f) = "Greater" /\ Place(f) = - w
        BY <2>1, <2>4, <2>6, <2>8, <3>2
      <4>2. QED  BY <2>1, <2>5, <3>1, <4>1 DEF Order
    <3>3. CASE ~f.negative
      <4>1. CompareIntToFloat(i, f) = Order(m * Unit, w) /\ Place(f) = w
        BY <2>1, <2>4, <2>6, <2>8, <3>3
      <4>2. QED  BY <2>1, <2>5, <3>1, <4>1
    <3>4. QED  BY <3>2, <3>3
  <2>9. QED  BY <2>7, <2>8
<1>5. QED  BY <1>2, <1>3, <1>4, FloatFacts

LEMMA OrderReversed == \A x, y \in Int : Reversed(Order(x, y)) = Order(y, x)
BY DEF Reversed, Order

LEMMA ValueFacts ==
  ASSUME NEW v \in Values
  PROVE  \/ IsInt(v) /\ ~IsFloat(v) /\ v.type # "String" /\ v.int \in Ints
         \/ IsFloat(v) /\ ~IsInt(v) /\ v.type # "String" /\ v.float \in Floats
         \/ v.type = "String" /\ ~IsInt(v) /\ ~IsFloat(v) /\ v.rank \in Nat
BY DEF Values, IsInt, IsFloat

LEMMA PlaceType == \A f \in Floats : f.class # "nan" => Place(f) \in Int
<1>1. 0 \in Ints
  BY NumberFacts DEF Ints
<1>2. QED  BY <1>1, IntFloatOrder

LEMMA NumberType ==
  ASSUME NEW v \in Values, IsNumber(v)
  PROVE  NumberOf(v) \in Int
<1>1. CASE IsInt(v)
  <2>1. v.int \in Ints
    BY <1>1, ValueFacts
  <2>2. v.int \in Int /\ Unit \in Int
    BY <2>1, IntsFacts, NumberFacts DEF Unit
  <2>3. NumberOf(v) = v.int * Unit
    BY <1>1 DEF NumberOf, Unit
  <2>4. QED  BY <2>2, <2>3
<1>2. CASE IsFloat(v)
  <2>1. v.float \in Floats /\ v.float.class # "nan" /\ NumberOf(v) = Place(v.float)
    BY <1>2, ValueFacts DEF IsNumber, IsNaN, NumberOf
  <2>2. QED  BY <2>1, PlaceType
<1>3. QED  BY <1>1, <1>2 DEF IsNumber

LEMMA ExactOrderOfNumbers ==
  ASSUME NEW a, NEW b, IsNumber(a), IsNumber(b)
  PROVE  ExactOrder(a, b) = Order(NumberOf(a), NumberOf(b))
<1>1. a.type # "String"
  BY DEF IsNumber, IsInt, IsFloat
<1>2. QED  BY <1>1 DEF ExactOrder

LEMMA NoExactOrder ==
  ASSUME NEW a, NEW b, ~IsNumber(a) \/ ~IsNumber(b), a.type # "String" \/ b.type # "String"
  PROVE  ExactOrder(a, b) = "None"
BY DEF ExactOrder

\* Values compare as the numbers they stand for, whatever their types.
LEMMA ComparedByValue ==
  ASSUME NEW a \in Values, NEW b \in Values
  PROVE  CompareValues(a, b) = ExactOrder(a, b)
<1>1. CASE IsInt(a) /\ IsInt(b)
  <2>1. a.int \in Ints /\ b.int \in Ints /\ ~IsFloat(a) /\ ~IsFloat(b) /\ a.type # "String"
    BY <1>1, ValueFacts
  <2>2. a.int \in Int /\ b.int \in Int /\ Unit \in Nat /\ Unit > 0
    BY <2>1, IntsFacts, NumberFacts DEF Unit
  <2>3. CompareValues(a, b) = Order(a.int, b.int)
    BY <1>1, <2>1 DEF CompareValues
  <2>4. ExactOrder(a, b) = Order(a.int * Unit, b.int * Unit)
    <3>1. IsNumber(a) /\ IsNumber(b)
      BY <1>1, <2>1 DEF IsNumber, IsNaN
    <3>2. NumberOf(a) = a.int * Unit /\ NumberOf(b) = b.int * Unit
      BY <1>1 DEF NumberOf, Unit
    <3>3. ExactOrder(a, b) = Order(NumberOf(a), NumberOf(b))
      BY <3>1, ExactOrderOfNumbers
    <3>4. QED  BY <3>2, <3>3
  <2>5. Order(a.int * Unit, b.int * Unit) = Order(a.int, b.int)
    BY <2>2, OrderOfProducts, Zenon
  <2>6. QED  BY <2>3, <2>4, <2>5
<1>2. CASE IsInt(a) /\ IsFloat(b)
  <2>1. a.int \in Ints /\ b.float \in Floats /\ ~IsFloat(a) /\ ~IsInt(b) /\ a.type # "String"
    BY <1>2, ValueFacts
  <2>2. CompareValues(a, b) = CompareIntToFloat(a.int, b.float)
    BY <1>2, <2>1 DEF CompareValues
  <2>3. CASE b.float.class = "nan"
    <3>1. ExactOrder(a, b) = "None"
      BY <1>2, <2>1, <2>3, NoExactOrder DEF IsNumber, IsNaN
    <3>2. CompareIntToFloat(a.int, b.float) = "None"
      BY <2>3 DEF CompareIntToFloat
    <3>3. QED  BY <2>2, <3>1, <3>2
  <2>4. CASE b.float.class # "nan"
    <3>1. IsNumber(a) /\ IsNumber(b) /\ NumberOf(a) = a.int * Unit /\ NumberOf(b) = Place(b.float)
      BY <1>2, <2>1, <2>4 DEF IsNumber, IsNaN, NumberOf, Unit
    <3>2. ExactOrder(a, b) = Order(NumberOf(a), NumberOf(b))
      BY <3>1, ExactOrderOfNumbers
    <3>3. QED  BY <2>1, <2>2, <2>4, <3>1, <3>2, IntFloatOrder
  <2>5. QED  BY <2>3, <2>4
<1>3. CASE IsFloat(a) /\ IsInt(b)
  <2>1. b.int \in Ints /\ a.float \in Floats /\ ~IsFloat(b) /\ ~IsInt(a) /\ a.type # "String"
    BY <1>3, ValueFacts
  <2>2. CompareValues(a, b) = Reversed(CompareIntToFloat(b.int, a.float))
    BY <1>3, <2>1 DEF CompareValues
  <2>3. CASE a.float.class = "nan"
    <3>1. ExactOrder(a, b) = "None"
      BY <1>3, <2>1, <2>3, NoExactOrder DEF IsNumber, IsNaN
    <3>2. CompareIntToFloat(b.int, a.float) = "None" /\ Reversed("None") = "None"
      BY <2>3 DEF CompareIntToFloat, Reversed
    <3>3. QED  BY <2>2, <3>1, <3>2
  <2>4. CASE a.float.class # "nan"
    <3>1. IsNumber(a) /\ IsNumber(b) /\ NumberOf(b) = b.int * Unit /\ NumberOf(a) = Place(a.float)
      BY <1>3, <2>1, <2>4 DEF IsNumber, IsNaN, NumberOf, Unit
    <3>2. ExactOrder(a, b) = Order(NumberOf(a), NumberOf(b))
      BY <3>1, ExactOrderOfNumbers
    <3>3. CompareIntToFloat(b.int, a.float) = Order(NumberOf(b), NumberOf(a))
      BY <2>1, <2>4, <3>1, IntFloatOrder
    <3>4. NumberOf(a) \in Int /\ NumberOf(b) \in Int
      BY <3>1, NumberType
    <3>5. QED  BY <2>2, <3>2, <3>3, <3>4, OrderReversed
  <2>5. QED  BY <2>3, <2>4
<1>4. CASE IsFloat(a) /\ IsFloat(b)
  <2>1. ~IsInt(a) /\ ~IsInt(b) /\ a.type # "String"
    BY <1>4, ValueFacts
  <2>2. CompareValues(a, b) = CompareFloats(a.float, b.float)
    BY <1>4, <2>1 DEF CompareValues
  <2>3. CASE "nan" \in {a.float.class, b.float.class}
    <3>1. ExactOrder(a, b) = "None"
      BY <1>4, <2>1, <2>3 DEF ExactOrder, IsNumber, IsNaN
    <3>2. QED  BY <2>2, <2>3, <3>1 DEF CompareFloats
  <2>4. CASE "nan" \notin {a.float.class, b.float.class}
    <3>1. ExactOrder(a, b) = Order(Place(a.float), Place(b.float))
      BY <1>4, <2>1, <2>4 DEF ExactOrder, IsNumber, IsNaN, NumberOf
    <3>2. QED  BY <2>2, <2>4, <3>1 DEF CompareFloats
  <2>5. QED  BY <2>3, <2>4
<1>5. CASE a.type = "String" /\ b.type = "String"
  BY <1>5, ValueFacts DEF CompareValues, ExactOrder, IsNumber
<1>6. CASE \/ a.type = "String" /\ b.type # "String"
           \/ b.type = "String" /\ a.type # "String"
  BY <1>6, ValueFacts DEF CompareValues, ExactOrder, IsNumber
<1>7. QED  BY <1>1, <1>2, <1>3, <1>4, <1>5, <1>6, ValueFacts

(* Comparison is an order, across types and for every width: swapping the  *)
(* operands reverses the result, also a failure, and if a is not after b   *)
(* and b not after c, a is not after c, and before it unless all three are *)
(* equal (compare_values).                                                 *)
THEOREM ComparisonIsAnOrder ==
  /\ \A a, b \in Values : CompareValues(b, a) = Reversed(CompareValues(a, b))
  /\ \A a, b, c \in Values :
       CompareValues(a, b) \in {"Less", "Equal"} /\ CompareValues(b, c) \in {"Less", "Equal"} =>
         CompareValues(a, c) =
           IF CompareValues(a, b) = "Equal" /\ CompareValues(b, c) = "Equal" THEN "Equal" ELSE "Less"
<1> DEFINE numbers(a, b) == IsNumber(a) /\ IsNumber(b)
           texts(a, b) == a.type = "String" /\ b.type = "String"
<1>1. ASSUME NEW a \in Values, NEW b \in Values
      PROVE  /\ numbers(a, b) =>
                  /\ NumberOf(a) \in Int /\ NumberOf(b) \in Int
                  /\ CompareValues(a, b) = Order(NumberOf(a), NumberOf(b))
             /\ texts(a, b) =>
                  /\ a.rank \in Int /\ b.rank \in Int
                  /\ CompareValues(a, b) = Order(a.rank, b.rank)
             /\ ~numbers(a, b) /\ ~texts(a, b) => CompareValues(a, b) = "None"
  <2>1. CompareValues(a, b) = ExactOrder(a, b)
    BY ComparedByValue
  <2>2. CASE numbers(a, b)
    <3>1. ~texts(a, b)
      BY <2>2 DEF IsNumber, IsInt, IsFloat
    <3>2. QED  BY <2>1, <2>2, <3>1, NumberType, ExactOrderOfNumbers
  <2>3. CASE texts(a, b)
    <3>1. ~numbers(a, b)
      BY <2>3 DEF IsNumber, IsInt, IsFloat
    <3>2. a.rank \in Nat /\ b.rank \in Nat
      BY <2>3 DEF Values
    <3>3. ExactOrder(a, b) = Order(a.rank, b.rank)
      BY <2>3, <3>1 DEF ExactOrder
    <3>4. QED  BY <2>1, <2>3, <3>1, <3>2, <3>3
  <2>4. CASE ~numbers(a, b) /\ ~texts(a, b)
    BY <2>1, <2>4 DEF ExactOrder
  <2>5. QED  BY <2>2, <2>3, <2>4
<1>2. \A a \in Values : ~(IsNumber(a) /\ a.type = "String")
  BY DEF IsNumber, IsInt, IsFloat
<1>3. \A x, y \in Int : Order(y, x) = Reversed(Order(x, y))
  BY OrderReversed
<1>4. \A x, y, z \in Int :
        Order(x, y) \in {"Less", "Equal"} /\ Order(y, z) \in {"Less", "Equal"} =>
          Order(x, z) = IF Order(x, y) = "Equal" /\ Order(y, z) = "Equal" THEN "Equal" ELSE "Less"
  BY DEF Order
<1>5. Reversed("None") = "None"
  BY DEF Reversed
<1>6. ASSUME NEW a \in Values, NEW b \in Values
      PROVE  CompareValues(b, a) = Reversed(CompareValues(a, b))
  <2>1. CASE numbers(a, b)
    <3>1. numbers(b, a)
      BY <2>1
    <3>2. QED  BY <1>1, <1>3, <2>1, <3>1
  <2>2. CASE texts(a, b)
    <3>1. texts(b, a)
      BY <2>2
    <3>2. QED  BY <1>1, <1>3, <2>2, <3>1
  <2>3. CASE ~numbers(a, b) /\ ~texts(a, b)
    <3>1. ~numbers(b, a) /\ ~texts(b, a)
      BY <2>3
    <3>2. QED  BY <1>1, <1>5, <2>3, <3>1
  <2>4. QED  BY <2>1, <2>2, <2>3
<1>7. ASSUME NEW a \in Values, NEW b \in Values, NEW c \in Values,
             CompareValues(a, b) \in {"Less", "Equal"}, CompareValues(b, c) \in {"Less", "Equal"}
      PROVE  CompareValues(a, c) =
               IF CompareValues(a, b) = "Equal" /\ CompareValues(b, c) = "Equal" THEN "Equal" ELSE "Less"
  <2>1. CASE numbers(a, b)
    <3>1. numbers(b, c) /\ numbers(a, c)
      <4>1. CompareValues(b, c) # "None" /\ ~texts(b, c)
        BY <1>2, <1>7, <2>1
      <4>2. numbers(b, c)
        BY <1>1, <4>1
      <4>3. QED  BY <2>1, <4>2
    <3>2. QED  BY <1>1, <1>4, <1>7, <2>1, <3>1
  <2>2. CASE texts(a, b)
    <3>1. texts(b, c) /\ texts(a, c)
      <4>1. CompareValues(b, c) # "None" /\ ~numbers(b, c)
        BY <1>2, <1>7, <2>2
      <4>2. texts(b, c)
        BY <1>1, <4>1
      <4>3. QED  BY <2>2, <4>2
    <3>2. QED  BY <1>1, <1>4, <1>7, <2>2, <3>1
  <2>3. CASE ~numbers(a, b) /\ ~texts(a, b)
    <3>1. CompareValues(a, b) = "None"
      BY <1>1, <2>3
    <3>2. QED  BY <1>7, <3>1
  <2>4. QED  BY <2>1, <2>2, <2>3
<1>8. QED  BY <1>6, <1>7, Zenon

-----------------------------------------------------------------------------
(* The keys under which joins hash values.                                 *)

LEMMA OrderIs ==
  /\ \A x, y \in Int : Order(x, y) = "Equal" <=> x = y
  /\ \A order \in {"Less", "Equal", "Greater"} : Reversed(order) = "Equal" <=> order = "Equal"
  /\ \A x, y \in Int : Order(x, y) \in {"Less", "Equal", "Greater"}
<1>1. \A x, y \in Int : Order(x, y) = "Equal" <=> x = y
  BY DEF Order
<1>2. ASSUME NEW order \in {"Less", "Equal", "Greater"}
      PROVE  Reversed(order) = "Equal" <=> order = "Equal"
  BY DEF Reversed
<1>3. ASSUME NEW x \in Int, NEW y \in Int
      PROVE  Order(x, y) \in {"Less", "Equal", "Greater"}
  <2>1. CASE x < y
    BY <2>1 DEF Order
  <2>2. CASE x = y
    BY <2>2 DEF Order
  <2>3. CASE x > y
    BY <2>3 DEF Order
  <2>4. QED  BY <2>1, <2>2, <2>3
<1>4. QED  BY <1>1, <1>2, <1>3

\* Only a float with no fraction, whose integer part it is, equals a positive integer.
LEMMA PositiveEqual ==
  ASSUME NEW m \in Nat, m > 0, m < PowerOfTwo[2 * IntBits],
         NEW f \in Floats, f.class = "finite", f.significand # 0,
         ComparePositiveIntToPositiveFloat(m, f) = "Equal"
  PROVE  /\ f.exponent >= 0 => m = f.significand * PowerOfTwo[f.exponent]
         /\ f.exponent < 0 => m = IntegerPart(f) /\ ~HasFraction(f)
<1>1. f.significand \in Nat /\ f.significand < PowerOfTwo[2 * IntBits] /\ f.exponent \in Int
  <2>1. f.significand \in 0 .. PowerOfTwo[Precision] - 1 /\ f.exponent \in Int
    BY FloatFacts
  <2>2. QED  BY <2>1, NumberFacts
<1>2. CASE f.exponent >= 0
  <2> DEFINE total == BitLength(f.significand) + f.exponent
             value == f.significand * PowerOfTwo[f.exponent]
  <2>1. value \in Int
    <3>1. PowerOfTwo[f.exponent] \in Nat
      BY <1>2, ScaleOf
    <3>2. \A x, y \in Nat : x * y \in Int
      OBVIOUS
    <3>3. QED  BY <1>1, <3>1, <3>2
  <2>2. BitLength(m) \in Int /\ total \in Int
    BY <1>1, BitLengthIs
  <2>3. ComparePositiveIntToPositiveFloat(m, f) =
          IF BitLength(m) # total THEN Order(BitLength(m), total) ELSE Order(m, value)
    BY <1>2 DEF ComparePositiveIntToPositiveFloat
  <2> HIDE DEF total, value
  <2>4. BitLength(m) = total
    BY <2>2, <2>3, OrderIs
  <2>5. Order(m, value) = "Equal"
    BY <2>3, <2>4
  <2>6. m = value
    BY <2>1, <2>5, OrderIs
  <2>7. QED  BY <1>1, <1>2, <2>6 DEF value
<1>3. CASE f.exponent < 0
  <2>1. IntegerPart(f) \in Int
    <3>1. /\ PowerOfTwo[- f.exponent] \in Nat \ {0}
          /\ IntegerPart(f) = f.significand \div PowerOfTwo[- f.exponent]
      BY <1>3, IntegerPartIs
    <3>2. \A x \in Nat, y \in Nat \ {0} : x \div y \in Int
      OBVIOUS
    <3>3. QED  BY <1>1, <3>1, <3>2
  <2>2. ComparePositiveIntToPositiveFloat(m, f) =
          IF m = IntegerPart(f) /\ HasFraction(f) THEN "Less" ELSE Order(m, IntegerPart(f))
    BY <1>1, <1>3 DEF ComparePositiveIntToPositiveFloat
  <2>3. ~(m = IntegerPart(f) /\ HasFraction(f)) /\ Order(m, IntegerPart(f)) = "Equal"
    BY <2>2
  <2>4. m = IntegerPart(f)
    BY <2>1, <2>3, OrderIs
  <2>5. QED  BY <1>1, <1>3, <2>3, <2>4
<1>4. QED  BY <1>1, <1>2, <1>3

\* The magnitude with the sign is the integer.
LEMMA SignedIs ==
  ASSUME NEW i \in Ints
  PROVE  /\ i < 0 => SignedFromMagnitude(Magnitude(i), TRUE) = i
         /\ i >= 0 => SignedFromMagnitude(Magnitude(i), FALSE) = i
         /\ i # NoInteger
BY NumberFacts DEF Ints, Magnitude, SignedFromMagnitude, NoInteger

\* The float that equals an integer is hashed as that integer.
LEMMA EqualIntegral ==
  ASSUME NEW i \in Ints, NEW f \in Floats, CompareIntToFloat(i, f) = "Equal"
  PROVE  ExactIntegral(f) = i
<1>1. i \in Int
  BY IntsFacts
<1>2. f.class = "finite"
  BY FloatFacts DEF CompareIntToFloat
<1>3. CASE f.significand = 0
  <2>1. Order(i, 0) = "Equal"
    BY <1>2, <1>3 DEF CompareIntToFloat
  <2>2. i = 0
    BY <1>1, <2>1, OrderIs
  <2>3. QED  BY <1>2, <1>3, <2>2 DEF ExactIntegral
<1>4. CASE f.significand # 0
  <2> DEFINE m == Magnitude(i)
  <2>1. m \in Nat /\ m <= PowerOfTwo[IntBits - 1] /\ m < PowerOfTwo[2 * IntBits]
    BY IntsFacts
  <2>2. f.negative \in BOOLEAN /\ f.exponent \in Int /\ f.significand \in Nat
    BY <1>2, FloatFacts, NumberFacts
  <2>3. (i < 0 <=> f.negative) /\ ComparePositiveIntToPositiveFloat(m, f) = "Equal"
    <3>1. CompareIntToFloat(i, f) =
            IF (i < 0) # f.negative
            THEN IF i < 0 THEN "Less" ELSE "Greater"
            ELSE IF i < 0 THEN Reversed(ComparePositiveIntToPositiveFloat(m, f))
                 ELSE ComparePositiveIntToPositiveFloat(m, f)
      BY <1>2, <1>4 DEF CompareIntToFloat
    <3>2. ComparePositiveIntToPositiveFloat(m, f) \in {"Less", "Equal", "Greater"}
      <4>1. ComparePositiveIntToPositiveFloat(m, f)
              = Order(m * Unit, f.significand * PowerOfTwo[f.exponent - MinExponent])
        BY <1>2, <1>4, <2>1, PositiveOrder
      <4>2. Unit \in Nat /\ PowerOfTwo[f.exponent - MinExponent] \in Nat
        BY <1>2, NumberFacts, ScaleOf DEF Unit
      <4>3. \A x, y \in Nat : x * y \in Int
        OBVIOUS
      <4>4. QED  BY <2>1, <2>2, <4>1, <4>2, <4>3, OrderIs
    <3> HIDE DEF m
    <3>3. QED  BY <2>2, <3>1, <3>2, OrderIs
  <2>4. m > 0
    <3>1. SUFFICES ASSUME m = 0 PROVE FALSE
      BY <2>1
    <3>2. ComparePositiveIntToPositiveFloat(m, f)
            = Order(m * Unit, f.significand * PowerOfTwo[f.exponent - MinExponent])
      BY <1>2, <1>4, <2>1, PositiveOrder
    <3>3. Unit \in Nat /\ PowerOfTwo[f.exponent - MinExponent] \in Nat \ {0}
      BY <1>2, NumberFacts, ScaleOf DEF Unit
    <3>4. \A x, y \in Nat \ {0} : x * y \in Nat /\ x * y > 0
      OBVIOUS
    <3>5. m * Unit = 0
      BY <3>1, <3>3
    <3> DEFINE w == f.significand * PowerOfTwo[f.exponent - MinExponent]
    <3>6. 0 # w /\ w \in Int
      BY <1>4, <2>2, <3>3, <3>4
    <3>7. 0 \in Int /\ Order(0, w) = "Equal"
      BY <2>3, <3>2, <3>5
    <3> HIDE DEF w
    <3>8. QED  BY <3>6, <3>7, OrderIs
  <2>5. /\ f.exponent >= 0 => m = f.significand * PowerOfTwo[f.exponent]
        /\ f.exponent < 0 => m = IntegerPart(f) /\ ~HasFraction(f)
    BY <1>2, <1>4, <2>1, <2>3, <2>4, PositiveEqual
  <2>6. SignedFromMagnitude(m, f.negative) = i
    <3>1. f.negative = TRUE \/ f.negative = FALSE
      BY <2>2
    <3>2. CASE i < 0
      BY <2>3, <3>1, <3>2, SignedIs
    <3>3. CASE i >= 0
      BY <1>1, <2>3, <3>1, <3>3, SignedIs
    <3>4. QED  BY <1>1, <3>2, <3>3
  <2> HIDE DEF m
  <2>7. CASE f.exponent >= 0
    <3>1. f.exponent < 2 * IntBits
      <4>1. SUFFICES ASSUME f.exponent >= 2 * IntBits PROVE FALSE
        BY <2>2, NumberFacts
      <4>2. PowerOfTwo[2 * IntBits] <= PowerOfTwo[f.exponent]
        BY <2>2, <4>1, NumberFacts, PowersGrow
      <4>3. PowerOfTwo[f.exponent] \in Nat
        BY <1>2, <2>7, ScaleOf
      <4>4. \A x, y \in Nat : x > 0 => y <= x * y
        OBVIOUS
      <4>5. PowerOfTwo[f.exponent] <= m
        BY <1>4, <2>2, <2>5, <2>7, <4>3, <4>4
      <4>6. QED  BY <2>1, <4>2, <4>3, <4>5, NumberFacts
    <3>2. m % PowerOfTwo[2 * IntBits] = m
      <4>1. \A x \in Nat, y \in Nat \ {0} : x < y => x % y = x
        OBVIOUS
      <4>2. QED  BY <2>1, <4>1, NumberFacts
    <3>3. ~(f.exponent >= 2 * IntBits) /\ ~(f.exponent < 0)
      BY <2>2, <2>7, <3>1, NumberFacts
    <3>4. ExactIntegral(f) = SignedFromMagnitude(m % PowerOfTwo[2 * IntBits], f.negative)
      BY <1>2, <1>4, <2>5, <2>7, <3>3 DEF ExactIntegral
    <3>5. QED  BY <2>6, <3>2, <3>4
  <2>8. CASE f.exponent < 0
    <3>1. ~(- f.exponent >= IntBits)
      BY <2>4, <2>5, <2>8 DEF IntegerPart
    <3>2. ~(f.exponent >= 0)
      BY <2>2, <2>8
    <3>3. ExactIntegral(f) = IF - f.exponent >= IntBits \/ HasFraction(f) THEN NoInteger
                             ELSE SignedFromMagnitude(IntegerPart(f), f.negative)
      BY <1>2, <1>4, <2>8, <3>2 DEF ExactIntegral
    <3>4. ExactIntegral(f) = SignedFromMagnitude(m, f.negative)
      BY <2>5, <2>8, <3>1, <3>3
    <3>5. QED  BY <2>6, <3>4
  <2>9. QED  BY <2>2, <2>7, <2>8
<1>5. QED  BY <1>3, <1>4

\* A finite float with a significand: its distance from zero, below that of infinity.
LEMMA FiniteDistance ==
  ASSUME NEW f \in Floats, f.class = "finite", f.significand # 0
  PROVE  LET w == f.significand * PowerOfTwo[f.exponent - MinExponent]
         IN  w \in Nat /\ w > 0 /\ w < Beyond /\ Place(f) = IF f.negative THEN - w ELSE w
<1> DEFINE p == PowerOfTwo[f.exponent - MinExponent]
           w == f.significand * p
           top == PowerOfTwo[MaxExponent - MinExponent]
<1>1. /\ f.significand \in Nat /\ f.significand > 0 /\ f.significand < PowerOfTwo[Precision]
      /\ f.exponent \in Int /\ f.exponent <= MaxExponent /\ f.negative \in BOOLEAN
  <2>1. f.significand \in 0 .. PowerOfTwo[Precision] - 1 /\ f.negative \in BOOLEAN
    BY FloatFacts
  <2>2. QED  BY <2>1, FloatFacts, NumberFacts
<1>2. p \in Nat /\ p > 0
  BY ScaleOf
<1>3. p <= top /\ top \in Nat
  <2>1. /\ f.exponent - MinExponent \in Nat /\ MaxExponent - MinExponent \in Nat
        /\ f.exponent - MinExponent <= MaxExponent - MinExponent
    BY <1>1, NumberFacts, ScaleOf
  <2>2. QED  BY <2>1, PowersGrow, PowerOfTwoType
<1>4. PowerOfTwo[Precision] * top <= Beyond /\ PowerOfTwo[Precision] * top \in Nat /\ Beyond \in Nat
  <2>1. /\ Precision \in Nat /\ MaxExponent - MinExponent \in Nat
        /\ Precision + (MaxExponent - MinExponent) \in Nat
        /\ Precision + MaxExponent - MinExponent + IntBits \in Nat
        /\ Precision + (MaxExponent - MinExponent) <= Precision + MaxExponent - MinExponent + IntBits
    BY NumberFacts
  <2>2. PowerOfTwo[Precision + (MaxExponent - MinExponent)] = PowerOfTwo[Precision] * top
    BY <2>1, PowerOfSum
  <2>3. PowerOfTwo[Precision + (MaxExponent - MinExponent)] <= Beyond
    BY <2>1, PowersGrow DEF Beyond
  <2>4. Beyond \in Nat /\ PowerOfTwo[Precision + (MaxExponent - MinExponent)] \in Nat
    BY <2>1, PowerOfTwoType DEF Beyond
  <2>5. QED  BY <2>2, <2>3, <2>4
<1>5. Place(f) = (IF f.negative THEN -1 ELSE 1) * f.significand * p
  BY DEF Place, Scaled
<1> HIDE DEF p, top
<1>6. \A x, y, z, u \in Nat : x < z /\ y > 0 /\ y <= u => x * y < z * u
  <2> SUFFICES ASSUME NEW x \in Nat, NEW y \in Nat, NEW z \in Nat, NEW u \in Nat,
                      x < z, y > 0, y <= u
               PROVE  x * y < z * u
    OBVIOUS
  <2>1. x * y < z * y
    BY TimesKeepsOrder
  <2>2. y * z <= u * z
    <3>1. y = u \/ y < u
      OBVIOUS
    <3>2. z \in Nat /\ z > 0
      OBVIOUS
    <3>3. y < u => y * z < u * z
      BY <3>2, TimesKeepsOrder
    <3>4. y * z \in Int /\ u * z \in Int
      OBVIOUS
    <3>5. QED  BY <3>1, <3>3, <3>4
  <2>3. x * y \in Int /\ z * y \in Int /\ z * u \in Int /\ y * z = z * y /\ u * z = z * u
    OBVIOUS
  <2>4. QED  BY <2>1, <2>2, <2>3
<1>7. f.significand * p < PowerOfTwo[Precision] * top
  BY <1>1, <1>2, <1>3, <1>6, NumberFacts
<1>8. \A x, y \in Nat : /\ x > 0 /\ y > 0 => x * y > 0
                        /\ x * y \in Nat /\ 1 * x * y = x * y /\ (-1) * x * y = - (x * y)
  OBVIOUS
<1>9. w \in Nat /\ w > 0 /\ w < Beyond
  BY <1>1, <1>2, <1>4, <1>7, <1>8
<1>10. Place(f) = IF f.negative THEN - w ELSE w
  <2>1. CASE f.negative
    BY <1>1, <1>2, <1>5, <1>8, <2>1
  <2>2. CASE ~f.negative
    BY <1>1, <1>2, <1>5, <1>8, <2>2
  <2>3. QED  BY <2>1, <2>2
<1>11. QED  BY <1>9, <1>10 DEF p

\* A significand and an exponent are one float's only: the exponent of a normal float is
\* the least that leaves its significand in range.
LEMMA OneExponent ==
  ASSUME NEW f \in Floats, f.class = "finite", f.significand # 0,
         NEW g \in Floats, g.class = "finite", g.significand # 0,
         f.significand * PowerOfTwo[f.exponent - MinExponent]
           = g.significand * PowerOfTwo[g.exponent - MinExponent]
  PROVE  ~(f.exponent < g.exponent)
<1> DEFINE p == PowerOfTwo[f.exponent - MinExponent]
           q == PowerOfTwo[g.exponent - MinExponent]
           r == PowerOfTwo[g.exponent - f.exponent]
           half == PowerOfTwo[Precision - 1]
<1> SUFFICES ASSUME f.exponent < g.exponent PROVE FALSE
  OBVIOUS
<1>1. /\ f.significand \in Nat /\ f.significand < 2 * half /\ half \in Nat \ {0}
      /\ g.significand \in Nat /\ g.significand >= half
      /\ f.exponent \in Int /\ g.exponent \in Int /\ MinExponent <= f.exponent
  <2>1. f.significand \in 0 .. PowerOfTwo[Precision] - 1 /\ g.significand \in 0 .. PowerOfTwo[Precision] - 1
    BY FloatFacts
  <2>2. f.exponent \in Int /\ g.exponent \in Int /\ MinExponent <= f.exponent
    BY FloatFacts
  <2>3. g.exponent # MinExponent
    BY <2>2, NumberFacts
  <2>4. g.significand >= half
    BY <2>3, FloatFacts
  <2>5. QED  BY <2>1, <2>2, <2>4, NumberFacts
<1>2. p \in Nat /\ p > 0
  BY ScaleOf
<1>3. q = p * r /\ r >= 2 /\ r \in Nat
  <2>1. /\ f.exponent - MinExponent \in Nat /\ g.exponent - f.exponent \in Nat
        /\ (f.exponent - MinExponent) + (g.exponent - f.exponent) = g.exponent - MinExponent
        /\ 0 < g.exponent - f.exponent /\ 0 \in Nat
    BY <1>1, ScaleOf, NumberFacts
  <2>2. q = p * r
    BY <2>1, PowerOfSum
  <2>3. 2 * PowerOfTwo[0] <= r /\ r \in Nat
    BY <2>1, PowersGrow, PowerOfTwoType
  <2>4. QED  BY <2>2, <2>3, PowerOfTwoIs
<1> DEFINE s == f.significand
           t == g.significand
<1>4. s * p = t * (p * r) /\ s \in Nat /\ t \in Nat /\ s < 2 * half /\ t >= half
  BY <1>1, <1>3
<1> HIDE DEF p, q, r, half, s, t
<1>5. s * p = (t * r) * p /\ t * r \in Int
  <2>1. \A x, y, z \in Nat : x * (y * z) = (x * z) * y /\ x * z \in Int
    OBVIOUS
  <2>2. QED  BY <1>2, <1>3, <1>4, <2>1
<1>6. s = t * r
  BY <1>2, <1>4, <1>5, TimesKeepsOrder
<1>7. t * r >= half * 2
  <2>1. \A x, y \in Nat, h \in Nat : x >= h /\ y >= 2 => x * y >= h * 2
    <3> SUFFICES ASSUME NEW x \in Nat, NEW y \in Nat, NEW h \in Nat, x >= h, y >= 2
                 PROVE  x * y >= h * 2
      OBVIOUS
    <3>1. x * y >= x * 2
      OBVIOUS
    <3>2. QED  BY <3>1
  <2>2. QED  BY <1>1, <1>3, <1>4, <2>1
<1>8. QED  BY <1>1, <1>4, <1>6, <1>7

\* Floats at the same place are the same, or both zero.
LEMMA SamePlace ==
  ASSUME NEW f \in Floats, f.class # "nan", NEW g \in Floats, g.class # "nan", Place(f) = Place(g)
  PROVE  \/ f = g
         \/ /\ f.class = "finite" /\ f.significand = 0
            /\ g.class = "finite" /\ g.significand = 0
<1> DEFINE zero(h) == h.class = "finite" /\ h.significand = 0
           infinite(h) == h.class = "infinite"
           nonzero(h) == h.class = "finite" /\ h.significand # 0
           w(h) == h.significand * PowerOfTwo[h.exponent - MinExponent]
<1>1. ASSUME NEW h \in Floats, h.class # "nan"
      PROVE  /\ infinite(h) \/ zero(h) \/ nonzero(h)
             /\ h.negative \in BOOLEAN
             /\ zero(h) => Place(h) = 0
             /\ infinite(h) => Place(h) = (IF h.negative THEN - Beyond ELSE Beyond)
             /\ nonzero(h) => /\ w(h) \in Nat /\ w(h) > 0 /\ w(h) < Beyond
                              /\ Place(h) = (IF h.negative THEN - w(h) ELSE w(h))
  <2>1. zero(h) => Place(h) = 0
    <3> SUFFICES ASSUME zero(h) PROVE Place(h) = 0
      OBVIOUS
    <3>1. PowerOfTwo[h.exponent - MinExponent] \in Nat
      BY ScaleOf
    <3>2. \A x \in Nat : 1 * 0 * x = 0 /\ (-1) * 0 * x = 0
      OBVIOUS
    <3>3. QED  BY <3>1, <3>2 DEF Place, Scaled
  <2>2. infinite(h) => Place(h) = IF h.negative THEN - Beyond ELSE Beyond
    BY DEF Place
  <2>3. nonzero(h) => /\ w(h) \in Nat /\ w(h) > 0 /\ w(h) < Beyond
                      /\ Place(h) = IF h.negative THEN - w(h) ELSE w(h)
    BY FiniteDistance
  <2>4. QED  BY <1>1, <2>1, <2>2, <2>3, FloatFacts
<1>2. Beyond \in Nat /\ Beyond > 0
  <2>1. Precision + MaxExponent - MinExponent + IntBits \in Nat
    BY NumberFacts
  <2>2. QED  BY <2>1, PowerOfTwoType DEF Beyond
<1>3. CASE nonzero(f) /\ nonzero(g)
  <2>1. w(f) = w(g) /\ f.negative = g.negative
    <3> HIDE DEF w, nonzero
    <3>1. QED  BY <1>1, <1>3
  <2>2. ~(f.exponent < g.exponent) /\ ~(g.exponent < f.exponent)
    BY <1>3, <2>1, OneExponent
  <2>3. f.exponent = g.exponent
    BY <1>3, <2>2, FloatFacts
  <2>4. f.significand = g.significand
    <3>1. f.significand \in Int /\ g.significand \in Int
      BY <1>3, FloatFacts, NumberFacts
    <3>2. PowerOfTwo[f.exponent - MinExponent] \in Nat /\ PowerOfTwo[f.exponent - MinExponent] > 0
      BY <1>3, ScaleOf
    <3>3. f.significand * PowerOfTwo[f.exponent - MinExponent]
            = g.significand * PowerOfTwo[f.exponent - MinExponent]
      BY <2>1, <2>3
    <3>4. QED  BY <3>1, <3>2, <3>3, TimesKeepsOrder, Zenon
  <2>5. QED  BY <1>3, <2>1, <2>3, <2>4, FloatFacts
<1>4. CASE infinite(f) /\ infinite(g)
  <2>1. f.negative = g.negative
    BY <1>1, <1>2, <1>4
  <2>2. QED  BY <1>4, <2>1, FloatFacts
<1> HIDE DEF w
<1>5. CASE zero(f) /\ ~zero(g)
  <2>1. infinite(g) \/ nonzero(g)
    BY <1>1, <1>5
  <2> HIDE DEF zero, infinite, nonzero
  <2>2. QED  BY <1>1, <1>2, <1>5, <2>1
<1>6. CASE zero(g) /\ ~zero(f)
  <2>1. infinite(f) \/ nonzero(f)
    BY <1>1, <1>6
  <2> HIDE DEF zero, infinite, nonzero
  <2>2. QED  BY <1>1, <1>2, <1>6, <2>1
<1>7. CASE infinite(f) /\ nonzero(g)
  <2> HIDE DEF zero, infinite, nonzero
  <2>1. QED  BY <1>1, <1>2, <1>7
<1>8. CASE nonzero(f) /\ infinite(g)
  <2> HIDE DEF zero, infinite, nonzero
  <2>1. QED  BY <1>1, <1>2, <1>8
<1>9. QED  BY <1>1, <1>3, <1>4, <1>5, <1>6, <1>7, <1>8

\* Values that compare as equal are hashed as the same key.
LEMMA EqualValuesMeet ==
  ASSUME NEW a \in Values, NEW b \in Values, CompareValues(a, b) = "Equal"
  PROVE  JoinKey(a) = JoinKey(b)
<1>1. ASSUME NEW v \in Values, IsInt(v)
      PROVE  v.int \in Ints /\ JoinKey(v) = <<"integer", v.int>>
  BY <1>1, ValueFacts DEF JoinKey
<1>2. ASSUME NEW v \in Values, IsFloat(v)
      PROVE  /\ v.float \in Floats
             /\ JoinKey(v) = IF ExactIntegral(v.float) # NoInteger
                             THEN <<"integer", ExactIntegral(v.float)>>
                             ELSE <<"float", NormalizedBits(v.float)>>
  BY <1>2, ValueFacts DEF JoinKey
<1>3. ASSUME NEW v \in Values, v.type = "String"
      PROVE  v.rank \in Nat /\ JoinKey(v) = <<"string", v.rank>>
  BY <1>3, ValueFacts DEF JoinKey
<1>4. ASSUME NEW u \in Values, NEW v \in Values, IsInt(u), IsFloat(v),
             CompareIntToFloat(u.int, v.float) = "Equal"
      PROVE  JoinKey(u) = JoinKey(v)
  <2>1. ExactIntegral(v.float) = u.int
    BY <1>1, <1>2, <1>4, EqualIntegral
  <2>2. u.int # NoInteger
    BY <1>1, <1>4, SignedIs
  <2>3. QED  BY <1>1, <1>2, <1>4, <2>1, <2>2
<1>5. CASE IsInt(a) /\ IsInt(b)
  <2>1. CompareValues(a, b) = Order(a.int, b.int)
    BY <1>5, ValueFacts DEF CompareValues
  <2>2. a.int \in Int /\ b.int \in Int
    BY <1>1, <1>5, IntsFacts
  <2>3. a.int = b.int
    BY <2>1, <2>2, OrderIs
  <2>4. QED  BY <1>1, <1>5, <2>3
<1>6. CASE IsInt(a) /\ IsFloat(b)
  <2>1. CompareValues(a, b) = CompareIntToFloat(a.int, b.float)
    BY <1>6, ValueFacts DEF CompareValues
  <2>2. QED  BY <1>4, <1>6, <2>1
<1>7. CASE IsFloat(a) /\ IsInt(b)
  <2>1. CompareValues(a, b) = Reversed(CompareIntToFloat(b.int, a.float))
    BY <1>7, ValueFacts DEF CompareValues
  <2>2. CompareIntToFloat(b.int, a.float) = "Equal"
    BY <2>1 DEF Reversed
  <2>3. QED  BY <1>4, <1>7, <2>2
<1>8. CASE IsFloat(a) /\ IsFloat(b)
  <2>1. CompareValues(a, b) = CompareFloats(a.float, b.float)
    BY <1>8, ValueFacts DEF CompareValues
  <2>2. /\ a.float.class # "nan" /\ b.float.class # "nan"
        /\ Order(Place(a.float), Place(b.float)) = "Equal"
    BY <2>1 DEF CompareFloats
  <2>3. Place(a.float) = Place(b.float)
    BY <1>2, <1>8, <2>2, PlaceType, OrderIs
  <2>4. \/ a.float = b.float
        \/ /\ a.float.class = "finite" /\ a.float.significand = 0
           /\ b.float.class = "finite" /\ b.float.significand = 0
    BY <1>2, <1>8, <2>2, <2>3, SamePlace
  <2>5. ASSUME NEW f \in Floats, f.class = "finite", f.significand = 0
        PROVE  ExactIntegral(f) = 0 /\ 0 # NoInteger
    BY <2>5, NumberFacts DEF ExactIntegral, NoInteger
  <2>6. QED  BY <1>2, <1>8, <2>4, <2>5
<1>9. CASE a.type = "String" /\ b.type = "String"
  <2>1. CompareValues(a, b) = Order(a.rank, b.rank)
    BY <1>9, ValueFacts DEF CompareValues
  <2>2. a.rank \in Int /\ b.rank \in Int
    BY <1>3, <1>9
  <2>3. a.rank = b.rank
    BY <2>1, <2>2, OrderIs
  <2>4. QED  BY <1>3, <1>9, <2>3
<1>10. CASE \/ a.type = "String" /\ b.type # "String"
            \/ b.type = "String" /\ a.type # "String"
  BY <1>10, ValueFacts DEF CompareValues
<1>11. QED  BY <1>5, <1>6, <1>7, <1>8, <1>9, <1>10, ValueFacts

-----------------------------------------------------------------------------
(* Folds over a sequence.                                                  *)

\* Induction on a set of numbers.
LEMMA AllUpTo ==
  ASSUME NEW n \in Nat, NEW S, 0 \in S, \A k \in 0 .. n - 1 : k \in S => k + 1 \in S
  PROVE  \A k \in 0 .. n : k \in S
<1> DEFINE wrong == {k \in 0 .. n : k \notin S}
<1> SUFFICES ASSUME wrong # {} PROVE FALSE
  OBVIOUS
<1>1. wrong \in SUBSET Nat
  OBVIOUS
<1>2. PICK k \in wrong : \A j \in wrong : k <= j
  BY <1>1, LeastElement
<1>3. k \in 0 .. n /\ k \notin S /\ k # 0
  BY <1>2
<1>4. k - 1 \in 0 .. n - 1 /\ k - 1 \in 0 .. n /\ ~(k <= k - 1) /\ (k - 1) + 1 = k
  BY <1>3
<1>5. k - 1 \in S
  BY <1>2, <1>4
<1>6. QED  BY <1>3, <1>4, <1>5

\* The recursion of a fold over the subsets of 1 .. n, for a step F within T.
Folds(T, n, base, F, g) ==
  /\ g \in [SUBSET (1 .. n) -> T]
  /\ \A s \in SUBSET (1 .. n) : g[s] = IF s = {} THEN base ELSE F[<<g[s \ {Max(s)}], Max(s)>>]

LEMMA GreatestOf ==
  ASSUME NEW n \in Nat, NEW s \in SUBSET (1 .. n), s # {}
  PROVE  Max(s) \in s /\ Max(s) \in 1 .. n /\ \A y \in s : y <= Max(s)
<1>1. s \in SUBSET Nat /\ \A y \in s : y <= n
  OBVIOUS
<1>2. QED  BY <1>1, GreatestElement

LEMMA FoldSolved ==
  ASSUME NEW T, NEW m \in Nat, NEW base \in T, NEW F \in [T \X (1 .. m) -> T]
  PROVE  \E g : Folds(T, m, base, F, g)
<1> DEFINE S == {n \in 0 .. m : \E g : Folds(T, n, base, F, g)}
<1>1. 0 \in S
  <2> DEFINE g == [s \in SUBSET (1 .. 0) |-> base]
  <2>1. \A s \in SUBSET (1 .. 0) : s = {}
    OBVIOUS
  <2>2. Folds(T, 0, base, F, g)
    BY <2>1 DEF Folds
  <2>3. QED  BY <2>2
<1>2. ASSUME NEW n \in 0 .. m - 1, n \in S PROVE n + 1 \in S
  <2>1. n + 1 \in 0 .. m /\ n \in Nat /\ n + 1 \in 1 .. m
    OBVIOUS
  <2>2. PICK g : Folds(T, n, base, F, g)
    BY <1>2
  <2>3. /\ g \in [SUBSET (1 .. n) -> T]
        /\ \A s \in SUBSET (1 .. n) : g[s] = IF s = {} THEN base ELSE F[<<g[s \ {Max(s)}], Max(s)>>]
    BY <2>2 DEF Folds
  <2> DEFINE h == [s \in SUBSET (1 .. n + 1) |->
                     IF n + 1 \in s THEN F[<<g[s \ {n + 1}], n + 1>>] ELSE g[s]]
  <2>4. ASSUME NEW s \in SUBSET (1 .. n + 1)
        PROVE  /\ h[s] \in T
               /\ h[s] = IF s = {} THEN base ELSE F[<<h[s \ {Max(s)}], Max(s)>>]
    <3>1. CASE n + 1 \in s
      <4> DEFINE t == s \ {n + 1}
      <4>1. t \in SUBSET (1 .. n) /\ t \in SUBSET (1 .. n + 1) /\ n + 1 \notin t /\ s # {}
        <5>1. \A y \in 1 .. n + 1 : y # n + 1 => y \in 1 .. n
          BY <2>1
        <5>2. QED  BY <3>1, <5>1
      <4>2. h[t] = g[t] /\ g[t] \in T
        BY <2>3, <4>1
      <4>3. Max(s) = n + 1
        <5>1. s \in SUBSET Nat /\ \A y \in s : y <= n + 1
          BY <2>1
        <5>2. QED  BY <3>1, <5>1, GreatestIs
      <4>4. h[s] = F[<<g[t], n + 1>>]
        BY <3>1
      <4>5. <<g[t], n + 1>> \in T \X (1 .. m)
        BY <2>1, <4>2
      <4>6. F[<<g[t], n + 1>>] \in T
        BY <4>5
      <4> HIDE DEF h
      <4>7. QED  BY <4>1, <4>2, <4>3, <4>4, <4>6
    <3>2. CASE n + 1 \notin s
      <4>1. s \in SUBSET (1 .. n)
        BY <2>1, <3>2
      <4>2. h[s] = g[s] /\ g[s] \in T
        BY <2>3, <3>2, <4>1
      <4>3. CASE s = {}
        BY <2>3, <4>1, <4>2, <4>3
      <4>4. CASE s # {}
        <5> DEFINE t == s \ {Max(s)}
        <5>1. t \in SUBSET (1 .. n) /\ t \in SUBSET (1 .. n + 1) /\ n + 1 \notin t
          BY <3>2, <4>1
        <5>2. h[t] = g[t]
          BY <5>1
        <5>3. g[s] = F[<<g[t], Max(s)>>]
          BY <2>3, <4>1, <4>4
        <5> HIDE DEF h
        <5>4. QED  BY <4>2, <4>4, <5>2, <5>3
      <4>5. QED  BY <4>3, <4>4
    <3>3. QED  BY <3>1, <3>2
  <2>5. h \in [SUBSET (1 .. n + 1) -> T]
    <3>1. \A s \in SUBSET (1 .. n + 1) : h[s] \in T
      BY <2>4
    <3>2. h = [s \in SUBSET (1 .. n + 1) |-> h[s]]
      OBVIOUS
    <3> HIDE DEF h
    <3>3. QED  BY <3>1, <3>2
  <2> HIDE DEF h
  <2>6. Folds(T, n + 1, base, F, h)
    BY <2>4, <2>5 DEF Folds
  <2>7. QED  BY <2>1, <2>6
<1> HIDE DEF S
<1>3. \A k \in 0 .. m : k \in S
  BY <1>1, <1>2, AllUpTo
<1>4. m \in 0 .. m
  OBVIOUS
<1>5. QED  BY <1>3, <1>4 DEF S

\* What such a recursion has after each place.
LEMMA FoldPlaces ==
  ASSUME NEW n \in Nat, NEW k \in 1 .. n
  PROVE  /\ 1 .. k \in SUBSET (1 .. n) /\ 1 .. k # {} /\ Max(1 .. k) = k
         /\ (1 .. k) \ {k} = 1 .. k - 1 /\ 1 .. k - 1 \in SUBSET (1 .. n)
<1>1. 1 .. k \in SUBSET Nat /\ k \in 1 .. k /\ \A y \in 1 .. k : y <= k
  OBVIOUS
<1>2. Max(1 .. k) = k
  BY <1>1, GreatestIs
<1>3. (1 .. k) \ {k} = 1 .. k - 1
  OBVIOUS
<1>4. 1 .. k \in SUBSET (1 .. n) /\ 1 .. k - 1 \in SUBSET (1 .. n)
  OBVIOUS
<1>5. QED  BY <1>1, <1>2, <1>3, <1>4

\* A fold over all places has a stage after each, within T.
FoldsOn(T, n, base, F, iter) ==
  /\ n \in Nat /\ base \in T /\ F \in [T \X (1 .. n) -> T]
  /\ \A S \in SUBSET (1 .. n) :
       /\ S = {} => iter[S] = base
       /\ S # {} /\ iter[S \ {Max(S)}] \in T => iter[S] = F[<<iter[S \ {Max(S)}], Max(S)>>]

IsStaged(T, n, base, F, h) ==
  /\ h \in [0 .. n -> T] /\ h[0] = base
  /\ \A k \in 0 .. n - 1 : h[k + 1] = F[<<h[k], k + 1>>]

LEMMA FoldStages ==
  ASSUME NEW T, NEW n, NEW base, NEW F, NEW iter, FoldsOn(T, n, base, F, iter)
  PROVE  \E h : IsStaged(T, n, base, F, h) /\ h[n] = iter[1 .. n]
<1> DEFINE h == [k \in 0 .. n |-> iter[1 .. k]]
<1>1. n \in Nat /\ base \in T /\ F \in [T \X (1 .. n) -> T]
  BY DEF FoldsOn
<1>2. h[0] = base
  <2>1. 1 .. 0 = {} /\ {} \in SUBSET (1 .. n) /\ 0 \in 0 .. n
    BY <1>1
  <2>2. iter[{}] = base
    BY <2>1 DEF FoldsOn
  <2>3. QED  BY <2>1, <2>2
<1>3. ASSUME NEW k \in 0 .. n - 1, h[k] \in T
      PROVE  h[k + 1] = F[<<h[k], k + 1>>] /\ h[k + 1] \in T
  <2>1. k + 1 \in 1 .. n /\ (k + 1) - 1 = k /\ k \in 0 .. n /\ k + 1 \in 0 .. n
    BY <1>1
  <2>2. /\ 1 .. k + 1 \in SUBSET (1 .. n) /\ 1 .. k + 1 # {} /\ Max(1 .. k + 1) = k + 1
        /\ (1 .. k + 1) \ {k + 1} = 1 .. k
    BY <1>1, <2>1, FoldPlaces
  <2>3. h[k] = iter[1 .. k] /\ h[k + 1] = iter[1 .. k + 1]
    BY <2>1
  <2> HIDE DEF h
  <2>4. iter[1 .. k + 1] = F[<<iter[1 .. k], k + 1>>]
    BY <1>3, <2>2, <2>3 DEF FoldsOn
  <2>5. <<h[k], k + 1>> \in T \X (1 .. n)
    BY <1>3, <2>1
  <2>6. F[<<h[k], k + 1>>] \in T
    BY <1>1, <2>5
  <2>7. QED  BY <2>3, <2>4, <2>6
<1>4. \A k \in 0 .. n : h[k] \in T
  <2> DEFINE S == {k \in 0 .. n : h[k] \in T}
  <2> HIDE DEF h
  <2>1. 0 \in S
    BY <1>1, <1>2
  <2>2. ASSUME NEW k \in 0 .. n - 1, k \in S PROVE k + 1 \in S
    <3>1. k + 1 \in 0 .. n
      BY <1>1
    <3>2. QED  BY <1>3, <2>2, <3>1
  <2> HIDE DEF S
  <2>3. \A k \in 0 .. n : k \in S
    BY <1>1, <2>1, <2>2, AllUpTo
  <2>4. QED  BY <2>3 DEF S
<1>5. h = [k \in 0 .. n |-> h[k]] /\ h[n] = iter[1 .. n]
  BY <1>1
<1> HIDE DEF h
<1>6. \A k \in 0 .. n - 1 : k \in 0 .. n
  BY <1>1
<1>7. IsStaged(T, n, base, F, h)
  BY <1>2, <1>3, <1>4, <1>5, <1>6 DEF IsStaged
<1>8. QED  BY <1>5, <1>7

\* What rows saved one by one make of a file.
Saved(base, s) == FoldLeft(SaveRow, base, s)

\* The stages of that.
Savable(T, R, base, s) ==
  /\ s \in Seq(R) /\ base \in T
  /\ \A t \in T, r \in R : SaveRow(t, r) \in T
AreSaved(T, base, s, g) ==
  /\ g \in [0 .. Len(s) -> T] /\ g[0] = base
  /\ \A k \in 0 .. Len(s) - 1 : g[k + 1] = SaveRow(g[k], s[k + 1])
  /\ Saved(base, s) = g[Len(s)]

LEMMA SaveStages ==
  ASSUME NEW T, NEW R, NEW base, NEW s, Savable(T, R, base, s)
  PROVE  \E g : AreSaved(T, base, s, g)
<1>1. s \in Seq(R) /\ base \in T /\ \A t \in T, r \in R : SaveRow(t, r) \in T
  BY DEF Savable
<1> DEFINE n == Len(s)
           step(g) == [S \in SUBSET (DOMAIN s) |->
                         IF S = {} THEN base ELSE SaveRow(g[S \ {Max(S)}], s[Max(S)])]
           iter == CHOOSE g : g = step(g)
<1>2. Saved(base, s) = iter[DOMAIN s]
  BY DEF Saved, FoldLeft, MapThenFoldSet
<1>3. DOMAIN s = 1 .. n /\ n \in Nat /\ \A i \in 1 .. n : s[i] \in R
  BY <1>1
<1> HIDE DEF n, AreSaved
<1>4. PICK F : F \in [T \X (1 .. n) -> T] /\ \A t \in T, i \in 1 .. n : F[<<t, i>>] = SaveRow(t, s[i])
  <2> DEFINE F == [p \in T \X (1 .. n) |-> SaveRow(p[1], s[p[2]])]
  <2>1. F \in [T \X (1 .. n) -> T]
    BY <1>1, <1>3
  <2>2. \A t \in T, i \in 1 .. n : F[<<t, i>>] = SaveRow(t, s[i])
    OBVIOUS
  <2>3. QED  BY <2>1, <2>2
<1>5. PICK g : Folds(T, n, base, F, g)
  BY <1>1, <1>3, <1>4, FoldSolved
<1>6. g = step(g)
  <2>1. ASSUME NEW S \in SUBSET (1 .. n), S # {}
        PROVE  F[<<g[S \ {Max(S)}], Max(S)>>] = SaveRow(g[S \ {Max(S)}], s[Max(S)])
    <3>1. Max(S) \in 1 .. n
      BY <1>3, <2>1, GreatestOf
    <3>2. g[S \ {Max(S)}] \in T
      BY <1>5 DEF Folds
    <3>3. QED  BY <1>4, <3>1, <3>2
  <2>2. \A S \in SUBSET (1 .. n) : g[S] = IF S = {} THEN base ELSE SaveRow(g[S \ {Max(S)}], s[Max(S)])
    BY <1>5, <2>1 DEF Folds
  <2>3. g = [S \in SUBSET (1 .. n) |-> g[S]]
    BY <1>5 DEF Folds
  <2>4. QED  BY <1>3, <2>2, <2>3
<1> HIDE DEF step
<1>7. iter = step(iter)
  BY <1>6
<1>8. PICK f : f = iter /\ f = step(f)
  BY <1>7
<1> HIDE DEF iter
<1>9. \A S \in SUBSET (1 .. n) : f[S] = IF S = {} THEN base ELSE SaveRow(f[S \ {Max(S)}], s[Max(S)])
  BY <1>3, <1>8 DEF step
<1>10. FoldsOn(T, n, base, F, f)
  BY <1>1, <1>3, <1>4, <1>9, GreatestOf DEF FoldsOn
<1>11. PICK h : IsStaged(T, n, base, F, h) /\ h[n] = f[1 .. n]
  BY <1>10, FoldStages
<1>12. /\ h \in [0 .. n -> T] /\ h[0] = base
       /\ \A k \in 0 .. n - 1 : h[k + 1] = SaveRow(h[k], s[k + 1])
  <2>1. \A k \in 0 .. n - 1 : k \in 0 .. n /\ k + 1 \in 1 .. n
    BY <1>3
  <2>2. QED  BY <1>4, <1>11, <2>1 DEF IsStaged
<1>13. QED  BY <1>2, <1>3, <1>8, <1>11, <1>12 DEF n, AreSaved

\* What elements counted one by one make of the statistics.
Updated(base, s) == FoldLeft(Update, base, s)

\* The same with Update.
Updatable(T, R, base, s) ==
  /\ s \in Seq(R) /\ base \in T
  /\ \A t \in T, r \in R : Update(t, r) \in T
AreUpdated(T, base, s, g) ==
  /\ g \in [0 .. Len(s) -> T] /\ g[0] = base
  /\ \A k \in 0 .. Len(s) - 1 : g[k + 1] = Update(g[k], s[k + 1])
  /\ Updated(base, s) = g[Len(s)]

LEMMA UpdateStages ==
  ASSUME NEW T, NEW R, NEW base, NEW s, Updatable(T, R, base, s)
  PROVE  \E g : AreUpdated(T, base, s, g)
<1>1. s \in Seq(R) /\ base \in T /\ \A t \in T, r \in R : Update(t, r) \in T
  BY DEF Updatable
<1> DEFINE n == Len(s)
           step(g) == [S \in SUBSET (DOMAIN s) |->
                         IF S = {} THEN base ELSE Update(g[S \ {Max(S)}], s[Max(S)])]
           iter == CHOOSE g : g = step(g)
<1>2. Updated(base, s) = iter[DOMAIN s]
  BY DEF Updated, FoldLeft, MapThenFoldSet
<1>3. DOMAIN s = 1 .. n /\ n \in Nat /\ \A i \in 1 .. n : s[i] \in R
  BY <1>1
<1> HIDE DEF n, AreUpdated
<1>4. PICK F : F \in [T \X (1 .. n) -> T] /\ \A t \in T, i \in 1 .. n : F[<<t, i>>] = Update(t, s[i])
  <2> DEFINE F == [p \in T \X (1 .. n) |-> Update(p[1], s[p[2]])]
  <2>1. F \in [T \X (1 .. n) -> T]
    BY <1>1, <1>3
  <2>2. \A t \in T, i \in 1 .. n : F[<<t, i>>] = Update(t, s[i])
    OBVIOUS
  <2>3. QED  BY <2>1, <2>2
<1>5. PICK g : Folds(T, n, base, F, g)
  BY <1>1, <1>3, <1>4, FoldSolved
<1>6. g = step(g)
  <2>1. ASSUME NEW S \in SUBSET (1 .. n), S # {}
        PROVE  F[<<g[S \ {Max(S)}], Max(S)>>] = Update(g[S \ {Max(S)}], s[Max(S)])
    <3>1. Max(S) \in 1 .. n
      BY <1>3, <2>1, GreatestOf
    <3>2. g[S \ {Max(S)}] \in T
      BY <1>5 DEF Folds
    <3>3. QED  BY <1>4, <3>1, <3>2
  <2>2. \A S \in SUBSET (1 .. n) : g[S] = IF S = {} THEN base ELSE Update(g[S \ {Max(S)}], s[Max(S)])
    BY <1>5, <2>1 DEF Folds
  <2>3. g = [S \in SUBSET (1 .. n) |-> g[S]]
    BY <1>5 DEF Folds
  <2>4. QED  BY <1>3, <2>2, <2>3
<1> HIDE DEF step
<1>7. iter = step(iter)
  BY <1>6
<1>8. PICK f : f = iter /\ f = step(f)
  BY <1>7
<1> HIDE DEF iter
<1>9. \A S \in SUBSET (1 .. n) : f[S] = IF S = {} THEN base ELSE Update(f[S \ {Max(S)}], s[Max(S)])
  BY <1>3, <1>8 DEF step
<1>10. FoldsOn(T, n, base, F, f)
  BY <1>1, <1>3, <1>4, <1>9, GreatestOf DEF FoldsOn
<1>11. PICK h : IsStaged(T, n, base, F, h) /\ h[n] = f[1 .. n]
  BY <1>10, FoldStages
<1>12. /\ h \in [0 .. n -> T] /\ h[0] = base
       /\ \A k \in 0 .. n - 1 : h[k + 1] = Update(h[k], s[k + 1])
  <2>1. \A k \in 0 .. n - 1 : k \in 0 .. n /\ k + 1 \in 1 .. n
    BY <1>3
  <2>2. QED  BY <1>4, <1>11, <2>1 DEF IsStaged
<1>13. QED  BY <1>2, <1>3, <1>8, <1>11, <1>12 DEF n, AreUpdated

\* The bytes of the rows of a block.
Bytes(block) == FoldLeft(LAMBDA bytes, r : bytes + r.size, 0, block)

\* The same with the sizes of rows.
LEMMA BytesStages ==
  ASSUME NEW R, NEW s \in Seq(R), \A r \in R : r.size \in Nat
  PROVE  \E g : /\ g \in [0 .. Len(s) -> Nat] /\ g[0] = 0
                /\ \A k \in 0 .. Len(s) - 1 : g[k + 1] = g[k] + s[k + 1].size
                /\ Bytes(s) = g[Len(s)]
<1> DEFINE n == Len(s)
           step(g) == [S \in SUBSET (DOMAIN s) |->
                         IF S = {} THEN 0 ELSE g[S \ {Max(S)}] + s[Max(S)].size]
           iter == CHOOSE g : g = step(g)
<1>1. Bytes(s) = iter[DOMAIN s]
  BY DEF Bytes, FoldLeft, MapThenFoldSet
<1>2. DOMAIN s = 1 .. n /\ n \in Nat /\ \A i \in 1 .. n : s[i] \in R
  OBVIOUS
<1> HIDE DEF n
<1>3. PICK F : F \in [Nat \X (1 .. n) -> Nat] /\ \A t \in Nat, i \in 1 .. n : F[<<t, i>>] = t + s[i].size
  <2> DEFINE F == [p \in Nat \X (1 .. n) |-> p[1] + s[p[2]].size]
  <2>1. F \in [Nat \X (1 .. n) -> Nat]
    BY <1>2
  <2>2. \A t \in Nat, i \in 1 .. n : F[<<t, i>>] = t + s[i].size
    OBVIOUS
  <2>3. QED  BY <2>1, <2>2
<1>4. PICK g : Folds(Nat, n, 0, F, g)
  BY <1>2, <1>3, FoldSolved
<1>5. g = step(g)
  <2>1. ASSUME NEW S \in SUBSET (1 .. n), S # {}
        PROVE  F[<<g[S \ {Max(S)}], Max(S)>>] = g[S \ {Max(S)}] + s[Max(S)].size
    <3>1. Max(S) \in 1 .. n
      BY <1>2, <2>1, GreatestOf
    <3>2. g[S \ {Max(S)}] \in Nat
      BY <1>4 DEF Folds
    <3>3. QED  BY <1>3, <3>1, <3>2
  <2>2. \A S \in SUBSET (1 .. n) : g[S] = IF S = {} THEN 0 ELSE g[S \ {Max(S)}] + s[Max(S)].size
    BY <1>4, <2>1 DEF Folds
  <2>3. g = [S \in SUBSET (1 .. n) |-> g[S]]
    BY <1>4 DEF Folds
  <2>4. QED  BY <1>2, <2>2, <2>3
<1> HIDE DEF step
<1>6. iter = step(iter)
  BY <1>5
<1>7. PICK f : f = iter /\ f = step(f)
  BY <1>6
<1> HIDE DEF iter
<1>8. \A S \in SUBSET (1 .. n) : f[S] = IF S = {} THEN 0 ELSE f[S \ {Max(S)}] + s[Max(S)].size
  BY <1>2, <1>7 DEF step
<1>9. FoldsOn(Nat, n, 0, F, f)
  BY <1>2, <1>3, <1>8, GreatestOf DEF FoldsOn
<1>10. PICK h : IsStaged(Nat, n, 0, F, h) /\ h[n] = f[1 .. n]
  BY <1>9, FoldStages
<1>11. /\ h \in [0 .. n -> Nat] /\ h[0] = 0
       /\ \A k \in 0 .. n - 1 : h[k + 1] = h[k] + s[k + 1].size
  <2>1. \A k \in 0 .. n - 1 : k \in 0 .. n /\ k + 1 \in 1 .. n
    BY <1>2
  <2>2. QED  BY <1>3, <1>10, <2>1 DEF IsStaged
<1>12. QED  BY <1>1, <1>2, <1>7, <1>10, <1>11 DEF n

LEMMA BytesOfNone == Bytes(<<>>) = 0
<1> DEFINE R == {[size |-> 0]}
<1>1. <<>> \in Seq(R) /\ Len(<<>>) = 0
  OBVIOUS
<1>2. \A r \in R : r.size \in Nat
  OBVIOUS
<1> HIDE DEF R
<1>3. PICK g : g[0] = 0 /\ Bytes(<<>>) = g[Len(<<>>)]
  BY <1>1, <1>2, BytesStages
<1>4. QED  BY <1>1, <1>3

LEMMA BytesOfAppend ==
  ASSUME NEW R, NEW s \in Seq(R), \A r \in R : r.size \in Nat, NEW e \in R
  PROVE  Bytes(s) \in Nat /\ Bytes(Append(s, e)) = Bytes(s) + e.size
<1> DEFINE n == Len(s)
           t == Append(s, e)
<1>1. n \in Nat /\ n \in 0 .. n
  OBVIOUS
<1>2. t \in Seq(R) /\ Len(t) = n + 1 /\ t[n + 1] = e /\ \A i \in 1 .. n : t[i] = s[i]
  BY AppendProperties
<1> HIDE DEF t
<1>3. PICK g : /\ g \in [0 .. n -> Nat] /\ g[0] = 0 /\ Bytes(s) = g[n]
               /\ \A k \in 0 .. n - 1 : g[k + 1] = g[k] + s[k + 1].size
  BY BytesStages
<1> HIDE DEF n
<1>4. PICK h : /\ h \in [0 .. n + 1 -> Nat] /\ h[0] = 0 /\ Bytes(t) = h[n + 1]
               /\ \A k \in 0 .. n : h[k + 1] = h[k] + t[k + 1].size
  <2>1. PICK h : /\ h \in [0 .. Len(t) -> Nat] /\ h[0] = 0 /\ Bytes(t) = h[Len(t)]
                 /\ \A k \in 0 .. Len(t) - 1 : h[k + 1] = h[k] + t[k + 1].size
    BY <1>2, BytesStages
  <2>2. (n + 1) - 1 = n
    BY <1>1
  <2>3. QED  BY <1>2, <2>1, <2>2
<1> DEFINE S == {k \in 0 .. n : g[k] = h[k]}
<1>5. 0 \in S
  BY <1>1, <1>3, <1>4
<1>6. ASSUME NEW k \in 0 .. n - 1, k \in S PROVE k + 1 \in S
  <2>1. k + 1 \in 1 .. n /\ k \in 0 .. n /\ k + 1 \in 0 .. n
    BY <1>1
  <2>2. QED  BY <1>2, <1>3, <1>4, <1>6, <2>1
<1> HIDE DEF S
<1>7. \A k \in 0 .. n : k \in S
  BY <1>1, <1>5, <1>6, AllUpTo
<1>8. g[n] = h[n]
  BY <1>1, <1>7 DEF S
<1>9. h[n + 1] = h[n] + e.size
  BY <1>1, <1>2, <1>4
<1>10. QED  BY <1>1, <1>3, <1>4, <1>8, <1>9 DEF t

-----------------------------------------------------------------------------
(* The file of a stream of rows.                                           *)

Sized(R) == \A r \in R : r.size \in 1 .. Capacity
GoodBlocks(R) == {b \in Seq(R) \ {<<>>} : Bytes(b) <= Capacity}

\* A file while its rows are saved, and its rows.
OpenFiles(R) ==
  {file \in [blocks : Seq(GoodBlocks(R)), block : Seq(R), occupied : Nat] :
     file.occupied = Bytes(file.block) /\ file.occupied <= Capacity}
RowsIn(file) == FlattenSeq(file.blocks) \o file.block

LEMMA FlattenAppend ==
  ASSUME NEW R, NEW f \in Seq(Seq(R)), NEW b \in Seq(R)
  PROVE  /\ FlattenSeq(f) \in Seq(R)
         /\ Append(f, b) \in Seq(Seq(R))
         /\ FlattenSeq(Append(f, b)) = FlattenSeq(f) \o b
<1> DEFINE n == Len(f)
           g == Append(f, b)
<1>1. n \in Nat /\ \A i \in 1 .. n : f[i] \in Seq(R)
  OBVIOUS
<1>2. g \in Seq(Seq(R)) /\ Len(g) = n + 1 /\ g[n + 1] = b /\ \A i \in 1 .. n : g[i] = f[i]
  BY AppendProperties
<1>3. f = [i \in 1 .. n |-> f[i]]
  OBVIOUS
<1>4. g = [i \in 1 .. n + 1 |-> g[i]]
  <2> HIDE DEF g, n
  <2>1. QED  BY <1>1, <1>2
<1>5. [i \in 1 .. n |-> g[i]] = [i \in 1 .. n |-> f[i]]
  BY <1>2
<1> HIDE DEF g, n
<1>6. \A i \in 1 .. n + 1 : g[i] \in Seq(R)
  BY <1>1, <1>2
<1>7. /\ FlattenSeq([i \in 1 .. n |-> g[i]]) \in Seq(R)
      /\ FlattenSeq([i \in 1 .. n + 1 |-> g[i]]) = FlattenSeq([i \in 1 .. n |-> g[i]]) \o g[n + 1]
  BY <1>1, <1>6, FlattenNext
<1>8. FlattenSeq(f) \in Seq(R) /\ FlattenSeq(g) = FlattenSeq(f) \o b
  BY <1>2, <1>3, <1>4, <1>5, <1>7
<1>9. QED  BY <1>2, <1>8 DEF g

\* Each block of a file is a block of rows, so a file is one of sequences of rows.
LEMMA GoodBlocksAre ==
  ASSUME NEW R, NEW f \in Seq(GoodBlocks(R))
  PROVE  f \in Seq(Seq(R)) /\ f \in Seq(Seq(R) \ {<<>>}) /\ \A b \in DOMAIN f : Bytes(f[b]) <= Capacity
<1>1. GoodBlocks(R) \subseteq Seq(R) \ {<<>>} /\ \A b \in GoodBlocks(R) : Bytes(b) <= Capacity
  BY DEF GoodBlocks
<1> DEFINE G == GoodBlocks(R)
           S == Seq(R)
<1>2. G \subseteq S \ {<<>>} /\ f \in Seq(G)
  BY <1>1
<1> HIDE DEF G, S
<1>3. f \in Seq(S) /\ f \in Seq(S \ {<<>>}) /\ \A b \in DOMAIN f : f[b] \in G
  BY <1>2
<1>4. QED  BY <1>1, <1>3 DEF G, S

LEMMA SaveRowKeeps ==
  ASSUME NEW R, Sized(R), NEW file \in OpenFiles(R), NEW r \in R
  PROVE  /\ SaveRow(file, r) \in OpenFiles(R)
         /\ RowsIn(file) \in Seq(R)
         /\ RowsIn(SaveRow(file, r)) = Append(RowsIn(file), r)
<1>1. /\ file \in [blocks : Seq(GoodBlocks(R)), block : Seq(R), occupied : Nat]
      /\ file.occupied = Bytes(file.block) /\ file.occupied <= Capacity
  BY DEF OpenFiles
<1> DEFINE G == GoodBlocks(R)
           flat == FlattenSeq(file.blocks)
           next == SaveRow(file, r)
           begun == <<r>>
<1>2. file.blocks \in Seq(G) /\ file.block \in Seq(R) /\ file.occupied \in Nat
  BY <1>1
<1>3. Capacity \in Nat /\ r.size \in 1 .. Capacity /\ \A e \in R : e.size \in Nat
  BY TableFileAssumption DEF Sized
<1>4. file.blocks \in Seq(Seq(R))
  BY <1>2, GoodBlocksAre
<1>5. flat \in Seq(R) /\ RowsIn(file) = flat \o file.block
  BY <1>4, <1>2, FlattenAppend DEF RowsIn
<1>6. RowsIn(file) \in Seq(R)
  <2> HIDE DEF flat
  <2>1. QED  BY <1>2, <1>5, ConcatProperties
<1>7. CASE file.occupied + r.size > Capacity
  <2>1. next = [blocks |-> Append(file.blocks, file.block), block |-> Append(<<>>, r), occupied |-> r.size + 0]
    BY <1>7 DEF SaveRow
  <2>2. begun \in Seq(R) /\ Append(<<>>, r) = begun /\ r.size + 0 = r.size
    BY <1>3
  <2>3. Bytes(begun) = r.size
    <3>1. <<>> \in Seq(R)
      OBVIOUS
    <3>2. Bytes(Append(<<>>, r)) = Bytes(<<>>) + r.size
      BY <1>3, <3>1, BytesOfAppend
    <3>3. QED  BY <1>3, <2>2, <3>2, BytesOfNone
  <2>4. file.block \in G
    <3>1. file.block # <<>>
      BY <1>1, <1>3, <1>7, BytesOfNone
    <3>2. QED  BY <1>1, <1>2, <3>1 DEF GoodBlocks
  <2>5. Append(file.blocks, file.block) \in Seq(G)
    <3> HIDE DEF G
    <3>1. QED  BY <1>2, <2>4
  <2>6. next \in OpenFiles(R)
    BY <1>3, <2>1, <2>2, <2>3, <2>5, SMTT(30) DEF OpenFiles
  <2>7. RowsIn(next) = (flat \o file.block) \o begun
    <3>1. FlattenSeq(Append(file.blocks, file.block)) = flat \o file.block
      BY <1>2, <1>4, FlattenAppend
    <3>2. next.blocks = Append(file.blocks, file.block) /\ next.block = begun
      BY <2>1, <2>2
    <3>3. QED  BY <3>1, <3>2 DEF RowsIn
  <2>8. (flat \o file.block) \o begun = Append(flat \o file.block, r)
    <3> DEFINE a == flat \o file.block
    <3>1. a \in Seq(R)
      BY <1>5, <1>6
    <3> HIDE DEF a
    <3>2. a \o begun = Append(a, r)
      BY <3>1
    <3>3. QED  BY <3>2 DEF a
  <2>9. QED  BY <1>5, <1>6, <2>6, <2>7, <2>8
<1>8. CASE ~(file.occupied + r.size > Capacity)
  <2>1. next = [blocks |-> file.blocks, block |-> Append(file.block, r), occupied |-> r.size + file.occupied]
    BY <1>8 DEF SaveRow
  <2>2. Append(file.block, r) \in Seq(R) /\ r.size + file.occupied \in Nat /\ r.size + file.occupied <= Capacity
    BY <1>2, <1>3, <1>8
  <2>3. Bytes(Append(file.block, r)) = r.size + file.occupied
    <3>1. Bytes(file.block) \in Nat /\ Bytes(Append(file.block, r)) = Bytes(file.block) + r.size
      BY <1>2, <1>3, BytesOfAppend
    <3>2. QED  BY <1>1, <1>3, <3>1
  <2>4. next \in OpenFiles(R)
    <3> DEFINE b == Append(file.block, r)
               bytes == r.size + file.occupied
    <3>1. /\ next = [blocks |-> file.blocks, block |-> b, occupied |-> bytes] /\ b \in Seq(R)
          /\ bytes \in Nat /\ bytes <= Capacity /\ Bytes(b) = bytes
      BY <2>1, <2>2, <2>3
    <3> HIDE DEF b, bytes
    <3>2. QED  BY <1>2, <3>1 DEF OpenFiles
  <2>5. RowsIn(next) = flat \o Append(file.block, r)
    <3>1. next.blocks = file.blocks /\ next.block = Append(file.block, r)
      BY <2>1
    <3>2. QED  BY <3>1 DEF RowsIn
  <2>6. flat \o Append(file.block, r) = Append(flat \o file.block, r)
    <3> HIDE DEF flat
    <3> DEFINE b == file.block
    <3>1. flat \in Seq(R) /\ b \in Seq(R)
      BY <1>2, <1>5
    <3> HIDE DEF b
    <3>2. flat \o Append(b, r) = Append(flat \o b, r)
      BY <3>1
    <3>3. QED  BY <3>2 DEF b
  <2>7. QED  BY <1>5, <1>6, <2>4, <2>5, <2>6
<1>9. QED  BY <1>7, <1>8

LEMMA FileIsPacked ==
  ASSUME NEW R, Sized(R), NEW s \in Seq(R)
  PROVE  SaveRowStream(s) \in Seq(Seq(R) \ {<<>>}) /\ IsPacked(SaveRowStream(s), s)
<1> DEFINE T == OpenFiles(R)
           n == Len(s)
           none == [blocks |-> <<>>, block |-> <<>>, occupied |-> 0]
<1>1. n \in Nat /\ n \in 0 .. n
  OBVIOUS
<1>2. none \in T
  BY BytesOfNone, TableFileAssumption DEF OpenFiles
<1>3. \A file \in T, r \in R : SaveRow(file, r) \in T
  BY SaveRowKeeps
<1>4. PICK g : /\ g \in [0 .. n -> T] /\ g[0] = none
               /\ \A k \in 0 .. n - 1 : g[k + 1] = SaveRow(g[k], s[k + 1])
               /\ Saved(none, s) = g[n]
  <2> HIDE DEF T, none
  <2>1. Savable(T, R, none, s)
    BY <1>2, <1>3 DEF Savable
  <2>2. PICK g : AreSaved(T, none, s, g)
    BY <2>1, SaveStages
  <2>3. QED  BY <2>2 DEF AreSaved
<1> DEFINE S == {k \in 0 .. n : RowsIn(g[k]) = SubSeq(s, 1, k)}
<1>5. 0 \in S
  <2>1. RowsIn(none) = <<>>
    <3>1. FlattenSeq(<<>>) = <<>>
      BY DEF FlattenSeq
    <3>2. QED  BY <3>1 DEF RowsIn
  <2>2. SubSeq(s, 1, 0) = <<>>
    BY SubSeqEmpty
  <2> HIDE DEF none, n
  <2>3. RowsIn(g[0]) = SubSeq(s, 1, 0)
    BY <1>4, <2>1, <2>2, Zenon
  <2>4. QED  BY <1>1, <2>3
<1> HIDE DEF none, T
<1>6. ASSUME NEW k \in 0 .. n - 1, k \in S PROVE k + 1 \in S
  <2>1. k + 1 \in 1 .. n /\ k \in 0 .. n /\ k + 1 \in 0 .. n /\ s[k + 1] \in R /\ k \in Nat
    BY <1>1
  <2>2. g[k] \in T /\ g[k + 1] = SaveRow(g[k], s[k + 1])
    BY <1>4, <2>1
  <2>3. RowsIn(g[k + 1]) = Append(RowsIn(g[k]), s[k + 1])
    BY <2>1, <2>2, SaveRowKeeps DEF T
  <2>4. SubSeq(s, 1, k + 1) = Append(SubSeq(s, 1, k), s[k + 1])
    <3> DEFINE a == SubSeq(s, 1, k)
               b == SubSeq(s, 1, k + 1)
    <3>1. a \in Seq(R) /\ Len(a) = k /\ \A i \in 1 .. k : a[i] = s[i]
      BY <1>1, <2>1
    <3>2. b \in Seq(R) /\ Len(b) = k + 1 /\ \A i \in 1 .. k + 1 : b[i] = s[i]
      BY <1>1, <2>1
    <3> HIDE DEF a, b
    <3>3. Append(a, s[k + 1]) \in Seq(R) /\ Len(Append(a, s[k + 1])) = k + 1
      BY <2>1, <3>1
    <3>4. \A i \in 1 .. k + 1 : Append(a, s[k + 1])[i] = b[i]
      BY <2>1, <3>1, <3>2
    <3>5. b = Append(a, s[k + 1])
      BY <3>2, <3>3, <3>4, SeqEqual
    <3>6. QED  BY <3>5 DEF a, b
  <2>5. QED  BY <1>6, <2>1, <2>3, <2>4
<1> HIDE DEF S
<1>7. \A k \in 0 .. n : k \in S
  BY <1>1, <1>5, <1>6, AllUpTo
<1>8. RowsIn(g[n]) = s
  <2>1. RowsIn(g[n]) = SubSeq(s, 1, n)
    BY <1>1, <1>7 DEF S
  <2>2. SubSeq(s, 1, n) = s
    BY SubSeqFull
  <2>3. QED  BY <2>1, <2>2
<1> DEFINE file == g[n]
<1>9. file \in OpenFiles(R)
  BY <1>1, <1>4 DEF T
<1>10. SaveRowStream(s) = file.blocks \o IF file.block = <<>> THEN <<>> ELSE <<file.block>>
  BY <1>4 DEF Saved, SaveRowStream, none
<1> HIDE DEF file, n
<1>11. /\ file.blocks \in Seq(GoodBlocks(R)) /\ file.block \in Seq(R) /\ file.occupied \in Nat
       /\ file.occupied = Bytes(file.block) /\ file.occupied <= Capacity
  BY <1>9 DEF OpenFiles
<1>12. RowsIn(file) = s
  BY <1>8 DEF file
<1> DEFINE G == GoodBlocks(R)
           saved == SaveRowStream(s)
<1>13. file.blocks \in Seq(Seq(R)) /\ FlattenSeq(file.blocks) \in Seq(R)
  BY <1>11, GoodBlocksAre, FlattenAppend
<1>14. saved \in Seq(G) /\ FlattenSeq(saved) = s
  <2>1. CASE file.block = <<>>
    <3>1. saved = file.blocks
      <4> HIDE DEF G
      <4>1. file.blocks \o <<>> = file.blocks
        <5> DEFINE bs == file.blocks
        <5>1. bs \in Seq(G)
          BY <1>11 DEF G
        <5> HIDE DEF bs
        <5>2. bs \o <<>> = bs
          BY <5>1, ConcatEmptySeq
        <5>3. QED  BY <5>2 DEF bs
      <4>2. QED  BY <1>10, <2>1, <4>1
    <3>2. FlattenSeq(file.blocks) \o <<>> = FlattenSeq(file.blocks)
      BY <1>13, ConcatEmptySeq
    <3>3. QED  BY <1>11, <1>12, <2>1, <3>1, <3>2 DEF RowsIn
  <2>2. CASE file.block # <<>>
    <3>1. file.block \in G
      BY <1>11, <2>2 DEF GoodBlocks
    <3>2. saved = Append(file.blocks, file.block)
      <4> DEFINE bs == file.blocks
                 b == file.block
      <4>1. bs \in Seq(G) /\ b \in G
        BY <1>11, <3>1
      <4>2. saved = bs \o <<b>>
        BY <1>10, <2>2
      <4> HIDE DEF G, bs, b, saved
      <4>3. bs \o <<b>> = Append(bs, b)
        BY <4>1
      <4>4. QED  BY <4>2, <4>3 DEF bs, b
    <3>3. Append(file.blocks, file.block) \in Seq(G)
      <4> HIDE DEF G
      <4>1. file.blocks \in Seq(G)
        BY <1>11 DEF G
      <4>2. QED  BY <3>1, <4>1
    <3>4. FlattenSeq(saved) = FlattenSeq(file.blocks) \o file.block
      BY <1>11, <1>13, <3>2, FlattenAppend
    <3>5. QED  BY <1>12, <3>2, <3>3, <3>4 DEF RowsIn
  <2>3. QED  BY <2>1, <2>2
<1> HIDE DEF saved
<1>15. saved \in Seq(Seq(R) \ {<<>>}) /\ \A b \in DOMAIN saved : Bytes(saved[b]) <= Capacity
  BY <1>14, GoodBlocksAre
<1>16. \A b \in DOMAIN saved : saved[b] # <<>>
  <2> DEFINE S1 == Seq(R)
  <2>1. saved \in Seq(S1 \ {<<>>})
    BY <1>15
  <2> HIDE DEF S1
  <2>2. QED  BY <2>1
<1>17. \A b \in DOMAIN saved : FoldLeft(LAMBDA bytes, r : bytes + r.size, 0, saved[b]) <= Capacity
  BY <1>15 DEF Bytes
<1>18. QED  BY <1>14, <1>15, <1>16, <1>17 DEF saved, IsPacked

-----------------------------------------------------------------------------
(* What a cursor has not read.                                             *)

\* Blocks after the first done, joined, are those up to any later one and those after it.
LEMMA RestSplit ==
  ASSUME NEW R, NEW f \in Seq(Seq(R)), NEW m \in 0 .. Len(f), NEW n \in m .. Len(f)
  PROVE  /\ FlattenSeq(SubSeq(f, m + 1, n)) \in Seq(R)
         /\ FlattenSeq(SubSeq(f, n + 1, Len(f))) \in Seq(R)
         /\ FlattenSeq(SubSeq(f, m + 1, Len(f)))
              = FlattenSeq(SubSeq(f, m + 1, n)) \o FlattenSeq(SubSeq(f, n + 1, Len(f)))
<1> DEFINE last == Len(f)
           g == [i \in 1 .. last - m |-> f[m + i]]
           a == SubSeq(f, m + 1, n)
           b == SubSeq(f, n + 1, last)
           c == SubSeq(f, m + 1, last)
           k == n - m
           j == last - n
<1>1. last \in Nat /\ m \in Nat /\ n \in Nat /\ m <= n /\ n <= last /\ \A i \in 1 .. last : f[i] \in Seq(R)
  OBVIOUS
<1> HIDE DEF last
<1>2. k \in Nat /\ j \in Nat /\ \A i \in 1 .. k + j : g[i] \in Seq(R)
  BY <1>1
<1>3. ASSUME NEW p \in Nat, NEW q \in Nat, p <= q, q <= last
      PROVE  SubSeq(f, p + 1, q) = [i \in 1 .. q - p |-> f[p + i]]
  <2> DEFINE s == SubSeq(f, p + 1, q)
             t == [i \in 1 .. q - p |-> f[p + i]]
  <2>1. \A i \in p + 1 .. q : f[i] \in Seq(R)
    BY <1>1, <1>3
  <2>2. /\ s \in Seq(Seq(R)) /\ Len(s) = (IF p + 1 <= q THEN q - (p + 1) + 1 ELSE 0)
        /\ \A i \in 1 .. q - (p + 1) + 1 : s[i] = f[(p + 1) + i - 1]
    BY <2>1, SubSeqProperties
  <2> HIDE DEF s
  <2>3. Len(s) = q - p
    BY <1>3, <2>2
  <2>4. t \in Seq(Seq(R)) /\ Len(t) = q - p
    BY <1>1, <1>3
  <2>5. \A i \in 1 .. q - p : s[i] = t[i]
    <3>1. \A i \in 1 .. q - p : (p + 1) + i - 1 = p + i /\ i \in 1 .. q - (p + 1) + 1
      BY <1>3
    <3>2. QED  BY <2>2, <3>1
  <2> HIDE DEF t
  <2>6. s = t
    BY <2>2, <2>3, <2>4, <2>5, SeqEqual
  <2>7. QED  BY <2>6 DEF s, t
<1>4. a = [i \in 1 .. k |-> g[i]]
  <2>1. a = [i \in 1 .. k |-> f[m + i]]
    BY <1>1, <1>3
  <2>2. \A i \in 1 .. k : g[i] = f[m + i]
    BY <1>1
  <2> HIDE DEF a, g
  <2>3. QED  BY <2>1, <2>2
<1>5. b = [i \in 1 .. j |-> g[k + i]]
  <2>1. b = [i \in 1 .. j |-> f[n + i]]
    BY <1>1, <1>3
  <2>2. \A i \in 1 .. j : g[k + i] = f[n + i]
    <3>1. \A i \in 1 .. j : k + i \in 1 .. last - m /\ m + (k + i) = n + i
      BY <1>1
    <3>2. QED  BY <3>1
  <2> HIDE DEF b, g
  <2>3. QED  BY <2>1, <2>2
<1>6. c = [i \in 1 .. k + j |-> g[i]]
  <2>1. c = [i \in 1 .. last - m |-> f[m + i]]
    BY <1>1, <1>3
  <2>2. k + j = last - m
    BY <1>1
  <2> HIDE DEF c
  <2>3. QED  BY <2>1, <2>2
<1> HIDE DEF a, b, c, g, k, j
<1>7. AreCut(R, k, j, g, a, b, c)
  BY <1>2, <1>4, <1>5, <1>6 DEF AreCut
<1>8. /\ FlattenSeq(a) \in Seq(R) /\ FlattenSeq(b) \in Seq(R)
      /\ FlattenSeq(c) = FlattenSeq(a) \o FlattenSeq(b)
  BY ONLY <1>7, FlattenSplit
<1>9. QED  BY <1>8 DEF a, b, c, last

LEMMA FlattenOne ==
  ASSUME NEW R, NEW s \in Seq(R)
  PROVE  FlattenSeq(<<s>>) = s
<1> DEFINE g == [i \in 1 .. 1 |-> s]
<1>1. \A i \in 1 .. 0 + 1 : g[i] \in Seq(R)
  OBVIOUS
<1>2. g[0 + 1] = s /\ [i \in 1 .. 0 + 1 |-> g[i]] = <<s>>
  OBVIOUS
<1> HIDE DEF g
<1>3. FlattenSeq([i \in 1 .. 0 + 1 |-> g[i]]) = FlattenSeq([i \in 1 .. 0 |-> g[i]]) \o g[0 + 1]
  BY <1>1, FlattenNext
<1>4. FlattenSeq([i \in 1 .. 0 |-> g[i]]) = <<>>
  BY FlattenOfNone
<1>5. QED  BY <1>2, <1>3, <1>4, ConcatEmptySeq

LEMMA FlattenEmpty == FlattenSeq(<<>>) = <<>>
BY DEF FlattenSeq

LEMMA RestFacts ==
  ASSUME NEW R, NEW f \in Seq(Seq(R)), NEW n \in 0 .. Len(f)
  PROVE  /\ FlattenSeq(SubSeq(f, n + 1, Len(f))) \in Seq(R)
         /\ n = Len(f) => FlattenSeq(SubSeq(f, n + 1, Len(f))) = <<>>
         /\ n < Len(f) => /\ f[n + 1] \in Seq(R)
                          /\ FlattenSeq(SubSeq(f, n + 1, Len(f)))
                               = f[n + 1] \o FlattenSeq(SubSeq(f, (n + 1) + 1, Len(f)))
                          /\ FlattenSeq(SubSeq(f, (n + 1) + 1, Len(f))) \in Seq(R)
<1>1. Len(f) \in Nat /\ n \in n .. Len(f)
  OBVIOUS
<1>2. FlattenSeq(SubSeq(f, n + 1, Len(f))) \in Seq(R)
  BY <1>1, RestSplit
<1>3. ASSUME n = Len(f) PROVE FlattenSeq(SubSeq(f, n + 1, Len(f))) = <<>>
  <2>1. SubSeq(f, n + 1, Len(f)) = <<>>
    <3>1. n + 1 \in Int /\ Len(f) \in Int /\ Len(f) < n + 1
      BY <1>1, <1>3
    <3>2. QED  BY <3>1, SubSeqEmpty
  <2>2. QED  BY <2>1, FlattenEmpty
<1>4. ASSUME n < Len(f)
      PROVE  /\ f[n + 1] \in Seq(R)
             /\ FlattenSeq(SubSeq(f, n + 1, Len(f)))
                  = f[n + 1] \o FlattenSeq(SubSeq(f, (n + 1) + 1, Len(f)))
             /\ FlattenSeq(SubSeq(f, (n + 1) + 1, Len(f))) \in Seq(R)
  <2>1. n + 1 \in n .. Len(f) /\ n + 1 \in 1 .. Len(f) /\ n \in 0 .. Len(f)
    BY <1>1, <1>4
  <2>2. f[n + 1] \in Seq(R)
    BY <2>1, ElementOfSeq
  <2>3. SubSeq(f, n + 1, n + 1) = <<f[n + 1]>>
    <3> DEFINE s == SubSeq(f, n + 1, n + 1)
               t == <<f[n + 1]>>
    <3>1. /\ s \in Seq(Seq(R)) /\ Len(s) = 1 /\ s[1] = f[(n + 1) + 1 - 1]
      <4>1. n + 1 \in Int /\ \A i \in n + 1 .. n + 1 : f[i] \in Seq(R)
        BY <2>1, <2>2
      <4>2. /\ s \in Seq(Seq(R)) /\ Len(s) = (IF n + 1 <= n + 1 THEN (n + 1) - (n + 1) + 1 ELSE 0)
            /\ \A i \in 1 .. (n + 1) - (n + 1) + 1 : s[i] = f[(n + 1) + i - 1]
        BY <4>1, SubSeqProperties
      <4> HIDE DEF s
      <4>3. QED  BY <4>1, <4>2
    <3>2. t \in Seq(Seq(R)) /\ Len(t) = 1 /\ t[1] = f[n + 1] /\ (n + 1) + 1 - 1 = n + 1
      BY <2>1, <2>2
    <3> HIDE DEF s, t
    <3>3. s = t
      BY <3>1, <3>2, SeqEqual
    <3>4. QED  BY <3>3 DEF s, t
  <2>4. FlattenSeq(SubSeq(f, n + 1, n + 1)) = f[n + 1]
    BY <2>2, <2>3, FlattenOne
  <2>5. /\ FlattenSeq(SubSeq(f, (n + 1) + 1, Len(f))) \in Seq(R)
        /\ FlattenSeq(SubSeq(f, n + 1, Len(f)))
             = FlattenSeq(SubSeq(f, n + 1, n + 1)) \o FlattenSeq(SubSeq(f, (n + 1) + 1, Len(f)))
    BY <2>1, RestSplit
  <2>6. QED  BY <2>2, <2>4, <2>5
<1>5. QED  BY <1>2, <1>3, <1>4

Cursors(A, B, D) ==
  [next_block_offset : A, batch : B, next_batch_block_index : Nat, block : D, row_index : Nat]

\* A position in a file of blocks with rows of R, none of them empty.
IsPosition(c, file, R) ==
  /\ c \in Cursors(0 .. Len(file), Seq(Seq(R) \ {<<>>}), Seq(R))
  /\ c.next_batch_block_index <= Len(c.batch) /\ c.row_index <= Len(c.block)

\* The rows of a block, or of the blocks of a batch or a file, that are left.
RowsLeft(block, done) == SubSeq(block, done + 1, Len(block))
BlocksLeft(blocks, done) == FlattenSeq(SubSeq(blocks, done + 1, Len(blocks)))

LEMMA UnreadIs ==
  ASSUME NEW R, NEW file \in Seq(Seq(R) \ {<<>>}), NEW c, IsPosition(c, file, R)
  PROVE  /\ Unread(c, file) = (RowsLeft(c.block, c.row_index) \o BlocksLeft(c.batch, c.next_batch_block_index))
                                \o BlocksLeft(file, c.next_block_offset)
         /\ RowsLeft(c.block, c.row_index) \in Seq(R)
         /\ BlocksLeft(c.batch, c.next_batch_block_index) \in Seq(R)
         /\ BlocksLeft(file, c.next_block_offset) \in Seq(R)
         /\ Unread(c, file) \in Seq(R)
<1>1. /\ c.batch \in Seq(Seq(R)) /\ c.next_batch_block_index \in 0 .. Len(c.batch)
      /\ c.block \in Seq(R) /\ c.row_index \in Nat /\ Len(c.block) \in Nat
      /\ c.next_block_offset \in 0 .. Len(file) /\ file \in Seq(Seq(R))
  BY DEF IsPosition, Cursors
<1>2. Unread(c, file) = (RowsLeft(c.block, c.row_index) \o BlocksLeft(c.batch, c.next_batch_block_index))
                          \o BlocksLeft(file, c.next_block_offset)
  BY DEF Unread, RowsLeft, BlocksLeft
<1>3. RowsLeft(c.block, c.row_index) \in Seq(R)
  <2>1. \A i \in c.row_index + 1 .. Len(c.block) : c.block[i] \in R
    BY <1>1
  <2>2. QED  BY <1>1, <2>1, SubSeqProperties DEF RowsLeft
<1>4. BlocksLeft(c.batch, c.next_batch_block_index) \in Seq(R)
  BY <1>1, RestFacts DEF BlocksLeft
<1>5. BlocksLeft(file, c.next_block_offset) \in Seq(R)
  BY <1>1, RestFacts DEF BlocksLeft
<1>6. QED  BY <1>2, <1>3, <1>4, <1>5, ConcatProperties

\* advance_block finds no block when everything is read.
LEMMA NothingUnread ==
  ASSUME NEW R, NEW file \in Seq(Seq(R) \ {<<>>}), NEW c, IsPosition(c, file, R), AtEnd(c, file)
  PROVE  Unread(c, file) = <<>>
<1>1. /\ c.batch \in Seq(Seq(R)) /\ c.next_batch_block_index \in 0 .. Len(c.batch)
      /\ c.next_batch_block_index = Len(c.batch)
      /\ c.row_index \in Nat /\ Len(c.block) \in Nat /\ c.row_index = Len(c.block)
      /\ c.next_block_offset \in 0 .. Len(file) /\ file \in Seq(Seq(R))
      /\ c.next_block_offset = Len(file)
  BY DEF IsPosition, Cursors, AtEnd, BlockDone, BatchDone
<1>2. RowsLeft(c.block, c.row_index) = <<>>
  <2>1. c.row_index + 1 \in Int /\ Len(c.block) \in Int /\ Len(c.block) < c.row_index + 1
    BY <1>1
  <2>2. QED  BY <2>1, SubSeqEmpty DEF RowsLeft
<1>3. BlocksLeft(c.batch, c.next_batch_block_index) = <<>>
  BY <1>1, RestFacts DEF BlocksLeft
<1>4. BlocksLeft(file, c.next_block_offset) = <<>>
  BY <1>1, RestFacts DEF BlocksLeft
<1>5. <<>> \o <<>> = <<>>
  BY EmptySeq, ConcatEmptySeq
<1>6. QED  BY <1>2, <1>3, <1>4, <1>5, UnreadIs

\* load_next_batch moves blocks from the file to the batch.
LEMMA LoadKeepsUnread ==
  ASSUME NEW R, NEW file \in Seq(Seq(R) \ {<<>>}), NEW c, IsPosition(c, file, R),
         BatchDone(c), c.next_block_offset < Len(file)
  PROVE  LET d == LoadNextBatch(c, file)
         IN  /\ IsPosition(d, file, R) /\ ~BatchDone(d) /\ d.block = c.block /\ d.row_index = c.row_index
             /\ Unread(d, file) = Unread(c, file)
<1> DEFINE o == c.next_block_offset
           count == Smaller(Len(file) - o, BatchBlocks)
           p == o + count
           d == LoadNextBatch(c, file)
<1>1. /\ c \in Cursors(0 .. Len(file), Seq(Seq(R) \ {<<>>}), Seq(R))
      /\ c.batch \in Seq(Seq(R)) /\ c.next_batch_block_index \in 0 .. Len(c.batch)
      /\ c.next_batch_block_index = Len(c.batch)
      /\ o \in 0 .. Len(file) /\ o < Len(file) /\ Len(file) \in Nat /\ file \in Seq(Seq(R))
      /\ c.row_index <= Len(c.block)
  BY DEF IsPosition, Cursors, BatchDone
<1>2. count \in Nat /\ count > 0 /\ p \in o .. Len(file) /\ o < p
  <2>1. BatchBlocks \in Nat \ {0}
    BY ScanCursorAssumption
  <2>2. QED  BY <1>1, <2>1 DEF Smaller
<1> DEFINE b == SubSeq(file, o + 1, p)
<1>3. d = [c EXCEPT !.batch = b, !.next_batch_block_index = 0, !.next_block_offset = p]
  BY DEF LoadNextBatch
<1>4. b \in Seq(Seq(R) \ {<<>>}) /\ Len(b) = p - o
  <2>1. o + 1 \in Int /\ p \in Int /\ \A i \in o + 1 .. p : file[i] \in Seq(R) \ {<<>>}
    BY <1>1, <1>2, SMTT(30)
  <2>2. b \in Seq(Seq(R) \ {<<>>}) /\ Len(b) = (IF o + 1 <= p THEN p - (o + 1) + 1 ELSE 0)
    BY <2>1, SubSeqProperties
  <2> HIDE DEF b
  <2>3. QED  BY <1>1, <1>2, <2>2
<1>5. FlattenSeq(SubSeq(file, o + 1, Len(file))) = FlattenSeq(b) \o FlattenSeq(SubSeq(file, p + 1, Len(file)))
  BY <1>1, <1>2, RestSplit
<1> HIDE DEF d, p, b, o, count
<1>6. /\ d.batch = b /\ d.next_batch_block_index = 0 /\ d.next_block_offset = p
      /\ d.block = c.block /\ d.row_index = c.row_index
      /\ d \in Cursors(0 .. Len(file), Seq(Seq(R) \ {<<>>}), Seq(R))
  <2>1. p \in 0 .. Len(file) /\ 0 \in Nat
    BY <1>1, <1>2
  <2> DEFINE A == 0 .. Len(file)
             B == Seq(Seq(R) \ {<<>>})
             D == Seq(R)
  <2>2. c \in Cursors(A, B, D) /\ p \in A /\ b \in B
    BY <1>1, <1>2, <1>4, <2>1
  <2> HIDE DEF A, B, D
  <2>3. /\ d.batch = b /\ d.next_batch_block_index = 0
        /\ d.next_block_offset = p /\ d.block = c.block /\ d.row_index = c.row_index
        /\ d \in Cursors(A, B, D)
    BY <1>3, <2>1, <2>2 DEF Cursors
  <2>4. QED  BY <2>3 DEF A, B, D
<1>7. IsPosition(d, file, R) /\ ~BatchDone(d)
  BY <1>1, <1>2, <1>4, <1>6 DEF IsPosition, Cursors, BatchDone
<1>8. SubSeq(b, 0 + 1, Len(b)) = b
  BY <1>4, SubSeqFull
<1> DEFINE x == RowsLeft(c.block, c.row_index)
           y == FlattenSeq(b)
           z == BlocksLeft(file, p)
<1>9. /\ Unread(d, file) = (x \o y) \o z /\ x \in Seq(R) /\ y \in Seq(R) /\ z \in Seq(R)
  <2>1. RowsLeft(d.block, d.row_index) = x /\ BlocksLeft(d.batch, d.next_batch_block_index) = y
        /\ BlocksLeft(file, d.next_block_offset) = z
    BY <1>6, <1>8 DEF BlocksLeft
  <2> HIDE DEF x, y, z
  <2>2. QED  BY <1>7, <2>1, UnreadIs
<1>10. /\ Unread(c, file) = (x \o <<>>) \o (y \o z)
  <2>1. BlocksLeft(c.batch, c.next_batch_block_index) = <<>>
    BY <1>1, RestFacts DEF BlocksLeft
  <2>2. BlocksLeft(file, c.next_block_offset) = y \o z
    BY <1>5 DEF BlocksLeft, o
  <2>3. QED  BY <2>1, <2>2, UnreadIs
<1> HIDE DEF x, y, z
<1>11. x \o <<>> = x
  BY <1>9, ConcatEmptySeq
<1>12. (x \o y) \o z = x \o (y \o z)
  BY <1>9, ConcatAssociative
<1>13. Unread(d, file) = Unread(c, file)
  BY <1>9, <1>10, <1>11, <1>12
<1>14. QED  BY <1>6, <1>7, <1>13 DEF d

\* advance_block moves a block from the batch to the rows at hand, and the block has a row.
LEMMA AdvanceKeepsUnread ==
  ASSUME NEW R, NEW file \in Seq(Seq(R) \ {<<>>}), NEW c, IsPosition(c, file, R),
         BlockDone(c), ~BatchDone(c)
  PROVE  LET d == NextBlock(c)
         IN  IsPosition(d, file, R) /\ ~BlockDone(d) /\ Unread(d, file) = Unread(c, file)
<1> DEFINE n == c.next_batch_block_index
           b == c.batch[n + 1]
           d == NextBlock(c)
<1>1. /\ c \in Cursors(0 .. Len(file), Seq(Seq(R) \ {<<>>}), Seq(R))
      /\ c.batch \in Seq(Seq(R) \ {<<>>}) /\ c.batch \in Seq(Seq(R)) /\ n \in 0 .. Len(c.batch) /\ n < Len(c.batch) /\ Len(c.batch) \in Nat
      /\ c.row_index \in Nat /\ Len(c.block) \in Nat /\ c.row_index = Len(c.block)
  BY DEF IsPosition, Cursors, BatchDone, BlockDone
<1>2. b \in Seq(R) /\ b # <<>> /\ Len(b) \in Nat /\ Len(b) > 0
  <2>1. c.batch \in Seq(Seq(R) \ {<<>>}) /\ n + 1 \in 1 .. Len(c.batch)
    BY <1>1
  <2>2. b \in Seq(R) \ {<<>>}
    BY <2>1, ElementOfSeq
  <2> HIDE DEF b
  <2>3. QED  BY <2>2, EmptySeq
<1>3. d = [c EXCEPT !.block = b, !.next_batch_block_index = n + 1, !.row_index = 0]
  BY DEF NextBlock
<1>4. /\ BlocksLeft(c.batch, n) = b \o BlocksLeft(c.batch, n + 1)
      /\ BlocksLeft(c.batch, n + 1) \in Seq(R)
  BY <1>1, RestFacts DEF BlocksLeft
<1> HIDE DEF d, b, n
<1>5. /\ d.batch = c.batch /\ d.next_batch_block_index = n + 1
      /\ d.next_block_offset = c.next_block_offset /\ d.block = b /\ d.row_index = 0
      /\ d \in Cursors(0 .. Len(file), Seq(Seq(R) \ {<<>>}), Seq(R))
  <2>1. n + 1 \in Nat
    BY <1>1
  <2> DEFINE A == 0 .. Len(file)
             B == Seq(Seq(R) \ {<<>>})
             D == Seq(R)
  <2>2. c \in Cursors(A, B, D) /\ b \in D
    BY <1>1, <1>2, <2>1
  <2> HIDE DEF A, B, D
  <2>3. /\ d.batch = c.batch /\ d.next_batch_block_index = n + 1
        /\ d.next_block_offset = c.next_block_offset /\ d.block = b /\ d.row_index = 0
        /\ d \in Cursors(A, B, D)
    BY <1>3, <2>1, <2>2 DEF Cursors
  <2>4. QED  BY <2>3 DEF A, B, D
<1>6. IsPosition(d, file, R) /\ ~BlockDone(d)
  BY <1>1, <1>2, <1>5 DEF IsPosition, Cursors, BlockDone
<1> DEFINE y == BlocksLeft(c.batch, n + 1)
           z == BlocksLeft(file, c.next_block_offset)
<1>7. Unread(d, file) = (b \o y) \o z
  <2>1. RowsLeft(d.block, d.row_index) = b
    <3>1. SubSeq(b, 0 + 1, Len(b)) = b
      BY <1>2, SubSeqFull
    <3>2. QED  BY <1>5, <3>1 DEF RowsLeft
  <2>2. BlocksLeft(d.batch, d.next_batch_block_index) = y /\ BlocksLeft(file, d.next_block_offset) = z
    BY <1>5
  <2> HIDE DEF y, z
  <2>3. QED  BY <1>6, <2>1, <2>2, UnreadIs
<1>8. Unread(c, file) = (<<>> \o (b \o y)) \o z
  <2>1. RowsLeft(c.block, c.row_index) = <<>>
    <3>1. c.row_index + 1 \in Int /\ Len(c.block) \in Int /\ Len(c.block) < c.row_index + 1
      BY <1>1
    <3>2. QED  BY <3>1, SubSeqEmpty DEF RowsLeft
  <2>2. BlocksLeft(c.batch, c.next_batch_block_index) = b \o y
    BY <1>4 DEF n
  <2>3. QED  BY <2>1, <2>2, UnreadIs
<1>9. <<>> \o (b \o y) = b \o y
  BY <1>2, <1>4, ConcatProperties, ConcatEmptySeq
<1>10. QED  BY <1>6, <1>7, <1>8, <1>9 DEF d

\* The head of next_row's loop leaves a row to decode, and skips none.
LEMMA PositionedKeepsUnread ==
  ASSUME NEW R, NEW file \in Seq(Seq(R) \ {<<>>}), NEW c, IsPosition(c, file, R), ~AtEnd(c, file)
  PROVE  LET d == Positioned(c, file)
         IN  IsPosition(d, file, R) /\ ~BlockDone(d) /\ Unread(d, file) = Unread(c, file)
<1>1. CASE ~BlockDone(c)
  BY <1>1 DEF Positioned
<1>2. CASE BlockDone(c) /\ ~BatchDone(c)
  BY <1>2, AdvanceKeepsUnread DEF Positioned
<1>3. CASE BlockDone(c) /\ BatchDone(c)
  <2> DEFINE e == LoadNextBatch(c, file)
  <2>1. c.next_block_offset < Len(file)
    BY <1>3 DEF AtEnd, IsPosition, Cursors
  <2>2. /\ IsPosition(e, file, R) /\ ~BatchDone(e) /\ e.block = c.block /\ e.row_index = c.row_index
        /\ Unread(e, file) = Unread(c, file)
    BY <1>3, <2>1, LoadKeepsUnread
  <2>3. Positioned(c, file) = NextBlock(e)
    BY <1>3 DEF Positioned
  <2> HIDE DEF e
  <2>4. BlockDone(e)
    BY <1>3, <2>2 DEF BlockDone
  <2>5. /\ IsPosition(NextBlock(e), file, R) /\ ~BlockDone(NextBlock(e))
        /\ Unread(NextBlock(e), file) = Unread(e, file)
    BY <2>2, <2>4, AdvanceKeepsUnread
  <2>6. QED  BY <2>2, <2>3, <2>5
<1>4. QED  BY <1>1, <1>2, <1>3

\* The row that is decoded is the first one unread.
LEMMA RowIsFirstUnread ==
  ASSUME NEW R, NEW file \in Seq(Seq(R) \ {<<>>}), NEW c, IsPosition(c, file, R), ~BlockDone(c)
  PROVE  /\ IsPosition(PastRow(c), file, R) /\ PastRow(c) # c
         /\ Unread(c, file) = <<CurrentRow(c)>> \o Unread(PastRow(c), file)
         /\ CurrentRow(c) \in R
<1> DEFINE d == PastRow(c)
           n == c.row_index
<1>1. /\ c \in Cursors(0 .. Len(file), Seq(Seq(R) \ {<<>>}), Seq(R))
      /\ n \in Nat /\ Len(c.block) \in Nat /\ n < Len(c.block) /\ c.block \in Seq(R)
      /\ c.next_batch_block_index <= Len(c.batch)
  BY DEF IsPosition, Cursors, BlockDone
<1>2. d = [c EXCEPT !.row_index = n + 1]
  BY DEF PastRow
<1> HIDE DEF d, n
<1>3. /\ d.batch = c.batch /\ d.next_batch_block_index = c.next_batch_block_index
      /\ d.next_block_offset = c.next_block_offset /\ d.block = c.block /\ d.row_index = n + 1
      /\ d \in Cursors(0 .. Len(file), Seq(Seq(R) \ {<<>>}), Seq(R))
  <2>1. n + 1 \in Nat
    BY <1>1
  <2> DEFINE A == 0 .. Len(file)
             B == Seq(Seq(R) \ {<<>>})
             D == Seq(R)
  <2>2. c \in Cursors(A, B, D)
    BY <1>1, <1>2, <2>1
  <2> HIDE DEF A, B, D
  <2>3. /\ d.batch = c.batch /\ d.next_batch_block_index = c.next_batch_block_index
        /\ d.next_block_offset = c.next_block_offset /\ d.block = c.block /\ d.row_index = n + 1
        /\ d \in Cursors(A, B, D)
    BY <1>2, <2>1, <2>2 DEF Cursors
  <2>4. QED  BY <2>3 DEF A, B, D
<1>4. IsPosition(d, file, R) /\ d # c
  BY <1>1, <1>3 DEF IsPosition, Cursors, n
<1> DEFINE w == <<CurrentRow(c)>>
           x == RowsLeft(c.block, n + 1)
           y == BlocksLeft(c.batch, c.next_batch_block_index)
           z == BlocksLeft(file, c.next_block_offset)
<1>5. Unread(d, file) = (x \o y) \o z /\ x \in Seq(R) /\ y \in Seq(R) /\ z \in Seq(R)
  BY <1>3, <1>4, UnreadIs
<1>6. CurrentRow(c) \in R /\ w \in Seq(R)
  <2>1. n + 1 \in 1 .. Len(c.block)
    BY <1>1
  <2>2. QED  BY <1>1, <2>1, ElementOfSeq DEF CurrentRow, n
<1>7. RowsLeft(c.block, c.row_index) = w \o x
  <2>1. n + 1 \in 1 .. Len(c.block) /\ Len(c.block) \in n + 1 .. Len(c.block)
    BY <1>1
  <2>2. SubSeq(c.block, n + 1, Len(c.block)) = <<c.block[n + 1]>> \o SubSeq(c.block, (n + 1) + 1, Len(c.block))
    BY <1>1, <2>1, SubSeqRecursiveFirst
  <2>3. QED  BY <2>2 DEF RowsLeft, CurrentRow, n
<1>8. Unread(c, file) = ((w \o x) \o y) \o z
  BY <1>7, UnreadIs
<1> HIDE DEF w, x, y, z
<1>9. ((w \o x) \o y) \o z = w \o ((x \o y) \o z)
  <2>1. (w \o x) \o y = w \o (x \o y) /\ x \o y \in Seq(R)
    <3>1. x \o y \in Seq(R)
      BY <1>5, ConcatProperties
    <3>2. (w \o x) \o y = w \o (x \o y)
      BY <1>5, <1>6, ConcatAssociative, SMTT(30)
    <3>3. QED  BY <3>1, <3>2
  <2> DEFINE v == x \o y
  <2>2. (w \o v) \o z = w \o (v \o z)
    <3>1. v \in Seq(R) /\ w \in Seq(R) /\ z \in Seq(R)
      BY <1>5, <1>6, <2>1
    <3> HIDE DEF v
    <3>2. QED  BY ONLY <3>1, ConcatAssociative
  <2>3. QED  BY <2>1, <2>2
<1>10. QED  BY <1>4, <1>5, <1>6, <1>8, <1>9 DEF d, w

-----------------------------------------------------------------------------
(* A column whose statistics claim an order.                               *)

\* The number, or the place among the strings, that a value is compared by.
Rank(v) == IF v.type = "String" THEN v.rank ELSE NumberOf(v)

\* Values of a column that are not NaN are of one kind.
OneKind(a, b) == (a.type = "String") <=> (b.type = "String")

LEMMA RanksCompare ==
  ASSUME NEW a \in Values, NEW b \in Values, ~IsNaN(a), ~IsNaN(b), OneKind(a, b)
  PROVE  /\ Rank(a) \in Int /\ Rank(b) \in Int
         /\ CompareValues(a, b) = Order(Rank(a), Rank(b))
<1>1. CompareValues(a, b) = ExactOrder(a, b)
  BY ComparedByValue
<1>2. CASE a.type = "String" /\ b.type = "String"
  <2>1. a.rank \in Nat /\ b.rank \in Nat /\ ~IsNumber(a)
    BY <1>2, ValueFacts DEF IsNumber
  <2>2. ExactOrder(a, b) = Order(a.rank, b.rank)
    BY <1>2, <2>1 DEF ExactOrder
  <2>3. QED  BY <1>1, <1>2, <2>1, <2>2 DEF Rank
<1>3. CASE a.type # "String" /\ b.type # "String"
  <2>1. IsNumber(a) /\ IsNumber(b)
    BY <1>3, ValueFacts DEF IsNumber
  <2>2. ExactOrder(a, b) = Order(NumberOf(a), NumberOf(b))
    BY <2>1, ExactOrderOfNumbers
  <2>3. NumberOf(a) \in Int /\ NumberOf(b) \in Int
    BY <2>1, NumberType
  <2>4. QED  BY <1>1, <1>3, <2>2, <2>3 DEF Rank
<1>4. QED  BY <1>2, <1>3 DEF OneKind

\* Only values of one kind that are not NaN compare at all.
LEMMA ComparedAreOneKind ==
  ASSUME NEW a \in Values, NEW b \in Values, CompareValues(a, b) # "None"
  PROVE  ~IsNaN(a) /\ ~IsNaN(b) /\ OneKind(a, b)
<1>1. ExactOrder(a, b) # "None"
  BY ComparedByValue
<1>2. (IsNumber(a) /\ IsNumber(b)) \/ (a.type = "String" /\ b.type = "String")
  BY <1>1, NoExactOrder
<1>3. ASSUME NEW v, v.type = "String" PROVE ~IsNaN(v)
  BY <1>3 DEF IsNaN, IsFloat
<1>4. ASSUME NEW v, IsNumber(v) PROVE ~IsNaN(v) /\ v.type # "String"
  BY <1>4 DEF IsNumber, IsInt, IsFloat
<1>5. QED  BY <1>2, <1>3, <1>4 DEF OneKind

LEMMA SameValueIs ==
  ASSUME NEW a \in Values, NEW b \in Values
  PROVE  /\ SameValue(a, b) <=> CompareValues(a, b) = "Equal"
         /\ SameValue(a, b) => ~IsNaN(a) /\ ~IsNaN(b) /\ OneKind(a, b) /\ Rank(a) = Rank(b)
         /\ ~IsNaN(a) /\ ~IsNaN(b) /\ OneKind(a, b) /\ Rank(a) = Rank(b) => SameValue(a, b)
<1>1. SameValue(a, b) <=> CompareValues(a, b) = "Equal"
  BY ComparedByValue DEF SameValue
<1>2. CompareValues(a, b) = "Equal" => ~IsNaN(a) /\ ~IsNaN(b) /\ OneKind(a, b)
  BY ComparedAreOneKind
<1>3. ~IsNaN(a) /\ ~IsNaN(b) /\ OneKind(a, b) =>
        Rank(a) \in Int /\ Rank(b) \in Int /\ CompareValues(a, b) = Order(Rank(a), Rank(b))
  BY RanksCompare
<1>4. QED  BY <1>1, <1>2, <1>3, OrderIs

\* A column of a table: one type, and NaN only last.
IsColumn(s) ==
  /\ s \in Seq(Values) /\ s # <<>>
  /\ \A i \in DOMAIN s : OneKind(s[i], s[1]) /\ (IsNaN(s[i]) => i = Len(s))

\* Its order up to a NaN.
IsOrdered(s) ==
  \A i \in DOMAIN s, j \in DOMAIN s : i < j /\ ~IsNaN(s[j]) => Rank(s[i]) <= Rank(s[j])

Counters ==
  [ordered : BOOLEAN, last : Values, lower : Values, upper : Values, exact_distinct : SUBSET Values]

\* The claim of the statistics is that no value is greater than the next.
LEMMA ClaimIsOfNeighbours ==
  ASSUME NEW s \in Seq(Values), s # <<>>, Updated(NewStats(Head(s)), Tail(s)).ordered
  PROVE  \A i \in 1 .. Len(s) - 1 : CompareValues(s[i], s[i + 1]) # "Greater"
<1> DEFINE t == Tail(s)
           n == Len(t)
           base == NewStats(Head(s))
<1>1. /\ n \in Nat /\ Len(s) = n + 1 /\ t \in Seq(Values) /\ s[1] \in Values /\ Head(s) = s[1]
      /\ \A i \in 1 .. n : t[i] = s[i + 1] /\ s[i + 1] \in Values
  <2>1. Head(s) = s[1] /\ Tail(s) \in Seq(Values) /\ Len(Tail(s)) = Len(s) - 1 /\ Len(s) \in Nat
    BY SequenceTail
  <2>2. \A i \in 1 .. Len(s) - 1 : Tail(s)[i] = s[i + 1]
    BY SequenceTail
  <2>3. Len(s) >= 1
    OBVIOUS
  <2>4. \A i \in 1 .. Len(s) : s[i] \in Values
    OBVIOUS
  <2>5. n = Len(s) - 1
    BY <2>1
  <2>6. n \in Nat /\ Len(s) = n + 1 /\ 1 \in 1 .. Len(s)
    BY <2>1, <2>3, <2>5
  <2>7. \A i \in 1 .. n : i + 1 \in 1 .. Len(s) /\ i \in 1 .. Len(s) - 1
    BY <2>6
  <2>8. \A i \in 1 .. n : t[i] = s[i + 1] /\ s[i + 1] \in Values
    BY <2>2, <2>4, <2>7
  <2>9. t \in Seq(Values) /\ Head(s) = s[1] /\ s[1] \in Values
    BY <2>1, <2>4, <2>6
  <2>10. QED  BY <2>6, <2>8, <2>9, Zenon
<1> HIDE DEF t, n
<1>2. base \in Counters
  BY <1>1 DEF NewStats, Counters
<1>3. ASSUME NEW u \in Counters, NEW v \in Values PROVE Update(u, v) \in Counters
  BY DEF Update, Counters
<1> HIDE DEF base
<1>4. Updatable(Counters, Values, base, t)
  BY <1>1, <1>2, <1>3 DEF Updatable
<1>5. PICK g : AreUpdated(Counters, base, t, g)
  BY <1>4, UpdateStages
<1>6. /\ g \in [0 .. n -> Counters] /\ g[0] = base /\ Updated(base, t) = g[n]
      /\ \A k \in 0 .. n - 1 : g[k + 1] = Update(g[k], t[k + 1])
  BY <1>5 DEF AreUpdated, n
<1> DEFINE S == {k \in 0 .. n : /\ g[k].last = s[k + 1]
                                /\ g[k].ordered => \A i \in 1 .. k : CompareValues(s[i], s[i + 1]) # "Greater"}
<1>7. 0 \in S
  <2>1. g[0].last = s[0 + 1]
    BY <1>1, <1>6 DEF base, NewStats
  <2>2. QED  BY <1>1, <2>1
<1>8. ASSUME NEW k \in 0 .. n - 1, k \in S PROVE k + 1 \in S
  <2>1. k \in 0 .. n /\ k + 1 \in 1 .. n /\ k + 1 \in 0 .. n
    BY <1>1
  <2>2. g[k + 1] = Update(g[k], t[k + 1]) /\ t[k + 1] = s[(k + 1) + 1]
    BY <1>1, <1>6, <2>1
  <2>3. g[k + 1].last = s[(k + 1) + 1]
    BY <2>2 DEF Update
  <2>4. g[k + 1].ordered => g[k].ordered /\ CompareValues(s[k + 1], s[(k + 1) + 1]) # "Greater"
    <3>1. g[k + 1].ordered = (g[k].ordered /\ CompareValues(g[k].last, t[k + 1]) # "Greater")
      BY <2>2 DEF Update
    <3>2. g[k].last = s[k + 1]
      BY <1>8
    <3>3. QED  BY <2>2, <3>1, <3>2, Zenon
  <2>5. ASSUME g[k + 1].ordered, NEW i \in 1 .. k + 1
        PROVE  CompareValues(s[i], s[i + 1]) # "Greater"
    <3>1. i \in 1 .. k \/ i = k + 1
      BY <2>1
    <3>2. QED  BY <1>8, <2>4, <2>5, <3>1
  <2>6. QED  BY <2>1, <2>3, <2>5
<1> HIDE DEF S
<1>9. \A k \in 0 .. n : k \in S
  BY <1>1, <1>7, <1>8, AllUpTo
<1>10. g[n].ordered
  BY <1>6 DEF t, base
<1>11. n \in 0 .. n
  BY <1>1
<1>12. \A i \in 1 .. n : CompareValues(s[i], s[i + 1]) # "Greater"
  BY <1>9, <1>10, <1>11 DEF S
<1>13. Len(s) - 1 = n
  BY <1>1
<1>14. QED  BY <1>12, <1>13

LEMMA ClaimedIsOrdered ==
  ASSUME NEW s, IsColumn(s), Updated(NewStats(Head(s)), Tail(s)).ordered
  PROVE  IsOrdered(s)
<1> DEFINE n == Len(s)
<1>1. /\ s \in Seq(Values) /\ s # <<>> /\ n \in Nat /\ DOMAIN s = 1 .. n
      /\ \A i \in 1 .. n : s[i] \in Values /\ OneKind(s[i], s[1]) /\ (IsNaN(s[i]) => i = n)
  BY DEF IsColumn
<1>2. \A i \in 1 .. n - 1 : CompareValues(s[i], s[i + 1]) # "Greater"
  BY <1>1, ClaimIsOfNeighbours
<1> HIDE DEF n
<1>3. ASSUME NEW i \in 1 .. n - 1, ~IsNaN(s[i + 1])
      PROVE  Rank(s[i]) \in Int /\ Rank(s[i + 1]) \in Int /\ Rank(s[i]) <= Rank(s[i + 1])
  <2>1. i \in 1 .. n /\ i + 1 \in 1 .. n /\ i # n
    BY <1>1
  <2>2. ~IsNaN(s[i]) /\ OneKind(s[i], s[i + 1])
    BY <1>1, <2>1 DEF OneKind
  <2>3. /\ Rank(s[i]) \in Int /\ Rank(s[i + 1]) \in Int
        /\ CompareValues(s[i], s[i + 1]) = Order(Rank(s[i]), Rank(s[i + 1]))
    BY <1>1, <1>3, <2>1, <2>2, RanksCompare
  <2>4. Order(Rank(s[i]), Rank(s[i + 1])) # "Greater"
    BY <1>2, <2>3
  <2>5. \A x \in Int, y \in Int : Order(x, y) # "Greater" => x <= y
    BY DEF Order
  <2>6. QED  BY <2>3, <2>4, <2>5
<1>4. ASSUME NEW i \in 1 .. n, NEW j \in 1 .. n, i < j, ~IsNaN(s[j])
      PROVE  Rank(s[i]) <= Rank(s[j])
  <2> DEFINE m == j - i
             S == {k \in 0 .. m : k > 0 => Rank(s[i]) <= Rank(s[i + k]) /\ Rank(s[i]) \in Int /\ Rank(s[i + k]) \in Int}
  <2>1. m \in Nat /\ m \in 0 .. m /\ m > 0 /\ i + m = j
    BY <1>1, <1>4
  <2> HIDE DEF m
  <2>2. 0 \in S
    BY <2>1
  <2>3. ASSUME NEW k \in 0 .. m - 1, k \in S PROVE k + 1 \in S
    <3>1. k \in Nat /\ k + 1 \in 0 .. m /\ i + k \in 1 .. n - 1 /\ i + (k + 1) = (i + k) + 1
      BY <1>1, <2>1
    <3>2. ~IsNaN(s[(i + k) + 1])
      <4>1. (i + k) + 1 \in 1 .. n /\ ((i + k) + 1 = n => (i + k) + 1 = j)
        BY <1>1, <2>1, <3>1
      <4>2. QED  BY <1>1, <1>4, <4>1
    <3>3. /\ Rank(s[i + k]) \in Int /\ Rank(s[(i + k) + 1]) \in Int
          /\ Rank(s[i + k]) <= Rank(s[(i + k) + 1])
      BY <1>3, <3>1, <3>2
    <3>4. CASE k = 0
      <4>1. i + k = i
        BY <3>4
      <4>2. QED  BY <3>1, <3>3, <4>1
    <3>5. CASE k > 0
      <4>1. Rank(s[i]) <= Rank(s[i + k]) /\ Rank(s[i]) \in Int
        BY <2>3, <3>5
      <4>2. QED  BY <3>1, <3>3, <4>1
    <3>6. QED  BY <3>1, <3>4, <3>5
  <2> HIDE DEF S
  <2>4. \A k \in 0 .. m : k \in S
    BY <2>1, <2>2, <2>3, AllUpTo
  <2>5. m \in S
    BY <2>1, <2>4
  <2>6. QED  BY <2>1, <2>5 DEF S
<1>5. QED  BY <1>1, <1>4 DEF IsOrdered

-----------------------------------------------------------------------------
(* A cursor that has taken k rows of the stream s, whose file it reads.    *)

CursorAt(c, file, s, k) ==
  /\ IsPosition(c, file, ToSet(s))
  /\ k \in 0 .. Len(s)
  /\ Unread(c, file) = SubSeq(s, k + 1, Len(s))

IsFileOf(file, s) ==
  /\ s \in Seq(ToSet(s))
  /\ file \in Seq(Seq(ToSet(s)) \ {<<>>})
  /\ FlattenSeq(file) = s

LEMMA RestOfStream ==
  ASSUME NEW R, NEW s \in Seq(R), NEW k \in 0 .. Len(s)
  PROVE  /\ SubSeq(s, k + 1, Len(s)) \in Seq(R)
         /\ Len(SubSeq(s, k + 1, Len(s))) = Len(s) - k
         /\ k = Len(s) <=> SubSeq(s, k + 1, Len(s)) = <<>>
<1>1. \A i \in k + 1 .. Len(s) : s[i] \in R
  OBVIOUS
<1>2. /\ SubSeq(s, k + 1, Len(s)) \in Seq(R)
      /\ Len(SubSeq(s, k + 1, Len(s))) = IF k + 1 <= Len(s) THEN Len(s) - (k + 1) + 1 ELSE 0
  BY <1>1, SubSeqProperties
<1>3. Len(SubSeq(s, k + 1, Len(s))) = Len(s) - k
  BY <1>2
<1> DEFINE t == SubSeq(s, k + 1, Len(s))
<1>4. t \in Seq(R) /\ Len(t) = Len(s) - k
  BY <1>2, <1>3
<1> HIDE DEF t
<1>5. k = Len(s) <=> t = <<>>
  BY <1>4, EmptySeq
<1>6. QED  BY <1>4, <1>5 DEF t

LEMMA TakenIs ==
  ASSUME NEW file, NEW s, NEW c, NEW k, IsFileOf(file, s), CursorAt(c, file, s, k)
  PROVE  Len(s) - Len(Unread(c, file)) = k
<1>1. s \in Seq(ToSet(s)) /\ k \in 0 .. Len(s) /\ Unread(c, file) = SubSeq(s, k + 1, Len(s))
  BY DEF IsFileOf, CursorAt
<1>2. Len(Unread(c, file)) = Len(s) - k
  BY <1>1, RestOfStream
<1>3. QED  BY <1>1, <1>2

\* At the end of the file all rows are taken.
LEMMA AllTaken ==
  ASSUME NEW file, NEW s, NEW c, NEW k, IsFileOf(file, s), CursorAt(c, file, s, k), AtEnd(c, file)
  PROVE  k = Len(s) /\ Unread(c, file) = <<>>
<1>1. /\ s \in Seq(ToSet(s)) /\ file \in Seq(Seq(ToSet(s)) \ {<<>>})
      /\ IsPosition(c, file, ToSet(s)) /\ k \in 0 .. Len(s) /\ Unread(c, file) = SubSeq(s, k + 1, Len(s))
  BY DEF IsFileOf, CursorAt
<1>2. Unread(c, file) = <<>>
  BY <1>1, NothingUnread
<1>3. QED  BY <1>1, <1>2, RestOfStream

IsAtRow(file, s, c, k, at) ==
  IsFileOf(file, s) /\ CursorAt(c, file, s, k) /\ ~AtEnd(c, file) /\ at = Positioned(c, file)

\* Before it the row that is decoded is the next of the stream.
LEMMA NextTaken ==
  ASSUME NEW file, NEW s, NEW c, NEW k, NEW at, IsAtRow(file, s, c, k, at)
  PROVE  /\ k + 1 \in 1 .. Len(s) /\ CurrentRow(at) = s[k + 1]
         /\ CursorAt(PastRow(at), file, s, k + 1)
         /\ Unread(c, file) # <<>> /\ Head(Unread(c, file)) = s[k + 1]
         /\ Unread(PastRow(at), file) = Tail(Unread(c, file))
         /\ PastRow(at) # c
<1> DEFINE R == ToSet(s)
           x == CurrentRow(at)
           d == PastRow(at)
           u == Unread(d, file)
           w == Unread(c, file)
           n == Len(s)
<1>1. /\ s \in Seq(R) /\ file \in Seq(Seq(R) \ {<<>>})
      /\ IsPosition(c, file, R) /\ k \in 0 .. n /\ w = SubSeq(s, k + 1, n) /\ n \in Nat
      /\ ~AtEnd(c, file) /\ at = Positioned(c, file)
  BY DEF IsAtRow, IsFileOf, CursorAt
<1>2. IsPosition(at, file, R) /\ ~BlockDone(at) /\ Unread(at, file) = w
  BY <1>1, PositionedKeepsUnread
<1>3. IsPosition(d, file, R) /\ w = <<x>> \o u /\ x \in R
  BY <1>1, <1>2, RowIsFirstUnread
<1>4. u \in Seq(R)
  BY <1>1, <1>3, UnreadIs
<1> HIDE DEF R, x, d, u, w, n
<1>5. w # <<>> /\ Head(w) = x /\ Tail(w) = u /\ Len(w) = Len(u) + 1 /\ w[1] = x
      /\ \A i \in 1 .. Len(u) : u[i] = w[i + 1]
  <2>1. <<x>> \in Seq(R) /\ Len(<<x>>) = 1 /\ <<x>>[1] = x
    BY <1>3
  <2>2. <<x>> \o u \in Seq(R) /\ Len(<<x>> \o u) = 1 + Len(u)
        /\ \A i \in 1 .. 1 + Len(u) : (<<x>> \o u)[i] = IF i <= 1 THEN x ELSE u[i - 1]
    BY <1>4, <2>1, ConcatProperties
  <2>3. Len(u) \in Nat
    BY <1>4
  <2>4. w \in Seq(R) /\ Len(w) = Len(u) + 1 /\ w[1] = x /\ \A i \in 1 .. Len(u) : u[i] = w[i + 1]
    <3>1. \A i \in 1 .. Len(u) : i + 1 \in 1 .. 1 + Len(u) /\ ~(i + 1 <= 1) /\ (i + 1) - 1 = i
      BY <2>3
    <3>2. 1 \in 1 .. 1 + Len(u)
      BY <2>3
    <3>3. QED  BY <1>3, <2>2, <2>3, <3>1, <3>2
  <2>5. w # <<>> /\ Head(w) = x
    BY <2>3, <2>4
  <2>6. Tail(w) = u
    <3>1. Tail(w) \in Seq(R) /\ Len(Tail(w)) = Len(u) /\ \A i \in 1 .. Len(u) : Tail(w)[i] = w[i + 1]
      <4>1. /\ Tail(w) \in Seq(R) /\ Len(Tail(w)) = Len(w) - 1
            /\ \A i \in 1 .. Len(w) - 1 : Tail(w)[i] = w[i + 1]
        BY <2>4, <2>5, SequenceTail
      <4>2. Len(w) - 1 = Len(u)
        BY <2>3, <2>4
      <4>3. QED  BY <4>1, <4>2
    <3>2. \A i \in 1 .. Len(u) : Tail(w)[i] = u[i]
      BY <2>4, <3>1
    <3>3. QED  BY <1>4, <3>1, <3>2, SeqEqual
  <2>7. QED  BY <2>4, <2>5, <2>6
<1>6. Len(w) = n - k /\ Len(u) \in Nat
  BY <1>1, <1>4, RestOfStream DEF n
<1>7. k + 1 \in 1 .. n /\ k + 1 \in 0 .. n
  BY <1>1, <1>5, <1>6
<1>8. \A i \in 1 .. n - k : w[i] = s[k + i]
  <2>1. \A i \in k + 1 .. n : s[i] \in R
    BY <1>1 DEF n
  <2>2. \A i \in 1 .. n - (k + 1) + 1 : w[i] = s[(k + 1) + i - 1]
    BY <1>1, <2>1, SubSeqProperties
  <2>3. \A i \in 1 .. n - k : i \in 1 .. n - (k + 1) + 1 /\ (k + 1) + i - 1 = k + i
    BY <1>1
  <2>4. QED  BY <2>2, <2>3
<1>9. x = s[k + 1]
  <2>1. 1 \in 1 .. n - k
    BY <1>1, <1>7
  <2>2. QED  BY <1>5, <1>8, <2>1
<1>10. u = SubSeq(s, (k + 1) + 1, n)
  <2> DEFINE t == SubSeq(s, (k + 1) + 1, n)
  <2>1. t \in Seq(R) /\ Len(t) = n - (k + 1)
    BY <1>1, <1>7, RestOfStream DEF n
  <2>2. \A i \in 1 .. n - (k + 1) : t[i] = s[(k + 1) + i]
    <3>1. \A i \in (k + 1) + 1 .. n : s[i] \in R
      BY <1>1 DEF n
    <3>2. \A i \in 1 .. n - ((k + 1) + 1) + 1 : t[i] = s[((k + 1) + 1) + i - 1]
      BY <1>1, <3>1, SubSeqProperties
    <3>3. \A i \in 1 .. n - (k + 1) : i \in 1 .. n - ((k + 1) + 1) + 1 /\ ((k + 1) + 1) + i - 1 = (k + 1) + i
      BY <1>1
    <3>4. QED  BY <3>2, <3>3
  <2> HIDE DEF t
  <2>3. Len(u) = n - (k + 1)
    <3>1. \A a, b, x1, y1 \in Int : a = b - x1 /\ a = y1 + 1 => y1 = b - (x1 + 1)
      OBVIOUS
    <3>2. n \in Int /\ k \in Int /\ Len(u) \in Int /\ Len(w) \in Int
      BY <1>1, <1>5, <1>6
    <3>3. Len(w) = n - k /\ Len(w) = Len(u) + 1
      BY <1>5, <1>6
    <3>4. QED  BY ONLY <3>1, <3>2, <3>3
  <2>4. \A i \in 1 .. n - (k + 1) : u[i] = t[i]
    <3>1. \A i \in 1 .. n - (k + 1) : i + 1 \in 1 .. n - k /\ k + (i + 1) = (k + 1) + i
      BY <1>1
    <3>2. QED  BY <1>5, <1>8, <2>2, <2>3, <3>1
  <2>5. u = t
    BY <1>4, <2>1, <2>3, <2>4, SeqEqual
  <2>6. QED  BY <2>5 DEF t
<1>11. d # c
  <2>1. Len(u) # Len(w)
    BY <1>5, <1>6
  <2>2. QED  BY <2>1 DEF u, w
<1>12. CursorAt(d, file, s, k + 1)
  BY <1>3, <1>7, <1>10 DEF CursorAt, R, n, u
<1>13. QED  BY <1>5, <1>7, <1>9, <1>11, <1>12 DEF x, d, u, w, n

LEMMA NoneTaken ==
  ASSUME NEW file, NEW s, IsFileOf(file, s)
  PROVE  CursorAt(NewCursor, file, s, 0)
<1> DEFINE R == ToSet(s)
<1>1. /\ s \in Seq(R) /\ file \in Seq(Seq(R) \ {<<>>}) /\ FlattenSeq(file) = s
      /\ file \in Seq(Seq(R)) /\ Len(file) \in Nat /\ Len(s) \in Nat
  BY DEF IsFileOf
<1>2. IsPosition(NewCursor, file, R)
  <2> DEFINE A == 0 .. Len(file)
             B == Seq(Seq(R) \ {<<>>})
             D == Seq(R)
  <2>1. 0 \in A /\ <<>> \in B /\ <<>> \in D
    BY <1>1
  <2> HIDE DEF A, B, D
  <2>2. NewCursor \in Cursors(A, B, D)
    BY <2>1 DEF NewCursor, Cursors
  <2>3. NewCursor.next_batch_block_index <= Len(NewCursor.batch) /\ NewCursor.row_index <= Len(NewCursor.block)
    BY DEF NewCursor
  <2>4. QED  BY <2>2, <2>3 DEF IsPosition, A, B, D
<1>3. Unread(NewCursor, file) = s
  <2>1. Unread(NewCursor, file) = (RowsLeft(<<>>, 0) \o BlocksLeft(<<>>, 0)) \o BlocksLeft(file, 0)
    <3> DEFINE c == NewCursor
    <3>1. c.block = <<>> /\ c.row_index = 0 /\ c.batch = <<>> /\ c.next_batch_block_index = 0 /\ c.next_block_offset = 0
      BY DEF NewCursor
    <3>2. IsPosition(c, file, R)
      BY <1>2
    <3> HIDE DEF c
    <3>3. Unread(c, file) = (RowsLeft(c.block, c.row_index) \o BlocksLeft(c.batch, c.next_batch_block_index))
                              \o BlocksLeft(file, c.next_block_offset)
      BY <1>1, <3>2, UnreadIs
    <3>4. QED  BY <3>1, <3>3 DEF c
  <2>2. RowsLeft(<<>>, 0) = <<>>
    BY SubSeqEmpty DEF RowsLeft
  <2>3. BlocksLeft(<<>>, 0) = <<>>
    <3>1. SubSeq(<<>>, 0 + 1, Len(<<>>)) = <<>>
      BY SubSeqEmpty
    <3>2. QED  BY <3>1, FlattenEmpty DEF BlocksLeft
  <2>4. BlocksLeft(file, 0) = s
    <3>1. SubSeq(file, 0 + 1, Len(file)) = file
      BY <1>1, SubSeqFull
    <3>2. QED  BY <1>1, <3>1 DEF BlocksLeft
  <2>5. (<<>> \o <<>>) \o s = s
    <3>1. <<>> \o <<>> = <<>>
      BY EmptySeq, ConcatEmptySeq
    <3>2. <<>> \o s = s
      BY <1>1, ConcatEmptySeq
    <3>3. QED  BY <3>1, <3>2
  <2>6. QED  BY <2>1, <2>2, <2>3, <2>4, <2>5
<1>4. SubSeq(s, 0 + 1, Len(s)) = s
  BY <1>1, SubSeqFull
<1>5. QED  BY <1>1, <1>2, <1>3, <1>4 DEF CursorAt

-----------------------------------------------------------------------------
(* Rows sorted by their keys.                                              *)

SortedRows(s) ==
  /\ s \in Seq(ToSet(s)) /\ s # <<>>
  /\ \A i \in 1 .. Len(s) : /\ s[i].key \in Values /\ OneKind(s[i].key, s[1].key)
                            /\ IsNaN(s[i].key) => i = Len(s)
  /\ \A i, j \in 1 .. Len(s) : i < j /\ ~IsNaN(s[j].key) => Rank(s[i].key) <= Rank(s[j].key)

LEMMA RanksGrow ==
  ASSUME NEW s, SortedRows(s), NEW i \in 1 .. Len(s), NEW j \in 1 .. Len(s), i <= j, ~IsNaN(s[j].key)
  PROVE  /\ s[i].key \in Values /\ s[j].key \in Values /\ ~IsNaN(s[i].key)
         /\ OneKind(s[i].key, s[j].key)
         /\ Rank(s[i].key) \in Int /\ Rank(s[j].key) \in Int
         /\ Rank(s[i].key) <= Rank(s[j].key)
<1>1. Len(s) \in Nat
  BY DEF SortedRows
<1>2. /\ s[i].key \in Values /\ s[j].key \in Values
      /\ OneKind(s[i].key, s[1].key) /\ OneKind(s[j].key, s[1].key)
      /\ i < j => Rank(s[i].key) <= Rank(s[j].key)
      /\ IsNaN(s[i].key) => i = Len(s)
  BY DEF SortedRows
<1>3. ~IsNaN(s[i].key)
  BY <1>1, <1>2
<1>4. OneKind(s[i].key, s[j].key)
  BY <1>2 DEF OneKind
<1>5. Rank(s[i].key) \in Int /\ Rank(s[j].key) \in Int
  BY <1>2, <1>3, <1>4, RanksCompare
<1>6. i < j \/ i = j
  BY <1>1
<1>7. QED  BY <1>2, <1>3, <1>4, <1>5, <1>6

\* A smaller key matches no row of the rest.
LEMMA SmallerMatchesNone ==
  ASSUME NEW s, SortedRows(s), NEW i \in 1 .. Len(s), NEW j \in 1 .. Len(s), i <= j,
         NEW x \in Values, CompareValues(x, s[i].key) = "Less"
  PROVE  ~SameValue(x, s[j].key) /\ ~SameValue(s[j].key, x)
<1> SUFFICES ASSUME SameValue(x, s[j].key) \/ SameValue(s[j].key, x) PROVE FALSE
  OBVIOUS
<1>1. s[i].key \in Values /\ s[j].key \in Values
  BY DEF SortedRows
<1>2. ~IsNaN(s[j].key) /\ OneKind(x, s[j].key) /\ Rank(x) = Rank(s[j].key)
  <2>1. SameValue(x, s[j].key) => ~IsNaN(s[j].key) /\ OneKind(x, s[j].key) /\ Rank(x) = Rank(s[j].key)
    BY <1>1, SameValueIs
  <2>2. SameValue(s[j].key, x) => ~IsNaN(s[j].key) /\ OneKind(s[j].key, x) /\ Rank(x) = Rank(s[j].key)
    BY <1>1, SameValueIs
  <2>3. QED  BY <2>1, <2>2 DEF OneKind
<1>3. Rank(s[i].key) \in Int /\ Rank(s[i].key) <= Rank(s[j].key)
  BY <1>2, RanksGrow
<1>4. ~IsNaN(x) /\ ~IsNaN(s[i].key) /\ OneKind(x, s[i].key)
  BY <1>1, ComparedAreOneKind
<1>5. Rank(x) \in Int /\ CompareValues(x, s[i].key) = Order(Rank(x), Rank(s[i].key))
  BY <1>1, <1>4, RanksCompare
<1>6. \A a, b \in Int : Order(a, b) = "Less" => a < b
  BY DEF Order
<1>7. Rank(x) < Rank(s[i].key)
  BY <1>3, <1>5, <1>6
<1>8. QED  BY <1>2, <1>3, <1>5, <1>7

\* After a row with the key and one with another key there is none with the key.
LEMMA PastMatchesNone ==
  ASSUME NEW s, SortedRows(s), NEW i \in 1 .. Len(s), NEW j \in 1 .. Len(s), NEW m \in 1 .. Len(s),
         i < j, j <= m, NEW x \in Values, SameValue(s[i].key, x),
         CompareValues(s[j].key, x) \in {"Less", "Greater"}
  PROVE  ~SameValue(s[m].key, x)
<1> SUFFICES ASSUME SameValue(s[m].key, x) PROVE FALSE
  OBVIOUS
<1>1. s[i].key \in Values /\ s[j].key \in Values /\ s[m].key \in Values
  BY DEF SortedRows
<1>2. Rank(s[i].key) = Rank(x)
  BY <1>1, SameValueIs
<1>3. Rank(s[m].key) = Rank(x) /\ ~IsNaN(s[m].key)
  BY <1>1, SameValueIs
<1>4. ~IsNaN(s[j].key) /\ ~IsNaN(x) /\ OneKind(s[j].key, x)
  <2>1. CompareValues(s[j].key, x) # "None"
    OBVIOUS
  <2>2. QED  BY <1>1, <2>1, ComparedAreOneKind
<1>5. Rank(s[j].key) \in Int /\ Rank(x) \in Int /\ CompareValues(s[j].key, x) = Order(Rank(s[j].key), Rank(x))
  BY <1>1, <1>4, RanksCompare
<1>6. Rank(s[j].key) # Rank(x)
  BY <1>5, OrderIs
<1>7. Rank(s[i].key) <= Rank(s[j].key)
  <2>1. i <= j
    BY DEF SortedRows
  <2>2. QED  BY <1>4, <2>1, RanksGrow
<1>8. Rank(s[j].key) <= Rank(s[m].key)
  BY <1>3, RanksGrow
<1>9. QED  BY <1>2, <1>3, <1>5, <1>6, <1>7, <1>8

LEMMA SameValueJoins ==
  ASSUME NEW a \in Values, NEW b \in Values, NEW k \in Values, SameValue(a, k)
  PROVE  /\ SameValue(b, k) => SameValue(a, b)
         /\ SameValue(a, b) => SameValue(b, k)
         /\ SameValue(b, a) => SameValue(b, k)
<1>1. ~IsNaN(a) /\ ~IsNaN(k) /\ OneKind(a, k) /\ Rank(a) = Rank(k)
  BY SameValueIs
<1>2. SameValue(b, k) => ~IsNaN(b) /\ OneKind(b, k) /\ Rank(b) = Rank(k)
  BY SameValueIs
<1>3. SameValue(a, b) => ~IsNaN(b) /\ OneKind(a, b) /\ Rank(a) = Rank(b)
  BY SameValueIs
<1>4. SameValue(b, a) => ~IsNaN(b) /\ OneKind(b, a) /\ Rank(b) = Rank(a)
  BY SameValueIs
<1>5. ~IsNaN(b) /\ OneKind(a, b) /\ Rank(a) = Rank(b) => SameValue(a, b)
  BY <1>1, SameValueIs
<1>6. ~IsNaN(b) /\ OneKind(b, k) /\ Rank(b) = Rank(k) => SameValue(b, k)
  BY <1>1, SameValueIs
<1>7. QED  BY <1>1, <1>2, <1>3, <1>4, <1>5, <1>6 DEF OneKind

-----------------------------------------------------------------------------
(* The tables.                                                             *)

\* The rows of a side's stream.
Stream(side) == RowStream(input[side])

LEMMA StreamFacts ==
  ASSUME input \in Inputs, NEW side \in Sides
  PROVE  /\ RowsOf(side) = ToSet(Stream(side))
         /\ Stream(side) \in Seq(RowsOf(side)) /\ Stream(side) # <<>> /\ Len(Stream(side)) \in Nat \ {0}
         /\ \A i, j \in 1 .. Len(Stream(side)) : Stream(side)[i] = Stream(side)[j] => i = j
         /\ Sized(RowsOf(side)) /\ Absent \notin RowsOf(side)
         /\ \A r \in RowsOf(side) : r.accepted \in BOOLEAN /\ r.key \in Values
         /\ \A i \in 1 .. Len(Stream(side)) :
              /\ Stream(side)[i] \in RowsOf(side)
              /\ OneKind(Stream(side)[i].key, Stream(side)[1].key)
              /\ IsNaN(Stream(side)[i].key) => i = Len(Stream(side))
<1> DEFINE s == Stream(side)
<1>1. RowsOf(side) = ToSet(s)
  BY DEF RowsOf, Stream
<1>2. /\ s \in Seq(ToSet(s)) /\ s # <<>> /\ IsInjective(s) /\ Absent \notin ToSet(s)
      /\ \A i \in DOMAIN s :
           /\ s[i].size \in 1 .. Capacity /\ s[i].accepted \in BOOLEAN
           /\ s[i].key \in Values /\ s[i].key.type = s[1].key.type
           /\ IsNaN(s[i].key) => i = Len(s)
  BY OrderedMergeJoinAssumption DEF Stream
<1> HIDE DEF s
<1>3. Len(s) \in Nat \ {0} /\ DOMAIN s = 1 .. Len(s)
  BY <1>2, EmptySeq
<1>4. \A r \in ToSet(s) : \E i \in DOMAIN s : r = s[i]
  BY DEF ToSet
<1>5. \A i \in 1 .. Len(s) : s[i] \in ToSet(s)
  BY <1>3 DEF ToSet
<1>6. Sized(ToSet(s)) /\ \A r \in ToSet(s) : r.accepted \in BOOLEAN /\ r.key \in Values
  BY <1>2, <1>4 DEF Sized
<1>7. \A i, j \in 1 .. Len(s) : s[i] = s[j] => i = j
  BY <1>2, <1>3 DEF IsInjective
<1>8. \A i \in 1 .. Len(s) : OneKind(s[i].key, s[1].key)
  BY <1>2, <1>3 DEF OneKind
<1>9. QED  BY <1>1, <1>2, <1>3, <1>5, <1>6, <1>7, <1>8 DEF s

LEMMA TableFacts ==
  ASSUME input \in Inputs, NEW side \in Sides
  PROVE  /\ IsFileOf(SaveRowStream(Stream(side)), Stream(side))
         /\ IsPacked(SaveRowStream(Stream(side)), Stream(side))
<1>1. /\ RowsOf(side) = ToSet(Stream(side)) /\ Stream(side) \in Seq(RowsOf(side))
      /\ Sized(RowsOf(side))
  BY StreamFacts
<1>2. /\ SaveRowStream(Stream(side)) \in Seq(Seq(RowsOf(side)) \ {<<>>})
      /\ IsPacked(SaveRowStream(Stream(side)), Stream(side))
  BY <1>1, FileIsPacked
<1>3. QED  BY <1>1, <1>2 DEF IsFileOf, IsPacked

LEMMA OrderIsTrue ==
  ASSUME input \in Inputs, NEW side \in Sides,
         BuildStats(KeyColumn(Stream(side))).is_physically_ordered
  PROVE  SortedRows(Stream(side))
<1> DEFINE s == Stream(side)
           c == KeyColumn(s)
           n == Len(s)
<1>1. /\ s \in Seq(RowsOf(side)) /\ s # <<>> /\ n \in Nat \ {0} /\ DOMAIN s = 1 .. n
      /\ RowsOf(side) = ToSet(s)
      /\ \A i \in 1 .. n : /\ s[i].key \in Values /\ OneKind(s[i].key, s[1].key)
                           /\ IsNaN(s[i].key) => i = n
  <2>1. /\ s \in Seq(RowsOf(side)) /\ s # <<>> /\ n \in Nat \ {0} /\ RowsOf(side) = ToSet(s)
    BY StreamFacts
  <2>2. \A i \in 1 .. n : /\ s[i] \in RowsOf(side) /\ OneKind(s[i].key, s[1].key)
                          /\ IsNaN(s[i].key) => i = n
    BY StreamFacts
  <2>3. \A r \in RowsOf(side) : r.key \in Values
    BY StreamFacts
  <2> HIDE DEF s
  <2>4. DOMAIN s = 1 .. n
    BY <2>1
  <2> HIDE DEF n
  <2>5. QED  BY <2>1, <2>2, <2>3, <2>4
<1> HIDE DEF s, n
<1>2. c = [i \in 1 .. n |-> s[i].key]
  BY <1>1 DEF KeyColumn
<1> HIDE DEF c
<1>3. c \in Seq(Values) /\ Len(c) = n /\ DOMAIN c = 1 .. n /\ \A i \in 1 .. n : c[i] = s[i].key
  BY <1>1, <1>2
<1>4. c # <<>> /\ 1 \in 1 .. n
  BY <1>1, <1>3
<1>5. IsColumn(c)
  BY <1>1, <1>3, <1>4 DEF IsColumn
<1>6. Updated(NewStats(Head(c)), Tail(c)).ordered
  BY DEF BuildStats, Updated, c, s
<1>7. IsOrdered(c)
  BY <1>5, <1>6, ClaimedIsOrdered
<1>8. \A i, j \in 1 .. n : i < j /\ ~IsNaN(s[j].key) => Rank(s[i].key) <= Rank(s[j].key)
  BY <1>3, <1>7 DEF IsOrdered
<1>9. QED  BY <1>1, <1>8 DEF SortedRows, s, n

\* The rows of a stream from a place on.
RowsFrom(s, n) == {s[i] : i \in n .. Len(s)}

-----------------------------------------------------------------------------
(* The invariant.                                                          *)

\* What is unread of a side's table, and how many rows are taken.
Left(side) == Unread(cursor[side], table[side])
TakenOf(side) == Len(Stream(side)) - Len(Left(side))

\* The tables and the statistics do not change, and a join that is not declined relies on their order.
Generated ==
  /\ input \in Inputs
  /\ table = [side \in Sides |-> SaveRowStream(Stream(side))]
  /\ stats = [side \in Sides |-> BuildStats(KeyColumn(Stream(side)))]
  /\ progress # "declined" => \A side \in Sides : stats[side].is_physically_ordered

ControlInv ==
  /\ DOMAIN cursor = Sides /\ DOMAIN row = Sides /\ DOMAIN group = Sides
  /\ DOMAIN merged = RowsOf("left") \X RowsOf("right")
  /\ progress \in {"declined", "open", "compare", "collect_left", "collect_right", "emit", "done", "failed"}
  /\ advancing \in Sides \cup {"none"}
  /\ progress \in {"open", "collect_left"} => advancing # "right"
  /\ progress = "collect_right" => advancing # "left"
  /\ progress \in {"declined", "emit", "done", "failed"} => advancing = "none"
  /\ progress = "open" => row["right"] = Absent

CursorInv == \A side \in Sides : CursorAt(cursor[side], table[side], Stream(side), TakenOf(side))

ReadInv == Generated /\ ControlInv /\ CursorInv

\* Where the rows begin that the merge still has to look at.
From(side) == IF advancing = side \/ row[side] = Absent THEN TakenOf(side) + 1 ELSE TakenOf(side)
Pending(side) == RowsFrom(Stream(side), From(side))

\* A row at hand is the one taken last, and there is none only at the end.
RowInv ==
  \A side \in Sides : advancing # side =>
    /\ row[side] # Absent => /\ TakenOf(side) >= 1 /\ row[side] = Stream(side)[TakenOf(side)]
                             /\ row[side].accepted
    /\ row[side] = Absent => \/ TakenOf(side) = Len(Stream(side))
                             \/ side = "right" /\ progress = "open"

Grouping == progress \in {"collect_left", "collect_right", "emit"}
Grouped(side) == IF Grouping THEN ToSet(group[side]) ELSE {}
Unjoined(side) == Pending(side) \cup Grouped(side)
GroupKey == group["left"][1].key

\* A group holds accepted rows of the key, which are no longer pending.
GroupInv(side) ==
  /\ group[side] \in Seq(RowsOf(side))
  /\ \A r \in ToSet(group[side]) : r.accepted /\ SameValue(r.key, GroupKey)
  /\ group[side] # <<>> => \E i \in 1 .. From(side) - 1 : group[side][1] = Stream(side)[i]

\* A group that is complete leaves none of its key pending.
KeyPassed(side) == \A r \in Pending(side) : ~SameValue(r.key, GroupKey)

GroupsInv ==
  Grouping =>
    /\ \A side \in Sides : GroupInv(side)
    /\ group["left"] # <<>>
    /\ progress = "collect_left" =>
         group["right"] = <<>> /\ row["right"] # Absent /\ SameValue(row["right"].key, GroupKey)
    /\ progress # "collect_left" => group["right"] # <<>> /\ KeyPassed("left")
    /\ progress = "emit" => KeyPassed("right")

\* A pair of the join has reached the sink when one of its rows is no longer to be looked at.
IsUnjoined(pair) == pair[1] \in Unjoined("left") /\ pair[2] \in Unjoined("right")
MergedInv ==
  merged = [pair \in RowsOf("left") \X RowsOf("right") |->
              IF pair \in KeyMatches /\ ~IsUnjoined(pair) THEN 1 ELSE 0]

Live == progress \notin {"declined", "failed"}

MergeInv == ReadInv /\ (Live => RowInv /\ GroupsInv /\ MergedInv)

-----------------------------------------------------------------------------
(* Where the cursors are.                                                  *)

LEMMA FilesAre ==
  ASSUME Generated, NEW side \in Sides
  PROVE  IsFileOf(table[side], Stream(side))
<1>1. table[side] = SaveRowStream(Stream(side)) /\ input \in Inputs
  BY DEF Generated
<1>2. QED  BY <1>1, TableFacts

LEMMA StreamKept ==
  ASSUME UNCHANGED generated
  PROVE  /\ input' = input /\ table' = table /\ stats' = stats
         /\ \A side \in Sides : Stream(side)' = Stream(side) /\ RowsOf(side)' = RowsOf(side)
         /\ KeyMatches' = KeyMatches
<1>1. input' = input /\ table' = table /\ stats' = stats
  BY DEF generated
<1>2. \A side \in Sides : Stream(side)' = Stream(side) /\ RowsOf(side)' = RowsOf(side)
  BY <1>1 DEF Stream, RowsOf
<1>3. KeyMatches' = KeyMatches
  BY <1>1 DEF KeyMatches, RowsOf
<1>4. QED  BY <1>1, <1>2, <1>3

LEMMA CursorKept ==
  ASSUME CursorInv, UNCHANGED generated, NEW side \in Sides, cursor'[side] = cursor[side]
  PROVE  /\ TakenOf(side)' = TakenOf(side) /\ Left(side)' = Left(side)
         /\ CursorAt(cursor[side], table[side], Stream(side), TakenOf(side))'
<1>1. Stream(side)' = Stream(side) /\ table' = table
  BY StreamKept
<1>2. Left(side)' = Left(side)
  BY <1>1 DEF Left
<1>3. TakenOf(side)' = TakenOf(side)
  BY <1>1, <1>2 DEF TakenOf
<1>4. QED  BY <1>1, <1>2, <1>3 DEF CursorInv

LEMMA TakenType ==
  ASSUME Generated, CursorInv, NEW side \in Sides
  PROVE  /\ TakenOf(side) \in 0 .. Len(Stream(side)) /\ TakenOf(side) \in Nat
         /\ Len(Stream(side)) \in Nat \ {0}
<1>1. CursorAt(cursor[side], table[side], Stream(side), TakenOf(side))
  BY DEF CursorInv
<1>2. Len(Stream(side)) \in Nat \ {0}
  BY StreamFacts DEF Generated
<1>3. TakenOf(side) \in 0 .. Len(Stream(side))
  BY <1>1 DEF CursorAt
<1>4. QED  BY <1>2, <1>3

\* An iteration of next_row that finds a row.
LEMMA CursorMoved ==
  ASSUME Generated, CursorInv, UNCHANGED generated, NEW side \in Sides,
         ~AtEnd(cursor[side], table[side]), NEW at, at = Positioned(cursor[side], table[side]),
         cursor'[side] = PastRow(at)
  PROVE  /\ TakenOf(side) + 1 \in 1 .. Len(Stream(side))
         /\ CurrentRow(at) = Stream(side)[TakenOf(side) + 1]
         /\ TakenOf(side)' = TakenOf(side) + 1
         /\ CursorAt(cursor[side], table[side], Stream(side), TakenOf(side))'
         /\ Left(side) # <<>> /\ Head(Left(side)) = CurrentRow(at) /\ Left(side)' = Tail(Left(side))
         /\ cursor'[side] # cursor[side]
<1> DEFINE c == cursor[side]
           file == table[side]
           s == Stream(side)
           k == TakenOf(side)
<1>1. Stream(side)' = s /\ table' = table
  BY StreamKept
<1>2. IsFileOf(file, s)
  BY FilesAre
<1>3. CursorAt(c, file, s, k)
  BY DEF CursorInv
<1> HIDE DEF c, file, s, k
<1>4. /\ k + 1 \in 1 .. Len(s) /\ CurrentRow(at) = s[k + 1]
      /\ CursorAt(PastRow(at), file, s, k + 1)
      /\ Unread(c, file) # <<>> /\ Head(Unread(c, file)) = s[k + 1]
      /\ Unread(PastRow(at), file) = Tail(Unread(c, file))
      /\ PastRow(at) # c
  <2>1. ~AtEnd(c, file) /\ at = Positioned(c, file)
    BY DEF c, file
  <2>2. IsAtRow(file, s, c, k, at)
    BY <1>2, <1>3, <2>1 DEF IsAtRow
  <2>3. QED  BY <2>2, NextTaken
<1>5. Len(s) - Len(Unread(PastRow(at), file)) = k + 1
  BY <1>2, <1>4, TakenIs
<1>6. Left(side)' = Unread(PastRow(at), file) /\ Left(side) = Unread(c, file)
  BY <1>1 DEF Left, c, file
<1>7. TakenOf(side)' = k + 1
  BY <1>1, <1>5, <1>6 DEF TakenOf, s
<1>8. CursorAt(cursor[side], table[side], Stream(side), TakenOf(side))'
  BY <1>1, <1>4, <1>7 DEF c, file, s
<1>9. QED  BY <1>4, <1>6, <1>7, <1>8 DEF c, file, s, k

LEMMA CursorEnded ==
  ASSUME Generated, CursorInv, NEW side \in Sides, AtEnd(cursor[side], table[side])
  PROVE  TakenOf(side) = Len(Stream(side)) /\ Left(side) = <<>>
<1>1. IsFileOf(table[side], Stream(side))
  BY FilesAre
<1>2. CursorAt(cursor[side], table[side], Stream(side), TakenOf(side))
  BY DEF CursorInv
<1>3. QED  BY <1>1, <1>2, AllTaken DEF Left

-----------------------------------------------------------------------------
(* The base of the invariant is kept by every step.                        *)

LEMMA ReadInvInit == MergeInit => ReadInv
<1> SUFFICES ASSUME MergeInit PROVE ReadInv
  OBVIOUS
<1>1. /\ input \in Inputs
      /\ table = [side \in Sides |-> SaveRowStream(RowStream(input[side]))]
      /\ stats = [side \in Sides |-> BuildStats(KeyColumn(RowStream(input[side])))]
      /\ progress \in {"declined"} \cup
           IF \A side \in Sides : stats[side].is_physically_ordered THEN {"open"} ELSE {}
      /\ advancing = IF progress = "open" THEN "left" ELSE "none"
      /\ cursor = [side \in Sides |-> NewCursor]
      /\ row = [side \in Sides |-> Absent]
      /\ group = [side \in Sides |-> <<>>]
      /\ merged = [pair \in RowsOf("left") \X RowsOf("right") |-> 0]
  BY DEF MergeInit
<1>2. Generated
  BY <1>1 DEF Generated, Stream
<1>3. ControlInv
  <2>1. DOMAIN cursor = Sides /\ DOMAIN row = Sides /\ DOMAIN group = Sides
    BY <1>1
  <2>2. DOMAIN merged = RowsOf("left") \X RowsOf("right")
    BY <1>1
  <2>3. (progress = "open" /\ advancing = "left") \/ (progress = "declined" /\ advancing = "none")
    BY <1>1
  <2>4. row["right"] = Absent
    BY <1>1 DEF Sides
  <2>5. QED  BY <2>1, <2>2, <2>3, <2>4 DEF ControlInv, Sides
<1>4. CursorInv
  <2> SUFFICES ASSUME NEW side \in Sides
               PROVE  CursorAt(cursor[side], table[side], Stream(side), TakenOf(side))
    BY DEF CursorInv
  <2>1. IsFileOf(table[side], Stream(side))
    BY <1>2, FilesAre
  <2>2. CursorAt(NewCursor, table[side], Stream(side), 0)
    BY <2>1, NoneTaken
  <2>3. cursor[side] = NewCursor
    BY <1>1
  <2>4. TakenOf(side) = 0
    BY <2>1, <2>2, <2>3, TakenIs DEF TakenOf, Left
  <2>5. QED  BY <2>2, <2>3, <2>4
<1>5. QED  BY <1>2, <1>3, <1>4 DEF ReadInv

LEMMA GeneratedKept ==
  ASSUME Generated, UNCHANGED generated, progress = "declined" => progress' = "declined"
  PROVE  Generated'
<1>1. input' = input /\ table' = table /\ stats' = stats /\ \A side \in Sides : Stream(side)' = Stream(side)
  BY StreamKept
<1>2. table' = [side \in Sides |-> SaveRowStream(Stream(side)')]
  BY <1>1 DEF Generated
<1>3. stats' = [side \in Sides |-> BuildStats(KeyColumn(Stream(side)'))]
  BY <1>1 DEF Generated
<1>4. progress' # "declined" => \A side \in Sides : stats'[side].is_physically_ordered
  BY <1>1 DEF Generated
<1>5. QED  BY <1>1, <1>2, <1>3, <1>4 DEF Generated

\* No step moves a cursor but an iteration of next_row.
LEMMA CursorsKept ==
  ASSUME CursorInv, UNCHANGED <<generated, cursor>>
  PROVE  CursorInv' /\ \A side \in Sides : TakenOf(side)' = TakenOf(side) /\ Left(side)' = Left(side)
<1>1. \A side \in Sides : cursor'[side] = cursor[side]
  OBVIOUS
<1>2. QED  BY <1>1, CursorKept DEF CursorInv

LEMMA SidesAre == /\ "left" \in Sides /\ "right" \in Sides /\ "none" \notin Sides
                  /\ \A side \in Sides : side = "left" \/ side = "right"
                  /\ \A side \in Sides : OtherSide(side) \in Sides /\ OtherSide(side) # side
                  /\ \A side \in Sides : \A z \in Sides : z = side \/ z = OtherSide(side)
BY DEF Sides, OtherSide

\* No step changes what was generated, and a join that is declined stays so.
LEMMA GeneratedStays ==
  ASSUME ControlInv, [MergeNext]_mergevars
  PROVE  UNCHANGED generated /\ (progress = "declined" => progress' = "declined")
<1> DEFINE P == UNCHANGED generated /\ (progress = "declined" => progress' = "declined")
<1>1. progress = "declined" => advancing = "none"
  BY DEF ControlInv
<1>2. \A side \in Sides : side # "none"
  BY SidesAre
<1>3. ASSUME NEW side \in Sides, ReadRow(side) PROVE P
  BY <1>3, <1>1, <1>2 DEF ReadRow
<1>4. ASSUME NEW side \in Sides, RejectRow(side) PROVE P
  BY <1>4, <1>1, <1>2 DEF RejectRow
<1>5. ASSUME NEW side \in Sides, EndOfTable(side) PROVE P
  BY <1>5, <1>1, <1>2 DEF EndOfTable
<1>6. ASSUME NEW side \in Sides, PassOver(side) PROVE P
  BY <1>6 DEF PassOver, Comparing
<1>7. OpenRight => P
  BY DEF OpenRight
<1>8. StartGroups => P
  BY DEF StartGroups, Comparing
<1>9. CollectLeft => P
  BY DEF CollectLeft, Collect
<1>10. LeftCollected => P
  BY DEF LeftCollected
<1>11. CollectRight => P
  BY DEF CollectRight, Collect
<1>12. RightCollected => P
  BY DEF RightCollected
<1>13. EmitGroups => P
  BY DEF EmitGroups
<1>14. Finish => P
  BY DEF Finish
<1>15. Incomparable => P
  <2>1. ASSUME Incomparable PROVE progress # "declined"
    BY <2>1 DEF Incomparable, Comparing
  <2>2. QED  BY <2>1 DEF Incomparable
<1>16. MergeFail => P
  BY <1>1 DEF MergeFail
<1>17. UNCHANGED mergevars => P
  BY DEF mergevars
<1> HIDE DEF P
<1>18. P
  BY <1>3, <1>4, <1>5, <1>6, <1>7, <1>8, <1>9, <1>10, <1>11, <1>12, <1>13, <1>14, <1>15, <1>16, <1>17
     DEF MergeNext, MergeEnded
<1>19. QED  BY <1>18 DEF P

\* An assignment to one side.
LEMMA OneSide ==
  ASSUME NEW f, DOMAIN f = Sides, NEW side \in Sides, NEW v, NEW g, g = [f EXCEPT ![side] = v]
  PROVE  DOMAIN g = Sides /\ g[side] = v /\ \A z \in Sides : z # side => g[z] = f[z]
OBVIOUS

LEMMA ControlStep ==
  ASSUME ControlInv, [MergeNext]_mergevars
  PROVE  ControlInv'
<1>1. /\ DOMAIN cursor = Sides /\ DOMAIN row = Sides /\ DOMAIN group = Sides
      /\ DOMAIN merged = RowsOf("left") \X RowsOf("right")
      /\ progress \in {"declined", "open", "compare", "collect_left", "collect_right", "emit", "done", "failed"}
      /\ advancing \in Sides \cup {"none"}
      /\ progress \in {"open", "collect_left"} => advancing # "right"
      /\ progress = "collect_right" => advancing # "left"
      /\ progress \in {"declined", "emit", "done", "failed"} => advancing = "none"
      /\ progress = "open" => row["right"] = Absent
  BY DEF ControlInv
<1>2. UNCHANGED generated
  BY GeneratedStays
<1>3. RowsOf("left")' = RowsOf("left") /\ RowsOf("right")' = RowsOf("right")
  BY <1>2, StreamKept, SidesAre
<1>4. DOMAIN cursor' = Sides /\ DOMAIN row' = Sides /\ DOMAIN group' = Sides
  <2> DEFINE P == DOMAIN cursor' = Sides /\ DOMAIN row' = Sides /\ DOMAIN group' = Sides
  <2>1. ASSUME NEW side \in Sides, ReadRow(side) PROVE P
    BY <1>1, <2>1 DEF ReadRow
  <2>2. ASSUME NEW side \in Sides, RejectRow(side) PROVE P
    BY <1>1, <2>2 DEF RejectRow
  <2>3. ASSUME NEW side \in Sides, EndOfTable(side) PROVE P
    BY <1>1, <2>3 DEF EndOfTable
  <2>4. StartGroups => P
    <3>1. DOMAIN [left |-> <<row["left"]>>, right |-> <<>>] = Sides
      BY DEF Sides
    <3>2. QED  BY <1>1, <3>1 DEF StartGroups
  <2>5. CollectLeft => P
    BY <1>1 DEF CollectLeft, Collect
  <2>6. LeftCollected => P
    BY <1>1 DEF LeftCollected
  <2>7. CollectRight => P
    BY <1>1 DEF CollectRight, Collect
  <2>8. UNCHANGED <<cursor, row, group>> => P
    BY <1>1
  <2> HIDE DEF P
  <2>9. P
    BY <2>1, <2>2, <2>3, <2>4, <2>5, <2>6, <2>7, <2>8
       DEF MergeNext, MergeEnded, mergevars, PassOver, OpenRight, RightCollected, EmitGroups, Finish,
           Incomparable, MergeFail
  <2>10. QED  BY <2>9 DEF P
<1>5. DOMAIN merged' = DOMAIN merged
  <2>1. \A n : DOMAIN MergedAfter(n) = DOMAIN merged
    BY DEF MergedAfter
  <2>2. EmitGroups \/ MergeFail => DOMAIN merged' = DOMAIN merged
    BY <2>1 DEF EmitGroups, MergeFail
  <2>3. UNCHANGED merged => DOMAIN merged' = DOMAIN merged
    OBVIOUS
  <2>4. QED  BY <2>2, <2>3
       DEF MergeNext, MergeEnded, mergevars, ReadRow, RejectRow, EndOfTable, PassOver, OpenRight, StartGroups,
           CollectLeft, CollectRight, Collect, LeftCollected, RightCollected, Finish, Incomparable
<1> DEFINE Q ==
      /\ progress' \in {"declined", "open", "compare", "collect_left", "collect_right", "emit", "done", "failed"}
      /\ advancing' \in Sides \cup {"none"}
      /\ progress' \in {"open", "collect_left"} => advancing' # "right"
      /\ progress' = "collect_right" => advancing' # "left"
      /\ progress' \in {"declined", "emit", "done", "failed"} => advancing' = "none"
      /\ progress' = "open" => row'["right"] = Absent
<1>6. Q
  <2>1. ASSUME NEW side \in Sides, ReadRow(side) PROVE Q
    <3>1. progress' = progress /\ advancing' = "none" /\ advancing = side
      BY <2>1 DEF ReadRow
    <3>2. progress = "open" => row'["right"] = row["right"]
      <4>1. progress = "open" => side # "right"
        BY <1>1, <3>1
      <4>2. side # "right" => row'["right"] = row["right"]
        BY <1>1, <2>1, SidesAre DEF ReadRow
      <4>3. QED  BY <4>1, <4>2
    <3>3. QED  BY <1>1, <3>1, <3>2, SidesAre
  <2>2. ASSUME NEW side \in Sides, RejectRow(side) PROVE Q
    <3>1. progress' = progress /\ advancing' = advancing /\ row' = row
      BY <2>2 DEF RejectRow
    <3>2. QED  BY <1>1, <3>1
  <2>3. ASSUME NEW side \in Sides, EndOfTable(side) PROVE Q
    <3>1. progress' = progress /\ advancing' = "none" /\ advancing = side
      BY <2>3 DEF EndOfTable
    <3>2. progress = "open" => row'["right"] = row["right"]
      <4>1. progress = "open" => side # "right"
        BY <1>1, <3>1
      <4>2. side # "right" => row'["right"] = row["right"]
        BY <1>1, <2>3, SidesAre DEF EndOfTable
      <4>3. QED  BY <4>1, <4>2
    <3>3. QED  BY <1>1, <3>1, <3>2, SidesAre
  <2>4. ASSUME NEW side \in Sides, PassOver(side) PROVE Q
    <3>1. progress' = "compare" /\ advancing' = side
      BY <2>4 DEF PassOver, Comparing
    <3>2. QED  BY <3>1
  <2>5. OpenRight => Q
    BY SidesAre DEF OpenRight
  <2>6. StartGroups => Q
    BY SidesAre DEF StartGroups
  <2>7. CollectLeft => Q
    BY SidesAre DEF CollectLeft, Collect
  <2>8. LeftCollected => Q
    BY SidesAre DEF LeftCollected
  <2>9. CollectRight => Q
    BY SidesAre DEF CollectRight, Collect
  <2>10. RightCollected => Q
    BY <1>1 DEF RightCollected
  <2>11. EmitGroups => Q
    BY <1>1 DEF EmitGroups
  <2>12. Finish => Q
    BY <1>1 DEF Finish
  <2>13. Incomparable => Q
    BY <1>1 DEF Incomparable
  <2>14. MergeFail => Q
    BY DEF MergeFail
  <2>15. UNCHANGED mergevars => Q
    BY <1>1 DEF mergevars
  <2> HIDE DEF Q
  <2>16. QED  BY <2>1, <2>2, <2>3, <2>4, <2>5, <2>6, <2>7, <2>8, <2>9, <2>10, <2>11, <2>12, <2>13, <2>14, <2>15
              DEF MergeNext, MergeEnded
<1>7. QED  BY <1>1, <1>3, <1>4, <1>5, <1>6 DEF ControlInv

\* A cursor moves only past the next row of its stream.
LEMMA ReadStep ==
  ASSUME ReadInv, UNCHANGED generated, NEW side \in Sides,
         ~AtEnd(cursor[side], table[side]), NEW at, at = Positioned(cursor[side], table[side]),
         cursor' = [cursor EXCEPT ![side] = PastRow(at)]
  PROVE  /\ CursorInv'
         /\ TakenOf(side)' = TakenOf(side) + 1 /\ TakenOf(side) + 1 \in 1 .. Len(Stream(side))
         /\ CurrentRow(at) = Stream(side)[TakenOf(side) + 1]
         /\ Left(side) # <<>> /\ Head(Left(side)) = CurrentRow(at) /\ Left(side)' = Tail(Left(side))
         /\ cursor'[side] # cursor[side]
         /\ \A z \in Sides : z # side => /\ TakenOf(z)' = TakenOf(z) /\ cursor'[z] = cursor[z]
                                         /\ Left(z)' = Left(z)
<1>1. Generated /\ CursorInv /\ DOMAIN cursor = Sides
  BY DEF ReadInv, ControlInv
<1>2. cursor'[side] = PastRow(at) /\ \A z \in Sides : z # side => cursor'[z] = cursor[z]
  BY <1>1, OneSide
<1>3. /\ TakenOf(side) + 1 \in 1 .. Len(Stream(side))
      /\ CurrentRow(at) = Stream(side)[TakenOf(side) + 1]
      /\ TakenOf(side)' = TakenOf(side) + 1
      /\ CursorAt(cursor[side], table[side], Stream(side), TakenOf(side))'
      /\ Left(side) # <<>> /\ Head(Left(side)) = CurrentRow(at) /\ Left(side)' = Tail(Left(side))
      /\ cursor'[side] # cursor[side]
  BY <1>1, <1>2, CursorMoved
<1>4. ASSUME NEW z \in Sides, z # side
      PROVE  /\ TakenOf(z)' = TakenOf(z) /\ Left(z)' = Left(z)
             /\ CursorAt(cursor[z], table[z], Stream(z), TakenOf(z))'
  <2>1. cursor'[z] = cursor[z]
    BY <1>2, <1>4
  <2>2. QED  BY <1>1, <2>1, CursorKept
<1>5. CursorInv'
  <2>1. \A z \in Sides : CursorAt(cursor[z], table[z], Stream(z), TakenOf(z))'
    BY <1>3, <1>4
  <2>2. QED  BY <2>1 DEF CursorInv
<1>6. QED  BY <1>2, <1>3, <1>4, <1>5

LEMMA ReadInvStep ==
  ASSUME ReadInv, [MergeNext]_mergevars
  PROVE  ReadInv'
<1>1. Generated /\ ControlInv /\ CursorInv
  BY DEF ReadInv
<1>2. UNCHANGED generated /\ (progress = "declined" => progress' = "declined")
  BY <1>1, GeneratedStays
<1>3. Generated'
  BY <1>1, <1>2, GeneratedKept
<1>4. ControlInv'
  BY <1>1, ControlStep
<1>5. CursorInv'
  <2>1. ASSUME NEW side \in Sides, ReadRow(side) PROVE CursorInv'
    <3> DEFINE at == Positioned(cursor[side], table[side])
    <3>1. ~AtEnd(cursor[side], table[side]) /\ cursor' = [cursor EXCEPT ![side] = PastRow(at)]
      BY <2>1 DEF ReadRow
    <3>2. QED  BY <1>2, <3>1, ReadStep
  <2>2. ASSUME NEW side \in Sides, RejectRow(side) PROVE CursorInv'
    <3> DEFINE at == Positioned(cursor[side], table[side])
    <3>1. ~AtEnd(cursor[side], table[side]) /\ cursor' = [cursor EXCEPT ![side] = PastRow(at)]
      BY <2>2 DEF RejectRow
    <3>2. QED  BY <1>2, <3>1, ReadStep
  <2>3. UNCHANGED cursor => CursorInv'
    BY <1>1, <1>2, CursorsKept
  <2>4. QED  BY <2>1, <2>2, <2>3
       DEF MergeNext, MergeEnded, mergevars, EndOfTable, PassOver, OpenRight, StartGroups,
           CollectLeft, CollectRight, Collect, LeftCollected, RightCollected, EmitGroups, Finish, Incomparable,
           MergeFail
<1>6. QED  BY <1>3, <1>4, <1>5 DEF ReadInv

\* A cursor loses no row and repeats none.
LEMMA ReadsInOrder ==
  ASSUME ReadInv, [MergeNext]_mergevars, NEW side \in Sides
  PROVE  /\ cursor'[side] # cursor[side] =>
              /\ Left(side) # <<>> /\ Left(side)' = Tail(Left(side))
              /\ row'[side] \in {row[side], Head(Left(side))}
         /\ row'[side] # row[side] =>
              \/ row'[side] = Absent /\ Left(side) = <<>>
              \/ row'[side] # Absent /\ cursor'[side] # cursor[side]
<1> DEFINE P == /\ cursor'[side] # cursor[side] =>
                     /\ Left(side) # <<>> /\ Left(side)' = Tail(Left(side))
                     /\ row'[side] \in {row[side], Head(Left(side))}
                /\ row'[side] # row[side] =>
                     \/ row'[side] = Absent /\ Left(side) = <<>>
                     \/ row'[side] # Absent /\ cursor'[side] # cursor[side]
<1>1. Generated /\ ControlInv /\ CursorInv
  BY DEF ReadInv
<1>2. UNCHANGED generated
  BY <1>1, GeneratedStays
<1>3. DOMAIN row = Sides /\ DOMAIN cursor = Sides /\ input \in Inputs
  BY <1>1 DEF ControlInv, Generated
<1>4. ASSUME NEW z \in Sides, ReadRow(z) PROVE P
  <2> DEFINE at == Positioned(cursor[z], table[z])
  <2>1. /\ ~AtEnd(cursor[z], table[z]) /\ cursor' = [cursor EXCEPT ![z] = PastRow(at)]
        /\ row' = [row EXCEPT ![z] = CurrentRow(at)]
    BY <1>4 DEF ReadRow
  <2>2. /\ TakenOf(z) + 1 \in 1 .. Len(Stream(z)) /\ CurrentRow(at) = Stream(z)[TakenOf(z) + 1]
        /\ Left(z) # <<>> /\ Head(Left(z)) = CurrentRow(at) /\ Left(z)' = Tail(Left(z))
        /\ cursor'[z] # cursor[z]
        /\ \A y \in Sides : y # z => cursor'[y] = cursor[y]
    BY <1>2, <2>1, ReadStep
  <2>3. CurrentRow(at) # Absent
    BY <1>3, <2>2, StreamFacts
  <2> HIDE DEF at
  <2>4. row'[z] = CurrentRow(at) /\ \A y \in Sides : y # z => row'[y] = row[y]
    BY <1>3, <2>1, OneSide
  <2>5. CASE side = z
    BY <2>2, <2>3, <2>4, <2>5
  <2>6. CASE side # z
    BY <2>2, <2>4, <2>6
  <2>7. QED  BY <2>5, <2>6
<1>5. ASSUME NEW z \in Sides, RejectRow(z) PROVE P
  <2> DEFINE at == Positioned(cursor[z], table[z])
  <2>1. /\ ~AtEnd(cursor[z], table[z]) /\ cursor' = [cursor EXCEPT ![z] = PastRow(at)]
        /\ row' = row
    BY <1>5 DEF RejectRow
  <2>2. /\ Left(z) # <<>> /\ Left(z)' = Tail(Left(z)) /\ \A y \in Sides : y # z => cursor'[y] = cursor[y]
    BY <1>2, <2>1, ReadStep
  <2>3. QED  BY <2>1, <2>2
<1>6. ASSUME NEW z \in Sides, EndOfTable(z) PROVE P
  <2>1. AtEnd(cursor[z], table[z]) /\ row' = [row EXCEPT ![z] = Absent] /\ cursor' = cursor
    BY <1>6 DEF EndOfTable
  <2>2. Left(z) = <<>>
    BY <1>1, <2>1, CursorEnded
  <2>3. row'[z] = Absent /\ \A y \in Sides : y # z => row'[y] = row[y]
    BY <1>3, <2>1, OneSide
  <2>4. QED  BY <2>1, <2>2, <2>3
<1>7. UNCHANGED <<cursor, row>> => P
  OBVIOUS
<1> HIDE DEF P
<1>8. P
  BY <1>4, <1>5, <1>6, <1>7
     DEF MergeNext, MergeEnded, mergevars, PassOver, OpenRight, StartGroups, CollectLeft, CollectRight,
         Collect, LeftCollected, RightCollected, EmitGroups, Finish, Incomparable, MergeFail
<1>9. QED  BY <1>8 DEF P

-----------------------------------------------------------------------------
(* What every state has of tables, values and cursors.                     *)

(* In every state the tables are those of the inputs, a merge that was     *)
(* not declined has ordered columns, and each cursor has what it has not   *)
(* taken of its table still before it (next_row, load_next_batch).         *)
THEOREM ReadInvHolds == MergeSpec => []ReadInv
<1>1. MergeInit => ReadInv
  BY ReadInvInit
<1>2. ReadInv /\ [MergeNext]_mergevars => ReadInv'
  BY ReadInvStep
<1>3. QED  BY <1>1, <1>2, PTL DEF MergeSpec

(* The file of any table has its rows, whole and in order, in blocks of    *)
(* which none is empty, for every size of rows and blocks                  *)
(* (save_row_stream_to_file).                                              *)
THEOREM FilesArePacked == MergeSpec => []TableIsPacked
<1>1. ReadInv => TableIsPacked
  <2>1. ASSUME ReadInv, NEW side \in Sides PROVE IsPacked(table[side], RowStream(input[side]))
    <3>1. input \in Inputs /\ table[side] = SaveRowStream(Stream(side))
      BY <2>1 DEF ReadInv, Generated
    <3>2. IsPacked(table[side], Stream(side))
      BY <3>1, TableFacts
    <3>3. QED  BY <3>2 DEF Stream
  <2>2. QED  BY <2>1 DEF TableIsPacked
<1>2. QED  BY <1>1, ReadInvHolds, PTL

LEMMA KeysAreValues ==
  ASSUME ReadInv
  PROVE  Keys \subseteq Values
<1>1. ASSUME NEW side \in Sides PROVE ToSet(KeyColumn(RowStream(input[side]))) \subseteq Values
  <2> DEFINE s == RowStream(input[side])
  <2>1. /\ s \in Seq(RowsOf(side)) /\ \A r \in RowsOf(side) : r.key \in Values
    BY StreamFacts DEF ReadInv, Generated, Stream
  <2> HIDE DEF s
  <2>2. \A i \in DOMAIN s : s[i].key \in Values
    BY <2>1
  <2>3. ToSet(KeyColumn(s)) \subseteq Values
    BY <2>2 DEF ToSet, KeyColumn
  <2>4. QED  BY <2>3 DEF s
<1>2. QED  BY <1>1 DEF Keys

(* Values of any width of integers and precision of floats compare as the  *)
(* numbers they stand for (compare_values).                                *)
THEOREM ComparisonIsByValue == MergeSpec => []ComparesByValue
<1>1. ReadInv => ComparesByValue
  BY KeysAreValues, ComparedByValue DEF ComparesByValue
<1>2. QED  BY <1>1, ReadInvHolds, PTL

(* Keys that compare as equal enter a digest as the same bytes, whatever   *)
(* their types and widths (hash_join_value).                               *)
THEOREM EqualKeysHashAlike == MergeSpec => []EqualKeysMeet
<1>1. ReadInv => EqualKeysMeet
  BY KeysAreValues, EqualValuesMeet DEF EqualKeysMeet
<1>2. QED  BY <1>1, ReadInvHolds, PTL

(* A cursor skips no row and repeats none, wherever blocks and batches of  *)
(* any size end (next_row, advance_block, load_next_batch).                *)
THEOREM CursorsReadInOrder == MergeSpec => RowsReadInOrder
<1> DEFINE A == \A side \in Sides :
       LET before == Unread(cursor[side], table[side])
           after  == Unread(cursor[side], table[side])'
       IN  /\ cursor[side]' # cursor[side] =>
                /\ before # <<>> /\ after = Tail(before)
                /\ row[side]' \in {row[side], Head(before)}
           /\ row[side]' # row[side] =>
                \/ row[side]' = Absent /\ before = <<>>
                \/ row[side]' # Absent /\ cursor[side]' # cursor[side]
<1>1. ReadInv /\ [MergeNext]_mergevars => [A]_mergevars
  <2> SUFFICES ASSUME ReadInv, [MergeNext]_mergevars PROVE A
    OBVIOUS
  <2>1. QED  BY ReadsInOrder DEF Left
<1> HIDE DEF A
<1>2. MergeSpec => [][A]_mergevars
  BY <1>1, ReadInvHolds, PTL DEF MergeSpec
<1>3. QED  BY <1>2 DEF A, RowsReadInOrder

-----------------------------------------------------------------------------
(* The rows that are pending and the groups.                               *)

LEMMA RowsFromFacts ==
  ASSUME NEW R, NEW s \in Seq(R), NEW n \in 1 .. Len(s) + 1
  PROVE  /\ RowsFrom(s, n) \subseteq R
         /\ \A m \in n .. Len(s) + 1 : RowsFrom(s, m) \subseteq RowsFrom(s, n)
         /\ n = Len(s) + 1 => RowsFrom(s, n) = {}
         /\ n <= Len(s) => RowsFrom(s, n) = {s[n]} \cup RowsFrom(s, n + 1) /\ s[n] \in R
         /\ \A r \in RowsFrom(s, n) : \E i \in n .. Len(s) : i \in 1 .. Len(s) /\ r = s[i]
<1>1. Len(s) \in Nat /\ \A i \in 1 .. Len(s) : s[i] \in R
  OBVIOUS
<1> DEFINE l == Len(s)
<1> HIDE DEF l
<1>2. l \in Nat /\ n \in 1 .. l + 1 /\ \A i \in 1 .. l : s[i] \in R
  BY <1>1 DEF l
<1>3. \A i \in n .. l : i \in 1 .. l
  BY <1>2
<1>4. \A m : RowsFrom(s, m) = {s[i] : i \in m .. l}
  BY DEF RowsFrom, l
<1>5. \A m \in n .. l + 1 : \A i \in m .. l : i \in n .. l
  BY <1>2
<1>6. n = l + 1 => n .. l = {}
  BY <1>2
<1>7. n <= l => n \in 1 .. l /\ n .. l = {n} \cup (n + 1 .. l)
  BY <1>2
<1>8. RowsFrom(s, n) \subseteq R /\ \A r \in RowsFrom(s, n) : \E i \in n .. l : i \in 1 .. l /\ r = s[i]
  BY <1>2, <1>3, <1>4
<1>9. \A m \in n .. l + 1 : RowsFrom(s, m) \subseteq RowsFrom(s, n)
  BY <1>4, <1>5
<1>10. n = l + 1 => RowsFrom(s, n) = {}
  BY <1>4, <1>6
<1>11. n <= l => RowsFrom(s, n) = {s[n]} \cup RowsFrom(s, n + 1) /\ s[n] \in R
  BY <1>2, <1>4, <1>7
<1>12. QED  BY <1>8, <1>9, <1>10, <1>11 DEF l

LEMMA PlacesAre ==
  ASSUME ReadInv, RowInv, NEW side \in Sides
  PROVE  /\ TakenOf(side) \in 0 .. Len(Stream(side)) /\ Len(Stream(side)) \in Nat \ {0}
         /\ From(side) \in 1 .. Len(Stream(side)) + 1
         /\ Stream(side) \in Seq(RowsOf(side))
         /\ advancing = side => From(side) = TakenOf(side) + 1
         /\ row[side] = Absent => From(side) = TakenOf(side) + 1
         /\ advancing # side /\ row[side] # Absent =>
              /\ From(side) = TakenOf(side) /\ TakenOf(side) \in 1 .. Len(Stream(side))
              /\ row[side] = Stream(side)[TakenOf(side)] /\ row[side].accepted
              /\ row[side] \in RowsOf(side) /\ row[side].key \in Values
              /\ Pending(side) = {row[side]} \cup RowsFrom(Stream(side), TakenOf(side) + 1)
<1>1. Generated /\ CursorInv /\ input \in Inputs
  BY DEF ReadInv, Generated
<1>2. TakenOf(side) \in 0 .. Len(Stream(side)) /\ Len(Stream(side)) \in Nat \ {0}
  BY <1>1, TakenType
<1>3. Stream(side) \in Seq(RowsOf(side))
  BY <1>1, StreamFacts
<1>4. advancing # side /\ row[side] # Absent =>
        TakenOf(side) >= 1 /\ row[side] = Stream(side)[TakenOf(side)] /\ row[side].accepted
  BY DEF RowInv
<1>5. From(side) \in 1 .. Len(Stream(side)) + 1
  BY <1>2, <1>4 DEF From
<1>6. ASSUME advancing # side, row[side] # Absent
      PROVE  /\ From(side) = TakenOf(side) /\ TakenOf(side) \in 1 .. Len(Stream(side))
             /\ row[side] \in RowsOf(side) /\ row[side].key \in Values
             /\ Pending(side) = {row[side]} \cup RowsFrom(Stream(side), TakenOf(side) + 1)
  <2>1. From(side) = TakenOf(side) /\ TakenOf(side) \in 1 .. Len(Stream(side))
    BY <1>2, <1>4, <1>6 DEF From
  <2>2. TakenOf(side) \in 1 .. Len(Stream(side)) + 1 /\ TakenOf(side) <= Len(Stream(side))
    BY <1>2, <2>1
  <2>3. /\ RowsFrom(Stream(side), TakenOf(side))
             = {Stream(side)[TakenOf(side)]} \cup RowsFrom(Stream(side), TakenOf(side) + 1)
        /\ Stream(side)[TakenOf(side)] \in RowsOf(side)
    BY <1>3, <2>2, RowsFromFacts
  <2>4. row[side] = Stream(side)[TakenOf(side)]
    BY <1>4, <1>6
  <2>5. row[side].key \in Values
    BY <1>1, <2>3, <2>4, StreamFacts
  <2>6. QED  BY <2>1, <2>3, <2>4, <2>5 DEF Pending
<1>7. QED  BY <1>2, <1>3, <1>4, <1>5, <1>6 DEF From

LEMMA SortedStreams ==
  ASSUME ReadInv, progress # "declined", NEW side \in Sides
  PROVE  SortedRows(Stream(side))
<1>1. /\ input \in Inputs
      /\ stats[side] = BuildStats(KeyColumn(Stream(side))) /\ stats[side].is_physically_ordered
  BY DEF ReadInv, Generated
<1>2. QED  BY <1>1, OrderIsTrue

\* What is pending stays so where the merge looks from the same place.
LEMMA SamePending ==
  ASSUME UNCHANGED generated, NEW side \in Sides, From(side)' = From(side)
  PROVE  Pending(side)' = Pending(side)
<1>1. Stream(side)' = Stream(side)
  BY StreamKept
<1>2. QED  BY <1>1 DEF Pending

LEMMA MatchFacts ==
  ASSUME NEW pair \in KeyMatches
  PROVE  /\ pair \in RowsOf("left") \X RowsOf("right")
         /\ pair[1] \in RowsOf("left") /\ pair[2] \in RowsOf("right") /\ pair = <<pair[1], pair[2]>>
         /\ pair[1].accepted /\ pair[2].accepted /\ SameValue(pair[1].key, pair[2].key)
BY DEF KeyMatches

LEMMA SameMerged ==
  ASSUME MergedInv, UNCHANGED <<generated, merged>>, \A pair \in KeyMatches : IsUnjoined(pair)' <=> IsUnjoined(pair)
  PROVE  MergedInv'
<1>1. /\ KeyMatches' = KeyMatches
      /\ RowsOf("left")' = RowsOf("left") /\ RowsOf("right")' = RowsOf("right")
  BY StreamKept, SidesAre
<1>2. merged' = [pair \in RowsOf("left") \X RowsOf("right") |->
                   IF pair \in KeyMatches /\ ~IsUnjoined(pair) THEN 1 ELSE 0]
  BY DEF MergedInv
<1>3. \A pair : (pair \in KeyMatches /\ ~IsUnjoined(pair)) <=> (pair \in KeyMatches' /\ ~IsUnjoined(pair)')
  BY <1>1
<1>4. merged' = [pair \in RowsOf("left")' \X RowsOf("right")' |->
                   IF pair \in KeyMatches' /\ ~IsUnjoined(pair)' THEN 1 ELSE 0]
  BY <1>1, <1>2, <1>3
<1>5. QED  BY <1>4 DEF MergedInv

LEMMA SameUnjoined ==
  ASSUME \A side \in Sides : Unjoined(side)' = Unjoined(side)
  PROVE  \A pair : IsUnjoined(pair)' <=> IsUnjoined(pair)
<1>1. Unjoined("left")' = Unjoined("left") /\ Unjoined("right")' = Unjoined("right")
  BY SidesAre
<1>2. QED  BY <1>1 DEF IsUnjoined

\* While rows are read for a group, the groups stay as they are.
LEMMA SameGroups ==
  ASSUME ReadInv, GroupsInv, UNCHANGED <<generated, progress, group>>,
         progress = "collect_left" => row'["right"] = row["right"],
         \A side \in Sides : /\ Pending(side)' \subseteq Pending(side)
                             /\ From(side) \in Int /\ From(side)' \in Int /\ From(side) <= From(side)'
  PROVE  GroupsInv'
<1>1. GroupKey' = GroupKey /\ (Grouping' <=> Grouping)
  BY DEF GroupKey, Grouping
<1>2. SUFFICES ASSUME Grouping PROVE GroupsInv'
  BY <1>1 DEF GroupsInv
<1>3. ASSUME NEW side \in Sides PROVE GroupInv(side)' /\ (KeyPassed(side) => KeyPassed(side)')
  <2>1. GroupInv(side)
    BY <1>2 DEF GroupsInv
  <2>2. Stream(side)' = Stream(side) /\ RowsOf(side)' = RowsOf(side)
    BY StreamKept
  <2>3. group[side] # <<>> => \E i \in 1 .. From(side)' - 1 : group[side][1] = Stream(side)[i]
    <3>1. \A i \in 1 .. From(side) - 1 : i \in 1 .. From(side)' - 1
      OBVIOUS
    <3>2. QED  BY <2>1, <3>1 DEF GroupInv
  <2>4. GroupInv(side)'
    BY <1>1, <2>1, <2>2, <2>3 DEF GroupInv
  <2>5. KeyPassed(side) => KeyPassed(side)'
    BY <1>1 DEF KeyPassed
  <2>6. QED  BY <2>4, <2>5
<1>4. QED  BY <1>1, <1>2, <1>3, SidesAre DEF GroupsInv

LEMMA KeyType ==
  ASSUME ReadInv, GroupsInv, Grouping
  PROVE  GroupKey \in Values /\ group["left"][1] \in ToSet(group["left"]) /\ SameValue(GroupKey, GroupKey)
<1>1. group["left"] \in Seq(RowsOf("left")) /\ group["left"] # <<>>
  BY SidesAre DEF GroupsInv, GroupInv
<1>2. 1 \in 1 .. Len(group["left"])
  BY <1>1
<1>3. group["left"][1] \in ToSet(group["left"]) /\ group["left"][1] \in RowsOf("left")
  BY <1>1, <1>2, ToSetType
<1>4. GroupKey \in Values
  BY <1>3, StreamFacts, SidesAre DEF GroupKey, ReadInv, Generated
<1>5. SameValue(group["left"][1].key, GroupKey)
  BY <1>3, SidesAre DEF GroupsInv, GroupInv
<1>6. QED  BY <1>3, <1>4, <1>5 DEF GroupKey

\* A row with another key, or the end of the table, after a group.
LEMMA GroupPassed ==
  ASSUME ReadInv, RowInv, GroupsInv, Grouping, NEW side \in Sides, advancing # side,
         group[side] # <<>>, PastGroup(side)
  PROVE  KeyPassed(side)
<1> DEFINE s == Stream(side)
<1>1. SortedRows(s)
  BY SortedStreams DEF Grouping
<1>2. /\ TakenOf(side) \in 0 .. Len(s) /\ Len(s) \in Nat /\ s \in Seq(RowsOf(side))
      /\ From(side) \in 1 .. Len(s) + 1
      /\ row[side] = Absent => From(side) = TakenOf(side) + 1
      /\ row[side] # Absent => /\ From(side) = TakenOf(side) /\ TakenOf(side) \in 1 .. Len(s)
                               /\ row[side] = s[TakenOf(side)]
  BY PlacesAre
<1>3. CASE row[side] = Absent
  <2>1. TakenOf(side) = Len(s)
    BY <1>3 DEF RowInv, Grouping
  <2>2. Pending(side) = {}
    BY <1>2, <1>3, <2>1, RowsFromFacts DEF Pending
  <2>3. QED  BY <2>2 DEF KeyPassed
<1>4. CASE row[side] # Absent
  <2>1. CompareValues(s[TakenOf(side)].key, GroupKey) \in {"Less", "Greater"}
    BY <1>2, <1>4 DEF PastGroup, GroupOrder, GroupKey
  <2>2. GroupInv(side)
    BY DEF GroupsInv
  <2>3. PICK i \in 1 .. From(side) - 1 : group[side][1] = s[i]
    BY <2>2 DEF GroupInv
  <2>4. i \in 1 .. Len(s) /\ i < TakenOf(side)
    BY <1>2, <1>4
  <2>5. SameValue(s[i].key, GroupKey)
    <3>1. group[side] \in Seq(RowsOf(side)) /\ 1 \in 1 .. Len(group[side])
      BY <2>2 DEF GroupInv
    <3>2. group[side][1] \in ToSet(group[side])
      BY <3>1, ToSetType
    <3>3. QED  BY <2>2, <2>3, <3>2 DEF GroupInv
  <2>6. GroupKey \in Values
    BY KeyType
  <2>7. ASSUME NEW r \in Pending(side) PROVE ~SameValue(r.key, GroupKey)
    <3>1. PICK m \in From(side) .. Len(s) : m \in 1 .. Len(s) /\ r = s[m]
      BY <1>2, RowsFromFacts DEF Pending
    <3>2. TakenOf(side) <= m /\ TakenOf(side) \in 1 .. Len(s)
      BY <1>2, <1>4
    <3> HIDE DEF s
    <3>3. QED  BY <1>1, <2>1, <2>4, <2>5, <2>6, <3>1, <3>2, PastMatchesNone
  <2>8. QED  BY <2>7 DEF KeyPassed
<1>5. QED  BY <1>3, <1>4

LiveInv == RowInv /\ GroupsInv /\ MergedInv

LEMMA LiveInit == MergeInit => (Live => LiveInv)
<1> SUFFICES ASSUME MergeInit, Live PROVE LiveInv
  OBVIOUS
<1>1. ReadInv
  BY ReadInvInit
<1>2. /\ progress = "open" /\ advancing = "left"
      /\ row = [side \in Sides |-> Absent]
      /\ merged = [pair \in RowsOf("left") \X RowsOf("right") |-> 0]
  BY DEF MergeInit, Live
<1>3. RowInv
  BY <1>2, SidesAre DEF RowInv
<1>4. GroupsInv
  BY <1>2 DEF GroupsInv, Grouping
<1>5. MergedInv
  <2>1. ASSUME NEW side \in Sides PROVE Unjoined(side) = ToSet(Stream(side))
    <3>1. cursor = [z \in Sides |-> NewCursor] /\ Generated
      BY <1>1 DEF MergeInit, ReadInv
    <3>2. IsFileOf(table[side], Stream(side))
      BY <3>1, FilesAre
    <3>3. CursorAt(NewCursor, table[side], Stream(side), 0)
      BY <3>2, NoneTaken
    <3>4. TakenOf(side) = 0
      BY <3>1, <3>2, <3>3, TakenIs DEF TakenOf, Left
    <3>5. From(side) = 1
      BY <1>2, <3>4 DEF From
    <3>6. DOMAIN Stream(side) = 1 .. Len(Stream(side))
      <4>1. Stream(side) \in Seq(RowsOf(side))
        BY <3>1, StreamFacts DEF Generated
      <4>2. QED  BY <4>1
    <3>7. Pending(side) = ToSet(Stream(side))
      BY <3>5, <3>6 DEF Pending, RowsFrom, ToSet
    <3>8. Grouped(side) = {}
      BY <1>2 DEF Grouped, Grouping
    <3>9. QED  BY <3>7, <3>8 DEF Unjoined
  <2>2. \A side \in Sides : RowsOf(side) = ToSet(Stream(side))
    BY <1>1, StreamFacts DEF ReadInv, Generated
  <2>3. \A pair \in RowsOf("left") \X RowsOf("right") : IsUnjoined(pair)
    BY <2>1, <2>2, SidesAre DEF IsUnjoined
  <2>4. QED  BY <1>2, <2>3 DEF MergedInv
<1>6. QED  BY <1>3, <1>4, <1>5 DEF LiveInv

\* A step that leaves the merge looking from the same places, at the same groups.
LEMMA LookingSame ==
  ASSUME ReadInv, LiveInv, UNCHANGED <<generated, progress, group, merged>>, RowInv',
         progress = "collect_left" => row'["right"] = row["right"],
         \A side \in Sides : From(side)' = From(side)
  PROVE  LiveInv'
<1>1. RowInv /\ GroupsInv /\ MergedInv
  BY DEF LiveInv
<1>2. \A side \in Sides : Pending(side)' = Pending(side)
  BY SamePending
<1>3. \A side \in Sides : From(side) \in Int
  BY <1>1, PlacesAre
<1>4. GroupsInv'
  BY <1>1, <1>2, <1>3, SameGroups
<1>5. \A side \in Sides : Grouped(side)' = Grouped(side)
  BY DEF Grouped, Grouping
<1>6. \A side \in Sides : Unjoined(side)' = Unjoined(side)
  BY <1>2, <1>5 DEF Unjoined
<1>7. MergedInv'
  BY <1>1, <1>6, SameUnjoined, SameMerged
<1>8. QED  BY <1>4, <1>7 DEF LiveInv

LEMMA LiveReadRow ==
  ASSUME ReadInv, LiveInv, UNCHANGED generated, NEW side \in Sides, ReadRow(side)
  PROVE  LiveInv'
<1> DEFINE at == Positioned(cursor[side], table[side])
<1>1. /\ advancing = side /\ ~AtEnd(cursor[side], table[side])
      /\ CurrentRow(at).accepted
      /\ row' = [row EXCEPT ![side] = CurrentRow(at)]
      /\ cursor' = [cursor EXCEPT ![side] = PastRow(at)]
      /\ advancing' = "none" /\ UNCHANGED <<generated, progress, group, merged>>
  BY DEF ReadRow
<1>2. /\ TakenOf(side)' = TakenOf(side) + 1 /\ TakenOf(side) + 1 \in 1 .. Len(Stream(side))
      /\ CurrentRow(at) = Stream(side)[TakenOf(side) + 1]
      /\ \A z \in Sides : z # side => TakenOf(z)' = TakenOf(z)
  BY <1>1, ReadStep
<1>3. DOMAIN row = Sides /\ input \in Inputs /\ progress \in {"open", "collect_left"} => advancing # "right"
  BY DEF ReadInv, ControlInv, Generated
<1>4. CurrentRow(at) # Absent
  BY <1>2, <1>3, StreamFacts DEF ReadInv, Generated
<1> HIDE DEF at
<1>5. row'[side] = CurrentRow(at) /\ \A z \in Sides : z # side => row'[z] = row[z]
  BY <1>1, OneSide DEF ReadInv, ControlInv
<1>6. \A z \in Sides : Stream(z)' = Stream(z)
  BY <1>1, StreamKept
<1>7. \A z \in Sides : From(z)' = From(z)
  <2>1. From(side)' = TakenOf(side) + 1
    BY <1>1, <1>2, <1>4, <1>5, SidesAre DEF From
  <2>2. From(side) = TakenOf(side) + 1
    BY <1>1 DEF From
  <2>3. ASSUME NEW z \in Sides, z # side PROVE From(z)' = From(z)
    BY <1>1, <1>2, <1>5, <2>3, SidesAre DEF From
  <2>4. QED  BY <2>1, <2>2, <2>3
<1>8. RowInv'
  <2>1. TakenOf(side)' >= 1 /\ row'[side] = Stream(side)'[TakenOf(side)'] /\ row'[side].accepted /\ row'[side] # Absent
    BY <1>1, <1>2, <1>4, <1>5, <1>6
  <2>2. ASSUME NEW z \in Sides, z # side
        PROVE  /\ row'[z] # Absent => /\ TakenOf(z)' >= 1 /\ row'[z] = Stream(z)'[TakenOf(z)']
                                      /\ row'[z].accepted
               /\ row'[z] = Absent => \/ TakenOf(z)' = Len(Stream(z)')
                                      \/ z = "right" /\ progress' = "open"
    BY <1>1, <1>2, <1>5, <1>6, <2>2 DEF LiveInv, RowInv
  <2>3. QED  BY <2>1, <2>2 DEF RowInv
<1>9. progress = "collect_left" => row'["right"] = row["right"]
  <2>1. progress = "collect_left" => side # "right"
    BY <1>1 DEF ReadInv, ControlInv
  <2>2. QED  BY <1>5, <2>1, SidesAre
<1>10. QED  BY <1>1, <1>7, <1>8, <1>9, LookingSame

LEMMA LiveEndOfTable ==
  ASSUME ReadInv, LiveInv, UNCHANGED generated, NEW side \in Sides, EndOfTable(side)
  PROVE  LiveInv'
<1>1. /\ advancing = side /\ AtEnd(cursor[side], table[side])
      /\ row' = [row EXCEPT ![side] = Absent]
      /\ advancing' = "none" /\ UNCHANGED <<generated, progress, cursor, group, merged>>
  BY DEF EndOfTable
<1>2. Generated /\ CursorInv /\ DOMAIN row = Sides
  BY DEF ReadInv, ControlInv
<1>3. TakenOf(side) = Len(Stream(side))
  BY <1>1, <1>2, CursorEnded
<1>4. \A z \in Sides : TakenOf(z)' = TakenOf(z) /\ Stream(z)' = Stream(z)
  BY <1>1, <1>2, CursorsKept, StreamKept
<1>5. row'[side] = Absent /\ \A z \in Sides : z # side => row'[z] = row[z]
  BY <1>1, <1>2, OneSide
<1>6. \A z \in Sides : From(z)' = From(z)
  <2>1. From(side)' = TakenOf(side) + 1 /\ From(side) = TakenOf(side) + 1
    BY <1>1, <1>4, <1>5 DEF From
  <2>2. ASSUME NEW z \in Sides, z # side PROVE From(z)' = From(z)
    BY <1>1, <1>4, <1>5, <2>2, SidesAre DEF From
  <2>3. QED  BY <2>1, <2>2
<1>7. RowInv'
  <2>1. row'[side] = Absent /\ TakenOf(side)' = Len(Stream(side)')
    BY <1>3, <1>4, <1>5
  <2>2. ASSUME NEW z \in Sides, z # side
        PROVE  /\ row'[z] # Absent => /\ TakenOf(z)' >= 1 /\ row'[z] = Stream(z)'[TakenOf(z)']
                                      /\ row'[z].accepted
               /\ row'[z] = Absent => \/ TakenOf(z)' = Len(Stream(z)')
                                      \/ z = "right" /\ progress' = "open"
    BY <1>1, <1>4, <1>5, <2>2 DEF LiveInv, RowInv
  <2>3. QED  BY <2>1, <2>2 DEF RowInv
<1>8. progress = "collect_left" => row'["right"] = row["right"]
  <2>1. progress = "collect_left" => side # "right"
    BY <1>1 DEF ReadInv, ControlInv
  <2>2. QED  BY <1>5, <2>1, SidesAre
<1>9. QED  BY <1>1, <1>6, <1>7, <1>8, LookingSame

LEMMA LiveRejectRow ==
  ASSUME ReadInv, LiveInv, UNCHANGED generated, NEW side \in Sides, RejectRow(side)
  PROVE  LiveInv'
<1> DEFINE at == Positioned(cursor[side], table[side])
           x == CurrentRow(at)
           n == TakenOf(side) + 1
           s == Stream(side)
<1>1. /\ advancing = side /\ ~AtEnd(cursor[side], table[side]) /\ ~x.accepted
      /\ cursor' = [cursor EXCEPT ![side] = PastRow(at)]
      /\ UNCHANGED <<generated, progress, advancing, row, group, merged>>
  BY DEF RejectRow
<1>2. /\ TakenOf(side)' = n /\ n \in 1 .. Len(s) /\ x = s[n]
      /\ \A z \in Sides : z # side => TakenOf(z)' = TakenOf(z)
  BY <1>1, ReadStep
<1>3. RowInv /\ GroupsInv /\ MergedInv
  BY DEF LiveInv
<1>4. \A z \in Sides : Stream(z)' = Stream(z)
  BY <1>1, StreamKept
<1>5. \A z \in Sides : From(z) \in 1 .. Len(Stream(z)) + 1 /\ Stream(z) \in Seq(RowsOf(z))
  BY <1>3, PlacesAre
<1> HIDE DEF at, x
<1>6. From(side) = n /\ From(side)' = n + 1 /\ \A z \in Sides : z # side => From(z)' = From(z)
  BY <1>1, <1>2, SidesAre DEF From
<1> HIDE DEF n
<1>7. Pending(side) = {x} \cup Pending(side)'
  <2>1. n \in 1 .. Len(s) + 1 /\ n <= Len(s)
    BY <1>2
  <2>2. RowsFrom(s, n) = {s[n]} \cup RowsFrom(s, n + 1)
    BY <1>5, <2>1, RowsFromFacts
  <2>3. QED  BY <1>2, <1>4, <1>6, <2>2 DEF Pending
<1>8. \A z \in Sides : z # side => Pending(z)' = Pending(z)
  BY <1>1, <1>6, SamePending
<1>9. RowInv'
  BY <1>1, <1>2, <1>3, <1>4 DEF RowInv
<1>10. GroupsInv'
  <2>1. \A z \in Sides : /\ Pending(z)' \subseteq Pending(z)
                         /\ From(z) \in Int /\ From(z)' \in Int /\ From(z) <= From(z)'
    <3>1. n + 1 \in Int /\ n \in Int /\ n <= n + 1
      BY <1>2
    <3>2. QED  BY <1>5, <1>6, <1>7, <1>8, <3>1
  <2>2. QED  BY <1>1, <1>3, <2>1, SameGroups
<1>11. MergedInv'
  <2>1. \A z \in Sides : Grouped(z)' = Grouped(z)
    BY <1>1 DEF Grouped, Grouping
  <2>2. Unjoined(side) \subseteq {x} \cup Unjoined(side)' /\ Unjoined(side)' \subseteq Unjoined(side)
    BY <1>7, <2>1 DEF Unjoined
  <2>3. \A z \in Sides : z # side => Unjoined(z)' = Unjoined(z)
    BY <1>8, <2>1 DEF Unjoined
  <2>4. ASSUME NEW pair \in KeyMatches PROVE IsUnjoined(pair)' <=> IsUnjoined(pair)
    <3>1. pair[1] # x /\ pair[2] # x
      BY <1>1, MatchFacts
    <3>2. CASE side = "left"
      BY <2>2, <2>3, <3>1, <3>2, SidesAre DEF IsUnjoined
    <3>3. CASE side = "right"
      BY <2>2, <2>3, <3>1, <3>3, SidesAre DEF IsUnjoined
    <3>4. QED  BY <3>2, <3>3, SidesAre
  <2>5. QED  BY <1>1, <1>3, <2>4, SameMerged
<1>12. QED  BY <1>9, <1>10, <1>11 DEF LiveInv

LEMMA LiveOpenRight ==
  ASSUME ReadInv, LiveInv, UNCHANGED generated, OpenRight
  PROVE  LiveInv'
<1>1. /\ progress = "open" /\ advancing = "none"
      /\ progress' = "compare" /\ advancing' = "right"
      /\ UNCHANGED <<generated, cursor, row, group, merged>>
  BY DEF OpenRight
<1>2. RowInv /\ MergedInv /\ CursorInv /\ row["right"] = Absent
  BY <1>1 DEF LiveInv, ReadInv, ControlInv
<1>3. \A z \in Sides : TakenOf(z)' = TakenOf(z) /\ Stream(z)' = Stream(z)
  BY <1>1, <1>2, CursorsKept, StreamKept
<1>4. \A z \in Sides : From(z)' = From(z)
  <2>1. From("right")' = TakenOf("right") + 1 /\ From("right") = TakenOf("right") + 1
    BY <1>1, <1>2, <1>3, SidesAre DEF From
  <2>2. From("left")' = From("left")
    BY <1>1, <1>3, SidesAre DEF From
  <2>3. QED  BY <2>1, <2>2, SidesAre
<1>5. RowInv'
  <2>1. advancing # "left" /\ "left" # "right"
    BY <1>1
  <2>2. \A z \in Sides : z # "right" => z = "left"
    BY SidesAre
  <2>3. QED  BY <1>1, <1>2, <1>3, <2>1, <2>2, SidesAre DEF RowInv
<1>6. GroupsInv'
  BY <1>1 DEF GroupsInv, Grouping
<1>7. MergedInv'
  <2>1. \A z \in Sides : Pending(z)' = Pending(z)
    BY <1>1, <1>4, SamePending
  <2>2. \A z \in Sides : Grouped(z)' = Grouped(z)
    BY <1>1 DEF Grouped, Grouping
  <2>3. \A z \in Sides : Unjoined(z)' = Unjoined(z)
    BY <2>1, <2>2 DEF Unjoined
  <2>4. QED  BY <1>1, <1>2, <2>3, SameUnjoined, SameMerged
<1>8. QED  BY <1>5, <1>6, <1>7 DEF LiveInv

LEMMA LivePassOver ==
  ASSUME ReadInv, LiveInv, UNCHANGED generated, NEW side \in Sides, PassOver(side)
  PROVE  LiveInv'
<1> DEFINE other == OtherSide(side)
           s == Stream(side)
           t == Stream(other)
           x == row[side]
<1>1. /\ progress = "compare" /\ advancing = "none" /\ \A z \in Sides : row[z] # Absent
      /\ CompareValues(x.key, row[other].key) = "Less"
      /\ advancing' = side
      /\ UNCHANGED <<generated, progress, cursor, row, group, merged>>
  BY DEF PassOver, Comparing
<1>2. RowInv /\ MergedInv /\ CursorInv /\ other \in Sides /\ other # side /\ \A z \in Sides : z = side \/ z = other
  BY SidesAre DEF LiveInv, ReadInv
<1>3. \A z \in Sides : TakenOf(z)' = TakenOf(z) /\ Stream(z)' = Stream(z)
  BY <1>1, <1>2, CursorsKept, StreamKept
<1>4. /\ TakenOf(side) \in 1 .. Len(s) /\ s \in Seq(RowsOf(side)) /\ x.key \in Values
      /\ Pending(side) = {x} \cup RowsFrom(s, TakenOf(side) + 1)
  BY <1>1, <1>2, PlacesAre, SidesAre
<1>5. /\ TakenOf(other) \in 1 .. Len(t) /\ row[other] = t[TakenOf(other)] /\ From(other) = TakenOf(other)
      /\ t \in Seq(RowsOf(other)) /\ Len(t) \in Nat
  BY <1>1, <1>2, PlacesAre, SidesAre
<1>6. Pending(side)' = RowsFrom(s, TakenOf(side) + 1)
  BY <1>1, <1>3 DEF Pending, From
<1>7. Pending(other)' = Pending(other)
  <2>1. From(other)' = From(other)
    BY <1>1, <1>2, <1>3, SidesAre DEF From
  <2>2. QED  BY <1>1, <1>2, <2>1, SamePending
<1>8. ASSUME NEW r \in Pending(other) PROVE ~SameValue(x.key, r.key) /\ ~SameValue(r.key, x.key)
  <2>1. SortedRows(t)
    BY <1>1, <1>2, SortedStreams
  <2>2. PICK m \in TakenOf(other) .. Len(t) : m \in 1 .. Len(t) /\ r = t[m]
    <3>1. TakenOf(other) \in 1 .. Len(t) + 1
      BY <1>5
    <3>2. r \in RowsFrom(t, TakenOf(other))
      BY <1>5 DEF Pending
    <3> HIDE DEF t, other
    <3>3. QED  BY <1>5, <3>1, <3>2, RowsFromFacts
  <2>3. CompareValues(x.key, t[TakenOf(other)].key) = "Less" /\ TakenOf(other) <= m
    BY <1>1, <1>5, <2>2
  <2> HIDE DEF t, other, x
  <2>4. QED  BY <1>4, <1>5, <2>1, <2>2, <2>3, SmallerMatchesNone
<1>9. RowInv'
  <2>1. \A z \in Sides : TakenOf(z) >= 1 /\ row[z] = Stream(z)[TakenOf(z)] /\ row[z].accepted /\ row[z] # Absent
    BY <1>1, <1>2, SidesAre DEF RowInv
  <2>2. \A z \in Sides : TakenOf(z)' >= 1 /\ row'[z] = Stream(z)'[TakenOf(z)'] /\ row'[z].accepted /\ row'[z] # Absent
    BY <1>1, <1>3, <2>1
  <2>3. QED  BY <2>2 DEF RowInv
<1>10. GroupsInv'
  BY <1>1 DEF GroupsInv, Grouping
<1>11. MergedInv'
  <2>1. \A z \in Sides : Unjoined(z) = Pending(z) /\ Unjoined(z)' = Pending(z)'
    BY <1>1 DEF Unjoined, Grouped, Grouping
  <2>2. Unjoined(side) = {x} \cup Unjoined(side)' /\ Unjoined(other)' = Unjoined(other) /\ Unjoined(other) = Pending(other)
    BY <1>2, <1>4, <1>6, <1>7, <2>1
  <2>3. ASSUME NEW pair \in KeyMatches PROVE IsUnjoined(pair)' <=> IsUnjoined(pair)
    <3>1. SameValue(pair[1].key, pair[2].key)
      BY MatchFacts
    <3>2. CASE side = "left"
      <4>1. other = "right"
        BY <3>2 DEF OtherSide
      <4> HIDE DEF other, x
      <4>2. pair[2] \in Unjoined("right") => pair[1] # x
        BY <1>8, <2>2, <3>1, <4>1
      <4>3. QED  BY <2>2, <3>2, <4>1, <4>2 DEF IsUnjoined
    <3>3. CASE side = "right"
      <4>1. other = "left"
        BY <3>3 DEF OtherSide
      <4> HIDE DEF other, x
      <4>2. pair[1] \in Unjoined("left") => pair[2] # x
        BY <1>8, <2>2, <3>1, <4>1
      <4>3. QED  BY <2>2, <3>3, <4>1, <4>2 DEF IsUnjoined
    <3>4. QED  BY <3>2, <3>3, SidesAre
  <2>4. QED  BY <1>1, <1>2, <2>3, SameMerged
<1>12. QED  BY <1>9, <1>10, <1>11 DEF LiveInv

-----------------------------------------------------------------------------
(* The pairs of two groups.                                                *)

LEMMA ToSetOfConcat ==
  ASSUME NEW S, NEW s \in Seq(S), NEW t \in Seq(S)
  PROVE  s \o t \in Seq(S) /\ ToSet(s \o t) = ToSet(s) \cup ToSet(t)
<1> DEFINE u == s \o t
           l == Len(s)
           m == Len(t)
<1>1. /\ u \in Seq(S) /\ Len(u) = l + m /\ l \in Nat /\ m \in Nat
      /\ \A i \in 1 .. Len(u) : u[i] = IF i <= l THEN s[i] ELSE t[i - l]
  BY ConcatProperties, LenProperties
<1>2. DOMAIN s = 1 .. l /\ DOMAIN t = 1 .. m /\ DOMAIN u = 1 .. l + m
  BY <1>1, LenProperties
<1> HIDE DEF u, l, m
<1>3. \A i \in 1 .. l : i \in 1 .. l + m /\ u[i] = s[i]
  BY <1>1
<1>4. \A i \in 1 .. m : i + l \in 1 .. l + m /\ u[i + l] = t[i]
  <2>1. \A i \in 1 .. m : i + l \in 1 .. l + m /\ ~(i + l <= l) /\ (i + l) - l = i
    BY <1>1
  <2>2. QED  BY <1>1, <2>1
<1>5. \A i \in 1 .. l + m : (i \in 1 .. l /\ u[i] = s[i]) \/ (i - l \in 1 .. m /\ u[i] = t[i - l])
  BY <1>1
<1>6. ToSet(u) = ToSet(s) \cup ToSet(t)
  <2>1. ToSet(s) \subseteq ToSet(u) /\ ToSet(t) \subseteq ToSet(u)
    BY <1>2, <1>3, <1>4 DEF ToSet
  <2>2. ToSet(u) \subseteq ToSet(s) \cup ToSet(t)
    BY <1>2, <1>5 DEF ToSet
  <2>3. QED  BY <2>1, <2>2
<1>7. QED  BY <1>1, <1>6 DEF u

\* The pairs of two sequences in the order of two loops.
PairsOf(a, b) == FlattenSeq([i \in DOMAIN a |-> [j \in DOMAIN b |-> <<a[i], b[j]>>]])

ArePairs(T, L, R) == T = L \X R

LEMMA PairsAre ==
  ASSUME NEW L, NEW R, NEW T, ArePairs(T, L, R), NEW a \in Seq(L), NEW b \in Seq(R)
  PROVE  PairsOf(a, b) \in Seq(T) /\ ArePairs(ToSet(PairsOf(a, b)), ToSet(a), ToSet(b))
<1> DEFINE n == Len(a)
           m == Len(b)
           f == [i \in DOMAIN a |-> [j \in DOMAIN b |-> <<a[i], b[j]>>]]
           flat(k) == FlattenSeq([i \in 1 .. k |-> f[i]])
           Upto(k) == {a[i] : i \in 1 .. k}
           good == {k \in 0 .. n : flat(k) \in Seq(T) /\ ToSet(flat(k)) = Upto(k) \X ToSet(b)}
<1>1. /\ n \in Nat /\ m \in Nat /\ DOMAIN a = 1 .. n /\ DOMAIN b = 1 .. m
      /\ \A i \in 1 .. n : a[i] \in L
      /\ \A j \in 1 .. m : b[j] \in R
  BY LenProperties, ElementOfSeq
<1>2. \A i \in 1 .. n : f[i] \in Seq(T) /\ ToSet(f[i]) = {a[i]} \X ToSet(b)
  <2>1. ASSUME NEW i \in 1 .. n PROVE f[i] \in Seq(T) /\ ToSet(f[i]) = {a[i]} \X ToSet(b)
    <3> DEFINE x == a[i]
               line == [j \in 1 .. m |-> <<x, b[j]>>]
    <3>1. x \in L /\ f[i] = line
      BY <1>1
    <3> HIDE DEF x, f
    <3>2. line \in Seq(T)
      <4>1. \A j \in 1 .. m : <<x, b[j]>> \in T
        BY <1>1, <3>1 DEF ArePairs
      <4>2. QED  BY <1>1, <4>1, SeqDef
    <3>3. DOMAIN line = 1 .. m /\ \A j \in 1 .. m : line[j] = <<x, b[j]>>
      OBVIOUS
    <3> HIDE DEF line
    <3>4. ToSet(line) = {x} \X ToSet(b)
      <4>1. ToSet(line) = {line[j] : j \in 1 .. m} /\ ToSet(b) = {b[j] : j \in 1 .. m}
        BY <1>1, <3>3 DEF ToSet
      <4>2. ToSet(line) = {<<x, e>> : e \in ToSet(b)}
        BY <3>3, <4>1
      <4>3. \A B : {<<x, e>> : e \in B} = {x} \X B
        OBVIOUS
      <4>4. QED  BY <4>2, <4>3
    <3>5. QED  BY <3>1, <3>2, <3>4 DEF x
  <2>2. QED  BY <2>1
<1>3. PairsOf(a, b) = flat(n)
  <2>1. f = [i \in 1 .. n |-> f[i]]
    BY <1>1
  <2>2. PairsOf(a, b) = FlattenSeq(f)
    BY DEF PairsOf
  <2> HIDE DEF f
  <2>3. QED  BY <2>1, <2>2
<1> HIDE DEF f
<1>4. 0 \in good
  <2>1. flat(0) = <<>>
    BY FlattenOfNone
  <2>2. Upto(0) = {}
    OBVIOUS
  <2> HIDE DEF flat, Upto
  <2>3. <<>> \in Seq(T) /\ ToSet(<<>>) = {} /\ 0 \in 0 .. n
    BY <1>1, EmptySeq, ToSetOfEmpty
  <2>4. ToSet(flat(0)) = Upto(0) \X ToSet(b)
    BY <2>1, <2>2, <2>3
  <2>5. QED  BY <2>1, <2>3, <2>4
<1>5. ASSUME NEW k \in 0 .. n - 1, k \in good PROVE k + 1 \in good
  <2>1. k \in Nat /\ k + 1 \in 1 .. n /\ k + 1 \in 0 .. n /\ \A i \in 1 .. k + 1 : i \in 1 .. n
    BY <1>1
  <2>2. \A i \in 1 .. k + 1 : f[i] \in Seq(T)
    BY <1>2, <2>1
  <2>3. flat(k) \in Seq(T) /\ flat(k + 1) = flat(k) \o f[k + 1]
    BY <2>1, <2>2, FlattenNext
  <2>4. Upto(k + 1) = Upto(k) \cup {a[k + 1]}
    <3>1. 1 .. k + 1 = (1 .. k) \cup {k + 1}
      BY <2>1
    <3>2. QED  BY <3>1
  <2>5. ToSet(flat(k)) = Upto(k) \X ToSet(b)
    BY <1>5
  <2> HIDE DEF flat, Upto
  <2>6. f[k + 1] \in Seq(T) /\ ToSet(f[k + 1]) = {a[k + 1]} \X ToSet(b)
    BY <1>2, <2>1
  <2>7. /\ flat(k + 1) \in Seq(T)
        /\ ToSet(flat(k + 1)) = ToSet(flat(k)) \cup ToSet(f[k + 1])
    <3>1. \A s, t \in Seq(T) : s \o t \in Seq(T) /\ ToSet(s \o t) = ToSet(s) \cup ToSet(t)
      BY ToSetOfConcat
    <3>2. f[k + 1] \in Seq(T)
      BY <2>6
    <3>3. QED  BY <2>3, <3>1, <3>2
  <2>8. ToSet(flat(k + 1)) = Upto(k + 1) \X ToSet(b)
    <3>1. \A A, B, y : (A \cup {y}) \X B = (A \X B) \cup ({y} \X B)
      OBVIOUS
    <3>2. ToSet(flat(k + 1)) = (Upto(k) \X ToSet(b)) \cup ({a[k + 1]} \X ToSet(b))
      BY <2>5, <2>6, <2>7
    <3>3. QED  BY <2>4, <3>1, <3>2
  <2>9. QED  BY <2>1, <2>7, <2>8
<1>6. \A k \in 0 .. n : k \in good
  <2> HIDE DEF good
  <2>1. QED  BY <1>1, <1>4, <1>5, AllUpTo
<1>7. flat(n) \in Seq(T) /\ ToSet(flat(n)) = Upto(n) \X ToSet(b)
  <2>1. n \in 0 .. n
    BY <1>1
  <2> HIDE DEF flat, Upto
  <2>2. QED  BY <1>6, <2>1
<1>8. Upto(n) = ToSet(a)
  BY <1>1 DEF ToSet
<1> HIDE DEF flat, Upto
<1>9. QED  BY <1>3, <1>7, <1>8 DEF ArePairs

\* Pairs of a part of two groups.
LEMMA GroupPairsAre ==
  ASSUME ReadInv, GroupsInv, Grouping
  PROVE  /\ Len(GroupPairs) \in Nat
         /\ ToSet(SubSeq(GroupPairs, 1, Len(GroupPairs))) = Grouped("left") \X Grouped("right")
         /\ \A n \in 0 .. Len(GroupPairs) : ToSet(SubSeq(GroupPairs, 1, n)) \subseteq Grouped("left") \X Grouped("right")
<1> DEFINE L == RowsOf("left")
           R == RowsOf("right")
           T == L \X R
           p == GroupPairs
<1>1. group["left"] \in Seq(L) /\ group["right"] \in Seq(R)
  BY SidesAre DEF GroupsInv, GroupInv
<1>2. p = PairsOf(group["left"], group["right"])
  BY DEF GroupPairs, PairsOf
<1> HIDE DEF L, R, T, p
<1>3. p \in Seq(T) /\ ToSet(p) = ToSet(group["left"]) \X ToSet(group["right"])
  <2>1. ArePairs(T, L, R)
    BY DEF T, ArePairs
  <2>2. p \in Seq(T) /\ ArePairs(ToSet(p), ToSet(group["left"]), ToSet(group["right"]))
    BY <1>1, <1>2, <2>1, PairsAre
  <2>3. QED  BY <2>2 DEF ArePairs
<1>4. ToSet(p) = Grouped("left") \X Grouped("right")
  BY <1>3 DEF Grouped
<1>5. Len(p) \in Nat /\ SubSeq(p, 1, Len(p)) = p
  BY <1>3, SubSeqFull
<1>6. ASSUME NEW n \in 0 .. Len(p) PROVE ToSet(SubSeq(p, 1, n)) \subseteq ToSet(p)
  <2>1. /\ DOMAIN p = 1 .. Len(p) /\ n \in Nat
        /\ DOMAIN SubSeq(p, 1, n) = 1 .. n /\ \A i \in 1 .. n : SubSeq(p, 1, n)[i] = p[i]
    BY <1>3, <1>5
  <2>2. \A i \in 1 .. n : i \in 1 .. Len(p)
    BY <1>5
  <2>3. QED  BY <2>1, <2>2 DEF ToSet
<1>7. QED  BY <1>4, <1>5, <1>6 DEF p

-----------------------------------------------------------------------------
(* The groups are collected.                                               *)

\* A row moves from the pending ones to a group.
LEMMA SameUnjoinedMerged ==
  ASSUME LiveInv, UNCHANGED <<generated, merged>>, \A z \in Sides : Unjoined(z)' = Unjoined(z)
  PROVE  MergedInv'
<1>1. MergedInv
  BY DEF LiveInv
<1>2. QED  BY <1>1, SameUnjoined, SameMerged

LEMMA LiveStartGroups ==
  ASSUME ReadInv, LiveInv, UNCHANGED generated, StartGroups
  PROVE  LiveInv'
<1> DEFINE s == Stream("left")
           x == row["left"]
           y == row["right"]
<1>1. /\ progress = "compare" /\ advancing = "none" /\ \A z \in Sides : row[z] # Absent
      /\ CompareValues(x.key, y.key) = "Equal"
      /\ group' = [left |-> <<x>>, right |-> <<>>]
      /\ progress' = "collect_left" /\ advancing' = "left"
      /\ UNCHANGED <<generated, cursor, row, merged>>
  BY DEF StartGroups, Comparing
<1>2. RowInv /\ MergedInv /\ CursorInv /\ "left" \in Sides /\ "right" \in Sides
  BY SidesAre DEF LiveInv, ReadInv
<1>3. \A z \in Sides : TakenOf(z)' = TakenOf(z) /\ Stream(z)' = Stream(z) /\ RowsOf(z)' = RowsOf(z)
  BY <1>1, <1>2, CursorsKept, StreamKept
<1>4. /\ TakenOf("left") \in 1 .. Len(s) /\ x = s[TakenOf("left")] /\ x \in RowsOf("left") /\ x.accepted
      /\ From("left") = TakenOf("left") /\ x.key \in Values /\ x # Absent
      /\ Pending("left") = {x} \cup RowsFrom(s, TakenOf("left") + 1)
  BY <1>1, <1>2, PlacesAre
<1>5. y.key \in Values /\ y # Absent /\ advancing # "right"
  BY <1>1, <1>2, PlacesAre
<1>6. SameValue(x.key, y.key) /\ SameValue(x.key, x.key) /\ SameValue(y.key, x.key)
  <2>1. SameValue(x.key, y.key)
    BY <1>1, <1>4, <1>5, SameValueIs
  <2> HIDE DEF x, y
  <2>2. SameValue(x.key, x.key)
    BY <1>4, <1>5, <2>1, SameValueJoins
  <2>3. QED  BY <1>4, <1>5, <2>1, <2>2, SameValueJoins
<1>7. From("left")' = TakenOf("left") + 1 /\ Pending("left")' = RowsFrom(s, TakenOf("left") + 1)
  BY <1>1, <1>2, <1>3 DEF From, Pending
<1>8. Pending("right")' = Pending("right")
  <2>1. From("right")' = From("right")
    BY <1>1, <1>2, <1>3 DEF From
  <2>2. QED  BY <1>1, <1>2, <2>1, SamePending
<1>9. GroupKey' = x.key /\ group'["left"] = <<x>> /\ group'["right"] = <<>>
  BY <1>1 DEF GroupKey
<1>10. Grouping' /\ ~Grouping
  BY <1>1 DEF Grouping
<1>11. \A z \in Sides : Unjoined(z)' = Unjoined(z)
  <2>1. Grouped("left")' = {x} /\ Grouped("right")' = {} /\ Grouped("left") = {} /\ Grouped("right") = {}
    <3>1. ToSet(<<x>>) = {x} /\ ToSet(<<>>) = {}
      BY DEF ToSet
    <3>2. QED  BY <1>9, <1>10, <3>1 DEF Grouped
  <2>2. Unjoined("left")' = Unjoined("left") /\ Unjoined("right")' = Unjoined("right")
    BY <1>4, <1>7, <1>8, <2>1 DEF Unjoined
  <2>3. QED  BY <2>2, SidesAre
<1>12. RowInv'
  <2>1. /\ row'["right"] # Absent /\ TakenOf("right")' >= 1 /\ row'["right"] = Stream("right")'[TakenOf("right")']
        /\ row'["right"].accepted
    BY <1>1, <1>2, <1>3 DEF RowInv
  <2>2. QED  BY <1>1, <2>1, SidesAre DEF RowInv
<1>13. GroupsInv'
  <2>1. GroupInv("left")'
    <3>1. <<x>> \in Seq(RowsOf("left")) /\ ToSet(<<x>>) = {x} /\ <<x>>[1] = x
      BY <1>4 DEF ToSet
    <3>2. TakenOf("left") \in 1 .. From("left")' - 1
      BY <1>4, <1>7
    <3>3. QED  BY <1>2, <1>3, <1>4, <1>6, <1>9, <3>1, <3>2 DEF GroupInv
  <2>2. GroupInv("right")'
    <3>1. <<>> \in Seq(RowsOf("right")) /\ ToSet(<<>>) = {}
      BY ToSetOfEmpty
    <3>2. QED  BY <1>2, <1>3, <1>9, <3>1 DEF GroupInv
  <2>3. <<x>> # <<>>
    OBVIOUS
  <2>4. group'["left"] # <<>> /\ group'["right"] = <<>> /\ row'["right"] # Absent /\ SameValue(row'["right"].key, GroupKey')
    BY <1>1, <1>5, <1>6, <1>9, <2>3
  <2>5. QED  BY <1>1, <2>1, <2>2, <2>4, SidesAre DEF GroupsInv
<1>14. MergedInv'
  BY <1>1, <1>11, SameUnjoinedMerged
<1>15. QED  BY <1>12, <1>13, <1>14 DEF LiveInv

LEMMA LiveCollect ==
  ASSUME ReadInv, LiveInv, UNCHANGED generated, NEW side \in Sides, Collect(side),
         progress = IF side = "left" THEN "collect_left" ELSE "collect_right"
  PROVE  LiveInv'
<1> DEFINE s == Stream(side)
           x == row[side]
           g == group[side]
           other == OtherSide(side)
<1>1. /\ advancing = "none" /\ x # Absent /\ CompareValues(x.key, GroupKey) = "Equal"
      /\ group' = [group EXCEPT ![side] = Append(@, x)]
      /\ advancing' = side
      /\ UNCHANGED <<generated, progress, cursor, row, merged>>
  BY DEF Collect, InGroup, GroupOrder, GroupKey
<1>2. /\ RowInv /\ GroupsInv /\ MergedInv /\ CursorInv /\ Grouping /\ Grouping'
      /\ other \in Sides /\ other # side /\ side # "none"
      /\ \A z \in Sides : z = side \/ z = other
  BY <1>1, SidesAre DEF LiveInv, ReadInv, Grouping
<1>3. \A z \in Sides : TakenOf(z)' = TakenOf(z) /\ Stream(z)' = Stream(z) /\ RowsOf(z)' = RowsOf(z)
  BY <1>1, <1>2, CursorsKept, StreamKept
<1>4. /\ TakenOf(side) \in 1 .. Len(s) /\ x = s[TakenOf(side)] /\ x \in RowsOf(side) /\ x.accepted
      /\ From(side) = TakenOf(side) /\ x.key \in Values
      /\ Pending(side) = {x} \cup RowsFrom(s, TakenOf(side) + 1)
  BY <1>1, <1>2, PlacesAre
<1>5. GroupKey \in Values
  BY <1>2, KeyType
<1>6. SameValue(x.key, GroupKey)
  BY <1>1, <1>4, <1>5, SameValueIs
<1>7. From(side)' = TakenOf(side) + 1 /\ Pending(side)' = RowsFrom(s, TakenOf(side) + 1)
  BY <1>1, <1>2, <1>3 DEF From, Pending
<1>8. From(other)' = From(other) /\ Pending(other)' = Pending(other)
  <2>1. From(other)' = From(other)
    <3>1. advancing # other /\ advancing' # other /\ row'[other] = row[other]
      BY <1>1, <1>2, SidesAre
    <3>2. TakenOf(other)' = TakenOf(other)
      BY <1>2, <1>3
    <3> HIDE DEF other
    <3>3. QED  BY <3>1, <3>2 DEF From
  <2> HIDE DEF other
  <2>2. QED  BY <1>1, <1>2, <2>1, SamePending
<1>9. GroupInv(side) /\ GroupInv(other) /\ g \in Seq(RowsOf(side)) /\ g # <<>>
  <2>1. GroupInv(side) /\ GroupInv(other) /\ g \in Seq(RowsOf(side))
    BY <1>2 DEF GroupsInv, GroupInv
  <2>2. g # <<>>
    BY <1>2, SidesAre DEF GroupsInv
  <2>3. QED  BY <2>1, <2>2
<1>10. group'[side] = Append(g, x) /\ group'[other] = group[other]
  BY <1>1, <1>2, OneSide DEF ReadInv, ControlInv
<1>11. /\ Append(g, x) \in Seq(RowsOf(side)) /\ ToSet(Append(g, x)) = ToSet(g) \cup {x}
       /\ Append(g, x) # <<>> /\ Append(g, x)[1] = g[1]
  <2> HIDE DEF g, x
  <2>1. ToSet(Append(g, x)) = ToSet(g) \cup {x}
    BY <1>4, <1>9, ToSetOfAppend
  <2>2. Len(g) \in Nat /\ 1 \in 1 .. Len(g)
    BY <1>9
  <2>3. QED  BY <1>4, <1>9, <2>1, <2>2
<1> HIDE DEF x, g
<1>12. GroupKey' = GroupKey
  <2>1. group'["left"][1] = group["left"][1]
    BY <1>2, <1>10, <1>11, SidesAre DEF g
  <2>2. QED  BY <2>1 DEF GroupKey
<1>13. \A z \in Sides : Unjoined(z)' = Unjoined(z)
  <2>1. Grouped(side)' = Grouped(side) \cup {x} /\ Grouped(other)' = Grouped(other)
    BY <1>2, <1>10, <1>11 DEF Grouped, g
  <2>2. Unjoined(side)' = Unjoined(side) /\ Unjoined(other)' = Unjoined(other)
    BY <1>4, <1>7, <1>8, <2>1 DEF Unjoined
  <2>3. QED  BY <1>2, <2>2
<1>14. RowInv'
  <2>1. /\ row'[other] # Absent => /\ TakenOf(other)' >= 1 /\ row'[other] = Stream(other)'[TakenOf(other)']
                                   /\ row'[other].accepted
        /\ row'[other] = Absent => TakenOf(other)' = Len(Stream(other)')
    <3>1. other \in Sides /\ advancing # other /\ row'[other] = row[other] /\ progress # "open"
      BY <1>1, <1>2, SidesAre DEF Grouping
    <3> HIDE DEF other
    <3>2. QED  BY <1>2, <1>3, <3>1 DEF RowInv
  <2> HIDE DEF other
  <2>2. QED  BY <1>1, <1>2, <2>1 DEF RowInv
<1>15. GroupInv(side)'
  <2>1. \A r \in ToSet(group[side])' : r.accepted /\ SameValue(r.key, GroupKey')
    BY <1>4, <1>6, <1>9, <1>10, <1>11, <1>12 DEF GroupInv, g
  <2>2. \E i \in 1 .. From(side)' - 1 : group'[side][1] = Stream(side)'[i]
    <3>1. PICK i \in 1 .. From(side) - 1 : g[1] = s[i]
      BY <1>9 DEF GroupInv, g
    <3>2. i \in 1 .. From(side)' - 1
      BY <1>4, <1>7
    <3>3. QED  BY <1>3, <1>10, <1>11, <3>1, <3>2
  <2>3. group'[side] \in Seq(RowsOf(side)')
    BY <1>3, <1>10, <1>11
  <2>4. QED  BY <2>1, <2>2, <2>3 DEF GroupInv
<1>16. GroupInv(other)'
  BY <1>2, <1>3, <1>8, <1>9, <1>10, <1>12 DEF GroupInv
<1>17. GroupsInv'
  <2>1. \A z \in Sides : GroupInv(z)'
    BY <1>2, <1>15, <1>16
  <2>2. group'["left"] # <<>>
    BY <1>2, <1>10, <1>11, SidesAre DEF GroupsInv
  <2>3. CASE side = "left"
    <3>1. progress' = "collect_left" /\ other = "right"
      BY <1>1, <2>3 DEF OtherSide
    <3>2. group'["right"] = <<>> /\ row'["right"] # Absent /\ SameValue(row'["right"].key, GroupKey')
      BY <1>1, <1>2, <1>10, <1>12, <3>1 DEF GroupsInv
    <3> HIDE DEF other
    <3>3. QED  BY <2>1, <2>2, <3>1, <3>2 DEF GroupsInv
  <2>4. CASE side = "right"
    <3>1. progress' = "collect_right" /\ progress = "collect_right" /\ other = "left"
      BY <1>1, <2>4 DEF OtherSide
    <3>2. KeyPassed("left")
      BY <1>2, <3>1 DEF GroupsInv
    <3>3. KeyPassed("left")'
      BY <1>8, <1>12, <3>1, <3>2 DEF KeyPassed
    <3>4. group'["right"] # <<>>
      BY <1>10, <1>11, <2>4
    <3> HIDE DEF other
    <3>5. QED  BY <2>1, <2>2, <3>1, <3>3, <3>4 DEF GroupsInv
  <2>5. QED  BY <2>3, <2>4, SidesAre
<1>18. MergedInv'
  BY <1>1, <1>13, SameUnjoinedMerged
<1>19. QED  BY <1>14, <1>17, <1>18 DEF LiveInv

LEMMA LiveLeftCollected ==
  ASSUME ReadInv, LiveInv, UNCHANGED generated, LeftCollected
  PROVE  LiveInv'
<1> DEFINE t == Stream("right")
           y == row["right"]
<1>1. /\ progress = "collect_left" /\ advancing = "none" /\ PastGroup("left")
      /\ group' = [group EXCEPT !["right"] = <<y>>]
      /\ progress' = "collect_right" /\ advancing' = "right"
      /\ UNCHANGED <<generated, cursor, row, merged>>
  BY DEF LeftCollected
<1>2. /\ RowInv /\ GroupsInv /\ MergedInv /\ CursorInv /\ Grouping /\ Grouping'
      /\ "left" \in Sides /\ "right" \in Sides
  BY <1>1, SidesAre DEF LiveInv, ReadInv, Grouping
<1>3. \A z \in Sides : TakenOf(z)' = TakenOf(z) /\ Stream(z)' = Stream(z) /\ RowsOf(z)' = RowsOf(z)
  BY <1>1, <1>2, CursorsKept, StreamKept
<1>4. /\ group["left"] # <<>> /\ group["right"] = <<>> /\ y # Absent /\ SameValue(y.key, GroupKey)
      /\ GroupInv("left")
  BY <1>1, <1>2 DEF GroupsInv
<1>5. /\ TakenOf("right") \in 1 .. Len(t) /\ y = t[TakenOf("right")] /\ y \in RowsOf("right") /\ y.accepted
      /\ Pending("right") = {y} \cup RowsFrom(t, TakenOf("right") + 1)
  BY <1>1, <1>2, <1>4, PlacesAre
<1>6. From("right")' = TakenOf("right") + 1 /\ Pending("right")' = RowsFrom(t, TakenOf("right") + 1)
  BY <1>1, <1>2, <1>3 DEF From, Pending
<1>7. From("left")' = From("left") /\ Pending("left")' = Pending("left")
  <2>1. From("left")' = From("left")
    BY <1>1, <1>2, <1>3 DEF From
  <2>2. QED  BY <1>1, <1>2, <2>1, SamePending
<1>8. KeyPassed("left")
  BY <1>1, <1>2, <1>4, GroupPassed
<1>9. group'["right"] = <<y>> /\ group'["left"] = group["left"] /\ GroupKey' = GroupKey
  <2>1. group'["right"] = <<y>> /\ group'["left"] = group["left"]
    BY <1>1, <1>2, OneSide DEF ReadInv, ControlInv
  <2>2. QED  BY <2>1 DEF GroupKey
<1> HIDE DEF y
<1>10. \A z \in Sides : Unjoined(z)' = Unjoined(z)
  <2>1. Grouped("right")' = {y} /\ Grouped("right") = {} /\ Grouped("left")' = Grouped("left")
    <3>1. ToSet(<<y>>) = {y} /\ ToSet(<<>>) = {}
      BY DEF ToSet
    <3>2. QED  BY <1>2, <1>4, <1>9, <3>1 DEF Grouped
  <2>2. Unjoined("left")' = Unjoined("left") /\ Unjoined("right")' = Unjoined("right")
    BY <1>5, <1>6, <1>7, <2>1 DEF Unjoined
  <2>3. QED  BY <2>2, SidesAre
<1>11. RowInv'
  <2>1. /\ row'["left"] # Absent => /\ TakenOf("left")' >= 1 /\ row'["left"] = Stream("left")'[TakenOf("left")']
                                    /\ row'["left"].accepted
        /\ row'["left"] = Absent => TakenOf("left")' = Len(Stream("left")')
    BY <1>1, <1>2, <1>3 DEF RowInv
  <2>2. QED  BY <1>1, <2>1, SidesAre DEF RowInv
<1>12. GroupInv("left")'
  BY <1>2, <1>3, <1>4, <1>7, <1>9 DEF GroupInv
<1>13. GroupInv("right")'
  <2>1. <<y>> \in Seq(RowsOf("right")) /\ ToSet(<<y>>) = {y} /\ <<y>>[1] = y
    BY <1>5 DEF ToSet
  <2>2. TakenOf("right") \in 1 .. From("right")' - 1
    BY <1>5, <1>6
  <2>3. QED  BY <1>2, <1>3, <1>4, <1>5, <1>9, <2>1, <2>2 DEF GroupInv
<1>14. GroupsInv'
  <2>1. KeyPassed("left")'
    BY <1>7, <1>8, <1>9 DEF KeyPassed
  <2>2. <<y>> # <<>>
    OBVIOUS
  <2>3. group'["left"] # <<>> /\ group'["right"] # <<>>
    BY <1>4, <1>9, <2>2
  <2>4. QED  BY <1>1, <1>12, <1>13, <2>1, <2>3, SidesAre DEF GroupsInv
<1>15. MergedInv'
  BY <1>1, <1>10, SameUnjoinedMerged
<1>16. QED  BY <1>11, <1>14, <1>15 DEF LiveInv

LEMMA LiveRightCollected ==
  ASSUME ReadInv, LiveInv, UNCHANGED generated, RightCollected
  PROVE  LiveInv'
<1>1. /\ progress = "collect_right" /\ advancing = "none" /\ PastGroup("right")
      /\ progress' = "emit"
      /\ UNCHANGED <<generated, advancing, cursor, row, group, merged>>
  BY DEF RightCollected
<1>2. /\ RowInv /\ GroupsInv /\ MergedInv /\ CursorInv /\ Grouping /\ Grouping'
      /\ "left" \in Sides /\ "right" \in Sides
  BY <1>1, SidesAre DEF LiveInv, ReadInv, Grouping
<1>3. \A z \in Sides : TakenOf(z)' = TakenOf(z) /\ Stream(z)' = Stream(z) /\ RowsOf(z)' = RowsOf(z)
  BY <1>1, <1>2, CursorsKept, StreamKept
<1>4. \A z \in Sides : From(z)' = From(z) /\ Pending(z)' = Pending(z)
  <2>1. \A z \in Sides : From(z)' = From(z)
    BY <1>1, <1>3 DEF From
  <2>2. QED  BY <1>1, <2>1, SamePending
<1>5. GroupKey' = GroupKey /\ \A z \in Sides : Grouped(z)' = Grouped(z)
  BY <1>1, <1>2 DEF GroupKey, Grouped
<1>6. KeyPassed("right") /\ KeyPassed("left")
  <2>1. group["right"] # <<>> /\ KeyPassed("left")
    BY <1>1, <1>2 DEF GroupsInv
  <2>2. QED  BY <1>1, <1>2, <2>1, GroupPassed
<1>7. RowInv'
  <2>1. \A z \in Sides :
          /\ row[z] # Absent => TakenOf(z) >= 1 /\ row[z] = Stream(z)[TakenOf(z)] /\ row[z].accepted
          /\ row[z] = Absent => TakenOf(z) = Len(Stream(z))
    BY <1>1, <1>2, SidesAre DEF RowInv
  <2>2. \A z \in Sides :
          /\ row'[z] # Absent => TakenOf(z)' >= 1 /\ row'[z] = Stream(z)'[TakenOf(z)'] /\ row'[z].accepted
          /\ row'[z] = Absent => TakenOf(z)' = Len(Stream(z)')
    BY <1>1, <1>3, <2>1
  <2>3. QED  BY <2>2 DEF RowInv
<1>8. GroupsInv'
  <2>1. \A z \in Sides : GroupInv(z)'
    BY <1>1, <1>2, <1>3, <1>4, <1>5 DEF GroupsInv, GroupInv
  <2>2. KeyPassed("left")' /\ KeyPassed("right")'
    BY <1>2, <1>4, <1>5, <1>6 DEF KeyPassed
  <2>3. group'["left"] # <<>> /\ group'["right"] # <<>>
    BY <1>1, <1>2 DEF GroupsInv
  <2>4. QED  BY <1>1, <2>1, <2>2, <2>3 DEF GroupsInv
<1>9. MergedInv'
  <2>1. \A z \in Sides : Unjoined(z)' = Unjoined(z)
    BY <1>4, <1>5 DEF Unjoined
  <2>2. QED  BY <1>1, <2>1, SameUnjoinedMerged
<1>10. QED  BY <1>7, <1>8, <1>9 DEF LiveInv

-----------------------------------------------------------------------------
(* The groups are emitted.                                                 *)

\* The pairs of two rows of the key.
LEMMA GroupedPairs ==
  ASSUME ReadInv, GroupsInv, Grouping, NEW pair \in Grouped("left") \X Grouped("right")
  PROVE  /\ pair \in RowsOf("left") \X RowsOf("right")
         /\ pair \in KeyMatches <=> Satisfies(pair[1], pair[2])
         /\ IsUnjoined(pair)
<1> DEFINE l == pair[1]
           r == pair[2]
<1>1. /\ l \in ToSet(group["left"]) /\ r \in ToSet(group["right"]) /\ pair = <<l, r>>
      /\ l \in Grouped("left") /\ r \in Grouped("right")
  BY DEF Grouped
<1>2. GroupInv("left") /\ GroupInv("right")
  BY SidesAre DEF GroupsInv
<1>3. l \in RowsOf("left") /\ r \in RowsOf("right")
  <2>1. ToSet(group["left"]) \subseteq RowsOf("left") /\ ToSet(group["right"]) \subseteq RowsOf("right")
    BY <1>2, ToSetType DEF GroupInv
  <2>2. QED  BY <1>1, <2>1
<1>4. l.accepted /\ r.accepted /\ SameValue(l.key, GroupKey) /\ SameValue(r.key, GroupKey)
  BY <1>1, <1>2 DEF GroupInv
<1>5. l.key \in Values /\ r.key \in Values /\ GroupKey \in Values
  <2>1. input \in Inputs /\ GroupKey \in Values
    BY KeyType DEF ReadInv, Generated
  <2>2. QED  BY <1>3, <2>1, SidesAre, StreamFacts
<1> HIDE DEF l, r
<1>6. SameValue(l.key, r.key)
  BY <1>4, <1>5, SameValueJoins
<1>7. CompareValues(l.key, r.key) = "Equal"
  BY <1>5, <1>6, SameValueIs
<1>8. pair \in RowsOf("left") \X RowsOf("right")
  BY <1>1, <1>3
<1>9. pair \in KeyMatches <=> Satisfies(pair[1], pair[2])
  BY <1>4, <1>6, <1>7, <1>8 DEF KeyMatches, Satisfies, l, r
<1>10. IsUnjoined(pair)
  BY <1>1 DEF IsUnjoined, Unjoined, l, r
<1>11. QED  BY <1>8, <1>9, <1>10

\* Once both groups are complete, a pair of the join that is not of the two
\* is open by its pending rows.
LEMMA OtherPairs ==
  ASSUME ReadInv, GroupsInv, progress = "emit", NEW pair \in KeyMatches
  PROVE  /\ pair \in Grouped("left") \X Grouped("right") => pair[1] \notin Pending("left")
         /\ pair \notin Grouped("left") \X Grouped("right") =>
              (IsUnjoined(pair) <=> pair[1] \in Pending("left") /\ pair[2] \in Pending("right"))
<1> DEFINE l == pair[1]
           r == pair[2]
<1>1. /\ l \in RowsOf("left") /\ r \in RowsOf("right") /\ pair = <<l, r>> /\ SameValue(l.key, r.key)
  BY MatchFacts
<1>2. Grouping /\ GroupInv("left") /\ GroupInv("right") /\ KeyPassed("left") /\ KeyPassed("right")
  BY SidesAre DEF GroupsInv, Grouping
<1>3. l.key \in Values /\ r.key \in Values /\ GroupKey \in Values
  <2>1. input \in Inputs /\ GroupKey \in Values
    BY <1>2, KeyType DEF ReadInv, Generated
  <2>2. QED  BY <1>1, <2>1, SidesAre, StreamFacts
<1> HIDE DEF l, r
<1>4. l \in Grouped("left") => SameValue(l.key, GroupKey)
  BY <1>2 DEF Grouped, GroupInv
<1>5. r \in Grouped("right") => SameValue(r.key, GroupKey)
  BY <1>2 DEF Grouped, GroupInv
<1>6. l \in Pending("left") => ~SameValue(l.key, GroupKey)
  BY <1>2 DEF KeyPassed
<1>7. r \in Pending("right") => ~SameValue(r.key, GroupKey)
  BY <1>2 DEF KeyPassed
<1>8. SameValue(l.key, GroupKey) => SameValue(r.key, GroupKey)
  BY <1>1, <1>3, SameValueJoins
<1>9. SameValue(r.key, GroupKey) => SameValue(l.key, GroupKey)
  BY <1>1, <1>3, SameValueJoins
<1>10. pair \in Grouped("left") \X Grouped("right") <=> l \in Grouped("left") /\ r \in Grouped("right")
  BY <1>1
<1>11. IsUnjoined(pair) <=> /\ l \in Pending("left") \/ l \in Grouped("left")
                            /\ r \in Pending("right") \/ r \in Grouped("right")
  BY DEF IsUnjoined, Unjoined, l, r
<1>12. QED  BY <1>4, <1>5, <1>6, <1>7, <1>8, <1>9, <1>10, <1>11 DEF l, r

LEMMA LiveEmitGroups ==
  ASSUME ReadInv, LiveInv, UNCHANGED generated, EmitGroups
  PROVE  LiveInv'
<1> DEFINE all == RowsOf("left") \X RowsOf("right")
           held == Grouped("left") \X Grouped("right")
<1>1. /\ progress = "emit" /\ progress' = "compare" /\ merged' = MergedAfter(Len(GroupPairs))
      /\ UNCHANGED <<generated, advancing, cursor, row, group>>
  BY DEF EmitGroups
<1>2. /\ RowInv /\ GroupsInv /\ MergedInv /\ CursorInv /\ Grouping /\ ~Grouping'
      /\ "left" \in Sides /\ "right" \in Sides /\ DOMAIN merged = all /\ advancing = "none"
  BY <1>1, SidesAre DEF LiveInv, ReadInv, ControlInv, Grouping
<1>3. \A z \in Sides : TakenOf(z)' = TakenOf(z) /\ Stream(z)' = Stream(z) /\ RowsOf(z)' = RowsOf(z)
  BY <1>1, <1>2, CursorsKept, StreamKept
<1>4. \A z \in Sides : Pending(z)' = Pending(z) /\ Grouped(z)' = {}
  <2>1. \A z \in Sides : From(z)' = From(z)
    BY <1>1, <1>3 DEF From
  <2>2. QED  BY <1>1, <1>2, <2>1, SamePending DEF Grouped
<1>5. RowInv'
  <2>1. \A z \in Sides :
          /\ row[z] # Absent => TakenOf(z) >= 1 /\ row[z] = Stream(z)[TakenOf(z)] /\ row[z].accepted
          /\ row[z] = Absent => TakenOf(z) = Len(Stream(z))
    BY <1>1, <1>2, SidesAre DEF RowInv
  <2>2. \A z \in Sides :
          /\ row'[z] # Absent => TakenOf(z)' >= 1 /\ row'[z] = Stream(z)'[TakenOf(z)'] /\ row'[z].accepted
          /\ row'[z] = Absent => TakenOf(z)' = Len(Stream(z)')
    BY <1>1, <1>3, <2>1
  <2>3. QED  BY <2>2 DEF RowInv
<1>6. GroupsInv'
  BY <1>2 DEF GroupsInv
<1>7. KeyMatches' = KeyMatches
  BY <1>1, StreamKept
<1>8. \A pair : IsUnjoined(pair)' <=> pair[1] \in Pending("left") /\ pair[2] \in Pending("right")
  BY <1>2, <1>4 DEF IsUnjoined, Unjoined
<1>9. merged' = [pair \in all |-> merged[pair] + IF pair \in held /\ Satisfies(pair[1], pair[2]) THEN 1 ELSE 0]
  <2> DEFINE joined == {pair \in ToSet(SubSeq(GroupPairs, 1, Len(GroupPairs))) : Satisfies(pair[1], pair[2])}
  <2>1. joined = {pair \in held : Satisfies(pair[1], pair[2])}
    BY <1>2, GroupPairsAre
  <2>2. merged' = [pair \in DOMAIN merged |-> merged[pair] + IF pair \in joined THEN 1 ELSE 0]
    BY <1>1 DEF MergedAfter
  <2>3. \A pair : pair \in joined <=> pair \in held /\ Satisfies(pair[1], pair[2])
    BY <2>1
  <2> HIDE DEF joined
  <2>4. QED  BY <1>2, <2>2, <2>3
<1>10. ASSUME NEW pair \in all
       PROVE  merged'[pair] = IF pair \in KeyMatches /\ ~IsUnjoined(pair)' THEN 1 ELSE 0
  <2>1. merged[pair] = IF pair \in KeyMatches /\ ~IsUnjoined(pair) THEN 1 ELSE 0
    BY <1>2 DEF MergedInv
  <2>2. merged'[pair] = merged[pair] + IF pair \in held /\ Satisfies(pair[1], pair[2]) THEN 1 ELSE 0
    BY <1>9
  <2>3. pair \in held => (pair \in KeyMatches <=> Satisfies(pair[1], pair[2])) /\ IsUnjoined(pair)
    BY <1>2, GroupedPairs
  <2>4. pair \in KeyMatches /\ pair \in held => pair[1] \notin Pending("left")
    BY <1>1, <1>2, OtherPairs
  <2>5. pair \in KeyMatches /\ pair \notin held =>
          (IsUnjoined(pair) <=> pair[1] \in Pending("left") /\ pair[2] \in Pending("right"))
    BY <1>1, <1>2, OtherPairs
  <2> HIDE DEF held
  <2>6. QED  BY <1>8, <2>1, <2>2, <2>3, <2>4, <2>5
<1>11. MergedInv'
  <2>1. RowsOf("left")' = RowsOf("left") /\ RowsOf("right")' = RowsOf("right")
    BY <1>2, <1>3
  <2>2. merged' = [pair \in all |-> IF pair \in KeyMatches /\ ~IsUnjoined(pair)' THEN 1 ELSE 0]
    BY <1>9, <1>10
  <2>3. QED  BY <1>7, <2>1, <2>2 DEF MergedInv
<1>12. QED  BY <1>5, <1>6, <1>11 DEF LiveInv

LEMMA LiveFinish ==
  ASSUME ReadInv, LiveInv, UNCHANGED generated, Finish
  PROVE  LiveInv' /\ UNCHANGED merged /\ \A pair \in KeyMatches : merged[pair] = 1
<1>1. /\ progress = "compare" /\ advancing = "none" /\ progress' = "done"
      /\ UNCHANGED <<generated, advancing, cursor, row, group, merged>>
      /\ \E side \in Sides : row[side] = Absent
  BY DEF Finish
<1>2. RowInv /\ MergedInv /\ CursorInv /\ ~Grouping /\ ~Grouping'
  BY <1>1 DEF LiveInv, ReadInv, Grouping
<1>3. \A z \in Sides : TakenOf(z)' = TakenOf(z) /\ Stream(z)' = Stream(z)
  BY <1>1, <1>2, CursorsKept, StreamKept
<1>4. \A z \in Sides :
          /\ row[z] # Absent => TakenOf(z) >= 1 /\ row[z] = Stream(z)[TakenOf(z)] /\ row[z].accepted
          /\ row[z] = Absent => TakenOf(z) = Len(Stream(z))
  BY <1>1, <1>2, SidesAre DEF RowInv
<1>5. RowInv'
  <2>1. \A z \in Sides :
          /\ row'[z] # Absent => TakenOf(z)' >= 1 /\ row'[z] = Stream(z)'[TakenOf(z)'] /\ row'[z].accepted
          /\ row'[z] = Absent => TakenOf(z)' = Len(Stream(z)')
    BY <1>1, <1>3, <1>4
  <2>2. QED  BY <2>1 DEF RowInv
<1>6. \A z \in Sides : Unjoined(z)' = Unjoined(z)
  <2>1. \A z \in Sides : From(z)' = From(z)
    BY <1>1, <1>3 DEF From
  <2>2. \A z \in Sides : Pending(z)' = Pending(z)
    BY <1>1, <2>1, SamePending
  <2>3. QED  BY <1>2, <2>2 DEF Unjoined, Grouped
<1>7. GroupsInv' /\ MergedInv'
  <2>1. GroupsInv'
    BY <1>2 DEF GroupsInv
  <2>2. QED  BY <1>1, <1>6, <2>1, SameUnjoinedMerged
<1>8. \E side \in Sides : Unjoined(side) = {}
  <2>1. PICK side \in Sides : row[side] = Absent
    BY <1>1
  <2>2. /\ From(side) = TakenOf(side) + 1 /\ TakenOf(side) = Len(Stream(side)) /\ Len(Stream(side)) \in Nat
        /\ Stream(side) \in Seq(RowsOf(side))
    BY <1>2, <1>4, <2>1, PlacesAre
  <2>3. Pending(side) = {}
    BY <2>2, RowsFromFacts DEF Pending
  <2>4. QED  BY <1>2, <2>3 DEF Unjoined, Grouped
<1>9. ASSUME NEW pair \in KeyMatches PROVE merged[pair] = 1
  <2>1. ~IsUnjoined(pair)
    BY <1>8, SidesAre DEF IsUnjoined
  <2>2. QED  BY <1>2, <2>1, MatchFacts DEF MergedInv
<1>10. QED  BY <1>1, <1>5, <1>7, <1>9 DEF LiveInv

-----------------------------------------------------------------------------
(* Each step of the merge is a step of the join.                           *)

\* The pairs of groups are emitted for the first time.
LEMMA Emission ==
  ASSUME ReadInv, LiveInv, Grouping, UNCHANGED generated,
         NEW n \in 0 .. Len(GroupPairs), merged' = MergedAfter(n)
  PROVE  MergedJoin!Emits
<1> DEFINE all == RowsOf("left") \X RowsOf("right")
           held == Grouped("left") \X Grouped("right")
           joined == {pair \in ToSet(SubSeq(GroupPairs, 1, n)) : Satisfies(pair[1], pair[2])}
<1>1. DOMAIN merged = all /\ GroupsInv /\ MergedInv
  BY DEF ReadInv, ControlInv, LiveInv
<1>2. merged' = [pair \in DOMAIN merged |-> merged[pair] + IF pair \in joined THEN 1 ELSE 0]
  BY DEF MergedAfter
<1>3. ToSet(SubSeq(GroupPairs, 1, n)) \subseteq held
  BY <1>1, GroupPairsAre
<1>4. \A pair \in joined : pair \in held /\ Satisfies(pair[1], pair[2])
  BY <1>3
<1> HIDE DEF joined, held
<1>5. DOMAIN merged' = DOMAIN merged
  BY <1>2
<1>6. ASSUME NEW pair \in DOMAIN merged
      PROVE  \/ merged'[pair] = merged[pair]
             \/ pair \in KeyMatches /\ merged[pair] = 0 /\ merged'[pair] = 1
  <2>1. merged[pair] = IF pair \in KeyMatches /\ ~IsUnjoined(pair) THEN 1 ELSE 0
    BY <1>1 DEF MergedInv
  <2>2. merged'[pair] = merged[pair] + IF pair \in joined THEN 1 ELSE 0
    BY <1>2
  <2>3. pair \in joined => pair \in KeyMatches /\ IsUnjoined(pair)
    BY <1>1, <1>4, GroupedPairs DEF held
  <2>4. QED  BY <2>1, <2>2, <2>3
<1>7. QED  BY <1>5, <1>6 DEF MergedJoin!Emits

\* A join that was declined or has ended takes no step.
LEMMA EndedStays ==
  ASSUME ControlInv, progress \in {"declined", "done", "failed"}, [MergeNext]_mergevars
  PROVE  UNCHANGED mergevars
<1>1. advancing = "none" /\ \A side \in Sides : side # "none"
  BY SidesAre DEF ControlInv
<1>2. ~Comparing
  BY DEF Comparing
<1>3. \A side \in Sides : ~ReadRow(side) /\ ~RejectRow(side) /\ ~EndOfTable(side) /\ ~PassOver(side)
  BY <1>1, <1>2 DEF ReadRow, RejectRow, EndOfTable, PassOver
<1>4. ~OpenRight /\ ~StartGroups /\ ~CollectLeft /\ ~LeftCollected /\ ~CollectRight /\ ~RightCollected
  BY <1>2 DEF OpenRight, StartGroups, CollectLeft, LeftCollected, CollectRight, RightCollected
<1>5. ~EmitGroups /\ ~Finish /\ ~MergeFail
  BY <1>1 DEF EmitGroups, Finish, MergeFail
<1>6. ~Incomparable
  BY <1>2 DEF Incomparable
<1>7. QED  BY <1>3, <1>4, <1>5, <1>6 DEF MergeNext, MergeEnded

\* A step that is nothing to the sink.
LEMMA QuietStep ==
  ASSUME UNCHANGED <<generated, merged>>, progress \notin {"done", "failed"}, progress' \notin {"done", "failed"}
  PROVE  UNCHANGED MergedJoin!vars
<1>1. KeyMatches' = KeyMatches
  BY StreamKept
<1>2. QED  BY <1>1 DEF MergedJoin!vars

LEMMA FailedStep ==
  ASSUME UNCHANGED generated, progress \notin {"done", "failed"}, progress' = "failed", MergedJoin!Emits
  PROVE  MergedJoin!Next
<1>1. KeyMatches' = KeyMatches
  BY StreamKept
<1>2. MergedJoin!Fail
  BY <1>1 DEF MergedJoin!Fail
<1>3. QED  BY <1>2 DEF MergedJoin!Next

LEMMA MergeStep ==
  ASSUME MergeInv, [MergeNext]_mergevars
  PROVE  MergeInv' /\ [MergedJoin!Next]_(MergedJoin!vars)
<1> DEFINE P == (Live' => LiveInv') /\ [MergedJoin!Next]_(MergedJoin!vars)
<1>1. ReadInv /\ ControlInv /\ CursorInv /\ (Live => LiveInv)
  BY DEF MergeInv, ReadInv, LiveInv
<1>2. ReadInv' /\ UNCHANGED generated
  BY <1>1, ReadInvStep, GeneratedStays
<1>3. UNCHANGED mergevars => P
  <2> SUFFICES ASSUME UNCHANGED mergevars PROVE P
    OBVIOUS
  <2>1. UNCHANGED <<input, table, stats, progress, advancing, cursor, row, group, merged>>
    BY DEF mergevars, generated
  <2>2. Live' <=> Live
    BY <2>1 DEF Live
  <2>3. LiveInv => LiveInv'
    <3>1. (\A z \in Sides : From(z)' = From(z)) /\ (RowInv => RowInv')
      BY <2>1 DEF From, TakenOf, Left, Stream, RowInv
    <3>2. QED  BY <1>1, <1>2, <2>1, <3>1, LookingSame DEF LiveInv
  <2>4. UNCHANGED MergedJoin!vars
    <3>1. KeyMatches' = KeyMatches
      BY <1>2, StreamKept
    <3>2. QED  BY <2>1, <3>1 DEF MergedJoin!vars
  <2>5. QED  BY <1>1, <2>2, <2>3, <2>4
<1>4. ASSUME progress \in {"declined", "done", "failed"} PROVE P
  <2>1. UNCHANGED mergevars
    BY <1>1, <1>4, EndedStays
  <2> HIDE DEF P
  <2>2. QED  BY <1>3, <2>1
<1>5. ASSUME progress \notin {"declined", "done", "failed"} PROVE P
  <2>1. LiveInv
    BY <1>1, <1>5 DEF Live
  <2>2. ASSUME NEW side \in Sides, ReadRow(side) PROVE P
    BY <1>1, <1>2, <1>5, <2>1, <2>2, LiveReadRow, QuietStep DEF ReadRow
  <2>3. ASSUME NEW side \in Sides, RejectRow(side) PROVE P
    BY <1>1, <1>2, <1>5, <2>1, <2>3, LiveRejectRow, QuietStep DEF RejectRow
  <2>4. ASSUME NEW side \in Sides, EndOfTable(side) PROVE P
    BY <1>1, <1>2, <1>5, <2>1, <2>4, LiveEndOfTable, QuietStep DEF EndOfTable
  <2>5. ASSUME NEW side \in Sides, PassOver(side) PROVE P
    BY <1>1, <1>2, <1>5, <2>1, <2>5, LivePassOver, QuietStep DEF PassOver
  <2>6. ASSUME OpenRight PROVE P
    BY <1>1, <1>2, <1>5, <2>1, <2>6, LiveOpenRight, QuietStep DEF OpenRight
  <2>7. ASSUME StartGroups PROVE P
    BY <1>1, <1>2, <1>5, <2>1, <2>7, LiveStartGroups, QuietStep DEF StartGroups
  <2>8. ASSUME CollectLeft PROVE P
    <3>1. Collect("left") /\ progress = "collect_left" /\ UNCHANGED <<progress, merged>>
      BY <2>8 DEF CollectLeft, Collect
    <3>2. LiveInv'
      BY <1>1, <1>2, <2>1, <3>1, LiveCollect, SidesAre
    <3>3. QED  BY <1>2, <1>5, <3>1, <3>2, QuietStep
  <2>9. ASSUME CollectRight PROVE P
    <3>1. Collect("right") /\ progress = "collect_right" /\ UNCHANGED <<progress, merged>> /\ "right" # "left"
      BY <2>9 DEF CollectRight, Collect
    <3>2. LiveInv'
      BY <1>1, <1>2, <2>1, <3>1, LiveCollect, SidesAre
    <3>3. QED  BY <1>2, <1>5, <3>1, <3>2, QuietStep
  <2>10. ASSUME LeftCollected PROVE P
    BY <1>1, <1>2, <1>5, <2>1, <2>10, LiveLeftCollected, QuietStep DEF LeftCollected
  <2>11. ASSUME RightCollected PROVE P
    BY <1>1, <1>2, <1>5, <2>1, <2>11, LiveRightCollected, QuietStep DEF RightCollected
  <2>12. ASSUME EmitGroups PROVE P
    <3>1. LiveInv'
      BY <1>1, <1>2, <2>1, <2>12, LiveEmitGroups
    <3>2. progress = "emit" /\ progress' = "compare" /\ Grouping /\ merged' = MergedAfter(Len(GroupPairs))
      BY <2>12 DEF EmitGroups, Grouping
    <3>3. Len(GroupPairs) \in 0 .. Len(GroupPairs)
      <4>1. Len(GroupPairs) \in Nat
        BY <1>1, <2>1, <3>2, GroupPairsAre DEF LiveInv
      <4>2. QED  BY <4>1
    <3>4. MergedJoin!Emits
      BY <1>1, <1>2, <2>1, <3>2, <3>3, Emission
    <3>5. KeyMatches' = KeyMatches
      BY <1>2, StreamKept
    <3>6. MergedJoin!Emit
      BY <3>2, <3>4, <3>5 DEF MergedJoin!Emit
    <3>7. QED  BY <3>1, <3>6 DEF MergedJoin!Next
  <2>13. ASSUME Finish PROVE P
    <3>1. LiveInv' /\ UNCHANGED merged /\ \A pair \in KeyMatches : merged[pair] = 1
      BY <1>1, <1>2, <2>1, <2>13, LiveFinish
    <3>2. progress = "compare" /\ progress' = "done"
      BY <2>13 DEF Finish
    <3>3. KeyMatches' = KeyMatches
      BY <1>2, StreamKept
    <3>4. MergedJoin!Complete
      BY <3>1, <3>2, <3>3 DEF MergedJoin!Complete
    <3>5. QED  BY <3>1, <3>4 DEF MergedJoin!Next
  <2>14. ASSUME Incomparable PROVE P
    <3>1. progress' = "failed" /\ UNCHANGED merged /\ ~Live'
      BY <2>14 DEF Incomparable, Live
    <3>2. MergedJoin!Emits
      BY <3>1 DEF MergedJoin!Emits
    <3>3. QED  BY <1>2, <1>5, <3>1, <3>2, FailedStep
  <2>15. ASSUME MergeFail PROVE P
    <3>1. progress' = "failed" /\ ~Live'
      BY <2>15 DEF MergeFail, Live
    <3>2. CASE UNCHANGED merged
      <4>1. MergedJoin!Emits
        BY <3>2 DEF MergedJoin!Emits
      <4>2. QED  BY <1>2, <1>5, <3>1, <4>1, FailedStep
    <3>3. CASE progress = "emit" /\ \E n \in 0 .. Len(GroupPairs) - 1 : merged' = MergedAfter(n)
      <4>1. PICK n \in 0 .. Len(GroupPairs) - 1 : merged' = MergedAfter(n)
        BY <3>3
      <4>2. Grouping
        BY <3>3 DEF Grouping
      <4>3. n \in 0 .. Len(GroupPairs)
        <5>1. Len(GroupPairs) \in Nat
          BY <1>1, <2>1, <4>2, GroupPairsAre DEF LiveInv
        <5>2. QED  BY <5>1
      <4>4. MergedJoin!Emits
        BY <1>1, <1>2, <2>1, <4>1, <4>2, <4>3, Emission
      <4>5. QED  BY <1>2, <1>5, <3>1, <4>4, FailedStep
    <3>4. QED  BY <2>15, <3>2, <3>3 DEF MergeFail
  <2>16. MergeEnded => P
    BY <1>3 DEF MergeEnded
  <2> HIDE DEF P
  <2>17. QED
    BY <1>3, <2>2, <2>3, <2>4, <2>5, <2>6, <2>7, <2>8, <2>9, <2>10, <2>11, <2>12, <2>13, <2>14, <2>15, <2>16
       DEF MergeNext
<1>6. P
  BY <1>4, <1>5
<1>7. QED  BY <1>2, <1>6 DEF MergeInv, LiveInv

LEMMA MergeStarts == MergeInit => MergeInv /\ MergedJoin!Init
<1> SUFFICES ASSUME MergeInit PROVE MergeInv /\ MergedJoin!Init
  OBVIOUS
<1>1. ReadInv /\ (Live => LiveInv)
  BY ReadInvInit, LiveInit
<1>2. merged = [pair \in RowsOf("left") \X RowsOf("right") |-> 0] /\ progress \in {"declined", "open"}
  BY DEF MergeInit
<1>3. MergedJoin!Init
  BY <1>2 DEF MergedJoin!Init, KeyMatches
<1>4. QED  BY <1>1, <1>3 DEF MergeInv, LiveInv

(* What the merge relies on between two steps: the rows at hand are those  *)
(* taken last, groups hold accepted rows of one key, a complete group      *)
(* leaves none of its key unread, and a pair of the join was emitted,      *)
(* once, when one of its rows is no longer to be looked at                 *)
(* (execute_ordered_merge_join).                                           *)
THEOREM MergeInvHolds == MergeSpec => []MergeInv
<1>1. MergeInit => MergeInv
  BY MergeStarts
<1>2. MergeInv /\ [MergeNext]_mergevars => MergeInv'
  BY MergeStep
<1>3. QED  BY <1>1, <1>2, PTL DEF MergeSpec

(* The merge of any two tables whose statistics call the keys ordered      *)
(* emits each pair of the join once, and no other, whatever keys repeat    *)
(* on either side and wherever blocks and batches end                      *)
(* (execute_ordered_merge_join).                                           *)
THEOREM OrderedMergeJoinImplementsJoin == MergeSpec => MergeImplementsJoin
<1>1. MergeInit => MergedJoin!Init
  BY MergeStarts
<1>2. MergeInv /\ [MergeNext]_mergevars => [MergedJoin!Next]_(MergedJoin!vars)
  BY MergeStep
<1>3. QED  BY <1>1, <1>2, MergeInvHolds, PTL DEF MergeSpec, MergeImplementsJoin, MergedJoin!Spec

-----------------------------------------------------------------------------
(* A tree of materialized joins: the invariant.                             *)

\* The rows a level loops over, and how many of them its loop has passed.
List(k) == IF InRun(k) THEN contents[k] ELSE rows[k]
Taken(k) == IF InRun(k) THEN position[k] ELSE index[k]
Given(k) == {List(k)[i] : i \in 1 .. Taken(k)}

JoinStages == {"collect", "spill", "stream", "unwind", "done", "failed"}

JoinTypeInv ==
  /\ stage \in JoinStages /\ level \in Levels
  /\ arriving \in SUBSET Rows /\ spilled \in Nat
  /\ rows \in [Levels -> Seq(Rows)]
  /\ loop \in [Levels -> Seq(Rows)]
  /\ index \in [Levels -> Nat]
  /\ emitted \in [Tuples(1) -> Nat]
  /\ phase \in [Levels -> {"unused", "writing", "sealed"}]
  /\ contents \in [Levels -> Seq(Rows)]
  /\ reading \in [Levels -> Levels \cup {NoRun}]
  /\ position \in [Levels -> Nat]

\* What holds of a level's rows even when the join has failed.
Placed(k) ==
  /\ rows[k] \in Seq(Build[k]) /\ IsInjective(rows[k])
  /\ contents[k] \in Seq(Build[k]) /\ IsInjective(contents[k])
  /\ \/ rows[k] = <<>> \/ contents[k] = <<>>
     \/ k = level /\ Len(contents[k]) <= spilled

\* All rows of the level's input are in memory or in its run.
Complete(k) ==
  /\ \/ phase[k] = "unused" /\ contents[k] = <<>>
     \/ phase[k] = "sealed" /\ rows[k] = <<>>
  /\ ToSet(List(k)) = Build[k]

Nothing(k) == phase[k] = "unused" /\ rows[k] = <<>> /\ contents[k] = <<>>

\* The level that materializes, between two rows.
Collecting(k) ==
  /\ \/ phase[k] = "unused" /\ contents[k] = <<>>
     \/ phase[k] = "writing" /\ rows[k] = <<>>
  /\ arriving \subseteq Build[k]
  /\ ToSet(rows[k]) \cup ToSet(contents[k]) = Build[k] \ arriving

\* The level whose buffered rows go to the writer.
Spilling(k) ==
  /\ phase[k] = "writing"
  /\ arriving \subseteq Build[k] /\ pushed \in Build[k] \ arriving
  /\ ToSet(rows[k]) = (Build[k] \ arriving) \ {pushed}
  /\ spilled <= Len(rows[k]) /\ contents[k] = SubSeq(rows[k], 1, spilled)

RowsInv ==
  /\ \A k \in Levels : Placed(k)
  /\ stage \in {"collect", "spill"} =>
       \A k \in Levels : (k < level => Complete(k)) /\ (k > level => Nothing(k))
  /\ stage = "collect" => spilled = 0 /\ Collecting(level)
  /\ stage = "spill" => Spilling(level)
  /\ stage = "stream" => level = Depth /\ \A k \in Levels : Complete(k)
  /\ stage = "unwind" =>
       \A k \in Levels : (k <= level => Complete(k)) /\ (k > level => Nothing(k))
  /\ stage = "done" => \A k \in Levels : Nothing(k)
  /\ stage \notin {"collect", "spill", "failed"} => spilled = 0

\* The sink of level k has been given a tuple, by the loops of the levels below.
Opened(k) ==
  /\ Len(loop[k]) = Depth - k + 1
  /\ loop[k][1] \in Streamed \ arriving
  /\ k < Depth => /\ loop[k + 1] # <<>> /\ Taken(k + 1) > 0
                  /\ loop[k] = Append(loop[k + 1], List(k + 1)[Taken(k + 1)])
                  /\ <<List(k + 1)[Taken(k + 1)], loop[k][1]>> \notin Unsatisfied[k + 1]

LoopInv ==
  stage # "failed" =>
    /\ \A k \in Levels :
         /\ Taken(k) <= Len(List(k))
         /\ reading[k] \in {k, NoRun} /\ (reading[k] = NoRun => position[k] = 0)
         /\ InRun(k) => index[k] = 0
         /\ ~InRun(k) => reading[k] = NoRun
         /\ loop[k] = <<>> => reading[k] = NoRun /\ index[k] = 0
         /\ loop[k] # <<>> => stage = "stream" /\ Opened(k)
    /\ stage = "stream" => arriving \subseteq Streamed

\* The tuple ends in rows of the levels up to k that the loops have not reached.
Ahead(k, t) ==
  /\ loop[k] # <<>> /\ \A i \in 1 .. Depth - k + 1 : t[i] = loop[k][i]
  /\ t[Depth - k + 2] \notin Given(k)

Passed(t) == t[1] \notin arriving /\ \A k \in Levels : ~Ahead(k, t)

EmittedInv ==
  /\ stage \in {"collect", "spill"} => \A t \in Tuples(1) : emitted[t] = 0
  /\ stage = "stream" =>
       \A t \in Tuples(1) : emitted[t] = IF t \in Matches /\ Passed(t) THEN 1 ELSE 0
  /\ stage \in {"unwind", "done"} =>
       \A t \in Tuples(1) : emitted[t] = IF t \in Matches THEN 1 ELSE 0

JoinInv == JoinTypeInv /\ RowsInv /\ LoopInv /\ EmittedInv

-----------------------------------------------------------------------------
(* Sequences and tuples.                                                   *)

\* A sequence without repetitions is as long as the set of its elements is large.
LEMMA InjectiveLength ==
  ASSUME NEW S, NEW s \in Seq(S), IsInjective(s)
  PROVE  Len(s) \in Nat /\ Len(s) = Cardinality(ToSet(s))
<1>1. Len(s) \in Nat /\ DOMAIN s = 1 .. Len(s) /\ \A i \in 1 .. Len(s) : s[i] \in ToSet(s)
  BY ToSetType
<1>2. s \in [1 .. Len(s) -> ToSet(s)]
  BY <1>1, LenProperties
<1>3. s \in Injection(1 .. Len(s), ToSet(s))
  BY <1>1, <1>2 DEF Injection, IsInjective
<1>4. s \in Surjection(1 .. Len(s), ToSet(s))
  BY <1>1, <1>2 DEF Surjection, ToSet
<1>5. ExistsBijection(1 .. Len(s), ToSet(s))
  BY <1>3, <1>4 DEF ExistsBijection, Bijection
<1>6. IsFiniteSet(1 .. Len(s)) /\ Cardinality(1 .. Len(s)) = Len(s)
  <2>1. \A n \in Nat : IsFiniteSet(1 .. n) /\ Cardinality(1 .. n) = n
    BY FS_Interval
  <2>2. QED  BY <1>1, <2>1
<1>7. QED  BY <1>1, <1>5, <1>6, FS_Bijection

\* A new element keeps a sequence without repetitions.
LEMMA AppendKeepsApart ==
  ASSUME NEW S, NEW s \in Seq(S), IsInjective(s), NEW e \in S, e \notin ToSet(s)
  PROVE  /\ Append(s, e) \in Seq(S) /\ IsInjective(Append(s, e)) /\ Append(s, e) # <<>>
         /\ ToSet(Append(s, e)) = ToSet(s) \cup {e}
<1> DEFINE t == Append(s, e)
<1>1. /\ t \in Seq(S) /\ Len(t) = Len(s) + 1 /\ t[Len(s) + 1] = e
      /\ \A i \in 1 .. Len(s) : t[i] = s[i]
  BY AppendProperties
<1>2. /\ Len(s) \in Nat /\ DOMAIN s = 1 .. Len(s) /\ DOMAIN t = 1 .. Len(s) + 1
      /\ \A i \in 1 .. Len(s) : s[i] \in ToSet(s)
  BY <1>1, ToSetType
<1> HIDE DEF t
<1>3. ASSUME NEW i \in DOMAIN t, NEW j \in DOMAIN t, t[i] = t[j]
      PROVE  i = j
  <2>1. CASE i \in 1 .. Len(s) /\ j \in 1 .. Len(s)
    BY <1>1, <1>2, <1>3, <2>1 DEF IsInjective
  <2>2. CASE i = Len(s) + 1 /\ j \in 1 .. Len(s)
    BY <1>1, <1>2, <1>3, <2>2
  <2>3. CASE j = Len(s) + 1 /\ i \in 1 .. Len(s)
    BY <1>1, <1>2, <1>3, <2>3
  <2>4. CASE i = Len(s) + 1 /\ j = Len(s) + 1
    BY <2>4
  <2>5. QED  BY <1>2, <2>1, <2>2, <2>3, <2>4
<1>4. IsInjective(t)
  BY <1>3 DEF IsInjective
<1>5. t # <<>>
  BY <1>1, <1>2, EmptySeq
<1>6. ToSet(t) = ToSet(s) \cup {e}
  BY ToSetOfAppend DEF t
<1>7. QED  BY <1>1, <1>4, <1>5, <1>6 DEF t

\* The first n elements and the next.
LEMMA PrefixNext ==
  ASSUME NEW S, NEW s \in Seq(S), NEW n \in Nat, n < Len(s)
  PROVE  /\ SubSeq(s, 1, n + 1) = Append(SubSeq(s, 1, n), s[n + 1])
         /\ s[n + 1] \in S /\ Len(SubSeq(s, 1, n)) = n
<1> DEFINE a == SubSeq(s, 1, n)
           b == SubSeq(s, 1, n + 1)
           c == Append(a, s[n + 1])
<1>1. Len(s) \in Nat /\ \A i \in 1 .. Len(s) : s[i] \in S
  BY ToSetType
<1>2. /\ a \in Seq(S) /\ Len(a) = n /\ \A i \in 1 .. n : a[i] = s[i]
      /\ b \in Seq(S) /\ Len(b) = n + 1 /\ \A i \in 1 .. n + 1 : b[i] = s[i]
  <2>1. (\A i \in 1 .. n : s[i] \in S) /\ (\A i \in 1 .. n + 1 : s[i] \in S)
    BY <1>1
  <2>2. /\ a \in Seq(S) /\ Len(a) = IF 1 <= n THEN n - 1 + 1 ELSE 0
        /\ \A i \in 1 .. n - 1 + 1 : a[i] = s[1 + i - 1]
    BY <2>1, SubSeqProperties
  <2>3. /\ b \in Seq(S) /\ Len(b) = IF 1 <= n + 1 THEN n + 1 - 1 + 1 ELSE 0
        /\ \A i \in 1 .. (n + 1) - 1 + 1 : b[i] = s[1 + i - 1]
    BY <2>1, SubSeqProperties
  <2> HIDE DEF a, b
  <2>4. QED  BY <2>2, <2>3
<1> HIDE DEF a, b
<1>3. s[n + 1] \in S
  BY <1>1
<1>4. /\ c \in Seq(S) /\ Len(c) = n + 1 /\ c[n + 1] = s[n + 1]
      /\ \A i \in 1 .. n : c[i] = a[i]
  BY <1>2, <1>3, AppendProperties
<1> HIDE DEF c
<1>5. \A i \in 1 .. Len(b) : b[i] = c[i]
  BY <1>2, <1>4
<1>6. b = c
  BY <1>2, <1>4, <1>5, SeqEqual
<1>7. QED  BY <1>2, <1>3, <1>6 DEF a, b, c

\* The first elements of a sequence without repetitions.
LEMMA PrefixInjective ==
  ASSUME NEW S, NEW s \in Seq(S), IsInjective(s), NEW n \in Nat, n <= Len(s)
  PROVE  /\ SubSeq(s, 1, n) \in Seq(S) /\ IsInjective(SubSeq(s, 1, n))
         /\ Len(SubSeq(s, 1, n)) = n
<1> DEFINE a == SubSeq(s, 1, n)
<1>1. Len(s) \in Nat /\ DOMAIN s = 1 .. Len(s) /\ \A i \in 1 .. Len(s) : s[i] \in S
  BY ToSetType
<1>2. a \in Seq(S) /\ Len(a) = n /\ \A i \in 1 .. n : a[i] = s[i]
  <2>1. \A i \in 1 .. n : s[i] \in S
    BY <1>1
  <2>2. /\ a \in Seq(S) /\ Len(a) = IF 1 <= n THEN n - 1 + 1 ELSE 0
        /\ \A i \in 1 .. n - 1 + 1 : a[i] = s[1 + i - 1]
    BY <2>1, SubSeqProperties
  <2> HIDE DEF a
  <2>3. QED  BY <2>2
<1>3. DOMAIN a = 1 .. n
  BY <1>2, LenProperties
<1> HIDE DEF a
<1>4. IsInjective(a)
  BY <1>1, <1>2, <1>3 DEF IsInjective
<1>5. QED  BY <1>2, <1>4 DEF a

LEMMA EmptyPlaces ==
  ASSUME NEW S
  PROVE  <<>> \in Seq(S) /\ IsInjective(<<>>) /\ ToSet(<<>>) = {} /\ Len(<<>>) = 0
BY EmptySeq, ToSetOfEmpty DEF IsInjective

\* The rows of a tuple: of the streamed table and of each level.
LEMMA TupleRows ==
  ASSUME NEW t \in Tuples(1)
  PROVE  /\ t \in Seq(Rows) /\ Len(t) = Depth + 1 /\ t[1] \in Streamed
         /\ \A k \in Levels : t[Depth - k + 2] \in Build[k]
<1>1. Depth \in Nat \ {0} /\ Levels = 1 .. Depth
  BY MaterializedJoinAssumption DEF Levels
<1>2. t \in [1 .. Depth - 1 + 2 -> Rows] /\ t[1] \in Streamed
      /\ \A i \in 2 .. Len(t) : t[i] \in Build[Depth - i + 2]
  BY DEF Tuples
<1>3. Depth - 1 + 2 = Depth + 1 /\ Depth + 1 \in Nat
  BY <1>1
<1>4. t \in Seq(Rows) /\ Len(t) = Depth + 1
  BY <1>2, <1>3, SeqDef, LenProperties
<1>5. ASSUME NEW k \in Levels
      PROVE  t[Depth - k + 2] \in Build[k]
  <2>1. Depth - k + 2 \in 2 .. Len(t) /\ Depth - (Depth - k + 2) + 2 = k
    BY <1>1, <1>4
  <2>2. QED  BY <1>2, <2>1
<1>6. QED  BY <1>2, <1>4, <1>5

-----------------------------------------------------------------------------
(* Materializing: the steps of one level.                                  *)

LEMMA Constants ==
  /\ Depth \in Nat \ {0} /\ Levels = 1 .. Depth /\ Depth \in Levels /\ 1 \in Levels
  /\ NoRun \notin Levels /\ Runs = Levels /\ Readers = Levels
  /\ Streamed \subseteq Rows /\ \A k \in Levels : Build[k] \subseteq Rows /\ IsFiniteSet(Build[k])
BY MaterializedJoinAssumption DEF Levels

\* While no tuple is streamed no loop is open and no run is read.
Idle(k) == loop[k] = <<>> /\ index[k] = 0 /\ reading[k] = NoRun /\ position[k] = 0

LEMMA IdleLoops ==
  ASSUME JoinInv, stage \notin {"stream", "failed"}
  PROVE  \A k \in Levels : Idle(k)
BY DEF JoinInv, LoopInv, Idle

LEMMA LoopsIdle ==
  ASSUME JoinTypeInv, \A k \in Levels : Idle(k), stage = "stream" => arriving \subseteq Streamed
  PROVE  LoopInv
<1>1. ASSUME NEW k \in Levels
      PROVE  Taken(k) = 0 /\ Len(List(k)) \in Nat
  <2>1. rows[k] \in Seq(Rows) /\ contents[k] \in Seq(Rows)
    BY DEF JoinTypeInv
  <2>2. List(k) \in Seq(Rows)
    BY <2>1 DEF List
  <2>3. QED  BY <2>2, LenProperties DEF Taken, Idle
<1>2. QED  BY <1>1 DEF LoopInv, Idle

LEMMA LoopsIdleNext ==
  ASSUME JoinTypeInv', \A k \in Levels : Idle(k)', stage' = "stream" => arriving' \subseteq Streamed
  PROVE  LoopInv'
<1>1. ASSUME NEW k \in Levels
      PROVE  Taken(k)' = 0 /\ Len(List(k)') \in Nat
  <2>1. rows'[k] \in Seq(Rows) /\ contents'[k] \in Seq(Rows)
    BY DEF JoinTypeInv
  <2>2. List(k)' \in Seq(Rows)
    BY <2>1 DEF List
  <2>3. QED  BY <2>2, LenProperties DEF Taken, Idle
<1>2. QED  BY <1>1 DEF LoopInv, Idle

\* A step of a level that materializes leaves the other levels and the loops alone.
OnlyLevel(k) ==
  /\ \A j \in Levels \ {k} :
       rows'[j] = rows[j] /\ contents'[j] = contents[j] /\ phase'[j] = phase[j]
  /\ UNCHANGED <<level, loop, index, reading, position, emitted>>

LEMMA LevelStep ==
  ASSUME JoinInv, stage \in {"collect", "spill"}, stage' \in {"collect", "spill"},
         NEW k \in Levels, level = k, OnlyLevel(k), JoinTypeInv', Placed(k)',
         stage' = "collect" => spilled' = 0 /\ Collecting(k)',
         stage' = "spill" => Spilling(k)'
  PROVE  JoinInv'
<1>1. ASSUME NEW j \in Levels \ {k}
      PROVE  /\ Placed(j)'
             /\ j < k => Complete(j)'
             /\ j > k => Nothing(j)'
  <2>1. Placed(j) /\ (j < k => Complete(j)) /\ (j > k => Nothing(j))
    BY DEF JoinInv, RowsInv
  <2>2. rows'[j] = rows[j] /\ contents'[j] = contents[j] /\ phase'[j] = phase[j] /\ level' = k
    BY DEF OnlyLevel
  <2>3. Placed(j)'
    BY <2>1, <2>2 DEF Placed
  <2>4. Complete(j) => Complete(j)'
    BY <2>2 DEF Complete, List, InRun
  <2>5. Nothing(j) => Nothing(j)'
    BY <2>2 DEF Nothing
  <2>6. QED  BY <2>1, <2>3, <2>4, <2>5
<1>2. level' = k /\ k \in Nat /\ \A j \in Levels : j \in Nat
  BY Constants DEF OnlyLevel
<1>3. RowsInv'
  BY <1>1, <1>2 DEF RowsInv
<1>4. LoopInv'
  <2>1. \A j \in Levels : Idle(j)
    BY IdleLoops
  <2>2. \A j \in Levels : Idle(j)'
    BY <2>1 DEF Idle, OnlyLevel
  <2>3. QED  BY <2>2, LoopsIdleNext
<1>5. EmittedInv'
  BY DEF JoinInv, EmittedInv, OnlyLevel
<1>6. QED  BY <1>3, <1>4, <1>5 DEF JoinInv

LEMMA BufferStep ==
  ASSUME JoinInv, NEW item, Buffer(item)
  PROVE  JoinInv'
<1> SUFFICES ASSUME NEW k \in Levels, level = k PROVE JoinInv'
  BY DEF JoinInv, JoinTypeInv
<1>1. /\ stage = "collect" /\ item \in arriving /\ ~Writing(k)
      /\ rows' = [rows EXCEPT ![k] = Append(@, item)] /\ arriving' = arriving \ {item}
      /\ UNCHANGED <<phase, contents, reading, position, stage, level, spilled, loop, index, emitted>>
  BY DEF Buffer, runvars
<1>2. JoinTypeInv /\ Placed(k) /\ Collecting(k) /\ spilled = 0
  BY <1>1 DEF JoinInv, RowsInv
<1>3. /\ phase[k] = "unused" /\ contents[k] = <<>> /\ arriving \subseteq Build[k]
      /\ ToSet(rows[k]) \cup ToSet(contents[k]) = Build[k] \ arriving
      /\ rows[k] \in Seq(Build[k]) /\ IsInjective(rows[k])
  BY <1>1, <1>2 DEF Collecting, Writing, Placed
<1>4. item \in Build[k] /\ item \notin ToSet(rows[k]) /\ item \in Rows
  BY <1>1, <1>3, Constants
<1>5. /\ Append(rows[k], item) \in Seq(Build[k]) /\ IsInjective(Append(rows[k], item))
      /\ ToSet(Append(rows[k], item)) = ToSet(rows[k]) \cup {item}
  <2>1. /\ rows[k] \in Seq(Build[k]) /\ IsInjective(rows[k])
        /\ item \in Build[k] /\ item \notin ToSet(rows[k])
    BY <1>3, <1>4
  <2>2. Append(rows[k], item) \in Seq(Build[k]) /\ IsInjective(Append(rows[k], item))
    BY <2>1, AppendKeepsApart
  <2>3. ToSet(Append(rows[k], item)) = ToSet(rows[k]) \cup {item}
    BY <2>1, ToSetOfAppend
  <2>4. QED  BY <2>2, <2>3
<1>6. rows'[k] = Append(rows[k], item) /\ contents'[k] = <<>>
  BY <1>1, <1>2, <1>3 DEF JoinTypeInv
<1>7. JoinTypeInv'
  <2>1. Append(rows[k], item) \in Seq(Rows)
    BY <1>2, <1>4, AppendProperties DEF JoinTypeInv
  <2>2. rows' \in [Levels -> Seq(Rows)] /\ arriving' \in SUBSET Rows
    BY <1>1, <1>2, <2>1 DEF JoinTypeInv
  <2>3. QED  BY <1>1, <1>2, <2>2 DEF JoinTypeInv
<1>8. Placed(k)'
  BY <1>5, <1>6, EmptyPlaces DEF Placed
<1>9. Collecting(k)'
  <2>1. phase'[k] = "unused" /\ arriving' \subseteq Build[k]
    BY <1>1, <1>3
  <2>2. ToSet(rows'[k]) \cup ToSet(contents'[k]) = Build[k] \ arriving'
    BY <1>1, <1>3, <1>4, <1>5, <1>6
  <2>3. QED  BY <1>6, <2>1, <2>2 DEF Collecting
<1>10. OnlyLevel(k)
  BY <1>1, <1>2 DEF OnlyLevel, JoinTypeInv
<1>11. QED  BY <1>1, <1>2, <1>7, <1>8, <1>9, <1>10, LevelStep

LEMMA StartSpillStep ==
  ASSUME JoinInv, NEW item, StartSpill(item)
  PROVE  JoinInv'
<1> SUFFICES ASSUME NEW k \in Levels, level = k PROVE JoinInv'
  BY DEF JoinInv, JoinTypeInv
<1>1. /\ stage = "collect" /\ item \in arriving /\ stage' = "spill"
      /\ phase[k] = "unused" /\ phase' = [phase EXCEPT ![k] = "writing"]
      /\ pushed' = item /\ arriving' = arriving \ {item}
      /\ UNCHANGED <<contents, reading, position, level, rows, spilled, loop, index, emitted>>
  BY DEF StartSpill, Open
<1>2. JoinTypeInv /\ Placed(k) /\ Collecting(k) /\ spilled = 0
  BY <1>1 DEF JoinInv, RowsInv
<1>3. /\ contents[k] = <<>> /\ arriving \subseteq Build[k]
      /\ ToSet(rows[k]) \cup ToSet(contents[k]) = Build[k] \ arriving
      /\ rows[k] \in Seq(Build[k]) /\ Len(rows[k]) \in Nat
  BY <1>1, <1>2, LenProperties DEF Collecting, Placed
<1>4. phase' \in [Levels -> {"unused", "writing", "sealed"}] /\ phase'[k] = "writing"
  BY <1>1, <1>2 DEF JoinTypeInv
<1>5. JoinTypeInv'
  <2>1. arriving' \in SUBSET Rows /\ stage' \in JoinStages
    BY <1>1, <1>2 DEF JoinTypeInv, JoinStages
  <2>2. QED  BY <1>1, <1>2, <1>4, <2>1 DEF JoinTypeInv
<1>6. Placed(k)'
  BY <1>1, <1>2 DEF Placed
<1>7. Spilling(k)'
  <2>1. SubSeq(rows[k], 1, 0) = <<>>
    BY SubSeqEmpty
  <2>2. contents'[k] = SubSeq(rows'[k], 1, spilled') /\ spilled' <= Len(rows'[k])
    BY <1>1, <1>2, <1>3, <2>1
  <2>3. ToSet(rows'[k]) = (Build[k] \ arriving') \ {pushed'}
    BY <1>1, <1>3, ToSetOfEmpty
  <2>4. arriving' \subseteq Build[k] /\ pushed' \in Build[k] \ arriving'
    BY <1>1, <1>3
  <2>5. QED  BY <1>4, <2>2, <2>3, <2>4 DEF Spilling
<1>8. OnlyLevel(k)
  BY <1>1, <1>2 DEF OnlyLevel, JoinTypeInv
<1>9. QED  BY <1>1, <1>5, <1>6, <1>7, <1>8, LevelStep

LEMMA SpillBufferedStep ==
  ASSUME JoinInv, SpillBuffered
  PROVE  JoinInv'
<1> SUFFICES ASSUME NEW k \in Levels, level = k PROVE JoinInv'
  BY DEF JoinInv, JoinTypeInv
<1>1. /\ stage = "spill" /\ spilled < Len(rows[k])
      /\ contents' = [contents EXCEPT ![k] = Append(@, rows[k][spilled + 1])]
      /\ spilled' = spilled + 1
      /\ UNCHANGED <<phase, reading, position, stage, level, arriving, rows, pushed, loop, index, emitted>>
  BY DEF SpillBuffered, Push
<1>2. JoinTypeInv /\ Placed(k) /\ Spilling(k)
  BY <1>1 DEF JoinInv, RowsInv
<1>3. /\ phase[k] = "writing" /\ arriving \subseteq Build[k] /\ pushed \in Build[k] \ arriving
      /\ ToSet(rows[k]) = (Build[k] \ arriving) \ {pushed}
      /\ contents[k] = SubSeq(rows[k], 1, spilled) /\ spilled \in Nat
      /\ rows[k] \in Seq(Build[k]) /\ IsInjective(rows[k]) /\ Len(rows[k]) \in Nat
  BY <1>2, LenProperties DEF Spilling, Placed, JoinTypeInv
<1>4. contents'[k] = SubSeq(rows[k], 1, spilled + 1) /\ spilled + 1 <= Len(rows[k]) /\ spilled + 1 \in Nat
  <2>1. SubSeq(rows[k], 1, spilled + 1) = Append(SubSeq(rows[k], 1, spilled), rows[k][spilled + 1])
    BY <1>1, <1>3, PrefixNext
  <2>2. contents'[k] = Append(contents[k], rows[k][spilled + 1])
    BY <1>1, <1>2 DEF JoinTypeInv
  <2>3. QED  BY <1>1, <1>3, <2>1, <2>2
<1>5. /\ contents'[k] \in Seq(Build[k]) /\ IsInjective(contents'[k])
      /\ Len(contents'[k]) = spilled + 1
  <2>1. /\ SubSeq(rows[k], 1, spilled + 1) \in Seq(Build[k])
        /\ IsInjective(SubSeq(rows[k], 1, spilled + 1))
        /\ Len(SubSeq(rows[k], 1, spilled + 1)) = spilled + 1
    <3> DEFINE s == rows[k]
               n == spilled + 1
               S == Build[k]
    <3>1. s \in Seq(S) /\ IsInjective(s) /\ n \in Nat /\ n <= Len(s)
      BY <1>3, <1>4
    <3> HIDE DEF s, n, S
    <3>2. SubSeq(s, 1, n) \in Seq(S) /\ IsInjective(SubSeq(s, 1, n)) /\ Len(SubSeq(s, 1, n)) = n
      BY <3>1, PrefixInjective
    <3>3. QED  BY <3>2 DEF s, n, S
  <2>2. QED  BY <1>4, <2>1
<1>6. JoinTypeInv'
  <2>1. rows[k][spilled + 1] \in Build[k]
    BY <1>1, <1>3, PrefixNext
  <2>2. Append(contents[k], rows[k][spilled + 1]) \in Seq(Rows)
    BY <1>2, <2>1, Constants, AppendProperties DEF JoinTypeInv
  <2>3. contents' \in [Levels -> Seq(Rows)]
    BY <1>1, <1>2, <2>2 DEF JoinTypeInv
  <2>4. QED  BY <1>1, <1>2, <1>4, <2>3 DEF JoinTypeInv
<1>7. Placed(k)'
  BY <1>1, <1>3, <1>4, <1>5 DEF Placed
<1>8. Spilling(k)'
  BY <1>1, <1>3, <1>4 DEF Spilling
<1>9. OnlyLevel(k)
  BY <1>1, <1>2 DEF OnlyLevel, JoinTypeInv
<1>10. QED  BY <1>1, <1>6, <1>7, <1>8, <1>9, LevelStep

\* A row goes to the writer, which has all rows but this one and the buffered ones.
LEMMA PushStep ==
  ASSUME JoinInv, NEW k \in Levels, level = k, stage \in {"collect", "spill"}, NEW item \in Build[k],
         phase[k] = "writing", contents' = [contents EXCEPT ![k] = Append(@, item)],
         rows' = [rows EXCEPT ![k] = <<>>], stage' = "collect", spilled' = 0,
         arriving' \subseteq Build[k], item \notin ToSet(contents[k]),
         ToSet(contents[k]) \cup {item} = Build[k] \ arriving',
         UNCHANGED <<phase, reading, position, level, loop, index, emitted>>
  PROVE  JoinInv'
<1>1. JoinTypeInv /\ Placed(k)
  BY DEF JoinInv, RowsInv
<1>2. contents[k] \in Seq(Build[k]) /\ IsInjective(contents[k])
  BY <1>1 DEF Placed
<1>3. Append(contents[k], item) \in Seq(Build[k]) /\ IsInjective(Append(contents[k], item))
  BY <1>2, AppendKeepsApart
<1>4. ToSet(Append(contents[k], item)) = ToSet(contents[k]) \cup {item}
  BY <1>2, ToSetOfAppend
<1>5. contents'[k] = Append(contents[k], item) /\ rows'[k] = <<>> /\ phase'[k] = "writing"
  BY <1>1 DEF JoinTypeInv
<1>6. JoinTypeInv'
  <2>1. Append(contents[k], item) \in Seq(Rows) /\ <<>> \in Seq(Rows)
    BY <1>1, Constants, AppendProperties, EmptySeq DEF JoinTypeInv
  <2>2. contents' \in [Levels -> Seq(Rows)] /\ rows' \in [Levels -> Seq(Rows)]
    BY <1>1, <2>1 DEF JoinTypeInv
  <2>3. arriving' \in SUBSET Rows /\ stage' \in JoinStages
    BY Constants DEF JoinStages
  <2>4. QED  BY <1>1, <2>2, <2>3 DEF JoinTypeInv
<1>7. Placed(k)'
  BY <1>3, <1>5, EmptyPlaces DEF Placed
<1>8. Collecting(k)'
  <2>1. ToSet(rows'[k]) = {}
    BY <1>5, ToSetOfEmpty
  <2>2. ToSet(rows'[k]) \cup ToSet(contents'[k]) = Build[k] \ arriving'
    BY <1>4, <1>5, <2>1
  <2>3. QED  BY <1>5, <2>2 DEF Collecting
<1>9. OnlyLevel(k)
  BY <1>1 DEF OnlyLevel, JoinTypeInv
<1>10. QED  BY <1>6, <1>7, <1>8, <1>9, LevelStep

LEMMA SpillRowStep ==
  ASSUME JoinInv, SpillRow
  PROVE  JoinInv'
<1> SUFFICES ASSUME NEW k \in Levels, level = k PROVE JoinInv'
  BY DEF JoinInv, JoinTypeInv
<1>1. /\ stage = "spill" /\ spilled = Len(rows[k])
      /\ contents' = [contents EXCEPT ![k] = Append(@, pushed)]
      /\ rows' = [rows EXCEPT ![k] = <<>>] /\ spilled' = 0 /\ stage' = "collect"
      /\ UNCHANGED <<phase, reading, position, level, arriving, loop, index, emitted>>
  BY DEF SpillRow, Push
<1>2. Placed(k) /\ Spilling(k)
  BY <1>1 DEF JoinInv, RowsInv
<1>3. /\ phase[k] = "writing" /\ arriving \subseteq Build[k] /\ pushed \in Build[k] \ arriving
      /\ ToSet(rows[k]) = (Build[k] \ arriving) \ {pushed}
      /\ contents[k] = SubSeq(rows[k], 1, spilled)
      /\ rows[k] \in Seq(Build[k])
  BY <1>2 DEF Spilling, Placed
<1>4. contents[k] = rows[k]
  BY <1>1, <1>3, SubSeqFull
<1>5. /\ pushed \notin ToSet(contents[k]) /\ pushed \in Build[k] /\ arriving' \subseteq Build[k]
      /\ ToSet(contents[k]) \cup {pushed} = Build[k] \ arriving'
  BY <1>1, <1>3, <1>4
<1> DEFINE item == pushed
<1> HIDE DEF item
<1>6. QED  BY <1>1, <1>3, <1>5, PushStep

LEMMA PushToRunStep ==
  ASSUME JoinInv, NEW item, PushToRun(item)
  PROVE  JoinInv'
<1> SUFFICES ASSUME NEW k \in Levels, level = k PROVE JoinInv'
  BY DEF JoinInv, JoinTypeInv
<1>1. /\ stage = "collect" /\ item \in arriving /\ phase[k] = "writing"
      /\ contents' = [contents EXCEPT ![k] = Append(@, item)]
      /\ arriving' = arriving \ {item}
      /\ UNCHANGED <<phase, reading, position, stage, level, rows, spilled, loop, index, emitted>>
  BY DEF PushToRun, Push, Writing
<1>2. JoinTypeInv /\ Collecting(k) /\ spilled = 0
  BY <1>1 DEF JoinInv, RowsInv
<1>3. /\ rows[k] = <<>> /\ arriving \subseteq Build[k]
      /\ ToSet(rows[k]) \cup ToSet(contents[k]) = Build[k] \ arriving
  BY <1>1, <1>2 DEF Collecting
<1>4. /\ item \in Build[k] /\ item \notin ToSet(contents[k]) /\ arriving' \subseteq Build[k]
      /\ ToSet(contents[k]) \cup {item} = Build[k] \ arriving'
  BY <1>1, <1>3, ToSetOfEmpty
<1>5. rows' = [rows EXCEPT ![k] = <<>>]
  BY <1>1, <1>2, <1>3 DEF JoinTypeInv
<1>6. QED  BY <1>1, <1>2, <1>4, <1>5, PushStep

\* Rows that stay where they are, with nothing left to spill.
LEMMA PlacedStays ==
  ASSUME NEW k \in Levels, Placed(k), spilled = 0, rows'[k] = rows[k], contents'[k] = contents[k]
  PROVE  Placed(k)' /\ (rows[k] = <<>> \/ contents[k] = <<>>)
<1>1. contents[k] \in Seq(Build[k]) /\ Len(contents[k]) \in Nat
  BY LenProperties DEF Placed
<1>2. rows[k] = <<>> \/ contents[k] = <<>>
  BY <1>1, EmptySeq DEF Placed
<1>3. QED  BY <1>2 DEF Placed

\* The rows of a level's input are all in one of the two places.
LEMMA AllMaterialized ==
  ASSUME NEW k \in Levels, Collecting(k), arriving = {}, rows'[k] = rows[k],
         contents'[k] = contents[k],
         phase'[k] = IF Writing(k) THEN "sealed" ELSE phase[k]
  PROVE  Complete(k)'
<1>1. CASE Writing(k)
  <2>1. phase'[k] = "sealed" /\ rows[k] = <<>>
    BY <1>1 DEF Collecting, Writing
  <2>2. ToSet(contents[k]) = Build[k]
    BY <2>1, ToSetOfEmpty DEF Collecting
  <2>3. QED  BY <2>1, <2>2 DEF Complete, List, InRun
<1>2. CASE ~Writing(k)
  <2>1. phase'[k] = "unused" /\ contents[k] = <<>>
    BY <1>2 DEF Collecting, Writing
  <2>2. ToSet(rows[k]) = Build[k]
    BY <2>1, ToSetOfEmpty DEF Collecting
  <2>3. QED  BY <2>1, <2>2 DEF Complete, List, InRun
<1>3. QED  BY <1>1, <1>2

LEMMA MaterializedStep ==
  ASSUME JoinInv, Materialized
  PROVE  JoinInv'
<1> SUFFICES ASSUME NEW k \in Levels, level = k PROVE JoinInv'
  BY DEF JoinInv, JoinTypeInv
<1>1. /\ stage = "collect" /\ arriving = {}
      /\ UNCHANGED <<contents, reading, position, rows, spilled, loop, index, emitted>>
      /\ IF Writing(k) THEN phase' = [phase EXCEPT ![k] = "sealed"] ELSE phase' = phase
  BY DEF Materialized, Seal, runvars
<1>2. \/ k < Depth /\ level' = k + 1 /\ arriving' = Build[k + 1] /\ stage' = "collect"
      \/ ~(k < Depth) /\ stage' = "stream" /\ arriving' = Streamed /\ level' = k
  BY <1>1 DEF Materialized
<1>3. JoinTypeInv /\ Collecting(k) /\ spilled = 0
  BY <1>1 DEF JoinInv, RowsInv
<1>4. /\ \A j \in Levels : j \in Nat /\ 1 <= j /\ j <= Depth
      /\ k < Depth => k + 1 \in Levels
  BY Constants
<1>5. /\ phase'[k] = IF Writing(k) THEN "sealed" ELSE phase[k]
      /\ \A j \in Levels \ {k} : phase'[j] = phase[j]
  BY <1>1, <1>3 DEF JoinTypeInv
<1>6. JoinTypeInv'
  <2>1. phase' \in [Levels -> {"unused", "writing", "sealed"}]
    BY <1>1, <1>3 DEF JoinTypeInv
  <2>2. arriving' \in SUBSET Rows /\ level' \in Levels /\ stage' \in JoinStages
    BY <1>2, <1>4, Constants DEF JoinStages
  <2>3. QED  BY <1>1, <1>3, <2>1, <2>2 DEF JoinTypeInv
<1>7. ASSUME NEW j \in Levels
      PROVE  /\ Placed(j)'
             /\ j <= k => Complete(j)'
             /\ j > k => Nothing(j)'
  <2>1. Placed(j) /\ (j < k => Complete(j)) /\ (j > k => Nothing(j))
    BY <1>1 DEF JoinInv, RowsInv
  <2>2. rows'[j] = rows[j] /\ contents'[j] = contents[j]
    BY <1>1
  <2>3. Placed(j)'
    BY <1>3, <2>1, <2>2, PlacedStays
  <2>4. CASE j = k
    <3>1. phase'[k] = (IF Writing(k) THEN "sealed" ELSE phase[k]) /\ Collecting(k) /\ arriving = {}
          /\ rows'[k] = rows[k] /\ contents'[k] = contents[k]
      BY <1>1, <1>3, <1>5
    <3>2. Complete(k)'
      BY <3>1, AllMaterialized
    <3>3. QED  BY <1>4, <2>3, <2>4, <3>2
  <2>5. CASE j # k
    <3>1. Complete(j) => Complete(j)'
      BY <1>5, <2>2, <2>5 DEF Complete, List, InRun
    <3>2. Nothing(j) => Nothing(j)'
      BY <1>5, <2>2, <2>5 DEF Nothing
    <3>3. QED  BY <1>4, <2>1, <2>3, <2>5, <3>1, <3>2
  <2>6. QED  BY <2>4, <2>5
<1>8. \A j \in Levels : Idle(j)'
  <2>1. \A j \in Levels : Idle(j)
    BY <1>1, IdleLoops
  <2>2. QED  BY <1>1, <2>1 DEF Idle
<1>9. LoopInv'
  BY <1>2, <1>6, <1>8, LoopsIdleNext
<1>10. RowsInv'
  <2>1. CASE k < Depth
    <3>1. level' = k + 1 /\ arriving' = Build[k + 1] /\ stage' = "collect" /\ spilled' = 0
      BY <1>1, <1>2, <1>3, <2>1
    <3>2. Nothing(k + 1)'
      BY <1>4, <1>7, <2>1
    <3>3. Collecting(k + 1)'
      BY <3>1, <3>2, ToSetOfEmpty DEF Nothing, Collecting
    <3>4. \A j \in Levels : (j < level' => Complete(j)') /\ (j > level' => Nothing(j)')
      BY <1>4, <1>7, <3>1
    <3>5. QED  BY <1>7, <3>1, <3>3, <3>4 DEF RowsInv
  <2>2. CASE ~(k < Depth)
    <3>1. level' = Depth /\ stage' = "stream" /\ spilled' = 0
      BY <1>1, <1>2, <1>3, <1>4, <2>2, Constants
    <3>2. \A j \in Levels : Complete(j)'
      BY <1>4, <1>7, <2>2, Constants
    <3>3. QED  BY <1>7, <3>1, <3>2 DEF RowsInv
  <2>3. QED  BY <2>1, <2>2
<1>11. EmittedInv'
  <2>1. \A t \in Tuples(1) : emitted'[t] = 0
    BY <1>1 DEF JoinInv, EmittedInv
  <2>2. ASSUME NEW t \in Tuples(1), stage' = "stream"
        PROVE  ~Passed(t)'
    BY <1>2, <2>2, TupleRows DEF Passed
  <2>3. QED  BY <1>2, <2>1, <2>2 DEF EmittedInv
<1>12. QED  BY <1>6, <1>9, <1>10, <1>11 DEF JoinInv

-----------------------------------------------------------------------------
(* Streaming: the loops of all levels.                                     *)

\* The rows a level loops over are those of its input, each of them once.
LEMMA ListFacts ==
  ASSUME JoinInv, stage = "stream", NEW k \in Levels
  PROVE  /\ List(k) \in Seq(Build[k]) /\ IsInjective(List(k)) /\ ToSet(List(k)) = Build[k]
         /\ DOMAIN List(k) = 1 .. Len(List(k)) /\ Len(List(k)) \in Nat
         /\ Taken(k) \in Nat /\ Taken(k) <= Len(List(k))
         /\ \A i \in 1 .. Len(List(k)) : List(k)[i] \in Build[k]
<1>1. List(k) \in Seq(Build[k]) /\ IsInjective(List(k)) /\ ToSet(List(k)) = Build[k]
  BY DEF JoinInv, RowsInv, Placed, Complete, List
<1>2. Taken(k) \in Nat /\ Taken(k) <= Len(List(k))
  BY DEF JoinInv, JoinTypeInv, LoopInv, Taken
<1>3. QED  BY <1>1, <1>2, ToSetType

LEMMA TakenRow ==
  ASSUME JoinInv, stage = "stream", NEW k \in Levels, Taken(k) > 0
  PROVE  Taken(k) \in 1 .. Taken(k) /\ List(k)[Taken(k)] \in Rows
<1>1. /\ Taken(k) \in Nat /\ Taken(k) <= Len(List(k)) /\ Len(List(k)) \in Nat
      /\ \A i \in 1 .. Len(List(k)) : List(k)[i] \in Build[k]
  BY ListFacts
<1>2. Taken(k) \in 1 .. Len(List(k)) /\ Taken(k) \in 1 .. Taken(k)
  BY <1>1
<1>3. QED  BY <1>1, <1>2, Constants

\* While rows stream no level's rows move.
LEMMA RowsStay ==
  ASSUME JoinInv, stage = "stream", stage' = "stream",
         UNCHANGED <<phase, contents, level, rows, spilled>>
  PROVE  /\ RowsInv' /\ \A k \in Levels : List(k)' = List(k) /\ (InRun(k)' <=> InRun(k))
<1>1. \A k \in Levels : List(k)' = List(k) /\ (InRun(k)' <=> InRun(k))
  BY DEF List, InRun
<1>2. \A k \in Levels : Placed(k)' /\ Complete(k)'
  BY <1>1 DEF JoinInv, RowsInv, Placed, Complete
<1>3. spilled' = 0 /\ level' = Depth
  BY DEF JoinInv, RowsInv
<1>4. QED  BY <1>1, <1>2, <1>3 DEF RowsInv

\* A loop that is not open has taken nothing.
LEMMA ClosedLoop ==
  ASSUME JoinInv, stage = "stream", NEW k \in Levels, loop[k] = <<>>
  PROVE  Taken(k) = 0 /\ Given(k) = {}
<1>1. Taken(k) = 0
  BY DEF JoinInv, LoopInv, Taken
<1>2. QED  BY <1>1 DEF Given

LEMMA StreamRowStep ==
  ASSUME JoinInv, NEW item, StreamRow(item)
  PROVE  JoinInv'
<1>1. /\ stage = "stream" /\ stage' = "stream" /\ NoLoop /\ item \in arriving
      /\ arriving' = arriving \ {item} /\ loop' = [loop EXCEPT ![Depth] = <<item>>]
      /\ UNCHANGED <<phase, contents, reading, position, level, rows, spilled, index, emitted>>
  BY DEF StreamRow, runvars
<1>2. JoinTypeInv /\ arriving \subseteq Streamed /\ item \in Rows
  BY <1>1, Constants DEF JoinInv, LoopInv
<1>3. /\ loop'[Depth] = <<item>> /\ \A k \in Levels \ {Depth} : loop'[k] = <<>>
      /\ loop' \in [Levels -> Seq(Rows)]
  <2>1. <<item>> \in Seq(Rows)
    BY <1>2
  <2>2. QED  BY <1>1, <1>2, <2>1, Constants DEF JoinTypeInv, NoLoop
<1>4. JoinTypeInv'
  BY <1>1, <1>2, <1>3 DEF JoinTypeInv
<1>5. RowsInv' /\ \A k \in Levels : List(k)' = List(k) /\ (InRun(k)' <=> InRun(k))
  BY <1>1, RowsStay
<1>6. \A k \in Levels : Taken(k)' = Taken(k) /\ Taken(k) = 0 /\ Given(k)' = {}
  <2>1. \A k \in Levels : Taken(k)' = Taken(k)
    BY <1>1 DEF Taken, InRun
  <2>2. \A k \in Levels : Taken(k) = 0
    BY <1>1, ClosedLoop DEF NoLoop
  <2>3. QED  BY <2>1, <2>2 DEF Given
<1>7. LoopInv'
  <2>1. ASSUME NEW k \in Levels
        PROVE  /\ Taken(k)' <= Len(List(k)')
               /\ reading'[k] \in {k, NoRun} /\ (reading'[k] = NoRun => position'[k] = 0)
               /\ InRun(k)' => index'[k] = 0
               /\ ~InRun(k)' => reading'[k] = NoRun
               /\ reading'[k] = NoRun /\ index'[k] = 0
    BY <1>1, <1>5, <1>6 DEF JoinInv, LoopInv, NoLoop
  <2>2. Opened(Depth)'
    BY <1>1, <1>2, <1>3, Constants DEF Opened
  <2>3. arriving' \subseteq Streamed
    BY <1>1, <1>2
  <2>4. \A k \in Levels : loop'[k] # <<>> => Opened(k)'
    BY <1>3, <2>2
  <2>5. QED  BY <1>1, <2>1, <2>3, <2>4 DEF LoopInv
<1>8. EmittedInv'
  <2>1. ASSUME NEW t \in Tuples(1)
        PROVE  Passed(t)' <=> Passed(t)
    <3>1. \A k \in Levels : ~Ahead(k, t)
      BY <1>1 DEF Ahead, NoLoop
    <3>2. \A k \in Levels \ {Depth} : ~Ahead(k, t)'
      BY <1>3 DEF Ahead
    <3>3. Ahead(Depth, t)' <=> t[1] = item
      <4>1. Given(Depth)' = {} /\ loop'[Depth] = <<item>> /\ <<item>> # <<>>
        BY <1>3, <1>6, Constants
      <4>2. 1 .. Depth - Depth + 1 = {1} /\ <<item>>[1] = item
        BY Constants
      <4>3. Ahead(Depth, t)' <=> \A i \in 1 .. Depth - Depth + 1 : t[i] = <<item>>[i]
        BY <4>1 DEF Ahead
      <4>4. QED  BY <4>2, <4>3
    <3>4. Depth \in Levels
      BY Constants
    <3>5. QED  BY <1>1, <3>1, <3>2, <3>3, <3>4 DEF Passed
  <2>2. ASSUME NEW t \in Tuples(1)
        PROVE  emitted'[t] = IF t \in Matches /\ Passed(t)' THEN 1 ELSE 0
    BY <1>1, <2>1 DEF JoinInv, EmittedInv
  <2>3. \A t \in Tuples(1) : emitted'[t] = IF t \in Matches /\ Passed(t)' THEN 1 ELSE 0
    BY <2>2
  <2>4. (\A t \in Tuples(1) : emitted[t] = IF t \in Matches /\ Passed(t) THEN 1 ELSE 0)'
    BY <2>3
  <2>5. QED  BY <1>1, <2>4 DEF EmittedInv
<1>9. QED  BY <1>4, <1>5, <1>7, <1>8 DEF JoinInv

\* A loop opens its run and takes no row.
LEMMA OpenRunStep ==
  ASSUME JoinInv, NEW k \in Levels, OpenRun(k)
  PROVE  JoinInv'
<1>1. /\ stage = "stream" /\ stage' = "stream" /\ loop[k] # <<>> /\ InRun(k)
      /\ reading[k] = NoRun
      /\ reading' = [reading EXCEPT ![k] = k] /\ position' = [position EXCEPT ![k] = 0]
      /\ UNCHANGED <<phase, contents, level, rows, spilled, index, emitted, arriving, loop>>
  BY DEF OpenRun, StartReading, joinvars, Active
<1>2. JoinTypeInv /\ position[k] = 0
  BY <1>1 DEF JoinInv, LoopInv
<1>3. position' = position
  BY <1>1, <1>2 DEF JoinTypeInv
<1>4. JoinTypeInv'
  BY <1>1, <1>2, <1>3 DEF JoinTypeInv
<1>5. RowsInv' /\ \A j \in Levels : List(j)' = List(j) /\ (InRun(j)' <=> InRun(j))
  BY <1>1, RowsStay
<1>6. \A j \in Levels : Taken(j)' = Taken(j) /\ Given(j)' = Given(j)
  <2>1. \A j \in Levels : Taken(j)' = Taken(j)
    BY <1>1, <1>3 DEF Taken, InRun
  <2>2. QED  BY <1>5, <2>1 DEF Given
<1>7. reading'[k] = k /\ \A j \in Levels \ {k} : reading'[j] = reading[j]
  BY <1>1, <1>2 DEF JoinTypeInv
<1>8. LoopInv'
  <2>1. ASSUME NEW j \in Levels
        PROVE  /\ Taken(j)' <= Len(List(j)')
               /\ reading'[j] \in {j, NoRun} /\ (reading'[j] = NoRun => position'[j] = 0)
               /\ InRun(j)' => index'[j] = 0
               /\ ~InRun(j)' => reading'[j] = NoRun
               /\ loop'[j] = <<>> => reading'[j] = NoRun /\ index'[j] = 0
    BY <1>1, <1>2, <1>3, <1>5, <1>6, <1>7 DEF JoinInv, LoopInv
  <2>2. ASSUME NEW j \in Levels, loop'[j] # <<>>
        PROVE  Opened(j)'
    <3>1. Opened(j)
      BY <1>1, <2>2 DEF JoinInv, LoopInv
    <3>2. j < Depth => j + 1 \in Levels
      BY Constants
    <3>3. QED  BY <1>1, <1>5, <1>6, <3>1, <3>2 DEF Opened
  <2>3. arriving' \subseteq Streamed
    BY <1>1 DEF JoinInv, LoopInv
  <2>4. QED  BY <1>1, <2>1, <2>2, <2>3 DEF LoopInv
<1>9. EmittedInv'
  <2>1. ASSUME NEW t \in Tuples(1)
        PROVE  Passed(t)' <=> Passed(t)
    <3>1. \A j \in Levels : Ahead(j, t)' <=> Ahead(j, t)
      BY <1>1, <1>6 DEF Ahead
    <3>2. QED  BY <1>1, <3>1 DEF Passed
  <2>2. (\A t \in Tuples(1) : emitted[t] = IF t \in Matches /\ Passed(t) THEN 1 ELSE 0)'
    BY <1>1, <2>1 DEF JoinInv, EmittedInv
  <2>3. QED  BY <1>1, <2>2 DEF EmittedInv
<1>10. QED  BY <1>4, <1>5, <1>8, <1>9 DEF JoinInv

\* The tuple of a loop extends those of all loops below it, by the row each of
\* them has just taken.
LEMMA LoopsNest ==
  ASSUME JoinInv, stage = "stream", NEW k \in Levels, loop[k] # <<>>
  PROVE  \A j \in Levels : j >= k =>
            loop[j] # <<>> /\ \A i \in 1 .. Depth - j + 1 : loop[j][i] = loop[k][i]
<1> DEFINE Good(j) == loop[j] # <<>> /\ \A i \in 1 .. Depth - j + 1 : loop[j][i] = loop[k][i]
           Bad == {j \in Levels : j >= k /\ ~Good(j)}
<1>1. Levels \subseteq Nat /\ k \in Nat
  BY Constants
<1> SUFFICES ASSUME Bad # {} PROVE FALSE
  OBVIOUS
<1>2. PICK j \in Bad : \A i \in Bad : j <= i
  <2>1. Bad \in SUBSET Nat
    BY <1>1
  <2> HIDE DEF Bad
  <2>2. QED  BY <2>1, LeastElement
<1>3. j \in Levels /\ j >= k /\ ~Good(j) /\ j # k /\ j \in Nat
  BY <1>1, <1>2
<1>4. j - 1 \in Levels /\ j - 1 >= k /\ j - 1 < Depth /\ (j - 1) + 1 = j
  BY <1>1, <1>3, Constants
<1>5. Good(j - 1)
  BY <1>1, <1>2, <1>3, <1>4
<1>6. /\ loop[j] # <<>> /\ Len(loop[j - 1]) = Depth - (j - 1) + 1
      /\ loop[j - 1] = Append(loop[j], List(j)[Taken(j)]) /\ Taken(j) > 0
  BY <1>4, <1>5 DEF JoinInv, LoopInv, Opened
<1>7. loop[j] \in Seq(Rows) /\ Len(loop[j]) = Depth - j + 1
  BY <1>3, <1>6 DEF JoinInv, JoinTypeInv, LoopInv, Opened
<1>8. List(j)[Taken(j)] \in Rows
  BY <1>3, <1>6, TakenRow
<1>9. \A i \in 1 .. Depth - j + 1 : loop[j - 1][i] = loop[j][i]
  BY <1>6, <1>7, <1>8, AppendProperties
<1>10. \A i \in 1 .. Depth - j + 1 : loop[j][i] = loop[k][i]
  <2>1. ASSUME NEW i \in 1 .. Depth - j + 1
        PROVE  i \in 1 .. Depth - (j - 1) + 1
    BY <1>3, Constants
  <2>2. QED  BY <1>5, <1>9, <2>1
<1>11. QED  BY <1>3, <1>6, <1>10

\* Of the levels below, the tuple holds the row taken last, which satisfies their
\* predicates.
LEMMA TakenBelow ==
  ASSUME JoinInv, stage = "stream", NEW k \in Levels, loop[k] # <<>>, NEW j \in Levels, j > k
  PROVE  /\ Depth - j + 2 \in 1 .. Depth - k + 1
         /\ loop[k][Depth - j + 2] \in Given(j)
         /\ <<loop[k][Depth - j + 2], loop[k][1]>> \notin Unsatisfied[j]
<1>1. /\ j - 1 \in Levels /\ j - 1 >= k /\ j - 1 < Depth /\ (j - 1) + 1 = j
      /\ Depth - j + 2 \in 1 .. Depth - k + 1 /\ Depth - j + 2 = Depth - (j - 1) + 1
      /\ Depth - j + 1 \in Nat /\ 1 \in 1 .. Depth - (j - 1) + 1
      /\ Depth - j + 2 \in 1 .. Depth - (j - 1) + 1
  BY Constants
<1>2. loop[j - 1] # <<>> /\ \A i \in 1 .. Depth - (j - 1) + 1 : loop[j - 1][i] = loop[k][i]
  BY <1>1, LoopsNest
<1>3. /\ loop[j] # <<>> /\ loop[j - 1] = Append(loop[j], List(j)[Taken(j)]) /\ Taken(j) > 0
      /\ <<List(j)[Taken(j)], loop[j - 1][1]>> \notin Unsatisfied[j]
  BY <1>1, <1>2 DEF JoinInv, LoopInv, Opened
<1>4. loop[j] \in Seq(Rows) /\ Len(loop[j]) = Depth - j + 1
  BY <1>3 DEF JoinInv, JoinTypeInv, LoopInv, Opened
<1>5. List(j)[Taken(j)] \in Rows /\ Taken(j) \in 1 .. Taken(j)
  BY <1>3, TakenRow
<1>6. loop[j - 1][Depth - j + 2] = List(j)[Taken(j)]
  <2>1. Append(loop[j], List(j)[Taken(j)])[Len(loop[j]) + 1] = List(j)[Taken(j)]
    BY <1>4, <1>5, AppendProperties
  <2>2. Depth - j + 2 = Len(loop[j]) + 1
    BY <1>1, <1>4, Constants
  <2>3. QED  BY <1>3, <2>1, <2>2
<1>7. loop[k][Depth - j + 2] = List(j)[Taken(j)] /\ loop[k][1] = loop[j - 1][1]
  BY <1>1, <1>2, <1>6
<1>8. QED  BY <1>1, <1>3, <1>5, <1>7 DEF Given

\* Loop k takes its next row.
Takes(k) ==
  /\ Active(k) /\ Taken(k) < Len(List(k)) /\ Taken(k)' = Taken(k) + 1
  /\ Emit(k, List(k)[Taken(k) + 1])
  /\ \A j \in Levels \ {k} : Taken(j)' = Taken(j) /\ index'[j] = index[j] /\ position'[j] = position[j]
  /\ InRun(k) => index'[k] = index[k]
  /\ reading[k] = NoRun => position'[k] = position[k]
  /\ index' \in [Levels -> Nat] /\ position' \in [Levels -> Nat]
  /\ UNCHANGED <<phase, contents, reading, stage, level, arriving, rows, spilled>>

\* What is ahead of a tuple is left but for the row taken, and what extends the
\* tuple by this row is ahead of the loop above, if the row satisfies the predicates.
Hit(k, t) ==
  /\ \A i \in 1 .. Depth - k + 1 : t[i] = loop[k][i]
  /\ t[Depth - k + 2] = List(k)[Taken(k) + 1]

LEMMA TakesRow ==
  ASSUME JoinInv, NEW k \in Levels, Takes(k)
  PROVE  /\ stage = "stream" /\ stage' = "stream" /\ loop[k] \in Seq(Rows) /\ loop[k] # <<>>
         /\ Len(loop[k]) = Depth - k + 1 /\ loop[k][1] \in Streamed \ arriving
         /\ List(k)[Taken(k) + 1] \in Build[k] /\ List(k)[Taken(k) + 1] \in Rows
         /\ List(k)[Taken(k) + 1] \notin Given(k)
         /\ Given(k)' = Given(k) \cup {List(k)[Taken(k) + 1]}
         /\ \A j \in Levels \ {k} : Given(j)' = Given(j)
         /\ \A j \in Levels : List(j)' = List(j) /\ (InRun(j)' <=> InRun(j))
         /\ RowsInv'
         /\ \A j \in Levels : j < k => loop[j] = <<>>
<1>1. /\ stage = "stream" /\ stage' = "stream" /\ loop[k] # <<>>
      /\ UNCHANGED <<phase, contents, level, rows, spilled>>
      /\ Taken(k) < Len(List(k)) /\ Taken(k)' = Taken(k) + 1
      /\ \A j \in Levels \ {k} : Taken(j)' = Taken(j)
  BY DEF Takes, Active
<1>2. loop[k] \in Seq(Rows) /\ Len(loop[k]) = Depth - k + 1 /\ loop[k][1] \in Streamed \ arriving
  BY <1>1 DEF JoinInv, JoinTypeInv, LoopInv, Opened
<1>3. RowsInv' /\ \A j \in Levels : List(j)' = List(j) /\ (InRun(j)' <=> InRun(j))
  BY <1>1, RowsStay
<1>4. /\ IsInjective(List(k)) /\ DOMAIN List(k) = 1 .. Len(List(k)) /\ Len(List(k)) \in Nat
      /\ Taken(k) \in Nat /\ \A i \in 1 .. Len(List(k)) : List(k)[i] \in Build[k]
  BY <1>1, ListFacts
<1>5. Taken(k) + 1 \in 1 .. Len(List(k))
  BY <1>1, <1>4
<1>6. ASSUME NEW i \in 1 .. Taken(k), List(k)[i] = List(k)[Taken(k) + 1]
      PROVE  FALSE
  <2>1. i \in DOMAIN List(k) /\ Taken(k) + 1 \in DOMAIN List(k) /\ i # Taken(k) + 1
    BY <1>1, <1>4, <1>5
  <2>2. QED  BY <1>4, <1>6, <2>1 DEF IsInjective
<1>7. Given(k)' = Given(k) \cup {List(k)[Taken(k) + 1]}
  <2>1. 1 .. Taken(k) + 1 = (1 .. Taken(k)) \cup {Taken(k) + 1}
    BY <1>4
  <2>2. Given(k)' = {List(k)[i] : i \in 1 .. Taken(k) + 1}
    BY <1>1, <1>3 DEF Given
  <2>3. QED  BY <2>1, <2>2 DEF Given
<1>8. \A j \in Levels \ {k} : Given(j)' = Given(j)
  BY <1>1, <1>3 DEF Given
<1>9. \A j \in Levels : j < k => loop[j] = <<>>
  BY Constants DEF Takes, Active
<1>10. List(k)[Taken(k) + 1] \in Build[k] /\ List(k)[Taken(k) + 1] \in Rows
  BY <1>4, <1>5, Constants
<1>11. List(k)[Taken(k) + 1] \notin Given(k)
  BY <1>6 DEF Given
<1>12. QED  BY <1>1, <1>2, <1>3, <1>7, <1>8, <1>9, <1>10, <1>11

\* The tuples the step leaves in the loops.
LEMMA TakesLoop ==
  ASSUME JoinInv, NEW k \in Levels, Takes(k), NEW item, item = List(k)[Taken(k) + 1]
  PROVE  /\ \A j \in Levels : ~(j = k - 1 /\ Satisfied(k, item, loop[k])) => loop'[j] = loop[j]
         /\ k > 1 /\ Satisfied(k, item, loop[k]) =>
              k - 1 \in Levels /\ loop'[k - 1] = Append(loop[k], item) /\ loop[k - 1] = <<>>
         /\ loop' \in [Levels -> Seq(Rows)]
         /\ k > 1 \/ ~Satisfied(k, item, loop[k]) => emitted' = emitted
         /\ k = 1 /\ Satisfied(k, item, loop[k]) =>
              emitted' = [emitted EXCEPT ![Append(loop[k], item)] = @ + 1]
<1>1. loop[k] \in Seq(Rows) /\ item \in Rows /\ \A j \in Levels : j < k => loop[j] = <<>>
  BY TakesRow
<1>2. Append(loop[k], item) \in Seq(Rows)
  BY <1>1, AppendProperties
<1>3. loop \in [Levels -> Seq(Rows)]
  BY DEF JoinInv, JoinTypeInv
<1>4. k \in Nat /\ k >= 1 /\ (k > 1 => k - 1 \in Levels /\ k - 1 < k) /\ 0 \notin Levels
  BY Constants
<1>5. Emit(k, item)
  BY DEF Takes
<1>6. CASE ~Satisfied(k, item, loop[k])
  BY <1>3, <1>5, <1>6 DEF Emit
<1>7. CASE Satisfied(k, item, loop[k]) /\ k > 1
  <2>1. loop' = [loop EXCEPT ![k - 1] = Append(loop[k], item)] /\ emitted' = emitted
    BY <1>5, <1>7 DEF Emit
  <2>2. QED  BY <1>1, <1>2, <1>3, <1>4, <1>7, <2>1
<1>8. CASE Satisfied(k, item, loop[k]) /\ ~(k > 1)
  <2>1. loop' = loop /\ emitted' = [emitted EXCEPT ![Append(loop[k], item)] = @ + 1]
    BY <1>5, <1>8 DEF Emit
  <2>2. QED  BY <1>3, <1>4, <1>8, <2>1
<1>9. QED  BY <1>6, <1>7, <1>8

LEMMA TakesKeepsLoops ==
  ASSUME JoinInv, NEW k \in Levels, Takes(k)
  PROVE  LoopInv'
<1> DEFINE item == List(k)[Taken(k) + 1]
           sat == Satisfied(k, item, loop[k])
<1>1. /\ stage = "stream" /\ stage' = "stream" /\ loop[k] \in Seq(Rows) /\ loop[k] # <<>>
      /\ Len(loop[k]) = Depth - k + 1 /\ loop[k][1] \in Streamed \ arriving /\ item \in Rows
      /\ \A j \in Levels : List(j)' = List(j) /\ (InRun(j)' <=> InRun(j))
      /\ \A j \in Levels : j < k => loop[j] = <<>>
  BY TakesRow
<1>2. /\ \A j \in Levels : ~(j = k - 1 /\ sat) => loop'[j] = loop[j]
      /\ k > 1 /\ sat =>
           k - 1 \in Levels /\ loop'[k - 1] = Append(loop[k], item) /\ loop[k - 1] = <<>>
  BY TakesLoop
<1>3. /\ Taken(k) < Len(List(k)) /\ Taken(k)' = Taken(k) + 1
      /\ \A j \in Levels \ {k} : Taken(j)' = Taken(j) /\ index'[j] = index[j] /\ position'[j] = position[j]
      /\ InRun(k) => index'[k] = index[k]
      /\ reading[k] = NoRun => position'[k] = position[k]
      /\ reading' = reading /\ arriving' = arriving
  BY DEF Takes
<1>4. \A j \in Levels : Taken(j) \in Nat /\ Len(List(j)) \in Nat /\ Taken(j) <= Len(List(j))
  BY <1>1, ListFacts
<1>5. arriving \subseteq Streamed
  BY <1>1 DEF JoinInv, LoopInv
<1>6. k \in Nat /\ Depth \in Nat /\ \A j \in Levels : j \in Nat /\ j <= Depth
  BY Constants
<1> HIDE DEF item, sat
<1>7. ASSUME NEW j \in Levels, loop'[j] = <<>>
      PROVE  loop[j] = <<>> /\ j # k
  <2>1. CASE j = k - 1 /\ sat
    <3>1. k > 1
      BY <1>6, <2>1, Constants
    <3>2. QED  BY <1>2, <1>6, <2>1, <3>1
  <2>2. CASE ~(j = k - 1 /\ sat)
    BY <1>1, <1>2, <1>7, <2>2
  <2>3. QED  BY <2>1, <2>2
<1>8. ASSUME NEW j \in Levels
      PROVE  /\ Taken(j)' <= Len(List(j)')
             /\ reading'[j] \in {j, NoRun} /\ (reading'[j] = NoRun => position'[j] = 0)
             /\ InRun(j)' => index'[j] = 0
             /\ ~InRun(j)' => reading'[j] = NoRun
             /\ loop'[j] = <<>> => reading'[j] = NoRun /\ index'[j] = 0
  <2>1. /\ reading[j] \in {j, NoRun} /\ (reading[j] = NoRun => position[j] = 0)
        /\ InRun(j) => index[j] = 0
        /\ ~InRun(j) => reading[j] = NoRun
        /\ loop[j] = <<>> => reading[j] = NoRun /\ index[j] = 0
    BY <1>1 DEF JoinInv, LoopInv
  <2>2. Taken(j)' <= Len(List(j)')
    BY <1>1, <1>3, <1>4
  <2>3. CASE j = k
    BY <1>1, <1>3, <1>7, <2>1, <2>2, <2>3
  <2>4. CASE j # k
    BY <1>1, <1>3, <1>7, <2>1, <2>2, <2>4
  <2>5. QED  BY <2>3, <2>4
<1>9. ASSUME NEW j \in Levels, loop'[j] # <<>>
      PROVE  Opened(j)'
  <2>1. CASE j = k - 1 /\ sat
    <3>1. k > 1 /\ j + 1 = k /\ j < Depth /\ Depth - j + 1 = Depth - k + 1 + 1
      BY <1>6, <2>1, Constants
    <3>2. loop'[j] = Append(loop[k], item) /\ loop'[k] = loop[k]
      BY <1>2, <1>6, <2>1, <3>1
    <3>3. Len(loop'[j]) = Depth - j + 1 /\ loop'[j][1] = loop[k][1]
      <4>1. 1 \in 1 .. Len(loop[k])
        BY <1>1, <1>6
      <4>2. /\ Len(Append(loop[k], item)) = Len(loop[k]) + 1
            /\ \A i \in 1 .. Len(loop[k]) : Append(loop[k], item)[i] = loop[k][i]
        BY <1>1, AppendProperties
      <4>3. QED  BY <1>1, <3>1, <3>2, <4>1, <4>2
    <3>4. Taken(k)' > 0 /\ List(k)'[Taken(k)'] = item
      BY <1>1, <1>3, <1>4 DEF item
    <3>5. <<item, loop[k][1]>> \notin Unsatisfied[k]
      BY <2>1 DEF sat, Satisfied
    <3>6. QED  BY <1>1, <1>3, <3>1, <3>2, <3>3, <3>4, <3>5 DEF Opened
  <2>2. CASE ~(j = k - 1 /\ sat)
    <3>1. loop'[j] = loop[j] /\ loop[j] # <<>>
      BY <1>2, <1>9, <2>2
    <3>2. Opened(j)
      <4>1. LoopInv
        BY <1>1 DEF JoinInv
      <4>2. stage # "failed"
        BY <1>1
      <4>3. loop[j] # <<>> => Opened(j)
        BY <4>1, <4>2 DEF LoopInv
      <4>4. QED  BY <3>1, <4>3
    <3>3. j >= k
      <4>1. j < k => loop[j] = <<>>
        BY <1>1
      <4>2. j \in Nat /\ k \in Nat
        BY <1>6
      <4>3. QED  BY <3>1, <4>1, <4>2
    <3>4. ASSUME j < Depth
          PROVE  j + 1 \in Levels /\ j + 1 # k /\ j + 1 # k - 1
      BY <1>6, <3>3, <3>4, Constants
    <3>5. j < Depth => /\ loop'[j + 1] = loop[j + 1] /\ Taken(j + 1)' = Taken(j + 1)
                       /\ List(j + 1)' = List(j + 1)
      BY <1>1, <1>2, <1>3, <3>4
    <3>6. QED  BY <1>3, <3>1, <3>2, <3>5 DEF Opened
  <2>3. QED  BY <2>1, <2>2
<1>10. QED  BY <1>1, <1>3, <1>5, <1>8, <1>9 DEF LoopInv

\* What is ahead of the loops after the step.
LEMMA TakesAhead ==
  ASSUME JoinInv, NEW k \in Levels, Takes(k), NEW t \in Tuples(1), NEW item, item = List(k)[Taken(k) + 1]
  PROVE  /\ Hit(k, t) => Ahead(k, t)
         /\ Ahead(k, t)' <=> Ahead(k, t) /\ ~Hit(k, t)
         /\ \A j \in Levels : j # k =>
              (Ahead(j, t)' <=> \/ Ahead(j, t)
                                \/ j = k - 1 /\ Satisfied(k, item, loop[k]) /\ Hit(k, t))
<1> DEFINE sat == Satisfied(k, item, loop[k])
<1>1. /\ loop[k] \in Seq(Rows) /\ loop[k] # <<>> /\ Len(loop[k]) = Depth - k + 1
      /\ item \in Rows /\ item \notin Given(k) /\ Given(k)' = Given(k) \cup {item} /\ stage = "stream"
      /\ \A j \in Levels \ {k} : Given(j)' = Given(j)
      /\ \A j \in Levels : j < k => loop[j] = <<>>
  BY TakesRow
<1>2. /\ \A j \in Levels : ~(j = k - 1 /\ sat) => loop'[j] = loop[j]
      /\ k > 1 /\ sat =>
           k - 1 \in Levels /\ loop'[k - 1] = Append(loop[k], item) /\ loop[k - 1] = <<>>
  BY TakesLoop
<1> HIDE DEF sat
<1>3. k \in Nat /\ k \in 1 .. Depth /\ Depth \in Nat
  BY Constants
<1>4. loop'[k] = loop[k]
  BY <1>2, <1>3
<1>5. Hit(k, t) => Ahead(k, t)
  BY <1>1 DEF Hit, Ahead
<1>6. Ahead(k, t)' <=> Ahead(k, t) /\ ~Hit(k, t)
  BY <1>1, <1>4 DEF Hit, Ahead
<1>7. ASSUME NEW j \in Levels, j # k
      PROVE  Ahead(j, t)' <=> Ahead(j, t) \/ (j = k - 1 /\ sat /\ Hit(k, t))
  <2>1. CASE j = k - 1 /\ sat
    <3>1. k > 1 /\ Depth - j + 1 = Depth - k + 2 /\ Depth - k + 2 = Len(loop[k]) + 1
      BY <1>1, <1>3, <2>1, Constants
    <3>2. loop'[j] = Append(loop[k], item) /\ loop[j] = <<>>
      BY <1>2, <2>1, <3>1
    <3>3. Given(j)' = {}
      BY <1>1, <1>7, <3>2, ClosedLoop
    <3>4. /\ Append(loop[k], item)[Depth - k + 2] = item /\ loop'[j] # <<>>
          /\ \A i \in 1 .. Depth - k + 1 : Append(loop[k], item)[i] = loop[k][i]
      <4>1. /\ Append(loop[k], item) \in Seq(Rows) /\ Append(loop[k], item) # <<>>
            /\ Append(loop[k], item)[Len(loop[k]) + 1] = item
            /\ \A i \in 1 .. Len(loop[k]) : Append(loop[k], item)[i] = loop[k][i]
        BY <1>1, AppendProperties
      <4>2. QED  BY <1>1, <3>1, <3>2, <4>1
    <3>5. 1 .. Depth - j + 1 = (1 .. Depth - k + 1) \cup {Depth - k + 2}
      BY <1>3, <3>1
    <3>6. Ahead(j, t)' <=> \A i \in 1 .. Depth - j + 1 : t[i] = Append(loop[k], item)[i]
      BY <3>2, <3>3, <3>4 DEF Ahead
    <3>7. (\A i \in 1 .. Depth - j + 1 : t[i] = Append(loop[k], item)[i]) <=> Hit(k, t)
      BY <3>4, <3>5 DEF Hit
    <3>8. ~Ahead(j, t)
      BY <3>2 DEF Ahead
    <3>9. QED  BY <2>1, <3>6, <3>7, <3>8
  <2>2. CASE ~(j = k - 1 /\ sat)
    <3>1. loop'[j] = loop[j] /\ Given(j)' = Given(j)
      BY <1>1, <1>2, <1>7, <2>2
    <3>2. QED  BY <2>2, <3>1 DEF Ahead
  <2>3. QED  BY <2>1, <2>2
<1>8. QED  BY <1>5, <1>6, <1>7 DEF sat

\* A tuple the topmost loop completes satisfies the predicates of all levels, and
\* nothing of it is ahead of the loops below.
LEMMA CompletedTuple ==
  ASSUME JoinInv, Takes(1), NEW t \in Tuples(1), Hit(1, t),
         Satisfied(1, List(1)[Taken(1) + 1], loop[1])
  PROVE  /\ t = Append(loop[1], List(1)[Taken(1) + 1])
         /\ t \in Matches /\ t[1] \notin arriving
         /\ \A j \in Levels : j > 1 => ~Ahead(j, t)
<1> DEFINE item == List(1)[Taken(1) + 1]
<1>1. /\ loop[1] \in Seq(Rows) /\ loop[1] # <<>> /\ Len(loop[1]) = Depth
      /\ loop[1][1] \in Streamed \ arriving /\ item \in Rows /\ stage = "stream"
  <2>1. /\ loop[1] \in Seq(Rows) /\ loop[1] # <<>> /\ Len(loop[1]) = Depth - 1 + 1
        /\ loop[1][1] \in Streamed \ arriving /\ item \in Rows /\ stage = "stream"
    BY TakesRow, Constants
  <2>2. QED  BY <2>1, Constants
<1> HIDE DEF item
<1>2. t \in Seq(Rows) /\ Len(t) = Depth + 1 /\ Depth \in Nat \ {0} /\ 1 \in Levels
  BY TupleRows, Constants
<1>3. (\A i \in 1 .. Depth : t[i] = loop[1][i]) /\ t[Depth + 1] = item
  <2>1. Depth - 1 + 1 = Depth /\ Depth - 1 + 2 = Depth + 1
    BY <1>2
  <2>2. QED  BY <2>1 DEF Hit, item
<1>4. /\ Append(loop[1], item) \in Seq(Rows) /\ Len(Append(loop[1], item)) = Depth + 1
      /\ Append(loop[1], item)[Depth + 1] = item
      /\ \A i \in 1 .. Depth : Append(loop[1], item)[i] = loop[1][i]
  BY <1>1, AppendProperties
<1>5. t = Append(loop[1], item)
  <2>1. \A i \in 1 .. Len(t) : t[i] = Append(loop[1], item)[i]
    BY <1>2, <1>3, <1>4
  <2>2. QED  BY <1>2, <1>4, <2>1, SeqEqual
<1>6. t[1] = loop[1][1]
  BY <1>2, <1>3
<1>7. ASSUME NEW j \in Levels, j > 1
      PROVE  /\ t[Depth - j + 2] = loop[1][Depth - j + 2]
             /\ t[Depth - j + 2] \in Given(j)
             /\ <<t[Depth - j + 2], t[1]>> \notin Unsatisfied[j]
  <2>1. /\ Depth - j + 2 \in 1 .. Depth - 1 + 1
        /\ loop[1][Depth - j + 2] \in Given(j)
        /\ <<loop[1][Depth - j + 2], loop[1][1]>> \notin Unsatisfied[j]
    BY <1>1, <1>2, <1>7, TakenBelow
  <2>2. Depth - j + 2 \in 1 .. Depth
    BY <1>2, <2>1
  <2>3. t[Depth - j + 2] = loop[1][Depth - j + 2]
    BY <1>3, <2>2
  <2>4. QED  BY <1>6, <2>1, <2>3
<1>8. <<t[Depth - 1 + 2], t[1]>> \notin Unsatisfied[1]
  <2>1. Depth - 1 + 2 = Depth + 1
    BY <1>2
  <2>2. QED  BY <1>3, <1>6, <2>1 DEF Satisfied, item
<1>9. t \in Matches
  <2>1. ASSUME NEW j \in Levels
        PROVE  <<t[Depth - j + 2], t[1]>> \notin Unsatisfied[j]
    <3>1. j = 1 \/ j > 1
      BY Constants
    <3>2. QED  BY <1>7, <1>8, <3>1
  <2>2. QED  BY <2>1 DEF Matches
<1>10. \A j \in Levels : j > 1 => ~Ahead(j, t)
  BY <1>7 DEF Ahead
<1>11. QED  BY <1>1, <1>5, <1>6, <1>9, <1>10 DEF item

LEMMA TakesCounts ==
  ASSUME JoinInv, NEW k \in Levels, Takes(k)
  PROVE  EmittedInv' /\ emitted' \in [Tuples(1) -> Nat]
<1> DEFINE item == List(k)[Taken(k) + 1]
           sat == Satisfied(k, item, loop[k])
<1>1. /\ stage = "stream" /\ stage' = "stream" /\ arriving' = arriving
      /\ loop[k] \in Seq(Rows) /\ Len(loop[k]) = Depth - k + 1
      /\ loop[k][1] \in Streamed \ arriving /\ item \in Rows
      /\ \A j \in Levels : j < k => loop[j] = <<>>
  <2>1. arriving' = arriving
    BY DEF Takes
  <2>2. QED  BY <2>1, TakesRow
<1>2. /\ k > 1 \/ ~sat => emitted' = emitted
      /\ k = 1 /\ sat => emitted' = [emitted EXCEPT ![Append(loop[k], item)] = @ + 1]
  BY TakesLoop
<1>3. k \in Nat /\ k >= 1 /\ Depth \in Nat
  BY Constants
<1>4. /\ emitted \in [Tuples(1) -> Nat]
      /\ \A t \in Tuples(1) : emitted[t] = IF t \in Matches /\ Passed(t) THEN 1 ELSE 0
  BY <1>1 DEF JoinInv, JoinTypeInv, EmittedInv
<1>5. ASSUME NEW t \in Tuples(1)
      PROVE  /\ Hit(k, t) => Ahead(k, t)
             /\ Ahead(k, t)' <=> Ahead(k, t) /\ ~Hit(k, t)
             /\ \A j \in Levels : j # k =>
                  (Ahead(j, t)' <=> Ahead(j, t) \/ (j = k - 1 /\ sat /\ Hit(k, t)))
  BY TakesAhead
<1> HIDE DEF item, sat
<1>6. emitted' \in [Tuples(1) -> Nat]
  <2>1. CASE k > 1 \/ ~sat
    BY <1>2, <1>4, <2>1
  <2>2. CASE k = 1 /\ sat
    <3>1. PICK t : t = Append(loop[k], item)
      OBVIOUS
    <3>2. emitted' = [emitted EXCEPT ![t] = @ + 1]
      BY <1>2, <2>2, <3>1
    <3>3. \A u \in Tuples(1) : emitted[u] \in Nat /\ emitted[u] + 1 \in Nat
      BY <1>4
    <3>4. QED  BY <1>4, <3>2, <3>3
  <2>3. QED  BY <1>3, <2>1, <2>2
<1>7. ASSUME NEW t \in Tuples(1), ~Hit(k, t)
      PROVE  emitted'[t] = IF t \in Matches /\ Passed(t)' THEN 1 ELSE 0
  <2>1. Passed(t)' <=> Passed(t)
    <3>1. \A j \in Levels : Ahead(j, t)' <=> Ahead(j, t)
      BY <1>5, <1>7
    <3>2. QED  BY <1>1, <3>1 DEF Passed
  <2>2. emitted'[t] = emitted[t]
    <3>1. CASE k > 1 \/ ~sat
      BY <1>2, <3>1
    <3>2. CASE k = 1 /\ sat
      <4>1. t # Append(loop[k], item)
        <5>1. /\ Append(loop[k], item)[Len(loop[k]) + 1] = item
              /\ \A i \in 1 .. Len(loop[k]) : Append(loop[k], item)[i] = loop[k][i]
          BY <1>1, AppendProperties
        <5>2. Depth - k + 2 = Len(loop[k]) + 1
          BY <1>1, <1>3
        <5>3. QED  BY <1>1, <1>7, <5>1, <5>2 DEF Hit, item
      <4>2. QED  BY <1>2, <1>4, <3>2, <4>1
    <3>3. QED  BY <1>3, <3>1, <3>2
  <2>3. QED  BY <1>4, <2>1, <2>2
<1>8. ASSUME NEW t \in Tuples(1), Hit(k, t)
      PROVE  emitted'[t] = IF t \in Matches /\ Passed(t)' THEN 1 ELSE 0
  <2>1. ~Passed(t) /\ emitted[t] = 0
    BY <1>4, <1>5, <1>8 DEF Passed
  <2>2. CASE ~sat
    <3>1. t[1] = loop[k][1] /\ t[Depth - k + 2] = item
      BY <1>1, <1>3, <1>8, Constants DEF Hit, item
    <3>2. t \notin Matches
      BY <2>2, <3>1 DEF Matches, sat, Satisfied
    <3>3. QED  BY <1>2, <2>1, <2>2, <3>2
  <2>3. CASE sat /\ k > 1
    <3>1. k - 1 \in Levels /\ k - 1 # k
      BY <1>3, <2>3, Constants
    <3>2. Ahead(k - 1, t)'
      BY <1>5, <1>8, <2>3, <3>1
    <3>3. ~Passed(t)'
      BY <3>1, <3>2 DEF Passed
    <3>4. QED  BY <1>2, <2>1, <2>3, <3>3
  <2>4. CASE sat /\ k = 1
    <3>1. /\ t = Append(loop[1], item) /\ t \in Matches /\ t[1] \notin arriving
          /\ \A j \in Levels : j > 1 => ~Ahead(j, t)
      BY <1>8, <2>4, CompletedTuple DEF sat, item
    <3>2. emitted'[t] = 1
      BY <1>2, <1>4, <2>1, <2>4, <3>1
    <3>3. ASSUME NEW j \in Levels
          PROVE  ~Ahead(j, t)'
      <4>1. CASE j = k
        BY <1>5, <1>8, <4>1
      <4>2. CASE j # k
        <5>1. j > 1 /\ j # k - 1
          BY <2>4, <4>2, Constants
        <5>2. QED  BY <1>5, <3>1, <4>2, <5>1
      <4>3. QED  BY <4>1, <4>2
    <3>4. Passed(t)'
      BY <1>1, <3>1, <3>3 DEF Passed
    <3>5. QED  BY <3>1, <3>2, <3>4
  <2>5. QED  BY <1>3, <2>2, <2>3, <2>4
<1>9. (\A t \in Tuples(1) : emitted[t] = IF t \in Matches /\ Passed(t) THEN 1 ELSE 0)'
  BY <1>7, <1>8
<1>10. EmittedInv'
  BY <1>1, <1>9 DEF EmittedInv
<1>11. QED  BY <1>6, <1>10

LEMMA TakesStep ==
  ASSUME JoinInv, NEW k \in Levels, Takes(k)
  PROVE  JoinInv'
<1>1. RowsInv' /\ LoopInv' /\ EmittedInv'
  BY TakesRow, TakesKeepsLoops, TakesCounts
<1>2. loop' \in [Levels -> Seq(Rows)] /\ emitted' \in [Tuples(1) -> Nat]
  BY TakesLoop, TakesCounts
<1>3. JoinTypeInv'
  BY <1>2 DEF JoinInv, JoinTypeInv, Takes
<1>4. QED  BY <1>1, <1>3 DEF JoinInv

LEMMA LoopInMemoryStep ==
  ASSUME JoinInv, NEW k \in Levels, LoopInMemory(k)
  PROVE  Takes(k)
<1>1. /\ Active(k) /\ ~InRun(k) /\ index[k] < Len(rows[k]) /\ Emit(k, rows[k][index[k] + 1])
      /\ index' = [index EXCEPT ![k] = @ + 1]
      /\ UNCHANGED <<phase, contents, reading, position, stage, level, arriving, rows, spilled>>
  BY DEF LoopInMemory, runvars
<1>2. index \in [Levels -> Nat] /\ position \in [Levels -> Nat]
  BY DEF JoinInv, JoinTypeInv
<1>3. List(k) = rows[k] /\ Taken(k) = index[k]
  BY <1>1 DEF List, Taken
<1>4. Taken(k)' = Taken(k) + 1 /\ \A j \in Levels \ {k} : index'[j] = index[j] /\ Taken(j)' = Taken(j)
  BY <1>1, <1>2 DEF Taken, InRun
<1>5. index' \in [Levels -> Nat]
  BY <1>1, <1>2
<1>6. QED  BY <1>1, <1>2, <1>3, <1>4, <1>5 DEF Takes

LEMMA LoopInRunStep ==
  ASSUME JoinInv, NEW k \in Levels, LoopInRun(k)
  PROVE  Takes(k)
<1>1. /\ Active(k) /\ InRun(k) /\ reading[k] = k /\ position[k] < Len(contents[k])
      /\ Emit(k, contents[k][position[k] + 1])
      /\ position' = [position EXCEPT ![k] = @ + 1]
      /\ UNCHANGED <<phase, contents, reading, index, stage, level, arriving, rows, spilled>>
  BY DEF LoopInRun, Read
<1>2. index \in [Levels -> Nat] /\ position \in [Levels -> Nat]
  BY DEF JoinInv, JoinTypeInv
<1>3. List(k) = contents[k] /\ Taken(k) = position[k] /\ reading[k] # NoRun
  BY <1>1, Constants DEF List, Taken
<1>4. Taken(k)' = Taken(k) + 1 /\ \A j \in Levels \ {k} : position'[j] = position[j] /\ Taken(j)' = Taken(j)
  BY <1>1, <1>2 DEF Taken, InRun
<1>5. position' \in [Levels -> Nat]
  BY <1>1, <1>2
<1>6. QED  BY <1>1, <1>2, <1>3, <1>4, <1>5 DEF Takes

LEMMA EndLoopStep ==
  ASSUME JoinInv, NEW k \in Levels, EndLoop(k)
  PROVE  JoinInv'
<1>1. /\ stage = "stream" /\ stage' = "stream" /\ loop[k] # <<>>
      /\ loop' = [loop EXCEPT ![k] = <<>>] /\ index' = [index EXCEPT ![k] = 0]
      /\ UNCHANGED <<phase, contents, level, arriving, rows, spilled, emitted>>
      /\ \A j \in Levels : j < k => loop[j] = <<>>
  BY Constants DEF EndLoop, Active, StopReading, runvars
<1>2. /\ InRun(k) => /\ position[k] = Len(contents[k])
                     /\ reading' = [reading EXCEPT ![k] = NoRun]
                     /\ position' = [position EXCEPT ![k] = 0]
      /\ ~InRun(k) => /\ index[k] = Len(rows[k])
                      /\ reading' = reading /\ position' = position
  BY DEF EndLoop, StopReading, runvars
<1>3. JoinTypeInv
  BY DEF JoinInv
<1>4. RowsInv' /\ \A j \in Levels : List(j)' = List(j) /\ (InRun(j)' <=> InRun(j))
  BY <1>1, RowsStay
<1>5. /\ loop'[k] = <<>> /\ index'[k] = 0
      /\ \A j \in Levels \ {k} : loop'[j] = loop[j] /\ index'[j] = index[j]
      /\ loop' \in [Levels -> Seq(Rows)] /\ index' \in [Levels -> Nat]
  BY <1>1, <1>3 DEF JoinTypeInv
<1>6. ~InRun(k) => reading[k] = NoRun /\ position[k] = 0
  BY <1>1 DEF JoinInv, LoopInv
<1>7. /\ reading'[k] = NoRun /\ position'[k] = 0
      /\ \A j \in Levels \ {k} : reading'[j] = reading[j] /\ position'[j] = position[j]
      /\ reading' \in [Levels -> Levels \cup {NoRun}] /\ position' \in [Levels -> Nat]
  <2>1. CASE InRun(k)
    <3>1. reading' = [reading EXCEPT ![k] = NoRun] /\ position' = [position EXCEPT ![k] = 0]
      BY <1>2, <2>1
    <3>2. reading \in [Levels -> Levels \cup {NoRun}] /\ position \in [Levels -> Nat]
      BY <1>3 DEF JoinTypeInv
    <3>3. QED  BY <3>1, <3>2
  <2>2. CASE ~InRun(k)
    <3>1. reading' = reading /\ position' = position /\ reading[k] = NoRun /\ position[k] = 0
      BY <1>2, <1>6, <2>2
    <3>2. QED  BY <1>3, <3>1 DEF JoinTypeInv
  <2>3. QED  BY <2>1, <2>2
<1>8. JoinTypeInv'
  BY <1>1, <1>3, <1>5, <1>7 DEF JoinTypeInv
<1>9. Taken(k)' = 0 /\ \A j \in Levels \ {k} : Taken(j)' = Taken(j) /\ Given(j)' = Given(j)
  <2>1. Taken(k)' = 0
    BY <1>5, <1>7 DEF Taken
  <2>2. \A j \in Levels \ {k} : Taken(j)' = Taken(j)
    BY <1>1, <1>5, <1>7 DEF Taken, InRun
  <2>3. QED  BY <1>4, <2>1, <2>2 DEF Given
<1>10. LoopInv'
  <2>1. ASSUME NEW j \in Levels
        PROVE  /\ Taken(j)' <= Len(List(j)')
               /\ reading'[j] \in {j, NoRun} /\ (reading'[j] = NoRun => position'[j] = 0)
               /\ InRun(j)' => index'[j] = 0
               /\ ~InRun(j)' => reading'[j] = NoRun
               /\ loop'[j] = <<>> => reading'[j] = NoRun /\ index'[j] = 0
    <3>1. Len(List(j)) \in Nat /\ Taken(j) <= Len(List(j))
      BY <1>1, ListFacts
    <3>2. CASE j = k
      BY <1>4, <1>5, <1>7, <1>9, <3>1, <3>2
    <3>3. CASE j # k
      BY <1>1, <1>4, <1>5, <1>7, <1>9, <3>1, <3>3 DEF JoinInv, LoopInv
    <3>4. QED  BY <3>2, <3>3
  <2>2. ASSUME NEW j \in Levels, loop'[j] # <<>>
        PROVE  Opened(j)'
    <3>1. j # k /\ loop[j] # <<>> /\ loop'[j] = loop[j]
      BY <1>5, <2>2
    <3>2. Opened(j)
      BY <1>1, <3>1 DEF JoinInv, LoopInv
    <3>3. j < Depth => j + 1 \in Levels /\ j + 1 # k
      BY <1>1, <3>1, Constants
    <3>4. j < Depth => /\ loop'[j + 1] = loop[j + 1] /\ Taken(j + 1)' = Taken(j + 1)
                       /\ List(j + 1)' = List(j + 1)
      BY <1>4, <1>5, <1>9, <3>3
    <3>5. QED  BY <1>1, <3>1, <3>2, <3>4 DEF Opened
  <2>3. arriving' \subseteq Streamed
    BY <1>1 DEF JoinInv, LoopInv
  <2>4. QED  BY <1>1, <2>1, <2>2, <2>3 DEF LoopInv
<1>11. Given(k) = Build[k]
  <2>1. Taken(k) = Len(List(k))
    BY <1>2 DEF Taken, List
  <2>2. Given(k) = {List(k)[i] : i \in 1 .. Len(List(k))}
    BY <2>1 DEF Given
  <2>3. QED  BY <1>1, <2>2, ListFacts DEF ToSet
<1>12. EmittedInv'
  <2>1. ASSUME NEW t \in Tuples(1)
        PROVE  Passed(t)' <=> Passed(t)
    <3>1. ~Ahead(k, t)
      BY <1>11, TupleRows DEF Ahead
    <3>2. ~Ahead(k, t)'
      BY <1>5 DEF Ahead
    <3>3. \A j \in Levels : j # k => (Ahead(j, t)' <=> Ahead(j, t))
      BY <1>5, <1>9 DEF Ahead
    <3>4. QED  BY <1>1, <3>1, <3>2, <3>3 DEF Passed
  <2>2. (\A t \in Tuples(1) : emitted[t] = IF t \in Matches /\ Passed(t) THEN 1 ELSE 0)'
    BY <1>1, <2>1 DEF JoinInv, EmittedInv
  <2>3. QED  BY <1>1, <2>2 DEF EmittedInv
<1>13. QED  BY <1>4, <1>8, <1>10, <1>12 DEF JoinInv

LEMMA EndOfInputStep ==
  ASSUME JoinInv, EndOfInput
  PROVE  JoinInv'
<1>1. /\ stage = "stream" /\ stage' = "unwind" /\ NoLoop /\ arriving = {}
      /\ UNCHANGED <<phase, contents, reading, position, level, arriving, rows, spilled, loop,
                     index, emitted>>
  BY DEF EndOfInput, runvars
<1>2. JoinTypeInv'
  BY <1>1 DEF JoinInv, JoinTypeInv, JoinStages
<1>3. RowsInv'
  <2>1. spilled' = 0 /\ level' = Depth /\ \A k \in Levels : k <= Depth
    BY <1>1, Constants DEF JoinInv, RowsInv
  <2>2. \A k \in Levels : Placed(k)' /\ Complete(k)'
    BY <1>1 DEF JoinInv, RowsInv, Placed, Complete, List, InRun
  <2>3. \A k \in Levels : ~(k > Depth)
    BY Constants
  <2>4. QED  BY <1>1, <2>1, <2>2, <2>3 DEF RowsInv
<1>4. LoopInv'
  <2>1. \A k \in Levels : Idle(k)'
    BY <1>1 DEF JoinInv, LoopInv, NoLoop, Idle
  <2>2. QED  BY <1>1, <1>2, <2>1, LoopsIdleNext
<1>5. EmittedInv'
  <2>1. \A t \in Tuples(1) : Passed(t)
    BY <1>1 DEF Passed, Ahead, NoLoop
  <2>2. QED  BY <1>1, <2>1 DEF JoinInv, EmittedInv
<1>6. QED  BY <1>2, <1>3, <1>4, <1>5 DEF JoinInv

LEMMA ReleaseStep ==
  ASSUME JoinInv, Release
  PROVE  JoinInv'
<1> SUFFICES ASSUME NEW k \in Levels, level = k PROVE JoinInv'
  BY DEF JoinInv, JoinTypeInv
<1>1. /\ stage = "unwind" /\ rows' = [rows EXCEPT ![k] = <<>>]
      /\ UNCHANGED <<reading, position, arriving, spilled, loop, index, emitted>>
      /\ InRun(k) => /\ phase' = [phase EXCEPT ![k] = "unused"]
                     /\ contents' = [contents EXCEPT ![k] = <<>>]
      /\ ~InRun(k) => UNCHANGED <<phase, contents>>
  BY DEF Release, Drop, runvars
<1>2. \/ k > 1 /\ level' = k - 1 /\ stage' = "unwind"
      \/ ~(k > 1) /\ level' = k /\ stage' = "done"
  BY DEF Release
<1>3. JoinTypeInv /\ spilled = 0
  BY <1>1 DEF JoinInv, RowsInv
<1>4. Complete(k)
  BY <1>1, Constants DEF JoinInv, RowsInv
<1>5. Nothing(k)'
  BY <1>1, <1>3, <1>4 DEF Complete, InRun, Nothing, JoinTypeInv
<1>6. \A j \in Levels \ {k} : rows'[j] = rows[j] /\ contents'[j] = contents[j] /\ phase'[j] = phase[j]
  BY <1>1, <1>3 DEF JoinTypeInv
<1>7. JoinTypeInv'
  <2>1. /\ rows' \in [Levels -> Seq(Rows)] /\ contents' \in [Levels -> Seq(Rows)]
        /\ phase' \in [Levels -> {"unused", "writing", "sealed"}]
    <3>1. rows' \in [Levels -> Seq(Rows)]
      BY <1>1, <1>3, EmptySeq DEF JoinTypeInv
    <3>2. CASE InRun(k)
      BY <1>1, <1>3, <3>1, <3>2, EmptySeq DEF JoinTypeInv
    <3>3. CASE ~InRun(k)
      BY <1>1, <1>3, <3>1, <3>3 DEF JoinTypeInv
    <3>4. QED  BY <3>2, <3>3
  <2>2. level' \in Levels /\ stage' \in JoinStages
    BY <1>2, Constants DEF JoinStages
  <2>3. QED  BY <1>1, <1>3, <2>1, <2>2 DEF JoinTypeInv
<1>8. RowsInv'
  <2>1. ASSUME NEW j \in Levels
        PROVE  /\ Placed(j)'
               /\ j < k => Complete(j)'
               /\ j >= k => Nothing(j)'
    <3>1. CASE j = k
      <4>1. Placed(j)' /\ Nothing(j)'
        BY <1>5, <3>1, EmptyPlaces DEF Nothing, Placed
      <4>2. QED  BY <3>1, <4>1, Constants
    <3>2. CASE j # k
      <4>1. Placed(j)'
        BY <1>3, <1>6, <3>2, PlacedStays DEF JoinInv, RowsInv
      <4>2. (j <= k => Complete(j)) /\ (j > k => Nothing(j))
        BY <1>1 DEF JoinInv, RowsInv
      <4>3. Complete(j) => Complete(j)'
        BY <1>6, <3>2 DEF Complete, List, InRun
      <4>4. Nothing(j) => Nothing(j)'
        BY <1>6, <3>2 DEF Nothing
      <4>5. QED  BY <3>2, <4>1, <4>2, <4>3, <4>4, Constants
    <3>3. QED  BY <3>1, <3>2
  <2>2. spilled' = 0
    BY <1>1, <1>3
  <2>3. CASE k > 1
    <3>1. level' = k - 1 /\ stage' = "unwind"
      BY <1>2, <2>3
    <3>2. \A j \in Levels : (j <= k - 1 => Complete(j)') /\ (j > k - 1 => Nothing(j)')
      BY <2>1, Constants
    <3>3. QED  BY <2>1, <2>2, <3>1, <3>2 DEF RowsInv
  <2>4. CASE ~(k > 1)
    <3>1. stage' = "done" /\ \A j \in Levels : Nothing(j)'
      BY <1>2, <2>1, <2>4, Constants
    <3>2. QED  BY <2>1, <2>2, <3>1 DEF RowsInv
  <2>5. QED  BY <2>3, <2>4
<1>9. LoopInv'
  <2>1. \A j \in Levels : Idle(j)
    BY <1>1, IdleLoops
  <2>2. \A j \in Levels : Idle(j)'
    BY <1>1, <2>1 DEF Idle
  <2>3. QED  BY <1>2, <1>7, <2>2, LoopsIdleNext
<1>10. EmittedInv'
  BY <1>1, <1>2 DEF JoinInv, EmittedInv
<1>11. QED  BY <1>7, <1>8, <1>9, <1>10 DEF JoinInv

LEMMA FailStep ==
  ASSUME JoinInv, Fail
  PROVE  JoinInv'
<1>1. /\ stage' = "failed"
      /\ UNCHANGED <<phase, contents, reading, position, level, arriving, rows, spilled, loop,
                     index, emitted>>
  BY DEF Fail, runvars
<1>2. JoinTypeInv'
  BY <1>1 DEF JoinInv, JoinTypeInv, JoinStages
<1>3. RowsInv'
  BY <1>1 DEF JoinInv, RowsInv, Placed
<1>4. LoopInv' /\ EmittedInv'
  BY <1>1 DEF LoopInv, EmittedInv
<1>5. QED  BY <1>2, <1>3, <1>4 DEF JoinInv

LEMMA StutterStep ==
  ASSUME JoinInv, UNCHANGED allvars
  PROVE  JoinInv'
<1>1. UNCHANGED <<phase, contents, reading, position, stage, level, arriving, rows, spilled,
                  pushed, loop, index, emitted>>
  BY DEF allvars, runvars, joinvars
<1>2. JoinTypeInv'
  BY <1>1 DEF JoinInv, JoinTypeInv
<1>3. RowsInv'
  BY <1>1 DEF JoinInv, RowsInv, Placed, Complete, Nothing, Collecting, Spilling, List, InRun
<1>4. LoopInv'
  BY <1>1 DEF JoinInv, LoopInv, Taken, List, InRun, Opened
<1>5. EmittedInv'
  BY <1>1 DEF JoinInv, EmittedInv, Passed, Ahead, Given, Taken, List, InRun
<1>6. QED  BY <1>2, <1>3, <1>4, <1>5 DEF JoinInv

LEMMA JoinStarts == JoinInit => JoinInv
<1> SUFFICES ASSUME JoinInit PROVE JoinInv
  OBVIOUS
<1>1. /\ phase = [k \in Levels |-> "unused"] /\ contents = [k \in Levels |-> <<>>]
      /\ reading = [k \in Levels |-> NoRun] /\ position = [k \in Levels |-> 0]
      /\ stage = "collect" /\ level = 1 /\ arriving = Build[1]
      /\ rows = [k \in Levels |-> <<>>] /\ spilled = 0
      /\ loop = [k \in Levels |-> <<>>] /\ index = [k \in Levels |-> 0]
      /\ emitted = [t \in Tuples(1) |-> 0]
  BY Constants DEF JoinInit, Init
<1>2. JoinTypeInv
  <2>1. <<>> \in Seq(Rows) /\ 1 \in Levels /\ arriving \in SUBSET Rows
    BY <1>1, Constants, EmptySeq
  <2>2. QED  BY <1>1, <2>1 DEF JoinTypeInv, JoinStages
<1>3. RowsInv
  <2>1. \A k \in Levels : Placed(k) /\ Nothing(k)
    BY <1>1, EmptyPlaces DEF Placed, Nothing
  <2>2. Collecting(1)
    BY <1>1, Constants, ToSetOfEmpty DEF Collecting
  <2>3. \A k \in Levels : ~(k < 1)
    BY Constants
  <2>4. QED  BY <1>1, <2>1, <2>2, <2>3 DEF RowsInv
<1>4. LoopInv
  <2>1. \A k \in Levels : Idle(k)
    BY <1>1 DEF Idle
  <2>2. QED  BY <1>1, <1>2, <2>1, LoopsIdle
<1>5. EmittedInv
  BY <1>1 DEF EmittedInv
<1>6. QED  BY <1>2, <1>3, <1>4, <1>5 DEF JoinInv

LEMMA JoinStep == JoinInv /\ [JoinNext]_allvars => JoinInv'
<1> SUFFICES ASSUME JoinInv, [JoinNext]_allvars PROVE JoinInv'
  OBVIOUS
<1>1. ASSUME NEW item \in arriving, Buffer(item) \/ StartSpill(item) \/ PushToRun(item) \/ StreamRow(item)
      PROVE  JoinInv'
  BY <1>1, BufferStep, StartSpillStep, PushToRunStep, StreamRowStep
<1>2. CASE SpillBuffered \/ SpillRow \/ Materialized
  BY <1>2, SpillBufferedStep, SpillRowStep, MaterializedStep
<1>3. ASSUME NEW k \in Levels, LoopInMemory(k) \/ OpenRun(k) \/ LoopInRun(k) \/ EndLoop(k)
      PROVE  JoinInv'
  BY <1>3, LoopInMemoryStep, LoopInRunStep, TakesStep, OpenRunStep, EndLoopStep
<1>4. CASE EndOfInput \/ Release \/ Fail
  BY <1>4, EndOfInputStep, ReleaseStep, FailStep
<1>5. CASE Ended \/ UNCHANGED allvars
  BY <1>5, StutterStep DEF Ended
<1>6. QED  BY <1>1, <1>2, <1>3, <1>4, <1>5 DEF JoinNext

(* What each level has materialized, what the loops have passed and what   *)
(* the sink was given, in every state (materialize_subtree_rows and        *)
(* execute_materialized_join in filter.rs).                                *)
THEOREM JoinInvHolds == JoinSpec => []JoinInv
<1>1. QED  BY JoinStarts, JoinStep, PTL DEF JoinSpec

-----------------------------------------------------------------------------

\* A level holds its rows in memory or in its run.
LEMMA OnePlace ==
  ASSUME JoinInv, NEW k \in Levels, rows[k] = <<>> \/ contents[k] = <<>>
  PROVE  /\ Len(rows[k]) + Len(contents[k]) = Cardinality(Held(k)) + 0
         /\ Held(k) = ToSet(rows[k]) \/ Held(k) = ToSet(contents[k])
<1>1. /\ rows[k] \in Seq(Build[k]) /\ IsInjective(rows[k])
      /\ contents[k] \in Seq(Build[k]) /\ IsInjective(contents[k])
  BY DEF JoinInv, RowsInv, Placed
<1>2. /\ Len(rows[k]) \in Nat /\ Len(rows[k]) = Cardinality(ToSet(rows[k]))
      /\ Len(contents[k]) \in Nat /\ Len(contents[k]) = Cardinality(ToSet(contents[k]))
  BY <1>1, InjectiveLength
<1>3. CASE rows[k] = <<>>
  <2>1. Len(rows[k]) = 0 /\ Held(k) = ToSet(contents[k])
    BY <1>3, EmptyPlaces DEF Held
  <2>2. QED  BY <1>2, <2>1
<1>4. CASE contents[k] = <<>>
  <2>1. Len(contents[k]) = 0 /\ Held(k) = ToSet(rows[k])
    BY <1>4, EmptyPlaces DEF Held
  <2>2. QED  BY <1>2, <2>1
<1>5. QED  BY <1>3, <1>4

\* While a level spills, its run has copies of the first rows in memory.
LEMMA HeldWhileSpilling ==
  ASSUME JoinInv, NEW k \in Levels, level = k, stage = "spill"
  PROVE  /\ Held(k) = ToSet(rows[k]) /\ pushed \in Build[k] \ arriving
         /\ ToSet(rows[k]) = (Build[k] \ arriving) \ {pushed}
         /\ Len(rows[k]) + Len(contents[k]) = Cardinality(Held(k)) + spilled
<1>1. Placed(k) /\ Spilling(k) /\ spilled \in Nat
  BY DEF JoinInv, JoinTypeInv, RowsInv
<1>2. /\ rows[k] \in Seq(Build[k]) /\ IsInjective(rows[k])
      /\ spilled <= Len(rows[k]) /\ contents[k] = SubSeq(rows[k], 1, spilled)
      /\ ToSet(rows[k]) = (Build[k] \ arriving) \ {pushed} /\ pushed \in Build[k] \ arriving
  BY <1>1 DEF Placed, Spilling
<1>3. /\ Len(rows[k]) \in Nat /\ Len(rows[k]) = Cardinality(ToSet(rows[k]))
      /\ \A i \in 1 .. Len(rows[k]) : rows[k][i] \in ToSet(rows[k])
  BY <1>2, InjectiveLength, ToSetType
<1>4. /\ contents[k] \in Seq(Build[k]) /\ Len(contents[k]) = spilled
      /\ \A i \in 1 .. spilled : contents[k][i] = rows[k][i]
  <2> DEFINE s == rows[k]
             S == Build[k]
  <2>1. s \in Seq(S) /\ IsInjective(s) /\ spilled \in Nat /\ spilled <= Len(s)
    BY <1>1, <1>2
  <2>2. \A i \in 1 .. Len(s) : s[i] \in S
    BY <1>2, ToSetType
  <2> HIDE DEF s, S
  <2>3. /\ SubSeq(s, 1, spilled) \in Seq(S) /\ Len(SubSeq(s, 1, spilled)) = spilled
        /\ \A i \in 1 .. spilled : SubSeq(s, 1, spilled)[i] = s[i]
    <3>1. SubSeq(s, 1, spilled) \in Seq(S) /\ Len(SubSeq(s, 1, spilled)) = spilled
      BY <2>1, PrefixInjective
    <3>2. \A i \in 1 .. spilled : SubSeq(s, 1, spilled)[i] = s[i]
      BY <2>1, LenProperties
    <3>3. QED  BY <3>1, <3>2
  <2>4. QED  BY <1>2, <2>3 DEF s, S
<1>5. ToSet(contents[k]) \subseteq ToSet(rows[k])
  <2>1. DOMAIN contents[k] = 1 .. spilled
    BY <1>4, LenProperties
  <2>2. \A i \in 1 .. spilled : contents[k][i] \in ToSet(rows[k])
    <3>1. \A i \in 1 .. spilled : i \in 1 .. Len(rows[k])
      BY <1>1, <1>2, <1>3
    <3>2. QED  BY <1>3, <1>4, <3>1
  <2>3. QED  BY <2>1, <2>2 DEF ToSet
<1>6. Held(k) = ToSet(rows[k])
  BY <1>5 DEF Held
<1>7. QED  BY <1>2, <1>3, <1>4, <1>6

HasFailed == stage = "failed"

\* Until the join fails, the places of the rows are where the invariant says.
LEMMA HeldOnce == JoinInv /\ ~HasFailed => RowsInOnePlace
<1> SUFFICES ASSUME JoinInv, stage # "failed", NEW k \in Levels
             PROVE  /\ Held(k) \cup InHand(k) = Arrived(k)
                    /\ k > level \/ stage = "done" => phase[k] = "unused"
                    /\ stage # "spill" /\ phase[k] # "unused" => rows[k] = <<>>
                    /\ Held(k) \cap InHand(k) = {}
                    /\ Len(rows[k]) + Len(contents[k])
                         = Cardinality(Held(k)) + IF k = level THEN spilled ELSE 0
  BY DEF RowsInOnePlace, HasFailed
<1>1. /\ Placed(k) /\ spilled \in Nat /\ level \in Levels /\ stage \in JoinStages
      /\ k \in Nat /\ level \in Nat /\ k <= Depth
      /\ k < level \/ k = level \/ k > level
  <2>1. Placed(k) /\ spilled \in Nat /\ level \in Levels /\ stage \in JoinStages
    BY DEF JoinInv, JoinTypeInv, RowsInv
  <2>2. k \in 1 .. Depth /\ level \in 1 .. Depth /\ Depth \in Nat
    BY <2>1, Constants
  <2>3. /\ k \in Nat /\ level \in Nat /\ k <= Depth
        /\ k < level \/ k = level \/ k > level
    BY <2>2
  <2>4. QED  BY <2>1, <2>3
<1>2. CASE stage = "spill" /\ k = level
  <2>1. /\ Held(k) = ToSet(rows[k]) /\ pushed \in Build[k] \ arriving
        /\ ToSet(rows[k]) = (Build[k] \ arriving) \ {pushed}
        /\ Len(rows[k]) + Len(contents[k]) = Cardinality(Held(k)) + spilled
    BY <1>2, HeldWhileSpilling
  <2>2. InHand(k) = {pushed}
    BY <1>2 DEF InHand
  <2>3. ~(k > level) /\ Arrived(k) = Build[k] \ arriving
    BY <1>1, <1>2 DEF Arrived
  <2>4. /\ Held(k) \cup InHand(k) = Arrived(k) /\ Held(k) \cap InHand(k) = {}
        /\ ~(k > level) /\ stage # "done"
    BY <1>2, <2>1, <2>2, <2>3
  <2>5. QED  BY <1>2, <2>1, <2>4
<1>3. CASE ~(stage = "spill" /\ k = level)
  <2>1. InHand(k) = {}
    BY <1>3 DEF InHand
  <2>2. k = level => spilled = 0
    BY <1>1, <1>3 DEF JoinInv, RowsInv, JoinStages
  <2>3. \/ k > level \/ stage = "done"
        \/ k = level /\ stage = "collect"
        \/ Complete(k) /\ ~(k > level) /\ stage # "done" /\ ~(k = level /\ stage = "collect")
    BY <1>1, <1>3 DEF JoinInv, RowsInv, JoinStages
  <2>4. CASE k > level \/ stage = "done"
    <3>1. Nothing(k) /\ Arrived(k) = {}
      BY <1>1, <2>4, Constants DEF JoinInv, RowsInv, JoinStages, Arrived
    <3>2. rows[k] = <<>> /\ contents[k] = <<>> /\ phase[k] = "unused"
      BY <3>1 DEF Nothing
    <3>3. Held(k) = {}
      BY <3>2, EmptyPlaces DEF Held
    <3>4. Len(rows[k]) + Len(contents[k]) = Cardinality(Held(k)) + 0
      BY <3>2, OnePlace
    <3>5. QED  BY <2>1, <2>2, <3>1, <3>2, <3>3, <3>4
  <2>5. CASE k = level /\ stage = "collect"
    <3>1. Collecting(k)
      BY <2>5 DEF JoinInv, RowsInv
    <3>2. /\ rows[k] = <<>> \/ contents[k] = <<>>
          /\ phase[k] # "unused" => rows[k] = <<>>
          /\ Held(k) = Build[k] \ arriving
      BY <3>1 DEF Collecting, Held
    <3>3. ~(k > level) /\ Arrived(k) = Build[k] \ arriving
      BY <1>1, <2>5 DEF Arrived
    <3>4. Len(rows[k]) + Len(contents[k]) = Cardinality(Held(k)) + 0
      BY <3>2, OnePlace
    <3>5. QED  BY <2>1, <2>2, <2>5, <3>2, <3>3, <3>4
  <2>6. CASE Complete(k) /\ ~(k > level) /\ stage # "done" /\ ~(k = level /\ stage = "collect")
    <3>1. /\ rows[k] = <<>> \/ contents[k] = <<>>
          /\ phase[k] # "unused" => rows[k] = <<>>
          /\ Held(k) = Build[k]
      BY <2>6, EmptyPlaces DEF Complete, Held, List, InRun
    <3>2. Arrived(k) = Build[k]
      BY <1>3, <2>6 DEF Arrived
    <3>3. Len(rows[k]) + Len(contents[k]) = Cardinality(Held(k)) + 0
      BY <3>1, OnePlace
    <3>4. QED  BY <2>1, <2>2, <2>6, <3>1, <3>2, <3>3
  <2>7. QED  BY <2>3, <2>4, <2>5, <2>6
<1>4. QED  BY <1>2, <1>3

\* A failure leaves every row where it was.
LEMMA FailureKeepsPlaces ==
  RowsInOnePlace /\ [JoinNext]_allvars /\ HasFailed' => RowsInOnePlace'
<1> SUFFICES ASSUME RowsInOnePlace, [JoinNext]_allvars, stage' = "failed"
             PROVE  RowsInOnePlace'
  BY DEF HasFailed
<1>1. Fail \/ Ended \/ UNCHANGED allvars
  <2>1. ASSUME NEW item \in arriving, Buffer(item) \/ StartSpill(item) \/ PushToRun(item) \/ StreamRow(item)
        PROVE  stage' # "failed"
    BY <2>1 DEF Buffer, StartSpill, PushToRun, StreamRow
  <2>2. SpillBuffered \/ SpillRow \/ Materialized => stage' # "failed"
    BY DEF SpillBuffered, SpillRow, Materialized
  <2>3. ASSUME NEW k \in Levels, LoopInMemory(k) \/ OpenRun(k) \/ LoopInRun(k) \/ EndLoop(k)
        PROVE  stage' # "failed"
    BY <2>3 DEF LoopInMemory, OpenRun, LoopInRun, EndLoop, Active, joinvars
  <2>4. EndOfInput \/ Release => stage' # "failed"
    BY DEF EndOfInput, Release
  <2>5. QED  BY <2>1, <2>2, <2>3, <2>4 DEF JoinNext
<1>2. UNCHANGED <<rows, contents, level, spilled>>
  BY <1>1 DEF Fail, Ended, allvars, joinvars, runvars
<1>3. ASSUME NEW k \in Levels
      PROVE  /\ Held(k)' = Held(k) /\ InHand(k)' = {}
             /\ Len(rows'[k]) + Len(contents'[k])
                  = Cardinality(Held(k)) + IF k = level' THEN spilled' ELSE 0
  <2>1. Held(k)' = Held(k) /\ InHand(k)' = {}
    BY <1>2 DEF Held, InHand
  <2>2. Len(rows[k]) + Len(contents[k]) = Cardinality(Held(k)) + IF k = level THEN spilled ELSE 0
    BY DEF RowsInOnePlace
  <2>3. QED  BY <1>2, <2>1, <2>2
<1>4. QED  BY <1>3 DEF RowsInOnePlace

(* A level has every row of its input that has arrived, in memory or in    *)
(* its run and once only, save the rows it is just copying to the run; no  *)
(* row is lost where it goes over to the run; levels that have not begun   *)
(* or have released their rows hold nothing: for any tables, row sizes,    *)
(* number of levels and budget, and no failure puts a row in two places    *)
(* (materialize_subtree_rows, release in filter.rs).                       *)
THEOREM RowsHeldOnce == JoinSpec => []RowsInOnePlace
<1>1. JoinInv /\ ~HasFailed => RowsInOnePlace
  BY HeldOnce
<1>2. JoinInit => ~HasFailed
  BY DEF JoinInit, HasFailed
<1>3. RowsInOnePlace /\ [JoinNext]_allvars /\ HasFailed' => RowsInOnePlace'
  BY FailureKeepsPlaces
<1>4. QED  BY <1>1, <1>2, <1>3, JoinStarts, JoinInvHolds, PTL DEF JoinSpec

-----------------------------------------------------------------------------
(* The tree as one join.                                                   *)

LEMMA MatchesTuples == Matches \subseteq Tuples(1)
BY DEF Matches

LEMMA InitImplements == JoinInit => J!Init
<1> SUFFICES ASSUME JoinInit PROVE J!Init
  OBVIOUS
<1>1. emitted = [t \in Tuples(1) |-> 0] /\ stage = "collect"
  BY DEF JoinInit
<1>2. DOMAIN emitted = Tuples(1) /\ \A t \in DOMAIN emitted : emitted[t] = 0
  BY <1>1
<1>3. QED  BY <1>1, <1>2, MatchesTuples DEF J!Init

\* Only the topmost loop gives a tuple to the sink, and one that has not been given.
LEMMA TakesEmits ==
  ASSUME JoinInv, NEW k \in Levels, Takes(k)
  PROVE  J!Emit
<1>1. stage = "stream" /\ stage' = "stream"
  BY TakesRow
<1>2. emitted \in [Tuples(1) -> Nat] /\ emitted' \in [Tuples(1) -> Nat]
  BY TakesCounts DEF JoinInv, JoinTypeInv
<1>3. /\ \A t \in Tuples(1) : emitted[t] = IF t \in Matches /\ Passed(t) THEN 1 ELSE 0
      /\ \A t \in Tuples(1) : emitted'[t] = IF t \in Matches /\ Passed(t)' THEN 1 ELSE 0
  <2>1. (\A t \in Tuples(1) : emitted[t] = IF t \in Matches /\ Passed(t) THEN 1 ELSE 0)'
    BY <1>1, TakesCounts DEF EmittedInv
  <2>2. QED  BY <1>1, <2>1 DEF JoinInv, EmittedInv
<1>4. ASSUME NEW t \in Tuples(1)
      PROVE  \/ emitted'[t] = emitted[t]
             \/ t \in Matches /\ emitted[t] = 0 /\ emitted'[t] = 1
  <2>1. CASE k > 1 \/ ~Satisfied(k, List(k)[Taken(k) + 1], loop[k])
    BY <2>1, TakesLoop
  <2>2. CASE k = 1 /\ Satisfied(k, List(k)[Taken(k) + 1], loop[k])
    <3>1. emitted' = [emitted EXCEPT ![Append(loop[k], List(k)[Taken(k) + 1])] = @ + 1]
      BY <2>2, TakesLoop
    <3>2. PICK u : u = Append(loop[k], List(k)[Taken(k) + 1])
      OBVIOUS
    <3>3. emitted' = [emitted EXCEPT ![u] = @ + 1]
      BY <3>1, <3>2
    <3>4. CASE t # u
      BY <1>2, <3>3, <3>4
    <3>5. CASE t = u
      <4>1. emitted'[t] = emitted[t] + 1
        BY <1>2, <3>3, <3>5
      <4>2. QED  BY <1>3, <4>1
    <3>6. QED  BY <3>4, <3>5
  <2>3. k = 1 \/ k > 1
    BY Constants
  <2>4. QED  BY <2>1, <2>2, <2>3
<1>5. DOMAIN emitted = Tuples(1) /\ DOMAIN emitted' = Tuples(1)
  BY <1>2
<1>6. J!Emits
  BY <1>4, <1>5 DEF J!Emits
<1>7. QED  BY <1>1, <1>6 DEF J!Emit, Matches

LEMMA StepImplements == JoinInv /\ [JoinNext]_allvars => [J!Next]_(J!vars)
<1> SUFFICES ASSUME JoinInv, [JoinNext]_allvars PROVE [J!Next]_(J!vars)
  OBVIOUS
<1>1. Matches' = Matches
  BY DEF Matches
<1>2. ASSUME UNCHANGED emitted, stage \notin {"done", "failed"}, stage' \notin {"done", "failed"}
      PROVE  UNCHANGED J!vars
  BY <1>1, <1>2 DEF J!vars
<1>3. ASSUME NEW item \in arriving, Buffer(item) \/ StartSpill(item) \/ PushToRun(item) \/ StreamRow(item)
      PROVE  UNCHANGED J!vars
  BY <1>2, <1>3 DEF Buffer, StartSpill, PushToRun, StreamRow
<1>4. ASSUME SpillBuffered \/ SpillRow \/ Materialized \/ EndOfInput
      PROVE  UNCHANGED J!vars
  BY <1>2, <1>4 DEF SpillBuffered, SpillRow, Materialized, EndOfInput
<1>5. ASSUME NEW k \in Levels, OpenRun(k) \/ EndLoop(k)
      PROVE  UNCHANGED J!vars
  BY <1>2, <1>5 DEF OpenRun, EndLoop, Active, joinvars
<1>6. ASSUME NEW k \in Levels, LoopInMemory(k) \/ LoopInRun(k)
      PROVE  J!Next
  BY <1>6, LoopInMemoryStep, LoopInRunStep, TakesEmits DEF J!Next
<1>7. ASSUME Release
      PROVE  J!Next \/ UNCHANGED J!vars
  <2>1. /\ stage = "unwind" /\ UNCHANGED emitted /\ stage' \in {"unwind", "done"}
        /\ \A t \in Tuples(1) : emitted[t] = IF t \in Matches THEN 1 ELSE 0
    BY <1>7 DEF Release, JoinInv, EmittedInv
  <2>2. CASE stage' = "unwind"
    BY <1>2, <2>1, <2>2
  <2>3. CASE stage' = "done"
    <3>1. \A t \in Matches : emitted[t] = 1
      BY <2>1, MatchesTuples
    <3>2. J!Complete
      BY <1>1, <2>1, <2>3, <3>1 DEF J!Complete
    <3>3. QED  BY <3>2 DEF J!Next
  <2>4. QED  BY <2>1, <2>2, <2>3
<1>8. ASSUME Fail
      PROVE  J!Next
  <2>1. stage \notin {"done", "failed"} /\ stage' = "failed" /\ UNCHANGED emitted
    BY <1>8 DEF Fail
  <2>2. J!Emits
    BY <2>1 DEF J!Emits
  <2>3. J!Fail
    BY <1>1, <2>1, <2>2 DEF J!Fail
  <2>4. QED  BY <2>3 DEF J!Next
<1>9. ASSUME Ended \/ UNCHANGED allvars
      PROVE  UNCHANGED J!vars
  <2>1. UNCHANGED <<stage, emitted>>
    BY <1>9 DEF Ended, allvars, joinvars
  <2>2. QED  BY <1>1, <2>1 DEF J!vars
<1>10. QED
  BY <1>3, <1>4, <1>5, <1>6, <1>7, <1>8, <1>9 DEF JoinNext

(* A tree of joins is one join, for any number of joins, tables,           *)
(* predicates, row sizes and budget: each tuple that satisfies all         *)
(* predicates leaves the topmost join once, though each level spills when  *)
(* its budget says so and the loops read their runs in turns               *)
(* (execute_materialized_join in filter.rs, execute_cross in join.rs).     *)
THEOREM MaterializedJoinImplementsJoin == JoinSpec => ImplementsJoin
<1>1. QED
  BY InitImplements, StepImplements, JoinInvHolds, PTL DEF JoinSpec, ImplementsJoin, J!Spec

=============================================================================
