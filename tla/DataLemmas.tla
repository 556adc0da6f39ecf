----------------------------- MODULE DataLemmas -----------------------------
(***************************************************************************)
(* Lemmas about data that the proofs of several components need: least     *)
(* elements of sets of numbers, sums over finite sets, which the community *)
(* modules define by recursion over the subsets of a set, and the          *)
(* concatenation of a sequence of sequences (at the end).                  *)
(*                                                                         *)
(* The sum of f over S is the cardinality of a set of pairs, Units(f, S);  *)
(* that set gives the recursion its solution, a least counterexample shows *)
(* that there is no other, and what is to be known of sums is then known   *)
(* of cardinalities.                                                       *)
(***************************************************************************)
EXTENDS Integers, FiniteSetsExt, SequencesExt, FiniteSetTheorems, SequenceTheorems,
        WellFoundedInduction, TLAPS

\* A nonempty set of natural numbers has a least element.
LEMMA LeastElement ==
  ASSUME NEW S \in SUBSET Nat, S # {}
  PROVE  \E x \in S : \A y \in S : x <= y
<1>1. \E x \in S : \A y \in S : ~ (<<y, x>> \in OpToRel(<, Nat))
  BY NatLessThanWellFounded, WFMin
<1>2. ASSUME NEW x \in S, NEW y \in S, ~ (<<y, x>> \in OpToRel(<, Nat))
      PROVE  x <= y
  <2>1. <<y, x>> \in Nat \X Nat
    OBVIOUS
  <2>2. ~ (y < x)
    BY <1>2, <2>1 DEF OpToRel
  <2> QED
    BY <2>2
<1> QED
  BY <1>1, <1>2

\* The greatest of a set of numbers, and of a set that has an upper bound.
LEMMA GreatestIs ==
  ASSUME NEW S \in SUBSET Nat, NEW x \in S, \A y \in S : y <= x
  PROVE  Max(S) = x
<1>1. \A y \in S : x >= y
  OBVIOUS
<1>2. ASSUME NEW z \in S, \A y \in S : z >= y PROVE z = x
  BY <1>1, <1>2
<1>3. QED  BY <1>1, <1>2 DEF Max

LEMMA GreatestElement ==
  ASSUME NEW S \in SUBSET Nat, S # {}, NEW bound \in Nat, \A y \in S : y <= bound
  PROVE  Max(S) \in S /\ \A y \in S : y <= Max(S)
<1> DEFINE bounds == {b \in Nat : \A y \in S : y <= b}
<1>1. PICK b \in bounds : \A c \in bounds : b <= c
  BY LeastElement
<1>2. b \in S
  <2> SUFFICES ASSUME b \notin S PROVE FALSE
    OBVIOUS
  <2>1. \A y \in S : y <= b - 1
    BY <1>1
  <2>2. b - 1 \in Nat
    <3>1. PICK y \in S : TRUE
      OBVIOUS
    <3>2. b \in Nat /\ y \in Nat /\ y <= b - 1
      BY <1>1, <2>1
    <3>3. QED  BY <3>2
  <2>3. QED  BY <1>1, <2>1, <2>2
<1>3. Max(S) = b
  BY <1>1, <1>2, GreatestIs
<1>4. QED  BY <1>1, <1>2, <1>3

-----------------------------------------------------------------------------
\* f[x] units for every x of S.
Units(f, S) == {unit \in S \X Nat : unit[2] \in 1 .. f[unit[1]]}

\* The sum of f over S.
SumOver(f, S) == MapThenSumSet(LAMBDA x : f[x], S)

(* One more element brings its units along.                                *)
LEMMA UnitsAdd ==
  ASSUME NEW f, NEW S, NEW x, f[x] \in Nat, x \notin S,
         IsFiniteSet(Units(f, S))
  PROVE  /\ IsFiniteSet(Units(f, S \cup {x}))
         /\ Cardinality(Units(f, S \cup {x})) = f[x] + Cardinality(Units(f, S))
<1> DEFINE new == {x} \X (1 .. f[x])
<1>1. IsFiniteSet({x}) /\ Cardinality({x}) = 1
  BY FS_Singleton
<1>2. IsFiniteSet(1 .. f[x]) /\ Cardinality(1 .. f[x]) = f[x]
  BY SMTT(30), FS_Interval
<1>3. IsFiniteSet(new) /\ Cardinality(new) = f[x]
  <2>1. IsFiniteSet(new) /\ Cardinality(new) = Cardinality({x}) * Cardinality(1 .. f[x])
    BY <1>1, <1>2, FS_Product
  <2>2. QED  BY <1>1, <1>2, <2>1
<1>4. Units(f, S \cup {x}) = Units(f, S) \cup new
  BY DEF Units
<1>5. Units(f, S) \cap new = {}
  BY DEF Units
<1>6. Cardinality({}) = 0
  BY FS_EmptySet
<1>7. Cardinality(Units(f, S)) \in Nat
  BY FS_CardinalityType
<1>8. /\ IsFiniteSet(Units(f, S) \cup new)
      /\ Cardinality(Units(f, S) \cup new)
           = Cardinality(Units(f, S)) + Cardinality(new) - Cardinality(Units(f, S) \cap new)
  BY <1>3, FS_Union
<1>9. Cardinality(Units(f, S) \cup new) = Cardinality(Units(f, S)) + f[x] - 0
  BY <1>3, <1>5, <1>6, <1>8
<1>10. f[x] \in Nat
  OBVIOUS
<1>11. Cardinality(Units(f, S)) + f[x] - 0 = f[x] + Cardinality(Units(f, S))
  BY <1>7, <1>10
<1>12. QED  BY <1>4, <1>8, <1>9, <1>11, Zenon

\* The units of a finite set are finite: their number is a sum.
LEMMA UnitsFinite ==
  ASSUME NEW S, IsFiniteSet(S), NEW f, \A y \in S : f[y] \in Nat
  PROVE  IsFiniteSet(Units(f, S))
<1> DEFINE of(x) == {x} \X (1 .. f[x])
           parts == {of(x) : x \in S}
           g == [x \in S |-> of(x)]
<1>1. g \in Surjection(S, parts)
  BY DEF Surjection
<1>2. IsFiniteSet(parts)
  BY <1>1, FS_Surjection
<1>3. \A x \in S : IsFiniteSet(of(x))
  <2> TAKE x \in S
  <2>1. IsFiniteSet({x})
    BY FS_Singleton
  <2>2. IsFiniteSet(1 .. f[x])
    <3>1. f[x] \in Int
      OBVIOUS
    <3>2. QED  BY <3>1, FS_Interval
  <2>3. QED  BY <2>1, <2>2, FS_Product
<1>4. IsFiniteSet(UNION parts)
  BY <1>2, <1>3, FS_UNION
<1>5. Units(f, S) = UNION parts
  BY DEF Units
<1>6. QED  BY <1>4, <1>5

\* One step of the recursion, and the solution it has.
SumStep(f, pick, S, g) ==
  [s \in SUBSET S |-> IF s = {} THEN 0 ELSE f[pick[s]] + g[s \ {pick[s]}]]

UnitCounts(f, S) == [s \in SUBSET S |-> Cardinality(Units(f, s))]

LEMMA SubsetFacts ==
  ASSUME NEW S, IsFiniteSet(S), NEW f, \A y \in S : f[y] \in Nat, NEW s \in SUBSET S
  PROVE  /\ IsFiniteSet(s) /\ Cardinality(s) \in Nat
         /\ IsFiniteSet(Units(f, s)) /\ Cardinality(Units(f, s)) \in Nat
<1>1. IsFiniteSet(s) /\ Cardinality(s) \in Nat
  BY FS_Subset, FS_CardinalityType
<1>2. Units(f, s) \in SUBSET Units(f, S)
  BY DEF Units
<1>3. IsFiniteSet(Units(f, s))
  BY <1>2, UnitsFinite, FS_Subset
<1>4. QED  BY <1>1, <1>3, FS_CardinalityType

\* An element taken out is counted apart.
LEMMA UnitsRemove ==
  ASSUME NEW S, IsFiniteSet(S), NEW f, \A y \in S : f[y] \in Nat, NEW s \in SUBSET S, NEW x \in s
  PROVE  Cardinality(Units(f, s)) = f[x] + Cardinality(Units(f, s \ {x}))
<1>1. s \ {x} \in SUBSET S /\ x \in S /\ x \notin s \ {x} /\ s = (s \ {x}) \cup {x}
  OBVIOUS
<1>2. IsFiniteSet(Units(f, s \ {x}))
  BY <1>1, SubsetFacts
<1>3. Cardinality(Units(f, (s \ {x}) \cup {x})) = f[x] + Cardinality(Units(f, s \ {x}))
  BY <1>1, <1>2, UnitsAdd
<1>4. QED  BY <1>1, <1>3

LEMMA NoUnits ==
  ASSUME NEW f
  PROVE  Cardinality(Units(f, {})) = 0
<1>1. Units(f, {}) = {}
  BY DEF Units
<1>2. QED  BY <1>1, FS_EmptySet

LEMMA SumExists ==
  ASSUME NEW S, IsFiniteSet(S), NEW f, \A y \in S : f[y] \in Nat, NEW pick,
         \A s \in SUBSET S : s # {} => pick[s] \in s
  PROVE  UnitCounts(f, S) = SumStep(f, pick, S, UnitCounts(f, S))
<1>1. ASSUME NEW s \in SUBSET S
      PROVE  Cardinality(Units(f, s))
               = IF s = {} THEN 0 ELSE f[pick[s]] + UnitCounts(f, S)[s \ {pick[s]}]
  <2>1. CASE s = {}
    BY <2>1, NoUnits
  <2>2. CASE s # {}
    <3>1. pick[s] \in s /\ s \ {pick[s]} \in SUBSET S
      BY <2>2
    <3>2. Cardinality(Units(f, s)) = f[pick[s]] + Cardinality(Units(f, s \ {pick[s]}))
      BY <3>1, UnitsRemove
    <3>3. QED  BY <2>2, <3>1, <3>2 DEF UnitCounts
  <2>3. QED  BY <2>1, <2>2
<1>2. QED  BY <1>1 DEF UnitCounts, SumStep

(* The recursion has no other solution, whichever element pick takes.      *)
LEMMA SumIsUnique ==
  ASSUME NEW S, IsFiniteSet(S), NEW f, \A y \in S : f[y] \in Nat, NEW pick,
         \A s \in SUBSET S : s # {} => pick[s] \in s,
         NEW g, g = SumStep(f, pick, S, g)
  PROVE  \A s \in SUBSET S : g[s] = Cardinality(Units(f, s))
<1> DEFINE wrong == {s \in SUBSET S : g[s] # Cardinality(Units(f, s))}
           sizes == {Cardinality(s) : s \in wrong}
<1> SUFFICES ASSUME wrong # {} PROVE FALSE
  OBVIOUS
<1>1. sizes \in SUBSET Nat /\ sizes # {}
  BY SubsetFacts
<1> HIDE DEF sizes
<1>2. PICK n \in sizes : \A m \in sizes : n <= m
  BY <1>1, LeastElement
<1>3. PICK s \in wrong : n = Cardinality(s)
  BY <1>2 DEF sizes
<1>4. g[s] = IF s = {} THEN 0 ELSE f[pick[s]] + g[s \ {pick[s]}]
  BY <1>3 DEF SumStep
<1>5. s # {}
  BY <1>3, <1>4, NoUnits
<1>6. pick[s] \in s /\ s \ {pick[s]} \in SUBSET S
  BY <1>3, <1>5
<1>7. Cardinality(s \ {pick[s]}) = n - 1 /\ n \in Nat
  <2>1. IsFiniteSet(s) /\ n \in Nat
    BY <1>1, <1>3, SubsetFacts
  <2>2. Cardinality(s \ {pick[s]}) = Cardinality(s) - 1
    BY <1>6, <2>1, FS_RemoveElement
  <2>3. QED  BY <1>3, <2>1, <2>2
<1>8. s \ {pick[s]} \notin wrong
  BY <1>2, <1>7 DEF sizes
<1>9. g[s \ {pick[s]}] = Cardinality(Units(f, s \ {pick[s]}))
  BY <1>6, <1>8
<1>10. Cardinality(Units(f, s)) = f[pick[s]] + Cardinality(Units(f, s \ {pick[s]}))
  BY <1>3, <1>6, UnitsRemove
<1>11. QED  BY <1>3, <1>4, <1>5, <1>9, <1>10

LEMMA SumIsUnits ==
  ASSUME NEW S, IsFiniteSet(S), NEW f, \A y \in S : f[y] \in Nat
  PROVE  SumOver(f, S) = Cardinality(Units(f, S))
<1> DEFINE step(g) ==
      [s \in SUBSET S |-> IF s = {} THEN 0
                          ELSE f[CHOOSE x \in s : TRUE] + g[s \ {CHOOSE x \in s : TRUE}]]
           pick == [s \in SUBSET S |-> CHOOSE x \in s : TRUE]
           iter == CHOOSE g : g = step(g)
<1>1. SumOver(f, S) = iter[S]
  BY DEF SumOver, MapThenSumSet, MapThenFoldSet
<1>2. \A s \in SUBSET S : s # {} => pick[s] \in s
  OBVIOUS
<1>3. ASSUME NEW g PROVE step(g) = SumStep(f, pick, S, g)
  <2>1. \A s \in SUBSET S : pick[s] = CHOOSE x \in s : TRUE
    OBVIOUS
  <2> HIDE DEF pick
  <2>2. QED  BY <2>1 DEF SumStep
<1> HIDE DEF step, pick
<1>4. UnitCounts(f, S) = step(UnitCounts(f, S))
  BY <1>2, <1>3, SumExists
<1>5. iter = step(iter)
  BY <1>4
<1> HIDE DEF iter
<1>6. iter = SumStep(f, pick, S, iter)
  BY <1>3, <1>5
<1>7. iter[S] = Cardinality(Units(f, S))
  BY <1>2, <1>6, SumIsUnique
<1>8. QED  BY <1>1, <1>7

-----------------------------------------------------------------------------
(* Sums.                                                                   *)

LEMMA SumType ==
  ASSUME NEW S, IsFiniteSet(S), NEW f, \A y \in S : f[y] \in Nat
  PROVE  SumOver(f, S) \in Nat
BY SumIsUnits, SubsetFacts

LEMMA SumEmpty ==
  ASSUME NEW f
  PROVE  SumOver(f, {}) = 0
<1>1. SumOver(f, {}) = Cardinality(Units(f, {}))
  BY SumIsUnits, FS_EmptySet
<1>2. QED  BY <1>1, NoUnits

LEMMA SumAdd ==
  ASSUME NEW S, IsFiniteSet(S), NEW f, \A y \in S : f[y] \in Nat,
         NEW x, f[x] \in Nat, x \notin S
  PROVE  SumOver(f, S \cup {x}) = SumOver(f, S) + f[x]
<1>1. IsFiniteSet(S \cup {x}) /\ \A y \in S \cup {x} : f[y] \in Nat
  BY FS_AddElement
<1>2. SumOver(f, S) = Cardinality(Units(f, S))
  BY SumIsUnits
<1>3. SumOver(f, S \cup {x}) = Cardinality(Units(f, S \cup {x}))
  BY <1>1, SumIsUnits
<1>4. IsFiniteSet(Units(f, S)) /\ Cardinality(Units(f, S)) \in Nat
  BY SubsetFacts
<1>5. Cardinality(Units(f, S \cup {x})) = f[x] + Cardinality(Units(f, S))
  BY <1>4, UnitsAdd
<1>6. QED  BY <1>2, <1>3, <1>4, <1>5

\* A row alone.
LEMMA SumOfOne ==
  ASSUME NEW f, NEW x, f[x] \in Nat
  PROVE  SumOver(f, {x}) = f[x]
<1>1. SumOver(f, {} \cup {x}) = SumOver(f, {}) + f[x]
  BY SumAdd, FS_EmptySet
<1>2. {} \cup {x} = {x}
  OBVIOUS
<1>3. QED  BY <1>1, <1>2, SumEmpty

LEMMA SumRemove ==
  ASSUME NEW S, IsFiniteSet(S), NEW f, \A y \in S : f[y] \in Nat, NEW x \in S
  PROVE  SumOver(f, S) = SumOver(f, S \ {x}) + f[x]
<1>1. IsFiniteSet(S \ {x}) /\ x \notin S \ {x} /\ S = (S \ {x}) \cup {x}
  BY FS_RemoveElement
<1>2. SumOver(f, (S \ {x}) \cup {x}) = SumOver(f, S \ {x}) + f[x]
  BY <1>1, SumAdd
<1>3. QED  BY <1>1, <1>2

\* Functions that agree have the same sum.
LEMMA SumCongruence ==
  ASSUME NEW S, IsFiniteSet(S), NEW f, NEW g,
         \A y \in S : f[y] \in Nat /\ g[y] = f[y]
  PROVE  SumOver(g, S) = SumOver(f, S)
<1>1. Units(g, S) = Units(f, S)
  BY DEF Units
<1>2. SumOver(g, S) = Cardinality(Units(g, S)) /\ SumOver(f, S) = Cardinality(Units(f, S))
  BY SumIsUnits
<1>3. QED  BY <1>1, <1>2

\* A sum of which one term changes.
LEMMA SumUpdate ==
  ASSUME NEW S, IsFiniteSet(S), NEW f, \A y \in S : f[y] \in Nat,
         NEW x \in S, NEW g, g[x] \in Nat, \A y \in S \ {x} : g[y] = f[y]
  PROVE  SumOver(g, S) = SumOver(f, S) - f[x] + g[x]
<1>1. IsFiniteSet(S \ {x})
  BY FS_RemoveElement
<1>2. SumOver(f, S) = SumOver(f, S \ {x}) + f[x] /\ SumOver(g, S) = SumOver(g, S \ {x}) + g[x]
  BY SumRemove
<1>3. SumOver(g, S \ {x}) = SumOver(f, S \ {x}) /\ SumOver(f, S \ {x}) \in Nat
  BY <1>1, SumCongruence, SumType
<1>4. QED  BY <1>2, <1>3

\* A part sums to no more than the whole, so no term exceeds the sum.
LEMMA SumOfPart ==
  ASSUME NEW S, IsFiniteSet(S), NEW f, \A y \in S : f[y] \in Nat, NEW T \in SUBSET S
  PROVE  SumOver(f, T) <= SumOver(f, S)
<1>1. IsFiniteSet(T)
  BY FS_Subset
<1>2. SumOver(f, T) = Cardinality(Units(f, T)) /\ SumOver(f, S) = Cardinality(Units(f, S))
  BY <1>1, SumIsUnits
<1>3. Units(f, T) \in SUBSET Units(f, S)
  BY DEF Units
<1>4. QED  BY <1>2, <1>3, UnitsFinite, FS_Subset

\* Terms that are all 0.
LEMMA SumOfZeros ==
  ASSUME NEW S, IsFiniteSet(S), NEW f, \A y \in S : f[y] = 0
  PROVE  SumOver(f, S) = 0
<1>1. Units(f, S) = {}
  BY DEF Units
<1>2. SumOver(f, S) = Cardinality(Units(f, S))
  BY SumIsUnits
<1>3. QED  BY <1>1, <1>2, FS_EmptySet

\* Where e stands among the first n elements.
Places(s, n, e) == {i \in 1 .. n : s[i] = e}

LEMMA PlacesOfNext ==
  ASSUME NEW s, NEW n \in Nat, NEW e
  PROVE  /\ IsFiniteSet(Places(s, n, e)) /\ Cardinality(Places(s, n, e)) \in Nat
         /\ Cardinality(Places(s, n + 1, e))
              = Cardinality(Places(s, n, e)) + (IF s[n + 1] = e THEN 1 ELSE 0)
<1>1. IsFiniteSet(1 .. n)
  BY FS_Interval
<1>2. IsFiniteSet(Places(s, n, e)) /\ Cardinality(Places(s, n, e)) \in Nat
  <2>1. Places(s, n, e) \in SUBSET (1 .. n)
    BY DEF Places
  <2>2. QED  BY <1>1, <2>1, FS_Subset, FS_CardinalityType
<1>3. CASE s[n + 1] = e
  <2>1. Places(s, n + 1, e) = Places(s, n, e) \cup {n + 1} /\ n + 1 \notin Places(s, n, e)
    BY <1>3 DEF Places
  <2>2. QED  BY <1>2, <1>3, <2>1, FS_AddElement
<1>4. CASE s[n + 1] # e
  <2>1. Places(s, n + 1, e) = Places(s, n, e)
    BY <1>4 DEF Places
  <2>2. QED  BY <1>2, <1>4, <2>1
<1>5. QED  BY <1>2, <1>3, <1>4

(* A sequence is as long as its elements occur.                            *)
LEMMA OccurrencesSum ==
  ASSUME NEW U, IsFiniteSet(U), NEW s, NEW m \in Nat, \A i \in 1 .. m : s[i] \in U
  PROVE  SumOver([u \in U |-> Cardinality(Places(s, m, u))], U) = m
<1> DEFINE counts(n) == [u \in U |-> Cardinality(Places(s, n, u))]
           wrong == {n \in 0 .. m : SumOver(counts(n), U) # n}
<1> SUFFICES ASSUME wrong # {} PROVE FALSE
  OBVIOUS
<1>1. wrong \in SUBSET Nat
  OBVIOUS
<1>2. PICK n \in wrong : \A k \in wrong : n <= k
  BY <1>1, LeastElement
<1>3. \A k \in Nat : \A u \in U : counts(k)[u] \in Nat
  BY PlacesOfNext
<1>4. n # 0
  <2>1. \A u \in U : counts(0)[u] = 0
    <3>1. \A u \in U : Places(s, 0, u) = {}
      BY DEF Places
    <3>2. QED  BY <3>1, FS_EmptySet
  <2> HIDE DEF counts
  <2>2. SumOver(counts(0), U) = 0
    BY <2>1, SumOfZeros
  <2>3. QED  BY <1>2, <2>2
<1>5. PICK k \in Nat : n = k + 1
  BY <1>1, <1>2, <1>4
<1>6. SumOver(counts(k), U) = k
  BY <1>2, <1>5
<1>7. n \in 1 .. m /\ s[n] \in U
  BY <1>2, <1>5
<1>8. /\ counts(n)[s[n]] = counts(k)[s[n]] + 1
      /\ \A u \in U \ {s[n]} : counts(n)[u] = counts(k)[u]
  BY <1>5, <1>7, PlacesOfNext
<1>9. SumOver(counts(n), U) # n
  BY <1>2
<1>10. n \in Nat
  BY <1>5
<1> HIDE DEF counts, wrong
<1>11. (counts(n)[s[n]] \in Nat) /\ (counts(k)[s[n]] \in Nat) /\ (\A u \in U : counts(k)[u] \in Nat)
  BY <1>3, <1>7, <1>10
<1>12. SumOver(counts(n), U) = SumOver(counts(k), U) - counts(k)[s[n]] + counts(n)[s[n]]
  BY <1>7, <1>8, <1>11, SumUpdate
<1>13. QED  BY <1>5, <1>6, <1>8, <1>9, <1>11, <1>12

-----------------------------------------------------------------------------
(* Sequences.                                                              *)

LEMMA ToSetOfAppend ==
  ASSUME NEW S, NEW s \in Seq(S), NEW e \in S
  PROVE  ToSet(Append(s, e)) = ToSet(s) \cup {e}
<1>1. /\ Append(s, e) \in Seq(S) /\ Len(Append(s, e)) = Len(s) + 1
      /\ \A i \in 1 .. Len(s) : Append(s, e)[i] = s[i]
      /\ Append(s, e)[Len(s) + 1] = e
  BY AppendProperties
<1>2. /\ Len(s) \in Nat
      /\ DOMAIN s = 1 .. Len(s) /\ DOMAIN Append(s, e) = 1 .. Len(s) + 1
  BY <1>1, LenProperties
<1>3. ToSet(s) = {s[i] : i \in 1 .. Len(s)}
  BY <1>2 DEF ToSet
<1>4. ToSet(Append(s, e)) = {Append(s, e)[i] : i \in 1 .. Len(s) + 1}
  BY <1>2 DEF ToSet
<1>5. 1 .. Len(s) + 1 = (1 .. Len(s)) \cup {Len(s) + 1}
  BY <1>2
<1> QED
  BY <1>1, <1>3, <1>4, <1>5

LEMMA ToSetType ==
  ASSUME NEW S, NEW s \in Seq(S)
  PROVE  /\ ToSet(s) \subseteq S /\ DOMAIN s = 1 .. Len(s) /\ Len(s) \in Nat
         /\ \A i \in 1 .. Len(s) : s[i] \in S /\ s[i] \in ToSet(s)
<1>1. DOMAIN s = 1 .. Len(s) /\ Len(s) \in Nat
  BY LenProperties
<1>2. \A i \in 1 .. Len(s) : s[i] \in S
  BY ElementOfSeq
<1>3. QED  BY <1>1, <1>2 DEF ToSet

LEMMA ToSetOfEmpty == ToSet(<<>>) = {}
BY DEF ToSet

\* The first element and the others.
LEMMA SequenceTail ==
  ASSUME NEW S, NEW s \in Seq(S), s # <<>>
  PROVE  /\ Head(s) = s[1] /\ Len(s) \in Nat /\ 1 \in 1 .. Len(s)
         /\ Tail(s) \in Seq(S) /\ Len(Tail(s)) = Len(s) - 1
         /\ \A i \in 1 .. Len(s) - 1 : Tail(s)[i] = s[i + 1]
         /\ ToSet(s) = {Head(s)} \cup ToSet(Tail(s))
         /\ IsInjective(s) => IsInjective(Tail(s)) /\ Head(s) \notin ToSet(Tail(s))
<1>1. /\ Tail(s) \in Seq(S) /\ Len(Tail(s)) = Len(s) - 1
      /\ \A i \in 1 .. Len(s) - 1 : Tail(s)[i] = s[i + 1]
  BY HeadTailProperties
<1>2. Len(s) \in Nat \ {0}
  BY EmptySeq
<1>3. Head(s) = s[1]
  OBVIOUS
<1>4. DOMAIN s = 1 .. Len(s) /\ DOMAIN Tail(s) = 1 .. Len(s) - 1
  BY <1>1, LenProperties
<1>5. ToSet(s) = {Head(s)} \cup ToSet(Tail(s))
  <2>1. ASSUME NEW i \in 1 .. Len(s), i # 1
        PROVE  s[i] \in ToSet(Tail(s))
    <3>1. i - 1 \in 1 .. Len(s) - 1 /\ i = (i - 1) + 1
      BY <1>2, <2>1
    <3>2. PICK j \in 1 .. Len(s) - 1 : i = j + 1
      BY <3>1
    <3>3. s[i] = Tail(s)[j]
      BY <1>1, <3>2
    <3>4. QED  BY <1>4, <3>3 DEF ToSet
  <2>2. ToSet(s) \subseteq {Head(s)} \cup ToSet(Tail(s))
    BY <1>3, <1>4, <2>1 DEF ToSet
  <2>3. \A i \in 1 .. Len(s) - 1 : i + 1 \in 1 .. Len(s)
    BY <1>2
  <2>4. ToSet(Tail(s)) \subseteq ToSet(s)
    BY <1>1, <1>4, <2>3 DEF ToSet
  <2>5. Head(s) \in ToSet(s)
    BY <1>2, <1>3, <1>4 DEF ToSet
  <2>6. QED  BY <2>2, <2>4, <2>5
<1>6. ASSUME IsInjective(s)
      PROVE  IsInjective(Tail(s)) /\ Head(s) \notin ToSet(Tail(s))
  <2>1. \A i \in 1 .. Len(s), j \in 1 .. Len(s) : s[i] = s[j] => i = j
    BY <1>4, <1>6 DEF IsInjective
  <2>2. \A i \in 1 .. Len(s) - 1 : i + 1 \in 1 .. Len(s) /\ i + 1 # 1 /\ 1 \in 1 .. Len(s)
    BY <1>2
  <2>3. \A i \in 1 .. Len(s) - 1, j \in 1 .. Len(s) - 1 : Tail(s)[i] = Tail(s)[j] => i = j
    <3> TAKE i \in 1 .. Len(s) - 1, j \in 1 .. Len(s) - 1
    <3>1. s[i + 1] = s[j + 1] => i + 1 = j + 1
      BY <2>1, <2>2
    <3>2. QED  BY <1>1, <3>1
  <2>4. IsInjective(Tail(s))
    BY <1>4, <2>3 DEF IsInjective
  <2>5. \A i \in 1 .. Len(s) - 1 : Tail(s)[i] # Head(s)
    BY <1>1, <1>3, <2>1, <2>2
  <2>6. QED  BY <1>4, <2>4, <2>5 DEF ToSet
<1>7. QED  BY <1>1, <1>2, <1>3, <1>5, <1>6

\* A sequence of the elements of a finite set.
LEMMA SetToSeqsAre ==
  ASSUME NEW S, IsFiniteSet(S), NEW s \in SetToSeqs(S)
  PROVE  s \in Seq(S) /\ IsInjective(s) /\ ToSet(s) = S
<1> DEFINE n == Cardinality(S)
<1>1. n \in Nat
  BY FS_CardinalityType
<1>2. s \in [1 .. n -> S] /\ \A i \in 1 .. n, j \in 1 .. n : i # j => s[i] # s[j]
  BY DEF SetToSeqs
<1>3. s \in Injection(1 .. n, S) /\ IsInjective(s)
  BY <1>2 DEF Injection, IsInjective
<1>4. Cardinality(1 .. n) = n
  BY <1>1, FS_Interval
<1>5. s \in Surjection(1 .. n, S)
  BY <1>3, <1>4, FS_Injection
<1>6. ToSet(s) = S
  BY <1>2, <1>5 DEF ToSet, Surjection
<1>7. s \in Seq(S)
  BY <1>1, <1>2
<1>8. QED  BY <1>3, <1>6, <1>7

-----------------------------------------------------------------------------
(* Concatenation of sequences of sequences.                                *)

\* One step of the recursion of FlattenSeq over the first n of parts.
FlattenStep(parts, n, g) == [i \in 1 .. n |-> IF i = 1 THEN parts[i] ELSE g[i - 1] \o parts[i]]

LEMMA FlattenExists ==
  ASSUME NEW parts, NEW m \in Nat
  PROVE  \A n \in 0 .. m : \E g : g = FlattenStep(parts, n, g)
<1> DEFINE solved(n) == \E g : g = FlattenStep(parts, n, g)
           wrong == {n \in 0 .. m : ~solved(n)}
<1> SUFFICES ASSUME wrong # {} PROVE FALSE
  OBVIOUS
<1>1. wrong \in SUBSET Nat
  OBVIOUS
<1> HIDE DEF solved
<1>2. PICK n \in wrong : \A k \in wrong : n <= k
  BY <1>1, LeastElement
<1>3. n \in 0 .. m /\ ~solved(n)
  BY <1>2
<1>4. n # 0
  <2> DEFINE g == [i \in 1 .. 0 |-> <<>>]
  <2>1. g = FlattenStep(parts, 0, g)
    BY DEF FlattenStep
  <2>2. solved(0)
    BY <2>1 DEF solved
  <2>3. QED  BY <1>3, <2>2
<1>5. n - 1 \in 0 .. m /\ n - 1 \notin wrong
  BY <1>2, <1>3, <1>4
<1>6. solved(n - 1)
  BY <1>5
<1>7. PICK g : g = FlattenStep(parts, n - 1, g)
  BY <1>6 DEF solved
<1> DEFINE last == IF n = 1 THEN parts[n] ELSE g[n - 1] \o parts[n]
           h == [i \in 1 .. n |-> IF i = n THEN last ELSE g[i]]
<1>8. ASSUME NEW i \in 1 .. n
      PROVE  h[i] = IF i = 1 THEN parts[i] ELSE h[i - 1] \o parts[i]
  <2>1. CASE i = n
    <3>1. i # 1 => h[i - 1] = g[i - 1]
      BY <1>3, <2>1
    <3>2. h[i] = last
      BY <2>1
    <3>3. QED  BY <2>1, <3>1, <3>2
  <2>2. CASE i # n
    <3>1. i \in 1 .. n - 1 /\ h[i] = g[i] /\ (i # 1 => h[i - 1] = g[i - 1])
      BY <1>3, <2>2
    <3>2. g[i] = IF i = 1 THEN parts[i] ELSE g[i - 1] \o parts[i]
      BY <1>7, <3>1, Zenon DEF FlattenStep
    <3>3. QED  BY <3>1, <3>2
  <2>3. QED  BY <2>1, <2>2
<1>9. h = FlattenStep(parts, n, h)
  BY <1>8 DEF FlattenStep
<1>10. QED  BY <1>3, <1>9 DEF solved

\* g is what the recursion has after each of n parts.
Stages(S, parts, n, g) ==
  \A i \in 1 .. n : /\ g[i] = IF i = 1 THEN parts[i] ELSE g[i - 1] \o parts[i]
                    /\ g[i] \in Seq(S)

LEMMA FlattenStages ==
  ASSUME NEW S, NEW n \in Nat \ {0}, NEW parts, DOMAIN parts = 1 .. n, Len(parts) = n,
         \A i \in 1 .. n : parts[i] \in Seq(S)
  PROVE  \E g : FlattenSeq(parts) = g[n] /\ Stages(S, parts, n, g)
<1> DEFINE step(g) == [i \in 1 .. Len(parts) |-> IF i = 1 THEN parts[i] ELSE g[i - 1] \o parts[i]]
           g == CHOOSE f : f = step(f)
<1>1. FlattenSeq(parts) = g[n]
  BY DEF FlattenSeq
<1>2. \A f : step(f) = FlattenStep(parts, n, f)
  BY DEF FlattenStep
<1>3. \E f : f = FlattenStep(parts, n, f)
  <2>1. n \in Nat /\ n \in 0 .. n
    OBVIOUS
  <2>2. QED  BY <2>1, FlattenExists
<1> HIDE DEF step
<1>4. g = step(g)
  BY <1>2, <1>3
<1> HIDE DEF g
<1>5. g = FlattenStep(parts, n, g)
  BY <1>2, <1>4
<1>6. \A i \in 1 .. n : g[i] = IF i = 1 THEN parts[i] ELSE g[i - 1] \o parts[i]
  BY <1>5, Zenon DEF FlattenStep
<1>7. \A i \in 1 .. n : g[i] \in Seq(S)
  <2> DEFINE wrong == {i \in 1 .. n : g[i] \notin Seq(S)}
  <2> SUFFICES ASSUME wrong # {} PROVE FALSE
    OBVIOUS
  <2>1. PICK i \in wrong : \A k \in wrong : i <= k
    <3>1. wrong \in SUBSET Nat
      OBVIOUS
    <3>2. QED  BY <3>1, LeastElement
  <2>2. i \in 1 .. n /\ g[i] \notin Seq(S) /\ parts[i] \in Seq(S)
    BY <2>1
  <2>3. i # 1
    BY <1>6, <2>2
  <2>4. i - 1 \in 1 .. n /\ i - 1 \notin wrong
    BY <2>1, <2>2, <2>3
  <2>5. g[i - 1] \in Seq(S) /\ g[i] = g[i - 1] \o parts[i]
    BY <1>6, <2>2, <2>3, <2>4
  <2>6. QED  BY <2>2, <2>5, ConcatProperties
<1>8. QED  BY <1>1, <1>6, <1>7 DEF Stages

LEMMA FlattenOfNone ==
  ASSUME NEW f
  PROVE  FlattenSeq([i \in 1 .. 0 |-> f[i]]) = <<>>
<1>1. [i \in 1 .. 0 |-> f[i]] = <<>>
  OBVIOUS
<1>2. QED  BY <1>1, EmptySeq DEF FlattenSeq

LEMMA StagesOf ==
  ASSUME NEW S, NEW n \in Nat \ {0}, NEW f, \A i \in 1 .. n : f[i] \in Seq(S)
  PROVE  \E g : FlattenSeq([i \in 1 .. n |-> f[i]]) = g[n] /\ Stages(S, f, n, g)
<1> DEFINE parts == [i \in 1 .. n |-> f[i]]
<1>1. DOMAIN parts = 1 .. n /\ Len(parts) = n /\ \A i \in 1 .. n : parts[i] = f[i]
  OBVIOUS
<1> HIDE DEF parts
<1>2. \A i \in 1 .. n : parts[i] \in Seq(S)
  BY <1>1
<1>3. PICK g : FlattenSeq(parts) = g[n] /\ Stages(S, parts, n, g)
  BY <1>1, <1>2, FlattenStages
<1>4. Stages(S, f, n, g)
  BY <1>1, <1>3 DEF Stages
<1>5. QED  BY <1>3, <1>4 DEF parts

\* One part more comes last.
LEMMA FlattenNext ==
  ASSUME NEW S, NEW n \in Nat, NEW f, \A i \in 1 .. n + 1 : f[i] \in Seq(S)
  PROVE  /\ FlattenSeq([i \in 1 .. n |-> f[i]]) \in Seq(S)
         /\ FlattenSeq([i \in 1 .. n + 1 |-> f[i]]) = FlattenSeq([i \in 1 .. n |-> f[i]]) \o f[n + 1]
<1> DEFINE m == n + 1
           flat(k) == FlattenSeq([i \in 1 .. k |-> f[i]])
<1>1. m \in Nat \ {0} /\ m - 1 = n /\ m \in 1 .. m /\ \A i \in 1 .. n : i \in 1 .. m
  OBVIOUS
<1>2. \A i \in 1 .. m : f[i] \in Seq(S)
  OBVIOUS
<1> HIDE DEF m
<1>3. PICK g : flat(m) = g[m] /\ Stages(S, f, m, g)
  BY <1>1, <1>2, StagesOf
<1>4. flat(n) \in Seq(S) /\ flat(m) = flat(n) \o f[m]
  <2>1. CASE n = 0
    <3>1. flat(0) = <<>> /\ <<>> \in Seq(S) /\ m = 1
      BY <2>1, FlattenOfNone, EmptySeq DEF m
    <3>2. g[m] = f[m] /\ f[m] \in Seq(S)
      BY <1>1, <1>2, <1>3, <3>1 DEF Stages
    <3> HIDE DEF flat
    <3>3. <<>> \o f[m] = f[m]
      BY <3>2, ConcatEmptySeq
    <3>4. QED  BY <1>3, <2>1, <3>1, <3>2, <3>3
  <2>2. CASE n # 0
    <3>1. \A i \in 1 .. n : f[i] \in Seq(S)
      BY <1>1, <1>2
    <3>2. n \in Nat \ {0} /\ n \in 1 .. n /\ m # 1
      BY <2>2 DEF m
    <3>3. PICK h : flat(n) = h[n] /\ Stages(S, f, n, h)
      BY <3>1, <3>2, StagesOf
    <3> HIDE DEF flat
    <3>4. \A i \in 1 .. n : g[i] = h[i]
      <4> DEFINE wrong == {i \in 1 .. n : g[i] # h[i]}
      <4> SUFFICES ASSUME wrong # {} PROVE FALSE
        OBVIOUS
      <4>1. wrong \in SUBSET Nat
        OBVIOUS
      <4>2. PICK i \in wrong : \A k \in wrong : i <= k
        BY <4>1, LeastElement
      <4>3. i \in 1 .. n /\ i \in 1 .. m /\ g[i] # h[i]
        BY <1>1, <4>2
      <4>4. i # 1
        BY <1>3, <3>3, <4>3 DEF Stages
      <4>5. i - 1 \in 1 .. n /\ ~(i <= i - 1)
        BY <4>3, <4>4
      <4>6. g[i - 1] = h[i - 1]
        BY <4>2, <4>5
      <4>7. QED  BY <1>3, <3>3, <4>3, <4>4, <4>6 DEF Stages
    <3>5. g[m] = g[n] \o f[m]
      BY <1>1, <1>3, <3>2 DEF Stages
    <3>6. QED  BY <1>3, <3>2, <3>3, <3>4, <3>5 DEF Stages
  <2>3. QED  BY <2>1, <2>2
<1>5. QED  BY <1>4 DEF m

LEMMA ConcatThree ==
  ASSUME NEW S, NEW a \in Seq(S), NEW b \in Seq(S), NEW c \in Seq(S),
         NEW ab, ab = a \o b, NEW bc, bc = b \o c
  PROVE  ab \o c = a \o bc
BY SMTT(30), ConcatAssociative

\* The first k parts come before the others.
AreCut(S, k, m, f, a, b, c) ==
  /\ k \in Nat /\ m \in Nat
  /\ \A i \in 1 .. k + m : f[i] \in Seq(S)
  /\ a = [i \in 1 .. k |-> f[i]]
  /\ b = [i \in 1 .. m |-> f[k + i]]
  /\ c = [i \in 1 .. k + m |-> f[i]]

LEMMA FlattenSplit ==
  ASSUME NEW S, NEW k, NEW m, NEW f,
         NEW a, NEW b, NEW c, AreCut(S, k, m, f, a, b, c)
  PROVE  /\ FlattenSeq(a) \in Seq(S) /\ FlattenSeq(b) \in Seq(S)
         /\ FlattenSeq(c) = FlattenSeq(a) \o FlattenSeq(b)
<1> DEFINE others == [i \in 1 .. m |-> f[k + i]]
           first(n) == FlattenSeq([i \in 1 .. n |-> f[i]])
           rest(n) == FlattenSeq([i \in 1 .. n |-> others[i]])
           wrong == {n \in 0 .. m : ~ (rest(n) \in Seq(S) /\ first(k + n) = first(k) \o rest(n))}
<1>0. /\ k \in Nat /\ m \in Nat
      /\ \A i \in 1 .. k + m : f[i] \in Seq(S)
      /\ a = [i \in 1 .. k |-> f[i]]
      /\ b = [i \in 1 .. m |-> f[k + i]]
      /\ c = [i \in 1 .. k + m |-> f[i]]
  BY DEF AreCut
<1> USE <1>0
<1>1. \A i \in 1 .. m : others[i] = f[k + i] /\ others[i] \in Seq(S)
  OBVIOUS
<1>2. ASSUME NEW n \in 0 .. m, n # 0
      PROVE  /\ first(k + n) = first(k + n - 1) \o f[k + n]
             /\ rest(n) = rest(n - 1) \o others[n] /\ rest(n - 1) \in Seq(S)
  <2>1. n - 1 \in Nat /\ k + (n - 1) \in Nat
    BY <1>2
  <2>2. /\ \A i \in 1 .. (n - 1) + 1 : others[i] \in Seq(S)
        /\ \A i \in 1 .. (k + (n - 1)) + 1 : f[i] \in Seq(S)
    BY <1>1, <1>2
  <2>3. /\ (n - 1) + 1 = n /\ (k + (n - 1)) + 1 = k + n /\ k + (n - 1) = k + n - 1
    BY <1>2
  <2> HIDE DEF others
  <2>4. /\ rest(n - 1) \in Seq(S)
        /\ rest((n - 1) + 1) = rest(n - 1) \o others[(n - 1) + 1]
    BY <2>1, <2>2, FlattenNext
  <2>5. first((k + (n - 1)) + 1) = first(k + (n - 1)) \o f[(k + (n - 1)) + 1]
    BY <2>1, <2>2, FlattenNext
  <2> HIDE DEF first, rest
  <2>6. QED  BY <2>3, <2>4, <2>5
<1>3. first(k) \in Seq(S)
  <2>1. CASE m = 0 /\ k = 0
    <3>1. first(0) = <<>>
      BY FlattenOfNone
    <3>2. QED  BY <2>1, <3>1, EmptySeq
  <2>2. CASE m # 0
    <3>1. \A i \in 1 .. k + 1 : f[i] \in Seq(S)
      BY <2>2
    <3>2. QED  BY <3>1, FlattenNext
  <2>3. CASE m = 0 /\ k # 0
    <3>1. k - 1 \in Nat /\ (k - 1) + 1 = k /\ \A i \in 1 .. (k - 1) + 1 : f[i] \in Seq(S)
      BY <2>3
    <3>2. first(k - 1) \in Seq(S) /\ first((k - 1) + 1) = first(k - 1) \o f[(k - 1) + 1]
      BY <3>1, FlattenNext
    <3>3. f[k] \in Seq(S)
      BY <2>3
    <3> HIDE DEF first
    <3>4. first(k) = first(k - 1) \o f[k]
      BY <3>1, <3>2
    <3>5. QED  BY <3>2, <3>3, <3>4, ConcatProperties
  <2>4. QED  BY <2>1, <2>2, <2>3
<1>4. rest(0) = <<>>
  BY FlattenOfNone
<1>5. rest(m) = FlattenSeq([i \in 1 .. m |-> f[k + i]])
  <2>1. [i \in 1 .. m |-> others[i]] = [i \in 1 .. m |-> f[k + i]]
    OBVIOUS
  <2>2. QED  BY <2>1
<1>6. wrong = {}
  <2> SUFFICES ASSUME wrong # {} PROVE FALSE
    OBVIOUS
  <2>1. wrong \in SUBSET Nat
    OBVIOUS
  <2> HIDE DEF first, rest, others
  <2>2. PICK n \in wrong : \A j \in wrong : n <= j
    BY <2>1, LeastElement
  <2>3. n \in 0 .. m /\ ~ (rest(n) \in Seq(S) /\ first(k + n) = first(k) \o rest(n))
    BY <2>2
  <2>4. n # 0
    <3>1. k + 0 = k /\ <<>> \in Seq(S) /\ first(k) \o <<>> = first(k)
      BY <1>3, EmptySeq, ConcatEmptySeq
    <3>2. QED  BY <1>4, <2>3, <3>1
  <2>5. n - 1 \in 0 .. m /\ n - 1 \notin wrong /\ n \in 1 .. m
    <3>1. n - 1 \in 0 .. m /\ n \in 1 .. m /\ ~(n <= n - 1)
      BY <2>3, <2>4
    <3> HIDE DEF wrong
    <3>2. QED  BY <2>2, <3>1
  <2>6. rest(n - 1) \in Seq(S) /\ first(k + (n - 1)) = first(k) \o rest(n - 1)
    BY <2>5
  <2>7. k + (n - 1) = k + n - 1
    BY <2>3
  <2>8. others[n] = f[k + n] /\ others[n] \in Seq(S)
    BY <1>1, <2>5
  <2>9. first(k + n) = first(k + (n - 1)) \o others[n] /\ rest(n) = rest(n - 1) \o others[n]
    BY <1>2, <2>3, <2>4, <2>7, <2>8
  <2>10. rest(n) \in Seq(S)
    BY <2>6, <2>8, <2>9, ConcatProperties
  <2>11. first(k + (n - 1)) \o others[n] = first(k) \o rest(n)
    <3> DEFINE x == first(k)
               y == rest(n - 1)
               z == others[n]
               xy == first(k + (n - 1))
               yz == rest(n)
    <3>1. x \in Seq(S) /\ y \in Seq(S) /\ z \in Seq(S) /\ xy = x \o y /\ yz = y \o z
      BY <1>3, <2>6, <2>8, <2>9
    <3> HIDE DEF x, y, z, xy, yz
    <3>2. xy \o z = x \o yz
      BY ONLY SMTT(30), <3>1, ConcatThree
    <3>3. QED  BY <3>2 DEF x, y, z, xy, yz
  <2>12. QED  BY <2>3, <2>9, <2>10, <2>11
<1>7. rest(m) \in Seq(S) /\ first(k + m) = first(k) \o rest(m)
  <2> HIDE DEF first, rest, others
  <2>1. m \in 0 .. m
    OBVIOUS
  <2>2. QED  BY <1>6, <2>1
<1> HIDE DEF rest
<1>8. QED  BY <1>3, <1>5, <1>7

=============================================================================
