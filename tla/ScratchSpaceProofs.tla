------------------------- MODULE ScratchSpaceProofs -------------------------
(***************************************************************************)
(* Proofs about ScratchSpace: the block bookkeeping is exclusive and loses *)
(* nothing, for every number of runs, chunk size and region start, and the *)
(* scan of the free blocks finds the best stretch of any.                  *)
(***************************************************************************)
EXTENDS ScratchSpace, DataLemmas

-----------------------------------------------------------------------------
(* The choice of a stretch of free blocks, for every finite or infinite    *)
(* set of free blocks and every request.                                   *)

\* A stretch is no longer than asked for.
LEMMA StretchLength ==
  ASSUME NEW F \in SUBSET Nat, NEW s \in Nat, NEW max \in Nat \ {0}
  PROVE  /\ IsFiniteSet(Stretch(F, s, max))
         /\ Cardinality(Stretch(F, s, max)) \in 0 .. max
<1>1. IsFiniteSet(s .. s + max - 1) /\ Cardinality(s .. s + max - 1) = max
  BY FS_Interval
<1>2. ASSUME NEW b \in Stretch(F, s, max)
      PROVE  b \in s .. s + max - 1
  <2>1. b \in Nat /\ s <= b /\ b < s + max
    BY DEF Stretch
  <2> QED
    BY <2>1
<1>3. Stretch(F, s, max) \in SUBSET (s .. s + max - 1)
  BY <1>2
<1>4. /\ IsFiniteSet(Stretch(F, s, max))
      /\ Cardinality(Stretch(F, s, max)) <= max
  BY <1>1, <1>3, FS_Subset
<1> QED
  BY <1>4, FS_CardinalityType

(* If a block is free, some stretch is best: the CHOOSE of                 *)
(* TakeContiguousFreeBlocks has a value.                                   *)
LEMMA BestStartExists ==
  ASSUME NEW F \in SUBSET Nat, F # {}, NEW max \in Nat \ {0}
  PROVE  \E s \in StretchStarts(F) : IsBestStart(F, max, s)
<1> DEFINE len(s) == Cardinality(Stretch(F, s, max))
           shortfalls == {max - len(s) : s \in StretchStarts(F)}
<1>1. StretchStarts(F) \in SUBSET Nat /\ StretchStarts(F) # {}
  <2>1. PICK x \in F : \A y \in F : x <= y
    BY LeastElement
  <2>2. x - 1 \notin F
    BY <2>1
  <2> QED
    BY <2>1, <2>2 DEF StretchStarts
<1>2. \A s \in StretchStarts(F) : len(s) \in 0 .. max
  BY <1>1, StretchLength
<1> HIDE DEF len
<1>3. shortfalls \in SUBSET Nat /\ shortfalls # {}
  BY <1>1, <1>2
<1>4. PICK m \in shortfalls : \A n \in shortfalls : m <= n
  BY <1>3, LeastElement
<1> DEFINE longest == {s \in StretchStarts(F) : max - len(s) = m}
<1>5. longest \in SUBSET Nat /\ longest # {}
  BY <1>1, <1>4
<1>6. PICK s \in longest : \A t \in longest : s <= t
  BY <1>5, LeastElement
<1>7. ASSUME NEW t \in StretchStarts(F)
      PROVE  len(t) < len(s) \/ (len(t) = len(s) /\ s <= t)
  <2>1. m <= max - len(t) /\ m = max - len(s)
    BY <1>4, <1>6
  <2>2. len(t) <= len(s)
    BY <2>1, <1>2, <1>6
  <2>3. len(t) = len(s) => t \in longest
    BY <1>6
  <2> QED
    BY <2>2, <2>3, <1>2, <1>6
<1>8. IsBestStart(F, max, s)
  BY <1>7 DEF IsBestStart, len
<1> QED
  BY <1>6, <1>8

(* take_contiguous_free_blocks returns a nonempty set of consecutive free  *)
(* blocks, at most as many as asked for.                                   *)
LEMMA TakeContiguousIsStretch ==
  ASSUME NEW F \in SUBSET Nat, F # {}, NEW max \in Nat \ {0}
  PROVE  LET T == TakeContiguousFreeBlocks(F, max)
         IN  /\ T \in SUBSET F
             /\ T # {}
             /\ \A a, b \in T : a .. b \subseteq T
             /\ IsFiniteSet(T) /\ Cardinality(T) <= max
<1> DEFINE T == TakeContiguousFreeBlocks(F, max)
<1>1. PICK s \in StretchStarts(F) : T = Stretch(F, s, max)
  BY BestStartExists DEF TakeContiguousFreeBlocks
<1>2. s \in F /\ s \in Nat
  BY <1>1 DEF StretchStarts
<1>3. T \in SUBSET F
  BY <1>1 DEF Stretch
<1>4. s \in T
  <2>1. s .. s \subseteq F
    BY <1>2
  <2> QED
    BY <1>1, <1>2, <2>1 DEF Stretch
<1>5. ASSUME NEW a \in T, NEW b \in T, NEW x \in a .. b
      PROVE  x \in T
  <2>1. /\ a \in Nat /\ b \in Nat
        /\ s <= a /\ b < s + max /\ s .. b \subseteq F
    BY <1>1, <1>2, <1>3 DEF Stretch
  <2>2. x \in Nat /\ s <= x /\ x < s + max /\ x \in s .. b
    BY <2>1, <1>2
  <2>3. s .. x \subseteq F
    BY <2>1, <2>2, <1>2
  <2> QED
    BY <1>1, <2>1, <2>2, <2>3 DEF Stretch
<1>6. IsFiniteSet(T) /\ Cardinality(T) <= max
  BY <1>1, <1>2, StretchLength
<1> QED
  BY <1>3, <1>4, <1>5, <1>6

-----------------------------------------------------------------------------
(* The loop over the free blocks finds the best stretch, for every finite  *)
(* set of free blocks and every request.                                   *)

\* The recursion of AfterLoop, over the blocks below n.
LoopBelow(F, m, n, p) ==
  p = [i \in 0 .. n |-> IF i = 0 THEN BeforeLoop ELSE Continued(p[i - 1], i - 1, F, m)]

LEMMA LoopBelowEach ==
  ASSUME NEW F, NEW m
  PROVE  \A n \in Nat : \E p : LoopBelow(F, m, n, p)
<1> DEFINE solved(n) == \E p : LoopBelow(F, m, n, p)
           wrong == {n \in Nat : ~solved(n)}
<1> SUFFICES ASSUME wrong # {} PROVE FALSE
  OBVIOUS
<1>1. wrong \in SUBSET Nat
  OBVIOUS
<1> HIDE DEF solved
<1>2. PICK n \in wrong : \A k \in wrong : n <= k
  BY <1>1, LeastElement
<1>3. n \in Nat /\ ~solved(n)
  BY <1>2
<1>4. n # 0
  <2> DEFINE p == [i \in 0 .. 0 |-> BeforeLoop]
  <2>1. \A i \in 0 .. 0 : i = 0
    OBVIOUS
  <2>2. p = [i \in 0 .. 0 |-> IF i = 0 THEN BeforeLoop ELSE Continued(p[i - 1], i - 1, F, m)]
    BY <2>1
  <2>3. solved(0)
    BY <2>2 DEF solved, LoopBelow
  <2>4. QED  BY <1>3, <2>3
<1>5. n - 1 \in Nat /\ n - 1 \notin wrong
  BY <1>2, <1>3, <1>4
<1>6. PICK p : LoopBelow(F, m, n - 1, p)
  BY <1>5 DEF solved
<1> DEFINE q == [i \in 0 .. n |-> IF i = n THEN Continued(p[n - 1], n - 1, F, m) ELSE p[i]]
<1>7. ASSUME NEW i \in 0 .. n
      PROVE  q[i] = IF i = 0 THEN BeforeLoop ELSE Continued(q[i - 1], i - 1, F, m)
  <2>1. CASE i = n
    <3>1. q[i - 1] = p[n - 1] /\ q[i] = Continued(p[n - 1], n - 1, F, m)
      BY <1>3, <1>4, <2>1
    <3>2. QED  BY <1>4, <2>1, <3>1
  <2>2. CASE i # n
    <3>1. i \in 0 .. n - 1 /\ q[i] = p[i] /\ (i # 0 => q[i - 1] = p[i - 1])
      BY <1>3, <2>2
    <3>2. p[i] = IF i = 0 THEN BeforeLoop ELSE Continued(p[i - 1], i - 1, F, m)
      BY <1>6, <3>1, Zenon DEF LoopBelow
    <3>3. QED  BY <3>1, <3>2
  <2>3. QED  BY <2>1, <2>2
<1>8. LoopBelow(F, m, n, q)
  BY <1>7 DEF LoopBelow
<1>9. QED  BY <1>3, <1>8 DEF solved

LEMMA LoopIs ==
  ASSUME NEW F, NEW m
  PROVE  \E after : /\ after[0] = BeforeLoop
                    /\ \A n \in Nat : after[n + 1] = Continued(after[n], n, F, m)
                    /\ F # {} => AfterLoop(F, m) = after[Max(F) + 1]
<1> DEFINE below(n) == CHOOSE p : LoopBelow(F, m, n, p)
           each == [n \in Nat |-> below(n)[n]]
           step(f) == [n \in Nat |-> IF n = 0 THEN BeforeLoop ELSE Continued(f[n - 1], n - 1, F, m)]
           after == CHOOSE f : f = step(f)
<1>1. ASSUME NEW n \in Nat
      PROVE  LoopBelow(F, m, n, below(n))
  BY LoopBelowEach
<1> HIDE DEF below
<1>2. ASSUME NEW n \in Nat, NEW i \in 0 .. n
      PROVE  below(n)[i] = IF i = 0 THEN BeforeLoop ELSE Continued(below(n)[i - 1], i - 1, F, m)
  BY <1>1, Zenon DEF LoopBelow
<1>3. ASSUME NEW n \in Nat, NEW i \in 0 .. n
      PROVE  \A k \in 0 .. i : below(n)[k] = below(i)[k]
  <2> DEFINE wrong == {k \in 0 .. i : below(n)[k] # below(i)[k]}
  <2> SUFFICES ASSUME wrong # {} PROVE FALSE
    OBVIOUS
  <2>1. wrong \in SUBSET Nat
    OBVIOUS
  <2>2. PICK k \in wrong : \A j \in wrong : k <= j
    BY <2>1, LeastElement
  <2>3. k \in 0 .. i /\ k \in 0 .. n /\ below(n)[k] # below(i)[k] /\ i \in Nat
    BY <2>2
  <2>4. k # 0
    BY <1>2, <2>3
  <2>5. k - 1 \in 0 .. i /\ k - 1 \notin wrong
    BY <2>2, <2>3, <2>4
  <2>6. below(n)[k - 1] = below(i)[k - 1]
    BY <2>5
  <2>7. QED  BY <1>2, <2>3, <2>4, <2>6
<1>4. ASSUME NEW n \in Nat
      PROVE  each[n] = IF n = 0 THEN BeforeLoop ELSE Continued(each[n - 1], n - 1, F, m)
  <2>1. n \in 0 .. n
    OBVIOUS
  <2>2. below(n)[n] = IF n = 0 THEN BeforeLoop ELSE Continued(below(n)[n - 1], n - 1, F, m)
    BY <1>2, <2>1
  <2>3. n # 0 => n - 1 \in 0 .. n /\ n - 1 \in Nat /\ n - 1 \in 0 .. n - 1
    OBVIOUS
  <2>4. n # 0 => below(n)[n - 1] = below(n - 1)[n - 1]
    BY <1>3, <2>3
  <2>5. QED  BY <2>2, <2>3, <2>4
<1>5. each = step(each)
  BY <1>4
<1>6. after = step(after)
  <2> HIDE DEF each, step
  <2>1. QED  BY <1>5
<1>7. F # {} => AfterLoop(F, m) = after[Max(F) + 1]
  BY Zenon DEF AfterLoop
<1> HIDE DEF after
<1>8. \A n \in Nat : after[n] = IF n = 0 THEN BeforeLoop ELSE Continued(after[n - 1], n - 1, F, m)
  BY <1>6, Zenon
<1>9. after[0] = BeforeLoop /\ \A n \in Nat : after[n + 1] = Continued(after[n], n, F, m)
  <2>1. ASSUME NEW n \in Nat PROVE after[n + 1] = Continued(after[n], n, F, m)
    <3>1. n + 1 \in Nat /\ n + 1 # 0 /\ (n + 1) - 1 = n
      OBVIOUS
    <3>2. QED  BY <1>8, <3>1
  <2>2. QED  BY <1>8, <2>1
<1>10. QED  BY <1>7, <1>9

\* The length of the stretch from t on, no more than m.
LengthAt(F, m, t) == Cardinality(Stretch(F, t, m))

\* Blocks s .. s + n - 1 are the stretch from s on if they are free and there are
\* m of them or the next one is not free.
LEMMA StretchIs ==
  ASSUME NEW F \in SUBSET Nat, NEW m \in Nat \ {0}, NEW s \in Nat, NEW n \in 1 .. m,
         s .. s + n - 1 \subseteq F, n = m \/ s + n \notin F
  PROVE  Stretch(F, s, m) = s .. s + n - 1 /\ LengthAt(F, m, s) = n
<1>1. ASSUME NEW b \in Stretch(F, s, m) PROVE b \in s .. s + n - 1
  <2>1. b \in Nat /\ s <= b /\ b < s + m /\ s .. b \subseteq F
    BY DEF Stretch
  <2>2. CASE n = m
    BY <2>1, <2>2
  <2>3. CASE s + n \notin F
    <3>1. s + n \notin s .. b
      BY <2>1, <2>3
    <3>2. QED  BY <2>1, <3>1
  <2>4. QED  BY <2>2, <2>3
<1>2. ASSUME NEW b \in s .. s + n - 1 PROVE b \in Stretch(F, s, m)
  <2>1. b \in F /\ b \in Nat /\ s <= b /\ b < s + m
    OBVIOUS
  <2>2. s .. b \subseteq s .. s + n - 1
    BY <2>1
  <2>3. QED  BY <2>1, <2>2 DEF Stretch
<1>3. Stretch(F, s, m) = s .. s + n - 1
  BY <1>1, <1>2
<1>4. Cardinality(s .. s + n - 1) = n
  <2>1. \A a, b \in Int : Cardinality(a .. b) = IF a > b THEN 0 ELSE b - a + 1
    BY FS_Interval
  <2>2. QED  BY <2>1
<1>5. QED  BY <1>3, <1>4 DEF LengthAt

ScanState ==
  [best_start : Int, best_len : Nat, current_start : Nat, current_len : Nat,
   previous : Int, left : BOOLEAN]

\* The best of the stretches that start before c, all shorter than m.
BestBefore(F, m, s, c) ==
  \/ s.best_start = None /\ s.best_len = 0 /\ \A t \in StretchStarts(F) : ~(t < c)
  \/ /\ s.best_start \in StretchStarts(F) /\ s.best_start < c
     /\ s.best_len = LengthAt(F, m, s.best_start) /\ s.best_len \in 1 .. m - 1
     /\ \A t \in StretchStarts(F) : t < c =>
          \/ LengthAt(F, m, t) < s.best_len
          \/ LengthAt(F, m, t) = s.best_len /\ s.best_start <= t

\* The stretch the loop is at, which ends in the block visited last.
AtStretch(F, m, s) ==
  /\ s.current_start \in StretchStarts(F)
  /\ s.current_len >= 1 /\ s.current_start + s.current_len - 1 = s.previous
  /\ s.current_start .. s.previous \subseteq F

\* Where the loop is when it is through with the blocks below n.
ScanInv(F, m, n, s) ==
  /\ s \in ScanState
  /\ s.previous = None => s = BeforeLoop /\ \A b \in F : n <= b
  /\ s.previous # None => AtStretch(F, m, s)
  /\ s.previous # None /\ ~s.left =>
       /\ s.previous < n /\ \A b \in F : b < n => b <= s.previous
       /\ s.current_len < m /\ BestBefore(F, m, s, s.current_start)
  /\ s.left =>
       /\ s.previous # None /\ s.current_len = m
       /\ s.best_start = s.current_start /\ s.best_len = m
       /\ \A t \in StretchStarts(F) : t < s.current_start => LengthAt(F, m, t) < m

LEMMA StartsAre ==
  ASSUME NEW F \in SUBSET Nat
  PROVE  \A t \in StretchStarts(F) : t \in Nat /\ t \in F /\ t - 1 \notin F
BY DEF StretchStarts

LEMMA LengthType ==
  ASSUME NEW F \in SUBSET Nat, NEW m \in Nat \ {0}
  PROVE  \A t \in StretchStarts(F) : LengthAt(F, m, t) \in 0 .. m
BY StartsAre, StretchLength DEF LengthAt

\* A stretch that has ended is compared with the best one before it.
LEMMA ComparedBest ==
  ASSUME NEW F \in SUBSET Nat, NEW m \in Nat \ {0}, NEW s \in ScanState, NEW c \in Int,
         s.current_start \in StretchStarts(F), s.current_start < c,
         s.current_len \in 1 .. m - 1, s.current_len = LengthAt(F, m, s.current_start),
         \A t \in StretchStarts(F) : t < c => t <= s.current_start,
         BestBefore(F, m, s, s.current_start)
  PROVE  /\ Compared(s) \in ScanState /\ BestBefore(F, m, Compared(s), c)
         /\ Compared(s).best_len >= s.current_len
         /\ Compared(s).best_start \in StretchStarts(F)
<1> DEFINE q == Compared(s)
<1>1. CASE s.current_len > s.best_len
  <2>1. q = [s EXCEPT !.best_start = s.current_start, !.best_len = s.current_len]
    BY <1>1 DEF Compared
  <2>2. q \in ScanState /\ q.best_start = s.current_start /\ q.best_len = s.current_len
    <3>1. s.current_start \in Int /\ s.current_len \in Nat
      BY DEF ScanState
    <3>2. QED  BY <2>1, <3>1 DEF ScanState
  <2>3. ASSUME NEW t \in StretchStarts(F), t < c
        PROVE  \/ LengthAt(F, m, t) < q.best_len
               \/ LengthAt(F, m, t) = q.best_len /\ q.best_start <= t
    <3>1. t \in Nat /\ s.current_start \in Nat /\ t <= s.current_start
      BY <2>3, StartsAre
    <3>2. CASE t = s.current_start
      BY <2>2, <3>1, <3>2
    <3>3. CASE t < s.current_start
      <4>1. LengthAt(F, m, t) \in 0 .. m /\ s.best_len \in Nat
        BY LengthType DEF ScanState
      <4>2. LengthAt(F, m, t) <= s.best_len
        BY <3>3, <4>1 DEF BestBefore
      <4>3. QED  BY <1>1, <2>2, <4>1, <4>2
    <3>4. QED  BY <3>1, <3>2, <3>3
  <2> HIDE DEF q
  <2>4. BestBefore(F, m, q, c)
    BY <2>2, <2>3 DEF BestBefore
  <2>5. s.current_len \in Int /\ q.best_len >= s.current_len
    BY <2>2
  <2>6. q.best_start \in StretchStarts(F)
    BY <2>2
  <2>7. q \in ScanState
    BY <2>2
  <2>8. QED  BY <2>4, <2>5, <2>6, <2>7 DEF q
<1>2. CASE ~(s.current_len > s.best_len)
  <2>1. q = s
    BY <1>2 DEF Compared
  <2>2. s.best_len \in Nat /\ s.best_len >= s.current_len
    BY <1>2 DEF ScanState
  <2>3. /\ s.best_start \in StretchStarts(F) /\ s.best_start < s.current_start
        /\ s.best_len = LengthAt(F, m, s.best_start) /\ s.best_len \in 1 .. m - 1
        /\ \A t \in StretchStarts(F) : t < s.current_start =>
             \/ LengthAt(F, m, t) < s.best_len
             \/ LengthAt(F, m, t) = s.best_len /\ s.best_start <= t
    BY <2>2 DEF BestBefore
  <2>4. s.best_start \in Nat /\ s.current_start \in Nat
    BY <2>3, StartsAre
  <2>5. ASSUME NEW t \in StretchStarts(F), t < c
        PROVE  \/ LengthAt(F, m, t) < s.best_len
               \/ LengthAt(F, m, t) = s.best_len /\ s.best_start <= t
    <3>1. t \in Nat /\ t <= s.current_start
      BY <2>5, StartsAre
    <3>2. CASE t = s.current_start
      BY <2>2, <2>3, <2>4, <3>2
    <3>3. CASE t < s.current_start
      BY <2>3, <3>3
    <3>4. QED  BY <2>4, <3>1, <3>2, <3>3
  <2>6. s.best_start < c
    BY <2>3, <2>4
  <2>7. BestBefore(F, m, s, c)
    BY <2>3, <2>5, <2>6 DEF BestBefore
  <2>8. QED  BY <2>1, <2>2, <2>3, <2>7
<1>3. QED  BY <1>1, <1>2

\* A block behind a gap, or the first one, starts a stretch.
LEMMA VisitStarts ==
  ASSUME NEW F \in SUBSET Nat, NEW m \in Nat \ {0}, NEW n \in F, NEW c \in ScanState,
         n - 1 \notin F, BestBefore(F, m, c, n), ~c.left, NEW s,
         s = [c EXCEPT !.current_start = n, !.current_len = 1, !.previous = n]
  PROVE  /\ m > 1 => ScanInv(F, m, n + 1, s)
         /\ m = 1 => ScanInv(F, m, n + 1, [s EXCEPT !.best_start = n, !.best_len = 1, !.left = TRUE])
<1>1. /\ s \in ScanState /\ s.current_start = n /\ s.current_len = 1 /\ s.previous = n /\ ~s.left
      /\ s.best_start = c.best_start /\ s.best_len = c.best_len
  <2>1. n \in Nat /\ n \in Int
    OBVIOUS
  <2>2. s \in ScanState
    BY <2>1 DEF ScanState
  <2>3. s.current_start = n /\ s.current_len = 1 /\ s.previous = n
    BY DEF ScanState
  <2>4. s.best_start = c.best_start /\ s.best_len = c.best_len /\ s.left = c.left
    BY DEF ScanState
  <2>5. QED  BY <2>2, <2>3, <2>4
<1>2. n \in Nat /\ n \in StretchStarts(F) /\ n # None
  BY DEF StretchStarts, None
<1>3. \A t \in StretchStarts(F) : t < n => LengthAt(F, m, t) < m
  <2>1. c.best_len \in Nat /\ \A t \in StretchStarts(F) : LengthAt(F, m, t) \in 0 .. m
    BY LengthType DEF ScanState
  <2>2. QED  BY <2>1 DEF BestBefore
<1>4. CASE m > 1
  <2>1. BestBefore(F, m, s, n)
    BY <1>1 DEF BestBefore
  <2>2. AtStretch(F, m, s)
    <3>1. n .. n \subseteq F
      BY <1>2
    <3>2. QED  BY <1>1, <1>2, <3>1 DEF AtStretch
  <2>3. \A b \in F : b < n + 1 => b <= n
    BY <1>2
  <2>4. s.previous < n + 1
    BY <1>1, <1>2
  <2>5. QED  BY <1>1, <1>2, <1>4, <2>1, <2>2, <2>3, <2>4 DEF ScanInv
<1>5. CASE m = 1
  <2> DEFINE q == [s EXCEPT !.best_start = n, !.best_len = 1, !.left = TRUE]
  <2>1. /\ q \in ScanState /\ q.current_start = n /\ q.current_len = 1 /\ q.previous = n
        /\ q.left /\ q.best_start = n /\ q.best_len = 1
    BY <1>1, <1>2 DEF ScanState
  <2> HIDE DEF q
  <2>2. AtStretch(F, m, q)
    <3>1. n .. n \subseteq F
      BY <1>2
    <3>2. QED  BY <1>2, <2>1, <3>1 DEF AtStretch
  <2>3. ScanInv(F, m, n + 1, q)
    BY <1>2, <1>3, <1>5, <2>1, <2>2 DEF ScanInv
  <2>4. QED  BY <1>5, <2>3 DEF q
<1>6. QED  BY <1>4, <1>5

\* What a stretch that has ended leaves of the account of the best one.
LEMMA StretchEnds ==
  ASSUME NEW F \in SUBSET Nat, NEW m \in Nat \ {0}, NEW n \in Nat, NEW s,
         ScanInv(F, m, n, s), s.previous # None, ~s.left, s.previous + 1 \notin F
  PROVE  /\ Compared(s) \in ScanState /\ BestBefore(F, m, Compared(s), n)
         /\ ~Compared(s).left /\ Compared(s).best_len >= s.current_len
         /\ Compared(s).best_start \in StretchStarts(F)
<1>1. /\ s \in ScanState /\ AtStretch(F, m, s) /\ s.previous < n /\ s.current_len < m
      /\ BestBefore(F, m, s, s.current_start) /\ \A b \in F : b < n => b <= s.previous
  BY DEF ScanInv
<1>2. /\ s.current_start \in StretchStarts(F) /\ s.current_start \in Nat
      /\ s.current_len \in 1 .. m - 1 /\ s.previous = s.current_start + s.current_len - 1
      /\ s.current_start .. s.previous \subseteq F
  BY <1>1, StartsAre DEF AtStretch, ScanState
<1>3. s.current_len = LengthAt(F, m, s.current_start)
  <2>1. s.current_len \in 1 .. m /\ s.current_start + s.current_len = s.previous + 1
    BY <1>2
  <2>2. s.current_start .. s.current_start + s.current_len - 1 \subseteq F
    BY <1>2
  <2>3. s.current_start + s.current_len \notin F
    BY <2>1
  <2>4. \A a \in Nat : \A l \in 1 .. m :
          a .. a + l - 1 \subseteq F /\ a + l \notin F => LengthAt(F, m, a) = l
    BY StretchIs
  <2>5. QED  BY <1>2, <2>1, <2>2, <2>3, <2>4
<1>4. ASSUME NEW t \in StretchStarts(F), t < n PROVE t <= s.current_start
  <2>1. t \in Nat /\ t \in F /\ t - 1 \notin F /\ t <= s.previous
    BY <1>1, <1>4, StartsAre
  <2>2. t - 1 \notin s.current_start .. s.previous
    BY <1>2, <2>1
  <2>3. QED  BY <1>2, <2>1, <2>2
<1>5. s.current_start < n
  BY <1>1, <1>2
<1>6. /\ Compared(s) \in ScanState /\ BestBefore(F, m, Compared(s), n)
      /\ Compared(s).best_len >= s.current_len /\ Compared(s).best_start \in StretchStarts(F)
  BY <1>1, <1>2, <1>3, <1>4, <1>5, ComparedBest
<1>7. ~Compared(s).left
  BY <1>1 DEF Compared, ScanState
<1>8. QED  BY <1>6, <1>7

\* The block after the one visited last extends the stretch.
LEMMA VisitExtends ==
  ASSUME NEW F \in SUBSET Nat, NEW m \in Nat \ {0}, NEW n \in F, NEW s,
         ScanInv(F, m, n, s), s.previous # None, ~s.left, n = s.previous + 1
  PROVE  ScanInv(F, m, n + 1, Visit(s, n, m))
<1>1. /\ s \in ScanState /\ AtStretch(F, m, s) /\ s.current_len < m /\ n \in Nat
      /\ BestBefore(F, m, s, s.current_start)
  BY DEF ScanInv
<1>2. /\ s.current_start \in StretchStarts(F) /\ s.current_start \in Nat /\ s.current_len \in Nat
      /\ s.current_start + (s.current_len + 1) - 1 = n /\ s.current_len + 1 >= 1
      /\ s.current_start .. n \subseteq F
  BY <1>1, StartsAre DEF AtStretch, ScanState
<1> DEFINE seen == [[s EXCEPT !.current_len = @ + 1] EXCEPT !.previous = n]
           out  == [seen EXCEPT !.best_start = seen.current_start, !.best_len = seen.current_len,
                                !.left = TRUE]
<1>3. /\ seen \in ScanState /\ seen.current_start = s.current_start
      /\ seen.current_len = s.current_len + 1 /\ seen.previous = n /\ ~seen.left
      /\ seen.best_start = s.best_start /\ seen.best_len = s.best_len
  <2>1. s.current_len + 1 \in Nat /\ n \in Int
    BY <1>1, <1>2
  <2>2. seen \in ScanState
    BY <1>1, <2>1 DEF ScanState
  <2>3. QED  BY <1>1, <2>2 DEF ScanState
<1>4. /\ out \in ScanState /\ out.current_start = s.current_start
      /\ out.current_len = s.current_len + 1 /\ out.previous = n /\ out.left
      /\ out.best_start = s.current_start /\ out.best_len = s.current_len + 1
  <2> HIDE DEF seen
  <2>1. seen.current_start \in Int /\ seen.current_len \in Nat
    BY <1>3 DEF ScanState
  <2>2. out \in ScanState
    BY <1>3, <2>1 DEF ScanState
  <2>3. QED  BY <1>3, <2>2 DEF ScanState
<1>5. Visit(s, n, m) = IF seen.current_len < m THEN seen ELSE out
  BY DEF Visit
<1> HIDE DEF seen, out
<1>6. n # None
  BY <1>1 DEF None
<1>7. CASE seen.current_len < m
  <2>1. AtStretch(F, m, seen)
    BY <1>2, <1>3 DEF AtStretch
  <2>2. BestBefore(F, m, seen, seen.current_start)
    BY <1>1, <1>3 DEF BestBefore
  <2>3. n < n + 1 /\ \A b \in F : b < n + 1 => b <= n
    BY <1>1
  <2>4. ScanInv(F, m, n + 1, seen)
    BY <1>3, <1>6, <1>7, <2>1, <2>2, <2>3 DEF ScanInv
  <2>5. QED  BY <1>5, <1>7, <2>4
<1>8. CASE ~(seen.current_len < m)
  <2>1. s.current_len + 1 = m
    BY <1>1, <1>2, <1>3, <1>8
  <2>2. AtStretch(F, m, out)
    BY <1>2, <1>4 DEF AtStretch
  <2>3. \A t \in StretchStarts(F) : t < s.current_start => LengthAt(F, m, t) < m
    <3>1. s.best_len \in Nat /\ \A t \in StretchStarts(F) : LengthAt(F, m, t) \in 0 .. m
      BY <1>1, LengthType DEF ScanState
    <3>2. QED  BY <1>1, <3>1 DEF BestBefore
  <2>4. ScanInv(F, m, n + 1, out)
    BY <1>4, <1>6, <2>1, <2>2, <2>3 DEF ScanInv
  <2>5. QED  BY <1>5, <1>8, <2>4
<1>9. QED  BY <1>7, <1>8

\* The block is behind a gap, or it is the first one.
LEMMA VisitBreaks ==
  ASSUME NEW F \in SUBSET Nat, NEW m \in Nat \ {0}, NEW n \in F, NEW s,
         ScanInv(F, m, n, s), ~s.left, s.previous = None \/ n # s.previous + 1
  PROVE  ScanInv(F, m, n + 1, Visit(s, n, m))
<1> DEFINE c == Compared(s)
           seen == [[c EXCEPT !.current_start = n, !.current_len = 1] EXCEPT !.previous = n]
           flat == [c EXCEPT !.current_start = n, !.current_len = 1, !.previous = n]
<1>1. c \in ScanState /\ BestBefore(F, m, c, n) /\ ~c.left /\ n - 1 \notin F
  <2>1. CASE s.previous = None
    <3>1. s = BeforeLoop /\ \A b \in F : n <= b
      BY <2>1 DEF ScanInv
    <3>2. c = BeforeLoop
      BY <3>1 DEF Compared, BeforeLoop
    <3>3. c \in ScanState /\ ~c.left
      BY <3>2 DEF BeforeLoop, ScanState, None
    <3>4. \A t \in StretchStarts(F) : ~(t < n)
      BY <3>1, StartsAre
    <3>5. BestBefore(F, m, c, n)
      BY <3>2, <3>4 DEF BestBefore, BeforeLoop
    <3>6. n \in Nat /\ ~(n <= n - 1)
      OBVIOUS
    <3>7. QED  BY <3>1, <3>3, <3>5, <3>6
  <2>2. CASE s.previous # None
    <3>1. /\ s.previous < n /\ n \in Nat /\ s.previous \in Int
          /\ \A b \in F : b < n => b <= s.previous
      BY <2>2 DEF ScanInv, ScanState
    <3>2. n # s.previous + 1
      BY <2>2
    <3>3. s.previous + 1 \notin F /\ n - 1 \notin F
      BY <3>1, <3>2
    <3>4. QED  BY <2>2, <3>1, <3>3, StretchEnds
  <2>3. QED  BY <2>1, <2>2
<1> DEFINE visited(r) == [r EXCEPT !.previous = n]
           judged(r) == IF r.current_len < m THEN r
                        ELSE [r EXCEPT !.best_start = r.current_start,
                                       !.best_len = r.current_len, !.left = TRUE]
<1>2. Visit(s, n, m) = judged(seen)
  <2> DEFINE moved == IF s.previous # None /\ n = s.previous + 1
                      THEN [s EXCEPT !.current_len = @ + 1]
                      ELSE [c EXCEPT !.current_start = n, !.current_len = 1]
  <2>1. Visit(s, n, m) = judged(visited(moved))
    BY Zenon DEF Visit
  <2>2. moved = [c EXCEPT !.current_start = n, !.current_len = 1]
    OBVIOUS
  <2>3. seen = visited([c EXCEPT !.current_start = n, !.current_len = 1])
    OBVIOUS
  <2> HIDE DEF moved, judged, visited, seen
  <2>4. QED  BY <2>1, <2>2, <2>3
<1> HIDE DEF c
<1>3. seen = flat
  BY <1>1 DEF ScanState
<1>4. flat.current_start = n /\ flat.current_len = 1
  BY <1>1 DEF ScanState
<1> HIDE DEF seen, flat
<1>5. Visit(s, n, m) =
        IF 1 < m THEN flat ELSE [flat EXCEPT !.best_start = n, !.best_len = 1, !.left = TRUE]
  BY <1>2, <1>3, <1>4, Zenon
<1>6. /\ m > 1 => ScanInv(F, m, n + 1, flat)
      /\ m = 1 => ScanInv(F, m, n + 1,
                          [flat EXCEPT !.best_start = n, !.best_len = 1, !.left = TRUE])
  <2>1. \A r : r = [c EXCEPT !.current_start = n, !.current_len = 1, !.previous = n] =>
          /\ m > 1 => ScanInv(F, m, n + 1, r)
          /\ m = 1 => ScanInv(F, m, n + 1,
                              [r EXCEPT !.best_start = n, !.best_len = 1, !.left = TRUE])
    BY <1>1, VisitStarts
  <2>2. QED  BY <2>1, Zenon DEF flat
<1>7. m > 1 \/ m = 1
  OBVIOUS
<1>8. CASE m > 1
  <2>1. Visit(s, n, m) = flat
    BY <1>5, <1>8
  <2>2. QED  BY <1>6, <1>8, <2>1
<1>9. CASE m = 1
  <2>1. ~(1 < m)
    BY <1>9
  <2>2. QED  BY <1>5, <1>6, <1>9, <2>1
<1>10. QED  BY <1>7, <1>8, <1>9

\* The loop passes one more block, free or not.
LEMMA ContinuedScan ==
  ASSUME NEW F \in SUBSET Nat, NEW m \in Nat \ {0}, NEW n \in Nat, NEW s, ScanInv(F, m, n, s)
  PROVE  ScanInv(F, m, n + 1, Continued(s, n, F, m))
<1>1. CASE n \in F /\ ~s.left
  <2>1. Continued(s, n, F, m) = Visit(s, n, m)
    BY <1>1 DEF Continued
  <2>2. CASE s.previous # None /\ n = s.previous + 1
    BY <1>1, <2>1, <2>2, VisitExtends
  <2>3. CASE s.previous = None \/ n # s.previous + 1
    BY <1>1, <2>1, <2>3, VisitBreaks
  <2>4. QED  BY <2>2, <2>3
<1>2. CASE ~(n \in F /\ ~s.left)
  <2>1. Continued(s, n, F, m) = s
    BY <1>2 DEF Continued
  <2>2. CASE s.left
    <3>1. s.previous # None
      BY <2>2 DEF ScanInv
    <3>2. QED  BY <2>1, <2>2, <3>1 DEF ScanInv
  <2>3. CASE ~s.left /\ s.previous = None
    <3>1. \A b \in F : n <= b /\ b # n
      BY <1>2, <2>3 DEF ScanInv
    <3>2. \A b \in F : n + 1 <= b
      BY <3>1
    <3>3. QED  BY <2>1, <2>3, <3>2 DEF ScanInv
  <2>4. CASE ~s.left /\ s.previous # None
    <3>1. s.previous < n /\ s.previous \in Int /\ \A b \in F : b < n => b <= s.previous
      BY <2>4 DEF ScanInv, ScanState
    <3>2. s.previous < n + 1 /\ \A b \in F : b < n + 1 => b <= s.previous
      BY <1>2, <2>4, <3>1
    <3>3. QED  BY <2>1, <2>4, <3>2 DEF ScanInv
  <2>5. QED  BY <2>2, <2>3, <2>4
<1>3. QED  BY <1>1, <1>2

\* The loop, whenever it is left, has the account of ScanInv.
LEMMA LoopScans ==
  ASSUME NEW F \in SUBSET Nat, F # {}, NEW m \in Nat \ {0}, NEW bound \in Nat, \A b \in F : b <= bound
  PROVE  \E n \in Nat : (\A b \in F : b < n) /\ ScanInv(F, m, n, AfterLoop(F, m))
<1>1. PICK after : /\ after[0] = BeforeLoop
                   /\ \A n \in Nat : after[n + 1] = Continued(after[n], n, F, m)
                   /\ F # {} => AfterLoop(F, m) = after[Max(F) + 1]
  BY LoopIs
<1>2. \A n \in Nat : ScanInv(F, m, n, after[n])
  <2> DEFINE wrong == {n \in Nat : ~ScanInv(F, m, n, after[n])}
  <2> SUFFICES ASSUME wrong # {} PROVE FALSE
    OBVIOUS
  <2>1. wrong \in SUBSET Nat
    OBVIOUS
  <2>2. PICK n \in wrong : \A k \in wrong : n <= k
    BY <2>1, LeastElement
  <2>3. n \in Nat /\ ~ScanInv(F, m, n, after[n])
    BY <2>2
  <2>4. n # 0
    <3>1. BeforeLoop \in ScanState /\ BeforeLoop.previous = None /\ ~BeforeLoop.left
      BY DEF BeforeLoop, ScanState, None
    <3>2. \A b \in F : 0 <= b
      OBVIOUS
    <3>3. ScanInv(F, m, 0, BeforeLoop)
      BY <3>1, <3>2 DEF ScanInv
    <3>4. QED  BY <1>1, <2>3, <3>3
  <2>5. n - 1 \in Nat /\ n - 1 \notin wrong /\ (n - 1) + 1 = n
    BY <2>2, <2>3, <2>4
  <2>6. ScanInv(F, m, n - 1, after[n - 1])
    BY <2>5
  <2>7. after[n] = Continued(after[n - 1], n - 1, F, m)
    BY <1>1, <2>5
  <2>8. ScanInv(F, m, (n - 1) + 1, Continued(after[n - 1], n - 1, F, m))
    BY <2>5, <2>6, ContinuedScan
  <2>9. QED  BY <2>3, <2>5, <2>7, <2>8
<1>3. Max(F) \in F /\ \A b \in F : b <= Max(F)
  BY GreatestElement
<1>4. Max(F) + 1 \in Nat /\ \A b \in F : b < Max(F) + 1
  <2>1. Max(F) \in Nat /\ \A b \in F : b \in Nat /\ b <= Max(F)
    BY <1>3
  <2>2. QED  BY <2>1
<1>5. ScanInv(F, m, Max(F) + 1, AfterLoop(F, m))
  BY <1>1, <1>2, <1>4
<1>6. QED  BY <1>4, <1>5

\* Only one stretch is best.
LEMMA BestIsChosen ==
  ASSUME NEW F \in SUBSET Nat, NEW m \in Nat \ {0}, NEW s \in StretchStarts(F),
         IsBestStart(F, m, s)
  PROVE  TakeContiguousFreeBlocks(F, m) = Stretch(F, s, m)
<1> DEFINE best == CHOOSE t \in StretchStarts(F) : IsBestStart(F, m, t)
<1>1. best \in StretchStarts(F) /\ IsBestStart(F, m, best)
  OBVIOUS
<1>2. best \in Nat /\ s \in Nat
  BY <1>1, StartsAre
<1>3. LengthAt(F, m, s) \in Nat /\ LengthAt(F, m, best) \in Nat
  BY <1>1, LengthType
<1> HIDE DEF best
<1>4. \A t, u \in StretchStarts(F) : IsBestStart(F, m, t) =>
        \/ LengthAt(F, m, u) < LengthAt(F, m, t)
        \/ LengthAt(F, m, u) = LengthAt(F, m, t) /\ t <= u
  BY Zenon DEF IsBestStart, LengthAt
<1>5. /\ \/ LengthAt(F, m, best) < LengthAt(F, m, s)
         \/ LengthAt(F, m, best) = LengthAt(F, m, s) /\ s <= best
      /\ \/ LengthAt(F, m, s) < LengthAt(F, m, best)
         \/ LengthAt(F, m, s) = LengthAt(F, m, best) /\ best <= s
  <2>1. IsBestStart(F, m, best) /\ best \in StretchStarts(F) /\ IsBestStart(F, m, s)
    BY <1>1
  <2>2. QED  BY <2>1, <1>4
<1>6. best = s
  BY <1>2, <1>3, <1>5
<1>7. QED  BY <1>6 DEF TakeContiguousFreeBlocks, best

\* A stretch shorter than m ends where the next block is not free.
LEMMA WholeStretch ==
  ASSUME NEW F \in SUBSET Nat, NEW m \in Nat \ {0}, NEW s \in Nat, NEW n \in 1 .. m - 1,
         n = LengthAt(F, m, s), s \in F
  PROVE  s .. s + n - 1 \subseteq F /\ s + n \notin F
<1> DEFINE gaps == {k \in 1 .. m : s + k \notin F}
<1>1. s .. s \subseteq F
  OBVIOUS
<1>2. gaps # {}
  <2>1. SUFFICES ASSUME gaps = {} PROVE FALSE
    OBVIOUS
  <2>2. ASSUME NEW b \in s .. s + m - 1 PROVE b \in F
    <3>1. b = s \/ b - s \in 1 .. m
      OBVIOUS
    <3>2. b - s \in 1 .. m => s + (b - s) \in F
      BY <2>1
    <3>3. QED  BY <3>1, <3>2
  <2>3. s .. s + m - 1 \subseteq F
    BY <2>2
  <2>4. ASSUME NEW a \in Nat, a .. a + m - 1 \subseteq F PROVE LengthAt(F, m, a) = m
    <3>1. m \in 1 .. m
      OBVIOUS
    <3>2. QED  BY <2>4, <3>1, StretchIs
  <2>5. LengthAt(F, m, s) = m
    BY <2>3, <2>4
  <2>6. QED  BY <2>5
<1>3. gaps \in SUBSET Nat
  OBVIOUS
<1>4. PICK k \in gaps : \A j \in gaps : k <= j
  BY <1>2, <1>3, LeastElement
<1>5. k \in 1 .. m /\ s + k \notin F
  BY <1>4
<1>6. ASSUME NEW b \in s .. s + k - 1 PROVE b \in F
  <2>1. b = s \/ b - s \in 1 .. k - 1
    BY <1>5
  <2>2. \A j \in 1 .. k - 1 : s + j \in F
    <3>1. ASSUME NEW j \in 1 .. k - 1, s + j \notin F PROVE FALSE
      <4>1. j \in gaps /\ ~(k <= j)
        BY <1>5, <3>1
      <4>2. QED  BY <1>4, <4>1
    <3>2. QED  BY <3>1
  <2>3. b - s \in 1 .. k - 1 => s + (b - s) \in F
    BY <2>2
  <2>4. QED  BY <2>1, <2>3
<1>7. s .. s + k - 1 \subseteq F
  BY <1>6
<1>8. \A a \in Nat : \A l \in 1 .. m :
        a .. a + l - 1 \subseteq F /\ a + l \notin F => LengthAt(F, m, a) = l
  BY StretchIs
<1>9. LengthAt(F, m, s) = k
  BY <1>5, <1>7, <1>8
<1>10. QED  BY <1>5, <1>7, <1>9

(* The blocks the loop finds are those of the definition: the first        *)
(* stretch that is long enough, or else the first of the longest.          *)
LEMMA ScannedIsBestFit ==
  ASSUME NEW F \in SUBSET Nat, F # {}, NEW m \in Nat \ {0}, NEW bound \in Nat, \A b \in F : b <= bound
  PROVE  Scanned(F, m) = TakeContiguousFreeBlocks(F, m)
<1> DEFINE s == AfterLoop(F, m)
           q == Compared(s)
<1>1. PICK n \in Nat : (\A b \in F : b < n) /\ ScanInv(F, m, n, s)
  BY LoopScans
<1>2. s \in ScanState /\ s.previous # None /\ AtStretch(F, m, s)
  <2>1. s.previous # None
    <3>1. ASSUME s.previous = None PROVE FALSE
      <4>1. PICK b \in F : TRUE
        OBVIOUS
      <4>2. b \in Nat /\ n <= b /\ b < n
        BY <1>1, <3>1 DEF ScanInv
      <4>3. QED  BY <4>2
    <3>2. QED  BY <3>1
  <2>2. QED  BY <1>1, <2>1 DEF ScanInv
<1>3. Scanned(F, m) =
        LET count == IF q.best_len < m THEN q.best_len ELSE m
        IN  IF q.best_start = None THEN {} ELSE q.best_start .. q.best_start + count - 1
  BY DEF Scanned
<1> HIDE DEF s
<1>4. ASSUME q.best_start \in StretchStarts(F), q.best_len \in 1 .. m,
             q.best_start .. q.best_start + q.best_len - 1 \subseteq F,
             q.best_len = m \/ q.best_start + q.best_len \notin F,
             IsBestStart(F, m, q.best_start)
      PROVE  Scanned(F, m) = TakeContiguousFreeBlocks(F, m)
  <2> HIDE DEF q
  <2>1. q.best_start \in Nat /\ q.best_start # None
    BY <1>4, StartsAre DEF None
  <2>2. Scanned(F, m) = q.best_start .. q.best_start + q.best_len - 1
    BY <1>3, <1>4, <2>1
  <2>3. \A a \in Nat : \A l \in 1 .. m :
          a .. a + l - 1 \subseteq F /\ (l = m \/ a + l \notin F) => Stretch(F, a, m) = a .. a + l - 1
    BY StretchIs
  <2>4. Stretch(F, q.best_start, m) = q.best_start .. q.best_start + q.best_len - 1
    BY <1>4, <2>1, <2>3
  <2>5. TakeContiguousFreeBlocks(F, m) = Stretch(F, q.best_start, m)
    BY <1>4, BestIsChosen
  <2>6. QED  BY <2>2, <2>4, <2>5
<1>5. CASE s.left
  <2>1. /\ s.current_len = m /\ s.best_start = s.current_start /\ s.best_len = m
        /\ \A t \in StretchStarts(F) : t < s.current_start => LengthAt(F, m, t) < m
    BY <1>1, <1>5 DEF ScanInv
  <2>2. q = s
    BY <2>1 DEF Compared
  <2>3. /\ s.best_start \in StretchStarts(F) /\ s.best_start \in Nat
        /\ s.best_start .. s.best_start + m - 1 \subseteq F
    <3>1. s.previous = s.current_start + m - 1 /\ s.current_start \in Nat
      BY <1>2, <2>1 DEF AtStretch, ScanState
    <3>2. QED  BY <1>2, <2>1, <3>1 DEF AtStretch
  <2>4. LengthAt(F, m, s.best_start) = m
    <3>1. m \in 1 .. m
      OBVIOUS
    <3>2. QED  BY <2>3, <3>1, StretchIs
  <2>5. ASSUME NEW t \in StretchStarts(F)
        PROVE  \/ LengthAt(F, m, t) < LengthAt(F, m, s.best_start)
               \/ LengthAt(F, m, t) = LengthAt(F, m, s.best_start) /\ s.best_start <= t
    <3>1. t \in Nat /\ LengthAt(F, m, t) \in 0 .. m
      BY StartsAre, LengthType
    <3>2. QED  BY <2>1, <2>3, <2>4, <3>1
  <2>6. IsBestStart(F, m, s.best_start)
    BY <2>5 DEF IsBestStart, LengthAt
  <2>7. QED  BY <1>4, <2>1, <2>2, <2>3, <2>6
<1>6. CASE ~s.left
  <2>1. s.previous + 1 \notin F
    <3>1. s.previous \in Int /\ \A b \in F : b < n => b <= s.previous
      BY <1>1, <1>2, <1>6 DEF ScanInv, ScanState
    <3>2. QED  BY <1>1, <3>1
  <2>2. /\ q \in ScanState /\ BestBefore(F, m, q, n) /\ q.best_len >= s.current_len
        /\ q.best_start \in StretchStarts(F)
    BY <1>1, <1>2, <1>6, <2>1, StretchEnds
  <2> HIDE DEF q
  <2>3. q.best_start \in Nat /\ q.best_start # None
    BY <2>2, StartsAre DEF None
  <2>4. /\ q.best_len = LengthAt(F, m, q.best_start) /\ q.best_len \in 1 .. m - 1
        /\ \A t \in StretchStarts(F) : t < n =>
             \/ LengthAt(F, m, t) < q.best_len
             \/ LengthAt(F, m, t) = q.best_len /\ q.best_start <= t
    BY <2>2, <2>3 DEF BestBefore
  <2>5. \A t \in StretchStarts(F) : t < n
    BY <1>1, StartsAre
  <2>6. IsBestStart(F, m, q.best_start)
    BY <2>4, <2>5 DEF IsBestStart, LengthAt
  <2>7. /\ q.best_start .. q.best_start + q.best_len - 1 \subseteq F
        /\ q.best_start + q.best_len \notin F
    <3>1. q.best_start \in F
      BY <2>2, StartsAre
    <3>2. QED  BY <2>3, <2>4, <3>1, WholeStretch
  <2>8. QED  BY <1>4, <2>2, <2>4, <2>6, <2>7
<1>7. QED  BY <1>5, <1>6

-----------------------------------------------------------------------------
(* The inductive invariant.                                                *)

IInv ==
  /\ TypeOK
  /\ ExclusiveBlocks
  /\ NoBlockLost
  /\ ReservedConsecutive
  /\ UnusedOwnsNothing

LEMMA InitIInv == Init => IInv
<1> SUFFICES ASSUME Init PROVE IInv
  OBVIOUS
<1> USE ScratchSpaceAssumption DEF Init, OwnedBy, Allocated
<1>1. TypeOK
  BY DEF TypeOK
<1>2. ExclusiveBlocks
  BY DEF ExclusiveBlocks
<1>3. NoBlockLost
  BY DEF NoBlockLost
<1>4. ReservedConsecutive /\ UnusedOwnsNothing
  BY DEF ReservedConsecutive, UnusedOwnsNothing
<1> QED
  BY <1>1, <1>2, <1>3, <1>4 DEF IInv

(* Blocks W may be handed to run r, which leaves the blocks F free and the *)
(* region ending before N: W is consecutive and nonempty, contains what r  *)
(* had reserved, nobody else has a block of it, and nothing else moves.    *)
Supply(r, W, F, N) ==
  /\ N \in Nat /\ next_block <= N
  /\ W \subseteq AnonStart .. N - 1
  /\ W # {}
  /\ \A a, b \in W : a .. b \subseteq W
  /\ reserved[r] \subseteq W
  /\ F \subseteq free_blocks
  /\ W \cap F = {}
  /\ W \cap leaked = {}
  /\ \A q \in Runs : W \cap held[q] = {}
  /\ \A q \in Runs \ {r} : W \cap reserved[q] = {}
  /\ \A b \in AnonStart .. N - 1 :
       b \in W \/ b \in F \/ (b \in Allocated /\ b \notin free_blocks)

(* What a writer draws its next block from, whether the rest of its chunk, *)
(* a stretch of free blocks or a fresh chunk, may be handed to it.         *)
LEMMA WriterBlocksSupply ==
  ASSUME IInv, NEW r \in Runs
  PROVE  Supply(r, WriterBlocks(r), FreeAfterReserve(r), NextAfterReserve(r))
<1> USE ScratchSpaceAssumption
<1>0. next_block \in Nat /\ AnonStart <= next_block /\ AnonStart \in Nat
  BY DEF IInv, TypeOK
<1>1. CASE reserved[r] # {}
  <2>1. /\ WriterBlocks(r) = reserved[r]
        /\ FreeAfterReserve(r) = free_blocks
        /\ NextAfterReserve(r) = next_block
    BY <1>1 DEF WriterBlocks, FreeAfterReserve, NextAfterReserve
  <2>2. \A a, b \in reserved[r] : a .. b \subseteq reserved[r]
    BY DEF IInv, ReservedConsecutive
  <2>3. reserved[r] \subseteq Allocated
    BY DEF IInv, TypeOK
  <2>4. reserved[r] \cap free_blocks = {} /\ reserved[r] \cap leaked = {}
    BY DEF IInv, ExclusiveBlocks, OwnedBy
  <2>5. \A q \in Runs : reserved[r] \cap held[q] = {}
    BY DEF IInv, ExclusiveBlocks, OwnedBy
  <2>6. \A q \in Runs \ {r} : reserved[r] \cap reserved[q] = {}
    BY DEF IInv, ExclusiveBlocks, OwnedBy
  <2>7. Supply(r, reserved[r], free_blocks, next_block)
    BY <1>0, <1>1, <2>2, <2>3, <2>4, <2>5, <2>6 DEF Supply, Allocated
  <2> QED
    BY <2>1, <2>7
<1>2. CASE reserved[r] = {} /\ free_blocks # {}
  <2> DEFINE T == TakeContiguousFreeBlocks(free_blocks, Chunk)
  <2>1. free_blocks \in SUBSET Nat
    BY <1>0 DEF IInv, TypeOK, Allocated
  <2>2. T \in SUBSET free_blocks /\ T # {} /\ \A a, b \in T : a .. b \subseteq T
    BY <1>2, <2>1, TakeContiguousIsStretch
  <2>3. /\ WriterBlocks(r) = T
        /\ FreeAfterReserve(r) = free_blocks \ T
        /\ NextAfterReserve(r) = next_block
    BY <1>2 DEF WriterBlocks, FreeAfterReserve, NextAfterReserve, ReservedChunk
  <2> HIDE DEF T
  <2>4. T \subseteq Allocated
    BY <2>2 DEF IInv, TypeOK
  <2>5. T \cap leaked = {} /\ \A q \in Runs : T \cap held[q] = {} /\ T \cap reserved[q] = {}
    BY <2>2 DEF IInv, ExclusiveBlocks, OwnedBy
  <2>6. Supply(r, T, free_blocks \ T, next_block)
    BY <1>0, <1>2, <2>2, <2>4, <2>5 DEF Supply, Allocated
  <2> QED
    BY <2>3, <2>6
<1>3. CASE reserved[r] = {} /\ free_blocks = {}
  <2> DEFINE T == next_block .. next_block + Chunk - 1
  <2>1. /\ WriterBlocks(r) = T
        /\ FreeAfterReserve(r) = {}
        /\ NextAfterReserve(r) = next_block + Chunk
    BY <1>3 DEF WriterBlocks, FreeAfterReserve, NextAfterReserve, ReservedChunk
  <2>2. next_block + Chunk \in Nat /\ next_block <= next_block + Chunk
    BY <1>0
  <2>3. \A b \in T : b \notin Allocated
    BY <1>0 DEF Allocated
  <2>4. next_block \in T
    BY <1>0
  <2>5. \A a, b \in T : a .. b \subseteq T
    BY <1>0
  <2>6. T \subseteq AnonStart .. next_block + Chunk - 1
    BY <1>0
  <2>7. \A b \in AnonStart .. next_block + Chunk - 1 : b \in Allocated \/ b \in T
    BY <1>0 DEF Allocated
  <2> HIDE DEF T
  <2>8. T \cap leaked = {} /\ \A q \in Runs : T \cap held[q] = {} /\ T \cap reserved[q] = {}
    BY <2>3 DEF IInv, TypeOK
  <2>9. Supply(r, T, {}, next_block + Chunk)
    BY <1>3, <2>2, <2>4, <2>5, <2>6, <2>7, <2>8 DEF Supply
  <2> QED
    BY <2>1, <2>9
<1> QED
  BY <1>1, <1>2, <1>3

-----------------------------------------------------------------------------
(* Every step preserves the invariant: one lemma per action.               *)

LEMMA OpenWriterStep ==
  ASSUME IInv, NEW r \in Runs, OpenWriter(r)
  PROVE  IInv'
BY DEF OpenWriter, IInv, TypeOK, ExclusiveBlocks, NoBlockLost, ReservedConsecutive,
       UnusedOwnsNothing, OwnedBy, Allocated

LEMMA FlushBlockStep ==
  ASSUME IInv, NEW r \in Runs, FlushBlock(r)
  PROVE  IInv'
<1> DEFINE W == WriterBlocks(r)
           F == FreeAfterReserve(r)
           N == NextAfterReserve(r)
<1>1. Supply(r, W, F, N)
  BY WriterBlocksSupply
<1>2. PICK id \in W :
        /\ \A b \in W : id <= b
        /\ reserved' = [reserved EXCEPT ![r] = W \ {id}]
        /\ held' = [held EXCEPT ![r] = @ \cup {id}]
  BY DEF FlushBlock
<1>3. /\ phase[r] = "writing"
      /\ free_blocks' = F /\ next_block' = N
      /\ phase' = phase /\ leaked' = leaked
  BY DEF FlushBlock
<1> HIDE DEF W, F, N
<1>4. /\ next_block \in Nat /\ AnonStart \in Nat /\ AnonStart <= next_block
      /\ Allocated \subseteq Allocated'
  BY <1>1, <1>3, ScratchSpaceAssumption DEF IInv, TypeOK, Allocated, Supply
<1>5. /\ reserved \in [Runs -> SUBSET Allocated]
      /\ held \in [Runs -> SUBSET Allocated]
  BY DEF IInv, TypeOK
<1>6. /\ reserved'[r] = W \ {id} /\ held'[r] = held[r] \cup {id}
      /\ \A q \in Runs \ {r} : reserved'[q] = reserved[q] /\ held'[q] = held[q]
  BY <1>2, <1>5
<1>7. TypeOK'
  <2>1. next_block' \in Nat /\ AnonStart <= next_block'
    BY <1>1, <1>3, <1>4 DEF Supply
  <2>2. W \subseteq Allocated'
    BY <1>1, <1>3 DEF Supply, Allocated
  <2>3. free_blocks' \in SUBSET Allocated' /\ leaked' \in SUBSET Allocated'
    BY <1>1, <1>3, <1>4 DEF IInv, TypeOK, Supply
  <2>4. reserved' \in [Runs -> SUBSET Allocated']
    BY <1>2, <1>4, <1>5, <2>2
  <2>5. held' \in [Runs -> SUBSET Allocated']
    BY <1>2, <1>4, <1>5, <2>2
  <2> QED
    BY <1>3, <2>1, <2>3, <2>4, <2>5 DEF IInv, TypeOK
<1>8. ExclusiveBlocks'
  <2>1. ASSUME NEW p \in Runs, NEW q \in Runs, p # q
        PROVE  OwnedBy(p)' \cap OwnedBy(q)' = {}
    <3>1. OwnedBy(r)' = W \cup held[r]
      BY <1>2, <1>6 DEF OwnedBy
    <3>2. \A t \in Runs \ {r} : OwnedBy(t)' = OwnedBy(t)
      BY <1>6 DEF OwnedBy
    <3>3. \A t \in Runs \ {r} : (W \cup held[r]) \cap OwnedBy(t) = {}
      BY <1>1 DEF IInv, ExclusiveBlocks, OwnedBy, Supply
    <3> QED
      BY <2>1, <3>1, <3>2, <3>3 DEF IInv, ExclusiveBlocks
  <2>2. ASSUME NEW p \in Runs
        PROVE  /\ reserved'[p] \cap held'[p] = {}
               /\ OwnedBy(p)' \cap (free_blocks' \cup leaked') = {}
    <3>1. CASE p = r
      BY <1>1, <1>2, <1>3, <1>6, <3>1 DEF IInv, ExclusiveBlocks, OwnedBy, Supply
    <3>2. CASE p # r
      BY <1>1, <1>3, <1>6, <3>2 DEF IInv, ExclusiveBlocks, OwnedBy, Supply
    <3> QED
      BY <3>1, <3>2
  <2>3. free_blocks' \cap leaked' = {}
    BY <1>1, <1>3 DEF IInv, ExclusiveBlocks, Supply
  <2> QED
    BY <2>1, <2>2, <2>3 DEF ExclusiveBlocks
<1>9. NoBlockLost'
  <2> SUFFICES ASSUME NEW b \in Allocated'
               PROVE  \/ b \in free_blocks' \cup leaked'
                      \/ \E q \in Runs : b \in OwnedBy(q)'
    BY DEF NoBlockLost
  <2>1. b \in W \/ b \in F \/ (b \in Allocated /\ b \notin free_blocks)
    BY <1>1, <1>3 DEF Supply, Allocated
  <2>2. CASE b \in W
    BY <1>6, <2>2 DEF OwnedBy
  <2>3. CASE b \in F
    BY <1>3, <2>3
  <2>4. CASE b \in Allocated /\ b \notin free_blocks /\ b \notin W
    <3>1. b \in leaked \/ \E q \in Runs : b \in OwnedBy(q)
      BY <2>4 DEF IInv, NoBlockLost
    <3>2. b \notin reserved[r]
      BY <1>1, <2>4 DEF Supply
    <3> QED
      BY <1>3, <1>6, <3>1, <3>2 DEF OwnedBy
  <2> QED
    BY <2>1, <2>2, <2>3, <2>4
<1>10. ReservedConsecutive'
  <2> SUFFICES ASSUME NEW p \in Runs, NEW a \in reserved'[p], NEW b \in reserved'[p]
               PROVE  a .. b \subseteq reserved'[p]
    BY DEF ReservedConsecutive
  <2>1. CASE p = r
    <3>1. a \in W /\ a # id /\ b \in W
      BY <1>6, <2>1
    <3>2. a .. b \subseteq W /\ W \subseteq AnonStart .. N - 1 /\ N \in Nat
      BY <1>1, <3>1 DEF Supply
    <3>3. id \in Nat /\ a \in Nat /\ b \in Nat /\ id < a
      BY <1>2, <1>4, <3>1, <3>2
    <3>4. id \notin a .. b
      BY <3>3
    <3> QED
      BY <1>6, <2>1, <3>2, <3>4
  <2>2. CASE p # r
    BY <1>6, <2>2 DEF IInv, ReservedConsecutive
  <2> QED
    BY <2>1, <2>2
<1>11. UnusedOwnsNothing'
  BY <1>3, <1>6 DEF IInv, UnusedOwnsNothing
<1> QED
  BY <1>7, <1>8, <1>9, <1>10, <1>11 DEF IInv

LEMMA FinishStep ==
  ASSUME IInv, NEW r \in Runs, Finish(r)
  PROVE  IInv'
<1> USE DEF Finish
<1>1. /\ reserved'[r] = {} /\ Allocated' = Allocated
      /\ \A q \in Runs \ {r} : reserved'[q] = reserved[q]
      /\ held' = held /\ leaked' = leaked
  BY DEF IInv, TypeOK, Allocated
<1>2. TypeOK'
  BY <1>1 DEF IInv, TypeOK
<1>3. ExclusiveBlocks'
  <2>1. \A q \in Runs : OwnedBy(q)' \subseteq OwnedBy(q)
    BY <1>1 DEF OwnedBy
  <2>2. \A q \in Runs : OwnedBy(q)' \cap reserved[r] = {}
    BY <1>1 DEF IInv, ExclusiveBlocks, OwnedBy
  <2>3. reserved[r] \cap leaked = {}
    BY DEF IInv, ExclusiveBlocks, OwnedBy
  <2> QED
    BY <1>1, <2>1, <2>2, <2>3 DEF IInv, ExclusiveBlocks
<1>4. NoBlockLost'
  BY <1>1 DEF IInv, NoBlockLost, OwnedBy
<1>5. ReservedConsecutive'
  BY <1>1 DEF IInv, ReservedConsecutive
<1>6. UnusedOwnsNothing'
  BY <1>1 DEF IInv, TypeOK, UnusedOwnsNothing
<1> QED
  BY <1>2, <1>3, <1>4, <1>5, <1>6 DEF IInv

LEMMA FlushAndFinishStep ==
  ASSUME IInv, NEW r \in Runs, FlushAndFinish(r)
  PROVE  IInv'
<1> DEFINE W == WriterBlocks(r)
           F == FreeAfterReserve(r)
           N == NextAfterReserve(r)
<1>1. Supply(r, W, F, N)
  BY WriterBlocksSupply
<1>2. PICK id \in W :
        /\ held' = [held EXCEPT ![r] = @ \cup {id}]
        /\ free_blocks' = F \cup (W \ {id})
  BY DEF FlushAndFinish
<1>3. /\ next_block' = N /\ leaked' = leaked
      /\ phase' = [phase EXCEPT ![r] = "sealed"]
      /\ reserved' = [reserved EXCEPT ![r] = {}]
  BY DEF FlushAndFinish
<1> HIDE DEF W, F, N
<1>4. /\ next_block' \in Nat /\ AnonStart <= next_block'
      /\ Allocated \subseteq Allocated' /\ W \subseteq Allocated'
  BY <1>1, <1>3, ScratchSpaceAssumption DEF IInv, TypeOK, Allocated, Supply
<1>5. /\ reserved'[r] = {} /\ held'[r] = held[r] \cup {id}
      /\ \A q \in Runs \ {r} : reserved'[q] = reserved[q] /\ held'[q] = held[q]
  BY <1>2, <1>3 DEF IInv, TypeOK
<1>6. TypeOK'
  <2>1. free_blocks' \in SUBSET Allocated' /\ leaked' \in SUBSET Allocated'
    BY <1>1, <1>2, <1>3, <1>4 DEF IInv, TypeOK, Supply
  <2>2. reserved' \in [Runs -> SUBSET Allocated']
    BY <1>3, <1>4 DEF IInv, TypeOK
  <2>3. held' \in [Runs -> SUBSET Allocated']
    BY <1>2, <1>4 DEF IInv, TypeOK
  <2>4. phase' \in [Runs -> {"unused", "writing", "sealed"}]
    BY <1>3 DEF IInv, TypeOK
  <2> QED
    BY <1>4, <2>1, <2>2, <2>3, <2>4 DEF TypeOK
<1>7. ExclusiveBlocks'
  <2>1. OwnedBy(r)' = {id} \cup held[r]
    BY <1>5 DEF OwnedBy
  <2>2. \A t \in Runs \ {r} : OwnedBy(t)' = OwnedBy(t) /\ OwnedBy(t) \cap W = {}
    BY <1>1, <1>5 DEF OwnedBy, Supply
  <2>3. ASSUME NEW p \in Runs, NEW q \in Runs, p # q
        PROVE  OwnedBy(p)' \cap OwnedBy(q)' = {}
    BY <1>2, <2>1, <2>2, <2>3 DEF IInv, ExclusiveBlocks, OwnedBy
  <2>4. ASSUME NEW p \in Runs
        PROVE  /\ reserved'[p] \cap held'[p] = {}
               /\ OwnedBy(p)' \cap (free_blocks' \cup leaked') = {}
    <3>1. CASE p = r
      BY <1>1, <1>2, <1>3, <1>5, <2>1, <3>1 DEF IInv, ExclusiveBlocks, OwnedBy, Supply
    <3>2. CASE p # r
      BY <1>1, <1>2, <1>3, <1>5, <2>2, <3>2 DEF IInv, ExclusiveBlocks, Supply
    <3> QED
      BY <3>1, <3>2
  <2>5. free_blocks' \cap leaked' = {}
    BY <1>1, <1>2, <1>3 DEF IInv, ExclusiveBlocks, Supply
  <2> QED
    BY <2>3, <2>4, <2>5 DEF ExclusiveBlocks
<1>8. NoBlockLost'
  <2> SUFFICES ASSUME NEW b \in Allocated'
               PROVE  \/ b \in free_blocks' \cup leaked'
                      \/ \E q \in Runs : b \in OwnedBy(q)'
    BY DEF NoBlockLost
  <2>1. b \in W \/ b \in F \/ (b \in Allocated /\ b \notin free_blocks)
    BY <1>1, <1>3 DEF Supply, Allocated
  <2>2. CASE b \in W \/ b \in F
    BY <1>2, <1>5, <2>2 DEF OwnedBy
  <2>3. CASE b \in Allocated /\ b \notin free_blocks /\ b \notin W
    <3>1. b \in leaked \/ \E q \in Runs : b \in OwnedBy(q)
      BY <2>3 DEF IInv, NoBlockLost
    <3>2. b \notin reserved[r]
      BY <1>1, <2>3 DEF Supply
    <3> QED
      BY <1>3, <1>5, <3>1, <3>2 DEF OwnedBy
  <2> QED
    BY <2>1, <2>2, <2>3
<1>9. ReservedConsecutive'
  BY <1>5 DEF IInv, ReservedConsecutive
<1>10. UnusedOwnsNothing'
  BY <1>3, <1>5 DEF IInv, TypeOK, UnusedOwnsNothing
<1> QED
  BY <1>6, <1>7, <1>8, <1>9, <1>10 DEF IInv

LEMMA ReleaseRunStep ==
  ASSUME IInv, NEW r \in Runs, ReleaseRun(r)
  PROVE  IInv'
<1> USE DEF ReleaseRun
<1>1. /\ held'[r] = {} /\ Allocated' = Allocated
      /\ \A q \in Runs \ {r} : held'[q] = held[q]
      /\ reserved' = reserved /\ leaked' = leaked
  BY DEF IInv, TypeOK, Allocated
<1>2. TypeOK'
  BY <1>1 DEF IInv, TypeOK
<1>3. ExclusiveBlocks'
  <2>1. \A q \in Runs : OwnedBy(q)' \subseteq OwnedBy(q)
    BY <1>1 DEF OwnedBy
  <2>2. \A q \in Runs : OwnedBy(q)' \cap held[r] = {}
    BY <1>1 DEF IInv, ExclusiveBlocks, OwnedBy
  <2>3. held[r] \cap leaked = {}
    BY DEF IInv, ExclusiveBlocks, OwnedBy
  <2> QED
    BY <1>1, <2>1, <2>2, <2>3 DEF IInv, ExclusiveBlocks
<1>4. NoBlockLost'
  BY <1>1 DEF IInv, NoBlockLost, OwnedBy
<1>5. ReservedConsecutive' /\ UnusedOwnsNothing'
  BY <1>1 DEF IInv, TypeOK, ReservedConsecutive, UnusedOwnsNothing
<1> QED
  BY <1>2, <1>3, <1>4, <1>5 DEF IInv

LEMMA AbandonStep ==
  ASSUME IInv, NEW r \in Runs, Abandon(r)
  PROVE  IInv'
<1> USE DEF Abandon
<1>1. /\ held'[r] = {} /\ reserved'[r] = {} /\ Allocated' = Allocated
      /\ \A q \in Runs \ {r} : held'[q] = held[q] /\ reserved'[q] = reserved[q]
      /\ leaked' = leaked \cup reserved[r] \cup held[r] /\ free_blocks' = free_blocks
  BY DEF IInv, TypeOK, Allocated
<1>2. TypeOK'
  BY <1>1 DEF IInv, TypeOK
<1>3. ExclusiveBlocks'
  <2>1. \A q \in Runs : OwnedBy(q)' \subseteq OwnedBy(q)
    BY <1>1 DEF OwnedBy
  <2>2. \A q \in Runs : OwnedBy(q)' \cap OwnedBy(r) = {}
    BY <1>1 DEF IInv, ExclusiveBlocks, OwnedBy
  <2>3. \A q \in Runs : reserved'[q] \cap held'[q] = {}
    BY <1>1 DEF IInv, ExclusiveBlocks
  <2>4. leaked' = leaked \cup OwnedBy(r)
    BY <1>1 DEF OwnedBy
  <2> QED
    BY <1>1, <2>1, <2>2, <2>3, <2>4 DEF IInv, ExclusiveBlocks
<1>4. NoBlockLost'
  BY <1>1 DEF IInv, NoBlockLost, OwnedBy
<1>5. ReservedConsecutive' /\ UnusedOwnsNothing'
  BY <1>1 DEF IInv, TypeOK, ReservedConsecutive, UnusedOwnsNothing
<1> QED
  BY <1>2, <1>3, <1>4, <1>5 DEF IInv

LEMMA NextIInv == IInv /\ [Next]_vars => IInv'
<1> SUFFICES ASSUME IInv, [Next]_vars PROVE IInv'
  OBVIOUS
<1>1. CASE Next
  BY <1>1, OpenWriterStep, FlushBlockStep, FinishStep, FlushAndFinishStep,
     ReleaseRunStep, AbandonStep DEF Next
<1>2. CASE UNCHANGED vars
  BY <1>2 DEF vars, IInv, TypeOK, ExclusiveBlocks, NoBlockLost, ReservedConsecutive,
              UnusedOwnsNothing, OwnedBy, Allocated
<1> QED
  BY <1>1, <1>2

LEMMA SpecIInv == Spec => []IInv
BY InitIInv, NextIInv, PTL DEF Spec

-----------------------------------------------------------------------------
(* Block numbers stay inside the part of the anonymous region that was     *)
(* handed out.                                                             *)
THEOREM TypeCorrect == Spec => []TypeOK
BY SpecIInv, PTL DEF IInv

(* No two live runs share a block, and no block in use is free, however    *)
(* writers and releases interleave (block_allocator.rs:226-317).           *)
THEOREM BlocksAreExclusive == Spec => []ExclusiveBlocks
BY SpecIInv, PTL DEF IInv

(* Releases and finishes give every block back: nothing is lost except     *)
(* what an abandoned operator drops.                                       *)
THEOREM BlocksAreConserved == Spec => []NoBlockLost
BY SpecIInv, PTL DEF IInv

(* A chunk stays one stretch of consecutive blocks while it is used up.    *)
THEOREM ChunksStayConsecutive == Spec => []ReservedConsecutive
BY SpecIInv, PTL DEF IInv

(* The expect of reserve_writer_block (block_allocator.rs:236-238) never   *)
(* panics.                                                                 *)
THEOREM ReservationSucceeds == Spec => []ReservationNeverEmpty
<1>1. IInv => ReservationNeverEmpty
  <2> SUFFICES ASSUME IInv, free_blocks # {} PROVE ReservedChunk # {}
    BY DEF ReservationNeverEmpty
  <2>1. free_blocks \in SUBSET Nat
    BY ScratchSpaceAssumption DEF IInv, TypeOK, Allocated
  <2> QED
    BY <2>1, TakeContiguousIsStretch, ScratchSpaceAssumption DEF ReservedChunk
<1> QED
  BY <1>1, SpecIInv, PTL

(* The loop of take_contiguous_free_blocks (block_allocator.rs:274-317)    *)
(* finds the first stretch that is long enough, or else the first of the   *)
(* longest, in every free set and for every request.                       *)
THEOREM ScanFindsBestFit == Spec => []ScanIsBestFit
<1>1. IInv => ScanIsBestFit
  <2> SUFFICES ASSUME IInv, free_blocks # {}, NEW m \in 1 .. Cardinality(free_blocks) + 1
               PROVE  Scanned(free_blocks, m) = TakeContiguousFreeBlocks(free_blocks, m)
    BY DEF ScanIsBestFit
  <2>1. next_block \in Nat /\ AnonStart \in Nat /\ free_blocks \subseteq AnonStart .. next_block - 1
    BY ScratchSpaceAssumption DEF IInv, TypeOK, Allocated
  <2>2. free_blocks \in SUBSET Nat /\ \A b \in free_blocks : b <= next_block
    BY <2>1
  <2>3. m \in Nat \ {0}
    OBVIOUS
  <2>4. QED  BY <2>1, <2>2, <2>3, ScannedIsBestFit
<1>2. QED  BY <1>1, SpecIInv, PTL

(* The region grows only when every block handed out is in use or leaked.  *)
THEOREM GrowthIsNeeded == Spec => GrowsOnlyWhenFull
<1> DEFINE Full == \A b \in Allocated : b \in leaked \/ \E r \in Runs : b \in OwnedBy(r)
<1>1. ASSUME IInv, [Next]_vars, next_block' > next_block
      PROVE  Full
  <2>1. free_blocks = {}
    <3>1. next_block \in Nat /\ next_block' # next_block
      BY <1>1 DEF IInv, TypeOK
    <3>2. PICK r \in Runs : FlushBlock(r) \/ FlushAndFinish(r)
      BY <1>1, <3>1 DEF Next, vars, OpenWriter, Finish, ReleaseRun, Abandon
    <3>3. next_block' = NextAfterReserve(r)
      BY <3>2 DEF FlushBlock, FlushAndFinish
    <3> QED
      BY <3>1, <3>3 DEF NextAfterReserve
  <2> QED
    BY <1>1, <2>1 DEF IInv, NoBlockLost
<1>2. IInv /\ [Next]_vars => [next_block' > next_block => Full]_vars
  BY <1>1
<1> QED
  BY <1>2, SpecIInv, PTL DEF Spec, GrowsOnlyWhenFull

=============================================================================
