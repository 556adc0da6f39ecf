------------------------- MODULE ExternalSortProofs -------------------------
(***************************************************************************)
(* Proofs about ExternalSort for any rows, sort specs, budgets and inputs: *)
(* it puts out the rows it was given, once each and in order, leaves       *)
(* nothing behind and accounts for the memory it uses.                     *)
(*                                                                         *)
(* IInv says where the rows are: none is in two places, each run is        *)
(* sorted, and in each phase only some of the places are in use.           *)
(* SegmentsInv adds what the statistics are relied on for.  The order of   *)
(* the output rests on NotBeforeTransitive: rows that compare equal do not *)
(* disturb the order of the others.                                        *)
(***************************************************************************)
EXTENDS ExternalSort, DataLemmas

-----------------------------------------------------------------------------
(* The order of rows.                                                      *)

\* The rows that have all the columns sorted by.
InputRows(sort_specs) ==
  {row \in Rows : \A i \in 1 .. Len(sort_specs) : sort_specs[i].column \in DOMAIN Key[row]}

\* What is compared of a row for a spec, the smaller the earlier.
Rank(spec, row) == IF spec.ascending THEN Key[row][spec.column] ELSE 0 - Key[row][spec.column]

LEMMA RankType ==
  ASSUME NEW sort_specs \in Seq(SortSpec), NEW row \in InputRows(sort_specs),
         NEW i \in 1 .. Len(sort_specs)
  PROVE  Rank(sort_specs[i], row) \in Int
<1>1. Key[row] \in Seq(Int) /\ sort_specs[i].column \in DOMAIN Key[row]
  BY RowOrderAssumption DEF InputRows
<1>2. Key[row][sort_specs[i].column] \in Int
  BY <1>1, ElementOfSeq
<1>3. sort_specs[i] \in SortSpec
  BY ElementOfSeq
<1>4. QED  BY <1>2, <1>3 DEF Rank, SortSpec

LEMMA BeforeByRank ==
  ASSUME NEW sort_specs \in Seq(SortSpec), NEW a \in InputRows(sort_specs),
         NEW b \in InputRows(sort_specs)
  PROVE  Before(sort_specs, a, b) <=>
           \E i \in 1 .. Len(sort_specs) :
             /\ Rank(sort_specs[i], a) < Rank(sort_specs[i], b)
             /\ \A j \in 1 .. i - 1 : Rank(sort_specs[j], a) = Rank(sort_specs[j], b)
<1>1. \A i \in 1 .. Len(sort_specs) :
        /\ Key[a][sort_specs[i].column] \in Int /\ Key[b][sort_specs[i].column] \in Int
        /\ sort_specs[i].ascending \in BOOLEAN
  <2> TAKE i \in 1 .. Len(sort_specs)
  <2>1. /\ Key[a] \in Seq(Int) /\ sort_specs[i].column \in DOMAIN Key[a]
        /\ Key[b] \in Seq(Int) /\ sort_specs[i].column \in DOMAIN Key[b]
    BY RowOrderAssumption DEF InputRows
  <2>2. sort_specs[i] \in SortSpec
    BY ElementOfSeq
  <2>3. QED  BY SMTT(30), <2>1, <2>2, ElementOfSeq DEF SortSpec
<1>2. \A i \in 1 .. Len(sort_specs) :
        /\ Decides(sort_specs[i], a, b) <=> Rank(sort_specs[i], a) < Rank(sort_specs[i], b)
        /\ Key[a][sort_specs[i].column] = Key[b][sort_specs[i].column]
             <=> Rank(sort_specs[i], a) = Rank(sort_specs[i], b)
  <2> TAKE i \in 1 .. Len(sort_specs)
  <2>1. CASE sort_specs[i].ascending
    BY <1>1, <2>1 DEF Decides, Rank
  <2>2. CASE ~sort_specs[i].ascending
    BY <1>1, <2>2 DEF Decides, Rank
  <2>3. QED  BY <2>1, <2>2
<1>3. Len(sort_specs) \in Nat
  BY LenProperties
<1>4. \A i \in 1 .. Len(sort_specs) : \A j \in 1 .. i - 1 : j \in 1 .. Len(sort_specs)
  BY <1>3
<1>5. QED  BY <1>2, <1>4 DEF Before

\* Spec k is the first one for which two rows differ.
FirstDiffer(sort_specs, a, b, k) ==
  /\ Rank(sort_specs[k], a) # Rank(sort_specs[k], b)
  /\ \A j \in 1 .. k - 1 : Rank(sort_specs[j], a) = Rank(sort_specs[j], b)

LEMMA FirstDifference ==
  ASSUME NEW sort_specs \in Seq(SortSpec), NEW a, NEW b,
         NEW i \in 1 .. Len(sort_specs), Rank(sort_specs[i], a) # Rank(sort_specs[i], b)
  PROVE  \E k \in 1 .. Len(sort_specs) : FirstDiffer(sort_specs, a, b, k)
<1> DEFINE different == {k \in 1 .. Len(sort_specs) :
                           Rank(sort_specs[k], a) # Rank(sort_specs[k], b)}
<1>1. Len(sort_specs) \in Nat
  BY LenProperties
<1>2. different \in SUBSET Nat /\ different # {}
  BY <1>1
<1>3. PICK k \in different : \A j \in different : k <= j
  BY <1>2, LeastElement
<1>4. \A j \in 1 .. k - 1 : j \in 1 .. Len(sort_specs) /\ j \notin different
  BY <1>1, <1>3
<1>5. QED  BY <1>3, <1>4 DEF FirstDiffer

LEMMA BeforeAsymmetric ==
  ASSUME NEW sort_specs \in Seq(SortSpec), NEW a \in InputRows(sort_specs),
         NEW b \in InputRows(sort_specs), Before(sort_specs, a, b)
  PROVE  ~Before(sort_specs, b, a)
<1> SUFFICES ASSUME Before(sort_specs, b, a) PROVE FALSE
  OBVIOUS
<1>1. PICK i \in 1 .. Len(sort_specs) :
        /\ Rank(sort_specs[i], a) < Rank(sort_specs[i], b)
        /\ \A j \in 1 .. i - 1 : Rank(sort_specs[j], a) = Rank(sort_specs[j], b)
  BY BeforeByRank
<1>2. PICK k \in 1 .. Len(sort_specs) :
        /\ Rank(sort_specs[k], b) < Rank(sort_specs[k], a)
        /\ \A j \in 1 .. k - 1 : Rank(sort_specs[j], b) = Rank(sort_specs[j], a)
  BY BeforeByRank
<1>3. \A j \in 1 .. Len(sort_specs) :
        Rank(sort_specs[j], a) \in Int /\ Rank(sort_specs[j], b) \in Int
  BY RankType
<1>4. i \in Nat /\ k \in Nat /\ i >= 1 /\ k >= 1
  OBVIOUS
<1>5. CASE i < k
  BY <1>1, <1>2, <1>3, <1>4, <1>5
<1>6. CASE k < i
  BY <1>1, <1>2, <1>3, <1>4, <1>6
<1>7. CASE i = k
  BY <1>1, <1>2, <1>3, <1>7
<1>8. QED  BY <1>4, <1>5, <1>6, <1>7

(* Not coming before is transitive: rows that compare equal do not mix up  *)
(* the order of the others.                                                *)
LEMMA NotBeforeTransitive ==
  ASSUME NEW sort_specs \in Seq(SortSpec), NEW a \in InputRows(sort_specs),
         NEW b \in InputRows(sort_specs), NEW c \in InputRows(sort_specs),
         ~Before(sort_specs, b, a), ~Before(sort_specs, c, b)
  PROVE  ~Before(sort_specs, c, a)
<1> DEFINE rank(i, row) == Rank(sort_specs[i], row)
<1> SUFFICES ASSUME Before(sort_specs, c, a) PROVE FALSE
  OBVIOUS
<1>1. \A j \in 1 .. Len(sort_specs) :
        rank(j, a) \in Int /\ rank(j, b) \in Int /\ rank(j, c) \in Int
  BY RankType
<1>2. PICK i \in 1 .. Len(sort_specs) :
        rank(i, c) < rank(i, a) /\ \A j \in 1 .. i - 1 : rank(j, c) = rank(j, a)
  BY BeforeByRank
<1>3. ~ \E k \in 1 .. Len(sort_specs) :
          rank(k, b) < rank(k, a) /\ \A j \in 1 .. k - 1 : rank(j, b) = rank(j, a)
  BY BeforeByRank
<1>4. ~ \E k \in 1 .. Len(sort_specs) :
          rank(k, c) < rank(k, b) /\ \A j \in 1 .. k - 1 : rank(j, c) = rank(j, b)
  BY BeforeByRank
<1>5. \A k \in 1 .. Len(sort_specs) :
        rank(k, b) # rank(k, a) =>
          \E m \in 1 .. Len(sort_specs) : FirstDiffer(sort_specs, b, a, m)
  BY FirstDifference
<1>6. \A k \in 1 .. Len(sort_specs) :
        rank(k, c) # rank(k, b) =>
          \E m \in 1 .. Len(sort_specs) : FirstDiffer(sort_specs, c, b, m)
  BY FirstDifference
<1> HIDE DEF rank
<1>7. Len(sort_specs) \in Nat
  BY LenProperties
<1>8. rank(i, b) # rank(i, a) \/ rank(i, c) # rank(i, b)
  BY <1>1, <1>2
<1>9. CASE \A k \in 1 .. Len(sort_specs) : rank(k, b) = rank(k, a)
  <2>1. \A j \in 1 .. i - 1 : j \in 1 .. Len(sort_specs)
    BY <1>7
  <2>2. rank(i, c) < rank(i, b) /\ \A j \in 1 .. i - 1 : rank(j, c) = rank(j, b)
    BY <1>2, <1>9, <2>1
  <2>3. QED  BY <1>4, <2>2
<1>10. CASE \A k \in 1 .. Len(sort_specs) : rank(k, c) = rank(k, b)
  <2>1. \A j \in 1 .. i - 1 : j \in 1 .. Len(sort_specs)
    BY <1>7
  <2>2. rank(i, b) < rank(i, a) /\ \A j \in 1 .. i - 1 : rank(j, b) = rank(j, a)
    BY <1>2, <1>10, <2>1
  <2>3. QED  BY <1>3, <2>2
<1>11. ASSUME NEW m \in 1 .. Len(sort_specs), NEW n \in 1 .. Len(sort_specs),
              FirstDiffer(sort_specs, b, a, m), FirstDiffer(sort_specs, c, b, n)
       PROVE  FALSE
  <2>0. /\ rank(m, b) # rank(m, a) /\ \A j \in 1 .. m - 1 : rank(j, b) = rank(j, a)
        /\ rank(n, c) # rank(n, b) /\ \A j \in 1 .. n - 1 : rank(j, c) = rank(j, b)
    BY <1>11 DEF FirstDiffer, rank
  <2>1. rank(m, a) < rank(m, b)
    BY SMTT(30), <1>1, <1>3, <2>0
  <2>2. rank(n, b) < rank(n, c)
    BY SMTT(30), <1>1, <1>4, <2>0
  <2>3. CASE m <= n
    <3>1. rank(m, b) <= rank(m, c)
      BY <1>1, <2>0, <2>2, <2>3
    <3>2. rank(m, a) < rank(m, c)
      BY <1>1, <2>1, <3>1
    <3>3. ~(m < i)
      BY <1>1, <1>2, <3>2
    <3>4. m # i
      BY <1>1, <1>2, <3>2
    <3>5. i < m /\ i < n
      BY <2>3, <3>3, <3>4
    <3>6. QED  BY <1>8, <2>0, <3>5
  <2>4. CASE n < m
    <3>1. rank(n, b) = rank(n, a)
      BY <2>0, <2>4
    <3>2. rank(n, a) < rank(n, c)
      BY <1>1, <2>2, <3>1
    <3>3. ~(n < i)
      BY <1>1, <1>2, <3>2
    <3>4. n # i
      BY <1>1, <1>2, <3>2
    <3>5. i < m /\ i < n
      BY <2>4, <3>3, <3>4
    <3>6. QED  BY <1>8, <2>0, <3>5
  <2>5. QED  BY <2>3, <2>4
<1>12. QED  BY <1>5, <1>6, <1>9, <1>10, <1>11

-----------------------------------------------------------------------------
(* Runs.                                                                   *)

\* No row of a sequence comes before an earlier one.
InOrder(sort_specs, s) ==
  \A i \in 1 .. Len(s), j \in 1 .. Len(s) : i < j => ~Before(sort_specs, s[j], s[i])

\* Sorted sequences without a row in common or twice.
RunsApart(sort_specs, sequences) ==
  \A i \in DOMAIN sequences :
    /\ IsInjective(sequences[i]) /\ InOrder(sort_specs, sequences[i])
    /\ \A j \in DOMAIN sequences : i # j => ToSet(sequences[i]) \cap ToSet(sequences[j]) = {}

(* sort_unstable_by compares neighbours: as not coming before is           *)
(* transitive, it orders any two rows.                                     *)
LEMMA NeighboursInOrder ==
  ASSUME NEW sort_specs \in Seq(SortSpec), NEW s \in Seq(InputRows(sort_specs)),
         \A i \in 1 .. Len(s) - 1 : ~Before(sort_specs, s[i + 1], s[i])
  PROVE  InOrder(sort_specs, s)
<1> SUFFICES ASSUME NEW i \in 1 .. Len(s), NEW j \in 1 .. Len(s), i < j,
                    Before(sort_specs, s[j], s[i])
             PROVE  FALSE
  BY DEF InOrder
<1> DEFINE wrong == {k \in i + 1 .. Len(s) : Before(sort_specs, s[k], s[i])}
<1>1. Len(s) \in Nat
  BY LenProperties
<1>2. wrong \in SUBSET Nat /\ wrong # {}
  BY <1>1
<1>3. PICK k \in wrong : \A l \in wrong : k <= l
  BY <1>2, LeastElement
<1>4. PICK m \in i .. Len(s) - 1 : k = m + 1
  <2>1. k - 1 \in i .. Len(s) - 1 /\ k = (k - 1) + 1
    BY <1>1, <1>3
  <2>2. QED  BY <2>1
<1>5. m \in 1 .. Len(s) - 1 /\ m \in 1 .. Len(s) /\ k \in 1 .. Len(s)
  BY <1>1, <1>4
<1>6. ~Before(sort_specs, s[k], s[m])
  BY <1>4, <1>5
<1>7. /\ s[i] \in InputRows(sort_specs) /\ s[m] \in InputRows(sort_specs)
      /\ s[k] \in InputRows(sort_specs)
  BY <1>5, ElementOfSeq
<1>8. CASE m = i
  BY <1>3, <1>6, <1>8
<1>9. CASE m # i
  <2>1. m \in i + 1 .. Len(s) /\ m < k
    BY <1>1, <1>4, <1>9
  <2>2. ~Before(sort_specs, s[m], s[i])
    BY <1>3, <2>1
  <2>3. ~Before(sort_specs, s[k], s[i])
    BY <1>6, <1>7, <2>2, NotBeforeTransitive
  <2>4. QED  BY <1>3, <2>3
<1>10. QED  BY <1>8, <1>9

LEMMA SortedSeqsAre ==
  ASSUME specs \in Seq(SortSpec), NEW S \in SUBSET InputRows(specs), IsFiniteSet(S),
         NEW s \in SortedSeqs(S)
  PROVE  /\ s \in Seq(InputRows(specs)) /\ ToSet(s) = S
         /\ IsInjective(s) /\ InOrder(specs, s)
<1>1. s \in SetToSeqs(S) /\ \A i \in 1 .. Len(s) - 1 : ~Before(specs, s[i + 1], s[i])
  BY DEF SortedSeqs
<1>2. s \in Seq(S) /\ IsInjective(s) /\ ToSet(s) = S
  BY <1>1, SetToSeqsAre
<1>3. s \in Seq(InputRows(specs))
  BY <1>2, SeqMonotonic
<1>4. InOrder(specs, s)
  BY <1>1, <1>3, NeighboursInOrder
<1>5. QED  BY <1>2, <1>3, <1>4

LEMMA NoRuns ==
  ASSUME NEW sort_specs, NEW R
  PROVE  /\ <<>> \in Seq(Seq(R)) /\ RowsOf(<<>>) = {} /\ RunsApart(sort_specs, <<>>)
BY DEF RowsOf, RunsApart

LEMMA RowsOfRun ==
  ASSUME NEW sequences, NEW row
  PROVE  row \in RowsOf(sequences) <=> \E i \in DOMAIN sequences : row \in ToSet(sequences[i])
BY DEF RowsOf

\* One more run.
LEMMA AppendRun ==
  ASSUME NEW sort_specs, NEW R, NEW sequences \in Seq(Seq(R)), NEW s \in Seq(R),
         RunsApart(sort_specs, sequences), IsInjective(s), InOrder(sort_specs, s),
         ToSet(s) \cap RowsOf(sequences) = {}
  PROVE  /\ Append(sequences, s) \in Seq(Seq(R)) /\ Append(sequences, s) # <<>>
         /\ RowsOf(Append(sequences, s)) = RowsOf(sequences) \cup ToSet(s)
         /\ RunsApart(sort_specs, Append(sequences, s))
<1> DEFINE longer == Append(sequences, s)
           n == Len(sequences)
<1>1. /\ longer \in Seq(Seq(R)) /\ Len(longer) = n + 1
      /\ \A i \in 1 .. n : longer[i] = sequences[i]
      /\ longer[n + 1] = s
  BY AppendProperties
<1>2. n \in Nat /\ DOMAIN sequences = 1 .. n /\ DOMAIN longer = 1 .. n + 1
  BY <1>1, LenProperties
<1> HIDE DEF longer, n
<1>3. RowsOf(longer) = RowsOf(sequences) \cup ToSet(s)
  <2>1. \A i \in 1 .. n : i \in 1 .. n + 1
    BY <1>2
  <2>2. n + 1 \in 1 .. n + 1 /\ \A i \in 1 .. n + 1 : i \in 1 .. n \/ i = n + 1
    BY <1>2
  <2>3. ASSUME NEW row PROVE row \in RowsOf(longer) <=> row \in RowsOf(sequences) \cup ToSet(s)
    BY <1>1, <1>2, <2>1, <2>2, RowsOfRun
  <2>4. QED  BY <2>3
<1>4. \A i \in 1 .. n : ToSet(sequences[i]) \cap ToSet(s) = {}
  BY <1>2 DEF RowsOf
<1>5. \A i \in 1 .. n + 1 : i \in 1 .. n \/ i = n + 1
  BY <1>2
<1>6. RunsApart(sort_specs, longer)
  <2> SUFFICES ASSUME NEW i \in 1 .. n + 1
               PROVE  /\ IsInjective(longer[i]) /\ InOrder(sort_specs, longer[i])
                      /\ \A j \in 1 .. n + 1 : i # j => ToSet(longer[i]) \cap ToSet(longer[j]) = {}
    BY <1>2 DEF RunsApart
  <2>1. CASE i \in 1 .. n
    BY <1>1, <1>2, <1>4, <1>5, <2>1 DEF RunsApart
  <2>2. CASE i = n + 1
    BY <1>1, <1>2, <1>4, <1>5, <2>2 DEF RunsApart
  <2>3. QED  BY <1>5, <2>1, <2>2
<1>7. longer # <<>>
  BY <1>2
<1>8. QED  BY <1>1, <1>3, <1>6, <1>7 DEF longer

\* The first row of one run is taken.
LEMMA PopRun ==
  ASSUME NEW sort_specs, NEW R, NEW sequences \in Seq(Seq(R)),
         RunsApart(sort_specs, sequences),
         NEW i \in DOMAIN sequences, sequences[i] # <<>>
  PROVE  LET rest == [sequences EXCEPT ![i] = Tail(@)]
         IN  /\ rest \in Seq(Seq(R)) /\ rest # <<>>
             /\ Head(sequences[i]) \in RowsOf(sequences)
             /\ RowsOf(rest) = RowsOf(sequences) \ {Head(sequences[i])}
             /\ RunsApart(sort_specs, rest)
<1> DEFINE rest == [sequences EXCEPT ![i] = Tail(@)]
           run == sequences[i]
<1>1. DOMAIN sequences = 1 .. Len(sequences) /\ run \in Seq(R) /\ i \in 1 .. Len(sequences)
  BY ToSetType
<1>2. /\ Head(run) = run[1] /\ Len(run) \in Nat /\ 1 \in 1 .. Len(run)
      /\ Tail(run) \in Seq(R) /\ Len(Tail(run)) = Len(run) - 1
      /\ \A k \in 1 .. Len(run) - 1 : Tail(run)[k] = run[k + 1]
      /\ ToSet(run) = {Head(run)} \cup ToSet(Tail(run))
      /\ IsInjective(run) => IsInjective(Tail(run)) /\ Head(run) \notin ToSet(Tail(run))
  BY <1>1, SequenceTail
<1>3. rest \in Seq(Seq(R)) /\ DOMAIN rest = DOMAIN sequences
  BY <1>1, <1>2, ExceptSeq
<1>4. rest[i] = Tail(run) /\ \A j \in DOMAIN sequences \ {i} : rest[j] = sequences[j]
  OBVIOUS
<1>5. IsInjective(run) /\ InOrder(sort_specs, run)
  BY DEF RunsApart
<1> HIDE DEF rest, run
<1>6. \A j \in DOMAIN sequences \ {i} : ToSet(sequences[j]) \cap ToSet(run) = {}
  BY DEF RunsApart, run
<1>7. RowsOf(rest) = RowsOf(sequences) \ {Head(run)}
  <2>1. ToSet(rest[i]) = ToSet(run) \ {Head(run)}
    BY <1>2, <1>4, <1>5
  <2>2. \A j \in DOMAIN sequences \ {i} : ToSet(rest[j]) = ToSet(sequences[j]) \ {Head(run)}
    BY <1>2, <1>4, <1>6
  <2>3. ASSUME NEW row
        PROVE  row \in RowsOf(rest) <=> row \in RowsOf(sequences) \ {Head(run)}
    <3>1. \A j \in DOMAIN sequences : ToSet(rest[j]) = ToSet(sequences[j]) \ {Head(run)}
      BY <2>1, <2>2 DEF run
    <3>2. row \in RowsOf(rest) <=> \E j \in DOMAIN sequences : row \in ToSet(rest[j])
      BY <1>3, RowsOfRun
    <3>3. row \in RowsOf(sequences) <=> \E j \in DOMAIN sequences : row \in ToSet(sequences[j])
      BY RowsOfRun
    <3>4. row \in RowsOf(rest)
            <=> \E j \in DOMAIN sequences : row \in ToSet(sequences[j]) \ {Head(run)}
      BY <3>1, <3>2
    <3>5. QED  BY <3>3, <3>4
  <2>4. QED  BY <2>3
<1>8. InOrder(sort_specs, Tail(run))
  <2>1. \A k \in 1 .. Len(run) - 1 : k + 1 \in 1 .. Len(run)
    BY <1>2
  <2>2. QED  BY <1>2, <1>5, <2>1 DEF InOrder
<1>9. RunsApart(sort_specs, rest)
  <2> SUFFICES ASSUME NEW j \in DOMAIN sequences
               PROVE  /\ IsInjective(rest[j]) /\ InOrder(sort_specs, rest[j])
                      /\ \A k \in DOMAIN sequences : j # k => ToSet(rest[j]) \cap ToSet(rest[k]) = {}
    BY <1>3 DEF RunsApart
  <2>1. IsInjective(rest[j]) /\ InOrder(sort_specs, rest[j])
    BY <1>2, <1>4, <1>5, <1>8 DEF RunsApart
  <2>2. \A k \in DOMAIN sequences : ToSet(rest[k]) \subseteq ToSet(sequences[k])
    BY <1>2, <1>4 DEF run
  <2>3. QED  BY <2>1, <2>2 DEF RunsApart
<1>10. Head(run) \in RowsOf(sequences)
  BY <1>2 DEF RowsOf, run
<1>11. rest # <<>>
  BY <1>3
<1>12. QED  BY <1>3, <1>7, <1>9, <1>10, <1>11 DEF rest, run

-----------------------------------------------------------------------------
(* The invariant.                                                          *)

Memory == compact \cup current_rows

TypeInv ==
  /\ phase \in {"stream", "collect", "segments", "emit", "merge", "done", "failed"}
  /\ specs \in Seq(SortSpec) /\ unread \in Seq(InputRows(specs))
  /\ compacting \in BOOLEAN
  /\ compact \in SUBSET InputRows(specs) /\ IsFiniteSet(compact)
  /\ current_rows \in SUBSET InputRows(specs) /\ IsFiniteSet(current_rows)
  /\ current_bytes \in Nat
  /\ runs \in Seq(Seq(InputRows(specs))) /\ cursors \in Seq(Seq(InputRows(specs)))

\* No row is in two places.
ApartInv ==
  /\ IsInjective(unread)
  /\ RunsApart(specs, runs) /\ RunsApart(specs, cursors)
  /\ compact \cap current_rows = {}
  /\ ToSet(unread) \cap Memory = {} /\ Memory \cap RowsOf(runs) = {}
  /\ ToSet(unread) \cap RowsOf(runs) = {} /\ ToSet(unread) \cap RowsOf(cursors) = {}

\* What is in use in each phase.
PhaseInv ==
  /\ phase \in {"stream", "collect", "segments", "emit", "done"} => cursors = <<>>
  /\ phase \in {"stream", "merge", "done"} => Memory = {}
  /\ phase \in {"stream", "emit", "done"} => runs = <<>>
  /\ phase = "segments" => compact = {}
  /\ phase = "merge" => cursors # <<>> /\ (unread # <<>> => current_bytes = 0)
  /\ phase = "done" => unread = <<>>

RowsCounted ==
  /\ current_bytes = SumOver(RowBytes, current_rows)
  /\ current_bytes <= RunBudget \/ Cardinality(current_rows) = 1

BudgetInv ==
  /\ CompactUsed(compact) <= CompactBudget
  /\ ~compacting => compact = {}
  /\ phase \in {"collect", "segments"} => RowsCounted

IInv == TypeInv /\ ApartInv /\ PhaseInv /\ BudgetInv

\* No row is given to the sink: what the sort has stays the same.
Keeps == Remaining' = Remaining /\ specs' = specs /\ emitted' = emitted

-----------------------------------------------------------------------------
(* Sums of bytes.                                                          *)

LEMMA RowsInput == \A sort_specs : InputRows(sort_specs) \subseteq Rows
BY DEF InputRows

LEMMA CompactUsedIs ==
  ASSUME NEW S
  PROVE  CompactUsed(S) = SumOver(CompactBytes, S)
BY DEF CompactUsed, SumOver

LEMMA CompactUsedEmpty == CompactUsed({}) = 0 /\ 0 <= CompactBudget
BY CompactUsedIs, SumEmpty, ExternalSortAssumption

LEMMA NoRowsCounted ==
  ASSUME NEW bytes, bytes = 0
  PROVE  bytes = SumOver(RowBytes, {}) /\ bytes <= RunBudget
<1>1. SumOver(RowBytes, {}) = 0
  BY SumEmpty
<1>2. RunBudget \in Nat
  BY ExternalSortAssumption
<1>3. QED  BY <1>1, <1>2

\* flush_run and flush_compact_run.
LEMMA FlushedDoes ==
  ASSUME TypeInv, RunsApart(specs, runs),
         NEW S \in SUBSET InputRows(specs), IsFiniteSet(S), S \cap RowsOf(runs) = {},
         NEW flushed \in Flushed(S)
  PROVE  /\ flushed \in Seq(Seq(InputRows(specs))) /\ RunsApart(specs, flushed)
         /\ RowsOf(flushed) = RowsOf(runs) \cup S
         /\ runs # <<>> => flushed # <<>>
<1>1. CASE S = {}
  <2>1. flushed = runs
    BY <1>1 DEF Flushed
  <2>2. QED  BY <1>1, <2>1 DEF TypeInv
<1>2. CASE S # {}
  <2>1. PICK s \in SortedSeqs(S) : flushed = Append(runs, s)
    BY <1>2 DEF Flushed
  <2>2. /\ s \in Seq(InputRows(specs)) /\ ToSet(s) = S
        /\ IsInjective(s) /\ InOrder(specs, s)
    BY SortedSeqsAre DEF TypeInv
  <2>3. runs \in Seq(Seq(InputRows(specs))) /\ ToSet(s) \cap RowsOf(runs) = {}
    BY <2>2 DEF TypeInv
  <2>4. /\ Append(runs, s) \in Seq(Seq(InputRows(specs))) /\ Append(runs, s) # <<>>
        /\ RowsOf(Append(runs, s)) = RowsOf(runs) \cup ToSet(s)
        /\ RunsApart(specs, Append(runs, s))
    BY <2>2, <2>3, AppendRun
  <2>5. QED  BY <2>1, <2>2, <2>4
<1>3. QED  BY <1>1, <1>2

\* push_standard_row.
LEMMA PushStandardRowDoes ==
  ASSUME TypeInv, RowsCounted,
         NEW runs_now \in Seq(Seq(InputRows(specs))), RunsApart(specs, runs_now),
         current_rows \cap RowsOf(runs_now) = {},
         NEW row \in InputRows(specs), row \notin current_rows, row \notin RowsOf(runs_now),
         PushStandardRow(row, runs_now)
  PROVE  /\ runs' \in Seq(Seq(InputRows(specs))) /\ RunsApart(specs, runs')
         /\ current_rows' \in SUBSET InputRows(specs) /\ IsFiniteSet(current_rows')
         /\ current_bytes' \in Nat /\ RowsCounted'
         /\ RowsOf(runs') \cup current_rows' = RowsOf(runs_now) \cup current_rows \cup {row}
         /\ current_rows' \cap RowsOf(runs') = {}
<1>1. /\ current_rows \in SUBSET InputRows(specs) /\ IsFiniteSet(current_rows)
      /\ current_bytes \in Nat /\ specs \in Seq(SortSpec)
  BY DEF TypeInv
<1>2. \A r \in InputRows(specs) : RowBytes[r] \in Nat
  BY RowsInput, ExternalSortAssumption
<1>3. RowBytes[row] \in Nat
  BY <1>2
<1>4. CASE current_rows # {} /\ current_bytes + RowBytes[row] > RunBudget
  <2>1. PICK s \in SortedSeqs(current_rows) :
          /\ runs' = Append(runs_now, s) /\ current_rows' = {row}
          /\ current_bytes' = RowBytes[row]
    BY <1>4 DEF PushStandardRow
  <2>2. /\ s \in Seq(InputRows(specs)) /\ ToSet(s) = current_rows
        /\ IsInjective(s) /\ InOrder(specs, s)
    BY <1>1, SortedSeqsAre
  <2>3. /\ Append(runs_now, s) \in Seq(Seq(InputRows(specs)))
        /\ RowsOf(Append(runs_now, s)) = RowsOf(runs_now) \cup ToSet(s)
        /\ RunsApart(specs, Append(runs_now, s))
    BY <2>2, AppendRun
  <2>4. IsFiniteSet({row}) /\ Cardinality({row}) = 1
    BY FS_Singleton
  <2>5. SumOver(RowBytes, {row}) = RowBytes[row]
    BY <1>3, SumOfOne
  <2>6. RowsCounted'
    BY <2>1, <2>4, <2>5 DEF RowsCounted
  <2>7. QED  BY <1>3, <2>1, <2>2, <2>3, <2>4, <2>6
<1>5. CASE ~(current_rows # {} /\ current_bytes + RowBytes[row] > RunBudget)
  <2>1. /\ runs' = runs_now /\ current_rows' = current_rows \cup {row}
        /\ current_bytes' = current_bytes + RowBytes[row]
    BY <1>5 DEF PushStandardRow
  <2>2. IsFiniteSet(current_rows \cup {row})
    BY <1>1, FS_AddElement
  <2>3. SumOver(RowBytes, current_rows \cup {row}) = SumOver(RowBytes, current_rows) + RowBytes[row]
    BY <1>1, <1>2, <1>3, SumAdd
  <2>4. current_bytes' <= RunBudget \/ Cardinality(current_rows') = 1
    <3>1. CASE current_rows = {}
      <4>1. current_rows' = {row}
        BY <2>1, <3>1
      <4>2. QED  BY <4>1, FS_Singleton
    <3>2. CASE current_rows # {}
      <4>1. RunBudget \in Nat
        BY ExternalSortAssumption
      <4>2. QED  BY <1>1, <1>3, <1>5, <2>1, <3>2, <4>1
    <3>3. QED  BY <3>1, <3>2
  <2>5. RowsCounted'
    BY <2>1, <2>3, <2>4 DEF RowsCounted
  <2>6. QED  BY <1>1, <1>3, <2>1, <2>2, <2>5
<1>6. QED  BY <1>4, <1>5

\* The next row of the input.
LEMMA NextRow ==
  ASSUME IInv, unread # <<>>
  PROVE  /\ Head(unread) \in InputRows(specs)
         /\ Tail(unread) \in Seq(InputRows(specs)) /\ IsInjective(Tail(unread))
         /\ Head(unread) \notin ToSet(Tail(unread))
         /\ ToSet(unread) = {Head(unread)} \cup ToSet(Tail(unread))
         /\ Head(unread) \notin Memory \cup RowsOf(runs) \cup RowsOf(cursors)
         /\ RowBytes[Head(unread)] \in Nat /\ CompactBytes[Head(unread)] \in Nat
<1>1. unread \in Seq(InputRows(specs)) /\ IsInjective(unread)
  BY DEF IInv, TypeInv, ApartInv
<1>2. /\ Head(unread) = unread[1] /\ 1 \in 1 .. Len(unread)
      /\ Tail(unread) \in Seq(InputRows(specs)) /\ IsInjective(Tail(unread))
      /\ Head(unread) \notin ToSet(Tail(unread))
      /\ ToSet(unread) = {Head(unread)} \cup ToSet(Tail(unread))
  BY <1>1, SequenceTail
<1>3. Head(unread) \in InputRows(specs)
  BY <1>1, <1>2, ElementOfSeq
<1>4. Head(unread) \notin Memory \cup RowsOf(runs) \cup RowsOf(cursors)
  BY <1>2 DEF IInv, ApartInv
<1>5. RowBytes[Head(unread)] \in Nat /\ CompactBytes[Head(unread)] \in Nat
  BY <1>3, RowsInput, ExternalSortAssumption
<1>6. QED  BY <1>2, <1>3, <1>4, <1>5

-----------------------------------------------------------------------------
(* The invariant holds at first and after every step; which rows a step    *)
(* gives to the sink.                                                      *)

LEMMA InitIInv == Init => IInv
<1> SUFFICES ASSUME Init PROVE IInv
  OBVIOUS
<1>1. PICK request \in Requests : specs = request.specs /\ unread = request.rows
  BY DEF Init
<1>2. /\ specs \in Seq(SortSpec) /\ unread \in Seq(Rows) /\ IsInjective(unread)
      /\ \A i \in DOMAIN specs, j \in DOMAIN unread : specs[i].column \in DOMAIN Key[unread[j]]
  BY <1>1, ExternalSortAssumption
<1>3. unread \in Seq(InputRows(specs))
  <2>1. /\ DOMAIN unread = 1 .. Len(unread) /\ Len(unread) \in Nat
        /\ \A j \in 1 .. Len(unread) : unread[j] \in Rows
        /\ DOMAIN specs = 1 .. Len(specs)
    BY <1>2, ToSetType
  <2>2. \A j \in 1 .. Len(unread) : unread[j] \in InputRows(specs)
    BY <1>2, <2>1 DEF InputRows
  <2>3. unread \in [1 .. Len(unread) -> InputRows(specs)]
    BY <1>2, <2>1, <2>2, LenProperties
  <2>4. QED  BY <2>1, <2>3
<1>4. IsFiniteSet({}) /\ RowsOf(<<>>) = {} /\ RunsApart(specs, <<>>)
  BY FS_EmptySet, NoRuns
<1>5. TypeInv
  BY <1>2, <1>3, <1>4, NoRuns DEF Init, TypeInv
<1>6. ApartInv
  BY <1>2, <1>4 DEF Init, ApartInv, Memory
<1>7. PhaseInv
  BY DEF Init, PhaseInv, Memory
<1>8. BudgetInv
  BY CompactUsedEmpty, NoRowsCounted DEF Init, BudgetInv, RowsCounted
<1>9. QED  BY <1>5, <1>6, <1>7, <1>8 DEF IInv

\* The sink is given this row, which the sort still has.
Gives(row) ==
  /\ row \in Remaining /\ Remaining' = Remaining \ {row}
  /\ specs' = specs /\ emitted' = Append(emitted, row)

LEMMA StreamStep ==
  ASSUME IInv, Stream
  PROVE  /\ IInv'
         /\ Keeps \/ (unread # <<>> /\ Gives(Head(unread)))
<1> USE DEF IInv
<1>1. CASE unread = <<>>
  <2>1. UNCHANGED <<specs, unread, collectVars, current_key, runs, cursors, emitted>> /\ phase' = "done"
    BY <1>1 DEF Stream
  <2>2. TypeInv' /\ ApartInv'
    BY <2>1 DEF collectVars, TypeInv, ApartInv, Memory
  <2>3. PhaseInv' /\ BudgetInv'
    BY <1>1, <2>1 DEF Stream, collectVars, PhaseInv, BudgetInv, Memory
  <2>4. Keeps
    BY <2>1 DEF Stream, collectVars, Keeps, Remaining
  <2>5. QED  BY <2>2, <2>3, <2>4
<1>2. CASE unread # <<>>
  <2>1. /\ UNCHANGED <<phase, specs, collectVars, current_key, runs, cursors>> /\ phase = "stream"
        /\ emitted' = Append(emitted, Head(unread)) /\ unread' = Tail(unread)
    BY <1>2 DEF Stream
  <2>2. TypeInv' /\ ApartInv'
    BY <1>2, <2>1, NextRow DEF collectVars, TypeInv, ApartInv, Memory
  <2>3. PhaseInv' /\ BudgetInv'
    BY <2>1 DEF collectVars, PhaseInv, BudgetInv, Memory
  <2>4. Gives(Head(unread))
    BY <1>2, <2>1, NextRow DEF collectVars, Gives, Remaining, Memory
  <2>5. QED  BY <1>2, <2>2, <2>3, <2>4
<1>3. QED  BY <1>1, <1>2

LEMMA CompactTakesStep == ASSUME IInv, CompactTakes PROVE IInv' /\ Keeps
<1> USE DEF IInv
<1>1. /\ unread # <<>> /\ unread' = Tail(unread) /\ compact' = compact \cup {Head(unread)}
      /\ UNCHANGED <<phase, specs, cursors, emitted, compacting, current_rows, current_bytes,
                     current_key, runs>>
      /\ phase = "collect" /\ compacting
      /\ CompactUsed(compact \cup {Head(unread)}) <= CompactBudget
  BY DEF CompactTakes, Arrives
<1>2. IsFiniteSet(compact \cup {Head(unread)})
  BY FS_AddElement DEF TypeInv
<1>3. TypeInv' /\ ApartInv'
  BY <1>1, <1>2, NextRow DEF TypeInv, ApartInv, Memory
<1>4. PhaseInv' /\ BudgetInv'
  BY <1>1 DEF PhaseInv, BudgetInv, Memory, RowsCounted
<1>5. Keeps
  BY <1>1, NextRow DEF Keeps, Remaining
<1>6. QED  BY <1>3, <1>4, <1>5

LEMMA CompactFlushedStep ==
  ASSUME IInv, Arrives("collect"), compacting, CompactFlushed(Head(unread)), UNCHANGED current_key
  PROVE  IInv' /\ Keeps
<1> USE DEF IInv
<1> DEFINE row == Head(unread)
<1>1. /\ unread # <<>> /\ unread' = Tail(unread) /\ compact' = {row}
      /\ UNCHANGED <<phase, specs, cursors, emitted, compacting, current_rows, current_bytes>>
      /\ phase = "collect" /\ CompactUsed({row}) <= CompactBudget /\ runs' \in Flushed(compact)
  BY DEF CompactFlushed, Arrives
<1>2. /\ runs' \in Seq(Seq(InputRows(specs))) /\ RunsApart(specs, runs')
      /\ RowsOf(runs') = RowsOf(runs) \cup compact
  BY <1>1, FlushedDoes DEF TypeInv, ApartInv, Memory
<1>3. IsFiniteSet({row})
  BY FS_Singleton
<1>4. /\ row \in InputRows(specs) /\ Tail(unread) \in Seq(InputRows(specs))
      /\ IsInjective(Tail(unread)) /\ row \notin ToSet(Tail(unread))
      /\ ToSet(unread) = {row} \cup ToSet(Tail(unread))
      /\ row \notin Memory \cup RowsOf(runs) \cup RowsOf(cursors)
  BY <1>1, NextRow
<1> HIDE DEF row
<1>5. TypeInv'
  BY <1>1, <1>2, <1>3, <1>4 DEF TypeInv
<1>6. ApartInv'
  BY <1>1, <1>2, <1>4 DEF ApartInv, Memory
<1>7. PhaseInv' /\ BudgetInv'
  BY <1>1 DEF PhaseInv, BudgetInv, Memory, RowsCounted
<1>8. Keeps
  BY <1>1, <1>2, <1>4 DEF Keeps, Remaining, PhaseInv
<1>9. QED  BY <1>5, <1>6, <1>7, <1>8

LEMMA CompactGivenUpStep ==
  ASSUME IInv, Arrives("collect"), compacting, CompactGivenUp(Head(unread)),
         UNCHANGED current_key
  PROVE  IInv' /\ Keeps
<1> USE DEF IInv
<1> DEFINE row == Head(unread)
<1>1. /\ unread # <<>> /\ unread' = Tail(unread) /\ compact' = {} /\ compacting' = FALSE
      /\ UNCHANGED <<phase, specs, cursors, emitted>>
      /\ phase = "collect"
  BY DEF CompactGivenUp, Arrives
<1>2. PICK flushed \in Flushed(compact) : PushStandardRow(row, flushed)
  BY DEF CompactGivenUp
<1>3. /\ flushed \in Seq(Seq(InputRows(specs))) /\ RunsApart(specs, flushed)
      /\ RowsOf(flushed) = RowsOf(runs) \cup compact
  BY <1>1, FlushedDoes DEF TypeInv, ApartInv, Memory
<1>4. /\ row \in InputRows(specs) /\ Tail(unread) \in Seq(InputRows(specs))
      /\ IsInjective(Tail(unread)) /\ row \notin ToSet(Tail(unread))
      /\ ToSet(unread) = {row} \cup ToSet(Tail(unread))
      /\ row \notin Memory \cup RowsOf(runs) \cup RowsOf(cursors)
  BY <1>1, NextRow
<1> HIDE DEF row
<1>5. /\ current_rows \cap RowsOf(flushed) = {} /\ row \notin current_rows
      /\ row \notin RowsOf(flushed) /\ RowsCounted
  BY <1>1, <1>3, <1>4 DEF ApartInv, Memory, BudgetInv
<1>6. /\ runs' \in Seq(Seq(InputRows(specs))) /\ RunsApart(specs, runs')
      /\ current_rows' \in SUBSET InputRows(specs) /\ IsFiniteSet(current_rows')
      /\ current_bytes' \in Nat /\ RowsCounted'
      /\ RowsOf(runs') \cup current_rows' = RowsOf(flushed) \cup current_rows \cup {row}
      /\ current_rows' \cap RowsOf(runs') = {}
  BY <1>2, <1>3, <1>4, <1>5, PushStandardRowDoes
<1>7. TypeInv'
  BY <1>1, <1>4, <1>6, FS_EmptySet DEF TypeInv
<1>8. ApartInv'
  BY <1>1, <1>3, <1>4, <1>6 DEF ApartInv, Memory
<1>9. PhaseInv' /\ BudgetInv'
  BY <1>1, <1>6, CompactUsedEmpty DEF PhaseInv, BudgetInv, Memory
<1>10. Keeps
  BY <1>1, <1>3, <1>4, <1>6 DEF Keeps, Remaining, PhaseInv
<1>11. QED  BY <1>7, <1>8, <1>9, <1>10

\* A row is collected as it is, in either way of collecting.
LEMMA PushStep ==
  ASSUME IInv, NEW state \in {"collect", "segments"}, Arrives(state),
         PushStandardRow(Head(unread), runs), UNCHANGED <<compacting, compact>>
  PROVE  /\ IInv' /\ Keeps
         /\ RowsOf(runs') \cup current_rows' = RowsOf(runs) \cup current_rows \cup {Head(unread)}
<1> USE DEF IInv
<1> DEFINE row == Head(unread)
<1>1. /\ unread # <<>> /\ unread' = Tail(unread)
      /\ UNCHANGED <<phase, specs, cursors, emitted, compacting, compact>>
      /\ phase \in {"collect", "segments"}
  BY DEF Arrives
<1>2. /\ row \in InputRows(specs) /\ Tail(unread) \in Seq(InputRows(specs))
      /\ IsInjective(Tail(unread)) /\ row \notin ToSet(Tail(unread))
      /\ ToSet(unread) = {row} \cup ToSet(Tail(unread))
      /\ row \notin Memory \cup RowsOf(runs) \cup RowsOf(cursors)
  BY <1>1, NextRow
<1>3. /\ current_rows \cap RowsOf(runs) = {} /\ row \notin current_rows
      /\ row \notin RowsOf(runs) /\ RowsCounted
      /\ runs \in Seq(Seq(InputRows(specs))) /\ RunsApart(specs, runs)
  BY <1>1, <1>2 DEF ApartInv, Memory, BudgetInv, TypeInv
<1>4. /\ runs' \in Seq(Seq(InputRows(specs))) /\ RunsApart(specs, runs')
      /\ current_rows' \in SUBSET InputRows(specs) /\ IsFiniteSet(current_rows')
      /\ current_bytes' \in Nat /\ RowsCounted'
      /\ RowsOf(runs') \cup current_rows' = RowsOf(runs) \cup current_rows \cup {row}
      /\ current_rows' \cap RowsOf(runs') = {}
  BY <1>2, <1>3, PushStandardRowDoes
<1> HIDE DEF row
<1>5. TypeInv'
  BY <1>1, <1>2, <1>4 DEF TypeInv
<1>6. ApartInv'
  BY <1>1, <1>2, <1>4 DEF ApartInv, Memory
<1>7. PhaseInv' /\ BudgetInv'
  BY <1>1, <1>4 DEF PhaseInv, BudgetInv, Memory
<1>8. Keeps
  BY <1>1, <1>2, <1>4 DEF Keeps, Remaining, PhaseInv
<1>9. QED  BY <1>4, <1>5, <1>6, <1>7, <1>8 DEF row

LEMMA StandardTakesStep == ASSUME IInv, StandardTakes PROVE IInv' /\ Keeps
BY PushStep DEF StandardTakes

LEMMA SegmentRowStep ==
  ASSUME IInv, SegmentRow
  PROVE  /\ IInv' /\ Keeps
         /\ RowsOf(runs') \cup current_rows' = RowsOf(runs) \cup current_rows \cup {Head(unread)}
BY PushStep DEF SegmentRow

LEMMA CompactRefusesStep == ASSUME IInv, CompactRefuses PROVE IInv' /\ Keeps
BY CompactFlushedStep, CompactGivenUpStep DEF CompactRefuses

LEMMA CollectedInMemoryStep == ASSUME IInv, CollectedInMemory PROVE IInv' /\ Keeps
<1> USE DEF IInv, CollectedInMemory, collectVars
<1>1. TypeInv' /\ ApartInv'
  BY DEF TypeInv, ApartInv, Memory
<1>2. PhaseInv' /\ BudgetInv'
  BY DEF PhaseInv, BudgetInv, Memory
<1>3. Keeps
  BY DEF Keeps, Remaining
<1>4. QED  BY <1>1, <1>2, <1>3

\* The collected rows become the last run and all runs are merged.
LEMMA MergeStarts ==
  ASSUME IInv, phase \in {"collect", "segments"}, phase' = "merge", runs # <<>>,
         runs' \in Flushed(Memory), cursors' = runs', compact' = {}, current_rows' = {},
         UNCHANGED <<specs, unread, compacting, emitted>>,
         current_bytes' = IF phase = "collect" THEN current_bytes ELSE 0,
         phase = "collect" => unread = <<>>
  PROVE  IInv' /\ Keeps /\ RowsOf(cursors') = RowsOf(runs) \cup Memory
<1> USE DEF IInv
<1>1. Memory \in SUBSET InputRows(specs) /\ IsFiniteSet(Memory)
  BY FS_Union DEF TypeInv, Memory
<1>2. /\ runs' \in Seq(Seq(InputRows(specs))) /\ RunsApart(specs, runs')
      /\ RowsOf(runs') = RowsOf(runs) \cup Memory /\ runs' # <<>>
  BY <1>1, FlushedDoes DEF ApartInv
<1>3. TypeInv'
  BY <1>2, FS_EmptySet DEF TypeInv
<1>4. ApartInv'
  BY <1>2 DEF ApartInv, Memory
<1>5. PhaseInv' /\ BudgetInv'
  BY <1>2, CompactUsedEmpty DEF PhaseInv, BudgetInv, Memory
<1>6. Keeps
  BY <1>2 DEF Keeps, Remaining, PhaseInv, Memory
<1>7. QED  BY <1>2, <1>3, <1>4, <1>5, <1>6

LEMMA CollectedInRunsStep == ASSUME IInv, CollectedInRuns PROVE IInv' /\ Keeps
BY MergeStarts DEF CollectedInRuns, Memory

\* The rows of a segment are put out from memory or from runs.
LEMMA FlushSegmentStep ==
  ASSUME IInv, phase = "segments", FlushSegment,
         UNCHANGED <<specs, unread, compacting, compact, emitted>>
  PROVE  /\ IInv' /\ Keeps /\ phase' \in {"emit", "merge"}
         /\ Memory' \cup RowsOf(cursors') \subseteq current_rows \cup RowsOf(runs)
<1> USE DEF IInv
<1>0. compact = {} /\ cursors = <<>> /\ Memory = current_rows
  BY DEF PhaseInv, Memory
<1>1. CASE runs = <<>>
  <2>1. phase' = "emit" /\ UNCHANGED <<current_rows, current_bytes, runs, cursors>>
    BY <1>1 DEF FlushSegment
  <2>2. TypeInv' /\ ApartInv'
    BY <2>1 DEF TypeInv, ApartInv, Memory
  <2>3. PhaseInv' /\ BudgetInv'
    BY <1>0, <1>1, <2>1 DEF PhaseInv, BudgetInv, Memory
  <2>4. Keeps
    BY <1>0, <2>1 DEF Keeps, Remaining
  <2>5. Memory' \cup RowsOf(cursors') \subseteq current_rows \cup RowsOf(runs)
    BY <1>0, <2>1, NoRuns DEF Memory
  <2>6. QED  BY <2>1, <2>2, <2>3, <2>4, <2>5
<1>2. CASE runs # <<>>
  <2>1. /\ phase' = "merge" /\ runs' \in Flushed(current_rows) /\ current_rows' = {}
        /\ current_bytes' = 0 /\ cursors' = runs'
    BY <1>2 DEF FlushSegment
  <2>2. IInv' /\ Keeps /\ RowsOf(cursors') = RowsOf(runs) \cup Memory
    BY <1>0, <1>2, <2>1, MergeStarts
  <2>3. Memory' = {}
    BY <1>0, <2>1 DEF Memory
  <2>4. QED  BY <1>0, <2>1, <2>2, <2>3
<1>3. QED  BY <1>1, <1>2

LEMMA NextSegmentStep == ASSUME IInv, NextSegment PROVE IInv' /\ Keeps
BY FlushSegmentStep DEF NextSegment

LEMMA LastSegmentStep == ASSUME IInv, LastSegment PROVE IInv' /\ Keeps
BY FlushSegmentStep DEF LastSegment

LEMMA EmitRowStep ==
  ASSUME IInv, EmitRow
  PROVE  /\ IInv' /\ Memory' \subseteq Memory
         /\ \E row \in First(specs, Memory) : Gives(row)
<1> USE DEF IInv
<1>1. PICK row \in First(specs, Memory) :
        /\ emitted' = Append(emitted, row)
        /\ compact' = compact \ {row} /\ current_rows' = current_rows \ {row}
  BY DEF EmitRow, Memory
<1>2. /\ phase = "emit" /\ row \in Memory
      /\ UNCHANGED <<phase, specs, unread, compacting, current_bytes, current_key, runs, cursors>>
  BY DEF EmitRow, First
<1>3. IsFiniteSet(compact \ {row}) /\ IsFiniteSet(current_rows \ {row})
  BY FS_RemoveElement DEF TypeInv
<1>4. TypeInv' /\ ApartInv'
  BY <1>1, <1>2, <1>3 DEF TypeInv, ApartInv, Memory
<1>5. CompactUsed(compact \ {row}) <= CompactUsed(compact)
  <2>1. \A r \in compact : CompactBytes[r] \in Nat
    BY RowsInput, ExternalSortAssumption DEF TypeInv
  <2>2. IsFiniteSet(compact) /\ compact \ {row} \in SUBSET compact
    BY DEF TypeInv
  <2>3. QED  BY <2>1, <2>2, SumOfPart, CompactUsedIs
<1>6. CompactUsed(compact') <= CompactBudget
  <2>1. \A r \in compact : CompactBytes[r] \in Nat
    BY RowsInput, ExternalSortAssumption DEF TypeInv
  <2>2. CompactUsed(compact) \in Nat
    BY <2>1, SumType, CompactUsedIs DEF TypeInv
  <2>3. CompactUsed(compact \ {row}) \in Nat
    BY <1>3, <2>1, SumType, CompactUsedIs
  <2>4. CompactBudget \in Nat
    BY ExternalSortAssumption
  <2>5. QED  BY <1>1, <1>5, <2>2, <2>3, <2>4 DEF BudgetInv
<1>7. PhaseInv' /\ BudgetInv'
  BY <1>1, <1>2, <1>6 DEF PhaseInv, BudgetInv, Memory
<1>8. Gives(row)
  BY <1>1, <1>2, NoRuns DEF Gives, Remaining, PhaseInv, ApartInv, Memory
<1>9. QED  BY <1>1, <1>4, <1>7, <1>8 DEF Memory

LEMMA EmitDoneStep == ASSUME IInv, EmitDone PROVE IInv' /\ Keeps
<1> USE DEF IInv, EmitDone
<1>1. TypeInv' /\ ApartInv'
  BY DEF TypeInv, ApartInv, Memory, AfterOutput
<1>2. PhaseInv'
  BY DEF PhaseInv, Memory, AfterOutput
<1>3. RowsCounted'
  BY NoRowsCounted DEF RowsCounted
<1>4. BudgetInv'
  BY <1>3 DEF BudgetInv
<1>5. Keeps
  BY DEF Keeps, Remaining, PhaseInv, AfterOutput
<1>6. QED  BY <1>1, <1>2, <1>4, <1>5

LEMMA PopHeapStep ==
  ASSUME IInv, PopHeap
  PROVE  /\ IInv'
         /\ \E i \in Filled : /\ \A j \in Filled : HeapFirst(i, j)
                              /\ Gives(Head(cursors[i]))
                              /\ RowsOf(cursors') \subseteq RowsOf(cursors)
<1> USE DEF IInv
<1>1. PICK i \in Filled : /\ \A j \in Filled : HeapFirst(i, j)
                          /\ emitted' = Append(emitted, Head(cursors[i]))
                          /\ cursors' = [cursors EXCEPT ![i] = Tail(@)]
  BY DEF PopHeap
<1>2. phase = "merge" /\ UNCHANGED <<phase, specs, unread, collectVars, current_key, runs>>
  BY DEF PopHeap
<1>3. i \in DOMAIN cursors /\ cursors[i] # <<>>
  BY DEF Filled
<1>4. /\ cursors' \in Seq(Seq(InputRows(specs))) /\ cursors' # <<>>
      /\ Head(cursors[i]) \in RowsOf(cursors)
      /\ RowsOf(cursors') = RowsOf(cursors) \ {Head(cursors[i])}
      /\ RunsApart(specs, cursors')
  <2>1. cursors \in Seq(Seq(InputRows(specs))) /\ RunsApart(specs, cursors)
    BY DEF TypeInv, ApartInv
  <2>2. QED  BY ZenonT(60), <1>1, <1>3, <2>1, PopRun
<1>5. TypeInv' /\ ApartInv'
  BY <1>2, <1>4 DEF collectVars, TypeInv, ApartInv, Memory
<1>6. PhaseInv' /\ BudgetInv'
  BY <1>2, <1>4 DEF collectVars, PhaseInv, BudgetInv, Memory
<1>7. Gives(Head(cursors[i]))
  BY <1>1, <1>2, <1>4 DEF collectVars, Gives, Remaining, PhaseInv, ApartInv, Memory
<1>8. QED  BY <1>1, <1>4, <1>5, <1>6, <1>7

LEMMA MergeDoneStep == ASSUME IInv, MergeDone PROVE IInv' /\ Keeps /\ runs' = <<>>
<1> USE DEF IInv, MergeDone
<1>1. RowsOf(cursors) = {}
  <2>1. \A i \in DOMAIN cursors : ToSet(cursors[i]) = {}
    BY ToSetOfEmpty DEF Filled
  <2>2. QED  BY <2>1, RowsOfRun
<1>2. TypeInv' /\ ApartInv'
  BY NoRuns DEF collectVars, TypeInv, ApartInv, Memory, AfterOutput
<1>3. PhaseInv'
  BY DEF collectVars, PhaseInv, Memory, AfterOutput
<1>4. unread # <<>> => RowsCounted'
  BY NoRowsCounted DEF collectVars, RowsCounted, PhaseInv, Memory
<1>5. BudgetInv'
  BY <1>4 DEF collectVars, BudgetInv, AfterOutput
<1>6. Keeps
  BY <1>1, NoRuns DEF collectVars, Keeps, Remaining, AfterOutput
<1>7. QED  BY <1>2, <1>3, <1>5, <1>6

LEMMA SortFailsStep == ASSUME IInv, SortFails PROVE IInv' /\ Keeps
<1> USE DEF IInv, SortFails, collectVars
<1>1. TypeInv' /\ ApartInv'
  BY DEF TypeInv, ApartInv, Memory
<1>2. PhaseInv' /\ BudgetInv'
  BY DEF PhaseInv, BudgetInv, Memory
<1>3. Keeps
  BY DEF Keeps, Remaining, PhaseInv
<1>4. QED  BY <1>1, <1>2, <1>3

LEMMA StutterStep == ASSUME IInv, UNCHANGED vars PROVE IInv' /\ Keeps
<1> USE DEF IInv, vars, collectVars
<1>1. TypeInv' /\ ApartInv' /\ PhaseInv' /\ BudgetInv'
  BY DEF TypeInv, ApartInv, PhaseInv, BudgetInv, Memory, RowsCounted
<1>2. Keeps
  BY DEF Keeps, Remaining
<1>3. QED  BY <1>1, <1>2

LEMMA StepIInv == IInv /\ [Next]_vars => IInv'
<1> SUFFICES ASSUME IInv, [Next]_vars PROVE IInv'
  OBVIOUS
<1>1. CASE Step
  BY <1>1, StreamStep, CompactTakesStep, CompactRefusesStep, StandardTakesStep,
     CollectedInMemoryStep, CollectedInRunsStep, SegmentRowStep, NextSegmentStep,
     LastSegmentStep, EmitRowStep, EmitDoneStep, PopHeapStep, MergeDoneStep DEF Step
<1>2. CASE SortFails
  BY <1>2, SortFailsStep
<1>3. CASE UNCHANGED vars
  BY <1>3, StutterStep
<1>4. QED  BY <1>1, <1>2, <1>3 DEF Next

LEMMA SpecIInv == Spec => []IInv
BY InitIInv, StepIInv, PTL DEF Spec

(* A finished sort of sort.rs has put out every row it was given and has   *)
(* released every scratch run, for any input, budgets and statistics.      *)
THEOREM SortLeavesNothing == Spec => []NothingLeft
<1>1. IInv => NothingLeft
  BY ToSetOfEmpty, NoRuns DEF IInv, PhaseInv, NothingLeft, Remaining, Memory
<1>2. QED  BY <1>1, SpecIInv, PTL

(* The rows in memory are accounted for exactly and stay within their      *)
(* budgets, except for a single row that exceeds the budget alone.         *)
THEOREM MemoryWithinBudget == Spec => []RowsWithinBudget
<1>1. IInv => RowsWithinBudget
  BY DEF IInv, BudgetInv, RowsCounted, RowsWithinBudget, SumOver
<1>2. QED  BY <1>1, SpecIInv, PTL

-----------------------------------------------------------------------------
(* The order of the output, if the statistics hold where a plan relies on  *)
(* them.                                                                   *)

KeysAscend(column, s) ==
  \A i \in 1 .. Len(s), j \in 1 .. Len(s) : i < j => Key[s[i]][column] <= Key[s[j]][column]

(* A sort that was removed reads its rows in order.  A segment has one     *)
(* first key, and a smaller one than the rows that have not arrived, when  *)
(* it is put out.                                                          *)
SegmentsInv ==
  /\ phase = "stream" => InOrder(specs, unread)
  /\ phase \in {"segments", "emit", "merge"} /\ unread # <<>> =>
       /\ specs # <<>> /\ specs[1].ascending /\ KeysAscend(specs[1].column, unread)
       /\ phase = "segments" =>
            \A row \in current_rows \cup RowsOf(runs) :
              current_key = <<FirstKey(row)>> /\ FirstKey(row) <= FirstKey(Head(unread))
       /\ phase \in {"emit", "merge"} =>
            \A row \in Memory \cup RowsOf(cursors) : FirstKey(row) < FirstKey(Head(unread))

LEMMA KeyType ==
  ASSUME NEW sort_specs \in Seq(SortSpec), sort_specs # <<>>, NEW row \in InputRows(sort_specs)
  PROVE  /\ Key[row][sort_specs[1].column] \in Int /\ 1 \in 1 .. Len(sort_specs)
         /\ sort_specs[1].ascending \in BOOLEAN
<1>1. Len(sort_specs) \in Nat \ {0}
  BY EmptySeq
<1>2. Key[row] \in Seq(Int) /\ sort_specs[1].column \in DOMAIN Key[row]
  BY <1>1, RowOrderAssumption DEF InputRows
<1>3. sort_specs[1] \in SortSpec
  BY <1>1, ElementOfSeq
<1>4. QED  BY <1>1, <1>2, <1>3, ElementOfSeq DEF SortSpec

\* A row with a greater first key does not come before, in ascending order.
LEMMA GreaterKeyIsLater ==
  ASSUME NEW sort_specs \in Seq(SortSpec), sort_specs # <<>>, sort_specs[1].ascending,
         NEW a \in InputRows(sort_specs), NEW b \in InputRows(sort_specs),
         Key[a][sort_specs[1].column] < Key[b][sort_specs[1].column]
  PROVE  ~Before(sort_specs, b, a)
<1> SUFFICES ASSUME Before(sort_specs, b, a) PROVE FALSE
  OBVIOUS
<1>1. PICK i \in 1 .. Len(sort_specs) :
        /\ Rank(sort_specs[i], b) < Rank(sort_specs[i], a)
        /\ \A j \in 1 .. i - 1 : Rank(sort_specs[j], b) = Rank(sort_specs[j], a)
  BY BeforeByRank
<1>2. /\ Key[a][sort_specs[1].column] \in Int /\ Key[b][sort_specs[1].column] \in Int
  BY KeyType
<1>3. Rank(sort_specs[1], a) < Rank(sort_specs[1], b)
  BY DEF Rank
<1>4. Rank(sort_specs[1], a) \in Int /\ Rank(sort_specs[1], b) \in Int
  BY <1>2 DEF Rank
<1>5. CASE i = 1
  BY <1>1, <1>3, <1>4, <1>5
<1>6. CASE i # 1
  <2>1. 1 \in 1 .. i - 1
    BY <1>6
  <2>2. QED  BY <1>1, <1>3, <1>4, <2>1
<1>7. QED  BY <1>5, <1>6

LEMMA InOrderTail ==
  ASSUME NEW sort_specs, NEW R, NEW s \in Seq(R), s # <<>>, InOrder(sort_specs, s)
  PROVE  InOrder(sort_specs, Tail(s))
<1>1. /\ Len(s) \in Nat /\ Len(Tail(s)) = Len(s) - 1
      /\ \A i \in 1 .. Len(s) - 1 : Tail(s)[i] = s[i + 1]
  BY SequenceTail
<1>2. \A i \in 1 .. Len(s) - 1 : i + 1 \in 1 .. Len(s)
  BY <1>1
<1>3. QED  BY <1>1, <1>2 DEF InOrder

LEMMA KeysAscendTail ==
  ASSUME NEW column, NEW R, NEW s \in Seq(R), s # <<>>, KeysAscend(column, s)
  PROVE  /\ KeysAscend(column, Tail(s))
         /\ \A row \in ToSet(Tail(s)) : Key[Head(s)][column] <= Key[row][column]
         /\ Tail(s) # <<>> => Head(Tail(s)) \in ToSet(Tail(s))
<1>1. /\ Len(s) \in Nat /\ Len(Tail(s)) = Len(s) - 1 /\ Head(s) = s[1] /\ 1 \in 1 .. Len(s)
      /\ \A i \in 1 .. Len(s) - 1 : Tail(s)[i] = s[i + 1]
      /\ Tail(s) \in Seq(R)
  BY SequenceTail
<1>2. \A i \in 1 .. Len(s) - 1 : i + 1 \in 1 .. Len(s) /\ 1 < i + 1
  BY <1>1
<1>3. KeysAscend(column, Tail(s))
  BY <1>1, <1>2 DEF KeysAscend
<1>4. \A i \in 1 .. Len(s) - 1 : Key[Head(s)][column] <= Key[Tail(s)[i]][column]
  BY <1>1, <1>2 DEF KeysAscend
<1>5. DOMAIN Tail(s) = 1 .. Len(s) - 1
  BY <1>1, ToSetType
<1>6. \A row \in ToSet(Tail(s)) : Key[Head(s)][column] <= Key[row][column]
  BY <1>4, <1>5 DEF ToSet
<1>7. ASSUME Tail(s) # <<>> PROVE Head(Tail(s)) \in ToSet(Tail(s))
  <2>1. ToSet(Tail(s)) = {Head(Tail(s))} \cup ToSet(Tail(Tail(s)))
    BY <1>1, <1>7, SequenceTail
  <2>2. QED  BY <2>1
<1>8. QED  BY <1>3, <1>6, <1>7

LEMMA InitSegmentsInv ==
  ASSUME \A request \in Requests : StatisticsHold(request), Init
  PROVE  SegmentsInv
<1>0. IInv
  BY InitIInv
<1>1. PICK request \in Requests :
        /\ specs = request.specs /\ unread = request.rows
        /\ phase = IF SortRedundant(request) THEN "stream"
                   ELSE IF Segmented(request) THEN "segments" ELSE "collect"
  BY DEF Init
<1>2. /\ specs \in Seq(SortSpec) /\ unread \in Seq(InputRows(specs))
      /\ DOMAIN unread = 1 .. Len(unread)
      /\ \A i \in 1 .. Len(unread) : unread[i] \in InputRows(specs)
  BY <1>0, ToSetType DEF IInv, TypeInv
<1>3. CASE SortRedundant(request)
  <2>1. phase = "stream" /\ Len(specs) = 1 /\ specs # <<>> /\ specs[1].ascending /\ request.ordered
    BY <1>1, <1>2, <1>3, EmptySeq DEF SortRedundant
  <2>2. KeysAscend(specs[1].column, unread)
    BY <1>1, <1>2, <2>1 DEF StatisticsHold, KeysAscend
  <2>3. ASSUME NEW i \in 1 .. Len(unread), NEW j \in 1 .. Len(unread), i < j
        PROVE  ~Before(specs, unread[j], unread[i])
    <3>1. Key[unread[i]][specs[1].column] <= Key[unread[j]][specs[1].column]
      BY <2>2, <2>3 DEF KeysAscend
    <3>2. /\ Key[unread[i]][specs[1].column] \in Int /\ Key[unread[j]][specs[1].column] \in Int
      BY <1>2, <2>1, KeyType
    <3>3. ~Decides(specs[1], unread[j], unread[i])
      BY <2>1, <3>1, <3>2 DEF Decides
    <3>4. QED  BY <2>1, <3>3 DEF Before
  <2>4. QED  BY <2>1, <2>3 DEF SegmentsInv, InOrder
<1>4. CASE ~SortRedundant(request) /\ Segmented(request)
  <2>1. phase = "segments" /\ specs # <<>> /\ specs[1].ascending /\ request.ordered
    BY <1>1, <1>4 DEF Segmented
  <2>2. KeysAscend(specs[1].column, unread)
    BY <1>1, <1>2, <2>1 DEF StatisticsHold, KeysAscend
  <2>3. current_rows = {} /\ RowsOf(runs) = {}
    BY NoRuns DEF Init
  <2>4. QED  BY <2>1, <2>2, <2>3 DEF SegmentsInv
<1>5. CASE ~SortRedundant(request) /\ ~Segmented(request)
  BY <1>1, <1>5 DEF SegmentsInv
<1>6. QED  BY <1>3, <1>4, <1>5

\* A row of the segment arrives.
LEMMA SegmentRowKeys == ASSUME IInv, SegmentsInv, SegmentRow PROVE SegmentsInv'
<1>1. /\ phase = "segments" /\ phase' = phase /\ unread # <<>> /\ unread' = Tail(unread)
      /\ specs' = specs /\ current_key \in {<<>>, <<FirstKey(Head(unread))>>}
      /\ current_key' = <<FirstKey(Head(unread))>>
  BY DEF SegmentRow, Arrives
<1>2. RowsOf(runs') \cup current_rows' = RowsOf(runs) \cup current_rows \cup {Head(unread)}
  BY SegmentRowStep
<1>3. /\ specs # <<>> /\ specs[1].ascending /\ KeysAscend(specs[1].column, unread)
      /\ \A row \in current_rows \cup RowsOf(runs) : current_key = <<FirstKey(row)>>
  BY <1>1 DEF SegmentsInv
<1>4. \A row \in current_rows' \cup RowsOf(runs') : FirstKey(row) = FirstKey(Head(unread))
  BY <1>1, <1>2, <1>3
<1>5. /\ KeysAscend(specs[1].column, Tail(unread))
      /\ Tail(unread) # <<>> => FirstKey(Head(unread)) <= FirstKey(Head(Tail(unread)))
  BY <1>1, <1>3, KeysAscendTail DEF IInv, TypeInv, FirstKey
<1>6. QED  BY <1>1, <1>3, <1>4, <1>5 DEF SegmentsInv, FirstKey

\* The segment is complete: the next row has a greater key.
LEMMA NextSegmentKeys == ASSUME IInv, SegmentsInv, NextSegment PROVE SegmentsInv'
<1>1. /\ phase = "segments" /\ unread # <<>> /\ specs' = specs /\ unread' = unread
      /\ current_key \notin {<<>>, <<FirstKey(Head(unread))>>}
  BY DEF NextSegment
<1>2. /\ phase' \in {"emit", "merge"}
      /\ Memory' \cup RowsOf(cursors') \subseteq current_rows \cup RowsOf(runs)
  BY <1>1, FlushSegmentStep DEF NextSegment
<1>3. /\ specs # <<>> /\ specs[1].ascending /\ KeysAscend(specs[1].column, unread)
      /\ \A row \in current_rows \cup RowsOf(runs) :
           current_key = <<FirstKey(row)>> /\ FirstKey(row) <= FirstKey(Head(unread))
  BY <1>1 DEF SegmentsInv
<1>4. /\ specs \in Seq(SortSpec) /\ Head(unread) \in InputRows(specs)
      /\ current_rows \subseteq InputRows(specs) /\ RowsOf(runs) \subseteq InputRows(specs)
  <2>1. \A i \in DOMAIN runs : ToSet(runs[i]) \subseteq InputRows(specs)
    BY ToSetType DEF IInv, TypeInv
  <2>2. QED  BY <1>1, <2>1, NextRow, RowsOfRun DEF IInv, TypeInv
<1>5. \A row \in current_rows \cup RowsOf(runs) : FirstKey(row) < FirstKey(Head(unread))
  <2> TAKE row \in current_rows \cup RowsOf(runs)
  <2>1. FirstKey(row) \in Int /\ FirstKey(Head(unread)) \in Int
    BY <1>3, <1>4, KeyType DEF FirstKey
  <2>2. FirstKey(row) # FirstKey(Head(unread))
    BY <1>1, <1>3
  <2>3. QED  BY <1>3, <2>1, <2>2
<1>6. QED  BY <1>1, <1>2, <1>3, <1>5 DEF SegmentsInv, FirstKey

LEMMA StepSegmentsInv == IInv /\ SegmentsInv /\ [Next]_vars => SegmentsInv'
<1> SUFFICES ASSUME IInv, SegmentsInv, [Next]_vars PROVE SegmentsInv'
  OBVIOUS
<1>1. CASE Stream
  BY <1>1, InOrderTail DEF Stream, SegmentsInv, IInv, TypeInv
<1>2. CASE CompactTakes \/ CompactRefuses \/ StandardTakes
  BY <1>2 DEF CompactTakes, CompactRefuses, StandardTakes, Arrives, SegmentsInv
<1>3. CASE CollectedInMemory \/ CollectedInRuns
  BY <1>3 DEF CollectedInMemory, CollectedInRuns, SegmentsInv
<1>4. CASE SegmentRow
  BY <1>4, SegmentRowKeys
<1>5. CASE NextSegment
  BY <1>5, NextSegmentKeys
<1>6. CASE LastSegment
  <2>1. unread' = <<>> /\ phase' \in {"emit", "merge"}
    BY <1>6, FlushSegmentStep DEF LastSegment
  <2>2. QED  BY <2>1 DEF SegmentsInv
<1>7. CASE EmitRow
  <2>1. /\ phase = "emit" /\ Memory' \subseteq Memory
        /\ UNCHANGED <<phase, specs, unread, runs, cursors>>
    BY <1>7, EmitRowStep DEF EmitRow
  <2>2. QED  BY <2>1 DEF SegmentsInv, FirstKey
<1>8. CASE EmitDone
  <2>1. current_rows' = {} /\ RowsOf(runs') = {}
    BY <1>8, NoRuns DEF EmitDone, IInv, PhaseInv
  <2>2. QED  BY <1>8, <2>1 DEF EmitDone, AfterOutput, SegmentsInv
<1>9. CASE PopHeap
  <2>1. /\ phase = "merge" /\ RowsOf(cursors') \subseteq RowsOf(cursors)
        /\ UNCHANGED <<phase, specs, unread, compact, current_rows, runs>>
    BY <1>9, PopHeapStep DEF PopHeap, collectVars
  <2>2. Memory' = Memory
    BY <2>1 DEF Memory
  <2>3. QED  BY <2>1, <2>2 DEF SegmentsInv, FirstKey
<1>10. CASE MergeDone
  <2>1. current_rows' = {} /\ RowsOf(runs') = {}
    BY <1>10, NoRuns DEF MergeDone, collectVars, IInv, PhaseInv, Memory
  <2>2. QED  BY <1>10, <2>1 DEF MergeDone, AfterOutput, SegmentsInv
<1>11. CASE SortFails
  BY <1>11 DEF SortFails, SegmentsInv
<1>12. CASE UNCHANGED vars
  BY <1>12 DEF vars, collectVars, SegmentsInv, Memory, FirstKey
<1>13. QED
  BY <1>1, <1>2, <1>3, <1>4, <1>5, <1>6, <1>7, <1>8, <1>9, <1>10, <1>11, <1>12 DEF Next, Step

-----------------------------------------------------------------------------
(* The steps are steps of SortedStream.                                    *)

\* The instance's order is this module's.
LEMMA SortedFirst ==
  ASSUME NEW sort_specs, NEW S
  PROVE  Sorted!First(sort_specs, S) = First(sort_specs, S) /\ Sorted!SortSpec = SortSpec
BY DEF Sorted!First, Sorted!Before, Sorted!Decides, Sorted!SortSpec,
       First, Before, Decides, SortSpec

LEMMA GivesIsNext ==
  ASSUME NEW row \in First(specs, Remaining), Gives(row)
  PROVE  Sorted!Next
BY SortedFirst DEF Gives, Sorted!Next, Sorted!Emit

LEMMA KeepsIsStutter == ASSUME Keeps PROVE UNCHANGED Sorted!vars
BY DEF Keeps, Sorted!vars

LEMMA NotBeforeItself ==
  ASSUME NEW sort_specs \in Seq(SortSpec), NEW a \in InputRows(sort_specs)
  PROVE  ~Before(sort_specs, a, a)
BY BeforeAsymmetric

LEMMA StreamIsNext ==
  ASSUME IInv, SegmentsInv, Stream, unread # <<>>
  PROVE  Head(unread) \in First(specs, Remaining)
<1>1. /\ InOrder(specs, unread) /\ specs \in Seq(SortSpec) /\ unread \in Seq(InputRows(specs))
      /\ phase = "stream" /\ Memory = {} /\ runs = <<>> /\ cursors = <<>>
  BY DEF IInv, SegmentsInv, TypeInv, PhaseInv, Stream
<1>2. Remaining = ToSet(unread)
  BY <1>1, NoRuns DEF Remaining, Memory
<1>3. /\ DOMAIN unread = 1 .. Len(unread) /\ Len(unread) \in Nat
      /\ Head(unread) = unread[1] /\ 1 \in 1 .. Len(unread) /\ unread[1] \in InputRows(specs)
  BY <1>1, ToSetType, SequenceTail
<1>4. ASSUME NEW i \in 1 .. Len(unread) PROVE ~Before(specs, unread[i], Head(unread))
  <2>1. CASE i = 1
    BY <1>1, <1>3, <2>1, NotBeforeItself
  <2>2. CASE 1 < i
    BY <1>1, <1>3, <2>2 DEF InOrder
  <2>3. QED  BY <1>3, <2>1, <2>2
<1>5. Head(unread) \in ToSet(unread)
  BY <1>3 DEF ToSet
<1>6. \A other \in ToSet(unread) : ~Before(specs, other, Head(unread))
  BY <1>3, <1>4 DEF ToSet
<1>7. QED  BY <1>2, <1>5, <1>6 DEF First

(* A row that comes first among the rows of the segment comes first among  *)
(* all the rows that are left.                                             *)
LEMMA FirstOfSegment ==
  ASSUME IInv, SegmentsInv, phase \in {"emit", "merge"},
         NEW S, S = Memory \cup RowsOf(cursors), Remaining = ToSet(unread) \cup S,
         NEW row \in First(specs, S)
  PROVE  row \in First(specs, Remaining)
<1>1. row \in S /\ \A other \in S : ~Before(specs, other, row)
  BY DEF First
<1>2. ASSUME NEW other \in ToSet(unread) PROVE ~Before(specs, other, row)
  <2>1. unread # <<>> /\ specs \in Seq(SortSpec) /\ unread \in Seq(InputRows(specs))
    BY <1>2, ToSetOfEmpty DEF IInv, TypeInv
  <2>2. /\ specs # <<>> /\ specs[1].ascending /\ KeysAscend(specs[1].column, unread)
        /\ FirstKey(row) < FirstKey(Head(unread))
    BY <1>1, <2>1 DEF SegmentsInv
  <2>3. other = Head(unread) \/ other \in ToSet(Tail(unread))
    BY <1>2, <2>1, SequenceTail
  <2>4. other = Head(unread) \/ FirstKey(Head(unread)) <= FirstKey(other)
    BY <2>1, <2>2, <2>3, KeysAscendTail DEF FirstKey
  <2>5. other \in InputRows(specs) /\ Head(unread) \in InputRows(specs)
    BY <1>2, <2>1, ToSetType, NextRow
  <2>6. row \in InputRows(specs)
    <3>1. \A i \in DOMAIN cursors : ToSet(cursors[i]) \subseteq InputRows(specs)
      BY ToSetType DEF IInv, TypeInv
    <3>2. QED  BY <1>1, <3>1, RowsOfRun DEF IInv, TypeInv, Memory
  <2>7. /\ FirstKey(row) \in Int /\ FirstKey(other) \in Int /\ FirstKey(Head(unread)) \in Int
    BY <2>1, <2>2, <2>5, <2>6, KeyType DEF FirstKey
  <2>8. FirstKey(row) < FirstKey(other)
    BY <2>2, <2>4, <2>7
  <2>9. QED  BY <2>1, <2>2, <2>5, <2>6, <2>8, GreaterKeyIsLater DEF FirstKey
<1>3. QED  BY <1>1, <1>2 DEF First

LEMMA EmitRowIsNext == ASSUME IInv, SegmentsInv, EmitRow PROVE Sorted!Next
<1>1. PICK row \in First(specs, Memory) : Gives(row)
  BY EmitRowStep
<1>2. phase = "emit" /\ cursors = <<>> /\ runs = <<>> /\ RowsOf(<<>>) = {}
  BY NoRuns DEF EmitRow, IInv, PhaseInv
<1>3. Remaining = ToSet(unread) \cup Memory /\ Memory = Memory \cup RowsOf(cursors)
  BY <1>2 DEF Remaining, Memory
<1>4. row \in First(specs, Remaining)
  BY <1>2, <1>3, FirstOfSegment
<1>5. QED  BY <1>1, <1>4, GivesIsNext

\* The first row of the heap comes first among the rows of all runs.
LEMMA HeapFirstIsFirst ==
  ASSUME IInv, NEW i \in Filled, \A j \in Filled : HeapFirst(i, j)
  PROVE  Head(cursors[i]) \in First(specs, RowsOf(cursors))
<1>1. /\ specs \in Seq(SortSpec) /\ cursors \in Seq(Seq(InputRows(specs)))
      /\ RunsApart(specs, cursors)
  BY DEF IInv, TypeInv, ApartInv
<1>2. \A j \in Filled :
        /\ j \in DOMAIN cursors /\ cursors[j] \in Seq(InputRows(specs)) /\ cursors[j] # <<>>
        /\ InOrder(specs, cursors[j])
  <2> TAKE j \in Filled
  <2>1. j \in DOMAIN cursors /\ cursors[j] # <<>>
    BY DEF Filled
  <2>2. cursors[j] \in Seq(InputRows(specs))
    BY <1>1, <2>1, ToSetType
  <2>3. QED  BY <1>1, <2>1, <2>2 DEF RunsApart
<1>3. \A j \in Filled : /\ Head(cursors[j]) = cursors[j][1] /\ 1 \in 1 .. Len(cursors[j])
                        /\ DOMAIN cursors[j] = 1 .. Len(cursors[j])
                        /\ \A k \in 1 .. Len(cursors[j]) : cursors[j][k] \in InputRows(specs)
  BY <1>2, SequenceTail, ToSetType
<1>4. ASSUME NEW other \in RowsOf(cursors)
      PROVE  ~Before(specs, other, Head(cursors[i]))
  <2>1. PICK j \in DOMAIN cursors : other \in ToSet(cursors[j])
    BY RowsOfRun
  <2>2. j \in Filled
    BY <2>1, ToSetOfEmpty DEF Filled
  <2>3. PICK k \in 1 .. Len(cursors[j]) : other = cursors[j][k]
    BY <1>3, <2>1, <2>2 DEF ToSet
  <2>4. ~Before(specs, other, Head(cursors[j]))
    <3>1. CASE k = 1
      BY <1>1, <1>3, <2>2, <2>3, <3>1, NotBeforeItself
    <3>2. CASE 1 < k
      BY <1>2, <1>3, <2>2, <2>3, <3>2 DEF InOrder
    <3>3. QED  BY <3>1, <3>2
  <2>5. /\ other \in InputRows(specs) /\ Head(cursors[i]) \in InputRows(specs)
        /\ Head(cursors[j]) \in InputRows(specs)
    BY <1>3, <2>2, <2>3
  <2>6. ~Before(specs, Head(cursors[j]), Head(cursors[i]))
    <3>1. HeapFirst(i, j)
      BY <2>2
    <3>2. QED  BY <1>1, <2>5, <3>1, BeforeAsymmetric DEF HeapFirst
  <2>7. QED  BY <1>1, <2>4, <2>5, <2>6, NotBeforeTransitive
<1>5. Head(cursors[i]) \in RowsOf(cursors)
  <2>1. Head(cursors[i]) \in ToSet(cursors[i])
    BY <1>3 DEF ToSet
  <2>2. QED  BY <1>2, <2>1, RowsOfRun
<1>6. QED  BY <1>4, <1>5 DEF First

LEMMA PopHeapIsNext == ASSUME IInv, SegmentsInv, PopHeap PROVE Sorted!Next
<1>1. PICK i \in Filled : /\ \A j \in Filled : HeapFirst(i, j)
                          /\ Gives(Head(cursors[i]))
  BY PopHeapStep
<1>2. phase = "merge" /\ Memory = {}
  BY DEF PopHeap, IInv, PhaseInv
<1>3. /\ Remaining = ToSet(unread) \cup RowsOf(cursors)
      /\ RowsOf(cursors) = Memory \cup RowsOf(cursors)
  BY <1>2 DEF Remaining, Memory
<1>4. Head(cursors[i]) \in First(specs, RowsOf(cursors))
  BY <1>1, HeapFirstIsFirst
<1>5. Head(cursors[i]) \in First(specs, Remaining)
  BY <1>2, <1>3, <1>4, FirstOfSegment
<1>6. QED  BY <1>1, <1>5, GivesIsNext

LEMMA StepIsStreamStep ==
  IInv /\ SegmentsInv /\ [Next]_vars => [Sorted!Next]_(Sorted!vars)
<1> SUFFICES ASSUME IInv, SegmentsInv, [Next]_vars
             PROVE  Sorted!Next \/ UNCHANGED Sorted!vars
  OBVIOUS
<1>1. CASE Stream
  BY <1>1, StreamStep, StreamIsNext, GivesIsNext, KeepsIsStutter
<1>2. CASE EmitRow
  BY <1>2, EmitRowIsNext
<1>3. CASE PopHeap
  BY <1>3, PopHeapIsNext
<1>4. CASE \/ CompactTakes \/ CompactRefuses \/ StandardTakes \/ CollectedInMemory
           \/ CollectedInRuns \/ SegmentRow \/ NextSegment \/ LastSegment \/ EmitDone
           \/ MergeDone \/ SortFails
  <2>1. Keeps
    BY <1>4, CompactTakesStep, CompactRefusesStep, StandardTakesStep, CollectedInMemoryStep,
       CollectedInRunsStep, SegmentRowStep, NextSegmentStep, LastSegmentStep, EmitDoneStep,
       MergeDoneStep, SortFailsStep
  <2>2. QED  BY <2>1, KeepsIsStutter
<1>5. CASE UNCHANGED vars
  BY <1>5, StutterStep, KeepsIsStutter
<1>6. QED  BY <1>1, <1>2, <1>3, <1>4, <1>5 DEF Next, Step

LEMMA InitIsStreamInit == Init => Sorted!Init
<1> SUFFICES ASSUME Init PROVE Sorted!Init
  OBVIOUS
<1>1. IInv
  BY InitIInv
<1>2. specs \in Seq(SortSpec) /\ emitted = <<>>
  BY <1>1 DEF IInv, TypeInv, Init
<1>3. Remaining \in SUBSET Rows
  <2>1. ToSet(unread) \subseteq Rows
    BY <1>1, ToSetType, RowsInput DEF IInv, TypeInv
  <2>2. compact = {} /\ current_rows = {} /\ runs = <<>> /\ cursors = <<>>
    BY DEF Init
  <2>3. QED  BY <2>1, <2>2, NoRuns DEF Remaining
<1>4. QED  BY <1>2, <1>3, SortedFirst DEF Sorted!Init

(* However the rows are collected, spilled and merged: the sort of sort.rs *)
(* puts out its input rows, each once, in the order of the sort specs, for *)
(* any input, number of runs and budgets, if the statistics are right.     *)
(* (ExternalSortHints shows the order fails otherwise.)                    *)
THEOREM SortImplementsStream ==
  ASSUME \A request \in Requests : StatisticsHold(request)
  PROVE  Spec => ImplementsSortedStream
<1>1. Init => SegmentsInv
  BY InitSegmentsInv
<1>2. Spec => []SegmentsInv
  BY <1>1, SpecIInv, StepSegmentsInv, PTL DEF Spec
<1>3. QED
  BY <1>2, InitIsStreamInit, SpecIInv, StepIsStreamStep, PTL
     DEF Spec, ImplementsSortedStream, Sorted!Spec

=============================================================================
