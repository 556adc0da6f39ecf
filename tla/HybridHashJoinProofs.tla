------------------------ MODULE HybridHashJoinProofs ------------------------
(***************************************************************************)
(* Proofs that the equality join emits every matching pair exactly once,   *)
(* for any inputs, digests, budgets, fanout and depth.                     *)
(*                                                                         *)
(* The inductive invariant says for each phase where a matching pair still *)
(* is: its rows have not arrived, or both are in the runs of one pair of   *)
(* partitions that is still to be joined (Pending), or it has been emitted *)
(* once.  Its parts are each about one phase, so a step is about the part  *)
(* of the phase it leads to.                                               *)
(***************************************************************************)
EXTENDS HybridHashJoin, DataLemmas

AllPairs == Left \X Right

\* The build row and the probe row of a pair.
BuildRowOf(x) == IF build_is_left THEN x[1] ELSE x[2]
ProbeRowOf(x) == IF build_is_left THEN x[2] ELSE x[1]

\* Before anything has been partitioned, all runs and tables are empty.
FreshInv ==
  /\ phase \in {"plan", "direct_build", "direct_probe"} =>
       /\ resident = NoRows
       /\ build_runs = [d \in Depths |-> NoRows] /\ probe_runs = [d \in Depths |-> NoRows]
  /\ phase = "plan" => table = {}
  /\ phase = "direct_build" => attempts < 2
  /\ phase \notin {"pairs", "done", "failed"} => depth = 0 /\ partition_index[0] = 0

\* No pair is emitted before the first probe row is read.
NothingYet ==
  phase \in {"plan", "direct_build", "build"} => \A x \in AllPairs : emitted[x] = 0

DirectInv ==
  /\ phase = "direct_build" => unread \subseteq BuildRows /\ table = BuildRows \ unread
  /\ phase = "direct_probe" =>
       /\ unread \subseteq ProbeRows /\ table = BuildRows
       /\ \A x \in AllPairs :
            emitted[x] = IF x \in Match /\ ProbeRowOf(x) \notin unread THEN 1 ELSE 0

\* Where the build rows are while and after they arrive.
ArrivedBuildRows == BuildRows \ (IF phase = "build" THEN unread ELSE {})

BuildInv ==
  phase \in {"build", "probe"} =>
    /\ phase = "build" => unread \subseteq BuildRows /\ probe_runs[0] = NoRows
    /\ \A p \in Partitions : IF spilled[p] THEN resident[p] = {} ELSE build_runs[0][p] = {}
    /\ \A p \in Partitions : \A row \in resident[p] \cup build_runs[0][p] : PartitionOf(row) = p
    /\ \A row \in ArrivedBuildRows :
         /\ row \in resident[PartitionOf(row)] \cup build_runs[0][PartitionOf(row)]
         /\ BloomBits[Digest[row]] \subseteq join_filter

\* Where a matching pair is while the probe rows arrive.
ProbeInv ==
  phase = "probe" =>
    /\ unread \subseteq ProbeRows
    /\ \A p \in Partitions : \A row \in probe_runs[0][p] : PartitionOf(row) = p
    /\ \A x \in AllPairs :
         emitted[x] = IF /\ x \in Match /\ ProbeRowOf(x) \notin unread
                         /\ ~spilled[PartitionOf(ProbeRowOf(x))]
                      THEN 1 ELSE 0
    /\ \A x \in Match :
         ProbeRowOf(x) \notin unread /\ spilled[PartitionOf(ProbeRowOf(x))]
           => ProbeRowOf(x) \in probe_runs[0][PartitionOf(ProbeRowOf(x))]

\* Partition p of depth d is still to be joined.
StillToJoin(d, p) == IF d = depth THEN p >= partition_index[d] ELSE p > partition_index[d]

\* Both rows of a pair are in a pair of runs that is still to be joined.
Pending(x) ==
  \E d \in 0 .. depth, p \in Partitions :
    /\ StillToJoin(d, p)
    /\ BuildRowOf(x) \in build_runs[d][p]
    /\ ProbeRowOf(x) \in probe_runs[d][p]

\* Rows are in the partition of their digest.
RowsInPlace ==
  \A d \in 0 .. depth, p \in Partitions :
    \A row \in build_runs[d][p] \cup probe_runs[d][p] : PartitionIndex(Digest[row], d) = p

\* The runs of a recursive call come from the pair its callers are at.
FramesNest ==
  \A d \in 0 .. depth, e \in 0 .. depth :
    d < e =>
      /\ partition_index[d] < Fanout
      /\ \A p \in Partitions : /\ build_runs[e][p] \subseteq build_runs[d][partition_index[d]]
                               /\ probe_runs[e][p] \subseteq probe_runs[d][partition_index[d]]

\* A matching pair is pending or has been emitted.
PairsInv ==
  phase = "pairs" =>
    /\ RowsInPlace /\ FramesNest
    /\ \A x \in AllPairs : emitted[x] = IF x \in Match /\ ~Pending(x) THEN 1 ELSE 0

EndInv ==
  /\ phase = "done" => \A x \in AllPairs : emitted[x] = IF x \in Match THEN 1 ELSE 0
  /\ phase = "failed" => NothingEmittedTwice

IInv ==
  /\ TypeOK
  /\ FreshInv /\ NothingYet /\ DirectInv /\ BuildInv /\ ProbeInv /\ PairsInv /\ EndInv

-----------------------------------------------------------------------------
(* Operators.                                                              *)

LEMMA PartitionsFacts ==
  /\ 0 \in Partitions /\ Partitions \subseteq Nat /\ Fanout \notin Partitions
  /\ 0 \in Depths /\ Depths \subseteq Nat
BY HybridHashJoinAssumption DEF Partitions, Depths

\* A row is in one of the partitions at every depth.
LEMMA PartitionIndexType ==
  ASSUME NEW row \in Rows, NEW d \in Depths
  PROVE  PartitionIndex(Digest[row], d) \in Partitions
BY HybridHashJoinAssumption DEF PartitionIndex

\* A pair is made of a build row and a probe row, with one digest if it matches.
LEMMA RowsOfPair ==
  ASSUME NEW x \in AllPairs, build_is_left \in BOOLEAN
  PROVE  /\ BuildRowOf(x) \in BuildRows /\ ProbeRowOf(x) \in ProbeRows
         /\ BuildRowOf(x) \in Rows /\ ProbeRowOf(x) \in Rows
         /\ x \in Match => Digest[BuildRowOf(x)] = Digest[ProbeRowOf(x)]
BY HybridHashJoinAssumption DEF AllPairs, BuildRowOf, ProbeRowOf, BuildRows, ProbeRows, Rows

LEMMA MatchPairs == Match \subseteq AllPairs
BY HybridHashJoinAssumption DEF AllPairs

(* Probing a table over S with rows of T emits the matching pairs of S and *)
(* T, in either orientation: equal keys have equal digests.                *)
LEMMA HashMatchesAre ==
  ASSUME NEW S, NEW T, NEW is_left \in BOOLEAN
  PROVE  /\ HashMatches(S, T, is_left) \subseteq Match
         /\ \A x \in Match :
              x \in HashMatches(S, T, is_left)
                <=> IF is_left THEN x[1] \in S /\ x[2] \in T ELSE x[2] \in S /\ x[1] \in T
<1>1. HashMatches(S, T, is_left) \subseteq Match
  BY DEF HashMatches
<1>2. ASSUME NEW x \in Match
      PROVE  x \in HashMatches(S, T, is_left)
               <=> IF is_left THEN x[1] \in S /\ x[2] \in T ELSE x[2] \in S /\ x[1] \in T
  <2>1. /\ x = <<x[1], x[2]>> /\ Digest[x[1]] = Digest[x[2]]
    BY HybridHashJoinAssumption
  <2>2. CASE is_left
    BY <2>1, <2>2 DEF HashMatches, Combine
  <2>3. CASE ~is_left
    <3> DEFINE y == <<x[2], x[1]>>
    <3>1. y[1] = x[2] /\ y[2] = x[1] /\ x = <<y[2], y[1]>>
      BY <2>1
    <3>2. x \in HashMatches(S, T, is_left) <=> y \in S \X T
      BY <2>1, <2>3, <3>1 DEF HashMatches, Combine
    <3>3. QED  BY <2>3, <3>1, <3>2
  <2>4. QED  BY <2>2, <2>3
<1>3. QED  BY <1>1, <1>2

LEMMA LoopMatchesAre ==
  ASSUME NEW S, NEW T, NEW is_left \in BOOLEAN
  PROVE  /\ LoopMatches(S, T, is_left) \subseteq Match
         /\ \A x \in Match :
              x \in LoopMatches(S, T, is_left)
                <=> IF is_left THEN x[1] \in S /\ x[2] \in T ELSE x[2] \in S /\ x[1] \in T
<1>1. LoopMatches(S, T, is_left) \subseteq Match
  BY DEF LoopMatches
<1>2. ASSUME NEW x \in Match
      PROVE  x \in LoopMatches(S, T, is_left)
               <=> IF is_left THEN x[1] \in S /\ x[2] \in T ELSE x[2] \in S /\ x[1] \in T
  <2>1. x = <<x[1], x[2]>>
    BY HybridHashJoinAssumption
  <2>2. CASE is_left
    BY <2>1, <2>2 DEF LoopMatches, Combine
  <2>3. CASE ~is_left
    <3> DEFINE y == <<x[2], x[1]>>
    <3>1. y[1] = x[2] /\ y[2] = x[1] /\ x = <<y[2], y[1]>>
      BY <2>1
    <3>2. x \in LoopMatches(S, T, is_left) <=> y \in S \X T
      BY <2>1, <2>3, <3>1 DEF LoopMatches, Combine
    <3>3. QED  BY <2>3, <3>1, <3>2
  <2>4. QED  BY <2>2, <2>3
<1>3. QED  BY <1>1, <1>2

\* Emitting a set of pairs counts each of them once.
LEMMA EmitCounts ==
  ASSUME emitted \in [AllPairs -> Nat], NEW pairs, Emit(pairs)
  PROVE  /\ emitted' \in [AllPairs -> Nat]
         /\ \A x \in AllPairs : emitted'[x] = emitted[x] + (IF x \in pairs THEN 1 ELSE 0)
BY DEF Emit, AllPairs

-----------------------------------------------------------------------------
THEOREM InitIInv == Init => IInv
<1> SUFFICES ASSUME Init PROVE IInv
  OBVIOUS
<1>1. TypeOK
  BY HybridHashJoinAssumption, PartitionsFacts DEF Init, TypeOK, NoRows
<1>2. FreshInv /\ NothingYet
  BY PartitionsFacts DEF Init, FreshInv, NothingYet, AllPairs
<1>3. DirectInv /\ BuildInv /\ ProbeInv /\ PairsInv /\ EndInv
  BY DEF Init, DirectInv, BuildInv, ProbeInv, PairsInv, EndInv
<1>4. QED  BY <1>1, <1>2, <1>3 DEF IInv

-----------------------------------------------------------------------------
(* The direct build attempts.                                              *)

LEMMA PassOverDirectStep == ASSUME IInv, PassOverDirect PROVE IInv'
<1> USE DEF IInv, PassOverDirect, runVars, residentVars
<1>1. TypeOK'
  BY DEF TypeOK, FreshInv, NoRows, BuildRows, ProbeRows
<1>2. FreshInv' /\ NothingYet'
  BY DEF FreshInv, NothingYet
<1>3. DirectInv' /\ BuildInv' /\ ProbeInv' /\ PairsInv' /\ EndInv'
  BY DEF DirectInv, BuildInv, ProbeInv, PairsInv, EndInv
<1>4. QED  BY <1>1, <1>2, <1>3

LEMMA TryDirectStep == ASSUME IInv, TryDirect PROVE IInv'
<1> USE DEF IInv, TryDirect, runVars, residentVars
<1>1. TypeOK'
  BY DEF TypeOK, Rows, BuildRows, ProbeRows
<1>2. FreshInv' /\ NothingYet'
  BY DEF FreshInv, NothingYet
<1>3. DirectInv'
  BY DEF DirectInv, BuildRows
<1>4. BuildInv' /\ ProbeInv' /\ PairsInv' /\ EndInv'
  BY DEF BuildInv, ProbeInv, PairsInv, EndInv
<1>5. QED  BY <1>1, <1>2, <1>3, <1>4

LEMMA DirectInsertStep == ASSUME IInv, DirectInsert PROVE IInv'
<1> USE DEF IInv, DirectInsert, runVars, residentVars
<1>1. TypeOK'
  BY DEF TypeOK, DirectInv, BuildRows, ProbeRows
<1>2. FreshInv' /\ NothingYet'
  BY DEF FreshInv, NothingYet
<1>3. DirectInv'
  BY DEF DirectInv, BuildRows
<1>4. BuildInv' /\ ProbeInv' /\ PairsInv' /\ EndInv'
  BY DEF BuildInv, ProbeInv, PairsInv, EndInv
<1>5. QED  BY <1>1, <1>2, <1>3, <1>4

LEMMA DirectExceededStep == ASSUME IInv, DirectExceeded PROVE IInv'
<1> USE DEF IInv, DirectExceeded, runVars, residentVars
<1>1. TypeOK'
  BY DEF TypeOK, FreshInv, NoRows, BuildRows, ProbeRows
<1>2. FreshInv' /\ NothingYet'
  BY DEF FreshInv, NothingYet
<1>3. DirectInv' /\ BuildInv' /\ ProbeInv' /\ PairsInv' /\ EndInv'
  BY DEF DirectInv, BuildInv, ProbeInv, PairsInv, EndInv
<1>4. QED  BY <1>1, <1>2, <1>3

LEMMA DirectBuiltStep == ASSUME IInv, DirectBuilt PROVE IInv'
<1> USE DEF IInv, DirectBuilt, runVars, residentVars
<1>1. TypeOK'
  BY DEF TypeOK, Rows, BuildRows, ProbeRows
<1>2. FreshInv' /\ NothingYet'
  BY DEF FreshInv, NothingYet
<1>3. DirectInv'
  BY RowsOfPair DEF DirectInv, NothingYet, BuildRows, ProbeRows, TypeOK, ProbeRowOf, AllPairs
<1>4. BuildInv' /\ ProbeInv' /\ PairsInv' /\ EndInv'
  BY DEF BuildInv, ProbeInv, PairsInv, EndInv
<1>5. QED  BY <1>1, <1>2, <1>3, <1>4

LEMMA DirectProbeStep == ASSUME IInv, DirectProbe PROVE IInv'
<1> USE DEF IInv, DirectProbe, runVars, residentVars
<1>1. PICK row \in unread : /\ Emit(HashMatches(table, {row}, build_is_left))
                            /\ unread' = unread \ {row}
  OBVIOUS
<1>2. /\ phase = "direct_probe" /\ phase' = phase /\ build_is_left' = build_is_left
      /\ build_is_left \in BOOLEAN /\ emitted \in [AllPairs -> Nat]
      /\ row \in ProbeRows /\ unread \subseteq ProbeRows /\ table = BuildRows
  BY <1>1 DEF TypeOK, DirectInv, AllPairs
<1>3. /\ emitted' \in [AllPairs -> Nat]
      /\ \A x \in AllPairs :
           emitted'[x] = emitted[x]
                           + (IF x \in HashMatches(table, {row}, build_is_left) THEN 1 ELSE 0)
  BY <1>1, <1>2, EmitCounts
<1>4. TypeOK'
  BY <1>1, <1>2, <1>3 DEF TypeOK, AllPairs, BuildRows, ProbeRows
<1>5. ASSUME NEW x \in AllPairs
      PROVE  emitted'[x] = IF x \in Match /\ ProbeRowOf(x) \notin unread' THEN 1 ELSE 0
  <2>1. emitted[x] = IF x \in Match /\ ProbeRowOf(x) \notin unread THEN 1 ELSE 0
    BY <1>2 DEF DirectInv
  <2>2. x \in HashMatches(table, {row}, build_is_left) <=> x \in Match /\ ProbeRowOf(x) = row
    BY <1>2, HashMatchesAre, RowsOfPair DEF BuildRowOf, ProbeRowOf
  <2>3. emitted'[x] = emitted[x] + (IF x \in Match /\ ProbeRowOf(x) = row THEN 1 ELSE 0)
    BY <1>3, <2>2
  <2>4. QED  BY <1>1, <2>1, <2>3
<1>6. DirectInv'
  BY <1>1, <1>2, <1>5 DEF DirectInv, BuildRows, ProbeRows, ProbeRowOf
<1>7. FreshInv' /\ NothingYet' /\ BuildInv' /\ ProbeInv' /\ PairsInv' /\ EndInv'
  BY <1>2 DEF FreshInv, NothingYet, BuildInv, ProbeInv, PairsInv, EndInv
<1>8. QED  BY <1>4, <1>6, <1>7

LEMMA DirectDoneStep == ASSUME IInv, DirectDone PROVE IInv'
<1> USE DEF IInv, DirectDone, runVars, residentVars
<1>1. TypeOK'
  BY DEF TypeOK, BuildRows, ProbeRows
<1>2. EndInv'
  BY DEF EndInv, DirectInv
<1>3. FreshInv' /\ NothingYet' /\ DirectInv' /\ BuildInv' /\ ProbeInv' /\ PairsInv'
  BY DEF FreshInv, NothingYet, DirectInv, BuildInv, ProbeInv, PairsInv
<1>4. QED  BY <1>1, <1>2, <1>3

-----------------------------------------------------------------------------
(* The build input is partitioned.                                         *)

LEMMA StartPartitionedStep == ASSUME IInv, StartPartitioned PROVE IInv'
<1> USE DEF IInv, StartPartitioned, runVars, residentVars
<1>1. TypeOK'
  BY DEF TypeOK, Rows, BuildRows, ProbeRows
<1>2. BuildInv'
  <2>1. /\ resident' = NoRows /\ build_runs' = [d \in Depths |-> NoRows]
        /\ probe_runs' = [d \in Depths |-> NoRows] /\ unread' = BuildRows /\ phase' = "build"
        /\ build_is_left' = build_is_left
    BY DEF FreshInv
  <2>2. /\ \A p \in Partitions : resident'[p] = {} /\ build_runs'[0][p] = {}
        /\ probe_runs'[0] = NoRows /\ ArrivedBuildRows' = {}
    BY <2>1, PartitionsFacts DEF NoRows, ArrivedBuildRows, BuildRows
  <2>3. QED  BY <2>1, <2>2 DEF BuildInv, BuildRows
<1>3. FreshInv' /\ NothingYet' /\ DirectInv' /\ ProbeInv' /\ PairsInv' /\ EndInv'
  BY DEF FreshInv, NothingYet, DirectInv, ProbeInv, PairsInv, EndInv
<1>4. QED  BY <1>1, <1>2, <1>3

\* What the arrival of a build row does in each of its three cases.
LEMMA ReadBuildRowFacts ==
  ASSUME IInv, NEW row \in Rows, ReadBuildRow(row)
  PROVE  /\ row \in BuildRows /\ PartitionOf(row) \in Partitions /\ phase = "build"
         /\ FreshInv' /\ NothingYet' /\ DirectInv' /\ ProbeInv' /\ PairsInv' /\ EndInv'
         /\ BuildRows' = BuildRows /\ ProbeRows' = ProbeRows
         /\ ArrivedBuildRows' = ArrivedBuildRows \cup {row}
         /\ unread' \subseteq BuildRows
         /\ \A b \in ArrivedBuildRows \cup {row} : BloomBits[Digest[b]] \subseteq join_filter'
<1> USE DEF IInv, ReadBuildRow
<1>1. row \in BuildRows /\ phase = "build" /\ phase' = phase /\ unread \subseteq BuildRows
  BY DEF BuildInv
<1>2. PartitionOf(row) \in Partitions
  BY PartitionIndexType, PartitionsFacts DEF PartitionOf
<1>3. FreshInv' /\ NothingYet' /\ DirectInv' /\ ProbeInv' /\ PairsInv' /\ EndInv'
  BY <1>1 DEF FreshInv, NothingYet, DirectInv, ProbeInv, PairsInv, EndInv
<1>4. /\ BuildRows' = BuildRows /\ ProbeRows' = ProbeRows
      /\ ArrivedBuildRows' = ArrivedBuildRows \cup {row}
  BY <1>1 DEF BuildRows, ProbeRows, ArrivedBuildRows
<1>5. \A b \in ArrivedBuildRows \cup {row} : BloomBits[Digest[b]] \subseteq join_filter'
  BY <1>1 DEF BuildInv, Insert
<1>6. QED  BY <1>1, <1>2, <1>3, <1>4, <1>5

LEMMA BuildSpilledStep == ASSUME IInv, NEW row \in Rows, BuildSpilled(row) PROVE IInv'
<1> DEFINE p == PartitionOf(row)
<1>1. ReadBuildRow(row) /\ spilled[p] /\ resident' = resident /\ spilled' = spilled
  BY DEF BuildSpilled, residentVars
<1>2. build_runs' = [build_runs EXCEPT ![0][p] = @ \cup {row}]
  BY DEF BuildSpilled, PushBuild
<1>3. /\ row \in BuildRows /\ p \in Partitions /\ phase = "build"
      /\ FreshInv' /\ NothingYet' /\ DirectInv' /\ ProbeInv' /\ PairsInv' /\ EndInv'
      /\ BuildRows' = BuildRows /\ ProbeRows' = ProbeRows
      /\ ArrivedBuildRows' = ArrivedBuildRows \cup {row}
      /\ unread' \subseteq BuildRows
      /\ \A b \in ArrivedBuildRows \cup {row} : BloomBits[Digest[b]] \subseteq join_filter'
  BY <1>1, ReadBuildRowFacts
<1>4. TypeOK'
  BY ZenonT(60), <1>1, <1>2, <1>3 DEF IInv, TypeOK, ReadBuildRow
<1>5. \A q \in Partitions : build_runs'[0][q] = IF q = p THEN build_runs[0][q] \cup {row}
                                                ELSE build_runs[0][q]
  BY <1>2, <1>3, PartitionsFacts DEF IInv, TypeOK
<1>6. /\ \A q \in Partitions : IF spilled'[q] THEN resident'[q] = {} ELSE build_runs'[0][q] = {}
      /\ \A q \in Partitions : \A b \in resident'[q] \cup build_runs'[0][q] : PartitionOf(b) = q
  <2>1. /\ \A q \in Partitions : IF spilled[q] THEN resident[q] = {} ELSE build_runs[0][q] = {}
        /\ \A q \in Partitions : \A b \in resident[q] \cup build_runs[0][q] : PartitionOf(b) = q
    BY <1>3 DEF IInv, BuildInv
  <2>2. \A q \in Partitions : IF spilled'[q] THEN resident'[q] = {} ELSE build_runs'[0][q] = {}
    BY <1>1, <1>5, <2>1
  <2>3. \A q \in Partitions : \A b \in resident'[q] \cup build_runs'[0][q] : PartitionOf(b) = q
    BY ZenonT(60), <1>1, <1>5, <2>1
  <2>4. QED  BY <2>2, <2>3
<1>7. \A b \in ArrivedBuildRows' : b \in resident'[PartitionOf(b)] \cup build_runs'[0][PartitionOf(b)]
  <2>1. \A b \in ArrivedBuildRows : PartitionOf(b) \in Partitions
    BY PartitionIndexType, PartitionsFacts DEF PartitionOf, ArrivedBuildRows, BuildRows, Rows
  <2>2. QED  BY ZenonT(60), <1>1, <1>3, <1>5, <2>1 DEF IInv, BuildInv
<1>8. BuildInv'
  BY <1>1, <1>3, <1>6, <1>7 DEF IInv, BuildInv, ReadBuildRow, PartitionOf
<1>9. QED  BY <1>3, <1>4, <1>8 DEF IInv

LEMMA BuildResidentStep == ASSUME IInv, NEW row \in Rows, BuildResident(row) PROVE IInv'
<1> DEFINE p == PartitionOf(row)
<1>1. /\ ReadBuildRow(row) /\ ~spilled[p] /\ UNCHANGED <<spilled, build_runs>>
      /\ resident' = [resident EXCEPT ![p] = resident[p] \cup {row}]
  BY DEF BuildResident
<1>2. /\ row \in BuildRows /\ p \in Partitions /\ phase = "build"
      /\ FreshInv' /\ NothingYet' /\ DirectInv' /\ ProbeInv' /\ PairsInv' /\ EndInv'
      /\ BuildRows' = BuildRows /\ ProbeRows' = ProbeRows
      /\ ArrivedBuildRows' = ArrivedBuildRows \cup {row}
      /\ unread' \subseteq BuildRows
      /\ \A b \in ArrivedBuildRows \cup {row} : BloomBits[Digest[b]] \subseteq join_filter'
  BY <1>1, ReadBuildRowFacts
<1>3. TypeOK'
  BY <1>1, <1>2 DEF IInv, TypeOK, ReadBuildRow
<1>4. \A q \in Partitions : resident'[q] = IF q = p THEN resident[q] \cup {row} ELSE resident[q]
  BY <1>1, <1>2 DEF IInv, TypeOK
<1>5. /\ \A q \in Partitions : IF spilled'[q] THEN resident'[q] = {} ELSE build_runs'[0][q] = {}
      /\ \A q \in Partitions : \A b \in resident'[q] \cup build_runs'[0][q] : PartitionOf(b) = q
  BY <1>1, <1>2, <1>4 DEF IInv, BuildInv
<1>6. \A b \in ArrivedBuildRows' : b \in resident'[PartitionOf(b)] \cup build_runs'[0][PartitionOf(b)]
  <2>1. \A b \in ArrivedBuildRows : PartitionOf(b) \in Partitions
    BY PartitionIndexType, PartitionsFacts DEF PartitionOf, ArrivedBuildRows, BuildRows, Rows
  <2>2. QED  BY <1>1, <1>2, <1>4, <2>1 DEF IInv, BuildInv
<1>7. BuildInv'
  BY <1>1, <1>2, <1>5, <1>6 DEF IInv, BuildInv, ReadBuildRow, PartitionOf
<1>8. QED  BY <1>2, <1>3, <1>7 DEF IInv

LEMMA BuildSpillsStep == ASSUME IInv, NEW row \in Rows, BuildSpills(row) PROVE IInv'
<1> DEFINE p == PartitionOf(row)
<1>1. /\ ReadBuildRow(row) /\ ~spilled[p]
      /\ build_runs' = [build_runs EXCEPT ![0][p] = @ \cup (resident[p] \cup {row})]
      /\ resident' = [resident EXCEPT ![p] = {}]
      /\ spilled' = [spilled EXCEPT ![p] = TRUE]
  BY DEF BuildSpills, PushBuild
<1>2. /\ row \in BuildRows /\ p \in Partitions /\ phase = "build"
      /\ FreshInv' /\ NothingYet' /\ DirectInv' /\ ProbeInv' /\ PairsInv' /\ EndInv'
      /\ BuildRows' = BuildRows /\ ProbeRows' = ProbeRows
      /\ ArrivedBuildRows' = ArrivedBuildRows \cup {row}
      /\ unread' \subseteq BuildRows
      /\ \A b \in ArrivedBuildRows \cup {row} : BloomBits[Digest[b]] \subseteq join_filter'
  BY <1>1, ReadBuildRowFacts
<1>3. TypeOK'
  BY ZenonT(60), <1>1, <1>2 DEF IInv, TypeOK, ReadBuildRow
<1>4. \A q \in Partitions :
        /\ resident'[q] = IF q = p THEN {} ELSE resident[q]
        /\ spilled'[q] <=> q = p \/ spilled[q]
        /\ build_runs'[0][q] = IF q = p THEN build_runs[0][q] \cup (resident[q] \cup {row})
                               ELSE build_runs[0][q]
  BY <1>1, <1>2, PartitionsFacts DEF IInv, TypeOK
<1>5. /\ \A q \in Partitions : IF spilled'[q] THEN resident'[q] = {} ELSE build_runs'[0][q] = {}
      /\ \A q \in Partitions : \A b \in resident'[q] \cup build_runs'[0][q] : PartitionOf(b) = q
  <2>1. /\ \A q \in Partitions : IF spilled[q] THEN resident[q] = {} ELSE build_runs[0][q] = {}
        /\ \A q \in Partitions : \A b \in resident[q] \cup build_runs[0][q] : PartitionOf(b) = q
    BY <1>2 DEF IInv, BuildInv
  <2>2. \A q \in Partitions : IF spilled'[q] THEN resident'[q] = {} ELSE build_runs'[0][q] = {}
    BY <1>1, <1>4, <2>1
  <2>3. \A q \in Partitions : \A b \in resident'[q] \cup build_runs'[0][q] : PartitionOf(b) = q
    BY <1>1, <1>4, <2>1
  <2>4. QED  BY <2>2, <2>3
<1>6. \A b \in ArrivedBuildRows' : b \in resident'[PartitionOf(b)] \cup build_runs'[0][PartitionOf(b)]
  <2>1. \A b \in ArrivedBuildRows : PartitionOf(b) \in Partitions
    BY PartitionIndexType, PartitionsFacts DEF PartitionOf, ArrivedBuildRows, BuildRows, Rows
  <2>2. \A b \in ArrivedBuildRows : b \in resident[PartitionOf(b)] \cup build_runs[0][PartitionOf(b)]
    BY <1>2 DEF IInv, BuildInv
  <2>3. QED  BY <1>2, <1>4, <2>1, <2>2
<1>7. BuildInv'
  BY <1>1, <1>2, <1>5, <1>6 DEF IInv, BuildInv, ReadBuildRow, PartitionOf
<1>8. QED  BY <1>2, <1>3, <1>7 DEF IInv

-----------------------------------------------------------------------------
(* The probe input is read.                                                *)

LEMMA StartProbeStep == ASSUME IInv, StartProbe PROVE IInv'
<1> USE DEF StartProbe, runVars, residentVars
<1>1. /\ phase = "build" /\ phase' = "probe" /\ unread = {} /\ unread' = ProbeRows
      /\ build_is_left \in BOOLEAN /\ build_is_left' = build_is_left
  BY DEF IInv, TypeOK
<1>2. TypeOK'
  BY <1>1 DEF IInv, TypeOK, Rows, BuildRows, ProbeRows
<1>3. BuildInv'
  <2>1. ArrivedBuildRows' = ArrivedBuildRows
    BY <1>1 DEF ArrivedBuildRows, BuildRows
  <2>2. /\ resident' = resident /\ spilled' = spilled /\ build_runs' = build_runs
        /\ join_filter' = join_filter
    OBVIOUS
  <2>3. QED  BY <1>1, <2>1, <2>2 DEF IInv, BuildInv
<1>4. ProbeInv'
  <2>1. \A p \in Partitions : probe_runs'[0][p] = {}
    BY <1>1 DEF IInv, BuildInv, NoRows
  <2>2. \A x \in AllPairs : ProbeRowOf(x)' \in unread'
    BY <1>1, RowsOfPair DEF ProbeRowOf
  <2>3. \A x \in AllPairs : emitted'[x] = 0
    BY <1>1 DEF IInv, NothingYet
  <2>4. QED  BY <1>1, <2>1, <2>2, <2>3, MatchPairs DEF ProbeInv, ProbeRows
<1>5. FreshInv' /\ NothingYet' /\ DirectInv' /\ PairsInv' /\ EndInv'
  BY <1>1 DEF IInv, FreshInv, NothingYet, DirectInv, PairsInv, EndInv
<1>6. QED  BY <1>2, <1>3, <1>4, <1>5 DEF IInv

\* What the arrival of a probe row leaves alone, and the parts it cannot disturb.
LEMMA ReadProbeRowFacts ==
  ASSUME IInv, NEW row \in Rows, ReadProbeRow(row)
  PROVE  /\ row \in ProbeRows /\ PartitionOf(row) \in Partitions
         /\ phase = "probe" /\ phase' = "probe" /\ unread' = unread \ {row}
         /\ build_is_left \in BOOLEAN /\ build_is_left' = build_is_left
         /\ FreshInv' /\ NothingYet' /\ DirectInv' /\ BuildInv' /\ PairsInv' /\ EndInv'
         /\ \A x \in AllPairs : ProbeRowOf(x)' = ProbeRowOf(x)
<1> USE DEF IInv, ReadProbeRow, residentVars
<1>1. /\ phase = "probe" /\ phase' = "probe" /\ unread' = unread \ {row} /\ row \in ProbeRows
      /\ build_is_left \in BOOLEAN /\ build_is_left' = build_is_left
  BY DEF ProbeInv, TypeOK
<1>2. PartitionOf(row) \in Partitions
  BY PartitionIndexType, PartitionsFacts DEF PartitionOf
<1>3. FreshInv' /\ NothingYet' /\ DirectInv' /\ PairsInv' /\ EndInv'
  BY <1>1 DEF FreshInv, NothingYet, DirectInv, PairsInv, EndInv
<1>4. BuildInv'
  <2>1. ArrivedBuildRows' = ArrivedBuildRows
    BY <1>1 DEF ArrivedBuildRows, BuildRows
  <2>2. /\ resident' = resident /\ spilled' = spilled /\ build_runs' = build_runs
        /\ join_filter' = join_filter
    OBVIOUS
  <2>3. QED  BY <1>1, <2>1, <2>2 DEF BuildInv
<1>5. QED  BY <1>1, <1>2, <1>3, <1>4 DEF ProbeRowOf

LEMMA ProbeResidentStep == ASSUME IInv, NEW row \in Rows, ProbeResident(row) PROVE IInv'
<1> DEFINE p == PartitionOf(row)
           found == HashMatches(resident[p], {row}, build_is_left)
<1>1. ReadProbeRow(row) /\ ~spilled[p] /\ Emit(found) /\ probe_runs' = probe_runs
  BY DEF ProbeResident
<1>2. /\ row \in ProbeRows /\ p \in Partitions
      /\ phase = "probe" /\ phase' = "probe" /\ unread' = unread \ {row}
      /\ build_is_left \in BOOLEAN /\ build_is_left' = build_is_left
      /\ FreshInv' /\ NothingYet' /\ DirectInv' /\ BuildInv' /\ PairsInv' /\ EndInv'
      /\ \A x \in AllPairs : ProbeRowOf(x)' = ProbeRowOf(x)
  BY <1>1, ReadProbeRowFacts
<1>3. /\ emitted' \in [AllPairs -> Nat]
      /\ \A x \in AllPairs : emitted'[x] = emitted[x] + (IF x \in found THEN 1 ELSE 0)
  <2>1. emitted \in [AllPairs -> Nat]
    BY DEF IInv, TypeOK, AllPairs
  <2>2. QED  BY <1>1, <2>1, EmitCounts
<1>4. TypeOK'
  BY <1>1, <1>2, <1>3 DEF IInv, TypeOK, AllPairs, BuildRows, ProbeRows, ReadProbeRow, residentVars
<1>5. spilled' = spilled
  BY <1>1 DEF ReadProbeRow, residentVars
<1>6. ASSUME NEW x \in AllPairs
      PROVE  x \in found <=> x \in Match /\ ProbeRowOf(x) = row
  <2>1. x \in found <=> x \in Match /\ BuildRowOf(x) \in resident[p] /\ ProbeRowOf(x) = row
    BY <1>2, HashMatchesAre DEF BuildRowOf, ProbeRowOf
  <2>2. ASSUME x \in Match, ProbeRowOf(x) = row
        PROVE  BuildRowOf(x) \in resident[p]
    <3>1. BuildRowOf(x) \in BuildRows /\ PartitionOf(BuildRowOf(x)) = p
      BY <1>2, <2>2, RowsOfPair DEF PartitionOf
    <3>2. BuildRowOf(x) \in resident[p] \cup build_runs[0][p] /\ build_runs[0][p] = {}
      BY <1>1, <1>2, <3>1 DEF IInv, BuildInv, ArrivedBuildRows
    <3>3. QED  BY <3>2
  <2>3. QED  BY <2>1, <2>2
<1>7. ASSUME NEW x \in AllPairs
      PROVE  emitted'[x] = IF /\ x \in Match /\ ProbeRowOf(x) \notin unread'
                              /\ ~spilled[PartitionOf(ProbeRowOf(x))]
                           THEN 1 ELSE 0
  <2>1. emitted[x] = IF /\ x \in Match /\ ProbeRowOf(x) \notin unread
                        /\ ~spilled[PartitionOf(ProbeRowOf(x))]
                     THEN 1 ELSE 0
    BY <1>2 DEF IInv, ProbeInv
  <2>2. emitted'[x] = emitted[x] + (IF x \in Match /\ ProbeRowOf(x) = row THEN 1 ELSE 0)
    BY <1>3, <1>6
  <2>3. row \in unread
    BY <1>1 DEF ReadProbeRow
  <2>4. QED  BY <1>1, <1>2, <2>1, <2>2, <2>3
<1>8. ProbeInv'
  <2>1. \A x \in Match : ProbeRowOf(x) = row => ~spilled[PartitionOf(ProbeRowOf(x))]
    BY <1>1
  <2>2. QED  BY <1>1, <1>2, <1>5, <1>7, <2>1, MatchPairs DEF IInv, ProbeInv, ProbeRows
<1>9. QED  BY <1>2, <1>4, <1>8 DEF IInv

LEMMA ProbeSpilledStep == ASSUME IInv, NEW row \in Rows, ProbeSpilled(row) PROVE IInv'
<1> DEFINE p == PartitionOf(row)
<1>1. ReadProbeRow(row) /\ spilled[p] /\ emitted' = emitted
  BY DEF ProbeSpilled
<1>2. /\ row \in ProbeRows /\ p \in Partitions
      /\ phase = "probe" /\ phase' = "probe" /\ unread' = unread \ {row}
      /\ build_is_left \in BOOLEAN /\ build_is_left' = build_is_left
      /\ FreshInv' /\ NothingYet' /\ DirectInv' /\ BuildInv' /\ PairsInv' /\ EndInv'
      /\ \A x \in AllPairs : ProbeRowOf(x)' = ProbeRowOf(x)
  BY <1>1, ReadProbeRowFacts
<1>3. \/ probe_runs' = [probe_runs EXCEPT ![0][p] = @ \cup {row}]
      \/ probe_runs' = probe_runs /\ ~MayContain(join_filter, Digest[row])
  BY DEF ProbeSpilled
<1>4. TypeOK'
  <2>1. probe_runs' \in [Depths -> [Partitions -> SUBSET ProbeRows]]
    BY <1>2, <1>3, PartitionsFacts DEF IInv, TypeOK
  <2>2. BuildRows' = BuildRows /\ ProbeRows' = ProbeRows
    BY <1>2 DEF BuildRows, ProbeRows
  <2>3. QED  BY <1>1, <1>2, <2>1, <2>2 DEF IInv, TypeOK, ReadProbeRow, residentVars
<1>5. spilled' = spilled
  BY <1>1 DEF ReadProbeRow, residentVars
<1>6. \A q \in Partitions :
        /\ probe_runs[0][q] \subseteq probe_runs'[0][q]
        /\ probe_runs'[0][q] \subseteq probe_runs[0][q] \cup {row}
        /\ row \in probe_runs'[0][q] => q = p \/ row \in probe_runs[0][q]
        /\ MayContain(join_filter, Digest[row]) => row \in probe_runs'[0][p]
  BY <1>2, <1>3, PartitionsFacts DEF IInv, TypeOK
<1>7. \A q \in Partitions : \A b \in probe_runs'[0][q] : PartitionOf(b) = q
  BY <1>2, <1>6 DEF IInv, ProbeInv
<1>8. ASSUME NEW x \in Match, ProbeRowOf(x) = row
      PROVE  row \in probe_runs'[0][p]
  <2>1. BuildRowOf(x) \in ArrivedBuildRows /\ Digest[BuildRowOf(x)] = Digest[row]
    BY <1>2, <1>8, RowsOfPair, MatchPairs DEF ArrivedBuildRows
  <2>2. MayContain(join_filter, Digest[row])
    BY <1>2, <2>1 DEF IInv, BuildInv, MayContain
  <2>3. QED  BY <1>2, <1>6, <2>2
<1>9. ASSUME NEW x \in AllPairs
      PROVE  emitted'[x] = IF /\ x \in Match /\ ProbeRowOf(x) \notin unread'
                              /\ ~spilled[PartitionOf(ProbeRowOf(x))]
                           THEN 1 ELSE 0
  BY <1>1, <1>2 DEF IInv, ProbeInv
<1>10. ASSUME NEW x \in Match, ProbeRowOf(x) \notin unread', spilled[PartitionOf(ProbeRowOf(x))]
       PROVE  ProbeRowOf(x) \in probe_runs'[0][PartitionOf(ProbeRowOf(x))]
  <2>1. CASE ProbeRowOf(x) = row
    BY <1>8, <2>1
  <2>2. CASE ProbeRowOf(x) # row
    <3>1. PartitionOf(ProbeRowOf(x)) \in Partitions
      BY <1>2, RowsOfPair, MatchPairs, PartitionIndexType, PartitionsFacts DEF PartitionOf
    <3>2. ProbeRowOf(x) \in probe_runs[0][PartitionOf(ProbeRowOf(x))]
      BY <1>2, <1>10, <2>2 DEF IInv, ProbeInv
    <3>3. QED  BY <1>6, <3>1, <3>2
  <2>3. QED  BY <2>1, <2>2
<1>11. ProbeInv'
  <2>1. unread' \subseteq ProbeRows'
    BY <1>2 DEF IInv, ProbeInv, ProbeRows
  <2>2. QED  BY <1>2, <1>5, <1>7, <1>9, <1>10, <2>1, MatchPairs DEF ProbeInv
<1>12. QED  BY <1>2, <1>4, <1>11 DEF IInv

LEMMA StartPairsStep == ASSUME IInv, StartPairs PROVE IInv'
<1> USE DEF StartPairs, runVars
<1>1. /\ phase = "probe" /\ phase' = "pairs" /\ unread = {}
      /\ build_is_left \in BOOLEAN /\ build_is_left' = build_is_left /\ emitted' = emitted
      /\ depth' = 0 /\ partition_index'[0] = 0
      /\ build_runs' = build_runs /\ probe_runs' = probe_runs
  BY DEF IInv, TypeOK, FreshInv
<1>2. TypeOK'
  BY <1>1 DEF IInv, TypeOK, BuildRows, ProbeRows, NoRows
<1>3. RowsInPlace'
  <2>1. \A p \in Partitions : \A row \in build_runs[0][p] \cup probe_runs[0][p] :
          PartitionIndex(Digest[row], 0) = p
    BY <1>1 DEF IInv, BuildInv, ProbeInv, PartitionOf
  <2>2. QED  BY <1>1, <2>1 DEF RowsInPlace
<1>4. FramesNest'
  BY <1>1 DEF FramesNest
<1>5. ASSUME NEW x \in AllPairs
      PROVE  emitted'[x] = IF x \in Match /\ ~Pending(x)' THEN 1 ELSE 0
  <2> DEFINE p == PartitionOf(ProbeRowOf(x))
  <2>1. emitted[x] = IF x \in Match /\ ~spilled[p] THEN 1 ELSE 0
    BY <1>1 DEF IInv, ProbeInv
  <2>2. p \in Partitions /\ BuildRowOf(x) \in BuildRows
    BY <1>1, RowsOfPair, PartitionIndexType, PartitionsFacts DEF PartitionOf
  <2>3. Pending(x)' <=> \E q \in Partitions : /\ BuildRowOf(x) \in build_runs[0][q]
                                              /\ ProbeRowOf(x) \in probe_runs[0][q]
    BY <1>1, PartitionsFacts
    DEF Pending, StillToJoin, Partitions, BuildRowOf, ProbeRowOf
  <2>4. ASSUME x \in Match, spilled[p]
        PROVE  Pending(x)'
    <3>1. ProbeRowOf(x) \in probe_runs[0][p]
      BY <1>1, <2>4 DEF IInv, ProbeInv
    <3>2. PartitionOf(BuildRowOf(x)) = p
      BY <1>1, <2>4, RowsOfPair DEF PartitionOf
    <3>3. BuildRowOf(x) \in resident[p] \cup build_runs[0][p] /\ resident[p] = {}
      BY <1>1, <2>2, <2>4, <3>2 DEF IInv, BuildInv, ArrivedBuildRows
    <3>4. QED  BY <2>2, <2>3, <3>1, <3>3
  <2>5. ASSUME x \in Match, ~spilled[p]
        PROVE  ~Pending(x)'
    <3>1. build_runs[0][p] = {}
      BY <1>1, <2>2, <2>5 DEF IInv, BuildInv
    <3>2. \A q \in Partitions : ProbeRowOf(x) \in probe_runs[0][q] => q = p
      BY <1>1 DEF IInv, ProbeInv
    <3>3. QED  BY <2>3, <3>1, <3>2
  <2>6. QED  BY <1>1, <2>1, <2>4, <2>5
<1>6. FreshInv' /\ NothingYet' /\ DirectInv' /\ BuildInv' /\ ProbeInv' /\ EndInv'
  BY <1>1 DEF FreshInv, NothingYet, DirectInv, BuildInv, ProbeInv, EndInv
<1>7. QED  BY <1>2, <1>3, <1>4, <1>5, <1>6 DEF IInv, PairsInv

-----------------------------------------------------------------------------
(* The pairs of runs.                                                      *)

\* The pair of runs the innermost loop is at holds both rows of x.
AtHand(x) == BuildRowOf(x) \in BuildRun /\ ProbeRowOf(x) \in ProbeRun

(* Going on to the next pair of runs takes exactly the pairs at hand from  *)
(* the pending ones: no other pair of runs, here or in a caller's frame    *)
(* beyond its current pair, has both their rows.                           *)
LEMMA NextPairFacts ==
  ASSUME IInv, AtPair, NextPair, KeepFrame
  PROVE  /\ FreshInv' /\ NothingYet' /\ DirectInv' /\ BuildInv' /\ ProbeInv' /\ EndInv'
         /\ emitted' \in [AllPairs -> Nat] => TypeOK'
         /\ RowsInPlace' /\ FramesNest'
         /\ \A x \in AllPairs : Pending(x)' <=> Pending(x) /\ ~AtHand(x)
         /\ \A x \in AllPairs : AtHand(x) => Pending(x)
<1> DEFINE i == partition_index[depth]
<1>1. /\ phase = "pairs" /\ phase' = phase /\ depth' = depth /\ build_is_left' = build_is_left
      /\ build_runs' = build_runs /\ probe_runs' = probe_runs
      /\ RowsInPlace /\ FramesNest /\ depth \in Nat /\ depth \in Depths
      /\ i \in Partitions /\ i \in Nat
      /\ partition_index \in [Depths -> 0 .. Fanout] /\ 0 .. depth \subseteq Depths
  <2>1. /\ phase = "pairs" /\ phase' = phase /\ depth' = depth /\ build_is_left' = build_is_left
        /\ build_runs' = build_runs /\ probe_runs' = probe_runs
        /\ i < Fanout /\ depth \in Depths /\ partition_index \in [Depths -> 0 .. Fanout]
    BY DEF AtPair, KeepFrame, IInv, TypeOK
  <2>2. RowsInPlace /\ FramesNest
    BY <2>1 DEF IInv, PairsInv
  <2>3. i \in Partitions /\ i \in Nat
    BY <2>1, HybridHashJoinAssumption DEF Partitions
  <2>4. depth \in Nat /\ 0 .. depth \subseteq Depths
    BY <2>1, HybridHashJoinAssumption DEF Depths
  <2>5. QED  BY <2>1, <2>2, <2>3, <2>4
<1>2. /\ partition_index' \in [Depths -> 0 .. Fanout]
      /\ \A d \in Depths : partition_index'[d] = IF d = depth THEN i + 1 ELSE partition_index[d]
  BY <1>1, HybridHashJoinAssumption DEF NextPair, Partitions
<1>3. FreshInv' /\ NothingYet' /\ DirectInv' /\ BuildInv' /\ ProbeInv' /\ EndInv'
  BY <1>1 DEF FreshInv, NothingYet, DirectInv, BuildInv, ProbeInv, EndInv
<1>4. emitted' \in [AllPairs -> Nat] => TypeOK'
  BY <1>1, <1>2 DEF KeepFrame, residentVars, IInv, TypeOK, AllPairs, BuildRows, ProbeRows
<1>5. RowsInPlace'
  BY <1>1 DEF RowsInPlace
<1>6. FramesNest'
  <2>1. \A d \in 0 .. depth : d < depth => partition_index'[d] = partition_index[d]
    BY <1>1, <1>2
  <2>2. \A d, e \in 0 .. depth : d < e => d < depth
    BY <1>1
  <2>3. QED  BY <1>1, <2>1, <2>2 DEF FramesNest
<1>7. ASSUME NEW d \in 0 .. depth, NEW p \in Partitions
      PROVE  StillToJoin(d, p)' <=> StillToJoin(d, p) /\ ~(d = depth /\ p = i)
  BY <1>1, <1>2, PartitionsFacts DEF StillToJoin
<1>8. ASSUME NEW x \in AllPairs, AtHand(x)
      PROVE  Pending(x)
  BY <1>1, <1>8, PartitionsFacts DEF AtHand, BuildRun, ProbeRun, Pending, StillToJoin
<1>9. ASSUME NEW x \in AllPairs, AtHand(x), NEW d \in 0 .. depth, NEW p \in Partitions,
             StillToJoin(d, p)', BuildRowOf(x) \in build_runs[d][p]
      PROVE  FALSE
  <2>1. StillToJoin(d, p) /\ ~(d = depth /\ p = i)
    BY <1>7, <1>9
  <2>2. PartitionIndex(Digest[BuildRowOf(x)], d) = p
    BY <1>1, <1>9 DEF RowsInPlace
  <2>3. BuildRowOf(x) \in build_runs[depth][i]
    BY <1>9 DEF AtHand, BuildRun
  <2>4. CASE d = depth
    BY <1>1, <2>1, <2>2, <2>3, <2>4 DEF RowsInPlace
  <2>5. CASE d # depth
    <3>1. /\ d < depth /\ depth \in 0 .. depth
          /\ partition_index[d] \in Partitions
          /\ build_runs[depth][i] \subseteq build_runs[d][partition_index[d]]
      BY <1>1, <2>5, HybridHashJoinAssumption DEF FramesNest, Partitions
    <3>2. PartitionIndex(Digest[BuildRowOf(x)], d) = partition_index[d]
      BY <1>1, <2>3, <3>1 DEF RowsInPlace
    <3>3. p > partition_index[d]
      BY <2>1, <2>5 DEF StillToJoin
    <3>4. QED  BY <2>2, <3>1, <3>2, <3>3, PartitionsFacts
  <2>6. QED  BY <2>4, <2>5
<1>10. ASSUME NEW x \in AllPairs
       PROVE  Pending(x)' <=> Pending(x) /\ ~AtHand(x)
  <2>1. BuildRowOf(x)' = BuildRowOf(x) /\ ProbeRowOf(x)' = ProbeRowOf(x)
    BY <1>1 DEF BuildRowOf, ProbeRowOf
  <2>2. Pending(x)' <=> \E d \in 0 .. depth, p \in Partitions :
                          /\ StillToJoin(d, p)'
                          /\ BuildRowOf(x) \in build_runs[d][p]
                          /\ ProbeRowOf(x) \in probe_runs[d][p]
    BY <1>1, <2>1 DEF Pending
  <2>3. Pending(x)' => Pending(x) /\ ~AtHand(x)
    BY <1>7, <1>9, <2>2 DEF Pending
  <2>4. ASSUME Pending(x), ~AtHand(x)
        PROVE  Pending(x)'
    BY <1>1, <1>7, <2>2, <2>4 DEF Pending, AtHand, BuildRun, ProbeRun
  <2>5. QED  BY <2>3, <2>4
<1>11. QED  BY <1>3, <1>4, <1>5, <1>6, <1>8, <1>10

LEMMA SkipPairStep == ASSUME IInv, SkipPair PROVE IInv'
<1>1. AtPair /\ NextPair /\ KeepFrame /\ emitted' = emitted /\ (BuildRun = {} \/ ProbeRun = {})
  BY DEF SkipPair
<1>2. \A x \in AllPairs : ~AtHand(x)
  BY <1>1 DEF AtHand
<1>3. emitted' \in [AllPairs -> Nat] /\ phase = "pairs" /\ phase' = "pairs"
  BY <1>1 DEF IInv, TypeOK, AllPairs, AtPair, KeepFrame
<1>4. PairsInv'
  <2>1. \A x \in AllPairs : emitted'[x] = IF x \in Match /\ ~Pending(x)' THEN 1 ELSE 0
    BY <1>1, <1>2, <1>3, NextPairFacts DEF IInv, PairsInv
  <2>2. QED  BY <1>1, <2>1, NextPairFacts DEF PairsInv
<1>5. QED  BY <1>1, <1>3, <1>4, NextPairFacts DEF IInv

\* Emitting the matching pairs at hand and going on.
LEMMA EmitPairFacts ==
  ASSUME IInv, AtPair, NextPair, KeepFrame, NEW found, Emit(found),
         \A x \in AllPairs : x \in found <=> x \in Match /\ AtHand(x)
  PROVE  IInv'
<1>1. phase = "pairs" /\ phase' = "pairs" /\ emitted \in [AllPairs -> Nat]
  BY DEF IInv, TypeOK, AllPairs, AtPair, KeepFrame
<1>2. /\ emitted' \in [AllPairs -> Nat]
      /\ \A x \in AllPairs : emitted'[x] = emitted[x] + (IF x \in found THEN 1 ELSE 0)
  BY <1>1, EmitCounts
<1>3. ASSUME NEW x \in AllPairs
      PROVE  emitted'[x] = IF x \in Match /\ ~Pending(x)' THEN 1 ELSE 0
  <2>1. emitted[x] = IF x \in Match /\ ~Pending(x) THEN 1 ELSE 0
    BY <1>1 DEF IInv, PairsInv
  <2>2. emitted'[x] = emitted[x] + (IF x \in Match /\ AtHand(x) THEN 1 ELSE 0)
    BY <1>2
  <2>3. (Pending(x)' <=> Pending(x) /\ ~AtHand(x)) /\ (AtHand(x) => Pending(x))
    BY NextPairFacts
  <2>4. QED  BY <2>1, <2>2, <2>3
<1>4. PairsInv'
  BY <1>3, NextPairFacts DEF PairsInv
<1>5. QED  BY <1>2, <1>4, NextPairFacts DEF IInv

LEMMA HashPairStep == ASSUME IInv, HashPair PROVE IInv'
<1>1. AtPair /\ NextPair /\ KeepFrame /\ build_is_left \in BOOLEAN
  BY DEF HashPair, BothFilled, IInv, TypeOK
<1>2. CASE BuildIsSmaller
  <2> DEFINE found == HashMatches(BuildRun, ProbeRun, build_is_left)
  <2>1. Emit(found)
    BY <1>2 DEF HashPair
  <2>2. \A x \in AllPairs : x \in found <=> x \in Match /\ AtHand(x)
    BY <1>1, HashMatchesAre DEF AtHand, BuildRowOf, ProbeRowOf
  <2>3. QED  BY <1>1, <2>1, <2>2, EmitPairFacts
<1>3. CASE ~BuildIsSmaller
  <2> DEFINE found == HashMatches(ProbeRun, BuildRun, ~build_is_left)
  <2>1. Emit(found)
    BY <1>3 DEF HashPair
  <2>2. \A x \in AllPairs : x \in found <=> x \in Match /\ AtHand(x)
    <3>1. (~build_is_left) \in BOOLEAN
      OBVIOUS
    <3>2. \A x \in AllPairs : x \in found => x \in Match
      BY <3>1, HashMatchesAre
    <3>3. \A x \in Match :
            x \in found <=> IF ~build_is_left THEN x[1] \in ProbeRun /\ x[2] \in BuildRun
                            ELSE x[2] \in ProbeRun /\ x[1] \in BuildRun
      BY <3>1, HashMatchesAre
    <3>4. QED  BY <1>1, <3>2, <3>3 DEF AtHand, BuildRowOf, ProbeRowOf
  <2>3. QED  BY <1>1, <2>1, <2>2, EmitPairFacts
<1>4. QED  BY <1>2, <1>3

LEMMA LoopPairStep == ASSUME IInv, LoopPair PROVE IInv'
<1> DEFINE found == LoopMatches(BuildRun, ProbeRun, build_is_left)
<1>1. AtPair /\ NextPair /\ KeepFrame /\ Emit(found) /\ build_is_left \in BOOLEAN
  BY DEF LoopPair, BothFilled, IInv, TypeOK
<1>2. \A x \in AllPairs : x \in found <=> x \in Match /\ AtHand(x)
  BY <1>1, LoopMatchesAre DEF AtHand, BuildRowOf, ProbeRowOf
<1>3. QED  BY <1>1, <1>2, EmitPairFacts

(* Splitting moves the pairs at hand one frame down and loses no matching  *)
(* pair: its rows share their digest, hence their partition, and the       *)
(* filter has the digest of every build row of the run.                    *)
LEMMA SplitPairStep == ASSUME IInv, SplitPair PROVE IInv'
<1> DEFINE i == partition_index[depth]
           deeper == depth + 1
<1>1. /\ phase = "pairs" /\ phase' = phase /\ depth' = deeper /\ build_is_left' = build_is_left
      /\ build_runs' = [build_runs EXCEPT ![deeper] = SplitBuild]
      /\ probe_runs' = [probe_runs EXCEPT ![deeper] = SplitProbe]
      /\ partition_index' = [partition_index EXCEPT ![deeper] = 0]
      /\ emitted' = emitted /\ i < Fanout /\ depth < MaxDepth
      /\ depth \in Depths /\ partition_index \in [Depths -> 0 .. Fanout]
      /\ build_is_left \in BOOLEAN
  BY DEF SplitPair, BothFilled, AtPair, IInv, TypeOK
<1>2. RowsInPlace /\ FramesNest
  BY <1>1 DEF IInv, PairsInv
<1>3. /\ i \in Partitions /\ i \in Nat /\ depth \in Nat /\ deeper \in Depths
      /\ 0 .. deeper \subseteq Depths /\ 0 .. deeper = 0 .. depth \cup {deeper}
      /\ \A d \in 0 .. depth : d # deeper /\ d \in Nat
  <2>1. MaxDepth \in Nat /\ Fanout \in Nat /\ depth \in 0 .. MaxDepth
    BY <1>1, HybridHashJoinAssumption DEF Depths
  <2>2. i \in Nat /\ i \in Partitions
    BY <1>1, <2>1 DEF Partitions
  <2>3. /\ depth \in Nat /\ deeper \in Depths /\ 0 .. deeper \subseteq Depths
        /\ 0 .. deeper = 0 .. depth \cup {deeper}
        /\ \A d \in 0 .. depth : d # deeper /\ d \in Nat
    BY <1>1, <2>1 DEF Depths
  <2>4. QED  BY <2>2, <2>3
<1>4. BuildRun \subseteq BuildRows /\ ProbeRun \subseteq ProbeRows
  BY <1>1, <1>3 DEF IInv, TypeOK, BuildRun, ProbeRun
<1>5. \A d \in Depths : /\ build_runs'[d] = IF d = deeper THEN SplitBuild ELSE build_runs[d]
                        /\ probe_runs'[d] = IF d = deeper THEN SplitProbe ELSE probe_runs[d]
                        /\ partition_index'[d] = IF d = deeper THEN 0 ELSE partition_index[d]
  BY <1>1 DEF IInv, TypeOK
<1>6. \A p \in Partitions :
        /\ SplitBuild[p] = {row \in BuildRun : PartitionIndex(Digest[row], deeper) = p}
        /\ SplitProbe[p] \subseteq {row \in ProbeRun : PartitionIndex(Digest[row], deeper) = p}
        /\ \A row \in ProbeRun :
             /\ PartitionIndex(Digest[row], deeper) = p
             /\ \E b \in BuildRun : Digest[b] = Digest[row]
             => row \in SplitProbe[p]
  BY DEF SplitBuild, SplitProbe, Split, MayContain, Keys
<1>7. TypeOK'
  <2>1. /\ SplitBuild \in [Partitions -> SUBSET BuildRows]
        /\ SplitProbe \in [Partitions -> SUBSET ProbeRows]
    BY <1>4 DEF SplitBuild, SplitProbe, Split
  <2>2. /\ build_runs' \in [Depths -> [Partitions -> SUBSET BuildRows]]
        /\ probe_runs' \in [Depths -> [Partitions -> SUBSET ProbeRows]]
    BY <1>1, <2>1 DEF IInv, TypeOK
  <2>3. partition_index' \in [Depths -> 0 .. Fanout]
    <3>1. 0 \in 0 .. Fanout
      BY HybridHashJoinAssumption
    <3>2. QED  BY <1>1, <3>1
  <2>4. BuildRows' = BuildRows /\ ProbeRows' = ProbeRows
    BY <1>1 DEF BuildRows, ProbeRows
  <2>5. QED  BY <1>1, <1>3, <2>2, <2>3, <2>4 DEF IInv, TypeOK, SplitPair, residentVars
<1>8. RowsInPlace'
  <2>1. ASSUME NEW d \in 0 .. deeper, NEW p \in Partitions,
               NEW row \in build_runs'[d][p] \cup probe_runs'[d][p]
        PROVE  PartitionIndex(Digest[row], d) = p
    <3>1. CASE d = deeper
      BY <1>3, <1>5, <1>6, <3>1
    <3>2. CASE d # deeper
      BY <1>2, <1>3, <1>5, <3>2 DEF RowsInPlace
    <3>3. QED  BY <3>1, <3>2
  <2>2. QED  BY <1>1, <2>1 DEF RowsInPlace
<1>9. FramesNest'
  <2>1. ASSUME NEW d \in 0 .. deeper, NEW e \in 0 .. deeper, d < e, NEW p \in Partitions
        PROVE  /\ partition_index'[d] < Fanout
               /\ build_runs'[e][p] \subseteq build_runs'[d][partition_index'[d]]
               /\ probe_runs'[e][p] \subseteq probe_runs'[d][partition_index'[d]]
    <3>1. d \in 0 .. depth /\ d # deeper /\ d \in Depths /\ e \in Depths
      BY <1>3, <2>1
    <3>2. CASE e # deeper
      BY <1>2, <1>3, <1>5, <2>1, <3>1, <3>2 DEF FramesNest
    <3>3. CASE e = deeper
      <4>1. build_runs'[e][p] \subseteq BuildRun /\ probe_runs'[e][p] \subseteq ProbeRun
        BY <1>5, <1>6, <3>1, <3>3
      <4>2. CASE d = depth
        BY <1>1, <1>5, <3>1, <4>1, <4>2 DEF BuildRun, ProbeRun
      <4>3. CASE d # depth
        <5>1. d < depth /\ depth \in 0 .. depth
          BY <1>3, <3>1, <4>3
        <5>2. /\ partition_index[d] < Fanout
              /\ BuildRun \subseteq build_runs[d][partition_index[d]]
              /\ ProbeRun \subseteq probe_runs[d][partition_index[d]]
          BY <1>2, <1>3, <3>1, <5>1 DEF FramesNest, BuildRun, ProbeRun
        <5>3. QED  BY <1>5, <3>1, <4>1, <5>2
      <4>4. QED  BY <4>2, <4>3
    <3>4. QED  BY <3>2, <3>3
  <2>2. 0 \in Partitions
    BY PartitionsFacts
  <2>3. QED  BY <1>1, <2>1, <2>2 DEF FramesNest
<1>10. ASSUME NEW x \in Match
       PROVE  Pending(x)' <=> Pending(x)
  <2> DEFINE b == BuildRowOf(x)
             q == ProbeRowOf(x)
  <2>1. /\ BuildRowOf(x)' = b /\ ProbeRowOf(x)' = q
        /\ b \in Rows /\ Digest[b] = Digest[q]
    BY <1>1, RowsOfPair, MatchPairs DEF BuildRowOf, ProbeRowOf
  <2>2. \A d \in 0 .. depth, p \in Partitions :
          StillToJoin(d, p)' <=> StillToJoin(d, p) /\ ~(d = depth /\ p = i)
    <3>1. ASSUME NEW d \in 0 .. depth, NEW p \in Partitions
          PROVE  StillToJoin(d, p)' <=> p > partition_index[d]
      BY <1>1, <1>3, <1>5 DEF StillToJoin
    <3>2. QED  BY <1>3, <3>1, PartitionsFacts DEF StillToJoin
  <2>3. \A d \in 0 .. deeper, p \in Partitions : d = deeper => StillToJoin(d, p)'
    BY <1>1, <1>3, <1>5, PartitionsFacts DEF StillToJoin
  <2>4. ASSUME Pending(x)
        PROVE  Pending(x)'
    <3>1. PICK d \in 0 .. depth, p \in Partitions :
            StillToJoin(d, p) /\ b \in build_runs[d][p] /\ q \in probe_runs[d][p]
      BY <2>4 DEF Pending
    <3>2. CASE d = depth /\ p = i
      <4> DEFINE r == PartitionIndex(Digest[b], deeper)
      <4>1. r \in Partitions
        BY <1>3, <2>1, PartitionIndexType
      <4>2. b \in BuildRun /\ q \in ProbeRun
        BY <3>1, <3>2 DEF BuildRun, ProbeRun
      <4>3. b \in SplitBuild[r] /\ q \in SplitProbe[r]
        BY <1>6, <2>1, <4>1, <4>2
      <4>4. b \in build_runs'[deeper][r] /\ q \in probe_runs'[deeper][r]
        BY <1>3, <1>5, <4>3
      <4>5. deeper \in 0 .. deeper
        BY <1>3
      <4>6. \E e \in 0 .. deeper, s \in Partitions :
              StillToJoin(e, s)' /\ b \in build_runs'[e][s] /\ q \in probe_runs'[e][s]
        BY <2>3, <4>1, <4>4, <4>5
      <4>7. QED  BY <1>1, <2>1, <4>6 DEF Pending
    <3>3. CASE ~(d = depth /\ p = i)
      <4>1. StillToJoin(d, p)' /\ b \in build_runs'[d][p] /\ q \in probe_runs'[d][p]
        BY <1>3, <1>5, <2>2, <3>1, <3>3
      <4>2. d \in 0 .. deeper
        BY <1>3
      <4>3. QED  BY <1>1, <2>1, <4>1, <4>2 DEF Pending
    <3>4. QED  BY <3>2, <3>3
  <2>5. ASSUME Pending(x)'
        PROVE  Pending(x)
    <3>1. PICK d \in 0 .. deeper, p \in Partitions :
            StillToJoin(d, p)' /\ b \in build_runs'[d][p] /\ q \in probe_runs'[d][p]
      BY <1>1, <2>1, <2>5 DEF Pending
    <3>2. CASE d = deeper
      <4>1. b \in BuildRun /\ q \in ProbeRun
        BY <1>3, <1>5, <1>6, <3>1, <3>2
      <4>2. depth \in 0 .. depth /\ StillToJoin(depth, i)
        BY <1>3 DEF StillToJoin
      <4>3. QED  BY <1>3, <4>1, <4>2 DEF Pending, BuildRun, ProbeRun
    <3>3. CASE d # deeper
      <4>1. d \in 0 .. depth /\ d \in Depths
        BY <1>3, <3>3
      <4>2. StillToJoin(d, p) /\ b \in build_runs[d][p] /\ q \in probe_runs[d][p]
        BY <1>5, <2>2, <3>1, <3>3, <4>1
      <4>3. QED  BY <4>1, <4>2 DEF Pending
    <3>4. QED  BY <3>2, <3>3
  <2>6. QED  BY <2>4, <2>5
<1>11. PairsInv'
  <2>1. \A x \in AllPairs : emitted'[x] = IF x \in Match /\ ~Pending(x)' THEN 1 ELSE 0
    <3>1. \A x \in AllPairs : emitted[x] = IF x \in Match /\ ~Pending(x) THEN 1 ELSE 0
      BY <1>1 DEF IInv, PairsInv
    <3>2. QED  BY <1>1, <1>10, <3>1
  <2>2. QED  BY <1>8, <1>9, <2>1 DEF PairsInv
<1>12. FreshInv' /\ NothingYet' /\ DirectInv' /\ BuildInv' /\ ProbeInv' /\ EndInv'
  BY <1>1 DEF FreshInv, NothingYet, DirectInv, BuildInv, ProbeInv, EndInv
<1>13. QED  BY <1>7, <1>11, <1>12 DEF IInv

LEMMA ReturnToPairStep == ASSUME IInv, ReturnToPair PROVE IInv'
<1> DEFINE caller == depth - 1
<1>1. /\ phase = "pairs" /\ phase' = phase /\ depth' = caller /\ build_is_left' = build_is_left
      /\ build_runs' = [build_runs EXCEPT ![depth] = NoRows]
      /\ probe_runs' = [probe_runs EXCEPT ![depth] = NoRows]
      /\ partition_index' = [partition_index EXCEPT ![caller] = @ + 1]
      /\ emitted' = emitted /\ partition_index[depth] = Fanout /\ depth > 0
      /\ depth \in Depths /\ partition_index \in [Depths -> 0 .. Fanout]
  BY DEF ReturnToPair, IInv, TypeOK
<1>2. RowsInPlace /\ FramesNest
  BY <1>1 DEF IInv, PairsInv
<1>3. /\ depth \in Nat /\ caller \in Depths /\ caller \in Nat
      /\ 0 .. depth \subseteq Depths /\ 0 .. depth = 0 .. caller \cup {depth}
      /\ \A d \in 0 .. caller : d # depth /\ d < depth /\ d \in Nat
  BY <1>1, HybridHashJoinAssumption DEF Depths
<1>4. partition_index[caller] < Fanout /\ partition_index[caller] \in Nat
  <2>1. depth \in 0 .. depth /\ caller \in 0 .. depth /\ caller < depth
    BY <1>3
  <2>2. QED  BY <1>1, <1>2, <1>3, <2>1 DEF FramesNest
<1>5. \A d \in 0 .. caller :
        /\ build_runs'[d] = build_runs[d] /\ probe_runs'[d] = probe_runs[d]
        /\ partition_index'[d] = IF d = caller THEN partition_index[d] + 1 ELSE partition_index[d]
  BY <1>1, <1>3 DEF IInv, TypeOK
<1>6. TypeOK'
  <2>1. /\ build_runs' \in [Depths -> [Partitions -> SUBSET BuildRows]]
        /\ probe_runs' \in [Depths -> [Partitions -> SUBSET ProbeRows]]
    BY <1>1 DEF IInv, TypeOK, NoRows
  <2>2. partition_index' \in [Depths -> 0 .. Fanout]
    <3>1. partition_index[caller] + 1 \in 0 .. Fanout
      BY <1>4, HybridHashJoinAssumption
    <3>2. QED  BY <1>1, <3>1
  <2>3. BuildRows' = BuildRows /\ ProbeRows' = ProbeRows
    BY <1>1 DEF BuildRows, ProbeRows
  <2>4. QED  BY <1>1, <1>3, <2>1, <2>2, <2>3 DEF IInv, TypeOK, ReturnToPair, residentVars
<1>7. RowsInPlace'
  BY <1>1, <1>2, <1>3, <1>5 DEF RowsInPlace
<1>8. FramesNest'
  <2>1. ASSUME NEW d \in 0 .. caller, NEW e \in 0 .. caller, d < e, NEW p \in Partitions
        PROVE  /\ partition_index'[d] < Fanout
               /\ build_runs'[e][p] \subseteq build_runs'[d][partition_index'[d]]
               /\ probe_runs'[e][p] \subseteq probe_runs'[d][partition_index'[d]]
    <3>1. d # caller /\ d \in 0 .. depth /\ e \in 0 .. depth
      BY <1>3, <2>1
    <3>2. QED  BY <1>2, <1>5, <2>1, <3>1 DEF FramesNest
  <2>2. 0 \in Partitions
    BY PartitionsFacts
  <2>3. QED  BY <1>1, <2>1, <2>2 DEF FramesNest
<1>9. ASSUME NEW x \in AllPairs
      PROVE  Pending(x)' <=> Pending(x)
  <2>1. BuildRowOf(x)' = BuildRowOf(x) /\ ProbeRowOf(x)' = ProbeRowOf(x)
    BY <1>1 DEF BuildRowOf, ProbeRowOf
  <2>2. ASSUME NEW d \in 0 .. caller, NEW p \in Partitions
        PROVE  StillToJoin(d, p)' <=> StillToJoin(d, p)
    BY <1>1, <1>3, <1>4, <1>5, PartitionsFacts DEF StillToJoin
  <2>3. \A p \in Partitions : ~StillToJoin(depth, p)
    BY <1>1, HybridHashJoinAssumption DEF StillToJoin, Partitions
  <2>4. Pending(x) <=> \E d \in 0 .. caller, p \in Partitions :
                         /\ StillToJoin(d, p)
                         /\ BuildRowOf(x) \in build_runs[d][p]
                         /\ ProbeRowOf(x) \in probe_runs[d][p]
    BY <1>3, <2>3 DEF Pending
  <2>5. Pending(x)' <=> \E d \in 0 .. caller, p \in Partitions :
                          /\ StillToJoin(d, p)'
                          /\ BuildRowOf(x) \in build_runs'[d][p]
                          /\ ProbeRowOf(x) \in probe_runs'[d][p]
    BY <1>1, <2>1 DEF Pending
  <2>6. QED  BY <1>5, <2>2, <2>4, <2>5
<1>10. PairsInv'
  <2>1. \A x \in AllPairs : emitted'[x] = IF x \in Match /\ ~Pending(x)' THEN 1 ELSE 0
    <3>1. \A x \in AllPairs : emitted[x] = IF x \in Match /\ ~Pending(x) THEN 1 ELSE 0
      BY <1>1 DEF IInv, PairsInv
    <3>2. QED  BY <1>1, <1>9, <3>1
  <2>2. QED  BY <1>7, <1>8, <2>1 DEF PairsInv
<1>11. FreshInv' /\ NothingYet' /\ DirectInv' /\ BuildInv' /\ ProbeInv' /\ EndInv'
  BY <1>1 DEF FreshInv, NothingYet, DirectInv, BuildInv, ProbeInv, EndInv
<1>12. QED  BY <1>6, <1>10, <1>11 DEF IInv

LEMMA PairsDoneStep == ASSUME IInv, PairsDone PROVE IInv'
<1>1. /\ phase = "pairs" /\ phase' = "done" /\ emitted' = emitted
      /\ depth = 0 /\ partition_index[0] = Fanout /\ build_is_left' = build_is_left
  BY DEF PairsDone
<1>2. TypeOK'
  BY <1>1, PartitionsFacts DEF PairsDone, IInv, TypeOK, NoRows, BuildRows, ProbeRows, residentVars
<1>3. \A x \in AllPairs : ~Pending(x)
  BY <1>1, HybridHashJoinAssumption DEF Pending, StillToJoin, Partitions
<1>4. EndInv'
  BY <1>1, <1>3 DEF IInv, PairsInv, EndInv
<1>5. FreshInv' /\ NothingYet' /\ DirectInv' /\ BuildInv' /\ ProbeInv' /\ PairsInv'
  BY <1>1 DEF FreshInv, NothingYet, DirectInv, BuildInv, ProbeInv, PairsInv
<1>6. QED  BY <1>2, <1>4, <1>5 DEF IInv

-----------------------------------------------------------------------------
(* The theorems.                                                           *)

\* In every phase the invariant bounds how often a pair has been emitted.
LEMMA IInvBoundsEmitted == IInv => NothingEmittedTwice
<1> SUFFICES ASSUME IInv, NEW x \in AllPairs
             PROVE  emitted[x] <= IF x \in Match THEN 1 ELSE 0
  BY DEF NothingEmittedTwice, AllPairs
<1>1. CASE phase \in {"plan", "direct_build", "build"}
  BY <1>1 DEF IInv, NothingYet
<1>2. CASE phase = "direct_probe"
  BY <1>2 DEF IInv, DirectInv
<1>3. CASE phase = "probe"
  BY <1>3 DEF IInv, ProbeInv
<1>4. CASE phase = "pairs"
  BY <1>4 DEF IInv, PairsInv
<1>5. CASE phase \in {"done", "failed"}
  BY <1>5 DEF IInv, EndInv, NothingEmittedTwice, AllPairs
<1>6. QED  BY <1>1, <1>2, <1>3, <1>4, <1>5 DEF IInv, TypeOK

LEMMA JoinFailsStep == ASSUME IInv, JoinFails PROVE IInv'
<1> USE DEF JoinFails, runVars, residentVars
<1>1. TypeOK'
  BY DEF IInv, TypeOK, BuildRows, ProbeRows
<1>2. EndInv'
  BY IInvBoundsEmitted DEF EndInv, NothingEmittedTwice
<1>3. FreshInv' /\ NothingYet' /\ DirectInv' /\ BuildInv' /\ ProbeInv' /\ PairsInv'
  BY DEF FreshInv, NothingYet, DirectInv, BuildInv, ProbeInv, PairsInv
<1>4. QED  BY <1>1, <1>2, <1>3 DEF IInv

LEMMA StutterStep == ASSUME IInv, UNCHANGED vars PROVE IInv'
<1> USE DEF vars, runVars, residentVars
<1>1. TypeOK' /\ FreshInv' /\ NothingYet' /\ EndInv'
  BY DEF IInv, TypeOK, FreshInv, NothingYet, EndInv, NothingEmittedTwice, BuildRows, ProbeRows
<1>2. DirectInv' /\ BuildInv' /\ ProbeInv'
  BY DEF IInv, DirectInv, BuildInv, ProbeInv, ArrivedBuildRows, BuildRows, ProbeRows, ProbeRowOf
<1>3. PairsInv'
  BY DEF IInv, PairsInv, RowsInPlace, FramesNest, Pending, StillToJoin, BuildRowOf, ProbeRowOf
<1>4. QED  BY <1>1, <1>2, <1>3 DEF IInv

LEMMA StepIInv == IInv /\ [Next]_vars => IInv'
<1> SUFFICES ASSUME IInv, [Next]_vars PROVE IInv'
  OBVIOUS
<1>1. CASE Direct
  BY <1>1, PassOverDirectStep, TryDirectStep, DirectInsertStep, DirectExceededStep,
     DirectBuiltStep, DirectProbeStep, DirectDoneStep DEF Direct
<1>2. CASE Partitioned
  BY <1>2, StartPartitionedStep, BuildSpilledStep, BuildResidentStep, BuildSpillsStep,
     StartProbeStep, ProbeResidentStep, ProbeSpilledStep, StartPairsStep DEF Partitioned
<1>3. CASE Pairs
  BY <1>3, SkipPairStep, HashPairStep, SplitPairStep, LoopPairStep, ReturnToPairStep,
     PairsDoneStep DEF Pairs
<1>4. CASE JoinFails
  BY <1>4, JoinFailsStep
<1>5. CASE UNCHANGED vars
  BY <1>5, StutterStep
<1>6. QED  BY <1>1, <1>2, <1>3, <1>4, <1>5 DEF Next

LEMMA IInvHolds == Spec => []IInv
BY InitIInv, StepIInv, PTL DEF Spec

(* The types, and that each table, partition and run holds rows of one     *)
(* side only, for any inputs and budgets.                                  *)
THEOREM TypeCorrect == Spec => []TypeOK
<1>1. IInv => TypeOK
  BY DEF IInv
<1>2. QED  BY <1>1, IInvHolds, PTL

(* The equality join of filter.rs emits every matching pair exactly once   *)
(* and no other pair, whatever fits into memory, for any digest function   *)
(* that agrees on equal keys, any fanout and any recursion bound.          *)
THEOREM JoinExact == Spec => []JoinIsExact
<1>1. IInv => JoinIsExact
  BY DEF IInv, EndInv, JoinIsExact, TypeOK, AllPairs
<1>2. QED  BY <1>1, IInvHolds, PTL

(* Abandoned hash tables and failures repeat no output: at no time has a   *)
(* pair been emitted twice, or without matching.                           *)
THEOREM NoDuplicates == Spec => []NothingEmittedTwice
BY IInvBoundsEmitted, IInvHolds, PTL

(* A build row that has arrived is in its resident partition or in its     *)
(* spilled run, never in both.                                             *)
THEOREM BuildRowsKept == Spec => []BuildRowsAreKept
<1>1. ASSUME IInv PROVE BuildRowsAreKept
  <2> SUFFICES ASSUME phase \in {"build", "probe"}, NEW row \in ArrivedBuildRows
               PROVE  IF spilled[PartitionOf(row)]
                      THEN /\ row \in build_runs[0][PartitionOf(row)]
                           /\ resident[PartitionOf(row)] = {}
                      ELSE /\ row \in resident[PartitionOf(row)]
                           /\ build_runs[0][PartitionOf(row)] = {}
    BY DEF BuildRowsAreKept, ArrivedBuildRows
  <2>1. PartitionOf(row) \in Partitions
    BY PartitionIndexType, PartitionsFacts DEF PartitionOf, ArrivedBuildRows, BuildRows, Rows
  <2>2. QED  BY <1>1, <2>1 DEF IInv, BuildInv
<1>2. QED  BY <1>1, IInvHolds, PTL

-----------------------------------------------------------------------------
(* The accounting of resident rows.                                        *)

\* ResidentBytesAreCounted, over bytes that are numbers.
Counted ==
  /\ used_bytes \in [Partitions -> Nat]
  /\ \A p \in Partitions : used_bytes[p] = UsedBytes(resident[p])
  /\ total_resident_bytes = SumOver(used_bytes, Partitions)
  /\ total_resident_bytes <= ResidentBudget

LEMMA CountedIsCounted == Counted => ResidentBytesAreCounted
BY DEF Counted, ResidentBytesAreCounted, SumOver

LEMMA PartitionsFinite == IsFiniteSet(Partitions)
BY HybridHashJoinAssumption, FS_Interval DEF Partitions

LEMMA ProductType == ASSUME NEW m \in Nat, NEW n \in Nat PROVE m * n \in Nat
OBVIOUS

LEMMA UsedBytesType ==
  ASSUME NEW S \in SUBSET Rows
  PROVE  UsedBytes(S) \in Nat
<1>1. IsFiniteSet(S)
  BY HybridHashJoinAssumption, FS_Subset
<1>2. \A row \in S : RowBytes[row] \in Nat
  BY HybridHashJoinAssumption
<1>3. SumOver(RowBytes, S) \in Nat
  BY <1>1, <1>2, SumType
<1>4. MapThenSumSet(LAMBDA row : RowBytes[row], S) \in Nat
  BY <1>3 DEF SumOver
<1>5. [row \in S |-> Digest[row]] \in Surjection(S, Keys(S))
  BY DEF Surjection, Keys
<1>6. Cardinality(Keys(S)) \in Nat
  BY <1>1, <1>5, FS_Surjection, FS_CardinalityType
<1>7. BucketBytes * Cardinality(Keys(S)) \in Nat
  BY <1>6, ProductType, HybridHashJoinAssumption
<1>8. QED  BY <1>4, <1>7 DEF UsedBytes

LEMMA UsedBytesEmpty == UsedBytes({}) = 0
<1>1. MapThenSumSet(LAMBDA row : RowBytes[row], {}) = 0
  <2>1. SumOver(RowBytes, {}) = 0
    BY SumEmpty
  <2>2. QED  BY <2>1 DEF SumOver
<1>2. Cardinality(Keys({})) = 0
  <2>1. Keys({}) = {}
    BY DEF Keys
  <2>2. QED  BY <2>1, FS_EmptySet
<1>3. BucketBytes * 0 = 0
  BY HybridHashJoinAssumption
<1>4. QED  BY <1>1, <1>2, <1>3 DEF UsedBytes

LEMMA BudgetType == ResidentBudget \in Nat
BY HybridHashJoinAssumption

LEMMA InitCounted == Init => Counted
<1> SUFFICES ASSUME Init PROVE Counted
  OBVIOUS
<1>1. \A p \in Partitions : used_bytes[p] = 0 /\ resident[p] = {}
  BY DEF Init, NoRows
<1>2. SumOver(used_bytes, Partitions) = 0
  BY <1>1, PartitionsFinite, SumOfZeros
<1>3. used_bytes \in [Partitions -> Nat] /\ total_resident_bytes = 0
  BY DEF Init
<1>4. QED  BY <1>1, <1>2, <1>3, UsedBytesEmpty, BudgetType DEF Counted

(* One partition's bytes change and the total with them; what the others   *)
(* use stays within the budget.                                            *)
LEMMA PartitionCounted ==
  ASSUME TypeOK, Counted, NEW p \in Partitions, NEW rows \in SUBSET Rows,
         resident' = [resident EXCEPT ![p] = rows],
         used_bytes' = [used_bytes EXCEPT ![p] = UsedBytes(rows)],
         total_resident_bytes' = total_resident_bytes - used_bytes[p] + UsedBytes(rows),
         total_resident_bytes - used_bytes[p] + UsedBytes(rows) <= ResidentBudget
  PROVE  Counted'
<1>1. UsedBytes(rows) \in Nat
  BY UsedBytesType
<1>2. used_bytes' \in [Partitions -> Nat]
  BY <1>1 DEF Counted
<1>3. \A q \in Partitions : used_bytes'[q] = UsedBytes(resident'[q])
  BY DEF Counted, TypeOK
<1>4. /\ \A q \in Partitions : used_bytes[q] \in Nat
      /\ used_bytes'[p] \in Nat /\ used_bytes'[p] = UsedBytes(rows)
      /\ \A q \in Partitions \ {p} : used_bytes'[q] = used_bytes[q]
  BY <1>1 DEF Counted
<1>5. SumOver(used_bytes', Partitions)
        = SumOver(used_bytes, Partitions) - used_bytes[p] + used_bytes'[p]
  <2>1. ASSUME NEW f, NEW g, \A q \in Partitions : f[q] \in Nat,
               g[p] \in Nat, \A q \in Partitions \ {p} : g[q] = f[q]
        PROVE  SumOver(g, Partitions) = SumOver(f, Partitions) - f[p] + g[p]
    BY <2>1, PartitionsFinite, SumUpdate
  <2>2. QED  BY <1>4, <2>1
<1>6. SumOver(used_bytes', Partitions) = total_resident_bytes'
  BY <1>4, <1>5 DEF Counted
<1>7. total_resident_bytes' <= ResidentBudget
  OBVIOUS
<1>8. QED  BY <1>2, <1>3, <1>6, <1>7 DEF Counted

\* The total is a number and no partition uses more than it.
LEMMA TotalFacts ==
  ASSUME Counted, NEW p \in Partitions
  PROVE  /\ total_resident_bytes \in Nat /\ used_bytes[p] \in Nat
         /\ used_bytes[p] <= total_resident_bytes /\ total_resident_bytes <= ResidentBudget
<1>1. \A q \in Partitions : used_bytes[q] \in Nat
  BY DEF Counted
<1>2. total_resident_bytes = SumOver(used_bytes, Partitions)
  BY DEF Counted
<1>3. SumOver(used_bytes, Partitions) \in Nat
  BY <1>1, PartitionsFinite, SumType
<1>4. SumOver(used_bytes, {p}) <= SumOver(used_bytes, Partitions)
  BY <1>1, PartitionsFinite, SumOfPart
<1>5. SumOver(used_bytes, {p}) = used_bytes[p]
  BY <1>1, SumOfOne
<1>6. QED  BY <1>1, <1>2, <1>3, <1>4, <1>5 DEF Counted

LEMMA BuildResidentCounted ==
  ASSUME IInv, Counted, NEW row \in Rows, BuildResident(row)
  PROVE  Counted'
<1> DEFINE p == PartitionOf(row)
           rows == resident[p] \cup {row}
<1>1. p \in Partitions
  BY PartitionIndexType, PartitionsFacts DEF PartitionOf
<1>2. rows \in SUBSET Rows
  BY <1>1 DEF IInv, TypeOK, BuildRows, Rows
<1>3. /\ Fits(rows, PartitionBudget(p))
      /\ resident' = [resident EXCEPT ![p] = rows]
      /\ used_bytes' = [used_bytes EXCEPT ![p] = UsedBytes(rows)]
      /\ total_resident_bytes' = total_resident_bytes + (UsedBytes(rows) - used_bytes[p])
  BY DEF BuildResident
<1> HIDE DEF p, rows
<1>4. /\ total_resident_bytes \in Nat /\ used_bytes[p] \in Nat
      /\ used_bytes[p] <= total_resident_bytes /\ total_resident_bytes <= ResidentBudget
  BY <1>1, TotalFacts
<1>5. PartitionBudget(p) = ResidentBudget - (total_resident_bytes - used_bytes[p])
  BY <1>4, BudgetType DEF PartitionBudget, Monus
<1>6. UsedBytes(rows) \in Nat /\ ReservedBytes[rows] \in Nat
  BY <1>2, UsedBytesType, HybridHashJoinAssumption
<1>7. total_resident_bytes - used_bytes[p] + UsedBytes(rows) <= ResidentBudget
  BY <1>3, <1>4, <1>5, <1>6, BudgetType DEF Fits
<1>8. total_resident_bytes' = total_resident_bytes - used_bytes[p] + UsedBytes(rows)
  BY <1>3, <1>4, <1>6
<1>9. QED  BY <1>1, <1>2, <1>3, <1>7, <1>8, PartitionCounted DEF IInv

LEMMA BuildSpillsCounted ==
  ASSUME IInv, Counted, NEW row \in Rows, BuildSpills(row)
  PROVE  Counted'
<1> DEFINE p == PartitionOf(row)
<1>1. p \in Partitions
  BY PartitionIndexType, PartitionsFacts DEF PartitionOf
<1>2. /\ resident' = [resident EXCEPT ![p] = {}]
      /\ used_bytes' = [used_bytes EXCEPT ![p] = 0]
      /\ total_resident_bytes' = Monus(total_resident_bytes, used_bytes[p])
  BY DEF BuildSpills
<1> HIDE DEF p
<1>3. /\ total_resident_bytes \in Nat /\ used_bytes[p] \in Nat
      /\ used_bytes[p] <= total_resident_bytes /\ total_resident_bytes <= ResidentBudget
  BY <1>1, TotalFacts
<1>4. /\ total_resident_bytes' = total_resident_bytes - used_bytes[p] + UsedBytes({})
      /\ total_resident_bytes - used_bytes[p] + UsedBytes({}) <= ResidentBudget
  BY <1>2, <1>3, UsedBytesEmpty, BudgetType DEF Monus
<1>5. used_bytes' = [used_bytes EXCEPT ![p] = UsedBytes({})]
  BY <1>2, UsedBytesEmpty
<1>6. {} \in SUBSET Rows /\ TypeOK
  BY DEF IInv
<1>7. QED  BY <1>1, <1>2, <1>4, <1>5, <1>6, PartitionCounted

LEMMA StartPairsCounted == ASSUME StartPairs PROVE Counted'
<1>1. \A p \in Partitions : used_bytes'[p] = 0 /\ resident'[p] = {}
  BY DEF StartPairs, NoRows
<1>2. SumOver(used_bytes', Partitions) = 0
  BY <1>1, PartitionsFinite, SumOfZeros
<1>3. used_bytes' \in [Partitions -> Nat] /\ total_resident_bytes' = 0
  BY DEF StartPairs
<1>4. QED  BY <1>1, <1>2, <1>3, UsedBytesEmpty, BudgetType DEF Counted

LEMMA StepCounted == IInv /\ Counted /\ [Next]_vars => Counted'
<1> SUFFICES ASSUME IInv, Counted, [Next]_vars PROVE Counted'
  OBVIOUS
<1>1. ASSUME UNCHANGED residentVars PROVE Counted'
  BY <1>1 DEF residentVars, Counted
<1>2. CASE Direct
  BY <1>1, <1>2 DEF Direct, PassOverDirect, TryDirect, DirectInsert, DirectExceeded,
     DirectBuilt, DirectProbe, DirectDone
<1>3. CASE Partitioned
  <2>1. CASE StartPartitioned
    BY <2>1 DEF StartPartitioned, Counted
  <2>2. CASE StartProbe
    BY <1>1, <2>2 DEF StartProbe
  <2>3. CASE StartPairs
    BY <2>3, StartPairsCounted
  <2>4. ASSUME NEW row \in Rows,
               BuildSpilled(row) \/ ProbeResident(row) \/ ProbeSpilled(row)
        PROVE  Counted'
    BY <1>1, <2>4 DEF BuildSpilled, ProbeResident, ProbeSpilled, ReadProbeRow
  <2>5. QED
    BY <1>3, <2>1, <2>2, <2>3, <2>4, BuildResidentCounted, BuildSpillsCounted DEF Partitioned
<1>4. CASE Pairs
  BY <1>1, <1>4 DEF Pairs, SkipPair, HashPair, SplitPair, LoopPair, ReturnToPair, PairsDone,
     KeepFrame
<1>5. CASE JoinFails
  BY <1>1, <1>5 DEF JoinFails
<1>6. CASE UNCHANGED vars
  BY <1>1, <1>6 DEF vars, residentVars
<1>7. QED  BY <1>2, <1>3, <1>4, <1>5, <1>6 DEF Next

(* The bytes of the resident partitions are counted exactly and stay       *)
(* within the budget, for any sizes and any order of arrival: the second   *)
(* comparison with the budget in filter.rs never finds an excess.          *)
THEOREM ResidentBytesCounted == Spec => []ResidentBytesAreCounted
<1>1. QED  BY CountedIsCounted, InitCounted, StepCounted, IInvHolds, PTL DEF Spec

=============================================================================
