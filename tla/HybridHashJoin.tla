--------------------------- MODULE HybridHashJoin ---------------------------
(***************************************************************************)
(* The equality join of two inputs that may not fit in memory              *)
(* (database/src/executor/filter.rs: execute_equality_join and what it     *)
(* calls).                                                                 *)
(*                                                                         *)
(* The join first tries to hold one input in a hash table and stream the   *)
(* other past it; the attempt is abandoned, and both inputs are executed   *)
(* anew, when the table exceeds its budget.  After that it partitions by   *)
(* digest: build rows stay resident while they fit, else their whole       *)
(* partition moves to scratch; probe rows of resident partitions are       *)
(* answered at once, the others follow their partition to scratch unless a *)
(* Bloom filter rules them out.  The spilled pairs are joined one by one:  *)
(* in memory, by partitioning again with other bits of the digest, or by   *)
(* nested loops.                                                           *)
(*                                                                         *)
(* Every path may be taken for some rows and not for others, and the       *)
(* answer must be the same.  Rows are identities; inputs arrive in any     *)
(* order (a map of rows has no order the join relies on), a scratch run is *)
(* the rows pushed to it (ScratchRun shows it gives them back) and a       *)
(* partition's reservations of memory are sums over its rows.              *)
(***************************************************************************)
EXTENDS Integers, FiniteSets, FiniteSetsExt

CONSTANTS
  Left, Right,     \* the rows of the two inputs
  Match,           \* the pairs <<l, r>> that satisfy the join's predicates
  Digests,         \* values of JoinKeyDigest
  Digest,          \* join_key_digest_for_row of each row
  BitGroup,        \* of each digest and depth: its PARTITION_FANOUT_BITS bits for that depth
  RowBytes,        \* encoded size of each row, with its Box
  BucketBytes,     \* a new key of the hash table
  ReservedBytes,   \* hash_map_reserved_bytes of a table with these rows: its spare capacity
  RowsPerBlock,    \* rows of a scratch block
  HashBudget,      \* hash_build_budget
  ResidentBudget,  \* hybrid_hash_resident_budget
  BloomBits,       \* bloom_hashes: the bits of each digest
  Fanout,          \* PARTITION_FANOUT
  MaxDepth         \* MAX_PARTITION_DEPTH

Rows == Left \cup Right
Partitions == 0 .. Fanout - 1
Depths == 0 .. MaxDepth

ASSUME HybridHashJoinAssumption ==
  /\ Left \cap Right = {} /\ IsFiniteSet(Rows)
  /\ Match \subseteq Left \X Right
  /\ Digest \in [Rows -> Digests]
  /\ \A pair \in Match : Digest[pair[1]] = Digest[pair[2]]
  /\ BitGroup \in [Digests -> [Depths -> Partitions]]
  /\ RowBytes \in [Rows -> Nat]
  /\ ReservedBytes \in [SUBSET Rows -> Nat]
  /\ {HashBudget, ResidentBudget, MaxDepth} \subseteq Nat
  /\ {BucketBytes, RowsPerBlock, Fanout} \subseteq Nat \ {0}

VARIABLES
  phase,          \* "plan", "direct_build", "direct_probe", "build", "probe", "pairs", "done", "failed"
  build_is_left,  \* whether the hash table is built over Left
  attempts,       \* direct builds tried or passed over
  unread,         \* rows of the input being streamed that have not arrived
  table,          \* rows of the direct hash table
  resident,       \* of each partition: the rows in its HybridBuildPartition
  used_bytes,     \* of each partition
  spilled,        \* of each partition
  total_resident_bytes,
  join_filter,    \* bits set in the Bloom filter
  build_runs,     \* of each recursion depth and partition: the rows of the run
  probe_runs,
  depth,          \* depth of the recursion over spilled pairs
  partition_index, \* of each depth: the loop variable
  emitted         \* how often each pair was given to the sink

vars == <<phase, build_is_left, attempts, unread, table, resident, used_bytes, spilled,
          total_resident_bytes, join_filter, build_runs, probe_runs, depth, partition_index,
          emitted>>
residentVars == <<resident, used_bytes, spilled, total_resident_bytes>>
runVars == <<build_runs, probe_runs, depth, partition_index>>

BuildRows == IF build_is_left THEN Left ELSE Right
ProbeRows == IF build_is_left THEN Right ELSE Left

-----------------------------------------------------------------------------
\* partition_index_for_digest: shift and mask.
PartitionIndex(digest, d) == BitGroup[digest][d]

\* JoinBloomFilter: it answers yes for every inserted digest and some others.
Insert(filter, digest) == filter \cup BloomBits[digest]
MayContain(filter, digest) == BloomBits[digest] \subseteq filter

Keys(S) == {Digest[row] : row \in S}

\* used_bytes of a hash table with the rows S.
UsedBytes(S) ==
  MapThenSumSet(LAMBDA row : RowBytes[row], S) + BucketBytes * Cardinality(Keys(S))

\* insert_encoded_build_row's check for the last of the rows S; capacity grows
\* before it.
Fits(S, budget) == UsedBytes(S) + ReservedBytes[S] <= budget

\* Scratch blocks of a run.
RunBlocks(S) == (Cardinality(S) + RowsPerBlock - 1) \div RowsPerBlock

\* Row::combine with the build row on its side of the join.
Combine(build_row, probe_row, is_left) ==
  IF is_left THEN <<build_row, probe_row>> ELSE <<probe_row, build_row>>

\* The pairs emitted by probing a table over S with the rows T: the digests
\* agree and the combined row satisfies the predicates.
HashMatches(S, T, is_left) ==
  {Combine(x[1], x[2], is_left) : x \in {y \in S \X T : Digest[y[1]] = Digest[y[2]]}} \cap Match

\* The pairs emitted by nested loops over two runs: only the predicates count.
LoopMatches(S, T, is_left) == {Combine(x[1], x[2], is_left) : x \in S \X T} \cap Match

Emit(pairs) ==
  emitted' = [x \in DOMAIN emitted |-> IF x \in pairs THEN emitted[x] + 1 ELSE emitted[x]]

-----------------------------------------------------------------------------
NoRows == [p \in Partitions |-> {}]

Init ==
  /\ phase = "plan"
  /\ build_is_left \in BOOLEAN   \* the estimates may prefer either input
  /\ attempts = 0 /\ unread = {} /\ table = {}
  /\ resident = NoRows /\ used_bytes = [p \in Partitions |-> 0]
  /\ spilled = [p \in Partitions |-> FALSE]
  /\ total_resident_bytes = 0 /\ join_filter = {}
  /\ build_runs = [d \in Depths |-> NoRows] /\ probe_runs = [d \in Depths |-> NoRows]
  /\ depth = 0 /\ partition_index = [d \in Depths |-> 0]
  /\ emitted = [x \in Left \X Right |-> 0]

\* should_try_direct_hash_build says no; the second attempt is for the other
\* input, and after it the roles are the first ones again.
PassOverDirect ==
  /\ phase = "plan" /\ attempts < 2
  /\ attempts' = attempts + 1
  /\ build_is_left' = ~build_is_left
  /\ UNCHANGED <<phase, unread, table, residentVars, join_filter, runVars, emitted>>

\* try_build_hash_rows starts to execute the build input.
TryDirect ==
  /\ phase = "plan" /\ attempts < 2
  /\ phase' = "direct_build"
  /\ unread' = BuildRows
  /\ table' = {}
  /\ UNCHANGED <<build_is_left, attempts, residentVars, join_filter, runVars, emitted>>

DirectInsert ==
  /\ phase = "direct_build"
  /\ \E row \in unread :
       /\ Fits(table \cup {row}, HashBudget)
       /\ table' = table \cup {row}
       /\ unread' = unread \ {row}
  /\ UNCHANGED <<phase, build_is_left, attempts, residentVars, join_filter, runVars, emitted>>

\* HashBuildBudgetExceeded, by the budget or by a failed allocation (so any
\* row may raise it): the table is dropped and the next plan is tried.
DirectExceeded ==
  /\ phase = "direct_build" /\ unread # {}
  /\ phase' = "plan"
  /\ attempts' = attempts + 1
  /\ build_is_left' = ~build_is_left
  /\ table' = {} /\ unread' = {}
  /\ UNCHANGED <<residentVars, join_filter, runVars, emitted>>

\* execute_probe_subtree_against_hash starts.
DirectBuilt ==
  /\ phase = "direct_build" /\ unread = {}
  /\ phase' = "direct_probe"
  /\ unread' = ProbeRows
  /\ UNCHANGED <<build_is_left, attempts, table, residentVars, join_filter, runVars, emitted>>

DirectProbe ==
  /\ phase = "direct_probe"
  /\ \E row \in unread :
       /\ Emit(HashMatches(table, {row}, build_is_left))
       /\ unread' = unread \ {row}
  /\ UNCHANGED <<phase, build_is_left, attempts, table, residentVars, join_filter, runVars>>

DirectDone ==
  /\ phase = "direct_probe" /\ unread = {}
  /\ phase' = "done"
  /\ UNCHANGED <<build_is_left, attempts, unread, table, residentVars, join_filter, runVars,
                 emitted>>

-----------------------------------------------------------------------------
(* execute_partitioned_hash_join_from_subtrees.                            *)

(* The build input is executed.  When an input is a join or a sort itself  *)
(* nothing is kept resident (lines 744-790): every partition is spilled    *)
(* from the start.                                                         *)
StartPartitioned ==
  /\ phase = "plan" /\ attempts = 2
  /\ phase' = "build"
  /\ unread' = BuildRows
  /\ \E hybrid \in BOOLEAN : spilled' = [p \in Partitions |-> ~hybrid]
  /\ UNCHANGED <<build_is_left, attempts, table, resident, used_bytes, total_resident_bytes,
                 join_filter, runVars, emitted>>

PartitionOf(row) == PartitionIndex(Digest[row], 0)

\* A build row arrives.
ReadBuildRow(row) ==
  /\ phase = "build" /\ row \in unread
  /\ unread' = unread \ {row}
  /\ join_filter' = Insert(join_filter, Digest[row])
  /\ UNCHANGED <<phase, build_is_left, attempts, table, probe_runs, depth, partition_index,
                 emitted>>

PushBuild(p, rows) == build_runs' = [build_runs EXCEPT ![0][p] = @ \cup rows]

BuildSpilled(row) ==
  /\ ReadBuildRow(row)
  /\ spilled[PartitionOf(row)]
  /\ PushBuild(PartitionOf(row), {row})
  /\ UNCHANGED residentVars

Monus(m, n) == IF m > n THEN m - n ELSE 0   \* saturating_sub

PartitionBudget_Whole(p) == ResidentBudget   \* mutant: each partition may take it all

\* What partition p may use of the budget the other partitions leave.
PartitionBudget(p) ==
  LET rest == Monus(ResidentBudget, Monus(total_resident_bytes, used_bytes[p]))
  IN  IF rest > used_bytes[p] THEN rest ELSE used_bytes[p]

\* insert_encoded_build_row succeeds.  The check of the total after it cannot
\* fail (ResidentBytesAreCounted), so its branch is not modelled.
BuildResident(row) ==
  LET p == PartitionOf(row)
      rows == resident[p] \cup {row}
  IN  /\ ReadBuildRow(row)
      /\ ~spilled[p]
      /\ Fits(rows, PartitionBudget(p))
      /\ resident' = [resident EXCEPT ![p] = rows]
      /\ used_bytes' = [used_bytes EXCEPT ![p] = UsedBytes(rows)]
      /\ total_resident_bytes' = total_resident_bytes + (UsedBytes(rows) - used_bytes[p])
      /\ UNCHANGED <<spilled, build_runs>>

BuildSpills_NotMarked(row) ==   \* mutant: partition.spilled is not set
  LET p == PartitionOf(row)
  IN  /\ ReadBuildRow(row)
      /\ ~spilled[p]
      /\ PushBuild(p, resident[p] \cup {row})
      /\ resident' = [resident EXCEPT ![p] = {}]
      /\ used_bytes' = [used_bytes EXCEPT ![p] = 0]
      /\ total_resident_bytes' = Monus(total_resident_bytes, used_bytes[p])
      /\ UNCHANGED spilled

\* HashBuildBudgetExceeded (by the budget or a failed allocation): the whole
\* partition moves to scratch, flush_hybrid_build_partition, then the row.
BuildSpills(row) ==
  LET p == PartitionOf(row)
  IN  /\ ReadBuildRow(row)
      /\ ~spilled[p]
      /\ PushBuild(p, resident[p] \cup {row})
      /\ resident' = [resident EXCEPT ![p] = {}]
      /\ used_bytes' = [used_bytes EXCEPT ![p] = 0]
      /\ total_resident_bytes' = Monus(total_resident_bytes, used_bytes[p])
      /\ spilled' = [spilled EXCEPT ![p] = TRUE]

\* The probe input is executed.
StartProbe ==
  /\ phase = "build" /\ unread = {}
  /\ phase' = "probe"
  /\ unread' = ProbeRows
  /\ UNCHANGED <<build_is_left, attempts, table, residentVars, join_filter, runVars, emitted>>

ReadProbeRow(row) ==
  /\ phase = "probe" /\ row \in unread
  /\ unread' = unread \ {row}
  /\ UNCHANGED <<phase, build_is_left, attempts, table, residentVars, join_filter, build_runs,
                 depth, partition_index>>

\* The row's partition is resident.
ProbeResident(row) ==
  /\ ReadProbeRow(row)
  /\ ~spilled[PartitionOf(row)]
  /\ Emit(HashMatches(resident[PartitionOf(row)], {row}, build_is_left))
  /\ UNCHANGED probe_runs

\* The row's partition is spilled: it is pushed, unless the filter excludes it.
ProbeSpilled(row) ==
  /\ ReadProbeRow(row)
  /\ spilled[PartitionOf(row)]
  /\ IF MayContain(join_filter, Digest[row])
     THEN probe_runs' = [probe_runs EXCEPT ![0][PartitionOf(row)] = @ \cup {row}]
     ELSE UNCHANGED probe_runs
  /\ UNCHANGED emitted

\* The filter and the resident partitions are dropped, the writers finished.
StartPairs ==
  /\ phase = "probe" /\ unread = {}
  /\ phase' = "pairs"
  /\ join_filter' = {}
  /\ resident' = NoRows
  /\ used_bytes' = [p \in Partitions |-> 0]
  /\ total_resident_bytes' = 0
  /\ UNCHANGED <<build_is_left, attempts, unread, table, spilled, runVars, emitted>>

-----------------------------------------------------------------------------
(* execute_partitioned_hash_join_from_runs: the pairs of runs in order,    *)
(* with one frame of runs per depth of the recursion.                      *)

BuildRun == build_runs[depth][partition_index[depth]]
ProbeRun == probe_runs[depth][partition_index[depth]]

AtPair == phase = "pairs" /\ partition_index[depth] < Fanout
NextPair == partition_index' = [partition_index EXCEPT ![depth] = @ + 1]

\* The frame stays as it is.
KeepFrame ==
  UNCHANGED <<phase, build_is_left, attempts, unread, table, residentVars, join_filter,
              build_runs, probe_runs, depth>>

SkipPair_Again ==   \* mutant: the loop does not go on
  /\ AtPair
  /\ BuildRun = {} \/ ProbeRun = {}
  /\ KeepFrame /\ UNCHANGED <<partition_index, emitted>>

SkipPair ==
  /\ AtPair
  /\ BuildRun = {} \/ ProbeRun = {}
  /\ NextPair
  /\ KeepFrame /\ UNCHANGED emitted

BothFilled == AtPair /\ BuildRun # {} /\ ProbeRun # {}

\* The smaller run is the one to hold in memory; the build run if equal.
BuildIsSmaller == RunBlocks(BuildRun) <= RunBlocks(ProbeRun)
SmallerRun == IF BuildIsSmaller THEN BuildRun ELSE ProbeRun

HashPair_NoSwap ==   \* mutant: the other orientation is not passed on
  /\ BothFilled
  /\ Fits(SmallerRun, HashBudget)
  /\ IF BuildIsSmaller
     THEN Emit(HashMatches(BuildRun, ProbeRun, build_is_left))
     ELSE Emit(HashMatches(ProbeRun, BuildRun, build_is_left))
  /\ NextPair
  /\ KeepFrame

\* The smaller run fits into a hash table, the other is streamed past it.
HashPair ==
  /\ BothFilled
  /\ Fits(SmallerRun, HashBudget)
  /\ IF BuildIsSmaller
     THEN Emit(HashMatches(BuildRun, ProbeRun, build_is_left))
     ELSE Emit(HashMatches(ProbeRun, BuildRun, ~build_is_left))
  /\ NextPair
  /\ KeepFrame

\* partition_run_rows at the next depth; the probe rows are filtered.
Split(S, d) == [p \in Partitions |-> {row \in S : PartitionIndex(Digest[row], d) = p}]

SplitBuild == Split(BuildRun, depth + 1)
SplitProbe ==
  LET filter == UNION {BloomBits[key] : key \in Keys(BuildRun)}
  IN  Split({row \in ProbeRun : MayContain(filter, Digest[row])}, depth + 1)

NonEmptyPartitions(runs) == Cardinality({p \in Partitions : runs[p] # {}})

\* Splitting separates rows; else the pair would come back as it is.
SplitHelps == NonEmptyPartitions(SplitBuild) > 1 \/ NonEmptyPartitions(SplitProbe) > 1

\* No hash table of the smaller run (its budget or an allocation failed):
\* the pair is split and its parts are joined by a recursive call.
SplitPair ==
  /\ BothFilled
  /\ depth < MaxDepth
  /\ SplitHelps
  /\ depth' = depth + 1
  /\ build_runs' = [build_runs EXCEPT ![depth + 1] = SplitBuild]
  /\ probe_runs' = [probe_runs EXCEPT ![depth + 1] = SplitProbe]
  /\ partition_index' = [partition_index EXCEPT ![depth + 1] = 0]
  /\ UNCHANGED <<phase, build_is_left, attempts, unread, table, residentVars, join_filter,
                 emitted>>

\* execute_nested_loop_join_on_runs, when splitting is over or does not help
\* (the parts are released at once).
LoopPair ==
  /\ BothFilled
  /\ ~(depth < MaxDepth /\ SplitHelps)
  /\ Emit(LoopMatches(BuildRun, ProbeRun, build_is_left))
  /\ NextPair
  /\ KeepFrame

ReturnToPair_Again ==   \* mutant: the `continue` after the recursive call is missing
  /\ phase = "pairs" /\ depth > 0 /\ partition_index[depth] = Fanout
  /\ depth' = depth - 1
  /\ build_runs' = [build_runs EXCEPT ![depth] = NoRows]
  /\ probe_runs' = [probe_runs EXCEPT ![depth] = NoRows]
  /\ UNCHANGED <<phase, build_is_left, attempts, unread, table, residentVars, join_filter,
                 partition_index, emitted>>

\* The recursive call returns, its runs are released, the next pair follows.
ReturnToPair ==
  /\ phase = "pairs" /\ depth > 0 /\ partition_index[depth] = Fanout
  /\ depth' = depth - 1
  /\ build_runs' = [build_runs EXCEPT ![depth] = NoRows]
  /\ probe_runs' = [probe_runs EXCEPT ![depth] = NoRows]
  /\ partition_index' = [partition_index EXCEPT ![depth - 1] = @ + 1]
  /\ UNCHANGED <<phase, build_is_left, attempts, unread, table, residentVars, join_filter,
                 emitted>>

PairsDone ==
  /\ phase = "pairs" /\ depth = 0 /\ partition_index[0] = Fanout
  /\ phase' = "done"
  /\ build_runs' = [build_runs EXCEPT ![0] = NoRows]
  /\ probe_runs' = [probe_runs EXCEPT ![0] = NoRows]
  /\ UNCHANGED <<build_is_left, attempts, unread, table, residentVars, join_filter, depth,
                 partition_index, emitted>>

\* An error of the disk or of the sink ends the query.
JoinFails ==
  /\ phase \notin {"done", "failed"}
  /\ phase' = "failed"
  /\ UNCHANGED <<build_is_left, attempts, unread, table, residentVars, join_filter, runVars,
                 emitted>>

Direct == PassOverDirect \/ TryDirect \/ DirectInsert \/ DirectExceeded \/ DirectBuilt
            \/ DirectProbe \/ DirectDone

Partitioned ==
  \/ StartPartitioned \/ StartProbe \/ StartPairs
  \/ \E row \in Rows : \/ BuildSpilled(row) \/ BuildResident(row) \/ BuildSpills(row)
                       \/ ProbeResident(row) \/ ProbeSpilled(row)

Pairs == SkipPair \/ HashPair \/ SplitPair \/ LoopPair \/ ReturnToPair \/ PairsDone

Next == Direct \/ Partitioned \/ Pairs \/ JoinFails

Spec == Init /\ [][Next]_vars /\ WF_vars(Direct \/ Partitioned \/ Pairs)

-----------------------------------------------------------------------------
(* Types; a run at a depth in use, a partition or a table holds rows of    *)
(* its input.                                                              *)
TypeOK ==
  /\ phase \in {"plan", "direct_build", "direct_probe", "build", "probe", "pairs", "done",
                "failed"}
  /\ build_is_left \in BOOLEAN /\ attempts \in 0 .. 2
  /\ unread \in SUBSET Rows /\ table \in SUBSET BuildRows
  /\ resident \in [Partitions -> SUBSET BuildRows]
  /\ spilled \in [Partitions -> BOOLEAN]
  /\ build_runs \in [Depths -> [Partitions -> SUBSET BuildRows]]
  /\ probe_runs \in [Depths -> [Partitions -> SUBSET ProbeRows]]
  /\ depth \in Depths /\ partition_index \in [Depths -> 0 .. Fanout]
  /\ emitted \in [Left \X Right -> Nat]

(* The join is the join: whichever rows went which way, at the end every   *)
(* matching pair has been emitted exactly once, and no other pair.         *)
JoinIsExact ==
  phase = "done" => emitted = [x \in Left \X Right |-> IF x \in Match THEN 1 ELSE 0]

(* At no time, not even in a join that fails later, has a pair been        *)
(* emitted twice or a pair that does not match: abandoning a direct build  *)
(* and starting over repeats no output.                                    *)
NothingEmittedTwice == \A x \in Left \X Right : emitted[x] <= IF x \in Match THEN 1 ELSE 0

(* While build rows are collected, the accounting is right: the total is   *)
(* what the resident partitions use, within the budget.  So the second     *)
(* comparison with the budget (lines 833-839) never finds an excess.       *)
ResidentBytesAreCounted ==
  /\ \A p \in Partitions : used_bytes[p] = UsedBytes(resident[p])
  /\ total_resident_bytes = MapThenSumSet(LAMBDA p : used_bytes[p], Partitions)
  /\ total_resident_bytes <= ResidentBudget

(* A build row that has arrived is in one place: in its resident partition *)
(* or in its spilled run, never in both and never in neither.              *)
BuildRowsAreKept ==
  phase \in {"build", "probe"} =>
    \A row \in BuildRows \ (IF phase = "build" THEN unread ELSE {}) :
      LET p == PartitionOf(row)
      IN  IF spilled[p]
          THEN row \in build_runs[0][p] /\ resident[p] = {}
          ELSE row \in resident[p] /\ build_runs[0][p] = {}

(* The join ends, by its result or an error: the recursion is bounded and  *)
(* each pair of runs is joined or split once.                              *)
JoinEnds == <>(phase \in {"done", "failed"})

=============================================================================
