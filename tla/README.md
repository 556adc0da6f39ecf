# A verification project for My Awesome DB

TLA+ models of the query engine, its scratch storage, and the processes around
it, model-checked with TLC, with TLAPS proofs of the central safety properties.
Paths are relative to the repository root; `PROJECT.json` maps every definition
to its lines and lists components, runs, mutants, hazards and theorems.

Contents: [the system](#the-system) · [the modules](#the-modules) ·
[runs](#the-runs-and-their-bounds) · [fairness](#fairness) ·
[proofs](#what-is-proved) · [findings](#findings) ·
[not modelled](#what-is-not-modelled) · [plan](#plan)

## The system

Three processes talk over pipes:

    monitor  <-- query, rows, verdict -->  database  <-- blocks -->  disk simulator

The **monitor** starts the other two for each configured query, sends the query,
checks the streamed result, and waits for both. The **database** is one thread
that executes a tree of operators, each pushing rows into the sink of the
operator above. The **disk simulator** serves blocks of the table files and of a
writable anonymous region, where the database keeps *scratch runs*.

| Component | State | Operations | Hard because | Correct when |
|---|---|---|---|---|
| Scratch space (`storage/block_allocator.rs`) | next fresh block, set of free blocks | reserve a chunk, release a run | many writers share it through a raw pointer; blocks are recycled in fragments | no block in two runs, none lost, no growth without need |
| Scratch runs (same file, `row_codec.rs`) | a writer's block, reservation, pending batch; a cursor's position and buffer | push, flush, finish, read | two levels of buffering, gaps between recycled blocks, a 16-bit row count | a reader gets the pushed rows, once, in order |
| Disk client and simulator (`disk_client.rs`, `disk_simulator.rs`) | the pipes, the pages | put, get, numbers | unacknowledged writes, raw data between text lines, ends of processes anywhere | reads see the last write; no deadlock; both end |
| Query session (`monitor/src/main.rs`, `monitor_client.rs`, `database/src/main.rs`) | both processes, pipe ends, verdict | start, converse, validate, kill, wait | no timeouts, a database that may do anything or die anywhere | right verdict, the session ends, no process stays |
| Equality join (`executor/filter.rs`) | hash tables, partitions, Bloom filter, spilled runs, recursion | build, probe, spill, split, loop | five paths with one result, retries after overrun budgets, swapped roles | every matching pair exactly once |
| Sort (`executor/sort.rs`, `optimizer/rules.rs`) | collected rows in two forms, runs, heap | collect, flush, merge, segments | switches of representation, resets between segments, statistics trusted | input permuted into order |
| Ordered merge join (`executor/filter.rs`) | two cursors, two groups | advance, collect groups, emit | relies on statistics; groups across block borders | as the equality join |
| Cross product, materialized join (`executor/join.rs`) | rows in memory or a run | materialize, loop | spilling in mid-stream | every pair once |
| Scan, scan pipeline (`scan.rs`, `scan_pipeline.rs`) | block, batch and row positions | next row | batch and block borders | the file's rows, filtered, in order |
| Filter, project, comparison (`filter.rs`, `project.rs`, `value.rs`) | none | per row | numeric types compared across kinds; digests must agree | the query's meaning |
| Optimizer, estimation (`optimizer/`, `query_support.rs`, `estimation.rs`) | none | rewrite a query tree | column order and names, statistics | the rewritten tree means the same |
| Disk layout and metrics (`disk.rs`, `disk_io_metrics.rs`) | file placement, counters | locate a block, count blocks | gaps computed from sizes | regions are disjoint, counters count what was moved |
| Descriptors (`fd_mapper.rs`, `io_setup.rs`, `fd_wrapper/`) | descriptor table | remap | descriptors that collide, ends of pipes inherited by mistake | each process gets its pipes and no others |
| Generator, statistics (`generator/`) | the file, a column's statistics | pack rows into blocks, summarize a column | the database trusts both without a check | blocks hold the rows; statistics are true |
| Tests, configuration | files | convert | batch programs | files as described |

How they interact: operators own writers and cursors of scratch runs; these call
the scratch space for block numbers and the disk client for data; the disk client
calls the simulator; the operator tree's root sends rows to the monitor. Calls
inside the database are synchronous, so its concurrency is the interleaving of
several *open* writers and cursors; between processes it is real.

## The modules

Each module's header says what it abstracts. Mutated operators
(`<Definition>_<Change>`) stand before the definition they mutate; they are not
part of the model and show that a property can fail.

**FreeStretch, FreeBlockScan** (proofs: `ScratchSpaceProofs`). `FreeStretch` defines
which free blocks `take_contiguous_free_blocks` returns: the first stretch of
consecutive blocks that is long enough, else the first of the longest.
`FreeBlockScan` is the loop that finds it, as a recursive function over the block
numbers, with its early exit and the comparison after the loop; `ScanIsBestFit` of
`ScratchSpace` compares the two.

**ScratchSpace** (proofs: `ScratchSpaceProofs`). Who has which block. `next_block` and `free_blocks` are the
fields of that name, `reserved[r]` and `held[r]` the reservation and blocks of run
`r`. Actions are `OpenWriter`, `FlushBlock`, `Finish`, `FlushAndFinish`,
`ReleaseRun`, and `Abandon` for a writer dropped by an error (no `Drop` gives its
blocks back: they go to the ghost variable `leaked`).

**RunStore, ScratchRun** (proofs: `ScratchRunProofs`). `RunStore` is what a run promises: a sequence of pushed
rows, readers with a position in it. `ScratchRun` is the implementation: the
block being filled with its row count (modulo `CountMod`, for u16), the pending
batch, the disk, the run's block list with gaps, batched reads of consecutive
blocks. It is shown to implement `RunStore` (the position is what was fetched less
what is buffered) and `ScratchSpace` (the held blocks are the list as a set).

**BlockDevice, DiskLayout, DiskProtocol** (proofs: `DiskProtocolProofs`). `BlockDevice` is the promise: reads
return the last written data, and nothing below the anonymous region is written.
`DiskLayout` places the files of a configuration with their gaps and finds the
start of the anonymous region, as a recursive function over the files. `DiskProtocol` has both
processes and two bounded pipes; a unit of a pipe is a number, a command or a
block. The client first asks for what `db_main` asks (block size, start of the
anonymous region) or for a file by name, which the simulator may refuse by
exiting. A put writes its blocks and goes on without an answer; the refinement
maps the device's contents to the pages *plus* the puts still in the pipe. Either
process ends at any point. `asked` is a history variable: what the client asked
for, for the account of the metrics.

**Descriptors, QuerySession** (proofs: `QuerySessionProofs`). `Descriptors` has a process's descriptor table as a
set of descriptors, each with its number, the pipe end it refers to and its
close-on-exec flag, with the system calls on it and the two loops of `remap_fds`.
`QuerySession` is `monitor_main`, `handle_db` and the two validation functions on
one side, `db_main` on the other. Pipes end when no table holds their write end:
the model creates them by `pipe`, forks, remaps, executes and drops them in the
order of `setup_disk_process` and `setup_db_process`, with any of several sets of
descriptors the monitor has inherited. The database may send any rows, skip any,
die inside a line; either program may fail to start; the monitor may be killed. The
disk is reduced to running or ended; `DiskProtocol` justifies that it ends when its
input does.

**HybridHashJoin** (proofs: `HybridHashJoinProofs`). One equality join of two inputs:
direct attempts (`TryDirect` .. `DirectDone`), the hybrid partitioning of both
inputs (`ReadBuildRow`, `BuildResident`, `BuildSpills`, `ProbeResident`,
`ProbeSpilled`), and the pairs of spilled runs (`HashPair`, `SplitPair`,
`LoopPair`), with the recursion as one frame of runs per depth. Rows arrive in
any order. Digest, bit groups, Bloom bits and sizes are arbitrary functions, with
one assumption: matching rows have equal digests. Spare capacity of the hash map
is a function of the rows in it; a failed allocation is an exceeded budget that
may happen for any row.

**NumericOrder** (proofs: `JoinProofs`). Comparison of values across types and the keys
under which joins hash them, on significand and exponent as the code does, with the
widths of integers and floats as parameters. `ExactOrder` is the reference: the order
of the numbers the values stand for. Powers of two are a recursive function,
`PowerOfTwo`, since the provers know nothing of `^`.

**TableFile** (proofs: `JoinProofs`). What the generator makes of the lines of a table: the rows up to the
first line that is none, packed into blocks, and the statistics of a column.
`IsPacked` and `AreTrue` say what the database takes them for.

**Join, ScanCursor, OrderedMergeJoin** (proofs: `JoinProofs`). `Join` is what any join promises: each
matching tuple reaches the sink once, in any order, and nothing else does, not
even before a failure. `ScanCursor` is `ScanPipelineCursor` with its three
positions (block in the file, block in the batch, row in the block) over a table
of blocks of rows. `OrderedMergeJoin` starts from two lists of lines: their files
and statistics decide whether the join is declined or two cursors are merged
(`MergeInit`). `progress` is the place in the code, `advancing` the side whose
`next_row` runs, `merged` what the sink was given. A step is one iteration of `next_row`, a decision on the two keys, or a row put into
a group. It implements `Join`, whose matches are pairs with the same value by
`ExactOrder`; keys that cannot be compared end it with an error.

**MaterializedJoin** (proofs: `JoinProofs`). A tree of joins without equality (`execute_materialized_join`)
or of cross products (`execute_cross`): each level collects one input, spills it
to a run of `RunStore` when the budget is exceeded, and loops over it for every
tuple from the level below, so that the loops of all levels are open at once. The
whole tree implements one `Join`. `loop[k]` is the tuple the sink of level `k` was
called with, `index[k]` its place in memory; a run has the reader of its level.

**QueryTree, Optimizer, Executor, QueryPlans.** `QueryTree` has the query AST,
schemas, and `Meaning`, the rows a query stands for, against which the others are
checked. `Optimizer` has one operator per rule of `optimizer/rules.rs`; each gives
the *set* of plans the optimizer may choose, since estimates are the parameter
`RowEstimates` and the costs of the join order search are left open. `Executor`
has the paths of `executor/`: a chain over a scan compiled to positions among
decoded columns, predicates split over the sides of a cross, projections over
sorts; joins and sorts are reduced to their results, which the modules above justify.
`QueryPlans` is `db_main`: the query, its plan, its result. `Estimation` computes
estimates from row counts and cardinalities, or their fallbacks where the statistics
have none, with products that saturate at `MaxRows` (u64), for the run `column_order`.
These modules declare RECURSIVE operators, so nothing is proved about them.

**RowOrder, SortedStream, ExternalSort** (proofs: `ExternalSortProofs`). `RowOrder` is the order of the sort
specs. `SortedStream` promises the rows that remain, smallest first, ties in any
order. `ExternalSort` collects compactly, falls back to plain rows, writes sorted
runs, merges them by the heap's order (row, then run), or does so per segment of
equal first keys, or (when the optimizer removed the sort) passes the rows on.
`Requests` are the sort queries: specs, input, what the statistics claim, and
whether the input is a scan pipeline. A sort names only columns its rows have, as
the compiled indexes of `sort.rs` do.

## The runs and their bounds

| Run | Question | Instance, and why it suffices |
|---|---|---|
| `scratch_space` | Can bookkeeping of blocks go wrong with interleaved runs? | 3 runs, chunks of 3, region of 6 blocks (a third run must recycle): fragmented free sets, reservations left over, reuse, and refill from short fragments all occur. On every free set that arises the scan loop is compared with its definition, for requests of one block up to one more than are free: several stretches, the best one last, early exits. Symmetric in runs (run names are only compared). The proofs remove the bounds. |
| `scratch_run` | Does a reader get what was pushed? | 2 runs, 3 writers opened (so blocks are recycled), rows of half and full block, batches of 2 for writing and reading: gaps in lists and broken batches occur. |
| `scratch_run_empty_rows` | (violation) Is every row kept by `finish`? | One run of rows without bytes, a count that wraps at 3 instead of 65536. |
| `disk_protocol` | Does the protocol act as a block device over any layout, without deadlock, and count right? | Configurations of no file, one file, two files, and one file named twice; pipes of 2 units while puts and gets have up to 2 blocks plus a command, so pipes do fill; 3 calls, so a write can be followed by another and a read. |
| `query_session` | Do all ends of pipes arrive where they belong, is the verdict right, and does the session end? | Queries of both kinds of comparison, with a repeated row, an empty result and a disabled query; a pipe of 2 lines, so the database blocks; more rows than expected; inherited descriptors 0-2, with 3, with 4 and 6, and with 9 to 12, so that new descriptors come out contiguous or not and the temporary ones of `remap_fds` meet taken numbers. |
| `hybrid_hash_join` | Is each pair emitted exactly once, within the budget? | 5 and 6 rows, 5 digests in 2 partitions and depth 2: equal digests without a match, a Bloom false positive, overrun direct builds, spilling in mid-build, a swap of roles, two levels of splits, a loop at the end. Every action fires. |
| `external_sort` | Is the output a sorted permutation? | 15 inputs by specs of 1 and 2 columns, ascending and descending, with ties, a row too large for compact form and one beyond the run budget; statistics are right. Every action fires. |
| `ordered_merge_join` | Are file and statistics what the join believes them to be, are keys compared as numbers, is each pair emitted exactly once and no row skipped? | All pairs of ordered tables of up to 3 rows with 2 keys, equal on one side or both, rows of half a block or a whole one, batches of 2 blocks, with or without a row the pipeline rejects: groups cross the borders of blocks and batches. Every column of up to 3 rows with 3 keys, in order or not (one distinct value more than is counted exactly). One-row tables for every integer of 4 bits with every float of 3 bits of precision and exponents from -5 to 9: subnormals, fractions, integers in and beyond the integers' range, shifts by less than, exactly and more than the width of an integer and of twice its width, zeros, infinities, NaN. |
| `materialized_join` | Do nested loops over runs emit each tuple once? | 3 levels; the topmost spills at a point that depends on the order of arrival, the deepest spills too, the middle one stays in memory; the predicates of each level reject something. |
| `query_plans` | Do plan and result mean what the query means? | 5 bases (scan, cross, self join with renamed columns, cross over a sort and a filter, three inputs) below every well-formed chain of up to 2 of 11 layers, and two of them below every well-formed pair of filters and projections over a sort, about 590 queries: sorts whose columns are output, renamed or dropped above; estimates are arbitrary. |
| `column_order` | (violation) Do columns keep their order? | Filters over projected crosses, with the estimates of `Estimation`. |
| `sort_hints` | (violation) Is the output sorted when statistics are wrong? | The same requests with wrong claims. |

`CHECK_DEADLOCK FALSE` is set where the system really stops (a join, sort or
session is over, both processes have ended) or where the model's bound on calls
or opened writers stops it. Bounds in guards: `MaxBlock`, `MaxRows`,
`MaxWriters` (scratch), `MaxCalls` (protocol), `MaxRows`, `MaxDiskCalls`
(session). Bounds of enumerated inputs: `MaxRows`
(merge join), `MaxLayers` (queries). They limit how much happens, never what.

What the properties say beyond types:

- `ExclusiveBlocks`, `NoBlockLost`, `ReservedConsecutive`,
  `ReservationNeverEmpty` (the `expect` in `reserve_writer_block`),
  `GrowsOnlyWhenFull`; `ScanIsBestFit`.
- `SealedRunsOnDisk` (a finished run is on the disk), `PendingIsTail` (what is
  pending are the last blocks of the run), `ImplementsRunStore`,
  `ImplementsScratchSpace`.
- `FramingAgrees` (both sides agree what is data and what a command),
  `RegionsApart` (files and anonymous region never share a block),
  `MetricsAgree` (the counters are what the client asked for),
  `ImplementsBlockDevice`, `EveryCallReturns`, `DiskEndsWithClient`.
- `EndsInPlace` (the database starts with exactly its four ends of pipes, at the
  numbers `io_setup.rs` uses, and the disk with its two, whatever was inherited and
  wherever the ends were before),
  `VerdictIsExact` (success if and only if the database sent the expected rows
  and the end mark), `NothingLeftBehind` (neither a process of a query nor a
  descriptor of its pipes stays), `SessionEnds` (with every process, also when the
  monitor itself is killed).
- `JoinIsExact`, `NothingEmittedTwice` (also in joins that fail later),
  `ResidentBytesAreCounted` (so the second budget check in
  `filter.rs:833-839` is dead code, which is why it has no action),
  `BuildRowsAreKept`, `JoinEnds`.
- `TableIsPacked` (the blocks hold the rows, each whole, in order, and none is
  empty), `StatisticsAreTrue` (the order claim exactly when it holds, ranges,
  distinct values, histograms), `ComparesByValue` (comparison is the order of the
  numbers), `EqualKeysMeet` (equal values have one digest key: what the equality
  join's assumption on digests needs of the values), `RowsReadInOrder` (a cursor
  takes the rows of its file one after the other, wherever blocks and batches end),
  `MergeImplementsJoin` and `ImplementsJoin` of the two other joins, `RowsInOnePlace`
  (a materialized level has every row it was given, in memory or in its run and not
  in both, save what it is just copying; before it begins and after its release it
  holds nothing, no run either).
- `PlanMeansQuery` (same rows as often, same columns, for any estimates),
  `ResultAnswersQuery` (also in the order of the outermost sort, if only filters and
  projections are above it: at the places of rows that compare equal stand the same
  rows, each as often, whether or not the sort's columns are output). Columns are
  compared by name where the query has a cross, because of the finding below;
  their order is checked where it has none.
- `ImplementsSortedStream`, `NothingLeft`, `RowsWithinBudget`, `SortEnds`.

## Fairness

Liveness is checked under weak fairness of what the operating system or the one
thread keeps running, and never of failures.

Weak fairness is of these steps:

- `DiskProtocol`: `ClientStep` (an open call goes on when the pipe lets it) and
  `DiskStep` (the simulator's loop). Starting a call is not fair.
- `QuerySession`: `MonitorStep`, `DbStep` (which includes the child's steps between
  fork and exec) and `DiskEnds` (the disk's, once its input has ended): each process
  is scheduled. The database's `DbStep` is a disjunction with bounded rows and disk
  calls, so a query that computes forever is outside the model; one that dies is
  inside. Failures to start, deaths and kills are not fair.
- `HybridHashJoin`, `ExternalSort`: one thread, so the whole step but the failure
  is weakly fair.

`ScratchSpace` and `ScratchRun` have safety properties only: a passive library
owes nobody progress. So do the merge join, the materialized join and the query
plans; the first two end in a self-loop (`Ended`) and are checked for deadlock, so
that they cannot stop half-way.

## What is proved

**ScratchSpaceProofs** (for every set of runs, `AnonStart`, chunk size and bound):
`TypeCorrect`, `BlocksAreExclusive`, `BlocksAreConserved`,
`ChunksStayConsecutive`, `ReservationSucceeds`, `GrowthIsNeeded`,
`ScanFindsBestFit`. The invariant
is inductive only with the ownership parts together: a reservation is disjoint
from others because it came from the free set or from beyond `next_block`. Lemmas
about `FreeStretch` come first: a best start exists, and what is taken is a non-empty
stretch of free blocks of at most the requested length. The loop of `FreeBlockScan`
has an invariant of its own (`ScanInv`): when it is through with the blocks below `n`,
it stands at the last stretch that starts below `n`, and the best one it remembers is
the best of those before (`BestBefore`), all shorter than requested as long as the
loop goes on. The comparison after the loop adds the last stretch (`StretchEnds`).

**HybridHashJoinProofs** (for every pair of finite inputs, match relation, digest,
bit groups, Bloom bits, sizes, budgets, fan-out and depth): `TypeCorrect`,
`JoinExact`, `NoDuplicates`, `BuildRowsKept`. `JoinIsExact` alone speaks only of
the end; the inductive invariant says for each phase where a matching pair still
is. While probe rows arrive (`ProbeInv`), a pair has been emitted if its probe row
has arrived at a resident partition, and otherwise its probe row is unread or in
its run. Over the spilled pairs (`PairsInv`), a matching pair has been emitted
exactly if it is not `Pending`: both rows in the runs of one frame, at a partition
index not yet passed. Splitting keeps pairs pending since matching rows have equal
digests and hence equal bits at each depth; that needs `RowsInPlace` (a row is in
the partition of its bits) and `FramesNest` (a frame's runs come from the pair its
caller is at), without which passing the caller's pair could lose others. The
assumption used is `HybridHashJoinAssumption`, above all that matching rows have
equal digests.

`ResidentBytesCounted` adds the bytes: what a partition is charged for is the sum of
the sizes of its resident rows, by a lemma on sums over a set with one element more.

**ScratchRunProofs** (for every set of runs, readers and rows, all sizes):
`PendingStaysTail`, `FinishedRunsAreWritten`, `RunsImplementSpace`, the refinement
of `ScratchSpace`, and `RunsImplementStore`, that of `RunStore`. Inductive is that what is queued is the tail of a run's blocks, at
consecutive numbers from the start of the batch, all earlier blocks being on the
disk, and that only an open writer queues anything. For the refinement, each
step's effect on the block list is one on the set of its blocks; reader steps and
pushes that fill no block stutter.

For `RunStore`, `StoreInv` adds that the images queued and written count all their
rows, that the writer's count is exact, and that what a reader has fetched ends in
what it still buffers. A block is looked up in the run's queue, then on the disk
(`View`); queueing and writing change the view of one block only (`QueuedView`,
`WrittenView`), and that block is in no other run's list, which is the invariant of
`ScratchSpaceProofs`, taken over by an INSTANCE of it. The rows of a list of blocks
split where a batch of a reader ends (`RowsInSplit`). The hypothesis, `RowsHaveBytes`,
is that each row takes a byte or more and a payload has fewer bytes than the count
has values: the count has 16 bits, and blocks of the default size, 4096, leave 4094
bytes before it. Without it `FinishKeepsRows` shows that the count wraps and rows
are lost.

**ExternalSortProofs** (for any rows, keys, specs, budgets and inputs):
`SortLeavesNothing`, `MemoryWithinBudget` and `SortImplementsStream`. `IInv` says
where the rows are: none is in two places, each run is sorted, and each phase uses
only some of the places; with the bytes charged for those in memory. The refinement
needs more: the smallest of what is buffered is the smallest of what *remains*. In
a segmented sort that holds since the keys in memory are below those unread
(`SegmentsInv`), and, where the optimizer removed the sort, since the input is in
order. Both are what the statistics claim, hence its one hypothesis, `StatisticsHold`
for every request; `sort_hints` shows what happens without it. That rows equal under
the specs do not disturb the order of the others is `NotBeforeTransitive`, proved
for lists of specs of any length. `KeysAscend`, of neighbours, gives the order of any
two by a least counterexample.

**QuerySessionProofs** (for any queries, expected rows, pipe capacity and inherited
descriptors): `VerdictExact`, `EndsPlaced`, `NothingLeft`. `VerdictIsExact` follows
from three facts about each moment of the conversation: what the database may have
sent so far (`SentInv`), that the pipe holds the last lines of it (`PipeInv`), and
how much the monitor has taken (`MonitorInv`); an end of file is seen only behind
the last line. `EndsInPlace` rests on `TableInv`: the monitor's table holds
inherited descriptors and the ends it has created, no number twice (`Clean`), and the
child's a copy of them. The two loops of `remap_fds` are four moves each, and
after each move those already moved are at their place and the others where they
were (`FirstMoved`), because the temporary numbers are above all sources and targets.
Of the numbers the kernel gives out only that they are free is used.

**DiskProtocolProofs** (for every list of files, block size, gap, pipe capacity and
number of calls): `FramingKept`, `RegionsStayApart`, `MetricsKept` and
`ProtocolIsBlockDevice`. `IInv` attributes each unit in the pipe: a put claims as many
units behind it as it has blocks, what lies there is data, and what the client has
yet to write completes the last claim (`PipeInv`, `UnsentInv`). No more than one unit
asks for an answer and it is the last (`IdleInv`, `NumberInv`, `ReadingInv`), which
is why writes need no answer: when a read is served nothing is left in the
pipe. The layout is solved by induction on the number of files placed. For the
metrics, commands and blocks in the pipe are counted as units are appended
and taken. For the refinement each data unit in the pipe has a destination;
the contents the client believes in are the pages with the units in the pipe put
where they go, the last one for a block winning, so that the disk taking a unit
changes nothing and the client sending a put changes exactly its blocks. The
constant `Blocks` is assumed to cover every layout with its scratch blocks, so that the
abstract device has all the blocks that are used.

**JoinProofs** (for any tables, widths of numbers, sizes of rows, blocks and batches,
predicates, budgets and numbers of levels): both other joins, and what they rest on.

*Values.* `ComparisonIsByValue` and `EqualKeysHashAlike` hold of all values, by lemmas
about the operators (`ComparedByValue`, `EqualValuesMeet`). The core is
`PositiveOrder`: a number of `k` bits lies between two powers of two, so different bit
lengths decide, and equal ones leave a shift that fits; with a negative exponent the
quotient decides, and the remainder among equal quotients. `SamePlace` shows that two
floats that are equal are one significand and exponent, or both zero, which makes the
digest of a non-integral float its own. `NumericOrderAssumption` asks for a precision
no larger than the integers' width (53 and 64 in the code).
`ComparisonIsAnOrder` concludes that the code's comparison is antisymmetric and
transitive across types.

*Files and cursors.* `FilesArePacked`: packing is a fold whose state, blocks so far and
the open block with its bytes, is characterized after each row. `CursorsReadInOrder`
rests on `ReadInv`: a cursor, with the number of rows it has taken, stands such that
what its three positions leave of the table is the rest of the stream
(`CursorAt`); loading a batch and going on to the next block keep that, and as
no block is empty the row decoded next is its first.

*The merge.* `OrderedMergeJoinImplementsJoin`. That each pair is emitted once is not
inductive: a pair is lost long before the end, when one of its rows is passed over.
`MergeInv` says which rows are still to be looked at, the unread ones, the row at hand
and the groups (`Unjoined`), and that a pair of the join has been emitted exactly if
one of its rows is no longer among them (`MergedInv`). Passing over a row needs that
no row still unread on the other side has its key, which is the order of the column
(`SortedStreams`); that the column is ordered follows from the claim of its
statistics (`OrderIsTrue`) since a file has what the generator made of its lines, not
from an assumption. A complete group needs that no unread row has its key (`KeyPassed`).
`OrderedMergeJoinAssumption` is used for distinct rows (a row is an identity), one type
per column, rows that fit a block, and NaN only as a last key, where the statistics
would say too much (see the findings).

*The nested loops.* `MaterializedJoinImplementsJoin` and `RowsHeldOnce`. `JoinInv`
says which rows a level has in memory, in its run and not yet received (`RowsInv`),
that each open loop holds the tuple of the loop below extended by the row it has
reached (`LoopInv`), and that a tuple has been emitted exactly if it satisfies the
predicates and is ahead of no open loop: its streamed row has arrived, and no level
whose sink holds the first part of the tuple has its next row still to come
(`EmittedInv`). Any number of levels loop at once; a step moves one of them and leaves
what is ahead of the others as it is. Build sides are assumed finite and `NoRun` no
run, which `MaterializedJoinAssumption` states. The runs are those of `RunStore`, which
`ScratchRunProofs` justifies. `RowsHeldOnce` follows from `RowsInv` until the join
fails: what a level holds, with the row in hand, is exactly what has arrived
(`Arrived`), and the lengths of its two sequences add up to the number of rows held
and the copies made. A failure leaves every row where it was (`FailureKeepsPlaces`).

**DataLemmas** has what these proofs share: least and greatest elements, sums over
sets, heads, tails and concatenations of sequences (`FlattenSeq` one part at a time). What the model computes by
recursion over a sequence is a recursive function, whose solution is shown to be
unique by looking at the least index where two differ; that takes the place of
the library's induction theorems, which cannot be instantiated here. The provers do
not see into `SelectSeq`, `:>` and `@@`, so no module with proofs reasons about them.

Only model-checked:

- all liveness (`EveryCallReturns`, `DiskEndsWithClient`, `SessionEnds`, `JoinEnds`,
  `SortEnds`): the prover has no rule for fairness and ENABLED;
- `StatisticsAreTrue`, which counts distinct values and rows in the chunks of a
  sorted column: the library's `SortSeq` chooses a permutation by an operator argument,
  which the provers cannot instantiate. What the merge needs of it, the claim of order,
  is proved (`OrderIsTrue`);
- `PlanMeansQuery` and `ResultAnswersQuery`: the modules of the query plans declare
  RECURSIVE operators over trees, and meaning is defined by induction over them.

## Findings

- `FinishKeepsRows` fails (`block_allocator.rs:125`): rows of no bytes never fill
  a block and the 16-bit row count wraps.
- `OutputIsSorted` fails (`sort.rs:198`, `optimizer/rules.rs:258-281`): README.md:42
  calls the statistics hints, but sorts take `IsPhysicallyOrdered` as a guarantee.
  The merge join does too; its tables have the statistics the generator makes.
- `ColumnsInOrder` fails (`optimizer/rules.rs:143`): the sides of a cross are
  swapped by estimate after a projection above it was dropped as the identity, so
  `Filter(d = 2, Project([d, b], t x u))` outputs `b` before `d`.

Met while modelling, without a run of their own:

- The order statistic compares each value with the one before
  (`stats_generator.rs:195-199`), and nothing compares with NaN, so `1, NaN, 0` is
  called ordered. A merge join that filters the NaN away would miss pairs;
  `OrderedMergeJoinAssumption` allows a NaN only as the last key, and
  `StatisticsAreTrue` speaks of columns without one.
- A row of `block_size - 1` or `block_size` bytes does not panic in
  `save_row_stream_to_file` (`generator/src/main.rs:103-112`): it is written over the
  whole block, its end is replaced by the row count, and as the first row of a table
  it is preceded by an empty block. `OrderedMergeJoinAssumption` excludes such rows.
- `exact_integral_i64_from_f64` shifts bits out of 128 unnoticed
  (`value.rs:61`), so floats from 2^128 on that are multiples of it get the digest of
  0. The key is compared again after the digest, so this costs time only.
- When the four ends of pipes are consecutive descriptors, the second temporary copy
  in `remap_fds` (`fd_mapper.rs:28-33`) can take the number of the pipe through which
  `Command::spawn` learns that exec failed. The monitor then believes that the
  database has started, and finds its end when it sends the query; both outcomes are
  in `QuerySession`.
- A disk configuration may name a file twice (`disk_simulation_config.rs:86-112`); the
  later placement wins.

## What is not modelled

Inside the modelled parts: bytes of rows and blocks other than their number and the
row count; formatting of lines and trimming of whitespace in the session; resource
limits and elapsed time (any process may die at any time instead); `kill` takes effect
at once; errors from the sink and the disk are one failing action per operator;
budgets and estimates are parameters or free choices. Of the metrics, cylinders
and the times of seeks and transfers, which are floating-point numbers for the report.
Of the statistics, the random sample of more than `reservoir_capacity` rows and the
HyperLogLog estimate, and the limit on strings with histograms.

Sorting rows with NaN: `compare_rows` takes what cannot be compared for equal, which is
no order, and the result is up to the library's sort. `RowOrder` compares integers.

Whole parts: the components with `not_modelled` in `PROJECT.json` are fixed test
queries and a printer. `partly` are the estimates (densities, ranges, string
prefixes, which choose plans and never results), the encoding of single values, and
checks of configuration files. Of the query plans: errors for unknown columns (queries
are well formed), types of values, comparison operators that are mirrors of others
(GT, LTE), and the choice between equality join paths.

## Plan

Done, in this order: scratch space, its scan and runs; disk protocol; query
session; equality join; sort; proofs of scratch space and equality join; ordered
merge join with the scan cursor; materialized joins; optimizer and executor;
descriptors, in the session; layout and metrics, in the disk protocol; the
generator's files and statistics and the comparison of numbers, in the merge join;
proofs of scratch runs, sort, query session and disk protocol;
proofs of the scan of free blocks, of comparison and digests, of files and cursors,
and of the merge join and the materialized join.

Next: `StatisticsAreTrue` without its histogram; sorts of rows with NaN; densities and
ranges in the estimates.
