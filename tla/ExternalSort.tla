---------------------------- MODULE ExternalSort ----------------------------
(***************************************************************************)
(* Sorting an input that may not fit in memory                             *)
(* (database/src/executor/sort.rs, with the removal of redundant sorts by  *)
(* database/src/optimizer/rules.rs).                                       *)
(*                                                                         *)
(* A sort is answered in one of three ways.  If the statistics say that    *)
(* the table is physically ordered by the only sort column, the optimizer  *)
(* removes the sort; if they say so of the first of several columns, the   *)
(* rows are sorted segment by segment of equal first keys; else the whole  *)
(* input is collected first.  Rows are collected encoded (CompactSortState)*)
(* until that runs out of room, then as rows; whatever exceeds a budget    *)
(* becomes a sorted run in scratch space, and the runs are merged.         *)
(*                                                                         *)
(* Rows are identities.  All sorts are unstable: among rows that compare   *)
(* equal any order may come out.  A scratch run is the sequence of rows    *)
(* pushed to it (ScratchRun).                                              *)
(***************************************************************************)
EXTENDS RowOrder, FiniteSets, FiniteSetsExt, SequencesExt

CONSTANTS
  Requests,      \* sorts: specs, rows (the input), ordered (what the statistics say
                 \* of the first sort column), pipeline (the input is a scan pipeline)
  RowBytes,      \* estimated_sort_row_bytes
  CompactBytes,  \* serialized_size and a CompactRowRef
  RunBudget,     \* sort_run_budget
  CompactBudget  \* compact_sort_budget

ASSUME ExternalSortAssumption ==
  /\ Requests \subseteq [specs : Seq(SortSpec), rows : Seq(Rows), ordered : BOOLEAN,
                         pipeline : BOOLEAN]
  /\ \A request \in Requests :
       /\ IsInjective(request.rows)   \* rows are identities
       /\ \A i \in DOMAIN request.specs, j \in DOMAIN request.rows :
            request.specs[i].column \in DOMAIN Key[request.rows[j]]   \* compiled indexes exist
  /\ RowBytes \in [Rows -> Nat] /\ CompactBytes \in [Rows -> Nat]
  /\ RunBudget \in Nat /\ CompactBudget \in Nat

(* The statistics of a request are right: the rows are in the order of the *)
(* first sort column, if they say so.                                      *)
StatisticsHold(request) ==
  request.ordered /\ request.specs # <<>> =>
    \A i \in DOMAIN request.rows, j \in DOMAIN request.rows :
      LET column == request.specs[1].column
      IN  i < j => Key[request.rows[i]][column] <= Key[request.rows[j]][column]

VARIABLES
  phase,          \* "stream", "collect", "segments", "emit", "merge", "done" or "failed"
  specs,
  unread,         \* the input rows that have not arrived
  compacting,     \* compact_state is Some
  compact,        \* its rows
  current_rows, current_bytes,
  current_key,    \* of the current segment: <<>> or <<key>>
  runs,           \* the scratch runs
  cursors,        \* while merging: what each run's cursor has not emitted, the
                  \* first row being in the heap
  emitted         \* rows given to the sink

collectVars == <<compacting, compact, current_rows, current_bytes>>
vars == <<phase, specs, unread, collectVars, current_key, runs, cursors, emitted>>

-----------------------------------------------------------------------------
\* The optimizer's sort_redundant.
SortRedundant(request) ==
  Len(request.specs) = 1 /\ request.specs[1].ascending /\ request.pipeline /\ request.ordered

\* try_execute_segmented_ordered_scan_sort up to its loop.
Segmented(request) ==
  request.specs # <<>> /\ request.specs[1].ascending /\ request.pipeline /\ request.ordered

Init ==
  \E request \in Requests :
    /\ phase = IF SortRedundant(request) THEN "stream"
               ELSE IF Segmented(request) THEN "segments" ELSE "collect"
    /\ specs = request.specs /\ unread = request.rows
    /\ compacting = (CompactBudget > 0)
    /\ compact = {} /\ current_rows = {} /\ current_bytes = 0
    /\ current_key = <<>> /\ runs = <<>> /\ cursors = <<>> /\ emitted = <<>>

\* No sort at all: the rows of the scan.
Stream ==
  /\ phase = "stream"
  /\ IF unread = <<>>
     THEN phase' = "done" /\ UNCHANGED <<unread, emitted>>
     ELSE /\ emitted' = Append(emitted, Head(unread))
          /\ unread' = Tail(unread)
          /\ UNCHANGED phase
  /\ UNCHANGED <<specs, collectVars, current_key, runs, cursors>>

-----------------------------------------------------------------------------
(* Runs.                                                                   *)

\* What sort_unstable_by may make of a set of rows.
SortedSeqs(S) ==
  {s \in SetToSeqs(S) : \A i \in 1 .. Len(s) - 1 : ~Before(specs, s[i + 1], s[i])}

\* flush_run and flush_compact_run: the rows, if any, become one more run.
Flushed(S) ==
  IF S = {} THEN {runs} ELSE {Append(runs, s) : s \in SortedSeqs(S)}

PushStandardRow_KeepsBytes(row, runs_now) ==   \* mutant: current_bytes is not reset
  IF current_rows # {} /\ current_bytes + RowBytes[row] > RunBudget
  THEN /\ \E s \in SortedSeqs(current_rows) : runs' = Append(runs_now, s)
       /\ current_rows' = {row}
       /\ current_bytes' = current_bytes + RowBytes[row]
  ELSE /\ runs' = runs_now
       /\ current_rows' = current_rows \cup {row}
       /\ current_bytes' = current_bytes + RowBytes[row]

\* push_standard_row: a row that would exceed the budget begins a new run.
PushStandardRow(row, runs_now) ==
  IF current_rows # {} /\ current_bytes + RowBytes[row] > RunBudget
  THEN /\ \E s \in SortedSeqs(current_rows) : runs' = Append(runs_now, s)
       /\ current_rows' = {row}
       /\ current_bytes' = RowBytes[row]
  ELSE /\ runs' = runs_now
       /\ current_rows' = current_rows \cup {row}
       /\ current_bytes' = current_bytes + RowBytes[row]

-----------------------------------------------------------------------------
(* Collecting the whole input.                                             *)

CompactUsed(S) == MapThenSumSet(LAMBDA row : CompactBytes[row], S)

\* The next row of the input is taken by the collector.
Arrives(state) ==
  /\ phase = state /\ unread # <<>>
  /\ unread' = Tail(unread)
  /\ UNCHANGED <<phase, specs, cursors, emitted>>

\* try_push_row accepts the row.
CompactTakes ==
  /\ compacting
  /\ Arrives("collect")
  /\ CompactUsed(compact \cup {Head(unread)}) <= CompactBudget
  /\ compact' = compact \cup {Head(unread)}
  /\ UNCHANGED <<compacting, current_rows, current_bytes, current_key, runs>>

CompactFlushed_Dropped(row) ==   \* mutant: only a full state is flushed
  /\ CompactUsed({row}) <= CompactBudget
  /\ compact' = {row}
  /\ runs' = runs
  /\ UNCHANGED <<compacting, current_rows, current_bytes>>

\* The collected rows become a run and a fresh state accepts the row.
CompactFlushed(row) ==
  /\ CompactUsed({row}) <= CompactBudget
  /\ compact' = {row}
  /\ runs' \in Flushed(compact)
  /\ UNCHANGED <<compacting, current_rows, current_bytes>>

\* The collected rows become a run, the fresh state refuses the row too: from
\* now on rows are collected as they are.
CompactGivenUp(row) ==
  /\ compact' = {} /\ compacting' = FALSE
  /\ \E flushed \in Flushed(compact) : PushStandardRow(row, flushed)

\* try_push_row refuses: the budget is exceeded or the memory not available
\* (so it may refuse any row).
CompactRefuses ==
  /\ compacting
  /\ Arrives("collect")
  /\ CompactFlushed(Head(unread)) \/ CompactGivenUp(Head(unread))
  /\ UNCHANGED current_key

StandardTakes ==
  /\ ~compacting
  /\ Arrives("collect")
  /\ PushStandardRow(Head(unread), runs)
  /\ UNCHANGED <<compacting, compact, current_key>>

\* The input is read; everything is in memory: emit_compact_rows, or the sort
\* of current_rows.
CollectedInMemory ==
  /\ phase = "collect" /\ unread = <<>>
  /\ runs = <<>>
  /\ phase' = "emit"
  /\ UNCHANGED <<specs, unread, collectVars, current_key, runs, cursors, emitted>>

\* There are runs: what is in memory becomes the last one (only one of compact
\* and current_rows has rows) and they are merged.
CollectedInRuns ==
  /\ phase = "collect" /\ unread = <<>>
  /\ runs # <<>>
  /\ runs' \in Flushed(compact \cup current_rows)
  /\ compact' = {} /\ current_rows' = {}
  /\ cursors' = runs'
  /\ phase' = "merge"
  /\ UNCHANGED <<specs, unread, compacting, current_bytes, current_key, emitted>>

-----------------------------------------------------------------------------
(* Collecting a segment of equal first keys.                               *)

FirstKey(row) == Key[row][specs[1].column]

\* A row of the current segment, or the very first one.
SegmentRow ==
  /\ Arrives("segments")
  /\ current_key \in {<<>>, <<FirstKey(Head(unread))>>}
  /\ current_key' = <<FirstKey(Head(unread))>>
  /\ PushStandardRow(Head(unread), runs)
  /\ UNCHANGED <<compacting, compact>>

\* flush_segment up to its output.
FlushSegment ==
  IF runs = <<>>
  THEN phase' = "emit" /\ UNCHANGED <<current_rows, current_bytes, runs, cursors>>
  ELSE /\ phase' = "merge"
       /\ runs' \in Flushed(current_rows)
       /\ current_rows' = {} /\ current_bytes' = 0
       /\ cursors' = runs'

NextSegment_KeepsKey ==   \* mutant: current_key is not updated
  /\ phase = "segments" /\ unread # <<>>
  /\ current_key \notin {<<>>, <<FirstKey(Head(unread))>>}
  /\ FlushSegment
  /\ UNCHANGED <<specs, unread, compacting, compact, current_key, emitted>>

\* The next row has another key: the segment is put out before the row is taken.
NextSegment ==
  /\ phase = "segments" /\ unread # <<>>
  /\ current_key \notin {<<>>, <<FirstKey(Head(unread))>>}
  /\ FlushSegment
  /\ current_key' = <<FirstKey(Head(unread))>>
  /\ UNCHANGED <<specs, unread, compacting, compact, emitted>>

LastSegment ==
  /\ phase = "segments" /\ unread = <<>>
  /\ FlushSegment
  /\ UNCHANGED <<specs, unread, compacting, compact, current_key, emitted>>

-----------------------------------------------------------------------------
(* Output.                                                                 *)

\* After the output of a segment the next one is collected.
AfterOutput == IF unread = <<>> THEN "done" ELSE "segments"

\* One row of those sorted in memory.
EmitRow ==
  /\ phase = "emit"
  /\ \E row \in First(specs, compact \cup current_rows) :
       /\ emitted' = Append(emitted, row)
       /\ compact' = compact \ {row} /\ current_rows' = current_rows \ {row}
  /\ UNCHANGED <<phase, specs, unread, compacting, current_bytes, current_key, runs, cursors>>

EmitDone ==
  /\ phase = "emit" /\ compact \cup current_rows = {}
  /\ phase' = AfterOutput
  /\ current_bytes' = 0
  /\ UNCHANGED <<specs, unread, compacting, compact, current_rows, current_key, runs, cursors,
                 emitted>>

\* HeapItem's order: by row, then by run.
HeapFirst(i, j) ==
  \/ Before(specs, Head(cursors[i]), Head(cursors[j]))
  \/ ~Before(specs, Head(cursors[j]), Head(cursors[i])) /\ i <= j

Filled == {i \in DOMAIN cursors : cursors[i] # <<>>}

\* merge_runs pops the first row and pushes the next one of the same run.
PopHeap ==
  /\ phase = "merge"
  /\ \E i \in Filled :
       /\ \A j \in Filled : HeapFirst(i, j)
       /\ emitted' = Append(emitted, Head(cursors[i]))
       /\ cursors' = [cursors EXCEPT ![i] = Tail(@)]
  /\ UNCHANGED <<phase, specs, unread, collectVars, current_key, runs>>

MergeDone_KeepsRuns ==   \* mutant: the last runs are not released
  /\ phase = "merge" /\ Filled = {}
  /\ phase' = AfterOutput
  /\ runs' = IF unread = <<>> THEN runs ELSE <<>>
  /\ cursors' = <<>>
  /\ UNCHANGED <<specs, unread, collectVars, current_key, emitted>>

\* The runs are merged and released.
MergeDone ==
  /\ phase = "merge" /\ Filled = {}
  /\ phase' = AfterOutput
  /\ runs' = <<>> /\ cursors' = <<>>
  /\ UNCHANGED <<specs, unread, collectVars, current_key, emitted>>

\* An error of the input, the disk or the sink ends the query.
SortFails ==
  /\ phase \notin {"done", "failed"}
  /\ phase' = "failed"
  /\ UNCHANGED <<specs, unread, collectVars, current_key, runs, cursors, emitted>>

Step ==
  \/ Stream
  \/ CompactTakes \/ CompactRefuses \/ StandardTakes \/ CollectedInMemory \/ CollectedInRuns
  \/ SegmentRow \/ NextSegment \/ LastSegment
  \/ EmitRow \/ EmitDone \/ PopHeap \/ MergeDone

Next == Step \/ SortFails

Spec == Init /\ [][Next]_vars /\ WF_vars(Step)

-----------------------------------------------------------------------------
\* The rows not given to the sink, wherever they are.
RowsOf(sequences) == UNION {ToSet(sequences[i]) : i \in DOMAIN sequences}
Remaining ==
  ToSet(unread) \cup compact \cup current_rows
    \cup (IF phase = "merge" \/ cursors # <<>> THEN RowsOf(cursors) ELSE RowsOf(runs))

(* However the rows are collected, spilled and merged, and whether or not  *)
(* the sort was removed or done by segments: the rows come out in order,   *)
(* none is lost and none comes twice.                                      *)
Sorted == INSTANCE SortedStream WITH remaining <- Remaining

ImplementsSortedStream == Sorted!Spec

(* Nothing is left behind: when a sort is done every row has been emitted  *)
(* and every scratch run has been released.                                *)
NothingLeft == phase = "done" => Remaining = {} /\ runs = <<>>

(* The rows collected as rows are accounted for, and exceed the budget     *)
(* only if a single row does; compact rows exist only while compacting and *)
(* never exceed theirs.                                                    *)
RowsWithinBudget ==
  /\ CompactUsed(compact) <= CompactBudget
  /\ ~compacting => compact = {}
  /\ phase \in {"collect", "segments"} =>
       /\ current_bytes = MapThenSumSet(LAMBDA row : RowBytes[row], current_rows)
       /\ current_bytes <= RunBudget \/ Cardinality(current_rows) = 1

(* A sort ends, with its result or an error.                               *)
SortEnds == <>(phase \in {"done", "failed"})

(* "Treat statistics in db_config.json as optimization hints, not as hard  *)
(* guarantees." (README.md:42): the result is sorted whatever they say.    *)
OutputIsSorted ==
  phase = "done" => \A i \in 1 .. Len(emitted) - 1 : ~Before(specs, emitted[i + 1], emitted[i])

=============================================================================
