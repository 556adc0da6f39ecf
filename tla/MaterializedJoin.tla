-------------------------- MODULE MaterializedJoin --------------------------
(***************************************************************************)
(* A tree of joins without an equality of columns                          *)
(* (execute_materialized_join in database/src/executor/filter.rs) and of   *)
(* plain cross products (execute_cross in join.rs, the same code without   *)
(* predicates).  A join holds one input, in memory up to a budget, else in *)
(* a scratch run, and loops over it for every row of the other; the other  *)
(* input may be such a join itself.  Level 1 is the topmost join, the      *)
(* deepest one streams a table.                                            *)
(*                                                                         *)
(* Each level first materializes its own input and then executes the level *)
(* below with a sink that loops, so the loops of all levels are open at    *)
(* once, each reading its run.  Runs are those of RunStore: a level owns   *)
(* the run and the reader of its number.                                   *)
(***************************************************************************)
EXTENDS RunStore, FiniteSets, SequencesExt

CONSTANTS
  Depth,      \* the number of joins
  Build,      \* of each level: the rows of the input it materializes
  Streamed,   \* the rows of the deepest level's other input
  RowBytes,   \* estimated_heap_bytes of each row
  Budget,     \* materialization_budget
  Unsatisfied \* of each level: pairs of a row of Build and a streamed row its predicates reject

Levels == 1 .. Depth

ASSUME MaterializedJoinAssumption ==
  /\ Depth \in Nat \ {0} /\ Runs = Levels /\ Readers = Levels /\ NoRun \notin Runs
  /\ Build \in [Levels -> SUBSET Rows] /\ Streamed \subseteq Rows
  /\ \A k \in Levels : IsFiniteSet(Build[k])
  /\ RowBytes \in [Rows -> Nat] /\ Budget \in Nat
  /\ \A k \in Levels : Unsatisfied[k] \subseteq Build[k] \X Streamed

VARIABLES
  stage,     \* "collect", "spill", "stream", "unwind", "done" or "failed"
  level,     \* the level that materializes, or that unwinds
  arriving,  \* rows of the input being executed that have not reached its sink
  rows,      \* of each level: the rows in memory
  spilled,   \* rows that the loop over the buffered rows has pushed, while it runs
  pushed,    \* the row that set off the spilling
  loop,      \* of each level: the tuple its sink was given, <<>> when no call is open
  index,     \* of each level: the place of its loop over the rows in memory
  emitted    \* how often each tuple was given to the topmost sink

runvars  == <<phase, contents, reading, position, returned>>
joinvars == <<stage, level, arriving, rows, spilled, pushed, loop, index, emitted>>
allvars  == <<runvars, joinvars>>

\* A tuple of level k: the streamed row, then a row of each level from the deepest to k.
Tuples(k) == {t \in [1 .. Depth - k + 2 -> Rows] :
                t[1] \in Streamed /\ \A i \in 2 .. Len(t) : t[i] \in Build[Depth - i + 2]}

JoinInit ==
  /\ Init
  /\ stage = "collect" /\ level = 1 /\ arriving = Build[1]
  /\ rows = [k \in Levels |-> <<>>]
  /\ spilled = 0 /\ pushed = NoRow
  /\ loop = [k \in Levels |-> <<>>]
  /\ index = [k \in Levels |-> 0]
  /\ emitted = [t \in Tuples(1) |-> 0]

BytesOf(seq) == FoldSeq(LAMBDA row, sum : RowBytes[row] + sum, 0, seq)
Writing(k) == phase[k] = "writing"

\* The collect sink keeps the row in memory.
Buffer(row) ==
  /\ stage = "collect" /\ row \in arriving /\ ~Writing(level)
  /\ BytesOf(rows[level]) + RowBytes[row] <= Budget
  /\ rows' = [rows EXCEPT ![level] = Append(@, row)]
  /\ arriving' = arriving \ {row}
  /\ UNCHANGED <<runvars, stage, level, spilled, pushed, loop, index, emitted>>

\* The row exceeds the budget: a writer is opened.
StartSpill(row) ==
  /\ stage = "collect" /\ row \in arriving /\ ~Writing(level)
  /\ BytesOf(rows[level]) + RowBytes[row] > Budget
  /\ Open(level)
  /\ pushed' = row /\ arriving' = arriving \ {row}
  /\ stage' = "spill"
  /\ UNCHANGED <<level, rows, spilled, loop, index, emitted>>

\* for buffered in &rows { spill_writer.push_row(buffered)? }
SpillBuffered ==
  /\ stage = "spill" /\ spilled < Len(rows[level])
  /\ Push(level, rows[level][spilled + 1])
  /\ spilled' = spilled + 1
  /\ UNCHANGED <<stage, level, arriving, rows, pushed, loop, index, emitted>>

\* mutant: the buffered rows are pushed, but not the row that set off the spilling.
SpillRow_Forgotten ==
  /\ stage = "spill" /\ spilled = Len(rows[level])
  /\ rows' = [rows EXCEPT ![level] = <<>>]
  /\ spilled' = 0 /\ pushed' = NoRow
  /\ stage' = "collect"
  /\ UNCHANGED <<runvars, level, arriving, loop, index, emitted>>

\* The buffer is dropped, then the row itself is pushed.
SpillRow ==
  /\ stage = "spill" /\ spilled = Len(rows[level])
  /\ Push(level, pushed)
  /\ rows' = [rows EXCEPT ![level] = <<>>]
  /\ spilled' = 0 /\ pushed' = NoRow
  /\ stage' = "collect"
  /\ UNCHANGED <<level, arriving, loop, index, emitted>>

\* A later row goes to the writer.
PushToRun(row) ==
  /\ stage = "collect" /\ row \in arriving /\ Writing(level)
  /\ Push(level, row)
  /\ arriving' = arriving \ {row}
  /\ UNCHANGED <<stage, level, rows, spilled, pushed, loop, index, emitted>>

\* materialize_subtree_rows finishes the writer, if any, and returns; the join
\* executes its other input: the next level, or the streamed table.
Materialized ==
  /\ stage = "collect" /\ arriving = {}
  /\ IF Writing(level) THEN Seal(level) ELSE UNCHANGED runvars
  /\ IF level < Depth
     THEN level' = level + 1 /\ arriving' = Build[level + 1] /\ UNCHANGED stage
     ELSE stage' = "stream" /\ arriving' = Streamed /\ UNCHANGED level
  /\ UNCHANGED <<rows, spilled, pushed, loop, index, emitted>>

NoLoop == \A k \in Levels : loop[k] = <<>>

\* The level whose sink is being called: the topmost one with an open loop.
Active(k) == stage = "stream" /\ loop[k] # <<>> /\ \A j \in 1 .. k - 1 : loop[j] = <<>>

\* A streamed row reaches the deepest level's sink, whose for_each begins.
StreamRow(row) ==
  /\ stage = "stream" /\ NoLoop /\ row \in arriving
  /\ arriving' = arriving \ {row}
  /\ loop' = [loop EXCEPT ![Depth] = <<row>>]
  /\ UNCHANGED <<runvars, stage, level, rows, spilled, pushed, index, emitted>>

\* The join's predicates; a cross product has none.
Satisfied(k, row, tuple) == <<row, tuple[1]>> \notin Unsatisfied[k]

\* Level k combines its tuple with a row and, if the predicates hold, gives it
\* to the sink above: level k - 1 loops in turn, or the tuple leaves the tree.
Emit(k, row) ==
  LET joined == Append(loop[k], row)
  IN  IF ~Satisfied(k, row, loop[k])
      THEN UNCHANGED <<loop, emitted>>
      ELSE IF k > 1
      THEN loop' = [loop EXCEPT ![k - 1] = joined] /\ UNCHANGED emitted
      ELSE emitted' = [emitted EXCEPT ![joined] = @ + 1] /\ UNCHANGED loop

InRun(k) == phase[k] = "sealed"

\* for_each of rows in memory: the next one.
LoopInMemory(k) ==
  /\ Active(k) /\ ~InRun(k) /\ index[k] < Len(rows[k])
  /\ Emit(k, rows[k][index[k] + 1])
  /\ index' = [index EXCEPT ![k] = @ + 1]
  /\ UNCHANGED <<runvars, stage, level, arriving, rows, spilled, pushed>>

\* for_each of a run: read_scratch_run_ptr begins at the run's first block.
OpenRun(k) ==
  /\ Active(k) /\ InRun(k) /\ reading[k] = NoRun
  /\ StartReading(k, k)
  /\ UNCHANGED joinvars

LoopInRun(k) ==
  /\ Active(k) /\ InRun(k) /\ reading[k] = k /\ position[k] < Len(contents[k])
  /\ Read(k)
  /\ Emit(k, contents[k][position[k] + 1])
  /\ UNCHANGED <<stage, level, arriving, rows, spilled, pushed, index>>

\* The loop is over, its sink returns to the level below.
EndLoop(k) ==
  /\ Active(k)
  /\ IF InRun(k)
     THEN reading[k] = k /\ position[k] = Len(contents[k]) /\ StopReading(k)
     ELSE index[k] = Len(rows[k]) /\ UNCHANGED runvars
  /\ loop' = [loop EXCEPT ![k] = <<>>]
  /\ index' = [index EXCEPT ![k] = 0]
  /\ UNCHANGED <<stage, level, arriving, rows, spilled, pushed, emitted>>

\* The streamed table ends.
EndOfInput ==
  /\ stage = "stream" /\ NoLoop /\ arriving = {}
  /\ stage' = "unwind"
  /\ UNCHANGED <<runvars, level, arriving, rows, spilled, pushed, loop, index, emitted>>

\* mutant: the rows are dropped, but the run is not given back
Release_KeepsRun ==
  /\ stage = "unwind"
  /\ rows' = [rows EXCEPT ![level] = <<>>]
  /\ IF level > 1
     THEN level' = level - 1 /\ UNCHANGED stage
     ELSE stage' = "done" /\ UNCHANGED level
  /\ UNCHANGED <<runvars, arriving, spilled, pushed, loop, index, emitted>>

\* build_rows.release, as the joins return from the deepest to the topmost.
Release ==
  /\ stage = "unwind"
  /\ IF InRun(level) THEN Drop(level) ELSE UNCHANGED runvars
  /\ rows' = [rows EXCEPT ![level] = <<>>]
  /\ IF level > 1
     THEN level' = level - 1 /\ UNCHANGED stage
     ELSE stage' = "done" /\ UNCHANGED level
  /\ UNCHANGED <<arriving, spilled, pushed, loop, index, emitted>>

\* A write, a read or the sink fails: the error passes through every level,
\* and no level releases its run.
Fail ==
  /\ stage \in {"collect", "spill", "stream"}
  /\ stage' = "failed"
  /\ UNCHANGED <<runvars, level, arriving, rows, spilled, pushed, loop, index, emitted>>

Ended == stage \in {"done", "failed"} /\ UNCHANGED allvars

JoinNext ==
  \/ \E row \in arriving : Buffer(row) \/ StartSpill(row) \/ PushToRun(row) \/ StreamRow(row)
  \/ SpillBuffered \/ SpillRow \/ Materialized
  \/ \E k \in Levels : LoopInMemory(k) \/ OpenRun(k) \/ LoopInRun(k) \/ EndLoop(k)
  \/ EndOfInput \/ Release \/ Fail \/ Ended

JoinSpec == JoinInit /\ [][JoinNext]_allvars

-----------------------------------------------------------------------------

\* What a level holds, in memory or in its run.
Held(k) == ToSet(rows[k]) \cup ToSet(contents[k])

\* The row that set off the spilling, until it is pushed.
InHand(k) == IF stage = "spill" /\ k = level THEN {pushed} ELSE {}

\* The rows of a level's input that have reached its sink and were not released.
Arrived(k) ==
  IF k > level \/ stage = "done" THEN {}
  ELSE IF k = level /\ stage \in {"collect", "spill"} THEN Build[k] \ arriving
  ELSE Build[k]

\* A level has each row it was given, and has it in one place: in memory or in
\* its run and in no two, except while it spills, when the rows copied so far are
\* in both and one more is in hand.  None is lost where a level goes over to its
\* run, and levels that have not begun, or have released their rows, hold
\* nothing, no run either.  A failure drops what the levels hold; until it
\* strikes, and in what it leaves, no row is in two places
\* (materialize_subtree_rows, release).
RowsInOnePlace ==
  \A k \in Levels :
    /\ stage # "failed" =>
         /\ Held(k) \cup InHand(k) = Arrived(k)
         /\ k > level \/ stage = "done" => phase[k] = "unused"
         /\ stage # "spill" /\ phase[k] # "unused" => rows[k] = <<>>
    /\ Held(k) \cap InHand(k) = {}
    /\ Len(rows[k]) + Len(contents[k])
         = Cardinality(Held(k)) + IF k = level THEN spilled ELSE 0

\* The tuples that satisfy the predicates of every level.
Matches ==
  {t \in Tuples(1) : \A k \in Levels : <<t[Depth - k + 2], t[1]>> \notin Unsatisfied[k]}

\* A tree of joins is one join: each tuple that satisfies all predicates leaves
\* the topmost join once, whichever levels spill and when, although the loops
\* of the levels read their runs in turns (execute_materialized_join,
\* execute_cross).
J == INSTANCE Join WITH
       match <- Matches,
       outcome <- CASE stage = "done" -> "complete" [] stage = "failed" -> "failed"
                    [] OTHER -> "open"
ImplementsJoin == J!Spec

=============================================================================
