-------------------------- MODULE OrderedMergeJoin --------------------------
(***************************************************************************)
(* The join of two scan pipelines whose key columns the statistics call    *)
(* physically ordered (try_execute_ordered_unique_merge_join and           *)
(* execute_ordered_merge_join in database/src/executor/filter.rs).  It     *)
(* keeps one row of each side, passes over the side with the smaller key,  *)
(* and on equal keys collects the rows of that key of both sides before it *)
(* emits their pairs.                                                      *)
(*                                                                         *)
(* A row is an identity with its key, its size and whether the pipeline's  *)
(* predicates accept it.  One step of ReadRow or RejectRow is one          *)
(* iteration of next_row's loop.                                           *)
(***************************************************************************)
EXTENDS ScanCursor, TableFile

CONSTANTS
  Inputs,   \* the pairs of tables a query may join: the lines each was generated from
  Rejected, \* pairs <<l.id, r.id>> that predicates besides the key's equality reject
  Absent    \* None

Sides == {"left", "right"}
KeyColumn(rows) == [i \in DOMAIN rows |-> rows[i].key]

(* The disk's configuration refuses empty files, and the generator panics  *)
(* at a row that does not fit a block.  A column has one type.  A NaN may  *)
(* only be the last key: the statistics compare each value with the one    *)
(* before, and take what comes after a NaN for ordered.                    *)
ASSUME OrderedMergeJoinAssumption ==
  \A input \in Inputs : \A side \in Sides :
    LET rows == RowStream(input[side])
    IN  /\ rows \in Seq(ToSet(rows)) \ {<<>>} /\ IsInjective(rows) /\ Absent \notin ToSet(rows)
        /\ \A i \in DOMAIN rows :
             /\ rows[i].size \in 1 .. Capacity /\ rows[i].accepted \in BOOLEAN
             /\ rows[i].key \in Values /\ rows[i].key.type = rows[1].key.type
             /\ IsNaN(rows[i].key) => i = Len(rows)

VARIABLES
  input,      \* what the tables were generated from
  table,      \* of each side: its file
  stats,      \* of each side: the statistics of its key column
  progress,   \* "declined", "open", "compare", "collect_left", "collect_right", "emit", "done", "failed"
  advancing,  \* the side whose next_row is running, or "none"
  cursor,     \* left_cursor, right_cursor
  row,        \* left_row, right_row
  group,      \* left_group, right_group
  merged      \* how often each pair was given to the sink

generated == <<input, table, stats>>
mergevars == <<generated, progress, advancing, cursor, row, group, merged>>

OtherSide(side) == IF side = "left" THEN "right" ELSE "left"

\* What the scans may find.
RowsOf(side) == ToSet(RowStream(input[side]))

\* compiled_cross, which holds the equality of the keys too.
Satisfies(l, r) == CompareValues(l.key, r.key) = "Equal" /\ <<l.id, r.id>> \notin Rejected

(* The generator has run; try_execute_ordered_unique_merge_join declines   *)
(* a join whose keys are not both ordered, or of which neither is unique   *)
(* by the estimates, which are left open.                                  *)
MergeInit ==
  /\ input \in Inputs
  /\ table = [side \in Sides |-> SaveRowStream(RowStream(input[side]))]
  /\ stats = [side \in Sides |-> BuildStats(KeyColumn(RowStream(input[side])))]
  /\ progress \in {"declined"} \cup
       IF \A side \in Sides : stats[side].is_physically_ordered THEN {"open"} ELSE {}
  /\ advancing = IF progress = "open" THEN "left" ELSE "none"
  /\ cursor = [side \in Sides |-> NewCursor]
  /\ row = [side \in Sides |-> Absent]
  /\ group = [side \in Sides |-> <<>>]
  /\ merged = [pair \in RowsOf("left") \X RowsOf("right") |-> 0]

\* An iteration of next_row that returns a row.
ReadRow(side) ==
  LET at == Positioned(cursor[side], table[side])
  IN  /\ advancing = side /\ ~AtEnd(cursor[side], table[side])
      /\ CurrentRow(at).accepted
      /\ row' = [row EXCEPT ![side] = CurrentRow(at)]
      /\ cursor' = [cursor EXCEPT ![side] = PastRow(at)]
      /\ advancing' = "none"
      /\ UNCHANGED <<generated, progress, group, merged>>

\* An iteration whose row the predicates reject.
RejectRow(side) ==
  LET at == Positioned(cursor[side], table[side])
  IN  /\ advancing = side /\ ~AtEnd(cursor[side], table[side])
      /\ ~CurrentRow(at).accepted
      /\ cursor' = [cursor EXCEPT ![side] = PastRow(at)]
      /\ UNCHANGED <<generated, progress, advancing, row, group, merged>>

EndOfTable(side) ==
  /\ advancing = side /\ AtEnd(cursor[side], table[side])
  /\ row' = [row EXCEPT ![side] = Absent]
  /\ advancing' = "none"
  /\ UNCHANGED <<generated, progress, cursor, group, merged>>

\* The first left row is there, the first right row is asked for.
OpenRight ==
  /\ progress = "open" /\ advancing = "none"
  /\ progress' = "compare" /\ advancing' = "right"
  /\ UNCHANGED <<generated, cursor, row, group, merged>>

Comparing == progress = "compare" /\ advancing = "none" /\ \A side \in Sides : row[side] # Absent

\* Less or Greater: the side with the smaller key moves on.
PassOver(side) ==
  /\ Comparing
  /\ CompareValues(row[side].key, row[OtherSide(side)].key) = "Less"
  /\ advancing' = side
  /\ UNCHANGED <<generated, progress, cursor, row, group, merged>>

\* Equal: the left row is taken as the first of its group.
StartGroups ==
  /\ Comparing
  /\ CompareValues(row["left"].key, row["right"].key) = "Equal"
  /\ group' = [left |-> <<row["left"]>>, right |-> <<>>]
  /\ progress' = "collect_left" /\ advancing' = "left"
  /\ UNCHANGED <<generated, cursor, row, merged>>

\* The row that was read, compared with join_key.
GroupOrder(side) == CompareValues(row[side].key, group["left"][1].key)
InGroup(side) == row[side] # Absent /\ GroupOrder(side) = "Equal"
PastGroup(side) == row[side] # Absent => GroupOrder(side) \in {"Less", "Greater"}

Collect(side) ==
  /\ advancing = "none" /\ InGroup(side)
  /\ group' = [group EXCEPT ![side] = Append(@, row[side])]
  /\ advancing' = side
  /\ UNCHANGED <<generated, progress, cursor, row, merged>>

CollectLeft == progress = "collect_left" /\ Collect("left")
CollectRight == progress = "collect_right" /\ Collect("right")

\* mutant: the right row that has the key is forgotten
LeftCollected_ForgetsRight ==
  /\ progress = "collect_left" /\ advancing = "none" /\ PastGroup("left")
  /\ progress' = "collect_right" /\ advancing' = "right"
  /\ UNCHANGED <<generated, cursor, row, group, merged>>

\* The right row is taken as the first of its group.
LeftCollected ==
  /\ progress = "collect_left" /\ advancing = "none" /\ PastGroup("left")
  /\ group' = [group EXCEPT !["right"] = <<row["right"]>>]
  /\ progress' = "collect_right" /\ advancing' = "right"
  /\ UNCHANGED <<generated, cursor, row, merged>>

RightCollected ==
  /\ progress = "collect_right" /\ advancing = "none" /\ PastGroup("right")
  /\ progress' = "emit"
  /\ UNCHANGED <<generated, advancing, cursor, row, group, merged>>

\* The pairs of the two groups in the order of the loops.
GroupPairs ==
  FlattenSeq([i \in DOMAIN group["left"] |->
                [j \in DOMAIN group["right"] |-> <<group["left"][i], group["right"][j]>>]])

\* What has been emitted after the first n pairs.
MergedAfter(n) ==
  LET joined == {pair \in ToSet(SubSeq(GroupPairs, 1, n)) : Satisfies(pair[1], pair[2])}
  IN  [pair \in DOMAIN merged |-> merged[pair] + IF pair \in joined THEN 1 ELSE 0]

EmitGroups ==
  /\ progress = "emit"
  /\ merged' = MergedAfter(Len(GroupPairs))
  /\ progress' = "compare"
  /\ UNCHANGED <<generated, advancing, cursor, row, group>>

Finish ==
  /\ progress = "compare" /\ advancing = "none"
  /\ \E side \in Sides : row[side] = Absent
  /\ progress' = "done"
  /\ UNCHANGED <<generated, advancing, cursor, row, group, merged>>

\* compare_values fails: a NaN, or a string and a number.
Incomparable ==
  /\ advancing = "none"
  /\ \/ Comparing /\ CompareValues(row["left"].key, row["right"].key) = "None"
     \/ \E side \in Sides : /\ progress = IF side = "left" THEN "collect_left" ELSE "collect_right"
                           /\ row[side] # Absent /\ GroupOrder(side) = "None"
  /\ progress' = "failed"
  /\ UNCHANGED <<generated, advancing, cursor, row, group, merged>>

\* A read fails while a row is wanted, or the sink after some of the pairs.
MergeFail ==
  /\ \/ advancing # "none" /\ UNCHANGED merged
     \/ progress = "emit" /\ \E n \in 0 .. Len(GroupPairs) - 1 : merged' = MergedAfter(n)
  /\ progress' = "failed" /\ advancing' = "none"
  /\ UNCHANGED <<generated, cursor, row, group>>

MergeEnded == progress \in {"declined", "done", "failed"} /\ UNCHANGED mergevars

MergeNext ==
  \/ \E side \in Sides : ReadRow(side) \/ RejectRow(side) \/ EndOfTable(side) \/ PassOver(side)
  \/ OpenRight \/ StartGroups \/ CollectLeft \/ LeftCollected \/ CollectRight \/ RightCollected
  \/ EmitGroups \/ Finish \/ Incomparable \/ MergeFail \/ MergeEnded

MergeSpec == MergeInit /\ [][MergeNext]_mergevars

-----------------------------------------------------------------------------

Keys == UNION {ToSet(KeyColumn(RowStream(input[side]))) : side \in Sides}

\* The blocks of a file hold the rows of the stream, each once, whole and in
\* order, and no block is empty, which next_row relies on when it decodes a row
\* of the block it has advanced to (save_row_stream_to_file).
TableIsPacked == \A side \in Sides : IsPacked(table[side], RowStream(input[side]))

\* What is recorded of a column without NaN holds of the whole column: the order
\* claim exactly when no later key is smaller, the range, the number of distinct
\* values up to its limit, and chunks of the histogram that cover all values and
\* count all rows (StatsGenerator).
StatisticsAreTrue ==
  \A side \in Sides :
    LET column == KeyColumn(RowStream(input[side]))
    IN  (\A i \in DOMAIN column : ~IsNaN(column[i])) => AreTrue(stats[side], column)

\* Values compare as the numbers they stand for do, whatever their types, with
\* no rounding at any magnitude, and fail to only at NaN or different kinds; so
\* the order is one order for merging, sorting and filtering (compare_values).
ComparesByValue == \A a, b \in Keys : CompareValues(a, b) = ExactOrder(a, b)

\* Values that compare as equal enter a join's digest as the same bytes, also
\* an integer and a float and the two zeros: a hash join looks for the partners
\* of a row only under its digest (hash_join_value).
EqualKeysMeet == \A a, b \in Keys : CompareValues(a, b) = "Equal" => JoinKey(a) = JoinKey(b)

\* A cursor loses no row and repeats none where a block or a batch ends: each
\* step takes the first row of the file it has not reached, keeps it or not, and
\* a side runs out of rows only at the end of its file (next_row, advance_block
\* and load_next_batch).
RowsReadInOrder ==
  [][\A side \in Sides :
       LET before == Unread(cursor[side], table[side])
           after  == Unread(cursor[side], table[side])'
       IN  /\ cursor[side]' # cursor[side] =>
                /\ before # <<>> /\ after = Tail(before)
                /\ row[side]' \in {row[side], Head(before)}
           /\ row[side]' # row[side] =>
                \/ row[side]' = Absent /\ before = <<>>
                \/ row[side]' # Absent /\ cursor[side]' # cursor[side]]_mergevars

\* The join the query asks for: the accepted rows with the same value.
KeyMatches ==
  {pair \in RowsOf("left") \X RowsOf("right") :
     /\ pair[1].accepted /\ pair[2].accepted
     /\ SameValue(pair[1].key, pair[2].key) /\ <<pair[1].id, pair[2].id>> \notin Rejected}

\* With inputs the statistics call ordered the merge emits each pair of the join
\* once, whatever keys repeat on one side or both and wherever the repetitions
\* meet the borders of blocks and batches (execute_ordered_merge_join).
MergedJoin == INSTANCE Join WITH
  match <- KeyMatches, emitted <- merged,
  outcome <- CASE progress = "done" -> "complete" [] progress = "failed" -> "failed" [] OTHER -> "open"
MergeImplementsJoin == MergedJoin!Spec

=============================================================================
