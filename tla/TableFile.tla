----------------------------- MODULE TableFile -----------------------------
(***************************************************************************)
(* The file and the statistics of a table as the generator makes them from *)
(* the lines it reads (generator/src/main.rs and stats_generator.rs).  The *)
(* database trusts both: it decodes a block by the number of rows in its   *)
(* last two bytes, and chooses joins and sorts by the statistics.          *)
(*                                                                         *)
(* A line is a row, with a key (the column the statistics are about) and a *)
(* size in bytes, or Blank, which stands for a line without values or with *)
(* too few.  The sample of a histogram is the whole column here, as it is  *)
(* in the code up to reservoir_capacity rows.                              *)
(***************************************************************************)
EXTENDS NumericOrder, FiniteSets, TLC, SequencesExt

CONSTANTS
  Capacity,    \* map_capacity: block_size - 2, as the count of rows takes two bytes
  ExactLimit,  \* exact_limit: distinct values counted exactly
  MaxBuckets,  \* max_histogram_buckets
  Blank,
  Estimate     \* the result of HyperLogLog

ASSUME TableFileAssumption ==
  /\ Capacity \in 1 .. 2 ^ 16 - 1
  /\ {ExactLimit, MaxBuckets} \subseteq Nat \ {0}

-----------------------------------------------------------------------------
(* RowStreamGenerator and save_row_stream_to_file.                         *)

\* RowStreamGenerator::next ends the table at the first line that is no row.
RowStream(lines) ==
  LET end == SelectInSeq(lines, LAMBDA line : line = Blank)
  IN  IF end = 0 THEN lines ELSE SubSeq(lines, 1, end - 1)

\* mutant: a block that is full to the last byte is written when it has no room left
SaveRow_Full(file, row) ==
  LET flush == file.occupied + row.size >= Capacity
  IN  [blocks   |-> IF flush THEN Append(file.blocks, file.block) ELSE file.blocks,
       block    |-> Append(IF flush THEN <<>> ELSE file.block, row),
       occupied |-> row.size + IF flush THEN 0 ELSE file.occupied]

SaveRow(file, row) ==
  LET flush == file.occupied + row.size > Capacity
  IN  [blocks   |-> IF flush THEN Append(file.blocks, file.block) ELSE file.blocks,
       block    |-> Append(IF flush THEN <<>> ELSE file.block, row),
       occupied |-> row.size + IF flush THEN 0 ELSE file.occupied]

SaveRowStream(rows) ==
  LET file == FoldLeft(SaveRow, [blocks |-> <<>>, block |-> <<>>, occupied |-> 0], rows)
  IN  file.blocks \o IF file.block = <<>> THEN <<>> ELSE <<file.block>>

-----------------------------------------------------------------------------
(* StatsGenerator, for one column.                                         *)

NewStats(first) ==
  [ordered |-> TRUE, last |-> first, lower |-> first, upper |-> first, exact_distinct |-> {first}]

\* mutant: last_element stays the first one
Update_KeepsFirst(stats, element) ==
  [ordered |-> stats.ordered /\ CompareValues(stats.last, element) # "Greater",
   last    |-> stats.last,
   lower   |-> IF CompareValues(element, stats.lower) = "Less" THEN element ELSE stats.lower,
   upper   |-> IF CompareValues(element, stats.upper) = "Greater" THEN element ELSE stats.upper,
   exact_distinct |->
     IF \E e \in stats.exact_distinct : CompareValues(element, e) \in {"Equal", "None"}
     THEN stats.exact_distinct ELSE stats.exact_distinct \cup {element}]

(* update.  To OrderedData, values that cannot be compared are equal.      *)
Update(stats, element) ==
  [ordered |-> stats.ordered /\ CompareValues(stats.last, element) # "Greater",
   last    |-> element,
   lower   |-> IF CompareValues(element, stats.lower) = "Less" THEN element ELSE stats.lower,
   upper   |-> IF CompareValues(element, stats.upper) = "Greater" THEN element ELSE stats.upper,
   exact_distinct |->
     IF \E e \in stats.exact_distinct : CompareValues(element, e) \in {"Equal", "None"}
     THEN stats.exact_distinct ELSE stats.exact_distinct \cup {element}]

\* The sorted sample in num_buckets chunks, of which the last may be shorter.
Histogram(column) ==
  LET sample      == SortSeq(column, LAMBDA a, b : CompareValues(a, b) = "Less")
      num_buckets == IF MaxBuckets < Len(sample) THEN MaxBuckets ELSE Len(sample)
      chunk_size  == (Len(sample) + num_buckets - 1) \div num_buckets
      End(b)      == IF b * chunk_size < Len(sample) THEN b * chunk_size ELSE Len(sample)
  IN  [b \in 1 .. (Len(sample) + chunk_size - 1) \div chunk_size |->
         [lower |-> sample[(b - 1) * chunk_size + 1], upper |-> sample[End(b)],
          frequency |-> End(b) - (b - 1) * chunk_size]]

(* generate_db_config and build, for a column with a value.  A column of   *)
(* strings has no range, and in the code no histogram either if it has     *)
(* more than max_string_unique_for_histogram values.                       *)
BuildStats(column) ==
  LET stats == FoldLeft(Update, NewStats(Head(column)), Tail(column))
  IN  [is_physically_ordered |-> stats.ordered,
       range |-> IF stats.last.type = "String" THEN {} ELSE {<<stats.lower, stats.upper>>},
       cardinality |-> IF Cardinality(stats.exact_distinct) <= ExactLimit
                       THEN Cardinality(stats.exact_distinct) ELSE Estimate,
       histogram |-> Histogram(column)]

-----------------------------------------------------------------------------
(* What the database takes the file and the statistics for.                *)

\* A block is read by its own number of rows: every row of the stream is in
\* one block that holds it whole, in order, and no block is without rows.
IsPacked(file, rows) ==
  /\ FlattenSeq(file) = rows
  /\ \A b \in DOMAIN file :
       /\ file[b] # <<>>
       /\ FoldLeft(LAMBDA bytes, row : bytes + row.size, 0, file[b]) <= Capacity

\* The statistics say what holds of a column of comparable values.
AreTrue(stats, column) ==
  LET values == ToSet(column)
      AtMost(a, b) == ExactOrder(a, b) \in {"Less", "Equal"}
      distinct == Cardinality({{w \in values : SameValue(v, w)} : v \in values})
      points == stats.histogram
      Within(point) == {i \in DOMAIN column : AtMost(point.lower, column[i]) /\
                                              AtMost(column[i], point.upper)}
  IN  /\ stats.is_physically_ordered <=>
           \A i, j \in DOMAIN column : i < j => AtMost(column[i], column[j])
      /\ \A range \in stats.range : \A v \in values :
           ToSet(range) \subseteq values /\ AtMost(range[1], v) /\ AtMost(v, range[2])
      /\ stats.cardinality = IF distinct <= ExactLimit THEN distinct ELSE Estimate
      /\ Len(points) <= MaxBuckets
      /\ FoldLeft(LAMBDA n, point : n + point.frequency, 0, points) = Len(column)
      /\ \A b \in DOMAIN points : points[b].frequency \in 1 .. Cardinality(Within(points[b]))
      /\ \A v \in values : \E b \in DOMAIN points :
           AtMost(points[b].lower, v) /\ AtMost(v, points[b].upper)

=============================================================================
