----------------------------- MODULE Estimation -----------------------------
(***************************************************************************)
(* How many rows the optimizer believes a query has                        *)
(* (database/src/estimation.rs).  Of the statistics, the model has the row *)
(* counts of tables and the distinct values of columns; columns without a  *)
(* range get the default selectivity of an inequality.  Selectivities are  *)
(* fractions <<numerator, denominator>>.                                   *)
(***************************************************************************)
EXTENDS QueryTree, FiniteSetsExt

CONSTANTS
  TableRows,    \* table_row_count of each table
  Distinct,     \* of each table and column: its CardinalityStat
  NoStatistic,  \* either, when the statistics do not say
  MaxRows       \* u64::MAX

LOCAL Lesser(a, b) == IF a <= b THEN a ELSE b
LOCAL Greater(a, b) == IF a >= b THEN a ELSE b

\* Option::unwrap_or.
Known(statistic, default) == IF statistic = NoStatistic THEN default ELSE statistic

\* estimate_scan_rows: the row count, else the most distinct values, else very many.
ScanRows(table) ==
  LET values == {Distinct[table][c] : c \in DOMAIN Distinct[table]} \ {NoStatistic}
  IN  Known(TableRows[table], IF values = {} THEN MaxRows \div 4 ELSE Max(values))

SaturatingMul(a, b) == Lesser(a * b, MaxRows)

Times(f, g) == <<f[1] * g[1], f[2] * g[2]>>

\* Rounded to the nearest, never less than a row.
ApplySelectivity(rows, f) ==
  Lesser(Greater((2 * rows * f[1] + f[2]) \div (2 * f[2]), 1), MaxRows)

DefaultSelectivity(operator) ==
  CASE operator = "EQ" -> <<1, 10>> [] operator = "NE" -> <<9, 10>> [] OTHER -> <<1, 2>>

\* estimate_scan_predicate_selectivity: at least one row, at most all.
PredicateSelectivity(table, p) ==
  LET distinct == Distinct[table][p.column]
      values == Greater(distinct, 1)
      f == IF p.other # NoColumn \/ distinct = NoStatistic THEN DefaultSelectivity(p.operator)
           ELSE CASE p.operator = "EQ" -> <<1, values>>
                  [] p.operator = "NE" -> <<values - 1, values>>
                  [] OTHER -> DefaultSelectivity(p.operator)
      most == Greater(Known(TableRows[table], 1), 1)
  IN  IF f[1] * most < f[2] THEN <<1, most>> ELSE f

\* apply_generic_predicate_penalty, a quarter for each of at most four predicates.
GenericPenalty(rows, count) == ApplySelectivity(Greater(rows, 1), <<1, 4 ^ Lesser(count, 4)>>)

\* A projection's predicates in the names of its input; those it cannot name go.
RemapKnown(predicates, column_map) ==
  LET known == SelectSeq(predicates, LAMBDA p : PredicateColumns(p) \subseteq Range(Targets(column_map)))
  IN  Mapped(known, LAMBDA p : [p EXCEPT !.column = SourceOf(column_map, @),
                                         !.other = IF @ = NoColumn THEN @ ELSE SourceOf(column_map, @)])

\* extract_join_keys: the columns of the equalities between the two sides.
JoinKeys(predicates, left, right) ==
  LET equal == SelectSeq(predicates,
                 LAMBDA p : p.operator = "EQ" /\ p.other # NoColumn
                            /\ HasColumn(left, p.column) # HasColumn(right, p.column)
                            /\ HasColumn(left, p.other) # HasColumn(right, p.other)
                            /\ HasColumn(left, p.column) # HasColumn(left, p.other))
  IN  Mapped(equal, LAMBDA p : IF HasColumn(left, p.column) THEN <<p.column, p.other>>
                               ELSE <<p.other, p.column>>)

RECURSIVE QueryRows(_), RowsWithPredicates(_, _), DistinctValues(_, _)

\* estimate_join_rows: each equality divides by the larger number of values.
JoinRows(cross, left_rows, right_rows, keys) ==
  LET values(query, column, rows) ==
        Lesser(DistinctValues(query, column), Greater(rows, 1))
      divided(rows, key) ==
        rows \div Greater(Greater(values(cross.left, key[1], left_rows),
                                  values(cross.right, key[2], right_rows)), 1)
  IN  Greater(FoldLeft(divided, SaturatingMul(left_rows, right_rows), keys), 1)

\* estimate_cross_rows.
CrossRows(cross, predicates) ==
  LET left == InferSchema(cross.left)
      right == InferSchema(cross.right)
      left_rows == RowsWithPredicates(cross.left, SideOf(predicates, "Left", left, right))
      right_rows == RowsWithPredicates(cross.right, SideOf(predicates, "Right", left, right))
      both == SideOf(predicates, "Cross", left, right)
      keys == JoinKeys(both, left, right)
      joined == JoinRows(cross, left_rows, right_rows, keys)
  IN  IF keys = <<>> THEN GenericPenalty(SaturatingMul(left_rows, right_rows), Len(both))
      ELSE IF Len(both) > Len(keys) THEN GenericPenalty(joined, Len(both) - Len(keys))
      ELSE joined

\* estimate_query_rows: a table without a predicate has the rows it has, none too.
QueryRows(query) ==
  CASE query.op = "Scan" -> ScanRows(query.table)
    [] query.op = "Filter" -> RowsWithPredicates(query.underlying, query.predicates)
    [] query.op \in {"Project", "Sort"} -> QueryRows(query.underlying)
    [] query.op = "Cross" -> CrossRows(query, <<>>)

RowsWithPredicates(query, predicates) ==
  CASE query.op = "Scan" ->
         ApplySelectivity(ScanRows(query.table),
                          FoldLeft(LAMBDA f, p : Times(f, PredicateSelectivity(query.table, p)),
                                   <<1, 1>>, predicates))
    [] query.op = "Filter" -> RowsWithPredicates(query.underlying, query.predicates \o predicates)
    [] query.op = "Project" ->
         RowsWithPredicates(query.underlying, RemapKnown(predicates, query.column_map))
    [] query.op = "Sort" -> RowsWithPredicates(query.underlying, predicates)
    [] query.op = "Cross" -> CrossRows(query, predicates)

\* estimate_distinct_values: filters thin a column's values out like its rows.
DistinctValues(query, column) ==
  CASE query.op = "Scan" ->
         LET rows == Greater(ScanRows(query.table), 1)
         IN  Greater(Lesser(Known(Distinct[query.table][column], rows), rows), 1)
    [] query.op = "Filter" ->
         LET values == DistinctValues(query.underlying, column)
             rows == Greater(QueryRows(query.underlying), 1)
             kept == Greater(QueryRows(query), 1)
         IN  Greater(Lesser(Lesser((values * kept + rows - 1) \div rows, values), kept), 1)
    [] query.op = "Project" ->
         DistinctValues(query.underlying, SourceOf(query.column_map, column))
    [] query.op = "Sort" -> DistinctValues(query.underlying, column)
    [] query.op = "Cross" ->
         DistinctValues(IF HasColumn(InferSchema(query.left), column) THEN query.left
                        ELSE query.right, column)

=============================================================================
