----------------------------- MODULE QueryTree ------------------------------
(***************************************************************************)
(* Queries (common/src/query.rs), their schemas (database/src/row.rs and   *)
(* query_support.rs) and their meaning, the reference the optimizer and    *)
(* the executor are compared with.                                         *)
(*                                                                         *)
(* A schema is a sequence of column names; types are left out, values are  *)
(* integers.  Queries are well formed: every name they use is a column of  *)
(* their input and no schema has a name twice, so the errors for unknown   *)
(* columns are not taken.                                                  *)
(***************************************************************************)
EXTENDS Integers, Sequences, SequencesExt, FiniteSets

CONSTANTS
  Columns,   \* TableSpec::column_specs of each table
  Contents,  \* the rows of each table, in the order of its file
  Ordered,   \* of each table: the columns with the statistic IsPhysicallyOrdered
  NoColumn   \* the other column of a predicate with a literal

ASSUME QueryTreeAssumption ==
  \A t \in DOMAIN Columns : \A row \in Range(Contents[t]) : Len(row) = Len(Columns[t])

Scan(table) == [op |-> "Scan", table |-> table]
Filter(predicates, underlying) ==
  [op |-> "Filter", predicates |-> predicates, underlying |-> underlying]
Project(column_map, underlying) ==
  [op |-> "Project", column_map |-> column_map, underlying |-> underlying]
Cross(left, right) == [op |-> "Cross", left |-> left, right |-> right]
Sort(specs, underlying) == [op |-> "Sort", specs |-> specs, underlying |-> underlying]

\* A predicate with a literal, and one with a second column.
Literal(column, operator, value) ==
  [column |-> column, operator |-> operator, other |-> NoColumn, value |-> value]
Column(column, operator, other) ==
  [column |-> column, operator |-> operator, other |-> other, value |-> 0]

-----------------------------------------------------------------------------

HasColumn(schema, name) == name \in Range(schema)

\* Schema::index_of: the first column of the name.
IndexOf(schema, name) ==
  CHOOSE i \in DOMAIN schema : schema[i] = name /\ \A j \in 1 .. i - 1 : schema[j] # name

Mapped(pairs, Op(_)) == [i \in DOMAIN pairs |-> Op(pairs[i])]
Sources(column_map) == Mapped(column_map, LAMBDA pair : pair[1])
Targets(column_map) == Mapped(column_map, LAMBDA pair : pair[2])

\* The source of a projection's output column: the first of that name.
SourceOf(column_map, name) == column_map[IndexOf(Targets(column_map), name)][1]

RECURSIVE InferSchema(_)
InferSchema(query) ==
  CASE query.op = "Scan" -> Columns[query.table]
    [] query.op \in {"Filter", "Sort"} -> InferSchema(query.underlying)
    [] query.op = "Project" -> Targets(query.column_map)
    [] query.op = "Cross" -> InferSchema(query.left) \o InferSchema(query.right)

PredicateColumns(p) == {p.column, p.other} \ {NoColumn}

\* A column that both sides have, or neither, makes a predicate one of the cross.
ClassifyPredicate(p, left, right) ==
  LET of(side, other) ==
        \A c \in PredicateColumns(p) : HasColumn(side, c) /\ ~HasColumn(other, c)
  IN  IF of(left, right) THEN "Left" ELSE IF of(right, left) THEN "Right" ELSE "Cross"

SideOf(predicates, side, left, right) ==
  SelectSeq(predicates, LAMBDA p : ClassifyPredicate(p, left, right) = side)

Compare(left, operator, right) ==
  CASE operator = "EQ" -> left = right
    [] operator = "NE" -> left # right
    [] operator = "LT" -> left < right
    [] operator = "GTE" -> left >= right

\* row_satisfies_predicates, compiled against a schema.
Satisfies(row, predicates, schema) ==
  \A i \in DOMAIN predicates :
    LET p == predicates[i]
    IN  Compare(row[IndexOf(schema, p.column)], p.operator,
                IF p.other = NoColumn THEN p.value ELSE row[IndexOf(schema, p.other)])

\* Schema::project and Row::into_project.
ProjectRow(row, column_map, schema) ==
  Mapped(column_map, LAMBDA pair : row[IndexOf(schema, pair[1])])

\* compare_rows is Less.
RowBefore(a, b, specs, schema) ==
  \E i \in DOMAIN specs :
    LET value(row, j) == row[IndexOf(schema, specs[j].column)]
    IN  /\ IF specs[i].ascending THEN value(a, i) < value(b, i) ELSE value(a, i) > value(b, i)
        /\ \A j \in 1 .. i - 1 : value(a, j) = value(b, j)

SortRows(rows, specs, schema) == SortSeq(rows, LAMBDA a, b : RowBefore(a, b, specs, schema))

\* All rows of one input with all rows of the other.
Pairs(left, right) ==
  FlattenSeq(Mapped(left, LAMBDA l : Mapped(right, LAMBDA r : l \o r)))

-----------------------------------------------------------------------------

\* What a query means: each operator applied to the rows of the one below it.
RECURSIVE Meaning(_)
Meaning(query) ==
  CASE query.op = "Scan" -> Contents[query.table]
    [] query.op = "Filter" ->
         SelectSeq(Meaning(query.underlying),
                   LAMBDA row : Satisfies(row, query.predicates, InferSchema(query.underlying)))
    [] query.op = "Project" ->
         Mapped(Meaning(query.underlying),
                LAMBDA row : ProjectRow(row, query.column_map, InferSchema(query.underlying)))
    [] query.op = "Cross" -> Pairs(Meaning(query.left), Meaning(query.right))
    [] query.op = "Sort" ->
         SortRows(Meaning(query.underlying), query.specs, InferSchema(query.underlying))

NoneTwice(schema) == Cardinality(Range(schema)) = Len(schema)

RECURSIVE WellFormed(_)
WellFormed(query) ==
  CASE query.op = "Scan" -> TRUE
    [] query.op = "Cross" -> WellFormed(query.left) /\ WellFormed(query.right)
                             /\ NoneTwice(InferSchema(query))
    [] OTHER ->
         LET known == Range(InferSchema(query.underlying))
         IN  /\ WellFormed(query.underlying)
             /\ NoneTwice(InferSchema(query))
             /\ CASE query.op = "Filter" ->
                       \A p \in Range(query.predicates) : PredicateColumns(p) \subseteq known
                  [] query.op = "Project" -> Range(Sources(query.column_map)) \subseteq known
                  [] query.op = "Sort" -> \A s \in Range(query.specs) : s.column \in known

=============================================================================
