----------------------------- MODULE QueryPlans -----------------------------
(***************************************************************************)
(* A query on its way through the database (db_main in                     *)
(* database/src/main.rs): read, optimized, executed.                       *)
(***************************************************************************)
EXTENDS Optimizer, Executor

CONSTANTS
  Queries,  \* the queries the monitor may send
  Nothing   \* a plan or result that is not there yet

ASSUME QueryPlansAssumption == \A query \in Queries : WellFormed(query)

VARIABLES
  query,   \* as read from the monitor
  plan,    \* what optimize_query returned
  result   \* the schema and rows execute_query gave to the sink

vars == <<query, plan, result>>

Init ==
  /\ query \in Queries
  /\ plan = Nothing
  /\ result = Nothing

OptimizeQuery ==
  /\ plan = Nothing
  /\ plan' \in OptimizeOp(query)
  /\ UNCHANGED <<query, result>>

ExecuteQuery ==
  /\ plan # Nothing /\ result = Nothing
  /\ result' = ExecuteOp(plan)
  /\ UNCHANGED <<query, plan>>

Answered == result # Nothing /\ UNCHANGED vars

Next == OptimizeQuery \/ ExecuteQuery \/ Answered

Spec == Init /\ [][Next]_vars

-----------------------------------------------------------------------------

RECURSIVE HasCross(_)
HasCross(q) ==
  CASE q.op = "Cross" -> TRUE [] q.op = "Scan" -> FALSE [] OTHER -> HasCross(q.underlying)

\* A row as a function of its columns.
Named(row, schema) == [name \in Range(schema) |-> row[IndexOf(schema, name)]]

SameRows(rows, schema, others, other_schema) ==
  LET count(s, names, r) == Cardinality({i \in DOMAIN s : Named(s[i], names) = r})
  IN  /\ Range(schema) = Range(other_schema)
      /\ Len(rows) = Len(others)
      /\ \A i \in DOMAIN rows :
           LET r == Named(rows[i], schema)
           IN  count(rows, schema, r) = count(others, other_schema, r)

\* Rewriting a cross may turn its columns, see ColumnsInOrder.
KeepsColumns(schema) == HasCross(query) \/ schema = InferSchema(query)

\* A plan means what its query means: the same rows, each as often, with the
\* same columns, whatever the estimates are (optimize_op).  Without a cross the
\* columns keep their order.
PlanMeansQuery ==
  plan # Nothing =>
    /\ WellFormed(plan)
    /\ SameRows(Meaning(plan), InferSchema(plan), Meaning(query), InferSchema(query))
    /\ KeepsColumns(InferSchema(plan))

\* The rows a query means, in its order, each with the values its outermost sort
\* compares, which filters and projections above the sort leave with the row even
\* when they do not output those columns; a scan or a cross asks for no order.
RECURSIVE Keyed(_)
Keyed(q) ==
  CASE q.op = "Sort" ->
         Mapped(Meaning(q), LAMBDA row :
           [row |-> row,
            key |-> Mapped(q.specs, LAMBDA s : row[IndexOf(InferSchema(q), s.column)])])
    [] q.op = "Filter" ->
         SelectSeq(Keyed(q.underlying),
                   LAMBDA k : Satisfies(k.row, q.predicates, InferSchema(q.underlying)))
    [] q.op = "Project" ->
         Mapped(Keyed(q.underlying),
                LAMBDA k : [k EXCEPT !.row = ProjectRow(@, q.column_map,
                                                        InferSchema(q.underlying))])
    [] OTHER -> Mapped(Meaning(q), LAMBDA row : [row |-> row, key |-> <<>>])

\* Rows that compare equal stand together in Keyed and may come in any order among
\* themselves: the rows at those places are the same, each as often.
InAskedOrder(rows, schema) ==
  LET keyed == Keyed(query)
      asked == InferSchema(query)
      count(places, RowAt(_)) ==
        [r \in {RowAt(i) : i \in places} |-> Cardinality({i \in places : RowAt(i) = r})]
  IN  /\ DOMAIN rows = DOMAIN keyed
      /\ \A key \in {keyed[i].key : i \in DOMAIN keyed} :
           LET places == {i \in DOMAIN keyed : keyed[i].key = key}
           IN  count(places, LAMBDA i : Named(rows[i], schema))
                 = count(places, LAMBDA i : Named(keyed[i].row, asked))

\* The rows given to the sink answer the query that was read: the same rows, each
\* as often, and in the order of its outermost sort, also below filters and
\* projections and by columns that are not output, whichever of the executor's
\* paths the plan's operators take (execute_query).
ResultAnswersQuery ==
  result # Nothing =>
    /\ SameRows(result.rows, result.schema, Meaning(query), InferSchema(query))
    /\ KeepsColumns(result.schema)
    /\ InAskedOrder(result.rows, result.schema)

\* The columns given to the sink stand in the order the query's operators say:
\* "run the provided AST plans correctly", README.md:44.  Does not hold: see the
\* run column_order.
ColumnsInOrder == result # Nothing => result.schema = InferSchema(query)

=============================================================================
