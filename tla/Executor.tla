------------------------------ MODULE Executor ------------------------------
(***************************************************************************)
(* How an operator tree is executed: which rows reach the sink             *)
(* (database/src/executor/mod.rs, filter.rs, project.rs, join.rs, and the  *)
(* compilation of scan pipelines in scan_pipeline.rs).  A chain of filters *)
(* and projections over a scan becomes a pipeline that decodes the columns *)
(* it needs and works with their positions; predicates over a cross are    *)
(* split between its sides on the way down; the others see names.          *)
(*                                                                         *)
(* Joins and sorts are reduced to their results, which HybridHashJoin,     *)
(* OrderedMergeJoin, MaterializedJoin and ExternalSort are about: a join   *)
(* gives the pairs that satisfy its predicates, here in one order, and a   *)
(* sort the sorted rows.                                                   *)
(***************************************************************************)
EXTENDS QueryTree

\* A logical pipeline: columns of the output with their place in the table,
\* predicates with the places of their operands (0 stands for a literal).
RECURSIVE CompileLogical(_)
CompileLogical(query) ==
  LET none == [compiled |-> FALSE]
      below == CompileLogical(query.underlying)
      visible(pipe, name) == pipe.visible[IndexOf(Targets(pipe.visible), name)][1]
  IN  CASE query.op = "Scan" ->
             [compiled |-> TRUE, table |-> query.table, predicates |-> <<>>,
              visible |-> [i \in DOMAIN Columns[query.table] |-> <<i, Columns[query.table][i]>>]]
        [] query.op = "Filter" ->
             IF ~below.compiled THEN none
             ELSE [below EXCEPT !.predicates = @ \o
                     Mapped(query.predicates,
                            LAMBDA p : [left |-> visible(below, p.column), operator |-> p.operator,
                                        right |-> IF p.other = NoColumn THEN 0
                                                  ELSE visible(below, p.other),
                                        value |-> p.value])]
        [] query.op = "Project" ->
             IF ~below.compiled THEN none
             ELSE [below EXCEPT !.visible =
                     Mapped(query.column_map,
                            LAMBDA pair : <<visible(below, pair[1]), pair[2]>>)]
        [] query.op \in {"Sort", "Cross"} -> none

\* The columns the pipeline decodes, in the order of the table.
Required(logical) ==
  LET used == {column[1] : column \in Range(logical.visible)}
              \cup {p.left : p \in Range(logical.predicates)}
              \cup ({p.right : p \in Range(logical.predicates)} \ {0})
  IN  SetToSortSeq(used, <)

\* try_compile_scan_pipeline: places in the table become places among the decoded values.
CompilePipeline(logical) ==
  LET required == Required(logical)
      lookup(base) == IndexOf(required, base)
  IN  [table |-> logical.table, required |-> required,
       schema |-> Targets(logical.visible),
       output |-> Mapped(logical.visible, LAMBDA column : lookup(column[1])),
       predicates |->
         Mapped(logical.predicates,
                LAMBDA p : [p EXCEPT !.left = lookup(@),
                                     !.right = IF @ = 0 THEN 0 ELSE lookup(@)])]

\* decode_current_row: the needed columns, the predicates, the output columns.
DecodeRow(plan, row) == Mapped(plan.required, LAMBDA base : row[base])
Accepted(plan, decoded) ==
  \A i \in DOMAIN plan.predicates :
    LET p == plan.predicates[i]
    IN  Compare(decoded[p.left], p.operator, IF p.right = 0 THEN p.value ELSE decoded[p.right])
Output(plan, decoded) == Mapped(plan.output, LAMBDA index : decoded[index])

ExecutePipeline(logical) ==
  LET plan == CompilePipeline(logical)
      decoded == Mapped(Contents[plan.table], LAMBDA row : DecodeRow(plan, row))
  IN  [schema |-> plan.schema,
       rows |-> Mapped(SelectSeq(decoded, LAMBDA d : Accepted(plan, d)),
                       LAMBDA d : Output(plan, d))]

WrapFilterIfNeeded(predicates, query) ==
  IF predicates = <<>> THEN query ELSE Filter(predicates, query)

RemapProjectPredicates(predicates, column_map) ==
  Mapped(predicates,
         LAMBDA p : [p EXCEPT !.column = SourceOf(column_map, @),
                              !.other = IF @ = NoColumn THEN @ ELSE SourceOf(column_map, @)])

ProjectResult(result, column_map) ==
  [schema |-> Targets(column_map),
   rows |-> Mapped(result.rows, LAMBDA row : ProjectRow(row, column_map, result.schema))]

\* A Project over a Sort carries the sort's columns up to the sort and no further.
ReducedProjection(column_map, specs) ==
  LET names == Sources(column_map) \o Mapped(specs, LAMBDA s : s.column)
      first == {i \in DOMAIN names : \A j \in 1 .. i - 1 : names[j] # names[i]}
  IN  Mapped(SetToSortSeq(first, <), LAMBDA i : <<names[i], names[i]>>)

\* Whether try_execute_wrapped_join_filter finds a cross below projections.
RECURSIVE OverCross(_)
OverCross(query) ==
  query.op = "Cross" \/ (query.op = "Project" /\ OverCross(query.underlying))

\* mutant: the columns of the sides in the wrong order
JoinSchema_RightFirst(cross) == InferSchema(cross.right) \o InferSchema(cross.left)

\* Schema::join: what combined rows look like.
JoinSchema(cross) == InferSchema(cross.left) \o InferSchema(cross.right)

RECURSIVE ExecuteOp(_), ExecuteJoinFilter(_, _), ExecuteJoinSubtree(_, _)

\* execute_cross_subtree: each side with its own predicates, then the pairs
\* that satisfy the others.
ExecuteCrossSubtree(cross, predicates) ==
  LET of(side) == SideOf(predicates, side, InferSchema(cross.left), InferSchema(cross.right))
      schema == JoinSchema(cross)
  IN  [schema |-> schema,
       rows |-> SelectSeq(Pairs(ExecuteJoinSubtree(cross.left, of("Left")).rows,
                                ExecuteJoinSubtree(cross.right, of("Right")).rows),
                          LAMBDA row : Satisfies(row, of("Cross"), schema))]

ExecuteJoinSubtree(query, predicates) ==
  IF query.op = "Cross" THEN ExecuteCrossSubtree(query, predicates)
  ELSE ExecuteOp(WrapFilterIfNeeded(predicates, query))

ExecuteJoinFilter(query, predicates) ==
  IF query.op = "Cross" THEN ExecuteJoinSubtree(query, predicates)
  ELSE ProjectResult(ExecuteJoinFilter(query.underlying,
                                       RemapProjectPredicates(predicates, query.column_map)),
                     query.column_map)

ExecuteFilter(query) ==
  LET result == ExecuteOp(query.underlying)
  IN  IF OverCross(query.underlying)
      THEN ExecuteJoinFilter(query.underlying, query.predicates)
      ELSE IF CompileLogical(query).compiled THEN ExecutePipeline(CompileLogical(query))
      ELSE [result EXCEPT !.rows =
              SelectSeq(@, LAMBDA row : Satisfies(row, query.predicates, result.schema))]

ExecuteSort(specs, underlying) ==
  LET result == ExecuteOp(underlying)
  IN  [result EXCEPT !.rows = SortRows(@, specs, result.schema)]

\* mutant: a projection over a sort executes the reduced projection, not its sort
ExecuteProject_Unsorted(query) ==
  LET below == query.underlying
  IN  IF CompileLogical(query).compiled THEN ExecutePipeline(CompileLogical(query))
      ELSE IF below.op = "Sort"
      THEN ProjectResult(ExecuteOp(Project(ReducedProjection(query.column_map, below.specs),
                                           below.underlying)),
                         query.column_map)
      ELSE ProjectResult(ExecuteOp(below), query.column_map)

ExecuteProject(query) ==
  LET below == query.underlying
  IN  IF CompileLogical(query).compiled THEN ExecutePipeline(CompileLogical(query))
      ELSE IF below.op = "Sort"
      THEN ProjectResult(ExecuteSort(below.specs,
                                     Project(ReducedProjection(query.column_map, below.specs),
                                             below.underlying)),
                         query.column_map)
      ELSE ProjectResult(ExecuteOp(below), query.column_map)

ExecuteCross(query) ==
  [schema |-> JoinSchema(query),
   rows |-> Pairs(ExecuteOp(query.left).rows, ExecuteOp(query.right).rows)]

ExecuteOp(query) ==
  CASE query.op = "Scan" -> ExecutePipeline(CompileLogical(query))
    [] query.op = "Filter" -> ExecuteFilter(query)
    [] query.op = "Project" -> ExecuteProject(query)
    [] query.op = "Cross" -> ExecuteCross(query)
    [] query.op = "Sort" -> ExecuteSort(query.specs, query.underlying)

=============================================================================
