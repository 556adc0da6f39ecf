----------------------------- MODULE Optimizer ------------------------------
(***************************************************************************)
(* The rewriting of a query before it is executed                          *)
(* (database/src/optimizer/rules.rs): predicates sink towards the scans,   *)
(* projections follow them, a sort the statistics make redundant goes, and *)
(* crosses are reordered.                                                  *)
(*                                                                         *)
(* Which side of a cross has more rows is decided by estimates, a          *)
(* parameter: those of Estimation, or any.  The costs that decide between  *)
(* orders of three and more inputs are left open.  So an operator returns  *)
(* the set of plans the optimizer may choose.                              *)
(***************************************************************************)
EXTENDS QueryTree

CONSTANT RowEstimates(_)  \* the values estimate_query_rows may have for a query

\* The items, each where it first stands.
Dedup(seq, Key(_)) ==
  LET first == {i \in DOMAIN seq : \A j \in 1 .. i - 1 : Key(seq[j]) # Key(seq[i])}
  IN  Mapped(SetToSortSeq(first, <), LAMBDA i : seq[i])

DedupPredicates(predicates) == Dedup(predicates, LAMBDA p : p)
DedupSortSpecs(specs) == Dedup(specs, LAMBDA s : s.column)

WrapFilter(predicates, query) == IF predicates = <<>> THEN query ELSE Filter(predicates, query)

\* Columns under their own names, none twice.
Keeping(names) == Mapped(Dedup(names, LAMBDA n : n), LAMBDA n : <<n, n>>)

\* mutant: the second column of a predicate is forgotten
ProjectionForFilter_NoOther(column_map, predicates) ==
  Keeping(Sources(column_map) \o Mapped(predicates, LAMBDA p : p.column))

\* The columns of the output, then those the predicates read.
ProjectionForFilter(column_map, predicates) ==
  Keeping(Sources(column_map)
            \o FlattenSeq(Mapped(predicates, LAMBDA p : IF p.other = NoColumn THEN <<p.column>>
                                                       ELSE <<p.column, p.other>>)))

ProjectionForSort(column_map, specs) ==
  Keeping(Sources(column_map) \o Mapped(specs, LAMBDA s : s.column))

ProjectionForSide(column_map, schema) ==
  Keeping(SelectSeq(Sources(column_map), LAMBDA n : HasColumn(schema, n)))

IsIdentity(column_map, schema) == Sources(column_map) = schema /\ Targets(column_map) = schema

WrapProjectIfNeeded(column_map, query) ==
  IF IsIdentity(column_map, InferSchema(query)) THEN query ELSE Project(column_map, query)

ComposeProjects(outer, inner) ==
  Mapped(outer, LAMBDA pair : <<SourceOf(inner, pair[1]), pair[2]>>)

RemapPredicates(predicates, column_map) ==
  Mapped(predicates,
         LAMBDA p : [p EXCEPT !.column = SourceOf(column_map, @),
                              !.other = IF @ = NoColumn THEN @ ELSE SourceOf(column_map, @)])

\* The table and column a column of the query is read from unchanged, if any.
RECURSIVE TraceToScan(_, _)
TraceToScan(query, column) ==
  CASE query.op = "Scan" -> {<<query.table, column>>}
    [] query.op = "Filter" -> TraceToScan(query.underlying, column)
    [] query.op = "Project" -> TraceToScan(query.underlying, SourceOf(query.column_map, column))
    [] OTHER -> {}

SortRedundant(specs, query) ==
  /\ Len(specs) = 1 /\ specs[1].ascending
  /\ \E source \in TraceToScan(query, specs[1].column) : source[2] \in Ordered[source[1]]

RECURSIVE FlattenCross(_)
FlattenCross(query) ==
  IF query.op = "Cross" THEN FlattenCross(query.left) \o FlattenCross(query.right) ELSE <<query>>

RebuildLeftDeep(inputs) == FoldLeft(Cross, inputs[1], Tail(inputs))

\* The predicate relates the two schemas (predicate_connects_schemas).
Connects(p, left, right) ==
  /\ \A c \in PredicateColumns(p) : HasColumn(left, c) # HasColumn(right, c)
  /\ \E c \in PredicateColumns(p) : HasColumn(left, c)
  /\ \E c \in PredicateColumns(p) : HasColumn(right, c)

Connected(query, next, predicates) ==
  \E p \in Range(predicates) : Connects(p, InferSchema(query), InferSchema(next))

\* The search over subsets joins an input to a plan without a predicate only
\* when no input has one; costs decide between the orders that leaves.
ReorderCrossTree(query, predicates) ==
  LET inputs == FlattenCross(query)
      allowed(order) ==
        \A k \in 2 .. Len(inputs) :
          LET plan == RebuildLeftDeep([i \in 1 .. k - 1 |-> inputs[order[i]]])
          IN  (\E j \in k .. Len(inputs) : Connected(plan, inputs[order[j]], predicates))
                => Connected(plan, inputs[order[k]], predicates)
  IN  IF Len(inputs) <= 2 THEN {RebuildLeftDeep(inputs)}
      ELSE {RebuildLeftDeep(Mapped(order, LAMBDA i : inputs[i])) :
              order \in {o \in [DOMAIN inputs -> DOMAIN inputs] :
                           Cardinality(Range(o)) = Len(inputs) /\ allowed(o)}}

\* The input estimated to have more rows goes to the left.
Crosses(left, right) ==
  {IF l < r THEN Cross(right, left) ELSE Cross(left, right) :
     l \in RowEstimates(left), r \in RowEstimates(right)}

RECURSIVE OptimizeOp(_), OptimizeProject(_, _), OptimizeFilter(_, _)

PushProjectThroughCross(column_map, cross) ==
  LET side(input) ==
        WrapProjectIfNeeded(ProjectionForSide(column_map, InferSchema(input)), input)
  IN  Project(column_map, Cross(side(cross.left), side(cross.right)))

PushProject(column_map, query) ==
  CASE query.op = "Filter" ->
         {Project(column_map, Filter(query.predicates, pushed)) :
            pushed \in OptimizeProject(ProjectionForFilter(column_map, query.predicates),
                                       query.underlying)}
    [] query.op = "Sort" ->
         {Project(column_map, Sort(query.specs, pushed)) :
            pushed \in OptimizeProject(ProjectionForSort(column_map, query.specs),
                                       query.underlying)}
    [] query.op = "Cross" -> {PushProjectThroughCross(column_map, query)}
    [] query.op = "Project" ->
         {Project(ComposeProjects(column_map, query.column_map), query.underlying)}
    [] query.op = "Scan" -> {Project(column_map, query)}

OptimizeProject(column_map, underlying) ==
  {WrapProjectIfNeeded(plan.column_map, plan.underlying) :
     plan \in UNION {PushProject(column_map, query) : query \in OptimizeOp(underlying)}}

OptimizeSort(specs, underlying) ==
  LET kept == DedupSortSpecs(specs)
  IN  {IF kept = <<>> \/ SortRedundant(kept, query) THEN query ELSE Sort(kept, query) :
         query \in OptimizeOp(underlying)}

OptimizeCross(cross) ==
  UNION {Crosses(left, right) : left \in OptimizeOp(cross.left), right \in OptimizeOp(cross.right)}

PushFilterThroughCross(predicates, cross) ==
  LET schema(input) == InferSchema(input)
      of(side) == SideOf(predicates, side, schema(cross.left), schema(cross.right))
  IN  {WrapFilter(of("Cross"), query) :
         query \in OptimizeCross(Cross(WrapFilter(of("Left"), cross.left),
                                       WrapFilter(of("Right"), cross.right)))}

PushFilter(predicates, query) ==
  CASE query.op = "Filter" ->
         OptimizeFilter(query.predicates \o predicates, query.underlying)
    [] query.op = "Project" ->
         UNION {OptimizeProject(query.column_map, pushed) :
                  pushed \in OptimizeFilter(RemapPredicates(predicates, query.column_map),
                                            query.underlying)}
    [] query.op = "Sort" ->
         {Sort(query.specs, pushed) : pushed \in OptimizeFilter(predicates, query.underlying)}
    [] query.op = "Cross" ->
         UNION {PushFilterThroughCross(predicates, cross) :
                  cross \in ReorderCrossTree(query, predicates)}
    [] query.op = "Scan" -> {WrapFilter(predicates, query)}

OptimizeFilter(predicates, underlying) ==
  UNION {PushFilter(DedupPredicates(predicates), query) : query \in OptimizeOp(underlying)}

OptimizeOp(query) ==
  CASE query.op = "Scan" -> {query}
    [] query.op = "Project" -> OptimizeProject(query.column_map, query.underlying)
    [] query.op = "Sort" -> OptimizeSort(query.specs, query.underlying)
    [] query.op = "Cross" -> OptimizeCross(query)
    [] query.op = "Filter" -> OptimizeFilter(query.predicates, query.underlying)

=============================================================================
