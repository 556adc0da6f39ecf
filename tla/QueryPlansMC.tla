---------------------------- MODULE QueryPlansMC ----------------------------
(* Instance of QueryPlans for TLC: three small tables, joined in different *)
(* ways, below chains of at most MaxLayers filters, projections and sorts, *)
(* and two of them joined or not below longer chains with a sort.          *)
EXTENDS QueryPlans, Estimation

CONSTANT MaxLayers

MCColumns == [t |-> <<"a", "b">>, u |-> <<"c", "d">>, v |-> <<"e">>]
MCContents ==
  [t |-> <<<<0, 1>>, <<1, 0>>, <<1, 2>>>>, u |-> <<<<1, 2>>, <<0, 1>>, <<1, 2>>>>, v |-> <<<<2>>, <<1>>>>]
MCOrdered == [t |-> {"a"}, u |-> {}, v |-> {}]

\* A self join, as queries write it: with the columns of one side renamed.
Renamed == Project(<<<<"a", "c">>, <<"b", "d">>>>, Scan("t"))

Bases ==
  {Scan("t"), Cross(Scan("t"), Scan("u")), Cross(Scan("t"), Renamed),
   Cross(Sort(<<[column |-> "d", ascending |-> TRUE]>>, Scan("u")),
         Filter(<<Literal("b", "LT", 2)>>, Project(<<<<"b", "b">>, <<"a", "a">>>>, Scan("t")))),
   Cross(Scan("v"), Cross(Scan("t"), Scan("u")))}

By(column, ascending) == [column |-> column, ascending |-> ascending]

Layer(k, q) ==
  CASE k = 1 -> Filter(<<Literal("a", "EQ", 1)>>, q)
    [] k = 2 -> Filter(<<Column("c", "EQ", "a"), Column("b", "LT", "d"), Literal("a", "GTE", 1)>>, q)
    [] k = 3 -> Filter(<<Column("a", "NE", "b"), Column("a", "NE", "b")>>, q)
    [] k = 4 -> Filter(<<Column("e", "EQ", "d")>>, q)
    [] k = 5 -> Project(<<<<"d", "d">>, <<"a", "a">>>>, q)
    [] k = 6 -> Project(<<<<"b", "a">>, <<"a", "b">>>>, q)
    [] k = 7 -> Project(<<<<"a", "x">>, <<"a", "a">>>>, q)
    [] k = 8 -> Project(<<<<"a", "a">>, <<"b", "b">>>>, q)
    [] k = 9 -> Sort(<<By("a", TRUE)>>, q)
    [] k = 10 -> Sort(<<By("d", FALSE), By("a", TRUE), By("d", TRUE)>>, q)
    [] k = 11 -> Sort(<<By("b", TRUE)>>, q)

\* Chains of layers whose names are known.
RECURSIVE Chains(_)
Chains(n) ==
  IF n = 0 THEN Bases
  ELSE LET shorter == Chains(n - 1)
       IN  shorter \cup {q \in {Layer(k, s) : k \in 1 .. 11, s \in shorter} : WellFormed(q)}

\* Two filters or projections above a sort, its columns output or not.
AboveSorts ==
  {q \in {Layer(j, Layer(i, Layer(k, base))) :
            k \in 9 .. 11, i \in 1 .. 8, j \in 1 .. 8,
            base \in {Scan("t"), Cross(Scan("t"), Scan("u"))}} : WellFormed(q)}

MCQueries == Chains(MaxLayers) \cup AboveSorts

\* For query_plans: whichever side is thought to be larger.
AnyEstimate(q) == {0, 1}

\* For column_order: the estimates of these statistics, and filters above a
\* projection of a cross.
StatsEstimate(q) == {QueryRows(q)}
MCTableRows == [t |-> 3, u |-> 4, v |-> NoStatistic]
MCDistinct == [t |-> [a |-> 2, b |-> 3], u |-> [c |-> 2, d |-> 4], v |-> [e |-> 2]]

ProjectedCrosses ==
  {Filter(<<Literal("d", "EQ", 2)>>, Project(<<<<x, x>>, <<y, y>>>>, Cross(left, right))) :
     x \in {"a", "d"}, y \in {"b", "c"}, left \in {Scan("t")}, right \in {Scan("u")}}
  \cup {Filter(<<Literal(y, "EQ", 1)>>, Project(<<<<x, x>>, <<y, y>>>>, cross)) :
     x \in {"a", "c"}, y \in {"b", "d"},
     cross \in {Cross(Scan("t"), Scan("u")), Cross(Scan("u"), Scan("t"))}}
  \cup {Filter(<<Literal(x, "EQ", 1)>>, Project(<<<<x, x>>, <<"e", "e">>>>, Cross(Scan("t"), Scan("v")))) :
     x \in {"a", "b"}}
MCProjectedCrosses == {q \in ProjectedCrosses : WellFormed(q)}

=============================================================================
