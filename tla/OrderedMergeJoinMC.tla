------------------------- MODULE OrderedMergeJoinMC -------------------------
(* Instance of OrderedMergeJoin for TLC.  Tables of up to MaxRows rows     *)
(* with keys 1 and 2 (1 and 3 on the right), where all rows, or all but    *)
(* the second, pass, in rows that fill half a block or a whole one; tables *)
(* in any order; and pairs of one-row tables over all integers and floats. *)
EXTENDS OrderedMergeJoin

CONSTANT MaxRows

\* Lines with the given keys, of which the line numbered hidden is rejected.
Lines(column, sizes, hidden) ==
  [i \in DOMAIN column |-> [id |-> i, key |-> column[i], accepted |-> i # hidden, size |-> sizes[i]]]

HalfBlocks == <<1, 1, 1>>
WholeBlocks == <<2, 2, 2>>
Mixed == <<1, 2, 1>>

Columns(keys) == UNION {[1 .. n -> keys] : n \in 1 .. MaxRows}
Increasing(keys) ==
  {column \in Columns(keys) :
     \A i, j \in DOMAIN column : i < j => CompareValues(column[i], column[j]) # "Greater"}

Tables(keys) ==
  {Lines(column, sizes, hidden) :
     column \in Increasing(keys), sizes \in {HalfBlocks, WholeBlocks, Mixed}, hidden \in {0, 2}}

Narrow(values) == {Int32(v) : v \in values}
Wide(values) == {Int64(v) : v \in values}
Single(key) == Lines(<<key>>, HalfBlocks, 0)
One == Finite(FALSE, 4, -2)

\* More than ExactLimit distinct keys; the table ends at a line that is no row.
Unordered ==
  {Lines(column, Mixed, 0) : column \in Columns(Narrow({1, 2, 3}))} \cup
  {<<Single(Int32(1))[1], Blank, Single(Int32(2))[1]>>}

SomeFloats ==
  {NaN} \cup {f \in Floats : f.class = "infinite" \/ f.exponent \in {MinExponent, 0, MaxExponent}}

MCInputs ==
  [left : Tables(Narrow({1, 2})), right : Tables(Wide({1, 3}))] \cup
  [left : Tables(Narrow({2})), right : Tables(Wide({1, 2}))] \cup
  [left : Unordered, right : {Single(Int64(2)), Single(Text(2))}] \cup
  [left : {Single(Int64(v)) : v \in Ints}, right : {Single(Float64(f)) : f \in Floats}] \cup
  [left : {Single(Float64(f)) : f \in Floats}, right : {Single(Int64(v)) : v \in Ints}] \cup
  [left : {Single(Float64(f)) : f \in SomeFloats}, right : {Single(Float64(f)) : f \in SomeFloats}] \cup
  [left : {Single(Float64(One)), Lines(<<Float64(One), Float64(NaN)>>, HalfBlocks, 0)},
   right : {Lines(<<Float64(One), Float64(NaN)>>, HalfBlocks, 0), Single(Int64(2))}] \cup
  [left : {Lines(<<Text(1), Text(2)>>, HalfBlocks, 0)}, right : {Single(Text(2)), Single(Text(1))}]

MCMinExponent == -5
MCRejected == {<<1, 3>>}

=============================================================================
