------------------------------ MODULE RowOrder ------------------------------
(***************************************************************************)
(* The order of rows a Sort asks for (compare_rows in                      *)
(* database/src/executor/value.rs): the sort specs are compared in turn,   *)
(* the first one that differs decides.                                     *)
(***************************************************************************)
EXTENDS Integers, Sequences

CONSTANTS
  Rows,  \* identities of rows
  Key    \* of each row: its columns

ASSUME RowOrderAssumption == Key \in [Rows -> Seq(Int)]

SortSpec == [column : Nat \ {0}, ascending : BOOLEAN]

\* Row a differs from row b in the spec's column and comes first.
Decides(spec, a, b) ==
  IF spec.ascending
  THEN Key[a][spec.column] < Key[b][spec.column]
  ELSE Key[a][spec.column] > Key[b][spec.column]

\* compare_rows(a, b) is Less.
Before(specs, a, b) ==
  \E i \in 1 .. Len(specs) :
    /\ Decides(specs[i], a, b)
    /\ \A j \in 1 .. i - 1 : Key[a][specs[j].column] = Key[b][specs[j].column]

\* The first rows of a set: every sort of it may put any of these first.
First(specs, S) == {row \in S : \A other \in S : ~Before(specs, other, row)}

=============================================================================
