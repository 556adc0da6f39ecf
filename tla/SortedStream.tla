---------------------------- MODULE SortedStream ----------------------------
(***************************************************************************)
(* What a Sort promises to the operator above it: the input rows, each     *)
(* once, in the order of the sort specs; rows that compare equal come in   *)
(* any order.  ExternalSort implements this module.                        *)
(***************************************************************************)
EXTENDS RowOrder

VARIABLES
  specs,      \* SortData.sort_specs
  remaining,  \* the rows not given to the sink
  emitted     \* the rows given to the sink, in order

vars == <<specs, remaining, emitted>>

Init ==
  /\ specs \in Seq(SortSpec)
  /\ remaining \in SUBSET Rows
  /\ emitted = <<>>

Emit ==
  \E row \in First(specs, remaining) :
    /\ remaining' = remaining \ {row}
    /\ emitted' = Append(emitted, row)
    /\ UNCHANGED specs

Next == Emit

Spec == Init /\ [][Next]_vars

=============================================================================
