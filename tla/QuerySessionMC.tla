--------------------------- MODULE QuerySessionMC ---------------------------
(* Instance of QuerySession for TLC: both kinds of comparison, a disabled  *)
(* query, an empty result and a repeated row; different descriptors that   *)
(* are open when the monitor starts.                                       *)
EXTENDS QuerySession

CONSTANTS x, y

MCQueries ==
  << [disabled |-> FALSE, sort_before_check |-> TRUE, expected |-> <<x, y, x>>],
     [disabled |-> TRUE, sort_before_check |-> FALSE, expected |-> <<y>>],
     [disabled |-> FALSE, sort_before_check |-> FALSE, expected |-> <<x, y>>],
     [disabled |-> FALSE, sort_before_check |-> FALSE, expected |-> <<>>] >>

\* Nothing else; one number among the first; the numbers of remap_fds' copies.
MCInheritedSets == {0 .. 2, 0 .. 3, 0 .. 2 \cup {4, 6}, 0 .. 2 \cup {9, 10, 11, 12}}

=============================================================================
