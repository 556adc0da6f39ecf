-------------------------------- MODULE Join --------------------------------
(***************************************************************************)
(* What a join promises to the operator above it, whichever way it is      *)
(* executed: every pair of an outer and an inner row that satisfies the    *)
(* join's predicates reaches the sink once, in any order, and no other     *)
(* pair does, not even in a join that fails half-way.                      *)
(***************************************************************************)
EXTENDS Naturals

VARIABLES
  match,    \* the pairs that satisfy the predicates
  emitted,  \* how often each pair was given to the sink
  outcome   \* "open", "complete" or "failed"

vars == <<match, emitted, outcome>>

Init ==
  /\ match \subseteq DOMAIN emitted
  /\ \A pair \in DOMAIN emitted : emitted[pair] = 0
  /\ outcome = "open"

\* Some pairs that were not emitted are, each of them once, or none.
Emits ==
  /\ DOMAIN emitted' = DOMAIN emitted
  /\ \A pair \in DOMAIN emitted :
       \/ emitted'[pair] = emitted[pair]
       \/ pair \in match /\ emitted[pair] = 0 /\ emitted'[pair] = 1

Emit ==
  /\ outcome = "open"
  /\ Emits
  /\ UNCHANGED <<match, outcome>>

Complete ==
  /\ outcome = "open"
  /\ \A pair \in match : emitted[pair] = 1
  /\ outcome' = "complete"
  /\ UNCHANGED <<match, emitted>>

\* The failure may come in the middle of emitting.
Fail ==
  /\ outcome = "open"
  /\ Emits
  /\ outcome' = "failed"
  /\ UNCHANGED match

Next == Emit \/ Complete \/ Fail

Spec == Init /\ [][Next]_vars

=============================================================================
