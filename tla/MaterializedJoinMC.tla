------------------------- MODULE MaterializedJoinMC -------------------------
(* Instance of MaterializedJoin for TLC: three joins.  The topmost holds   *)
(* three rows of which one is large, so that the order in which they       *)
(* arrive decides when the level spills; the middle one stays in memory;   *)
(* the deepest spills, so that two runs are read in turns.                 *)
EXTENDS MaterializedJoin

CONSTANTS a1, a2, a3, b1, b2, c1, c2, s1, s2

MCBuild == <<{a1, a2, a3}, {b1, b2}, {c1, c2}>>
MCRowBytes == [row \in Rows |-> IF row \in {a3, c2} THEN 3 ELSE 1]
MCUnsatisfied == <<{<<a2, s1>>}, {<<b1, s2>>}, {<<c1, s2>>}>>

=============================================================================
