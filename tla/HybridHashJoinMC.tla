-------------------------- MODULE HybridHashJoinMC --------------------------
(* Instance of HybridHashJoin for TLC.  l1 and l2 have one digest but only *)
(* l1 matches r1.  The digests 0, 2 and 4 share a partition at first, part *)
(* 2 from the others at the first split and 4 from 0 at the second; 1 has  *)
(* a partition of its own, where r4 (digest 3) matches nothing although    *)
(* its bits may all be set in the Bloom filter.  l5 matches two rows.      *)
EXTENDS HybridHashJoin

CONSTANTS l1, l2, l3, l4, l5, r1, r2, r3, r4, r5, r6

MCMatch == {<<l1, r1>>, <<l3, r2>>, <<l4, r3>>, <<l5, r5>>, <<l5, r6>>}

MCDigest ==
  [row \in Rows |-> CASE row \in {l1, l2, r1} -> 0 [] row \in {l3, r2} -> 2
                      [] row \in {l4, r3} -> 4 [] row \in {l5, r5, r6} -> 1 [] row = r4 -> 3]

\* digest >> (depth * PARTITION_FANOUT_BITS) & (PARTITION_FANOUT - 1)
MCBitGroup == [digest \in Digests |-> [d \in Depths |-> (digest \div Fanout^d) % Fanout]]

MCRowBytes == [row \in Rows |-> IF row = r4 THEN 4 ELSE IF row = l2 THEN 2 ELSE 1]

\* The capacity of the map doubles, a bucket's goes from 1 to 4.
MCReservedBytes ==
  [S \in SUBSET Rows |->
     LET keys == Cardinality(Keys(S))
         shared == {key \in Keys(S) : Cardinality({row \in S : Digest[row] = key}) > 1}
     IN  (IF keys <= 2 THEN keys ELSE 4) + Cardinality(shared)]

MCBloomBits ==
  [digest \in Digests |-> CASE digest = 0 -> {0, 1} [] digest = 2 -> {1, 2}
                           [] digest = 4 -> {2, 3} [] OTHER -> {0, 2}]

=============================================================================
