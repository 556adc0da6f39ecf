----------------------------- MODULE FreeStretch -----------------------------
(***************************************************************************)
(* What ScratchSpace::take_contiguous_free_blocks returns                  *)
(* (database/src/storage/block_allocator.rs:274-317), as a definition: the *)
(* choice among the stretches of consecutive free blocks.  FreeBlockScan   *)
(* models the loop that computes it.                                       *)
(***************************************************************************)
EXTENDS Integers, FiniteSets

Stretch_SkipsFirst(F, s, max) == {b \in F : s < b /\ b < s + max /\ s .. b \subseteq F}   \* mutant

\* The blocks free in F from s on without a gap, at most max of them.
Stretch(F, s, max) == {b \in F : s <= b /\ b < s + max /\ s .. b \subseteq F}

\* Where a stretch of free blocks starts.
StretchStarts(F) == {s \in F : s - 1 \notin F}

\* s starts the first stretch that is long enough, or else the first of the
\* longest ones.
IsBestStart(F, max, s) ==
  \A t \in StretchStarts(F) :
    LET lenS == Cardinality(Stretch(F, s, max))
        lenT == Cardinality(Stretch(F, t, max))
    IN  lenT < lenS \/ (lenT = lenS /\ s <= t)

\* mutant: the lowest free blocks, gaps or not
TakeContiguousFreeBlocks_AnyGap(F, max) ==
  {b \in F : Cardinality({c \in F : c < b}) < max}

TakeContiguousFreeBlocks(F, max) ==
  Stretch(F, CHOOSE s \in StretchStarts(F) : IsBestStart(F, max, s), max)

=============================================================================
