---------------------------- MODULE FreeBlockScan ----------------------------
(***************************************************************************)
(* How ScratchSpace::take_contiguous_free_blocks finds the blocks that     *)
(* FreeStretch defines (database/src/storage/block_allocator.rs:274-317):  *)
(* one ascending pass over the free set that remembers the best stretch    *)
(* seen and leaves the loop at one that is long enough.                    *)
(***************************************************************************)
EXTENDS FreeStretch, FiniteSetsExt

None == -1   \* Option::None of best_start and previous

\* The variables of the loop, and whether the break has been taken.
BeforeLoop ==
  [best_start |-> None, best_len |-> 0, current_start |-> 0, current_len |-> 0,
   previous |-> None, left |-> FALSE]

\* The current stretch becomes the best one if it is longer.
Compared(s) ==
  IF s.current_len > s.best_len
  THEN [s EXCEPT !.best_start = s.current_start, !.best_len = s.current_len]
  ELSE s

\* The body of the loop for one free block.
Visit(s, block, max_blocks) ==
  LET extends == s.previous # None /\ block = s.previous + 1
      moved   == IF extends THEN [s EXCEPT !.current_len = @ + 1]
                 ELSE [Compared(s) EXCEPT !.current_start = block, !.current_len = 1]
      seen    == [moved EXCEPT !.previous = block]
  IN  IF seen.current_len < max_blocks THEN seen
      ELSE [seen EXCEPT !.best_start = seen.current_start, !.best_len = seen.current_len,
                        !.left = TRUE]

\* The blocks of a BTreeSet come in ascending order; after the break none is visited.
Continued(s, block, free_blocks, max_blocks) ==
  IF block \in free_blocks /\ ~s.left THEN Visit(s, block, max_blocks) ELSE s

AfterLoop(free_blocks, max_blocks) ==
  LET after[n \in Nat] ==   \* when the loop is through with the blocks below n
        IF n = 0 THEN BeforeLoop ELSE Continued(after[n - 1], n - 1, free_blocks, max_blocks)
  IN  IF free_blocks = {} THEN BeforeLoop ELSE after[Max(free_blocks) + 1]

\* mutant: the last stretch is not compared with the best one
Scanned_NoLastCompare(free_blocks, max_blocks) ==
  LET s == AfterLoop(free_blocks, max_blocks)
      count == IF s.best_len < max_blocks THEN s.best_len ELSE max_blocks
  IN  IF s.best_start = None THEN {} ELSE s.best_start .. s.best_start + count - 1

\* The blocks taken from the free set; none when it is empty.
Scanned(free_blocks, max_blocks) ==
  LET s == Compared(AfterLoop(free_blocks, max_blocks))
      count == IF s.best_len < max_blocks THEN s.best_len ELSE max_blocks
  IN  IF s.best_start = None THEN {} ELSE s.best_start .. s.best_start + count - 1

=============================================================================
