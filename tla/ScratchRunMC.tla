---------------------------- MODULE ScratchRunMC ----------------------------
(* Instances of ScratchRun for TLC.                                        *)
EXTENDS ScratchRun

CONSTANTS a, b, cursor, stream

\* A row that fills half a block and one that fills a block.
MCRowSize == [row \in Rows |-> IF row = a THEN 1 ELSE 2]

\* Rows of a side of a cross product of which no column is kept.
MCEmptyRowSize == [row \in Rows |-> 0]

MCReadBatch == [c \in Readers |-> IF c = cursor THEN 2 ELSE 3]

RunSymmetry == Permutations(Runs)

=============================================================================
