--------------------------- MODULE ScratchSpaceMC ---------------------------
(* Instance of ScratchSpace for TLC: run identities are interchangeable.   *)
(* The loop of FreeBlockScan is compared with the definition on every free *)
(* set that arises, for requests of up to one block more than are free.    *)
EXTENDS ScratchSpace, TLC

RunSymmetry == Permutations(Runs)

=============================================================================
