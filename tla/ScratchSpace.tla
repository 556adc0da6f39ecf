---------------------------- MODULE ScratchSpace ----------------------------
(***************************************************************************)
(* Ownership of the scratch blocks of the database process                 *)
(* (database/src/storage/block_allocator.rs).                              *)
(*                                                                         *)
(* ScratchSpace hands out blocks of the disk's anonymous region, which     *)
(* starts at AnonStart and has no end: next_block is the first block never *)
(* handed out, free_blocks the ones handed out and returned.  Writers of   *)
(* different scratch runs (the partitions of a join, the runs of a sort)   *)
(* reserve chunks of blocks in any order, fill some, return the rest when  *)
(* they finish, and finished runs are returned as a whole.  All of them go *)
(* through one raw pointer to the ScratchSpace, so nothing but this        *)
(* bookkeeping keeps two runs from sharing a block.                        *)
(*                                                                         *)
(* Rows, pending writes and the disk are in ScratchRun, which implements   *)
(* this module.                                                            *)
(***************************************************************************)
EXTENDS FreeBlockScan

CONSTANTS
  Runs,       \* identities of scratch runs, each reused once its run is gone
  AnonStart,  \* first block of the anonymous region
  Chunk,      \* SCRATCH_WRITER_ALLOCATION_CHUNK_BLOCKS
  MaxBlock    \* bound of the model: the region never grows past this block

ASSUME ScratchSpaceAssumption ==
  /\ AnonStart \in Nat
  /\ Chunk \in Nat \ {0}
  /\ MaxBlock \in Nat

VARIABLES
  next_block,   \* ScratchSpace.next_block
  free_blocks,  \* ScratchSpace.free_blocks
  phase,        \* of each run: "unused", "writing" (a writer) or "sealed" (a ScratchRun)
  reserved,     \* ScratchRunWriter.reserved_blocks of each run
  held,         \* the block_ids of each run
  leaked        \* blocks of writers and runs dropped without a release

vars == <<next_block, free_blocks, phase, reserved, held, leaked>>

-----------------------------------------------------------------------------
(* reserve_contiguous_blocks(Chunk): free blocks if there are any, however *)
(* short their longest stretch, else fresh ones.                           *)
ReservedChunk ==
  IF free_blocks # {}
  THEN TakeContiguousFreeBlocks(free_blocks, Chunk)
  ELSE next_block .. next_block + Chunk - 1

\* What a writer takes its next block from: reserve_writer_block.
WriterBlocks(r) == IF reserved[r] # {} THEN reserved[r] ELSE ReservedChunk

FreeAfterReserve_KeepsTaken(r) == free_blocks   \* mutant: taken blocks stay free

FreeAfterReserve(r) ==
  IF reserved[r] # {} THEN free_blocks ELSE free_blocks \ ReservedChunk

NextAfterReserve_NoAdvance(r) == next_block   \* mutant: the fresh chunk is not counted

NextAfterReserve_SkipsFragments(r) ==   \* mutant: short fragments are not used
  IF reserved[r] = {} /\ Cardinality(free_blocks) < Chunk THEN next_block + Chunk ELSE next_block

NextAfterReserve(r) ==
  IF reserved[r] = {} /\ free_blocks = {} THEN next_block + Chunk ELSE next_block

\* The model's bound on the region; the code has none.
RoomLeft(r) == NextAfterReserve(r) <= MaxBlock

-----------------------------------------------------------------------------
Init ==
  /\ next_block = AnonStart
  /\ free_blocks = {}
  /\ phase = [r \in Runs |-> "unused"]
  /\ reserved = [r \in Runs |-> {}]
  /\ held = [r \in Runs |-> {}]
  /\ leaked = {}

\* ScratchRunWriter::new reserves nothing.
OpenWriter(r) ==
  /\ phase[r] = "unused"
  /\ phase' = [phase EXCEPT ![r] = "writing"]
  /\ UNCHANGED <<next_block, free_blocks, reserved, held, leaked>>

(* flush_block: the block goes to the lowest block of the writer's         *)
(* reservation; an empty reservation is first refilled by a chunk.         *)
FlushBlock(r) ==
  /\ phase[r] = "writing"
  /\ RoomLeft(r)
  /\ \E id \in WriterBlocks(r) :
       /\ \A b \in WriterBlocks(r) : id <= b
       /\ reserved' = [reserved EXCEPT ![r] = WriterBlocks(r) \ {id}]
       /\ held' = [held EXCEPT ![r] = @ \cup {id}]
  /\ free_blocks' = FreeAfterReserve(r)
  /\ next_block' = NextAfterReserve(r)
  /\ UNCHANGED <<phase, leaked>>

Finish_KeepsReserved(r) ==   \* mutant: the unused rest is forgotten
  /\ phase[r] = "writing"
  /\ phase' = [phase EXCEPT ![r] = "sealed"]
  /\ reserved' = [reserved EXCEPT ![r] = {}]
  /\ UNCHANGED <<next_block, free_blocks, held, leaked>>

\* finish when no row is left in the current block: the unused rest of the
\* chunk is released.
Finish(r) ==
  /\ phase[r] = "writing"
  /\ phase' = [phase EXCEPT ![r] = "sealed"]
  /\ free_blocks' = free_blocks \cup reserved[r]
  /\ reserved' = [reserved EXCEPT ![r] = {}]
  /\ UNCHANGED <<next_block, held, leaked>>

(* finish when the current block still has rows: flush_block, then the     *)
(* release of what the flush left of the reservation.                      *)
FlushAndFinish(r) ==
  /\ phase[r] = "writing"
  /\ RoomLeft(r)
  /\ phase' = [phase EXCEPT ![r] = "sealed"]
  /\ \E id \in WriterBlocks(r) :
       /\ \A b \in WriterBlocks(r) : id <= b
       /\ held' = [held EXCEPT ![r] = @ \cup {id}]
       /\ free_blocks' = FreeAfterReserve(r) \cup (WriterBlocks(r) \ {id})
  /\ next_block' = NextAfterReserve(r)
  /\ reserved' = [reserved EXCEPT ![r] = {}]
  /\ UNCHANGED leaked

\* release_run.
ReleaseRun(r) ==
  /\ phase[r] = "sealed"
  /\ phase' = [phase EXCEPT ![r] = "unused"]
  /\ free_blocks' = free_blocks \cup held[r]
  /\ held' = [held EXCEPT ![r] = {}]
  /\ UNCHANGED <<next_block, reserved, leaked>>

(* A writer or a run is dropped by an early return (`?`) of the operator   *)
(* that owns it.  Neither type implements Drop: its blocks are not given   *)
(* back.                                                                   *)
Abandon(r) ==
  /\ phase[r] # "unused"
  /\ phase' = [phase EXCEPT ![r] = "unused"]
  /\ leaked' = leaked \cup reserved[r] \cup held[r]
  /\ reserved' = [reserved EXCEPT ![r] = {}]
  /\ held' = [held EXCEPT ![r] = {}]
  /\ UNCHANGED <<next_block, free_blocks>>

Next ==
  \E r \in Runs :
    \/ OpenWriter(r)
    \/ FlushBlock(r)
    \/ Finish(r)
    \/ FlushAndFinish(r)
    \/ ReleaseRun(r)
    \/ Abandon(r)

Spec == Init /\ [][Next]_vars

-----------------------------------------------------------------------------
\* The blocks of the anonymous region handed out so far.
Allocated == AnonStart .. next_block - 1

(* Types; every block number in circulation is one the allocator made.     *)
TypeOK ==
  /\ next_block \in Nat /\ AnonStart <= next_block
  /\ free_blocks \in SUBSET Allocated
  /\ phase \in [Runs -> {"unused", "writing", "sealed"}]
  /\ reserved \in [Runs -> SUBSET Allocated]
  /\ held \in [Runs -> SUBSET Allocated]
  /\ leaked \in SUBSET Allocated

\* The blocks run r may write or read.
OwnedBy(r) == reserved[r] \cup held[r]

(* No block is in use twice: a block belongs to at most one run, is not    *)
(* free or leaked while it belongs to one, and a writer never reserves a   *)
(* block it has already filled.  Violated, a join partition or a sort run  *)
(* would overwrite another's rows.                                         *)
ExclusiveBlocks ==
  /\ \A r, q \in Runs : r # q => OwnedBy(r) \cap OwnedBy(q) = {}
  /\ \A r \in Runs : /\ reserved[r] \cap held[r] = {}
                     /\ OwnedBy(r) \cap (free_blocks \cup leaked) = {}
  /\ free_blocks \cap leaked = {}

(* Every block handed out so far is free, owned or leaked: release and     *)
(* finish lose no block.                                                   *)
NoBlockLost ==
  \A b \in Allocated :
    b \in free_blocks \cup leaked \/ \E r \in Runs : b \in OwnedBy(r)

(* A reservation is one stretch of consecutive blocks, which lets a writer *)
(* merge the blocks it fills into one disk write.                          *)
ReservedConsecutive ==
  \A r \in Runs : \A a, b \in reserved[r] : a .. b \subseteq reserved[r]

(* An id that is not in use owns nothing, and only a writer has a          *)
(* reservation.                                                            *)
UnusedOwnsNothing ==
  \A r \in Runs : /\ phase[r] = "unused" => held[r] = {}
                  /\ phase[r] # "writing" => reserved[r] = {}

(* reserve_writer_block's expect ("must return at least one block") never  *)
(* fires: the free-list scan finds a block whenever one is free.           *)
ReservationNeverEmpty == free_blocks # {} => ReservedChunk # {}

(* The scan of the free set takes the first stretch that is long enough,   *)
(* else the first of the longest, also when it is the last one or the      *)
(* request is larger than all of them (take_contiguous_free_blocks).       *)
ScanIsBestFit ==
  free_blocks # {} =>
    \A max_blocks \in 1 .. Cardinality(free_blocks) + 1 :
      Scanned(free_blocks, max_blocks) = TakeContiguousFreeBlocks(free_blocks, max_blocks)

(* The scratch region grows only when every block below next_block is in   *)
(* use (or leaked): fragments left by finished writers are used up first.  *)
GrowsOnlyWhenFull ==
  [][next_block' > next_block =>
       \A b \in Allocated : b \in leaked \/ \E r \in Runs : b \in OwnedBy(r)]_vars

=============================================================================
