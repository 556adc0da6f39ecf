-------------------------- MODULE ScratchRunProofs --------------------------
(***************************************************************************)
(* Proofs about ScratchRun, for every set of runs, readers and rows, every *)
(* size of rows, blocks, chunks and batches: its steps are steps of        *)
(* ScratchSpace, what a run has not yet on the disk is the tail of its     *)
(* blocks, nothing once it is finished, and its steps are steps of         *)
(* RunStore: readers get the rows that were pushed.                        *)
(***************************************************************************)
EXTENDS ScratchRun, DataLemmas

-----------------------------------------------------------------------------
(* Sequences and the disk.                                                 *)

\* A write of some blocks adds those to what is on the disk.
LEMMA WrittenBlocks ==
  ASSUME NEW d, NEW start \in Nat, NEW S, NEW images \in Seq(S)
  PROVE  DOMAIN WriteBlocks(d, start, images)
           = (start .. start + Len(images) - 1) \cup DOMAIN d
BY DEF WriteBlocks

(* Of the blocks ids, those before the last Len(queue) are on the disk d   *)
(* and the others are the blocks from start on, which the queue holds.     *)
BatchIsTail(ids, start, queue, d) ==
  /\ Len(queue) <= Len(ids)
  /\ \A i \in 1 .. Len(queue) : ids[Len(ids) - Len(queue) + i] = start + i - 1
  /\ \A i \in 1 .. Len(ids) - Len(queue) : ids[i] \in DOMAIN d

LEMMA EmptyTail ==
  ASSUME NEW start, NEW d
  PROVE  BatchIsTail(<<>>, start, <<>>, d)
<1>1. Len(<<>>) = 0
  BY EmptySeq
<1> QED
  BY <1>1 DEF BatchIsTail

LEMMA TailOnLargerDisk ==
  ASSUME NEW ids, NEW start, NEW queue, NEW d, NEW e,
         BatchIsTail(ids, start, queue, d), DOMAIN d \subseteq DOMAIN e
  PROVE  BatchIsTail(ids, start, queue, e)
BY DEF BatchIsTail

\* flush_pending_blocks leaves nothing off the disk.
LEMMA WrittenTail ==
  ASSUME NEW ids \in Seq(Nat), NEW start \in Nat, NEW S, NEW queue \in Seq(S), NEW d,
         BatchIsTail(ids, start, queue, d)
  PROVE  /\ \A i \in 1 .. Len(ids) : ids[i] \in DOMAIN WriteBlocks(d, start, queue)
         /\ BatchIsTail(ids, 0, <<>>, WriteBlocks(d, start, queue))
<1>1. DOMAIN WriteBlocks(d, start, queue) = (start .. start + Len(queue) - 1) \cup DOMAIN d
  BY WrittenBlocks
<1>2. Len(ids) \in Nat /\ Len(queue) \in Nat /\ Len(<<>>) = 0
  BY LenProperties, EmptySeq
<1>3. ASSUME NEW i \in 1 .. Len(ids)
      PROVE  ids[i] \in DOMAIN WriteBlocks(d, start, queue)
  <2>1. CASE i <= Len(ids) - Len(queue)
    BY <1>1, <1>2, <2>1 DEF BatchIsTail
  <2>2. CASE i > Len(ids) - Len(queue)
    <3> DEFINE j == i - (Len(ids) - Len(queue))
    <3>1. j \in 1 .. Len(queue) /\ i = Len(ids) - Len(queue) + j
      BY <1>2, <2>2 DEF BatchIsTail
    <3>2. ids[i] = start + j - 1
      BY <3>1 DEF BatchIsTail
    <3> QED
      BY <1>1, <1>2, <3>1, <3>2
  <2> QED
    BY <1>2, <2>1, <2>2
<1>4. BatchIsTail(ids, 0, <<>>, WriteBlocks(d, start, queue))
  BY <1>2, <1>3 DEF BatchIsTail
<1> QED
  BY <1>3, <1>4

(* queue_block_write: whether the block continues the batch, starts a new  *)
(* one or fills it, the batch is the tail of the blocks that now include   *)
(* it, and the disk only gains blocks.                                     *)
LEMMA QueuedTail ==
  ASSUME NEW ids \in Seq(Nat), NEW id \in Nat, NEW start \in Nat, NEW S,
         NEW queue \in Seq(S), NEW image \in S, NEW d,
         BatchIsTail(ids, start, queue, d)
  PROVE  LET batch == QueueBlockWrite(start, queue, id, image, d)
         IN  /\ batch.start \in Nat /\ batch.queue \in Seq(S)
             /\ DOMAIN d \subseteq DOMAIN batch.disk
             /\ BatchIsTail(Append(ids, id), batch.start, batch.queue, batch.disk)
<1> DEFINE extends == queue # <<>> /\ id = start + Len(queue) /\ Len(queue) < WriteBatch
           start1 == IF extends THEN start ELSE id
           queue1 == IF extends THEN Append(queue, image) ELSE <<image>>
           disk1 == IF extends THEN d ELSE WriteBlocks(d, start, queue)
           batch == QueueBlockWrite(start, queue, id, image, d)
<1>1. /\ Append(ids, id) \in Seq(Nat) /\ Len(Append(ids, id)) = Len(ids) + 1
      /\ \A i \in 1 .. Len(ids) : Append(ids, id)[i] = ids[i]
      /\ Append(ids, id)[Len(ids) + 1] = id
      /\ Len(ids) \in Nat /\ Len(queue) \in Nat
  BY AppendProperties, LenProperties
<1>2. start1 \in Nat /\ queue1 \in Seq(S) /\ DOMAIN d \subseteq DOMAIN disk1
  <2>1. queue1 \in Seq(S)
    BY AppendProperties
  <2>2. DOMAIN WriteBlocks(d, start, queue) = (start .. start + Len(queue) - 1) \cup DOMAIN d
    BY WrittenBlocks
  <2> QED
    BY <2>1, <2>2
<1>3. BatchIsTail(Append(ids, id), start1, queue1, disk1)
  <2>1. CASE extends
    <3>1. queue1 = Append(queue, image) /\ start1 = start /\ disk1 = d
      BY <2>1
    <3>2. Len(queue1) = Len(queue) + 1
      BY <3>1, AppendProperties
    <3> HIDE DEF queue1, start1, disk1
    <3>3. Len(queue1) <= Len(Append(ids, id))
      BY <1>1, <3>2 DEF BatchIsTail
    <3>4. ASSUME NEW i \in 1 .. Len(queue1)
          PROVE  Append(ids, id)[Len(Append(ids, id)) - Len(queue1) + i] = start1 + i - 1
      <4>1. Len(Append(ids, id)) - Len(queue1) + i = Len(ids) - Len(queue) + i
        BY <1>1, <3>2
      <4>2. CASE i = Len(queue) + 1
        BY <1>1, <2>1, <3>1, <4>1, <4>2
      <4>3. CASE i # Len(queue) + 1
        <5>1. i \in 1 .. Len(queue)
          BY <1>1, <3>2, <4>3
        <5>2. Len(ids) - Len(queue) + i \in 1 .. Len(ids)
          BY <1>1, <5>1 DEF BatchIsTail
        <5>3. ids[Len(ids) - Len(queue) + i] = start + i - 1
          BY <5>1 DEF BatchIsTail
        <5> QED
          BY <1>1, <3>1, <4>1, <5>2, <5>3
      <4> QED
        BY <4>2, <4>3
    <3>5. ASSUME NEW i \in 1 .. Len(Append(ids, id)) - Len(queue1)
          PROVE  Append(ids, id)[i] \in DOMAIN disk1
      <4>1. i \in 1 .. Len(ids) - Len(queue) /\ i \in 1 .. Len(ids)
        BY <1>1, <3>2
      <4> QED
        BY <1>1, <3>1, <4>1 DEF BatchIsTail
    <3> QED
      BY <3>3, <3>4, <3>5 DEF BatchIsTail
  <2>2. CASE ~extends
    <3>1. queue1 = <<image>> /\ start1 = id /\ disk1 = WriteBlocks(d, start, queue)
      BY <2>2
    <3>2. Len(queue1) = 1
      BY <3>1
    <3>3. \A i \in 1 .. Len(ids) : ids[i] \in DOMAIN disk1
      BY <3>1, WrittenTail
    <3> HIDE DEF queue1, start1, disk1
    <3> QED
      BY <1>1, <3>1, <3>2, <3>3 DEF BatchIsTail
  <2> QED
    BY <2>1, <2>2
<1>4. batch = IF Len(queue1) >= WriteBatch
              THEN [start |-> 0, queue |-> <<>>, disk |-> WriteBlocks(disk1, start1, queue1)]
              ELSE [start |-> start1, queue |-> queue1, disk |-> disk1]
  BY DEF QueueBlockWrite
<1> HIDE DEF start1, queue1, disk1, batch
<1>5. CASE Len(queue1) >= WriteBatch
  <2>1. batch = [start |-> 0, queue |-> <<>>, disk |-> WriteBlocks(disk1, start1, queue1)]
    BY <1>4, <1>5
  <2>2. DOMAIN WriteBlocks(disk1, start1, queue1)
          = (start1 .. start1 + Len(queue1) - 1) \cup DOMAIN disk1
    BY <1>2, WrittenBlocks
  <2>3. BatchIsTail(Append(ids, id), 0, <<>>, WriteBlocks(disk1, start1, queue1))
    BY <1>1, <1>2, <1>3, WrittenTail
  <2>4. /\ batch.start = 0 /\ batch.queue = <<>>
        /\ batch.disk = WriteBlocks(disk1, start1, queue1)
    BY <2>1
  <2>5. <<>> \in Seq(S)
    BY EmptySeq
  <2> QED
    BY <1>2, <2>2, <2>3, <2>4, <2>5 DEF batch
<1>6. CASE ~ (Len(queue1) >= WriteBatch)
  BY <1>2, <1>3, <1>4, <1>6 DEF batch
<1> QED
  BY <1>5, <1>6

-----------------------------------------------------------------------------
(* The inductive invariant.                                                *)

Images == [rows : Seq(Rows), count : Nat]

TypeInv ==
  /\ next_block \in Nat /\ free_blocks \in SUBSET Nat
  /\ phase \in [Runs -> {"unused", "writing", "sealed"}]
  /\ reserved \in [Runs -> SUBSET Nat]
  /\ block_ids \in [Runs -> Seq(Nat)]
  /\ current_block \in [Runs -> Seq(Rows)]
  /\ row_count \in [Runs -> Nat]
  /\ pending_start \in [Runs -> Nat]
  /\ pending \in [Runs -> Seq(Images)]

\* Only a writer has anything pending.
OnlyWritersQueue == \A r \in Runs : phase[r] # "writing" => pending[r] = <<>>

IInv == TypeInv /\ PendingIsTail /\ OnlyWritersQueue

LEMMA PendingIsTailOfRuns ==
  PendingIsTail <=> \A r \in Runs : BatchIsTail(block_ids[r], pending_start[r], pending[r], disk)
BY DEF PendingIsTail, BatchIsTail

LEMMA InitIInv == Init => IInv
<1> SUFFICES ASSUME Init PROVE IInv
  OBVIOUS
<1>1. TypeInv
  BY ScratchRunAssumption DEF Init, TypeInv
<1>2. PendingIsTail /\ OnlyWritersQueue
  BY DEF Init, PendingIsTail, OnlyWritersQueue
<1> QED
  BY <1>1, <1>2 DEF IInv

-----------------------------------------------------------------------------
(* What ScratchSpaceProofs has proved of the allocator.                    *)

SpaceProofs == INSTANCE ScratchSpaceProofs WITH held <- Held

\* Its instance here is the one that the runs implement.
LEMMA SameStretch ==
  Space!TakeContiguousFreeBlocks(free_blocks, Chunk)
    = SpaceProofs!TakeContiguousFreeBlocks(free_blocks, Chunk)
BY DEF Space!TakeContiguousFreeBlocks, SpaceProofs!TakeContiguousFreeBlocks,
       Space!Stretch, SpaceProofs!Stretch, Space!StretchStarts, SpaceProofs!StretchStarts,
       Space!IsBestStart, SpaceProofs!IsBestStart, Space!Cardinality, SpaceProofs!Cardinality

\* A writer finds a lowest block to flush to, whatever it draws from.
LEMMA WriterBlocksExist ==
  ASSUME TypeInv, NEW r \in Runs
  PROVE  /\ Space!WriterBlocks(r) \in SUBSET Nat
         /\ Min(Space!WriterBlocks(r)) \in Space!WriterBlocks(r)
         /\ \A b \in Space!WriterBlocks(r) : Min(Space!WriterBlocks(r)) <= b
         /\ Space!FreeAfterReserve(r) \in SUBSET Nat
         /\ Space!NextAfterReserve(r) \in Nat
<1> USE ScratchRunAssumption
<1>1. Space!WriterBlocks(r) \in SUBSET Nat /\ Space!WriterBlocks(r) # {}
  <2>1. CASE reserved[r] # {}
    BY <2>1 DEF TypeInv, Space!WriterBlocks
  <2>2. CASE reserved[r] = {} /\ free_blocks # {}
    <3>1. Space!WriterBlocks(r) = Space!TakeContiguousFreeBlocks(free_blocks, Chunk)
      BY <2>2 DEF Space!WriterBlocks, Space!ReservedChunk
    <3>2. @ = SpaceProofs!TakeContiguousFreeBlocks(free_blocks, Chunk)
      BY SameStretch
    <3>3. free_blocks \in SUBSET Nat /\ free_blocks # {} /\ Chunk \in Nat \ {0}
      BY <2>2 DEF TypeInv
    <3>4. LET T == SpaceProofs!TakeContiguousFreeBlocks(free_blocks, Chunk)
          IN  T \in SUBSET free_blocks /\ T # {}
      BY <3>3, SpaceProofs!TakeContiguousIsStretch
    <3> QED
      BY <3>1, <3>2, <3>3, <3>4
  <2>3. CASE reserved[r] = {} /\ free_blocks = {}
    <3>1. Space!WriterBlocks(r) = next_block .. next_block + Chunk - 1
      BY <2>3 DEF Space!WriterBlocks, Space!ReservedChunk
    <3>2. next_block \in Nat /\ Chunk \in Nat \ {0}
      BY DEF TypeInv
    <3>3. next_block .. next_block + Chunk - 1 \in SUBSET Nat
      BY <3>2
    <3>4. next_block \in next_block .. next_block + Chunk - 1
      BY <3>2
    <3> QED
      BY <3>1, <3>3, <3>4
  <2> QED
    BY <2>1, <2>2, <2>3
<1>2. \E x \in Space!WriterBlocks(r) : \A y \in Space!WriterBlocks(r) : x <= y
  BY <1>1, LeastElement
<1>3. Space!FreeAfterReserve(r) \in SUBSET Nat
  BY DEF Space!FreeAfterReserve, TypeInv
<1>4. Space!NextAfterReserve(r) \in Nat
  BY SMTT(30) DEF Space!NextAfterReserve, TypeInv
<1> QED
  BY <1>1, <1>2, <1>3, <1>4 DEF Min

-----------------------------------------------------------------------------
(* Every step preserves the invariant.  Those of a writer and a run change *)
(* one run and grow the disk.                                              *)

\* Nothing that the other runs have on the disk goes away.
LEMMA OtherTails ==
  ASSUME IInv, NEW r \in Runs, NEW d, DOMAIN disk \subseteq DOMAIN d
  PROVE  \A q \in Runs : BatchIsTail(block_ids[q], pending_start[q], pending[q], d)
BY PendingIsTailOfRuns, TailOnLargerDisk DEF IInv

LEMMA FlushedFacts ==
  ASSUME IInv, NEW r \in Runs
  PROVE  LET flushed == FlushedBlock(r)
         IN  /\ flushed.id \in Space!WriterBlocks(r) /\ flushed.id \in Nat
             /\ \A b \in Space!WriterBlocks(r) : flushed.id <= b
             /\ flushed.rest = Space!WriterBlocks(r) \ {flushed.id}
             /\ flushed.batch.start \in Nat /\ flushed.batch.queue \in Seq(Images)
             /\ DOMAIN disk \subseteq DOMAIN flushed.batch.disk
             /\ BatchIsTail(Append(block_ids[r], flushed.id), flushed.batch.start,
                            flushed.batch.queue, flushed.batch.disk)
<1> DEFINE blocks == Space!WriterBlocks(r)
           id == Min(blocks)
           batch == QueueBlockWrite(pending_start[r], pending[r], id, BlockImage(r), disk)
<1>1. id \in blocks /\ id \in Nat /\ \A b \in blocks : id <= b
  BY WriterBlocksExist DEF IInv
<1>2. BlockImage(r) \in Images
  BY DEF BlockImage, Images, IInv, TypeInv
<1>3. BatchIsTail(block_ids[r], pending_start[r], pending[r], disk)
  BY PendingIsTailOfRuns DEF IInv
<1>4. /\ block_ids[r] \in Seq(Nat) /\ pending_start[r] \in Nat /\ pending[r] \in Seq(Images)
  BY DEF IInv, TypeInv
<1> HIDE DEF id
<1>5. /\ batch.start \in Nat /\ batch.queue \in Seq(Images)
      /\ DOMAIN disk \subseteq DOMAIN batch.disk
      /\ BatchIsTail(Append(block_ids[r], id), batch.start, batch.queue, batch.disk)
  BY <1>1, <1>2, <1>3, <1>4, QueuedTail
<1>6. FlushedBlock(r) = [id |-> id, rest |-> blocks \ {id}, batch |-> batch]
  BY DEF FlushedBlock, id
<1> HIDE DEF batch, blocks
<1> QED
  BY <1>1, <1>5, <1>6 DEF blocks

LEMMA OpenWriterStep ==
  ASSUME IInv, NEW r \in Runs, OpenWriter(r)
  PROVE  IInv'
BY DEF OpenWriter, IInv, TypeInv, PendingIsTail, OnlyWritersQueue, spaceVars, writerVars

LEMMA PushRowStep ==
  ASSUME IInv, NEW r \in Runs, NEW row \in Rows, PushRow(r, row)
  PROVE  IInv'
<1> USE DEF PushRow
<1>1. current_block' \in [Runs -> Seq(Rows)]
  <2>1. current_block \in [Runs -> Seq(Rows)]
    BY DEF IInv, TypeInv
  <2> QED
    BY <2>1, AppendProperties
<1>2. row_count' \in [Runs -> Nat]
  <2>1. row_count \in [Runs -> Nat] /\ CountMod \in Nat \ {0}
    BY ScratchRunAssumption DEF IInv, TypeInv
  <2>2. (row_count[r] + 1) % CountMod \in Nat
    BY <2>1
  <2> QED
    BY <2>1, <2>2
<1>3. TypeInv'
  BY <1>1, <1>2 DEF IInv, TypeInv, spaceVars
<1>4. PendingIsTail' /\ OnlyWritersQueue'
  BY DEF IInv, PendingIsTail, OnlyWritersQueue
<1> QED
  BY <1>3, <1>4 DEF IInv

LEMMA FlushAndPushRowStep ==
  ASSUME IInv, NEW r \in Runs, NEW row \in Rows, FlushAndPushRow(r, row)
  PROVE  IInv'
<1> DEFINE flushed == FlushedBlock(r)
<1>1. /\ next_block' = Space!NextAfterReserve(r)
      /\ free_blocks' = Space!FreeAfterReserve(r) \cup {}
      /\ reserved' = [reserved EXCEPT ![r] = flushed.rest]
      /\ block_ids' = [block_ids EXCEPT ![r] = Append(@, flushed.id)]
      /\ pending_start' = [pending_start EXCEPT ![r] = flushed.batch.start]
      /\ pending' = [pending EXCEPT ![r] = flushed.batch.queue]
      /\ disk' = flushed.batch.disk
      /\ current_block' = [current_block EXCEPT ![r] = <<row>>]
      /\ row_count' = [row_count EXCEPT ![r] = 1 % CountMod]
      /\ phase' = phase /\ phase[r] = "writing"
  BY DEF FlushAndPushRow, FlushTo, MayPush
<1>2. /\ flushed.id \in Nat /\ flushed.rest \in SUBSET Nat
      /\ flushed.batch.start \in Nat /\ flushed.batch.queue \in Seq(Images)
      /\ DOMAIN disk \subseteq DOMAIN disk'
      /\ BatchIsTail(Append(block_ids[r], flushed.id), flushed.batch.start,
                     flushed.batch.queue, disk')
  BY <1>1, FlushedFacts, WriterBlocksExist DEF IInv
<1> HIDE DEF flushed
<1>3. TypeInv'
  <2>1. next_block' \in Nat /\ free_blocks' \in SUBSET Nat
    BY <1>1, WriterBlocksExist DEF IInv
  <2>2. reserved' \in [Runs -> SUBSET Nat]
    BY <1>1, <1>2 DEF IInv, TypeInv
  <2>3. block_ids' \in [Runs -> Seq(Nat)]
    BY <1>1, <1>2, AppendProperties DEF IInv, TypeInv
  <2>4. current_block' \in [Runs -> Seq(Rows)]
    BY <1>1 DEF IInv, TypeInv
  <2>5. row_count' \in [Runs -> Nat]
    BY SMTT(30), <1>1, ScratchRunAssumption DEF IInv, TypeInv
  <2>6. pending_start' \in [Runs -> Nat] /\ pending' \in [Runs -> Seq(Images)]
    BY <1>1, <1>2 DEF IInv, TypeInv
  <2> QED
    BY <1>1, <2>1, <2>2, <2>3, <2>4, <2>5, <2>6 DEF IInv, TypeInv
<1>4. PendingIsTail'
  <2>1. \A q \in Runs : BatchIsTail(block_ids[q], pending_start[q], pending[q], disk')
    BY <1>2, OtherTails
  <2>2. /\ block_ids'[r] = Append(block_ids[r], flushed.id)
        /\ pending_start'[r] = flushed.batch.start /\ pending'[r] = flushed.batch.queue
        /\ \A q \in Runs \ {r} : /\ block_ids'[q] = block_ids[q]
                                 /\ pending_start'[q] = pending_start[q]
                                 /\ pending'[q] = pending[q]
    BY <1>1 DEF IInv, TypeInv
  <2>3. \A q \in Runs : BatchIsTail(block_ids'[q], pending_start'[q], pending'[q], disk')
    BY <1>2, <2>1, <2>2
  <2> QED
    BY <2>3 DEF PendingIsTail, BatchIsTail
<1>5. OnlyWritersQueue'
  BY <1>1 DEF IInv, TypeInv, OnlyWritersQueue
<1> QED
  BY <1>3, <1>4, <1>5 DEF IInv

LEMMA FinishEmptyStep ==
  ASSUME IInv, NEW r \in Runs, FinishEmpty(r)
  PROVE  IInv'
<1> USE DEF FinishEmpty, Seal
<1>1. TypeInv'
  BY EmptySeq DEF IInv, TypeInv
<1>2. /\ block_ids[r] \in Seq(Nat) /\ pending_start[r] \in Nat /\ pending[r] \in Seq(Images)
      /\ BatchIsTail(block_ids[r], pending_start[r], pending[r], disk)
  BY PendingIsTailOfRuns DEF IInv, TypeInv
<1>3. DOMAIN disk \subseteq DOMAIN disk' /\ BatchIsTail(block_ids[r], 0, <<>>, disk')
  <2>1. DOMAIN disk' = (pending_start[r] .. pending_start[r] + Len(pending[r]) - 1) \cup DOMAIN disk
    BY <1>2, WrittenBlocks
  <2>2. BatchIsTail(block_ids[r], 0, <<>>, disk')
    BY <1>2, WrittenTail
  <2> QED
    BY <2>1, <2>2
<1>4. PendingIsTail'
  <2>1. \A q \in Runs : BatchIsTail(block_ids[q], pending_start[q], pending[q], disk')
    BY <1>3, OtherTails
  <2>2. /\ pending_start'[r] = 0 /\ pending'[r] = <<>> /\ block_ids' = block_ids
        /\ \A q \in Runs \ {r} : /\ pending_start'[q] = pending_start[q]
                                 /\ pending'[q] = pending[q]
    BY DEF IInv, TypeInv
  <2>3. \A q \in Runs : BatchIsTail(block_ids'[q], pending_start'[q], pending'[q], disk')
    BY <1>3, <2>1, <2>2
  <2> QED
    BY <2>3 DEF PendingIsTail, BatchIsTail
<1>5. OnlyWritersQueue'
  BY DEF IInv, TypeInv, OnlyWritersQueue
<1> QED
  BY <1>1, <1>4, <1>5 DEF IInv

LEMMA FinishStep ==
  ASSUME IInv, NEW r \in Runs, Finish(r)
  PROVE  IInv'
<1> DEFINE flushed == FlushedBlock(r)
<1>1. /\ next_block' = Space!NextAfterReserve(r)
      /\ free_blocks' = Space!FreeAfterReserve(r) \cup flushed.rest
      /\ reserved' = [reserved EXCEPT ![r] = {}]
      /\ block_ids' = [block_ids EXCEPT ![r] = Append(@, flushed.id)]
      /\ disk' = WriteBlocks(flushed.batch.disk, flushed.batch.start, flushed.batch.queue)
      /\ phase' = [phase EXCEPT ![r] = "sealed"]
      /\ current_block' = [current_block EXCEPT ![r] = <<>>]
      /\ row_count' = [row_count EXCEPT ![r] = 0]
      /\ pending_start' = [pending_start EXCEPT ![r] = 0]
      /\ pending' = [pending EXCEPT ![r] = <<>>]
  BY DEF Finish, FlushTo, Seal
<1>2. /\ flushed.id \in Nat /\ flushed.rest \in SUBSET Nat
      /\ flushed.batch.start \in Nat /\ flushed.batch.queue \in Seq(Images)
      /\ DOMAIN disk \subseteq DOMAIN flushed.batch.disk
      /\ BatchIsTail(Append(block_ids[r], flushed.id), flushed.batch.start,
                     flushed.batch.queue, flushed.batch.disk)
  BY FlushedFacts, WriterBlocksExist DEF IInv
<1> HIDE DEF flushed
<1>3. Append(block_ids[r], flushed.id) \in Seq(Nat)
  BY <1>2, AppendProperties DEF IInv, TypeInv
<1>4. TypeInv'
  <2>1. next_block' \in Nat /\ free_blocks' \in SUBSET Nat
    BY <1>1, <1>2, WriterBlocksExist DEF IInv
  <2>2. block_ids' \in [Runs -> Seq(Nat)]
    BY <1>1, <1>3 DEF IInv, TypeInv
  <2>3. /\ reserved' \in [Runs -> SUBSET Nat] /\ row_count' \in [Runs -> Nat]
        /\ phase' \in [Runs -> {"unused", "writing", "sealed"}]
        /\ pending_start' \in [Runs -> Nat]
    BY <1>1 DEF IInv, TypeInv
  <2>4. current_block' \in [Runs -> Seq(Rows)] /\ pending' \in [Runs -> Seq(Images)]
    BY <1>1, EmptySeq DEF IInv, TypeInv
  <2> QED
    BY <2>1, <2>2, <2>3, <2>4 DEF TypeInv
<1>5. /\ DOMAIN disk \subseteq DOMAIN disk'
      /\ BatchIsTail(Append(block_ids[r], flushed.id), 0, <<>>, disk')
  <2>1. DOMAIN disk' = (flushed.batch.start .. flushed.batch.start + Len(flushed.batch.queue) - 1)
                         \cup DOMAIN flushed.batch.disk
    BY <1>1, <1>2, WrittenBlocks
  <2>2. BatchIsTail(Append(block_ids[r], flushed.id), 0, <<>>, disk')
    BY <1>1, <1>2, <1>3, WrittenTail
  <2> QED
    BY <1>2, <2>1, <2>2
<1>6. PendingIsTail'
  <2>1. \A q \in Runs : BatchIsTail(block_ids[q], pending_start[q], pending[q], disk')
    BY <1>5, OtherTails
  <2>2. /\ block_ids'[r] = Append(block_ids[r], flushed.id)
        /\ pending_start'[r] = 0 /\ pending'[r] = <<>>
        /\ \A q \in Runs \ {r} : /\ block_ids'[q] = block_ids[q]
                                 /\ pending_start'[q] = pending_start[q]
                                 /\ pending'[q] = pending[q]
    BY <1>1 DEF IInv, TypeInv
  <2>3. \A q \in Runs : BatchIsTail(block_ids'[q], pending_start'[q], pending'[q], disk')
    BY <1>5, <2>1, <2>2
  <2> QED
    BY <2>3 DEF PendingIsTail, BatchIsTail
<1>7. OnlyWritersQueue'
  BY <1>1 DEF IInv, TypeInv, OnlyWritersQueue
<1> QED
  BY <1>4, <1>6, <1>7 DEF IInv

LEMMA ReleaseRunStep ==
  ASSUME IInv, NEW r \in Runs, ReleaseRun(r)
  PROVE  IInv'
<1> USE DEF ReleaseRun
<1>1. TypeInv'
  <2>1. ToSet(block_ids[r]) \in SUBSET Nat
    <3>1. block_ids[r] \in Seq(Nat)
      BY DEF IInv, TypeInv
    <3> QED
      BY <3>1, LenProperties, ElementOfSeq DEF ToSet
  <2> QED
    BY <2>1, EmptySeq DEF IInv, TypeInv
<1>2. OnlyWritersQueue' /\ pending[r] = <<>>
  BY DEF IInv, TypeInv, OnlyWritersQueue
<1>3. PendingIsTail'
  <2>1. block_ids'[r] = <<>> /\ \A q \in Runs \ {r} : block_ids'[q] = block_ids[q]
    BY DEF IInv, TypeInv
  <2>2. /\ \A q \in Runs : BatchIsTail(block_ids[q], pending_start[q], pending[q], disk)
        /\ BatchIsTail(<<>>, pending_start[r], <<>>, disk)
    BY PendingIsTailOfRuns, EmptyTail DEF IInv
  <2>3. \A q \in Runs : BatchIsTail(block_ids'[q], pending_start'[q], pending'[q], disk')
    BY <1>2, <2>1, <2>2
  <2> QED
    BY <2>3 DEF PendingIsTail, BatchIsTail
<1> QED
  BY <1>1, <1>2, <1>3 DEF IInv

LEMMA AbandonStep ==
  ASSUME IInv, NEW r \in Runs, Abandon(r)
  PROVE  IInv'
<1> USE DEF Abandon
<1>1. TypeInv'
  BY EmptySeq DEF IInv, TypeInv
<1>2. PendingIsTail'
  <2>1. /\ block_ids'[r] = <<>> /\ pending'[r] = <<>>
        /\ \A q \in Runs \ {r} : /\ block_ids'[q] = block_ids[q] /\ pending'[q] = pending[q]
                                 /\ pending_start'[q] = pending_start[q]
    BY DEF IInv, TypeInv
  <2>2. /\ \A q \in Runs : BatchIsTail(block_ids[q], pending_start[q], pending[q], disk)
        /\ BatchIsTail(<<>>, pending_start'[r], <<>>, disk)
    BY PendingIsTailOfRuns, EmptyTail DEF IInv
  <2>3. \A q \in Runs : BatchIsTail(block_ids'[q], pending_start'[q], pending'[q], disk')
    BY <2>1, <2>2
  <2> QED
    BY <2>3 DEF PendingIsTail, BatchIsTail
<1>3. OnlyWritersQueue'
  BY DEF IInv, TypeInv, OnlyWritersQueue
<1> QED
  BY <1>1, <1>2, <1>3 DEF IInv

\* A reader changes no run.
ReaderStep ==
  \/ \E c \in Readers : \/ NextBufferedRow(c) \/ FetchAndNextRow(c)
                        \/ NextRowAtEnd(c) \/ StopReading(c)
  \/ \E c \in Readers, r \in Runs : StartReading(c, r)

LEMMA ReadersChangeNoRun ==
  ReaderStep \/ UNCHANGED vars => UNCHANGED <<spaceVars, phase, opened, writerVars>>
BY DEF ReaderStep, NextBufferedRow, FetchAndNextRow, NextRowAtEnd, StopReading, StartReading, vars

LEMMA NextIInv == IInv /\ [Next]_vars => IInv'
<1> SUFFICES ASSUME IInv, [Next]_vars PROVE IInv'
  OBVIOUS
<1>1. CASE \E r \in Runs : \/ OpenWriter(r) \/ FinishEmpty(r) \/ Finish(r)
                          \/ ReleaseRun(r) \/ Abandon(r)
  BY <1>1, OpenWriterStep, FinishEmptyStep, FinishStep, ReleaseRunStep, AbandonStep
<1>2. CASE \E r \in Runs, row \in Rows : PushRow(r, row) \/ FlushAndPushRow(r, row)
  BY <1>2, PushRowStep, FlushAndPushRowStep
<1>3. CASE ReaderStep \/ UNCHANGED vars
  BY <1>3, ReadersChangeNoRun
     DEF IInv, TypeInv, PendingIsTail, OnlyWritersQueue, spaceVars, writerVars
<1> QED
  BY <1>1, <1>2, <1>3 DEF Next, ReaderStep

LEMMA SpecIInv == Spec => []IInv
BY InitIInv, NextIInv, PTL DEF Spec

-----------------------------------------------------------------------------
(* What a writer has not yet written is the last blocks of its list, in    *)
(* order, although batches of all writers are written at different times   *)
(* (queue_block_write, block_allocator.rs).                                *)
THEOREM PendingStaysTail == Spec => []PendingIsTail
BY SpecIInv, PTL DEF IInv

(* Every block of a finished run is on the disk: no reader asks the disk   *)
(* for a block that was never written.                                     *)
THEOREM FinishedRunsAreWritten == Spec => []SealedRunsOnDisk
<1>1. IInv => SealedRunsOnDisk
  <2> SUFFICES ASSUME IInv, NEW r \in Runs, phase[r] = "sealed"
               PROVE  ToSet(block_ids[r]) \subseteq DOMAIN disk
    BY DEF SealedRunsOnDisk
  <2>1. pending[r] = <<>> /\ Len(pending[r]) = 0
    BY DEF IInv, OnlyWritersQueue
  <2>2. block_ids[r] \in Seq(Nat)
    BY DEF IInv, TypeInv
  <2>3. DOMAIN block_ids[r] = 1 .. Len(block_ids[r]) /\ Len(block_ids[r]) \in Nat
    BY <2>2, LenProperties
  <2>4. \A i \in 1 .. Len(block_ids[r]) - 0 : block_ids[r][i] \in DOMAIN disk
    BY <2>1 DEF IInv, PendingIsTail
  <2> QED
    BY <2>3, <2>4 DEF ToSet
<1> QED
  BY <1>1, SpecIInv, PTL

-----------------------------------------------------------------------------
(* The steps of writers and runs are steps of ScratchSpace, where a run    *)
(* holds the set of its blocks.                                            *)

LEMMA HeldOf ==
  \A r \in Runs : Held[r] = ToSet(block_ids[r])
BY DEF Held

\* A flush takes a block from the chunk of the writer and no other.
LEMMA FlushHolds ==
  ASSUME IInv, NEW r \in Runs, NEW id \in Nat,
         block_ids' = [block_ids EXCEPT ![r] = Append(@, id)]
  PROVE  Held' = [Held EXCEPT ![r] = @ \cup {id}]
<1>1. block_ids \in [Runs -> Seq(Nat)]
  BY DEF IInv, TypeInv
<1>2. ToSet(block_ids'[r]) = ToSet(block_ids[r]) \cup {id}
  BY <1>1, ToSetOfAppend
<1> QED
  BY <1>1, <1>2 DEF Held

LEMMA FlushAndPushRowFlushes ==
  ASSUME IInv, NEW r \in Runs, NEW row \in Rows, FlushAndPushRow(r, row)
  PROVE  Space!FlushBlock(r)
<1> DEFINE flushed == FlushedBlock(r)
<1>1. /\ flushed.id \in Space!WriterBlocks(r) /\ flushed.id \in Nat
      /\ \A b \in Space!WriterBlocks(r) : flushed.id <= b
      /\ flushed.rest = Space!WriterBlocks(r) \ {flushed.id}
  BY FlushedFacts
<1>2. /\ phase[r] = "writing" /\ Space!RoomLeft(r)
      /\ next_block' = Space!NextAfterReserve(r)
      /\ free_blocks' = Space!FreeAfterReserve(r) \cup {}
      /\ reserved' = [reserved EXCEPT ![r] = flushed.rest]
      /\ block_ids' = [block_ids EXCEPT ![r] = Append(@, flushed.id)]
      /\ UNCHANGED <<phase, leaked>>
  BY DEF FlushAndPushRow, FlushTo, MayPush
<1> HIDE DEF flushed
<1>3. Held' = [Held EXCEPT ![r] = @ \cup {flushed.id}]
  BY <1>1, <1>2, FlushHolds
<1> QED
  BY <1>1, <1>2, <1>3 DEF Space!FlushBlock

LEMMA FinishFlushes ==
  ASSUME IInv, NEW r \in Runs, Finish(r)
  PROVE  Space!FlushAndFinish(r)
<1> DEFINE flushed == FlushedBlock(r)
<1>1. /\ flushed.id \in Space!WriterBlocks(r) /\ flushed.id \in Nat
      /\ \A b \in Space!WriterBlocks(r) : flushed.id <= b
      /\ flushed.rest = Space!WriterBlocks(r) \ {flushed.id}
  BY FlushedFacts
<1>2. /\ phase[r] = "writing" /\ Space!RoomLeft(r)
      /\ phase' = [phase EXCEPT ![r] = "sealed"]
      /\ next_block' = Space!NextAfterReserve(r)
      /\ free_blocks' = Space!FreeAfterReserve(r) \cup flushed.rest
      /\ reserved' = [reserved EXCEPT ![r] = {}]
      /\ block_ids' = [block_ids EXCEPT ![r] = Append(@, flushed.id)]
      /\ UNCHANGED leaked
  BY DEF Finish, FlushTo, Seal
<1> HIDE DEF flushed
<1>3. Held' = [Held EXCEPT ![r] = @ \cup {flushed.id}]
  BY <1>1, <1>2, FlushHolds
<1> QED
  BY <1>1, <1>2, <1>3 DEF Space!FlushAndFinish

LEMMA FinishEmptyFinishes ==
  ASSUME NEW r \in Runs, FinishEmpty(r)
  PROVE  Space!Finish(r)
<1>1. Held' = Held
  BY DEF FinishEmpty, Held
<1> QED
  BY <1>1 DEF FinishEmpty, Seal, Space!Finish

LEMMA EmptiedHolds ==
  ASSUME IInv, NEW r \in Runs, block_ids' = [block_ids EXCEPT ![r] = <<>>]
  PROVE  Held' = [Held EXCEPT ![r] = {}]
<1>1. ToSet(<<>>) = {}
  BY DEF ToSet
<1> QED
  BY <1>1 DEF Held, IInv, TypeInv

LEMMA ReleaseRunReleases ==
  ASSUME IInv, NEW r \in Runs, ReleaseRun(r)
  PROVE  Space!ReleaseRun(r)
<1>1. Held' = [Held EXCEPT ![r] = {}] /\ Held[r] = ToSet(block_ids[r])
  BY EmptiedHolds, HeldOf DEF ReleaseRun
<1> QED
  BY <1>1 DEF ReleaseRun, Space!ReleaseRun

LEMMA AbandonAbandons ==
  ASSUME IInv, NEW r \in Runs, Abandon(r)
  PROVE  Space!Abandon(r)
<1>1. Held' = [Held EXCEPT ![r] = {}] /\ Held[r] = ToSet(block_ids[r])
  BY EmptiedHolds, HeldOf DEF Abandon
<1> QED
  BY <1>1 DEF Abandon, Space!Abandon

LEMMA NextIsOfSpace == IInv /\ [Next]_vars => [Space!Next]_Space!vars
<1> SUFFICES ASSUME IInv, [Next]_vars PROVE [Space!Next]_Space!vars
  OBVIOUS
<1>1. CASE \E r \in Runs : \/ OpenWriter(r) \/ FinishEmpty(r) \/ Finish(r)
                          \/ ReleaseRun(r) \/ Abandon(r)
  <2>1. PICK r \in Runs : \/ OpenWriter(r) \/ FinishEmpty(r) \/ Finish(r)
                          \/ ReleaseRun(r) \/ Abandon(r)
    BY <1>1
  <2>2. CASE OpenWriter(r)
    <3>1. Held' = Held
      BY <2>2 DEF OpenWriter, Held, writerVars
    <3>2. Space!OpenWriter(r)
      BY <2>2, <3>1 DEF OpenWriter, Space!OpenWriter, spaceVars
    <3> QED
      BY <3>2 DEF Space!Next
  <2> QED
    BY <2>1, <2>2, FinishEmptyFinishes, FinishFlushes, ReleaseRunReleases, AbandonAbandons
       DEF Space!Next
<1>2. CASE \E r \in Runs, row \in Rows : PushRow(r, row)
  BY <1>2 DEF PushRow, spaceVars, Space!vars, Held
<1>3. CASE \E r \in Runs, row \in Rows : FlushAndPushRow(r, row)
  BY <1>3, FlushAndPushRowFlushes DEF Space!Next
<1>4. CASE ReaderStep \/ UNCHANGED vars
  BY <1>4, ReadersChangeNoRun DEF spaceVars, writerVars, Space!vars, Held
<1> QED
  BY <1>1, <1>2, <1>3, <1>4 DEF Next, ReaderStep

(* Spilled rows never share a block: the writers, runs and readers of the  *)
(* database implement ScratchSpace, whose blocks are exclusive and whose   *)
(* releases lose none (ScratchSpaceProofs).                                *)
THEOREM RunsImplementSpace == Spec => ImplementsScratchSpace
<1>1. Init => Space!Init
  <2> SUFFICES ASSUME Init PROVE Space!Init
    OBVIOUS
  <2>1. ToSet(<<>>) = {}
    BY DEF ToSet
  <2>2. Held = [r \in Runs |-> {}]
    BY <2>1 DEF Init, Held
  <2> QED
    BY <2>2 DEF Init, Space!Init
<1> QED
  BY <1>1, NextIsOfSpace, SpecIInv, PTL DEF Spec, Space!Spec, ImplementsScratchSpace

-----------------------------------------------------------------------------
(* What a run's blocks hold.  The count of a whole image is that of its    *)
(* rows, so that decoding it gives them all.                               *)

Whole == {image \in Images : image.count = Len(image.rows)}

Missing == [rows |-> <<>>, count |-> 0]

On(d, b) == IF b \in DOMAIN d THEN d[b] ELSE Missing

View(start, queue, d, b) ==
  IF b \in start .. start + Len(queue) - 1 THEN queue[b - start + 1] ELSE On(d, b)

RowsIn(start, queue, d, ids) ==
  FlattenSeq([i \in 1 .. Len(ids) |-> DecodeRows(View(start, queue, d, ids[i]))])

LEMMA RowsOfBlocksAre ==
  \A r \in Runs : \A ids : RowsOfBlocks(r, ids) = RowsIn(pending_start[r], pending[r], disk, ids)
BY DEF RowsOfBlocks, RowsIn, ImageOf, View, On, Missing

LEMMA DecodedWhole ==
  ASSUME NEW image \in Whole
  PROVE  DecodeRows(image) = image.rows /\ image.rows \in Seq(Rows)
<1>1. image.rows \in Seq(Rows) /\ image.count = Len(image.rows)
  BY DEF Whole, Images
<1> DEFINE s == image.rows
           t == SubSeq(s, 1, Len(s))
<1>2. s \in Seq(Rows) /\ Len(s) \in Nat /\ \A i \in 1 .. Len(s) : s[i] \in Rows
  BY <1>1, ToSetType
<1> HIDE DEF s
<1>3. t \in Seq(Rows) /\ Len(t) = Len(s) /\ \A i \in 1 .. Len(s) : t[i] = s[i]
  BY <1>2
<1>4. t = s
  BY <1>2, <1>3, SeqEqual
<1>5. QED  BY <1>1, <1>4 DEF DecodeRows, s

LEMMA MissingIsWhole == Missing \in Whole
<1>1. <<>> \in Seq(Rows) /\ Len(<<>>) = 0
  BY EmptySeq
<1>2. QED  BY <1>1 DEF Missing, Whole, Images

WholeDisk(d) == \A b \in DOMAIN d : d[b] \in Whole

LEMMA WholeView ==
  ASSUME NEW start \in Nat, NEW queue \in Seq(Whole), NEW d, WholeDisk(d), NEW b \in Nat
  PROVE  View(start, queue, d, b) \in Whole
<1>1. On(d, b) \in Whole
  BY MissingIsWhole DEF On, WholeDisk
<1>2. CASE b \in start .. start + Len(queue) - 1
  <2>1. Len(queue) \in Nat /\ b - start + 1 \in 1 .. Len(queue)
    BY <1>2, LenProperties
  <2>2. queue[b - start + 1] \in Whole
    BY <2>1, ElementOfSeq
  <2>3. QED  BY <1>2, <2>2 DEF View
<1>3. QED  BY <1>1, <1>2 DEF View

\* A write puts on the disk what was seen in the queue.
LEMMA WrittenView ==
  ASSUME NEW d, NEW start \in Nat, NEW S, NEW queue \in Seq(S), NEW b
  PROVE  On(WriteBlocks(d, start, queue), b) = View(start, queue, d, b)
<1> DEFINE range == start .. start + Len(queue) - 1
           e == WriteBlocks(d, start, queue)
<1>1. DOMAIN e = range \cup DOMAIN d
  BY WrittenBlocks
<1>2. ASSUME b \in DOMAIN e
      PROVE  e[b] = IF b \in range THEN queue[b - start + 1] ELSE d[b]
  BY <1>1, <1>2 DEF WriteBlocks
<1> HIDE DEF e, range
<1>3. On(e, b) = IF b \in range THEN queue[b - start + 1] ELSE On(d, b)
  BY <1>1, <1>2 DEF On
<1>4. QED  BY <1>3 DEF e, range, View

LEMMA WrittenWhole ==
  ASSUME NEW d, WholeDisk(d), NEW start \in Nat, NEW queue \in Seq(Whole)
  PROVE  WholeDisk(WriteBlocks(d, start, queue))
<1> DEFINE e == WriteBlocks(d, start, queue)
<1> SUFFICES ASSUME NEW b \in DOMAIN e PROVE e[b] \in Whole
  BY DEF WholeDisk
<1>1. DOMAIN e = (start .. start + Len(queue) - 1) \cup DOMAIN d
  BY WrittenBlocks
<1>2. CASE b \in start .. start + Len(queue) - 1
  <2>1. Len(queue) \in Nat /\ b - start + 1 \in 1 .. Len(queue)
    BY <1>2, LenProperties
  <2>2. queue[b - start + 1] \in Whole
    BY <2>1, ElementOfSeq
  <2>3. QED  BY <1>2, <2>2 DEF WriteBlocks
<1>3. CASE b \notin start .. start + Len(queue) - 1
  BY <1>1, <1>3 DEF WriteBlocks, WholeDisk
<1>4. QED  BY <1>2, <1>3

\* Nothing is queued: what is seen is on the disk.
LEMMA ViewOfNone ==
  ASSUME NEW start \in Nat, NEW d, NEW b
  PROVE  View(start, <<>>, d, b) = On(d, b)
<1>1. b \notin start .. start + Len(<<>>) - 1
  OBVIOUS
<1>2. QED  BY <1>1 DEF View

(* queue_block_write shows one block more, and the others as before,       *)
(* whatever it has written.                                                *)
LEMMA QueuedView ==
  ASSUME NEW start \in Nat, NEW queue \in Seq(Whole), NEW id \in Nat, NEW image \in Whole, NEW d,
         NEW b \in Nat
  PROVE  LET batch == QueueBlockWrite(start, queue, id, image, d)
         IN  /\ View(batch.start, batch.queue, batch.disk, b)
                  = IF b = id THEN image ELSE View(start, queue, d, b)
             /\ b \notin (start .. start + Len(queue) - 1) \cup {id} => On(batch.disk, b) = On(d, b)
<1> DEFINE extends == queue # <<>> /\ id = start + Len(queue) /\ Len(queue) < WriteBatch
           start1 == IF extends THEN start ELSE id
           queue1 == IF extends THEN Append(queue, image) ELSE <<image>>
           disk1 == IF extends THEN d ELSE WriteBlocks(d, start, queue)
           batch == QueueBlockWrite(start, queue, id, image, d)
           range == start .. start + Len(queue) - 1
<1>1. start1 \in Nat /\ queue1 \in Seq(Whole)
  BY AppendProperties
<1>2. Len(queue) \in Nat
  BY LenProperties
<1>3. /\ View(start1, queue1, disk1, b) = IF b = id THEN image ELSE View(start, queue, d, b)
      /\ b \notin range \cup {id} => View(start1, queue1, disk1, b) = On(d, b) /\ On(disk1, b) = On(d, b)
  <2>1. CASE extends
    <3>1. start1 = start /\ queue1 = Append(queue, image) /\ disk1 = d
      BY <2>1
    <3> HIDE DEF start1, queue1, disk1
    <3>2. /\ Len(queue1) = Len(queue) + 1 /\ queue1[Len(queue) + 1] = image
          /\ \A i \in 1 .. Len(queue) : queue1[i] = queue[i]
      BY <3>1, AppendProperties
    <3>3. CASE b = id
      <4>1. b \in start .. start + Len(queue1) - 1 /\ b - start + 1 = Len(queue) + 1
        BY <1>2, <2>1, <3>2, <3>3
      <4>2. QED  BY <3>1, <3>2, <3>3, <4>1 DEF View
    <3>4. CASE b # id
      <4>1. b \in start .. start + Len(queue1) - 1 <=> b \in range
        BY <1>2, <2>1, <3>2, <3>4
      <4>2. b \in range => b - start + 1 \in 1 .. Len(queue)
        BY <1>2
      <4>3. QED  BY <3>1, <3>2, <3>4, <4>1, <4>2 DEF View
    <3>5. QED  BY <3>3, <3>4
  <2>2. CASE ~extends
    <3>1. start1 = id /\ queue1 = <<image>> /\ disk1 = WriteBlocks(d, start, queue)
      BY <2>2
    <3> HIDE DEF start1, queue1, disk1
    <3>2. On(disk1, b) = View(start, queue, d, b)
      BY <3>1, WrittenView
    <3>3. b \in start1 .. start1 + Len(queue1) - 1 <=> b = id
      BY <3>1
    <3>4. b = id => queue1[b - start1 + 1] = image
      BY <3>1
    <3>5. View(start1, queue1, disk1, b) = IF b = id THEN image ELSE On(disk1, b)
      BY <3>3, <3>4 DEF View
    <3>6. b \notin range => View(start, queue, d, b) = On(d, b)
      BY DEF View
    <3>7. QED  BY <3>2, <3>5, <3>6
  <2>3. QED  BY <2>1, <2>2
<1>4. batch = IF Len(queue1) >= WriteBatch
              THEN [start |-> 0, queue |-> <<>>, disk |-> WriteBlocks(disk1, start1, queue1)]
              ELSE [start |-> start1, queue |-> queue1, disk |-> disk1]
  BY DEF QueueBlockWrite
<1> HIDE DEF start1, queue1, disk1, batch
<1>5. CASE Len(queue1) >= WriteBatch
  <2>1. batch.start = 0 /\ batch.queue = <<>> /\ batch.disk = WriteBlocks(disk1, start1, queue1)
    BY <1>4, <1>5
  <2>2. On(batch.disk, b) = View(start1, queue1, disk1, b)
    BY <1>1, <2>1, WrittenView
  <2>3. View(batch.start, batch.queue, batch.disk, b) = On(batch.disk, b)
    BY <2>1, ViewOfNone
  <2>4. QED  BY <1>3, <2>2, <2>3 DEF batch
<1>6. CASE ~ (Len(queue1) >= WriteBatch)
  BY <1>3, <1>4, <1>6 DEF batch
<1>7. QED  BY <1>5, <1>6

LEMMA QueuedWhole ==
  ASSUME NEW start \in Nat, NEW queue \in Seq(Whole), NEW id \in Nat, NEW image \in Whole, NEW d,
         WholeDisk(d)
  PROVE  LET batch == QueueBlockWrite(start, queue, id, image, d)
         IN  batch.queue \in Seq(Whole) /\ WholeDisk(batch.disk)
<1> DEFINE extends == queue # <<>> /\ id = start + Len(queue) /\ Len(queue) < WriteBatch
           start1 == IF extends THEN start ELSE id
           queue1 == IF extends THEN Append(queue, image) ELSE <<image>>
           disk1 == IF extends THEN d ELSE WriteBlocks(d, start, queue)
           batch == QueueBlockWrite(start, queue, id, image, d)
<1>1. start1 \in Nat /\ queue1 \in Seq(Whole) /\ <<>> \in Seq(Whole)
  BY AppendProperties, EmptySeq
<1>2. WholeDisk(disk1)
  BY WrittenWhole
<1>3. batch = IF Len(queue1) >= WriteBatch
              THEN [start |-> 0, queue |-> <<>>, disk |-> WriteBlocks(disk1, start1, queue1)]
              ELSE [start |-> start1, queue |-> queue1, disk |-> disk1]
  BY DEF QueueBlockWrite
<1> HIDE DEF start1, queue1, disk1, batch
<1>4. WholeDisk(WriteBlocks(disk1, start1, queue1))
  BY <1>1, <1>2, WrittenWhole
<1>5. batch.queue \in Seq(Whole) /\ WholeDisk(batch.disk)
  BY <1>1, <1>2, <1>3, <1>4
<1>6. QED  BY <1>5 DEF batch

-----------------------------------------------------------------------------
(* The rows in a list of blocks.                                           *)

LEMMA SameRowsIn ==
  ASSUME NEW s, NEW q, NEW d, NEW t, NEW p, NEW e, NEW ids,
         \A i \in 1 .. Len(ids) : View(s, q, d, ids[i]) = View(t, p, e, ids[i])
  PROVE  RowsIn(s, q, d, ids) = RowsIn(t, p, e, ids)
<1>1. [i \in 1 .. Len(ids) |-> DecodeRows(View(s, q, d, ids[i]))]
        = [i \in 1 .. Len(ids) |-> DecodeRows(View(t, p, e, ids[i]))]
  OBVIOUS
<1>2. QED  BY <1>1 DEF RowsIn

LEMMA RowsInNone ==
  ASSUME NEW s, NEW q, NEW d
  PROVE  RowsIn(s, q, d, <<>>) = <<>>
<1> DEFINE f == [i \in {} |-> i]
<1>1. Len(<<>>) = 0
  BY EmptySeq
<1>2. FlattenSeq([i \in 1 .. 0 |-> f[i]]) = <<>>
  BY FlattenOfNone
<1>3. [i \in 1 .. Len(<<>>) |-> DecodeRows(View(s, q, d, <<>>[i]))] = [i \in 1 .. 0 |-> f[i]]
  BY <1>1
<1>4. QED  BY <1>2, <1>3 DEF RowsIn

\* The first k blocks of a list, and the m blocks behind.
BlocksBehind(s, q, d, ids, k, m, more) ==
  /\ s \in Nat /\ q \in Seq(Whole) /\ WholeDisk(d) /\ ids \in Seq(Nat)
  /\ k \in Nat /\ m \in Nat /\ k + m <= Len(ids)
  /\ more = [i \in 1 .. m |-> DecodeRows(View(s, q, d, ids[k + i]))]

LEMMA RowsInSplit ==
  ASSUME NEW s, NEW q, NEW d, NEW ids, NEW k, NEW m, NEW more,
         BlocksBehind(s, q, d, ids, k, m, more)
  PROVE  /\ RowsIn(s, q, d, SubSeq(ids, 1, k)) \in Seq(Rows)
         /\ FlattenSeq(more) \in Seq(Rows)
         /\ RowsIn(s, q, d, SubSeq(ids, 1, k + m))
              = RowsIn(s, q, d, SubSeq(ids, 1, k)) \o FlattenSeq(more)
<1> DEFINE f == [i \in 1 .. k + m |-> DecodeRows(View(s, q, d, ids[i]))]
           part(n) == SubSeq(ids, 1, n)
<1>0. /\ s \in Nat /\ q \in Seq(Whole) /\ WholeDisk(d) /\ ids \in Seq(Nat)
      /\ k \in Nat /\ m \in Nat /\ k + m <= Len(ids)
      /\ more = [i \in 1 .. m |-> DecodeRows(View(s, q, d, ids[k + i]))]
  BY DEF BlocksBehind
<1> USE <1>0
<1>1. ASSUME NEW i \in 1 .. k + m PROVE f[i] \in Seq(Rows)
  <2>1. Len(ids) \in Nat
    BY LenProperties
  <2>2. i \in 1 .. Len(ids)
    BY <2>1
  <2>3. ids[i] \in Nat
    BY <2>2, ElementOfSeq
  <2>4. View(s, q, d, ids[i]) \in Whole
    BY <2>3, WholeView
  <2>5. QED  BY <2>4, DecodedWhole
<1>2. ASSUME NEW n \in Nat, n <= k + m
      PROVE  RowsIn(s, q, d, part(n)) = FlattenSeq([i \in 1 .. n |-> f[i]])
  <2>1. Len(ids) \in Nat
    BY LenProperties
  <2>2. Len(part(n)) = n /\ \A i \in 1 .. n : part(n)[i] = ids[i]
    BY <1>2, <2>1
  <2> HIDE DEF part
  <2>3. [i \in 1 .. Len(part(n)) |-> DecodeRows(View(s, q, d, part(n)[i]))] = [i \in 1 .. n |-> f[i]]
    BY <1>2, <2>2
  <2>4. QED  BY <2>3 DEF RowsIn
<1>3. [i \in 1 .. m |-> f[k + i]] = [i \in 1 .. m |-> DecodeRows(View(s, q, d, ids[k + i]))]
  OBVIOUS
<1> HIDE DEF f, part
<1>4. /\ FlattenSeq([i \in 1 .. k |-> f[i]]) \in Seq(Rows)
      /\ FlattenSeq([i \in 1 .. m |-> f[k + i]]) \in Seq(Rows)
      /\ FlattenSeq([i \in 1 .. k + m |-> f[i]])
           = FlattenSeq([i \in 1 .. k |-> f[i]]) \o FlattenSeq([i \in 1 .. m |-> f[k + i]])
  <2> DEFINE a == [i \in 1 .. k |-> f[i]]
             b == [i \in 1 .. m |-> f[k + i]]
             c == [i \in 1 .. k + m |-> f[i]]
  <2>1. \A i \in 1 .. k + m : f[i] \in Seq(Rows)
    BY <1>1
  <2>2. a = [i \in 1 .. k |-> f[i]] /\ b = [i \in 1 .. m |-> f[k + i]] /\ c = [i \in 1 .. k + m |-> f[i]]
    OBVIOUS
  <2> HIDE DEF a, b, c
  <2>3. FlattenSeq(a) \in Seq(Rows) /\ FlattenSeq(b) \in Seq(Rows) /\ FlattenSeq(c) = FlattenSeq(a) \o FlattenSeq(b)
    <3>1. AreCut(Rows, k, m, f, a, b, c)
      BY <2>1, <2>2 DEF AreCut
    <3>2. QED  BY ONLY <3>1, FlattenSplit
  <2>4. QED  BY <2>3 DEF a, b, c
<1>5. RowsIn(s, q, d, part(k)) = FlattenSeq([i \in 1 .. k |-> f[i]])
  BY <1>2
<1>6. RowsIn(s, q, d, part(k + m)) = FlattenSeq([i \in 1 .. k + m |-> f[i]])
  BY <1>2
<1>7. QED  BY <1>3, <1>4, <1>5, <1>6 DEF part

LEMMA WholeList ==
  ASSUME NEW S, NEW ids \in Seq(S)
  PROVE  SubSeq(ids, 1, Len(ids)) = ids /\ SubSeq(ids, 1, 0) = <<>>
<1> DEFINE t == SubSeq(ids, 1, Len(ids))
<1>1. Len(ids) \in Nat /\ \A i \in 1 .. Len(ids) : ids[i] \in S
  BY ToSetType
<1>2. t \in Seq(S) /\ Len(t) = Len(ids) /\ \A i \in 1 .. Len(ids) : t[i] = ids[i]
  BY <1>1
<1>3. t = ids
  BY <1>1, <1>2, SeqEqual
<1>4. SubSeq(ids, 1, 0) = <<>>
  BY SubSeqEmpty
<1>5. QED  BY <1>3, <1>4

LEMMA RowsInType ==
  ASSUME NEW s \in Nat, NEW q \in Seq(Whole), NEW d, WholeDisk(d), NEW ids \in Seq(Nat)
  PROVE  RowsIn(s, q, d, ids) \in Seq(Rows)
<1>1. Len(ids) \in Nat /\ Len(ids) + 0 = Len(ids)
  BY LenProperties
<1> DEFINE n == Len(ids)
<1>2. n \in Nat /\ 0 \in Nat /\ n + 0 <= Len(ids)
  BY <1>1
<1> HIDE DEF n
<1>3. RowsIn(s, q, d, SubSeq(ids, 1, n)) \in Seq(Rows)
  <2> DEFINE more == [i \in 1 .. 0 |-> DecodeRows(View(s, q, d, ids[n + i]))]
  <2>1. BlocksBehind(s, q, d, ids, n, 0, more)
    BY <1>2 DEF BlocksBehind
  <2> HIDE DEF more
  <2>2. QED  BY <2>1, RowsInSplit
<1>4. QED  BY <1>3, WholeList DEF n

LEMMA RowsInAppend ==
  ASSUME NEW s \in Nat, NEW q \in Seq(Whole), NEW d, WholeDisk(d), NEW ids \in Seq(Nat), NEW id \in Nat
  PROVE  RowsIn(s, q, d, Append(ids, id)) = RowsIn(s, q, d, ids) \o View(s, q, d, id).rows
<1> DEFINE longer == Append(ids, id)
           n == Len(ids)
           rest == FlattenSeq([i \in 1 .. 1 |-> DecodeRows(View(s, q, d, longer[n + i]))])
<1>1. /\ longer \in Seq(Nat) /\ Len(longer) = n + 1 /\ longer[n + 1] = id /\ n \in Nat
      /\ \A i \in 1 .. n : longer[i] = ids[i]
  BY AppendProperties, LenProperties
<1>2. DecodeRows(View(s, q, d, id)) = View(s, q, d, id).rows /\ View(s, q, d, id).rows \in Seq(Rows)
  BY WholeView, DecodedWhole
<1>3. SubSeq(longer, 1, n) = ids
  <2> DEFINE t == SubSeq(longer, 1, n)
  <2>1. \A i \in 1 .. n : ids[i] \in Nat
    BY ElementOfSeq
  <2>2. t \in Seq(Nat) /\ Len(t) = n /\ \A i \in 1 .. n : t[i] = ids[i]
    <3> HIDE DEF longer
    <3>1. QED  BY <1>1, <2>1
  <2> HIDE DEF t
  <2>3. t = ids
    BY <2>2, SeqEqual
  <2>4. QED  BY <2>3 DEF t
<1>4. SubSeq(longer, 1, n + 1) = longer
  BY <1>1, WholeList
<1> HIDE DEF longer, n
<1>5. rest = View(s, q, d, id).rows
  <2> DEFINE f == [i \in 1 .. 1 |-> DecodeRows(View(s, q, d, longer[n + i]))]
  <2>1. f[1] = View(s, q, d, id).rows
    BY <1>1, <1>2
  <2>2. \A i \in 1 .. 0 + 1 : f[i] \in Seq(Rows)
    BY <1>2, <2>1
  <2>3. FlattenSeq([i \in 1 .. 0 + 1 |-> f[i]]) = FlattenSeq([i \in 1 .. 0 |-> f[i]]) \o f[0 + 1]
    <3> HIDE DEF f
    <3>1. 0 \in Nat
      OBVIOUS
    <3>2. QED  BY ONLY <3>1, <2>2, FlattenNext
  <2>4. [i \in 1 .. 0 + 1 |-> f[i]] = f /\ 0 + 1 = 1
    OBVIOUS
  <2> HIDE DEF f
  <2>5. FlattenSeq([i \in 1 .. 0 |-> f[i]]) = <<>>
    BY FlattenOfNone
  <2>6. FlattenSeq(f) = <<>> \o f[1]
    BY <2>3, <2>4, <2>5
  <2>7. <<>> \o f[1] = f[1]
    BY <1>2, <2>1, ConcatEmptySeq
  <2>8. QED  BY <2>1, <2>6, <2>7 DEF f
<1>6. RowsIn(s, q, d, SubSeq(longer, 1, n + 1)) = RowsIn(s, q, d, SubSeq(longer, 1, n)) \o rest
  <2> DEFINE more == [i \in 1 .. 1 |-> DecodeRows(View(s, q, d, longer[n + i]))]
  <2>1. 1 \in Nat /\ n + 1 <= Len(longer)
    BY <1>1
  <2>2. BlocksBehind(s, q, d, longer, n, 1, more)
    BY <1>1, <2>1 DEF BlocksBehind
  <2> HIDE DEF more
  <2>3. RowsIn(s, q, d, SubSeq(longer, 1, n + 1)) = RowsIn(s, q, d, SubSeq(longer, 1, n)) \o FlattenSeq(more)
    BY <2>2, RowsInSplit
  <2>4. QED  BY <2>3 DEF more
<1>7. QED  BY <1>3, <1>4, <1>5, <1>6 DEF longer

-----------------------------------------------------------------------------
(* The bytes of rows.                                                      *)

UsedBy(rows) == FoldFunction(+, 0, [i \in DOMAIN rows |-> RowSize[rows[i]]])

LEMMA UsedIs ==
  /\ \A r : Used(r) = UsedBy(current_block[r])
BY DEF Used, UsedBy

LEMMA UsedBySum ==
  ASSUME NEW rows
  PROVE  UsedBy(rows) = SumOver([i \in DOMAIN rows |-> RowSize[rows[i]]], DOMAIN rows)
<1> DEFINE f == [i \in DOMAIN rows |-> RowSize[rows[i]]]
<1>1. DOMAIN f = DOMAIN rows
  OBVIOUS
<1> HIDE DEF f
<1>2. FoldFunction(+, 0, f) = SumOver(f, DOMAIN f)
  BY DEF FoldFunction, FoldFunctionOnSet, SumOver, MapThenSumSet
<1>3. QED  BY <1>1, <1>2 DEF UsedBy, f

LEMMA UsedByNone == UsedBy(<<>>) = 0
<1>1. DOMAIN <<>> = {}
  OBVIOUS
<1>2. QED  BY <1>1, UsedBySum, SumEmpty

LEMMA UsedByAppend ==
  ASSUME NEW rows \in Seq(Rows), NEW row \in Rows
  PROVE  /\ UsedBy(rows) \in Nat
         /\ UsedBy(Append(rows, row)) = UsedBy(rows) + RowSize[row]
<1> DEFINE longer == Append(rows, row)
           n == Len(rows)
           f == [i \in DOMAIN rows |-> RowSize[rows[i]]]
           g == [i \in DOMAIN longer |-> RowSize[longer[i]]]
<1>1. /\ longer \in Seq(Rows) /\ Len(longer) = n + 1 /\ longer[n + 1] = row /\ n \in Nat
      /\ \A i \in 1 .. n : longer[i] = rows[i]
      /\ DOMAIN rows = 1 .. n /\ DOMAIN longer = 1 .. n + 1
      /\ \A i \in 1 .. n : rows[i] \in Rows
  BY AppendProperties, LenProperties, ElementOfSeq
<1> HIDE DEF longer, n
<1>2. RowSize \in [Rows -> Nat]
  BY ScratchRunAssumption
<1>3. /\ \A i \in 1 .. n : f[i] = RowSize[rows[i]] /\ f[i] \in Nat /\ g[i] = f[i]
      /\ g[n + 1] = RowSize[row] /\ g[n + 1] \in Nat
  <2>1. \A i \in 1 .. n : i \in 1 .. n + 1
    BY <1>1
  <2>2. n + 1 \in 1 .. n + 1
    BY <1>1
  <2>3. QED  BY <1>1, <1>2, <2>1, <2>2
<1>4. UsedBy(rows) = SumOver(f, 1 .. n)
  BY <1>1, UsedBySum
<1>5. UsedBy(longer) = SumOver(g, 1 .. n + 1)
  BY <1>1, UsedBySum
<1> HIDE DEF f, g
<1>6. IsFiniteSet(1 .. n) /\ n + 1 \notin 1 .. n /\ (1 .. n) \cup {n + 1} = 1 .. n + 1
  <2>1. 1 \in Int /\ n \in Int
    BY <1>1
  <2>2. IsFiniteSet(1 .. n)
    BY <2>1, FS_Interval
  <2>3. n + 1 \notin 1 .. n /\ (1 .. n) \cup {n + 1} = 1 .. n + 1
    BY <1>1
  <2>4. QED  BY <2>2, <2>3
<1>7. SumOver(g, (1 .. n) \cup {n + 1}) = SumOver(g, 1 .. n) + g[n + 1]
  <2> DEFINE S == 1 .. n
             x == n + 1
  <2>1. IsFiniteSet(S) /\ (\A y \in S : g[y] \in Nat) /\ g[x] \in Nat /\ x \notin S
    BY <1>3, <1>6
  <2> HIDE DEF S, x
  <2>2. SumOver(g, S \cup {x}) = SumOver(g, S) + g[x]
    BY ONLY <2>1, SumAdd
  <2>3. QED  BY <2>2 DEF S, x
<1>8. SumOver(g, 1 .. n) = SumOver(f, 1 .. n) /\ SumOver(f, 1 .. n) \in Nat
  BY <1>3, <1>6, SumCongruence, SumType
<1>9. QED  BY <1>3, <1>4, <1>5, <1>6, <1>7, <1>8 DEF longer

-----------------------------------------------------------------------------
(* No two runs share a block.                                              *)

LEMMA SpaceAssumed == SpaceProofs!ScratchSpaceAssumption
BY ScratchRunAssumption DEF SpaceProofs!ScratchSpaceAssumption

LEMMA SpaceStarts == SpaceProofs!Init => SpaceProofs!IInv
BY SpaceProofs!InitIInv, SpaceAssumed

LEMMA SpaceSteps ==
  SpaceProofs!IInv /\ [SpaceProofs!Next]_(SpaceProofs!vars) => SpaceProofs!IInv'
BY SpaceProofs!NextIInv, SpaceAssumed

LEMMA SameSupply ==
  \A r \in Runs :
    /\ Space!WriterBlocks(r) = SpaceProofs!WriterBlocks(r)
    /\ Space!FreeAfterReserve(r) = SpaceProofs!FreeAfterReserve(r)
    /\ Space!NextAfterReserve(r) = SpaceProofs!NextAfterReserve(r)
    /\ Space!RoomLeft(r) = SpaceProofs!RoomLeft(r)
BY SameStretch
   DEF Space!WriterBlocks, SpaceProofs!WriterBlocks,
       Space!ReservedChunk, SpaceProofs!ReservedChunk,
       Space!FreeAfterReserve, SpaceProofs!FreeAfterReserve,
       Space!NextAfterReserve, SpaceProofs!NextAfterReserve,
       Space!RoomLeft, SpaceProofs!RoomLeft

LEMMA SameActions ==
  ASSUME NEW r \in Runs
  PROVE  /\ Space!OpenWriter(r) => SpaceProofs!OpenWriter(r)
         /\ Space!FlushBlock(r) => SpaceProofs!FlushBlock(r)
         /\ Space!Finish(r) => SpaceProofs!Finish(r)
         /\ Space!FlushAndFinish(r) => SpaceProofs!FlushAndFinish(r)
         /\ Space!ReleaseRun(r) => SpaceProofs!ReleaseRun(r)
         /\ Space!Abandon(r) => SpaceProofs!Abandon(r)
BY SameSupply
   DEF Space!OpenWriter, SpaceProofs!OpenWriter, Space!FlushBlock, SpaceProofs!FlushBlock,
       Space!Finish, SpaceProofs!Finish, Space!FlushAndFinish, SpaceProofs!FlushAndFinish,
       Space!ReleaseRun, SpaceProofs!ReleaseRun, Space!Abandon, SpaceProofs!Abandon

LEMMA SameNext == [Space!Next]_(Space!vars) => [SpaceProofs!Next]_(SpaceProofs!vars)
BY SameActions DEF Space!Next, Space!vars, SpaceProofs!Next, SpaceProofs!vars

-----------------------------------------------------------------------------
(* What the writers and readers keep.                                      *)

(* Every row takes bytes, and a block holds fewer of them than its count   *)
(* can tell.                                                               *)
RowsHaveBytes ==
  /\ Payload < CountMod
  /\ \A row \in Rows : RowSize[row] > 0

\* What reader c has fetched of run r: the rows it returned and its buffer.
Fetched(r, c) == RowsIn(pending_start[r], pending[r], disk, SubSeq(block_ids[r], 1, offset[c]))

BlocksAreWhole ==
  /\ pending \in [Runs -> Seq(Whole)]
  /\ WholeDisk(disk)

CountIsExact ==
  \A r \in Runs :
    /\ row_count[r] = Len(current_block[r])
    /\ Len(current_block[r]) <= UsedBy(current_block[r])
    /\ UsedBy(current_block[r]) <= Payload
    /\ phase[r] # "writing" => current_block[r] = <<>>

BufferIsFetched ==
  /\ reading \in [Readers -> Runs \cup {NoRun}]
  /\ offset \in [Readers -> Nat]
  /\ buffer \in [Readers -> Seq(Rows)]
  /\ \A c \in Readers :
       IF reading[c] = NoRun THEN buffer[c] = <<>>
       ELSE /\ phase[reading[c]] = "sealed"
            /\ offset[c] <= Len(block_ids[reading[c]])
            /\ \E p \in Seq(Rows) : Fetched(reading[c], c) = p \o buffer[c]

\* The inductive invariant behind RunStore.
StoreInv ==
  /\ IInv
  /\ SpaceProofs!IInv
  /\ BlocksAreWhole
  /\ CountIsExact
  /\ BufferIsFetched

LEMMA ContentsAre ==
  \A r \in Runs : Contents(r) = RowsIn(pending_start[r], pending[r], disk, block_ids[r]) \o current_block[r]
BY RowsOfBlocksAre DEF Contents

LEMMA ContentsBecome ==
  ASSUME NEW r \in Runs
  PROVE  Contents(r)' = RowsIn(pending_start'[r], pending'[r], disk', block_ids'[r]) \o current_block'[r]
<1>1. \A ids : RowsOfBlocks(r, ids)' = RowsIn(pending_start'[r], pending'[r], disk', ids)
  BY DEF RowsOfBlocks, RowsIn, ImageOf, View, On, Missing, DecodeRows
<1>2. RowsOfBlocks(r, block_ids[r])' = RowsIn(pending_start'[r], pending'[r], disk', block_ids'[r])
  BY DEF RowsOfBlocks, RowsIn, ImageOf, View, On, Missing, DecodeRows
<1>3. QED  BY <1>2 DEF Contents

LEMMA PositionIs ==
  \A c \in Readers :
     Position[c] = IF reading[c] = NoRun THEN 0 ELSE Len(Fetched(reading[c], c)) - Len(buffer[c])
<1> SUFFICES ASSUME NEW c \in Readers 
    PROVE Position[c] = IF reading[c] = NoRun THEN 0 ELSE Len(Fetched(reading[c], c)) - Len(buffer[c])
  OBVIOUS
<1>1. \A r, ids : RowsOfBlocks(r, ids) = RowsIn(pending_start[r], pending[r], disk, ids)
  BY DEF RowsOfBlocks, RowsIn, ImageOf, View, On, Missing
<1>2. QED  BY <1>1 DEF Position, Fetched

LEMMA PositionBecomes ==
  ASSUME NEW c \in Readers
  PROVE  Position'[c] = IF reading'[c] = NoRun THEN 0
                        ELSE Len(Fetched(reading[c], c)') - Len(buffer'[c])
<1>1. RowsOfBlocks(reading[c], SubSeq(block_ids[reading[c]], 1, offset[c]))' = Fetched(reading[c], c)'
  BY DEF RowsOfBlocks, RowsIn, ImageOf, View, On, Missing, DecodeRows, Fetched
<1>2. QED  BY <1>1 DEF Position

LEMMA InitStoreInv == Init => StoreInv
<1> SUFFICES ASSUME Init PROVE StoreInv
  OBVIOUS
<1>1. IInv
  BY InitIInv
<1>2. SpaceProofs!IInv
  <2>1. ToSet(<<>>) = {}
    BY DEF ToSet
  <2>2. Held = [r \in Runs |-> {}]
    BY <2>1 DEF Init, Held
  <2>3. SpaceProofs!Init
    BY <2>2 DEF Init, SpaceProofs!Init
  <2>4. QED  BY <2>3, SpaceStarts
<1>3. <<>> \in Seq(Whole) /\ <<>> \in Seq(Rows) /\ Len(<<>>) = 0
  BY EmptySeq
<1>4. BlocksAreWhole
  BY <1>3 DEF Init, BlocksAreWhole, WholeDisk
<1>5. CountIsExact
  BY <1>3, UsedByNone, ScratchRunAssumption DEF Init, CountIsExact
<1>6. BufferIsFetched
  BY <1>3 DEF Init, BufferIsFetched
<1>7. QED  BY <1>1, <1>2, <1>4, <1>5, <1>6 DEF StoreInv

\* The blocks a step of one run writes belong to no other run.
LEMMA BlocksAreApart ==
  ASSUME StoreInv, NEW r \in Runs
  PROVE  /\ \A q \in Runs \ {r} : \A i \in 1 .. Len(block_ids[q]) :
              block_ids[q][i] \notin pending_start[r] .. pending_start[r] + Len(pending[r]) - 1
         /\ \A q \in Runs : \A i \in 1 .. Len(block_ids[q]) : block_ids[q][i] # FlushedBlock(r).id
<1>1. /\ block_ids[r] \in Seq(Nat) /\ pending_start[r] \in Nat /\ pending[r] \in Seq(Whole)
      /\ Len(block_ids[r]) \in Nat /\ Len(pending[r]) \in Nat
      /\ BatchIsTail(block_ids[r], pending_start[r], pending[r], disk)
  BY PendingIsTailOfRuns, LenProperties DEF StoreInv, BlocksAreWhole, IInv, TypeInv
<1>2. ASSUME NEW q \in Runs, NEW i \in 1 .. Len(block_ids[q])
      PROVE  block_ids[q][i] \in Held[q]
  BY DEF Held, ToSet
<1>3. ASSUME NEW b \in pending_start[r] .. pending_start[r] + Len(pending[r]) - 1
      PROVE  b \in Held[r]
  <2> DEFINE i == b - pending_start[r] + 1
             n == Len(block_ids[r]) - Len(pending[r])
  <2>1. i \in 1 .. Len(pending[r]) /\ pending_start[r] + i - 1 = b
    <3>1. /\ pending_start[r] \in Nat /\ Len(pending[r]) \in Nat
          /\ b \in pending_start[r] .. pending_start[r] + Len(pending[r]) - 1
      BY <1>1
    <3>2. QED  BY ONLY <3>1
  <2>2. /\ Len(pending[r]) <= Len(block_ids[r])
        /\ \A k \in 1 .. Len(pending[r]) : block_ids[r][n + k] = pending_start[r] + k - 1
    BY <1>1 DEF BatchIsTail
  <2>3. n \in Nat /\ n + Len(pending[r]) = Len(block_ids[r])
    BY <1>1, <2>2
  <2> HIDE DEF n, i
  <2>4. block_ids[r][n + i] = b
    BY <2>1, <2>2
  <2>5. n + i \in 1 .. Len(block_ids[r])
    BY <1>1, <2>1, <2>3
  <2>6. QED  BY <1>2, <2>4, <2>5
<1>4. \A q \in Runs \ {r} : Held[q] \cap Held[r] = {}
  BY DEF StoreInv, SpaceProofs!IInv, SpaceProofs!ExclusiveBlocks, SpaceProofs!OwnedBy
<1>5. \A q \in Runs : Held[q] \cap Space!WriterBlocks(r) = {}
  <2>1. SpaceProofs!Supply(r, SpaceProofs!WriterBlocks(r), SpaceProofs!FreeAfterReserve(r),
                           SpaceProofs!NextAfterReserve(r))
    BY SpaceAssumed, SpaceProofs!WriterBlocksSupply DEF StoreInv
  <2>2. QED  BY <2>1, SameSupply DEF SpaceProofs!Supply
<1>6. FlushedBlock(r).id \in Space!WriterBlocks(r)
  BY FlushedFacts DEF StoreInv
<1>7. QED  BY <1>2, <1>3, <1>4, <1>5, <1>6

-----------------------------------------------------------------------------
(* A step of one run leaves the others and all readers as they are.        *)

SameOnDisk(q, d) == \A i \in 1 .. Len(block_ids[q]) : On(d, block_ids[q][i]) = On(disk, block_ids[q][i])

OnlyRunMoves(r) ==
  /\ UNCHANGED readerVars
  /\ \A q \in Runs \ {r} :
       /\ phase'[q] = phase[q]
       /\ block_ids'[q] = block_ids[q]
       /\ current_block'[q] = current_block[q]
       /\ row_count'[q] = row_count[q]
       /\ pending_start'[q] = pending_start[q]
       /\ pending'[q] = pending[q]
       /\ SameOnDisk(q, disk')

LEMMA FrameContents ==
  ASSUME NEW r \in Runs, OnlyRunMoves(r)
  PROVE  Pushed' = [Pushed EXCEPT ![r] = Contents(r)']
<1>1. ASSUME NEW q \in Runs \ {r} PROVE Contents(q)' = Contents(q)
  <2>1. \A i \in 1 .. Len(block_ids[q]) :
          View(pending_start[q], pending[q], disk', block_ids[q][i])
            = View(pending_start[q], pending[q], disk, block_ids[q][i])
    BY DEF OnlyRunMoves, SameOnDisk, View
  <2>2. RowsIn(pending_start[q], pending[q], disk', block_ids[q])
          = RowsIn(pending_start[q], pending[q], disk, block_ids[q])
    BY <2>1, SameRowsIn
  <2>3. QED  BY ZenonT(60), <2>2, ContentsAre, ContentsBecome DEF OnlyRunMoves
<1>2. Pushed' = [q \in Runs |-> Contents(q)']
  BY DEF Pushed
<1>3. QED  BY <1>1, <1>2 DEF Pushed

LEMMA FrameFetched ==
  ASSUME StoreInv, NEW r \in Runs, OnlyRunMoves(r), NEW c \in Readers, reading[c] # NoRun, reading[c] # r
  PROVE  Fetched(reading[c], c)' = Fetched(reading[c], c)
<1> DEFINE q == reading[c]
           ids == SubSeq(block_ids[q], 1, offset[c])
<1>1. /\ q \in Runs \ {r} /\ offset[c] \in Nat /\ offset[c] <= Len(block_ids[q])
      /\ block_ids[q] \in Seq(Nat) /\ Len(block_ids[q]) \in Nat
  BY LenProperties DEF StoreInv, BufferIsFetched, IInv, TypeInv
<1>2. reading' = reading /\ offset' = offset
  BY DEF OnlyRunMoves, readerVars
<1>3. /\ block_ids'[q] = block_ids[q] /\ pending_start'[q] = pending_start[q] /\ pending'[q] = pending[q]
      /\ SameOnDisk(q, disk')
  BY <1>1 DEF OnlyRunMoves
<1> HIDE DEF q
<1>4. Len(ids) = offset[c] /\ \A i \in 1 .. offset[c] : ids[i] = block_ids[q][i]
  BY <1>1
<1> HIDE DEF ids
<1>5. \A i \in 1 .. Len(ids) : On(disk', ids[i]) = On(disk, ids[i])
  BY <1>1, <1>3, <1>4 DEF SameOnDisk
<1>6. \A i \in 1 .. Len(ids) : View(pending_start[q], pending[q], disk', ids[i])
                                = View(pending_start[q], pending[q], disk, ids[i])
  BY <1>5 DEF View
<1>7. RowsIn(pending_start[q], pending[q], disk', ids) = RowsIn(pending_start[q], pending[q], disk, ids)
  BY <1>6, SameRowsIn
<1>8. QED  BY <1>2, <1>3, <1>7 DEF Fetched, q, ids

LEMMA FrameReaders ==
  ASSUME StoreInv, NEW r \in Runs, NobodyReads(r), OnlyRunMoves(r)
  PROVE  Position' = Position /\ BufferIsFetched'
<1>1. reading' = reading /\ offset' = offset /\ buffer' = buffer
  BY DEF OnlyRunMoves, readerVars
<1>2. \A c \in Readers : reading[c] # NoRun => reading[c] \in Runs \ {r}
  BY DEF NobodyReads, StoreInv, BufferIsFetched
<1>3. \A c \in Readers : reading[c] # NoRun => Fetched(reading[c], c)' = Fetched(reading[c], c)
  BY <1>2, FrameFetched
<1>4. Position' = Position
  <2>1. \A c \in Readers : Position'[c] = Position[c]
    BY <1>1, <1>3, PositionIs, PositionBecomes
  <2>2. Position' = [c \in Readers |-> Position'[c]] /\ Position = [c \in Readers |-> Position[c]]
    BY DEF Position
  <2>3. QED  BY <2>1, <2>2
<1>5. BufferIsFetched'
  <2>1. /\ reading' \in [Readers -> Runs \cup {NoRun}]
        /\ offset' \in [Readers -> Nat]
        /\ buffer' \in [Readers -> Seq(Rows)]
    BY <1>1 DEF StoreInv, BufferIsFetched
  <2>2. ASSUME NEW c \in Readers, reading'[c] = NoRun PROVE buffer'[c] = <<>>
    BY <1>1, <2>2 DEF StoreInv, BufferIsFetched
  <2>3. ASSUME NEW c \in Readers, reading'[c] # NoRun
        PROVE  /\ phase'[reading'[c]] = "sealed"
               /\ offset'[c] <= Len(block_ids'[reading'[c]])
               /\ \E p \in Seq(Rows) : Fetched(reading[c], c)' = p \o buffer'[c]
    <3>1. reading[c] # NoRun /\ reading[c] \in Runs \ {r}
      BY <1>1, <1>2, <2>3
    <3>2. /\ phase[reading[c]] = "sealed" /\ offset[c] <= Len(block_ids[reading[c]])
          /\ \E p \in Seq(Rows) : Fetched(reading[c], c) = p \o buffer[c]
      BY <3>1 DEF StoreInv, BufferIsFetched
    <3>3. phase'[reading[c]] = phase[reading[c]] /\ block_ids'[reading[c]] = block_ids[reading[c]]
      BY <3>1 DEF OnlyRunMoves
    <3>4. QED  BY <1>1, <1>3, <3>1, <3>2, <3>3
  <2>4. QED  BY <2>1, <2>2, <2>3 DEF BufferIsFetched
<1>6. QED  BY <1>4, <1>5

-----------------------------------------------------------------------------
(* The rows of a run after flush_block and flush_pending_blocks.           *)

LEMMA FlushedRows ==
  ASSUME StoreInv, NEW r \in Runs
  PROVE  LET flushed == FlushedBlock(r)
             batch == flushed.batch
             ids == Append(block_ids[r], flushed.id)
             d == WriteBlocks(batch.disk, batch.start, batch.queue)
         IN  /\ batch.queue \in Seq(Whole) /\ WholeDisk(batch.disk) /\ WholeDisk(d)
             /\ RowsIn(batch.start, batch.queue, batch.disk, ids) = Contents(r)
             /\ RowsIn(0, <<>>, d, ids) = Contents(r)
             /\ Contents(r) \in Seq(Rows)
             /\ \A q \in Runs \ {r} : SameOnDisk(q, batch.disk) /\ SameOnDisk(q, d)
<1> DEFINE id == FlushedBlock(r).id
           batch == FlushedBlock(r).batch
           image == BlockImage(r)
           old == block_ids[r]
           ids == Append(old, id)
           range == pending_start[r] .. pending_start[r] + Len(pending[r]) - 1
           d == WriteBlocks(batch.disk, batch.start, batch.queue)
<1>1. /\ pending_start[r] \in Nat /\ pending[r] \in Seq(Whole) /\ WholeDisk(disk)
      /\ old \in Seq(Nat) /\ current_block[r] \in Seq(Rows)
  BY DEF StoreInv, BlocksAreWhole, IInv, TypeInv
<1>2. id \in Nat /\ batch.start \in Nat
  BY FlushedFacts DEF StoreInv
<1>3. image \in Whole /\ image.rows = current_block[r]
  <2>1. row_count[r] \in Nat /\ row_count[r] = Len(current_block[r])
    BY DEF StoreInv, CountIsExact, IInv, TypeInv
  <2>2. QED  BY <1>1, <2>1 DEF BlockImage, Whole, Images
<1>4. batch = QueueBlockWrite(pending_start[r], pending[r], id, image, disk)
  BY DEF FlushedBlock
<1>5. /\ \A q \in Runs \ {r} : \A i \in 1 .. Len(block_ids[q]) : block_ids[q][i] \notin range \cup {id}
      /\ \A i \in 1 .. Len(old) : old[i] # id
  BY BlocksAreApart
<1> HIDE DEF id, batch, image
<1>6. batch.queue \in Seq(Whole) /\ WholeDisk(batch.disk)
  BY <1>1, <1>2, <1>3, <1>4, QueuedWhole
<1>7. WholeDisk(d)
  BY <1>2, <1>6, WrittenWhole
<1>8. ASSUME NEW b \in Nat
      PROVE  /\ View(batch.start, batch.queue, batch.disk, b)
                  = IF b = id THEN image ELSE View(pending_start[r], pending[r], disk, b)
             /\ b \notin range \cup {id} => On(batch.disk, b) = On(disk, b)
  <2> DEFINE s == pending_start[r]
             queue == pending[r]
  <2>1. s \in Nat /\ queue \in Seq(Whole)
    BY <1>1
  <2>2. batch = QueueBlockWrite(s, queue, id, image, disk)
    BY <1>4
  <2> HIDE DEF s, queue
  <2>3. LET w == QueueBlockWrite(s, queue, id, image, disk)
        IN  /\ View(w.start, w.queue, w.disk, b)
                 = IF b = id THEN image ELSE View(s, queue, disk, b)
            /\ b \notin (s .. s + Len(queue) - 1) \cup {id} => On(w.disk, b) = On(disk, b)
    <3>1. s \in Nat /\ queue \in Seq(Whole) /\ id \in Nat /\ image \in Whole /\ b \in Nat
      BY <1>2, <1>3, <2>1
    <3>2. QED  BY ONLY <3>1, QueuedView
  <2>4. QED  BY <2>2, <2>3 DEF s, queue
<1>9. ASSUME NEW b \in Nat
      PROVE  On(d, b) = View(batch.start, batch.queue, batch.disk, b)
  BY <1>2, <1>6, WrittenView
<1>10. RowsIn(batch.start, batch.queue, batch.disk, ids) = Contents(r)
  <2>1. RowsIn(batch.start, batch.queue, batch.disk, ids)
          = RowsIn(batch.start, batch.queue, batch.disk, old)
              \o View(batch.start, batch.queue, batch.disk, id).rows
    BY <1>1, <1>2, <1>6, RowsInAppend
  <2>2. View(batch.start, batch.queue, batch.disk, id).rows = current_block[r]
    BY <1>2, <1>3, <1>8
  <2>3. ASSUME NEW i \in 1 .. Len(old)
        PROVE  View(batch.start, batch.queue, batch.disk, old[i])
                 = View(pending_start[r], pending[r], disk, old[i])
    BY <1>1, <1>5, <1>8, ElementOfSeq
  <2>4. RowsIn(batch.start, batch.queue, batch.disk, old) = RowsIn(pending_start[r], pending[r], disk, old)
    BY <2>3, SameRowsIn
  <2>5. QED  BY <2>1, <2>2, <2>4, ContentsAre
<1>11. RowsIn(0, <<>>, d, ids) = Contents(r)
  <2>1. ids \in Seq(Nat)
    BY <1>1, <1>2, AppendProperties
  <2>2. ASSUME NEW i \in 1 .. Len(ids)
        PROVE  View(0, <<>>, d, ids[i]) = View(batch.start, batch.queue, batch.disk, ids[i])
    <3>1. ids[i] \in Nat
      BY <2>1, ElementOfSeq
    <3>2. View(0, <<>>, d, ids[i]) = On(d, ids[i])
      BY ViewOfNone
    <3>3. QED  BY <1>9, <3>1, <3>2
  <2>3. RowsIn(0, <<>>, d, ids) = RowsIn(batch.start, batch.queue, batch.disk, ids)
    <3> HIDE DEF ids, d
    <3>1. \A i \in 1 .. Len(ids) :
            View(0, <<>>, d, ids[i]) = View(batch.start, batch.queue, batch.disk, ids[i])
      BY <2>2
    <3>2. QED  BY ONLY <3>1, SameRowsIn
  <2>4. QED  BY <1>10, <2>3
<1>12. Contents(r) \in Seq(Rows)
  <2>1. RowsIn(pending_start[r], pending[r], disk, old) \in Seq(Rows)
    BY <1>1, RowsInType
  <2>2. QED  BY <1>1, <2>1, ContentsAre, ConcatProperties
<1>13. ASSUME NEW q \in Runs \ {r} PROVE SameOnDisk(q, batch.disk) /\ SameOnDisk(q, d)
  <2>1. block_ids[q] \in Seq(Nat)
    BY DEF StoreInv, IInv, TypeInv
  <2> SUFFICES ASSUME NEW i \in 1 .. Len(block_ids[q])
               PROVE  /\ On(batch.disk, block_ids[q][i]) = On(disk, block_ids[q][i])
                      /\ On(d, block_ids[q][i]) = On(disk, block_ids[q][i])
    BY DEF SameOnDisk
  <2>2. block_ids[q][i] \in Nat /\ block_ids[q][i] \notin range \cup {id}
    BY <1>5, <2>1, ElementOfSeq
  <2>3. View(pending_start[r], pending[r], disk, block_ids[q][i]) = On(disk, block_ids[q][i])
    BY <2>2 DEF View
  <2>4. QED  BY <1>8, <1>9, <2>2, <2>3
<1>14. QED  BY <1>6, <1>7, <1>10, <1>11, <1>12, <1>13 DEF id, batch

-----------------------------------------------------------------------------
(* The steps of writers and runs.                                          *)

LEMMA OnlySealedRead ==
  ASSUME StoreInv, NEW r \in Runs, phase[r] # "sealed"
  PROVE  NobodyReads(r)
BY ScratchRunAssumption DEF StoreInv, BufferIsFetched, NobodyReads

\* The count of the run that moves is all there is to show.
LEMMA FrameCount ==
  ASSUME StoreInv, NEW r \in Runs, OnlyRunMoves(r),
         /\ row_count'[r] = Len(current_block'[r])
         /\ Len(current_block'[r]) <= UsedBy(current_block'[r])
         /\ UsedBy(current_block'[r]) <= Payload
         /\ phase'[r] # "writing" => current_block'[r] = <<>>
  PROVE  CountIsExact'
<1> SUFFICES ASSUME NEW q \in Runs
             PROVE  /\ row_count'[q] = Len(current_block'[q])
                    /\ Len(current_block'[q]) <= UsedBy(current_block'[q])
                    /\ UsedBy(current_block'[q]) <= Payload
                    /\ phase'[q] # "writing" => current_block'[q] = <<>>
  BY DEF CountIsExact
<1>1. CASE q = r
  BY <1>1
<1>2. CASE q # r
  <2>1. /\ row_count'[q] = row_count[q] /\ current_block'[q] = current_block[q]
        /\ phase'[q] = phase[q]
    BY <1>2 DEF OnlyRunMoves
  <2>2. /\ row_count[q] = Len(current_block[q])
        /\ Len(current_block[q]) <= UsedBy(current_block[q])
        /\ UsedBy(current_block[q]) <= Payload
        /\ phase[q] # "writing" => current_block[q] = <<>>
    BY DEF StoreInv, CountIsExact
  <2>3. QED  BY <2>1, <2>2
<1>3. QED  BY <1>1, <1>2

LEMMA EmptyCount == Len(<<>>) = 0 /\ UsedBy(<<>>) = 0 /\ 0 <= Payload
BY EmptySeq, UsedByNone, ScratchRunAssumption

LEMMA OpenIsOpen ==
  ASSUME StoreInv, NEW r \in Runs, OpenWriter(r)
  PROVE  BlocksAreWhole' /\ CountIsExact' /\ BufferIsFetched' /\ Store!Open(r)
<1>1. OnlyRunMoves(r)
  BY DEF OpenWriter, OnlyRunMoves, SameOnDisk, writerVars, StoreInv, IInv, TypeInv
<1>2. NobodyReads(r)
  BY OnlySealedRead DEF OpenWriter
<1>3. Contents(r)' = Contents(r)
  BY ContentsAre, ContentsBecome DEF OpenWriter, writerVars
<1>4. Pushed' = Pushed
  BY <1>1, <1>3, FrameContents DEF Pushed
<1>5. Position' = Position /\ BufferIsFetched'
  BY <1>1, <1>2, FrameReaders
<1>6. BlocksAreWhole'
  BY DEF OpenWriter, writerVars, StoreInv, BlocksAreWhole, WholeDisk
<1>7. CountIsExact'
  <2>1. current_block'[r] = <<>> /\ row_count'[r] = 0
    BY EmptyCount DEF OpenWriter, writerVars, StoreInv, CountIsExact
  <2>2. QED  BY <1>1, <2>1, EmptyCount, FrameCount
<1>8. QED  BY <1>4, <1>5, <1>6, <1>7 DEF OpenWriter, Store!Open, readerVars

LEMMA PushIsPush ==
  ASSUME StoreInv, RowsHaveBytes, NEW r \in Runs, NEW row \in Rows, PushRow(r, row)
  PROVE  BlocksAreWhole' /\ CountIsExact' /\ BufferIsFetched' /\ Store!Push(r, row)
<1> DEFINE cur == current_block[r]
           rows == RowsIn(pending_start[r], pending[r], disk, block_ids[r])
<1>0. /\ phase[r] = "writing" /\ Used(r) + RowSize[row] <= Payload
      /\ current_block' = [current_block EXCEPT ![r] = Append(@, row)]
      /\ row_count' = [row_count EXCEPT ![r] = (@ + 1) % CountMod]
      /\ UNCHANGED <<opened, spaceVars, phase, block_ids, pending_start, pending, disk, readerVars>>
  BY DEF PushRow, MayPush
<1>1. /\ current_block \in [Runs -> Seq(Rows)] /\ row_count \in [Runs -> Nat]
      /\ pending_start[r] \in Nat /\ pending[r] \in Seq(Whole) /\ WholeDisk(disk)
      /\ block_ids[r] \in Seq(Nat) /\ cur \in Seq(Rows)
  BY DEF StoreInv, BlocksAreWhole, IInv, TypeInv
<1>2. OnlyRunMoves(r)
  BY <1>0, <1>1 DEF OnlyRunMoves, SameOnDisk
<1>3. NobodyReads(r)
  BY <1>0, OnlySealedRead
<1>4. current_block'[r] = Append(cur, row) /\ row_count'[r] = (row_count[r] + 1) % CountMod
  BY <1>0, <1>1
<1>5. Contents(r)' = Append(Contents(r), row)
  <2>1. rows \in Seq(Rows)
    BY <1>1, RowsInType
  <2>2. Contents(r) = rows \o cur
    BY ContentsAre
  <2>3. Contents(r)' = rows \o Append(cur, row)
    BY <1>0, <1>4, ContentsBecome
  <2> HIDE DEF rows, cur
  <2>4. rows \o Append(cur, row) = Append(rows \o cur, row)
    BY SMTT(30), <1>1, <2>1
  <2>5. QED  BY <2>2, <2>3, <2>4
<1>6. Pushed' = [Pushed EXCEPT ![r] = Append(@, row)]
  <2>1. Pushed[r] = Contents(r) /\ DOMAIN Pushed = Runs
    BY DEF Pushed
  <2>2. QED  BY <1>2, <1>5, <2>1, FrameContents
<1>7. Position' = Position /\ BufferIsFetched'
  BY <1>2, <1>3, FrameReaders
<1>8. BlocksAreWhole'
  BY <1>0 DEF StoreInv, BlocksAreWhole, WholeDisk
<1>9. CountIsExact'
  <2>1. /\ row_count[r] = Len(cur) /\ Len(cur) <= UsedBy(cur) /\ Used(r) = UsedBy(cur)
    BY UsedIs DEF StoreInv, CountIsExact
  <2>2. UsedBy(Append(cur, row)) = UsedBy(cur) + RowSize[row] /\ UsedBy(cur) \in Nat
    BY <1>1, UsedByAppend
  <2>3. Len(Append(cur, row)) = Len(cur) + 1 /\ Len(cur) \in Nat
    BY <1>1, AppendProperties, LenProperties
  <2>4. RowSize[row] \in Nat /\ RowSize[row] > 0 /\ Payload \in Nat /\ CountMod \in Nat /\ Payload < CountMod
    BY ScratchRunAssumption DEF RowsHaveBytes
  <2> HIDE DEF cur
  <2>5. (Len(cur) + 1) % CountMod = Len(cur) + 1
    <3>1. Len(cur) + 1 \in 0 .. CountMod - 1
      BY <1>0, <2>1, <2>2, <2>3, <2>4
    <3>2. QED  BY <2>4, <3>1
  <2>6. /\ row_count'[r] = Len(current_block'[r])
        /\ Len(current_block'[r]) <= UsedBy(current_block'[r])
        /\ UsedBy(current_block'[r]) <= Payload
    <3>1. /\ Len(current_block'[r]) = Len(cur) + 1
          /\ UsedBy(current_block'[r]) = UsedBy(cur) + RowSize[row]
          /\ row_count'[r] = Len(cur) + 1
      BY <1>4, <2>1, <2>2, <2>3, <2>5
    <3>2. UsedBy(cur) + RowSize[row] <= Payload
      BY <1>0, <2>1
    <3>3. Len(cur) + 1 <= UsedBy(cur) + RowSize[row]
      BY <2>1, <2>2, <2>3, <2>4
    <3>4. QED  BY ONLY <3>1, <3>2, <3>3
  <2>7. phase'[r] = "writing"
    BY <1>0
  <2>8. QED  BY <1>2, <2>6, <2>7, FrameCount
<1>10. QED  BY <1>0, <1>6, <1>7, <1>8, <1>9 DEF Store!Push, readerVars

LEMMA FlushAndPushIsPush ==
  ASSUME StoreInv, RowsHaveBytes, NEW r \in Runs, NEW row \in Rows, FlushAndPushRow(r, row)
  PROVE  BlocksAreWhole' /\ CountIsExact' /\ BufferIsFetched' /\ Store!Push(r, row)
<1> DEFINE flushed == FlushedBlock(r)
<1>0. /\ phase[r] = "writing" /\ RowSize[row] <= Payload
      /\ block_ids' = [block_ids EXCEPT ![r] = Append(@, flushed.id)]
      /\ pending_start' = [pending_start EXCEPT ![r] = flushed.batch.start]
      /\ pending' = [pending EXCEPT ![r] = flushed.batch.queue]
      /\ disk' = flushed.batch.disk
      /\ current_block' = [current_block EXCEPT ![r] = <<row>>]
      /\ row_count' = [row_count EXCEPT ![r] = 1 % CountMod]
      /\ UNCHANGED <<opened, phase, leaked, readerVars>>
  BY DEF FlushAndPushRow, MayPush, FlushTo
<1>1. /\ current_block \in [Runs -> Seq(Rows)] /\ row_count \in [Runs -> Nat]
      /\ pending_start \in [Runs -> Nat] /\ pending \in [Runs -> Seq(Whole)]
      /\ block_ids \in [Runs -> Seq(Nat)]
  BY DEF StoreInv, BlocksAreWhole, IInv, TypeInv
<1>2. /\ flushed.batch.queue \in Seq(Whole) /\ WholeDisk(flushed.batch.disk)
      /\ RowsIn(flushed.batch.start, flushed.batch.queue, flushed.batch.disk,
                Append(block_ids[r], flushed.id)) = Contents(r)
      /\ Contents(r) \in Seq(Rows)
      /\ \A q \in Runs \ {r} : SameOnDisk(q, flushed.batch.disk)
  BY FlushedRows
<1> HIDE DEF flushed
<1>3. OnlyRunMoves(r)
  BY <1>0, <1>1, <1>2 DEF OnlyRunMoves
<1>4. NobodyReads(r)
  BY <1>0, OnlySealedRead
<1>5. /\ block_ids'[r] = Append(block_ids[r], flushed.id) /\ pending_start'[r] = flushed.batch.start
      /\ pending'[r] = flushed.batch.queue /\ current_block'[r] = <<row>> /\ row_count'[r] = 1 % CountMod
  BY <1>0, <1>1
<1>6. Contents(r)' = Append(Contents(r), row)
  <2>1. Contents(r)' = Contents(r) \o <<row>>
    BY <1>0, <1>2, <1>5, ContentsBecome
  <2>2. Contents(r) \o <<row>> = Append(Contents(r), row)
    <3> DEFINE x == Contents(r)
    <3>1. x \in Seq(Rows)
      BY <1>2
    <3> HIDE DEF x
    <3>2. x \o <<row>> = Append(x, row)
      BY <3>1
    <3>3. QED  BY <3>2 DEF x
  <2>3. QED  BY <2>1, <2>2
<1>7. Pushed' = [Pushed EXCEPT ![r] = Append(@, row)]
  <2>1. Pushed[r] = Contents(r) /\ DOMAIN Pushed = Runs
    BY DEF Pushed
  <2>2. QED  BY <1>3, <1>6, <2>1, FrameContents
<1>8. Position' = Position /\ BufferIsFetched'
  BY <1>3, <1>4, FrameReaders
<1>9. BlocksAreWhole'
  <2>1. pending' \in [Runs -> Seq(Whole)] /\ WholeDisk(disk')
    BY <1>0, <1>1, <1>2
  <2>2. QED  BY <2>1 DEF BlocksAreWhole, WholeDisk
<1>10. CountIsExact'
  <2>1. <<>> \in Seq(Rows) /\ Append(<<>>, row) = <<row>> /\ Len(<<row>>) = 1
    BY EmptySeq
  <2>2. UsedBy(<<row>>) = 0 + RowSize[row]
    BY <2>1, UsedByAppend, UsedByNone
  <2>3. RowSize[row] \in Nat /\ RowSize[row] > 0 /\ Payload \in Nat /\ CountMod \in Nat /\ Payload < CountMod
    BY ScratchRunAssumption DEF RowsHaveBytes
  <2>4. 1 % CountMod = 1
    BY <1>0, <2>3
  <2>5. phase'[r] = "writing"
    BY <1>0
  <2>6. /\ row_count'[r] = Len(current_block'[r])
        /\ Len(current_block'[r]) <= UsedBy(current_block'[r])
        /\ UsedBy(current_block'[r]) <= Payload
    <3>1. /\ Len(current_block'[r]) = 1
          /\ UsedBy(current_block'[r]) = RowSize[row]
          /\ row_count'[r] = 1
      BY <1>5, <2>1, <2>2, <2>3, <2>4
    <3>2. RowSize[row] <= Payload /\ 1 <= RowSize[row]
      BY <1>0, <2>3
    <3>3. QED  BY ONLY <3>1, <3>2
  <2>7. QED  BY <1>3, <2>5, <2>6, FrameCount
<1>11. QED  BY <1>0, <1>7, <1>8, <1>9, <1>10 DEF Store!Push, readerVars

\* The run has been written: what a reader finds is all on the disk.
LEMMA FinishEmptyIsSeal ==
  ASSUME StoreInv, NEW r \in Runs, FinishEmpty(r)
  PROVE  BlocksAreWhole' /\ CountIsExact' /\ BufferIsFetched' /\ Store!Seal(r)
<1> DEFINE start == pending_start[r]
           queue == pending[r]
           ids == block_ids[r]
           d == WriteBlocks(disk, start, queue)
<1>0. /\ phase[r] = "writing" /\ row_count[r] = 0
      /\ phase' = [phase EXCEPT ![r] = "sealed"]
      /\ current_block' = [current_block EXCEPT ![r] = <<>>]
      /\ row_count' = [row_count EXCEPT ![r] = 0]
      /\ pending_start' = [pending_start EXCEPT ![r] = 0]
      /\ pending' = [pending EXCEPT ![r] = <<>>]
      /\ disk' = d /\ block_ids' = block_ids /\ UNCHANGED readerVars
  BY DEF FinishEmpty, Seal
<1>1. /\ current_block \in [Runs -> Seq(Rows)] /\ row_count \in [Runs -> Nat]
      /\ pending_start \in [Runs -> Nat] /\ pending \in [Runs -> Seq(Whole)]
      /\ block_ids \in [Runs -> Seq(Nat)] /\ WholeDisk(disk)
      /\ phase \in [Runs -> {"unused", "writing", "sealed"}]
  BY DEF StoreInv, BlocksAreWhole, IInv, TypeInv
<1>2. start \in Nat /\ queue \in Seq(Whole) /\ ids \in Seq(Nat) /\ <<>> \in Seq(Whole)
  BY <1>1, EmptySeq
<1>3. current_block[r] = <<>>
  <2>1. current_block[r] \in Seq(Rows) /\ Len(current_block[r]) = 0
    BY <1>0, <1>1 DEF StoreInv, CountIsExact
  <2>2. QED  BY <2>1, EmptySeq
<1>4. \A q \in Runs \ {r} : \A i \in 1 .. Len(block_ids[q]) :
        block_ids[q][i] \notin start .. start + Len(queue) - 1
  BY BlocksAreApart
<1> HIDE DEF start, queue, ids
<1>5. \A b : On(d, b) = View(start, queue, disk, b)
  BY <1>2, WrittenView
<1>6. WholeDisk(d)
  BY <1>1, <1>2, WrittenWhole
<1> HIDE DEF d
<1>7. OnlyRunMoves(r)
  <2>1. \A q \in Runs \ {r} : SameOnDisk(q, d)
    BY <1>4, <1>5 DEF SameOnDisk, View
  <2>2. QED  BY <1>0, <1>1, <2>1 DEF OnlyRunMoves
<1>8. NobodyReads(r)
  BY <1>0, OnlySealedRead
<1>9. Contents(r)' = Contents(r)
  <2>1. \A i \in 1 .. Len(ids) : View(0, <<>>, d, ids[i]) = View(start, queue, disk, ids[i])
    BY <1>5, ViewOfNone
  <2>2. RowsIn(0, <<>>, d, ids) = RowsIn(start, queue, disk, ids)
    BY ONLY <2>1, SameRowsIn
  <2>3. Contents(r)' = RowsIn(0, <<>>, d, ids) \o <<>>
    BY <1>0, <1>1, ContentsBecome DEF ids
  <2>4. Contents(r) = RowsIn(start, queue, disk, ids) \o <<>>
    BY <1>3, ContentsAre DEF ids, start, queue
  <2>5. QED  BY <2>2, <2>3, <2>4
<1>10. Pushed' = Pushed
  BY <1>7, <1>9, FrameContents DEF Pushed
<1>11. Position' = Position /\ BufferIsFetched'
  BY <1>7, <1>8, FrameReaders
<1>12. BlocksAreWhole'
  <2>1. pending' \in [Runs -> Seq(Whole)] /\ WholeDisk(disk')
    BY <1>0, <1>1, <1>2, <1>6
  <2>2. QED  BY <2>1 DEF BlocksAreWhole, WholeDisk
<1>13. CountIsExact'
  <2>1. current_block'[r] = <<>> /\ row_count'[r] = 0
    BY <1>0, <1>1
  <2>2. QED  BY <1>7, <2>1, EmptyCount, FrameCount
<1>14. QED  BY <1>0, <1>10, <1>11, <1>12, <1>13 DEF Store!Seal, readerVars

LEMMA FinishIsSeal ==
  ASSUME StoreInv, NEW r \in Runs, Finish(r)
  PROVE  BlocksAreWhole' /\ CountIsExact' /\ BufferIsFetched' /\ Store!Seal(r)
<1> DEFINE flushed == FlushedBlock(r)
           ids == Append(block_ids[r], flushed.id)
           d == WriteBlocks(flushed.batch.disk, flushed.batch.start, flushed.batch.queue)
<1>0. /\ phase[r] = "writing"
      /\ phase' = [phase EXCEPT ![r] = "sealed"]
      /\ current_block' = [current_block EXCEPT ![r] = <<>>]
      /\ row_count' = [row_count EXCEPT ![r] = 0]
      /\ pending_start' = [pending_start EXCEPT ![r] = 0]
      /\ pending' = [pending EXCEPT ![r] = <<>>]
      /\ disk' = d /\ UNCHANGED readerVars
      /\ block_ids' = [block_ids EXCEPT ![r] = Append(@, flushed.id)]
  BY DEF Finish, Seal, FlushTo
<1>1. /\ current_block \in [Runs -> Seq(Rows)] /\ row_count \in [Runs -> Nat]
      /\ pending_start \in [Runs -> Nat] /\ pending \in [Runs -> Seq(Whole)]
      /\ block_ids \in [Runs -> Seq(Nat)]
      /\ phase \in [Runs -> {"unused", "writing", "sealed"}]
  BY DEF StoreInv, BlocksAreWhole, IInv, TypeInv
<1>2. /\ WholeDisk(d) /\ RowsIn(0, <<>>, d, ids) = Contents(r) /\ Contents(r) \in Seq(Rows)
      /\ \A q \in Runs \ {r} : SameOnDisk(q, d)
  BY FlushedRows
<1> HIDE DEF flushed, d
<1>3. OnlyRunMoves(r)
  BY <1>0, <1>1, <1>2 DEF OnlyRunMoves
<1>4. NobodyReads(r)
  BY <1>0, OnlySealedRead
<1>5. Contents(r)' = Contents(r)
  <2>1. Contents(r)' = Contents(r) \o <<>>
    BY <1>0, <1>1, <1>2, ContentsBecome
  <2> DEFINE x == Contents(r)
  <2>2. x \in Seq(Rows)
    BY <1>2
  <2> HIDE DEF x
  <2>3. x \o <<>> = x
    BY <2>2, ConcatEmptySeq
  <2>4. QED  BY <2>1, <2>3 DEF x
<1>6. Pushed' = Pushed
  BY <1>3, <1>5, FrameContents DEF Pushed
<1>7. Position' = Position /\ BufferIsFetched'
  BY <1>3, <1>4, FrameReaders
<1>8. BlocksAreWhole'
  <2>1. pending' \in [Runs -> Seq(Whole)] /\ WholeDisk(disk')
    BY <1>0, <1>1, <1>2, EmptySeq
  <2>2. QED  BY <2>1 DEF BlocksAreWhole, WholeDisk
<1>9. CountIsExact'
  <2>1. current_block'[r] = <<>> /\ row_count'[r] = 0
    BY <1>0, <1>1
  <2>2. QED  BY <1>3, <2>1, EmptyCount, FrameCount
<1>10. QED  BY <1>0, <1>6, <1>7, <1>8, <1>9 DEF Store!Seal, readerVars

\* A dropped run holds no rows.
LEMMA DroppedIsDrop ==
  ASSUME StoreInv, NEW r \in Runs, phase[r] # "unused", NobodyReads(r),
         phase' = [phase EXCEPT ![r] = "unused"],
         block_ids' = [block_ids EXCEPT ![r] = <<>>],
         current_block' = [current_block EXCEPT ![r] = <<>>],
         row_count' = [row_count EXCEPT ![r] = 0],
         pending' = [pending EXCEPT ![r] = <<>>],
         pending_start' = [pending_start EXCEPT ![r] = pending_start'[r]],
         UNCHANGED <<disk, readerVars>>
  PROVE  BlocksAreWhole' /\ CountIsExact' /\ BufferIsFetched' /\ Store!Drop(r)
<1>1. /\ current_block \in [Runs -> Seq(Rows)] /\ row_count \in [Runs -> Nat]
      /\ pending_start \in [Runs -> Nat] /\ pending \in [Runs -> Seq(Whole)]
      /\ block_ids \in [Runs -> Seq(Nat)] /\ WholeDisk(disk)
      /\ phase \in [Runs -> {"unused", "writing", "sealed"}]
  BY DEF StoreInv, BlocksAreWhole, IInv, TypeInv
<1>2. OnlyRunMoves(r)
  BY <1>1 DEF OnlyRunMoves, SameOnDisk
<1>3. Contents(r)' = <<>>
  <2>1. Contents(r)' = RowsIn(pending_start'[r], <<>>, disk', <<>>) \o <<>>
    BY <1>1, ContentsBecome
  <2>2. RowsIn(pending_start'[r], <<>>, disk', <<>>) = <<>>
    BY RowsInNone
  <2>3. <<>> \o <<>> = <<>>
    BY EmptySeq, ConcatEmptySeq
  <2>4. QED  BY <2>1, <2>2, <2>3
<1>4. Pushed' = [Pushed EXCEPT ![r] = <<>>]
  BY <1>2, <1>3, FrameContents
<1>5. Position' = Position /\ BufferIsFetched'
  BY <1>2, FrameReaders
<1>6. BlocksAreWhole'
  <2>1. pending' \in [Runs -> Seq(Whole)] /\ WholeDisk(disk')
    BY <1>1, EmptySeq
  <2>2. QED  BY <2>1 DEF BlocksAreWhole, WholeDisk
<1>7. CountIsExact'
  <2>1. current_block'[r] = <<>> /\ row_count'[r] = 0
    BY <1>1
  <2>2. QED  BY <1>2, <2>1, EmptyCount, FrameCount
<1>8. QED  BY <1>4, <1>5, <1>6, <1>7 DEF Store!Drop, NobodyReads, readerVars

LEMMA ReleaseIsDrop ==
  ASSUME StoreInv, NEW r \in Runs, ReleaseRun(r)
  PROVE  BlocksAreWhole' /\ CountIsExact' /\ BufferIsFetched' /\ Store!Drop(r)
<1>1. /\ current_block \in [Runs -> Seq(Rows)] /\ row_count \in [Runs -> Nat]
      /\ pending_start \in [Runs -> Nat] /\ pending \in [Runs -> Seq(Images)]
  BY DEF StoreInv, IInv, TypeInv
<1>2. phase[r] = "sealed" /\ NobodyReads(r)
  BY DEF ReleaseRun
<1>3. current_block[r] = <<>> /\ row_count[r] = 0 /\ pending[r] = <<>>
  BY <1>2, EmptyCount DEF StoreInv, CountIsExact, IInv, OnlyWritersQueue
<1>4. /\ current_block' = [current_block EXCEPT ![r] = <<>>]
      /\ row_count' = [row_count EXCEPT ![r] = 0]
      /\ pending' = [pending EXCEPT ![r] = <<>>]
      /\ pending_start' = [pending_start EXCEPT ![r] = pending_start'[r]]
  BY <1>1, <1>3 DEF ReleaseRun
<1>5. /\ phase' = [phase EXCEPT ![r] = "unused"] /\ block_ids' = [block_ids EXCEPT ![r] = <<>>]
      /\ UNCHANGED <<disk, readerVars>>
  BY DEF ReleaseRun
<1>6. QED  BY <1>2, <1>4, <1>5, DroppedIsDrop

LEMMA AbandonIsDrop ==
  ASSUME StoreInv, NEW r \in Runs, Abandon(r)
  PROVE  BlocksAreWhole' /\ CountIsExact' /\ BufferIsFetched' /\ Store!Drop(r)
<1>1. pending_start' = [pending_start EXCEPT ![r] = pending_start'[r]]
  BY DEF Abandon, StoreInv, IInv, TypeInv
<1>2. /\ phase[r] # "unused" /\ NobodyReads(r)
      /\ phase' = [phase EXCEPT ![r] = "unused"]
      /\ block_ids' = [block_ids EXCEPT ![r] = <<>>]
      /\ current_block' = [current_block EXCEPT ![r] = <<>>]
      /\ row_count' = [row_count EXCEPT ![r] = 0]
      /\ pending' = [pending EXCEPT ![r] = <<>>]
      /\ UNCHANGED <<disk, readerVars>>
  BY DEF Abandon
<1>3. QED  BY <1>1, <1>2, DroppedIsDrop

-----------------------------------------------------------------------------
(* The steps of readers.                                                   *)

FetchedTo(r, k) == RowsIn(pending_start[r], pending[r], disk, SubSeq(block_ids[r], 1, k))

LEMMA FetchedStays ==
  ASSUME UNCHANGED <<phase, writerVars>>, NEW c \in Readers
  PROVE  Fetched(reading[c], c)' = FetchedTo(reading'[c], offset'[c])
BY DEF Fetched, FetchedTo, writerVars

\* A reader that moves leaves the runs and the other readers as they are.
LEMMA FrameReader ==
  ASSUME StoreInv, NEW c \in Readers, UNCHANGED <<phase, writerVars>>,
         reading' \in [Readers -> Runs \cup {NoRun}],
         offset' \in [Readers -> Nat],
         buffer' \in [Readers -> Seq(Rows)],
         \A e \in Readers \ {c} : reading'[e] = reading[e] /\ offset'[e] = offset[e] /\ buffer'[e] = buffer[e],
         IF reading'[c] = NoRun THEN buffer'[c] = <<>>
         ELSE /\ phase[reading'[c]] = "sealed"
              /\ offset'[c] <= Len(block_ids[reading'[c]])
              /\ \E p \in Seq(Rows) : FetchedTo(reading'[c], offset'[c]) = p \o buffer'[c]
  PROVE  /\ BlocksAreWhole' /\ CountIsExact' /\ BufferIsFetched' /\ Pushed' = Pushed
         /\ Position' = [Position EXCEPT ![c] = IF reading'[c] = NoRun THEN 0
               ELSE Len(FetchedTo(reading'[c], offset'[c])) - Len(buffer'[c])]
<1>1. BlocksAreWhole' /\ CountIsExact'
  BY DEF StoreInv, BlocksAreWhole, CountIsExact, WholeDisk, writerVars
<1>2. Pushed' = Pushed
  BY ContentsAre, ContentsBecome DEF Pushed, writerVars
<1>3. \A e \in Readers : Fetched(reading[e], e)' = FetchedTo(reading'[e], offset'[e])
  BY FetchedStays
<1>4. \A e \in Readers : Fetched(reading[e], e) = FetchedTo(reading[e], offset[e])
  BY DEF Fetched, FetchedTo
<1>5. ASSUME NEW e \in Readers
      PROVE  IF reading'[e] = NoRun THEN buffer'[e] = <<>>
             ELSE /\ phase[reading'[e]] = "sealed"
                  /\ offset'[e] <= Len(block_ids[reading'[e]])
                  /\ \E p \in Seq(Rows) : FetchedTo(reading'[e], offset'[e]) = p \o buffer'[e]
  <2>1. CASE e = c
    BY <2>1
  <2>2. CASE e # c
    <3>1. reading'[e] = reading[e] /\ offset'[e] = offset[e] /\ buffer'[e] = buffer[e]
      BY <2>2
    <3>2. IF reading[e] = NoRun THEN buffer[e] = <<>>
          ELSE /\ phase[reading[e]] = "sealed"
               /\ offset[e] <= Len(block_ids[reading[e]])
               /\ \E p \in Seq(Rows) : FetchedTo(reading[e], offset[e]) = p \o buffer[e]
      BY <1>4 DEF StoreInv, BufferIsFetched
    <3>3. QED  BY <3>1, <3>2
  <2>3. QED  BY <2>1, <2>2
<1>6. BufferIsFetched'
  <2>1. phase' = phase /\ block_ids' = block_ids
    BY DEF writerVars
  <2>2. QED  BY <1>3, <1>5, <2>1 DEF BufferIsFetched
<1>7. Position' = [Position EXCEPT ![c] = IF reading'[c] = NoRun THEN 0
               ELSE Len(FetchedTo(reading'[c], offset'[c])) - Len(buffer'[c])]
  <2>1. Position' = [e \in Readers |-> Position'[e]] /\ Position = [e \in Readers |-> Position[e]]
    BY DEF Position
  <2>2. \A e \in Readers : Position'[e] = IF reading'[e] = NoRun THEN 0
               ELSE Len(FetchedTo(reading'[e], offset'[e])) - Len(buffer'[e])
    BY <1>3, PositionBecomes
  <2>3. ASSUME NEW e \in Readers \ {c} PROVE Position'[e] = Position[e]
    <3>1. reading'[e] = reading[e] /\ offset'[e] = offset[e] /\ buffer'[e] = buffer[e]
      OBVIOUS
    <3>2. Position[e] = IF reading[e] = NoRun THEN 0
                        ELSE Len(FetchedTo(reading[e], offset[e])) - Len(buffer[e])
      BY <1>4, PositionIs
    <3>3. QED  BY <2>2, <3>1, <3>2
  <2> DEFINE x == IF reading'[c] = NoRun THEN 0
                  ELSE Len(FetchedTo(reading'[c], offset'[c])) - Len(buffer'[c])
  <2>4. Position'[c] = x
    BY <2>2
  <2> HIDE DEF x
  <2>5. [e \in Readers |-> Position'[e]] = [[e \in Readers |-> Position[e]] EXCEPT ![c] = x]
    BY <2>3, <2>4
  <2>6. Position' = [Position EXCEPT ![c] = x]
    BY <2>1, <2>5
  <2>7. QED  BY <2>6 DEF x
<1>8. QED  BY <1>1, <1>2, <1>6, <1>7

LEMMA StartIsStart ==
  ASSUME StoreInv, NEW c \in Readers, NEW r \in Runs, StartReading(c, r)
  PROVE  BlocksAreWhole' /\ CountIsExact' /\ BufferIsFetched' /\ Store!StartReading(c, r)
<1>0. /\ reading[c] = NoRun /\ phase[r] = "sealed"
      /\ reading' = [reading EXCEPT ![c] = r]
      /\ offset' = [offset EXCEPT ![c] = 0]
      /\ buffer' = [buffer EXCEPT ![c] = <<>>]
      /\ returned' = [returned EXCEPT ![c] = NoRow]
      /\ UNCHANGED <<phase, writerVars>>
  BY DEF StartReading
<1>1. /\ reading \in [Readers -> Runs \cup {NoRun}] /\ offset \in [Readers -> Nat]
      /\ buffer \in [Readers -> Seq(Rows)] /\ block_ids[r] \in Seq(Nat) /\ r # NoRun
  BY ScratchRunAssumption DEF StoreInv, BufferIsFetched, IInv, TypeInv
<1>2. <<>> \in Seq(Rows) /\ Len(<<>>) = 0 /\ <<>> \o <<>> = <<>> /\ Len(block_ids[r]) \in Nat
  BY <1>1, EmptySeq, ConcatEmptySeq, LenProperties
<1>3. FetchedTo(r, 0) = <<>>
  BY <1>1, WholeList, RowsInNone DEF FetchedTo
<1>4. /\ reading' \in [Readers -> Runs \cup {NoRun}] /\ offset' \in [Readers -> Nat]
      /\ buffer' \in [Readers -> Seq(Rows)]
      /\ reading'[c] = r /\ offset'[c] = 0 /\ buffer'[c] = <<>>
      /\ \A e \in Readers \ {c} : reading'[e] = reading[e] /\ offset'[e] = offset[e] /\ buffer'[e] = buffer[e]
  BY <1>0, <1>1, <1>2
<1>5. /\ BlocksAreWhole' /\ CountIsExact' /\ BufferIsFetched' /\ Pushed' = Pushed
      /\ Position' = [Position EXCEPT ![c] = IF reading'[c] = NoRun THEN 0
               ELSE Len(FetchedTo(reading'[c], offset'[c])) - Len(buffer'[c])]
  <2>1. /\ phase[reading'[c]] = "sealed" /\ offset'[c] <= Len(block_ids[reading'[c]])
        /\ \E p \in Seq(Rows) : FetchedTo(reading'[c], offset'[c]) = p \o buffer'[c]
    <3>1. phase[reading'[c]] = "sealed"
      BY <1>0, <1>4
    <3>2. offset'[c] <= Len(block_ids[reading'[c]])
      BY <1>2, <1>4
    <3>3. FetchedTo(reading'[c], offset'[c]) = <<>> \o buffer'[c]
      <4>1. FetchedTo(reading'[c], offset'[c]) = <<>>
        BY <1>3, <1>4
      <4>2. <<>> \o buffer'[c] = <<>>
        BY <1>2, <1>4
      <4>3. QED  BY <4>1, <4>2
    <3>4. QED  BY <1>2, <3>1, <3>2, <3>3
  <2>2. QED  BY <1>0, <1>1, <1>4, <2>1, FrameReader
<1>6. Position' = [Position EXCEPT ![c] = 0]
  <2>1. FetchedTo(reading'[c], offset'[c]) = <<>> /\ buffer'[c] = <<>>
    BY <1>3, <1>4
  <2>2. Len(FetchedTo(reading'[c], offset'[c])) - Len(buffer'[c]) = 0
    BY <1>2, <2>1
  <2>3. QED  BY <1>1, <1>4, <1>5, <2>2
<1>7. QED  BY <1>0, <1>5, <1>6 DEF Store!StartReading

LEMMA StopIsStop ==
  ASSUME StoreInv, NEW c \in Readers, StopReading(c)
  PROVE  BlocksAreWhole' /\ CountIsExact' /\ BufferIsFetched' /\ Store!StopReading(c)
<1>0. /\ reading[c] # NoRun
      /\ reading' = [reading EXCEPT ![c] = NoRun]
      /\ offset' = [offset EXCEPT ![c] = 0]
      /\ buffer' = [buffer EXCEPT ![c] = <<>>]
      /\ returned' = [returned EXCEPT ![c] = NoRow]
      /\ UNCHANGED <<phase, writerVars>>
  BY DEF StopReading
<1>1. /\ reading \in [Readers -> Runs \cup {NoRun}] /\ offset \in [Readers -> Nat]
      /\ buffer \in [Readers -> Seq(Rows)] /\ <<>> \in Seq(Rows)
  BY EmptySeq DEF StoreInv, BufferIsFetched
<1>2. /\ reading' \in [Readers -> Runs \cup {NoRun}] /\ offset' \in [Readers -> Nat]
      /\ buffer' \in [Readers -> Seq(Rows)]
      /\ reading'[c] = NoRun /\ buffer'[c] = <<>>
      /\ \A e \in Readers \ {c} : reading'[e] = reading[e] /\ offset'[e] = offset[e] /\ buffer'[e] = buffer[e]
  BY <1>0, <1>1
<1>3. /\ BlocksAreWhole' /\ CountIsExact' /\ BufferIsFetched' /\ Pushed' = Pushed
      /\ Position' = [Position EXCEPT ![c] = IF reading'[c] = NoRun THEN 0
               ELSE Len(FetchedTo(reading'[c], offset'[c])) - Len(buffer'[c])]
  BY <1>0, <1>2, FrameReader
<1>4. Position' = [Position EXCEPT ![c] = 0]
  BY <1>2, <1>3
<1>5. QED  BY <1>0, <1>3, <1>4 DEF Store!StopReading

-----------------------------------------------------------------------------
(* Reading a row.                                                          *)

\* What a reader of a finished run has before it.
LEMMA Unfetched ==
  ASSUME StoreInv, NEW c \in Readers, reading[c] # NoRun, NEW m \in Nat,
         offset[c] + m <= Len(block_ids[reading[c]])
  PROVE  LET r == reading[c]
         IN  /\ r \in Runs /\ pending[r] = <<>>
             /\ FetchedTo(r, offset[c] + m) \in Seq(Rows)
             /\ \E rest \in Seq(Rows) : Contents(r) = FetchedTo(r, offset[c] + m) \o rest
<1> DEFINE r == reading[c]
           ids == block_ids[r]
           k == offset[c] + m
           n == Len(ids) - k
           s == pending_start[r]
           more == [i \in 1 .. n |-> DecodeRows(View(s, pending[r], disk, ids[k + i]))]
<1>1. r \in Runs /\ phase[r] = "sealed" /\ offset[c] \in Nat
  BY DEF StoreInv, BufferIsFetched
<1>2. pending[r] = <<>> /\ current_block[r] = <<>>
  BY <1>1 DEF StoreInv, CountIsExact, IInv, OnlyWritersQueue
<1>3. /\ s \in Nat /\ pending[r] \in Seq(Whole) /\ WholeDisk(disk) /\ ids \in Seq(Nat)
      /\ Len(ids) \in Nat
  BY <1>1, LenProperties DEF StoreInv, BlocksAreWhole, IInv, TypeInv
<1>4. k \in Nat /\ n \in Nat /\ k + n = Len(ids) /\ k + n <= Len(ids)
  BY SMTT(30), <1>1, <1>3
<1> HIDE DEF r, n, s, ids, k
<1>5. BlocksBehind(s, pending[r], disk, ids, k, n, more)
  BY <1>3, <1>4 DEF BlocksBehind
<1> HIDE DEF more
<1>6. /\ RowsIn(s, pending[r], disk, SubSeq(ids, 1, k)) \in Seq(Rows)
      /\ FlattenSeq(more) \in Seq(Rows)
      /\ RowsIn(s, pending[r], disk, SubSeq(ids, 1, k + n))
           = RowsIn(s, pending[r], disk, SubSeq(ids, 1, k)) \o FlattenSeq(more)
  BY <1>5, RowsInSplit
<1>7. RowsIn(s, pending[r], disk, ids) \in Seq(Rows)
  BY <1>3, RowsInType
<1>8. Contents(r) = RowsIn(s, pending[r], disk, ids)
  <2>1. Contents(r) = RowsIn(s, pending[r], disk, ids) \o <<>>
    BY <1>1, <1>2, ContentsAre DEF s, ids
  <2>2. QED  BY <1>7, <2>1, ConcatEmptySeq
<1>9. SubSeq(ids, 1, k + n) = ids
  BY <1>3, <1>4, WholeList
<1>10. QED  BY <1>1, <1>2, <1>6, <1>8, <1>9 DEF FetchedTo, k, s, ids, r

LEMMA ReadOne ==
  ASSUME NEW S, NEW p \in Seq(S), NEW buf \in Seq(S), buf # <<>>, NEW rest \in Seq(S),
         NEW seen, seen = p \o buf
  PROVE  /\ Len(p) \in Nat /\ Len(buf) \in Nat
         /\ Len(seen) - Len(buf) = Len(p) /\ Len(seen) - Len(Tail(buf)) = Len(p) + 1
         /\ Len(p) < Len(seen \o rest) /\ (seen \o rest)[Len(p) + 1] = Head(buf)
         /\ Append(p, Head(buf)) \in Seq(S) /\ Tail(buf) \in Seq(S)
         /\ Append(p, Head(buf)) \o Tail(buf) = seen
<1> DEFINE q == Append(p, Head(buf))
           t == Tail(buf)
<1>1. /\ Len(p) \in Nat /\ Len(buf) \in Nat /\ Len(rest) \in Nat /\ Len(buf) > 0
  BY LenProperties, EmptySeq
<1>2. /\ Head(buf) \in S /\ t \in Seq(S) /\ Len(t) = Len(buf) - 1
      /\ \A i \in 1 .. Len(t) : t[i] = buf[i + 1]
      /\ Head(buf) = buf[1]
  BY HeadTailProperties
<1>3. /\ q \in Seq(S) /\ Len(q) = Len(p) + 1 /\ q[Len(p) + 1] = Head(buf)
      /\ \A i \in 1 .. Len(p) : q[i] = p[i]
  BY <1>2, AppendProperties
<1>4. /\ seen \in Seq(S) /\ Len(seen) = Len(p) + Len(buf)
      /\ \A i \in 1 .. Len(seen) : seen[i] = IF i <= Len(p) THEN p[i] ELSE buf[i - Len(p)]
  BY ConcatProperties
<1> HIDE DEF q, t
<1>5. /\ q \o t \in Seq(S) /\ Len(q \o t) = Len(q) + Len(t)
      /\ \A i \in 1 .. Len(q) + Len(t) : (q \o t)[i] = IF i <= Len(q) THEN q[i] ELSE t[i - Len(q)]
  BY <1>2, <1>3, ConcatProperties
<1>6. q \o t = seen
  <2>1. ASSUME NEW i \in 1 .. Len(seen) PROVE (q \o t)[i] = seen[i]
    <3>1. CASE i <= Len(p)
      BY <1>1, <1>2, <1>3, <1>4, <1>5, <3>1
    <3>2. CASE i = Len(p) + 1
      BY <1>1, <1>2, <1>3, <1>4, <1>5, <3>2
    <3>3. CASE i > Len(p) + 1
      <4>1. i - Len(q) \in 1 .. Len(t) /\ (i - Len(q)) + 1 = i - Len(p)
        BY <1>1, <1>2, <1>3, <1>4, <3>3
      <4>2. t[i - Len(q)] = buf[i - Len(p)]
        BY <1>2, <4>1
      <4>3. i \in 1 .. Len(q) + Len(t) /\ ~ (i <= Len(q)) /\ ~ (i <= Len(p))
        BY <1>1, <1>2, <1>3, <1>4, <3>3
      <4>4. (q \o t)[i] = t[i - Len(q)]
        BY <1>5, <4>3
      <4>5. seen[i] = buf[i - Len(p)]
        BY <1>4, <4>3
      <4>6. QED  BY <4>2, <4>4, <4>5
    <3>4. i \in Int /\ Len(p) \in Int
      BY <1>1
    <3>5. i <= Len(p) \/ i = Len(p) + 1 \/ i > Len(p) + 1
      BY ONLY <3>4
    <3>6. QED  BY <3>1, <3>2, <3>3, <3>5
  <2>2. Len(q \o t) = Len(seen)
    BY <1>1, <1>2, <1>3, <1>4, <1>5
  <2>3. QED  BY <1>4, <1>5, <2>1, <2>2, SeqEqual
<1>7. /\ Len(p) < Len(seen \o rest) /\ (seen \o rest)[Len(p) + 1] = Head(buf)
  <2>1. /\ Len(seen \o rest) = Len(seen) + Len(rest)
        /\ \A i \in 1 .. Len(seen) + Len(rest) :
             (seen \o rest)[i] = IF i <= Len(seen) THEN seen[i] ELSE rest[i - Len(seen)]
    BY <1>4, ConcatProperties
  <2>2. Len(p) + 1 \in 1 .. Len(seen) /\ seen[Len(p) + 1] = buf[1]
    BY <1>1, <1>4
  <2>3. QED  BY <1>1, <1>2, <1>4, <2>1, <2>2
<1>8. QED  BY <1>1, <1>2, <1>3, <1>4, <1>6, <1>7 DEF q, t

(* The next row of a reader is the first it has fetched and not returned.  *)
LEMMA ReturnsNext ==
  ASSUME StoreInv, NEW c \in Readers, reading[c] # NoRun,
         NEW k \in Nat, k <= Len(block_ids[reading[c]]),
         NEW p \in Seq(Rows), NEW buf \in Seq(Rows), buf # <<>>, NEW rest \in Seq(Rows),
         FetchedTo(reading[c], k) = p \o buf,
         Contents(reading[c]) = FetchedTo(reading[c], k) \o rest,
         Position[c] = Len(p),
         UNCHANGED <<phase, writerVars, reading>>,
         offset' = [offset EXCEPT ![c] = k],
         buffer' = [buffer EXCEPT ![c] = Tail(buf)],
         returned' = [returned EXCEPT ![c] = Head(buf)]
  PROVE  BlocksAreWhole' /\ CountIsExact' /\ BufferIsFetched' /\ Store!Read(c)
<1> DEFINE r == reading[c]
           seen == FetchedTo(r, k)
<1>1. /\ r \in Runs /\ phase[r] = "sealed"
      /\ reading \in [Readers -> Runs \cup {NoRun}] /\ offset \in [Readers -> Nat]
      /\ buffer \in [Readers -> Seq(Rows)]
  BY DEF StoreInv, BufferIsFetched
<1>2. seen = p \o buf /\ Contents(r) = seen \o rest /\ r # NoRun /\ k <= Len(block_ids[r])
  OBVIOUS
<1>3. Pushed[r] = Contents(r)
  BY <1>1 DEF Pushed
<1> HIDE DEF seen
<1>4. /\ Len(p) \in Nat
      /\ Len(seen) - Len(buf) = Len(p) /\ Len(seen) - Len(Tail(buf)) = Len(p) + 1
      /\ Len(p) < Len(seen \o rest) /\ (seen \o rest)[Len(p) + 1] = Head(buf)
      /\ Append(p, Head(buf)) \in Seq(Rows) /\ Tail(buf) \in Seq(Rows)
      /\ Append(p, Head(buf)) \o Tail(buf) = seen
  <2>1. /\ p \in Seq(Rows) /\ buf \in Seq(Rows) /\ rest \in Seq(Rows)
        /\ buf # <<>> /\ seen = p \o buf
    BY <1>2
  <2>2. QED  BY ONLY <2>1, ReadOne
<1>5. /\ reading' \in [Readers -> Runs \cup {NoRun}] /\ offset' \in [Readers -> Nat]
      /\ buffer' \in [Readers -> Seq(Rows)]
      /\ reading'[c] = r /\ offset'[c] = k /\ buffer'[c] = Tail(buf)
      /\ \A e \in Readers \ {c} : reading'[e] = reading[e] /\ offset'[e] = offset[e] /\ buffer'[e] = buffer[e]
  BY <1>1, <1>4
<1>6. /\ BlocksAreWhole' /\ CountIsExact' /\ BufferIsFetched' /\ Pushed' = Pushed
      /\ Position' = [Position EXCEPT ![c] = IF reading'[c] = NoRun THEN 0
               ELSE Len(FetchedTo(reading'[c], offset'[c])) - Len(buffer'[c])]
  <2>1. \E q \in Seq(Rows) : FetchedTo(reading'[c], offset'[c]) = q \o buffer'[c]
    BY <1>4, <1>5 DEF seen
  <2>2. phase[reading'[c]] = "sealed" /\ offset'[c] <= Len(block_ids[reading'[c]])
    BY <1>1, <1>2, <1>5
  <2>3. UNCHANGED <<phase, writerVars>>
    OBVIOUS
  <2> HIDE DEF r
  <2>4. QED  BY <1>5, <2>1, <2>2, <2>3, FrameReader
<1>7. Position' = [Position EXCEPT ![c] = @ + 1]
  <2>1. Len(FetchedTo(reading'[c], offset'[c])) - Len(buffer'[c]) = Position[c] + 1
    BY <1>4, <1>5 DEF seen
  <2>2. reading'[c] # NoRun
    BY <1>2, <1>5
  <2>3. QED  BY <1>6, <2>1, <2>2
<1>8. Position[c] < Len(Pushed[r]) /\ Pushed[r][Position[c] + 1] = Head(buf)
  BY <1>2, <1>3, <1>4
<1>9. Store!Read(c)
  BY <1>2, <1>6, <1>7, <1>8 DEF Store!Read
<1>10. QED  BY <1>6, <1>9

LEMMA BufferedIsRead ==
  ASSUME StoreInv, NEW c \in Readers, NextBufferedRow(c)
  PROVE  BlocksAreWhole' /\ CountIsExact' /\ BufferIsFetched' /\ Store!Read(c)
<1> DEFINE r == reading[c]
           k == offset[c]
           buf == buffer[c]
<1>1. /\ buf # <<>> /\ buf \in Seq(Rows) /\ k \in Nat
      /\ buffer' = [buffer EXCEPT ![c] = Tail(buf)]
      /\ returned' = [returned EXCEPT ![c] = Head(buf)]
      /\ UNCHANGED <<phase, writerVars, reading>> /\ offset' = offset
  BY DEF NextBufferedRow, StoreInv, BufferIsFetched
<1>2. r # NoRun /\ k <= Len(block_ids[r])
  BY <1>1 DEF StoreInv, BufferIsFetched
<1>3. offset' = [offset EXCEPT ![c] = k]
  BY <1>1 DEF StoreInv, BufferIsFetched
<1>4. Fetched(r, c) = FetchedTo(r, k)
  BY DEF Fetched, FetchedTo
<1>5. PICK p \in Seq(Rows) : FetchedTo(r, k) = p \o buf
  BY <1>2, <1>4 DEF StoreInv, BufferIsFetched
<1>6. k + 0 = k /\ k + 0 <= Len(block_ids[r]) /\ 0 \in Nat
  BY <1>1, <1>2
<1>7. PICK rest \in Seq(Rows) : Contents(r) = FetchedTo(r, k) \o rest
  BY <1>2, <1>6, Unfetched
<1>8. Position[c] = Len(p)
  <2>1. Position[c] = Len(FetchedTo(r, k)) - Len(buf)
    BY <1>2, <1>4, PositionIs
  <2>2. Len(p \o buf) - Len(buf) = Len(p)
    BY <1>1, ConcatProperties, LenProperties
  <2>3. QED  BY <1>5, <2>1, <2>2
<1> HIDE DEF k, buf
<1>9. QED  BY <1>1, <1>2, <1>3, <1>5, <1>7, <1>8, ReturnsNext

LEMMA AtEndIsRead ==
  ASSUME StoreInv, NEW c \in Readers, NextRowAtEnd(c)
  PROVE  BlocksAreWhole' /\ CountIsExact' /\ BufferIsFetched' /\ Store!Read(c)
<1> DEFINE r == reading[c]
<1>1. /\ r # NoRun /\ buffer[c] = <<>> /\ offset[c] = Len(block_ids[r])
      /\ returned' = [returned EXCEPT ![c] = NoRow]
      /\ UNCHANGED <<phase, writerVars, reading, offset, buffer>>
  BY DEF NextRowAtEnd
<1>2. /\ r \in Runs /\ phase[r] = "sealed" /\ offset[c] \in Nat
      /\ reading \in [Readers -> Runs \cup {NoRun}] /\ offset \in [Readers -> Nat]
      /\ buffer \in [Readers -> Seq(Rows)]
      /\ \E p \in Seq(Rows) : FetchedTo(r, offset[c]) = p \o buffer[c]
      /\ block_ids[r] \in Seq(Nat) /\ pending[r] \in Seq(Whole) /\ WholeDisk(disk)
      /\ pending_start[r] \in Nat /\ current_block[r] = <<>>
  BY <1>1 DEF StoreInv, BufferIsFetched, BlocksAreWhole, IInv, TypeInv, CountIsExact, Fetched, FetchedTo
<1>3. FetchedTo(r, offset[c]) = Contents(r) /\ Contents(r) \in Seq(Rows)
  <2> DEFINE all == RowsIn(pending_start[r], pending[r], disk, block_ids[r])
  <2>1. all \in Seq(Rows)
    BY <1>2, RowsInType
  <2>2. Contents(r) = all \o <<>>
    BY <1>2, ContentsAre
  <2>3. FetchedTo(r, offset[c]) = all
    BY <1>1, <1>2, WholeList DEF FetchedTo
  <2> HIDE DEF all
  <2>4. QED  BY <2>1, <2>2, <2>3, ConcatEmptySeq
<1>4. Pushed[r] = Contents(r)
  BY <1>2 DEF Pushed
<1>5. Position[c] = Len(Contents(r)) /\ Len(Contents(r)) \in Nat
  <2>1. Position[c] = Len(FetchedTo(r, offset[c])) - Len(buffer[c])
    BY <1>1, PositionIs DEF Fetched, FetchedTo
  <2>2. Len(<<>>) = 0 /\ Len(Contents(r)) \in Nat
    BY <1>3, EmptySeq, LenProperties
  <2>3. QED  BY <1>1, <1>3, <2>1, <2>2
<1>6. UNCHANGED <<phase, writerVars>> /\ reading' = reading /\ offset' = offset /\ buffer' = buffer
  BY <1>1
<1>7. /\ BlocksAreWhole' /\ CountIsExact' /\ BufferIsFetched' /\ Pushed' = Pushed
      /\ Position' = [Position EXCEPT ![c] = IF reading'[c] = NoRun THEN 0
               ELSE Len(FetchedTo(reading'[c], offset'[c])) - Len(buffer'[c])]
  <2>1. /\ reading' \in [Readers -> Runs \cup {NoRun}] /\ offset' \in [Readers -> Nat]
        /\ buffer' \in [Readers -> Seq(Rows)]
        /\ \A e \in Readers \ {c} : reading'[e] = reading[e] /\ offset'[e] = offset[e] /\ buffer'[e] = buffer[e]
    BY <1>2, <1>6
  <2>2. /\ phase[reading'[c]] = "sealed"
        /\ offset'[c] <= Len(block_ids[reading'[c]])
        /\ \E p \in Seq(Rows) : FetchedTo(reading'[c], offset'[c]) = p \o buffer'[c]
    <3>1. reading'[c] = r /\ offset'[c] = offset[c] /\ buffer'[c] = buffer[c]
      BY <1>6
    <3>2. offset[c] <= Len(block_ids[r])
      BY <1>1, <1>2
    <3> HIDE DEF r
    <3>3. \E p \in Seq(Rows) : FetchedTo(reading'[c], offset'[c]) = p \o buffer'[c]
      BY <1>2, <3>1
    <3>4. QED  BY <1>2, <3>1, <3>2, <3>3
  <2>3. UNCHANGED <<phase, writerVars>>
    BY <1>6
  <2>4. reading'[c] # NoRun
    BY <1>1, <1>6
  <2> HIDE DEF r
  <2>5. QED  BY <2>1, <2>2, <2>3, <2>4, FrameReader
<1>8. Position' = Position
  <2>1. Len(FetchedTo(reading'[c], offset'[c])) - Len(buffer'[c]) = Position[c]
    BY <1>1, <1>6, PositionIs DEF Fetched, FetchedTo
  <2>2. Position' = [Position EXCEPT ![c] = Position[c]]
    BY <1>1, <1>6, <1>7, <2>1
  <2>3. Position = [e \in Readers |-> Position[e]]
    BY DEF Position
  <2>4. QED  BY <2>2, <2>3
<1>9. ~ (Position[c] < Len(Pushed[r]))
  BY <1>4, <1>5
<1>10. Store!Read(c)
  BY <1>1, <1>7, <1>8, <1>9 DEF Store!Read
<1>11. QED  BY <1>7, <1>10

\* contiguous_batch_len: one block or more, each behind the one before.
LEMMA BatchIsConsecutive ==
  ASSUME NEW ids \in Seq(Nat), NEW n \in Nat, n < Len(ids), NEW max \in Nat \ {0}
  PROVE  LET len == ContiguousBatchLen(ids, n, max)
         IN  /\ len \in Nat \ {0} /\ n + len <= Len(ids)
             /\ \A i \in 1 .. len : ids[n + i] = ids[n + 1] + i - 1
<1> DEFINE bound == Min({max, Len(ids) - n})
           S == {len \in 1 .. bound : \A i \in 1 .. len - 1 : ids[n + i + 1] = ids[n + i] + 1}
           len == Max(S)
<1>1. Len(ids) \in Nat /\ Len(ids) - n \in Nat \ {0}
  BY LenProperties
<1>2. bound \in Nat \ {0} /\ bound <= Len(ids) - n
  <2> DEFINE m == Len(ids) - n
             T == {max, m}
  <2>1. T \in SUBSET Nat /\ T # {}
    BY <1>1
  <2>2. \E x \in T : \A y \in T : x <= y
    BY <2>1, LeastElement
  <2>3. Min(T) \in T /\ \A y \in T : Min(T) <= y
    <3> HIDE DEF T
    <3>1. QED  BY <2>2 DEF Min
  <2>4. QED  BY <1>1, <2>3
<1> HIDE DEF bound
<1>3. S \in SUBSET Nat /\ 1 \in S /\ \A y \in S : y <= bound
  <2>1. 1 \in 1 .. bound /\ 1 - 1 = 0
    BY <1>2
  <2>2. QED  BY <1>2, <2>1
<1>4. len \in S
  <2> HIDE DEF S
  <2>1. QED  BY <1>2, <1>3, GreatestElement
<1>5. /\ len \in 1 .. bound /\ len \in Nat \ {0}
      /\ \A i \in 1 .. len - 1 : ids[n + i + 1] = ids[n + i] + 1
  <2>1. len \in 1 .. bound /\ \A i \in 1 .. len - 1 : ids[n + i + 1] = ids[n + i] + 1
    BY <1>4
  <2> HIDE DEF len
  <2>2. QED  BY <1>2, <2>1
<1>6. ContiguousBatchLen(ids, n, max) = len
  BY DEF ContiguousBatchLen, bound
<1> HIDE DEF len
<1>7. n + len <= Len(ids)
  BY <1>1, <1>2, <1>5
<1>8. \A i \in 1 .. len : ids[n + i] = ids[n + 1] + i - 1
  <2> DEFINE wrong == {i \in 1 .. len : ids[n + i] # ids[n + 1] + i - 1}
  <2> SUFFICES ASSUME wrong # {} PROVE FALSE
    OBVIOUS
  <2>1. wrong \in SUBSET Nat
    OBVIOUS
  <2>2. PICK i \in wrong : \A j \in wrong : i <= j
    BY <2>1, LeastElement
  <2>3. i \in 1 .. len /\ ids[n + i] # ids[n + 1] + i - 1
    BY <2>2
  <2>4. n + 1 \in 1 .. Len(ids) /\ ids[n + 1] \in Nat
    <3>1. n + 1 \in 1 .. Len(ids)
      BY <1>1
    <3>2. QED  BY <3>1, ElementOfSeq
  <2>5. i # 1
    <3> SUFFICES ASSUME i = 1 PROVE FALSE
      OBVIOUS
    <3>1. ids[n + 1] + 1 - 1 = ids[n + 1]
      BY <2>4
    <3>2. QED  BY <2>3, <3>1
  <2> DEFINE j == i - 1
  <2>6. j \in 1 .. len - 1 /\ j \in 1 .. len /\ ~ (i <= j) /\ j + 1 = i /\ n + j + 1 = n + i
    BY <1>5, <2>3, <2>5
  <2>7. j \notin wrong
    BY <2>2, <2>6
  <2> HIDE DEF j
  <2>8. ids[n + j] = ids[n + 1] + j - 1
    BY <2>6, <2>7
  <2>9. ids[n + i] = ids[n + j] + 1
    <3>1. ids[n + j + 1] = ids[n + j] + 1
      BY <1>5, <2>6
    <3>2. QED  BY <2>6, <3>1
  <2>10. ids[n + i] = ids[n + 1] + i - 1
    <3>1. i \in Int /\ j \in Int /\ j + 1 = i /\ ids[n + 1] \in Int
      BY <2>3, <2>4, <2>6
    <3>2. QED  BY ONLY SMTT(30), <2>8, <2>9, <3>1
  <2>11. QED  BY <2>3, <2>10
<1>9. QED  BY <1>5, <1>6, <1>7, <1>8

LEMMA FetchIsRead ==
  ASSUME StoreInv, NEW c \in Readers, FetchAndNextRow(c)
  PROVE  BlocksAreWhole' /\ CountIsExact' /\ BufferIsFetched' /\ Store!Read(c)
<1> DEFINE r == reading[c]
           ids == block_ids[r]
           n == offset[c]
           s == pending_start[r]
           len == ContiguousBatchLen(ids, n, ReadBatch[c])
           first == ids[n + 1]
           rows == FlattenSeq([i \in 1 .. len |-> DecodeRows(disk[first + i - 1])])
           more == [i \in 1 .. len |-> DecodeRows(View(s, <<>>, disk, ids[n + i]))]
<1>1. r # NoRun /\ buffer[c] = <<>> /\ n < Len(ids)
  BY DEF FetchAndNextRow
<1>2. /\ r \in Runs /\ n \in Nat /\ s \in Nat /\ ids \in Seq(Nat) /\ Len(ids) \in Nat
      /\ <<>> \in Seq(Whole) /\ WholeDisk(disk)
      /\ offset \in [Readers -> Nat] /\ ReadBatch[c] \in Nat \ {0}
  BY <1>1, EmptySeq, LenProperties, ScratchRunAssumption
     DEF StoreInv, BufferIsFetched, BlocksAreWhole, IInv, TypeInv
<1>3. /\ len \in Nat \ {0} /\ n + len <= Len(ids)
      /\ \A i \in 1 .. len : ids[n + i] = first + i - 1
  BY ZenonT(60), <1>1, <1>2, BatchIsConsecutive
<1>4. first \in Nat
  <2>1. n + 1 \in 1 .. Len(ids)
    BY <1>1, <1>2
  <2>2. QED  BY <1>2, <2>1, ElementOfSeq
<1>5. FetchedBlocks(c) = first .. first + len - 1
  BY DEF FetchedBlocks
<1> HIDE DEF len, first
<1>6. Cardinality(FetchedBlocks(c)) = len
  <2>1. first \in Int /\ first + len - 1 \in Int /\ ~ (first > first + len - 1)
        /\ (first + len - 1) - first + 1 = len
    BY <1>3, <1>4
  <2>2. Cardinality(first .. first + len - 1)
          = IF first > first + len - 1 THEN 0 ELSE (first + len - 1) - first + 1
    BY <2>1, FS_Interval
  <2>3. QED  BY <1>5, <2>1, <2>2
<1>7. /\ FetchedBlocks(c) \subseteq DOMAIN disk
      /\ rows # <<>>
      /\ offset' = [offset EXCEPT ![c] = @ + len]
      /\ returned' = [returned EXCEPT ![c] = Head(rows)]
      /\ buffer' = [buffer EXCEPT ![c] = Tail(rows)]
      /\ UNCHANGED <<phase, writerVars, reading>>
  BY <1>6 DEF FetchAndNextRow, first
<1>8. rows = FlattenSeq(more)
  <2>1. ASSUME NEW i \in 1 .. len
        PROVE  DecodeRows(disk[first + i - 1]) = DecodeRows(View(s, <<>>, disk, ids[n + i]))
    <3>1. first + i - 1 \in first .. first + len - 1
      BY <1>3, <1>4
    <3>2. first + i - 1 \in DOMAIN disk
      BY <1>5, <1>7, <3>1
    <3>3. ids[n + i] = first + i - 1
      BY <1>3
    <3>4. View(s, <<>>, disk, ids[n + i]) = On(disk, ids[n + i])
      BY <1>2, ViewOfNone
    <3>5. On(disk, first + i - 1) = disk[first + i - 1]
      BY <3>2 DEF On
    <3>6. View(s, <<>>, disk, ids[n + i]) = disk[first + i - 1]
      BY <3>3, <3>4, <3>5
    <3>7. QED  BY <3>6
  <2>2. [i \in 1 .. len |-> DecodeRows(disk[first + i - 1])] = more
    BY <2>1
  <2>3. QED  BY <2>2
<1>9. BlocksBehind(s, <<>>, disk, ids, n, len, more)
  BY <1>2, <1>3 DEF BlocksBehind
<1> HIDE DEF more, rows
<1>10. /\ pending[r] = <<>>
       /\ \E rest \in Seq(Rows) : Contents(r) = FetchedTo(r, n + len) \o rest
  <2>1. len \in Nat /\ n + len <= Len(ids)
    BY <1>3
  <2>2. QED  BY <1>1, <2>1, Unfetched
<1>11. PICK rest \in Seq(Rows) : Contents(r) = FetchedTo(r, n + len) \o rest
  BY <1>10
<1>12. /\ FetchedTo(r, n) \in Seq(Rows) /\ rows \in Seq(Rows)
       /\ FetchedTo(r, n + len) = FetchedTo(r, n) \o rows
  <2>1. /\ RowsIn(s, <<>>, disk, SubSeq(ids, 1, n)) \in Seq(Rows)
        /\ FlattenSeq(more) \in Seq(Rows)
        /\ RowsIn(s, <<>>, disk, SubSeq(ids, 1, n + len))
             = RowsIn(s, <<>>, disk, SubSeq(ids, 1, n)) \o FlattenSeq(more)
    BY <1>9, RowsInSplit
  <2>2. \A k : FetchedTo(r, k) = RowsIn(s, <<>>, disk, SubSeq(ids, 1, k))
    BY <1>10 DEF FetchedTo
  <2>3. QED  BY <1>8, <2>1, <2>2
<1>13. Position[c] = Len(FetchedTo(r, n))
  <2>1. Position[c] = Len(FetchedTo(r, n)) - Len(buffer[c])
    BY <1>1, PositionIs DEF Fetched, FetchedTo
  <2>2. Len(<<>>) = 0 /\ Len(FetchedTo(r, n)) \in Nat
    BY <1>12, EmptySeq, LenProperties
  <2>3. QED  BY <1>1, <2>1, <2>2
<1> DEFINE k == n + len
<1>14. k \in Nat /\ k <= Len(ids) /\ offset' = [offset EXCEPT ![c] = k]
  BY <1>2, <1>3, <1>7
<1>15. FetchedTo(r, k) = FetchedTo(r, n) \o rows /\ Contents(r) = FetchedTo(r, k) \o rest
  BY <1>11, <1>12
<1> DEFINE p == FetchedTo(r, n)
<1>16. p \in Seq(Rows) /\ FetchedTo(r, k) = p \o rows /\ Position[c] = Len(p)
  BY <1>12, <1>13, <1>15
<1> HIDE DEF k, p
<1>17. QED  BY <1>1, <1>7, <1>12, <1>14, <1>15, <1>16, ReturnsNext

-----------------------------------------------------------------------------
\* Every step keeps the invariant and is a step of RunStore, or changes nothing there.
LEMMA StepsImplement ==
  ASSUME StoreInv, RowsHaveBytes, [Next]_vars
  PROVE  BlocksAreWhole' /\ CountIsExact' /\ BufferIsFetched' /\ [Store!Next]_Store!vars
<1>1. CASE \E r \in Runs : \/ OpenWriter(r) \/ FinishEmpty(r) \/ Finish(r)
                          \/ ReleaseRun(r) \/ Abandon(r)
  BY <1>1, OpenIsOpen, FinishEmptyIsSeal, FinishIsSeal, ReleaseIsDrop, AbandonIsDrop DEF Store!Next
<1>2. CASE \E r \in Runs, row \in Rows : PushRow(r, row) \/ FlushAndPushRow(r, row)
  BY <1>2, PushIsPush, FlushAndPushIsPush DEF Store!Next
<1>3. CASE \E c \in Readers : \/ NextBufferedRow(c) \/ FetchAndNextRow(c)
                              \/ NextRowAtEnd(c) \/ StopReading(c)
  BY <1>3, BufferedIsRead, FetchIsRead, AtEndIsRead, StopIsStop DEF Store!Next
<1>4. CASE \E c \in Readers, r \in Runs : StartReading(c, r)
  BY <1>4, StartIsStart DEF Store!Next
<1>5. CASE UNCHANGED vars
  <2>1. UNCHANGED <<phase, writerVars, readerVars>>
    BY <1>5 DEF vars
  <2>2. Pushed' = Pushed
    BY <2>1, ContentsAre, ContentsBecome DEF Pushed, writerVars
  <2>3. Position' = Position
    <3>1. \A c \in Readers : Position'[c] = Position[c]
      BY <2>1, PositionIs, PositionBecomes DEF writerVars, readerVars, Fetched
    <3>2. Position' = [c \in Readers |-> Position'[c]] /\ Position = [c \in Readers |-> Position[c]]
      BY DEF Position
    <3>3. QED  BY <3>1, <3>2
  <2>4. BlocksAreWhole' /\ CountIsExact' /\ BufferIsFetched'
    BY <2>1 DEF StoreInv, BlocksAreWhole, CountIsExact, BufferIsFetched, WholeDisk, writerVars,
                readerVars, Fetched
  <2>5. QED  BY <2>1, <2>2, <2>3, <2>4 DEF Store!vars, readerVars
<1>6. QED  BY <1>1, <1>2, <1>3, <1>4, <1>5 DEF Next

LEMMA NextStoreInv ==
  ASSUME StoreInv, RowsHaveBytes, [Next]_vars
  PROVE  StoreInv'
<1>1. IInv'
  BY NextIInv DEF StoreInv
<1>2. SpaceProofs!IInv'
  BY NextIsOfSpace, SpaceSteps, SameNext DEF StoreInv
<1>3. QED  BY <1>1, <1>2, StepsImplement DEF StoreInv

(* Spilled rows come back: readers get the rows that were pushed, in push  *)
(* order, whatever the other writers, readers and releases of the          *)
(* database do meanwhile (ScratchRunWriter and ScratchRunCursor,           *)
(* block_allocator.rs).  Rows of no bytes are left out, because finish     *)
(* does lose them: FinishKeepsRows.                                        *)
THEOREM RunsImplementStore ==
  ASSUME RowsHaveBytes
  PROVE  Spec => ImplementsRunStore
<1>1. Init => Store!Init
  <2> SUFFICES ASSUME Init PROVE Store!Init
    OBVIOUS
  <2>1. Pushed = [r \in Runs |-> <<>>]
    <3>1. ASSUME NEW r \in Runs PROVE Contents(r) = <<>>
      <4>1. block_ids[r] = <<>> /\ current_block[r] = <<>>
        BY DEF Init
      <4>2. RowsIn(pending_start[r], pending[r], disk, <<>>) = <<>>
        BY RowsInNone
      <4>3. <<>> \o <<>> = <<>>
        BY EmptySeq, ConcatEmptySeq
      <4>4. QED  BY <4>1, <4>2, <4>3, ContentsAre
    <3>2. QED  BY <3>1 DEF Pushed
  <2>2. Position = [c \in Readers |-> 0]
    BY DEF Init, Position
  <2>3. QED  BY <2>1, <2>2 DEF Init, Store!Init
<1>2. StoreInv /\ [Next]_vars => [Store!Next]_Store!vars
  BY StepsImplement
<1>3. Init => StoreInv
  BY InitStoreInv
<1>4. StoreInv /\ [Next]_vars => StoreInv'
  BY NextStoreInv
<1>5. QED  BY <1>1, <1>2, <1>3, <1>4, PTL DEF Spec, Store!Spec, ImplementsRunStore

=============================================================================
