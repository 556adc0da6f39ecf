----------------------------- MODULE ScratchRun -----------------------------
(***************************************************************************)
(* Scratch runs on the disk: the writers, finished runs and readers of     *)
(* database/src/storage/block_allocator.rs over one ScratchSpace and one   *)
(* disk.                                                                   *)
(*                                                                         *)
(* A writer packs rows into its current block; a full block gets the next  *)
(* block of the writer's chunk and joins a batch of consecutive blocks     *)
(* that is written to the disk when it is full, when the next block does   *)
(* not continue it, or when the writer finishes.  A reader fetches a batch *)
(* of consecutive blocks, decodes it and returns its rows one by one.  The *)
(* database has one thread, so each call is atomic, but calls of different *)
(* writers and readers interleave freely: join partitions are filled side  *)
(* by side and merged runs are read side by side.                          *)
(*                                                                         *)
(* Two properties carry the module: it implements ScratchSpace (blocks are *)
(* exclusive) and RunStore (a reader gets the rows that were pushed).      *)
(***************************************************************************)
EXTENDS Integers, Sequences, SequencesExt, TLC

CONSTANTS
  Runs, Readers, Rows, NoRow, NoRun,  \* as in RunStore
  RowSize,      \* serialized size of each row
  Payload,      \* bytes of a block before the row count
  CountMod,     \* row_count is a u16: it counts modulo 65536
  AnonStart, Chunk, MaxBlock,         \* as in ScratchSpace
  WriteBatch,   \* SCRATCH_WRITE_BATCH_BLOCKS
  ReadBatch,    \* of each reader: SCRATCH_CURSOR_BATCH_BLOCKS or SCRATCH_STREAM_BATCH_BLOCKS
  MaxRows,      \* bound of the model: rows pushed to one run
  MaxWriters    \* bound of the model: writers opened

ASSUME ScratchRunAssumption ==
  /\ NoRow \notin Rows /\ NoRun \notin Runs
  /\ RowSize \in [Rows -> Nat]
  /\ ReadBatch \in [Readers -> Nat \ {0}]
  /\ {Payload, MaxRows, MaxWriters, AnonStart, MaxBlock} \subseteq Nat
  /\ {CountMod, WriteBatch, Chunk} \subseteq Nat \ {0}

VARIABLES
  next_block, free_blocks,  \* ScratchSpace
  phase,          \* of each run: "unused", "writing" or "sealed"
  reserved,       \* ScratchRunWriter.reserved_blocks
  block_ids,      \* block_ids of the writer, then of the run
  current_block,  \* the rows encoded into the writer's current block
  row_count,      \* ScratchRunWriter.row_count
  pending_start,  \* pending_start_block, 0 when nothing is pending
  pending,        \* the blocks in pending_bytes
  disk,           \* the written blocks of the anonymous region
  reading,        \* of each reader: its run, or NoRun
  offset,         \* of each reader: the blocks of the run it has fetched
  buffer,         \* of each reader: the decoded rows not yet returned
  returned,       \* of each reader: what its last call returned
  leaked,         \* blocks of dropped writers and runs
  opened          \* how many writers have been opened

spaceVars == <<next_block, free_blocks, reserved, leaked>>
writerVars == <<block_ids, current_block, row_count, pending_start, pending, disk>>
readerVars == <<reading, offset, buffer, returned>>
vars == <<spaceVars, phase, opened, writerVars, readerVars>>

Held == [r \in Runs |-> ToSet(block_ids[r])]

Space == INSTANCE ScratchSpace WITH held <- Held

-----------------------------------------------------------------------------
(* Blocks.  A block image is the rows encoded in it and the count in its   *)
(* last two bytes.                                                         *)

Used(r) == FoldFunction(+, 0, [i \in DOMAIN current_block[r] |-> RowSize[current_block[r][i]]])

\* The block after finalize_block.
BlockImage(r) == [rows |-> current_block[r], count |-> row_count[r]]

\* decode_rows_from_block reads as many rows as the count says.
DecodeRows(image) == SubSeq(image.rows, 1, image.count)

\* write_blocks: the images go to consecutive blocks from start on.
WriteBlocks(d, start, images) ==
  LET written == start .. start + Len(images) - 1
  IN  [b \in written \cup DOMAIN d |-> IF b \in written THEN images[b - start + 1] ELSE d[b]]

QueueBlockWrite_AlwaysExtends(start, queue, id, image, d) ==   \* mutant: no gap check
  IF Len(queue) + 1 >= WriteBatch
  THEN [start |-> 0, queue |-> <<>>,
        disk |-> WriteBlocks(d, IF queue = <<>> THEN id ELSE start, Append(queue, image))]
  ELSE [start |-> IF queue = <<>> THEN id ELSE start,
        queue |-> Append(queue, image), disk |-> d]

(* queue_block_write: the block joins the pending batch if it continues    *)
(* it, else the batch is written and the block starts a new one; a full    *)
(* batch is written at once.                                               *)
QueueBlockWrite(start, queue, id, image, d) ==
  LET extends == /\ queue # <<>>
                 /\ id = start + Len(queue)
                 /\ Len(queue) < WriteBatch
      start1 == IF extends THEN start ELSE id
      queue1 == IF extends THEN Append(queue, image) ELSE <<image>>
      disk1  == IF extends THEN d ELSE WriteBlocks(d, start, queue)
  IN  IF Len(queue1) >= WriteBatch
      THEN [start |-> 0, queue |-> <<>>, disk |-> WriteBlocks(disk1, start1, queue1)]
      ELSE [start |-> start1, queue |-> queue1, disk |-> disk1]

\* flush_block: the block gets the lowest reserved block and is queued.
FlushedBlock(r) ==
  LET blocks == Space!WriterBlocks(r)
      id == Min(blocks)
  IN  [id |-> id, rest |-> blocks \ {id},
       batch |-> QueueBlockWrite(pending_start[r], pending[r], id, BlockImage(r), disk)]

(* contiguous_batch_len: the blocks of ids after the first n that one read *)
(* fetches.                                                                *)
ContiguousBatchLen(ids, n, max) ==
  Max({len \in 1 .. Min({max, Len(ids) - n}) :
         \A i \in 1 .. len - 1 : ids[n + i + 1] = ids[n + i] + 1})

-----------------------------------------------------------------------------
(* What a run holds: its blocks, pending or on disk, then the rows still   *)
(* in the current block.                                                   *)

ImageOf(r, b) ==
  IF b \in pending_start[r] .. pending_start[r] + Len(pending[r]) - 1
  THEN pending[r][b - pending_start[r] + 1]
  ELSE IF b \in DOMAIN disk THEN disk[b] ELSE [rows |-> <<>>, count |-> 0]

RowsOfBlocks(r, ids) ==
  FlattenSeq([i \in 1 .. Len(ids) |-> DecodeRows(ImageOf(r, ids[i]))])

Contents(r) == RowsOfBlocks(r, block_ids[r]) \o current_block[r]

-----------------------------------------------------------------------------
Init ==
  /\ next_block = AnonStart /\ free_blocks = {} /\ leaked = {}
  /\ phase = [r \in Runs |-> "unused"]
  /\ reserved = [r \in Runs |-> {}]
  /\ block_ids = [r \in Runs |-> <<>>]
  /\ current_block = [r \in Runs |-> <<>>]
  /\ row_count = [r \in Runs |-> 0]
  /\ pending_start = [r \in Runs |-> 0]
  /\ pending = [r \in Runs |-> <<>>]
  /\ disk = <<>>
  /\ reading = [c \in Readers |-> NoRun]
  /\ offset = [c \in Readers |-> 0]
  /\ buffer = [c \in Readers |-> <<>>]
  /\ returned = [c \in Readers |-> NoRow]
  /\ opened = 0

\* ScratchRunWriter::new.
OpenWriter(r) ==
  /\ phase[r] = "unused"
  /\ opened < MaxWriters
  /\ opened' = opened + 1
  /\ phase' = [phase EXCEPT ![r] = "writing"]
  /\ UNCHANGED <<spaceVars, writerVars, readerVars>>

\* A writer that has room for one more row of the model.
MayPush(r, row) ==
  /\ phase[r] = "writing"
  /\ RowSize[row] <= Payload   \* else push_row fails
  /\ Len(Contents(r)) < MaxRows

\* push_row, push_encoded_row when the row fits into the current block.
PushRow(r, row) ==
  /\ MayPush(r, row)
  /\ Used(r) + RowSize[row] <= Payload
  /\ current_block' = [current_block EXCEPT ![r] = Append(@, row)]
  /\ row_count' = [row_count EXCEPT ![r] = (@ + 1) % CountMod]
  /\ UNCHANGED <<opened, spaceVars, phase, block_ids, pending_start, pending, disk, readerVars>>

(* The part of flush_block shared by its two callers, with `rest` of the   *)
(* reservation left.                                                       *)
FlushTo(r, flushed, rest, freed) ==
  /\ Space!RoomLeft(r)
  /\ next_block' = Space!NextAfterReserve(r)
  /\ free_blocks' = Space!FreeAfterReserve(r) \cup freed
  /\ reserved' = [reserved EXCEPT ![r] = rest]
  /\ block_ids' = [block_ids EXCEPT ![r] = Append(@, flushed.id)]

\* push_row when it does not: flush_block comes first.
FlushAndPushRow(r, row) ==
  /\ MayPush(r, row)
  /\ Used(r) + RowSize[row] > Payload
  /\ row_count[r] > 0
  /\ LET flushed == FlushedBlock(r)
     IN  /\ FlushTo(r, flushed, flushed.rest, {})
         /\ pending_start' = [pending_start EXCEPT ![r] = flushed.batch.start]
         /\ pending' = [pending EXCEPT ![r] = flushed.batch.queue]
         /\ disk' = flushed.batch.disk
  /\ current_block' = [current_block EXCEPT ![r] = <<row>>]
  /\ row_count' = [row_count EXCEPT ![r] = 1 % CountMod]
  /\ UNCHANGED <<opened, phase, leaked, readerVars>>

\* finish drops the writer and leaves the run.
Seal(r) ==
  /\ phase[r] = "writing"
  /\ phase' = [phase EXCEPT ![r] = "sealed"]
  /\ current_block' = [current_block EXCEPT ![r] = <<>>]
  /\ row_count' = [row_count EXCEPT ![r] = 0]
  /\ pending_start' = [pending_start EXCEPT ![r] = 0]
  /\ pending' = [pending EXCEPT ![r] = <<>>]

\* finish with no row in the current block.
FinishEmpty(r) ==
  /\ Seal(r)
  /\ row_count[r] = 0
  /\ disk' = WriteBlocks(disk, pending_start[r], pending[r])
  /\ free_blocks' = free_blocks \cup reserved[r]
  /\ reserved' = [reserved EXCEPT ![r] = {}]
  /\ UNCHANGED <<opened, next_block, leaked, block_ids, readerVars>>

Finish_KeepsPending(r) ==   \* mutant: finish forgets flush_pending_blocks
  /\ Seal(r)
  /\ row_count[r] > 0
  /\ LET flushed == FlushedBlock(r)
     IN  /\ FlushTo(r, flushed, {}, flushed.rest)
         /\ disk' = flushed.batch.disk
  /\ UNCHANGED <<opened, leaked, readerVars>>

Finish_ReleasesChunk(r) ==   \* mutant: the whole chunk is released, not its unused rest
  /\ Seal(r)
  /\ row_count[r] > 0
  /\ LET flushed == FlushedBlock(r)
     IN  /\ FlushTo(r, flushed, {}, flushed.rest \cup {flushed.id})
         /\ disk' = WriteBlocks(flushed.batch.disk, flushed.batch.start, flushed.batch.queue)
  /\ UNCHANGED <<opened, leaked, readerVars>>

(* finish with rows in the current block: flush_block, then                *)
(* flush_pending_blocks, then the release of the unused reservation.       *)
Finish(r) ==
  /\ Seal(r)
  /\ row_count[r] > 0
  /\ LET flushed == FlushedBlock(r)
     IN  /\ FlushTo(r, flushed, {}, flushed.rest)
         /\ disk' = WriteBlocks(flushed.batch.disk, flushed.batch.start, flushed.batch.queue)
  /\ UNCHANGED <<opened, leaked, readerVars>>

NobodyReads(r) == \A c \in Readers : reading[c] # r

(* release_run.  Its callers (sort.rs:161-168, filter.rs:1305-1340,        *)
(* join.rs:50-52) release a run after its last reader has returned.        *)
ReleaseRun(r) ==
  /\ phase[r] = "sealed"
  /\ NobodyReads(r)
  /\ phase' = [phase EXCEPT ![r] = "unused"]
  /\ free_blocks' = free_blocks \cup ToSet(block_ids[r])
  /\ block_ids' = [block_ids EXCEPT ![r] = <<>>]
  /\ UNCHANGED <<opened, next_block, reserved, leaked, current_block, row_count, pending_start,
                 pending, disk, readerVars>>

(* An error drops the writer or the run, with its pending blocks, and with *)
(* the readers of the same operator; nothing is released.                  *)
Abandon(r) ==
  /\ phase[r] # "unused"
  /\ NobodyReads(r)
  /\ phase' = [phase EXCEPT ![r] = "unused"]
  /\ leaked' = leaked \cup reserved[r] \cup ToSet(block_ids[r])
  /\ reserved' = [reserved EXCEPT ![r] = {}]
  /\ block_ids' = [block_ids EXCEPT ![r] = <<>>]
  /\ current_block' = [current_block EXCEPT ![r] = <<>>]
  /\ row_count' = [row_count EXCEPT ![r] = 0]
  /\ pending_start' = [pending_start EXCEPT ![r] = 0]
  /\ pending' = [pending EXCEPT ![r] = <<>>]
  /\ UNCHANGED <<opened, next_block, free_blocks, disk, readerVars>>

\* ScratchRunCursor::new, or the start of read_scratch_run.
StartReading(c, r) ==
  /\ reading[c] = NoRun
  /\ phase[r] = "sealed"
  /\ reading' = [reading EXCEPT ![c] = r]
  /\ offset' = [offset EXCEPT ![c] = 0]
  /\ buffer' = [buffer EXCEPT ![c] = <<>>]
  /\ returned' = [returned EXCEPT ![c] = NoRow]
  /\ UNCHANGED <<opened, spaceVars, phase, writerVars>>

\* next_row from the buffer, or the next row of the batch for read_scratch_run.
NextBufferedRow(c) ==
  /\ buffer[c] # <<>>
  /\ returned' = [returned EXCEPT ![c] = Head(buffer[c])]
  /\ buffer' = [buffer EXCEPT ![c] = Tail(@)]
  /\ UNCHANGED <<opened, spaceVars, phase, writerVars, reading, offset>>

FetchedBlocks_IgnoresGaps(c) ==   \* mutant: contiguous_batch_len ignores gaps
  LET ids == block_ids[reading[c]]
      len == Min({ReadBatch[c], Len(ids) - offset[c]})
  IN  ids[offset[c] + 1] .. ids[offset[c] + 1] + len - 1

\* The blocks one read_blocks call fetches.
FetchedBlocks(c) ==
  LET ids == block_ids[reading[c]]
      len == ContiguousBatchLen(ids, offset[c], ReadBatch[c])
  IN  ids[offset[c] + 1] .. ids[offset[c] + 1] + len - 1

(* next_row with an empty buffer: one read, its rows decoded, the first    *)
(* one returned.  The disk ends the process if a block was never written   *)
(* (disk.rs:77-98); SealedRunsOnDisk says it always was.                   *)
FetchAndNextRow(c) ==
  /\ reading[c] # NoRun
  /\ buffer[c] = <<>>
  /\ offset[c] < Len(block_ids[reading[c]])
  /\ FetchedBlocks(c) \subseteq DOMAIN disk
  /\ LET first == block_ids[reading[c]][offset[c] + 1]
         len == Cardinality(FetchedBlocks(c))
         rows == FlattenSeq([i \in 1 .. len |-> DecodeRows(disk[first + i - 1])])
     IN  /\ rows # <<>>
         /\ offset' = [offset EXCEPT ![c] = @ + len]
         /\ returned' = [returned EXCEPT ![c] = Head(rows)]
         /\ buffer' = [buffer EXCEPT ![c] = Tail(rows)]
  /\ UNCHANGED <<opened, spaceVars, phase, writerVars, reading>>

\* next_row at the end of the run.
NextRowAtEnd(c) ==
  /\ reading[c] # NoRun
  /\ buffer[c] = <<>>
  /\ offset[c] = Len(block_ids[reading[c]])
  /\ returned' = [returned EXCEPT ![c] = NoRow]
  /\ UNCHANGED <<opened, spaceVars, phase, writerVars, reading, offset, buffer>>

\* The reader is dropped, at the end of the run or before.
StopReading(c) ==
  /\ reading[c] # NoRun
  /\ reading' = [reading EXCEPT ![c] = NoRun]
  /\ offset' = [offset EXCEPT ![c] = 0]
  /\ buffer' = [buffer EXCEPT ![c] = <<>>]
  /\ returned' = [returned EXCEPT ![c] = NoRow]
  /\ UNCHANGED <<opened, spaceVars, phase, writerVars>>

Next ==
  \/ \E r \in Runs : \/ OpenWriter(r) \/ FinishEmpty(r) \/ Finish(r)
                     \/ ReleaseRun(r) \/ Abandon(r)
  \/ \E r \in Runs, row \in Rows : PushRow(r, row) \/ FlushAndPushRow(r, row)
  \/ \E c \in Readers : \/ NextBufferedRow(c) \/ FetchAndNextRow(c)
                        \/ NextRowAtEnd(c) \/ StopReading(c)
  \/ \E c \in Readers, r \in Runs : StartReading(c, r)

Spec == Init /\ [][Next]_vars

-----------------------------------------------------------------------------
(* Every block of a finished run has been written, so reading a run never  *)
(* asks the disk for a block it does not have: the disk would exit, and    *)
(* the database and the query with it.                                     *)
SealedRunsOnDisk ==
  \A r \in Runs : phase[r] = "sealed" => ToSet(block_ids[r]) \subseteq DOMAIN disk

(* What is not yet on disk is exactly the pending batch, and the pending   *)
(* batch is the tail of the writer's block list: blocks are written in the *)
(* order they were filled and none is skipped.                             *)
PendingIsTail ==
  \A r \in Runs :
    /\ Len(pending[r]) <= Len(block_ids[r])
    /\ \A i \in 1 .. Len(pending[r]) :
         block_ids[r][Len(block_ids[r]) - Len(pending[r]) + i] = pending_start[r] + i - 1
    /\ \A i \in 1 .. Len(block_ids[r]) - Len(pending[r]) : block_ids[r][i] \in DOMAIN disk

\* Blocks stay exclusive: the steps above are steps of ScratchSpace.
ImplementsScratchSpace == Space!Spec

(* A run is the rows of its blocks; a reader's position is what it has     *)
(* fetched less what it still buffers.                                     *)
Pushed == [r \in Runs |-> Contents(r)]

Position ==
  [c \in Readers |->
    IF reading[c] = NoRun THEN 0
    ELSE Len(RowsOfBlocks(reading[c], SubSeq(block_ids[reading[c]], 1, offset[c])))
           - Len(buffer[c])]

Store == INSTANCE RunStore WITH contents <- Pushed, position <- Position

\* Readers get the rows that were pushed, in order.
ImplementsRunStore == Store!Spec

(* Finishing a writer keeps every row that was pushed: "Queries should     *)
(* still run correctly under a tight memory budget." (README.md:10)        *)
FinishKeepsRows ==
  [][\A r \in Runs : phase[r] = "writing" /\ phase'[r] = "sealed"
                       => Contents(r)' = Contents(r)]_vars

=============================================================================
