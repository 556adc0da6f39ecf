----------------------------- MODULE ScanCursor -----------------------------
(***************************************************************************)
(* The position of a scan in a table file (ScanPipelineCursor in           *)
(* database/src/scan_pipeline.rs).  A table is a sequence of blocks, a     *)
(* block a sequence of rows; the cursor holds a batch of blocks in memory  *)
(* and a current block.  It decodes a row of the block it advances to      *)
(* without looking at its count of rows: no block is empty (TableFile).    *)
(***************************************************************************)
EXTENDS Naturals, Sequences, SequencesExt

CONSTANT BatchBlocks  \* scan_batch_blocks: blocks read by one request

ASSUME ScanCursorAssumption == BatchBlocks \in Nat \ {0}

Smaller(a, b) == IF a <= b THEN a ELSE b

\* ScanPipelineCursor::new; row_index counts the rows taken from the block.
NewCursor ==
  [next_block_offset |-> 0, batch |-> <<>>, next_batch_block_index |-> 0,
   block |-> <<>>, row_index |-> 0]

BlockDone(cursor) == cursor.row_index >= Len(cursor.block)
BatchDone(cursor) == cursor.next_batch_block_index >= Len(cursor.batch)

\* mutant: a batch starts with the last block of the one before
LoadNextBatch_Overlaps(cursor, table) ==
  LET count == Smaller(Len(table) - cursor.next_block_offset, BatchBlocks)
  IN  [cursor EXCEPT !.batch = SubSeq(table, IF cursor.next_block_offset = 0 THEN 1
                                             ELSE cursor.next_block_offset,
                                     cursor.next_block_offset + count),
                     !.next_batch_block_index = 0,
                     !.next_block_offset = @ + count]

LoadNextBatch(cursor, table) ==
  LET count == Smaller(Len(table) - cursor.next_block_offset, BatchBlocks)
  IN  [cursor EXCEPT !.batch = SubSeq(table, cursor.next_block_offset + 1,
                                     cursor.next_block_offset + count),
                     !.next_batch_block_index = 0,
                     !.next_block_offset = @ + count]

\* advance_block, once a batch with a block left is loaded.
NextBlock(cursor) ==
  [cursor EXCEPT !.block = cursor.batch[cursor.next_batch_block_index + 1],
                 !.next_batch_block_index = @ + 1,
                 !.row_index = 0]

\* advance_block returns false.
AtEnd(cursor, table) ==
  BlockDone(cursor) /\ BatchDone(cursor) /\ cursor.next_block_offset >= Len(table)

\* The head of next_row's loop: a cursor whose block has a row to decode.
Positioned(cursor, table) ==
  IF ~BlockDone(cursor) THEN cursor
  ELSE NextBlock(IF BatchDone(cursor) THEN LoadNextBatch(cursor, table) ELSE cursor)

\* decode_current_row, and the increment after it.
CurrentRow(cursor) == cursor.block[cursor.row_index + 1]
PastRow(cursor) == [cursor EXCEPT !.row_index = @ + 1]

\* The rows the cursor has not reached, in the order of the file.
Unread(cursor, table) ==
  LET rest(blocks, done) == FlattenSeq(SubSeq(blocks, done + 1, Len(blocks)))
  IN  SubSeq(cursor.block, cursor.row_index + 1, Len(cursor.block))
        \o rest(cursor.batch, cursor.next_batch_block_index)
        \o rest(table, cursor.next_block_offset)

=============================================================================
