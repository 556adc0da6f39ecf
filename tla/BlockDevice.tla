---------------------------- MODULE BlockDevice ----------------------------
(***************************************************************************)
(* What the disk simulator promises to the database, which is its only     *)
(* client: a read returns, for each block asked for, what was last written *)
(* there, although writes are not acknowledged and nothing but the order   *)
(* of two byte streams ties a reply to its request.  The blocks below      *)
(* anon_start are those of files, or of none, and never change.  A write   *)
(* is not atomic: a client that dies in the middle has written some first  *)
(* blocks.  DiskProtocol implements this module.                           *)
(***************************************************************************)
EXTENDS Integers, Sequences

CONSTANTS
  Blocks,      \* block numbers
  Data,        \* what can be written to a block
  FileBlocks,  \* contents of the blocks of files
  NoData       \* a block that is neither in a file nor written yet

VARIABLES
  anon_start,  \* the blocks from here on can be written
  blocks,      \* contents of every block
  result       \* what the last completed read returned

vars == <<anon_start, blocks, result>>

Init ==
  /\ anon_start \in Nat
  /\ blocks \in [Blocks -> FileBlocks \cup {NoData}]
  /\ \A b \in Blocks : b >= anon_start => blocks[b] = NoData
  /\ result = <<>>

WriteBlock(b, data) ==
  /\ b >= anon_start
  /\ blocks' = [blocks EXCEPT ![b] = data]
  /\ UNCHANGED <<anon_start, result>>

ReadBlocks(start, count) ==
  /\ \A b \in start .. start + count - 1 : blocks[b] # NoData
  /\ result' = [i \in 1 .. count |-> blocks[start + i - 1]]
  /\ UNCHANGED <<anon_start, blocks>>

Next ==
  \/ \E b \in Blocks, data \in Data : WriteBlock(b, data)
  \/ \E first, last \in Blocks : first <= last /\ ReadBlocks(first, last - first + 1)

Spec == Init /\ [][Next]_vars

=============================================================================
