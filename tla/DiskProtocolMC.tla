--------------------------- MODULE DiskProtocolMC ---------------------------
(* Instance of DiskProtocol for TLC: two files, a large one, two of one id, *)
(* and no file at all.  A gap is of two blocks, or of four for one block.   *)
EXTENDS DiskProtocol

CONSTANTS f, g, unknown

File(id, blocks) == [id |-> id, size |-> blocks * BlockSize]

MCFileLists ==
  {<<File(f, 1), File(g, 1)>>, <<File(g, 3)>>, <<File(f, 1), File(f, 1)>>, <<>>}

=============================================================================
