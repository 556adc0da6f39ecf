----------------------------- MODULE DiskLayout -----------------------------
(***************************************************************************)
(* How Disk::new places the configured files on the simulated disk         *)
(* (disk/src/disk_simulation/disk.rs): one region per file, far apart, and *)
(* behind all of them the region of the anonymous blocks.                  *)
(***************************************************************************)
EXTENDS Integers, Sequences, FiniteSetsExt, SequencesExt

CONSTANTS
  BlockSize,   \* bytes of a block
  MinGapBytes  \* bytes between two regions at the least: 10 GB in the code

ASSUME DiskLayoutAssumption ==
  BlockSize \in Nat \ {0} /\ MinGapBytes \in Nat

\* What validate_disk_simulation_config lets pass.
ValidFiles(files) ==
  \A i \in DOMAIN files : files[i].size > 0 /\ files[i].size % BlockSize = 0

MinGap == (MinGapBytes + BlockSize - 1) \div BlockSize

(* One iteration of generate_file_metadata_mapping.  Of two files with one *)
(* id the mapping keeps the second; the first keeps its place.             *)
Place(placed, file, index) ==
  LET num_blocks == file.size \div BlockSize
      metadata == [file |-> index, start_block |-> placed.position, num_blocks |-> num_blocks]
  IN [mapping |-> [id \in DOMAIN placed.mapping \cup {file.id} |->
                     IF id = file.id THEN metadata ELSE placed.mapping[id]],
      position |-> placed.position + num_blocks + Max({4 * num_blocks, MinGap})]

\* generate_file_metadata_mapping, up to a number of files, and of all of them.
PlacedFiles(files) ==
  LET placed[n \in 0 .. Len(files)] ==
        IF n = 0 THEN [mapping |-> <<>>, position |-> 0]
        ELSE Place(placed[n - 1], files[n], n)
  IN placed

FileMetadataMapping(files) == PlacedFiles(files)[Len(files)].mapping

Region(metadata) ==
  metadata.start_block .. metadata.start_block + metadata.num_blocks - 1

\* mutant: the number of blocks of the last file is forgotten
AnonStartIndex_OfStarts(mapping) ==
  Max({0} \cup {mapping[id].start_block : id \in DOMAIN mapping}) + MinGap

\* compute_anon_start_index.
AnonStartIndex(mapping) ==
  Max({0} \cup {mapping[id].start_block + mapping[id].num_blocks : id \in DOMAIN mapping}) + MinGap

\* get_file_id: the files whose region has the block.
FileIds(mapping, block) == {id \in DOMAIN mapping : block \in Region(mapping[id])}

=============================================================================
