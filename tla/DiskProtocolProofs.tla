------------------------- MODULE DiskProtocolProofs -------------------------
(***************************************************************************)
(* Proofs about DiskProtocol.  The invariant IInv says whose each unit of  *)
(* the pipe to the disk is.  A put claims the units behind its line: the   *)
(* data in the pipe is what is claimed (PipeInv), and what the client has  *)
(* yet to write completes what is claimed (UnsentInv), so that the next    *)
(* unit it sends is data inside a write and a command line otherwise.  No  *)
(* more than one unit asks for a reply, and it is the last one (IdleInv,   *)
(* NumberInv, ReadingInv): when the disk gets to a read, every write has   *)
(* been taken, and the blocks read so far are those stored.                *)
(*                                                                         *)
(* From it follow the framing; the metrics, by counting what the pipe asks *)
(* for as units are appended and taken; and that the protocol implements   *)
(* the block device, by following where each block in the pipe goes to.    *)
(***************************************************************************)
EXTENDS DiskProtocol, DataLemmas

Scratch == anon_start_index .. anon_start_index + ScratchBlocks - 1

\* What a block can hold that can be read, and what is read from each block.
Contents == Data \cup (Nat \X Int)
Stored == [b \in Nat |-> ReadBlock(b)]

Commands == [kind : {"put", "get"}, start : Nat, count : Nat \ {0}]
Questions ==
  [kind : {"number"}, what : {"block-size", "anon-start-block"}, id : {""}]
    \cup [kind : {"number"}, what : {"start-block", "num-blocks"}, id : Ids]
DataUnits == [kind : {"data"}, data : Data]
PipeUnits == Commands \cup Questions \cup DataUnits
Replies == [kind : {"data"}, data : Contents] \cup [kind : {"number"}, value : Nat]
Jobs == [next : Nat, left : Nat, count : Nat]
Counters == [reads : Nat, writes : Nat, blocks : Nat]

TypeInv ==
  /\ client \in {"idle", "number", "reading", "writing", "closed"}
  /\ disk \in {"running", "ended"}
  /\ requests \in Seq(PipeUnits) /\ replies \in Seq(Replies)
  /\ unsent \in Seq(Data)
  /\ buf \in Seq(Contents) /\ result \in Seq(Contents)
  /\ put \in Jobs /\ get \in Jobs
  /\ asked \in Counters /\ metrics \in Counters
  /\ block_size \in {None, BlockSize}
  /\ anon_start \in {None, anon_start_index}
  /\ anon_pages \in [Scratch -> Data \cup {NoData}]

LayoutInv ==
  /\ files \in FileLists
  /\ file_metadata_mapping = FileMetadataMapping(files)
  /\ anon_start_index = AnonStartIndex(file_metadata_mapping)

\* The unit at i of a pipe, or to come there, belongs to a put before it.
Claimed(pipe, left, i) ==
  \/ i <= left
  \/ \E j \in 1 .. Len(pipe) : pipe[j].kind = "put" /\ j < i /\ i <= j + pipe[j].count

\* The data in the pipe is what has been claimed.
Framed(pipe, left) ==
  \A i \in 1 .. Len(pipe) : pipe[i].kind = "data" <=> Claimed(pipe, left, i)

ClaimsEndAt(pipe, left, end) == \A i \in Nat : Claimed(pipe, left, i) => i <= end

\* Puts are about scratch blocks only.
PutsBetween(pipe, from, to) ==
  \A i \in 1 .. Len(pipe) :
    pipe[i].kind = "put" => from <= pipe[i].start /\ pipe[i].start + pipe[i].count <= to

PipeInv ==
  /\ Framed(requests, put.left)
  /\ PutsBetween(requests, anon_start_index, anon_start_index + ScratchBlocks)
  /\ put.left > 0 =>
       anon_start_index <= put.next /\ put.next + put.left <= anon_start_index + ScratchBlocks

\* What the client is about to write completes what is claimed.
UnsentInv ==
  /\ client \notin {"writing", "closed"} => unsent = <<>>
  /\ client = "writing" =>
       unsent # <<>> /\ Claimed(requests, put.left, Len(requests) + Len(unsent))
  /\ client # "closed" => ClaimsEndAt(requests, put.left, Len(requests) + Len(unsent))

\* Only the last unit of the pipe asks for a reply, or none does.
OnlyCallAsks ==
  \A i \in 1 .. Len(requests) :
    requests[i].kind \in {"get", "number"} => i = Len(requests) /\ requests[i] = call
NothingAsks == \A i \in 1 .. Len(requests) : requests[i].kind \notin {"get", "number"}

IdleInv ==
  client \in {"idle", "writing"} => replies = <<>> /\ get.left = 0 /\ NothingAsks

NumberInv ==
  client = "number" =>
    /\ call \in Questions /\ get.left = 0
    /\ \/ replies = <<>> /\ OnlyCallAsks
       \/ replies = <<Number(Answer(call))>> /\ NothingAsks /\ Known(call)

\* A read that the disk has not got to, and one that it works on or has done.
ReadWaits ==
  /\ buf = <<>> /\ replies = <<>> /\ get.left = 0
  /\ OnlyCallAsks
  /\ disk = "running" => requests # <<>> /\ requests[Len(requests)] = call

ReadGoesOn ==
  /\ requests = <<>> /\ put.left = 0
  /\ Len(buf) + Len(replies) + get.left = call.count
  /\ get.left > 0 => get.next = call.start + Len(buf) + Len(replies)
  /\ \A i \in 1 .. Len(buf) :
       buf[i] = Stored[call.start + i - 1] /\ buf[i] # NoData
  /\ \A i \in 1 .. Len(replies) :
       /\ replies[i] = BlockUnit(Stored[call.start + Len(buf) + i - 1])
       /\ replies[i].data # NoData

ReadingInv ==
  client = "reading" =>
    /\ call \in Commands /\ call.kind = "get"
    /\ Len(buf) < call.count
    /\ ReadWaits \/ ReadGoesOn

IInv ==
  TypeInv /\ LayoutInv /\ PipeInv /\ UnsentInv /\ IdleInv /\ NumberInv /\ ReadingInv

-----------------------------------------------------------------------------
(* The layout.  Disk::new places one file after the other; the mapping is  *)
(* known by induction over the number of files placed.                     *)

LEMMA Division ==
  ASSUME NEW b \in Nat \ {0}, NEW m \in Nat
  PROVE  /\ m = (m \div b) * b + (m % b)
         /\ m \div b \in Nat /\ m % b \in 0 .. b - 1
<1>1. m = (m \div b) * b + (m % b)
  BY SMTT(30)
<1>2. m \div b \in Nat
  OBVIOUS
<1>3. m % b \in 0 .. b - 1
  OBVIOUS
<1>4. QED  BY <1>1, <1>2, <1>3

LEMMA Products ==
  ASSUME NEW b \in Nat, NEW m \in Int, NEW n \in Int, m >= n
  PROVE  m * b >= n * b
OBVIOUS

\* A gap of MinGap blocks has MinGapBytes bytes.
LEMMA MinGapIsEnough == MinGap \in Nat /\ MinGap * BlockSize >= MinGapBytes
<1> DEFINE bytes == MinGapBytes + BlockSize - 1
<1>1. bytes \in Nat /\ BlockSize \in Nat \ {0} /\ MinGapBytes \in Nat
  BY DiskLayoutAssumption
<1>2. MinGap = bytes \div BlockSize
  BY DEF MinGap
<1> HIDE DEF bytes
<1>3. /\ bytes = MinGap * BlockSize + (bytes % BlockSize)
      /\ MinGap \in Nat /\ bytes % BlockSize \in 0 .. BlockSize - 1
  <2>1. /\ bytes = (bytes \div BlockSize) * BlockSize + (bytes % BlockSize)
        /\ bytes \div BlockSize \in Nat /\ bytes % BlockSize \in 0 .. BlockSize - 1
    BY <1>1, Division
  <2>2. QED  BY <1>2, <2>1, Zenon
<1>4. bytes = MinGapBytes + BlockSize - 1
  BY DEF bytes
<1>5. MinGap * BlockSize \in Nat
  BY <1>1, <1>3
<1>6. QED  BY <1>1, <1>3, <1>4, <1>5

LEMMA GapInBytes ==
  ASSUME NEW from \in Nat, NEW to \in Nat, from + MinGap <= to
  PROVE  (to - from) * BlockSize >= MinGapBytes
<1>1. MinGap \in Nat /\ BlockSize \in Nat /\ MinGapBytes \in Nat
  BY MinGapIsEnough, DiskLayoutAssumption
<1>2. to - from >= MinGap /\ to - from \in Int
  BY <1>1
<1>3. (to - from) * BlockSize >= MinGap * BlockSize
  BY <1>1, <1>2, Products
<1>4. (to - from) * BlockSize \in Int /\ MinGap * BlockSize \in Int
  BY <1>1
<1>5. QED  BY <1>1, <1>3, <1>4, MinGapIsEnough

\* What PlacedFiles is after n files, given what it is after n - 1.
Placed(placed, list, n) ==
  IF n = 0 THEN [mapping |-> <<>>, position |-> 0]
  ELSE Place(placed[n - 1], list[n], n)

LEMMA PlacedFilesIs ==
  ASSUME NEW list, Len(list) \in Nat
  PROVE  PlacedFiles(list) = [n \in 0 .. Len(list) |-> Placed(PlacedFiles(list), list, n)]
<1> DEFINE solves(g, m) == g = [n \in 0 .. m |-> Placed(g, list, n)]
           unsolved == {m \in Nat : ~ \E g : solves(g, m)}
<1>1. unsolved = {}
  <2> SUFFICES ASSUME unsolved # {} PROVE FALSE
    OBVIOUS
  <2>1. PICK m \in unsolved : \A other \in unsolved : m <= other
    BY LeastElement
  <2>2. m # 0
    <3> DEFINE g == [n \in 0 .. 0 |-> Placed(<<>>, list, n)]
    <3>1. \A n \in 0 .. 0 : Placed(g, list, n) = Placed(<<>>, list, n)
      BY DEF Placed
    <3>2. solves(g, 0)
      BY <3>1
    <3>3. QED  BY <3>2
  <2>3. m - 1 \in Nat /\ m - 1 \notin unsolved
    BY <2>1, <2>2
  <2>4. PICK g : solves(g, m - 1)
    BY <2>3
  <2> DEFINE h == [n \in 0 .. m |-> IF n = m THEN Placed(g, list, n) ELSE g[n]]
  <2>5. \A n \in 0 .. m : n # 0 => n - 1 \in 0 .. m - 1 /\ n - 1 # m /\ n - 1 \in 0 .. m
    BY <2>1, <2>2
  <2>6. \A n \in 0 .. m : n # 0 => h[n - 1] = g[n - 1]
    BY <2>5
  <2>7. \A n \in 0 .. m : Placed(h, list, n) = Placed(g, list, n)
    BY <2>6 DEF Placed
  <2>8. \A n \in 0 .. m : n # m => g[n] = Placed(g, list, n)
    <3>1. \A n \in 0 .. m : n # m => n \in 0 .. m - 1
      BY <2>1
    <3>2. \A n \in 0 .. m - 1 : g[n] = Placed(g, list, n)
      BY <2>4
    <3>3. QED  BY <3>1, <3>2
  <2>9. \A n \in 0 .. m : h[n] = Placed(h, list, n)
    BY <2>7, <2>8
  <2>10. solves(h, m)
    BY <2>9
  <2>11. QED  BY <2>1, <2>10
<1>2. \E g : solves(g, Len(list))
  BY <1>1
<1>3. PlacedFiles(list) = CHOOSE g : solves(g, Len(list))
  BY DEF PlacedFiles, Placed
<1>4. QED  BY <1>2, <1>3

\* The region of a file, with the gap behind it, ends before a position.
EndsBefore(metadata, position) ==
  metadata.start_block + metadata.num_blocks + MinGap <= position

\* What is known of a mapping made of the first n files of a list.
MappingOf(mapping, position, list, n) ==
  /\ position \in Nat
  /\ DOMAIN mapping = {list[i].id : i \in 1 .. n}
  /\ \A id \in DOMAIN mapping :
       /\ mapping[id].file \in 1 .. n
       /\ mapping[id].start_block \in Nat /\ mapping[id].num_blocks \in Nat
       /\ list[mapping[id].file].id = id
       /\ \A i \in 1 .. n : list[i].id = id => i <= mapping[id].file
       /\ mapping[id].num_blocks = list[mapping[id].file].size \div BlockSize
       /\ EndsBefore(mapping[id], position)
  /\ \A id, other \in DOMAIN mapping :
       id # other => \/ EndsBefore(mapping[id], mapping[other].start_block)
                     \/ EndsBefore(mapping[other], mapping[id].start_block)

LEMMA PlaceOne ==
  ASSUME NEW placed, NEW list, NEW n \in Nat \ {0}, list[n].size \in Nat,
         MappingOf(placed.mapping, placed.position, list, n - 1)
  PROVE  MappingOf(Place(placed, list[n], n).mapping, Place(placed, list[n], n).position, list, n)
<1> DEFINE num_blocks == list[n].size \div BlockSize
           gap == Max({4 * num_blocks, MinGap})
           old == placed.mapping
           new == Place(placed, list[n], n).mapping
           position == Place(placed, list[n], n).position
<1>1. num_blocks \in Nat
  BY Division, DiskLayoutAssumption
<1>2. gap \in Nat /\ MinGap <= gap /\ MinGap \in Nat
  <2> HIDE DEF num_blocks
  <2>1. MinGap \in Nat
    BY MinGapIsEnough
  <2>2. {4 * num_blocks, MinGap} \in SUBSET Nat /\ 4 * num_blocks + MinGap \in Nat
    BY <1>1, <2>1
  <2>3. \A y \in {4 * num_blocks, MinGap} : y <= 4 * num_blocks + MinGap
    BY <1>1, <2>1
  <2>4. gap \in {4 * num_blocks, MinGap} /\ \A y \in {4 * num_blocks, MinGap} : y <= gap
    BY <2>2, <2>3, GreatestElement
  <2>5. QED  BY <2>1, <2>2, <2>4
<1>3. /\ DOMAIN new = DOMAIN old \cup {list[n].id}
      /\ \A id \in DOMAIN new :
           new[id] = IF id = list[n].id
                     THEN [file |-> n, start_block |-> placed.position, num_blocks |-> num_blocks]
                     ELSE old[id]
      /\ position = placed.position + num_blocks + gap
  BY DEF Place
<1> HIDE DEF num_blocks, gap, new, position
<1>4. \A id \in DOMAIN new : id # list[n].id => id \in DOMAIN old /\ new[id] = old[id]
  BY <1>3
<1>5. new[list[n].id].file = n /\ new[list[n].id].start_block = placed.position
      /\ new[list[n].id].num_blocks = num_blocks
  BY <1>3
<1>6. placed.position \in Nat /\ position \in Nat /\ placed.position <= position
  BY <1>1, <1>2, <1>3 DEF MappingOf
<1>7. DOMAIN new = {list[i].id : i \in 1 .. n}
  <2>1. DOMAIN old = {list[i].id : i \in 1 .. n - 1}
    BY DEF MappingOf
  <2>2. \A i \in 1 .. n : i = n \/ i \in 1 .. n - 1
    OBVIOUS
  <2>3. \A i \in 1 .. n - 1 : i \in 1 .. n
    OBVIOUS
  <2>4. n \in 1 .. n
    OBVIOUS
  <2>5. QED  BY <1>3, <2>1, <2>2, <2>3, <2>4
<1>8. ASSUME NEW id \in DOMAIN new
      PROVE  /\ new[id].file \in 1 .. n
             /\ new[id].start_block \in Nat /\ new[id].num_blocks \in Nat
             /\ list[new[id].file].id = id
             /\ \A i \in 1 .. n : list[i].id = id => i <= new[id].file
             /\ new[id].num_blocks = list[new[id].file].size \div BlockSize
             /\ EndsBefore(new[id], position)
  <2>1. CASE id = list[n].id
    <3>1. EndsBefore(new[id], position)
      BY <1>1, <1>2, <1>3, <1>5, <1>6, <2>1 DEF EndsBefore
    <3>2. QED  BY <1>1, <1>5, <1>6, <2>1, <3>1 DEF num_blocks
  <2>2. CASE id # list[n].id
    <3>1. id \in DOMAIN old /\ new[id] = old[id]
      BY <1>4, <2>2
    <3>2. /\ old[id].file \in 1 .. n - 1
          /\ old[id].start_block \in Nat /\ old[id].num_blocks \in Nat
          /\ list[old[id].file].id = id
          /\ \A i \in 1 .. n - 1 : list[i].id = id => i <= old[id].file
          /\ old[id].num_blocks = list[old[id].file].size \div BlockSize
          /\ EndsBefore(old[id], placed.position)
      BY <3>1 DEF MappingOf
    <3>3. \A i \in 1 .. n : list[i].id = id => i <= old[id].file
      <4>1. \A i \in 1 .. n : i = n \/ i \in 1 .. n - 1
        OBVIOUS
      <4>2. QED  BY <2>2, <3>2, <4>1
    <3>4. EndsBefore(old[id], position)
      BY <1>2, <1>6, <3>2 DEF EndsBefore
    <3>5. QED  BY <3>1, <3>2, <3>3, <3>4
  <2>3. QED  BY <2>1, <2>2
<1>9. ASSUME NEW id \in DOMAIN new, NEW other \in DOMAIN new, id # other
      PROVE  \/ EndsBefore(new[id], new[other].start_block)
             \/ EndsBefore(new[other], new[id].start_block)
  <2>1. CASE id = list[n].id
    <3>1. other \in DOMAIN old /\ new[other] = old[other]
      BY <1>4, <1>9, <2>1
    <3>2. EndsBefore(old[other], placed.position)
      BY <3>1 DEF MappingOf
    <3>3. QED  BY <1>5, <2>1, <3>1, <3>2
  <2>2. CASE other = list[n].id
    <3>1. id \in DOMAIN old /\ new[id] = old[id]
      BY <1>4, <1>9, <2>2
    <3>2. EndsBefore(old[id], placed.position)
      BY <3>1 DEF MappingOf
    <3>3. QED  BY <1>5, <2>2, <3>1, <3>2
  <2>3. CASE id # list[n].id /\ other # list[n].id
    <3>1. id \in DOMAIN old /\ other \in DOMAIN old /\ new[id] = old[id] /\ new[other] = old[other]
      BY <1>4, <2>3
    <3>2. QED  BY <1>9, <3>1 DEF MappingOf
  <2>4. QED  BY <2>1, <2>2, <2>3
<1>10. MappingOf(new, position, list, n)
  BY <1>6, <1>7, <1>8, <1>9 DEF MappingOf
<1>11. QED  BY <1>10 DEF new, position

LEMMA MappingIsOfAllFiles ==
  ASSUME NEW list, Len(list) \in Nat, \A i \in 1 .. Len(list) : list[i].size \in Nat
  PROVE  \E position : MappingOf(FileMetadataMapping(list), position, list, Len(list))
<1> DEFINE placed == PlacedFiles(list)
           wrong == {n \in 0 .. Len(list) :
                       ~ MappingOf(placed[n].mapping, placed[n].position, list, n)}
<1>1. \A n \in 0 .. Len(list) : placed[n] = Placed(placed, list, n)
  BY PlacedFilesIs
<1> HIDE DEF placed
<1>2. wrong = {}
  <2> SUFFICES ASSUME wrong # {} PROVE FALSE
    OBVIOUS
  <2>1. PICK n \in wrong : \A other \in wrong : n <= other
    <3>1. wrong \in SUBSET Nat
      OBVIOUS
    <3> HIDE DEF wrong
    <3>2. QED  BY <3>1, LeastElement
  <2>2. n # 0
    <3> SUFFICES ASSUME n = 0 PROVE FALSE
      OBVIOUS
    <3>1. placed[0] = [mapping |-> <<>>, position |-> 0]
      BY <1>1 DEF Placed
    <3>2. MappingOf(<<>>, 0, list, 0)
      <4>1. DOMAIN <<>> = {} /\ {list[i].id : i \in 1 .. 0} = {}
        OBVIOUS
      <4>2. 0 \in Nat
        OBVIOUS
      <4>3. QED  BY <4>1, <4>2, Zenon DEF MappingOf
    <3>3. QED  BY <2>1, <3>1, <3>2
  <2>3. n - 1 \in 0 .. Len(list) /\ n - 1 \notin wrong /\ n \in Nat \ {0} /\ n \in 1 .. Len(list)
    BY <2>1, <2>2
  <2>4. MappingOf(placed[n - 1].mapping, placed[n - 1].position, list, n - 1)
    BY <2>3
  <2>5. placed[n] = Place(placed[n - 1], list[n], n)
    BY <1>1, <2>2, <2>3 DEF Placed
  <2>6. MappingOf(placed[n].mapping, placed[n].position, list, n)
    BY <2>3, <2>4, <2>5, PlaceOne
  <2>7. QED  BY <2>1, <2>6
<1>3. MappingOf(placed[Len(list)].mapping, placed[Len(list)].position, list, Len(list))
  BY <1>2
<1>4. QED  BY <1>3 DEF FileMetadataMapping, placed

\* What is known of the layout of the disk in any state.
LEMMA LayoutFacts ==
  ASSUME LayoutInv
  PROVE  /\ Len(files) \in Nat /\ DOMAIN files = 1 .. Len(files)
         /\ \A i \in 1 .. Len(files) :
              files[i].id \in Ids /\ files[i].size \in Nat /\ files[i].size % BlockSize = 0
         /\ anon_start_index \in Nat
         /\ \E position : MappingOf(file_metadata_mapping, position, files, Len(files))
         /\ \A id \in DOMAIN file_metadata_mapping :
              EndsBefore(file_metadata_mapping[id], anon_start_index)
<1> DEFINE m == file_metadata_mapping
           ends == {0} \cup {m[id].start_block + m[id].num_blocks : id \in DOMAIN m}
<1>1. files \in Seq([id : Ids, size : Nat]) /\ ValidFiles(files)
  BY DiskProtocolAssumption DEF LayoutInv
<1>2. Len(files) \in Nat /\ DOMAIN files = 1 .. Len(files)
  BY <1>1, LenProperties
<1>3. \A i \in 1 .. Len(files) :
        files[i].id \in Ids /\ files[i].size \in Nat /\ files[i].size % BlockSize = 0
  <2>1. \A i \in 1 .. Len(files) : files[i] \in [id : Ids, size : Nat]
    BY <1>1, ElementOfSeq
  <2>2. QED  BY <1>1, <1>2, <2>1 DEF ValidFiles
<1>4. PICK position : MappingOf(m, position, files, Len(files))
  <2>1. \E position : MappingOf(FileMetadataMapping(files), position, files, Len(files))
    BY <1>2, <1>3, MappingIsOfAllFiles
  <2>2. m = FileMetadataMapping(files)
    BY DEF LayoutInv
  <2>3. QED  BY <2>1, <2>2
<1>5. MinGap \in Nat
  BY MinGapIsEnough
<1>6. /\ position \in Nat
      /\ \A id \in DOMAIN m :
           /\ m[id].start_block \in Nat /\ m[id].num_blocks \in Nat
           /\ m[id].start_block + m[id].num_blocks + MinGap <= position
  BY <1>4 DEF MappingOf, EndsBefore
<1>7. Max(ends) \in ends /\ \A y \in ends : y <= Max(ends)
  <2>1. ends \in SUBSET Nat /\ ends # {}
    BY <1>6
  <2>2. \A y \in ends : y <= position
    BY <1>5, <1>6
  <2> HIDE DEF ends
  <2>3. QED  BY <1>6, <2>1, <2>2, GreatestElement
<1>8. anon_start_index = Max(ends) + MinGap
  BY DEF LayoutInv, AnonStartIndex
<1>9. Max(ends) \in Nat
  BY <1>6, <1>7
<1>10. \A id \in DOMAIN m : m[id].start_block + m[id].num_blocks \in ends
  OBVIOUS
<1>11. \A id \in DOMAIN m : EndsBefore(m[id], anon_start_index)
  <2> HIDE DEF ends
  <2> TAKE id \in DOMAIN m
  <2>1. m[id].start_block + m[id].num_blocks <= Max(ends)
    BY <1>7, <1>10
  <2>2. QED  BY <1>5, <1>6, <1>8, <1>9, <2>1 DEF EndsBefore
<1>12. anon_start_index \in Nat
  BY <1>5, <1>8, <1>9
<1>13. QED  BY <1>2, <1>3, <1>4, <1>11, <1>12

\* A block of a file's region is read from that file.
LEMMA FileIsRead ==
  ASSUME LayoutInv, NEW id \in DOMAIN file_metadata_mapping,
         NEW k \in 0 .. file_metadata_mapping[id].num_blocks - 1
  PROVE  LET r == file_metadata_mapping[id]
         IN  /\ r.start_block + k < anon_start_index
             /\ FileIds(file_metadata_mapping, r.start_block + k) = {id}
             /\ ReadBlock(r.start_block + k) = FileBlock(r.file, k)
<1> DEFINE m == file_metadata_mapping
           r == m[id]
           b == r.start_block + k
<1>1. PICK position : MappingOf(m, position, files, Len(files))
  BY LayoutFacts
<1>2. MinGap \in Nat /\ anon_start_index \in Nat
  BY MinGapIsEnough, LayoutFacts
<1>3. r.start_block \in Nat /\ r.num_blocks \in Nat /\ k \in Nat /\ k < r.num_blocks
  BY <1>1 DEF MappingOf
<1>4. b < anon_start_index /\ b \in Nat
  BY <1>2, <1>3, LayoutFacts DEF EndsBefore
<1>5. b \in Region(r)
  BY <1>3 DEF Region
<1>6. \A other \in DOMAIN m : other # id => b \notin Region(m[other])
  <2> TAKE other \in DOMAIN m
  <2> HAVE other # id
  <2>1. m[other].start_block \in Nat /\ m[other].num_blocks \in Nat
    BY <1>1 DEF MappingOf
  <2>2. \/ EndsBefore(r, m[other].start_block)
        \/ EndsBefore(m[other], r.start_block)
    BY <1>1 DEF MappingOf
  <2>3. QED  BY <1>2, <1>3, <2>1, <2>2 DEF EndsBefore, Region
<1>7. FileIds(m, b) = {id}
  <2> HIDE DEF b
  <2>1. QED  BY <1>5, <1>6 DEF FileIds
<1>8. ReadBlock(b) = FileBlock(r.file, b - r.start_block)
  <2>1. ~(b >= anon_start_index)
    BY <1>2, <1>4
  <2>2. (CHOOSE i \in FileIds(m, b) : TRUE) = id
    BY <1>7
  <2> HIDE DEF b
  <2>3. QED  BY <1>7, <2>1, <2>2 DEF ReadBlock
<1>9. b - r.start_block = k
  BY <1>3
<1>10. QED  BY <1>4, <1>7, <1>8, <1>9

\* The regions are apart, and read whole, whatever files are configured.
LEMMA LayoutKeepsApart ==
  ASSUME LayoutInv
  PROVE  RegionsApart
<1> DEFINE m == file_metadata_mapping
<1>1. PICK position : MappingOf(m, position, files, Len(files))
  BY LayoutFacts
<1>2. DOMAIN files = 1 .. Len(files) /\ Len(files) \in Nat /\ anon_start_index \in Nat
  BY LayoutFacts
<1>3. DOMAIN m = {files[i].id : i \in DOMAIN files}
  BY <1>1, <1>2 DEF MappingOf
<1>4. ASSUME NEW id \in DOMAIN m
      PROVE  LET r == m[id]
                 i == Max({j \in DOMAIN files : files[j].id = id})
             IN /\ r.num_blocks * BlockSize = files[i].size
                /\ \A k \in 0 .. r.num_blocks - 1 : ReadBlock(r.start_block + k) = FileBlock(i, k)
                /\ (anon_start_index - (r.start_block + r.num_blocks)) * BlockSize >= MinGapBytes
                /\ \A other \in DOMAIN m \ {id} :
                     \/ (m[other].start_block - (r.start_block + r.num_blocks)) * BlockSize >= MinGapBytes
                     \/ (r.start_block - (m[other].start_block + m[other].num_blocks)) * BlockSize
                          >= MinGapBytes
  <2> DEFINE r == m[id]
             i == Max({j \in DOMAIN files : files[j].id = id})
  <2>1. /\ r.file \in 1 .. Len(files) /\ files[r.file].id = id
        /\ \A j \in 1 .. Len(files) : files[j].id = id => j <= r.file
        /\ r.start_block \in Nat /\ r.num_blocks \in Nat
        /\ r.num_blocks = files[r.file].size \div BlockSize
    BY <1>1 DEF MappingOf
  <2>2. i = r.file
    <3> DEFINE S == {j \in DOMAIN files : files[j].id = id}
    <3>1. S \in SUBSET Nat /\ r.file \in S /\ \A j \in S : j <= r.file
      BY <1>2, <2>1
    <3> HIDE DEF S
    <3>2. Max(S) = r.file
      BY <3>1, GreatestIs
    <3>3. QED  BY <3>2 DEF S
  <2> HIDE DEF i
  <2>3. r.num_blocks * BlockSize = files[i].size
    <3> DEFINE size == files[r.file].size
    <3>1. size \in Nat /\ size % BlockSize = 0 /\ BlockSize \in Nat \ {0}
      BY <2>1, LayoutFacts, DiskLayoutAssumption
    <3> HIDE DEF size
    <3>2. size = (size \div BlockSize) * BlockSize + (size % BlockSize)
      BY <3>1, Division
    <3>3. (size \div BlockSize) * BlockSize \in Nat
      BY <3>1, Division
    <3>4. size = (size \div BlockSize) * BlockSize
      BY <3>1, <3>2, <3>3
    <3>5. QED  BY <2>1, <2>2, <3>4, Zenon DEF size
  <2>4. \A k \in 0 .. r.num_blocks - 1 : ReadBlock(r.start_block + k) = FileBlock(i, k)
    BY <2>2, FileIsRead
  <2>5. (anon_start_index - (r.start_block + r.num_blocks)) * BlockSize >= MinGapBytes
    <3>1. r.start_block + r.num_blocks + MinGap <= anon_start_index
      BY LayoutFacts DEF EndsBefore
    <3>2. r.start_block + r.num_blocks \in Nat
      BY <2>1
    <3>3. QED  BY <1>2, <3>1, <3>2, GapInBytes
  <2>6. ASSUME NEW other \in DOMAIN m \ {id}
        PROVE  \/ (m[other].start_block - (r.start_block + r.num_blocks)) * BlockSize >= MinGapBytes
               \/ (r.start_block - (m[other].start_block + m[other].num_blocks)) * BlockSize
                    >= MinGapBytes
    <3>1. m[other].start_block \in Nat /\ m[other].num_blocks \in Nat
      BY <1>1 DEF MappingOf
    <3>2. r.start_block + r.num_blocks \in Nat /\ m[other].start_block + m[other].num_blocks \in Nat
      BY SMTT(30), <2>1, <3>1
    <3>3. \/ r.start_block + r.num_blocks + MinGap <= m[other].start_block
          \/ m[other].start_block + m[other].num_blocks + MinGap <= r.start_block
      BY <1>1, <2>6 DEF MappingOf, EndsBefore
    <3>4. CASE r.start_block + r.num_blocks + MinGap <= m[other].start_block
      BY <3>1, <3>2, <3>4, GapInBytes
    <3>5. CASE m[other].start_block + m[other].num_blocks + MinGap <= r.start_block
      BY <2>1, <3>2, <3>5, GapInBytes
    <3>6. QED  BY <3>3, <3>4, <3>5
  <2>7. QED  BY <2>3, <2>4, <2>5, <2>6 DEF i
<1>5. QED  BY <1>3, <1>4 DEF RegionsApart

-----------------------------------------------------------------------------
(* The pipe to the disk, as the disk takes units from it and the client    *)
(* appends them.                                                           *)

\* How many blocks of a put are still to come once the disk has taken a unit.
LeftAfter(pipe, left) ==
  IF left > 0 THEN left - 1 ELSE IF pipe[1].kind = "put" THEN pipe[1].count ELSE 0

LEMMA PipeUnit ==
  ASSUME NEW unit \in PipeUnits
  PROVE  /\ unit.kind \in {"put", "get", "number", "data"}
         /\ unit.kind \in {"put", "get"} =>
              unit \in Commands /\ unit.start \in Nat /\ unit.count \in Nat \ {0}
         /\ unit.kind = "number" => unit \in Questions
         /\ unit.kind = "data" => unit.data \in Data
BY DEF PipeUnits, Commands, Questions, DataUnits

LEMMA PipeFacts ==
  ASSUME NEW pipe \in Seq(PipeUnits)
  PROVE  /\ Len(pipe) \in Nat /\ DOMAIN pipe = 1 .. Len(pipe)
         /\ \A i \in 1 .. Len(pipe) :
              /\ pipe[i] \in PipeUnits /\ pipe[i].kind \in {"put", "get", "number", "data"}
              /\ pipe[i].kind \in {"put", "get"} =>
                   pipe[i].start \in Nat /\ pipe[i].count \in Nat \ {0}
<1>1. Len(pipe) \in Nat /\ DOMAIN pipe = 1 .. Len(pipe)
  BY LenProperties
<1>2. \A i \in 1 .. Len(pipe) : pipe[i] \in PipeUnits
  BY ElementOfSeq
<1>3. QED  BY <1>1, <1>2, PipeUnit

LEMMA TailClaims ==
  ASSUME NEW pipe \in Seq(PipeUnits), pipe # <<>>, NEW left \in Nat, Framed(pipe, left),
         NEW i \in Nat \ {0}
  PROVE  Claimed(Tail(pipe), LeftAfter(pipe, left), i) <=> Claimed(pipe, left, i + 1)
<1>1. /\ Len(pipe) \in Nat /\ 1 \in 1 .. Len(pipe) /\ Len(Tail(pipe)) = Len(pipe) - 1
      /\ \A j \in 1 .. Len(pipe) - 1 : Tail(pipe)[j] = pipe[j + 1]
  BY SequenceTail
<1>2. left > 0 => pipe[1].kind # "put"
  BY <1>1 DEF Framed, Claimed
<1>3. \A j \in 1 .. Len(pipe) : pipe[j].kind = "put" => pipe[j].count \in Nat
  BY PipeFacts
<1>4. ASSUME Claimed(Tail(pipe), LeftAfter(pipe, left), i)
      PROVE  Claimed(pipe, left, i + 1)
  <2>1. CASE i <= LeftAfter(pipe, left)
    <3>1. CASE left > 0
      BY <2>1, <3>1 DEF Claimed, LeftAfter
    <3>2. CASE ~(left > 0)
      <4>1. pipe[1].kind = "put" /\ i <= pipe[1].count
        BY <2>1, <3>2 DEF LeftAfter
      <4>2. 1 < i + 1 /\ i + 1 <= 1 + pipe[1].count
        BY <1>1, <1>3, <4>1
      <4>3. QED  BY <1>1, <4>1, <4>2 DEF Claimed
    <3>3. QED  BY <3>1, <3>2
  <2>2. CASE \E j \in 1 .. Len(Tail(pipe)) :
               Tail(pipe)[j].kind = "put" /\ j < i /\ i <= j + Tail(pipe)[j].count
    <3>1. PICK j \in 1 .. Len(pipe) - 1 :
            Tail(pipe)[j].kind = "put" /\ j < i /\ i <= j + Tail(pipe)[j].count
      BY <1>1, <2>2
    <3>2. j + 1 \in 1 .. Len(pipe) /\ pipe[j + 1].kind = "put" /\ i <= j + pipe[j + 1].count
      BY <1>1, <3>1
    <3>3. PICK k \in 1 .. Len(pipe) : k = j + 1
      BY <3>2
    <3>4. pipe[k].kind = "put" /\ k < i + 1 /\ i + 1 <= k + pipe[k].count
      BY <1>3, <3>1, <3>2, <3>3
    <3>5. QED  BY <3>4 DEF Claimed
  <2>3. QED  BY <1>4, <2>1, <2>2 DEF Claimed
<1>5. ASSUME Claimed(pipe, left, i + 1)
      PROVE  Claimed(Tail(pipe), LeftAfter(pipe, left), i)
  <2>1. CASE i + 1 <= left
    BY <2>1 DEF Claimed, LeftAfter
  <2>2. CASE \E j \in 1 .. Len(pipe) : pipe[j].kind = "put" /\ j < i + 1 /\ i + 1 <= j + pipe[j].count
    <3>1. PICK j \in 1 .. Len(pipe) :
            pipe[j].kind = "put" /\ j < i + 1 /\ i + 1 <= j + pipe[j].count
      BY <2>2
    <3>2. CASE j = 1
      <4>1. ~(left > 0) /\ pipe[1].kind = "put" /\ i <= pipe[1].count
        BY <1>2, <1>3, <3>1, <3>2
      <4>2. QED  BY <4>1 DEF Claimed, LeftAfter
    <3>3. CASE j # 1
      <4>1. PICK k \in 1 .. Len(pipe) - 1 : j = k + 1
        <5>1. j - 1 \in 1 .. Len(pipe) - 1 /\ j = (j - 1) + 1
          BY <1>1, <3>3
        <5>2. QED  BY <5>1
      <4>2. Tail(pipe)[k] = pipe[j]
        BY <1>1, <4>1
      <4>3. pipe[j].count \in Nat
        BY <1>3, <3>1
      <4>4. Tail(pipe)[k].kind = "put" /\ k < i /\ i <= k + Tail(pipe)[k].count
        BY <3>1, <4>1, <4>2, <4>3
      <4>5. QED  BY <1>1, <4>4 DEF Claimed
    <3>4. QED  BY <3>2, <3>3
  <2>3. QED  BY <1>5, <2>1, <2>2 DEF Claimed
<1>6. QED  BY <1>4, <1>5

\* Taking a unit keeps the framing.
LEMMA TailFramed ==
  ASSUME NEW pipe \in Seq(PipeUnits), pipe # <<>>, NEW left \in Nat, Framed(pipe, left)
  PROVE  /\ Framed(Tail(pipe), LeftAfter(pipe, left))
         /\ LeftAfter(pipe, left) \in Nat
         /\ \A end \in Nat : ClaimsEndAt(pipe, left, end) =>
              ClaimsEndAt(Tail(pipe), LeftAfter(pipe, left), end - 1) \/ end = 0
<1>1. /\ Len(pipe) \in Nat /\ 1 \in 1 .. Len(pipe) /\ Len(Tail(pipe)) = Len(pipe) - 1
      /\ \A j \in 1 .. Len(pipe) - 1 : Tail(pipe)[j] = pipe[j + 1]
  BY SequenceTail
<1>2. Framed(Tail(pipe), LeftAfter(pipe, left))
  <2>1. ASSUME NEW i \in 1 .. Len(pipe) - 1
        PROVE  Tail(pipe)[i].kind = "data" <=> Claimed(Tail(pipe), LeftAfter(pipe, left), i)
    <3>1. i \in Nat \ {0}
      BY <1>1
    <3>2. Claimed(Tail(pipe), LeftAfter(pipe, left), i) <=> Claimed(pipe, left, i + 1)
      BY <3>1, TailClaims
    <3>3. PICK k \in 1 .. Len(pipe) : k = i + 1
      BY <1>1
    <3>4. pipe[k].kind = "data" <=> Claimed(pipe, left, k)
      BY DEF Framed
    <3>5. QED  BY <1>1, <3>2, <3>3, <3>4
  <2>2. QED  BY <1>1, <2>1 DEF Framed
<1>3. LeftAfter(pipe, left) \in Nat
  <2>1. pipe[1].kind = "put" => pipe[1].count \in Nat
    BY <1>1, PipeFacts
  <2>2. QED  BY <2>1 DEF LeftAfter
<1>4. ASSUME NEW end \in Nat \ {0}, ClaimsEndAt(pipe, left, end)
      PROVE  ClaimsEndAt(Tail(pipe), LeftAfter(pipe, left), end - 1)
  <2>1. ASSUME NEW i \in Nat, Claimed(Tail(pipe), LeftAfter(pipe, left), i)
        PROVE  i <= end - 1
    <3>1. CASE i = 0
      BY <3>1
    <3>2. CASE i # 0
      <4>1. Claimed(pipe, left, i + 1)
        BY <2>1, <3>2, TailClaims
      <4>2. i + 1 \in Nat
        OBVIOUS
      <4>3. i + 1 <= end
        BY <1>4, <4>1, <4>2 DEF ClaimsEndAt
      <4>4. QED  BY <4>3
    <3>3. QED  BY <3>1, <3>2
  <2>2. QED  BY <2>1 DEF ClaimsEndAt
<1>5. QED  BY <1>2, <1>3, <1>4

LEMMA AppendClaims ==
  ASSUME NEW pipe \in Seq(PipeUnits), NEW unit \in PipeUnits, NEW left \in Nat, NEW i \in Nat
  PROVE  Claimed(Append(pipe, unit), left, i) <=>
           \/ Claimed(pipe, left, i)
           \/ unit.kind = "put" /\ Len(pipe) + 1 < i /\ i <= Len(pipe) + 1 + unit.count
<1>1. /\ Len(Append(pipe, unit)) = Len(pipe) + 1 /\ Len(pipe) \in Nat
      /\ \A j \in 1 .. Len(pipe) : Append(pipe, unit)[j] = pipe[j]
      /\ Append(pipe, unit)[Len(pipe) + 1] = unit
  BY AppendProperties, LenProperties
<1>2. 1 .. Len(pipe) + 1 = (1 .. Len(pipe)) \cup {Len(pipe) + 1}
  BY <1>1
<1>3. QED  BY <1>1, <1>2 DEF Claimed

\* Appending a unit keeps the framing if it is what is claimed.
LEMMA AppendFramed ==
  ASSUME NEW pipe \in Seq(PipeUnits), NEW unit \in PipeUnits, NEW left \in Nat,
         Framed(pipe, left),
         unit.kind = "data" <=> Claimed(pipe, left, Len(pipe) + 1)
  PROVE  Framed(Append(pipe, unit), left)
<1>1. /\ Len(Append(pipe, unit)) = Len(pipe) + 1 /\ Len(pipe) \in Nat
      /\ \A j \in 1 .. Len(pipe) : Append(pipe, unit)[j] = pipe[j]
      /\ Append(pipe, unit)[Len(pipe) + 1] = unit
  BY AppendProperties, LenProperties
<1>2. \A i \in 1 .. Len(pipe) + 1 : Claimed(Append(pipe, unit), left, i) <=> Claimed(pipe, left, i)
  <2> TAKE i \in 1 .. Len(pipe) + 1
  <2>1. i \in Nat /\ ~(Len(pipe) + 1 < i)
    BY <1>1
  <2>2. QED  BY <2>1, AppendClaims
<1>3. \A i \in 1 .. Len(pipe) : pipe[i].kind = "data" <=> Claimed(pipe, left, i)
  BY DEF Framed
<1>4. ASSUME NEW i \in 1 .. Len(pipe) + 1
      PROVE  Append(pipe, unit)[i].kind = "data" <=> Claimed(Append(pipe, unit), left, i)
  <2>1. CASE i = Len(pipe) + 1
    BY <1>1, <1>2, <2>1
  <2>2. CASE i # Len(pipe) + 1
    <3>1. i \in 1 .. Len(pipe)
      BY <1>1, <2>2
    <3>2. QED  BY <1>1, <1>2, <1>3, <3>1
  <2>3. QED  BY <2>1, <2>2
<1>5. QED  BY <1>1, <1>4 DEF Framed

LEMMA TailPuts ==
  ASSUME NEW pipe \in Seq(PipeUnits), pipe # <<>>, NEW from, NEW to, PutsBetween(pipe, from, to)
  PROVE  PutsBetween(Tail(pipe), from, to)
<1>1. /\ Len(pipe) \in Nat /\ Len(Tail(pipe)) = Len(pipe) - 1
      /\ \A j \in 1 .. Len(pipe) - 1 : Tail(pipe)[j] = pipe[j + 1]
  BY SequenceTail
<1>2. \A j \in 1 .. Len(pipe) - 1 : j + 1 \in 1 .. Len(pipe)
  BY <1>1
<1>3. QED  BY <1>1, <1>2 DEF PutsBetween

LEMMA AppendPuts ==
  ASSUME NEW pipe \in Seq(PipeUnits), NEW unit \in PipeUnits, NEW from, NEW to,
         PutsBetween(pipe, from, to),
         unit.kind = "put" => from <= unit.start /\ unit.start + unit.count <= to
  PROVE  PutsBetween(Append(pipe, unit), from, to)
<1>1. /\ Len(Append(pipe, unit)) = Len(pipe) + 1 /\ Len(pipe) \in Nat
      /\ \A j \in 1 .. Len(pipe) : Append(pipe, unit)[j] = pipe[j]
      /\ Append(pipe, unit)[Len(pipe) + 1] = unit
  BY AppendProperties, LenProperties
<1>2. 1 .. Len(pipe) + 1 = (1 .. Len(pipe)) \cup {Len(pipe) + 1}
  BY <1>1
<1>3. QED  BY <1>1, <1>2 DEF PutsBetween

-----------------------------------------------------------------------------
(* What the parts of the invariant need of a step.                         *)

LEMMA TypeFacts ==
  ASSUME TypeInv
  PROVE  /\ Len(requests) \in Nat /\ Len(replies) \in Nat /\ Len(unsent) \in Nat /\ Len(buf) \in Nat
         /\ put.next \in Nat /\ put.left \in Nat /\ put.count \in Nat
         /\ get.next \in Nat /\ get.left \in Nat /\ get.count \in Nat
<1>1. Len(requests) \in Nat /\ Len(replies) \in Nat /\ Len(unsent) \in Nat /\ Len(buf) \in Nat
  BY LenProperties DEF TypeInv
<1>2. QED  BY <1>1 DEF TypeInv, Jobs

LEMMA LayoutStays ==
  ASSUME LayoutInv, UNCHANGED layoutVars
  PROVE  LayoutInv' /\ Scratch' = Scratch
BY DEF LayoutInv, layoutVars, Scratch

LEMMA StoredStays ==
  ASSUME UNCHANGED layoutVars, UNCHANGED anon_pages
  PROVE  Stored' = Stored
BY DEF layoutVars, Stored, ReadBlock

LEMMA ReadBlockType ==
  ASSUME TypeInv, LayoutInv, NEW b \in Nat
  PROVE  ReadBlock(b) \in Contents \cup {NoData}
<1>1. CASE b >= anon_start_index
  <2>1. b \in DOMAIN anon_pages => anon_pages[b] \in Data \cup {NoData}
    BY DEF TypeInv
  <2>2. QED  BY <1>1, <2>1 DEF ReadBlock, Contents
<1>2. CASE ~(b >= anon_start_index)
  <2> DEFINE ids == FileIds(file_metadata_mapping, b)
             id == CHOOSE i \in ids : TRUE
             metadata == file_metadata_mapping[id]
  <2>1. CASE ids = {}
    BY <1>2, <2>1 DEF ReadBlock
  <2>2. CASE ids # {}
    <3>1. id \in DOMAIN file_metadata_mapping
      BY <2>2 DEF FileIds
    <3>2. metadata.file \in Nat /\ metadata.start_block \in Nat
      <4>1. PICK position : MappingOf(file_metadata_mapping, position, files, Len(files))
        BY LayoutFacts
      <4>2. \A i \in DOMAIN file_metadata_mapping :
              file_metadata_mapping[i].file \in Nat /\ file_metadata_mapping[i].start_block \in Nat
        BY <4>1, LayoutFacts DEF MappingOf
      <4>3. QED  BY <3>1, <4>2
    <3>3. ReadBlock(b) = <<metadata.file, b - metadata.start_block>>
      BY <1>2, <2>2 DEF ReadBlock, FileBlock
    <3>4. b - metadata.start_block \in Int
      BY <3>2
    <3> HIDE DEF metadata
    <3>5. QED  BY <3>2, <3>3, <3>4 DEF Contents
  <2>3. QED  BY <2>1, <2>2
<1>3. QED  BY <1>1, <1>2

\* The client appends a unit.
LEMMA PipeGrows ==
  ASSUME TypeInv, LayoutInv, PipeInv, NEW unit \in PipeUnits,
         requests' = Append(requests, unit), UNCHANGED <<put, anon_start_index>>,
         unit.kind = "data" <=> Claimed(requests, put.left, Len(requests) + 1),
         unit.kind = "put" =>
           /\ anon_start_index <= unit.start
           /\ unit.start + unit.count <= anon_start_index + ScratchBlocks
  PROVE  /\ PipeInv' /\ requests' \in Seq(PipeUnits)
         /\ Len(requests') = Len(requests) + 1 /\ requests'[Len(requests')] = unit
         /\ \A i \in 1 .. Len(requests) : requests'[i] = requests[i]
         /\ \A i \in Nat : Claimed(requests', put.left', i) <=>
              \/ Claimed(requests, put.left, i)
              \/ unit.kind = "put" /\ Len(requests) + 1 < i /\ i <= Len(requests) + 1 + unit.count
<1>1. requests \in Seq(PipeUnits) /\ put.left \in Nat
  BY TypeFacts DEF TypeInv
<1>2. /\ requests' \in Seq(PipeUnits) /\ Len(requests') = Len(requests) + 1
      /\ requests'[Len(requests) + 1] = unit
      /\ \A i \in 1 .. Len(requests) : requests'[i] = requests[i]
  BY <1>1, AppendProperties
<1>3. Framed(requests', put.left')
  <2>1. Framed(Append(requests, unit), put.left)
    BY <1>1, AppendFramed DEF PipeInv
  <2>2. QED  BY <2>1
<1>4. PutsBetween(requests', anon_start_index', anon_start_index' + ScratchBlocks)
  <2>1. PutsBetween(Append(requests, unit), anon_start_index, anon_start_index + ScratchBlocks)
    BY <1>1, AppendPuts DEF PipeInv
  <2>2. QED  BY <2>1
<1>5. PipeInv'
  BY <1>3, <1>4 DEF PipeInv
<1>6. ASSUME NEW i \in Nat
      PROVE  Claimed(requests', put.left', i) <=>
               \/ Claimed(requests, put.left, i)
               \/ unit.kind = "put" /\ Len(requests) + 1 < i /\ i <= Len(requests) + 1 + unit.count
  BY <1>1, AppendClaims
<1>7. QED  BY <1>2, <1>5, <1>6

\* The disk takes a unit, and the client does nothing.
LEMMA PipeShrinks ==
  ASSUME TypeInv, LayoutInv, PipeInv, UnsentInv,
         requests # <<>>, requests' = Tail(requests),
         put'.left = LeftAfter(requests, put.left),
         put'.left > 0 =>
           /\ anon_start_index <= put'.next
           /\ put'.next + put'.left <= anon_start_index + ScratchBlocks,
         UNCHANGED <<client, unsent, call, anon_start_index>>
  PROVE  /\ PipeInv' /\ UnsentInv' /\ requests' \in Seq(PipeUnits)
         /\ NothingAsks => NothingAsks'
         /\ OnlyCallAsks => OnlyCallAsks'
         /\ 1 \in 1 .. Len(requests) /\ Head(requests) = requests[1]
         /\ Head(requests) \in PipeUnits
         /\ Len(requests) = 1 => requests' = <<>>
         /\ Len(requests) # 1 => requests' # <<>> /\ requests'[Len(requests')] = requests[Len(requests)]
<1>1. requests \in Seq(PipeUnits) /\ put.left \in Nat /\ Len(unsent) \in Nat
  BY TypeFacts DEF TypeInv
<1>2. /\ Head(requests) = requests[1] /\ Len(requests) \in Nat /\ 1 \in 1 .. Len(requests)
      /\ requests' \in Seq(PipeUnits) /\ Len(requests') = Len(requests) - 1
      /\ \A i \in 1 .. Len(requests) - 1 : requests'[i] = requests[i + 1]
  BY <1>1, SequenceTail
<1>3. Head(requests) \in PipeUnits
  BY <1>1, <1>2, ElementOfSeq
<1>4. Framed(requests, put.left) /\ PutsBetween(requests, anon_start_index, anon_start_index + ScratchBlocks)
  BY DEF PipeInv
<1>5. /\ Framed(requests', put'.left)
      /\ \A end \in Nat : ClaimsEndAt(requests, put.left, end) =>
           ClaimsEndAt(requests', put'.left, end - 1) \/ end = 0
  BY <1>1, <1>4, TailFramed
<1>6. PutsBetween(requests', anon_start_index, anon_start_index + ScratchBlocks)
  BY <1>1, <1>4, TailPuts
<1>7. PipeInv'
  BY <1>5, <1>6 DEF PipeInv
<1>8. UnsentInv'
  <2> DEFINE end == Len(requests) + Len(unsent)
  <2>1. end \in Nat /\ end # 0 /\ end - 1 = Len(requests') + Len(unsent)
    BY <1>1, <1>2
  <2>2. client = "writing" => unsent # <<>> /\ Claimed(requests', put'.left, end - 1)
    <3> SUFFICES ASSUME client = "writing" PROVE unsent # <<>> /\ Claimed(requests', put'.left, end - 1)
      OBVIOUS
    <3>1. unsent # <<>> /\ Claimed(requests, put.left, end)
      BY DEF UnsentInv
    <3>2. Len(unsent) \in Nat \ {0}
      BY <3>1, EmptySeq DEF TypeInv
    <3>3. end - 1 \in Nat \ {0} /\ (end - 1) + 1 = end
      BY <1>2, <2>1, <3>2
    <3> HIDE DEF end
    <3>4. Claimed(Tail(requests), LeftAfter(requests, put.left), end - 1)
            <=> Claimed(requests, put.left, (end - 1) + 1)
      BY <1>1, <1>4, <3>3, TailClaims
    <3>5. QED  BY <3>1, <3>3, <3>4
  <2>3. client # "closed" => ClaimsEndAt(requests', put'.left, end - 1)
    <3>1. client # "closed" => ClaimsEndAt(requests, put.left, end)
      BY DEF UnsentInv
    <3> HIDE DEF end
    <3>2. QED  BY <1>5, <2>1, <3>1
  <2> HIDE DEF end
  <2>4. QED  BY <2>1, <2>2, <2>3 DEF UnsentInv
<1>9. NothingAsks => NothingAsks'
  <2>1. \A i \in 1 .. Len(requests) - 1 : i + 1 \in 1 .. Len(requests)
    BY <1>2
  <2>2. QED  BY <1>2, <2>1 DEF NothingAsks
<1>10. OnlyCallAsks => OnlyCallAsks'
  <2>1. \A i \in 1 .. Len(requests) - 1 : i + 1 \in 1 .. Len(requests)
    BY <1>2
  <2>2. ASSUME OnlyCallAsks, NEW i \in 1 .. Len(requests) - 1,
               requests'[i].kind \in {"get", "number"}
        PROVE  i = Len(requests) - 1 /\ requests'[i] = call
    <3>1. PICK k \in 1 .. Len(requests) : k = i + 1
      BY <2>1
    <3>2. requests'[i] = requests[k]
      BY <1>2, <3>1
    <3>3. k = Len(requests) /\ requests[k] = call
      BY <2>2, <3>2 DEF OnlyCallAsks
    <3>4. Len(requests) \in Nat
      BY <1>2
    <3>5. i \in Nat
      BY <2>2, <3>4
    <3>6. i + 1 = Len(requests)
      BY <3>1, <3>3
    <3>7. i = Len(requests) - 1
      BY <3>4, <3>5, <3>6
    <3>8. QED  BY <3>2, <3>3, <3>7
  <2>3. QED  BY <1>2, <2>2 DEF OnlyCallAsks
<1>11. Len(requests) = 1 => requests' = <<>>
  BY <1>2, EmptySeq
<1>12. Len(requests) # 1 => requests' # <<>> /\ requests'[Len(requests')] = requests[Len(requests)]
  <2> SUFFICES ASSUME Len(requests) # 1
               PROVE  requests' # <<>> /\ requests'[Len(requests')] = requests[Len(requests)]
    OBVIOUS
  <2>1. Len(requests) - 1 \in 1 .. Len(requests) - 1 /\ (Len(requests) - 1) + 1 = Len(requests)
    BY <1>2
  <2>2. requests'[Len(requests) - 1] = requests[(Len(requests) - 1) + 1]
    BY <1>2, <2>1
  <2>3. QED  BY <1>2, <2>1, <2>2, EmptySeq
<1>13. QED  BY <1>2, <1>3, <1>7, <1>8, <1>9, <1>10, <1>11, <1>12

\* The pipe stays, and what the client is about to write.
LEMMA PipeStays ==
  ASSUME PipeInv, UnsentInv, UNCHANGED <<requests, put, unsent, anon_start_index>>,
         client' \in {client, "closed"} \/ (client' = "idle" /\ client \notin {"writing", "closed"})
  PROVE  PipeInv' /\ UnsentInv'
BY DEF PipeInv, UnsentInv

-----------------------------------------------------------------------------
(* The steps of the client.                                                *)

\* A call is made: what is common to them.
LEMMA Sends ==
  ASSUME IInv, NEW state, NEW request \in Commands \cup Questions, Send(state, request),
         request.kind = "put" =>
           /\ anon_start_index <= request.start
           /\ request.start + request.count <= anon_start_index + ScratchBlocks
  PROVE  /\ PipeInv' /\ LayoutInv' /\ Scratch' = Scratch
         /\ requests' \in Seq(PipeUnits) /\ Len(requests') = Len(requests) + 1
         /\ requests' # <<>> /\ requests'[Len(requests')] = request
         /\ OnlyCallAsks'
         /\ request.kind = "put" => NothingAsks'
         /\ unsent = <<>> /\ replies = <<>> /\ get.left = 0
         /\ \A i \in Nat : Claimed(requests', put.left', i) <=>
              \/ i <= Len(requests) /\ Claimed(requests, put.left, i)
              \/ request.kind = "put" /\ Len(requests) + 1 < i /\ i <= Len(requests) + 1 + request.count
<1>1. /\ client = "idle" /\ client' = state /\ call' = request
      /\ requests' = Append(requests, request)
      /\ UNCHANGED <<result, block_size, anon_start, replies, disk, anon_pages, put, get, metrics>>
      /\ UNCHANGED layoutVars /\ UNCHANGED anon_start_index
  BY DEF Send, diskVars, layoutVars
<1>2. unsent = <<>> /\ replies = <<>> /\ get.left = 0 /\ NothingAsks
      /\ ClaimsEndAt(requests, put.left, Len(requests) + Len(unsent))
  BY <1>1 DEF IInv, UnsentInv, IdleInv
<1>3. Len(requests) \in Nat /\ Len(unsent) = 0
  BY <1>2, TypeFacts, EmptySeq DEF IInv
<1>4. \A i \in Nat : Claimed(requests, put.left, i) => i <= Len(requests)
  BY <1>2, <1>3 DEF ClaimsEndAt
<1>5. request \in PipeUnits /\ request.kind # "data"
  BY DEF PipeUnits, Commands, Questions
<1>6. ~Claimed(requests, put.left, Len(requests) + 1)
  <2>1. Len(requests) + 1 \in Nat /\ ~(Len(requests) + 1 <= Len(requests))
    BY <1>3
  <2>2. QED  BY <1>4, <2>1
<1>7. /\ PipeInv' /\ requests' \in Seq(PipeUnits)
      /\ Len(requests') = Len(requests) + 1 /\ requests'[Len(requests')] = request
      /\ \A i \in 1 .. Len(requests) : requests'[i] = requests[i]
      /\ \A i \in Nat : Claimed(requests', put.left', i) <=>
           \/ Claimed(requests, put.left, i)
           \/ request.kind = "put" /\ Len(requests) + 1 < i /\ i <= Len(requests) + 1 + request.count
  BY <1>1, <1>5, <1>6, PipeGrows DEF IInv
<1>8. LayoutInv' /\ Scratch' = Scratch
  BY <1>1, LayoutStays DEF IInv
<1>9. requests' # <<>>
  BY <1>3, <1>7, EmptySeq
<1>10. OnlyCallAsks' /\ (request.kind = "put" => NothingAsks')
  <2>1. \A i \in 1 .. Len(requests) + 1 : i = Len(requests) + 1 \/ i \in 1 .. Len(requests)
    BY <1>3
  <2>2. \A i \in 1 .. Len(requests) : requests'[i].kind \notin {"get", "number"}
    BY <1>2, <1>7 DEF NothingAsks
  <2>3. QED  BY <1>1, <1>7, <2>1, <2>2 DEF OnlyCallAsks, NothingAsks
<1>11. QED  BY <1>2, <1>4, <1>7, <1>8, <1>9, <1>10

LEMMA NumberIsCalled ==
  ASSUME CallNumber
  PROVE  \E request \in Questions : Send("number", request)
<1>1. /\ Question("block-size", "") \in Questions
      /\ Question("anon-start-block", "") \in Questions
  BY DEF Question, Questions
<1>2. \A id \in Ids, what \in {"start-block", "num-blocks"} : Question(what, id) \in Questions
  BY DEF Question, Questions
<1>3. QED  BY <1>1, <1>2 DEF CallNumber

LEMMA CallNumberStep ==
  ASSUME IInv, CallNumber
  PROVE  IInv'
<1>1. PICK request \in Questions : Send("number", request)
  BY NumberIsCalled
<1>2. /\ client' = "number" /\ call' = request /\ UNCHANGED <<unsent, buf, asked>>
      /\ UNCHANGED <<result, block_size, anon_start, replies, disk, anon_pages, put, get, metrics>>
      /\ UNCHANGED anon_start_index
  BY <1>1 DEF CallNumber, Send, diskVars, layoutVars
<1>3. request.kind = "number"
  BY DEF Questions
<1>4. /\ PipeInv' /\ LayoutInv' /\ Scratch' = Scratch
      /\ requests' \in Seq(PipeUnits) /\ Len(requests') = Len(requests) + 1
      /\ OnlyCallAsks'
      /\ unsent = <<>> /\ replies = <<>> /\ get.left = 0
      /\ \A i \in Nat : Claimed(requests', put.left', i) => i <= Len(requests)
  BY <1>1, <1>3, Sends
<1>5. Len(requests) \in Nat /\ Len(<<>>) = 0
  BY TypeFacts, EmptySeq DEF IInv
<1>6. TypeInv'
  BY <1>2, <1>4 DEF IInv, TypeInv
<1>7. UnsentInv'
  BY <1>2, <1>4, <1>5 DEF UnsentInv, ClaimsEndAt
<1>8. NumberInv'
  BY <1>2, <1>4 DEF NumberInv
<1>9. IdleInv' /\ ReadingInv'
  BY <1>2 DEF IdleInv, ReadingInv
<1>10. QED  BY <1>4, <1>6, <1>7, <1>8, <1>9 DEF IInv

\* What a call to read asks for: blocks of the device.
LEMMA ReadIsCalled ==
  ASSUME IInv, CallRead
  PROVE  \E first \in Nat, last \in Nat :
           /\ first <= last /\ last < anon_start_index + ScratchBlocks
           /\ Send("reading", Request("get", first, last - first + 1))
           /\ asked' = [asked EXCEPT !.reads = @ + 1, !.blocks = @ + last - first + 1]
<1>1. /\ anon_start = anon_start_index /\ anon_start_index \in Nat /\ ScratchBlocks \in Nat \ {0}
  BY LayoutFacts, DiskProtocolAssumption DEF CallRead, IInv, TypeInv
<1>2. PICK id \in DOMAIN file_metadata_mapping \cup {"scratch"} :
        LET start == IF id = "scratch" THEN anon_start ELSE file_metadata_mapping[id].start_block
            end == IF id = "scratch" THEN anon_start + ScratchBlocks - 1
                   ELSE start + file_metadata_mapping[id].num_blocks
        IN \E first \in start .. end : \E last \in Upto(first, end) :
             /\ Send("reading", Request("get", first, last - first + 1))
             /\ asked' = [asked EXCEPT !.reads = @ + 1, !.blocks = @ + last - first + 1]
  BY DEF CallRead
<1> DEFINE start == IF id = "scratch" THEN anon_start ELSE file_metadata_mapping[id].start_block
           end == IF id = "scratch" THEN anon_start + ScratchBlocks - 1
                  ELSE start + file_metadata_mapping[id].num_blocks
<1>3. start \in Nat /\ end \in Int /\ end < anon_start_index + ScratchBlocks
  <2>1. ASSUME NEW i \in DOMAIN file_metadata_mapping
        PROVE  LET r == file_metadata_mapping[i]
               IN  /\ r.start_block \in Nat /\ r.num_blocks \in Nat
                   /\ r.start_block + r.num_blocks <= anon_start_index
    <3>1. PICK position : MappingOf(file_metadata_mapping, position, files, Len(files))
      BY LayoutFacts DEF IInv
    <3>2. EndsBefore(file_metadata_mapping[i], anon_start_index)
      BY <2>1, LayoutFacts DEF IInv
    <3>3. MinGap \in Nat
      BY MinGapIsEnough
    <3>4. file_metadata_mapping[i].start_block \in Nat /\ file_metadata_mapping[i].num_blocks \in Nat
      BY <2>1, <3>1 DEF MappingOf
    <3>5. QED  BY <1>1, <3>2, <3>3, <3>4 DEF EndsBefore
  <2>2. CASE id = "scratch"
    BY <1>1, <2>2
  <2>3. CASE id # "scratch"
    <3>1. id \in DOMAIN file_metadata_mapping
      BY <2>3
    <3> DEFINE r == file_metadata_mapping[id]
    <3>2. /\ r.start_block \in Nat /\ r.num_blocks \in Nat
          /\ r.start_block + r.num_blocks <= anon_start_index
      BY <2>1, <3>1
    <3>3. start = r.start_block /\ end = r.start_block + r.num_blocks
      BY <2>3
    <3> HIDE DEF r, start, end
    <3>4. QED  BY <1>1, <3>2, <3>3
  <2>4. QED  BY <2>2, <2>3
<1>4. PICK first \in start .. end : \E last \in Upto(first, end) :
        /\ Send("reading", Request("get", first, last - first + 1))
        /\ asked' = [asked EXCEPT !.reads = @ + 1, !.blocks = @ + last - first + 1]
  BY <1>2
<1>5. PICK last \in Upto(first, end) :
        /\ Send("reading", Request("get", first, last - first + 1))
        /\ asked' = [asked EXCEPT !.reads = @ + 1, !.blocks = @ + last - first + 1]
  BY <1>4
<1> HIDE DEF start, end
<1>6. first \in Nat /\ last \in Nat /\ first <= last /\ last < anon_start_index + ScratchBlocks
  <2>1. first \in start .. end /\ last \in first .. end
    BY DEF Upto
  <2>2. QED  BY <1>1, <1>3, <2>1
<1>7. QED  BY <1>5, <1>6

LEMMA CallReadStep ==
  ASSUME IInv, CallRead
  PROVE  IInv'
<1>1. anon_start_index \in Nat
  BY LayoutFacts DEF IInv
<1>2. PICK first \in Nat, last \in Nat :
        /\ first <= last
        /\ Send("reading", Request("get", first, last - first + 1))
        /\ asked' = [asked EXCEPT !.reads = @ + 1, !.blocks = @ + last - first + 1]
  BY ReadIsCalled
<1> DEFINE request == Request("get", first, last - first + 1)
<1>3. request \in Commands /\ request.kind = "get" /\ request.count = last - first + 1
      /\ last - first + 1 \in Nat \ {0}
  BY <1>2 DEF Request, Commands
<1>4. Send("reading", request)
  BY <1>2
<1> HIDE DEF request
<1>5. /\ client' = "reading" /\ call' = request /\ buf' = <<>> /\ UNCHANGED unsent
      /\ UNCHANGED <<result, block_size, anon_start, replies, disk, anon_pages, put, get, metrics>>
      /\ UNCHANGED anon_start_index
  BY <1>4 DEF CallRead, Send, diskVars, layoutVars
<1>6. /\ PipeInv' /\ LayoutInv' /\ Scratch' = Scratch
      /\ requests' \in Seq(PipeUnits) /\ Len(requests') = Len(requests) + 1
      /\ requests' # <<>> /\ requests'[Len(requests')] = request
      /\ OnlyCallAsks'
      /\ unsent = <<>> /\ replies = <<>> /\ get.left = 0
      /\ \A i \in Nat : Claimed(requests', put.left', i) => i <= Len(requests)
  BY <1>3, <1>4, Sends
<1>7. Len(requests) \in Nat /\ Len(<<>>) = 0 /\ <<>> \in Seq(Contents)
  BY TypeFacts, EmptySeq DEF IInv
<1>8. asked' \in Counters
  <2>1. asked \in Counters
    BY DEF IInv, TypeInv
  <2>2. asked.blocks + last - first + 1 \in Nat
    BY <1>2, <1>3, <2>1 DEF Counters
  <2>3. asked.reads + 1 \in Nat
    BY <2>1 DEF Counters
  <2>4. \A n \in Nat, b \in Nat : [asked EXCEPT !.reads = n, !.blocks = b] \in Counters
    BY <2>1 DEF Counters
  <2>5. QED  BY <1>2, <2>2, <2>3, <2>4, Zenon
<1>9. TypeInv'
  BY <1>5, <1>6, <1>7, <1>8 DEF IInv, TypeInv
<1>10. UnsentInv'
  BY <1>5, <1>6, <1>7 DEF UnsentInv, ClaimsEndAt
<1>11. ReadingInv'
  <2>1. ReadWaits'
    BY <1>5, <1>6 DEF ReadWaits
  <2>2. Len(buf') < call'.count
    BY <1>3, <1>5, <1>7
  <2>3. QED  BY <1>3, <1>5, <2>1, <2>2 DEF ReadingInv
<1>12. IdleInv' /\ NumberInv'
  BY <1>5 DEF IdleInv, NumberInv
<1>13. QED  BY <1>6, <1>9, <1>10, <1>11, <1>12 DEF IInv

\* What a call to write asks for: scratch blocks.
LEMMA WriteIsCalled ==
  ASSUME IInv, CallWrite
  PROVE  /\ anon_start_index \in Nat /\ ScratchBlocks \in Nat
         /\ \E first \in Scratch, last \in Scratch :
              /\ first <= last
              /\ Send("writing", Request("put", first, last - first + 1))
              /\ unsent' \in [1 .. last - first + 1 -> Data]
              /\ asked' = [asked EXCEPT !.writes = @ + 1, !.blocks = @ + last - first + 1]
<1>1. anon_start = anon_start_index /\ anon_start_index \in Nat /\ ScratchBlocks \in Nat
  BY LayoutFacts, DiskProtocolAssumption DEF CallWrite, IInv, TypeInv
<1>2. PICK first \in anon_start .. anon_start + ScratchBlocks - 1 :
        \E last \in Upto(first, anon_start + ScratchBlocks - 1) :
          /\ Send("writing", Request("put", first, last - first + 1))
          /\ unsent' \in [1 .. last - first + 1 -> Data]
          /\ asked' = [asked EXCEPT !.writes = @ + 1, !.blocks = @ + last - first + 1]
  BY DEF CallWrite
<1>3. PICK last \in Upto(first, anon_start + ScratchBlocks - 1) :
          /\ Send("writing", Request("put", first, last - first + 1))
          /\ unsent' \in [1 .. last - first + 1 -> Data]
          /\ asked' = [asked EXCEPT !.writes = @ + 1, !.blocks = @ + last - first + 1]
  BY <1>2
<1>4. first \in Scratch /\ last \in Scratch /\ first <= last
  BY <1>1 DEF Upto, Scratch
<1>5. QED  BY <1>1, <1>3, <1>4

LEMMA CallWriteStep ==
  ASSUME IInv, CallWrite
  PROVE  IInv'
<1>1. anon_start_index \in Nat /\ ScratchBlocks \in Nat
  BY WriteIsCalled
<1>2. PICK first \in Scratch, last \in Scratch :
        /\ first <= last
        /\ Send("writing", Request("put", first, last - first + 1))
        /\ unsent' \in [1 .. last - first + 1 -> Data]
        /\ asked' = [asked EXCEPT !.writes = @ + 1, !.blocks = @ + last - first + 1]
  BY WriteIsCalled
<1> DEFINE request == Request("put", first, last - first + 1)
<1>3. /\ first \in Nat /\ last \in Nat /\ anon_start_index <= first
      /\ last + 1 <= anon_start_index + ScratchBlocks
      /\ last - first + 1 \in Nat \ {0}
  BY <1>1, <1>2 DEF Scratch
<1>4. request \in Commands /\ request.kind = "put" /\ request.start = first
      /\ request.count = last - first + 1
  BY <1>3 DEF Request, Commands
<1>5. Send("writing", request)
  BY <1>2
<1> HIDE DEF request
<1>6. /\ client' = "writing" /\ call' = request /\ UNCHANGED buf
      /\ UNCHANGED <<result, block_size, anon_start, replies, disk, anon_pages, put, get, metrics>>
      /\ UNCHANGED anon_start_index
  BY <1>5 DEF CallWrite, Send, diskVars, layoutVars
<1>7. /\ PipeInv' /\ LayoutInv' /\ Scratch' = Scratch
      /\ requests' \in Seq(PipeUnits) /\ Len(requests') = Len(requests) + 1
      /\ NothingAsks'
      /\ unsent = <<>> /\ replies = <<>> /\ get.left = 0
      /\ \A i \in Nat : Claimed(requests', put.left', i) <=>
           \/ i <= Len(requests) /\ Claimed(requests, put.left, i)
           \/ request.kind = "put" /\ Len(requests) + 1 < i /\ i <= Len(requests) + 1 + request.count
  <2>1. request.start + request.count <= anon_start_index + ScratchBlocks
    BY <1>1, <1>3, <1>4
  <2>2. QED  BY <1>3, <1>4, <1>5, <2>1, Sends
<1>8. Len(requests) \in Nat
  BY TypeFacts DEF IInv
<1>9. unsent' \in Seq(Data) /\ Len(unsent') = request.count
  BY <1>2, <1>3, <1>4
<1>10. asked' \in Counters
  <2>1. asked \in Counters
    BY DEF IInv, TypeInv
  <2>2. asked.blocks + last - first + 1 \in Nat
    BY <1>2, <1>3, <2>1 DEF Counters
  <2>3. asked.writes + 1 \in Nat
    BY <2>1 DEF Counters
  <2>4. \A n \in Nat, b \in Nat : [asked EXCEPT !.writes = n, !.blocks = b] \in Counters
    BY <2>1 DEF Counters
  <2>5. QED  BY <1>2, <2>2, <2>3, <2>4, Zenon
<1>11. TypeInv'
  BY <1>6, <1>7, <1>9, <1>10 DEF IInv, TypeInv
<1>12. UnsentInv'
  <2> DEFINE end == Len(requests') + Len(unsent')
  <2>1. end = Len(requests) + 1 + request.count /\ end \in Nat /\ Len(requests) + 1 < end
    BY <1>3, <1>4, <1>7, <1>8, <1>9
  <2>2. unsent' # <<>>
    BY <1>3, <1>4, <1>9, EmptySeq
  <2> HIDE DEF end
  <2>3. Claimed(requests', put.left', end)
    BY <1>4, <1>7, <2>1
  <2>4. ClaimsEndAt(requests', put.left', end)
    BY <1>7, <1>8, <2>1 DEF ClaimsEndAt
  <2>5. QED  BY <1>6, <2>2, <2>3, <2>4 DEF UnsentInv, end
<1>13. IdleInv' /\ NumberInv' /\ ReadingInv'
  BY <1>6, <1>7 DEF IdleInv, NumberInv, ReadingInv
<1>14. QED  BY <1>7, <1>11, <1>12, <1>13 DEF IInv

\* What the client writes is what the disk takes for data.
LEMMA NextIsClaimed ==
  ASSUME IInv, SendBlock
  PROVE  Claimed(requests, put.left, Len(requests) + 1)
<1>1. unsent # <<>> /\ unsent \in Seq(Data) /\ Claimed(requests, put.left, Len(requests) + Len(unsent))
  BY DEF SendBlock, IInv, TypeInv, UnsentInv
<1>2. Len(unsent) \in Nat \ {0}
  BY <1>1, EmptySeq, LenProperties
<1>3. Len(requests) \in Nat /\ put.left \in Nat
  BY TypeFacts DEF IInv
<1>4. CASE Len(requests) + Len(unsent) <= put.left
  <2>1. Len(requests) + 1 <= put.left
    BY <1>2, <1>3, <1>4
  <2>2. QED  BY <2>1 DEF Claimed
<1>5. CASE \E j \in 1 .. Len(requests) :
             /\ requests[j].kind = "put" /\ j < Len(requests) + Len(unsent)
             /\ Len(requests) + Len(unsent) <= j + requests[j].count
  <2>1. PICK j \in 1 .. Len(requests) :
             /\ requests[j].kind = "put"
             /\ Len(requests) + Len(unsent) <= j + requests[j].count
    BY <1>5
  <2>2. requests[j].count \in Nat
    BY <2>1, PipeFacts DEF IInv, TypeInv
  <2>3. j < Len(requests) + 1 /\ Len(requests) + 1 <= j + requests[j].count
    BY <1>2, <1>3, <2>1, <2>2
  <2>4. QED  BY <2>1, <2>3 DEF Claimed
<1>6. QED  BY <1>1, <1>4, <1>5 DEF Claimed

LEMMA SendBlockStep ==
  ASSUME IInv, SendBlock
  PROVE  IInv'
<1>1. /\ client = "writing" /\ requests' = Append(requests, BlockUnit(Head(unsent)))
      /\ unsent' = Tail(unsent)
      /\ client' = IF Len(unsent) = 1 THEN "idle" ELSE "writing"
      /\ UNCHANGED <<call, buf, result, block_size, anon_start, asked, replies>>
      /\ UNCHANGED <<disk, anon_pages, put, get, metrics, anon_start_index>> /\ UNCHANGED layoutVars
  BY DEF SendBlock, diskVars, layoutVars
<1>2. /\ unsent # <<>> /\ unsent \in Seq(Data) /\ replies = <<>> /\ get.left = 0 /\ NothingAsks
      /\ Claimed(requests, put.left, Len(requests) + Len(unsent))
      /\ ClaimsEndAt(requests, put.left, Len(requests) + Len(unsent))
  BY <1>1 DEF IInv, TypeInv, UnsentInv, IdleInv
<1>3. /\ Len(unsent) \in Nat \ {0} /\ Head(unsent) \in Data
      /\ unsent' \in Seq(Data) /\ Len(unsent') = Len(unsent) - 1
  BY <1>1, <1>2, HeadTailProperties, EmptySeq
<1>4. Len(requests) \in Nat /\ put.left \in Nat
  BY TypeFacts DEF IInv
<1> DEFINE unit == BlockUnit(Head(unsent))
<1>5. unit \in PipeUnits /\ unit.kind = "data"
  BY <1>3 DEF BlockUnit, PipeUnits, DataUnits
<1>6. requests' = Append(requests, unit)
  BY <1>1
<1> HIDE DEF unit
<1>7. Claimed(requests, put.left, Len(requests) + 1)
  BY NextIsClaimed
<1>8. /\ PipeInv' /\ requests' \in Seq(PipeUnits)
      /\ Len(requests') = Len(requests) + 1 /\ requests'[Len(requests')] = unit
      /\ \A i \in 1 .. Len(requests) : requests'[i] = requests[i]
      /\ \A i \in Nat : Claimed(requests', put.left', i) <=> Claimed(requests, put.left, i)
  <2>1. /\ PipeInv' /\ requests' \in Seq(PipeUnits)
        /\ Len(requests') = Len(requests) + 1 /\ requests'[Len(requests')] = unit
        /\ \A i \in 1 .. Len(requests) : requests'[i] = requests[i]
        /\ \A i \in Nat : Claimed(requests', put.left', i) <=>
             \/ Claimed(requests, put.left, i)
             \/ unit.kind = "put" /\ Len(requests) + 1 < i /\ i <= Len(requests) + 1 + unit.count
    BY <1>1, <1>5, <1>6, <1>7, PipeGrows DEF IInv
  <2>2. unit.kind # "put"
    BY <1>5
  <2>3. QED  BY <2>1, <2>2
<1>9. LayoutInv' /\ Scratch' = Scratch
  BY <1>1, LayoutStays DEF IInv
<1>10. TypeInv'
  BY <1>1, <1>3, <1>8, <1>9 DEF IInv, TypeInv
<1>11. UnsentInv'
  <2>1. Len(requests') + Len(unsent') = Len(requests) + Len(unsent)
        /\ Len(requests) + Len(unsent) \in Nat
    BY <1>3, <1>4, <1>8
  <2>2. Claimed(requests', put.left', Len(requests') + Len(unsent'))
    BY <1>2, <1>8, <2>1
  <2>3. ClaimsEndAt(requests', put.left', Len(requests') + Len(unsent'))
    BY <1>2, <1>8, <2>1 DEF ClaimsEndAt
  <2>4. CASE Len(unsent) = 1
    <3>1. unsent' = <<>> /\ client' = "idle"
      BY <1>1, <1>3, <2>4, EmptySeq
    <3>2. QED  BY <2>3, <3>1 DEF UnsentInv
  <2>5. CASE Len(unsent) # 1
    <3>1. unsent' # <<>> /\ client' = "writing"
      BY <1>1, <1>3, <2>5, EmptySeq
    <3>2. QED  BY <2>2, <2>3, <3>1 DEF UnsentInv
  <2>6. QED  BY <2>4, <2>5
<1>12. NothingAsks'
  <2>1. \A i \in 1 .. Len(requests) + 1 : i = Len(requests) + 1 \/ i \in 1 .. Len(requests)
    BY <1>4
  <2>2. QED  BY <1>2, <1>5, <1>8, <2>1 DEF NothingAsks
<1>13. client' \in {"idle", "writing"}
  BY <1>1
<1>14. IdleInv' /\ NumberInv' /\ ReadingInv'
  BY <1>1, <1>2, <1>12, <1>13 DEF IdleInv, NumberInv, ReadingInv
<1>15. QED  BY <1>8, <1>9, <1>10, <1>11, <1>14 DEF IInv

LEMMA ReceiveNumberStep ==
  ASSUME IInv, ReceiveNumber
  PROVE  IInv'
<1>1. /\ client = "number" /\ client' = "idle" /\ replies # <<>> /\ replies' = Tail(replies)
      /\ block_size' = IF call.what = "block-size" THEN Head(replies).value ELSE block_size
      /\ anon_start' = IF call.what = "anon-start-block" THEN Head(replies).value ELSE anon_start
      /\ UNCHANGED <<call, unsent, buf, result, asked, requests>>
      /\ UNCHANGED <<disk, anon_pages, put, get, metrics, anon_start_index>> /\ UNCHANGED layoutVars
  BY DEF ReceiveNumber, diskVars, layoutVars
<1>2. replies = <<Number(Answer(call))>> /\ NothingAsks /\ get.left = 0
  BY <1>1 DEF IInv, NumberInv
<1>3. replies' = <<>> /\ Head(replies) = Number(Answer(call))
  BY <1>1, <1>2
<1>4. Head(replies).value = Answer(call)
  BY <1>3 DEF Number
<1>5. block_size' \in {None, BlockSize}
  BY <1>1, <1>4 DEF Answer, IInv, TypeInv
<1>6. anon_start' \in {None, anon_start_index}
  <2>1. call.what = "anon-start-block" => Answer(call) = anon_start_index
    BY DEF Answer
  <2>2. QED  BY <1>1, <1>4, <2>1 DEF IInv, TypeInv
<1>7. LayoutInv' /\ Scratch' = Scratch
  BY <1>1, LayoutStays DEF IInv
<1>8. TypeInv'
  BY <1>1, <1>3, <1>5, <1>6, <1>7, EmptySeq DEF IInv, TypeInv
<1>9. PipeInv' /\ UnsentInv'
  BY <1>1, PipeStays DEF IInv
<1>10. IdleInv' /\ NumberInv' /\ ReadingInv'
  BY <1>1, <1>2, <1>3 DEF IdleInv, NumberInv, ReadingInv, NothingAsks
<1>11. QED  BY <1>7, <1>8, <1>9, <1>10 DEF IInv

LEMMA ReceiveBlockStep ==
  ASSUME IInv, ReceiveBlock
  PROVE  IInv'
<1>1. /\ client = "reading" /\ replies # <<>> /\ replies' = Tail(replies)
      /\ buf' = Append(buf, Head(replies).data)
      /\ IF Len(buf) + 1 = call.count
         THEN client' = "idle" /\ result' = buf'
         ELSE UNCHANGED <<client, result>>
      /\ UNCHANGED <<call, unsent, block_size, anon_start, asked, requests>>
      /\ UNCHANGED <<disk, anon_pages, put, get, metrics, anon_start_index>> /\ UNCHANGED layoutVars
  BY DEF ReceiveBlock, diskVars, layoutVars
<1>2. call \in Commands /\ call.kind = "get" /\ Len(buf) < call.count /\ ReadGoesOn
  BY <1>1 DEF IInv, ReadingInv, ReadWaits
<1>3. call.start \in Nat /\ call.count \in Nat
  BY <1>2 DEF Commands
<1>4. /\ replies \in Seq(Replies) /\ Len(replies) \in Nat \ {0} /\ Head(replies) = replies[1]
      /\ replies' \in Seq(Replies) /\ Len(replies') = Len(replies) - 1
      /\ \A i \in 1 .. Len(replies) - 1 : replies'[i] = replies[i + 1]
      /\ Head(replies) \in Replies
  <2>1. replies \in Seq(Replies)
    BY DEF IInv, TypeInv
  <2>2. QED  BY <1>1, <2>1, SequenceTail, EmptySeq, HeadTailProperties
<1>5. 1 \in 1 .. Len(replies) /\ Len(buf) \in Nat /\ get.left \in Nat
  BY <1>4, TypeFacts DEF IInv
<1>6. /\ Head(replies).data = Stored[call.start + Len(buf) + 1 - 1]
      /\ Head(replies).data # NoData /\ Head(replies).kind = "data"
  <2>1. replies[1] = BlockUnit(Stored[call.start + Len(buf) + 1 - 1]) /\ replies[1].data # NoData
    BY <1>2, <1>5 DEF ReadGoesOn
  <2>2. QED  BY <1>4, <2>1 DEF BlockUnit
<1>7. Head(replies).data \in Contents
  BY <1>4, <1>6 DEF Replies
<1>8. /\ buf' \in Seq(Contents) /\ Len(buf') = Len(buf) + 1
      /\ \A i \in 1 .. Len(buf) : buf'[i] = buf[i]
      /\ buf'[Len(buf) + 1] = Head(replies).data
  <2>1. buf \in Seq(Contents)
    BY DEF IInv, TypeInv
  <2>2. QED  BY <1>1, <1>7, <2>1, AppendProperties
<1>9. LayoutInv' /\ Scratch' = Scratch /\ Stored' = Stored
  BY <1>1, LayoutStays, StoredStays DEF IInv
<1>10. client' \in {"idle", "reading"} /\ result' \in Seq(Contents)
  BY <1>1, <1>8 DEF IInv, TypeInv
<1>11. TypeInv'
  BY <1>1, <1>4, <1>8, <1>9, <1>10 DEF IInv, TypeInv
<1>12. PipeInv' /\ UnsentInv'
  BY <1>1, PipeStays DEF IInv
<1>13. ReadGoesOn'
  <2>1. requests' = <<>> /\ put'.left = 0
    BY <1>1, <1>2 DEF ReadGoesOn
  <2>2. Len(buf') + Len(replies') = Len(buf) + Len(replies)
    BY <1>4, <1>5, <1>8
  <2>3. /\ Len(buf') + Len(replies') + get'.left = call'.count
        /\ get'.left > 0 => get'.next = call'.start + Len(buf') + Len(replies')
    <3>1. /\ Len(buf) + Len(replies) + get.left = call.count
          /\ get.left > 0 => get.next = call.start + Len(buf) + Len(replies)
      BY <1>2 DEF ReadGoesOn
    <3>2. call.start + Len(buf') + Len(replies') = call.start + Len(buf) + Len(replies)
      BY <1>3, <1>4, <1>5, <1>8
    <3>3. QED  BY <1>1, <2>2, <3>1, <3>2
  <2>4. ASSUME NEW i \in 1 .. Len(buf) + 1
        PROVE  buf'[i] = Stored[call.start + i - 1] /\ buf'[i] # NoData
    <3>1. CASE i = Len(buf) + 1
      <4>1. call.start + i - 1 = call.start + Len(buf) + 1 - 1
        BY <1>3, <1>5, <3>1
      <4>2. QED  BY <1>6, <1>8, <3>1, <4>1
    <3>2. CASE i # Len(buf) + 1
      <4>1. i \in 1 .. Len(buf)
        BY <1>5, <3>2
      <4>2. QED  BY <1>2, <1>8, <4>1 DEF ReadGoesOn
    <3>3. QED  BY <3>1, <3>2
  <2>5. ASSUME NEW i \in 1 .. Len(replies) - 1
        PROVE  /\ replies'[i] = BlockUnit(Stored[call.start + (Len(buf) + 1) + i - 1])
               /\ replies'[i].data # NoData
    <3>1. PICK k \in 1 .. Len(replies) : k = i + 1
      BY <1>4
    <3>2. replies'[i] = replies[k]
      BY <1>4, <3>1
    <3>3. /\ replies[k] = BlockUnit(Stored[call.start + Len(buf) + k - 1])
          /\ replies[k].data # NoData
      BY <1>2 DEF ReadGoesOn
    <3>4. i \in Nat
      BY <1>4, <2>5
    <3>5. call.start + Len(buf) + k - 1 = call.start + (Len(buf) + 1) + i - 1
      BY <1>3, <1>5, <3>1, <3>4
    <3>6. QED  BY <3>2, <3>3, <3>5
  <2>6. \A i \in 1 .. Len(buf') : buf'[i] = Stored'[call'.start + i - 1] /\ buf'[i] # NoData
    BY <1>1, <1>8, <1>9, <2>4
  <2>7. \A i \in 1 .. Len(replies') :
          /\ replies'[i] = BlockUnit(Stored'[call'.start + Len(buf') + i - 1])
          /\ replies'[i].data # NoData
    BY <1>1, <1>4, <1>8, <1>9, <2>5
  <2>8. QED  BY <2>1, <2>3, <2>6, <2>7 DEF ReadGoesOn
<1>14. CASE Len(buf) + 1 = call.count
  <2>1. replies' = <<>> /\ get'.left = 0
    <3>1. Len(buf) + Len(replies) + get.left = call.count
      BY <1>2 DEF ReadGoesOn
    <3>2. Len(replies') = 0 /\ get.left = 0
      BY <1>4, <1>5, <1>14, <3>1
    <3>3. QED  BY <1>1, <1>4, <3>2, EmptySeq
  <2>2. NothingAsks'
    <3>1. requests' = <<>>
      BY <1>13 DEF ReadGoesOn
    <3>2. Len(requests') = 0
      BY <3>1
    <3>3. QED  BY <3>2 DEF NothingAsks
  <2>3. client' = "idle"
    BY <1>1, <1>14
  <2>4. IdleInv' /\ NumberInv' /\ ReadingInv'
    BY <2>1, <2>2, <2>3 DEF IdleInv, NumberInv, ReadingInv
  <2>5. QED  BY <1>9, <1>11, <1>12, <2>4 DEF IInv
<1>15. CASE Len(buf) + 1 # call.count
  <2>1. client' = "reading" /\ Len(buf') < call'.count
    BY <1>1, <1>2, <1>3, <1>5, <1>8, <1>15
  <2>2. IdleInv' /\ NumberInv' /\ ReadingInv'
    BY <1>1, <1>2, <1>13, <2>1 DEF IdleInv, NumberInv, ReadingInv
  <2>3. QED  BY <1>9, <1>11, <1>12, <2>2 DEF IInv
<1>16. QED  BY <1>14, <1>15

\* The client ends.
LEMMA ClientEnds ==
  ASSUME IInv, ClientFindsDiskGone \/ ClientCloses
  PROVE  IInv'
<1>1. /\ client' = "closed"
      /\ UNCHANGED <<call, unsent, buf, result, block_size, anon_start, asked, requests, replies>>
      /\ UNCHANGED <<disk, anon_pages, put, get, metrics, anon_start_index>> /\ UNCHANGED layoutVars
  BY DEF ClientFindsDiskGone, ClientCloses, diskVars, layoutVars
<1>2. LayoutInv' /\ Scratch' = Scratch
  BY <1>1, LayoutStays DEF IInv
<1>3. TypeInv'
  BY <1>1, <1>2 DEF IInv, TypeInv
<1>4. PipeInv' /\ UnsentInv'
  BY <1>1, PipeStays DEF IInv
<1>5. IdleInv' /\ NumberInv' /\ ReadingInv'
  BY <1>1 DEF IdleInv, NumberInv, ReadingInv
<1>6. QED  BY <1>2, <1>3, <1>4, <1>5 DEF IInv

-----------------------------------------------------------------------------
(* The steps of the disk.                                                  *)

\* What the client sees if only the disk's end and its metrics change.
LEMMA ClientSees ==
  ASSUME NumberInv, IdleInv, ReadingInv,
         UNCHANGED <<client, call, buf, replies, requests, put, get, anon_pages>>,
         UNCHANGED layoutVars, disk' \in {disk, "ended"}
  PROVE  NumberInv' /\ IdleInv' /\ ReadingInv'
<1>1. Stored' = Stored
  BY StoredStays
<1>2. Answer(call)' = Answer(call) /\ Known(call)' = Known(call)
  BY DEF Answer, Known, layoutVars
<1>3. NumberInv'
  BY <1>2 DEF NumberInv, OnlyCallAsks, NothingAsks
<1>4. IdleInv'
  BY DEF IdleInv, NothingAsks
<1>5. ReadingInv'
  <2>1. ReadWaits => ReadWaits'
    BY DEF ReadWaits, OnlyCallAsks
  <2>2. ReadGoesOn => ReadGoesOn'
    BY <1>1 DEF ReadGoesOn
  <2>3. QED  BY <2>1, <2>2 DEF ReadingInv
<1>6. QED  BY <1>3, <1>4, <1>5

LEMMA DiskEnds ==
  ASSUME IInv, GetMissingBlock \/ DiskFindsClientGone \/ DiskFails
  PROVE  IInv'
<1>1. /\ disk' = "ended"
      /\ UNCHANGED <<client, call, unsent, buf, result, block_size, anon_start, asked>>
      /\ UNCHANGED <<requests, replies, anon_pages, put, get, metrics, anon_start_index>>
      /\ UNCHANGED layoutVars
  BY DEF GetMissingBlock, DiskFindsClientGone, DiskFails, clientVars, layoutVars
<1>2. LayoutInv' /\ Scratch' = Scratch
  BY <1>1, LayoutStays DEF IInv
<1>3. TypeInv'
  BY <1>1, <1>2 DEF IInv, TypeInv
<1>4. PipeInv' /\ UnsentInv'
  BY <1>1, PipeStays DEF IInv
<1>5. NumberInv' /\ IdleInv' /\ ReadingInv'
  BY <1>1, ClientSees DEF IInv
<1>6. QED  BY <1>2, <1>3, <1>4, <1>5 DEF IInv

LEMMA ReadCommandStep ==
  ASSUME IInv, ReadCommand
  PROVE  IInv'
<1> DEFINE request == Head(requests)
<1>1. /\ put.left = 0 /\ get.left = 0 /\ disk = "running" /\ requests # <<>>
      /\ request.kind \in {"put", "get"} /\ requests' = Tail(requests)
      /\ IF request.kind = "put" THEN put' = Job(request) /\ UNCHANGED get
                                 ELSE get' = Job(request) /\ UNCHANGED put
      /\ UNCHANGED <<client, call, unsent, buf, result, block_size, anon_start, asked>>
      /\ UNCHANGED <<replies, disk, anon_pages, metrics, anon_start_index>>
      /\ UNCHANGED layoutVars
  BY DEF ReadCommand, Ready, clientVars, layoutVars
<1>2. requests \in Seq(PipeUnits) /\ request = requests[1] /\ 1 \in 1 .. Len(requests)
      /\ Len(requests) \in Nat
  BY <1>1, SequenceTail DEF IInv, TypeInv
<1>3. request.start \in Nat /\ request.count \in Nat \ {0}
  BY <1>1, <1>2, PipeFacts
<1>4. Job(request) \in Jobs /\ Job(request).left = request.count /\ Job(request).next = request.start
      /\ Job(request).count = request.count
  BY <1>3 DEF Job, Jobs
<1>5. put' \in Jobs /\ get' \in Jobs
  BY <1>1, <1>4 DEF IInv, TypeInv
<1>6. put'.left = LeftAfter(requests, put.left)
  BY <1>1, <1>2, <1>4 DEF LeftAfter
<1>7. put'.left > 0 =>
        anon_start_index <= put'.next /\ put'.next + put'.left <= anon_start_index + ScratchBlocks
  <2>1. CASE request.kind = "put"
    BY <1>1, <1>2, <1>4, <2>1 DEF IInv, PipeInv, PutsBetween
  <2>2. CASE request.kind # "put"
    BY <1>1, <2>2
  <2>3. QED  BY <2>1, <2>2
<1>8. /\ PipeInv' /\ UnsentInv' /\ requests' \in Seq(PipeUnits)
      /\ NothingAsks => NothingAsks'
      /\ OnlyCallAsks => OnlyCallAsks'
      /\ Len(requests) = 1 => requests' = <<>>
      /\ Len(requests) # 1 => requests' # <<>> /\ requests'[Len(requests')] = requests[Len(requests)]
  BY <1>1, <1>6, <1>7, PipeShrinks DEF IInv
<1>9. LayoutInv' /\ Scratch' = Scratch
  BY <1>1, LayoutStays DEF IInv
<1>10. TypeInv'
  BY <1>1, <1>5, <1>8, <1>9 DEF IInv, TypeInv
<1>11. CASE request.kind = "put"
  <2>1. get' = get
    BY <1>1, <1>11
  <2>2. IdleInv'
    BY <1>1, <1>8, <2>1 DEF IInv, IdleInv
  <2>3. Answer(call)' = Answer(call) /\ Known(call)' = Known(call)
    BY <1>1 DEF Answer, Known, layoutVars
  <2>4. NumberInv'
    BY <1>1, <1>8, <2>1, <2>3 DEF IInv, NumberInv
  <2>5. ReadingInv'
    <3> SUFFICES ASSUME client = "reading" PROVE ReadingInv'
      BY <1>1 DEF ReadingInv
    <3>1. call \in Commands /\ call.kind = "get" /\ Len(buf) < call.count /\ ReadWaits
      BY <1>1 DEF IInv, ReadingInv, ReadGoesOn
    <3>2. requests[Len(requests)] = call
      BY <1>1, <3>1 DEF ReadWaits
    <3>3. Len(requests) # 1
      BY <1>2, <1>11, <3>1, <3>2
    <3>4. ReadWaits'
      BY <1>1, <1>8, <2>1, <3>1, <3>2, <3>3 DEF ReadWaits
    <3>5. QED  BY <1>1, <3>1, <3>4 DEF ReadingInv
  <2>6. QED  BY <1>8, <1>9, <1>10, <2>2, <2>4, <2>5 DEF IInv
<1>12. CASE request.kind = "get"
  <2>1. put' = put /\ get' = Job(request)
    BY <1>1, <1>12
  <2>2. ~NothingAsks
    BY <1>2, <1>12 DEF NothingAsks
  <2>3. client \notin {"idle", "writing"}
    BY <2>2 DEF IInv, IdleInv
  <2>4. client # "number"
    <3> SUFFICES ASSUME client = "number" PROVE FALSE
      OBVIOUS
    <3>1. OnlyCallAsks /\ call \in Questions
      BY <2>2 DEF IInv, NumberInv
    <3>2. request = call
      BY <1>2, <1>12, <3>1 DEF OnlyCallAsks
    <3>3. QED  BY <1>12, <3>1, <3>2 DEF Questions
  <2>5. IdleInv' /\ NumberInv'
    BY <1>1, <2>3, <2>4 DEF IdleInv, NumberInv
  <2>6. ReadingInv'
    <3> SUFFICES ASSUME client = "reading" PROVE ReadingInv'
      BY <1>1 DEF ReadingInv
    <3>1. call \in Commands /\ call.kind = "get" /\ Len(buf) < call.count /\ ReadWaits
      BY <1>1 DEF IInv, ReadingInv, ReadGoesOn
    <3>2. Len(requests) = 1 /\ request = call
      BY <1>2, <1>12, <3>1 DEF ReadWaits, OnlyCallAsks
    <3>3. requests' = <<>> /\ put'.left = 0 /\ buf' = <<>> /\ replies' = <<>>
      BY <1>1, <1>8, <2>1, <3>1, <3>2 DEF ReadWaits
    <3>4. Len(<<>>) = 0
      BY EmptySeq
    <3>5. Len(buf') + Len(replies') + get'.left = call'.count
      BY <1>1, <1>3, <1>4, <2>1, <3>2, <3>3, <3>4
    <3>6. get'.next = call'.start + Len(buf') + Len(replies')
      BY <1>1, <1>3, <1>4, <2>1, <3>2, <3>3, <3>4
    <3>7. 1 .. Len(buf') = {} /\ 1 .. Len(replies') = {}
      BY <3>3, <3>4
    <3>8. ReadGoesOn'
      BY <3>3, <3>5, <3>6, <3>7 DEF ReadGoesOn
    <3>9. QED  BY <1>1, <3>1, <3>8 DEF ReadingInv
  <2>7. QED  BY <1>8, <1>9, <1>10, <2>5, <2>6 DEF IInv
<1>13. QED  BY <1>1, <1>11, <1>12

\* A question at the head of the pipe is the client's, if it has not ended.
LEMMA QuestionIsAsked ==
  ASSUME IInv, Ready, requests # <<>>, Head(requests).kind = "number"
  PROVE  /\ client \in {"number", "closed"}
         /\ client = "number" => /\ Head(requests) = call /\ Len(requests) = 1
                                 /\ replies = <<>> /\ OnlyCallAsks
         /\ Head(requests) \in Questions
         /\ 0 = LeftAfter(requests, put.left) /\ put.left = 0
<1> DEFINE request == Head(requests)
<1>1. requests \in Seq(PipeUnits) /\ request = requests[1] /\ 1 \in 1 .. Len(requests)
  BY SequenceTail DEF IInv, TypeInv
<1>2. request \in Questions
  BY <1>1, PipeUnit, ElementOfSeq
<1>3. ~NothingAsks /\ disk = "running"
  BY <1>1 DEF NothingAsks, Ready
<1>4. client \notin {"idle", "writing"}
  BY <1>3 DEF IInv, IdleInv
<1>5. client # "reading"
  <2> SUFFICES ASSUME client = "reading" PROVE FALSE
    OBVIOUS
  <2>1. ReadWaits /\ call.kind = "get"
    BY DEF IInv, ReadingInv, ReadGoesOn
  <2>2. request = call
    BY <1>1, <2>1 DEF ReadWaits, OnlyCallAsks
  <2>3. QED  BY <2>1, <2>2
<1>6. client = "number" => request = call /\ Len(requests) = 1 /\ replies = <<>> /\ OnlyCallAsks
  <2> SUFFICES ASSUME client = "number"
               PROVE  request = call /\ Len(requests) = 1 /\ replies = <<>> /\ OnlyCallAsks
    OBVIOUS
  <2>1. replies = <<>> /\ OnlyCallAsks
    BY <1>3 DEF IInv, NumberInv
  <2>2. QED  BY <1>1, <2>1 DEF OnlyCallAsks
<1>7. client \in {"number", "closed"}
  BY <1>4, <1>5 DEF IInv, TypeInv
<1>8. put.left = 0 /\ 0 = LeftAfter(requests, put.left)
  BY <1>1 DEF Ready, LeftAfter
<1>9. QED  BY <1>2, <1>6, <1>7, <1>8

LEMMA AnswerNumberStep ==
  ASSUME IInv, AnswerNumber
  PROVE  IInv'
<1> DEFINE request == Head(requests)
<1>1. /\ Ready /\ requests # <<>> /\ request.kind = "number" /\ Known(request)
      /\ client # "closed" /\ requests' = Tail(requests)
      /\ replies' = Append(replies, Number(Answer(request)))
      /\ UNCHANGED <<client, call, unsent, buf, result, block_size, anon_start, asked>>
      /\ UNCHANGED <<disk, anon_pages, put, get, metrics, anon_start_index>>
      /\ UNCHANGED layoutVars
  BY DEF AnswerNumber, clientVars, diskVars, layoutVars
<1>2. /\ client = "number" /\ request = call /\ Len(requests) = 1
      /\ replies = <<>> /\ OnlyCallAsks /\ request \in Questions
      /\ 0 = LeftAfter(requests, put.left) /\ put.left = 0
  BY <1>1, QuestionIsAsked
<1>3. /\ PipeInv' /\ UnsentInv' /\ requests' \in Seq(PipeUnits) /\ requests' = <<>>
  <2>1. put'.left = LeftAfter(requests, put.left) /\ ~(put'.left > 0)
    BY <1>1, <1>2
  <2>2. QED  BY <1>1, <1>2, <2>1, PipeShrinks DEF IInv
<1>4. LayoutInv' /\ Scratch' = Scratch
  BY <1>1, LayoutStays DEF IInv
<1>5. replies' = <<Number(Answer(call))>>
  BY <1>1, <1>2
<1>6. Answer(call) \in Nat
  <2>1. call.what \in {"start-block", "num-blocks"} =>
          /\ call.id \in DOMAIN file_metadata_mapping
          /\ file_metadata_mapping[call.id].start_block \in Nat
          /\ file_metadata_mapping[call.id].num_blocks \in Nat
    <3>1. PICK position : MappingOf(file_metadata_mapping, position, files, Len(files))
      BY LayoutFacts DEF IInv
    <3>2. \A id \in DOMAIN file_metadata_mapping :
            /\ file_metadata_mapping[id].start_block \in Nat
            /\ file_metadata_mapping[id].num_blocks \in Nat
      BY <3>1 DEF MappingOf
    <3>3. QED  BY <1>1, <1>2, <3>2 DEF Known
  <2>2. call.what \in {"block-size", "anon-start-block", "start-block", "num-blocks"}
    BY <1>2 DEF Questions
  <2>3. BlockSize \in Nat /\ anon_start_index \in Nat
    BY DiskLayoutAssumption, LayoutFacts DEF IInv
  <2>4. QED  BY <2>1, <2>2, <2>3 DEF Answer
<1>7. replies' \in Seq(Replies)
  <2>1. Number(Answer(call)) \in Replies
    BY <1>6 DEF Number, Replies
  <2>2. QED  BY <1>5, <2>1
<1>8. TypeInv'
  BY <1>1, <1>3, <1>4, <1>7 DEF IInv, TypeInv
<1>9. Answer(call)' = Answer(call) /\ Known(call)' = Known(call)
  BY <1>1 DEF Answer, Known, layoutVars
<1>10. NumberInv'
  <2>1. Len(requests') = 0
    BY <1>3
  <2>2. NothingAsks'
    BY <2>1 DEF NothingAsks
  <2>3. Known(call)
    BY <1>1, <1>2
  <2>4. call' \in Questions /\ get'.left = 0
    BY <1>1, <1>2 DEF IInv, NumberInv
  <2>5. QED  BY <1>5, <1>9, <2>2, <2>3, <2>4 DEF NumberInv
<1>11. IdleInv' /\ ReadingInv'
  BY <1>1, <1>2 DEF IdleInv, ReadingInv
<1>12. QED  BY <1>3, <1>4, <1>8, <1>10, <1>11 DEF IInv

LEMMA RefuseQuestionStep ==
  ASSUME IInv, RefuseQuestion
  PROVE  IInv'
<1> DEFINE request == Head(requests)
<1>1. /\ Ready /\ requests # <<>> /\ request.kind = "number"
      /\ requests' = Tail(requests) /\ disk' = "ended"
      /\ UNCHANGED <<client, call, unsent, buf, result, block_size, anon_start, asked>>
      /\ UNCHANGED <<replies, anon_pages, put, get, metrics, anon_start_index>>
      /\ UNCHANGED layoutVars
  BY DEF RefuseQuestion, clientVars, layoutVars
<1>2. /\ client \in {"number", "closed"}
      /\ client = "number" => replies = <<>> /\ OnlyCallAsks
      /\ 0 = LeftAfter(requests, put.left) /\ put.left = 0
  BY <1>1, QuestionIsAsked
<1>3. /\ PipeInv' /\ UnsentInv' /\ requests' \in Seq(PipeUnits) /\ (OnlyCallAsks => OnlyCallAsks')
  <2>1. put'.left = LeftAfter(requests, put.left) /\ ~(put'.left > 0)
    BY <1>1, <1>2
  <2>2. QED  BY <1>1, <1>2, <2>1, PipeShrinks DEF IInv
<1>4. LayoutInv' /\ Scratch' = Scratch
  BY <1>1, LayoutStays DEF IInv
<1>5. TypeInv'
  BY <1>1, <1>3, <1>4 DEF IInv, TypeInv
<1>6. NumberInv'
  <2> SUFFICES ASSUME client = "number" PROVE NumberInv'
    BY <1>1 DEF NumberInv
  <2>1. call' \in Questions /\ get'.left = 0
    BY <1>1 DEF IInv, NumberInv
  <2>2. replies' = <<>> /\ OnlyCallAsks'
    BY <1>1, <1>2, <1>3
  <2>3. QED  BY <2>1, <2>2 DEF NumberInv
<1>7. IdleInv' /\ ReadingInv'
  BY <1>1, <1>2 DEF IdleInv, ReadingInv
<1>8. QED  BY <1>3, <1>4, <1>5, <1>6, <1>7 DEF IInv

\* A block that a put in progress takes from the pipe is data, and goes to
\* a scratch block.
LEMMA PutIsData ==
  ASSUME IInv, put.left > 0, requests # <<>>
  PROVE  /\ Head(requests) = requests[1] /\ 1 \in 1 .. Len(requests)
         /\ Head(requests).kind = "data" /\ Head(requests).data \in Data
         /\ put.next \in Scratch /\ ~(put.next < anon_start_index) /\ put.next \in Nat
<1>1. requests \in Seq(PipeUnits) /\ Head(requests) = requests[1] /\ 1 \in 1 .. Len(requests)
  BY SequenceTail DEF IInv, TypeInv
<1>2. put.left \in Nat /\ put.next \in Nat /\ anon_start_index \in Nat /\ ScratchBlocks \in Nat
  BY TypeFacts, LayoutFacts, DiskProtocolAssumption DEF IInv
<1>3. Head(requests).kind = "data"
  BY <1>1, <1>2 DEF IInv, PipeInv, Framed, Claimed
<1>4. Head(requests).data \in Data
  BY <1>1, <1>3, PipeUnit, ElementOfSeq
<1>5. anon_start_index <= put.next /\ put.next + put.left <= anon_start_index + ScratchBlocks
  BY DEF IInv, PipeInv
<1>6. QED  BY <1>1, <1>2, <1>3, <1>4, <1>5 DEF Scratch

\* A job that has done a block.
LEMMA AdvanceIs ==
  ASSUME NEW job \in Jobs, job.left > 0
  PROVE  /\ Advance(job) \in Jobs /\ Advance(job).next = job.next + 1
         /\ Advance(job).left = job.left - 1 /\ Advance(job).count = job.count
<1>1. job.next + 1 \in Nat /\ job.left - 1 \in Nat
  BY DEF Jobs
<1>2. Advance(job) \in Jobs
  BY <1>1 DEF Jobs, Advance
<1>3. Advance(job).next = job.next + 1
  BY DEF Jobs, Advance
<1>4. Advance(job).left = job.left - 1
  BY DEF Jobs, Advance
<1>5. Advance(job).count = job.count
  BY DEF Jobs, Advance
<1>6. QED  BY <1>2, <1>3, <1>4, <1>5

LEMMA AccountType ==
  ASSUME metrics \in Counters, NEW job \in Jobs, NEW kind \in {"reads", "writes"}, Account(kind, job)
  PROVE  metrics' \in Counters
<1>1. metrics[kind] + 1 \in Nat /\ metrics.blocks + job.count \in Nat
  BY DEF Counters, Jobs
<1>2. \A n \in Nat, b \in Nat : [metrics EXCEPT ![kind] = n, !.blocks = b] \in Counters
  BY DEF Counters
<1>3. metrics' = metrics \/ metrics' = [metrics EXCEPT ![kind] = metrics[kind] + 1,
                                                     !.blocks = metrics.blocks + job.count]
  BY DEF Account, Counters
<1>4. QED  BY <1>1, <1>2, <1>3, Zenon

LEMMA PutBlockStep ==
  ASSUME IInv, PutBlock
  PROVE  IInv'
<1>1. /\ put.left > 0 /\ requests # <<>>
      /\ Head(requests) = requests[1] /\ 1 \in 1 .. Len(requests)
      /\ Head(requests).kind = "data" /\ Head(requests).data \in Data
      /\ put.next \in Scratch /\ ~(put.next < anon_start_index) /\ put.next \in Nat
  BY PutIsData DEF PutBlock
<1>2. /\ disk = "running" /\ requests' = Tail(requests)
      /\ anon_pages' = [anon_pages EXCEPT ![put.next] = Head(requests).data]
      /\ put' = Advance(put) /\ Account("writes", put)
      /\ UNCHANGED <<client, call, unsent, buf, result, block_size, anon_start, asked>>
      /\ UNCHANGED <<disk, replies, get, anon_start_index>>
      /\ UNCHANGED layoutVars
  BY <1>1 DEF PutBlock, clientVars, layoutVars
<1>3. put \in Jobs /\ put.left \in Nat
  BY TypeFacts DEF IInv, TypeInv
<1>4. /\ put' \in Jobs /\ put'.next = put.next + 1 /\ put'.left = put.left - 1
  BY <1>1, <1>2, <1>3, AdvanceIs
<1>5. put'.left = LeftAfter(requests, put.left)
  BY <1>1, <1>4 DEF LeftAfter
<1>6. /\ anon_start_index <= put'.next /\ put'.next + put'.left <= anon_start_index + ScratchBlocks
  <2>1. anon_start_index \in Nat /\ ScratchBlocks \in Nat
    BY LayoutFacts, DiskProtocolAssumption DEF IInv
  <2>2. anon_start_index <= put.next /\ put.next + put.left <= anon_start_index + ScratchBlocks
    BY <1>1 DEF IInv, PipeInv
  <2>3. QED  BY <1>1, <1>3, <1>4, <2>1, <2>2
<1>7. /\ PipeInv' /\ UnsentInv' /\ requests' \in Seq(PipeUnits)
      /\ NothingAsks => NothingAsks'
      /\ OnlyCallAsks => OnlyCallAsks'
      /\ Len(requests) # 1 => requests' # <<>> /\ requests'[Len(requests')] = requests[Len(requests)]
  BY <1>1, <1>2, <1>5, <1>6, PipeShrinks DEF IInv
<1>8. LayoutInv' /\ Scratch' = Scratch
  BY <1>2, LayoutStays DEF IInv
<1>9. anon_pages' \in [Scratch -> Data \cup {NoData}]
  BY <1>1, <1>2 DEF IInv, TypeInv
<1>10. metrics' \in Counters
  BY <1>2, <1>3, AccountType DEF IInv, TypeInv
<1>11. TypeInv'
  BY <1>2, <1>4, <1>7, <1>8, <1>9, <1>10 DEF IInv, TypeInv
<1>12. IdleInv'
  BY <1>2, <1>7 DEF IInv, IdleInv
<1>13. NumberInv'
  <2>1. Answer(call)' = Answer(call) /\ Known(call)' = Known(call)
    BY <1>2 DEF Answer, Known, layoutVars
  <2>2. QED  BY <1>2, <1>7, <2>1 DEF IInv, NumberInv
<1>14. ReadingInv'
  <2> SUFFICES ASSUME client = "reading" PROVE ReadingInv'
    BY <1>2 DEF ReadingInv
  <2>1. call \in Commands /\ call.kind = "get" /\ Len(buf) < call.count /\ ReadWaits
    BY <1>1 DEF IInv, ReadingInv, ReadGoesOn
  <2>2. requests[Len(requests)] = call
    BY <1>2, <2>1 DEF ReadWaits
  <2>3. Len(requests) # 1
    BY <1>1, <2>1, <2>2
  <2>4. ReadWaits'
    BY <1>2, <1>7, <2>1, <2>2, <2>3 DEF ReadWaits
  <2>5. QED  BY <1>2, <2>1, <2>4 DEF ReadingInv
<1>15. QED  BY <1>7, <1>8, <1>11, <1>12, <1>13, <1>14 DEF IInv

\* Only a read in progress has a get in progress.
LEMMA GetIsRead ==
  ASSUME IInv, get.left > 0, client # "closed"
  PROVE  client = "reading" /\ ReadGoesOn /\ call \in Commands /\ call.kind = "get"
         /\ Len(buf) < call.count
<1>1. get.left # 0
  BY TypeFacts DEF IInv
<1>2. client = "reading"
  BY <1>1 DEF IInv, TypeInv, IdleInv, NumberInv
<1>3. QED  BY <1>1, <1>2 DEF IInv, ReadingInv, ReadWaits

LEMMA GetBlockStep ==
  ASSUME IInv, GetBlock
  PROVE  IInv'
<1>1. /\ get.left > 0 /\ client # "closed" /\ ReadBlock(get.next) # NoData
      /\ replies' = Append(replies, BlockUnit(ReadBlock(get.next)))
      /\ get' = Advance(get) /\ Account("reads", get)
      /\ UNCHANGED <<client, call, unsent, buf, result, block_size, anon_start, asked>>
      /\ UNCHANGED <<disk, requests, put, anon_pages, anon_start_index>>
      /\ UNCHANGED layoutVars
  BY DEF GetBlock, clientVars, layoutVars
<1>2. client = "reading" /\ ReadGoesOn /\ call \in Commands /\ call.kind = "get"
      /\ Len(buf) < call.count
  BY <1>1, GetIsRead
<1>3. /\ get \in Jobs /\ get.left \in Nat /\ get.next \in Nat
      /\ Len(buf) \in Nat /\ Len(replies) \in Nat /\ call.start \in Nat /\ call.count \in Nat
  BY <1>2, TypeFacts DEF IInv, TypeInv, Commands
<1>4. get' \in Jobs /\ get'.next = get.next + 1 /\ get'.left = get.left - 1
  BY <1>1, <1>3, AdvanceIs
<1> DEFINE data == ReadBlock(get.next)
<1>5. data = Stored[get.next] /\ data \in Contents /\ data # NoData
  BY <1>1, <1>3, ReadBlockType DEF Stored, IInv
<1> HIDE DEF data
<1>6. BlockUnit(data) \in Replies /\ BlockUnit(data).data = data
  BY <1>5 DEF BlockUnit, Replies
<1>7. /\ replies' \in Seq(Replies) /\ Len(replies') = Len(replies) + 1
      /\ \A i \in 1 .. Len(replies) : replies'[i] = replies[i]
      /\ replies'[Len(replies) + 1] = BlockUnit(data)
  <2>1. replies \in Seq(Replies) /\ replies' = Append(replies, BlockUnit(data))
    BY <1>1 DEF IInv, TypeInv, data
  <2>2. QED  BY <1>6, <2>1, AppendProperties
<1>8. LayoutInv' /\ Scratch' = Scratch /\ Stored' = Stored
  BY <1>1, LayoutStays, StoredStays DEF IInv
<1>9. metrics' \in Counters
  BY <1>1, <1>3, AccountType DEF IInv, TypeInv
<1>10. TypeInv'
  BY <1>1, <1>4, <1>7, <1>8, <1>9 DEF IInv, TypeInv
<1>11. PipeInv' /\ UnsentInv'
  BY <1>1, PipeStays DEF IInv
<1>12. ReadGoesOn'
  <2>1. requests' = <<>> /\ put'.left = 0
    BY <1>1, <1>2 DEF ReadGoesOn
  <2>2. /\ Len(buf) + Len(replies) + get.left = call.count
        /\ get.next = call.start + Len(buf) + Len(replies)
    BY <1>1, <1>2 DEF ReadGoesOn
  <2>3. /\ Len(buf) + Len(replies') + get'.left = call.count
        /\ get'.next = call.start + Len(buf) + Len(replies')
    <3>1. Len(replies') = Len(replies) + 1 /\ get'.left = get.left - 1 /\ get'.next = get.next + 1
      BY <1>4, <1>7
    <3>2. Len(buf) + Len(replies') + get'.left = call.count
      BY <1>3, <2>2, <3>1
    <3>3. get'.next = call.start + Len(buf) + Len(replies')
      <4>1. get'.next = (call.start + Len(buf) + Len(replies)) + 1
        BY <2>2, <3>1
      <4>2. (call.start + Len(buf) + Len(replies)) + 1 = call.start + Len(buf) + (Len(replies) + 1)
        BY SMTT(30), <1>3
      <4>3. QED  BY <3>1, <4>1, <4>2
    <3>4. QED  BY <3>2, <3>3
  <2>4. \A i \in 1 .. Len(buf') : buf'[i] = Stored'[call'.start + i - 1] /\ buf'[i] # NoData
    BY <1>1, <1>2, <1>8 DEF ReadGoesOn
  <2>5. ASSUME NEW i \in 1 .. Len(replies) + 1
        PROVE  /\ replies'[i] = BlockUnit(Stored[call.start + Len(buf) + i - 1])
               /\ replies'[i].data # NoData
    <3>1. CASE i = Len(replies) + 1
      <4>1. call.start + Len(buf) + i - 1 = get.next
        BY <1>3, <2>2, <3>1
      <4>2. QED  BY <1>5, <1>6, <1>7, <3>1, <4>1
    <3>2. CASE i # Len(replies) + 1
      <4>1. i \in 1 .. Len(replies)
        BY <1>3, <2>5, <3>2
      <4>2. QED  BY <1>2, <1>7, <4>1 DEF ReadGoesOn
    <3>3. QED  BY <3>1, <3>2
  <2>6. \A i \in 1 .. Len(replies') :
          /\ replies'[i] = BlockUnit(Stored'[call'.start + Len(buf') + i - 1])
          /\ replies'[i].data # NoData
    BY <1>1, <1>7, <1>8, <2>5
  <2>7. QED  BY <1>1, <2>1, <2>3, <2>4, <2>6 DEF ReadGoesOn
<1>13. ReadingInv'
  BY <1>1, <1>2, <1>12 DEF ReadingInv
<1>14. IdleInv' /\ NumberInv'
  BY <1>1, <1>2 DEF IdleInv, NumberInv
<1>15. QED  BY <1>8, <1>10, <1>11, <1>13, <1>14 DEF IInv

-----------------------------------------------------------------------------
LEMMA InitIInv == Init => IInv
<1> SUFFICES ASSUME Init PROVE IInv
  OBVIOUS
<1>1. LayoutInv
  BY DEF Init, LayoutInv
<1>2. anon_start_index \in Nat
  BY <1>1, LayoutFacts
<1>3. Len(<<>>) = 0 /\ requests = <<>> /\ unsent = <<>> /\ replies = <<>> /\ buf = <<>>
      /\ result = <<>> /\ put = NoJob /\ get = NoJob /\ client = "idle" /\ disk = "running"
  BY EmptySeq DEF Init
<1>4. NoJob \in Jobs /\ NoJob.left = 0 /\ NothingCounted \in Counters
  BY DEF NoJob, Jobs, NothingCounted, Counters
<1>5. anon_pages \in [Scratch -> Data \cup {NoData}]
  BY DEF Init, Scratch
<1>6. TypeInv
  <2>1. \A S : <<>> \in Seq(S)
    BY EmptySeq
  <2>2. asked \in Counters /\ metrics \in Counters /\ block_size = None /\ anon_start = None
    BY <1>4 DEF Init
  <2>3. QED  BY <1>3, <1>4, <1>5, <2>1, <2>2 DEF TypeInv
<1>7. 1 .. Len(requests) = {}
  BY <1>3
<1>8. PipeInv
  BY <1>3, <1>4, <1>7 DEF PipeInv, Framed, PutsBetween
<1>9. UnsentInv
  <2>1. \A i \in Nat : Claimed(requests, put.left, i) => i <= 0
    BY <1>3, <1>4, <1>7 DEF Claimed
  <2>2. Len(requests) + Len(unsent) = 0
    BY <1>3
  <2>3. QED  BY <1>3, <2>1, <2>2 DEF UnsentInv, ClaimsEndAt
<1>10. IdleInv /\ NumberInv /\ ReadingInv
  BY <1>3, <1>4, <1>7 DEF IdleInv, NumberInv, ReadingInv, NothingAsks
<1>11. QED  BY <1>1, <1>6, <1>8, <1>9, <1>10 DEF IInv

LEMMA NextIInv == IInv /\ [Next]_vars => IInv'
<1> SUFFICES ASSUME IInv, [Next]_vars PROVE IInv'
  OBVIOUS
<1>1. CASE CallNumber
  BY <1>1, CallNumberStep
<1>2. CASE CallRead
  BY <1>2, CallReadStep
<1>3. CASE CallWrite
  BY <1>3, CallWriteStep
<1>4. CASE SendBlock
  BY <1>4, SendBlockStep
<1>5. CASE ReceiveNumber
  BY <1>5, ReceiveNumberStep
<1>6. CASE ReceiveBlock
  BY <1>6, ReceiveBlockStep
<1>7. CASE ClientFindsDiskGone \/ ClientCloses
  BY <1>7, ClientEnds
<1>8. CASE ReadCommand
  BY <1>8, ReadCommandStep
<1>9. CASE AnswerNumber
  BY <1>9, AnswerNumberStep
<1>10. CASE RefuseQuestion
  BY <1>10, RefuseQuestionStep
<1>11. CASE PutBlock
  BY <1>11, PutBlockStep
<1>12. CASE GetBlock
  BY <1>12, GetBlockStep
<1>13. CASE GetMissingBlock \/ DiskFindsClientGone \/ DiskFails
  BY <1>13, DiskEnds
<1>14. CASE UNCHANGED vars
  <2>1. /\ UNCHANGED <<client, call, unsent, buf, result, calls, block_size, anon_start, asked>>
        /\ UNCHANGED <<disk, requests, replies, anon_pages, put, get, metrics, anon_start_index>>
        /\ UNCHANGED layoutVars
    BY <1>14 DEF vars, clientVars, diskVars, layoutVars
  <2>2. LayoutInv' /\ Scratch' = Scratch
    BY <2>1, LayoutStays DEF IInv
  <2>3. TypeInv'
    BY <2>1, <2>2 DEF IInv, TypeInv
  <2>4. PipeInv' /\ UnsentInv'
    BY <2>1, PipeStays DEF IInv
  <2>5. NumberInv' /\ IdleInv' /\ ReadingInv'
    BY <2>1, ClientSees DEF IInv
  <2>6. QED  BY <2>2, <2>3, <2>4, <2>5 DEF IInv
<1>15. QED
  BY <1>1, <1>2, <1>3, <1>4, <1>5, <1>6, <1>7, <1>8, <1>9, <1>10, <1>11, <1>12, <1>13, <1>14
  DEF Next, ClientStep, DiskStep

LEMMA InvariantHolds == Spec => []IInv
BY InitIInv, NextIInv, PTL DEF Spec

LEMMA IInvFrames == IInv => FramingAgrees
<1> SUFFICES ASSUME IInv PROVE FramingAgrees
  OBVIOUS
<1>1. Len(requests) \in Nat /\ DOMAIN requests = 1 .. Len(requests)
  BY PipeFacts DEF IInv, TypeInv
<1>2. ASSUME NEW i \in 1 .. Len(requests)
      PROVE  requests[i].kind = "data"
               <=> \/ i <= put.left
                   \/ \E j \in 1 .. i - 1 : /\ requests[j].kind = "put"
                                            /\ i <= j + requests[j].count
  <2>1. requests[i].kind = "data" <=> Claimed(requests, put.left, i)
    BY DEF IInv, PipeInv, Framed
  <2>2. \A j \in 1 .. Len(requests) : j < i <=> j \in 1 .. i - 1
    BY <1>1
  <2>3. \A j \in 1 .. i - 1 : j \in 1 .. Len(requests)
    BY <1>1
  <2>4. QED  BY <2>1, <2>2, <2>3 DEF Claimed
<1>3. client = "idle" /\ disk = "running" => replies = <<>> /\ get.left = 0
  BY DEF IInv, IdleInv
<1>4. client = "number" => \A i \in 1 .. Len(replies) : replies[i] = Number(Answer(call))
  <2> SUFFICES ASSUME client = "number", NEW i \in 1 .. Len(replies)
               PROVE  replies[i] = Number(Answer(call))
    OBVIOUS
  <2>1. replies = <<Number(Answer(call))>>
    <3>1. Len(replies) # 0
      BY TypeFacts DEF IInv
    <3>2. QED  BY <3>1, EmptySeq DEF IInv, NumberInv
  <2>2. i = 1
    BY <2>1
  <2>3. QED  BY <2>1, <2>2
<1>5. client = "reading" /\ disk = "running" =>
        \/ call \in ToSet(requests) /\ buf = <<>> /\ replies = <<>>
        \/ Len(buf) + Len(replies) + get.left = call.count
  <2> SUFFICES ASSUME client = "reading", disk = "running", ReadWaits
               PROVE  call \in ToSet(requests) /\ buf = <<>> /\ replies = <<>>
    BY DEF IInv, ReadingInv, ReadGoesOn
  <2>1. requests # <<>> /\ requests[Len(requests)] = call /\ buf = <<>> /\ replies = <<>>
    BY DEF ReadWaits
  <2>2. Len(requests) \in Nat \ {0}
    BY <2>1, EmptySeq DEF IInv, TypeInv
  <2>3. Len(requests) \in DOMAIN requests
    BY <1>1, <2>2
  <2>4. QED  BY <2>1, <2>3 DEF ToSet
<1>6. QED  BY <1>2, <1>3, <1>4, <1>5 DEF FramingAgrees

\* Client and disk agree on what the bytes in the pipes are.
THEOREM FramingKept == Spec => []FramingAgrees
BY InvariantHolds, IInvFrames, PTL

\* Files can be read whole, each from its start block on, and are apart.
THEOREM RegionsStayApart == Spec => []RegionsApart
<1>1. IInv => RegionsApart
  BY LayoutKeepsApart DEF IInv
<1>2. QED  BY <1>1, InvariantHolds, PTL

-----------------------------------------------------------------------------
(* Metrics.  Counting the requests of a pipe, as units are appended and    *)
(* taken.                                                                  *)

OfKind(pipe, kind) == {i \in DOMAIN pipe : pipe[i].kind = kind}
One(unit, kind) == IF unit.kind = kind THEN 1 ELSE 0
Asks(unit) == IF unit.kind \in {"put", "get"} THEN unit.count ELSE 0
Counts(pipe) == [i \in DOMAIN pipe |-> Asks(pipe[i])]
Total(pipe) == SumOver(Counts(pipe), DOMAIN pipe)

\* A set of numbers and the set of those before them have the same size.
LEMMA ShiftedSet ==
  ASSUME NEW n \in Nat, NEW S \in SUBSET (1 .. n), NEW T, T = {i + 1 : i \in S}
  PROVE  IsFiniteSet(T) /\ IsFiniteSet(S) /\ Cardinality(T) = Cardinality(S)
<1> DEFINE h == [i \in S |-> i + 1]
<1>1. IsFiniteSet(S)
  <2>1. IsFiniteSet(1 .. n)
    BY FS_Interval
  <2>2. QED  BY <2>1, FS_Subset
<1>2. h \in Bijection(S, T)
  <2>1. h \in [S -> T]
    OBVIOUS
  <2>2. \A i, j \in S : h[i] = h[j] => i = j
    OBVIOUS
  <2>3. \A t \in T : \E i \in S : h[i] = t
    OBVIOUS
  <2> HIDE DEF h
  <2>4. h \in Injection(S, T)
    BY <2>1, <2>2 DEF Injection, IsInjective
  <2>5. h \in Surjection(S, T)
    BY <2>1, <2>3 DEF Surjection
  <2>6. QED  BY <2>4, <2>5 DEF Bijection
<1>3. ExistsBijection(S, T)
  BY <1>2 DEF ExistsBijection
<1>4. QED  BY <1>1, <1>3, FS_Bijection

LEMMA SumUpTo ==
  ASSUME NEW n \in Nat, NEW f, \A i \in 1 .. n + 1 : f[i] \in Nat
  PROVE  SumOver(f, 1 .. n + 1) = SumOver(f, 1 .. n) + f[n + 1] /\ SumOver(f, 1 .. n) \in Nat
<1> DEFINE S == 1 .. n
<1>1. 1 .. n + 1 = S \cup {n + 1} /\ n + 1 \notin S /\ n + 1 \in 1 .. n + 1
  OBVIOUS
<1>2. IsFiniteSet(S)
  BY FS_Interval
<1> HIDE DEF S
<1>3. f[n + 1] \in Nat /\ \A i \in S : f[i] \in Nat
  BY <1>1
<1>4. SumOver(f, S \cup {n + 1}) = SumOver(f, S) + f[n + 1] /\ SumOver(f, S) \in Nat
  BY <1>1, <1>2, <1>3, SumAdd, SumType
<1>5. QED  BY <1>1, <1>4 DEF S

LEMMA ShiftedSum ==
  ASSUME NEW n \in Nat, NEW f, \A i \in 1 .. n + 1 : f[i] \in Nat,
         NEW g, \A i \in 1 .. n : g[i] = f[i + 1]
  PROVE  SumOver(f, 1 .. n + 1) = f[1] + SumOver(g, 1 .. n)
<1> DEFINE holds(m) == SumOver(f, 1 .. m + 1) = f[1] + SumOver(g, 1 .. m)
           wrong == {m \in Nat : m <= n /\ ~holds(m)}
<1>1. wrong = {}
  <2> SUFFICES ASSUME wrong # {} PROVE FALSE
    OBVIOUS
  <2>1. PICK m \in wrong : \A other \in wrong : m <= other
    <3>1. wrong \in SUBSET Nat
      OBVIOUS
    <3> HIDE DEF wrong
    <3>2. QED  BY <3>1, LeastElement
  <2>2. m \in Nat /\ m <= n /\ ~holds(m)
    BY <2>1
  <2>3. f[1] \in Nat
    OBVIOUS
  <2>4. m # 0
    <3> SUFFICES ASSUME m = 0 PROVE FALSE
      OBVIOUS
    <3>1. 1 .. m + 1 = {1} /\ 1 .. m = {}
      OBVIOUS
    <3>2. SumOver(f, {1}) = f[1] /\ SumOver(g, {}) = 0
      BY <2>3, SumOfOne, SumEmpty
    <3>3. QED  BY <2>2, <2>3, <3>1, <3>2
  <2>5. m - 1 \in Nat /\ m - 1 <= n /\ m - 1 \notin wrong /\ (m - 1) + 1 = m
    BY <2>1, <2>2, <2>4
  <2>6. SumOver(f, 1 .. m) = f[1] + SumOver(g, 1 .. m - 1)
    BY <2>5
  <2>7. (\A i \in 1 .. m + 1 : f[i] \in Nat) /\ g[m] = f[m + 1] /\ f[m + 1] \in Nat
        /\ \A i \in 1 .. m : g[i] \in Nat
    <3>1. \A i \in 1 .. m : i \in 1 .. n /\ i + 1 \in 1 .. n + 1
      BY <2>2
    <3>2. \A i \in 1 .. m + 1 : i \in 1 .. n + 1
      BY <2>2
    <3>3. m \in 1 .. m /\ m + 1 \in 1 .. m + 1
      BY <2>2, <2>4
    <3>4. QED  BY <3>1, <3>2, <3>3
  <2>8. SumOver(f, 1 .. m + 1) = SumOver(f, 1 .. m) + f[m + 1] /\ SumOver(f, 1 .. m) \in Nat
    BY <2>2, <2>7, SumUpTo
  <2>9. PICK k \in Nat : m = k + 1 /\ k = m - 1
    BY <2>5
  <2>10. SumOver(g, 1 .. k + 1) = SumOver(g, 1 .. k) + g[k + 1] /\ SumOver(g, 1 .. k) \in Nat
    BY <2>7, <2>9, SumUpTo
  <2>11. QED  BY SMTT(30), <2>2, <2>3, <2>6, <2>7, <2>8, <2>9, <2>10
<1>2. holds(n)
  BY <1>1
<1>3. QED  BY <1>2

LEMMA AsksType ==
  ASSUME NEW unit \in PipeUnits
  PROVE  Asks(unit) \in Nat
BY PipeUnit DEF Asks

LEMMA CountsType ==
  ASSUME NEW pipe \in Seq(PipeUnits)
  PROVE  /\ IsFiniteSet(DOMAIN pipe)
         /\ \A i \in 1 .. Len(pipe) : Counts(pipe)[i] = Asks(pipe[i]) /\ Counts(pipe)[i] \in Nat
         /\ Total(pipe) \in Nat
         /\ \A kind : IsFiniteSet(OfKind(pipe, kind)) /\ Cardinality(OfKind(pipe, kind)) \in Nat
<1>1. Len(pipe) \in Nat /\ DOMAIN pipe = 1 .. Len(pipe)
      /\ \A i \in 1 .. Len(pipe) : pipe[i] \in PipeUnits
  BY PipeFacts
<1>2. IsFiniteSet(DOMAIN pipe)
  BY <1>1, FS_Interval
<1>3. \A i \in 1 .. Len(pipe) : Counts(pipe)[i] = Asks(pipe[i]) /\ Counts(pipe)[i] \in Nat
  BY <1>1, AsksType DEF Counts
<1>4. Total(pipe) \in Nat
  BY <1>1, <1>2, <1>3, SumType DEF Total
<1>5. ASSUME NEW kind PROVE IsFiniteSet(OfKind(pipe, kind)) /\ Cardinality(OfKind(pipe, kind)) \in Nat
  BY <1>2, FS_Subset, FS_CardinalityType DEF OfKind
<1>6. QED  BY <1>2, <1>3, <1>4, <1>5

LEMMA AppendCounts ==
  ASSUME NEW pipe \in Seq(PipeUnits), NEW unit \in PipeUnits
  PROVE  /\ Total(Append(pipe, unit)) = Total(pipe) + Asks(unit)
         /\ \A kind : Cardinality(OfKind(Append(pipe, unit), kind))
                        = Cardinality(OfKind(pipe, kind)) + One(unit, kind)
<1> DEFINE new == Append(pipe, unit)
<1>1. /\ new \in Seq(PipeUnits) /\ Len(new) = Len(pipe) + 1 /\ Len(pipe) \in Nat
      /\ \A i \in 1 .. Len(pipe) : new[i] = pipe[i]
      /\ new[Len(pipe) + 1] = unit
  BY AppendProperties, LenProperties
<1>2. /\ DOMAIN pipe = 1 .. Len(pipe) /\ DOMAIN new = 1 .. Len(pipe) + 1
      /\ 1 .. Len(pipe) + 1 = (1 .. Len(pipe)) \cup {Len(pipe) + 1}
      /\ Len(pipe) + 1 \notin 1 .. Len(pipe)
  BY <1>1, LenProperties
<1> HIDE DEF new
<1>3. /\ \A i \in 1 .. Len(pipe) : Counts(pipe)[i] \in Nat /\ Counts(new)[i] = Counts(pipe)[i]
      /\ Counts(new)[Len(pipe) + 1] = Asks(unit)
      /\ \A i \in 1 .. Len(pipe) + 1 : Counts(new)[i] \in Nat
  BY <1>1, <1>2, CountsType DEF Counts
<1>4. SumOver(Counts(new), 1 .. Len(pipe) + 1) = SumOver(Counts(new), 1 .. Len(pipe)) + Asks(unit)
  <2>1. SumOver(Counts(new), 1 .. Len(pipe) + 1)
          = SumOver(Counts(new), 1 .. Len(pipe)) + Counts(new)[Len(pipe) + 1]
    BY <1>1, <1>3, SumUpTo
  <2>2. QED  BY <1>3, <2>1
<1>5. SumOver(Counts(new), 1 .. Len(pipe)) = SumOver(Counts(pipe), 1 .. Len(pipe))
  <2>1. IsFiniteSet(1 .. Len(pipe))
    BY <1>1, FS_Interval
  <2>2. QED  BY <1>3, <2>1, SumCongruence
<1>6. Total(new) = Total(pipe) + Asks(unit)
  BY <1>2, <1>4, <1>5 DEF Total
<1>7. ASSUME NEW kind
      PROVE  Cardinality(OfKind(new, kind)) = Cardinality(OfKind(pipe, kind)) + One(unit, kind)
  <2>1. IsFiniteSet(OfKind(pipe, kind)) /\ Cardinality(OfKind(pipe, kind)) \in Nat
    BY CountsType
  <2>2. CASE unit.kind = kind
    <3>1. OfKind(new, kind) = OfKind(pipe, kind) \cup {Len(pipe) + 1}
      BY <1>1, <1>2, <2>2 DEF OfKind
    <3>2. Len(pipe) + 1 \notin OfKind(pipe, kind)
      BY <1>2 DEF OfKind
    <3>3. QED  BY ZenonT(60), <2>1, <2>2, <3>1, <3>2, FS_AddElement DEF One
  <2>3. CASE unit.kind # kind
    <3>1. OfKind(new, kind) = OfKind(pipe, kind)
      BY <1>1, <1>2, <2>3 DEF OfKind
    <3>2. QED  BY <2>1, <2>3, <3>1 DEF One
  <2>4. QED  BY <2>2, <2>3
<1>8. QED  BY <1>6, <1>7 DEF new

LEMMA TailCounts ==
  ASSUME NEW pipe \in Seq(PipeUnits), pipe # <<>>
  PROVE  /\ Total(pipe) = Total(Tail(pipe)) + Asks(Head(pipe))
         /\ \A kind : Cardinality(OfKind(pipe, kind))
                        = Cardinality(OfKind(Tail(pipe), kind)) + One(Head(pipe), kind)
<1> DEFINE rest == Tail(pipe)
           n == Len(pipe) - 1
<1>1. /\ Head(pipe) = pipe[1] /\ Len(pipe) \in Nat /\ n \in Nat /\ Len(pipe) = n + 1
      /\ rest \in Seq(PipeUnits) /\ Len(rest) = n
      /\ \A i \in 1 .. n : rest[i] = pipe[i + 1]
  BY SequenceTail
<1>2. DOMAIN pipe = 1 .. n + 1 /\ DOMAIN rest = 1 .. n
  BY <1>1, LenProperties
<1> HIDE DEF rest, n
<1>3. /\ \A i \in 1 .. n + 1 : Counts(pipe)[i] \in Nat
      /\ \A i \in 1 .. n : Counts(rest)[i] = Counts(pipe)[i + 1]
      /\ Counts(pipe)[1] = Asks(Head(pipe)) /\ Asks(Head(pipe)) \in Nat
  <2>1. \A i \in 1 .. n + 1 : Counts(pipe)[i] = Asks(pipe[i]) /\ Counts(pipe)[i] \in Nat
    BY <1>1, CountsType
  <2>2. \A i \in 1 .. n : Counts(rest)[i] = Asks(rest[i])
    BY <1>1, CountsType
  <2>3. \A i \in 1 .. n : i + 1 \in 1 .. n + 1
    BY <1>1
  <2>4. 1 \in 1 .. n + 1
    BY <1>1
  <2>5. QED  BY <1>1, <2>1, <2>2, <2>3, <2>4
<1>4. SumOver(Counts(pipe), 1 .. n + 1) = Counts(pipe)[1] + SumOver(Counts(rest), 1 .. n)
  BY SMTT(30), <1>1, <1>3, ShiftedSum
<1>5. Total(pipe) = Total(rest) + Asks(Head(pipe))
  <2>1. Total(rest) \in Nat
    BY <1>1, CountsType
  <2>2. QED  BY <1>2, <1>3, <1>4, <2>1 DEF Total
<1>6. ASSUME NEW kind
      PROVE  Cardinality(OfKind(pipe, kind)) = Cardinality(OfKind(rest, kind)) + One(Head(pipe), kind)
  <2> DEFINE S == OfKind(rest, kind)
             T == {i + 1 : i \in S}
  <2>1. S \in SUBSET (1 .. n)
    BY <1>2 DEF OfKind
  <2>2. IsFiniteSet(T) /\ IsFiniteSet(S) /\ Cardinality(T) = Cardinality(S)
    BY <1>1, <2>1, ShiftedSet
  <2>3. Cardinality(S) \in Nat
    BY <2>2, FS_CardinalityType
  <2>4. T = {i \in 2 .. n + 1 : pipe[i].kind = kind}
    <3>1. ASSUME NEW i \in S PROVE i + 1 \in 2 .. n + 1 /\ pipe[i + 1].kind = kind
      <4>1. i \in 1 .. n /\ rest[i].kind = kind
        BY <1>2 DEF OfKind
      <4>2. QED  BY <1>1, <4>1
    <3>2. ASSUME NEW k \in 2 .. n + 1, pipe[k].kind = kind
          PROVE  k \in T
      <4>1. PICK i \in 1 .. n : k = i + 1
        <5>1. k - 1 \in 1 .. n /\ k = (k - 1) + 1
          BY <1>1
        <5>2. QED  BY <5>1
      <4>2. rest[i].kind = kind
        BY <1>1, <3>2, <4>1
      <4>3. i \in S
        BY <1>2, <4>2 DEF OfKind
      <4>4. QED  BY <4>1, <4>3
    <3>3. QED  BY <3>1, <3>2
  <2> HIDE DEF S, T
  <2>5. 1 .. n + 1 = {1} \cup (2 .. n + 1) /\ 1 \notin 2 .. n + 1
    BY <1>1
  <2>6. CASE Head(pipe).kind = kind
    <3>1. OfKind(pipe, kind) = T \cup {1} /\ 1 \notin T
      BY <1>1, <1>2, <2>4, <2>5, <2>6 DEF OfKind
    <3>2. QED  BY <2>2, <2>3, <2>6, <3>1, FS_AddElement DEF One, S
  <2>7. CASE Head(pipe).kind # kind
    <3>1. OfKind(pipe, kind) = T
      BY <1>1, <1>2, <2>4, <2>5, <2>7 DEF OfKind
    <3>2. QED  BY <2>2, <2>3, <2>7, <3>1 DEF One, S
  <2>8. QED  BY <2>6, <2>7
<1>7. QED  BY <1>5, <1>6 DEF rest

-----------------------------------------------------------------------------
\* The blocks of a job in progress, which are counted when it is done.
Working(job) == IF job.left > 0 THEN job.count ELSE 0

CountsInv ==
  disk = "running" =>
    /\ asked.reads = metrics.reads + Cardinality(OfKind(requests, "get")) + InProgress(get)
    /\ asked.writes = metrics.writes + Cardinality(OfKind(requests, "put")) + InProgress(put)
    /\ asked.blocks = metrics.blocks + Total(requests) + Working(get) + Working(put)

LEMMA CountsAgree ==
  ASSUME IInv, CountsInv
  PROVE  MetricsAgree
<1> SUFFICES ASSUME disk = "running" PROVE MetricsAgree
  BY DEF MetricsAgree
<1>1. \A kind : InFlight(kind) = OfKind(requests, kind)
  BY DEF InFlight, OfKind
<1>2. MapThenSumSet(LAMBDA i : BlocksAsked[i], DOMAIN requests) = Total(requests)
  <2>1. BlocksAsked = Counts(requests)
    BY DEF BlocksAsked, Counts, Asks
  <2>2. QED  BY <2>1 DEF Total, SumOver
<1>3. /\ InProgress(get) * get.count = Working(get)
      /\ InProgress(put) * put.count = Working(put)
  BY TypeFacts DEF IInv, InProgress, Working
<1>4. QED  BY <1>1, <1>2, <1>3 DEF CountsInv, MetricsAgree

LEMMA CounterFacts ==
  ASSUME IInv
  PROVE  /\ requests \in Seq(PipeUnits) /\ put \in Jobs /\ get \in Jobs
         /\ asked.reads \in Nat /\ asked.writes \in Nat /\ asked.blocks \in Nat
         /\ metrics.reads \in Nat /\ metrics.writes \in Nat /\ metrics.blocks \in Nat
         /\ Total(requests) \in Nat
         /\ \A kind : Cardinality(OfKind(requests, kind)) \in Nat
         /\ InProgress(get) \in Nat /\ InProgress(put) \in Nat
         /\ Working(get) \in Nat /\ Working(put) \in Nat
<1>1. requests \in Seq(PipeUnits) /\ put \in Jobs /\ get \in Jobs
      /\ asked \in Counters /\ metrics \in Counters
  BY DEF IInv, TypeInv
<1>2. \A job \in Jobs : InProgress(job) \in Nat /\ Working(job) \in Nat
  BY DEF Jobs, InProgress, Working
<1>3. QED  BY <1>1, <1>2, CountsType DEF Counters

\* A unit is appended, and what it asks for has been asked for.
LEMMA UnitAdded ==
  ASSUME IInv, CountsInv, NEW unit \in PipeUnits, requests' = Append(requests, unit),
         UNCHANGED <<disk, metrics, put, get>>,
         asked'.reads = asked.reads + One(unit, "get"),
         asked'.writes = asked.writes + One(unit, "put"),
         asked'.blocks = asked.blocks + Asks(unit)
  PROVE  CountsInv'
<1> SUFFICES ASSUME disk = "running" PROVE CountsInv'
  BY DEF CountsInv
<1>0. /\ metrics.reads \in Nat /\ metrics.writes \in Nat /\ metrics.blocks \in Nat
      /\ Total(requests) \in Nat
      /\ Cardinality(OfKind(requests, "get")) \in Nat /\ Cardinality(OfKind(requests, "put")) \in Nat
      /\ InProgress(get) \in Nat /\ InProgress(put) \in Nat
      /\ Working(get) \in Nat /\ Working(put) \in Nat
  BY CounterFacts
<1>1. /\ asked.reads = metrics.reads + Cardinality(OfKind(requests, "get")) + InProgress(get)
      /\ asked.writes = metrics.writes + Cardinality(OfKind(requests, "put")) + InProgress(put)
      /\ asked.blocks = metrics.blocks + Total(requests) + Working(get) + Working(put)
  BY DEF CountsInv
<1>2. /\ Total(requests') = Total(requests) + Asks(unit)
      /\ \A kind : Cardinality(OfKind(requests', kind))
                     = Cardinality(OfKind(requests, kind)) + One(unit, kind)
  BY CounterFacts, AppendCounts
<1>3. Asks(unit) \in Nat /\ One(unit, "get") \in Nat /\ One(unit, "put") \in Nat
  BY AsksType DEF One
<1>4. /\ metrics' = metrics
      /\ InProgress(get)' = InProgress(get) /\ InProgress(put)' = InProgress(put)
      /\ Working(get)' = Working(get) /\ Working(put)' = Working(put)
  BY DEF InProgress, Working
<1>5. asked'.reads = metrics'.reads + Cardinality(OfKind(requests', "get")) + InProgress(get)'
  <2>1. Cardinality(OfKind(requests', "get")) = Cardinality(OfKind(requests, "get")) + One(unit, "get")
    BY <1>2
  <2>2. /\ asked.reads = metrics.reads + Cardinality(OfKind(requests, "get")) + InProgress(get)
        /\ metrics'.reads = metrics.reads /\ InProgress(get)' = InProgress(get)
    BY <1>1, <1>4
  <2>3. QED  BY SMTT(30), <1>0, <1>3, <2>1, <2>2
<1>6. asked'.writes = metrics'.writes + Cardinality(OfKind(requests', "put")) + InProgress(put)'
  <2>1. Cardinality(OfKind(requests', "put")) = Cardinality(OfKind(requests, "put")) + One(unit, "put")
    BY <1>2
  <2>2. /\ asked.writes = metrics.writes + Cardinality(OfKind(requests, "put")) + InProgress(put)
        /\ metrics'.writes = metrics.writes /\ InProgress(put)' = InProgress(put)
    BY <1>1, <1>4
  <2>3. QED  BY SMTT(30), <1>0, <1>3, <2>1, <2>2
<1>7. asked'.blocks = metrics'.blocks + Total(requests') + Working(get)' + Working(put)'
  <2>1. Total(requests') = Total(requests) + Asks(unit)
    BY <1>2
  <2>2. /\ asked.blocks = metrics.blocks + Total(requests) + Working(get) + Working(put)
        /\ metrics'.blocks = metrics.blocks
        /\ Working(get)' = Working(get) /\ Working(put)' = Working(put)
    BY <1>1, <1>4
  <2>3. QED  BY SMTT(30), <1>0, <1>3, <2>1, <2>2
<1>8. QED  BY <1>5, <1>6, <1>7 DEF CountsInv

LEMMA CounterFactsNext ==
  ASSUME IInv'
  PROVE  /\ metrics'.reads \in Nat /\ metrics'.writes \in Nat /\ metrics'.blocks \in Nat
         /\ Total(requests') \in Nat
         /\ \A kind : Cardinality(OfKind(requests', kind)) \in Nat
         /\ InProgress(get)' \in Nat /\ InProgress(put)' \in Nat
         /\ Working(get)' \in Nat /\ Working(put)' \in Nat
<1>1. /\ requests' \in Seq(PipeUnits) /\ put' \in Jobs /\ get' \in Jobs /\ metrics' \in Counters
  BY DEF IInv, TypeInv
<1>2. \A job \in Jobs : InProgress(job) \in Nat /\ Working(job) \in Nat
  BY DEF Jobs, InProgress, Working
<1>3. QED  BY <1>1, <1>2, CountsType DEF Counters, InProgress, Working

\* What a unit has asked for moves from the pipe to what is counted or in progress.
LEMMA ReadsMove ==
  ASSUME IInv, IInv', NEW moved \in Nat,
         asked.reads = metrics.reads + Cardinality(OfKind(requests, "get")) + InProgress(get),
         Cardinality(OfKind(requests, "get")) = Cardinality(OfKind(requests', "get")) + moved,
         metrics'.reads + InProgress(get)' = metrics.reads + InProgress(get) + moved
  PROVE  asked.reads = metrics'.reads + Cardinality(OfKind(requests', "get")) + InProgress(get)'
<1>1. /\ metrics.reads \in Nat /\ InProgress(get) \in Nat
      /\ Cardinality(OfKind(requests, "get")) \in Nat
  BY CounterFacts
<1>2. /\ metrics'.reads \in Nat /\ InProgress(get)' \in Nat
      /\ Cardinality(OfKind(requests', "get")) \in Nat
  BY CounterFactsNext
<1>3. QED  BY <1>1, <1>2

LEMMA WritesMove ==
  ASSUME IInv, IInv', NEW moved \in Nat,
         asked.writes = metrics.writes + Cardinality(OfKind(requests, "put")) + InProgress(put),
         Cardinality(OfKind(requests, "put")) = Cardinality(OfKind(requests', "put")) + moved,
         metrics'.writes + InProgress(put)' = metrics.writes + InProgress(put) + moved
  PROVE  asked.writes = metrics'.writes + Cardinality(OfKind(requests', "put")) + InProgress(put)'
<1>1. /\ metrics.writes \in Nat /\ InProgress(put) \in Nat
      /\ Cardinality(OfKind(requests, "put")) \in Nat
  BY CounterFacts
<1>2. /\ metrics'.writes \in Nat /\ InProgress(put)' \in Nat
      /\ Cardinality(OfKind(requests', "put")) \in Nat
  BY CounterFactsNext
<1>3. QED  BY <1>1, <1>2

LEMMA BlocksMove ==
  ASSUME IInv, IInv', NEW moved \in Nat,
         asked.blocks = metrics.blocks + Total(requests) + Working(get) + Working(put),
         Total(requests) = Total(requests') + moved,
         metrics'.blocks + Working(get)' + Working(put)'
           = metrics.blocks + Working(get) + Working(put) + moved
  PROVE  asked.blocks = metrics'.blocks + Total(requests') + Working(get)' + Working(put)'
<1>1. /\ metrics.blocks \in Nat /\ Total(requests) \in Nat
      /\ Working(get) \in Nat /\ Working(put) \in Nat
  BY CounterFacts
<1>2. /\ metrics'.blocks \in Nat /\ Total(requests') \in Nat
      /\ Working(get)' \in Nat /\ Working(put)' \in Nat
  BY CounterFactsNext
<1>3. QED  BY <1>1, <1>2

LEMMA UnitTaken ==
  ASSUME IInv, IInv', CountsInv, requests # <<>>, requests' = Tail(requests),
         NEW unit, unit = Head(requests),
         UNCHANGED <<disk, asked>>,
         metrics'.reads + InProgress(get)' = metrics.reads + InProgress(get) + One(unit, "get"),
         metrics'.writes + InProgress(put)' = metrics.writes + InProgress(put) + One(unit, "put"),
         metrics'.blocks + Working(get)' + Working(put)'
           = metrics.blocks + Working(get) + Working(put) + Asks(unit)
  PROVE  CountsInv'
<1> SUFFICES ASSUME disk = "running" PROVE CountsInv'
  BY DEF CountsInv
<1>1. /\ Total(requests) = Total(requests') + Asks(unit)
      /\ \A kind : Cardinality(OfKind(requests, kind))
                     = Cardinality(OfKind(requests', kind)) + One(unit, kind)
  BY CounterFacts, TailCounts
<1>2. /\ Cardinality(OfKind(requests, "get")) = Cardinality(OfKind(requests', "get")) + One(unit, "get")
      /\ Cardinality(OfKind(requests, "put")) = Cardinality(OfKind(requests', "put")) + One(unit, "put")
  BY <1>1
<1>3. unit \in PipeUnits
  BY CounterFacts, SequenceTail, PipeFacts
<1>4. Asks(unit) \in Nat /\ One(unit, "get") \in Nat /\ One(unit, "put") \in Nat
  BY <1>3, AsksType DEF One
<1>5. /\ asked.reads = metrics.reads + Cardinality(OfKind(requests, "get")) + InProgress(get)
      /\ asked.writes = metrics.writes + Cardinality(OfKind(requests, "put")) + InProgress(put)
      /\ asked.blocks = metrics.blocks + Total(requests) + Working(get) + Working(put)
  BY DEF CountsInv
<1>6. asked.reads = metrics'.reads + Cardinality(OfKind(requests', "get")) + InProgress(get)'
  BY <1>2, <1>4, <1>5, ReadsMove, Zenon
<1>7. asked.writes = metrics'.writes + Cardinality(OfKind(requests', "put")) + InProgress(put)'
  BY <1>2, <1>4, <1>5, WritesMove, Zenon
<1>8. asked.blocks = metrics'.blocks + Total(requests') + Working(get)' + Working(put)'
  BY <1>1, <1>4, <1>5, BlocksMove, Zenon
<1>9. asked' = asked
  OBVIOUS
<1>10. QED  BY <1>6, <1>7, <1>8, <1>9 DEF CountsInv

\* A block of a job is done: the job goes on, or it is counted.
LEMMA BlockDone ==
  ASSUME metrics \in Counters, NEW job \in Jobs, job.left > 0,
         NEW kind \in {"reads", "writes"}, NEW other \in {"reads", "writes"}, kind # other,
         Account(kind, job)
  PROVE  /\ metrics'[kind] + InProgress(Advance(job)) = metrics[kind] + InProgress(job)
         /\ metrics'[other] = metrics[other]
         /\ metrics'.blocks + Working(Advance(job)) = metrics.blocks + Working(job)
<1>1. job.left \in Nat /\ job.count \in Nat /\ metrics[kind] \in Nat /\ metrics.blocks \in Nat
  BY DEF Jobs, Counters
<1>2. Advance(job).left = job.left - 1 /\ Advance(job).count = job.count
  BY AdvanceIs
<1>3. CASE job.left > 1
  <2>1. metrics' = metrics
    BY <1>3 DEF Account
  <2>2. Advance(job).left > 0
    BY <1>1, <1>2, <1>3
  <2>3. QED  BY <1>2, <2>1, <2>2 DEF InProgress, Working
<1>4. CASE ~(job.left > 1)
  <2>1. metrics' = [metrics EXCEPT ![kind] = metrics[kind] + 1, !.blocks = metrics.blocks + job.count]
    BY <1>4 DEF Account, Counters
  <2>2. ~(Advance(job).left > 0)
    BY <1>1, <1>2, <1>4
  <2>3. metrics'[kind] = metrics[kind] + 1
    BY <2>1 DEF Counters
  <2>4. metrics'[other] = metrics[other]
    BY <2>1 DEF Counters
  <2>5. metrics'.blocks = metrics.blocks + job.count
    BY <2>1 DEF Counters
  <2>6. InProgress(Advance(job)) = 0 /\ Working(Advance(job)) = 0
        /\ InProgress(job) = 1 /\ Working(job) = job.count
    BY <2>2 DEF InProgress, Working
  <2>7. metrics[kind] + 1 + 0 = metrics[kind] + 1 /\ metrics.blocks + job.count + 0 = metrics.blocks + job.count
    BY <1>1
  <2>8. QED  BY <2>3, <2>4, <2>5, <2>6, <2>7
<1>5. QED  BY <1>3, <1>4

LEMMA CommandCounted ==
  ASSUME IInv, CountsInv, CallNumber \/ CallRead \/ CallWrite
  PROVE  CountsInv'
<1>1. UNCHANGED <<disk, metrics, put, get>>
  BY DEF CallNumber, CallRead, CallWrite, Send, diskVars
<1>2. CASE CallNumber
  <2>1. PICK request \in Questions : requests' = Append(requests, request) /\ asked' = asked
    BY <1>2, NumberIsCalled DEF CallNumber, Send
  <2>2. request \in PipeUnits /\ request.kind = "number"
    BY DEF PipeUnits, Questions
  <2>3. /\ One(request, "get") = 0 /\ One(request, "put") = 0 /\ Asks(request) = 0
    BY <2>2 DEF One, Asks
  <2>4. /\ asked.reads = asked.reads + 0 /\ asked.writes = asked.writes + 0
        /\ asked.blocks = asked.blocks + 0
    BY CounterFacts
  <2>5. QED  BY <1>1, <2>1, <2>2, <2>3, <2>4, UnitAdded
<1>3. CASE CallRead
  <2>1. PICK first \in Nat, last \in Nat :
          /\ first <= last
          /\ Send("reading", Request("get", first, last - first + 1))
          /\ asked' = [asked EXCEPT !.reads = @ + 1, !.blocks = @ + last - first + 1]
    BY <1>3, ReadIsCalled
  <2> DEFINE request == Request("get", first, last - first + 1)
  <2>2. requests' = Append(requests, request)
    BY <2>1 DEF Send
  <2>3. last - first + 1 \in Nat \ {0}
    BY <2>1
  <2>4. /\ request \in PipeUnits
        /\ One(request, "get") = 1 /\ One(request, "put") = 0 /\ Asks(request) = last - first + 1
    BY <2>3 DEF Request, PipeUnits, Commands, One, Asks
  <2>5. /\ asked'.reads = asked.reads + 1 /\ asked'.writes = asked.writes + 0
        /\ asked'.blocks = asked.blocks + (last - first + 1)
    <3>1. asked \in Counters /\ asked.reads \in Nat /\ asked.writes \in Nat /\ asked.blocks \in Nat
      BY DEF IInv, TypeInv, Counters
    <3>2. asked'.reads = asked.reads + 1
      BY <2>1, <3>1 DEF Counters
    <3>3. asked'.writes = asked.writes
      BY <2>1, <3>1 DEF Counters
    <3>4. asked'.blocks = asked.blocks + last - first + 1
      BY <2>1, <3>1 DEF Counters
    <3>5. QED  BY <2>1, <3>1, <3>2, <3>3, <3>4
  <2> HIDE DEF request
  <2>6. QED  BY <1>1, <2>2, <2>4, <2>5, UnitAdded
<1>4. CASE CallWrite
  <2>1. PICK first \in Scratch, last \in Scratch :
          /\ first <= last
          /\ Send("writing", Request("put", first, last - first + 1))
          /\ asked' = [asked EXCEPT !.writes = @ + 1, !.blocks = @ + last - first + 1]
    BY <1>4, WriteIsCalled
  <2> DEFINE request == Request("put", first, last - first + 1)
  <2>2. requests' = Append(requests, request)
    BY <2>1 DEF Send
  <2>3. last - first + 1 \in Nat \ {0} /\ first \in Nat /\ last \in Nat
    <3>1. anon_start_index \in Nat /\ ScratchBlocks \in Nat
      BY <1>4, WriteIsCalled
    <3>2. QED  BY <2>1, <3>1 DEF Scratch
  <2>4. /\ request \in PipeUnits
        /\ One(request, "get") = 0 /\ One(request, "put") = 1 /\ Asks(request) = last - first + 1
    BY <2>3 DEF Request, PipeUnits, Commands, One, Asks
  <2>5. /\ asked'.reads = asked.reads + 0 /\ asked'.writes = asked.writes + 1
        /\ asked'.blocks = asked.blocks + (last - first + 1)
    <3>1. asked \in Counters /\ asked.reads \in Nat /\ asked.writes \in Nat /\ asked.blocks \in Nat
      BY DEF IInv, TypeInv, Counters
    <3>2. asked'.reads = asked.reads
      BY <2>1, <3>1 DEF Counters
    <3>3. asked'.writes = asked.writes + 1
      BY <2>1, <3>1 DEF Counters
    <3>4. asked'.blocks = asked.blocks + last - first + 1
      BY <2>1, <3>1 DEF Counters
    <3>5. QED  BY <2>3, <3>1, <3>2, <3>3, <3>4
  <2> HIDE DEF request
  <2>6. QED  BY <1>1, <2>2, <2>4, <2>5, UnitAdded
<1>5. QED  BY <1>2, <1>3, <1>4

LEMMA CommandTaken ==
  ASSUME IInv, IInv', CountsInv, ReadCommand
  PROVE  CountsInv'
<1> DEFINE request == Head(requests)
<1>1. /\ put.left = 0 /\ get.left = 0 /\ requests # <<>>
      /\ request.kind \in {"put", "get"} /\ requests' = Tail(requests)
      /\ request.kind = "put" => put' = Job(request) /\ get' = get
      /\ request.kind # "put" => get' = Job(request) /\ put' = put
      /\ UNCHANGED <<disk, asked, metrics>>
  BY DEF ReadCommand, Ready, clientVars
<1>2. request \in PipeUnits
  BY <1>1, CounterFacts, SequenceTail, PipeFacts
<1>a. request = Head(requests)
  OBVIOUS
<1> HIDE DEF request
<1>3. request.count \in Nat \ {0} /\ Asks(request) = request.count
  BY <1>1, <1>2, PipeUnit DEF Asks
<1>4. Job(request).left = request.count /\ Job(request).count = request.count
  BY DEF Job
<1>5. /\ InProgress(Job(request)) = 1 /\ Working(Job(request)) = request.count
      /\ InProgress(put) = 0 /\ Working(put) = 0 /\ InProgress(get) = 0 /\ Working(get) = 0
  BY <1>1, <1>3, <1>4 DEF InProgress, Working
<1>6. CASE request.kind = "put"
  <2>1. /\ InProgress(put)' = 1 /\ Working(put)' = request.count
        /\ InProgress(get)' = 0 /\ Working(get)' = 0
    BY <1>1, <1>5, <1>6 DEF InProgress, Working
  <2>2. One(request, "put") = 1 /\ One(request, "get") = 0
    BY <1>6 DEF One
  <2>3. /\ metrics'.reads + InProgress(get)' = metrics.reads + InProgress(get) + One(request, "get")
        /\ metrics'.writes + InProgress(put)' = metrics.writes + InProgress(put) + One(request, "put")
    BY <1>1, <1>5, <2>1, <2>2, CounterFacts
  <2>4. metrics'.blocks + Working(get)' + Working(put)'
          = metrics.blocks + Working(get) + Working(put) + Asks(request)
    BY <1>1, <1>3, <1>5, <2>1, CounterFacts
  <2>5. QED  BY <1>1, <1>a, <2>3, <2>4, UnitTaken
<1>7. CASE request.kind = "get"
  <2>1. /\ InProgress(get)' = 1 /\ Working(get)' = request.count
        /\ InProgress(put)' = 0 /\ Working(put)' = 0
    BY <1>1, <1>5, <1>7 DEF InProgress, Working
  <2>2. One(request, "put") = 0 /\ One(request, "get") = 1
    BY <1>7 DEF One
  <2>3. /\ metrics'.reads + InProgress(get)' = metrics.reads + InProgress(get) + One(request, "get")
        /\ metrics'.writes + InProgress(put)' = metrics.writes + InProgress(put) + One(request, "put")
    BY <1>1, <1>5, <2>1, <2>2, CounterFacts
  <2>4. metrics'.blocks + Working(get)' + Working(put)'
          = metrics.blocks + Working(get) + Working(put) + Asks(request)
    BY <1>1, <1>3, <1>5, <2>1, CounterFacts
  <2>5. QED  BY <1>1, <1>a, <2>3, <2>4, UnitTaken
<1>8. QED  BY <1>1, <1>6, <1>7

LEMMA NumberTaken ==
  ASSUME IInv, IInv', CountsInv, AnswerNumber
  PROVE  CountsInv'
<1>1. /\ requests # <<>> /\ Head(requests).kind = "number" /\ requests' = Tail(requests)
      /\ UNCHANGED <<disk, asked, metrics, put, get>>
  BY DEF AnswerNumber, clientVars, diskVars
<1>2. /\ One(Head(requests), "get") = 0 /\ One(Head(requests), "put") = 0 /\ Asks(Head(requests)) = 0
  BY <1>1 DEF One, Asks
<1>3. /\ InProgress(get)' = InProgress(get) /\ InProgress(put)' = InProgress(put)
      /\ Working(get)' = Working(get) /\ Working(put)' = Working(put)
      /\ metrics' = metrics
  BY <1>1 DEF InProgress, Working
<1>4. /\ metrics.reads + InProgress(get) = metrics.reads + InProgress(get) + 0
      /\ metrics.writes + InProgress(put) = metrics.writes + InProgress(put) + 0
      /\ metrics.blocks + Working(get) + Working(put)
           = metrics.blocks + Working(get) + Working(put) + 0
  <2>1. \A m, n \in Nat : m + n = m + n + 0
    OBVIOUS
  <2>2. \A k, m, n \in Nat : k + m + n = k + m + n + 0
    OBVIOUS
  <2>3. metrics.reads \in Nat /\ metrics.writes \in Nat /\ metrics.blocks \in Nat
    BY CounterFacts
  <2>4. /\ InProgress(get) \in Nat /\ InProgress(put) \in Nat
        /\ Working(get) \in Nat /\ Working(put) \in Nat
    BY CounterFacts
  <2>5. QED  BY <2>1, <2>2, <2>3, <2>4
<1>5. QED  BY <1>1, <1>2, <1>3, <1>4, UnitTaken

LEMMA DataTaken ==
  ASSUME IInv, IInv', CountsInv, PutBlock
  PROVE  CountsInv'
<1>1. /\ put.left > 0 /\ requests # <<>> /\ Head(requests).kind = "data"
      /\ ~(put.next < anon_start_index)
  BY PutIsData DEF PutBlock
<1>2. /\ requests' = Tail(requests) /\ put' = Advance(put) /\ Account("writes", put)
      /\ UNCHANGED <<disk, asked, get>>
  BY <1>1 DEF PutBlock, clientVars
<1>3. /\ One(Head(requests), "get") = 0 /\ One(Head(requests), "put") = 0 /\ Asks(Head(requests)) = 0
  BY <1>1 DEF One, Asks
<1>4. /\ metrics'.writes + InProgress(Advance(put)) = metrics.writes + InProgress(put)
      /\ metrics'.reads = metrics.reads
      /\ metrics'.blocks + Working(Advance(put)) = metrics.blocks + Working(put)
  <2>1. metrics \in Counters /\ put \in Jobs
    BY DEF IInv, TypeInv
  <2>2. metrics'["writes"] = metrics'.writes /\ metrics'["reads"] = metrics'.reads
        /\ metrics["writes"] = metrics.writes /\ metrics["reads"] = metrics.reads
    OBVIOUS
  <2>3. QED  BY <1>1, <1>2, <2>1, <2>2, BlockDone
<1>5. /\ InProgress(put)' = InProgress(Advance(put)) /\ Working(put)' = Working(Advance(put))
      /\ InProgress(get)' = InProgress(get) /\ Working(get)' = Working(get)
  BY <1>2 DEF InProgress, Working
<1>6. /\ metrics'.blocks \in Nat /\ Working(Advance(put)) \in Nat
  <2>1. metrics' \in Counters /\ put' \in Jobs
    BY DEF IInv, TypeInv
  <2>2. QED  BY <1>2, <2>1 DEF Counters, Jobs, Working
<1>7. /\ metrics'.reads + InProgress(get)' = metrics.reads + InProgress(get) + One(Head(requests), "get")
      /\ metrics'.writes + InProgress(put)' = metrics.writes + InProgress(put) + One(Head(requests), "put")
  BY SMTT(30), <1>3, <1>4, <1>5, CounterFacts
<1>8. metrics'.blocks + Working(get)' + Working(put)'
        = metrics.blocks + Working(get) + Working(put) + Asks(Head(requests))
  <2>1. metrics'.blocks + Working(Advance(put)) = metrics.blocks + Working(put)
    BY <1>4
  <2>2. metrics.blocks \in Nat /\ Working(get) \in Nat /\ Working(put) \in Nat
    BY CounterFacts
  <2>3. metrics'.blocks + Working(get) + Working(Advance(put))
          = metrics.blocks + Working(get) + Working(put) + 0
    BY SMTT(30), <1>6, <2>1, <2>2
  <2>4. QED  BY <1>3, <1>5, <2>3
<1>9. QED  BY <1>1, <1>2, <1>7, <1>8, UnitTaken

LEMMA BlockSent ==
  ASSUME IInv, IInv', CountsInv, GetBlock
  PROVE  CountsInv'
<1>1. /\ get.left > 0 /\ get' = Advance(get) /\ Account("reads", get)
      /\ UNCHANGED <<disk, asked, put, requests>>
  BY DEF GetBlock, clientVars
<1>2. /\ metrics'.reads + InProgress(Advance(get)) = metrics.reads + InProgress(get)
      /\ metrics'.writes = metrics.writes
      /\ metrics'.blocks + Working(Advance(get)) = metrics.blocks + Working(get)
  <2>1. metrics \in Counters /\ get \in Jobs
    BY DEF IInv, TypeInv
  <2>2. metrics'["writes"] = metrics'.writes /\ metrics'["reads"] = metrics'.reads
        /\ metrics["writes"] = metrics.writes /\ metrics["reads"] = metrics.reads
    OBVIOUS
  <2>3. QED  BY <1>1, <2>1, <2>2, BlockDone
<1>3. /\ InProgress(get)' = InProgress(Advance(get)) /\ Working(get)' = Working(Advance(get))
      /\ InProgress(put)' = InProgress(put) /\ Working(put)' = Working(put)
  BY <1>1 DEF InProgress, Working
<1>4. /\ metrics'.blocks \in Nat /\ Working(Advance(get)) \in Nat
      /\ metrics'.reads \in Nat /\ InProgress(Advance(get)) \in Nat
  <2>1. metrics' \in Counters /\ get' \in Jobs
    BY DEF IInv, TypeInv
  <2>2. QED  BY <1>1, <2>1 DEF Counters, Jobs, Working, InProgress
<1> SUFFICES ASSUME disk = "running" PROVE CountsInv'
  BY <1>1 DEF CountsInv
<1>5. /\ asked.reads = metrics.reads + Cardinality(OfKind(requests, "get")) + InProgress(get)
      /\ asked.writes = metrics.writes + Cardinality(OfKind(requests, "put")) + InProgress(put)
      /\ asked.blocks = metrics.blocks + Total(requests) + Working(get) + Working(put)
  BY DEF CountsInv
<1>6. asked.reads = metrics'.reads + Cardinality(OfKind(requests, "get")) + InProgress(get)'
  <2>1. /\ metrics'.reads + InProgress(Advance(get)) = metrics.reads + InProgress(get)
        /\ asked.reads = metrics.reads + Cardinality(OfKind(requests, "get")) + InProgress(get)
    BY <1>2, <1>5
  <2>2. /\ metrics.reads \in Nat /\ InProgress(get) \in Nat
        /\ Cardinality(OfKind(requests, "get")) \in Nat
    BY CounterFacts
  <2>3. metrics'.reads \in Nat /\ InProgress(Advance(get)) \in Nat
    BY <1>4
  <2>4. asked.reads = metrics'.reads + Cardinality(OfKind(requests, "get")) + InProgress(Advance(get))
    BY <2>1, <2>2, <2>3
  <2>5. QED  BY <1>3, <2>4
<1>7. asked.writes = metrics'.writes + Cardinality(OfKind(requests, "put")) + InProgress(put)'
  BY <1>2, <1>3, <1>5
<1>8. asked.blocks = metrics'.blocks + Total(requests) + Working(get)' + Working(put)'
  <2>1. /\ metrics'.blocks + Working(Advance(get)) = metrics.blocks + Working(get)
        /\ asked.blocks = metrics.blocks + Total(requests) + Working(get) + Working(put)
    BY <1>2, <1>5
  <2>2. /\ metrics.blocks \in Nat /\ Total(requests) \in Nat
        /\ Working(get) \in Nat /\ Working(put) \in Nat
    BY CounterFacts
  <2>3. metrics'.blocks \in Nat /\ Working(Advance(get)) \in Nat
    BY <1>4
  <2>4. asked.blocks = metrics'.blocks + Total(requests) + Working(Advance(get)) + Working(put)
    BY <2>1, <2>2, <2>3
  <2>5. QED  BY <1>3, <2>4
<1>9. /\ asked' = asked /\ OfKind(requests, "get")' = OfKind(requests, "get")
      /\ OfKind(requests, "put")' = OfKind(requests, "put") /\ Total(requests)' = Total(requests)
  BY <1>1 DEF OfKind, Total, Counts
<1>10. QED  BY <1>6, <1>7, <1>8, <1>9 DEF CountsInv

LEMMA SentBlockCounted ==
  ASSUME IInv, CountsInv, SendBlock
  PROVE  CountsInv'
<1> DEFINE unit == BlockUnit(Head(unsent))
<1>1. /\ client = "writing" /\ requests' = Append(requests, unit)
      /\ UNCHANGED <<disk, asked, metrics, put, get>>
  BY DEF SendBlock, diskVars
<1>2. unsent # <<>> /\ unsent \in Seq(Data)
  BY <1>1 DEF IInv, TypeInv, UnsentInv
<1>3. Head(unsent) \in Data
  BY <1>2, HeadTailProperties
<1>4. unit \in PipeUnits /\ unit.kind = "data"
  BY <1>3 DEF BlockUnit, PipeUnits, DataUnits
<1> HIDE DEF unit
<1>5. /\ One(unit, "get") = 0 /\ One(unit, "put") = 0 /\ Asks(unit) = 0
  BY <1>4 DEF One, Asks
<1>6. /\ asked.reads = asked.reads + 0 /\ asked.writes = asked.writes + 0
      /\ asked.blocks = asked.blocks + 0
  BY CounterFacts
<1>7. QED  BY <1>1, <1>4, <1>5, <1>6, UnitAdded

LEMMA InitCounts == Init => CountsInv
<1> SUFFICES ASSUME Init PROVE CountsInv
  OBVIOUS
<1>1. requests = <<>> /\ asked = NothingCounted /\ metrics = NothingCounted
      /\ put = NoJob /\ get = NoJob
  BY DEF Init
<1>2. DOMAIN <<>> = {}
  BY EmptySeq
<1>3. Total(requests) = 0 /\ \A kind : OfKind(requests, kind) = {}
  BY <1>1, <1>2, SumEmpty DEF Total, OfKind
<1>4. Cardinality({}) = 0
  BY FS_EmptySet
<1>5. /\ InProgress(put) = 0 /\ InProgress(get) = 0 /\ Working(put) = 0 /\ Working(get) = 0
  BY <1>1 DEF InProgress, Working, NoJob
<1>6. /\ NothingCounted.reads = 0 /\ NothingCounted.writes = 0 /\ NothingCounted.blocks = 0
  BY DEF NothingCounted
<1>7. /\ Cardinality(OfKind(requests, "get")) = 0 /\ Cardinality(OfKind(requests, "put")) = 0
  BY <1>3, <1>4
<1>8. QED  BY <1>1, <1>3, <1>5, <1>6, <1>7 DEF CountsInv

LEMMA NextCounts == IInv /\ IInv' /\ CountsInv /\ [Next]_vars => CountsInv'
<1> SUFFICES ASSUME IInv, IInv', CountsInv, [Next]_vars PROVE CountsInv'
  OBVIOUS
<1>1. ASSUME UNCHANGED <<asked, metrics, requests, put, get, disk>>
      PROVE  CountsInv'
  BY <1>1 DEF CountsInv, OfKind, Total, Counts, InProgress, Working
<1>2. ASSUME disk' = "ended"
      PROVE  CountsInv'
  BY <1>2 DEF CountsInv
<1>3. CASE CallNumber \/ CallRead \/ CallWrite
  BY <1>3, CommandCounted
<1>4. CASE SendBlock
  BY <1>4, SentBlockCounted
<1>5. CASE ReceiveNumber \/ ReceiveBlock \/ ClientFindsDiskGone \/ ClientCloses
  BY <1>1, <1>5 DEF ReceiveNumber, ReceiveBlock, ClientFindsDiskGone, ClientCloses, diskVars
<1>6. CASE ReadCommand
  BY <1>6, CommandTaken
<1>7. CASE AnswerNumber
  BY <1>7, NumberTaken
<1>8. CASE PutBlock
  BY <1>8, DataTaken
<1>9. CASE GetBlock
  BY <1>9, BlockSent
<1>10. CASE RefuseQuestion \/ GetMissingBlock \/ DiskFindsClientGone \/ DiskFails
  BY <1>2, <1>10 DEF RefuseQuestion, GetMissingBlock, DiskFindsClientGone, DiskFails
<1>11. CASE UNCHANGED vars
  BY <1>1, <1>11 DEF vars, clientVars, diskVars
<1>12. QED
  BY <1>3, <1>4, <1>5, <1>6, <1>7, <1>8, <1>9, <1>10, <1>11 DEF Next, ClientStep, DiskStep

(* Each request of the database is in the pipe, in progress or counted,    *)
(* once and with all its blocks (MetricsAgree).                            *)
THEOREM MetricsKept == Spec => []MetricsAgree
<1>1. Init => IInv /\ CountsInv
  BY InitIInv, InitCounts
<1>2. (IInv /\ CountsInv) /\ [Next]_vars => (IInv /\ CountsInv)'
  BY NextIInv, NextCounts
<1>3. IInv /\ CountsInv => MetricsAgree
  BY CountsAgree
<1>4. QED  BY <1>1, <1>2, <1>3, PTL DEF Spec

-----------------------------------------------------------------------------
(* The block device.  Where the data in a pipe goes, as units are taken    *)
(* and appended.                                                           *)

\* Destination, WritesTo and Current, of any pipe and any put in progress.
PutsBefore(pipe, i) == {j \in 1 .. i - 1 : pipe[j].kind = "put"}
DestinationOf(pipe, job, i) ==
  IF i <= job.left THEN job.next + i - 1
  ELSE pipe[Max(PutsBefore(pipe, i))].start + i - Max(PutsBefore(pipe, i)) - 1
WritesOf(pipe, job, b) ==
  {i \in 1 .. Len(pipe) : pipe[i].kind = "data" /\ DestinationOf(pipe, job, i) = b}
Held(pipe, job, stored, b) ==
  IF WritesOf(pipe, job, b) = {} THEN stored ELSE pipe[Max(WritesOf(pipe, job, b))].data

LEMMA CurrentIs ==
  ASSUME IInv
  PROVE  Current = [b \in Blocks |-> Held(requests, put, ReadBlock(b), b)]
<1>1. DOMAIN requests = 1 .. Len(requests)
  BY PipeFacts DEF IInv, TypeInv
<1>2. \A i : Destination(i) = DestinationOf(requests, put, i)
  BY DEF Destination, DestinationOf, PutsBefore
<1>3. \A b : WritesTo(b) = WritesOf(requests, put, b)
  BY <1>1, <1>2 DEF WritesTo, WritesOf
<1>4. QED  BY <1>3 DEF Current, Held

\* A unit goes where the put in progress or the put that claims it says.
LEMMA DestinationIs ==
  ASSUME NEW pipe \in Seq(PipeUnits), NEW job \in Jobs, Framed(pipe, job.left),
         NEW i \in 1 .. Len(pipe) + 1, ~(i <= job.left), NEW j \in 1 .. Len(pipe),
         pipe[j].kind = "put", j < i, i <= j + pipe[j].count
  PROVE  DestinationOf(pipe, job, i) = pipe[j].start + i - j - 1
<1> DEFINE puts == PutsBefore(pipe, i)
<1>1. Len(pipe) \in Nat /\ pipe[j].count \in Nat
  BY PipeFacts
<1>2. puts \in SUBSET Nat /\ j \in puts
  BY <1>1 DEF PutsBefore
<1>3. ASSUME NEW k \in puts
      PROVE  k <= j
  <2>1. k \in 1 .. Len(pipe) /\ k < i /\ pipe[k].kind = "put"
    BY <1>1, <1>3 DEF PutsBefore
  <2> SUFFICES ASSUME j < k PROVE FALSE
    BY <2>1
  <2>2. k <= j + pipe[j].count
    BY <1>1, <2>1
  <2>3. Claimed(pipe, job.left, k)
    BY <2>2 DEF Claimed
  <2>4. QED  BY <2>1, <2>3 DEF Framed
<1> HIDE DEF puts
<1>4. Max(puts) = j
  BY <1>2, <1>3, GreatestIs
<1>5. QED  BY <1>4 DEF DestinationOf, puts

\* What the disk does with the first unit leaves the destinations as they are.
LEMMA TailDestination ==
  ASSUME NEW pipe \in Seq(PipeUnits), pipe # <<>>, NEW job \in Jobs, NEW job1 \in Jobs,
         Framed(pipe, job.left), job1.left = LeftAfter(pipe, job.left),
         job.left > 0 => job1.next = job.next + 1,
         pipe[1].kind = "put" => job1.next = pipe[1].start,
         NEW i \in 1 .. Len(pipe) - 1, Tail(pipe)[i].kind = "data"
  PROVE  DestinationOf(Tail(pipe), job1, i) = DestinationOf(pipe, job, i + 1)
<1>1. /\ Len(pipe) \in Nat /\ 1 \in 1 .. Len(pipe) /\ Len(Tail(pipe)) = Len(pipe) - 1
      /\ \A j \in 1 .. Len(pipe) - 1 : Tail(pipe)[j] = pipe[j + 1]
      /\ Tail(pipe) \in Seq(PipeUnits)
  BY SequenceTail
<1>2. /\ job.left \in Nat /\ job.next \in Nat /\ job1.left \in Nat /\ job1.next \in Nat
  BY DEF Jobs
<1>3. i + 1 \in 1 .. Len(pipe) /\ i \in Nat \ {0} /\ i \in 1 .. Len(Tail(pipe)) + 1
      /\ i + 1 \in 1 .. Len(pipe) + 1
  BY <1>1
<1>4. Framed(Tail(pipe), job1.left)
  BY <1>2, TailFramed
<1>5. Claimed(pipe, job.left, i + 1)
  <2>1. pipe[i + 1].kind = "data"
    BY <1>1
  <2>2. PICK k \in 1 .. Len(pipe) : k = i + 1
    BY <1>3
  <2>3. pipe[k].kind = "data" <=> Claimed(pipe, job.left, k)
    BY DEF Framed
  <2>4. QED  BY <2>1, <2>2, <2>3
<1>6. job.left > 0 => pipe[1].kind # "put"
  <2>1. pipe[1].kind = "data" <=> Claimed(pipe, job.left, 1)
    BY <1>1 DEF Framed
  <2>2. job.left > 0 => 1 <= job.left
    BY <1>2
  <2>3. QED  BY <2>1, <2>2 DEF Claimed
<1>7. \A j \in 1 .. Len(pipe) :
        pipe[j].kind = "put" => pipe[j].count \in Nat \ {0} /\ pipe[j].start \in Nat
  BY PipeFacts
<1>8. CASE i + 1 <= job.left
  <2>1. job1.left = job.left - 1 /\ job1.next = job.next + 1
    BY <1>2, <1>3, <1>8 DEF LeftAfter
  <2>2. i <= job1.left
    BY <1>2, <1>3, <1>8, <2>1
  <2>3. DestinationOf(Tail(pipe), job1, i) = job.next + 1 + i - 1
    BY <2>1, <2>2 DEF DestinationOf
  <2>4. DestinationOf(pipe, job, i + 1) = job.next + (i + 1) - 1
    BY <1>8 DEF DestinationOf
  <2>5. QED  BY <1>2, <1>3, <2>3, <2>4
<1>9. CASE ~(i + 1 <= job.left)
  <2>1. PICK j \in 1 .. Len(pipe) :
          pipe[j].kind = "put" /\ j < i + 1 /\ i + 1 <= j + pipe[j].count
    BY <1>5, <1>9 DEF Claimed
  <2>2. DestinationOf(pipe, job, i + 1) = pipe[j].start + (i + 1) - j - 1
    BY <1>3, <1>9, <2>1, DestinationIs
  <2>3. CASE j = 1
    <3>1. job1.left = pipe[1].count /\ job1.next = pipe[1].start
      BY <1>2, <1>6, <2>1, <2>3 DEF LeftAfter
    <3>2. i <= job1.left
      BY <1>3, <1>7, <2>1, <2>3, <3>1
    <3>3. DestinationOf(Tail(pipe), job1, i) = pipe[1].start + i - 1
      BY <3>1, <3>2 DEF DestinationOf
    <3>4. pipe[1].start \in Nat
      BY <1>7, <2>1, <2>3
    <3>5. QED  BY <1>3, <2>2, <2>3, <3>3, <3>4
  <2>4. CASE j # 1
    <3>1. PICK k \in 1 .. Len(pipe) - 1 : j = k + 1
      <4>1. j - 1 \in 1 .. Len(pipe) - 1 /\ j = (j - 1) + 1
        BY <1>1, <2>4
      <4>2. QED  BY <4>1
    <3>2. Tail(pipe)[k] = pipe[j] /\ k \in 1 .. Len(Tail(pipe))
      BY <1>1, <3>1
    <3>3. pipe[j].count \in Nat /\ pipe[j].start \in Nat
      BY <1>7, <2>1
    <3>4. Tail(pipe)[k].kind = "put" /\ k < i /\ i <= k + Tail(pipe)[k].count
      BY <1>3, <2>1, <3>1, <3>2, <3>3
    <3>5. ~(i <= job1.left)
      <4>1. CASE job.left > 0
        <5>1. job1.left = job.left - 1
          BY <4>1 DEF LeftAfter
        <5>2. QED  BY <1>2, <1>3, <1>9, <5>1
      <4>2. CASE ~(job.left > 0) /\ pipe[1].kind = "put"
        <5>1. job1.left = pipe[1].count
          BY <4>2 DEF LeftAfter
        <5>2. SUFFICES ASSUME i <= pipe[1].count PROVE FALSE
          BY <5>1
        <5>3. 1 < j /\ j <= 1 + pipe[1].count
          <6>1. pipe[1].count \in Nat
            BY <1>1, <1>7, <4>2
          <6>2. QED  BY <1>3, <2>1, <2>4, <5>2, <6>1
        <5>4. Claimed(pipe, job.left, j)
          BY <1>1, <4>2, <5>3 DEF Claimed
        <5>5. QED  BY <2>1, <5>4 DEF Framed
      <4>3. CASE ~(job.left > 0) /\ pipe[1].kind # "put"
        <5>1. job1.left = 0
          BY <4>3 DEF LeftAfter
        <5>2. QED  BY <1>3, <5>1
      <4>4. QED  BY <4>1, <4>2, <4>3
    <3>6. DestinationOf(Tail(pipe), job1, i) = Tail(pipe)[k].start + i - k - 1
      BY <1>1, <1>3, <1>4, <3>2, <3>4, <3>5, DestinationIs
    <3>7. QED  BY <1>3, <2>2, <3>1, <3>2, <3>3, <3>6
  <2>5. QED  BY <2>3, <2>4
<1>10. QED  BY <1>8, <1>9

\* Of the writes to a block only one at the front can be gone with a unit.
LEMMA TailWrites ==
  ASSUME NEW pipe \in Seq(PipeUnits), pipe # <<>>, NEW job \in Jobs, NEW job1 \in Jobs,
         Framed(pipe, job.left), job1.left = LeftAfter(pipe, job.left),
         job.left > 0 => job1.next = job.next + 1,
         pipe[1].kind = "put" => job1.next = pipe[1].start,
         NEW b, NEW stored, NEW stored1,
         IF pipe[1].kind = "data" /\ job.next = b THEN stored1 = pipe[1].data
                                                  ELSE stored1 = stored
  PROVE  Held(Tail(pipe), job1, stored1, b) = Held(pipe, job, stored, b)
<1> DEFINE W == WritesOf(pipe, job, b)
           W1 == WritesOf(Tail(pipe), job1, b)
<1>1. /\ Len(pipe) \in Nat /\ 1 \in 1 .. Len(pipe) /\ Len(Tail(pipe)) = Len(pipe) - 1
      /\ \A j \in 1 .. Len(pipe) - 1 : Tail(pipe)[j] = pipe[j + 1]
  BY SequenceTail
<1>2. \A i \in 1 .. Len(pipe) - 1 : i \in W1 <=> i + 1 \in W
  <2> TAKE i \in 1 .. Len(pipe) - 1
  <2>1. i + 1 \in 1 .. Len(pipe) /\ i \in 1 .. Len(Tail(pipe)) /\ Tail(pipe)[i] = pipe[i + 1]
    BY <1>1
  <2>2. CASE Tail(pipe)[i].kind = "data"
    <3>1. DestinationOf(Tail(pipe), job1, i) = DestinationOf(pipe, job, i + 1)
      BY <2>2, TailDestination
    <3>2. QED  BY <2>1, <3>1 DEF WritesOf
  <2>3. CASE Tail(pipe)[i].kind # "data"
    BY <2>1, <2>3 DEF WritesOf
  <2>4. QED  BY <2>2, <2>3
<1>3. 1 \in W <=> pipe[1].kind = "data" /\ job.next = b
  <2>1. pipe[1].kind = "data" => 1 <= job.left
    <3>1. pipe[1].kind = "data" <=> Claimed(pipe, job.left, 1)
      BY <1>1 DEF Framed
    <3>2. QED  BY <3>1 DEF Claimed
  <2>2. job.next \in Nat
    BY DEF Jobs
  <2>3. 1 <= job.left => DestinationOf(pipe, job, 1) = job.next
    BY <2>2 DEF DestinationOf
  <2>4. QED  BY <1>1, <2>1, <2>3 DEF WritesOf
<1>4. W \in SUBSET (1 .. Len(pipe)) /\ W1 \in SUBSET (1 .. Len(pipe) - 1)
  BY <1>1 DEF WritesOf
<1> HIDE DEF W, W1
<1>5. CASE W1 # {}
  <2>1. Max(W1) \in W1 /\ \A y \in W1 : y <= Max(W1)
    <3>1. W1 \in SUBSET Nat /\ \A y \in W1 : y <= Len(pipe)
      BY <1>1, <1>4
    <3>2. QED  BY <1>1, <1>5, <3>1, GreatestElement
  <2>2. PICK m \in W1 : m = Max(W1)
    BY <2>1
  <2>3. m \in 1 .. Len(pipe) - 1 /\ m + 1 \in W
    BY <1>2, <1>4
  <2>4. ASSUME NEW y \in W
        PROVE  y <= m + 1
    <3>1. CASE y = 1
      BY <1>1, <2>3, <3>1
    <3>2. CASE y # 1
      <4>1. y - 1 \in 1 .. Len(pipe) - 1 /\ (y - 1) + 1 = y
        BY <1>1, <1>4, <3>2
      <4>2. y - 1 \in W1
        BY <1>2, <4>1
      <4>3. y - 1 <= m
        BY <2>1, <2>2, <4>2
      <4>4. QED  BY <1>1, <2>3, <4>1, <4>3
    <3>3. QED  BY <3>1, <3>2
  <2>5. Max(W) = m + 1
    <3>1. W \in SUBSET Nat
      BY <1>1, <1>4
    <3>2. QED  BY <2>3, <2>4, <3>1, GreatestIs
  <2>6. Tail(pipe)[m] = pipe[m + 1]
    BY <1>1, <2>3
  <2>7. W # {}
    BY <2>3
  <2>8. QED  BY <1>5, <2>2, <2>5, <2>6, <2>7 DEF Held, W, W1
<1>6. CASE W1 = {}
  <2>1. \A y \in W : y = 1
    <3> SUFFICES ASSUME NEW y \in W, y # 1 PROVE FALSE
      OBVIOUS
    <3>1. y - 1 \in 1 .. Len(pipe) - 1 /\ (y - 1) + 1 = y
      BY <1>1, <1>4
    <3>2. QED  BY <1>2, <1>6, <3>1
  <2>2. CASE 1 \in W
    <3>1. Max(W) = 1
      <4>1. W \in SUBSET Nat /\ \A y \in W : y <= 1
        BY <1>1, <1>4, <2>1
      <4>2. QED  BY <2>2, <4>1, GreatestIs
    <3>2. QED  BY <1>3, <1>6, <2>2, <3>1 DEF Held, W, W1
  <2>3. CASE 1 \notin W
    <3>1. W = {}
      BY <2>1, <2>3
    <3>2. QED  BY <1>3, <1>6, <2>3, <3>1 DEF Held, W, W1
  <2>4. QED  BY <2>2, <2>3
<1>7. QED  BY <1>5, <1>6

\* Where a unit goes does not depend on what comes behind it.
LEMMA AppendDestination ==
  ASSUME NEW pipe \in Seq(PipeUnits), NEW unit \in PipeUnits, NEW job \in Jobs,
         NEW i \in 1 .. Len(pipe) + 1, Claimed(pipe, job.left, i)
  PROVE  DestinationOf(Append(pipe, unit), job, i) = DestinationOf(pipe, job, i)
<1> DEFINE new == Append(pipe, unit)
           puts == PutsBefore(pipe, i)
<1>1. /\ Len(pipe) \in Nat
      /\ \A j \in 1 .. Len(pipe) : new[j] = pipe[j]
  BY AppendProperties, LenProperties
<1> HIDE DEF new
<1>2. CASE i <= job.left
  BY <1>2 DEF DestinationOf, new
<1>3. CASE ~(i <= job.left)
  <2>1. \A j \in 1 .. i - 1 : j \in 1 .. Len(pipe) /\ new[j] = pipe[j]
    BY <1>1
  <2>2. PutsBefore(new, i) = puts /\ puts \in SUBSET (1 .. Len(pipe))
    BY <2>1 DEF PutsBefore
  <2>3. puts # {}
    <3>1. PICK j \in 1 .. Len(pipe) : pipe[j].kind = "put" /\ j < i
      BY <1>3 DEF Claimed
    <3>2. j \in puts
      BY <1>1, <3>1 DEF PutsBefore
    <3>3. QED  BY <3>2
  <2> HIDE DEF puts
  <2>4. Max(puts) \in puts
    <3>1. puts \in SUBSET Nat /\ \A y \in puts : y <= Len(pipe)
      BY <1>1, <2>2
    <3>2. QED  BY <1>1, <2>3, <3>1, GreatestElement
  <2>5. new[Max(puts)] = pipe[Max(puts)]
    BY <1>1, <2>2, <2>4
  <2>6. QED  BY <1>3, <2>2, <2>5 DEF DestinationOf, new, puts
<1>4. QED  BY <1>2, <1>3

\* A unit that is appended is the last that goes where it goes.
LEMMA AppendWrites ==
  ASSUME NEW pipe \in Seq(PipeUnits), NEW unit \in PipeUnits, NEW job \in Jobs,
         Framed(pipe, job.left), unit.kind = "data" => Claimed(pipe, job.left, Len(pipe) + 1),
         NEW b, NEW stored
  PROVE  Held(Append(pipe, unit), job, stored, b)
           = IF unit.kind = "data" /\ DestinationOf(pipe, job, Len(pipe) + 1) = b
             THEN unit.data ELSE Held(pipe, job, stored, b)
<1> DEFINE new == Append(pipe, unit)
           n == Len(pipe)
           W == WritesOf(pipe, job, b)
           W1 == WritesOf(new, job, b)
<1>1. /\ n \in Nat /\ Len(new) = n + 1
      /\ \A i \in 1 .. n : new[i] = pipe[i]
      /\ new[n + 1] = unit
  BY AppendProperties, LenProperties
<1>2. \A i \in 1 .. n + 1 :
        Claimed(pipe, job.left, i) => DestinationOf(new, job, i) = DestinationOf(pipe, job, i)
  BY AppendDestination
<1> HIDE DEF new
<1>3. \A i \in 1 .. n : i \in W1 <=> i \in W
  <2> TAKE i \in 1 .. n
  <2>1. pipe[i].kind = "data" <=> Claimed(pipe, job.left, i)
    BY DEF Framed
  <2>2. i \in 1 .. n + 1 /\ new[i] = pipe[i]
    BY <1>1
  <2>3. QED  BY <1>1, <1>2, <2>1, <2>2 DEF WritesOf
<1>4. n + 1 \in W1 <=> unit.kind = "data" /\ DestinationOf(pipe, job, n + 1) = b
  <2>1. n + 1 \in 1 .. n + 1
    BY <1>1
  <2>2. QED  BY <1>1, <1>2, <2>1 DEF WritesOf
<1>5. W \in SUBSET (1 .. n) /\ W1 \in SUBSET (1 .. n + 1)
  BY <1>1 DEF WritesOf
<1> HIDE DEF W, W1
<1>6. CASE n + 1 \in W1
  <2>1. W1 \in SUBSET Nat /\ \A y \in W1 : y <= n + 1
    BY <1>1, <1>5
  <2>2. Max(W1) = n + 1
    BY <1>6, <2>1, GreatestIs
  <2>3. QED  BY <1>1, <1>4, <1>6, <2>2 DEF Held, new, W1
<1>7. CASE n + 1 \notin W1
  <2>1. W1 = W
    <3>1. \A i \in 1 .. n + 1 : i = n + 1 \/ i \in 1 .. n
      BY <1>1
    <3>2. 1 .. n \subseteq 1 .. n + 1
      BY <1>1
    <3>3. QED  BY <1>3, <1>5, <1>7, <3>1, <3>2
  <2>2. CASE W = {}
    BY <1>4, <1>7, <2>1, <2>2 DEF Held, new, W, W1
  <2>3. CASE W # {}
    <3>1. W \in SUBSET Nat /\ \A y \in W : y <= n
      BY <1>1, <1>5
    <3>2. Max(W) \in W
      BY <1>1, <2>3, <3>1, GreatestElement
    <3>3. new[Max(W)] = pipe[Max(W)]
      BY <1>1, <1>5, <3>2
    <3>4. QED  BY <1>4, <1>7, <2>1, <2>3, <3>3 DEF Held, new, W, W1
  <2>4. QED  BY <2>2, <2>3
<1>8. QED  BY <1>6, <1>7

-----------------------------------------------------------------------------
(* The steps of the protocol, as steps of the block device.                *)

\* What the client reads is on the device.
ReadsBlocks ==
  client = "reading" => call.start + call.count <= anon_start_index + ScratchBlocks

DeviceInv == IInv /\ ReadsBlocks

LEMMA BlocksAre ==
  ASSUME IInv
  PROVE  /\ Blocks \subseteq Nat /\ anon_start_index \in Nat /\ ScratchBlocks \in Nat \ {0}
         /\ 0 .. anon_start_index + ScratchBlocks - 1 \subseteq Blocks
         /\ Scratch \subseteq Blocks
<1>1. anon_start_index \in Nat /\ ScratchBlocks \in Nat \ {0}
  BY LayoutFacts, DiskProtocolAssumption DEF IInv
<1>2. anon_start_index = AnonStartIndex(FileMetadataMapping(files)) /\ files \in FileLists
  BY DEF IInv, LayoutInv
<1>3. 0 .. anon_start_index + ScratchBlocks - 1 \subseteq Blocks
  BY <1>2, DiskProtocolAssumption
<1>4. Scratch \subseteq 0 .. anon_start_index + ScratchBlocks - 1
  BY <1>1 DEF Scratch
<1>5. QED  BY <1>1, <1>3, <1>4, DiskProtocolAssumption

LEMMA ReadsStay ==
  ASSUME DeviceInv, [Next]_vars
  PROVE  ReadsBlocks'
<1>1. ASSUME client' # "reading" PROVE ReadsBlocks'
  BY <1>1 DEF ReadsBlocks
<1>2. ASSUME UNCHANGED <<client, call, anon_start_index>> PROVE ReadsBlocks'
  BY <1>2 DEF DeviceInv, ReadsBlocks
<1>3. CASE CallRead
  <2>1. PICK first \in Nat, last \in Nat :
          /\ first <= last /\ last < anon_start_index + ScratchBlocks
          /\ Send("reading", Request("get", first, last - first + 1))
    BY <1>3, ReadIsCalled DEF DeviceInv
  <2>2. /\ call' = Request("get", first, last - first + 1) /\ anon_start_index' = anon_start_index
    BY <2>1 DEF Send, diskVars, layoutVars
  <2>3. call'.start = first /\ call'.count = last - first + 1
    BY <2>2 DEF Request
  <2>4. anon_start_index \in Nat /\ ScratchBlocks \in Nat
    BY BlocksAre DEF DeviceInv
  <2>5. QED  BY <2>1, <2>2, <2>3, <2>4 DEF ReadsBlocks
<1>4. CASE CallNumber \/ CallWrite
  BY <1>1, <1>4 DEF CallNumber, CallWrite, Send
<1>5. CASE SendBlock \/ ReceiveNumber \/ ClientFindsDiskGone \/ ClientCloses
  BY <1>1, <1>5 DEF SendBlock, ReceiveNumber, ClientFindsDiskGone, ClientCloses
<1>6. CASE ReceiveBlock
  BY <1>1, <1>2, <1>6 DEF ReceiveBlock, diskVars, layoutVars
<1>7. CASE ReadCommand \/ AnswerNumber \/ RefuseQuestion \/ PutBlock \/ GetBlock \/ GetMissingBlock
           \/ DiskFindsClientGone \/ DiskFails
  BY <1>2, <1>7 DEF ReadCommand, AnswerNumber, RefuseQuestion, PutBlock, GetBlock, GetMissingBlock,
                    DiskFindsClientGone, DiskFails, clientVars, diskVars, layoutVars
<1>8. CASE UNCHANGED vars
  BY <1>2, <1>8 DEF vars, clientVars, diskVars, layoutVars
<1>9. QED
  BY <1>3, <1>4, <1>5, <1>6, <1>7, <1>8 DEF Next, ClientStep, DiskStep

LEMMA DeviceInvHolds == Spec => []DeviceInv
<1>1. Init => DeviceInv
  BY InitIInv DEF Init, DeviceInv, ReadsBlocks
<1>2. DeviceInv /\ [Next]_vars => DeviceInv'
  BY NextIInv, ReadsStay DEF DeviceInv
<1>3. QED  BY <1>1, <1>2, PTL DEF Spec

\* What is on the device stays, if no block is written or taken.
LEMMA CurrentStays ==
  ASSUME UNCHANGED <<requests, put, anon_pages>>, UNCHANGED layoutVars
  PROVE  Current' = Current
BY DEF Current, WritesTo, Destination, ReadBlock, layoutVars

LEMMA CurrentNext ==
  ASSUME IInv'
  PROVE  Current' = [b \in Blocks |-> Held(requests', put', ReadBlock(b)', b)]
<1>1. DOMAIN requests' = 1 .. Len(requests')
  BY PipeFacts DEF IInv, TypeInv
<1>2. \A i : Destination(i)' = DestinationOf(requests', put', i)
  BY DEF Destination, DestinationOf, PutsBefore
<1>3. \A b : WritesTo(b)' = WritesOf(requests', put', b)
  BY <1>1, <1>2 DEF WritesTo, WritesOf
<1>4. QED  BY <1>3 DEF Current, Held

\* The disk takes a unit: what it was to do with it is on the device before and after.
LEMMA CurrentTaken ==
  ASSUME IInv, IInv', requests # <<>>, requests' = Tail(requests),
         put'.left = LeftAfter(requests, put.left),
         put.left > 0 => put'.next = put.next + 1,
         requests[1].kind = "put" => put'.next = requests[1].start,
         \A b \in Blocks : IF requests[1].kind = "data" /\ put.next = b
                           THEN ReadBlock(b)' = requests[1].data
                           ELSE ReadBlock(b)' = ReadBlock(b)
  PROVE  Current' = Current
<1>1. Current = [b \in Blocks |-> Held(requests, put, ReadBlock(b), b)]
  BY CurrentIs
<1>2. Current' = [b \in Blocks |-> Held(requests', put', ReadBlock(b)', b)]
  BY CurrentNext
<1>3. /\ requests \in Seq(PipeUnits) /\ put \in Jobs /\ put' \in Jobs
      /\ Framed(requests, put.left)
  BY DEF IInv, TypeInv, PipeInv
<1>4. ASSUME NEW b \in Blocks
      PROVE  Held(requests', put', ReadBlock(b)', b) = Held(requests, put, ReadBlock(b), b)
  BY <1>3, <1>4, TailWrites
<1>5. QED  BY <1>1, <1>2, <1>4

\* A command is sent: nothing is on the device that was not.
LEMMA CurrentCommand ==
  ASSUME IInv, IInv', NEW unit \in PipeUnits, unit.kind # "data",
         requests' = Append(requests, unit), UNCHANGED <<put, anon_pages>>, UNCHANGED layoutVars
  PROVE  Current' = Current
<1>1. Current = [b \in Blocks |-> Held(requests, put, ReadBlock(b), b)]
  BY CurrentIs
<1>2. Current' = [b \in Blocks |-> Held(requests', put, ReadBlock(b), b)]
  <2>1. \A b : ReadBlock(b)' = ReadBlock(b)
    BY DEF ReadBlock, layoutVars
  <2>2. QED  BY <2>1, CurrentNext
<1>3. /\ requests \in Seq(PipeUnits) /\ put \in Jobs /\ Framed(requests, put.left)
  BY DEF IInv, TypeInv, PipeInv
<1>4. ASSUME NEW b \in Blocks
      PROVE  Held(requests', put, ReadBlock(b), b) = Held(requests, put, ReadBlock(b), b)
  BY <1>3, AppendWrites
<1>5. QED  BY <1>1, <1>2, <1>4

\* Data goes to scratch blocks.
LEMMA DestinationInScratch ==
  ASSUME IInv, NEW i \in 1 .. Len(requests) + 1, Claimed(requests, put.left, i)
  PROVE  DestinationOf(requests, put, i) \in Scratch
<1>1. /\ requests \in Seq(PipeUnits) /\ put \in Jobs /\ Framed(requests, put.left)
      /\ PutsBetween(requests, anon_start_index, anon_start_index + ScratchBlocks)
      /\ put.left > 0 =>
           anon_start_index <= put.next /\ put.next + put.left <= anon_start_index + ScratchBlocks
  BY DEF IInv, TypeInv, PipeInv
<1>2. /\ anon_start_index \in Nat /\ ScratchBlocks \in Nat
      /\ Len(requests) \in Nat /\ put.left \in Nat /\ put.next \in Nat
  BY <1>1, BlocksAre, TypeFacts DEF IInv
<1>3. CASE i <= put.left
  <2>1. DestinationOf(requests, put, i) = put.next + i - 1
    BY <1>3 DEF DestinationOf
  <2>2. anon_start_index <= put.next /\ put.next + put.left <= anon_start_index + ScratchBlocks
    BY <1>1, <1>2, <1>3
  <2>3. put.next + i - 1 \in Scratch
    BY <1>2, <1>3, <2>2 DEF Scratch
  <2>4. QED  BY <2>1, <2>3
<1>4. CASE ~(i <= put.left)
  <2>1. PICK j \in 1 .. Len(requests) :
          requests[j].kind = "put" /\ j < i /\ i <= j + requests[j].count
    BY <1>4 DEF Claimed
  <2>2. requests[j].start \in Nat /\ requests[j].count \in Nat
    BY <1>1, <2>1, PipeFacts
  <2>3. /\ anon_start_index <= requests[j].start
        /\ requests[j].start + requests[j].count <= anon_start_index + ScratchBlocks
    BY <1>1, <2>1 DEF PutsBetween
  <2>4. DestinationOf(requests, put, i) = requests[j].start + i - j - 1
    BY <1>1, <1>4, <2>1, DestinationIs
  <2>5. requests[j].start + i - j - 1 \in Scratch
    <3>1. PICK k \in Nat : i = j + k + 1
      <4>1. i - j - 1 \in Nat /\ i = j + (i - j - 1) + 1
        BY <1>2, <2>1
      <4>2. QED  BY <4>1
    <3>2. j \in Nat /\ k < requests[j].count
      BY <1>2, <2>1, <2>2, <3>1
    <3>3. requests[j].start + i - j - 1 = requests[j].start + k
      BY <2>2, <3>1, <3>2
    <3>4. requests[j].start + k \in Scratch
      BY SMTT(30), <1>2, <2>2, <2>3, <3>2 DEF Scratch
    <3>5. QED  BY <3>3, <3>4
  <2>6. QED  BY <2>4, <2>5
<1>5. QED  BY <1>3, <1>4

\* A block is on the device from when the client has written it to the pipe.
LEMMA BlockWritten ==
  ASSUME IInv, IInv', SendBlock
  PROVE  \E b \in Blocks, data \in Data : Written!WriteBlock(b, data)
<1> DEFINE unit == BlockUnit(Head(unsent))
           b == DestinationOf(requests, put, Len(requests) + 1)
           data == Head(unsent)
<1>1. /\ client = "writing" /\ requests' = Append(requests, unit)
      /\ UNCHANGED <<result, put, anon_pages, anon_start_index>> /\ UNCHANGED layoutVars
  BY DEF SendBlock, diskVars, layoutVars
<1>2. data \in Data
  <2>1. unsent # <<>> /\ unsent \in Seq(Data)
    BY <1>1 DEF IInv, TypeInv, UnsentInv
  <2>2. QED  BY <2>1, HeadTailProperties
<1>3. unit \in PipeUnits /\ unit.kind = "data" /\ unit.data = data
  BY <1>2 DEF BlockUnit, PipeUnits, DataUnits
<1>4. Claimed(requests, put.left, Len(requests) + 1)
  BY NextIsClaimed
<1>5. b \in Scratch /\ b \in Blocks /\ b >= anon_start_index
  <2>1. Len(requests) + 1 \in 1 .. Len(requests) + 1
    BY TypeFacts DEF IInv
  <2>2. b \in Scratch
    BY <1>4, <2>1, DestinationInScratch
  <2>3. QED  BY <2>2, BlocksAre DEF Scratch
<1>6. /\ requests \in Seq(PipeUnits) /\ put \in Jobs /\ Framed(requests, put.left)
  BY DEF IInv, TypeInv, PipeInv
<1> HIDE DEF unit, b, data
<1>7. Current = [c \in Blocks |-> Held(requests, put, ReadBlock(c), c)]
  BY CurrentIs
<1>8. Current' = [c \in Blocks |-> Held(requests', put, ReadBlock(c), c)]
  <2>1. \A c : ReadBlock(c)' = ReadBlock(c)
    BY <1>1 DEF ReadBlock, layoutVars
  <2>2. QED  BY <1>1, <2>1, CurrentNext
<1>9. ASSUME NEW c \in Blocks
      PROVE  Held(requests', put, ReadBlock(c), c)
               = IF b = c THEN data ELSE Held(requests, put, ReadBlock(c), c)
  <2>1. Held(Append(requests, unit), put, ReadBlock(c), c)
          = IF unit.kind = "data" /\ DestinationOf(requests, put, Len(requests) + 1) = c
            THEN unit.data ELSE Held(requests, put, ReadBlock(c), c)
    BY <1>3, <1>4, <1>6, AppendWrites
  <2>2. QED  BY <1>1, <1>3, <2>1 DEF b
<1>10. Current' = [Current EXCEPT ![b] = data]
  BY <1>5, <1>7, <1>8, <1>9
<1>11. Written!WriteBlock(b, data)
  BY <1>1, <1>5, <1>10 DEF Written!WriteBlock
<1>12. QED  BY <1>2, <1>5, <1>11

\* A read that returns has read what is on the device.
LEMMA BlocksRead ==
  ASSUME DeviceInv, IInv', ReceiveBlock, Len(buf) + 1 = call.count
  PROVE  \E first, last \in Blocks : first <= last /\ Written!ReadBlocks(first, last - first + 1)
<1> DEFINE last == call.start + call.count - 1
<1>1. /\ client = "reading" /\ replies # <<>> /\ result' = Append(buf, Head(replies).data)
      /\ UNCHANGED <<requests, put, anon_pages, anon_start_index>> /\ UNCHANGED layoutVars
  BY DEF ReceiveBlock, diskVars, layoutVars
<1>2. /\ call \in Commands /\ ReadGoesOn
      /\ replies \in Seq(Replies) /\ buf \in Seq(Contents)
  BY <1>1 DEF DeviceInv, IInv, TypeInv, ReadingInv, ReadWaits
<1>3. /\ call.start \in Nat /\ call.count \in Nat \ {0} /\ Len(buf) \in Nat /\ Len(replies) \in Nat
      /\ 1 \in 1 .. Len(replies) /\ Head(replies) = replies[1]
  BY <1>1, <1>2, LenProperties, SequenceTail DEF Commands
<1>4. /\ \A i \in 1 .. Len(buf) : buf[i] = Stored[call.start + i - 1] /\ buf[i] # NoData
      /\ Head(replies) = BlockUnit(Stored[call.start + Len(buf) + 1 - 1])
      /\ Head(replies).data # NoData
  BY <1>2, <1>3 DEF ReadGoesOn
<1>5. Head(replies).data = Stored[call.start + Len(buf) + 1 - 1]
  BY <1>4 DEF BlockUnit
<1>6. /\ call.start \in Blocks /\ last \in Blocks
      /\ call.start <= last /\ last - call.start + 1 = call.count
      /\ call.start .. last \subseteq Blocks
  <2>1. call.start + call.count <= anon_start_index + ScratchBlocks
    BY <1>1 DEF DeviceInv, ReadsBlocks
  <2>2. /\ 0 .. anon_start_index + ScratchBlocks - 1 \subseteq Blocks
        /\ anon_start_index \in Nat /\ ScratchBlocks \in Nat
    BY BlocksAre DEF DeviceInv
  <2>3. call.start .. last \subseteq 0 .. anon_start_index + ScratchBlocks - 1
    BY <1>3, <2>1, <2>2
  <2>4. call.start \in call.start .. last /\ last \in call.start .. last
    BY <1>3
  <2>5. call.start <= last /\ last - call.start + 1 = call.count
    BY <1>3
  <2>6. QED  BY <2>2, <2>3, <2>4, <2>5
<1>7. ASSUME NEW b \in Blocks PROVE Current[b] = Stored[b]
  <2>1. requests = <<>> /\ Len(requests) = 0
    BY <1>2, EmptySeq DEF ReadGoesOn
  <2>2. WritesOf(requests, put, b) = {}
    BY <2>1 DEF WritesOf
  <2>3. Current[b] = ReadBlock(b)
    BY <1>7, <2>2, CurrentIs DEF Held, DeviceInv
  <2>4. b \in Nat
    BY <1>7, BlocksAre DEF DeviceInv
  <2>5. QED  BY <2>3, <2>4 DEF Stored
<1>8. \A i \in 1 .. call.count : result'[i] = Stored[call.start + i - 1] /\ result'[i] # NoData
  <2>1. /\ Len(result') = Len(buf) + 1 /\ result'[Len(buf) + 1] = Head(replies).data
        /\ \A i \in 1 .. Len(buf) : result'[i] = buf[i]
    <3>1. Head(replies).data \in Contents
      <4>1. Head(replies) \in Replies
        BY <1>2, <1>3, ElementOfSeq
      <4>2. Head(replies).kind = "data"
        BY <1>4 DEF BlockUnit
      <4>3. QED  BY <4>1, <4>2 DEF Replies
    <3>2. QED  BY <1>1, <1>2, <3>1, AppendProperties
  <2>2. \A i \in 1 .. call.count : i \in 1 .. Len(buf) \/ i = Len(buf) + 1
    BY <1>3
  <2>3. ASSUME NEW i \in 1 .. call.count
        PROVE  result'[i] = Stored[call.start + i - 1] /\ result'[i] # NoData
    <3>1. CASE i \in 1 .. Len(buf)
      BY <1>4, <2>1, <3>1
    <3>2. CASE i = Len(buf) + 1
      <4>1. result'[i] = Head(replies).data
        BY <2>1, <3>2
      <4>2. call.start + i - 1 = call.start + Len(buf) + 1 - 1
        BY <1>3, <3>2
      <4>3. QED  BY <1>4, <1>5, <4>1, <4>2
    <3>3. QED  BY <2>2, <3>1, <3>2
  <2>4. QED  BY <2>3
<1>9. result' \in Seq(Contents) /\ Len(result') = call.count
  <2>1. result' \in Seq(Contents)
    BY DEF IInv, TypeInv
  <2>2. Len(result') = Len(buf) + 1
    BY <1>1, <1>2, LenProperties
  <2>3. QED  BY <2>1, <2>2
<1>10. \A i \in 1 .. call.count : call.start + i - 1 \in call.start .. last
  BY <1>3
<1> HIDE DEF last
<1>11. \A b \in call.start .. last : Current[b] # NoData
  <2> TAKE b \in call.start .. last
  <2>1. Current[b] = Stored[b]
    BY <1>6, <1>7
  <2>2. PICK i \in 1 .. call.count : b = call.start + i - 1
    <3>1. b - call.start + 1 \in 1 .. call.count /\ b = call.start + (b - call.start + 1) - 1
      BY <1>3 DEF last
    <3>2. QED  BY <3>1
  <2>3. QED  BY <1>8, <2>1, <2>2
<1>12. result' = [i \in 1 .. call.count |-> Current[call.start + i - 1]]
  <2>1. \A i \in 1 .. call.count : result'[i] = Current[call.start + i - 1]
    <3> TAKE i \in 1 .. call.count
    <3>1. call.start + i - 1 \in Blocks
      BY <1>6, <1>10
    <3>2. Current[call.start + i - 1] = Stored[call.start + i - 1]
      BY <1>7, <3>1
    <3>3. QED  BY <1>8, <3>2
  <2>2. result' = [i \in 1 .. call.count |-> result'[i]]
    <3>1. DOMAIN result' = 1 .. call.count
      BY <1>9, LenProperties
    <3>2. result' = [i \in DOMAIN result' |-> result'[i]]
      BY <1>9, LenProperties
    <3>3. QED  BY <3>1, <3>2
  <2>3. QED  BY <2>1, <2>2
<1>13. Current' = Current
  BY <1>1, CurrentStays
<1>14. Written!ReadBlocks(call.start, call.count)
  <2>1. call.start .. call.start + call.count - 1 = call.start .. last
    BY DEF last
  <2>2. QED  BY <1>1, <1>11, <1>12, <1>13, <2>1 DEF Written!ReadBlocks
<1>15. QED  BY <1>6, <1>14

\* Before anything is written, the device holds the files.
LEMMA InitDevice == Init => Written!Init
<1> SUFFICES ASSUME Init PROVE Written!Init
  OBVIOUS
<1>1. IInv
  BY InitIInv
<1>2. /\ anon_start_index \in Nat /\ Blocks \subseteq Nat /\ files \in FileLists
  BY <1>1, BlocksAre DEF IInv, LayoutInv
<1>3. ASSUME NEW b \in Blocks PROVE Current[b] = ReadBlock(b)
  <2>1. requests = <<>> /\ Len(requests) = 0
    BY EmptySeq DEF Init
  <2>2. WritesOf(requests, put, b) = {}
    BY <2>1 DEF WritesOf
  <2>3. QED  BY <1>1, <1>3, <2>2, CurrentIs DEF Held
<1>4. ASSUME NEW b \in Blocks, b >= anon_start_index PROVE ReadBlock(b) = NoData
  BY <1>4 DEF Init, ReadBlock
<1>5. ASSUME NEW b \in Blocks, ~(b >= anon_start_index) PROVE ReadBlock(b) \in FileBlocks \cup {NoData}
  <2> DEFINE ids == FileIds(file_metadata_mapping, b)
             id == CHOOSE i \in ids : TRUE
             metadata == file_metadata_mapping[id]
  <2>1. CASE ids = {}
    BY <1>5, <2>1 DEF ReadBlock
  <2>2. CASE ids # {}
    <3>1. id \in DOMAIN file_metadata_mapping /\ b \in Region(metadata)
      <4>1. id \in ids
        BY <2>2
      <4>2. QED  BY <4>1 DEF FileIds
    <3>2. PICK position : MappingOf(file_metadata_mapping, position, files, Len(files))
      BY <1>1, LayoutFacts DEF IInv
    <3> HIDE DEF id
    <3>3. /\ metadata.file \in DOMAIN files /\ metadata.start_block \in Nat /\ metadata.num_blocks \in Nat
          /\ metadata.num_blocks = files[metadata.file].size \div BlockSize
      <4>1. metadata.file \in 1 .. Len(files)
            /\ metadata.start_block \in Nat /\ metadata.num_blocks \in Nat
            /\ metadata.num_blocks = files[metadata.file].size \div BlockSize
        BY <3>1, <3>2 DEF MappingOf
      <4>2. DOMAIN files = 1 .. Len(files)
        BY <1>1, LayoutFacts DEF IInv
      <4>3. QED  BY <4>1, <4>2
    <3>4. b - metadata.start_block \in 0 .. metadata.num_blocks - 1
      BY <1>2, <3>1, <3>3 DEF Region
    <3>5. ReadBlock(b) = FileBlock(metadata.file, b - metadata.start_block)
      BY <1>5, <2>2 DEF ReadBlock, id
    <3> HIDE DEF metadata
    <3>6. FileBlock(metadata.file, b - metadata.start_block) \in FileBlocks
      BY <1>2, <3>3, <3>4 DEF FileBlocks
    <3>7. QED  BY <3>5, <3>6
  <2>3. QED  BY <2>1, <2>2
<1>6. Current \in [Blocks -> FileBlocks \cup {NoData}]
  <2>1. \A b \in Blocks : Current[b] \in FileBlocks \cup {NoData}
    BY <1>3, <1>4, <1>5
  <2>2. Current = [b \in Blocks |-> Current[b]]
    BY <1>1, CurrentIs
  <2>3. QED  BY <2>1, <2>2
<1>7. \A b \in Blocks : b >= anon_start_index => Current[b] = NoData
  BY <1>3, <1>4
<1>8. result = <<>>
  BY DEF Init
<1>9. QED  BY <1>2, <1>6, <1>7, <1>8 DEF Written!Init

\* A command or a question is taken: it is no data.
LEMMA CommandChangesNothing ==
  ASSUME IInv, IInv', ReadCommand \/ AnswerNumber \/ RefuseQuestion
  PROVE  Current' = Current
<1>1. /\ Ready /\ requests # <<>> /\ Head(requests).kind \in {"put", "get", "number"}
      /\ requests' = Tail(requests)
      /\ IF Head(requests).kind = "put" THEN put' = Job(Head(requests)) ELSE UNCHANGED put
      /\ UNCHANGED anon_pages /\ UNCHANGED layoutVars
  BY DEF ReadCommand, AnswerNumber, RefuseQuestion, clientVars, diskVars
<1>2. Head(requests) = requests[1] /\ 1 \in 1 .. Len(requests)
  BY <1>1, SequenceTail DEF IInv, TypeInv
<1>3. put.left = 0
  BY <1>1 DEF Ready
<1>4. Job(requests[1]).left = requests[1].count /\ Job(requests[1]).next = requests[1].start
  BY DEF Job
<1>5. put'.left = LeftAfter(requests, put.left)
  BY <1>1, <1>2, <1>3, <1>4 DEF LeftAfter
<1>6. requests[1].kind = "put" => put'.next = requests[1].start
  BY <1>1, <1>2, <1>4
<1>7. \A b \in Blocks : ReadBlock(b)' = ReadBlock(b)
  BY <1>1 DEF ReadBlock, layoutVars
<1>8. requests[1].kind # "data"
  BY <1>1, <1>2
<1>9. QED  BY <1>1, <1>3, <1>5, <1>6, <1>7, <1>8, CurrentTaken

\* A block is stored where it was to go.
LEMMA PutChangesNothing ==
  ASSUME IInv, IInv', PutBlock
  PROVE  Current' = Current
<1>1. /\ put.left > 0 /\ requests # <<>>
      /\ Head(requests) = requests[1] /\ 1 \in 1 .. Len(requests)
      /\ Head(requests).kind = "data" /\ Head(requests).data \in Data
      /\ put.next \in Scratch /\ ~(put.next < anon_start_index) /\ put.next \in Nat
  BY PutIsData DEF PutBlock
<1>2. /\ requests' = Tail(requests)
      /\ anon_pages' = [anon_pages EXCEPT ![put.next] = Head(requests).data]
      /\ put' = Advance(put) /\ UNCHANGED layoutVars
  BY <1>1 DEF PutBlock
<1>3. put \in Jobs /\ anon_pages \in [Scratch -> Data \cup {NoData}]
  BY DEF IInv, TypeInv
<1>4. put'.next = put.next + 1 /\ put'.left = put.left - 1
  BY <1>1, <1>2, <1>3, AdvanceIs
<1>5. put'.left = LeftAfter(requests, put.left)
  BY <1>1, <1>4 DEF LeftAfter
<1>6. ASSUME NEW b \in Blocks
      PROVE  IF requests[1].kind = "data" /\ put.next = b
             THEN ReadBlock(b)' = requests[1].data
             ELSE ReadBlock(b)' = ReadBlock(b)
  <2>1. /\ file_metadata_mapping' = file_metadata_mapping /\ anon_start_index' = anon_start_index
        /\ DOMAIN anon_pages' = Scratch /\ DOMAIN anon_pages = Scratch
    BY <1>2, <1>3 DEF layoutVars
  <2>2. CASE put.next = b
    <3>1. b >= anon_start_index
      BY <1>1, <2>2, BlocksAre DEF Scratch
    <3>2. anon_pages'[b] = requests[1].data
      BY <1>1, <1>2, <1>3, <2>2
    <3>3. ReadBlock(b)' = anon_pages'[b]
      BY <1>1, <2>1, <2>2, <3>1 DEF ReadBlock
    <3>4. QED  BY <1>1, <2>2, <3>2, <3>3
  <2>3. CASE put.next # b
    <3>1. b \in Scratch => anon_pages'[b] = anon_pages[b]
      BY <1>2, <1>3, <2>3
    <3>2. ReadBlock(b)' = ReadBlock(b)
      BY <2>1, <3>1 DEF ReadBlock
    <3>3. QED  BY <2>3, <3>2
  <2>4. QED  BY <2>2, <2>3
<1>7. requests[1].kind # "put"
  BY <1>1
<1>8. QED  BY <1>1, <1>2, <1>4, <1>5, <1>6, <1>7, CurrentTaken

\* A command is sent, and no data yet.
LEMMA CallChangesNothing ==
  ASSUME IInv, IInv', CallNumber \/ CallRead \/ CallWrite
  PROVE  Current' = Current
<1>1. UNCHANGED <<put, anon_pages>> /\ UNCHANGED layoutVars
  BY DEF CallNumber, CallRead, CallWrite, Send, diskVars
<1>2. \E unit \in PipeUnits : unit.kind # "data" /\ requests' = Append(requests, unit)
  <2>1. CASE CallNumber
    <3>1. PICK request \in Questions : requests' = Append(requests, request)
      BY <2>1, NumberIsCalled DEF Send
    <3>2. QED  BY <3>1 DEF PipeUnits, Questions
  <2>2. CASE CallRead
    <3>1. PICK first \in Nat, last \in Nat :
            first <= last /\ Send("reading", Request("get", first, last - first + 1))
      BY <2>2, ReadIsCalled
    <3>2. last - first + 1 \in Nat \ {0}
      BY <3>1
    <3>3. Request("get", first, last - first + 1) \in PipeUnits
      BY <3>2 DEF Request, PipeUnits, Commands
    <3>4. QED  BY <3>1, <3>3 DEF Send, Request
  <2>3. CASE CallWrite
    <3>1. PICK first \in Scratch, last \in Scratch :
            first <= last /\ Send("writing", Request("put", first, last - first + 1))
      BY <2>3, WriteIsCalled
    <3>2. last - first + 1 \in Nat \ {0} /\ first \in Nat
      <4>1. anon_start_index \in Nat /\ ScratchBlocks \in Nat
        BY <2>3, WriteIsCalled
      <4>2. QED  BY <3>1, <4>1 DEF Scratch
    <3>3. Request("put", first, last - first + 1) \in PipeUnits
      BY <3>2 DEF Request, PipeUnits, Commands
    <3>4. QED  BY <3>1, <3>3 DEF Send, Request
  <2>4. QED  BY <2>1, <2>2, <2>3
<1>3. QED  BY <1>1, <1>2, CurrentCommand

LEMMA NextDevice == DeviceInv /\ IInv' /\ [Next]_vars => [Written!Next]_(Written!vars)
<1> SUFFICES ASSUME DeviceInv, IInv', [Next]_vars PROVE [Written!Next]_(Written!vars)
  OBVIOUS
<1> USE DEF DeviceInv
<1>1. ASSUME Current' = Current, UNCHANGED <<anon_start_index, result>>
      PROVE  [Written!Next]_(Written!vars)
  BY <1>1 DEF Written!vars
<1>2. ASSUME UNCHANGED <<requests, put, anon_pages, result>>, UNCHANGED layoutVars
      PROVE  [Written!Next]_(Written!vars)
  <2>1. Current' = Current /\ UNCHANGED anon_start_index
    BY <1>2, CurrentStays DEF layoutVars
  <2>2. QED  BY <1>1, <1>2, <2>1
<1>3. CASE CallNumber \/ CallRead \/ CallWrite
  <2>1. UNCHANGED <<anon_start_index, result>>
    BY <1>3 DEF CallNumber, CallRead, CallWrite, Send, diskVars, layoutVars
  <2>2. QED  BY <1>1, <1>3, <2>1, CallChangesNothing
<1>4. CASE SendBlock
  BY <1>4, BlockWritten DEF Written!Next
<1>5. CASE ReceiveBlock
  <2>1. CASE Len(buf) + 1 = call.count
    BY <1>5, <2>1, BlocksRead DEF Written!Next
  <2>2. CASE Len(buf) + 1 # call.count
    <3>1. UNCHANGED <<requests, put, anon_pages, result>> /\ UNCHANGED layoutVars
      BY <1>5, <2>2 DEF ReceiveBlock, diskVars
    <3>2. QED  BY <1>2, <3>1
  <2>3. QED  BY <2>1, <2>2
<1>6. CASE ReceiveNumber \/ ClientFindsDiskGone \/ ClientCloses
  BY <1>2, <1>6 DEF ReceiveNumber, ClientFindsDiskGone, ClientCloses, diskVars
<1>7. CASE ReadCommand \/ AnswerNumber \/ RefuseQuestion
  <2>1. UNCHANGED <<anon_start_index, result>>
    BY <1>7 DEF ReadCommand, AnswerNumber, RefuseQuestion, clientVars, diskVars, layoutVars
  <2>2. QED  BY <1>1, <1>7, <2>1, CommandChangesNothing
<1>8. CASE PutBlock
  <2>1. UNCHANGED <<anon_start_index, result>>
    BY <1>8 DEF PutBlock, clientVars, layoutVars
  <2>2. QED  BY <1>1, <1>8, <2>1, PutChangesNothing
<1>9. CASE GetBlock \/ GetMissingBlock \/ DiskFindsClientGone \/ DiskFails
  BY <1>2, <1>9 DEF GetBlock, GetMissingBlock, DiskFindsClientGone, DiskFails, clientVars
<1>10. CASE UNCHANGED vars
  BY <1>2, <1>10 DEF vars, clientVars, diskVars
<1>11. QED
  BY <1>3, <1>4, <1>5, <1>6, <1>7, <1>8, <1>9, <1>10 DEF Next, ClientStep, DiskStep

(* The protocol implements the block device: a read returns what was last  *)
(* written, or what the file holds, and a write is seen by every later read *)
(* from when its block has gone into the pipe.                             *)
THEOREM ProtocolIsBlockDevice == Spec => ImplementsBlockDevice
<1>1. DeviceInv /\ DeviceInv' /\ [Next]_vars => [Written!Next]_(Written!vars)
  BY NextDevice DEF DeviceInv
<1>2. QED
  BY <1>1, InitDevice, DeviceInvHolds, PTL DEF Spec, ImplementsBlockDevice, Written!Spec

=============================================================================
