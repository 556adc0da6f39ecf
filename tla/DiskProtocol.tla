---------------------------- MODULE DiskProtocol ----------------------------
(***************************************************************************)
(* The database's DiskClient (database/src/storage/disk_client.rs) and the *)
(* disk simulator (disk/src/disk_simulation) at the two ends of a pair of  *)
(* pipes of bounded capacity.                                              *)
(*                                                                         *)
(* Requests are command lines, and a put's line is followed by its blocks  *)
(* with nothing to mark them as data: the disk knows by the count alone    *)
(* where the next command starts.  Only get requests have a reply.  Either *)
(* process may die at any point; the other one finds out when it reads the *)
(* end of the stream or writes to a pipe nobody reads.                     *)
(***************************************************************************)
EXTENDS DiskLayout

CONSTANTS
  FileLists,      \* lists of configured files, of which the disk has one
  Ids,            \* file ids the client may ask for, unknown ones among them
  Blocks,         \* block numbers
  Data, NoData,   \* as in BlockDevice
  ScratchBlocks,  \* bound of the model: anonymous blocks the client uses
  MaxCount,       \* bound of the model: blocks of one request
  PipeCapacity,   \* units (a command line, a block, a number) a pipe holds
  MaxCalls        \* bound of the model: calls of the client

ASSUME DiskProtocolAssumption ==
  /\ \A files \in FileLists :
       files \in Seq([id : Ids, size : Nat]) /\ ValidFiles(files)
  /\ {ScratchBlocks, MaxCount, PipeCapacity} \subseteq Nat \ {0}
  /\ MaxCalls \in Nat
  /\ NoData \notin Data
  /\ Blocks \subseteq Nat
  /\ \A files \in FileLists :
       0 .. AnonStartIndex(FileMetadataMapping(files)) + ScratchBlocks - 1 \subseteq Blocks

VARIABLES
  client,      \* "idle", "number", "reading", "writing" (inside a call) or "closed"
  call,        \* the request of the current call
  unsent,      \* write_blocks: the blocks not yet written to the pipe
  buf,         \* read_blocks: the blocks read so far
  result,      \* what the last completed read_blocks returned
  calls,       \* how many calls have been made
  block_size,  \* DiskClient's cached block size, or None
  anon_start,  \* the answer ScratchSpace is made with, or None
  asked,       \* history: reads, writes and blocks asked for
  requests,    \* the pipe to the disk
  replies,     \* the pipe from the disk
  disk,        \* "running" or "ended"
  files,       \* the configured files
  file_metadata_mapping, anon_start_index,   \* the layout, as in Disk
  anon_pages,  \* contents of the anonymous blocks
  put,         \* handle_put_block in progress: next block, blocks left, of how many
  get,         \* handle_get_block in progress: the same
  metrics      \* reads, writes and blocks that DiskIOMetricsSimulator has counted

clientVars == <<client, call, unsent, buf, result, calls, block_size, anon_start, asked>>
layoutVars == <<files, file_metadata_mapping, anon_start_index>>
diskVars == <<disk, layoutVars, anon_pages, put, get, metrics>>
vars == <<clientVars, requests, replies, diskVars>>

None == -1

NoJob == [next |-> 0, left |-> 0, count |-> 0]

\* A put or get in progress.
Job(request) == [next |-> request.start, left |-> request.count, count |-> request.count]
Advance(job) == [job EXCEPT !.next = @ + 1, !.left = @ - 1]

\* Requests; the blocks of a put follow it as units of their own.
Request(kind, start, count) == [kind |-> kind, start |-> start, count |-> count]
Question(what, id) == [kind |-> "number", what |-> what, id |-> id]
BlockUnit(data) == [kind |-> "data", data |-> data]
Number(value) == [kind |-> "number", value |-> value]

HasRoom(pipe) == Len(pipe) < PipeCapacity

NothingCounted == [reads |-> 0, writes |-> 0, blocks |-> 0]

Init ==
  /\ client = "idle" /\ call = Request("none", 0, 0)
  /\ unsent = <<>> /\ buf = <<>> /\ result = <<>> /\ calls = 0
  /\ block_size = None /\ anon_start = None /\ asked = NothingCounted
  /\ requests = <<>> /\ replies = <<>>
  /\ disk = "running"
  /\ files \in FileLists
  /\ file_metadata_mapping = FileMetadataMapping(files)
  /\ anon_start_index = AnonStartIndex(file_metadata_mapping)
  /\ anon_pages = [b \in anon_start_index .. anon_start_index + ScratchBlocks - 1 |-> NoData]
  /\ put = NoJob /\ get = NoJob /\ metrics = NothingCounted

\* Disk::read_block: what is read, or NoData where it fails.
FileBlock(file, offset) == <<file, offset>>
ReadBlock(b) ==
  IF b >= anon_start_index
  THEN IF b \in DOMAIN anon_pages THEN anon_pages[b] ELSE NoData
  ELSE LET ids == FileIds(file_metadata_mapping, b) IN
       IF ids = {} THEN NoData
       ELSE LET metadata == file_metadata_mapping[CHOOSE id \in ids : TRUE]
            IN FileBlock(metadata.file, b - metadata.start_block)

-----------------------------------------------------------------------------
(* The client.                                                             *)

\* A call writes its command line; the bound on calls is the model's.
Send(state, request) ==
  /\ client = "idle" /\ calls < MaxCalls
  /\ disk = "running" /\ HasRoom(requests)
  /\ client' = state
  /\ call' = request
  /\ calls' = calls + 1
  /\ requests' = Append(requests, request)
  /\ UNCHANGED <<result, block_size, anon_start, replies, diskVars>>

(* cmd_u64.  db_main asks for the block size and the start of the          *)
(* anonymous blocks before anything else; the block size is asked for      *)
(* once, the regions of files as often as a query scans them.              *)
CallNumber ==
  /\ \/ block_size = None /\ Send("number", Question("block-size", ""))
     \/ block_size # None /\ anon_start = None /\ Send("number", Question("anon-start-block", ""))
     \/ /\ anon_start # None
        /\ \E id \in Ids, what \in {"start-block", "num-blocks"} : Send("number", Question(what, id))
  /\ UNCHANGED <<unsent, buf, asked>>

\* The blocks from start on that one request of the model may be about.
Upto(start, end) == {last \in start .. end : last - start < MaxCount}

\* read_blocks: of a file, the block behind it included, or of scratch blocks.
CallRead ==
  /\ anon_start # None
  /\ \E id \in DOMAIN file_metadata_mapping \cup {"scratch"} :
       LET start == IF id = "scratch" THEN anon_start ELSE file_metadata_mapping[id].start_block
           end == IF id = "scratch" THEN anon_start + ScratchBlocks - 1
                  ELSE start + file_metadata_mapping[id].num_blocks
       IN \E first \in start .. end : \E last \in Upto(first, end) :
            /\ Send("reading", Request("get", first, last - first + 1))
            /\ asked' = [asked EXCEPT !.reads = @ + 1, !.blocks = @ + last - first + 1]
  /\ buf' = <<>>
  /\ UNCHANGED unsent

\* write_blocks, of scratch blocks only: block_allocator.rs is its one caller.
CallWrite ==
  /\ anon_start # None
  /\ \E first \in anon_start .. anon_start + ScratchBlocks - 1 :
       \E last \in Upto(first, anon_start + ScratchBlocks - 1) :
         /\ Send("writing", Request("put", first, last - first + 1))
         /\ unsent' \in [1 .. last - first + 1 -> Data]
         /\ asked' = [asked EXCEPT !.writes = @ + 1, !.blocks = @ + last - first + 1]
  /\ UNCHANGED buf

\* write_all of the data goes on as the pipe takes it.
SendBlock ==
  /\ client = "writing"
  /\ disk = "running" /\ HasRoom(requests)
  /\ requests' = Append(requests, BlockUnit(Head(unsent)))
  /\ unsent' = Tail(unsent)
  /\ client' = IF Len(unsent) = 1 THEN "idle" ELSE "writing"
  /\ UNCHANGED <<call, buf, result, calls, block_size, anon_start, asked, replies, diskVars>>

ReceiveNumber ==
  /\ client = "number"
  /\ replies # <<>>
  /\ replies' = Tail(replies)
  /\ client' = "idle"
  /\ block_size' = IF call.what = "block-size" THEN Head(replies).value ELSE block_size
  /\ anon_start' = IF call.what = "anon-start-block" THEN Head(replies).value ELSE anon_start
  /\ UNCHANGED <<call, unsent, buf, result, calls, asked, requests, diskVars>>

\* read_exact takes what comes, until it has the blocks asked for.
ReceiveBlock ==
  /\ client = "reading"
  /\ replies # <<>>
  /\ replies' = Tail(replies)
  /\ buf' = Append(buf, Head(replies).data)
  /\ IF Len(buf) + 1 = call.count
     THEN client' = "idle" /\ result' = buf'
     ELSE UNCHANGED <<client, result>>
  /\ UNCHANGED <<call, unsent, calls, block_size, anon_start, asked, requests, diskVars>>

(* The disk is gone: a write fails, a read finds the end of the stream     *)
(* once it is drained.  Every caller passes the error on to db_main, which *)
(* ends the process.                                                       *)
ClientFindsDiskGone ==
  /\ disk = "ended"
  /\ \/ client = "writing"
     \/ client \in {"number", "reading"} /\ replies = <<>>
  /\ client' = "closed"
  /\ UNCHANGED <<call, unsent, buf, result, calls, block_size, anon_start, asked, requests, replies, diskVars>>

\* The database exits, fails or is killed, inside a call or between calls (a
\* call begun when the disk has ended fails at its first write).
ClientCloses ==
  /\ client # "closed"
  /\ client' = "closed"
  /\ UNCHANGED <<call, unsent, buf, result, calls, block_size, anon_start, asked, requests, replies, diskVars>>

-----------------------------------------------------------------------------
(* The disk: one thread, one command at a time.                            *)

Ready == disk = "running" /\ put.left = 0 /\ get.left = 0

\* read_tokens, and handle_put_block or handle_get_block up to its loop.
ReadCommand ==
  /\ Ready
  /\ requests # <<>> /\ Head(requests).kind \in {"put", "get"}
  /\ requests' = Tail(requests)
  /\ IF Head(requests).kind = "put"
     THEN put' = Job(Head(requests)) /\ UNCHANGED get
     ELSE get' = Job(Head(requests)) /\ UNCHANGED put
  /\ UNCHANGED <<clientVars, replies, disk, layoutVars, anon_pages, metrics>>

Known(question) ==
  question.what \in {"start-block", "num-blocks"} => question.id \in DOMAIN file_metadata_mapping

Answer(question) ==
  CASE question.what = "block-size" -> BlockSize
    [] question.what = "anon-start-block" -> anon_start_index
    [] question.what = "start-block" -> file_metadata_mapping[question.id].start_block
    [] question.what = "num-blocks" -> file_metadata_mapping[question.id].num_blocks

\* block-size, anon-start-block, file start-block, file num-blocks.
AnswerNumber ==
  /\ Ready
  /\ requests # <<>> /\ Head(requests).kind = "number" /\ Known(Head(requests))
  /\ client # "closed" /\ HasRoom(replies)
  /\ requests' = Tail(requests)
  /\ replies' = Append(replies, Number(Answer(Head(requests))))
  /\ UNCHANGED <<clientVars, diskVars>>

\* No file has the id: an error, which ends the disk.
RefuseQuestion ==
  /\ Ready
  /\ requests # <<>> /\ Head(requests).kind = "number" /\ ~Known(Head(requests))
  /\ requests' = Tail(requests)
  /\ disk' = "ended"
  /\ UNCHANGED <<clientVars, replies, layoutVars, anon_pages, put, get, metrics>>

Account_LastBlock(kind, job) ==   \* mutant: only the last block is counted
  metrics' = IF job.left > 1 THEN metrics
             ELSE [metrics EXCEPT ![kind] = @ + 1, !.blocks = @ + 1]

\* update_read_on and update_write_on, behind the loop over the blocks.
Account(kind, job) ==
  metrics' = IF job.left > 1 THEN metrics
             ELSE [metrics EXCEPT ![kind] = @ + 1, !.blocks = @ + job.count]

PutBlock_SameBlock ==   \* mutant: the offset is not added to start_block_id
  /\ disk = "running" /\ put.left > 0
  /\ requests # <<>>
  /\ requests' = Tail(requests)
  /\ anon_pages' = [anon_pages EXCEPT ![put.next] = Head(requests).data]
  /\ put' = [put EXCEPT !.left = @ - 1]
  /\ Account("writes", put)
  /\ UNCHANGED <<clientVars, replies, disk, layoutVars, get>>

(* One iteration of handle_put_block: the next block of the stream is      *)
(* data.  Disk::write_block would refuse a block below anon_start_index.   *)
PutBlock ==
  /\ disk = "running" /\ put.left > 0
  /\ requests # <<>>
  /\ requests' = Tail(requests)
  /\ IF put.next < anon_start_index
     THEN disk' = "ended" /\ UNCHANGED <<anon_pages, put, metrics>>
     ELSE /\ anon_pages' = [anon_pages EXCEPT ![put.next] = Head(requests).data]
          /\ put' = Advance(put)
          /\ Account("writes", put)
          /\ UNCHANGED disk
  /\ UNCHANGED <<clientVars, replies, layoutVars, get>>

GetBlock_OneShort ==   \* mutant: the loop stops one block early
  /\ disk = "running" /\ get.left > 0
  /\ client # "closed" /\ HasRoom(replies)
  /\ ReadBlock(get.next) # NoData
  /\ replies' = Append(replies, BlockUnit(ReadBlock(get.next)))
  /\ get' = IF get.left = 2 THEN NoJob ELSE Advance(get)
  /\ Account("reads", get)
  /\ UNCHANGED <<clientVars, requests, disk, layoutVars, anon_pages, put>>

\* One iteration of handle_get_block.
GetBlock ==
  /\ disk = "running" /\ get.left > 0
  /\ client # "closed" /\ HasRoom(replies)
  /\ ReadBlock(get.next) # NoData
  /\ replies' = Append(replies, BlockUnit(ReadBlock(get.next)))
  /\ get' = Advance(get)
  /\ Account("reads", get)
  /\ UNCHANGED <<clientVars, requests, disk, layoutVars, anon_pages, put>>

\* read_block fails: the block is in no file and was never written.  The
\* blocks before it have been sent.
GetMissingBlock ==
  /\ disk = "running" /\ get.left > 0
  /\ ReadBlock(get.next) = NoData
  /\ disk' = "ended"
  /\ UNCHANGED <<clientVars, requests, replies, layoutVars, anon_pages, put, get, metrics>>

DiskFindsClientGone_IgnoresEof ==   \* mutant: the end of the input is not noticed
  /\ disk = "running" /\ client = "closed"
  /\ ~Ready \/ requests # <<>>
  /\ \/ requests = <<>> /\ get.left = 0
     \/ get.left > 0
     \/ Ready /\ requests # <<>> /\ Head(requests).kind = "number"
  /\ disk' = "ended"
  /\ UNCHANGED <<clientVars, requests, replies, layoutVars, anon_pages, put, get, metrics>>

(* The client is gone: a read finds the end of the stream (the end of      *)
(* simulate for a command, an error inside a put), a write fails.          *)
DiskFindsClientGone ==
  /\ disk = "running" /\ client = "closed"
  /\ \/ requests = <<>> /\ get.left = 0
     \/ get.left > 0
     \/ Ready /\ requests # <<>> /\ Head(requests).kind = "number"
  /\ disk' = "ended"
  /\ UNCHANGED <<clientVars, requests, replies, layoutVars, anon_pages, put, get, metrics>>

\* The disk fails, on an I/O error of a data file or otherwise.
DiskFails ==
  /\ disk = "running"
  /\ disk' = "ended"
  /\ UNCHANGED <<clientVars, requests, replies, layoutVars, anon_pages, put, get, metrics>>

-----------------------------------------------------------------------------
\* What an open call does next; when to call is up to the query.
ClientStep == SendBlock \/ ReceiveNumber \/ ReceiveBlock \/ ClientFindsDiskGone

DiskStep ==
  \/ ReadCommand \/ AnswerNumber \/ RefuseQuestion \/ PutBlock \/ GetBlock \/ GetMissingBlock
  \/ DiskFindsClientGone

Next ==
  \/ CallNumber \/ CallRead \/ CallWrite \/ ClientStep \/ ClientCloses
  \/ DiskStep \/ DiskFails

\* Both processes are scheduled: an open call and a command go on while they can.
Fairness == WF_vars(ClientStep) /\ WF_vars(DiskStep)

Spec == Init /\ [][Next]_vars /\ Fairness

-----------------------------------------------------------------------------
(* The two processes agree on what the bytes in the pipes are: the disk    *)
(* takes block data for a command, or a command for block data, in no      *)
(* state, and the client finds the answer to its own request in the reply  *)
(* pipe.  (The disk has not skipped or left over anything.)                *)
FramingAgrees ==
  /\ \A i \in 1 .. Len(requests) :
       requests[i].kind = "data"
         <=> \/ i <= put.left
             \/ \E j \in 1 .. i - 1 : /\ requests[j].kind = "put"
                                      /\ i <= j + requests[j].count
  /\ client = "idle" /\ disk = "running" => replies = <<>> /\ get.left = 0
  /\ client = "number" => \A i \in 1 .. Len(replies) : replies[i] = Number(Answer(call))
  /\ client = "reading" /\ disk = "running" =>
       \/ call \in ToSet(requests) /\ buf = <<>> /\ replies = <<>>
       \/ Len(buf) + Len(replies) + get.left = call.count

(* The files the disk was configured with can be read whole, each from the *)
(* block start-block answers on, and every region and the anonymous blocks *)
(* lie 10 GB apart: no block is in two of them.                            *)
RegionsApart ==
  LET Ends(r) == r.start_block + r.num_blocks
      Gap(from, to) == (to - from) * BlockSize >= MinGapBytes
  IN
  /\ DOMAIN file_metadata_mapping = {files[i].id : i \in DOMAIN files}
  /\ \A id \in DOMAIN file_metadata_mapping :
       LET r == file_metadata_mapping[id]
           i == Max({j \in DOMAIN files : files[j].id = id})
       IN /\ r.num_blocks * BlockSize = files[i].size
          /\ \A k \in 0 .. r.num_blocks - 1 : ReadBlock(r.start_block + k) = FileBlock(i, k)
          /\ Gap(Ends(r), anon_start_index)
          /\ \A other \in DOMAIN file_metadata_mapping \ {id} :
               LET o == file_metadata_mapping[other]
               IN Gap(Ends(r), o.start_block) \/ Gap(Ends(o), r.start_block)

\* Where in the pipe the requests of a kind are, how many blocks each unit of
\* the pipe asks for, and the work in progress.
InFlight(kind) == {i \in DOMAIN requests : requests[i].kind = kind}
BlocksAsked ==
  [i \in DOMAIN requests |-> IF requests[i].kind \in {"put", "get"} THEN requests[i].count ELSE 0]
InProgress(job) == IF job.left > 0 THEN 1 ELSE 0

(* While the disk runs, what it has counted and what is still to be done   *)
(* is what the database has asked for: every request once, with all its    *)
(* blocks, when it is done.                                                *)
MetricsAgree ==
  disk = "running" =>
    /\ asked.reads = metrics.reads + Cardinality(InFlight("get")) + InProgress(get)
    /\ asked.writes = metrics.writes + Cardinality(InFlight("put")) + InProgress(put)
    /\ asked.blocks = metrics.blocks + MapThenSumSet(LAMBDA i : BlocksAsked[i], DOMAIN requests)
                        + InProgress(get) * get.count + InProgress(put) * put.count

(* Where the disk will write the unit at i of the pipe: to the next block  *)
(* of the put in progress, or counted from the last put before it.         *)
Destination(i) ==
  IF i <= put.left THEN put.next + i - 1
  ELSE LET p == Max({j \in 1 .. i - 1 : requests[j].kind = "put"})
       IN requests[p].start + i - p - 1

\* The blocks written once the disk has taken all units of the pipe.
WritesTo(b) == {i \in DOMAIN requests : requests[i].kind = "data" /\ Destination(i) = b}

Current ==
  [b \in Blocks |-> IF WritesTo(b) = {} THEN ReadBlock(b) ELSE requests[Max(WritesTo(b))].data]

FileBlocks ==
  UNION {UNION {{FileBlock(i, k) : k \in 0 .. list[i].size \div BlockSize - 1} : i \in DOMAIN list}
         : list \in FileLists}

Written == INSTANCE BlockDevice WITH blocks <- Current, anon_start <- anon_start_index

(* Reads return what was last written, with any number of unacknowledged   *)
(* writes in flight: the protocol implements the block device.             *)
ImplementsBlockDevice == Written!Spec

(* A call returns, or fails because a process has ended: however small the *)
(* pipes, client and disk never wait for each other.                       *)
EveryCallReturns ==
  (client \in {"number", "reading", "writing"}) ~> (client \in {"idle", "closed"})

(* The disk simulator ends once the database has, whatever it was doing;   *)
(* the monitor waits for it.                                               *)
DiskEndsWithClient == (client = "closed") ~> (disk = "ended")

=============================================================================
