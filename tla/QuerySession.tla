---------------------------- MODULE QuerySession ----------------------------
(***************************************************************************)
(* The monitor's loop over the configured queries (monitor/src/main.rs)    *)
(* and the database's side of the same conversation (database/src/main.rs, *)
(* monitor_client.rs).                                                     *)
(*                                                                         *)
(* For each query the monitor starts a disk simulator and a database,      *)
(* connected by pipes, sends the query, answers the database's commands,   *)
(* compares the rows it streams with the expected ones, and then waits for *)
(* both processes.  Nothing has a timeout: that a session ends at all      *)
(* rests on each process seeing the end of its input when its peer is      *)
(* gone, hence on who holds which end of which pipe.  The database may     *)
(* fail, be killed (it runs under resource limits) or return a wrong       *)
(* answer at any point, the disk may fail at any point, a program may not  *)
(* be there to be executed, and the monitor itself may be killed.          *)
(*                                                                         *)
(* Which end is open where follows from the processes' descriptor tables   *)
(* (module Descriptors), from pipe() over fork, remap_fds and exec to the  *)
(* end of each process.                                                    *)
(*                                                                         *)
(* What the database and the disk say to each other is DiskProtocol.       *)
(***************************************************************************)
EXTENDS Integers, Sequences, SequencesExt, Descriptors

CONSTANTS
  Rows,          \* formatted result rows: neither empty nor "!"
  Queries,       \* query_configs: disabled, sort_before_check and expected, the file's rows
  InheritedSets, \* descriptor numbers the monitor may start with
  PipeCapacity,  \* lines the pipe from the database to the monitor holds
  MaxRows,       \* bound of the model: rows the database sends
  MaxDiskCalls   \* bound of the model: disk calls while a query runs

ASSUME QuerySessionAssumption ==
  /\ Queries \in Seq([disabled : BOOLEAN, sort_before_check : BOOLEAN, expected : Seq(Rows)])
  /\ InheritedSets \subseteq SUBSET Nat
  /\ \A numbers \in InheritedSets : IsFiniteSet(numbers) /\ 0 .. 2 \subseteq numbers
  /\ PipeCapacity \in Nat \ {0}
  /\ {MaxRows, MaxDiskCalls} \subseteq Nat
  /\ Rows \cap {"!", "", "validate", "get_memory_limit"} = {}

VARIABLES
  monitor,     \* where monitor_main and handle_db are
  query,       \* index of the current query config
  verdict,     \* db_result of the current query: "none", "success" or "failure"
  reported,    \* what was printed for each query so far
  read_rows,   \* rows read by validate_bysorting or validate_presorted
  db,          \* where db_main is, "ended" or "unborn"
  disk,        \* "unborn", "running" or "ended"
  disk_calls,  \* disk calls made by the current query
  to_db,       \* pipe from the monitor to the database
  to_monitor,  \* pipe from the database to the monitor
  sent,        \* every line the database has written for the current query
  fds,         \* the descriptor table of each process
  inherited,   \* the numbers that were open when the monitor started
  spawn_error, \* the child has written to the pipe of Command::spawn
  mappings     \* remap_fds' argument while it runs

monitorVars == <<monitor, query, verdict, reported, read_rows>>
dbVars == <<db, disk_calls, sent>>
startup == <<inherited, spawn_error, mappings>>
descriptors == <<fds, startup>>
vars == <<monitorVars, dbVars, disk, to_db, to_monitor, descriptors>>

Current == Queries[query]
Expected == Current.expected

Init ==
  /\ monitor = "next" /\ query = 1
  /\ verdict = "none" /\ reported = <<>> /\ read_rows = <<>>
  /\ db = "unborn" /\ disk = "unborn" /\ disk_calls = 0
  /\ to_db = <<>> /\ to_monitor = <<>> /\ sent = <<>>
  /\ inherited \in InheritedSets /\ spawn_error = FALSE /\ mappings = <<>>
  /\ fds = [monitor |-> Inherited(inherited), db |-> {}, disk |-> {}]

Holders(end) == {p \in DOMAIN fds : end \in Ends(fds[p])}
NoReader(pipe) == Holders(ReadEnd(pipe)) = {}
NoWriter(pipe) == Holders(WriteEnd(pipe)) = {}

\* The session's ends in a table, with their numbers.
PipeEnds(table) == {<<d.number, d.end>> : d \in {d \in table : d.end.pipe # "inherited"}}

-----------------------------------------------------------------------------
(* The monitor.                                                            *)

\* The loop is over.
NoMoreQueries ==
  /\ monitor = "next" /\ query > Len(Queries)
  /\ monitor' = "ended"
  /\ fds' = [fds EXCEPT !.monitor = {}]
  /\ UNCHANGED <<query, verdict, reported, read_rows, dbVars, disk, to_db, to_monitor, startup>>

SkipDisabled ==
  /\ monitor = "next" /\ query <= Len(Queries) /\ Current.disabled
  /\ query' = query + 1
  /\ UNCHANGED <<monitor, verdict, reported, read_rows, dbVars, disk, to_db, to_monitor, descriptors>>

(* setup_disk_process.  The disk gets its two ends as stdin and stdout,    *)
(* the monitor keeps the two the database is to get.                       *)
SetupDisk ==
  /\ monitor = "next" /\ query <= Len(Queries) /\ ~Current.disabled
  /\ monitor' = "setup_db"
  /\ disk' = "running"
  /\ LET opened == Pipe(Pipe(fds.monitor, "disk_out"), "disk_in")
         stdin == Number(opened, ReadEnd("disk_in"))
         stdout == Number(opened, WriteEnd("disk_out"))
     IN fds' = [fds EXCEPT
                  !.disk = Exec(Dup2(Dup2(opened, stdin, 0), stdout, 1)),
                  !.monitor = CloseEnds(opened, {ReadEnd("disk_in"), WriteEnd("disk_out")})]
  /\ UNCHANGED <<query, verdict, reported, read_rows, dbVars, to_db, to_monitor, startup>>

\* spawn()? returns an error: the program is not there.
DiskCannotStart ==
  /\ monitor = "next" /\ query <= Len(Queries) /\ ~Current.disabled
  /\ monitor' = "gave_up"
  /\ fds' = [fds EXCEPT !.monitor = {}]
  /\ UNCHANGED <<query, verdict, reported, read_rows, dbVars, disk, to_db, to_monitor, startup>>

(* setup_db_process up to the fork in spawn, which has opened a pipe of    *)
(* its own for the child to report an error of exec.                       *)
SetupDb ==
  /\ monitor = "setup_db"
  /\ monitor' = "spawn"
  /\ db' = "forked" /\ disk_calls' = 0
  /\ to_db' = <<>> /\ to_monitor' = <<>> /\ sent' = <<>>
  /\ verdict' = "none" /\ read_rows' = <<>>
  /\ spawn_error' = FALSE /\ mappings' = <<>>
  /\ LET opened == Pipe(Pipe(Pipe(fds.monitor, "to_db"), "to_monitor"), "exec_error")
     IN fds' = [fds EXCEPT !.db = CloseEnds(opened, {ReadEnd("exec_error")}),
                           !.monitor = CloseEnds(opened, {WriteEnd("exec_error")})]
  /\ UNCHANGED <<query, reported, disk, inherited>>

\* The ends that the closure run before exec owns, in the order of their targets.
ForDatabase == <<ReadEnd("disk_out"), WriteEnd("disk_in"), ReadEnd("to_db"), WriteEnd("to_monitor")>>

\* mutant: as_raw_fd in the closure, which then borrows two of the ends
GivenToDatabase_Borrowed == {ForDatabase[1], ForDatabase[3]}

\* What is dropped with the Command when setup_db_process returns.
GivenToDatabase == ToSet(ForDatabase)

(* spawn returns once nobody can write to its pipe any more.  Its error    *)
(* ends the monitor, which drops the disk's handle without waiting.        *)
SpawnReturns ==
  /\ monitor = "spawn" /\ NoWriter("exec_error")
  /\ IF spawn_error
     THEN /\ monitor' = "gave_up"
          /\ fds' = [fds EXCEPT !.monitor = {}]
     ELSE /\ monitor' = "send_query"
          /\ fds' = [fds EXCEPT !.monitor = CloseEnds(@, GivenToDatabase \cup {ReadEnd("exec_error")})]
  /\ UNCHANGED <<query, verdict, reported, read_rows, dbVars, disk, to_db, to_monitor, startup>>

\* handle_db returns an error: db_process.kill().
Fail ==
  /\ verdict' = "failure"
  /\ db' = "ended"
  /\ fds' = [fds EXCEPT !.db = {}]
  /\ monitor' = "wait_disk"
  /\ UNCHANGED <<query, reported, disk_calls, disk, to_db, sent, startup>>

\* The write of the query: it fails when nobody can read it.
SendQuery ==
  /\ monitor = "send_query"
  /\ \/ /\ ~NoReader("to_db")
        /\ to_db' = Append(to_db, "query")
        /\ monitor' = "commands"
        /\ UNCHANGED <<query, verdict, reported, read_rows, dbVars, disk, to_monitor, descriptors>>
     \/ /\ NoReader("to_db")
        /\ Fail /\ UNCHANGED <<read_rows, to_monitor>>

\* A line of the database's, or the empty line at the end of the stream.
AtEnd == to_monitor = <<>> /\ NoWriter("to_monitor")
Line(text) == to_monitor # <<>> /\ Head(to_monitor) = text
TakeLine == to_monitor' = IF to_monitor = <<>> THEN <<>> ELSE Tail(to_monitor)

AnswerMemoryLimit ==
  /\ monitor = "commands"
  /\ Line("get_memory_limit") /\ TakeLine
  /\ \/ /\ ~NoReader("to_db")
        /\ to_db' = Append(to_db, "limit")
        /\ UNCHANGED <<monitorVars, dbVars, disk, descriptors>>
     \/ /\ NoReader("to_db")
        /\ Fail /\ UNCHANGED read_rows

StartValidation ==
  /\ monitor = "commands"
  /\ Line("validate") /\ TakeLine
  /\ monitor' = "validate"
  /\ UNCHANGED <<query, verdict, reported, read_rows, dbVars, disk, to_db, descriptors>>

\* The database ended before "validate", or sent anything else.
NoValidation ==
  /\ monitor = "commands"
  /\ \/ AtEnd
     \/ to_monitor # <<>> /\ Head(to_monitor) \notin {"get_memory_limit", "validate"}
  /\ TakeLine
  /\ Fail /\ UNCHANGED read_rows

(* One more line is acceptable: validate_bysorting only counts the rows    *)
(* while it reads them, validate_presorted compares each.                  *)
AcceptRow(row) ==
  /\ Len(read_rows) < Len(Expected)
  /\ ~Current.sort_before_check => row = Expected[Len(read_rows) + 1]

ReadRow ==
  /\ monitor = "validate"
  /\ \E row \in Rows :
       /\ Line(row) /\ TakeLine
       /\ AcceptRow(row)
       /\ read_rows' = Append(read_rows, row)
  /\ UNCHANGED <<monitor, query, verdict, reported, dbVars, disk, to_db, descriptors>>

\* The comparison after both lists are sorted: the same rows, each as often.
SameRows(s, t) ==
  \A row \in ToSet(s) \cup ToSet(t) :
    Cardinality({i \in DOMAIN s : s[i] = row}) = Cardinality({i \in DOMAIN t : t[i] = row})

AllRead_Prefix == SameRows(read_rows, SubSeq(Expected, 1, Len(read_rows)))   \* mutant: zip without the count

\* "!" came: all expected rows are there, sorted equal if they must be sorted.
AllRead ==
  /\ Len(read_rows) = Len(Expected)
  /\ Current.sort_before_check => SameRows(read_rows, Expected)

AcceptResult ==
  /\ monitor = "validate"
  /\ Line("!") /\ TakeLine
  /\ AllRead
  /\ verdict' = "success"
  /\ monitor' = "wait_db"
  /\ UNCHANGED <<query, reported, read_rows, dbVars, disk, to_db, descriptors>>

\* Every other outcome of the two validate functions.
RejectResult ==
  /\ monitor = "validate"
  /\ \/ AtEnd
     \/ Line("!") /\ ~AllRead
     \/ /\ to_monitor # <<>> /\ Head(to_monitor) # "!"
        /\ Head(to_monitor) \notin Rows \/ ~AcceptRow(Head(to_monitor))
  /\ TakeLine
  /\ Fail /\ UNCHANGED read_rows

\* db_process.wait().
WaitDb ==
  /\ monitor = "wait_db" /\ db = "ended"
  /\ monitor' = "wait_disk"
  /\ UNCHANGED <<query, verdict, reported, read_rows, dbVars, disk, to_db, to_monitor, descriptors>>

\* The end of an iteration: what the monitor still holds of the query is closed.
EndOfQuery ==
  /\ reported' = Append(reported, verdict)
  /\ IF verdict = "success"
     THEN /\ monitor' = "next" /\ query' = query + 1
          /\ fds' = [fds EXCEPT !.monitor = CloseEnds(@, {WriteEnd("to_db"), ReadEnd("to_monitor")})]
     ELSE /\ monitor' = "ended" /\ UNCHANGED query
          /\ fds' = [fds EXCEPT !.monitor = {}]
  /\ UNCHANGED <<verdict, read_rows, dbVars, disk, to_db, to_monitor, startup>>

WaitDisk_NoWait == monitor = "wait_disk" /\ EndOfQuery   \* mutant: disk_process.wait() is missing

\* disk_process.wait(), then the verdict is reported; a failure ends the loop.
WaitDisk == monitor = "wait_disk" /\ disk = "ended" /\ EndOfQuery

MonitorStep ==
  \/ NoMoreQueries \/ SkipDisabled \/ SetupDisk \/ SetupDb \/ SpawnReturns \/ SendQuery
  \/ AnswerMemoryLimit \/ StartValidation \/ NoValidation \/ ReadRow
  \/ AcceptResult \/ RejectResult \/ WaitDb \/ WaitDisk

\* A signal ends the monitor at any point.
MonitorKilled ==
  /\ monitor \notin {"ended", "gave_up", "killed"}
  /\ monitor' = "killed"
  /\ fds' = [fds EXCEPT !.monitor = {}]
  /\ UNCHANGED <<query, verdict, reported, read_rows, dbVars, disk, to_db, to_monitor, startup>>

-----------------------------------------------------------------------------
(* The database.                                                           *)

DbAlive == db \notin {"unborn", "ended"}
DbExecuted == DbAlive /\ db \notin {"forked", "remapping", "remapped"}

(* The closure run between fork and exec: the four ends move to the        *)
(* numbers 3 to 6 that io_setup.rs expects.  The two actions are the two   *)
(* loops of remap_fds, over the numbers the ends had at the fork.          *)
Mappings(table) ==
  [i \in 1 .. 4 |-> [source |-> Number(table, ForDatabase[i]), target |-> 2 + i, close_on_exec |-> FALSE]]

RemapAway ==
  /\ db = "forked"
  /\ db' = "remapping" /\ mappings' = Mappings(fds.db)
  /\ fds' = [fds EXCEPT !.db = MoveAllAway(@, mappings')]
  /\ UNCHANGED <<monitorVars, disk_calls, sent, disk, to_db, to_monitor, inherited, spawn_error>>

RemapToTargets ==
  /\ db = "remapping"
  /\ db' = "remapped" /\ mappings' = <<>>
  /\ fds' = [fds EXCEPT !.db = MoveAllToTargets(@, mappings)]
  /\ UNCHANGED <<monitorVars, disk_calls, sent, disk, to_db, to_monitor, inherited, spawn_error>>

ExecDatabase ==
  /\ db = "remapped"
  /\ db' = "read_query"
  /\ fds' = [fds EXCEPT !.db = Exec(@)]
  /\ UNCHANGED <<monitorVars, disk_calls, sent, disk, to_db, to_monitor, startup>>

(* exec fails.  The child reports it if its end of spawn's pipe is still   *)
(* there: remap_fds may have used that number for a temporary copy.        *)
ExecFails ==
  /\ db = "remapped"
  /\ db' = "ended"
  /\ spawn_error' = ("db" \in Holders(WriteEnd("exec_error")))
  /\ fds' = [fds EXCEPT !.db = {}]
  /\ UNCHANGED <<monitorVars, disk_calls, sent, disk, to_db, to_monitor, inherited, mappings>>

\* A line to the monitor.
Write(line) ==
  /\ ~NoReader("to_monitor")
  /\ Len(to_monitor) < PipeCapacity
  /\ to_monitor' = Append(to_monitor, line)
  /\ sent' = Append(sent, line)

ReadQuery ==
  /\ db = "read_query" /\ to_db # <<>>
  /\ to_db' = Tail(to_db)
  /\ db' = "ask_limit"
  /\ UNCHANGED <<monitorVars, disk_calls, sent, disk, to_monitor, descriptors>>

AskMemoryLimit ==
  /\ db = "ask_limit"
  /\ Write("get_memory_limit")
  /\ db' = "read_limit"
  /\ UNCHANGED <<monitorVars, disk_calls, disk, to_db, descriptors>>

ReadMemoryLimit ==
  /\ db = "read_limit" /\ to_db # <<>>
  /\ to_db' = Tail(to_db)
  /\ db' = "ask_disk"
  /\ UNCHANGED <<monitorVars, disk_calls, sent, disk, to_monitor, descriptors>>

\* get_block_size and get_anon_start_block.
AskDisk ==
  /\ db = "ask_disk" /\ disk = "running"
  /\ db' = "begin_validation"
  /\ UNCHANGED <<monitorVars, disk_calls, sent, disk, to_db, to_monitor, descriptors>>

BeginValidation ==
  /\ db = "begin_validation"
  /\ Write("validate")
  /\ db' = "execute"
  /\ UNCHANGED <<monitorVars, disk_calls, disk, to_db, descriptors>>

\* execute_query: any rows, between any disk calls.
SendRow ==
  /\ db = "execute"
  /\ Len(sent) < MaxRows + 2   \* after "get_memory_limit" and "validate"
  /\ \E row \in Rows : Write(row)
  /\ UNCHANGED <<monitorVars, db, disk_calls, disk, to_db, descriptors>>

CallDisk ==
  /\ db = "execute" /\ disk = "running"
  /\ disk_calls < MaxDiskCalls
  /\ disk_calls' = disk_calls + 1
  /\ UNCHANGED <<monitorVars, db, sent, disk, to_db, to_monitor, descriptors>>

FinishValidation ==
  /\ db = "execute"
  /\ Write("!")
  /\ db' = "finished"
  /\ UNCHANGED <<monitorVars, disk_calls, disk, to_db, descriptors>>

\* The process ends and its ends of the pipes close.
DbEnds ==
  /\ db' = "ended"
  /\ fds' = [fds EXCEPT !.db = {}]
  /\ UNCHANGED startup

\* A call to the disk fails: its write or its read.
DiskGone == NoReader("disk_in") \/ NoWriter("disk_out")

\* db_main returns, or passes on the error of a call to a process that is gone.
DbExits ==
  /\ \/ db = "finished"
     \/ db \in {"ask_disk", "execute"} /\ DiskGone
     \/ db \in {"read_query", "read_limit"} /\ to_db = <<>> /\ NoWriter("to_db")
     \/ db \in {"ask_limit", "begin_validation", "execute"} /\ NoReader("to_monitor")
  /\ DbEnds
  /\ UNCHANGED <<monitorVars, disk_calls, sent, disk, to_db, to_monitor>>

\* An error, a panic, an allocation beyond the memory limit, a signal.
DbFails ==
  /\ DbAlive
  /\ DbEnds
  /\ UNCHANGED <<monitorVars, disk_calls, sent, disk, to_db, to_monitor>>

\* The same in the middle of writing a line.  (A line that lacks only its end
\* is read like the whole line.)
DbFailsInLine ==
  /\ db \in {"ask_limit", "begin_validation", "execute"}
  /\ Write("torn")
  /\ DbEnds
  /\ UNCHANGED <<monitorVars, disk_calls, disk, to_db>>

DbStep ==
  \/ RemapAway \/ RemapToTargets \/ ExecDatabase
  \/ ReadQuery \/ AskMemoryLimit \/ ReadMemoryLimit \/ AskDisk \/ BeginValidation
  \/ SendRow \/ CallDisk \/ FinishValidation \/ DbExits

-----------------------------------------------------------------------------
(* The disk simulator, as far as its end goes.                             *)

\* Its input ends when nobody holds the other end (DiskEndsWithClient).
DiskEnds ==
  /\ disk = "running" /\ NoWriter("disk_in")
  /\ disk' = "ended"
  /\ fds' = [fds EXCEPT !.disk = {}]
  /\ UNCHANGED <<monitorVars, dbVars, to_db, to_monitor, startup>>

DiskFails ==
  /\ disk = "running"
  /\ disk' = "ended"
  /\ fds' = [fds EXCEPT !.disk = {}]
  /\ UNCHANGED <<monitorVars, dbVars, to_db, to_monitor, startup>>

Next ==
  \/ MonitorStep \/ DiskCannotStart \/ MonitorKilled
  \/ DbStep \/ ExecFails \/ DbFails \/ DbFailsInLine
  \/ DiskEnds \/ DiskFails

\* Each process runs while it can; nothing makes one fail.
Fairness == WF_vars(MonitorStep) /\ WF_vars(DbStep) /\ WF_vars(DiskEnds)

Spec == Init /\ [][Next]_vars /\ Fairness

-----------------------------------------------------------------------------
\* The rows among the lines of the database, up to each line and in all.
RowsUpTo(lines) ==
  LET rows[i \in 0 .. Len(lines)] ==
        IF i = 0 THEN <<>>
        ELSE IF lines[i] \in Rows THEN Append(rows[i - 1], lines[i]) ELSE rows[i - 1]
  IN rows
RowsSent == RowsUpTo(sent)[Len(sent)]
Finished == sent # <<>> /\ Last(sent) = "!"

\* What a correct result is: the expected rows, in order unless sort_before_check.
Correct(rows) ==
  IF Current.sort_before_check THEN SameRows(rows, Expected) ELSE rows = Expected

(* Whatever was open when the monitor started, the program the database    *)
(* executes finds exactly its four ends at the numbers io_setup.rs reads   *)
(* and writes, and the disk its two at 0 and 1: a copy of another process' *)
(* end would keep a reader from ever seeing the end of its pipe.           *)
EndsInPlace ==
  /\ DbExecuted => PipeEnds(fds.db) = {<<2 + i, ForDatabase[i]>> : i \in 1 .. 4}
  /\ disk = "running" => PipeEnds(fds.disk) = {<<0, ReadEnd("disk_in")>>, <<1, WriteEnd("disk_out")>>}

(* handle_db calls a query a success only if the database sent the         *)
(* expected rows and then "!"; and a database that did so never fails,     *)
(* whichever process dies afterwards.                                      *)
VerdictIsExact ==
  monitor \in {"wait_db", "wait_disk"} =>
    (verdict = "success" <=> Finished /\ Correct(RowsSent))

(* When the monitor goes on to the next query or ends, both processes of   *)
(* the query have ended, and of its pipes no descriptor is left open.      *)
NothingLeftBehind ==
  /\ monitor \in {"next", "ended"} => db \in {"unborn", "ended"} /\ disk \in {"unborn", "ended"}
  /\ monitor = "next" => fds.monitor = Inherited(inherited)

(* Every session ends with all its processes, whatever the database sends  *)
(* and whichever process dies, the monitor among them, although nobody has *)
(* a timeout.                                                              *)
SessionEnds ==
  <>[](monitor \in {"ended", "gave_up", "killed"} /\ ~DbAlive /\ disk # "running")

=============================================================================
