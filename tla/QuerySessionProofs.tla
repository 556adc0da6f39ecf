------------------------- MODULE QuerySessionProofs -------------------------
(***************************************************************************)
(* Proofs about QuerySession, for any queries, rows, capacity of the pipe  *)
(* and descriptors that are open when the monitor starts: a query's        *)
(* verdict is the right one, whichever process dies when (VerdictExact),   *)
(* the executed programs find the ends of their pipes in place             *)
(* (EndsPlaced), and a query leaves nothing behind (NothingLeft).          *)
(*                                                                         *)
(* The first rests on what the database may have sent in which state       *)
(* (SentInv), on the pipe holding the last lines of it (PipeInv), and on   *)
(* how many lines the monitor has taken in each state (MonitorInv).  The   *)
(* descriptors play no part in it: a call may fail at any time.            *)
(*                                                                         *)
(* The other two rest on what is in each process's table (TableInv): the   *)
(* monitor's is inherited descriptors and ends of pipes, no two of a       *)
(* number (Clean); and on where the two loops of remap_fds have moved      *)
(* which of the first four ends, although later pairs are still in place   *)
(* (FirstMoved).  The folds of these loops are solved explicitly, as four  *)
(* moves each.                                                             *)
(***************************************************************************)
EXTENDS QuerySession, DataLemmas

Lines == Rows \cup {"get_memory_limit", "validate", "!", "torn"}

\* The monitor is at work on a query.
Busy == {"setup_db", "spawn", "send_query", "commands", "validate", "wait_db", "wait_disk"}

\* The database has not got the query yet.
Starting == {"forked", "remapping", "remapped", "read_query"}

TypeInv ==
  /\ monitor \in Busy \cup {"next", "ended", "gave_up", "killed"}
  /\ query \in Nat \ {0}
  /\ monitor \in Busy => query \in 1 .. Len(Queries)
  /\ read_rows \in Seq(Rows)
  /\ db \in Starting \cup {"unborn", "ask_limit", "read_limit", "ask_disk", "begin_validation",
                           "execute", "finished", "ended"}
  /\ to_db \in Seq({"query", "limit"})
  /\ sent \in Seq(Lines) /\ to_monitor \in Seq(Lines)

\* Line i of what the database writes.
LineInPlace(i) ==
  \/ i = 1 /\ sent[i] = "get_memory_limit"
  \/ i = 2 /\ sent[i] = "validate"
  \/ i > 2 /\ sent[i] \in Rows
  \/ i = Len(sent) /\ sent[i] = "torn" /\ db = "ended"
  \/ i = Len(sent) /\ i > 2 /\ sent[i] = "!" /\ db \in {"finished", "ended"}

SentInv ==
  /\ \A i \in 1 .. Len(sent) : LineInPlace(i)
  /\ db \in Starting \cup {"ask_limit"} => Len(sent) = 0
  /\ db \in {"read_limit", "ask_disk", "begin_validation"} => Len(sent) = 1
  /\ db = "execute" => Len(sent) >= 2

\* The lines the monitor has taken from the pipe.
Taken == Len(sent) - Len(to_monitor)

PipeInv ==
  /\ Taken >= 0
  /\ \A i \in 1 .. Len(to_monitor) : to_monitor[i] = sent[Taken + i]

\* The rows read so far are those that were sent, and acceptable.
RowsReadInv ==
  /\ Taken = Len(read_rows) + 2
  /\ Len(read_rows) <= Len(Expected)
  /\ \A i \in 1 .. Len(read_rows) :
       /\ read_rows[i] = sent[i + 2]
       /\ ~Current.sort_before_check => read_rows[i] = Expected[i]

MonitorInv ==
  /\ monitor \in {"next", "setup_db", "wait_disk", "ended"} => db \in {"unborn", "ended"}
  /\ monitor = "wait_db" => db \in {"finished", "ended"}
  /\ monitor \in {"spawn", "send_query", "commands"} => Len(read_rows) = 0
  /\ monitor \in {"spawn", "send_query"} =>
       Len(sent) = 0 /\ Len(to_db) = 0 /\ db \in Starting \cup {"ended"}
  /\ monitor = "commands" =>
       /\ Taken \in 0 .. 1
       /\ Taken = 0 =>
            /\ Len(to_db) <= 1 /\ Len(sent) <= 1
            /\ db \in Starting \cup {"ask_limit", "read_limit", "ended"}
            /\ db \in {"ask_limit", "read_limit"} => Len(to_db) = 0
  /\ monitor = "validate" => RowsReadInv

IInv == TypeInv /\ SentInv /\ PipeInv /\ MonitorInv /\ VerdictIsExact

-----------------------------------------------------------------------------
(* The rows among the lines sent.                                          *)

\* One step of the recursion.
RowsStep(lines, g) ==
  [i \in 0 .. Len(lines) |->
     IF i = 0 THEN <<>>
     ELSE IF lines[i] \in Rows THEN Append(g[i - 1], lines[i]) ELSE g[i - 1]]

(* The recursion has one solution at most.                                 *)
LEMMA RowsAreUnique ==
  ASSUME NEW S, NEW lines \in Seq(S), NEW g, NEW h,
         g = RowsStep(lines, g), h = RowsStep(lines, h)
  PROVE  \A i \in 0 .. Len(lines) : g[i] = h[i]
<1> DEFINE wrong == {i \in 0 .. Len(lines) : g[i] # h[i]}
<1> SUFFICES ASSUME wrong # {} PROVE FALSE
  OBVIOUS
<1>1. wrong \in SUBSET Nat
  OBVIOUS
<1>2. PICK i \in wrong : \A j \in wrong : i <= j
  BY <1>1, LeastElement
<1>3. i \in 0 .. Len(lines) /\ g[i] # h[i]
  BY <1>2
<1>4. /\ g[i] = IF i = 0 THEN <<>>
                ELSE IF lines[i] \in Rows THEN Append(g[i - 1], lines[i]) ELSE g[i - 1]
      /\ h[i] = IF i = 0 THEN <<>>
                ELSE IF lines[i] \in Rows THEN Append(h[i - 1], lines[i]) ELSE h[i - 1]
  BY <1>3, Zenon DEF RowsStep
<1>5. i # 0
  BY <1>3, <1>4
<1>6. i - 1 \in 0 .. Len(lines) /\ i - 1 \notin wrong
  BY <1>2, <1>3, <1>5
<1>7. g[i - 1] = h[i - 1]
  BY <1>6
<1>8. QED  BY <1>3, <1>4, <1>7

LEMMA RowsUpToIs ==
  ASSUME NEW S, NEW lines \in Seq(S), NEW g, g = RowsStep(lines, g)
  PROVE  \A i \in 0 .. Len(lines) : RowsUpTo(lines)[i] = g[i]
<1> DEFINE step(h) ==
      [i \in 0 .. Len(lines) |->
         IF i = 0 THEN <<>>
         ELSE IF lines[i] \in Rows THEN Append(h[i - 1], lines[i]) ELSE h[i - 1]]
           rows == CHOOSE h : h = step(h)
<1>1. RowsUpTo(lines) = rows
  BY DEF RowsUpTo
<1>2. ASSUME NEW h PROVE step(h) = RowsStep(lines, h)
  BY DEF RowsStep
<1> HIDE DEF step
<1>3. g = step(g)
  BY <1>2
<1>4. rows = step(rows)
  BY <1>3
<1> HIDE DEF rows
<1>5. rows = RowsStep(lines, rows)
  BY <1>2, <1>4
<1>6. \A i \in 0 .. Len(lines) : rows[i] = g[i]
  BY <1>5, RowsAreUnique
<1>7. QED  BY <1>1, <1>6

(* When the database has finished, the rows are all lines but the first    *)
(* two and the last.                                                       *)
LEMMA RowsOfFinished ==
  ASSUME NEW lines \in Seq(Lines), NEW n, n = Len(lines), n >= 3,
         lines[1] \notin Rows, lines[2] \notin Rows, lines[n] \notin Rows,
         \A i \in 3 .. n - 1 : lines[i] \in Rows
  PROVE  RowsUpTo(lines)[n] = [j \in 1 .. n - 3 |-> lines[j + 2]]
<1> DEFINE upto(k) == [j \in 1 .. k |-> lines[j + 2]]
           g == [i \in 0 .. n |-> IF i < 2 THEN <<>> ELSE IF i < n THEN upto(i - 2) ELSE upto(n - 3)]
<1>1. n \in Nat
  BY LenProperties
<1>2. ASSUME NEW i \in 0 .. n
      PROVE  g[i] = IF i = 0 THEN <<>>
                    ELSE IF lines[i] \in Rows THEN Append(g[i - 1], lines[i]) ELSE g[i - 1]
  <2>1. upto(0) = <<>>
    OBVIOUS
  <2>2. CASE i = 0
    BY <2>2
  <2>3. CASE i = 1
    BY <1>1, <2>3
  <2>4. CASE i = 2
    BY <1>1, <2>1, <2>4
  <2>5. CASE i \in 3 .. n - 1
    <3>1. g[i] = upto(i - 2) /\ g[i - 1] = upto(i - 3) /\ lines[i] \in Rows
      BY <1>1, <2>1, <2>5
    <3>2. upto(i - 3) \in Seq(Lines) /\ Len(upto(i - 3)) = i - 3
      <4>1. i - 3 \in Nat /\ \A j \in 1 .. i - 3 : lines[j + 2] \in Lines
        BY <1>1, <2>5, ElementOfSeq
      <4>2. upto(i - 3) \in [1 .. i - 3 -> Lines]
        BY <4>1
      <4>3. QED  BY <4>1, <4>2, SeqDef, LenProperties
    <3>3. Append(upto(i - 3), lines[i]) = upto(i - 2)
      <4>1. lines[i] \in Lines
        BY <1>1, <2>5, ElementOfSeq
      <4> DEFINE longer == Append(upto(i - 3), lines[i])
      <4>2. /\ longer \in Seq(Lines) /\ Len(longer) = i - 2
            /\ \A j \in 1 .. i - 3 : longer[j] = lines[j + 2]
            /\ longer[i - 2] = lines[i]
        <5> DEFINE s == upto(i - 3)
        <5>1. s \in Seq(Lines) /\ Len(s) = i - 3
          BY <3>2
        <5>2. \A j \in 1 .. i - 3 : s[j] = lines[j + 2]
          OBVIOUS
        <5> HIDE DEF s
        <5>3. /\ Append(s, lines[i]) \in Seq(Lines) /\ Len(Append(s, lines[i])) = i - 3 + 1
              /\ \A j \in 1 .. i - 3 : Append(s, lines[i])[j] = s[j]
              /\ Append(s, lines[i])[i - 3 + 1] = lines[i]
          BY <4>1, <5>1, AppendProperties
        <5>4. i - 3 + 1 = i - 2
          BY <2>5
        <5>5. QED  BY <5>2, <5>3, <5>4 DEF s
      <4> HIDE DEF longer
      <4>3. longer = [j \in 1 .. i - 2 |-> longer[j]]
        BY <4>2, LenProperties
      <4>4. ASSUME NEW j \in 1 .. i - 2 PROVE longer[j] = lines[j + 2]
        <5>1. CASE j \in 1 .. i - 3
          BY <4>2, <5>1
        <5>2. CASE j = i - 2
          <6>1. j + 2 = i
            BY <2>5, <5>2
          <6>2. QED  BY <4>2, <5>2, <6>1
        <5>3. QED  BY <2>5, <5>1, <5>2
      <4>5. longer = upto(i - 2)
        BY <4>3, <4>4
      <4>6. QED  BY <4>5 DEF longer
    <3>4. i # 0
      BY <2>5
    <3> HIDE DEF g, upto
    <3>5. QED  BY <3>1, <3>3, <3>4
  <2>6. CASE i = n
    <3>1. g[n] = upto(n - 3) /\ g[n - 1] = upto(n - 3)
      BY <1>1
    <3>2. QED  BY <1>1, <2>6, <3>1
  <2>7. QED  BY <1>1, <2>2, <2>3, <2>4, <2>5, <2>6
<1>3. g = RowsStep(lines, g)
  BY <1>2 DEF RowsStep
<1>4. g[n] = upto(n - 3)
  BY <1>1
<1> HIDE DEF g
<1>5. RowsUpTo(lines)[n] = g[n]
  BY <1>1, <1>3, RowsUpToIs
<1>6. QED  BY <1>4, <1>5

(* Lists with the same rows, each as often, are equally long.              *)
LEMMA SameRowsLength ==
  ASSUME NEW s \in Seq(Rows), NEW t \in Seq(Rows), SameRows(s, t)
  PROVE  Len(s) = Len(t)
<1> DEFINE U == ToSet(s) \cup ToSet(t)
           counts(q) == [u \in U |-> Cardinality(Places(q, Len(q), u))]
<1>1. ASSUME NEW q \in Seq(Rows)
      PROVE  /\ Len(q) \in Nat /\ DOMAIN q = 1 .. Len(q)
             /\ IsFiniteSet(ToSet(q)) /\ \A i \in 1 .. Len(q) : q[i] \in ToSet(q)
  <2>1. Len(q) \in Nat /\ DOMAIN q = 1 .. Len(q) /\ \A i \in 1 .. Len(q) : q[i] \in ToSet(q)
    BY ToSetType
  <2>2. IsFiniteSet(1 .. Len(q))
    BY <2>1, FS_Interval
  <2>3. q \in Surjection(1 .. Len(q), ToSet(q))
    BY <2>1 DEF ToSet, Surjection
  <2>4. IsFiniteSet(ToSet(q))
    BY <2>2, <2>3, FS_Surjection
  <2>5. QED  BY <2>1, <2>4
<1>2. IsFiniteSet(U)
  BY <1>1, FS_Union
<1>3. SumOver(counts(s), U) = Len(s)
  <2>1. \A i \in 1 .. Len(s) : s[i] \in U
    BY <1>1
  <2>2. QED  BY <1>1, <1>2, <2>1, OccurrencesSum
<1>4. SumOver(counts(t), U) = Len(t)
  <2>1. \A i \in 1 .. Len(t) : t[i] \in U
    BY <1>1
  <2>2. QED  BY <1>1, <1>2, <2>1, OccurrencesSum
<1>5. \A u \in U : Cardinality(Places(s, Len(s), u)) = Cardinality(Places(t, Len(t), u))
  BY <1>1 DEF SameRows, Places
<1>6. counts(s) = counts(t)
  BY <1>5
<1>7. QED  BY <1>3, <1>4, <1>6

-----------------------------------------------------------------------------
(* The two pipes.                                                          *)

LEMMA RowsAreNoCommands ==
  "!" \notin Rows /\ "validate" \notin Rows /\ "get_memory_limit" \notin Rows
BY QuerySessionAssumption

\* The query at work, and what is expected of it.
LEMMA CurrentType ==
  ASSUME query \in 1 .. Len(Queries)
  PROVE  /\ Current.sort_before_check \in BOOLEAN
         /\ Expected \in Seq(Rows) /\ Len(Expected) \in Nat /\ DOMAIN Expected = 1 .. Len(Expected)
         /\ \A i \in 1 .. Len(Expected) : Expected[i] \in Rows
<1>1. Queries[query] \in [disabled : BOOLEAN, sort_before_check : BOOLEAN, expected : Seq(Rows)]
  BY QuerySessionAssumption, ElementOfSeq
<1>2. Expected \in Seq(Rows) /\ Current.sort_before_check \in BOOLEAN
  BY <1>1 DEF Current, Expected
<1>3. QED  BY <1>2, ToSetType

LEMMA PipeTypes ==
  ASSUME TypeInv
  PROVE  /\ Len(sent) \in Nat /\ Len(to_monitor) \in Nat /\ Len(to_db) \in Nat /\ Len(read_rows) \in Nat
         /\ (to_monitor = <<>>) <=> (Len(to_monitor) = 0)
         /\ (to_db = <<>>) <=> (Len(to_db) = 0)
         /\ (sent = <<>>) <=> (Len(sent) = 0)
         /\ \A i \in 1 .. Len(read_rows) : read_rows[i] \in Rows
<1>1. \A S : \A q \in Seq(S) : Len(q) \in Nat /\ ((q = <<>>) <=> (Len(q) = 0))
  BY LenProperties, EmptySeq
<1>2. \A i \in 1 .. Len(read_rows) : read_rows[i] \in Rows
  BY ElementOfSeq DEF TypeInv
<1>3. QED  BY <1>1, <1>2 DEF TypeInv

\* One line more is sent, and stands last in the pipe.
LineSent(line) ==
  /\ sent' \in Seq(Lines) /\ to_monitor' \in Seq(Lines)
  /\ Len(sent') = Len(sent) + 1 /\ Len(to_monitor') = Len(to_monitor) + 1
  /\ \A i \in 1 .. Len(sent) : sent'[i] = sent[i]
  /\ sent'[Len(sent) + 1] = line
  /\ \A i \in 1 .. Len(to_monitor) : to_monitor'[i] = to_monitor[i]
  /\ to_monitor'[Len(to_monitor) + 1] = line

LEMMA WriteSends ==
  ASSUME TypeInv, NEW line \in Lines, Write(line)
  PROVE  LineSent(line)
<1>1. sent' = Append(sent, line) /\ to_monitor' = Append(to_monitor, line)
  BY DEF Write
<1>2. sent \in Seq(Lines) /\ to_monitor \in Seq(Lines)
  BY DEF TypeInv
<1>3. QED  BY <1>1, <1>2, AppendProperties DEF LineSent

\* The pipe still holds the last lines sent.
LEMMA SendKeepsPipe ==
  ASSUME TypeInv, PipeInv, NEW line, LineSent(line)
  PROVE  PipeInv' /\ Taken' = Taken
<1>1. Taken' = Taken
  BY PipeTypes DEF LineSent, Taken
<1>2. ASSUME NEW i \in 1 .. Len(to_monitor') PROVE to_monitor'[i] = sent'[Taken + i]
  <2>1. CASE i \in 1 .. Len(to_monitor)
    <3>1. Taken + i \in 1 .. Len(sent)
      BY <2>1, PipeTypes DEF PipeInv, Taken
    <3>2. QED  BY <2>1, <3>1 DEF LineSent, PipeInv
  <2>2. CASE i = Len(to_monitor) + 1
    <3>1. Taken + i = Len(sent) + 1
      BY <2>2, PipeTypes DEF Taken
    <3>2. QED  BY <2>2, <3>1 DEF LineSent
  <2>3. QED  BY <2>1, <2>2, PipeTypes DEF LineSent
<1>3. QED  BY <1>1, <1>2 DEF PipeInv

\* The monitor takes the first line.
LEMMA TakeKeepsPipe ==
  ASSUME TypeInv, PipeInv, TakeLine, UNCHANGED sent
  PROVE  /\ PipeInv' /\ to_monitor' \in Seq(Lines)
         /\ to_monitor = <<>> => Taken' = Taken /\ Taken = Len(sent)
         /\ to_monitor # <<>> =>
              /\ Taken' = Taken + 1 /\ Taken + 1 \in 1 .. Len(sent)
              /\ Head(to_monitor) = sent[Taken + 1]
<1>1. CASE to_monitor = <<>>
  BY <1>1, PipeTypes DEF TakeLine, PipeInv, Taken, TypeInv
<1>2. CASE to_monitor # <<>>
  <2>1. /\ to_monitor' \in Seq(Lines) /\ Len(to_monitor') = Len(to_monitor) - 1
        /\ \A i \in 1 .. Len(to_monitor') : to_monitor'[i] = to_monitor[i + 1]
        /\ Head(to_monitor) = to_monitor[1]
    BY <1>2, SequenceTail DEF TakeLine, TypeInv
  <2>2. /\ Taken' = Taken + 1 /\ Taken + 1 \in 1 .. Len(sent) /\ Len(to_monitor) > 0 /\ Taken \in Nat
    BY <1>2, <2>1, PipeTypes DEF PipeInv, Taken
  <2>3. ASSUME NEW i \in 1 .. Len(to_monitor') PROVE to_monitor'[i] = sent'[Taken' + i]
    <3>1. i + 1 \in 1 .. Len(to_monitor) /\ Taken + (i + 1) = (Taken + 1) + i
      BY <2>1, <2>2, PipeTypes
    <3>2. to_monitor[i + 1] = sent[Taken + (i + 1)]
      BY <3>1 DEF PipeInv
    <3>3. QED  BY <2>1, <2>2, <3>1, <3>2
  <2>4. to_monitor[1] = sent[Taken + 1]
    BY <2>2, PipeTypes DEF PipeInv
  <2>5. QED  BY <1>2, <2>1, <2>2, <2>3, <2>4 DEF PipeInv
<1>3. QED  BY <1>1, <1>2

-----------------------------------------------------------------------------
(* The conversation, step by step.                                         *)

LEMMA InitConversation == Init => IInv
<1> SUFFICES ASSUME Init PROVE IInv
  OBVIOUS
<1>1. Len(<<>>) = 0
  OBVIOUS
<1>2. TypeInv
  BY DEF Init, TypeInv, Busy
<1>3. SentInv /\ PipeInv /\ MonitorInv /\ VerdictIsExact
  BY <1>1 DEF Init, SentInv, PipeInv, Taken, MonitorInv, VerdictIsExact, Starting
<1>4. QED  BY <1>2, <1>3 DEF IInv

\* A verdict stays right while nothing is sent.
LEMMA VerdictStays ==
  ASSUME VerdictIsExact,
         monitor' \in {"wait_db", "wait_disk"} =>
           monitor \in {"wait_db", "wait_disk"} /\ UNCHANGED <<verdict, query, sent>>
  PROVE  VerdictIsExact'
<1>1. CASE monitor' \notin {"wait_db", "wait_disk"}
  BY <1>1 DEF VerdictIsExact
<1>2. CASE monitor' \in {"wait_db", "wait_disk"}
  <2>1. monitor \in {"wait_db", "wait_disk"} /\ verdict' = verdict /\ query' = query /\ sent' = sent
    BY <1>2
  <2>2. Finished' = Finished /\ Correct(RowsSent)' = Correct(RowsSent)
    BY <2>1 DEF Finished, Correct, RowsSent, RowsUpTo, Current, Expected
  <2>3. QED  BY <2>1, <2>2 DEF VerdictIsExact
<1>3. QED  BY <1>1, <1>2

\* Nothing is sent, and the database goes on, without a word, or ends.
LEMMA SilentDatabase ==
  ASSUME SentInv, UNCHANGED sent,
         \/ db' = db
         \/ db' = "ended"
         \/ db \in Starting /\ db' \in Starting \cup {"ask_limit"}
         \/ db \in {"read_limit", "ask_disk"} /\ db' \in {"ask_disk", "begin_validation"}
  PROVE  SentInv'
BY DEF SentInv, LineInPlace, Starting

LEMMA MonitorOnly ==
  ASSUME IInv, UNCHANGED <<read_rows, db, to_db, to_monitor, sent>>
  PROVE  SentInv' /\ PipeInv' /\ Taken' = Taken
BY SilentDatabase DEF IInv, PipeInv, Taken

LEMMA MonitorMoves ==
  ASSUME IInv,
         \/ NoMoreQueries \/ SkipDisabled \/ SetupDisk \/ DiskCannotStart \/ SpawnReturns
         \/ WaitDb \/ WaitDisk \/ MonitorKilled
  PROVE  IInv'
<1>1. UNCHANGED <<read_rows, db, to_db, to_monitor, sent>>
  BY DEF NoMoreQueries, SkipDisabled, SetupDisk, DiskCannotStart, SpawnReturns, WaitDb, WaitDisk,
         EndOfQuery, MonitorKilled, dbVars
<1>2. SentInv' /\ PipeInv' /\ Taken' = Taken
  BY <1>1, MonitorOnly
<1>3. TypeInv'
  <2>1. Len(Queries) \in Nat
    BY QuerySessionAssumption, LenProperties
  <2>2. QED
    BY <1>1, <2>1 DEF IInv, TypeInv, Busy, NoMoreQueries, SkipDisabled, SetupDisk, DiskCannotStart,
                      SpawnReturns, WaitDb, WaitDisk, EndOfQuery, MonitorKilled
<1>4. MonitorInv'
  BY <1>1, <1>2 DEF IInv, MonitorInv, NoMoreQueries, SkipDisabled, SetupDisk, DiskCannotStart,
                    SpawnReturns, WaitDb, WaitDisk, EndOfQuery, MonitorKilled
<1>5. VerdictIsExact'
  BY <1>1, VerdictStays DEF IInv, NoMoreQueries, SkipDisabled, SetupDisk, DiskCannotStart,
                    SpawnReturns, WaitDb, WaitDisk, EndOfQuery, MonitorKilled
<1>6. QED  BY <1>2, <1>3, <1>4, <1>5 DEF IInv

LEMMA NewConversation ==
  ASSUME IInv, SetupDb
  PROVE  IInv'
<1>1. Len(<<>>) = 0
  OBVIOUS
<1>2. /\ monitor = "setup_db" /\ monitor' = "spawn" /\ db' = "forked" /\ query' = query
      /\ to_db' = <<>> /\ to_monitor' = <<>> /\ sent' = <<>> /\ read_rows' = <<>>
  BY DEF SetupDb
<1>3. TypeInv'
  BY <1>2 DEF IInv, TypeInv, Busy, Starting
<1>4. SentInv' /\ PipeInv' /\ MonitorInv' /\ VerdictIsExact'
  BY <1>1, <1>2 DEF SentInv, PipeInv, Taken, MonitorInv, VerdictIsExact, Starting
<1>5. QED  BY <1>3, <1>4 DEF IInv

\* The database goes on, in silence, or ends.
LEMMA DatabaseMoves ==
  ASSUME IInv,
         \/ RemapAway \/ RemapToTargets \/ ExecDatabase \/ ExecFails
         \/ ReadQuery \/ ReadMemoryLimit \/ AskDisk \/ CallDisk \/ DbExits \/ DbFails
  PROVE  IInv'
<1>1. /\ UNCHANGED <<monitor, query, verdict, read_rows, to_monitor, sent>>
      /\ \/ UNCHANGED to_db
         \/ to_db # <<>> /\ to_db' = Tail(to_db) /\ db \in {"read_query", "read_limit"}
      /\ \/ db' = db \/ db' = "ended"
         \/ db = "forked" /\ db' = "remapping"
         \/ db = "remapping" /\ db' = "remapped"
         \/ db = "remapped" /\ db' = "read_query"
         \/ db = "read_query" /\ db' = "ask_limit" /\ to_db # <<>> /\ to_db' = Tail(to_db)
         \/ db = "read_limit" /\ db' = "ask_disk" /\ to_db # <<>> /\ to_db' = Tail(to_db)
         \/ db = "ask_disk" /\ db' = "begin_validation"
  BY DEF RemapAway, RemapToTargets, ExecDatabase, ExecFails, ReadQuery, ReadMemoryLimit, AskDisk,
         CallDisk, DbExits, DbFails, DbEnds, monitorVars
<1>2. to_db' \in Seq({"query", "limit"}) /\ Len(to_db') <= Len(to_db) /\ Len(to_db') \in Nat
      /\ (to_db' = Tail(to_db) /\ to_db # <<>> => Len(to_db') = Len(to_db) - 1)
  <2>1. to_db \in Seq({"query", "limit"}) /\ Len(to_db) \in Nat
    BY PipeTypes DEF IInv, TypeInv
  <2>2. CASE UNCHANGED to_db
    <3>1. to_db # <<>> => Tail(to_db) # to_db
      BY <2>1, SequenceTail
    <3>2. QED  BY <2>1, <2>2, <3>1
  <2>3. CASE to_db # <<>> /\ to_db' = Tail(to_db)
    BY <2>1, <2>3, SequenceTail
  <2>4. QED  BY <1>1, <2>2, <2>3
<1>3. TypeInv'
  BY <1>1, <1>2 DEF IInv, TypeInv, Starting, Busy
<1>4. SentInv'
  BY <1>1, SilentDatabase DEF IInv, Starting
<1>5. PipeInv' /\ Taken' = Taken
  BY <1>1 DEF IInv, PipeInv, Taken
<1>6. MonitorInv'
  <2>1. RowsReadInv' <=> RowsReadInv
    BY <1>1, <1>5 DEF RowsReadInv, Current, Expected
  <2>2. Len(to_db) \in Nat /\ (to_db = <<>> <=> Len(to_db) = 0)
    BY PipeTypes DEF IInv
  <2>3. QED  BY <1>1, <1>2, <1>5, <2>1, <2>2 DEF IInv, MonitorInv, Starting
<1>7. VerdictIsExact'
  BY <1>1, VerdictStays DEF IInv
<1>8. QED  BY <1>3, <1>4, <1>5, <1>6, <1>7 DEF IInv

\* A line is sent: all but the states of the database are the same for any line.
LEMMA DatabaseSends ==
  ASSUME IInv, NEW line \in Lines, Write(line), UNCHANGED <<monitorVars, to_db>>,
         db \in {"ask_limit", "begin_validation", "execute"},
         db' \in {"read_limit", "execute", "finished", "ended"},
         db = "ask_limit" => db' \in {"read_limit", "ended"},
         SentInv'
  PROVE  IInv'
<1>1. UNCHANGED <<monitor, query, verdict, read_rows, to_db>> /\ TypeInv /\ PipeInv /\ MonitorInv
      /\ VerdictIsExact
  BY DEF monitorVars, IInv
<1>2. LineSent(line)
  BY <1>1, WriteSends
<1>3. PipeInv' /\ Taken' = Taken
  BY <1>1, <1>2, SendKeepsPipe
<1>4. TypeInv'
  BY <1>1, <1>2 DEF TypeInv, LineSent, Starting, Busy
<1>5. monitor \notin {"next", "setup_db", "spawn", "send_query", "wait_db", "wait_disk", "ended"}
  BY <1>1 DEF MonitorInv, Starting
<1>6. MonitorInv'
  <2>1. RowsReadInv => RowsReadInv'
    <3> SUFFICES ASSUME RowsReadInv PROVE RowsReadInv'
      OBVIOUS
    <3>1. \A i \in 1 .. Len(read_rows) : i + 2 \in 1 .. Len(sent)
      BY <1>1, PipeTypes DEF RowsReadInv, Taken
    <3>2. \A i \in 1 .. Len(read_rows) : sent'[i + 2] = sent[i + 2]
      BY <1>2, <3>1 DEF LineSent
    <3>3. QED  BY <1>1, <1>3, <3>2 DEF RowsReadInv, Current, Expected
  <2>2. ASSUME monitor = "commands", Taken = 0
        PROVE  /\ Len(to_db') = 0 /\ Len(sent') = 1 /\ db' \in {"read_limit", "ended"}
    <3>1. db = "ask_limit" /\ Len(to_db) = 0
      BY <2>2, <1>1 DEF MonitorInv, Starting
    <3>2. Len(sent) = 0
      BY <3>1 DEF IInv, SentInv
    <3>3. QED  BY <1>1, <1>2, <3>1, <3>2 DEF LineSent
  <2>3. CASE monitor = "commands"
    BY SMTT(30), <1>1, <1>3, <2>2, <2>3 DEF MonitorInv
  <2>4. CASE monitor = "validate"
    BY <1>1, <2>1, <2>4 DEF MonitorInv
  <2>5. QED  BY <1>1, <1>5, <2>3, <2>4 DEF MonitorInv
<1>7. VerdictIsExact'
  BY <1>1, <1>5, VerdictStays
<1>8. QED  BY <1>3, <1>4, <1>6, <1>7 DEF IInv

(* A line in its place, after those that were there.                       *)
LEMMA LineAfterLines ==
  ASSUME IInv, NEW line \in Lines, Write(line),
         db \in {"ask_limit", "begin_validation", "execute"},
         \/ db = "ask_limit" /\ line = "get_memory_limit" /\ db' = "read_limit"
         \/ db = "begin_validation" /\ line = "validate" /\ db' = "execute"
         \/ db = "execute" /\ line \in Rows /\ db' = "execute"
         \/ db = "execute" /\ line = "!" /\ db' = "finished"
         \/ line = "torn" /\ db' = "ended"
  PROVE  SentInv'
<1>1. LineSent(line) /\ SentInv /\ Len(sent) \in Nat
  BY WriteSends, PipeTypes DEF IInv
<1>2. Len(sent') = Len(sent) + 1 /\ sent'[Len(sent) + 1] = line /\ \A i \in 1 .. Len(sent) : sent'[i] = sent[i]
  BY <1>1 DEF LineSent
<1>3. /\ db = "ask_limit" => Len(sent) = 0
      /\ db = "begin_validation" => Len(sent) = 1
      /\ db = "execute" => Len(sent) >= 2
  BY <1>1 DEF SentInv, Starting
<1>4. ASSUME NEW i \in 1 .. Len(sent) PROVE LineInPlace(i)'
  BY <1>1, <1>2, <1>4 DEF SentInv, LineInPlace
<1>5. ASSUME NEW i \in Nat, i = Len(sent) + 1 PROVE LineInPlace(i)'
  BY <1>1, <1>2, <1>3, <1>5 DEF LineInPlace
<1>6. \A i \in 1 .. Len(sent') : LineInPlace(i)'
  <2>1. \A i \in 1 .. Len(sent') : i \in 1 .. Len(sent) \/ i = Len(sent) + 1
    BY <1>1, <1>2
  <2>2. QED  BY <1>4, <1>5, <2>1
<1>7. QED  BY SMTT(30), <1>1, <1>2, <1>3, <1>6 DEF SentInv, Starting

LEMMA DatabaseSpeaks ==
  ASSUME IInv,
         AskMemoryLimit \/ BeginValidation \/ SendRow \/ FinishValidation \/ DbFailsInLine
  PROVE  IInv'
<1>1. CASE AskMemoryLimit
  BY <1>1, DatabaseSends, LineAfterLines DEF AskMemoryLimit, Lines
<1>2. CASE BeginValidation
  BY <1>2, DatabaseSends, LineAfterLines DEF BeginValidation, Lines
<1>3. CASE SendRow
  BY <1>3, DatabaseSends, LineAfterLines DEF SendRow, Lines
<1>4. CASE FinishValidation
  BY <1>4, DatabaseSends, LineAfterLines DEF FinishValidation, Lines
<1>5. CASE DbFailsInLine
  BY <1>5, DatabaseSends, LineAfterLines DEF DbFailsInLine, DbEnds, Lines
<1>6. QED  BY <1>1, <1>2, <1>3, <1>4, <1>5

-----------------------------------------------------------------------------
(* What the monitor makes of the lines.                                    *)

(* A database that has finished has sent both commands, its rows and "!".  *)
LEMMA FinishedMeans ==
  ASSUME TypeInv, SentInv, Finished
  PROVE  /\ Len(sent) >= 3 /\ sent[Len(sent)] = "!" /\ db \in {"finished", "ended"}
         /\ sent[1] = "get_memory_limit" /\ sent[2] = "validate"
         /\ \A i \in 3 .. Len(sent) - 1 : sent[i] \in Rows
         /\ RowsSent \in Seq(Rows) /\ Len(RowsSent) = Len(sent) - 3
         /\ \A i \in 1 .. Len(sent) - 3 : RowsSent[i] = sent[i + 2]
<1> DEFINE n == Len(sent)
<1>1. n \in Nat /\ n # 0 /\ sent[n] = "!"
  BY PipeTypes DEF Finished, Last
<1>2. LineInPlace(n)
  BY <1>1 DEF SentInv
<1>3. n > 2 /\ db \in {"finished", "ended"}
  BY <1>1, <1>2, RowsAreNoCommands DEF LineInPlace
<1>4. LineInPlace(1) /\ LineInPlace(2) /\ \A i \in 3 .. n - 1 : LineInPlace(i)
  BY <1>1, <1>3 DEF SentInv
<1>5. /\ sent[1] = "get_memory_limit" /\ sent[2] = "validate"
      /\ \A i \in 3 .. n - 1 : sent[i] \in Rows
  BY <1>1, <1>3, <1>4 DEF LineInPlace
<1>6. RowsSent = [j \in 1 .. n - 3 |-> sent[j + 2]]
  <2>1. sent \in Seq(Lines) /\ n >= 3
    BY <1>1, <1>3 DEF TypeInv
  <2>2. sent[1] \notin Rows /\ sent[2] \notin Rows /\ sent[n] \notin Rows
    BY <1>1, <1>5, RowsAreNoCommands
  <2>3. RowsUpTo(sent)[n] = [j \in 1 .. n - 3 |-> sent[j + 2]]
    BY <1>5, <2>1, <2>2, RowsOfFinished
  <2>4. QED  BY <2>3 DEF RowsSent
<1>7. n - 3 \in Nat /\ \A j \in 1 .. n - 3 : sent[j + 2] \in Rows
  BY <1>1, <1>3, <1>5
<1>8. RowsSent \in [1 .. n - 3 -> Rows]
  BY <1>6, <1>7
<1>9. RowsSent \in Seq(Rows) /\ Len(RowsSent) = n - 3
  BY <1>7, <1>8, SeqDef, LenProperties
<1>10. QED  BY <1>1, <1>3, <1>5, <1>6, <1>9

\* The monitor takes a line, or the end, and the database does nothing.
LEMMA MonitorTakes ==
  ASSUME IInv, TakeLine, UNCHANGED <<query, db, sent>>
  PROVE  /\ TypeInv /\ SentInv /\ SentInv' /\ PipeInv' /\ to_monitor' \in Seq(Lines)
         /\ Len(sent) \in Nat /\ Len(read_rows) \in Nat
         /\ to_monitor = <<>> => Taken' = Taken /\ Taken = Len(sent)
         /\ to_monitor # <<>> =>
              /\ Taken' = Taken + 1 /\ Taken + 1 \in 1 .. Len(sent)
              /\ Head(to_monitor) = sent[Taken + 1] /\ LineInPlace(Taken + 1)
<1>1. TypeInv /\ SentInv /\ PipeInv
  BY DEF IInv
<1>2. SentInv'
  BY <1>1, SilentDatabase
<1>3. to_monitor # <<>> => LineInPlace(Taken + 1)
  BY <1>1, TakeKeepsPipe DEF SentInv
<1>4. QED  BY <1>1, <1>2, <1>3, TakeKeepsPipe, PipeTypes

(* handle_db fails: the query's verdict is right if the database had not   *)
(* sent the expected result, and it sends no more.                         *)
LEMMA FailureIsRight ==
  ASSUME IInv, Fail, UNCHANGED read_rows, TakeLine \/ UNCHANGED to_monitor,
         monitor \in Busy, ~ (Finished /\ Correct(RowsSent))
  PROVE  IInv'
<1>1. /\ monitor' = "wait_disk" /\ db' = "ended" /\ verdict' = "failure"
      /\ UNCHANGED <<query, to_db, sent, read_rows>> /\ TypeInv /\ SentInv /\ PipeInv
  BY DEF Fail, IInv
<1>2. PipeInv' /\ to_monitor' \in Seq(Lines)
  <2>1. CASE TakeLine
    BY <1>1, <2>1, TakeKeepsPipe
  <2>2. CASE UNCHANGED to_monitor
    BY <1>1, <2>2 DEF PipeInv, Taken, TypeInv
  <2>3. QED  BY <2>1, <2>2
<1>3. TypeInv'
  BY <1>1, <1>2 DEF TypeInv, Busy
<1>4. SentInv'
  BY <1>1, SilentDatabase
<1>5. MonitorInv'
  BY <1>1 DEF MonitorInv
<1>6. VerdictIsExact'
  <2>1. Finished' = Finished /\ Correct(RowsSent)' = Correct(RowsSent)
    BY <1>1 DEF Finished, Correct, RowsSent, RowsUpTo, Current, Expected
  <2>2. QED  BY <1>1, <2>1 DEF VerdictIsExact
<1>7. QED  BY <1>2, <1>3, <1>4, <1>5, <1>6 DEF IInv

\* Before "validate" is taken the database has not finished, unless it is there.
LEMMA NotFinishedBefore ==
  ASSUME IInv, monitor = "commands",
         \/ Taken = 0
         \/ to_monitor = <<>>
         \/ to_monitor # <<>> /\ Taken = 1 /\ sent[2] # "validate"
  PROVE  ~Finished
<1> SUFFICES ASSUME Finished PROVE FALSE
  OBVIOUS
<1>1. Len(sent) >= 3 /\ sent[2] = "validate" /\ Len(sent) \in Nat
  BY FinishedMeans, PipeTypes DEF IInv
<1>2. Taken \in 0 .. 1 /\ (Taken = 0 => Len(sent) <= 1)
  BY DEF IInv, MonitorInv
<1>3. to_monitor # <<>>
  <2> SUFFICES ASSUME to_monitor = <<>> PROVE FALSE
    OBVIOUS
  <2>1. Taken = Len(sent)
    BY PipeTypes DEF Taken, IInv
  <2>2. QED  BY <1>1, <1>2, <2>1
<1>4. QED  BY <1>1, <1>2, <1>3

LEMMA QuerySent ==
  ASSUME IInv, SendQuery
  PROVE  IInv'
<1>1. monitor = "send_query" /\ TypeInv /\ SentInv /\ PipeInv /\ MonitorInv /\ VerdictIsExact
  BY DEF SendQuery, IInv
<1>2. Len(sent) = 0 /\ Len(to_db) = 0 /\ db \in Starting \cup {"ended"} /\ Len(read_rows) = 0
      /\ Len(to_monitor) \in Nat /\ to_db \in Seq({"query", "limit"})
  BY <1>1, PipeTypes DEF MonitorInv, TypeInv
<1>3. CASE /\ to_db' = Append(to_db, "query") /\ monitor' = "commands"
           /\ UNCHANGED <<query, verdict, reported, read_rows, dbVars, disk, to_monitor, descriptors>>
  <2>1. UNCHANGED <<query, read_rows, db, sent, to_monitor>>
    BY <1>3 DEF dbVars
  <2>2. to_db' \in Seq({"query", "limit"}) /\ Len(to_db') = 1
    BY <1>2, <1>3, AppendProperties
  <2>3. TypeInv'
    BY <1>1, <1>3, <2>1, <2>2 DEF TypeInv, Busy
  <2>4. SentInv' /\ PipeInv' /\ Taken' = Taken
    BY <1>1, <2>1, SilentDatabase DEF PipeInv, Taken
  <2>5. Taken = 0
    BY <1>1, <1>2 DEF PipeInv, Taken
  <2>6. MonitorInv'
    BY <1>2, <1>3, <2>1, <2>2, <2>4, <2>5 DEF MonitorInv, Starting
  <2>7. VerdictIsExact'
    BY <1>3 DEF VerdictIsExact
  <2>8. QED  BY <2>3, <2>4, <2>6, <2>7 DEF IInv
<1>4. CASE Fail /\ UNCHANGED <<read_rows, to_monitor>>
  <2>1. ~Finished
    BY <1>1, <1>2, FinishedMeans
  <2>2. QED  BY <1>1, <1>4, <2>1, FailureIsRight DEF Busy
<1>5. QED  BY <1>3, <1>4 DEF SendQuery

LEMMA LimitAnswered ==
  ASSUME IInv, AnswerMemoryLimit
  PROVE  IInv'
<1>1. /\ monitor = "commands" /\ to_monitor # <<>> /\ Head(to_monitor) = "get_memory_limit" /\ TakeLine
      /\ UNCHANGED <<query, sent, read_rows>>
      /\ TypeInv /\ MonitorInv
  BY DEF AnswerMemoryLimit, Line, Fail, monitorVars, dbVars, IInv
<1>2. Taken \in 0 .. 1
  BY <1>1 DEF MonitorInv
<1>3. CASE to_db' = Append(to_db, "limit") /\ UNCHANGED <<monitorVars, dbVars, disk, descriptors>>
  <2>1. UNCHANGED <<monitor, query, verdict, read_rows, db, sent>>
    BY <1>3 DEF monitorVars, dbVars
  <2>2. /\ SentInv' /\ PipeInv' /\ to_monitor' \in Seq(Lines)
        /\ Taken' = Taken + 1 /\ Taken + 1 \in 1 .. Len(sent)
        /\ sent[Taken + 1] = "get_memory_limit" /\ LineInPlace(Taken + 1)
    BY <1>1, <2>1, MonitorTakes
  <2>3. Taken' = 1
    BY <1>2, <2>2 DEF LineInPlace
  <2>4. to_db' \in Seq({"query", "limit"})
    BY <1>1, <1>3, AppendProperties DEF TypeInv
  <2>5. TypeInv'
    BY <1>1, <2>1, <2>2, <2>4 DEF TypeInv
  <2>6. MonitorInv'
    BY <1>1, <2>1, <2>3 DEF MonitorInv
  <2>7. VerdictIsExact'
    BY <1>1, <2>1 DEF VerdictIsExact
  <2>8. QED  BY <2>2, <2>5, <2>6, <2>7 DEF IInv
<1>4. CASE Fail /\ UNCHANGED read_rows
  <2>1. /\ Taken + 1 \in 1 .. Len(sent) /\ sent[Taken + 1] = "get_memory_limit" /\ LineInPlace(Taken + 1)
    BY <1>1, TakeKeepsPipe DEF IInv, SentInv
  <2>2. Taken = 0
    BY <1>2, <2>1 DEF LineInPlace
  <2>3. ~Finished
    BY <1>1, <2>2, NotFinishedBefore
  <2>4. QED  BY <1>1, <1>4, <2>3, FailureIsRight DEF Busy
<1>5. QED  BY <1>3, <1>4 DEF AnswerMemoryLimit

LEMMA ValidationStarted ==
  ASSUME IInv, StartValidation
  PROVE  IInv'
<1>1. /\ monitor = "commands" /\ to_monitor # <<>> /\ Head(to_monitor) = "validate" /\ TakeLine
      /\ monitor' = "validate"
      /\ UNCHANGED <<query, verdict, read_rows, db, sent, to_db>>
      /\ TypeInv /\ MonitorInv
  BY DEF StartValidation, Line, dbVars, IInv
<1>2. /\ SentInv' /\ PipeInv' /\ to_monitor' \in Seq(Lines)
      /\ Taken' = Taken + 1 /\ Taken + 1 \in 1 .. Len(sent)
      /\ sent[Taken + 1] = "validate" /\ LineInPlace(Taken + 1)
  BY <1>1, MonitorTakes
<1>3. Taken' = 2
  <2>1. Taken \in 0 .. 1
    BY <1>1 DEF MonitorInv
  <2>2. QED  BY <1>2, <2>1 DEF LineInPlace
<1>4. TypeInv'
  BY <1>1, <1>2 DEF TypeInv, Busy
<1>5. RowsReadInv'
  <2>1. Len(read_rows) = 0 /\ query \in 1 .. Len(Queries)
    BY <1>1 DEF MonitorInv, TypeInv, Busy
  <2>2. Len(Expected) \in Nat /\ Expected' = Expected
    BY <1>1, <2>1, CurrentType DEF Expected, Current
  <2>3. QED  BY <1>1, <1>3, <2>1, <2>2 DEF RowsReadInv
<1>6. MonitorInv'
  BY <1>1, <1>5 DEF MonitorInv
<1>7. VerdictIsExact'
  BY <1>1 DEF VerdictIsExact
<1>8. QED  BY <1>2, <1>4, <1>6, <1>7 DEF IInv

LEMMA ValidationRefused ==
  ASSUME IInv, NoValidation
  PROVE  IInv'
<1>1. /\ monitor = "commands" /\ TakeLine /\ Fail /\ UNCHANGED read_rows
      /\ to_monitor = <<>> \/ (to_monitor # <<>> /\ Head(to_monitor) # "validate")
  BY DEF NoValidation, AtEnd
<1>2. ~Finished
  <2>1. CASE to_monitor = <<>>
    BY <1>1, <2>1, NotFinishedBefore
  <2>2. CASE to_monitor # <<>> /\ Head(to_monitor) # "validate"
    <3>1. Head(to_monitor) = sent[Taken + 1]
      BY <1>1, <2>2, TakeKeepsPipe DEF Fail, IInv
    <3>2. Taken = 0 \/ Taken = 1
      BY <1>1 DEF IInv, MonitorInv
    <3>3. Taken = 1 => sent[2] # "validate"
      BY <2>2, <3>1
    <3>4. QED  BY <1>1, <2>2, <3>2, <3>3, NotFinishedBefore
  <2>3. QED  BY <1>1, <2>1, <2>2
<1>3. QED  BY <1>1, <1>2, FailureIsRight DEF Busy

LEMMA RowRead ==
  ASSUME IInv, ReadRow
  PROVE  IInv'
<1>1. PICK row \in Rows :
        /\ to_monitor # <<>> /\ Head(to_monitor) = row /\ TakeLine
        /\ AcceptRow(row) /\ read_rows' = Append(read_rows, row)
  BY DEF ReadRow, Line
<1>2. /\ monitor = "validate" /\ UNCHANGED <<monitor, query, verdict, db, sent, to_db>>
      /\ TypeInv /\ MonitorInv /\ RowsReadInv /\ Len(read_rows) \in Nat
  BY PipeTypes DEF ReadRow, dbVars, IInv, MonitorInv
<1>3. /\ SentInv' /\ PipeInv' /\ to_monitor' \in Seq(Lines)
      /\ Taken' = Taken + 1 /\ sent[Taken + 1] = row
  BY <1>1, <1>2, MonitorTakes
<1>4. /\ read_rows' \in Seq(Rows) /\ Len(read_rows') = Len(read_rows) + 1
      /\ \A i \in 1 .. Len(read_rows) : read_rows'[i] = read_rows[i]
      /\ read_rows'[Len(read_rows) + 1] = row
  BY <1>1, <1>2, AppendProperties DEF TypeInv
<1>5. Expected' = Expected /\ Current' = Current /\ Len(Expected) \in Nat
  <2>1. query \in 1 .. Len(Queries)
    BY <1>2 DEF TypeInv, Busy
  <2>2. QED  BY <1>2, <2>1, CurrentType DEF Expected, Current
<1>6. RowsReadInv'
  <2>1. Taken' = Len(read_rows') + 2 /\ Len(read_rows') <= Len(Expected)
    BY <1>1, <1>2, <1>3, <1>4, <1>5 DEF RowsReadInv, AcceptRow
  <2>2. ASSUME NEW i \in 1 .. Len(read_rows')
        PROVE  /\ read_rows'[i] = sent[i + 2]
               /\ ~Current.sort_before_check => read_rows'[i] = Expected[i]
    <3>1. CASE i \in 1 .. Len(read_rows)
      BY <1>2, <1>4, <3>1 DEF RowsReadInv
    <3>2. CASE i = Len(read_rows) + 1
      <4>1. i + 2 = Taken + 1
        BY <1>2, <3>2 DEF RowsReadInv
      <4>2. QED  BY <1>1, <1>3, <1>4, <3>2, <4>1 DEF AcceptRow
    <3>3. QED  BY <1>2, <1>4, <3>1, <3>2
  <2>3. QED  BY <1>2, <1>5, <2>1, <2>2 DEF RowsReadInv
<1>7. TypeInv'
  BY <1>2, <1>3, <1>4 DEF TypeInv
<1>8. MonitorInv'
  BY <1>2, <1>6 DEF MonitorInv
<1>9. VerdictIsExact'
  BY <1>2 DEF VerdictIsExact
<1>10. QED  BY <1>3, <1>7, <1>8, <1>9 DEF IInv

(* When the next line is "!", what was sent is what was read.              *)
LEMMA AllRowsAreRead ==
  ASSUME IInv, monitor = "validate", to_monitor # <<>>, Head(to_monitor) = "!",
         TakeLine, UNCHANGED sent
  PROVE  /\ Finished /\ RowsSent = read_rows /\ db \in {"finished", "ended"}
         /\ Correct(RowsSent) <=> AllRead
<1>1. TypeInv /\ SentInv /\ RowsReadInv /\ Len(read_rows) \in Nat /\ Len(sent) \in Nat
  BY PipeTypes DEF IInv, MonitorInv
<1>2. Taken + 1 \in 1 .. Len(sent) /\ sent[Taken + 1] = "!" /\ LineInPlace(Taken + 1)
  BY <1>1, TakeKeepsPipe DEF IInv, SentInv
<1>3. Len(sent) = Len(read_rows) + 3 /\ sent[Len(sent)] = "!"
  BY <1>1, <1>2, RowsAreNoCommands DEF LineInPlace, RowsReadInv
<1>4. Finished
  BY <1>1, <1>3, PipeTypes DEF Finished, Last
<1>5. /\ RowsSent \in Seq(Rows) /\ Len(RowsSent) = Len(read_rows) /\ db \in {"finished", "ended"}
      /\ \A i \in 1 .. Len(read_rows) : RowsSent[i] = sent[i + 2]
  BY <1>1, <1>3, <1>4, FinishedMeans
<1>6. \A i \in 1 .. Len(read_rows) : RowsSent[i] = read_rows[i]
  BY <1>1, <1>5 DEF RowsReadInv
<1>7. read_rows \in Seq(Rows)
  BY <1>1 DEF TypeInv
<1>8. RowsSent = read_rows
  BY <1>5, <1>6, <1>7, SeqEqual
<1>9. query \in 1 .. Len(Queries)
  BY <1>1 DEF TypeInv, Busy
<1>10. Correct(read_rows) <=> AllRead
  <2>1. Expected \in Seq(Rows) /\ Len(Expected) \in Nat /\ Current.sort_before_check \in BOOLEAN
    BY <1>9, CurrentType
  <2>2. CASE Current.sort_before_check
    <3>1. Correct(read_rows) <=> SameRows(read_rows, Expected)
      BY <2>2 DEF Correct
    <3>2. SameRows(read_rows, Expected) => Len(read_rows) = Len(Expected)
      BY <1>7, <2>1, SameRowsLength
    <3>3. QED  BY <2>2, <3>1, <3>2 DEF AllRead
  <2>3. CASE ~Current.sort_before_check
    <3>1. Correct(read_rows) <=> read_rows = Expected
      BY <2>3 DEF Correct
    <3>2. AllRead <=> Len(read_rows) = Len(Expected)
      BY <2>3 DEF AllRead
    <3>3. \A i \in 1 .. Len(read_rows) : read_rows[i] = Expected[i]
      BY <1>1, <2>3 DEF RowsReadInv
    <3>4. Len(read_rows) = Len(Expected) => read_rows = Expected
      BY <1>7, <2>1, <3>3, SeqEqual
    <3>5. QED  BY <3>1, <3>2, <3>4
  <2>4. QED  BY <2>2, <2>3
<1>11. QED  BY <1>4, <1>5, <1>8, <1>10

LEMMA ResultAccepted ==
  ASSUME IInv, AcceptResult
  PROVE  IInv'
<1>1. /\ monitor = "validate" /\ to_monitor # <<>> /\ Head(to_monitor) = "!" /\ TakeLine /\ AllRead
      /\ monitor' = "wait_db" /\ verdict' = "success"
      /\ UNCHANGED <<query, read_rows, db, sent, to_db>> /\ TypeInv
  BY DEF AcceptResult, Line, dbVars, IInv
<1>2. SentInv' /\ PipeInv' /\ to_monitor' \in Seq(Lines)
  BY <1>1, MonitorTakes
<1>3. Finished /\ Correct(RowsSent) /\ db \in {"finished", "ended"}
  BY <1>1, AllRowsAreRead
<1>4. TypeInv'
  BY <1>1, <1>2 DEF TypeInv, Busy
<1>5. MonitorInv'
  BY <1>1, <1>3 DEF MonitorInv
<1>6. VerdictIsExact'
  <2>1. Finished' = Finished /\ Correct(RowsSent)' = Correct(RowsSent)
    BY <1>1 DEF Finished, Correct, RowsSent, RowsUpTo, Current, Expected
  <2>2. QED  BY <1>1, <1>3, <2>1 DEF VerdictIsExact
<1>7. QED  BY <1>2, <1>4, <1>5, <1>6 DEF IInv

LEMMA ResultRejected ==
  ASSUME IInv, RejectResult
  PROVE  IInv'
<1>1. /\ monitor = "validate" /\ TakeLine /\ Fail /\ UNCHANGED <<read_rows, query, sent>>
      /\ TypeInv /\ SentInv /\ PipeInv /\ RowsReadInv
      /\ Len(read_rows) \in Nat /\ Len(sent) \in Nat /\ query \in 1 .. Len(Queries)
  BY PipeTypes DEF RejectResult, Fail, IInv, MonitorInv, TypeInv, Busy
<1>2. ASSUME Finished, Correct(RowsSent) PROVE FALSE
  <2>1. /\ Len(sent) >= 3 /\ sent[Len(sent)] = "!"
        /\ \A i \in 3 .. Len(sent) - 1 : sent[i] \in Rows
        /\ RowsSent \in Seq(Rows) /\ Len(RowsSent) = Len(sent) - 3
        /\ \A i \in 1 .. Len(sent) - 3 : RowsSent[i] = sent[i + 2]
    BY <1>1, <1>2, FinishedMeans
  <2>2. CASE to_monitor = <<>>
    <3>1. Taken = Len(sent)
      BY <1>1, <2>2, TakeKeepsPipe
    <3>2. Len(sent) - 2 \in 1 .. Len(read_rows) /\ (Len(sent) - 2) + 2 = Len(sent)
      BY <1>1, <2>1, <3>1 DEF RowsReadInv
    <3>3. read_rows[Len(sent) - 2] = "!" /\ read_rows[Len(sent) - 2] \in Rows
      BY <1>1, <2>1, <3>2, PipeTypes DEF RowsReadInv
    <3>4. QED  BY <3>3, RowsAreNoCommands
  <2>3. CASE to_monitor # <<>> /\ Head(to_monitor) = "!"
    <3>1. AllRead
      BY <1>1, <1>2, <2>3, AllRowsAreRead
    <3>2. QED  BY <2>3, <3>1 DEF RejectResult, AtEnd, Line
  <2>4. CASE to_monitor # <<>> /\ Head(to_monitor) # "!"
    <3> DEFINE k == Len(read_rows) + 1
    <3>1. Taken + 1 \in 1 .. Len(sent) /\ sent[Taken + 1] = Head(to_monitor)
      BY <1>1, <2>4, TakeKeepsPipe
    <3>2. Taken + 1 # Len(sent) /\ Taken + 1 = k + 2
      BY <1>1, <2>1, <2>4, <3>1 DEF RowsReadInv
    <3>3. k + 2 \in 3 .. Len(sent) - 1 /\ k \in 1 .. Len(sent) - 3
      BY <1>1, <3>1, <3>2
    <3>4. Head(to_monitor) \in Rows /\ RowsSent[k] = Head(to_monitor)
      BY <2>1, <3>1, <3>2, <3>3
    <3>5. ~AcceptRow(Head(to_monitor))
      BY <2>4, <3>4 DEF RejectResult, AtEnd, Line
    <3>6. Expected \in Seq(Rows) /\ Len(Expected) \in Nat /\ Current.sort_before_check \in BOOLEAN
      BY <1>1, CurrentType
    <3>7. Len(RowsSent) = Len(Expected) /\ (~Current.sort_before_check => RowsSent = Expected)
      <4>1. CASE Current.sort_before_check
        BY <1>2, <2>1, <3>6, <4>1, SameRowsLength DEF Correct
      <4>2. CASE ~Current.sort_before_check
        BY <1>2, <4>2 DEF Correct
      <4>3. QED  BY <3>6, <4>1, <4>2
    <3>8. Len(read_rows) < Len(Expected)
      BY <1>1, <2>1, <3>3, <3>6, <3>7
    <3>9. QED  BY <3>4, <3>5, <3>7, <3>8 DEF AcceptRow
  <2>5. QED  BY <2>2, <2>3, <2>4
<1>3. QED  BY <1>1, <1>2, FailureIsRight DEF Busy

LEMMA StepConversation == IInv /\ [Next]_vars => IInv'
<1> SUFFICES ASSUME IInv, [Next]_vars PROVE IInv'
  OBVIOUS
<1>1. CASE MonitorStep
  BY <1>1, MonitorMoves, NewConversation, QuerySent, LimitAnswered, ValidationStarted,
     ValidationRefused, RowRead, ResultAccepted, ResultRejected DEF MonitorStep
<1>2. CASE DiskCannotStart \/ MonitorKilled
  BY <1>2, MonitorMoves
<1>3. CASE DbStep
  BY <1>3, DatabaseMoves, DatabaseSpeaks DEF DbStep
<1>4. CASE ExecFails \/ DbFails
  BY <1>4, DatabaseMoves
<1>5. CASE DbFailsInLine
  BY <1>5, DatabaseSpeaks
<1>6. CASE DiskEnds \/ DiskFails \/ UNCHANGED vars
  <2>1. UNCHANGED <<monitor, query, verdict, read_rows, db, to_db, to_monitor, sent>>
    BY <1>6 DEF DiskEnds, DiskFails, vars, monitorVars, dbVars
  <2>2. SentInv' /\ PipeInv' /\ Taken' = Taken
    BY <2>1, MonitorOnly
  <2>3. TypeInv'
    BY <2>1 DEF IInv, TypeInv
  <2>4. MonitorInv'
    <3>1. RowsReadInv' <=> RowsReadInv
      BY <2>1, <2>2 DEF RowsReadInv, Current, Expected
    <3>2. QED  BY <2>1, <2>2, <3>1 DEF IInv, MonitorInv
  <2>5. VerdictIsExact'
    BY <2>1, VerdictStays DEF IInv
  <2>6. QED  BY <2>2, <2>3, <2>4, <2>5 DEF IInv
<1>7. QED  BY <1>1, <1>2, <1>3, <1>4, <1>5, <1>6 DEF Next

(* handle_db calls a query a success exactly if the database has sent the  *)
(* expected rows and "!", whatever it sends, whichever process dies when,  *)
(* however small the pipe: no failure after the last line, and none of the *)
(* disk, turns a right answer into a failure.                              *)
THEOREM VerdictExact == Spec => []VerdictIsExact
<1>1. Spec => []IInv
  <2>1. Init => IInv
    BY InitConversation
  <2>2. IInv /\ [Next]_vars => IInv'
    BY StepConversation
  <2>3. QED  BY <2>1, <2>2, PTL DEF Spec
<1>2. IInv => VerdictIsExact
  BY DEF IInv
<1>3. QED  BY <1>1, <1>2, PTL

-----------------------------------------------------------------------------
(* Tables of descriptors.                                                  *)

WellFormed(table) ==
  /\ IsFiniteSet(table)
  /\ \A d \in table : d.number \in Nat
  /\ \A d \in table, e \in table : d.number = e.number => d = e

\* What is inherited, and these ends of pipes, which are closed on exec.
Clean(table, numbers, ends) ==
  /\ WellFormed(table)
  /\ Inherited(numbers) \subseteq table
  /\ \A d \in table : d \in Inherited(numbers) \/ (d.cloexec /\ d.end \in ends)
  /\ ends \subseteq Ends(table)
  /\ \A end \in ends : end.pipe # "inherited"

LEMMA LowestFreeIsFree ==
  ASSUME NEW table, WellFormed(table)
  PROVE  LowestFree(table) \in Nat /\ LowestFree(table) \notin Numbers(table)
<1> DEFINE c == Cardinality(table)
           free == (0 .. c) \ Numbers(table)
<1>1. c \in Nat /\ IsFiniteSet(table)
  BY FS_CardinalityType DEF WellFormed
<1>2. IsFiniteSet(Numbers(table)) /\ Cardinality(Numbers(table)) <= c
  <2>1. [d \in table |-> d.number] \in Surjection(table, Numbers(table))
    BY DEF Surjection, Numbers
  <2>2. QED  BY <1>1, <2>1, FS_Surjection
<1>3. free # {}
  <2> SUFFICES ASSUME 0 .. c \subseteq Numbers(table) PROVE FALSE
    OBVIOUS
  <2>1. Cardinality(0 .. c) = c + 1
    BY <1>1, FS_Interval
  <2>2. Cardinality(0 .. c) <= Cardinality(Numbers(table)) /\ Cardinality(Numbers(table)) \in Nat
    BY <1>2, FS_Subset, FS_CardinalityType
  <2>3. QED  BY <1>1, <1>2, <2>1, <2>2
<1>4. PICK x \in free : \A y \in free : x <= y
  <2>1. free \in SUBSET Nat
    OBVIOUS
  <2>2. QED  BY <1>3, <2>1, LeastElement
<1>5. LowestFree(table) \in free
  <2>1. LowestFree(table) = CHOOSE z \in free : \A y \in free : z <= y
    BY DEF LowestFree, Min
  <2>2. QED  BY <1>4, <2>1
<1>6. QED  BY <1>5

\* A part of a table, and a table with one more number.
LEMMA PartIsWellFormed ==
  ASSUME NEW table, WellFormed(table), NEW part \in SUBSET table
  PROVE  WellFormed(part)
BY FS_Subset DEF WellFormed

LEMMA OneMore ==
  ASSUME NEW table, WellFormed(table), NEW d, d.number \in Nat, d.number \notin Numbers(table)
  PROVE  WellFormed(table \cup {d})
<1>1. IsFiniteSet(table \cup {d})
  BY FS_AddElement DEF WellFormed
<1>2. QED  BY <1>1 DEF WellFormed, Numbers

LEMMA OpenEndKeepsClean ==
  ASSUME NEW table, NEW numbers, NEW ends, Clean(table, numbers, ends),
         NEW end, end.pipe # "inherited"
  PROVE  Clean(OpenEnd(table, end), numbers, ends \cup {end})
<1> DEFINE new == Descriptor(LowestFree(table), end, TRUE)
<1>1. LowestFree(table) \in Nat /\ LowestFree(table) \notin Numbers(table)
  BY LowestFreeIsFree DEF Clean
<1>2. OpenEnd(table, end) = table \cup {new}
  BY DEF OpenEnd
<1>3. new.cloexec /\ new.end = end /\ new.number = LowestFree(table)
  BY DEF Descriptor
<1> HIDE DEF new
<1>4. WellFormed(OpenEnd(table, end))
  BY <1>1, <1>2, <1>3, OneMore DEF Clean
<1>5. \A d \in table \cup {new} : d \in Inherited(numbers) \/ (d.cloexec /\ d.end \in ends \cup {end})
  BY <1>3 DEF Clean
<1>6. ends \cup {end} \subseteq Ends(table \cup {new})
  BY <1>3 DEF Clean, Ends
<1>7. QED  BY <1>2, <1>4, <1>5, <1>6 DEF Clean

LEMMA PipeKeepsClean ==
  ASSUME NEW table, NEW numbers, NEW ends, Clean(table, numbers, ends),
         NEW pipe, pipe # "inherited"
  PROVE  Clean(Pipe(table, pipe), numbers, ends \cup {ReadEnd(pipe), WriteEnd(pipe)})
<1>1. ReadEnd(pipe).pipe # "inherited" /\ WriteEnd(pipe).pipe # "inherited"
  BY DEF ReadEnd, WriteEnd
<1>2. Clean(OpenEnd(table, ReadEnd(pipe)), numbers, ends \cup {ReadEnd(pipe)})
  BY <1>1, OpenEndKeepsClean
<1>3. Clean(Pipe(table, pipe), numbers, (ends \cup {ReadEnd(pipe)}) \cup {WriteEnd(pipe)})
  BY <1>1, <1>2, OpenEndKeepsClean DEF Pipe
<1>4. (ends \cup {ReadEnd(pipe)}) \cup {WriteEnd(pipe)} = ends \cup {ReadEnd(pipe), WriteEnd(pipe)}
  OBVIOUS
<1>5. QED  BY <1>3, <1>4

LEMMA CloseKeepsClean ==
  ASSUME NEW table, NEW numbers, NEW ends, Clean(table, numbers, ends),
         NEW closed, ReadEnd("inherited") \notin closed
  PROVE  Clean(CloseEnds(table, closed), numbers, ends \ closed)
<1>1. WellFormed(CloseEnds(table, closed))
  BY PartIsWellFormed DEF Clean, CloseEnds
<1>2. Inherited(numbers) \subseteq CloseEnds(table, closed)
  BY DEF Clean, CloseEnds, Inherited, Descriptor
<1>3. QED  BY <1>1, <1>2 DEF Clean, CloseEnds, Ends

\* Nothing but what is inherited.
LEMMA CleanOfNone ==
  ASSUME NEW table, NEW numbers, Clean(table, numbers, {})
  PROVE  table = Inherited(numbers)
BY DEF Clean

LEMMA InheritedIsClean ==
  ASSUME NEW numbers \in InheritedSets
  PROVE  Clean(Inherited(numbers), numbers, {})
<1>1. numbers \in SUBSET Nat /\ IsFiniteSet(numbers)
  BY QuerySessionAssumption
<1>2. IsFiniteSet(Inherited(numbers))
  <2>1. [n \in numbers |-> Descriptor(n, ReadEnd("inherited"), FALSE)]
          \in Surjection(numbers, Inherited(numbers))
    BY DEF Surjection, Inherited
  <2>2. QED  BY <1>1, <2>1, FS_Surjection
<1>3. WellFormed(Inherited(numbers))
  <2>1. ASSUME NEW d \in Inherited(numbers)
        PROVE  d.number \in Nat /\ d = Descriptor(d.number, ReadEnd("inherited"), FALSE)
    <3>1. PICK n \in numbers : d = Descriptor(n, ReadEnd("inherited"), FALSE)
      BY DEF Inherited
    <3>2. d.number = n
      BY <3>1 DEF Descriptor
    <3>3. QED  BY <1>1, <3>1, <3>2
  <2>2. \A d \in Inherited(numbers), e \in Inherited(numbers) : d.number = e.number => d = e
    BY <2>1, Zenon
  <2>3. QED  BY <1>2, <2>1, <2>2 DEF WellFormed
<1>4. QED  BY <1>3 DEF Clean

\* The number under which a table has an end.
LEMMA NumberHasEnd ==
  ASSUME NEW table, WellFormed(table), NEW end, end \in Ends(table)
  PROVE  /\ Number(table, end) \in Nat
         /\ \E d \in table : d.number = Number(table, end) /\ d.end = end
<1>1. PICK d \in table : d.end = end
  BY DEF Ends
<1>2. d.number \in Numbers(table) /\ \E e \in table : e.number = d.number /\ e.end = end
  BY <1>1 DEF Numbers
<1>3. \E e \in table : e.number = Number(table, end) /\ e.end = end
  BY <1>2 DEF Number
<1>4. QED  BY <1>3 DEF WellFormed

\* dup2 onto another number.
LEMMA Dup2Copies ==
  ASSUME NEW table, WellFormed(table), NEW d \in table, NEW to \in Nat, to # d.number
  PROVE  /\ Dup2(table, d.number, to) = Close(table, to) \cup {Descriptor(to, d.end, FALSE)}
         /\ WellFormed(Dup2(table, d.number, to))
<1> DEFINE source == {x \in table : x.number = d.number}
           copy == Descriptor(to, d.end, FALSE)
<1>1. source = {d}
  BY DEF WellFormed
<1>2. {Descriptor(to, x.end, FALSE) : x \in source} = {copy}
  BY <1>1
<1>3. Dup2(table, d.number, to) = Close(table, to) \cup {copy}
  BY <1>1, <1>2 DEF Dup2
<1>4. WellFormed(Close(table, to)) /\ to \notin Numbers(Close(table, to))
  BY PartIsWellFormed DEF Close, Numbers
<1>5. copy.number = to
  BY DEF Descriptor
<1> HIDE DEF copy
<1>6. WellFormed(Close(table, to) \cup {copy})
  BY <1>4, <1>5, OneMore
<1>7. QED  BY <1>3, <1>6 DEF copy

-----------------------------------------------------------------------------
(* The two loops of remap_fds.                                             *)

\* A descriptor moves to another number.
Moved(table, from, to) == Close(Dup2(table, from, to), from)

\* One descriptor of that number, which stays open on exec.
StaysAt(table, number, end) ==
  {d \in table : d.number = number} = {Descriptor(number, end, FALSE)}

\* Every end of a pipe of the session is closed on exec, but at these numbers.
ClosedOnExec(table, numbers) ==
  \A d \in table : d.end.pipe # "inherited" /\ d.number \notin numbers => d.cloexec

LEMMA MovedIs ==
  ASSUME NEW table, WellFormed(table), NEW d \in table, NEW to \in Nat, to # d.number
  PROVE  /\ WellFormed(Moved(table, d.number, to))
         /\ StaysAt(Moved(table, d.number, to), to, d.end)
         /\ \A x \in Moved(table, d.number, to) :
              x.number # d.number /\ (x.number # to => x \in table)
         /\ \A x \in table : x.number \notin {d.number, to} => x \in Moved(table, d.number, to)
<1> DEFINE copy == Descriptor(to, d.end, FALSE)
           moved == Moved(table, d.number, to)
<1>1. /\ Dup2(table, d.number, to) = Close(table, to) \cup {copy}
      /\ WellFormed(Dup2(table, d.number, to))
  BY Dup2Copies
<1>2. WellFormed(moved)
  BY <1>1, PartIsWellFormed DEF Moved, Close
<1>3. copy.number = to
  BY DEF Descriptor
<1>4. moved = {x \in Close(table, to) \cup {copy} : x.number # d.number}
  BY <1>1 DEF Moved, Close
<1> HIDE DEF copy, moved
<1>5. {x \in moved : x.number = to} = {copy}
  BY <1>3, <1>4 DEF Close
<1>6. \A x \in moved : x.number # d.number /\ (x.number # to => x \in table)
  BY <1>3, <1>4 DEF Close
<1>7. \A x \in table : x.number \notin {d.number, to} => x \in moved
  BY <1>4 DEF Close
<1>8. QED  BY <1>2, <1>5, <1>6, <1>7 DEF StaysAt, copy, moved

\* The first k of the ends for the database have moved.
FirstMoved(table, k, from, to) ==
  /\ WellFormed(table)
  /\ \A i \in 1 .. k : StaysAt(table, to[i], ForDatabase[i])
  /\ \A i \in k + 1 .. 4 : \E d \in table : d.number = from[i] /\ d.end = ForDatabase[i]
  /\ ClosedOnExec(table, {to[i] : i \in 1 .. k} \cup {from[i] : i \in k + 1 .. 4})

LEMMA StaysHasOne ==
  ASSUME NEW table, NEW number, NEW end, StaysAt(table, number, end)
  PROVE  \E d \in table : d.number = number /\ d.end = end /\ ~d.cloexec
<1>1. Descriptor(number, end, FALSE) \in {d \in table : d.number = number}
  BY DEF StaysAt
<1>2. Descriptor(number, end, FALSE).end = end /\ ~Descriptor(number, end, FALSE).cloexec
  BY DEF Descriptor
<1>3. QED  BY <1>1, <1>2

LEMMA OneMoves ==
  ASSUME NEW table, NEW from \in [1 .. 4 -> Nat], NEW to \in [1 .. 4 -> Nat],
         \A i \in 1 .. 4, j \in 1 .. 4 : from[i] # to[j],
         \A i \in 1 .. 4, j \in 1 .. 4 : i # j => from[i] # from[j] /\ to[i] # to[j],
         NEW k \in 0 .. 3, FirstMoved(table, k, from, to)
  PROVE  /\ FirstMoved(Moved(table, from[k + 1], to[k + 1]), k + 1, from, to)
         /\ StaysAt(Moved(table, from[k + 1], to[k + 1]), to[k + 1], ForDatabase[k + 1])
<1> DEFINE n == k + 1
           moved == Moved(table, from[n], to[n])
<1>0. n \in 1 .. 4 /\ n \in k + 1 .. 4
  OBVIOUS
<1>1. PICK d \in table : d.number = from[n] /\ d.end = ForDatabase[n]
  BY <1>0 DEF FirstMoved
<1>2. WellFormed(table) /\ to[n] \in Nat /\ to[n] # d.number
  BY <1>0, <1>1 DEF FirstMoved
<1>3. /\ WellFormed(moved) /\ StaysAt(moved, to[n], ForDatabase[n])
      /\ \A x \in moved : x.number # from[n] /\ (x.number # to[n] => x \in table)
      /\ \A x \in table : x.number \notin {from[n], to[n]} => x \in moved
  BY <1>1, <1>2, MovedIs
<1> HIDE DEF moved
<1>4. ASSUME NEW i \in 1 .. k PROVE StaysAt(moved, to[i], ForDatabase[i])
  <2>1. to[i] # from[n] /\ to[i] # to[n] /\ StaysAt(table, to[i], ForDatabase[i])
    BY <1>0 DEF FirstMoved
  <2>2. {x \in moved : x.number = to[i]} = {x \in table : x.number = to[i]}
    BY <1>3, <2>1
  <2>3. QED  BY <2>1, <2>2 DEF StaysAt
<1>5. ASSUME NEW i \in n + 1 .. 4
      PROVE  \E x \in moved : x.number = from[i] /\ x.end = ForDatabase[i]
  <2>1. i \in k + 1 .. 4 /\ i \in 1 .. 4 /\ i # n
    OBVIOUS
  <2>2. PICK x \in table : x.number = from[i] /\ x.end = ForDatabase[i]
    BY <2>1 DEF FirstMoved
  <2>3. x.number # from[n] /\ x.number # to[n]
    BY <1>0, <2>1, <2>2
  <2>4. QED  BY <1>3, <2>2, <2>3
<1>6. ClosedOnExec(moved, {to[i] : i \in 1 .. n} \cup {from[i] : i \in n + 1 .. 4})
  <2> SUFFICES ASSUME NEW x \in moved, x.end.pipe # "inherited",
                      x.number \notin {to[i] : i \in 1 .. n} \cup {from[i] : i \in n + 1 .. 4}
               PROVE  x.cloexec
    BY DEF ClosedOnExec
  <2>1. x.number # to[n] /\ x.number # from[n] /\ x \in table
    BY <1>0, <1>3
  <2>2. x.number \notin {to[i] : i \in 1 .. k} \cup {from[i] : i \in k + 1 .. 4}
    <3>1. \A i \in k + 1 .. 4 : i = n \/ i \in n + 1 .. 4
      OBVIOUS
    <3>2. \A i \in 1 .. k : i \in 1 .. n
      OBVIOUS
    <3>3. QED  BY <2>1, <3>1, <3>2
  <2>3. QED  BY <2>1, <2>2 DEF FirstMoved, ClosedOnExec
<1>7. \A i \in 1 .. n : i \in 1 .. k \/ i = n
  OBVIOUS
<1>8. \A i \in 1 .. n : StaysAt(moved, to[i], ForDatabase[i])
  BY <1>3, <1>4, <1>7
<1>9. FirstMoved(moved, n, from, to)
  BY <1>3, <1>5, <1>6, <1>8 DEF FirstMoved
<1>10. QED  BY <1>3, <1>9 DEF moved

\* The flag that is set is the one the copy has.
LEMMA SameField ==
  ASSUME NEW S, NEW f, f = [y \in S |-> f[y]], NEW x \in S
  PROVE  [f EXCEPT ![x] = f[x]] = f
OBVIOUS

LEMMA FlagStays ==
  ASSUME NEW table, NEW number, NEW end, StaysAt(table, number, end)
  PROVE  SetCloexec(table, number, FALSE) = table
<1>1. ASSUME NEW d \in table, d.number = number PROVE [d EXCEPT !.cloexec = FALSE] = d
  <2>1. d = Descriptor(number, end, FALSE)
    BY <1>1 DEF StaysAt
  <2> DEFINE r == [number |-> number, end |-> end, cloexec |-> FALSE]
  <2>2. r = [field \in {"number", "end", "cloexec"} |-> r[field]] /\ r.cloexec = FALSE
    OBVIOUS
  <2> HIDE DEF r
  <2>3. [r EXCEPT !.cloexec = r.cloexec] = r
    BY <2>2, SameField
  <2>4. [r EXCEPT !.cloexec = FALSE] = r
    BY <2>2, <2>3
  <2>5. d = r
    BY <2>1 DEF Descriptor, r
  <2>6. QED  BY <2>4, <2>5
<1>2. SetCloexec(table, number, FALSE)
        = {IF d.number = number THEN [d EXCEPT !.cloexec = FALSE] ELSE d : d \in table}
  BY DEF SetCloexec
<1>3. QED  BY <1>1, <1>2

\* The loops make four moves, in the order of the mappings.
LEMMA FourMovesAway ==
  ASSUME NEW table, NEW maps, DOMAIN maps = 1 .. 4
  PROVE  MoveAllAway(table, maps)
           = MoveAway(maps, MoveAway(maps, MoveAway(maps,
               MoveAway(maps, table, 1), 2), 3), 4)
<1> DEFINE op(t, i) == MoveAway(maps, t, i)
           seq == [i \in DOMAIN maps |-> i]
           step(g) ==
             [s \in SUBSET (DOMAIN seq) |->
                IF s = {} THEN table ELSE op(g[s \ {Max(s)}], seq[Max(s)])]
           iter == CHOOSE g : g = step(g)
           apply(s, t, i) == IF i \in s THEN op(t, i) ELSE t
           solution == [s \in SUBSET (1 .. 4) |->
                          apply(s, apply(s, apply(s, apply(s, table, 1), 2), 3), 4)]
<1>1. MoveAllAway(table, maps) = iter[DOMAIN seq]
  BY DEF MoveAllAway, FoldLeftDomain, FoldLeft, MapThenFoldSet
<1>2. DOMAIN seq = 1 .. 4 /\ \A i \in 1 .. 4 : seq[i] = i
  OBVIOUS
<1> HIDE DEF seq, op
<1>3. ASSUME NEW s \in SUBSET (1 .. 4)
      PROVE  solution[s] = IF s = {} THEN table ELSE op(solution[s \ {Max(s)}], seq[Max(s)])
  <2>1. CASE s = {}
    BY <2>1
  <2>2. CASE s # {}
    <3>1. s \in SUBSET Nat /\ \A y \in s : y <= 4
      OBVIOUS
    <3>2. Max(s) \in s /\ \A y \in s : y <= Max(s)
      BY <2>2, <3>1, GreatestElement
    <3> DEFINE m == Max(s)
    <3> HIDE DEF m
    <3>3. m \in s /\ m \in 1 .. 4 /\ seq[m] = m /\ s \ {m} \in SUBSET (1 .. 4)
          /\ \A y \in s : y <= m
      BY <1>2, <3>2 DEF m
    <3>4. solution[s] = op(solution[s \ {m}], m)
      <4>1. m = 1 \/ m = 2 \/ m = 3 \/ m = 4
        BY <3>3
      <4>2. CASE m = 1
        BY <3>3, <4>2
      <4>3. CASE m = 2
        BY <3>3, <4>3
      <4>4. CASE m = 3
        BY <3>3, <4>4
      <4>5. CASE m = 4
        BY <3>3, <4>5
      <4>6. QED  BY <4>1, <4>2, <4>3, <4>4, <4>5
    <3>5. QED  BY <2>2, <3>3, <3>4 DEF m
  <2>3. QED  BY <2>1, <2>2
<1>4. solution = step(solution)
  BY <1>2, <1>3
<1> HIDE DEF step, solution
<1>5. iter = step(iter)
  BY <1>4
<1> HIDE DEF iter
<1>6. ASSUME NEW n \in 1 .. 4 PROVE iter[1 .. n] = op(iter[1 .. n - 1], n)
  <2>1. 1 .. n \in SUBSET (1 .. 4) /\ 1 .. n # {} /\ 1 .. n \in SUBSET Nat
        /\ n \in 1 .. n /\ \A y \in 1 .. n : y <= n
    OBVIOUS
  <2>2. Max(1 .. n) = n
    BY <2>1, GreatestIs
  <2>3. (1 .. n) \ {n} = 1 .. n - 1
    OBVIOUS
  <2>4. step(iter)[1 .. n] = op(iter[(1 .. n) \ {Max(1 .. n)}], seq[Max(1 .. n)])
    BY <1>2, <2>1 DEF step
  <2>5. QED  BY <1>2, <1>5, <2>2, <2>3, <2>4
<1>7. iter[1 .. 0] = table
  <2>1. 1 .. 0 = {}
    OBVIOUS
  <2>2. step(iter)[{}] = table
    BY DEF step
  <2>3. QED  BY <1>5, <2>1, <2>2
<1>8. /\ iter[1 .. 1] = op(iter[1 .. 0], 1) /\ iter[1 .. 2] = op(iter[1 .. 1], 2)
      /\ iter[1 .. 3] = op(iter[1 .. 2], 3) /\ iter[1 .. 4] = op(iter[1 .. 3], 4)
  BY <1>6
<1>9. QED  BY <1>1, <1>2, <1>7, <1>8 DEF op

\* The same for the second loop; no fact about an operator can be stated for both.
LEMMA FourMovesToTargets ==
  ASSUME NEW table, NEW maps, DOMAIN maps = 1 .. 4
  PROVE  MoveAllToTargets(table, maps)
           = MoveToTarget(maps, MoveToTarget(maps, MoveToTarget(maps,
               MoveToTarget(maps, table, 1), 2), 3), 4)
<1> DEFINE op(t, i) == MoveToTarget(maps, t, i)
           seq == [i \in DOMAIN maps |-> i]
           step(g) ==
             [s \in SUBSET (DOMAIN seq) |->
                IF s = {} THEN table ELSE op(g[s \ {Max(s)}], seq[Max(s)])]
           iter == CHOOSE g : g = step(g)
           apply(s, t, i) == IF i \in s THEN op(t, i) ELSE t
           solution == [s \in SUBSET (1 .. 4) |->
                          apply(s, apply(s, apply(s, apply(s, table, 1), 2), 3), 4)]
<1>1. MoveAllToTargets(table, maps) = iter[DOMAIN seq]
  BY DEF MoveAllToTargets, FoldLeftDomain, FoldLeft, MapThenFoldSet
<1>2. DOMAIN seq = 1 .. 4 /\ \A i \in 1 .. 4 : seq[i] = i
  OBVIOUS
<1> HIDE DEF seq, op
<1>3. ASSUME NEW s \in SUBSET (1 .. 4)
      PROVE  solution[s] = IF s = {} THEN table ELSE op(solution[s \ {Max(s)}], seq[Max(s)])
  <2>1. CASE s = {}
    BY <2>1
  <2>2. CASE s # {}
    <3>1. s \in SUBSET Nat /\ \A y \in s : y <= 4
      OBVIOUS
    <3>2. Max(s) \in s /\ \A y \in s : y <= Max(s)
      BY <2>2, <3>1, GreatestElement
    <3> DEFINE m == Max(s)
    <3> HIDE DEF m
    <3>3. m \in s /\ m \in 1 .. 4 /\ seq[m] = m /\ s \ {m} \in SUBSET (1 .. 4)
          /\ \A y \in s : y <= m
      BY <1>2, <3>2 DEF m
    <3>4. solution[s] = op(solution[s \ {m}], m)
      <4>1. m = 1 \/ m = 2 \/ m = 3 \/ m = 4
        BY <3>3
      <4>2. CASE m = 1
        BY <3>3, <4>2
      <4>3. CASE m = 2
        BY <3>3, <4>3
      <4>4. CASE m = 3
        BY <3>3, <4>4
      <4>5. CASE m = 4
        BY <3>3, <4>5
      <4>6. QED  BY <4>1, <4>2, <4>3, <4>4, <4>5
    <3>5. QED  BY <2>2, <3>3, <3>4 DEF m
  <2>3. QED  BY <2>1, <2>2
<1>4. solution = step(solution)
  BY <1>2, <1>3
<1> HIDE DEF step, solution
<1>5. iter = step(iter)
  BY <1>4
<1> HIDE DEF iter
<1>6. ASSUME NEW n \in 1 .. 4 PROVE iter[1 .. n] = op(iter[1 .. n - 1], n)
  <2>1. 1 .. n \in SUBSET (1 .. 4) /\ 1 .. n # {} /\ 1 .. n \in SUBSET Nat
        /\ n \in 1 .. n /\ \A y \in 1 .. n : y <= n
    OBVIOUS
  <2>2. Max(1 .. n) = n
    BY <2>1, GreatestIs
  <2>3. (1 .. n) \ {n} = 1 .. n - 1
    OBVIOUS
  <2>4. step(iter)[1 .. n] = op(iter[(1 .. n) \ {Max(1 .. n)}], seq[Max(1 .. n)])
    BY <1>2, <2>1 DEF step
  <2>5. QED  BY <1>2, <1>5, <2>2, <2>3, <2>4
<1>7. iter[1 .. 0] = table
  <2>1. 1 .. 0 = {}
    OBVIOUS
  <2>2. step(iter)[{}] = table
    BY DEF step
  <2>3. QED  BY <1>5, <2>1, <2>2
<1>8. /\ iter[1 .. 1] = op(iter[1 .. 0], 1) /\ iter[1 .. 2] = op(iter[1 .. 1], 2)
      /\ iter[1 .. 3] = op(iter[1 .. 2], 3) /\ iter[1 .. 4] = op(iter[1 .. 3], 4)
  BY <1>6
<1>9. QED  BY <1>1, <1>2, <1>7, <1>8 DEF op

\* io_setup.rs' numbers.
Targets == [i \in 1 .. 4 |-> 2 + i]

\* Where the first loop puts the ends.
Copies(base) == [i \in 1 .. 4 |-> base + i - 1]

LEMMA EndsForDatabase ==
  /\ ForDatabase[1] = ReadEnd("disk_out") /\ ForDatabase[2] = WriteEnd("disk_in")
  /\ ForDatabase[3] = ReadEnd("to_db") /\ ForDatabase[4] = WriteEnd("to_monitor")
  /\ \A i \in 1 .. 4 : ForDatabase[i].pipe # "inherited"
  /\ \A i \in 1 .. 4, j \in 1 .. 4 : i # j => ForDatabase[i] # ForDatabase[j]
<1>1. /\ ForDatabase[1] = ReadEnd("disk_out") /\ ForDatabase[2] = WriteEnd("disk_in")
      /\ ForDatabase[3] = ReadEnd("to_db") /\ ForDatabase[4] = WriteEnd("to_monitor")
  BY DEF ForDatabase
<1>2. /\ ForDatabase[1].pipe = "disk_out" /\ ForDatabase[2].pipe = "disk_in"
      /\ ForDatabase[3].pipe = "to_db" /\ ForDatabase[4].pipe = "to_monitor"
  BY <1>1 DEF ReadEnd, WriteEnd
<1>3. \A i \in 1 .. 4 : i = 1 \/ i = 2 \/ i = 3 \/ i = 4
  OBVIOUS
<1>4. QED  BY <1>1, <1>2, <1>3

(* The first loop moves the four ends above all sources and targets, where *)
(* they stay open on exec.                                                 *)
LEMMA AllMoveAway ==
  ASSUME NEW table, WellFormed(table), ToSet(ForDatabase) \subseteq Ends(table),
         ClosedOnExec(table, {})
  PROVE  LET maps == Mappings(table)
             base == RemapBase(maps)
         IN  /\ DOMAIN maps = 1 .. 4
             /\ \A i \in 1 .. 4 : maps[i].target = 2 + i /\ maps[i].close_on_exec = FALSE
             /\ base \in Nat /\ base > 6
             /\ FirstMoved(MoveAllAway(table, maps), 0, Copies(base), Targets)
<1> DEFINE maps == Mappings(table)
           base == RemapBase(maps)
           from == [i \in 1 .. 4 |-> maps[i].source]
           to == Copies(base)
<1>1. /\ DOMAIN maps = 1 .. 4
      /\ \A i \in 1 .. 4 : /\ maps[i].source = Number(table, ForDatabase[i])
                           /\ maps[i].target = 2 + i /\ maps[i].close_on_exec = FALSE
  BY DEF Mappings
<1>2. \A i \in 1 .. 4 : ForDatabase[i] \in Ends(table)
  BY DEF ToSet, ForDatabase
<1>3. \A i \in 1 .. 4 : /\ maps[i].source \in Nat
                        /\ \E d \in table : d.number = maps[i].source /\ d.end = ForDatabase[i]
  BY <1>1, <1>2, NumberHasEnd
<1>4. \A i \in 1 .. 4, j \in 1 .. 4 : i # j => maps[i].source # maps[j].source
  BY <1>3, EndsForDatabase DEF WellFormed
<1> HIDE DEF maps
<1>5. /\ base \in Nat /\ base > 6
      /\ \A i \in 1 .. 4 : maps[i].source < base
  <2> DEFINE S == {maps[i].source : i \in DOMAIN maps} \cup {maps[i].target : i \in DOMAIN maps}
             bound == maps[1].source + maps[2].source + maps[3].source + maps[4].source + 6
  <2>1. S \in SUBSET Nat /\ S # {} /\ 6 \in S /\ \A i \in 1 .. 4 : maps[i].source \in S
    <3>1. 4 \in 1 .. 4 /\ maps[4].target = 6
      BY <1>1
    <3>2. \A i \in 1 .. 4 : maps[i].target \in Nat
      BY <1>1
    <3>3. QED  BY <1>1, <1>3, <3>1, <3>2
  <2>2. bound \in Nat /\ \A y \in S : y <= bound
    <3>1. maps[1].source \in Nat /\ maps[2].source \in Nat /\ maps[3].source \in Nat /\ maps[4].source \in Nat
      BY <1>3
    <3>2. \A i \in 1 .. 4 : i = 1 \/ i = 2 \/ i = 3 \/ i = 4
      OBVIOUS
    <3>3. \A i \in 1 .. 4 : maps[i].source <= bound /\ maps[i].target <= bound
      BY <1>1, <3>1, <3>2
    <3>4. bound \in Nat
      BY <3>1
    <3> HIDE DEF bound
    <3>5. QED  BY <1>1, <3>3, <3>4
  <2>3. base = Max(S) + 1
    BY DEF RemapBase
  <2> HIDE DEF S, bound
  <2>4. Max(S) \in S /\ \A y \in S : y <= Max(S)
    BY <2>1, <2>2, GreatestElement
  <2>5. Max(S) \in Nat /\ 6 <= Max(S) /\ \A i \in 1 .. 4 : maps[i].source <= Max(S)
    BY <2>1, <2>4
  <2>6. \A i \in 1 .. 4 : maps[i].source \in Nat
    BY <1>3
  <2>7. ASSUME NEW m \in Nat, 6 <= m, \A i \in 1 .. 4 : maps[i].source <= m
        PROVE  m + 1 \in Nat /\ m + 1 > 6 /\ \A i \in 1 .. 4 : maps[i].source < m + 1
    BY <2>6, <2>7
  <2>8. QED  BY <2>3, <2>5, <2>7
<1> HIDE DEF base
<1>6. /\ from \in [1 .. 4 -> Nat] /\ to \in [1 .. 4 -> Nat]
      /\ \A i \in 1 .. 4 : from[i] = maps[i].source /\ to[i] = base + i - 1
      /\ \A i \in 1 .. 4, j \in 1 .. 4 : from[i] # to[j]
      /\ \A i \in 1 .. 4, j \in 1 .. 4 : i # j => from[i] # from[j] /\ to[i] # to[j]
  <2>1. \A i \in 1 .. 4 : from[i] = maps[i].source /\ to[i] = base + i - 1
    BY DEF Copies
  <2>2. from \in [1 .. 4 -> Nat] /\ to \in [1 .. 4 -> Nat]
    BY <1>3, <1>5 DEF Copies
  <2> HIDE DEF from, to
  <2>3. QED  BY <1>3, <1>4, <1>5, <2>1, <2>2
<1> HIDE DEF from, to
<1>7. FirstMoved(table, 0, from, to)
  BY <1>3, <1>6 DEF FirstMoved, ClosedOnExec
<1>8. ASSUME NEW t, NEW i \in 1 .. 4 PROVE MoveAway(maps, t, i) = Moved(t, from[i], to[i])
  BY <1>6 DEF MoveAway, Moved, base
<1> DEFINE t1 == Moved(table, from[1], to[1])
           t2 == Moved(t1, from[2], to[2])
           t3 == Moved(t2, from[3], to[3])
           t4 == Moved(t3, from[4], to[4])
<1>9. MoveAllAway(table, maps) = t4
  BY <1>1, <1>8, FourMovesAway
<1>10. FirstMoved(t1, 1, from, to)
  <2>1. FirstMoved(Moved(table, from[0 + 1], to[0 + 1]), 0 + 1, from, to)
    BY <1>6, <1>7, OneMoves
  <2>2. QED  BY <2>1
<1> HIDE DEF t1
<1>11. FirstMoved(t2, 2, from, to)
  <2>1. FirstMoved(Moved(t1, from[1 + 1], to[1 + 1]), 1 + 1, from, to)
    BY <1>6, <1>10, OneMoves
  <2>2. QED  BY <2>1
<1> HIDE DEF t2
<1>12. FirstMoved(t3, 3, from, to)
  <2>1. FirstMoved(Moved(t2, from[2 + 1], to[2 + 1]), 2 + 1, from, to)
    BY <1>6, <1>11, OneMoves
  <2>2. QED  BY <2>1
<1> HIDE DEF t3
<1>13. FirstMoved(t4, 4, from, to)
  <2>1. FirstMoved(Moved(t3, from[3 + 1], to[3 + 1]), 3 + 1, from, to)
    BY <1>6, <1>12, OneMoves
  <2>2. QED  BY <2>1
<1> HIDE DEF t4
<1>14. FirstMoved(t4, 0, to, Targets)
  <2>1. ASSUME NEW i \in 1 .. 4
        PROVE  \E d \in t4 : d.number = to[i] /\ d.end = ForDatabase[i]
    <3>1. StaysAt(t4, to[i], ForDatabase[i])
      BY <1>13 DEF FirstMoved
    <3>2. QED  BY <3>1, StaysHasOne
  <2>2. ClosedOnExec(t4, {to[i] : i \in 1 .. 4})
    <3>1. {to[i] : i \in 1 .. 4} \cup {from[i] : i \in 4 + 1 .. 4} = {to[i] : i \in 1 .. 4}
      OBVIOUS
    <3>2. QED  BY <1>13, <3>1 DEF FirstMoved
  <2>3. {Targets[i] : i \in 1 .. 0} \cup {to[i] : i \in 0 + 1 .. 4} = {to[i] : i \in 1 .. 4}
    OBVIOUS
  <2>4. QED  BY <1>13, <2>1, <2>2, <2>3 DEF FirstMoved
<1>15. QED  BY <1>1, <1>5, <1>9, <1>14 DEF maps, base, to

(* The second loop puts them at their targets.                             *)
LEMMA AllReachTargets ==
  ASSUME NEW table, NEW maps, DOMAIN maps = 1 .. 4,
         \A i \in 1 .. 4 : maps[i].target = 2 + i /\ maps[i].close_on_exec = FALSE,
         RemapBase(maps) \in Nat, RemapBase(maps) > 6,
         FirstMoved(table, 0, Copies(RemapBase(maps)), Targets)
  PROVE  FirstMoved(MoveAllToTargets(table, maps), 4, Targets, Targets)
<1> DEFINE base == RemapBase(maps)
           from == Copies(base)
           to == Targets
<1>1. \A i \in 1 .. 4 : from[i] = base + i - 1 /\ to[i] = 2 + i
  BY DEF Copies, Targets
<1>2. from \in [1 .. 4 -> Nat] /\ to \in [1 .. 4 -> Nat]
  BY DEF Copies, Targets
<1> HIDE DEF from, to
<1>3. /\ \A i \in 1 .. 4, j \in 1 .. 4 : from[i] # to[j]
      /\ \A i \in 1 .. 4, j \in 1 .. 4 : i # j => from[i] # from[j] /\ to[i] # to[j]
  BY <1>1
<1>4. ASSUME NEW t, NEW k \in 0 .. 3, FirstMoved(t, k, from, to)
      PROVE  FirstMoved(MoveToTarget(maps, t, k + 1), k + 1, from, to)
  <2> DEFINE moved == Moved(t, from[k + 1], to[k + 1])
  <2>1. FirstMoved(moved, k + 1, from, to) /\ StaysAt(moved, to[k + 1], ForDatabase[k + 1])
    BY <1>2, <1>3, <1>4, OneMoves
  <2>2. MoveToTarget(maps, t, k + 1) = SetCloexec(moved, to[k + 1], FALSE)
    <3>1. k + 1 \in 1 .. 4
      OBVIOUS
    <3>2. /\ maps[k + 1].target = to[k + 1] /\ maps[k + 1].close_on_exec = FALSE
          /\ base + (k + 1) - 1 = from[k + 1]
      BY <1>1, <3>1
    <3>3. MoveToTarget(maps, t, k + 1)
            = SetCloexec(Close(Dup2(t, base + (k + 1) - 1, maps[k + 1].target), base + (k + 1) - 1),
                         maps[k + 1].target, maps[k + 1].close_on_exec)
      BY DEF MoveToTarget
    <3>4. QED  BY <3>2, <3>3 DEF Moved
  <2> HIDE DEF moved
  <2>3. SetCloexec(moved, to[k + 1], FALSE) = moved
    BY <2>1, FlagStays
  <2>4. QED  BY <2>1, <2>2, <2>3
<1> DEFINE t1 == MoveToTarget(maps, table, 1)
           t2 == MoveToTarget(maps, t1, 2)
           t3 == MoveToTarget(maps, t2, 3)
           t4 == MoveToTarget(maps, t3, 4)
<1>5. MoveAllToTargets(table, maps) = t4
  BY FourMovesToTargets
<1>6. FirstMoved(table, 0, from, to)
  BY DEF from, to
<1>7. FirstMoved(t1, 1, from, to)
  <2>1. FirstMoved(MoveToTarget(maps, table, 0 + 1), 0 + 1, from, to)
    BY <1>4, <1>6
  <2>2. QED  BY <2>1
<1> HIDE DEF t1
<1>8. FirstMoved(t2, 2, from, to)
  <2>1. FirstMoved(MoveToTarget(maps, t1, 1 + 1), 1 + 1, from, to)
    BY <1>4, <1>7
  <2>2. QED  BY <2>1
<1> HIDE DEF t2
<1>9. FirstMoved(t3, 3, from, to)
  <2>1. FirstMoved(MoveToTarget(maps, t2, 2 + 1), 2 + 1, from, to)
    BY <1>4, <1>8
  <2>2. QED  BY <2>1
<1> HIDE DEF t3
<1>10. FirstMoved(t4, 4, from, to)
  <2>1. FirstMoved(MoveToTarget(maps, t3, 3 + 1), 3 + 1, from, to)
    BY <1>4, <1>9
  <2>2. QED  BY <2>1
<1> HIDE DEF t4
<1>11. {from[i] : i \in 4 + 1 .. 4} = {to[i] : i \in 4 + 1 .. 4} /\ 4 + 1 .. 4 = {}
  OBVIOUS
<1>12. FirstMoved(t4, 4, to, to)
  BY <1>10, <1>11 DEF FirstMoved
<1>13. QED  BY <1>5, <1>12 DEF to

(* What exec leaves of the pipes: the four ends at their targets.          *)
LEMMA TargetsAfterExec ==
  ASSUME NEW table, FirstMoved(table, 4, Targets, Targets)
  PROVE  PipeEnds(Exec(table)) = {<<2 + i, ForDatabase[i]>> : i \in 1 .. 4}
<1>1. \A i \in 1 .. 4 : StaysAt(table, 2 + i, ForDatabase[i])
  BY DEF FirstMoved, Targets
<1>2. ClosedOnExec(table, {2 + i : i \in 1 .. 4})
  <2>1. {Targets[i] : i \in 1 .. 4} \cup {Targets[i] : i \in 4 + 1 .. 4} = {2 + i : i \in 1 .. 4}
    BY DEF Targets
  <2>2. QED  BY <2>1 DEF FirstMoved
<1>3. ASSUME NEW d \in Exec(table), d.end.pipe # "inherited"
      PROVE  <<d.number, d.end>> \in {<<2 + i, ForDatabase[i]>> : i \in 1 .. 4}
  <2>1. d \in table /\ ~d.cloexec
    BY DEF Exec
  <2>2. PICK i \in 1 .. 4 : d.number = 2 + i
    BY <1>2, <1>3, <2>1 DEF ClosedOnExec
  <2>3. d = Descriptor(2 + i, ForDatabase[i], FALSE)
    BY <1>1, <2>1, <2>2 DEF StaysAt
  <2>4. d.end = ForDatabase[i]
    BY <2>3 DEF Descriptor
  <2>5. QED  BY <2>2, <2>4
<1>4. ASSUME NEW i \in 1 .. 4
      PROVE  <<2 + i, ForDatabase[i]>> \in PipeEnds(Exec(table))
  <2>1. PICK d \in table : d.number = 2 + i /\ d.end = ForDatabase[i] /\ ~d.cloexec
    <3>1. StaysAt(table, 2 + i, ForDatabase[i])
      BY <1>1
    <3>2. QED  BY <3>1, StaysHasOne
  <2>2. d \in Exec(table) /\ d.end.pipe # "inherited"
    BY <2>1, EndsForDatabase DEF Exec
  <2>3. QED  BY <2>1, <2>2 DEF PipeEnds
<1>5. \A x \in PipeEnds(Exec(table)) : x \in {<<2 + i, ForDatabase[i]>> : i \in 1 .. 4}
  BY <1>3 DEF PipeEnds
<1>6. QED  BY <1>4, <1>5

-----------------------------------------------------------------------------
(* The tables of the three processes.                                      *)

KeptForDatabase == {ReadEnd("disk_out"), WriteEnd("disk_in")}
KeptByMonitor == {WriteEnd("to_db"), ReadEnd("to_monitor")}
HandlingDb == {"send_query", "commands", "validate", "wait_db", "wait_disk"}

\* Both processes have every end when the database is forked, but for spawn's pipe.
EndsAtFork == ToSet(ForDatabase) \cup KeptByMonitor

MonitorTable ==
  /\ monitor = "next" => Clean(fds.monitor, inherited, {})
  /\ monitor = "setup_db" => Clean(fds.monitor, inherited, KeptForDatabase)
  /\ monitor = "spawn" => Clean(fds.monitor, inherited, EndsAtFork \cup {ReadEnd("exec_error")})
  /\ monitor \in HandlingDb => Clean(fds.monitor, inherited, KeptByMonitor)

DbTable ==
  /\ db = "forked" => Clean(fds.db, inherited, EndsAtFork \cup {WriteEnd("exec_error")})
  /\ db = "remapping" =>
       /\ DOMAIN mappings = 1 .. 4
       /\ \A i \in 1 .. 4 : mappings[i].target = 2 + i /\ mappings[i].close_on_exec = FALSE
       /\ RemapBase(mappings) \in Nat /\ RemapBase(mappings) > 6
       /\ FirstMoved(fds.db, 0, Copies(RemapBase(mappings)), Targets)
  /\ db = "remapped" => FirstMoved(fds.db, 4, Targets, Targets)

TableInv ==
  /\ inherited \in InheritedSets
  /\ fds = [monitor |-> fds.monitor, db |-> fds.db, disk |-> fds.disk]
  /\ MonitorTable /\ DbTable /\ EndsInPlace
  /\ monitor \in {"next", "ended"} => disk \in {"unborn", "ended"}

LEMMA InitTables == Init => TableInv
<1> SUFFICES ASSUME Init PROVE TableInv
  OBVIOUS
<1>1. /\ inherited \in InheritedSets /\ monitor = "next" /\ db = "unborn" /\ disk = "unborn"
      /\ fds = [monitor |-> Inherited(inherited), db |-> {}, disk |-> {}]
  BY DEF Init
<1>2. fds = [monitor |-> fds.monitor, db |-> fds.db, disk |-> fds.disk]
      /\ fds.monitor = Inherited(inherited)
  BY <1>1
<1>3. MonitorTable
  BY <1>1, <1>2, InheritedIsClean DEF MonitorTable, HandlingDb
<1>4. DbTable /\ EndsInPlace
  BY <1>1 DEF DbTable, EndsInPlace, DbExecuted, DbAlive
<1>5. QED  BY <1>1, <1>2, <1>3, <1>4 DEF TableInv

\* No table changes.
LEMMA TablesStay ==
  ASSUME TableInv, UNCHANGED <<fds, inherited, mappings, disk>>,
         monitor' = monitor \/ (monitor \in HandlingDb /\ monitor' \in HandlingDb),
         db' = db \/ (DbExecuted /\ DbExecuted')
  PROVE  TableInv'
<1>1. MonitorTable' /\ (monitor' \in {"next", "ended"} => disk' \in {"unborn", "ended"})
  BY DEF TableInv, MonitorTable, HandlingDb
<1>2. DbTable'
  BY DEF TableInv, DbTable, DbExecuted, DbAlive
<1>3. EndsInPlace'
  BY DEF TableInv, EndsInPlace, DbExecuted, DbAlive, PipeEnds
<1>4. QED  BY <1>1, <1>2, <1>3 DEF TableInv

\* The database ends.
LEMMA DatabaseTableCloses ==
  ASSUME TableInv, UNCHANGED <<inherited, disk>>,
         db' = "ended", fds' = [fds EXCEPT !.db = {}],
         monitor' = monitor \/ (monitor \in HandlingDb /\ monitor' \in HandlingDb)
  PROVE  TableInv'
<1>1. /\ fds' = [monitor |-> fds'.monitor, db |-> fds'.db, disk |-> fds'.disk]
      /\ fds'.monitor = fds.monitor /\ fds'.disk = fds.disk
  BY DEF TableInv
<1>2. MonitorTable' /\ (monitor' \in {"next", "ended"} => disk' \in {"unborn", "ended"})
  BY <1>1 DEF TableInv, MonitorTable, HandlingDb
<1>3. DbTable' /\ EndsInPlace'
  BY <1>1 DEF TableInv, DbTable, EndsInPlace, DbExecuted, DbAlive, PipeEnds
<1>4. QED  BY <1>1, <1>2, <1>3 DEF TableInv

\* The monitor ends.
LEMMA MonitorTableCloses ==
  ASSUME TableInv, UNCHANGED <<inherited, db, mappings, disk>>,
         fds' = [fds EXCEPT !.monitor = {}], monitor' \in {"ended", "gave_up", "killed"},
         monitor' = "ended" => disk \in {"unborn", "ended"}
  PROVE  TableInv'
<1>1. /\ fds' = [monitor |-> fds'.monitor, db |-> fds'.db, disk |-> fds'.disk]
      /\ fds'.db = fds.db /\ fds'.disk = fds.disk
  BY DEF TableInv
<1>2. MonitorTable'
  BY DEF MonitorTable, HandlingDb
<1>3. DbTable'
  BY <1>1 DEF TableInv, DbTable
<1>4. EndsInPlace'
  BY <1>1 DEF TableInv, EndsInPlace, DbExecuted, DbAlive, PipeEnds
<1>5. QED  BY <1>1, <1>2, <1>3, <1>4 DEF TableInv

LEMMA DiskTableCloses ==
  ASSUME TableInv, DiskEnds \/ DiskFails
  PROVE  TableInv'
<1>1. /\ UNCHANGED <<monitor, db, inherited, mappings>> /\ disk' = "ended"
      /\ fds' = [fds EXCEPT !.disk = {}]
  BY DEF DiskEnds, DiskFails, monitorVars, dbVars, startup
<1>2. /\ fds' = [monitor |-> fds'.monitor, db |-> fds'.db, disk |-> fds'.disk]
      /\ fds'.db = fds.db /\ fds'.monitor = fds.monitor
  BY <1>1 DEF TableInv
<1>3. MonitorTable'
  BY <1>1, <1>2 DEF TableInv, MonitorTable, HandlingDb
<1>4. DbTable'
  BY <1>1, <1>2 DEF TableInv, DbTable
<1>5. EndsInPlace'
  BY <1>1, <1>2 DEF TableInv, EndsInPlace, DbExecuted, DbAlive, PipeEnds
<1>6. QED  BY <1>1, <1>2, <1>3, <1>4, <1>5 DEF TableInv

LEMMA EndsDiffer ==
  ASSUME NEW p, NEW q
  PROVE  /\ ReadEnd(p) # WriteEnd(q) /\ ReadEnd(p).pipe = p /\ WriteEnd(p).pipe = p
         /\ ReadEnd(p) = ReadEnd(q) => p = q
         /\ WriteEnd(p) = WriteEnd(q) => p = q
<1>1. /\ ReadEnd(p).side = "read" /\ WriteEnd(q).side = "write"
      /\ ReadEnd(p).pipe = p /\ WriteEnd(p).pipe = p
      /\ ReadEnd(q).pipe = q /\ WriteEnd(q).pipe = q
  BY DEF ReadEnd, WriteEnd
<1>2. QED  BY <1>1

\* The ends of the disk's two pipes, some closed.
LEMMA EndsOfDisk ==
  LET all == ({} \cup {ReadEnd("disk_out"), WriteEnd("disk_out")}) \cup {ReadEnd("disk_in"), WriteEnd("disk_in")}
  IN  /\ all \ {ReadEnd("disk_in"), WriteEnd("disk_out")} = KeptForDatabase
      /\ ReadEnd("inherited") \notin {ReadEnd("disk_in"), WriteEnd("disk_out")}
<1>1. /\ ReadEnd("disk_in") # ReadEnd("disk_out") /\ ReadEnd("disk_in") # ReadEnd("inherited")
      /\ WriteEnd("disk_in") # WriteEnd("disk_out")
      /\ ReadEnd("disk_in") # WriteEnd("disk_in") /\ ReadEnd("disk_in") # WriteEnd("disk_out")
      /\ ReadEnd("disk_out") # WriteEnd("disk_in") /\ ReadEnd("disk_out") # WriteEnd("disk_out")
      /\ ReadEnd("inherited") # WriteEnd("disk_out")
  BY EndsDiffer
<1>2. QED  BY <1>1, Zenon DEF KeptForDatabase

(* The disk gets its two ends at 0 and 1, whatever the monitor inherited.  *)
LEMMA DiskInPlace ==
  ASSUME NEW numbers, numbers \in InheritedSets, NEW table, NEW ends, Clean(table, numbers, ends),
         ReadEnd("disk_in") \in ends, WriteEnd("disk_out") \in ends
  PROVE  PipeEnds(Exec(Dup2(Dup2(table, Number(table, ReadEnd("disk_in")), 0),
                            Number(table, WriteEnd("disk_out")), 1)))
           = {<<0, ReadEnd("disk_in")>>, <<1, WriteEnd("disk_out")>>}
<1>1. WellFormed(table) /\ ends \subseteq Ends(table)
  BY DEF Clean
<1>2. PICK d \in table : d.number = Number(table, ReadEnd("disk_in")) /\ d.end = ReadEnd("disk_in")
  BY <1>1, NumberHasEnd
<1>3. PICK e \in table : e.number = Number(table, WriteEnd("disk_out")) /\ e.end = WriteEnd("disk_out")
  BY <1>1, NumberHasEnd
<1>4. \A x \in table : x.end.pipe # "inherited" => x.number \notin 0 .. 2
  <2> TAKE x \in table
  <2> SUFFICES ASSUME x.number \in 0 .. 2 PROVE x.end.pipe = "inherited"
    OBVIOUS
  <2> DEFINE y == Descriptor(x.number, ReadEnd("inherited"), FALSE)
  <2>1. y \in Inherited(numbers)
    BY QuerySessionAssumption DEF Inherited
  <2>2. y.number = x.number /\ y.end = ReadEnd("inherited")
    BY DEF Descriptor
  <2> HIDE DEF y
  <2>3. y \in table
    BY <2>1 DEF Clean
  <2>4. x = y
    BY <1>1, <2>2, <2>3 DEF WellFormed
  <2>5. QED  BY <2>2, <2>4, EndsDiffer
<1>5. d.number \notin 0 .. 2 /\ e.number \notin 0 .. 2 /\ d.end.pipe = "disk_in" /\ e.end.pipe = "disk_out"
  <2>1. d.end.pipe = "disk_in" /\ e.end.pipe = "disk_out"
    BY <1>2, <1>3, EndsDiffer
  <2>2. QED  BY <1>4, <2>1
<1> DEFINE in == Descriptor(0, ReadEnd("disk_in"), FALSE)
           out == Descriptor(1, WriteEnd("disk_out"), FALSE)
           u == Dup2(table, d.number, 0)
           v == Dup2(u, e.number, 1)
<1>6. /\ in.number = 0 /\ in.end = ReadEnd("disk_in") /\ ~in.cloexec
      /\ out.number = 1 /\ out.end = WriteEnd("disk_out") /\ ~out.cloexec
  BY DEF Descriptor
<1>7. u = Close(table, 0) \cup {in} /\ WellFormed(u)
  <2>1. 0 \in Nat /\ 0 # d.number
    BY <1>5
  <2>2. QED  BY <1>1, <1>2, <2>1, Dup2Copies
<1> HIDE DEF u
<1>8. v = Close(u, 1) \cup {out}
  <2>1. e.number # 0 /\ 1 # e.number /\ 1 \in Nat
    BY <1>5
  <2>2. e \in Close(table, 0)
    BY <2>1 DEF Close
  <2>3. e \in u
    BY <1>7, <2>2
  <2>4. Dup2(u, e.number, 1) = Close(u, 1) \cup {Descriptor(1, e.end, FALSE)}
    BY <1>7, <2>1, <2>3, Dup2Copies
  <2>5. QED  BY <1>3, <2>4
<1> HIDE DEF v, in, out
<1>9. \A x \in v : x = in \/ x = out \/ x \in table
  BY <1>7, <1>8 DEF Close
<1>10. in \in v /\ out \in v
  BY <1>6, <1>7, <1>8 DEF Close
<1>11. \A x \in table : x.end.pipe # "inherited" => x.cloexec
  <2> TAKE x \in table
  <2>1. CASE x \in Inherited(numbers)
    <3>1. PICK n \in numbers : x = Descriptor(n, ReadEnd("inherited"), FALSE)
      BY <2>1 DEF Inherited
    <3>2. x.end = ReadEnd("inherited")
      BY <3>1 DEF Descriptor
    <3>3. QED  BY <3>2, EndsDiffer
  <2>2. CASE x.cloexec
    BY <2>2
  <2>3. QED  BY <2>1, <2>2 DEF Clean
<1>12. in.end.pipe # "inherited" /\ out.end.pipe # "inherited"
  BY <1>6, EndsDiffer
<1>13. {x \in Exec(v) : x.end.pipe # "inherited"} = {in, out}
  BY <1>6, <1>9, <1>10, <1>11, <1>12 DEF Exec
<1>14. PipeEnds(Exec(v)) = {<<x.number, x.end>> : x \in {in, out}}
  BY <1>13 DEF PipeEnds
<1>15. PipeEnds(Exec(v)) = {<<0, ReadEnd("disk_in")>>, <<1, WriteEnd("disk_out")>>}
  BY <1>6, <1>14
<1>16. QED  BY <1>2, <1>3, <1>15 DEF v, u

LEMMA DiskSetUp ==
  ASSUME TableInv, SetupDisk
  PROVE  TableInv'
<1> DEFINE opened == Pipe(Pipe(fds.monitor, "disk_out"), "disk_in")
           all == ({} \cup {ReadEnd("disk_out"), WriteEnd("disk_out")})
                    \cup {ReadEnd("disk_in"), WriteEnd("disk_in")}
           forDisk == Exec(Dup2(Dup2(opened, Number(opened, ReadEnd("disk_in")), 0),
                                Number(opened, WriteEnd("disk_out")), 1))
           kept == CloseEnds(opened, {ReadEnd("disk_in"), WriteEnd("disk_out")})
<1>1. /\ monitor = "next" /\ monitor' = "setup_db" /\ disk' = "running"
      /\ fds' = [fds EXCEPT !.disk = forDisk, !.monitor = kept]
      /\ UNCHANGED <<db, inherited, mappings>>
  BY DEF SetupDisk, dbVars, startup
<1>2. Clean(opened, inherited, all)
  <2>1. Clean(fds.monitor, inherited, {})
    BY <1>1 DEF TableInv, MonitorTable
  <2>2. QED  BY <2>1, PipeKeepsClean
<1>3. Clean(kept, inherited, KeptForDatabase)
  BY <1>2, CloseKeepsClean, EndsOfDisk
<1>4. PipeEnds(forDisk) = {<<0, ReadEnd("disk_in")>>, <<1, WriteEnd("disk_out")>>}
  BY <1>2, DiskInPlace DEF TableInv
<1> HIDE DEF forDisk, kept
<1>5. /\ fds' = [monitor |-> fds'.monitor, db |-> fds'.db, disk |-> fds'.disk]
      /\ fds'.db = fds.db /\ fds'.monitor = kept /\ fds'.disk = forDisk
  BY <1>1 DEF TableInv
<1>6. MonitorTable'
  BY <1>1, <1>3, <1>5 DEF MonitorTable, HandlingDb
<1>7. DbTable'
  BY <1>1, <1>5 DEF TableInv, DbTable
<1>8. EndsInPlace'
  <2>1. DbExecuted' => PipeEnds(fds.db)' = {<<2 + i, ForDatabase[i]>> : i \in 1 .. 4}
    BY <1>1, <1>5 DEF TableInv, EndsInPlace, DbExecuted, DbAlive, PipeEnds
  <2>2. PipeEnds(fds.disk)' = {<<0, ReadEnd("disk_in")>>, <<1, WriteEnd("disk_out")>>}
    BY <1>4, <1>5 DEF PipeEnds
  <2>3. QED  BY <2>1, <2>2 DEF EndsInPlace
<1>9. QED  BY <1>1, <1>5, <1>6, <1>7, <1>8 DEF TableInv

\* The ends a query has in the monitor's table, some closed.
LEMMA EndsOfQuery ==
  LET all == ((KeptForDatabase \cup {ReadEnd("to_db"), WriteEnd("to_db")})
                \cup {ReadEnd("to_monitor"), WriteEnd("to_monitor")})
                \cup {ReadEnd("exec_error"), WriteEnd("exec_error")}
      given == GivenToDatabase \cup {ReadEnd("exec_error")}
  IN  /\ all \ {WriteEnd("exec_error")} = EndsAtFork \cup {ReadEnd("exec_error")}
      /\ all \ {ReadEnd("exec_error")} = EndsAtFork \cup {WriteEnd("exec_error")}
      /\ (EndsAtFork \cup {ReadEnd("exec_error")}) \ given = KeptByMonitor
      /\ ReadEnd("inherited") \notin given
      /\ ReadEnd("inherited") \notin KeptByMonitor
      /\ ReadEnd("inherited") # ReadEnd("exec_error") /\ ReadEnd("inherited") # WriteEnd("exec_error")
<1>1. ToSet(ForDatabase) = {ReadEnd("disk_out"), WriteEnd("disk_in"), ReadEnd("to_db"), WriteEnd("to_monitor")}
  <2>1. \A i \in 1 .. 4 : i = 1 \/ i = 2 \/ i = 3 \/ i = 4
    OBVIOUS
  <2>2. ToSet(ForDatabase) = {ForDatabase[i] : i \in 1 .. 4}
    BY DEF ToSet, ForDatabase
  <2>3. 1 \in 1 .. 4 /\ 2 \in 1 .. 4 /\ 3 \in 1 .. 4 /\ 4 \in 1 .. 4
    OBVIOUS
  <2>4. QED  BY <2>1, <2>2, <2>3, EndsForDatabase
<1>2. \A p, q : /\ ReadEnd(p) # WriteEnd(q)
                /\ ReadEnd(p) = ReadEnd(q) => p = q
                /\ WriteEnd(p) = WriteEnd(q) => p = q
  BY EndsDiffer
<1>3. QED  BY <1>1, <1>2 DEF EndsAtFork, KeptForDatabase, KeptByMonitor, GivenToDatabase

LEMMA DbSetUp ==
  ASSUME TableInv, SetupDb
  PROVE  TableInv'
<1> DEFINE opened == Pipe(Pipe(Pipe(fds.monitor, "to_db"), "to_monitor"), "exec_error")
           all == ((KeptForDatabase \cup {ReadEnd("to_db"), WriteEnd("to_db")})
                     \cup {ReadEnd("to_monitor"), WriteEnd("to_monitor")})
                     \cup {ReadEnd("exec_error"), WriteEnd("exec_error")}
           child == CloseEnds(opened, {ReadEnd("exec_error")})
           parent == CloseEnds(opened, {WriteEnd("exec_error")})
<1>1. /\ monitor = "setup_db" /\ monitor' = "spawn" /\ db' = "forked"
      /\ fds' = [fds EXCEPT !.db = child, !.monitor = parent]
      /\ UNCHANGED <<disk, inherited>>
  BY DEF SetupDb
<1>2. Clean(opened, inherited, all)
  <2>1. Clean(fds.monitor, inherited, KeptForDatabase)
    BY <1>1 DEF TableInv, MonitorTable
  <2>2. QED  BY <2>1, PipeKeepsClean
<1>3. Clean(parent, inherited, EndsAtFork \cup {ReadEnd("exec_error")})
  <2>1. Clean(parent, inherited, all \ {WriteEnd("exec_error")})
    BY <1>2, CloseKeepsClean, EndsOfQuery
  <2>2. QED  BY <2>1, EndsOfQuery
<1>4. Clean(child, inherited, EndsAtFork \cup {WriteEnd("exec_error")})
  <2>1. Clean(child, inherited, all \ {ReadEnd("exec_error")})
    BY <1>2, CloseKeepsClean, EndsOfQuery
  <2>2. QED  BY <2>1, EndsOfQuery
<1> HIDE DEF child, parent
<1>5. /\ fds' = [monitor |-> fds'.monitor, db |-> fds'.db, disk |-> fds'.disk]
      /\ fds'.db = child /\ fds'.monitor = parent /\ fds'.disk = fds.disk
  BY <1>1 DEF TableInv
<1>6. MonitorTable' /\ DbTable'
  BY <1>1, <1>3, <1>4, <1>5 DEF MonitorTable, DbTable, HandlingDb
<1>7. EndsInPlace'
  BY <1>1, <1>5 DEF TableInv, EndsInPlace, DbExecuted, DbAlive, PipeEnds
<1>8. QED  BY <1>1, <1>5, <1>6, <1>7 DEF TableInv

\* The monitor closes what it has given away, or what it has left.
LEMMA MonitorTableShrinks ==
  ASSUME TableInv, NEW ends, NEW closed, Clean(fds.monitor, inherited, ends),
         ReadEnd("inherited") \notin closed,
         fds' = [fds EXCEPT !.monitor = CloseEnds(@, closed)],
         UNCHANGED <<inherited, db, mappings, disk>>,
         \/ ends \ closed = {} /\ monitor' = "next" /\ disk \in {"unborn", "ended"}
         \/ ends \ closed = KeptByMonitor /\ monitor' \in HandlingDb
  PROVE  TableInv'
<1>1. Clean(CloseEnds(fds.monitor, closed), inherited, ends \ closed)
  BY CloseKeepsClean
<1>2. /\ fds' = [monitor |-> fds'.monitor, db |-> fds'.db, disk |-> fds'.disk]
      /\ fds'.db = fds.db /\ fds'.monitor = CloseEnds(fds.monitor, closed) /\ fds'.disk = fds.disk
  BY DEF TableInv
<1>3. MonitorTable'
  BY <1>1, <1>2 DEF MonitorTable, HandlingDb
<1>4. DbTable'
  BY <1>2 DEF TableInv, DbTable
<1>5. EndsInPlace'
  BY <1>2 DEF TableInv, EndsInPlace, DbExecuted, DbAlive, PipeEnds
<1>6. QED  BY <1>2, <1>3, <1>4, <1>5 DEF TableInv, HandlingDb

LEMMA SpawnTables ==
  ASSUME TableInv, SpawnReturns
  PROVE  TableInv'
<1>1. monitor = "spawn" /\ UNCHANGED <<db, disk, inherited, mappings>>
  BY DEF SpawnReturns, dbVars, startup
<1>2. CASE monitor' = "gave_up" /\ fds' = [fds EXCEPT !.monitor = {}]
  BY <1>1, <1>2, MonitorTableCloses
<1>3. CASE /\ monitor' = "send_query"
           /\ fds' = [fds EXCEPT !.monitor = CloseEnds(@, GivenToDatabase \cup {ReadEnd("exec_error")})]
  <2>1. Clean(fds.monitor, inherited, EndsAtFork \cup {ReadEnd("exec_error")})
    BY <1>1 DEF TableInv, MonitorTable
  <2>2. monitor' \in HandlingDb
    BY <1>3 DEF HandlingDb
  <2>3. QED  BY <1>1, <1>3, <2>1, <2>2, EndsOfQuery, MonitorTableShrinks
<1>4. QED  BY <1>2, <1>3 DEF SpawnReturns

LEMMA EndOfQueryTables ==
  ASSUME TableInv, WaitDisk
  PROVE  TableInv'
<1>1. monitor = "wait_disk" /\ disk = "ended" /\ UNCHANGED <<db, disk, inherited, mappings>>
  BY DEF WaitDisk, EndOfQuery, dbVars, startup
<1>2. CASE monitor' = "ended" /\ fds' = [fds EXCEPT !.monitor = {}]
  BY <1>1, <1>2, MonitorTableCloses
<1>3. CASE /\ monitor' = "next"
           /\ fds' = [fds EXCEPT !.monitor = CloseEnds(@, {WriteEnd("to_db"), ReadEnd("to_monitor")})]
  <2>1. Clean(fds.monitor, inherited, KeptByMonitor)
    BY <1>1 DEF TableInv, MonitorTable, HandlingDb
  <2>2. KeptByMonitor = {WriteEnd("to_db"), ReadEnd("to_monitor")} /\ KeptByMonitor \ KeptByMonitor = {}
    BY DEF KeptByMonitor
  <2>3. QED  BY <1>1, <1>3, <2>1, <2>2, EndsOfQuery, MonitorTableShrinks
<1>4. QED  BY <1>2, <1>3 DEF WaitDisk, EndOfQuery

\* A change of the database's table alone.
LEMMA DatabaseTableChanges ==
  ASSUME TableInv, NEW table, fds' = [fds EXCEPT !.db = table],
         UNCHANGED <<monitor, disk, inherited>>
  PROVE  /\ fds' = [monitor |-> fds'.monitor, db |-> fds'.db, disk |-> fds'.disk]
         /\ fds'.monitor = fds.monitor /\ fds'.disk = fds.disk /\ fds'.db = table
         /\ DbTable' /\ (DbExecuted' => PipeEnds(table) = {<<2 + i, ForDatabase[i]>> : i \in 1 .. 4})
              => TableInv'
<1>1. /\ fds' = [monitor |-> fds'.monitor, db |-> fds'.db, disk |-> fds'.disk]
      /\ fds'.monitor = fds.monitor /\ fds'.disk = fds.disk /\ fds'.db = table
  BY DEF TableInv
<1>2. MonitorTable' /\ (monitor' \in {"next", "ended"} => disk' \in {"unborn", "ended"})
  BY <1>1 DEF TableInv, MonitorTable
<1>3. (DbExecuted' => PipeEnds(table) = {<<2 + i, ForDatabase[i]>> : i \in 1 .. 4}) => EndsInPlace'
  BY <1>1 DEF TableInv, EndsInPlace, PipeEnds
<1>4. QED  BY <1>1, <1>2, <1>3 DEF TableInv

LEMMA RemapTables ==
  ASSUME TableInv, RemapAway \/ RemapToTargets \/ ExecDatabase
  PROVE  TableInv'
<1>1. UNCHANGED <<monitor, disk, inherited>>
  BY DEF RemapAway, RemapToTargets, ExecDatabase, monitorVars, startup
<1>2. CASE RemapAway
  <2>1. /\ db = "forked" /\ db' = "remapping" /\ mappings' = Mappings(fds.db)
        /\ fds' = [fds EXCEPT !.db = MoveAllAway(fds.db, mappings')]
    BY <1>2 DEF RemapAway
  <2>2. Clean(fds.db, inherited, EndsAtFork \cup {WriteEnd("exec_error")})
    BY <2>1 DEF TableInv, DbTable
  <2>3. WellFormed(fds.db) /\ ToSet(ForDatabase) \subseteq Ends(fds.db)
    BY <2>2 DEF Clean, EndsAtFork
  <2>4. ClosedOnExec(fds.db, {})
    <3>1. \A d \in Inherited(inherited) : d.end.pipe = "inherited"
      <4> TAKE d \in Inherited(inherited)
      <4>1. PICK n \in inherited : d = Descriptor(n, ReadEnd("inherited"), FALSE)
        BY DEF Inherited
      <4>2. d.end = ReadEnd("inherited")
        BY <4>1 DEF Descriptor
      <4>3. QED  BY <4>2, EndsDiffer
    <3>2. QED  BY <2>2, <3>1 DEF Clean, ClosedOnExec
  <2> DEFINE maps == Mappings(fds.db)
             table == MoveAllAway(fds.db, maps)
  <2>5. /\ DOMAIN maps = 1 .. 4
        /\ \A i \in 1 .. 4 : maps[i].target = 2 + i /\ maps[i].close_on_exec = FALSE
        /\ RemapBase(maps) \in Nat /\ RemapBase(maps) > 6
        /\ FirstMoved(table, 0, Copies(RemapBase(maps)), Targets)
    BY <2>3, <2>4, AllMoveAway
  <2> HIDE DEF maps
  <2>6. mappings' = maps /\ fds' = [fds EXCEPT !.db = table]
    BY <2>1 DEF maps
  <2> HIDE DEF table
  <2>7. fds'.db = table
    BY <1>1, <2>6, DatabaseTableChanges
  <2>8. DbTable'
    BY <2>1, <2>5, <2>6, <2>7 DEF DbTable
  <2>9. ~DbExecuted'
    BY <2>1 DEF DbExecuted
  <2>10. QED  BY <1>1, <2>6, <2>8, <2>9, DatabaseTableChanges
<1>3. CASE RemapToTargets
  <2> DEFINE table == MoveAllToTargets(fds.db, mappings)
  <2>1. db = "remapping" /\ db' = "remapped" /\ fds' = [fds EXCEPT !.db = table]
    BY <1>3 DEF RemapToTargets
  <2>2. FirstMoved(table, 4, Targets, Targets)
    BY <2>1, AllReachTargets DEF TableInv, DbTable
  <2> HIDE DEF table
  <2>3. fds'.db = table
    BY <1>1, <2>1, DatabaseTableChanges
  <2>4. DbTable'
    BY <2>1, <2>2, <2>3 DEF DbTable
  <2>5. ~DbExecuted'
    BY <2>1 DEF DbExecuted
  <2>6. QED  BY <1>1, <2>1, <2>4, <2>5, DatabaseTableChanges
<1>4. CASE ExecDatabase
  <2>1. db = "remapped" /\ db' = "read_query" /\ fds' = [fds EXCEPT !.db = Exec(fds.db)]
    BY <1>4 DEF ExecDatabase
  <2>2. PipeEnds(Exec(fds.db)) = {<<2 + i, ForDatabase[i]>> : i \in 1 .. 4}
    BY <2>1, TargetsAfterExec DEF TableInv, DbTable
  <2>3. DbTable'
    BY <2>1 DEF DbTable
  <2>4. QED  BY <1>1, <2>1, <2>2, <2>3, DatabaseTableChanges
<1>5. QED  BY <1>2, <1>3, <1>4

LEMMA StepTables == TableInv /\ [Next]_vars => TableInv'
<1> SUFFICES ASSUME TableInv, [Next]_vars PROVE TableInv'
  OBVIOUS
<1>1. CASE \/ SkipDisabled \/ StartValidation \/ ReadRow \/ AcceptResult \/ WaitDb
           \/ ReadQuery \/ AskMemoryLimit \/ ReadMemoryLimit \/ AskDisk \/ BeginValidation
           \/ SendRow \/ CallDisk \/ FinishValidation \/ UNCHANGED vars
  <2>1. UNCHANGED <<fds, inherited, mappings, disk>>
    BY <1>1 DEF SkipDisabled, StartValidation, ReadRow, AcceptResult, WaitDb, ReadQuery, AskMemoryLimit,
         ReadMemoryLimit, AskDisk, BeginValidation, SendRow, CallDisk, FinishValidation,
         vars, descriptors, startup
  <2>2. /\ monitor' = monitor \/ (monitor \in HandlingDb /\ monitor' \in HandlingDb)
        /\ db' = db \/ (DbExecuted /\ DbExecuted')
    BY <1>1 DEF SkipDisabled, StartValidation, ReadRow, AcceptResult, WaitDb, ReadQuery, AskMemoryLimit,
         ReadMemoryLimit, AskDisk, BeginValidation, SendRow, CallDisk, FinishValidation,
         vars, monitorVars, dbVars, HandlingDb, DbExecuted, DbAlive
  <2>3. QED  BY <2>1, <2>2, TablesStay
<1>2. CASE SendQuery \/ AnswerMemoryLimit \/ NoValidation \/ RejectResult
  <2>1. CASE Fail
    <3>1. monitor \in HandlingDb /\ monitor' \in HandlingDb
      BY <1>2, <2>1 DEF SendQuery, AnswerMemoryLimit, NoValidation, RejectResult, Fail, HandlingDb
    <3>2. QED  BY <2>1, <3>1, DatabaseTableCloses DEF Fail, startup
  <2>2. CASE ~Fail
    <3>1. UNCHANGED <<fds, inherited, mappings, disk, db>>
      BY <1>2, <2>2 DEF SendQuery, AnswerMemoryLimit, NoValidation, RejectResult, descriptors, startup, dbVars
    <3>2. monitor' = monitor \/ (monitor \in HandlingDb /\ monitor' \in HandlingDb)
      BY <1>2, <2>2 DEF SendQuery, AnswerMemoryLimit, NoValidation, RejectResult, monitorVars, HandlingDb
    <3>3. QED  BY <3>1, <3>2, TablesStay
  <2>3. QED  BY <2>1, <2>2
<1>3. CASE NoMoreQueries \/ DiskCannotStart \/ MonitorKilled
  <2>1. /\ fds' = [fds EXCEPT !.monitor = {}] /\ monitor' \in {"ended", "gave_up", "killed"}
        /\ UNCHANGED <<inherited, db, mappings, disk>>
        /\ monitor' = "ended" => monitor = "next"
    BY <1>3 DEF NoMoreQueries, DiskCannotStart, MonitorKilled, dbVars, startup
  <2>2. QED  BY <2>1, MonitorTableCloses DEF TableInv
<1>4. CASE ExecFails \/ DbExits \/ DbFails \/ DbFailsInLine
  <2>1. /\ db' = "ended" /\ fds' = [fds EXCEPT !.db = {}]
        /\ UNCHANGED <<inherited, disk, monitor>>
    BY <1>4 DEF ExecFails, DbExits, DbFails, DbFailsInLine, DbEnds, monitorVars, startup
  <2>2. QED  BY <2>1, DatabaseTableCloses
<1>5. QED
  BY <1>1, <1>2, <1>3, <1>4, DiskSetUp, DbSetUp, SpawnTables, EndOfQueryTables, RemapTables,
     DiskTableCloses DEF Next, MonitorStep, DbStep

(* Whatever descriptors the monitor inherited, an executed database has    *)
(* exactly its four ends at the numbers of io_setup.rs, and the disk its   *)
(* two at 0 and 1: the two loops of remap_fds never lose an end, even when *)
(* sources, copies and targets overlap.                                    *)
THEOREM EndsPlaced == Spec => []EndsInPlace
<1>1. TableInv => EndsInPlace
  BY DEF TableInv
<1>2. QED  BY <1>1, InitTables, StepTables, PTL DEF Spec

(* When the monitor goes on to the next query or ends, the query's two     *)
(* processes have ended, and the monitor's table is the one it started     *)
(* with.                                                                   *)
THEOREM NothingLeft == Spec => []NothingLeftBehind
<1>1. Spec => []IInv
  BY InitConversation, StepConversation, PTL DEF Spec
<1>2. Spec => []TableInv
  BY InitTables, StepTables, PTL DEF Spec
<1>3. IInv /\ TableInv => NothingLeftBehind
  <2> SUFFICES ASSUME IInv, TableInv PROVE NothingLeftBehind
    OBVIOUS
  <2>1. monitor = "next" => fds.monitor = Inherited(inherited)
    BY CleanOfNone DEF TableInv, MonitorTable
  <2>2. QED  BY <2>1 DEF NothingLeftBehind, IInv, MonitorInv, TableInv
<1>4. QED  BY <1>1, <1>2, <1>3, PTL

=============================================================================
