------------------------------ MODULE RunStore ------------------------------
(***************************************************************************)
(* What the scratch storage promises to the operators that spill: a run is *)
(* a sequence of rows.  A writer appends to it, finishing the writer seals *)
(* it, and every reader of a sealed run gets exactly the pushed rows in    *)
(* push order, whatever other runs are written, read or dropped meanwhile. *)
(* No blocks, batches or disk here; ScratchRun implements this module.     *)
(***************************************************************************)
EXTENDS Integers, Sequences

CONSTANTS
  Runs,     \* identities of runs
  Readers,  \* identities of readers
  Rows,     \* row values
  NoRow,    \* what a reader returns at the end of the run
  NoRun     \* a reader that is not reading

VARIABLES
  phase,     \* of each run: "unused", "writing" or "sealed"
  contents,  \* of each run: the rows pushed, in order
  reading,   \* of each reader: the run it reads, or NoRun
  position,  \* of each reader: how many rows it has returned
  returned   \* of each reader: what its last call returned

vars == <<phase, contents, reading, position, returned>>

Init ==
  /\ phase = [r \in Runs |-> "unused"]
  /\ contents = [r \in Runs |-> <<>>]
  /\ reading = [c \in Readers |-> NoRun]
  /\ position = [c \in Readers |-> 0]
  /\ returned = [c \in Readers |-> NoRow]

Open(r) ==
  /\ phase[r] = "unused"
  /\ phase' = [phase EXCEPT ![r] = "writing"]
  /\ UNCHANGED <<contents, reading, position, returned>>

Push(r, row) ==
  /\ phase[r] = "writing"
  /\ contents' = [contents EXCEPT ![r] = Append(@, row)]
  /\ UNCHANGED <<phase, reading, position, returned>>

Seal(r) ==
  /\ phase[r] = "writing"
  /\ phase' = [phase EXCEPT ![r] = "sealed"]
  /\ UNCHANGED <<contents, reading, position, returned>>

Drop(r) ==
  /\ phase[r] # "unused"
  /\ \A c \in Readers : reading[c] # r
  /\ phase' = [phase EXCEPT ![r] = "unused"]
  /\ contents' = [contents EXCEPT ![r] = <<>>]
  /\ UNCHANGED <<reading, position, returned>>

StartReading(c, r) ==
  /\ reading[c] = NoRun
  /\ phase[r] = "sealed"
  /\ reading' = [reading EXCEPT ![c] = r]
  /\ position' = [position EXCEPT ![c] = 0]
  /\ returned' = [returned EXCEPT ![c] = NoRow]
  /\ UNCHANGED <<phase, contents>>

Read(c) ==
  /\ reading[c] # NoRun
  /\ LET rows == contents[reading[c]]
     IN  IF position[c] < Len(rows)
         THEN /\ returned' = [returned EXCEPT ![c] = rows[position[c] + 1]]
              /\ position' = [position EXCEPT ![c] = @ + 1]
         ELSE /\ returned' = [returned EXCEPT ![c] = NoRow]
              /\ UNCHANGED position
  /\ UNCHANGED <<phase, contents, reading>>

StopReading(c) ==
  /\ reading[c] # NoRun
  /\ reading' = [reading EXCEPT ![c] = NoRun]
  /\ position' = [position EXCEPT ![c] = 0]
  /\ returned' = [returned EXCEPT ![c] = NoRow]
  /\ UNCHANGED <<phase, contents>>

Next ==
  \/ \E r \in Runs : Open(r) \/ Seal(r) \/ Drop(r)
  \/ \E r \in Runs, row \in Rows : Push(r, row)
  \/ \E c \in Readers : Read(c) \/ StopReading(c)
  \/ \E c \in Readers, r \in Runs : StartReading(c, r)

Spec == Init /\ [][Next]_vars

=============================================================================
