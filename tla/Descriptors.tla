----------------------------- MODULE Descriptors -----------------------------
(***************************************************************************)
(* The table of open file descriptors of a process, the system calls that  *)
(* change it, and the two loops of remap_fds (monitor/src/fd_mapper.rs).   *)
(*                                                                         *)
(* A table is a set of descriptors: an open number, the end of a pipe it   *)
(* stands for and its close-on-exec flag.                                  *)
(***************************************************************************)
EXTENDS Integers, Sequences, FiniteSets, FiniteSetsExt, SequencesExt

ReadEnd(pipe) == [pipe |-> pipe, side |-> "read"]
WriteEnd(pipe) == [pipe |-> pipe, side |-> "write"]

Descriptor(number, end, cloexec) == [number |-> number, end |-> end, cloexec |-> cloexec]

\* What a process has from its parent; no end of a pipe of the session.
Inherited(numbers) == {Descriptor(n, ReadEnd("inherited"), FALSE) : n \in numbers}

-----------------------------------------------------------------------------
(* System calls, and how the standard library uses them.                   *)

Numbers(table) == {d.number : d \in table}
Ends(table) == {d.end : d \in table}

LowestFree(table) == Min((0 .. Cardinality(table)) \ Numbers(table))

OpenEnd_Inheritable(table, end) ==   \* mutant: pipe without O_CLOEXEC
  table \cup {Descriptor(LowestFree(table), end, FALSE)}

OpenEnd(table, end) == table \cup {Descriptor(LowestFree(table), end, TRUE)}

\* std::io::pipe: the two lowest free numbers.
Pipe(table, pipe) == OpenEnd(OpenEnd(table, ReadEnd(pipe)), WriteEnd(pipe))

Number(table, end) == CHOOSE n \in Numbers(table) : \E d \in table : d.number = n /\ d.end = end

Close(table, number) == {d \in table : d.number # number}

CloseEnds(table, ends) == {d \in table : d.end \notin ends}

\* EBADF without a source; the copy is not closed on exec; a copy onto itself does nothing.
Dup2(table, from, to) ==
  LET source == {d \in table : d.number = from} IN
  IF from = to \/ source = {} THEN table
  ELSE Close(table, to) \cup {Descriptor(to, d.end, FALSE) : d \in source}

SetCloexec(table, number, flag) ==
  {IF d.number = number THEN [d EXCEPT !.cloexec = flag] ELSE d : d \in table}

Exec(table) == {d \in table : ~d.cloexec}

-----------------------------------------------------------------------------
(* remap_fds: every source moves to a number above all sources and         *)
(* targets, and when all have moved from there to its target.              *)

RemapBase(mappings) ==
  Max({mappings[i].source : i \in DOMAIN mappings} \cup
      {mappings[i].target : i \in DOMAIN mappings}) + 1

MoveAway_Straight(mappings, table, i) ==   \* mutant: one pass, each source straight to its target
  Close(Dup2(table, mappings[i].source, mappings[i].target), mappings[i].source)

MoveAway(mappings, table, i) ==
  Close(Dup2(table, mappings[i].source, RemapBase(mappings) + i - 1), mappings[i].source)

MoveToTarget(mappings, table, i) ==
  LET copy == RemapBase(mappings) + i - 1 IN
  SetCloexec(Close(Dup2(table, copy, mappings[i].target), copy),
             mappings[i].target, mappings[i].close_on_exec)

MoveAllAway(table, mappings) ==
  FoldLeftDomain(LAMBDA t, i : MoveAway(mappings, t, i), table, mappings)

MoveAllToTargets(table, mappings) ==
  FoldLeftDomain(LAMBDA t, i : MoveToTarget(mappings, t, i), table, mappings)

=============================================================================
