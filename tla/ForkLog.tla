------------------------------ MODULE ForkLog -------------------------------
(***************************************************************************)
(* One log file under a tree of processes (myeasylog.hpp as the forking    *)
(* servers use it: CalculatorServer, CalculatorServer_v2, HTTPforServer).  *)
(* Each process is a single thread, so the mutexes of MyEasyLog, which are *)
(* not shared between processes, exclude nobody. Every process appends to  *)
(* the file through a FILE of its own, whose buffer fork copies.           *)
(*                                                                         *)
(* A line is cut into the pieces its FILE handles as one; a short line is  *)
(* one whose pieces fit into the buffer together.                          *)
(***************************************************************************)
EXTENDS Naturals, Sequences, FiniteSets

CONSTANTS
  Process,   \* the processes
  Root,      \* the one that main starts in
  Capacity,  \* the pieces the buffer of a FILE holds
  MaxLines,  \* bound: calls of WriteLog
  MaxPieces  \* bound: the pieces of a line

ForkLogAssumption ==
  /\ Root \in Process
  /\ Capacity \in Nat \ {0} /\ MaxLines \in Nat /\ MaxPieces \in Nat

VARIABLES
  at,        \* none, run, format (WriteLog has called fprintf), gone
  open,      \* GetInstance has constructed the log, here or before the fork
  line,      \* the line a process is writing
  part,      \* the pieces of it that fprintf has handled
  buffer,    \* the buffer of each process's FILE
  file,      \* log.txt
  size,      \* history: the pieces of each line, in the order of the calls
  returned   \* history: the lines whose WriteLog has returned

fvars == <<open, line, part, buffer>>
vars == <<at, fvars, file, size, returned>>

Piece == [line : 1..MaxLines, part : 1..MaxPieces]

TypeOK ==
  /\ at \in [Process -> {"none", "run", "format", "gone"}]
  /\ open \in [Process -> BOOLEAN]
  /\ line \in [Process -> 0..MaxLines] /\ part \in [Process -> 0..MaxPieces]
  /\ buffer \in [Process -> Seq(Piece)]
  /\ \A p \in Process : Len(buffer[p]) <= Capacity
  /\ file \in Seq(Piece)
  /\ size \in Seq(1..MaxPieces)
  /\ returned \subseteq DOMAIN size

Init ==
  /\ at = [p \in Process |-> IF p = Root THEN "run" ELSE "none"]
  /\ open = [p \in Process |-> FALSE]
  /\ line = [p \in Process |-> 0] /\ part = [p \in Process |-> 0]
  /\ buffer = [p \in Process |-> <<>>]
  /\ file = <<>> /\ size = <<>> /\ returned = {}

Goto(p, l) == at' = [at EXCEPT ![p] = l]

-----------------------------------------------------------------------------
(* The log                                                                 *)

\* GetInstance: the first use in the process constructs the log and opens the file
\* for appending.
Construct(p) ==
  /\ at[p] = "run" /\ ~open[p]
  /\ open' = [open EXCEPT ![p] = TRUE]
  /\ UNCHANGED <<at, line, part, buffer, file, size, returned>>

\* LoadFile exits when fopen fails, whatever the process was about to do.
ConstructFails(p) ==
  /\ at[p] = "run" /\ ~open[p]
  /\ Goto(p, "gone")
  /\ UNCHANGED <<fvars, file, size, returned>>

\* WriteLog: a record is filled and handed to fprintf.
WriteLog(p, n) ==
  /\ at[p] = "run" /\ open[p]
  /\ Len(size) < MaxLines
  /\ size' = Append(size, n)
  /\ line' = [line EXCEPT ![p] = Len(size')]
  /\ part' = [part EXCEPT ![p] = 0]
  /\ Goto(p, "format")
  /\ UNCHANGED <<open, buffer, file, returned>>

\* When fprintf writes the buffer out before it goes on; mutant: the FILE is not
\* buffered.
Full_Always(p) == TRUE
Full(p) == Len(buffer[p]) = Capacity

Format(p) ==
  /\ at[p] = "format" /\ part[p] < size[line[p]]
  /\ part' = [part EXCEPT ![p] = @ + 1]
  /\ LET piece == [line |-> line[p], part |-> part'[p]]
     IN  /\ file' = IF Full(p) THEN file \o buffer[p] ELSE file
         /\ buffer' = [buffer EXCEPT ![p] = IF Full(p) THEN <<piece>> ELSE Append(@, piece)]
  /\ UNCHANGED <<at, open, line, size, returned>>

\* Mutant: no fflush, the line stays in the buffer.
Flush_Not(p) ==
  /\ at[p] = "format" /\ part[p] = size[line[p]]
  /\ returned' = returned \cup {line[p]}
  /\ Goto(p, "run")
  /\ UNCHANGED <<open, line, part, buffer, file, size>>

\* fflush, and WriteLog returns.
Flush(p) ==
  /\ at[p] = "format" /\ part[p] = size[line[p]]
  /\ file' = file \o buffer[p]
  /\ buffer' = [buffer EXCEPT ![p] = <<>>]
  /\ returned' = returned \cup {line[p]}
  /\ Goto(p, "run")
  /\ UNCHANGED <<open, line, part, size>>

-----------------------------------------------------------------------------
(* The processes                                                           *)

\* fork copies the log, its FILE and what is in its buffer.
Fork(p, q) ==
  /\ at[p] = "run" /\ at[q] = "none"
  /\ Goto(q, "run")
  /\ open' = [open EXCEPT ![q] = open[p]]
  /\ buffer' = [buffer EXCEPT ![q] = buffer[p]]
  /\ UNCHANGED <<line, part, file, size, returned>>

\* exit, or the return of main: ~FileOutput closes the FILE, which writes out what
\* is left in it.
Exit(p) ==
  /\ at[p] = "run"
  /\ Goto(p, "gone")
  /\ file' = file \o buffer[p]
  /\ buffer' = [buffer EXCEPT ![p] = <<>>]
  /\ UNCHANGED <<open, line, part, size, returned>>

\* A division by zero, an exception nothing catches, or a kill.
Crash(p) ==
  /\ at[p] \in {"run", "format"}
  /\ Goto(p, "gone")
  /\ UNCHANGED <<fvars, file, size, returned>>

Next ==
  \E p \in Process :
    \/ Construct(p) \/ ConstructFails(p) \/ Format(p) \/ Flush(p) \/ Exit(p) \/ Crash(p)
    \/ \E n \in 1..MaxPieces : WriteLog(p, n)
    \/ \E q \in Process : Fork(p, q)

Spec == Init /\ [][Next]_vars

-----------------------------------------------------------------------------
(* Properties                                                              *)

Where(n) == {i \in DOMAIN file : file[i].line = n}

\* No piece is in the file twice, although every fork copies a buffer and every exit
\* writes one out; and a line is in the file, whole and in its order, once its WriteLog
\* has returned, even when the process crashes next.
Durable ==
  /\ \A i, j \in DOMAIN file : file[i] = file[j] => i = j
  /\ \A n \in returned :
       /\ {file[i].part : i \in Where(n)} = 1..size[n]
       /\ \A i, j \in Where(n) : i < j => file[i].part < file[j].part

\* The line of one process is not torn by the lines of another as long as it is short:
\* it reaches the file in one write.
ShortLinesWhole ==
  \A n \in DOMAIN size :
    size[n] <= Capacity =>
      \A i, j \in Where(n) : \A k \in i..j : file[k].line = n
=============================================================================
