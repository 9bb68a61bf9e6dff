----------------------------- MODULE MCEasyLog ------------------------------
(***************************************************************************)
(* Instances for TLC of MyEasyLog, once for the threads of one process and *)
(* once for the processes that share its file. They share no state: a      *)
(* behaviour is one of a single module, while the other waits in its       *)
(* initial state.                                                          *)
(*   "threads"    EasyLog: the records and the mutexes                     *)
(*   "processes"  ForkLog: the buffers and the file                        *)
(***************************************************************************)
EXTENDS EasyLog

CONSTANTS w1, w2, w3
CONSTANTS Process, Root, Capacity, MaxLines, MaxPieces   \* of ForkLog

VARIABLES program, at, open, line, part, buffer, file, size, returned

threadVars == vars
processVars == <<at, open, line, part, buffer, file, size, returned>>

Files == INSTANCE ForkLog

ASSUME FilesAssumption == Files!ForkLogAssumption

MCInit ==
  /\ program \in {"threads", "processes"}
  /\ Init /\ Files!Init

MCNext ==
  /\ \/ program = "threads" /\ Next /\ UNCHANGED processVars
     \/ program = "processes" /\ Files!Next /\ UNCHANGED threadVars
  /\ UNCHANGED program

\* In the initial state of EasyLog no action is enabled that fairness asks for.
MCSpec == MCInit /\ [][MCNext]_<<program, threadVars, processVars>> /\ Fairness

\* The type invariants of both modules.
TypesOK == TypeOK /\ Files!TypeOK

\* A line whose WriteLog has returned is in the file, once, whatever ends the process and
\* whatever buffers are copied by a fork; and processes do not tear each other's short
\* lines.
FileSound == Files!Durable /\ Files!ShortLinesWhole
=============================================================================
