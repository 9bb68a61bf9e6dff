---------------------------- MODULE MCForkServer ----------------------------
(***************************************************************************)
(* Instances for TLC of the forking servers and of the class Socket that   *)
(* they hold their connections with. They share no state: a behaviour is   *)
(* one of a single module, while the other waits in its initial state.     *)
(*   "processes"  ForkServer: the processes and what each of them holds    *)
(*   "sockets"    Sockets: the objects of one process and its descriptors  *)
(***************************************************************************)
EXTENDS ForkServer

CONSTANTS c1, c2
CONSTANTS Objects, LastFd, MaxOpens   \* of Sockets

VARIABLES program, semantics, kernel, opened, others, live, sockfd, mine, stray, loop

forkVars == vars
socketVars == <<semantics, kernel, opened, others, live, sockfd, mine, stray, loop>>

Descriptors == INSTANCE Sockets

ASSUME SocketsAssumption == Descriptors!SocketAssumption

MCInit ==
  /\ program \in {"processes", "sockets"}
  /\ Init /\ Descriptors!Init
  /\ program = "processes" => semantics = "move"
  /\ program = "sockets" => version = "first"

MCNext ==
  /\ \/ program = "processes" /\ Next /\ UNCHANGED socketVars
     \/ program = "sockets" /\ Descriptors!Next /\ UNCHANGED forkVars
  /\ UNCHANGED program

\* A module that waits is asked for no step.
MCSpec ==
  /\ MCInit /\ [][MCNext]_<<program, forkVars, socketVars>>
  /\ Fairness

\* The type invariants; in particular a Socket that is gone stands for no number.
TypesOK == TypeOK /\ Descriptors!TypeOK

\* close and ~Socket never close what somebody else has opened, and a descriptor of the
\* class that moves has one owner.
NoStrayClose == Descriptors!NoStrayClose

\* No descriptor stays open after the last Socket that stood for it.
NoLeak == Descriptors!NoLeak
=============================================================================
