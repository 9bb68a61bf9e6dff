---------------------------- MODULE MCChatServer ----------------------------
(***************************************************************************)
(* Instances for TLC of the two sides of the chat. They are checked apart, *)
(* each against whatever the other may do: a behaviour is one of a single  *)
(* program, while the other waits in its initial state.                    *)
(*   "server"  ChatServer: three clients, two of them on one host          *)
(*   "client"  ChatClient                                                  *)
(***************************************************************************)
EXTENDS ChatServer

CONSTANTS
  h1, h2, noip,
  MaxLines, MaxClientSends, MaxArrivals   \* of ChatClient

Clients == {[ip |-> h1, port |-> 1], [ip |-> h1, port |-> 2], [ip |-> h2, port |-> 1]}

OneGarbage == {[ip |-> noip, port |-> 3]}

VARIABLES
  program,
  mpc, is_init, input, lines, buff, sent, arrived, inbox, shown, failed,
  tp_pending, tp_running, tp_ended, tp_refused, tp_open

serverVars == vars
clientVars == <<mpc, is_init, input, lines, buff, sent, arrived, inbox, shown, failed,
                tp_pending, tp_running, tp_ended, tp_refused, tp_open>>

Client == INSTANCE ChatClient WITH MaxSends <- MaxClientSends

ASSUME ClientAssumption == Client!ChatClientAssumption

MCInit ==
  /\ program \in {"server", "client"}
  /\ Init /\ Client!Init

MCNext ==
  /\ \/ program = "server" /\ Next /\ UNCHANGED clientVars
     \/ program = "client" /\ Client!Next /\ UNCHANGED serverVars
  /\ UNCHANGED program

\* In the initial state of a program no action is enabled that fairness asks for.
MCSpec == MCInit /\ [][MCNext]_<<program, serverVars, clientVars>> /\ Fairness /\ Client!Fairness

\* The type invariants of both programs; in particular ChatClient shows no empty message.
TypesOK == TypeOK /\ Client!TypeOK

\* ChatClient sends no line twice, whatever std::cin does.
NoLineTwice == Client!NoLineTwice

\* A message reaches every client that is registered (EveryoneHears), and ChatClient shows
\* each message that arrives as long as its receiving thread has no reason to end.
MessagesShown == EveryoneHears /\ Client!ArrivalsShown
=============================================================================
