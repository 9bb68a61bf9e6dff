---------------------------- MODULE MCCalculator ----------------------------
(***************************************************************************)
(* Instances for TLC of the calculator's protocols. They share no state: a *)
(* behaviour is one of a single program, while the other waits in its      *)
(* initial state.                                                          *)
(*   "calculator"  Calculator: one connection with its process             *)
(*   "draft"       DraftProtocol: the draft of TcpServer_v3                *)
(***************************************************************************)
EXTENDS Calculator

CONSTANTS NumberLen, PayloadLen, MaxFrames  \* of DraftProtocol

Third == {3}
PayloadLengths == [s \in {"server", "client"} |-> IF s = "server" THEN 4 ELSE 3]

VARIABLES program, delivered, received, erased, taken, state

calcVars == vars
draftVars == <<delivered, received, erased, taken, state>>

Draft == INSTANCE DraftProtocol

ASSUME DraftsAssumption == Draft!DraftAssumption

MCInit ==
  /\ program \in {"calculator", "draft"}
  /\ Init /\ Draft!Init
  /\ program = "draft" => whole

MCNext ==
  /\ \/ program = "calculator" /\ Next /\ UNCHANGED draftVars
     \/ program = "draft" /\ Draft!Next /\ UNCHANGED calcVars
  /\ UNCHANGED program

\* In its initial state Calculator enables no action that fairness asks for.
MCSpec ==
  /\ MCInit /\ [][MCNext]_<<program, calcVars, draftVars>>
  /\ WF_vars(ServerStep) /\ WF_vars(ClientStep)

\* The type invariants.
TypesOK == TypeOK /\ Draft!TypeOK

\* A wrong answer is the last of its side of the connection; and the draft's obtain never
\* finds a request or a result that was sent, nor gets a second one.
WrongEnds == WrongIsLast /\ Draft!NeverARequest
=============================================================================
