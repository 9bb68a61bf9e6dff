---------------------------- MODULE MCTcpTransfer ----------------------------
(***************************************************************************)
(* Instances for TLC of the TCP receiver, with two kinds of peer:          *)
(*   "any"     TcpReceiver: segments cut in every way, in every order      *)
(*   "sender"  TcpTransfer: a TCPSender                                    *)
(* A behaviour is one of a single kind; with "any" the sender waits in its *)
(* initial state.                                                          *)
(***************************************************************************)
EXTENDS TcpTransfer

VARIABLE peer

CONSTANTS Small, Large  \* capacities of output, for the sender and for any peer

ASSUME EndsAssumption ==
  ReceiverAssumption /\ TransferAssumption /\ {Small, Large} \subseteq Capacities

\* The sender's window is shorter than its stream; without prompt readings the stream is
\* shorter and the network only reorders.
MCInit ==
  /\ peer \in {"any", "sender"}
  /\ TransferInit
  /\ output.capacity = (IF peer = "any" THEN Large ELSE Small)
  /\ peer = "any" => prompt /\ input.capacity = Small
  /\ peer = "sender" =>
       IF prompt THEN input.capacity = Small + 1
       ELSE input.capacity = Small /\ isn = 0

MCNext ==
  /\ \/ peer = "any" /\ Next /\ UNCHANGED <<svars, nvars>>
     \/ peer = "sender" /\ TransferNext /\ (prompt \/ mishaps' = 0)
  /\ UNCHANGED peer

\* A peer connects and repeats what is not acknowledged, the network does not lose it for
\* ever, and the application reads. Of a sender no liveness is stated.
MCFairness ==
  /\ WF_vars(peer = "any" /\ Connect)
  /\ WF_vars(peer = "any" /\ Resend)
  /\ WF_vars(peer = "any" /\ Application)

MCSpec == MCInit /\ [][MCNext]_<<peer, allvars>> /\ MCFairness

\* Every segment says what the stream is: TCPSender's probes of a closed window do not.
Truthful == peer = "any" \/ prompt

\* The type invariants of the receiver and of the sender.
TypesOK == (Truthful => TypeOK) /\ Sender!SenderTypeOK

\* Every byte is written once and in its place, however the segments overlap.
BytesInPlace == Truthful => InPlace

\* What has been written: "any" peer has the whole stream from the start.
Written == IF peer = "any" THEN Length ELSE input.bytes_pushed

Stream == INSTANCE ReliableStream WITH
  capacity <- output.capacity,
  written <- Written,
  waiting <- output.buffer,
  read <- output.bytes_popped

\* Each step of both ends and of the network, whatever is cut, lost, repeated or overtaken,
\* is one of a reliable stream or changes nothing of it: what is read is what was written.
ImplementsStream ==
  /\ Truthful => Stream!Init
  /\ [][Truthful => Stream!Next]_(Stream!vars)

\* The cache has no overlapping entries, none before the gap or behind the window, and
\* bytes_pending counts it.
CacheIsSound == Truthful => CacheSound

\* A byte that came when the window had room for it need not come again.
NoByteLost == Truthful => NothingLost

\* Every byte reaches the application, however the segments overlap and overtake one
\* another.
BytesRead == peer = "any" ~> output.bytes_popped = Length
=============================================================================
