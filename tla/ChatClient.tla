----------------------------- MODULE ChatClient -----------------------------
(***************************************************************************)
(* ChatClient (ChatClient.cc, ChatClient.hh, its UdpClient.cc): the main   *)
(* thread reads lines and sends them to the chat server; recv_task_, the   *)
(* only task of a pool of one thread, shows what the server sends on. The  *)
(* pool is TaskExecutor, which ThreadPool implements.                      *)
(*                                                                         *)
(* The environment is the standard input and the datagrams that arrive     *)
(* from the chat server, which may carry an empty message: ChatServer      *)
(* sends on the empty line of another client, and an empty message of its  *)
(* own when its recvfrom fails.                                            *)
(***************************************************************************)
EXTENDS Naturals, Sequences

CONSTANTS
  MaxLines,    \* bound: lines the user types
  MaxSends,    \* bound: calls of Send
  MaxArrivals  \* bound: datagrams that arrive

ChatClientAssumption == {MaxLines, MaxSends, MaxArrivals} \subseteq Nat

Empty == 0       \* the empty message; line n is the message n
recv_task == "recv_task_"

Threads_None == 0
Threads == 1     \* of TP_

VARIABLES
  mpc,      \* the main thread
  is_init,  \* is_init_ of the UdpClient
  input,    \* std::cin is "good", or the end has been "met"
  lines,    \* lines typed
  buff,     \* buff of start
  sent,     \* the messages sent, in order
  arrived,  \* datagrams that have arrived
  inbox,    \* those the socket holds, in order; Empty or their number
  shown,    \* the messages shown
  failed,   \* history: recvfrom has failed
  tp_pending, tp_running, tp_ended, tp_refused, tp_open  \* TP_

mvars == <<mpc, is_init, input, lines, buff, sent>>
rvars == <<arrived, inbox, shown, failed>>
pvars == <<tp_pending, tp_running, tp_ended, tp_refused, tp_open>>
vars == <<mvars, rvars, pvars>>

Pool == INSTANCE TaskExecutor WITH
  Tasks <- {recv_task}, Endless <- {}, Slots <- Threads,
  pending <- tp_pending, running <- tp_running, ended <- tp_ended, refused <- tp_refused,
  open <- tp_open

TypeOK ==
  /\ mpc \in {"init", "start", "getline", "send"}
  /\ is_init \in BOOLEAN /\ failed \in BOOLEAN
  /\ input \in {"good", "met"}
  /\ lines \in 0..MaxLines
  /\ buff \in 0..MaxLines
  /\ sent \in Seq(0..MaxLines)
  /\ arrived \in 0..MaxArrivals
  /\ inbox \in Seq(0..MaxArrivals)
  /\ shown \in Seq(1..MaxArrivals)
  /\ tp_pending \in Seq({recv_task})
  /\ tp_running \subseteq {recv_task} /\ tp_ended \subseteq {recv_task}
  /\ tp_refused = {} /\ tp_open

\* The constructor's initialisers: the UdpClient, and the pool's thread.
Init ==
  /\ mpc = "init"
  /\ is_init = FALSE
  /\ input = "good" /\ lines = 0 /\ buff = Empty /\ sent = <<>>
  /\ arrived = 0 /\ inbox = <<>> /\ shown = <<>> /\ failed = FALSE
  /\ Pool!Init

-----------------------------------------------------------------------------
(* The main thread                                                         *)

\* UdpClient::init, called in the constructor's body: socket or inet_aton may
\* fail. Nobody looks at the result.
InitUdp ==
  /\ mpc = "init"
  /\ is_init' \in BOOLEAN
  /\ mpc' = "start"
  /\ UNCHANGED <<input, lines, buff, sent, rvars, pvars>>

\* The first line of start: TP_.SendTask(recv_task_, this)
Start ==
  /\ mpc = "start"
  /\ Pool!Submit(recv_task)
  /\ mpc' = "getline"
  /\ UNCHANGED <<is_init, input, lines, buff, sent, rvars>>

Got(msg) ==
  /\ mpc = "getline"
  /\ Len(sent) < MaxSends
  /\ buff' = msg
  /\ mpc' = "send"
  /\ UNCHANGED <<is_init, sent, rvars, pvars>>

\* A line, the last of the input when no newline ends it.
GetLine ==
  /\ input = "good"
  /\ lines < MaxLines
  /\ lines' = lines + 1
  /\ input' \in {"good", "met"}
  /\ Got(lines')

GetEmptyLine ==
  /\ input = "good"
  /\ input' \in {"good", "met"}
  /\ Got(Empty)
  /\ UNCHANGED lines

\* A getline on a stream that is not good any more leaves buff alone.
GetNothing ==
  /\ input = "met"
  /\ Got(buff)
  /\ UNCHANGED <<input, lines>>

\* buff.clear() after send_msg_
Cleared_Not == buff
Cleared == Empty

\* send_msg_, UdpClient::Send and buff.clear(). A send that fails loses the
\* message like the network does.
SendMsg ==
  /\ mpc = "send"
  /\ sent' = IF is_init THEN Append(sent, buff) ELSE sent
  /\ buff' = Cleared
  /\ mpc' = "getline"
  /\ UNCHANGED <<is_init, input, lines, rvars, pvars>>

-----------------------------------------------------------------------------
(* The network, and the pool's thread in recv_msg_                         *)

Arrive ==
  /\ arrived < MaxArrivals
  /\ is_init
  /\ arrived' = arrived + 1
  /\ \E msg \in {Empty, arrived'} : inbox' = Append(inbox, msg)
  /\ UNCHANGED <<mvars, shown, failed, pvars>>

StartTask ==
  /\ Pool!Start
  /\ UNCHANGED <<mvars, rvars>>

\* recv_len > 0; mutant: an empty datagram passes, too.
Received_Any(msg) == TRUE
Received(msg) == msg # Empty

RecvMsg ==
  /\ recv_task \in tp_running
  /\ is_init
  /\ inbox # <<>> /\ Received(Head(inbox))
  /\ inbox' = Tail(inbox)
  /\ shown' = Append(shown, Head(inbox))
  /\ UNCHANGED <<mvars, arrived, failed, pvars>>

\* Recv returns -1 and recv_msg_ returns: the task is over, and nobody sends
\* another one.
RecvEnds == Pool!Finish(recv_task) /\ UNCHANGED <<mvars, arrived, shown>>

\* The client is not initialised.
RecvUninit ==
  /\ ~is_init
  /\ RecvEnds
  /\ UNCHANGED <<inbox, failed>>

\* recv_len > 0 does not tell an empty datagram from an error.
RecvEmpty ==
  /\ is_init
  /\ inbox # <<>> /\ ~Received(Head(inbox))
  /\ inbox' = Tail(inbox)
  /\ RecvEnds
  /\ UNCHANGED failed

RecvFails ==
  /\ is_init
  /\ failed' = TRUE
  /\ RecvEnds
  /\ UNCHANGED inbox

MainStep == GetLine \/ GetEmptyLine \/ GetNothing \/ SendMsg

\* recv_task_, which calls recv_msg_
RecvStep == RecvMsg \/ RecvUninit \/ RecvEmpty

Next ==
  \/ InitUdp \/ Start \/ MainStep
  \/ Arrive \/ StartTask \/ RecvStep \/ RecvFails

Spec == Init /\ [][Next]_vars

\* Both threads run; the user need not type and recvfrom need not fail.
Fairness == WF_vars(Start) /\ WF_vars(StartTask) /\ WF_vars(RecvStep)

FairSpec == Spec /\ Fairness

-----------------------------------------------------------------------------
(* Properties                                                              *)

\* No line is sent twice: also after an input whose last line no newline ends,
\* when getline fails and leaves buff as it was.
NoLineTwice ==
  \A i, j \in DOMAIN sent : sent[i] = sent[j] /\ sent[i] # Empty => i = j

\* Why the receiving thread may end: recvfrom failed, an empty message arrived.
MayEnd == failed \/ Len(shown) + Len(inbox) < arrived

\* Every message that arrives is shown, whatever the main thread waits for, unless the
\* receiving thread has had a reason to end; in particular it has never seen the
\* UdpClient before init has run.
ArrivalsShown ==
  \A n \in 1..MaxArrivals :
    (\E i \in DOMAIN inbox : inbox[i] = n) ~> MayEnd \/ \E i \in DOMAIN shown : shown[i] = n
=============================================================================
