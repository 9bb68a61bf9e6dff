----------------------------- MODULE ChatServer -----------------------------
(***************************************************************************)
(* ChatServer (ChatServer.cc, ChatServer.hh, UdpServer.cc): one main       *)
(* thread receives a datagram, registers its sender and sends a task to    *)
(* the thread pool for every other registered client; the pool's threads   *)
(* run send_task_, which sends the message on. The pool is TaskExecutor,   *)
(* which ThreadPool implements.                                            *)
(*                                                                         *)
(* The clients and the network are the environment: a datagram in flight   *)
(* may be received in any order, more than once, or never.                 *)
(***************************************************************************)
EXTENDS Integers, Sequences, FiniteSets

CONSTANTS
  Addr,       \* the clients: records [ip, port]
  Garbage,    \* addresses get_msg_ makes of an empty sender_ip and an
              \* uninitialised sender_port
  Slots,      \* the threads of TP_ (3 in the program)
  MaxSends,   \* bound: datagrams the clients send
  MaxRecvs,   \* bound: returns of UdpServer::recv
  MaxOdd      \* bound: datagrams the network duplicates and failures of recvfrom

Peers == Addr \cup Garbage

ASSUME ChatAssumption ==
  /\ Garbage \cap Addr = {}
  /\ IsFiniteSet(Peers)
  /\ \A c \in Peers : c = [ip |-> c.ip, port |-> c.port]
  /\ Slots \in Nat \ {0}
  /\ {MaxSends, MaxRecvs, MaxOdd} \subseteq Nat

Nothing == 0  \* the message get_msg_ is left with when recvfrom fails

\* One task_arg each: the receipt it comes from, the place of its client in
\* client_list_, and the client's address, copied.
Tasks == [n : 1..MaxRecvs, k : 1..Cardinality(Peers), to : Peers]

VARIABLES
  socket_fd,      \* socket_fd_ of the UdpServer: none (-1), unbound or bound
  up,             \* datagrams in flight to the server: [s, from]
  sends, odd,     \* counters of the bounded events
  client_list,    \* client_list_
  waiting_queue,  \* waiting_queue_: [s, from]
  got,            \* history: for each return of recv, [s, from, clients]
  spc,            \* the main thread: the constructor (init), get_msg_ (recv) or the loop
                  \* of start (fanout)
  at,             \* the position of the loop's iterator in client_list
  out,            \* for each client, the receipts sent on to it, in order
  pending, running, ended, refused, open  \* TP_

pvars == <<pending, running, ended, refused, open>>
vars == <<socket_fd, up, sends, odd, client_list, waiting_queue, got, spc, at,
          out, pvars>>

Pool == INSTANCE TaskExecutor WITH Endless <- {}

TypeOK ==
  /\ up \subseteq [s : 1..MaxSends, from : Addr]
  /\ client_list \in Seq(Peers)
  /\ waiting_queue \in Seq([s : 0..MaxSends, from : Peers])
  /\ Len(waiting_queue) = (IF spc = "fanout" THEN 1 ELSE 0)
  /\ got \in Seq([s : 0..MaxSends, from : Peers, clients : Nat])
  /\ socket_fd \in {"none", "unbound", "bound"}
  /\ spc \in {"init", "recv", "fanout"}
  /\ at \in 1..(Cardinality(Peers) + 1)
  /\ out \in [Addr -> Seq(1..MaxRecvs)]
  /\ pending \in Seq(Tasks) /\ running \subseteq Tasks /\ ended \subseteq Tasks

Init ==
  /\ socket_fd = "none"
  /\ up = {}
  /\ sends = 0 /\ odd = 0
  /\ client_list = <<>>
  /\ waiting_queue = <<>>
  /\ got = <<>>
  /\ spc = "init"
  /\ at = 1
  /\ out = [c \in Addr |-> <<>>]
  /\ Pool!Init

-----------------------------------------------------------------------------
(* The clients and the network                                             *)

ClientSend(c) ==
  /\ sends < MaxSends
  /\ sends' = sends + 1
  /\ up' = up \cup {[s |-> sends + 1, from |-> c]}
  /\ UNCHANGED <<socket_fd, odd, client_list, waiting_queue, got, spc, at, out, pvars>>

-----------------------------------------------------------------------------
(* The main thread                                                         *)

\* UdpServer::init, called in the constructor's body: socket or bind may fail. Nobody
\* looks at the result, and start goes on.
InitUdp ==
  /\ spc = "init"
  /\ socket_fd' \in {"none", "unbound", "bound"}
  /\ spc' = "recv"
  /\ UNCHANGED <<up, sends, odd, client_list, waiting_queue, got, at, out, pvars>>

\* std::find over client_list_, push_back of a sender that is not in it
Registered_Always(from) == Append(client_list, from)
Registered(from) ==
  IF \E k \in DOMAIN client_list : client_list[k] = from
  THEN client_list
  ELSE Append(client_list, from)

\* get_msg_ after UdpServer::recv has returned
GotMsg(s, from) ==
  /\ client_list' = Registered(from)
  /\ waiting_queue' = Append(waiting_queue, [s |-> s, from |-> from])
  /\ got' = Append(got, [s |-> s, from |-> from, clients |-> Len(client_list')])
  /\ spc' = "fanout"
  /\ at' = 1

Recv(d) ==
  /\ spc = "recv"
  /\ socket_fd = "bound"
  /\ Len(got) < MaxRecvs
  /\ d \in up
  /\ \/ up' = up \ {d} /\ UNCHANGED odd
     \/ odd < MaxOdd /\ odd' = odd + 1 /\ UNCHANGED up
  /\ GotMsg(d.s, d.from)
  /\ UNCHANGED <<socket_fd, sends, out, pvars>>

\* recvfrom fails: recv returns without a word, and get_msg_ goes on with an
\* empty message from an empty address and a port nobody has set.
RecvFail(g) ==
  /\ spc = "recv"
  /\ Len(got) < MaxRecvs
  /\ odd < MaxOdd
  /\ odd' = odd + 1
  /\ GotMsg(Nothing, g)
  /\ UNCHANGED <<socket_fd, up, sends, out, pvars>>

\* The loop's test, std::get<1>(front) != ip || std::get<2>(front) != port
Other_And(c, from) == c.ip # from.ip /\ c.port # from.port
Other_Any(c, from) == TRUE
Other(c, from) == c.ip # from.ip \/ c.port # from.port

\* One round of the loop of start.
Fanout ==
  /\ spc = "fanout"
  /\ at <= Len(client_list)
  /\ at' = at + 1
  /\ IF Other(client_list[at], Head(waiting_queue).from)
     THEN Pool!Submit([n |-> Len(got), k |-> at, to |-> client_list[at]])
     ELSE UNCHANGED pvars
  /\ UNCHANGED <<socket_fd, up, sends, odd, client_list, waiting_queue, got, spc, out>>

\* waiting_queue_.pop()
Answered_Kept == waiting_queue
Answered == Tail(waiting_queue)

FanoutEnd ==
  /\ spc = "fanout"
  /\ at > Len(client_list)
  /\ waiting_queue' = Answered
  /\ spc' = "recv"
  /\ UNCHANGED <<socket_fd, up, sends, odd, client_list, got, at, out, pvars>>

-----------------------------------------------------------------------------
(* The pool's threads                                                      *)

StartTask ==
  /\ Pool!Start
  /\ UNCHANGED <<socket_fd, up, sends, odd, client_list, waiting_queue, got, spc, at, out>>

\* UdpServer::send: sendto a garbage address (inet_addr("") is the broadcast address)
\* fails with a line in the log, as it does without a socket.
Transmitted(to, n) ==
  IF to \in Addr /\ socket_fd # "none" THEN [out EXCEPT ![to] = Append(@, n)] ELSE out

\* send_task_: send_msg_ and delete
SendTask(t) ==
  /\ Pool!Finish(t)
  /\ out' = Transmitted(t.to, t.n)
  /\ UNCHANGED <<socket_fd, up, sends, odd, client_list, waiting_queue, got, spc, at>>

MainStep == Fanout \/ FanoutEnd

Next ==
  \/ \E c \in Addr : ClientSend(c)
  \/ InitUdp
  \/ \E d \in up : Recv(d)
  \/ \E g \in Garbage : RecvFail(g)
  \/ MainStep
  \/ StartTask
  \/ \E t \in running : SendTask(t)

Spec == Init /\ [][Next]_vars

\* The main thread finishes the loop it is in and the pool runs its tasks; no
\* client need send and no datagram need arrive.
Fairness ==
  /\ WF_vars(MainStep)
  /\ WF_vars(StartTask)
  /\ WF_vars(\E t \in running : SendTask(t))

FairSpec == Spec /\ Fairness

-----------------------------------------------------------------------------
(* Properties                                                              *)

Before(q, m, n) ==
  \E i, j \in DOMAIN q : i < j /\ q[i] = m /\ q[j] = n

\* No client is sent what it has sent itself, even when several clients share
\* an ip address.
NoEcho == \A c \in Addr : \A i \in DOMAIN out[c] : got[out[c][i]].from # c

\* Whatever the schedule of the pool, one receipt is sent on at most once to
\* each client.
AtMostOnce ==
  \A c \in Addr : \A i, j \in DOMAIN out[c] : out[c][i] = out[c][j] => i = j

\* The clients that must hear receipt n.
Audience(n) ==
  {client_list[k] : k \in 1..got[n].clients} \cap (Addr \ {got[n].from})

Heard(c) == {out[c][i] : i \in DOMAIN out[c]}

\* The threads of the pool can reorder what a client hears, but only so far: when
\* a receipt is sent on to a client, fewer than Slots earlier ones that it must
\* hear are still to be sent to it.
BoundedReordering ==
  \A c \in Addr : \A i \in DOMAIN out[c] :
    LET n == out[c][i]
        sentBefore == {out[c][j] : j \in 1..i}
    IN  Cardinality({m \in 1..n : c \in Audience(m) /\ m \notin sentBefore}) < Slots

Delivered(n) == n \in DOMAIN got /\ \A c \in Audience(n) : n \in Heard(c)

\* Every client registered when a message is received hears it, its sender
\* excepted.
EveryoneHears ==
  \A n \in 1..MaxRecvs :
    n \in DOMAIN got ~> Delivered(n)
=============================================================================
