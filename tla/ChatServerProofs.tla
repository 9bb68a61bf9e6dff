-------------------------- MODULE ChatServerProofs --------------------------
(***************************************************************************)
(* Proofs about ChatServer, for any number of clients, messages and pool   *)
(* threads: nobody is sent his own message, nobody a message twice, and    *)
(* the pool reorders what a client hears only so far; and about ChatClient,*)
(* which sends no line twice.                                              *)
(***************************************************************************)
EXTENDS MCChatServer, FiniteSetTheorems, TLAPS

Message == [s : Nat, from : Peers]
Receipt == [s : Nat, from : Peers, clients : Nat]
Task == [n : Nat, k : Nat, to : Peers]

Types ==
  /\ up \subseteq Message /\ sends \in Nat
  /\ client_list \in Seq(Peers)
  /\ waiting_queue \in Seq(Message)
  /\ got \in Seq(Receipt)
  /\ at \in Nat \ {0}
  /\ out \in [Addr -> Seq(Nat)]
  /\ pending \in Seq(Task) /\ running \subseteq Task /\ ended \subseteq Task /\ refused = {}

\* Every client is registered once.
ListInv == \A i, j \in DOMAIN client_list : client_list[i] = client_list[j] => i = j

\* The message that is sent on is the last one received.
QueueInv ==
  /\ spc = "fanout" => Len(got) > 0 /\ waiting_queue # <<>> /\ Tail(waiting_queue) = <<>>
                       /\ Head(waiting_queue).from = got[Len(got)].from
  /\ spc # "fanout" => waiting_queue = <<>>

\* A task is for one place of client_list and one receipt, not of that client's own
\* message, and the loop has passed its place.
TaskInv ==
  \A t \in Pool!Known :
    /\ t.n \in DOMAIN got /\ t.k \in DOMAIN client_list
    /\ t.to = client_list[t.k]
    /\ t.to # got[t.n].from
    /\ spc = "fanout" /\ t.n = Len(got) => t.k < at

\* The pool has a task in one place.
PlaceInv ==
  /\ \A i, j \in DOMAIN pending : pending[i] = pending[j] => i = j
  /\ \A i \in DOMAIN pending : pending[i] \notin running \cup ended
  /\ running \cap ended = {}

\* What a client has heard came from tasks that have ended,
OutInv ==
  \A c \in Addr : \A i \in DOMAIN out[c] :
    \E t \in ended : t.to = c /\ t.n = out[c][i]

\* and came once.
IInv == Types /\ ListInv /\ QueueInv /\ TaskInv /\ PlaceInv /\ OutInv /\ AtMostOnce

-----------------------------------------------------------------------------

LEMMA InitInv == ASSUME Init PROVE IInv
  BY DEF Init, Pool!Init, IInv, Types, ListInv, QueueInv, TaskInv, Pool!Known, PlaceInv, OutInv,
         AtMostOnce

\* get_msg_ keeps the list free of repetitions and adds a receipt that no task is for.
LEMMA GotMsgInv ==
  ASSUME IInv, NEW s \in Nat, NEW from \in Peers, GotMsg(s, from), spc # "fanout",
         up' \subseteq up, UNCHANGED <<sends, out, pvars>>
  PROVE  IInv'
  <1> USE DEF IInv, GotMsg
  <1>1. /\ client_list' \in Seq(Peers) /\ Len(client_list') >= Len(client_list)
        /\ \A i \in DOMAIN client_list : i \in DOMAIN client_list' /\ client_list'[i] = client_list[i]
    BY DEF Types, Registered
  <1>2. /\ got' \in Seq(Receipt) /\ Len(got') = Len(got) + 1 /\ got'[Len(got')].from = from
        /\ \A i \in DOMAIN got : i \in DOMAIN got' /\ got'[i] = got[i] /\ i < Len(got')
    BY <1>1, SMTT(30) DEF Types, Receipt
  <1>3. waiting_queue' = <<[s |-> s, from |-> from]>>
    BY DEF QueueInv
  <1>4. Types'
    BY <1>1, <1>2, <1>3 DEF Types, Message, pvars
  <1>5. ListInv'
    BY DEF Types, ListInv, Registered
  <1>6. QueueInv'
    BY <1>2, <1>3 DEF QueueInv
  <1>7. TaskInv'
    BY <1>1, <1>2 DEF TaskInv, Pool!Known, pvars
  <1> QED BY <1>4, <1>5, <1>6, <1>7 DEF PlaceInv, OutInv, AtMostOnce, pvars

\* The loop of start sends a task that the pool does not know.
LEMMA SubmitInv ==
  ASSUME IInv, Fanout PROVE IInv'
  <1> USE DEF IInv, Fanout
  <1>1. /\ at \in DOMAIN client_list /\ client_list[at] \in Peers /\ Len(got) \in DOMAIN got
        /\ Len(got) \in Nat /\ at \in Nat
    BY DEF Types, QueueInv
  <1> DEFINE task == [n |-> Len(got), k |-> at, to |-> client_list[at]]
  <1>2. CASE UNCHANGED pvars
    <2>1. Types' /\ QueueInv'
      BY <1>1, <1>2 DEF Types, QueueInv, pvars
    <2>2. Pool!Known' = Pool!Known
      BY <1>2 DEF Pool!Known, pvars
    <2>3. TaskInv'
      BY <1>1, <2>2 DEF TaskInv, Types
    <2> QED BY <1>2, <2>1, <2>3 DEF ListInv, PlaceInv, OutInv, AtMostOnce, pvars
  <1>3. CASE Other(client_list[at], Head(waiting_queue).from) /\ Pool!Submit(task)
    <2>1. task \in Task /\ task.n = Len(got) /\ task.k = at /\ task.to = client_list[at]
      BY <1>1 DEF Task
    <2>2. task.to # got[task.n].from
      BY <1>3, <2>1 DEF Other, QueueInv
    <2> HIDE DEF task
    <2>3. /\ pending' = Append(pending, task) /\ task \notin Pool!Known
          /\ UNCHANGED <<running, ended, refused>>
      BY <1>3 DEF Pool!Submit
    <2>4. Types'
      BY <1>1, <2>1, <2>3 DEF Types
    <2>5. Pool!Known' = Pool!Known \cup {task}
      <3>1. /\ \A i \in DOMAIN pending : i \in DOMAIN pending' /\ pending'[i] = pending[i]
            /\ \A i \in DOMAIN pending' :
                 \/ i \in DOMAIN pending /\ pending'[i] = pending[i]
                 \/ pending'[i] = task
            /\ Len(pending') \in DOMAIN pending' /\ pending'[Len(pending')] = task
        BY <2>1, <2>3 DEF Types
      <3>2. {pending'[i] : i \in DOMAIN pending'} = {pending[i] : i \in DOMAIN pending} \cup {task}
        BY <3>1
      <3> QED BY <2>3, <3>2 DEF Pool!Known
    <2>6. TaskInv'
      <3>1. ASSUME NEW t \in Pool!Known
            PROVE  /\ t.n \in DOMAIN got /\ t.k \in DOMAIN client_list /\ t.to = client_list[t.k]
                   /\ t.to # got[t.n].from /\ (t.n = Len(got) => t.k < at + 1)
        BY <1>1 DEF TaskInv, Types
      <3>2. UNCHANGED <<got, client_list>> /\ at' = at + 1
        OBVIOUS
      <3>3. task.k < at + 1
        BY <1>1, <2>1
      <3> QED BY <1>1, <2>1, <2>2, <2>5, <3>1, <3>2, <3>3 DEF TaskInv
    <2>7. PlaceInv'
      <3>1. \A i \in DOMAIN pending' :
              \/ i \in DOMAIN pending /\ pending'[i] = pending[i] /\ pending[i] # task
              \/ i = Len(pending') /\ pending'[i] = task /\ i \notin DOMAIN pending
        BY <2>1, <2>3 DEF Types, Pool!Known
      <3>2. task \notin running \cup ended
        BY <2>3 DEF Pool!Known
      <3> QED BY <2>3, <3>1, <3>2 DEF PlaceInv
    <2> QED BY <2>3, <2>4, <2>6, <2>7 DEF ListInv, QueueInv, OutInv, AtMostOnce
  <1> QED BY <1>2, <1>3

\* send_task_ sends on what its client has not heard yet.
LEMMA SendInv ==
  ASSUME IInv, NEW t \in running, SendTask(t) PROVE IInv'
  <1> USE DEF IInv, SendTask
  <1>1. t \in Pool!Known /\ t \in Task
    BY DEF Types, Pool!Known
  <1>2. /\ running' = running \ {t} /\ ended' = ended \cup {t}
        /\ UNCHANGED <<pending, refused>>
    BY DEF Pool!Finish
  <1>3. out' = out \/ (t.to \in Addr /\ out' = [out EXCEPT ![t.to] = Append(@, t.n)])
    BY DEF Transmitted
  <1>4. /\ out' \in [Addr -> Seq(Nat)]
        /\ \A c \in Addr : \A i \in DOMAIN out'[c] :
             \/ i \in DOMAIN out[c] /\ out'[c][i] = out[c][i]
             \/ c = t.to /\ i = Len(out[c]) + 1 /\ out'[c][i] = t.n /\ t.to \in Addr
    <2>1. t.n \in Nat /\ out \in [Addr -> Seq(Nat)]
      BY <1>1 DEF Types, Task
    <2>2. CASE out' = out
      BY <2>1, <2>2
    <2>3. CASE t.to \in Addr /\ out' = [out EXCEPT ![t.to] = Append(@, t.n)]
      <3>1. out[t.to] \in Seq(Nat) /\ Append(out[t.to], t.n) \in Seq(Nat)
        BY <2>1, <2>3
      <3>2. /\ out'[t.to] = Append(out[t.to], t.n)
            /\ \A c \in Addr : c # t.to => out'[c] = out[c]
        BY <2>1, <2>3
      <3>3. \A i \in DOMAIN out'[t.to] :
              \/ i \in DOMAIN out[t.to] /\ out'[t.to][i] = out[t.to][i]
              \/ i = Len(out[t.to]) + 1 /\ out'[t.to][i] = t.n
        BY <2>1, <3>1, <3>2
      <3> QED BY <2>1, <2>3, <3>1, <3>2, <3>3
    <2> QED BY <1>3, <2>2, <2>3
  <1>5. Types'
    BY <1>2, <1>4 DEF Types
  <1>6. Pool!Known' = Pool!Known
    BY <1>2 DEF Pool!Known
  <1>7. PlaceInv'
    BY <1>2 DEF PlaceInv
  <1>8. OutInv'
    BY <1>2, <1>4, SMTT(30) DEF OutInv
  <1>9. ASSUME NEW i \in DOMAIN out[t.to], t.to \in Addr PROVE out[t.to][i] # t.n
    <2>1. PICK u \in ended : u.to = t.to /\ u.n = out[t.to][i]
      BY <1>9 DEF OutInv
    <2>2. ASSUME u.n = t.n PROVE FALSE
      <3>1. u \in Pool!Known /\ u \in Task
        BY <2>1 DEF Types, Pool!Known
      <3>2. u.k = t.k
        BY <1>1, <2>1, <3>1 DEF TaskInv, ListInv
      <3>3. u = t
        BY <1>1, <2>1, <2>2, <3>1, <3>2 DEF Task
      <3> QED BY <2>1, <3>3 DEF PlaceInv
    <2> QED BY <2>1, <2>2
  <1>10. AtMostOnce'
    BY <1>4, <1>9 DEF AtMostOnce
  <1> QED BY <1>5, <1>6, <1>7, <1>8, <1>10 DEF ListInv, QueueInv, TaskInv

\* A task that starts is one the pool knows.
LEMMA SameTasks == ASSUME IInv, StartTask PROVE Pool!Known' = Pool!Known
  <1>1. /\ pending # <<>> /\ pending' = Tail(pending) /\ running' = running \cup {Head(pending)}
        /\ UNCHANGED <<ended, refused>>
    BY DEF StartTask, Pool!Start
  <1>2. pending \in Seq(Task)
    BY DEF IInv, Types
  <1>3. {pending[i] : i \in DOMAIN pending} = {pending'[i] : i \in DOMAIN pending'} \cup {Head(pending)}
    <2>1. ASSUME NEW i \in DOMAIN pending, i # 1
          PROVE  i - 1 \in DOMAIN pending' /\ pending[i] = pending'[i - 1]
      BY <1>1, <1>2, <2>1
    <2>2. ASSUME NEW i \in DOMAIN pending'
          PROVE  i + 1 \in DOMAIN pending /\ pending'[i] = pending[i + 1]
      BY <1>1, <1>2
    <2>3. 1 \in DOMAIN pending /\ Head(pending) = pending[1]
      BY <1>1, <1>2
    <2> QED BY <2>1, <2>2, <2>3
  <1> QED BY <1>1, <1>3 DEF Pool!Known

LEMMA StepInv == ASSUME IInv, [Next]_vars PROVE IInv'
  <1>1. ASSUME NEW c \in Addr, ClientSend(c) PROVE IInv'
    <2>1. [s |-> sends + 1, from |-> c] \in Message /\ sends + 1 \in Nat
      BY DEF IInv, Types, Message, Peers
    <2>2. Types'
      BY <1>1, <2>1 DEF ClientSend, IInv, Types, pvars
    <2> QED BY <1>1, <2>2 DEF ClientSend, IInv, ListInv, QueueInv, TaskInv, Pool!Known, PlaceInv,
                              OutInv, AtMostOnce, pvars
  <1>2. ASSUME InitUdp PROVE IInv'
    BY <1>2 DEF InitUdp, IInv, Types, ListInv, QueueInv, TaskInv, Pool!Known, PlaceInv, OutInv,
                AtMostOnce, pvars
  <1>3. ASSUME NEW d \in up, Recv(d) PROVE IInv'
    <2>1. d.s \in Nat /\ d.from \in Peers
      BY DEF IInv, Types, Message
    <2> QED BY <1>3, <2>1, GotMsgInv DEF Recv
  <1>4. ASSUME NEW g \in Garbage, RecvFail(g) PROVE IInv'
    <2>1. Nothing \in Nat /\ g \in Peers
      BY DEF Nothing, Peers
    <2> QED BY <1>4, <2>1, GotMsgInv DEF RecvFail
  <1>5. ASSUME FanoutEnd PROVE IInv'
    <2>1. waiting_queue' = <<>>
      BY <1>5 DEF FanoutEnd, Answered, IInv, QueueInv
    <2> QED BY <1>5, <2>1 DEF FanoutEnd, IInv, Types, ListInv, QueueInv, TaskInv, Pool!Known, PlaceInv,
                              OutInv, AtMostOnce, pvars
  <1>6. ASSUME StartTask PROVE IInv'
    <2> USE DEF IInv
    <2>1. /\ pending # <<>> /\ pending' = Tail(pending) /\ running' = running \cup {Head(pending)}
          /\ UNCHANGED <<ended, refused>>
      BY <1>6 DEF StartTask, Pool!Start
    <2>2. Types'
      BY <1>6, <2>1 DEF StartTask, Types
    <2>3. Pool!Known' = Pool!Known
      BY <1>6, SameTasks
    <2>4. PlaceInv'
      <3>1. /\ 1 \in DOMAIN pending /\ Head(pending) = pending[1]
            /\ \A i \in DOMAIN pending' : i + 1 \in DOMAIN pending /\ i + 1 # 1
                                       /\ pending'[i] = pending[i + 1] /\ i \in Nat
        BY <2>1 DEF Types
      <3>2. \A i \in DOMAIN pending' : pending'[i] # Head(pending)
        BY <3>1 DEF PlaceInv
      <3>3. \A i, j \in DOMAIN pending' : pending'[i] = pending'[j] => i = j
        BY <3>1 DEF PlaceInv
      <3> QED BY <2>1, <3>1, <3>2, <3>3 DEF PlaceInv
    <2> QED BY <1>6, <2>1, <2>2, <2>3, <2>4
            DEF StartTask, ListInv, QueueInv, TaskInv, OutInv, AtMostOnce
  <1>7. ASSUME UNCHANGED vars PROVE IInv'
    BY <1>7 DEF vars, IInv, Types, ListInv, QueueInv, TaskInv, Pool!Known, PlaceInv, OutInv,
                AtMostOnce, pvars
  <1> QED BY <1>1, <1>2, <1>3, <1>4, <1>5, <1>6, <1>7, SubmitInv, SendInv DEF Next, MainStep

LEMMA Invariant == Spec => []IInv
  <1>1. Init => IInv
    BY InitInv
  <1>2. IInv /\ [Next]_vars => IInv'
    BY StepInv
  <1> QED BY <1>1, <1>2, PTL DEF Spec

-----------------------------------------------------------------------------

\* No client is sent what it has sent itself, for any number of clients on any number of
\* hosts: the task copies the address that the loop has compared.
THEOREM NobodyHearsHimself == Spec => []NoEcho
  <1>1. IInv => NoEcho
    <2> SUFFICES ASSUME IInv, NEW c \in Addr, NEW i \in DOMAIN out[c] PROVE got[out[c][i]].from # c
      BY DEF NoEcho
    <2>1. PICK t \in ended : t.to = c /\ t.n = out[c][i]
      BY DEF IInv, OutInv
    <2>2. t \in Pool!Known
      BY DEF Pool!Known
    <2> QED BY <2>1, <2>2 DEF IInv, TaskInv
  <1> QED BY <1>1, Invariant, PTL

\* Whatever the schedule of the pool, one receipt is sent on at most once to each client.
THEOREM NobodyHearsTwice == Spec => []AtMostOnce
  <1>1. IInv => AtMostOnce
    BY DEF IInv
  <1> QED BY <1>1, Invariant, PTL

\* A sequence of some elements is one of every set that holds them.
LEMMA SeqOf ==
  ASSUME NEW S, NEW T, NEW q \in Seq(S), \A i \in DOMAIN q : q[i] \in T PROVE q \in Seq(T)
  OBVIOUS

-----------------------------------------------------------------------------
(* Bounds, and how far the pool reorders                                     *)

Bounds ==
  /\ socket_fd \in {"none", "unbound", "bound"} /\ spc \in {"init", "recv", "fanout"}
  /\ up \subseteq [s : 1..MaxSends, from : Addr] /\ sends \in 0..MaxSends
  /\ Len(got) \in 0..MaxRecvs
  /\ \A i \in DOMAIN got : got[i].s \in 0..MaxSends
  /\ \A i \in DOMAIN waiting_queue : waiting_queue[i].s \in 0..MaxSends
  /\ at \in 1..(Len(client_list) + 1)

\* A receipt is for the clients that were registered when it came.
ClientsInv ==
  /\ \A m \in DOMAIN got : got[m].clients \in 0..Len(client_list)
  /\ spc = "fanout" => got[Len(got)].clients = Len(client_list)

\* The pool has a task for each client of a receipt, once the loop has passed its place.
Sent(m, c) == \E t \in Pool!Known : t.n = m /\ t.to = c

CoverInv ==
  \A m \in DOMAIN got : \A k \in 1..got[m].clients :
    client_list[k] # got[m].from =>
      Sent(m, client_list[k]) \/ (spc = "fanout" /\ m = Len(got) /\ k >= at)

\* Tasks start in the order of their receipts.
OrderInv ==
  /\ \A i, j \in DOMAIN pending : i < j => pending[i].n <= pending[j].n
  /\ \A t \in running \cup ended : \A i \in DOMAIN pending : t.n <= pending[i].n

SlotInv == IsFiniteSet(running) /\ Cardinality(running) <= Slots

\* What has ended has been heard, unless there never was a socket.
EndedInv ==
  /\ spc = "init" => pending = <<>> /\ running = {} /\ ended = {}
  /\ socket_fd # "none" => \A t \in ended : t.to \in Addr => t.n \in Heard(t.to)

\* How far a client's i-th message has overtaken others.
SentBefore(c, i) == {out[c][j] : j \in 1..i}
Overtaken(c, i) == {m \in 1..out[c][i] : c \in Audience(m) /\ m \notin SentBefore(c, i)}

FarInv == \A c \in Addr : \A i \in DOMAIN out[c] : Cardinality(Overtaken(c, i)) < Slots

ReorderInv ==
  Bounds /\ ClientsInv /\ CoverInv /\ OrderInv /\ SlotInv /\ EndedInv /\ FarInv

\* Two peers of one ip address and one port are one.
LEMMA SamePeer ==
  ASSUME NEW c \in Peers, NEW d \in Peers, ~Other(c, d) PROVE c = d
  <1>1. c = [ip |-> c.ip, port |-> c.port] /\ d = [ip |-> d.ip, port |-> d.port]
    BY ChatAssumption
  <1>2. c.ip = d.ip /\ c.port = d.port
    BY DEF Other
  <1> QED BY <1>1, <1>2

LEMMA InitReorder == ASSUME Init PROVE ReorderInv
  <1>1. Bounds
    BY ChatAssumption DEF Init, Bounds
  <1>2. ClientsInv /\ CoverInv /\ FarInv
    BY DEF Init, ClientsInv, CoverInv, FarInv
  <1>3. OrderInv /\ SlotInv /\ EndedInv
    BY FS_EmptySet, ChatAssumption DEF Init, Pool!Init, OrderInv, SlotInv, EndedInv
  <1> QED BY <1>1, <1>2, <1>3 DEF ReorderInv

\* Receipts keep their audience, so what a client hears stays as far ahead as it was.
LEMMA FarKept ==
  ASSUME IInv, ReorderInv, UNCHANGED out, got' \in Seq(Receipt), client_list' \in Seq(Peers),
         \A m \in DOMAIN got : m \in DOMAIN got' /\ got'[m] = got[m],
         \A k \in DOMAIN client_list : client_list'[k] = client_list[k]
  PROVE  FarInv'
  <1>1. ASSUME NEW m \in DOMAIN got PROVE Audience(m)' = Audience(m)
    <2>1. got[m].clients \in Nat /\ got[m].clients <= Len(client_list) /\ Len(client_list) \in Nat
      BY DEF ReorderInv, ClientsInv, IInv, Types
    <2>2. \A k \in 1..got[m].clients : client_list'[k] = client_list[k]
      BY <2>1 DEF IInv, Types
    <2> QED BY <2>2 DEF Audience
  <1>2. ASSUME NEW c \in Addr, NEW i \in DOMAIN out[c]
        PROVE  Overtaken(c, i)' = Overtaken(c, i)
    <2>1. out[c][i] \in DOMAIN got
      <3>1. PICK t \in ended : t.to = c /\ t.n = out[c][i]
        BY DEF IInv, OutInv
      <3> QED BY <3>1 DEF IInv, TaskInv, Pool!Known
    <2>2. \A m \in 1..out[c][i] : m \in DOMAIN got
      BY <2>1 DEF IInv, Types
    <2>3. SentBefore(c, i)' = SentBefore(c, i)
      BY DEF SentBefore
    <2> QED BY <1>1, <2>2, <2>3 DEF Overtaken
  <1> QED BY <1>2 DEF FarInv, ReorderInv

\* Steps that leave the receipts, the clients and the pool alone.
LEMMA QuietReorder ==
  ASSUME IInv, ReorderInv, UNCHANGED <<client_list, got, out, pvars>>, Bounds',
         \/ UNCHANGED <<spc, at, socket_fd>>
         \/ InitUdp
         \/ FanoutEnd
  PROVE  ReorderInv'
  <1> USE DEF ReorderInv
  <1>1. UNCHANGED <<pending, running, ended, refused>> /\ Pool!Known' = Pool!Known
    BY DEF pvars, Pool!Known
  <1>2. ClientsInv'
    BY DEF ClientsInv, InitUdp, FanoutEnd
  <1>3. CoverInv'
    <2> SUFFICES ASSUME NEW m \in DOMAIN got, NEW k \in 1..got[m].clients,
                        client_list[k] # got[m].from,
                        ~(spc' = "fanout" /\ m = Len(got) /\ k >= at')
                 PROVE  Sent(m, client_list[k])'
      BY DEF CoverInv
    <2>0. Sent(m, client_list[k])' <=> Sent(m, client_list[k])
      BY <1>1 DEF Sent
    <2>1. Sent(m, client_list[k]) \/ (spc = "fanout" /\ m = Len(got) /\ k >= at)
      BY DEF CoverInv
    <2>2. k \in Nat /\ k <= Len(client_list) /\ Len(client_list) \in Nat /\ at \in Nat
      BY DEF ClientsInv, IInv, Types
    <2>3. CASE UNCHANGED <<spc, at, socket_fd>>
      BY <2>0, <2>1, <2>3
    <2>4. CASE InitUdp
      BY <2>0, <2>1, <2>4 DEF InitUdp
    <2>5. CASE FanoutEnd
      BY <2>0, <2>1, <2>2, <2>5 DEF FanoutEnd
    <2> QED BY <2>3, <2>4, <2>5
  <1>4. OrderInv' /\ SlotInv'
    BY <1>1 DEF OrderInv, SlotInv
  <1>5. EndedInv'
    BY <1>1 DEF EndedInv, Heard, InitUdp, FanoutEnd
  <1>6. FarInv'
    BY FarKept DEF IInv, Types
  <1> QED BY <1>2, <1>3, <1>4, <1>5, <1>6

\* Of a sequence of one element.
LEMMA OneElement ==
  ASSUME NEW w, NEW m, w = <<m>> PROVE \A i \in DOMAIN w : w[i] = m
  OBVIOUS

\* get_msg_: a new receipt, for every client that is registered.
LEMMA GotMsgReorder ==
  ASSUME IInv, ReorderInv, NEW s \in 0..MaxSends, NEW from \in Peers, GotMsg(s, from),
         spc = "recv", Len(got) < MaxRecvs,
         up' \subseteq up, UNCHANGED <<socket_fd, sends, out, pvars>>
  PROVE  ReorderInv'
  <1> USE DEF ReorderInv, GotMsg
  <1>1. /\ client_list' \in Seq(Peers) /\ Len(client_list') >= Len(client_list)
        /\ Len(client_list) \in Nat /\ Len(client_list') \in Nat
        /\ \A i \in DOMAIN client_list : i \in DOMAIN client_list' /\ client_list'[i] = client_list[i]
    BY DEF IInv, Types, Registered
  <1> DEFINE receipt == [s |-> s, from |-> from, clients |-> Len(client_list')]
  <1>2. receipt \in Receipt
    BY <1>1 DEF Receipt
  <1>3. /\ got' \in Seq(Receipt) /\ Len(got') = Len(got) + 1 /\ got'[Len(got')] = receipt
        /\ \A i \in DOMAIN got : i \in DOMAIN got' /\ got'[i] = got[i] /\ i < Len(got')
        /\ \A i \in DOMAIN got' : i \in DOMAIN got \/ i = Len(got')
        /\ Len(got) \in Nat
    <2>1. got \in Seq(Receipt) /\ got' = Append(got, receipt)
      BY DEF IInv, Types
    <2> HIDE DEF receipt
    <2> QED BY <1>2, <2>1
  <1>4. UNCHANGED <<pending, running, ended, refused>> /\ Pool!Known' = Pool!Known
    BY DEF pvars, Pool!Known
  <1>5. Bounds'
    <2>1. waiting_queue' = <<[s |-> s, from |-> from]>>
      BY DEF IInv, QueueInv
    <2>2. \A i \in DOMAIN waiting_queue' : waiting_queue'[i].s \in 0..MaxSends
      <3>1. \A i \in DOMAIN waiting_queue' : waiting_queue'[i] = [s |-> s, from |-> from]
        BY <2>1, OneElement, Zenon
      <3> QED BY <3>1
    <2>3. Len(got') \in 0..MaxRecvs
      BY <1>3, ChatAssumption DEF Bounds
    <2>4. \A i \in DOMAIN got' : got'[i].s \in 0..MaxSends
      BY <1>3 DEF Bounds
    <2> QED BY <1>1, <2>2, <2>3, <2>4 DEF Bounds
  <1>6. ClientsInv'
    <2>1. ASSUME NEW m \in DOMAIN got' PROVE got'[m].clients \in 0..Len(client_list')
      BY <1>1, <1>3 DEF ClientsInv
    <2> QED BY <1>3, <2>1 DEF ClientsInv
  <1>7. CoverInv'
    <2> SUFFICES ASSUME NEW m \in DOMAIN got', NEW k \in 1..got'[m].clients,
                        client_list'[k] # got'[m].from,
                        ~(m = Len(got') /\ k >= 1)
                 PROVE  Sent(m, client_list[k])'
      BY DEF CoverInv
    <2>1. k \in Nat /\ k >= 1
      OBVIOUS
    <2>2. m \in DOMAIN got /\ got'[m] = got[m]
      BY <1>3, <2>1
    <2>3. k \in DOMAIN client_list /\ client_list'[k] = client_list[k]
      BY <1>1, <2>2 DEF ClientsInv
    <2> QED BY <1>4, <2>2, <2>3 DEF CoverInv, Sent
  <1>8. OrderInv' /\ SlotInv'
    BY <1>4 DEF OrderInv, SlotInv
  <1>9. EndedInv'
    BY <1>4 DEF EndedInv, Heard
  <1>10. FarInv'
    BY <1>1, <1>3, FarKept
  <1> QED BY <1>5, <1>6, <1>7, <1>8, <1>9, <1>10

\* The loop of start: the place it is at is covered when it goes on.
LEMMA SubmitReorder ==
  ASSUME IInv, ReorderInv, Fanout PROVE ReorderInv'
  <1> USE DEF ReorderInv, Fanout
  <1>0. /\ got \in Seq(Receipt) /\ client_list \in Seq(Peers) /\ at \in Nat \ {0}
        /\ Len(got) > 0 /\ Head(waiting_queue).from = got[Len(got)].from
    BY DEF IInv, Types, QueueInv
  <1>1. /\ at \in DOMAIN client_list /\ client_list[at] \in Peers /\ Len(got) \in DOMAIN got
        /\ Len(got) \in Nat /\ at \in Nat /\ Len(client_list) \in Nat
        /\ Head(waiting_queue).from = got[Len(got)].from /\ got[Len(got)].from \in Peers
        /\ got \in Seq(Receipt) /\ client_list \in Seq(Peers)
    <2>1. at \in DOMAIN client_list /\ Len(client_list) \in Nat /\ Len(got) \in DOMAIN got
      BY <1>0
    <2>2. got[Len(got)] \in Receipt /\ client_list[at] \in Peers
      BY <1>0, <2>1
    <2> QED BY <1>0, <2>1, <2>2 DEF Receipt
  <1> DEFINE task == [n |-> Len(got), k |-> at, to |-> client_list[at]]
  <1>2. task.n = Len(got) /\ task.to = client_list[at]
    OBVIOUS
  <1>3. \/ /\ client_list[at] = got[Len(got)].from
           /\ UNCHANGED <<pending, running, ended, refused>>
        \/ /\ pending' = Append(pending, task)
           /\ UNCHANGED <<running, ended, refused>>
    BY <1>1, SamePeer DEF Pool!Submit, pvars
  <1> HIDE DEF task
  <1>4. /\ Pool!Known \subseteq Pool!Known'
        /\ pending' = Append(pending, task) => task \in Pool!Known'
    <2>1. pending \in Seq(Task)
      BY DEF IInv, Types
    <2>2. CASE UNCHANGED <<pending, running, ended, refused>> /\ pending' # Append(pending, task)
      BY <2>2 DEF Pool!Known
    <2>3. CASE pending' = Append(pending, task) /\ UNCHANGED <<running, ended, refused>>
      <3>1. /\ \A i \in DOMAIN pending : i \in DOMAIN pending' /\ pending'[i] = pending[i]
            /\ Len(pending') \in DOMAIN pending' /\ pending'[Len(pending')] = task
        BY <2>1, <2>3
      <3> QED BY <2>3, <3>1 DEF Pool!Known
    <2> QED BY <1>3, <2>2, <2>3
  <1>5. Bounds' /\ ClientsInv'
    BY <1>1 DEF Bounds, ClientsInv
  <1>6. CoverInv'
    <2> SUFFICES ASSUME NEW m \in DOMAIN got, NEW k \in 1..got[m].clients,
                        client_list[k] # got[m].from,
                        ~(m = Len(got) /\ k >= at + 1)
                 PROVE  Sent(m, client_list[k])'
      BY DEF CoverInv
    <2>1. Sent(m, client_list[k]) => Sent(m, client_list[k])'
      BY <1>4 DEF Sent
    <2>2. CASE m = Len(got) /\ k = at
      <3>1. pending' = Append(pending, task)
        BY <1>3, <2>2
      <3> QED BY <1>2, <1>4, <2>2, <3>1 DEF Sent
    <2>3. CASE ~(m = Len(got) /\ k = at)
      <3>1. k \in Nat
        BY DEF ClientsInv
      <3>2. ~(m = Len(got) /\ k >= at)
        BY <1>1, <2>3, <3>1
      <3> QED BY <2>1, <3>2 DEF CoverInv
    <2> QED BY <2>2, <2>3
  <1>7. OrderInv'
    <2>1. CASE UNCHANGED <<pending, running, ended, refused>>
      BY <2>1 DEF OrderInv
    <2>2. CASE pending' = Append(pending, task) /\ UNCHANGED <<running, ended, refused>>
      <3>1. \A t \in Pool!Known : t.n <= Len(got)
        BY <1>1 DEF IInv, TaskInv
      <3>2. /\ \A i \in DOMAIN pending : pending[i].n <= task.n
            /\ \A t \in running \cup ended : t.n <= task.n
        BY <1>2, <3>1 DEF Pool!Known
      <3>3. /\ \A i \in DOMAIN pending' :
                 \/ i \in DOMAIN pending /\ pending'[i] = pending[i]
                 \/ i = Len(pending) + 1 /\ pending'[i] = task
            /\ \A i \in DOMAIN pending : i \in Nat /\ i < Len(pending) + 1
            /\ Len(pending) + 1 \in Nat
        BY <2>2 DEF IInv, Types
      <3>4. ASSUME NEW i \in DOMAIN pending', NEW j \in DOMAIN pending', i < j
            PROVE  pending'[i].n <= pending'[j].n
        <4>1. CASE j \in DOMAIN pending /\ pending'[j] = pending[j]
          <5>1. i \in DOMAIN pending /\ pending'[i] = pending[i]
            BY <3>3, <3>4, <4>1
          <5> QED BY <3>4, <4>1, <5>1 DEF OrderInv
        <4>2. CASE j = Len(pending) + 1 /\ pending'[j] = task
          <5>1. i \in DOMAIN pending /\ pending'[i] = pending[i]
            BY <3>3, <3>4, <4>2
          <5> QED BY <3>2, <4>2, <5>1
        <4> QED BY <3>3, <4>1, <4>2
      <3>5. ASSUME NEW t \in running' \cup ended', NEW i \in DOMAIN pending'
            PROVE  t.n <= pending'[i].n
        BY <2>2, <3>2, <3>3 DEF OrderInv
      <3> QED BY <3>4, <3>5 DEF OrderInv
    <2> QED BY <1>3, <2>1, <2>2
  <1>8. SlotInv' /\ EndedInv'
    BY <1>3 DEF SlotInv, EndedInv, Heard
  <1>9. FarInv'
    BY <1>1, FarKept
  <1> QED BY <1>5, <1>6, <1>7, <1>8, <1>9

\* A thread of the pool takes the first task.
LEMMA StartReorder ==
  ASSUME IInv, ReorderInv, StartTask, Pool!Known' = Pool!Known PROVE ReorderInv'
  <1> USE DEF ReorderInv, StartTask
  <1>0. Pool!Cardinality(running) = Cardinality(running)
    BY DEF Pool!Cardinality, Cardinality
  <1>1. /\ pending # <<>> /\ pending' = Tail(pending) /\ running' = running \cup {Head(pending)}
        /\ Cardinality(running) < Slots /\ UNCHANGED <<ended, refused>>
    BY <1>0 DEF Pool!Start
  <1>2. /\ 1 \in DOMAIN pending /\ Head(pending) = pending[1]
        /\ \A i \in DOMAIN pending' : i \in Nat /\ i + 1 \in DOMAIN pending /\ 1 < i + 1
                                      /\ pending'[i] = pending[i + 1]
    BY <1>1 DEF IInv, Types
  <1>3. Bounds' /\ ClientsInv'
    BY DEF Bounds, ClientsInv
  <1>4. CoverInv'
    BY DEF CoverInv, Sent
  <1>5. OrderInv'
    <2>1. ASSUME NEW i \in DOMAIN pending', NEW j \in DOMAIN pending', i < j
          PROVE  pending'[i].n <= pending'[j].n
      <3>1. i + 1 < j + 1
        BY <1>2, <2>1
      <3> QED BY <1>2, <3>1 DEF OrderInv
    <2>2. ASSUME NEW t \in running' \cup ended', NEW i \in DOMAIN pending'
          PROVE  t.n <= pending'[i].n
      <3>1. CASE t \in running \cup ended
        BY <1>2, <3>1 DEF OrderInv
      <3>2. CASE t = Head(pending)
        BY <1>2, <3>2 DEF OrderInv
      <3> QED BY <1>1, <3>1, <3>2
    <2> QED BY <2>1, <2>2 DEF OrderInv
  <1>6. SlotInv'
    <2>1. /\ IsFiniteSet(running')
          /\ Cardinality(running') <= Cardinality(running) + 1
          /\ Cardinality(running) \in Nat
      <3>1. IsFiniteSet(running)
        BY DEF SlotInv
      <3>2. Cardinality(running) \in Nat
        BY <3>1, FS_CardinalityType
      <3>3. /\ IsFiniteSet(running \cup {Head(pending)})
            /\ Cardinality(running \cup {Head(pending)})
               = IF Head(pending) \in running THEN Cardinality(running) ELSE Cardinality(running) + 1
        BY <3>1, FS_AddElement
      <3> QED BY <1>1, <3>1, <3>2, <3>3
    <2>2. Cardinality(running') \in Nat
      BY <2>1, FS_CardinalityType
    <2> QED BY <1>1, <2>1, <2>2, ChatAssumption DEF SlotInv
  <1>7. EndedInv'
    BY <1>1 DEF EndedInv, Heard
  <1>8. FarInv'
    BY FarKept DEF IInv, Types
  <1> QED BY <1>3, <1>4, <1>5, <1>6, <1>7, <1>8

\* A set of numbers, each of them the receipt of another task, is no larger than the set
\* of the tasks.
LEMMA OneTaskEach ==
  ASSUME NEW S, IsFiniteSet(S), NEW M, \A m \in M : \E u \in S : u.n = m
  PROVE  IsFiniteSet(M) /\ Cardinality(M) <= Cardinality(S)
  <1> DEFINE f == [m \in M |-> CHOOSE u \in S : u.n = m]
  <1>1. \A m \in M : f[m] \in S /\ f[m].n = m
    OBVIOUS
  <1>2. f \in Injection(M, S)
    <2>1. f \in [M -> S]
      BY <1>1
    <2>2. \A m, k \in M : f[m] = f[k] => m = k
      BY <1>1
    <2> HIDE DEF f
    <2> QED BY <2>1, <2>2 DEF Injection, IsInjective
  <1> HIDE DEF f
  <1> QED BY <1>2, FS_Injection

\* What is appended to a sequence leaves it as it was.
LEMMA AppendKeeps ==
  ASSUME NEW S, NEW q \in Seq(S), NEW x \in S, NEW r, r = q \/ r = Append(q, x)
  PROVE  \A i \in DOMAIN q : /\ i \in DOMAIN r /\ r[i] = q[i]
                             /\ \A j \in 1..i : j \in DOMAIN q
  OBVIOUS

\* What a client has not heard when a later receipt is sent on to it is in the hands of
\* other threads.
LEMMA SendReorder ==
  ASSUME IInv, ReorderInv, NEW t \in running, SendTask(t), IInv', Pool!Known' = Pool!Known
  PROVE  ReorderInv'
  <1> USE DEF ReorderInv, SendTask
  <1>1. /\ running' = running \ {t} /\ ended' = ended \cup {t}
        /\ UNCHANGED <<pending, refused>>
    BY DEF Pool!Finish
  <1>2. t \in Task /\ t \in Pool!Known /\ t.n \in DOMAIN got /\ t.n \in Nat
    BY DEF IInv, Types, TaskInv, Pool!Known, Task
  <1>3. Bounds' /\ ClientsInv'
    BY DEF Bounds, ClientsInv
  <1>4. CoverInv'
    BY DEF CoverInv, Sent
  <1>5. OrderInv'
    BY <1>1 DEF OrderInv
  <1>6. /\ IsFiniteSet(running \ {t}) /\ Cardinality(running \ {t}) = Cardinality(running) - 1
        /\ Cardinality(running) \in Nat /\ Cardinality(running) <= Slots
    BY FS_CardinalityType, FS_RemoveElement DEF SlotInv
  <1>7. SlotInv'
    BY <1>1, <1>6, ChatAssumption DEF SlotInv
  <1>8. /\ out \in [Addr -> Seq(Nat)] /\ out' \in [Addr -> Seq(Nat)]
        /\ \A c \in Addr : c # t.to => out'[c] = out[c]
        /\ t.to \in Addr /\ socket_fd # "none" => out'[t.to] = Append(out[t.to], t.n)
        /\ socket_fd = "none" => out' = out
    BY DEF IInv, Types, Transmitted
  <1>9. ASSUME NEW c \in Addr, NEW j \in DOMAIN out[c]
        PROVE  j \in DOMAIN out'[c] /\ out'[c][j] = out[c][j]
    <2>1. out[c] \in Seq(Nat) /\ (out'[c] = out[c] \/ out'[c] = Append(out[c], t.n))
      BY <1>8
    <2> QED BY <1>2, <2>1, AppendKeeps, SMTT(30)
  <1>10. EndedInv'
    <2>1. spc # "init"
      BY DEF EndedInv
    <2>2. ASSUME socket_fd # "none", t.to \in Addr PROVE t.n \in Heard(t.to)'
      <3>1. out[t.to] \in Seq(Nat) /\ out'[t.to] = Append(out[t.to], t.n)
        BY <1>8, <2>2
      <3>2. Len(out'[t.to]) \in DOMAIN out'[t.to] /\ out'[t.to][Len(out'[t.to])] = t.n
        BY <1>2, <3>1
      <3> QED BY <3>2 DEF Heard
    <2>3. \A c \in Addr : Heard(c) \subseteq Heard(c)'
      BY <1>9 DEF Heard
    <2> QED BY <1>1, <2>1, <2>2, <2>3 DEF EndedInv
  <1>11. \A m : Audience(m)' = Audience(m)
    BY DEF Audience
  <1>12. ASSUME NEW c \in Addr, NEW i \in DOMAIN out[c], i \in DOMAIN out'[c],
                out'[c][i] = out[c][i]
         PROVE  Cardinality(Overtaken(c, i))' < Slots
    <2>1. \A j \in 1..i : out'[c][j] = out[c][j]
      <3>1. out[c] \in Seq(Nat) /\ (out'[c] = out[c] \/ out'[c] = Append(out[c], t.n))
        BY <1>8
      <3>2. \A j \in 1..i : j \in DOMAIN out[c]
        BY <1>2, <3>1, AppendKeeps
      <3>3. \A j \in DOMAIN out[c] : out'[c][j] = out[c][j]
        BY <1>9
      <3> QED BY <3>2, <3>3
    <2>2. SentBefore(c, i)' = SentBefore(c, i)
      BY <2>1 DEF SentBefore
    <2>3. Overtaken(c, i)' = Overtaken(c, i)
      BY <1>11, <1>12, <2>2 DEF Overtaken
    <2> QED BY <2>3 DEF FarInv
  <1>13. ASSUME socket_fd # "none", NEW c \in Addr, c = t.to, NEW i, i = Len(out[c]) + 1,
                out'[c][i] = t.n, i \in DOMAIN out'[c]
         PROVE  Cardinality(Overtaken(c, i))' < Slots
    <2>1. /\ \A j \in DOMAIN out[c] : j \in 1..i /\ out'[c][j] = out[c][j]
          /\ i \in 1..i
      <3>1. out[c] \in Seq(Nat) /\ out'[c] = Append(out[c], t.n)
        BY <1>8, <1>13
      <3> QED BY <1>2, <1>13, <3>1
    <2>2. ASSUME NEW m \in Overtaken(c, i)' PROVE \E u \in running \ {t} : u.n = m
      <3>1. m \in 1..t.n /\ c \in Audience(m) /\ m \notin SentBefore(c, i)'
        BY <1>11, <1>13, <2>2 DEF Overtaken
      <3>2. m # t.n /\ m \notin Heard(c)
        BY <1>13, <2>1, <3>1 DEF SentBefore, Heard
      <3>3. m \in Nat /\ m < t.n /\ m \in DOMAIN got /\ m # Len(got)
        BY <1>2, <3>1, <3>2 DEF IInv, Types
      <3>4. PICK k \in 1..got[m].clients : client_list[k] = c /\ c # got[m].from
        BY <3>1 DEF Audience
      <3>5. Sent(m, c)
        BY <3>3, <3>4 DEF CoverInv
      <3>6. PICK u \in Pool!Known : u.n = m /\ u.to = c
        BY <3>5 DEF Sent
      <3>7. ~\E j \in DOMAIN pending : u = pending[j]
        BY <1>2, <3>3, <3>6 DEF OrderInv
      <3>8. u \notin ended
        BY <1>13, <3>2, <3>6 DEF EndedInv
      <3>9. u \in running
        BY <3>7, <3>8 DEF Pool!Known, IInv, Types
      <3> QED BY <3>3, <3>6, <3>9
    <2>3. Cardinality(Overtaken(c, i)') <= Cardinality(running \ {t})
      <3> DEFINE M == Overtaken(c, i)'
      <3>1. \A m \in M : \E u \in running \ {t} : u.n = m
        BY <2>2
      <3> HIDE DEF M
      <3>2. Cardinality(M) <= Cardinality(running \ {t})
        BY <1>6, <3>1, OneTaskEach
      <3> QED BY <3>2 DEF M
    <2>4. Cardinality(Overtaken(c, i)') \in Nat
      <3> DEFINE M == Overtaken(c, i)'
      <3>1. \A m \in M : \E u \in running \ {t} : u.n = m
        BY <2>2
      <3> HIDE DEF M
      <3>2. IsFiniteSet(M)
        BY <1>6, <3>1, OneTaskEach
      <3>3. Cardinality(M) \in Nat
        BY <3>2, FS_CardinalityType
      <3> QED BY <3>3 DEF M
    <2> QED BY <1>6, <2>3, <2>4, ChatAssumption
  <1>14. FarInv'
    <2> SUFFICES ASSUME NEW c \in Addr, NEW i \in DOMAIN out'[c]
                 PROVE  Cardinality(Overtaken(c, i))' < Slots
      BY DEF FarInv
    <2>1. \/ i \in DOMAIN out[c] /\ out'[c][i] = out[c][i]
          \/ socket_fd # "none" /\ c = t.to /\ i = Len(out[c]) + 1 /\ out'[c][i] = t.n
      <3>1. out[c] \in Seq(Nat)
        BY <1>8
      <3>2. \/ out'[c] = out[c]
            \/ socket_fd # "none" /\ c = t.to /\ out'[c] = Append(out[c], t.n)
        BY <1>8
      <3> QED BY <1>2, <3>1, <3>2, SMTT(30)
    <2> QED BY <1>12, <1>13, <2>1
  <1> QED BY <1>3, <1>4, <1>5, <1>7, <1>10, <1>14

LEMMA StepReorder ==
  ASSUME IInv, ReorderInv, [Next]_vars, IInv' PROVE ReorderInv'
  <1>0. ASSUME UNCHANGED <<socket_fd, spc, up, sends, got, waiting_queue, at, client_list>>
        PROVE  Bounds'
    BY <1>0 DEF ReorderInv, Bounds
  <1>1. ASSUME NEW c \in Addr, ClientSend(c) PROVE ReorderInv'
    <2>1. sends + 1 \in 1..MaxSends
      BY <1>1, ChatAssumption DEF ClientSend, ReorderInv, Bounds
    <2>2. [s |-> sends + 1, from |-> c] \in [s : 1..MaxSends, from : Addr]
      BY <2>1
    <2>3. Bounds'
      BY <1>1, <2>1, <2>2 DEF ClientSend, ReorderInv, Bounds
    <2> QED BY <1>1, <2>3, QuietReorder DEF ClientSend
  <1>2. ASSUME InitUdp PROVE ReorderInv'
    <2>1. Bounds'
      BY <1>2 DEF InitUdp, ReorderInv, Bounds
    <2> QED BY <1>2, <2>1, QuietReorder DEF InitUdp
  <1>3. ASSUME NEW d \in up, Recv(d) PROVE ReorderInv'
    <2>1. d.s \in 0..MaxSends /\ d.from \in Peers
      BY DEF ReorderInv, Bounds, Peers
    <2> QED BY <1>3, <2>1, GotMsgReorder DEF Recv
  <1>4. ASSUME NEW g \in Garbage, RecvFail(g) PROVE ReorderInv'
    <2>1. Nothing \in 0..MaxSends /\ g \in Peers
      BY ChatAssumption DEF Nothing, Peers
    <2> QED BY <1>4, <2>1, GotMsgReorder DEF RecvFail
  <1>5. ASSUME FanoutEnd PROVE ReorderInv'
    <2>1. waiting_queue' = <<>>
      BY <1>5 DEF FanoutEnd, Answered, IInv, QueueInv
    <2>2. Bounds'
      BY <1>5, <2>1 DEF FanoutEnd, ReorderInv, Bounds
    <2> QED BY <1>5, <2>2, QuietReorder DEF FanoutEnd
  <1>6. ASSUME StartTask PROVE ReorderInv'
    BY <1>6, StartReorder, SameTasks
  <1>7. ASSUME NEW t \in running, SendTask(t) PROVE ReorderInv'
    <2>1. Pool!Known' = Pool!Known
      BY <1>7 DEF SendTask, Pool!Finish, Pool!Known
    <2> QED BY <1>7, <2>1, SendReorder
  <1>8. ASSUME UNCHANGED vars PROVE ReorderInv'
    <2>1. Bounds'
      BY <1>0, <1>8 DEF vars
    <2> QED BY <1>8, <2>1, QuietReorder DEF vars
  <1> QED BY <1>1, <1>2, <1>3, <1>4, <1>5, <1>6, <1>7, <1>8, SubmitReorder DEF Next, MainStep

LEMMA Reordering == Spec => [](IInv /\ ReorderInv)
  <1>1. Init => IInv /\ ReorderInv
    BY InitInv, InitReorder
  <1>2. (IInv /\ ReorderInv) /\ [Next]_vars => (IInv /\ ReorderInv)'
    BY StepInv, StepReorder
  <1> QED BY <1>1, <1>2, PTL DEF Spec

\* The threads of the pool reorder what a client hears, but fewer than Slots earlier
\* messages are ever missing when one is sent on, for any number of clients, messages and
\* threads: tasks start in the order of their receipts, so what is missing is in the hands of
\* the other threads.
THEOREM ReorderingBounded == Spec => []BoundedReordering
  <1>1. ReorderInv => BoundedReordering
    BY DEF ReorderInv, FarInv, BoundedReordering, Overtaken, SentBefore
  <1> QED BY <1>1, Reordering, PTL

-----------------------------------------------------------------------------
(* ChatClient, and the types of both programs                               *)

\* buff is empty outside the step from getline to send_msg_, and holds no line that has been
\* sent.
ClientInv ==
  /\ Client!TypeOK
  /\ buff <= lines
  /\ \A i \in DOMAIN sent : sent[i] <= lines
  /\ mpc # "send" => buff = Client!Empty
  /\ buff # Client!Empty => \A i \in DOMAIN sent : sent[i] # buff
  /\ Client!NoLineTwice

LEMMA InitClient == ASSUME Client!Init PROVE ClientInv
  <1>1. MaxLines \in Nat /\ MaxArrivals \in Nat
    BY ClientAssumption DEF Client!ChatClientAssumption
  <1>2. Client!TypeOK
    <2>1. /\ is_init \in BOOLEAN /\ failed \in BOOLEAN /\ input \in {"good", "met"}
          /\ mpc \in {"init", "start", "getline", "send"}
      BY DEF Client!Init
    <2>2. lines \in 0..MaxLines /\ buff \in 0..MaxLines /\ arrived \in 0..MaxArrivals
      BY <1>1 DEF Client!Init, Client!Empty
    <2>3. /\ sent \in Seq(0..MaxLines) /\ inbox \in Seq(0..MaxArrivals)
          /\ shown \in Seq(1..MaxArrivals)
      BY DEF Client!Init
    <2>4. /\ tp_pending \in Seq({Client!recv_task}) /\ tp_running = {} /\ tp_ended = {}
          /\ tp_refused = {} /\ tp_open
      BY DEF Client!Init, Client!Pool!Init
    <2> QED BY <2>1, <2>2, <2>3, <2>4 DEF Client!TypeOK
  <1>3. buff = 0 /\ lines = 0 /\ DOMAIN sent = {}
    BY DEF Client!Init, Client!Empty
  <1> QED BY <1>2, <1>3 DEF ClientInv, Client!NoLineTwice, Client!Empty

\* Steps that leave the main thread alone.
LEMMA RecvClient ==
  ASSUME ClientInv, UNCHANGED Client!mvars, Client!TypeOK' PROVE ClientInv'
  BY DEF ClientInv, Client!mvars, Client!NoLineTwice

LEMMA StepClient == ASSUME ClientInv, [Client!Next]_clientVars PROVE ClientInv'
  <1> USE ClientAssumption DEF Client!ChatClientAssumption, Client!Empty, Client!recv_task
  <1>0. Client!TypeOK
    BY DEF ClientInv
  <1>1. CASE Client!InitUdp
    BY <1>1 DEF Client!InitUdp, ClientInv, Client!TypeOK, Client!NoLineTwice, Client!rvars,
                Client!pvars
  <1>2. CASE Client!Start
    <2>1. /\ tp_pending' = Append(tp_pending, Client!recv_task)
          /\ UNCHANGED <<tp_running, tp_ended, tp_refused, tp_open>>
      BY <1>2 DEF Client!Start, Client!Pool!Submit
    <2>2. tp_pending' \in Seq({Client!recv_task})
      BY <1>0, <2>1 DEF Client!TypeOK
    <2>3. Client!TypeOK'
      BY <1>0, <1>2, <2>1, <2>2 DEF Client!Start, Client!TypeOK, Client!rvars
    <2> QED BY <1>2, <2>3 DEF Client!Start, ClientInv, Client!NoLineTwice
  <1>3. CASE Client!GetLine
    <2>1. /\ lines' = lines + 1 /\ lines' \in 0..MaxLines /\ lines' # 0 /\ lines \in Nat
          /\ buff' = lines' /\ mpc' = "send"
          /\ UNCHANGED <<is_init, sent, Client!rvars, Client!pvars>> /\ input' \in {"good", "met"}
      BY <1>0, <1>3 DEF Client!GetLine, Client!Got, Client!TypeOK
    <2>2. Client!TypeOK'
      BY <1>0, <2>1 DEF Client!TypeOK, Client!rvars, Client!pvars
    <2>3. \A i \in DOMAIN sent : sent[i] \in Nat /\ sent[i] <= lines
      BY <1>0 DEF Client!TypeOK, ClientInv
    <2> QED BY <2>1, <2>2, <2>3 DEF ClientInv, Client!NoLineTwice
  <1>4. CASE Client!GetEmptyLine \/ Client!GetNothing
    <2>1. /\ buff' = 0 /\ mpc' = "send" /\ UNCHANGED lines
          /\ UNCHANGED <<is_init, sent, Client!rvars, Client!pvars>> /\ input' \in {"good", "met"}
      BY <1>4 DEF Client!GetEmptyLine, Client!GetNothing, Client!Got, ClientInv, Client!TypeOK
    <2>2. Client!TypeOK'
      BY <1>0, <2>1 DEF Client!TypeOK, Client!rvars, Client!pvars
    <2>3. lines \in Nat
      BY <1>0 DEF Client!TypeOK
    <2> QED BY <2>1, <2>2, <2>3 DEF ClientInv, Client!NoLineTwice
  <1>5. CASE Client!SendMsg
    <2>1. /\ buff' = 0 /\ mpc' = "getline" /\ (sent' = sent \/ sent' = Append(sent, buff))
          /\ UNCHANGED <<is_init, input, lines, Client!rvars, Client!pvars>>
      BY <1>5 DEF Client!SendMsg, Client!Cleared
    <2>2. sent \in Seq(0..MaxLines) /\ buff \in 0..MaxLines /\ lines \in Nat /\ buff <= lines
      BY <1>0 DEF Client!TypeOK, ClientInv
    <2>3. /\ sent' \in Seq(0..MaxLines)
          /\ \A i \in DOMAIN sent' :
               \/ i \in DOMAIN sent /\ sent'[i] = sent[i]
               \/ i = Len(sent) + 1 /\ sent'[i] = buff
      <3>1. CASE sent' = sent
        BY <2>2, <3>1
      <3>2. CASE sent' = Append(sent, buff)
        BY <2>2, <3>2
      <3> QED BY <2>1, <3>1, <3>2
    <2>4. Client!TypeOK'
      BY <1>0, <2>1, <2>3 DEF Client!TypeOK, Client!rvars, Client!pvars
    <2>5. Client!NoLineTwice'
      BY <2>3 DEF ClientInv, Client!NoLineTwice
    <2>6. \A i \in DOMAIN sent' : sent'[i] <= lines
      BY <2>2, <2>3 DEF ClientInv
    <2> QED BY <2>1, <2>2, <2>4, <2>5, <2>6 DEF ClientInv
  <1>6. CASE Client!Arrive
    <2>1. PICK msg \in {0, arrived + 1} : inbox' = Append(inbox, msg)
      BY <1>6 DEF Client!Arrive
    <2>2. /\ arrived' = arrived + 1 /\ arrived < MaxArrivals
          /\ UNCHANGED <<Client!mvars, shown, failed, Client!pvars>>
      BY <1>6 DEF Client!Arrive
    <2>3. msg \in 0..MaxArrivals /\ arrived' \in 0..MaxArrivals
      BY <1>0, <2>1, <2>2 DEF Client!TypeOK
    <2>4. inbox' \in Seq(0..MaxArrivals)
      BY <1>0, <2>1, <2>3 DEF Client!TypeOK
    <2>5. Client!TypeOK'
      BY <1>0, <2>2, <2>3, <2>4 DEF Client!TypeOK, Client!mvars, Client!pvars
    <2> QED BY <2>2, <2>5, RecvClient
  <1>7. CASE Client!StartTask
    <2>1. /\ tp_pending # <<>> /\ tp_pending' = Tail(tp_pending)
          /\ tp_running' = tp_running \cup {Head(tp_pending)}
          /\ UNCHANGED <<tp_ended, tp_refused, tp_open, Client!mvars, Client!rvars>>
      BY <1>7 DEF Client!StartTask, Client!Pool!Start
    <2>2. tp_pending' \in Seq({Client!recv_task}) /\ Head(tp_pending) \in {Client!recv_task}
      BY <1>0, <2>1 DEF Client!TypeOK
    <2>3. Client!TypeOK'
      BY <1>0, <2>1, <2>2 DEF Client!TypeOK, Client!mvars, Client!rvars
    <2> QED BY <2>1, <2>3, RecvClient
  <1>8. CASE Client!RecvMsg
    <2>1. /\ inbox # <<>> /\ Head(inbox) # 0 /\ inbox' = Tail(inbox)
          /\ shown' = Append(shown, Head(inbox))
          /\ UNCHANGED <<Client!mvars, arrived, failed, Client!pvars>>
      BY <1>8 DEF Client!RecvMsg, Client!Received
    <2>2. Head(inbox) \in 1..MaxArrivals /\ inbox' \in Seq(0..MaxArrivals)
      BY <1>0, <2>1, SMTT(30) DEF Client!TypeOK
    <2>3. shown' \in Seq(1..MaxArrivals)
      BY <1>0, <2>1, <2>2 DEF Client!TypeOK
    <2>4. Client!TypeOK'
      BY <1>0, <2>1, <2>2, <2>3 DEF Client!TypeOK, Client!mvars, Client!pvars
    <2> QED BY <2>1, <2>4, RecvClient
  <1>9. CASE Client!RecvUninit \/ Client!RecvEmpty \/ Client!RecvFails
    <2>1. /\ tp_running' = tp_running \ {Client!recv_task}
          /\ tp_ended' = tp_ended \cup {Client!recv_task}
          /\ UNCHANGED <<tp_pending, tp_refused, tp_open, Client!mvars, arrived, shown>>
          /\ failed' \in {failed, TRUE}
          /\ inbox' = inbox \/ (inbox # <<>> /\ inbox' = Tail(inbox))
      BY <1>9 DEF Client!RecvUninit, Client!RecvEmpty, Client!RecvFails, Client!RecvEnds,
                  Client!Pool!Finish
    <2>2. inbox' \in Seq(0..MaxArrivals)
      <3>1. inbox \in Seq(0..MaxArrivals)
        BY <1>0 DEF Client!TypeOK
      <3>2. inbox # <<>> => Tail(inbox) \in Seq(0..MaxArrivals)
        BY <3>1
      <3> QED BY <2>1, <3>1, <3>2
    <2>3. Client!TypeOK'
      BY <1>0, <2>1, <2>2 DEF Client!TypeOK, Client!mvars
    <2> QED BY <2>1, <2>3, RecvClient
  <1>10. CASE UNCHANGED clientVars
    <2>1. Client!TypeOK' /\ UNCHANGED Client!mvars
      BY <1>0, <1>10 DEF clientVars, Client!TypeOK, Client!mvars
    <2> QED BY <2>1, RecvClient
  <1> QED
    BY <1>1, <1>2, <1>3, <1>4, <1>5, <1>6, <1>7, <1>8, <1>9, <1>10
    DEF Client!Next, Client!MainStep, Client!RecvStep

-----------------------------------------------------------------------------

\* A behaviour of the two programs, seen from either of them.
LEMMA BothPrograms == MCSpec => Spec /\ [](ClientInv)
  <1>1. MCInit => Init /\ ClientInv
    BY InitClient DEF MCInit
  <1>2. [MCNext]_<<program, serverVars, clientVars>> => [Next]_vars
    BY DEF MCNext, serverVars
  <1>3. ClientInv /\ [MCNext]_<<program, serverVars, clientVars>> => ClientInv'
    BY StepClient DEF MCNext
  <1> QED BY <1>1, <1>2, <1>3, PTL DEF MCSpec, Spec

\* ChatClient sends no line twice, also when the last line of its input has no newline and
\* every getline behind it leaves buff alone: send_msg_ has cleared it.
THEOREM LinesSentOnce == MCSpec => []NoLineTwice
  <1>1. ClientInv => NoLineTwice
    BY DEF ClientInv, NoLineTwice
  <1> QED BY <1>1, BothPrograms, PTL

\* The list of the clients is no longer than there are peers.
LEMMA ListBounded ==
  ASSUME IInv PROVE Len(client_list) <= Cardinality(Peers)
  <1>1. client_list \in [1..Len(client_list) -> Peers] /\ Len(client_list) \in Nat
    BY DEF IInv, Types
  <1>2. client_list \in Injection(1..Len(client_list), Peers)
    BY <1>1 DEF IInv, ListInv, Injection, IsInjective
  <1>3. IsFiniteSet(Peers)
    BY ChatAssumption
  <1>4. Cardinality(1..Len(client_list)) <= Cardinality(Peers)
    BY <1>2, <1>3, FS_Injection
  <1>5. Cardinality(1..Len(client_list)) = Len(client_list)
    <2>1. ASSUME NEW n \in Nat PROVE Cardinality(1..n) = n
      <3>1. 1 \in Int /\ n \in Int
        OBVIOUS
      <3>2. Cardinality(1..n) = IF 1 > n THEN 0 ELSE n - 1 + 1
        BY <3>1, FS_Interval
      <3> QED BY <3>2
    <2> QED BY <1>1, <2>1
  <1> QED BY <1>4, <1>5

\* A sequence with nothing behind its first element.
LEMMA LastOne ==
  ASSUME NEW S, NEW q \in Seq(S), q # <<>>, Tail(q) = <<>> PROVE Len(q) = 1
  <1>1. Len(Tail(q)) = Len(q) - 1 /\ Len(q) \in Nat
    OBVIOUS
  <1>2. Len(<<>>) = 0
    OBVIOUS
  <1>3. Len(Tail(q)) = 0
    BY <1>2, Zenon
  <1> QED BY <1>1, <1>3

LEMMA ServerTypes == ASSUME IInv, ReorderInv PROVE TypeOK
  <1> USE DEF IInv, ReorderInv
  <1>1. Cardinality(Peers) \in Nat /\ Len(client_list) <= Cardinality(Peers)
    BY ListBounded, FS_CardinalityType, ChatAssumption
  <1>2. at \in 1..(Cardinality(Peers) + 1)
    BY <1>1 DEF Bounds, Types
  <1>3. /\ waiting_queue \in Seq([s : 0..MaxSends, from : Peers])
        /\ Len(waiting_queue) = (IF spc = "fanout" THEN 1 ELSE 0)
    <2>1. waiting_queue \in Seq(Message) /\ \A i \in DOMAIN waiting_queue :
            waiting_queue[i] \in [s : 0..MaxSends, from : Peers]
      <3>1. waiting_queue \in Seq(Message)
        BY DEF Types
      <3>2. ASSUME NEW i \in DOMAIN waiting_queue
            PROVE  waiting_queue[i] \in [s : 0..MaxSends, from : Peers]
        <4>1. waiting_queue[i] \in Message /\ waiting_queue[i].s \in 0..MaxSends
          BY <3>1 DEF Bounds
        <4> QED BY <4>1 DEF Message
      <3> QED BY <3>1, <3>2
    <2>2. waiting_queue \in Seq([s : 0..MaxSends, from : Peers])
      BY <2>1, SeqOf
    <2>3. Len(waiting_queue) = (IF spc = "fanout" THEN 1 ELSE 0)
      <3>1. CASE spc = "fanout"
        <4>1. waiting_queue # <<>> /\ Tail(waiting_queue) = <<>>
          BY <3>1 DEF QueueInv
        <4> QED BY <2>1, <3>1, <4>1, LastOne
      <3>2. CASE spc # "fanout"
        BY <3>2 DEF QueueInv
      <3> QED BY <3>1, <3>2
    <2> QED BY <2>2, <2>3
  <1>4. got \in Seq([s : 0..MaxSends, from : Peers, clients : Nat])
    <2>1. got \in Seq(Receipt) /\ \A i \in DOMAIN got :
            got[i] \in [s : 0..MaxSends, from : Peers, clients : Nat]
      <3>1. got \in Seq(Receipt)
        BY DEF Types
      <3>2. ASSUME NEW i \in DOMAIN got
            PROVE  got[i] \in [s : 0..MaxSends, from : Peers, clients : Nat]
        <4>1. got[i] \in Receipt /\ got[i].s \in 0..MaxSends
          BY <3>1 DEF Bounds
        <4> QED BY <4>1 DEF Receipt
      <3> QED BY <3>1, <3>2
    <2> QED BY <2>1, SeqOf
  <1>5. DOMAIN got \subseteq 1..MaxRecvs /\ DOMAIN client_list \subseteq 1..Cardinality(Peers)
    <2>1. DOMAIN got = 1..Len(got) /\ Len(got) \in Nat /\ Len(got) <= MaxRecvs
          /\ MaxRecvs \in Nat
      BY ChatAssumption DEF Types, Bounds
    <2>2. DOMAIN client_list = 1..Len(client_list) /\ Len(client_list) \in Nat
      BY DEF Types
    <2> QED BY <1>1, <2>1, <2>2
  <1>6. Pool!Known \subseteq Tasks
    <2> SUFFICES ASSUME NEW t \in Pool!Known PROVE t \in Tasks
      OBVIOUS
    <2>1. t \in Task
      BY DEF Types, Pool!Known
    <2>2. t.n \in 1..MaxRecvs /\ t.k \in 1..Cardinality(Peers) /\ t.to \in Peers
      BY <1>5, <2>1 DEF TaskInv, Task
    <2> QED BY <2>1, <2>2 DEF Task, Tasks
  <1>7. pending \in Seq(Tasks) /\ running \subseteq Tasks /\ ended \subseteq Tasks
    <2>1. pending \in Seq(Task) /\ \A i \in DOMAIN pending : pending[i] \in Tasks
      BY <1>6 DEF Types, Pool!Known
    <2> QED BY <1>6, <2>1, SeqOf DEF Pool!Known
  <1>8. out \in [Addr -> Seq(1..MaxRecvs)]
    <2> SUFFICES ASSUME NEW c \in Addr PROVE out[c] \in Seq(1..MaxRecvs)
      BY DEF Types
    <2>1. ASSUME NEW i \in DOMAIN out[c] PROVE out[c][i] \in 1..MaxRecvs
      <3>1. PICK t \in ended : t.to = c /\ t.n = out[c][i]
        BY DEF OutInv
      <3> QED BY <3>1, <1>5 DEF TaskInv, Pool!Known
    <2> QED BY <2>1, SeqOf DEF Types
  <1> QED BY <1>2, <1>3, <1>4, <1>7, <1>8 DEF TypeOK, Bounds, Types

\* The types of both programs; in particular the queue of get_msg_ holds the message that
\* is sent on and no other, the list of the clients does not outgrow them, and ChatClient
\* shows no empty message.
THEOREM TypesCorrect == MCSpec => []TypesOK
  <1>1. (IInv /\ ReorderInv) /\ ClientInv => TypesOK
    BY ServerTypes DEF ClientInv, TypesOK
  <1> QED BY <1>1, Reordering, BothPrograms, PTL

=============================================================================
