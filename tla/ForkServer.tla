----------------------------- MODULE ForkServer -----------------------------
(***************************************************************************)
(* TcpServer::run (CalculatorServer_v2, HTTPforServer, TcpServer_v3) and   *)
(* CalculatorServer::run (the first version): a process that accepts a     *)
(* connection and forks a child that forks again; the grandchild serves    *)
(* the connection, the child exits, the server waits for it.               *)
(*                                                                         *)
(* The state is the processes and the descriptors each of them holds: a    *)
(* connection ends for its peer when its last descriptor is closed.        *)
(***************************************************************************)
EXTENDS Naturals, FiniteSets

CONSTANTS
  Conns,        \* the connections that peers make
  NoConn,       \* the descriptor -1 of a failed accept
  MaxRounds     \* bound: the turns of the accept loop

ASSUME ForkAssumption ==
  /\ NoConn \notin Conns
  /\ MaxRounds \in Nat

Rounds == 1..MaxRounds
Server == <<"server", 0>>
Child(r) == <<"child", r>>
Grandchild(r) == <<"grandchild", r>>
Children == {Child(r) : r \in Rounds}
Grandchildren == {Grandchild(r) : r \in Rounds}
Processes == {Server} \cup Children \cup Grandchildren

VARIABLES
  pc,       \* where each process is; none before its fork, gone when it is reaped
  round,    \* the turn of the server's loop
  sock,     \* the socket accepted in each turn
  queue,    \* connections that wait in the listening socket
  made,     \* connections that peers have made
  holds,    \* the processes that hold a descriptor of each connection
  listens,  \* the processes that hold the listening descriptor
  version   \* which of the servers this is

vars == <<pc, round, sock, queue, made, holds, listens, version>>

\* CalculatorServer; CalculatorServer_v2; TcpServer_v3; HTTPforServer
Versions == {"first", "second", "third", "http"}
Waits == version # "third"         \* the server waits for its child
StopOnError == version = "first"   \* run returns when accept fails

Types ==
  /\ pc \in [Processes -> {"none", "init", "bind", "listen", "accept", "fork", "close", "wait",
                           "unlisten", "fork2", "serve", "end", "zombie", "gone"}]
  /\ round \in 0..MaxRounds
  /\ sock \in [Rounds -> Conns \cup {NoConn}]
  /\ queue \subseteq made /\ made \subseteq Conns
  /\ holds \in [Conns -> SUBSET Processes]
  /\ listens \subseteq Processes
  /\ version \in Versions

\* Only a process that runs holds a descriptor.
TypeOK ==
  /\ Types
  /\ \A p \in listens \cup UNION {holds[c] : c \in Conns} : pc[p] \notin {"none", "zombie", "gone"}

Init ==
  /\ pc = [p \in Processes |-> IF p = Server THEN "init" ELSE "none"]
  /\ round = 0
  /\ sock = [r \in Rounds |-> NoConn]
  /\ queue = {} /\ made = {}
  /\ holds = [c \in Conns |-> {}]
  /\ listens = {}
  /\ version \in Versions

\* A process that exits closes what it holds; mutant: it does not.
Without_Not(p) == holds
Without(p) == [c \in Conns |-> holds[c] \ {p}]
Closed(p, s) == IF s = NoConn THEN holds ELSE [holds EXCEPT ![s] = @ \ {p}]
\* A fork copies the descriptors of its parent.
Forked(p, q) == [c \in Conns |-> IF p \in holds[c] THEN holds[c] \cup {q} ELSE holds[c]]
ListensToo(p, q) == IF p \in listens THEN listens \cup {q} ELSE listens

Exits == pc' = [pc EXCEPT ![Server] = "gone"]

\* The constructor's init: socket and bind, or exit when one fails.
OpenSocket ==
  /\ pc[Server] = "init"
  /\ pc' = [pc EXCEPT ![Server] = "bind"]
  /\ listens' = {Server}
  /\ UNCHANGED <<round, sock, queue, made, holds, version>>

OpenFails ==
  /\ pc[Server] = "init"
  /\ Exits
  /\ UNCHANGED <<round, sock, queue, made, holds, listens, version>>

Bind ==
  /\ pc[Server] = "bind"
  /\ pc' = [pc EXCEPT ![Server] = "listen"]
  /\ UNCHANGED <<round, sock, queue, made, holds, listens, version>>

BindFails ==
  /\ pc[Server] = "bind"
  /\ Exits
  /\ listens' = {}
  /\ UNCHANGED <<round, sock, queue, made, holds, version>>

\* listen_socket, or exit when it fails
Listen ==
  /\ pc[Server] = "listen"
  /\ pc' = [pc EXCEPT ![Server] = "accept"]
  /\ UNCHANGED <<round, sock, queue, made, holds, listens, version>>

ListenFails ==
  /\ pc[Server] = "listen"
  /\ Exits
  /\ listens' = {}
  /\ UNCHANGED <<round, sock, queue, made, holds, version>>

Connect(c) ==
  /\ c \notin made
  /\ listens # {} /\ pc[Server] \notin {"bind", "listen"}
  /\ made' = made \cup {c}
  /\ queue' = queue \cup {c}
  /\ UNCHANGED <<pc, round, sock, holds, listens, version>>

Accept(c) ==
  /\ pc[Server] = "accept" /\ round < MaxRounds
  /\ c \in queue
  /\ queue' = queue \ {c}
  /\ round' = round + 1
  /\ sock' = [sock EXCEPT ![round + 1] = c]
  /\ holds' = [holds EXCEPT ![c] = @ \cup {Server}]
  /\ pc' = [pc EXCEPT ![Server] = "fork"]
  /\ UNCHANGED <<made, listens, version>>

\* What a failing accept can drop: where its length argument is not initialised (only
\* HTTPforServer sets it), a bad value loses the connection it has taken.
Lost == IF version = "http" THEN {{}} ELSE {lost \in SUBSET queue : Cardinality(lost) <= 1}

AcceptFails ==
  /\ pc[Server] = "accept" /\ round < MaxRounds
  /\ \E lost \in Lost : queue' = queue \ lost
  /\ IF StopOnError
     THEN /\ pc' = [pc EXCEPT ![Server] = "gone"]
          /\ listens' = listens \ {Server}
          /\ UNCHANGED round
     ELSE /\ pc' = [pc EXCEPT ![Server] = "fork"]
          /\ round' = round + 1
          /\ UNCHANGED listens
  /\ UNCHANGED <<sock, made, holds, version>>

Fork ==
  /\ pc[Server] = "fork"
  /\ pc' = [pc EXCEPT ![Server] = "close", ![Child(round)] = "unlisten"]
  /\ holds' = Forked(Server, Child(round))
  /\ listens' = ListensToo(Server, Child(round))
  /\ UNCHANGED <<round, sock, queue, made, version>>

\* exit(FORK_ERR). The children that have ended are reaped by init.
ForkFails ==
  /\ pc[Server] = "fork"
  /\ pc' = [p \in Processes |-> IF p = Server \/ pc[p] = "zombie" THEN "gone" ELSE pc[p]]
  /\ holds' = Without(Server)
  /\ listens' = listens \ {Server}
  /\ UNCHANGED <<round, sock, queue, made, version>>

\* sock.close() in the server; mutant: it is left out.
ServerClosed_Not == holds
ServerClosed == Closed(Server, sock[round])

ServerClose ==
  /\ pc[Server] = "close"
  /\ holds' = ServerClosed
  /\ pc' = [pc EXCEPT ![Server] = IF Waits THEN "wait" ELSE "accept"]
  /\ UNCHANGED <<round, sock, queue, made, listens, version>>

\* waitpid: the server sleeps until a child has ended, and reaps it.
Ended(p) == pc[p] = "zombie"
Wait(p) ==
  /\ pc[Server] = "wait"
  /\ p \in Children /\ Ended(p)
  /\ pc' = [pc EXCEPT ![Server] = "accept", ![p] = "gone"]
  /\ UNCHANGED <<round, sock, queue, made, holds, listens, version>>

\* close(listen_socket_fd_) in the child; mutant: it is left out.
Unlistened_Not(p) == listens
Unlistened(p) == listens \ {p}

ChildUnlisten(r) ==
  /\ pc[Child(r)] = "unlisten"
  /\ listens' = Unlistened(Child(r))
  /\ pc' = [pc EXCEPT ![Child(r)] = "fork2"]
  /\ UNCHANGED <<round, sock, queue, made, holds, version>>

\* The second fork: the grandchild serves. When it fails nobody does. Mutant: the
\* child serves itself.
AfterFork_ServeInChild(r) == [pc EXCEPT ![Child(r)] = "serve"]
AfterFork(r) == [pc EXCEPT ![Child(r)] = "end", ![Grandchild(r)] = "serve"]
ChildFork(r) ==
  /\ pc[Child(r)] = "fork2"
  /\ pc' = AfterFork(r)
  /\ holds' = IF pc'[Grandchild(r)] = "serve" THEN Forked(Child(r), Grandchild(r)) ELSE holds
  /\ listens' = IF pc'[Grandchild(r)] = "serve" THEN ListensToo(Child(r), Grandchild(r)) ELSE listens
  /\ UNCHANGED <<round, sock, queue, made, version>>

ChildForkFails(r) ==
  /\ pc[Child(r)] = "fork2"
  /\ pc' = [pc EXCEPT ![Child(r)] = "end"]
  /\ UNCHANGED <<round, sock, queue, made, holds, listens, version>>

\* func_ has returned, or has ended the process.
ServiceEnds(p) ==
  /\ pc[p] = "serve"
  /\ pc' = [pc EXCEPT ![p] = "end"]
  /\ UNCHANGED <<round, sock, queue, made, holds, listens, version>>

\* sock.close(), exit. A process whose parent lives becomes a zombie; the others are
\* init's, as the grandchildren of a child that has ended.
Exit(p) ==
  /\ p # Server
  /\ pc[p] = "end"
  /\ holds' = Without(p)
  /\ listens' = listens \ {p}
  /\ pc' = [pc EXCEPT ![p] = IF p \in Children /\ pc[Server] # "gone" THEN "zombie" ELSE "gone"]
  /\ UNCHANGED <<round, sock, queue, made, version>>

ChildStep(r) == ChildUnlisten(r) \/ ChildFork(r) \/ ChildForkFails(r)

ServerStep ==
  \/ \E c \in Conns : Accept(c)
  \/ Fork \/ ServerClose
  \/ \E p \in Children : Wait(p)

Next ==
  \/ OpenSocket \/ OpenFails \/ Bind \/ BindFails \/ Listen \/ ListenFails
  \/ ServerStep \/ AcceptFails \/ ForkFails
  \/ \E c \in Conns : Connect(c)
  \/ \E r \in Rounds : ChildStep(r)
  \/ \E p \in Processes : ServiceEnds(p) \/ Exit(p)

Spec == Init /\ [][Next]_vars

\* Processes are scheduled. A service may last for ever.
Fairness ==
  /\ WF_vars(ServerStep)
  /\ \A r \in Rounds : WF_vars(ChildStep(r))
  /\ \A p \in Processes : WF_vars(Exit(p))

FairSpec == Spec /\ Fairness

-----------------------------------------------------------------------------
(* Properties                                                              *)

\* When the server is back in accept it holds no connection and has left no zombie:
\* run neither leaks descriptors nor processes, whatever failed in the turn before.
CleanAtAccept ==
  pc[Server] = "accept" =>
    /\ \A c \in Conns : Server \notin holds[c]
    /\ Waits => \A p \in Children : pc[p] \in {"none", "gone"}

\* A connection is served by one process at most, which is the only one to hold it
\* once the server has gone on; while it is served its descriptor is open. A process
\* that serves does not hold the listening socket: once the server has ended no
\* connection waits in a queue that nobody accepts from.
OneServes ==
  /\ \A p \in Processes : pc[p] = "serve" => p \notin listens
  /\ \A p, q \in Processes : \A c \in Conns :
       pc[p] = "serve" /\ pc[q] = "serve" /\ p \in holds[c] /\ q \in holds[c] => p = q
  /\ \A r \in Rounds : pc[Grandchild(r)] = "serve" /\ sock[r] # NoConn =>
       /\ Grandchild(r) \in holds[sock[r]]
       /\ pc[Child(r)] = "gone" /\ (round # r \/ pc[Server] \in {"accept", "wait"}) =>
            holds[sock[r]] = {Grandchild(r)}

\* When the service of a connection ends its peer sees the end: nobody holds it.
PeerSeesEnd ==
  \A r \in Rounds : \A c \in Conns :
    sock[r] = c /\ pc[Grandchild(r)] = "gone" ~> holds[c] = {}

\* No connection waits for ever in the listening socket, however long the services last,
\* unless the server has ended or has no turn left.
EveryoneAccepted ==
  \A c \in Conns : c \in queue ~> c \notin queue \/ round = MaxRounds \/ pc[Server] = "gone"
=============================================================================
