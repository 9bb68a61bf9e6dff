-------------------------- MODULE ForkServerProofs --------------------------
(***************************************************************************)
(* Proofs about ForkServer, for any number of connections and turns: run   *)
(* leaves neither a descriptor nor a zombie behind a turn, and a           *)
(* connection has one process, whichever accept or fork fails. About       *)
(* Sockets, for any number of objects and descriptors: no close hits what  *)
(* its object has not opened, and nothing stays open after its last object.*)
(***************************************************************************)
EXTENDS MCForkServer, TLAPS

ServerPlaces == {"init", "bind", "listen", "accept", "fork", "close", "wait", "gone"}
ChildPlaces == {"none", "unlisten", "fork2", "end", "zombie", "gone"}
GrandchildPlaces == {"none", "serve", "end", "gone"}

\* Where the processes are: the children are those of the turns begun, and the second
\* fork ends the child's own work.
PlaceInv ==
  /\ pc[Server] \in ServerPlaces
  /\ pc[Server] \in {"fork", "close", "wait"} => round # 0
  /\ pc[Server] \in {"init", "bind", "listen"} => round = 0
  /\ \A r \in Rounds :
       /\ pc[Child(r)] \in ChildPlaces
       /\ pc[Grandchild(r)] \in GrandchildPlaces
       /\ pc[Grandchild(r)] # "none" => pc[Child(r)] \in {"end", "zombie", "gone"}
       /\ pc[Child(r)] # "none" => r < round \/ (r = round /\ pc[Server] # "fork")

\* A server that waits for its child has no other.
WaitInv ==
  /\ pc[Server] = "wait" => Waits
  /\ Waits => \A r \in Rounds :
       pc[Child(r)] \notin {"none", "gone"} => r = round /\ pc[Server] \in {"close", "wait"}

\* A connection is accepted in one turn at most.
SockInv ==
  /\ \A r \in Rounds : sock[r] # NoConn => r <= round /\ sock[r] \in made /\ sock[r] \notin queue
  /\ \A r, q \in Rounds : sock[r] = sock[q] /\ sock[r] # NoConn => r = q

\* Who holds a connection belongs to its turn,
HolderInv ==
  \A c \in Conns :
    /\ Server \in holds[c] => pc[Server] \in {"fork", "close"} /\ sock[round] = c
    /\ \A r \in Rounds :
         /\ Child(r) \in holds[c] => pc[Child(r)] \in {"unlisten", "fork2", "end"} /\ sock[r] = c
         /\ Grandchild(r) \in holds[c] => pc[Grandchild(r)] \in {"serve", "end"} /\ sock[r] = c

\* and whoever is to hand it on holds it.
HeldInv ==
  /\ pc[Server] = "fork" /\ sock[round] # NoConn => Server \in holds[sock[round]]
  /\ \A r \in Rounds : sock[r] # NoConn =>
       /\ pc[Child(r)] \in {"unlisten", "fork2"} => Child(r) \in holds[sock[r]]
       /\ pc[Grandchild(r)] = "serve" => Grandchild(r) \in holds[sock[r]]

\* The listening socket does not go beyond the child's close.
ListenInv ==
  /\ Server \in listens => pc[Server] \notin {"init", "gone"}
  /\ \A r \in Rounds :
       /\ Child(r) \in listens => pc[Child(r)] = "unlisten"
       /\ Grandchild(r) \notin listens

IInv == Types /\ PlaceInv /\ WaitInv /\ SockInv /\ HolderInv /\ HeldInv /\ ListenInv

-----------------------------------------------------------------------------

\* The names of the processes are different.
LEMMA Names ==
  /\ Server \in Processes
  /\ \A r \in Rounds :
       /\ Child(r) \in Processes /\ Grandchild(r) \in Processes
       /\ Child(r) # Server /\ Grandchild(r) # Server
       /\ \A q \in Rounds :
            /\ Child(r) # Grandchild(q)
            /\ Child(r) = Child(q) => r = q
            /\ Grandchild(r) = Grandchild(q) => r = q
  BY DEF Processes, Children, Grandchildren, Server, Child, Grandchild

LEMMA Kinds ==
  ASSUME NEW p \in Processes
  PROVE  p = Server \/ \E r \in Rounds : p = Child(r) \/ p = Grandchild(r)
  BY DEF Processes, Children, Grandchildren

LEMMA InitInv == ASSUME Init PROVE IInv
  <1>1. /\ \A p \in Processes : p # Server => pc[p] = "none"
        /\ pc[Server] = "init"
    BY Names DEF Init
  <1>2. Types
    BY ForkAssumption DEF Init, Types, Versions, Rounds
  <1>3. PlaceInv
    BY <1>1, Names DEF Init, PlaceInv, ServerPlaces, ChildPlaces, GrandchildPlaces
  <1>4. WaitInv
    BY <1>1, Names DEF Init, WaitInv
  <1>5. SockInv /\ HolderInv /\ HeldInv /\ ListenInv
    BY <1>1, Names DEF Init, SockInv, HolderInv, HeldInv, ListenInv
  <1> QED BY <1>2, <1>3, <1>4, <1>5 DEF IInv

\* Each action keeps the invariant.
LEMMA StepInv == ASSUME IInv, [Next]_vars PROVE IInv'
  <1> USE Names DEF IInv
  <1>1. ASSUME OpenSocket PROVE IInv'
    <2> USE <1>1 DEF OpenSocket
    <2>1. Types'
      BY ForkAssumption DEF Types, Rounds
    <2>2. PlaceInv'
      BY ForkAssumption DEF Types, PlaceInv, ServerPlaces, ChildPlaces, GrandchildPlaces, Rounds
    <2>3. WaitInv'
      BY DEF Types, PlaceInv, WaitInv, Waits, Rounds
    <2>4. HolderInv'
      BY ForkAssumption DEF Types, PlaceInv, WaitInv, SockInv, HolderInv, Rounds
    <2>5. HeldInv'
      BY ForkAssumption DEF Types, PlaceInv, SockInv, HolderInv, HeldInv, Rounds
    <2>6. ListenInv'
      BY DEF Types, PlaceInv, ListenInv
    <2> QED BY <2>1, <2>2, <2>3, <2>4, <2>5, <2>6 DEF SockInv
  <1>2. ASSUME OpenFails PROVE IInv'
    <2> USE <1>2 DEF OpenFails, Exits
    <2>1. Types'
      BY ForkAssumption DEF Types, Rounds
    <2>2. PlaceInv'
      BY ForkAssumption DEF Types, PlaceInv, ServerPlaces, ChildPlaces, GrandchildPlaces, Rounds
    <2>3. WaitInv'
      BY DEF Types, PlaceInv, WaitInv, Waits, Rounds
    <2>4. HolderInv'
      BY ForkAssumption DEF Types, PlaceInv, WaitInv, SockInv, HolderInv, Rounds
    <2>5. HeldInv'
      BY ForkAssumption DEF Types, PlaceInv, SockInv, HolderInv, HeldInv, Rounds
    <2>6. ListenInv'
      BY DEF Types, PlaceInv, ListenInv
    <2> QED BY <2>1, <2>2, <2>3, <2>4, <2>5, <2>6 DEF SockInv
  <1>3. ASSUME Bind PROVE IInv'
    <2> USE <1>3 DEF Bind
    <2>1. Types'
      BY ForkAssumption DEF Types, Rounds
    <2>2. PlaceInv'
      BY ForkAssumption DEF Types, PlaceInv, ServerPlaces, ChildPlaces, GrandchildPlaces, Rounds
    <2>3. WaitInv'
      BY DEF Types, PlaceInv, WaitInv, Waits, Rounds
    <2>4. HolderInv'
      BY ForkAssumption DEF Types, PlaceInv, WaitInv, SockInv, HolderInv, Rounds
    <2>5. HeldInv'
      BY ForkAssumption DEF Types, PlaceInv, SockInv, HolderInv, HeldInv, Rounds
    <2>6. ListenInv'
      BY DEF Types, PlaceInv, ListenInv
    <2> QED BY <2>1, <2>2, <2>3, <2>4, <2>5, <2>6 DEF SockInv
  <1>4. ASSUME BindFails PROVE IInv'
    <2> USE <1>4 DEF BindFails, Exits
    <2>1. Types'
      BY ForkAssumption DEF Types, Rounds
    <2>2. PlaceInv'
      BY ForkAssumption DEF Types, PlaceInv, ServerPlaces, ChildPlaces, GrandchildPlaces, Rounds
    <2>3. WaitInv'
      BY DEF Types, PlaceInv, WaitInv, Waits, Rounds
    <2>4. HolderInv'
      BY ForkAssumption DEF Types, PlaceInv, WaitInv, SockInv, HolderInv, Rounds
    <2>5. HeldInv'
      BY ForkAssumption DEF Types, PlaceInv, SockInv, HolderInv, HeldInv, Rounds
    <2>6. ListenInv'
      BY DEF Types, PlaceInv, ListenInv
    <2> QED BY <2>1, <2>2, <2>3, <2>4, <2>5, <2>6 DEF SockInv
  <1>5. ASSUME Listen PROVE IInv'
    <2> USE <1>5 DEF Listen
    <2>1. Types'
      BY ForkAssumption DEF Types, Rounds
    <2>2. PlaceInv'
      BY ForkAssumption DEF Types, PlaceInv, ServerPlaces, ChildPlaces, GrandchildPlaces, Rounds
    <2>3. WaitInv'
      BY DEF Types, PlaceInv, WaitInv, Waits, Rounds
    <2>4. HolderInv'
      BY ForkAssumption DEF Types, PlaceInv, WaitInv, SockInv, HolderInv, Rounds
    <2>5. HeldInv'
      BY ForkAssumption DEF Types, PlaceInv, SockInv, HolderInv, HeldInv, Rounds
    <2>6. ListenInv'
      BY DEF Types, PlaceInv, ListenInv
    <2> QED BY <2>1, <2>2, <2>3, <2>4, <2>5, <2>6 DEF SockInv
  <1>6. ASSUME ListenFails PROVE IInv'
    <2> USE <1>6 DEF ListenFails, Exits
    <2>1. Types'
      BY ForkAssumption DEF Types, Rounds
    <2>2. PlaceInv'
      BY ForkAssumption DEF Types, PlaceInv, ServerPlaces, ChildPlaces, GrandchildPlaces, Rounds
    <2>3. WaitInv'
      BY DEF Types, PlaceInv, WaitInv, Waits, Rounds
    <2>4. HolderInv'
      BY ForkAssumption DEF Types, PlaceInv, WaitInv, SockInv, HolderInv, Rounds
    <2>5. HeldInv'
      BY ForkAssumption DEF Types, PlaceInv, SockInv, HolderInv, HeldInv, Rounds
    <2>6. ListenInv'
      BY DEF Types, PlaceInv, ListenInv
    <2> QED BY <2>1, <2>2, <2>3, <2>4, <2>5, <2>6 DEF SockInv
  <1>7. ASSUME NEW c \in Conns, Accept(c) PROVE IInv'
    <2> USE <1>7 DEF Accept
    <2>1. Types'
      BY ForkAssumption DEF Types, Rounds
    <2>2. PlaceInv'
      BY ForkAssumption DEF Types, PlaceInv, ServerPlaces, ChildPlaces, GrandchildPlaces, Rounds
    <2>3. WaitInv'
      BY DEF Types, PlaceInv, WaitInv, Waits, Rounds
    <2>4. SockInv'
      BY ForkAssumption DEF Types, SockInv, PlaceInv, Rounds
    <2>5. HolderInv'
      BY ForkAssumption DEF Types, PlaceInv, WaitInv, SockInv, HolderInv, Rounds
    <2>6. HeldInv'
      BY ForkAssumption DEF Types, PlaceInv, SockInv, HolderInv, HeldInv, Rounds
    <2>7. ListenInv'
      BY DEF Types, PlaceInv, ListenInv
    <2> QED BY <2>1, <2>2, <2>3, <2>4, <2>5, <2>6, <2>7
  <1>8. ASSUME AcceptFails PROVE IInv'
    <2> USE <1>8 DEF AcceptFails, Lost, StopOnError
    <2>1. Types'
      BY ForkAssumption DEF Types, Rounds
    <2>2. PlaceInv'
      BY ForkAssumption DEF Types, PlaceInv, ServerPlaces, ChildPlaces, GrandchildPlaces, Rounds
    <2>3. WaitInv'
      BY DEF Types, PlaceInv, WaitInv, Waits, Rounds
    <2>4. SockInv'
      BY ForkAssumption DEF Types, SockInv, PlaceInv, Rounds
    <2>5. HolderInv'
      BY ForkAssumption DEF Types, PlaceInv, WaitInv, SockInv, HolderInv, Rounds
    <2>6. HeldInv'
      BY ForkAssumption DEF Types, PlaceInv, SockInv, HolderInv, HeldInv, Rounds
    <2>7. ListenInv'
      BY DEF Types, PlaceInv, ListenInv
    <2> QED BY <2>1, <2>2, <2>3, <2>4, <2>5, <2>6, <2>7
  <1>9. ASSUME Fork PROVE IInv'
    <2> USE <1>9 DEF Fork, Forked, ListensToo
    <2>1. round \in Rounds /\ Child(round) \in Processes
      BY DEF Types, PlaceInv, Rounds
    <2>2. Types'
      BY <2>1, ForkAssumption DEF Types, Rounds
    <2>3. PlaceInv'
      BY <2>1, ForkAssumption DEF Types, PlaceInv, ServerPlaces, ChildPlaces, GrandchildPlaces, Rounds
    <2>4. WaitInv'
      BY <2>1 DEF Types, PlaceInv, WaitInv, Waits, Rounds
    <2>5. HolderInv'
      BY <2>1, ForkAssumption DEF Types, PlaceInv, WaitInv, SockInv, HolderInv, Rounds
    <2>6. HeldInv'
      BY <2>1, ForkAssumption DEF Types, PlaceInv, SockInv, HolderInv, HeldInv, Rounds
    <2>7. ListenInv'
      BY <2>1 DEF Types, PlaceInv, ListenInv
    <2> QED BY <2>2, <2>3, <2>4, <2>5, <2>6, <2>7 DEF SockInv
  <1>10. ASSUME ForkFails PROVE IInv'
    <2> USE <1>10 DEF ForkFails, Without
    <2>1. Types'
      BY ForkAssumption DEF Types, Rounds
    <2>2. PlaceInv'
      BY ForkAssumption DEF Types, PlaceInv, ServerPlaces, ChildPlaces, GrandchildPlaces, Rounds
    <2>3. WaitInv'
      BY DEF Types, PlaceInv, WaitInv, Waits, Rounds
    <2>4. HolderInv'
      BY ForkAssumption DEF Types, PlaceInv, WaitInv, SockInv, HolderInv, Rounds
    <2>5. HeldInv'
      BY ForkAssumption DEF Types, PlaceInv, SockInv, HolderInv, HeldInv, Rounds
    <2>6. ListenInv'
      BY DEF Types, PlaceInv, ListenInv
    <2> QED BY <2>1, <2>2, <2>3, <2>4, <2>5, <2>6 DEF SockInv
  <1>11. ASSUME ServerClose PROVE IInv'
    <2> USE <1>11 DEF ServerClose, ServerClosed, Closed
    <2>1. Types'
      BY ForkAssumption DEF Types, Rounds
    <2>2. PlaceInv'
      BY ForkAssumption DEF Types, PlaceInv, ServerPlaces, ChildPlaces, GrandchildPlaces, Rounds
    <2>3. WaitInv'
      BY DEF Types, PlaceInv, WaitInv, Waits, Rounds
    <2>4. HolderInv'
      BY ForkAssumption DEF Types, PlaceInv, WaitInv, SockInv, HolderInv, Rounds
    <2>5. HeldInv'
      BY ForkAssumption DEF Types, PlaceInv, SockInv, HolderInv, HeldInv, Rounds
    <2>6. ListenInv'
      BY DEF Types, PlaceInv, ListenInv
    <2> QED BY <2>1, <2>2, <2>3, <2>4, <2>5, <2>6 DEF SockInv
  <1>12. ASSUME NEW p \in Children, Wait(p) PROVE IInv'
    <2> USE <1>12 DEF Wait, Ended, Children
    <2>1. Types'
      BY ForkAssumption DEF Types, Rounds
    <2>2. PlaceInv'
      BY ForkAssumption DEF Types, PlaceInv, ServerPlaces, ChildPlaces, GrandchildPlaces, Rounds
    <2>3. WaitInv'
      BY DEF Types, PlaceInv, WaitInv, Waits, Rounds
    <2>4. HolderInv'
      BY ForkAssumption DEF Types, PlaceInv, WaitInv, SockInv, HolderInv, Rounds
    <2>5. HeldInv'
      BY ForkAssumption DEF Types, PlaceInv, SockInv, HolderInv, HeldInv, Rounds
    <2>6. ListenInv'
      BY DEF Types, PlaceInv, ListenInv
    <2> QED BY <2>1, <2>2, <2>3, <2>4, <2>5, <2>6 DEF SockInv
  <1>13. ASSUME NEW c \in Conns, Connect(c) PROVE IInv'
    <2> USE <1>13 DEF Connect
    <2>1. Types'
      BY ForkAssumption DEF Types, Rounds
    <2>2. SockInv'
      BY ForkAssumption DEF Types, SockInv, PlaceInv, Rounds
    <2> QED BY <2>1, <2>2 DEF PlaceInv, WaitInv, HolderInv, HeldInv, ListenInv, Waits
  <1>14. ASSUME NEW r \in Rounds, ChildUnlisten(r) PROVE IInv'
    <2> USE <1>14 DEF ChildUnlisten, Unlistened
    <2>1. Types'
      BY ForkAssumption DEF Types, Rounds
    <2>2. PlaceInv'
      BY ForkAssumption DEF Types, PlaceInv, ServerPlaces, ChildPlaces, GrandchildPlaces, Rounds
    <2>3. WaitInv'
      BY DEF Types, PlaceInv, WaitInv, Waits, Rounds
    <2>4. HolderInv'
      BY ForkAssumption DEF Types, PlaceInv, WaitInv, SockInv, HolderInv, Rounds
    <2>5. HeldInv'
      BY ForkAssumption DEF Types, PlaceInv, SockInv, HolderInv, HeldInv, Rounds
    <2>6. ListenInv'
      BY DEF Types, PlaceInv, ListenInv
    <2> QED BY <2>1, <2>2, <2>3, <2>4, <2>5, <2>6 DEF SockInv
  <1>15. ASSUME NEW r \in Rounds, ChildFork(r) PROVE IInv'
    <2> USE <1>15 DEF ChildFork, AfterFork, Forked, ListensToo
    <2>1. Types'
      BY ForkAssumption DEF Types, Rounds
    <2>2. PlaceInv'
      BY ForkAssumption DEF Types, PlaceInv, ServerPlaces, ChildPlaces, GrandchildPlaces, Rounds
    <2>3. WaitInv'
      BY DEF Types, PlaceInv, WaitInv, Waits, Rounds
    <2>4. HolderInv'
      BY ForkAssumption DEF Types, PlaceInv, WaitInv, SockInv, HolderInv, Rounds
    <2>5. HeldInv'
      BY ForkAssumption DEF Types, PlaceInv, SockInv, HolderInv, HeldInv, Rounds
    <2>6. ListenInv'
      BY DEF Types, PlaceInv, ListenInv
    <2> QED BY <2>1, <2>2, <2>3, <2>4, <2>5, <2>6 DEF SockInv
  <1>16. ASSUME NEW r \in Rounds, ChildForkFails(r) PROVE IInv'
    <2> USE <1>16 DEF ChildForkFails
    <2>1. Types'
      BY ForkAssumption DEF Types, Rounds
    <2>2. PlaceInv'
      BY ForkAssumption DEF Types, PlaceInv, ServerPlaces, ChildPlaces, GrandchildPlaces, Rounds
    <2>3. WaitInv'
      BY DEF Types, PlaceInv, WaitInv, Waits, Rounds
    <2>4. HolderInv'
      BY ForkAssumption DEF Types, PlaceInv, WaitInv, SockInv, HolderInv, Rounds
    <2>5. HeldInv'
      BY ForkAssumption DEF Types, PlaceInv, SockInv, HolderInv, HeldInv, Rounds
    <2>6. ListenInv'
      BY DEF Types, PlaceInv, ListenInv
    <2> QED BY <2>1, <2>2, <2>3, <2>4, <2>5, <2>6 DEF SockInv
  <1>17. ASSUME NEW p \in Processes, ServiceEnds(p) PROVE IInv'
    <2> USE <1>17 DEF ServiceEnds
    <2>1. Types'
      BY ForkAssumption DEF Types, Rounds
    <2>2. PlaceInv'
      BY ForkAssumption DEF Types, PlaceInv, ServerPlaces, ChildPlaces, GrandchildPlaces, Rounds
    <2>3. WaitInv'
      BY DEF Types, PlaceInv, WaitInv, Waits, Rounds
    <2>4. HolderInv'
      BY ForkAssumption DEF Types, PlaceInv, WaitInv, SockInv, HolderInv, Rounds
    <2>5. HeldInv'
      BY ForkAssumption DEF Types, PlaceInv, SockInv, HolderInv, HeldInv, Rounds
    <2>6. ListenInv'
      BY DEF Types, PlaceInv, ListenInv
    <2> QED BY <2>1, <2>2, <2>3, <2>4, <2>5, <2>6 DEF SockInv
  <1>18. ASSUME NEW p \in Processes, Exit(p) PROVE IInv'
    <2> USE <1>18 DEF Exit, Without, Children
    <2>1. Types'
      BY ForkAssumption DEF Types, Rounds
    <2>2. PlaceInv'
      BY ForkAssumption DEF Types, PlaceInv, ServerPlaces, ChildPlaces, GrandchildPlaces, Rounds
    <2>3. WaitInv'
      BY DEF Types, PlaceInv, WaitInv, Waits, Rounds
    <2>4. HolderInv'
      BY ForkAssumption DEF Types, PlaceInv, WaitInv, SockInv, HolderInv, Rounds
    <2>5. HeldInv'
      BY ForkAssumption DEF Types, PlaceInv, SockInv, HolderInv, HeldInv, Rounds
    <2>6. ListenInv'
      BY DEF Types, PlaceInv, ListenInv
    <2> QED BY <2>1, <2>2, <2>3, <2>4, <2>5, <2>6 DEF SockInv
  <1>19. ASSUME UNCHANGED vars PROVE IInv'
    BY <1>19 DEF vars, Types, PlaceInv, WaitInv, Waits, SockInv, HolderInv, HeldInv, ListenInv
  <1> QED BY <1>1, <1>2, <1>3, <1>4, <1>5, <1>6, <1>7, <1>8, <1>9,
            <1>10, <1>11, <1>12, <1>13, <1>14, <1>15, <1>16, <1>17, <1>18, <1>19
         DEF Next, ServerStep, ChildStep

LEMMA Invariant == Spec => []IInv
  <1>1. IInv /\ [Next]_vars => IInv'
    BY StepInv
  <1> QED BY InitInv, <1>1, PTL DEF Spec

-----------------------------------------------------------------------------

LEMMA IInvTypes == IInv => TypeOK
  <1>1. ASSUME IInv, NEW p \in listens \cup UNION {holds[c] : c \in Conns}
        PROVE  pc[p] \notin {"none", "zombie", "gone"}
    <2>1. p \in Processes
      BY <1>1 DEF IInv, Types
    <2>2. CASE p \in listens
      BY <1>1, <2>1, <2>2, Kinds DEF IInv, ListenInv, PlaceInv, ServerPlaces
    <2>3. CASE \E c \in Conns : p \in holds[c]
      BY <1>1, <2>1, <2>3, Kinds DEF IInv, HolderInv
    <2> QED BY <1>1, <2>2, <2>3
  <1> QED BY <1>1 DEF IInv, TypeOK

\* Every process and every descriptor has its type, and only a process that runs holds
\* a descriptor, through all the forks, closes and exits of the servers' run.
THEOREM TypeCorrect == Spec => []TypeOK
  <1> QED BY IInvTypes, Invariant, PTL

\* Back in accept the server holds no connection and, if it waits at all, has left no
\* zombie: for any number of turns, whatever failed in them.
THEOREM NothingLeftBehind == Spec => []CleanAtAccept
  <1>1. IInv => CleanAtAccept
    <2> SUFFICES ASSUME IInv, pc[Server] = "accept"
                 PROVE  /\ \A c \in Conns : Server \notin holds[c]
                        /\ Waits => \A p \in Children : pc[p] \in {"none", "gone"}
      BY DEF CleanAtAccept
    <2>1. \A c \in Conns : Server \notin holds[c]
      BY DEF IInv, HolderInv
    <2>2. ASSUME Waits, NEW p \in Children PROVE pc[p] \in {"none", "gone"}
      BY <2>2 DEF IInv, WaitInv, Children
    <2> QED BY <2>1, <2>2
  <1> QED BY <1>1, Invariant, PTL

\* A connection is served by one process, which holds it alone when the server has gone
\* on and does not hold the listening socket.
THEOREM OneServesEach == Spec => []OneServes
  <1>1. IInv => OneServes
    <2> SUFFICES ASSUME IInv PROVE OneServes
      OBVIOUS
    <2>1. ASSUME NEW p \in Processes, pc[p] = "serve"
          PROVE  \E r \in Rounds : p = Grandchild(r)
      BY <2>1, Kinds DEF IInv, PlaceInv, ServerPlaces, ChildPlaces
    <2>2. ASSUME NEW p \in Processes, pc[p] = "serve" PROVE p \notin listens
      BY <2>1, <2>2 DEF IInv, ListenInv
    <2>3. ASSUME NEW p \in Processes, NEW q \in Processes, NEW c \in Conns,
                 pc[p] = "serve", pc[q] = "serve", p \in holds[c], q \in holds[c]
          PROVE  p = q
      <3>1. PICK r \in Rounds, s \in Rounds : p = Grandchild(r) /\ q = Grandchild(s)
        BY <2>1, <2>3
      <3>2. sock[r] = c /\ sock[s] = c
        BY <2>3, <3>1 DEF IInv, HolderInv
      <3> QED BY <3>1, <3>2, ForkAssumption DEF IInv, SockInv
    <2>4. ASSUME NEW r \in Rounds, pc[Grandchild(r)] = "serve", sock[r] # NoConn
          PROVE  Grandchild(r) \in holds[sock[r]]
      BY <2>4 DEF IInv, HeldInv
    <2>5. ASSUME NEW r \in Rounds, pc[Grandchild(r)] = "serve", sock[r] # NoConn,
                 pc[Child(r)] = "gone", round # r \/ pc[Server] \in {"accept", "wait"},
                 NEW p \in holds[sock[r]]
          PROVE  p = Grandchild(r)
      <3>1. sock[r] \in Conns /\ p \in Processes
        BY <2>5 DEF IInv, Types
      <3>2. CASE p = Server
        <4>1. pc[Server] \in {"fork", "close"} /\ sock[round] = sock[r]
          BY <2>5, <3>1, <3>2 DEF IInv, HolderInv
        <4>2. round \in Rounds
          BY <4>1 DEF IInv, Types, PlaceInv, Rounds
        <4> QED BY <2>5, <4>1, <4>2 DEF IInv, SockInv
      <3>3. ASSUME NEW q \in Rounds, p = Child(q) \/ p = Grandchild(q) PROVE p = Grandchild(r)
        <4>1. sock[q] = sock[r]
          BY <2>5, <3>1, <3>3 DEF IInv, HolderInv
        <4>2. q = r
          BY <2>5, <4>1 DEF IInv, SockInv
        <4> QED BY <2>5, <3>1, <3>3, <4>2 DEF IInv, HolderInv
      <3> QED BY <3>1, <3>2, <3>3, Kinds
    <2>6. ASSUME NEW r \in Rounds, pc[Grandchild(r)] = "serve", sock[r] # NoConn,
                 pc[Child(r)] = "gone", round # r \/ pc[Server] \in {"accept", "wait"}
          PROVE  holds[sock[r]] = {Grandchild(r)}
      BY <2>4, <2>5, <2>6
    <2> QED BY <2>2, <2>3, <2>4, <2>6 DEF OneServes
  <1> QED BY <1>1, Invariant, PTL

-----------------------------------------------------------------------------
(* The class Socket                                                          *)

\* An object stands for what is open under its number.
Stands(o) ==
  sockfd[o] \in Descriptors!Fds /\ mine[o] # Descriptors!Free /\ kernel[sockfd[o]] = mine[o]

\* The class that moves: no two objects that live have the same number.
MoveInv ==
  semantics = "move" =>
    /\ \A o \in live : sockfd[o] # Descriptors!NoFd => Stands(o)
    /\ \A o, p \in live : sockfd[o] = sockfd[p] /\ sockfd[o] # Descriptors!NoFd => o = p

\* The class that copies: one object at most, whose number is free after its close, when
\* the loop does nothing but destroy it.
CopyInv ==
  semantics = "copy" =>
    /\ loop = "accept" => live = {}
    /\ loop = "close" => \A o \in live : Stands(o)
    /\ loop = "destroy" => \A o \in live :
         sockfd[o] \in Descriptors!Fds /\ kernel[sockfd[o]] = Descriptors!Free
    /\ \A o, p \in live : o = p

\* Whatever is open for a Socket has one.
OwnedInv ==
  \A n \in Descriptors!Fds :
    kernel[n] # Descriptors!Free /\ kernel[n] \notin others => \E o \in live : sockfd[o] = n

SocketInv == Descriptors!TypeOK /\ stray = FALSE /\ MoveInv /\ CopyInv /\ OwnedInv

-----------------------------------------------------------------------------

LEMMA SocketInit == ASSUME Descriptors!SocketAssumption, Descriptors!Init PROVE SocketInv
  <1> USE DEF Descriptors!SocketAssumption, Descriptors!Init, Descriptors!Free
  <1>1. Descriptors!TypeOK
    <2>1. opened \in 0..MaxOpens /\ others \subseteq 1..opened /\ semantics \in {"move", "copy"}
      OBVIOUS
    <2>2. kernel \in [Descriptors!Fds -> 0..opened] /\ mine \in [Objects -> 0..opened]
      OBVIOUS
    <2>3. /\ sockfd \in [Objects -> Descriptors!Fds \cup {Descriptors!NoFd}]
          /\ \A o \in Objects : sockfd[o] = Descriptors!NoFd
      OBVIOUS
    <2> QED BY <2>1, <2>2, <2>3 DEF Descriptors!TypeOK
  <1>2. stray = FALSE /\ MoveInv /\ CopyInv /\ OwnedInv
    BY DEF MoveInv, CopyInv, OwnedInv
  <1> QED BY <1>1, <1>2 DEF SocketInv

\* A new number is nobody's.
LEMMA Fresh ==
  ASSUME SocketInv, NEW n \in Descriptors!Fds, Descriptors!Lowest(n)
  PROVE  \A o \in live : Stands(o) => sockfd[o] # n
  BY DEF Stands, Descriptors!Lowest

Freed(fd) == [n \in Descriptors!Fds |-> IF n = fd THEN Descriptors!Free ELSE kernel[n]]

\* What close and the destructor close is what the object stands for.
LEMMA ClosesOwn ==
  ASSUME SocketInv, NEW o \in live, Descriptors!CloseNumber(o)
  PROVE  stray' = FALSE /\ kernel' = Freed(sockfd[o])
  BY DEF SocketInv, Descriptors!TypeOK, Descriptors!CloseNumber, MoveInv, CopyInv, Stands, Freed,
         Descriptors!NoFd, Descriptors!Fds, Descriptors!Free

LEMMA SocketStep ==
  ASSUME Descriptors!SocketAssumption, SocketInv, [Descriptors!Next]_(Descriptors!vars)
  PROVE  SocketInv'
  <1> USE DEF Descriptors!SocketAssumption, SocketInv, Descriptors!Fds, Descriptors!NoFd,
              Descriptors!Free, Freed
  <1>1. ASSUME NEW o \in Objects, NEW n \in Descriptors!Fds, Descriptors!Construct(o, n)
        PROVE  SocketInv'
    <2> USE <1>1 DEF Descriptors!Construct, Descriptors!Made, Descriptors!Open
    <2>0. (\A p \in live : Stands(p) => sockfd[p] # n) /\ opened' \in Nat \ {0}
      <3>1. \A p \in live : Stands(p) => sockfd[p] # n
        BY Fresh
      <3>2. opened' \in Nat \ {0}
        BY DEF Descriptors!TypeOK
      <3> QED BY <3>1, <3>2
    <2>1. Descriptors!TypeOK' /\ stray' = FALSE
      BY DEF Descriptors!TypeOK, Descriptors!Lowest
    <2>2. MoveInv'
      <3>1. ASSUME NEW p \in live', sockfd'[p] # Descriptors!NoFd PROVE Stands(p)'
        BY <2>0, <3>1 DEF Descriptors!TypeOK, MoveInv, Stands
      <3>2. ASSUME NEW p \in live', NEW q \in live', sockfd'[p] = sockfd'[q],
          sockfd'[p] # Descriptors!NoFd
            PROVE  p = q
        BY <2>0, <3>2 DEF Descriptors!TypeOK, MoveInv, Stands
      <3> QED BY <3>1, <3>2 DEF MoveInv
    <2>3. CopyInv' /\ OwnedInv'
      BY DEF Descriptors!TypeOK, MoveInv, CopyInv, OwnedInv
    <2> QED BY <2>1, <2>2, <2>3
  <1>2. ASSUME NEW o \in Objects, Descriptors!ConstructClosed(o) PROVE SocketInv'
    BY <1>2 DEF Descriptors!ConstructClosed, Descriptors!TypeOK, MoveInv, CopyInv, OwnedInv, Stands
  <1>3. ASSUME NEW o \in Objects, NEW p \in Objects, Descriptors!Move(o, p) PROVE SocketInv'
    <2> USE <1>3 DEF Descriptors!Move, Descriptors!Moved
    <2>1. Descriptors!TypeOK' /\ stray' = FALSE
      BY DEF Descriptors!TypeOK
    <2>2. MoveInv'
      BY DEF Descriptors!TypeOK, MoveInv, Stands
    <2>3. CopyInv' /\ OwnedInv'
      BY DEF Descriptors!TypeOK, CopyInv, OwnedInv
    <2> QED BY <2>1, <2>2, <2>3
  <1>4. ASSUME NEW o \in Objects, Descriptors!Close(o) PROVE SocketInv'
    <2> USE <1>4 DEF Descriptors!Close, Descriptors!Reset
    <2>0. stray' = FALSE /\ kernel' = Freed(sockfd[o])
      BY ClosesOwn
    <2>1. Descriptors!TypeOK' /\ stray' = FALSE
      <3>1. opened \in Nat /\ Descriptors!Free \in 0..opened
        BY DEF Descriptors!TypeOK
      <3>2. kernel' \in [Descriptors!Fds -> 0..opened]
        BY <2>0, <3>1 DEF Descriptors!TypeOK
      <3>3. sockfd' \in [Objects -> Descriptors!Fds \cup {Descriptors!NoFd}]
        BY DEF Descriptors!TypeOK
      <3> QED BY <2>0, <3>1, <3>2, <3>3 DEF Descriptors!TypeOK
    <2>2. MoveInv'
      BY <2>0 DEF Descriptors!TypeOK, MoveInv, Stands
    <2>3. CopyInv' /\ OwnedInv'
      BY <2>0 DEF Descriptors!TypeOK, MoveInv, CopyInv, OwnedInv, Stands
    <2> QED BY <2>1, <2>2, <2>3
  <1>5. ASSUME NEW o \in Objects, Descriptors!Destroy(o) PROVE SocketInv'
    <2> USE <1>5 DEF Descriptors!Destroy, Descriptors!Destroyed, Descriptors!Reset
    <2>0. stray' = FALSE /\ kernel' = Freed(sockfd[o])
      BY ClosesOwn
    <2>1. Descriptors!TypeOK' /\ stray' = FALSE
      <3>1. opened \in Nat /\ Descriptors!Free \in 0..opened
        BY DEF Descriptors!TypeOK
      <3>2. kernel' \in [Descriptors!Fds -> 0..opened]
        BY <2>0, <3>1 DEF Descriptors!TypeOK
      <3>3. sockfd' \in [Objects -> Descriptors!Fds \cup {Descriptors!NoFd}]
        BY DEF Descriptors!TypeOK
      <3> QED BY <2>0, <3>1, <3>2, <3>3 DEF Descriptors!TypeOK
    <2>2. MoveInv'
      BY <2>0 DEF Descriptors!TypeOK, MoveInv, Stands
    <2>3. CopyInv' /\ OwnedInv'
      BY <2>0 DEF Descriptors!TypeOK, MoveInv, CopyInv, OwnedInv, Stands
    <2> QED BY <2>1, <2>2, <2>3
  <1>6. ASSUME NEW n \in Descriptors!Fds,
      Descriptors!OpenOther(n) \/ Descriptors!LogOpens(n) PROVE SocketInv'
    <2> USE <1>6
             DEF Descriptors!OpenOther, Descriptors!LogOpens, Descriptors!Open, Descriptors!ovars
    <2>0. /\ \A p \in live : Stands(p) => sockfd[p] # n
          /\ opened' \in 0..MaxOpens /\ opened' = opened + 1
      <3>1. \A p \in live : Stands(p) => sockfd[p] # n
        BY Fresh
      <3>2. opened' \in 0..MaxOpens /\ opened' = opened + 1
        BY DEF Descriptors!TypeOK
      <3> QED BY <3>1, <3>2
    <2>1. Descriptors!TypeOK' /\ stray' = FALSE
      <3>1. opened \in Nat /\ 0..opened \subseteq 0..opened'
        BY <2>0 DEF Descriptors!TypeOK
      <3>2. kernel' \in [Descriptors!Fds -> 0..opened']
        BY <2>0, <3>1 DEF Descriptors!TypeOK
      <3>3. mine' \in [Objects -> 0..opened']
        BY <2>0, <3>1 DEF Descriptors!TypeOK
      <3>4. others' \subseteq 1..opened'
        <4>1. others' = others \cup {opened'}
          OBVIOUS
        <4>2. others \subseteq 1..opened
          BY DEF Descriptors!TypeOK
        <4> QED BY <2>0, <3>1, <4>1, <4>2
      <3> QED BY <2>0, <3>2, <3>3, <3>4 DEF Descriptors!TypeOK
    <2>2. MoveInv'
      BY <2>0 DEF Descriptors!TypeOK, MoveInv, Stands
    <2>3. CopyInv' /\ OwnedInv'
      BY DEF Descriptors!TypeOK, CopyInv, OwnedInv
    <2> QED BY <2>1, <2>2, <2>3
  <1>7. ASSUME NEW o \in Objects, NEW n \in Descriptors!Fds, Descriptors!AcceptCopy(o, n)
        PROVE  SocketInv'
    <2> USE <1>7 DEF Descriptors!AcceptCopy, Descriptors!Made, Descriptors!Open
    <2>1. Descriptors!TypeOK' /\ stray' = FALSE
      BY DEF Descriptors!TypeOK, Descriptors!Lowest
    <2>2. MoveInv' /\ CopyInv'
      BY DEF Descriptors!TypeOK, MoveInv, CopyInv, Stands
    <2>3. OwnedInv'
      BY DEF Descriptors!TypeOK, OwnedInv
    <2> QED BY <2>1, <2>2, <2>3
  <1>8. ASSUME NEW o \in Objects, Descriptors!CloseCopy(o) PROVE SocketInv'
    <2> USE <1>8 DEF Descriptors!CloseCopy, Descriptors!ovars
    <2>0. stray' = FALSE /\ kernel' = Freed(sockfd[o])
      BY ClosesOwn
    <2>1. Descriptors!TypeOK' /\ stray' = FALSE
      <3>1. opened \in Nat /\ Descriptors!Free \in 0..opened
        BY DEF Descriptors!TypeOK
      <3>2. kernel' \in [Descriptors!Fds -> 0..opened]
        BY <2>0, <3>1 DEF Descriptors!TypeOK
      <3>3. sockfd' \in [Objects -> Descriptors!Fds \cup {Descriptors!NoFd}]
        BY DEF Descriptors!TypeOK
      <3> QED BY <2>0, <3>1, <3>2, <3>3 DEF Descriptors!TypeOK
    <2>2. MoveInv' /\ CopyInv'
      BY <2>0 DEF Descriptors!TypeOK, MoveInv, CopyInv, Stands
    <2>3. OwnedInv'
      BY <2>0 DEF Descriptors!TypeOK, CopyInv, OwnedInv, Stands
    <2> QED BY <2>1, <2>2, <2>3
  <1>9. ASSUME NEW o \in Objects, Descriptors!DestroyCopy(o) PROVE SocketInv'
    <2> USE <1>9 DEF Descriptors!DestroyCopy
    <2>0. stray' = FALSE /\ kernel' = Freed(sockfd[o])
      BY ClosesOwn
    <2>1. Descriptors!TypeOK' /\ stray' = FALSE
      <3>1. opened \in Nat /\ Descriptors!Free \in 0..opened
        BY DEF Descriptors!TypeOK
      <3>2. kernel' \in [Descriptors!Fds -> 0..opened]
        BY <2>0, <3>1 DEF Descriptors!TypeOK
      <3>3. sockfd' \in [Objects -> Descriptors!Fds \cup {Descriptors!NoFd}]
        BY DEF Descriptors!TypeOK
      <3> QED BY <2>0, <3>1, <3>2, <3>3 DEF Descriptors!TypeOK
    <2>2. MoveInv' /\ CopyInv'
      BY <2>0 DEF Descriptors!TypeOK, MoveInv, CopyInv
    <2>3. OwnedInv'
      BY <2>0 DEF Descriptors!TypeOK, CopyInv, OwnedInv
    <2> QED BY <2>1, <2>2, <2>3
  <1>10. ASSUME UNCHANGED Descriptors!vars PROVE SocketInv'
    BY <1>10
         DEF Descriptors!vars, Descriptors!ovars, Descriptors!TypeOK, MoveInv, CopyInv, OwnedInv, Stands
  <1> QED BY <1>1, <1>2, <1>3, <1>4, <1>5, <1>6, <1>7, <1>8, <1>9, <1>10
           DEF Descriptors!Next, Descriptors!Moves, Descriptors!Copies

LEMMA InvClosesOwn == SocketInv => NoStrayClose
  BY DEF SocketInv, Descriptors!TypeOK, MoveInv, NoStrayClose, Descriptors!NoStrayClose,
         Descriptors!OneOwner, Descriptors!Owners, Stands

LEMMA InvOwned == SocketInv => NoLeak
  BY DEF SocketInv, OwnedInv, NoLeak, Descriptors!NoLeak, Descriptors!Owners

-----------------------------------------------------------------------------
(* The behaviours of MCForkServer: one of the servers, or one of the class   *)
(* Socket, while the other stands still.                                     *)

LEMMA MCInvariant == MCSpec => [](IInv /\ SocketInv)
  <1>1. MCInit => IInv /\ SocketInv
    BY SocketsAssumption, InitInv, SocketInit DEF MCInit
  <1>2. IInv /\ SocketInv /\ [MCNext]_<<program, forkVars, socketVars>> => (IInv /\ SocketInv)'
    <2> SUFFICES ASSUME IInv, SocketInv, [MCNext]_<<program, forkVars, socketVars>>
                 PROVE  IInv' /\ SocketInv'
      OBVIOUS
    <2>1. [Next]_vars
      BY DEF MCNext, forkVars
    <2>2. UNCHANGED socketVars => UNCHANGED Descriptors!vars
      BY DEF socketVars, Descriptors!vars, Descriptors!ovars
    <2>3. [Descriptors!Next]_(Descriptors!vars)
      BY <2>2 DEF MCNext
    <2> QED BY <2>1, <2>3, SocketsAssumption, StepInv, SocketStep
  <1> QED BY <1>1, <1>2, PTL DEF MCSpec

\* The types of both programs; in particular a Socket that is gone stands for no number.
THEOREM TypesCorrect == MCSpec => []TypesOK
  <1>1. IInv => TypeOK
    BY IInvTypes
  <1>2. SocketInv => Descriptors!TypeOK
    BY DEF SocketInv
  <1> QED BY <1>1, <1>2, MCInvariant, PTL DEF TypesOK

\* However often and in whatever order Sockets are moved, closed and destroyed, close and
\* ~Socket close nothing that their object has not opened, and a descriptor of the class
\* that moves has one owner.
THEOREM ClosesNothingElse == MCSpec => []NoStrayClose
  BY InvClosesOwn, MCInvariant, PTL

\* No descriptor stays open after the last Socket that stood for it.
THEOREM LeaksNothing == MCSpec => []NoLeak
  BY InvOwned, MCInvariant, PTL
=============================================================================
