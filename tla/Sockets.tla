------------------------------ MODULE Sockets -------------------------------
(***************************************************************************)
(* The class Socket and the descriptor it stands for. A number that is     *)
(* closed is free, and the kernel gives the lowest free number to whatever *)
(* is opened next: a second close of the same number can close somebody    *)
(* else's file.                                                            *)
(*                                                                         *)
(* "move": CalculatorServer_v2, CalculatorClient and HTTPforServer. An     *)
(* object can only be moved, and close and the destructor reset it; the    *)
(* objects are used in any order. "copy": CalculatorServer, TcpServer_v2   *)
(* and TcpServer_v3. close and the destructor both close the number, and   *)
(* only the order of their use in the accept loop keeps that harmless.     *)
(***************************************************************************)
EXTENDS Naturals

CONSTANTS
  Objects,   \* the places where a Socket can be constructed
  LastFd,    \* the highest descriptor number
  MaxOpens   \* bound: connections and files opened

SocketAssumption == {LastFd, MaxOpens} \subseteq Nat

NoFd == 0        \* the descriptor -1
Fds == 1..LastFd
Free == 0

VARIABLES
  semantics, \* "move" or "copy"
  kernel,    \* what is open under each number, the count of its open, or Free
  opened,    \* counter of the bounded events
  others,    \* what was opened for no Socket
  live,      \* the objects constructed and not destroyed
  sockfd,    \* sockfd_ of each object
  mine,      \* history: what was open under the object's number when it got it
  stray,     \* history: a close that hit something its object had not opened
  loop       \* "copy": where the accept loop is

ovars == <<live, sockfd, mine>>
vars == <<semantics, kernel, opened, others, ovars, stray, loop>>

TypeOK ==
  /\ semantics \in {"move", "copy"}
  /\ opened \in 0..MaxOpens
  /\ kernel \in [Fds -> 0..opened]
  /\ others \subseteq 1..opened
  /\ live \subseteq Objects
  /\ sockfd \in [Objects -> Fds \cup {NoFd}]
  /\ semantics = "move" => \A o \in Objects \ live : sockfd[o] = NoFd
  /\ mine \in [Objects -> 0..opened]
  /\ stray \in BOOLEAN
  /\ loop \in {"accept", "close", "destroy"}

\* An object that does not live has the initialisers of Socket().
Init ==
  /\ semantics \in {"move", "copy"}
  /\ kernel = [n \in Fds |-> Free]
  /\ opened = 0 /\ others = {}
  /\ live = {}
  /\ sockfd = [o \in Objects |-> NoFd]
  /\ mine = [o \in Objects |-> Free]
  /\ stray = FALSE
  /\ loop = "accept"

-----------------------------------------------------------------------------
(* The kernel                                                              *)

Lowest(n) == kernel[n] = Free /\ \A k \in 1..(n - 1) : kernel[k] # Free

Open(n) ==
  /\ opened < MaxOpens
  /\ Lowest(n)
  /\ opened' = opened + 1
  /\ kernel' = [kernel EXCEPT ![n] = opened']

\* ::close of what the object calls its descriptor
CloseNumber(o) ==
  IF sockfd[o] = NoFd
  THEN UNCHANGED <<kernel, stray>>
  ELSE /\ kernel' = [kernel EXCEPT ![sockfd[o]] = Free]
       /\ stray' = (stray \/ kernel[sockfd[o]] \notin {Free, mine[o]})

\* Socket(sockfd, addr) in o, for what accept or connect has returned
Made(o, n) ==
  /\ Open(n)
  /\ sockfd' = [sockfd EXCEPT ![o] = n]
  /\ mine' = [mine EXCEPT ![o] = opened']

-----------------------------------------------------------------------------
(* The class that moves                                                    *)

Construct(o, n) ==
  /\ semantics = "move" /\ o \notin live
  /\ Made(o, n)
  /\ live' = live \cup {o}
  /\ UNCHANGED <<semantics, others, stray, loop>>

\* accept has failed: Socket(-1, addr)
ConstructClosed(o) ==
  /\ semantics = "move" /\ o \notin live
  /\ live' = live \cup {o}
  /\ sockfd' = [sockfd EXCEPT ![o] = NoFd]
  /\ UNCHANGED <<semantics, kernel, opened, others, mine, stray, loop>>

\* The move constructor: the other object forgets its number.
Moved(o, p) == [sockfd EXCEPT ![p] = sockfd[o], ![o] = NoFd]

Move(o, p) ==
  /\ semantics = "move" /\ o \in live /\ p \notin live
  /\ live' = live \cup {p}
  /\ sockfd' = Moved(o, p)
  /\ mine' = [mine EXCEPT ![p] = mine[o]]
  /\ UNCHANGED <<semantics, kernel, opened, others, stray, loop>>

\* What close and the destructor leave in sockfd_; mutant: the number.
Reset_Kept(o) == sockfd
Reset(o) == [sockfd EXCEPT ![o] = NoFd]

Close(o) ==
  /\ semantics = "move" /\ o \in live
  /\ CloseNumber(o)
  /\ sockfd' = Reset(o)
  /\ UNCHANGED <<semantics, opened, others, live, mine, loop>>

\* The destructor; mutant: it forgets the descriptor.
Destroyed_Open(o) == UNCHANGED <<kernel, stray>>
Destroyed(o) == CloseNumber(o)

Destroy(o) ==
  /\ semantics = "move" /\ o \in live
  /\ Destroyed(o)
  /\ sockfd' = Reset(o)
  /\ live' = live \ {o}
  /\ UNCHANGED <<semantics, opened, others, mine, loop>>

\* The process opens something else, its log for one.
OpenOther(n) ==
  /\ semantics = "move"
  /\ Open(n)
  /\ others' = others \cup {opened'}
  /\ UNCHANGED <<semantics, ovars, stray, loop>>

-----------------------------------------------------------------------------
(* The class that copies, in the accept loop of the server                 *)

\* Socket sock = accept_socket()
AcceptCopy(o, n) ==
  /\ semantics = "copy" /\ loop = "accept"
  /\ live = {}
  /\ Made(o, n)
  /\ live' = {o}
  /\ loop' = "close"
  /\ UNCHANGED <<semantics, others, stray>>

\* accept_socket logs that accept has failed, which may open the log.
LogOpens(n) ==
  /\ semantics = "copy" /\ loop = "accept"
  /\ Open(n)
  /\ others' = others \cup {opened'}
  /\ UNCHANGED <<semantics, ovars, stray, loop>>

\* sock.close() after the fork: the number stays in sockfd_.
CloseCopy(o) ==
  /\ semantics = "copy" /\ loop = "close" /\ o \in live
  /\ CloseNumber(o)
  /\ loop' = "destroy"
  /\ UNCHANGED <<semantics, opened, others, ovars>>

\* The end of the turn: ~Socket closes the number again.
DestroyCopy(o) ==
  /\ semantics = "copy" /\ loop = "destroy" /\ o \in live
  /\ CloseNumber(o)
  /\ live' = {}
  /\ loop' = "accept"
  /\ UNCHANGED <<semantics, opened, others, sockfd, mine>>

Moves(o) == ConstructClosed(o) \/ Close(o) \/ Destroy(o) \/ \E p \in Objects : Move(o, p)
Copies(o) == CloseCopy(o) \/ DestroyCopy(o)

Next ==
  \/ \E o \in Objects :
       \/ Moves(o) \/ Copies(o)
       \/ \E n \in Fds : Construct(o, n) \/ AcceptCopy(o, n)
  \/ \E n \in Fds : OpenOther(n) \/ LogOpens(n)

Spec == Init /\ [][Next]_vars

-----------------------------------------------------------------------------
(* Properties                                                              *)

Owners(n) == {o \in live : sockfd[o] = n}

\* A descriptor of the class that moves has one owner, which opened it or was moved to,
\* and an object that has a descriptor has an open one.
OneOwner ==
  semantics = "move" =>
    \A o \in live : sockfd[o] # NoFd =>
      /\ Owners(sockfd[o]) = {o}
      /\ kernel[sockfd[o]] = mine[o]

\* A close never hits what its object has not opened: not another connection, nor the
\* log, however often and in whatever order objects are moved, closed and destroyed.
NoStrayClose == ~stray /\ OneOwner

\* No descriptor is left behind: what is open is owned by an object that lives, or was
\* opened for something else.
NoLeak ==
  \A n \in Fds : kernel[n] \notin {Free} \cup others => Owners(n) # {}
=============================================================================
