------------------------------- MODULE UdpEcho -------------------------------
(***************************************************************************)
(* The UDP question and answer programs (UdpServer, UdpClient): the server *)
(* answers every datagram that is not empty; a client prints one answer    *)
(* for each line it reads, whichever datagram that answer comes in.        *)
(*                                                                         *)
(* A question carries no number and neither side has a timeout, so a       *)
(* client is in step with the server only as long as nothing goes wrong:   *)
(* an event the programs cannot repair (a datagram lost or duplicated, a   *)
(* recvfrom that fails) is counted in mishaps.                             *)
(***************************************************************************)
EXTENDS Naturals, Sequences, FiniteSets

CONSTANTS
  Client,   \* the client programs
  MaxAsked, \* bound: lines each client reads
  MaxOdd    \* bound: datagrams lost or duplicated, failures of recvfrom

EchoAssumption == {MaxAsked, MaxOdd} \subseteq Nat

\* What std::getline leaves in input_buf. "empty" is an empty line, or any
\* getline after the end of the input.
Questions == {"how", "other", "empty"}
Answers == {"fine", "dont understand"}
NoAnswer == "none"    \* output_buf before the first answer

VARIABLES
  main,     \* the server's main: "init", "serving" or "exited"
  asking, answers, \* datagrams in flight: [from, n, q] and [to, msg, id]
  answered,   \* sendto calls of the server; numbers the answers in flight
  mishaps,    \* counter of the bounded events
  cpc,        \* where each client is
  is_init_of,    \* is_init_ of each client's UdpClient
  asked,      \* the lines each client has read
  output_buf, \* output_buf of each client's main
  printed     \* what each client has printed

cvars == <<cpc, is_init_of, asked, output_buf, printed>>
nvars == <<asking, answers>>
vars == <<main, nvars, answered, mishaps, cvars>>

TypeOK ==
  /\ main \in {"init", "serving", "exited"}
  /\ asking \subseteq [from : Client, n : 1..MaxAsked, q : Questions]
  /\ answers \subseteq [to : Client, msg : Answers, id : Nat]
  /\ answered \in Nat /\ mishaps \in 0..MaxOdd
  /\ cpc \in [Client -> {"init", "read", "send", "receive", "print", "quit"}]
  /\ is_init_of \in [Client -> BOOLEAN]
  /\ asked \in [Client -> Seq(Questions)]
  /\ output_buf \in [Client -> Answers \cup {NoAnswer}]
  /\ printed \in [Client -> Seq(Answers \cup {NoAnswer})]

ClientsInit ==
  /\ cpc = [c \in Client |-> "init"]
  /\ is_init_of = [c \in Client |-> FALSE]
  /\ asked = [c \in Client |-> <<>>]
  /\ output_buf = [c \in Client |-> NoAnswer]
  /\ printed = [c \in Client |-> <<>>]

Init ==
  /\ main = "init"
  /\ asking = {} /\ answers = {}
  /\ answered = 0 /\ mishaps = 0
  /\ ClientsInit

Mishap == mishaps < MaxOdd /\ mishaps' = mishaps + 1

-----------------------------------------------------------------------------
(* The server                                                              *)

\* UdpServer::init in the server's main: socket or bind may fail.
ServerInit ==
  /\ main = "init"
  /\ main' \in {"serving", "exited"}
  /\ UNCHANGED <<nvars, answered, mishaps, cvars>>

\* func of the server's test.cc
Func(q) == IF q = "how" THEN "fine" ELSE "dont understand"

\* Which datagrams are answered, recv_len > 0; a mutant ends the loop of start
\* at the first one that is not.
AfterEmpty_Ends == "exited"
AfterEmpty == "serving"

\* One round of start. recvfrom takes a datagram off the socket, and the network
\* may have made a copy of it.
Serve(d) ==
  /\ main = "serving"
  /\ d \in asking
  /\ \/ asking' = asking \ {d} /\ UNCHANGED mishaps
     \/ Mishap /\ UNCHANGED asking
  /\ IF d.q = "empty"
     THEN main' = AfterEmpty /\ UNCHANGED <<answers, answered>>
     ELSE /\ answered' = answered + 1
          /\ answers' = answers \cup {[to |-> d.from, msg |-> Func(d.q), id |-> answered']}
          /\ UNCHANGED main
  /\ UNCHANGED cvars

-----------------------------------------------------------------------------
(* A client                                                                *)

Goto(c, l) == cpc' = [cpc EXCEPT ![c] = l]

\* main ignores what UdpClient::init returns.
ClientInit(c) ==
  /\ cpc[c] = "init"
  /\ is_init_of' \in {[is_init_of EXCEPT ![c] = b] : b \in BOOLEAN}
  /\ Goto(c, "read")
  /\ UNCHANGED <<main, nvars, answered, mishaps, asked, output_buf, printed>>

\* getline. After a last line that no newline ends, getline leaves input_buf as it is:
\* main asks the same question again and again.
Read(c, q) ==
  /\ cpc[c] = "read"
  /\ Len(asked[c]) < MaxAsked
  /\ asked' = [asked EXCEPT ![c] = Append(@, q)]
  /\ Goto(c, "send")
  /\ UNCHANGED <<main, nvars, answered, mishaps, is_init_of, output_buf, printed>>

ReadQuit(c) ==
  /\ cpc[c] = "read"
  /\ Goto(c, "quit")
  /\ UNCHANGED <<main, nvars, answered, mishaps, is_init_of, asked, output_buf, printed>>

\* operator<<
Send(c) ==
  /\ cpc[c] = "send"
  /\ asking' =
       IF is_init_of[c]
       THEN asking \cup {[from |-> c, n |-> Len(asked[c]), q |-> asked[c][Len(asked[c])]]}
       ELSE asking
  /\ Goto(c, IF is_init_of[c] THEN "receive" ELSE "print")
  /\ UNCHANGED <<main, answers, answered, mishaps, is_init_of, asked, output_buf, printed>>

\* operator>>: a datagram fills output_buf; the mutant forgets to assign it.
Received_Not(c, d) == output_buf
Received(c, d) == [output_buf EXCEPT ![c] = d.msg]

Receive(c, d) ==
  /\ cpc[c] = "receive"
  /\ d \in answers /\ d.to = c
  /\ \/ answers' = answers \ {d} /\ UNCHANGED mishaps
     \/ Mishap /\ UNCHANGED answers
  /\ output_buf' = Received(c, d)
  /\ Goto(c, "print")
  /\ UNCHANGED <<main, asking, answered, is_init_of, asked, printed>>

\* recvfrom fails: output_buf keeps the previous answer, which is printed again.
ReceiveFails(c) ==
  /\ cpc[c] = "receive"
  /\ Mishap
  /\ Goto(c, "print")
  /\ UNCHANGED <<main, nvars, answered, is_init_of, asked, output_buf, printed>>

PrintAnswer(c) ==
  /\ cpc[c] = "print"
  /\ printed' = [printed EXCEPT ![c] = Append(@, output_buf[c])]
  /\ Goto(c, "read")
  /\ UNCHANGED <<main, nvars, answered, mishaps, is_init_of, asked, output_buf>>

-----------------------------------------------------------------------------
LoseUp(d) ==
  /\ Mishap
  /\ asking' = asking \ {d}
  /\ UNCHANGED <<main, answers, answered, cvars>>

LoseDown(d) ==
  /\ Mishap
  /\ answers' = answers \ {d}
  /\ UNCHANGED <<main, asking, answered, cvars>>

ServerStep == ServerInit \/ \E d \in asking : Serve(d)

ClientStep(c) ==
  \/ ClientInit(c) \/ ReadQuit(c) \/ Send(c) \/ ReceiveFails(c) \/ PrintAnswer(c)
  \/ \E q \in Questions : Read(c, q)
  \/ \E d \in answers : Receive(c, d)

Next ==
  \/ ServerStep
  \/ \E c \in Client : ClientStep(c)
  \/ \E d \in asking : LoseUp(d)
  \/ \E d \in answers : LoseDown(d)

Spec == Init /\ [][Next]_vars

\* The server's loop runs, datagrams that are not lost arrive, and a client that
\* has read a line goes on with it; nobody need type a line.
Serves == \E d \in asking : Serve(d)
GoesOn(c) == Send(c) \/ PrintAnswer(c) \/ \E d \in answers : Receive(c, d)

Fairness == WF_vars(Serves) /\ \A c \in Client : WF_vars(GoesOn(c))

FairSpec == Spec /\ Fairness

-----------------------------------------------------------------------------
(* Properties                                                              *)

\* As long as no mishap happens, a client that could be initialised prints
\* for its i-th line the answer to that line, although nothing in a datagram
\* says which line it answers.
InStep ==
  mishaps = 0 =>
    \A c \in Client : is_init_of[c] =>
      \A i \in DOMAIN printed[c] : printed[c][i] = Func(asked[c][i])

Flying(c) == {d \in asking : d.from = c} \cup {d \in answers : d.to = c}
Expected(c) == IF cpc[c] = "receive" THEN 1 ELSE 0

\* The datagrams of a client that nobody waits for are at most as many as the mishaps:
\* a client that is out of step stays so, and gets no further out of step by asking on.
SurplusBounded == \A c \in Client : Cardinality(Flying(c)) <= Expected(c) + mishaps

Waits(c) == cpc[c] = "receive" /\ asked[c][Len(asked[c])] # "empty"

\* A question that is not empty is answered and the answer printed, unless
\* a mishap has happened, whatever the other clients send.
Answered ==
  \A c \in Client :
    Waits(c) /\ main = "serving" ~> cpc[c] # "receive" \/ mishaps > 0
=============================================================================
