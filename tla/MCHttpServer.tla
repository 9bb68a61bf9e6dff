---------------------------- MODULE MCHttpServer ----------------------------
(***************************************************************************)
(* Instances for TLC of the servers that answer what one read brings them. *)
(* They share no state: a behaviour is one of a single program, while the  *)
(* others wait in their initial states.                                    *)
(*   "http"   HttpServer: one request of every kind                        *)
(*   "lines"  LineServer: TcpClient with TcpServer or CalculatorServer     *)
(*   "echo"   UdpEcho: UdpServer and its clients                           *)
(***************************************************************************)
EXTENDS HttpServer

CONSTANTS MAX_STR, MAX_BUFF, MaxLen, MaxLines, MaxCalc, DivZero  \* of LineServer
CONSTANTS Client, MaxAsked, MaxOdd                               \* of UdpEcho

Targets == {"/", "/none.html", "/tech"}
DottedTargets == {"/none.html"}
Files == {"/index.html", "/tech"}

VARIABLES
  program,
  service, sloop, peer_list, sbuff, cloop, is_init, lines, shown, overrun, up, down, reset, cut,
  main, asking, answers, answered, mishaps, cpc, is_init_of, asked, output_buf, printed

httpVars == vars
lineVars == <<service, sloop, peer_list, sbuff, cloop, is_init, lines, shown, overrun,
              up, down, reset, cut>>

echoVars == <<main, asking, answers, answered, mishaps, cpc, is_init_of, asked, output_buf,
              printed>>

Echo == INSTANCE UdpEcho
Lines == INSTANCE LineServer

ASSUME ProgramsAssumption == Lines!LineAssumption /\ Echo!EchoAssumption

AnyMessage == CHOOSE m \in Message : TRUE

MCInit ==
  /\ program \in {"http", "lines", "echo"}
  /\ Init /\ Lines!Init /\ Echo!Init
  /\ program # "lines" => service = "echo"
  /\ program # "http" => message = AnyMessage

MCNext ==
  /\ \/ program = "http" /\ Next /\ UNCHANGED <<lineVars, echoVars>>
     \/ program = "lines" /\ Lines!Next /\ UNCHANGED <<httpVars, echoVars>>
     \/ program = "echo" /\ Echo!Next /\ UNCHANGED <<httpVars, lineVars>>
  /\ UNCHANGED program

\* In the initial state of a program no action is enabled that fairness asks for.
MCSpec ==
  /\ MCInit /\ [][MCNext]_<<program, httpVars, lineVars, echoVars>>
  /\ Fairness /\ Lines!Fairness /\ Echo!Fairness

\* The type invariants; in particular TcpServer's read leaves room for the zero it writes.
TypesOK == TypeOK /\ Lines!TypeOK /\ Echo!TypeOK

\* Nothing in a datagram or in a stream says which line it answers. TcpClient prints the
\* answers to its lines in their turn, as long as the stream is not cut and no line fills
\* the server's buffer, and else writes past its own buffer at worst; TcpServer's echo
\* neither loses, repeats nor reorders a byte. A client of UdpServer prints the answers in
\* their turn as long as no datagram is lost or doubled and no recvfrom fails; one that is
\* out of step does not get further out of step by asking on.
AnswersInStep ==
  /\ Lines!InStep /\ Lines!EchoConserves /\ Lines!OverrunNeedsLongLine
  /\ Echo!InStep /\ Echo!SurplusBounded

\* TcpClient is not left waiting for the answer to a line, and the serving process ends
\* after its client has. A client of UdpServer is answered unless a datagram is lost,
\* whatever the others send.
AnswersCome == Lines!LineAnswered /\ Lines!ServerEnds /\ Echo!Answered
=============================================================================
