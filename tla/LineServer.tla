----------------------------- MODULE LineServer -----------------------------
(***************************************************************************)
(* The programs that talk over TCP without a protocol: TcpClient sends a   *)
(* line and prints what its next read brings; the server takes whatever    *)
(* one read brings for one request. "echo" is TcpServer, which sends it    *)
(* back to its only peer; "calculator" is the process of the older         *)
(* CalculatorServer that serves one connection and sends a result.         *)
(*                                                                         *)
(* The stream delivers bytes in order, in pieces of any size, and cut      *)
(* remembers whether a read brought less than was under way. A byte is the *)
(* number of the line it belongs to; a line holds no NUL character.        *)
(***************************************************************************)
EXTENDS Naturals, Sequences, SequencesExt

CONSTANTS
  MAX_STR,   \* the server's buffer, 1024 in the program
  MAX_BUFF,  \* the client's buffer, 1024
  MaxLen,    \* bound: the length of a line
  MaxLines,  \* bound: the lines the client reads
  MaxCalc,   \* bound: the lines the calculator's client reads
  DivZero    \* the requests that divide by zero

LineAssumption ==
  /\ {MaxLen, MaxLines, MaxCalc} \subseteq Nat
  /\ MaxCalc <= MaxLines
  /\ MAX_STR \in Nat \ {0, 1} /\ MAX_BUFF \in Nat
  /\ MAX_STR <= MAX_BUFF   \* they are the same
  /\ DivZero \subseteq 1..MaxLines

Garbled == 0  \* the text of an answer to bytes that are no whole request

VARIABLES
  service,   \* "echo" or "calculator"
  sloop,     \* init, listen, accept, serve (in recv), answer (in send), ended, failed (exit),
             \* dead (killed)
  peer_list, \* the peers in peer_list_
  sbuff,     \* the bytes of buff of the server's loop
  cloop,    \* connect, input, recv, dead
  is_init,   \* is_init_ of TcpClient
  lines,     \* the length of each line the client has read
  shown,   \* what it has printed
  up, down,  \* the bytes under way
  reset,     \* the connection has been reset
  cut,       \* history: a read brought less than was under way
  overrun    \* cbuff[read_result] = 0 was written past the end of cbuff

svars == <<sloop, peer_list, sbuff>>
cvars == <<cloop, is_init, lines, shown, overrun>>
vars == <<service, svars, cvars, up, down, reset, cut>>

Bytes == 0..MaxLines
Line(n) == [k \in 1..lines[n] |-> n]

TypeOK ==
  /\ service \in {"echo", "calculator"}
  /\ sloop \in {"init", "listen", "accept", "serve", "answer", "ended", "failed", "dead"}
  /\ peer_list \in 0..1
  /\ cloop \in {"connect", "input", "recv", "dead"}
  /\ is_init \in BOOLEAN /\ reset \in BOOLEAN /\ cut \in BOOLEAN /\ overrun \in BOOLEAN
  /\ lines \in Seq(0..MaxLen)
  /\ {up, down} \cup ToSet(shown) \subseteq Seq(Bytes)
  /\ sbuff \in BoundedSeq(Bytes, MAX_STR - 1)

\* What a read may bring of a stream, into a buffer of the given size.
Least(m, n) == IF m < n THEN m ELSE n
Pieces(stream, size) == 1..Least(Len(stream), size)
Cuts(stream, size, n) == n < Least(Len(stream), size)
Rest(stream, n) == SubSeq(stream, n + 1, Len(stream))

\* TcpClient's constructor
ClientInit == cloop = "connect" /\ is_init = FALSE /\ lines = <<>> /\ shown = <<>>

Init ==
  /\ service \in {"echo", "calculator"}
  /\ sloop = (IF service = "echo" THEN "init" ELSE "accept") /\ peer_list = 0 /\ sbuff = <<>>
  /\ ClientInit
  /\ up = <<>> /\ down = <<>>
  /\ reset = FALSE /\ cut = FALSE /\ overrun = FALSE

Gone == {"ended", "failed", "dead"}

-----------------------------------------------------------------------------
(* The client                                                              *)

\* TcpClient::init. Its result is ignored; the connection waits in the backlog.
Connect ==
  /\ cloop = "connect"
  /\ is_init' \in (IF sloop = "accept" THEN BOOLEAN ELSE {FALSE})
  /\ cloop' = "input"
  /\ UNCHANGED <<service, svars, lines, shown, overrun, up, down, reset, cut>>

\* getline and send: an empty line, or the end of the input, sends no byte.
ReadAndSend(length) ==
  /\ cloop = "input"
  /\ Len(lines) < (IF service = "echo" THEN MaxLines ELSE MaxCalc)
  /\ lines' = Append(lines, length)
  /\ up' = IF is_init /\ sloop \notin Gone
           THEN up \o [k \in 1..length |-> Len(lines')]
           ELSE up
  /\ cloop' = "recv"
  /\ UNCHANGED <<service, svars, is_init, shown, overrun, down, reset, cut>>

Prints(text) ==
  /\ shown' = Append(shown, text)
  /\ cloop' = "input"
  /\ UNCHANGED <<service, svars, is_init, lines, up, reset>>

\* The size of the client's read, sizeof(cbuff)
ClientSize_Exact == MAX_STR - 1
ClientSize == MAX_BUFF

\* recv fills cbuff and ends it with a zero, one past its end when it is full. That
\* write hits something or nothing.
ClientRecv(n) ==
  /\ cloop = "recv"
  /\ n \in Pieces(down, ClientSize)
  /\ down' = Rest(down, n)
  /\ cut' = (cut \/ Cuts(down, ClientSize, n))
  /\ overrun' = (overrun \/ n = ClientSize)
  /\ Prints(SubSeq(down, 1, n))

\* recv fails: not connected, or the server is gone. buff is empty, and printed.
ClientRecvFails ==
  /\ cloop = "recv"
  /\ ~is_init \/ (sloop \in Gone /\ down = <<>>)
  /\ Prints(<<>>)
  /\ UNCHANGED <<down, cut, overrun>>

\* The client ends only when it is killed. The kernel closes its connection, with a
\* reset when answers are left unread.
ClientKilled ==
  /\ cloop # "dead"
  /\ cloop' = "dead"
  /\ reset' = (reset \/ down # <<>>)
  /\ UNCHANGED <<service, svars, is_init, lines, shown, overrun, up, down, cut>>

-----------------------------------------------------------------------------
(* The server                                                              *)

Fails == sloop' = "failed"

\* TcpServer's constructor calls init: socket and bind, or exit.
SetUp ==
  /\ sloop = "init"
  /\ sloop' = "listen" \/ Fails
  /\ UNCHANGED <<service, peer_list, sbuff, cvars, up, down, reset, cut>>

Listen ==
  /\ sloop = "listen"
  /\ sloop' = "accept" \/ Fails
  /\ UNCHANGED <<service, peer_list, sbuff, cvars, up, down, reset, cut>>

Connected == is_init /\ sloop = "accept"

\* accept_peer, for TcpServer; the calculator's process begins with its connection.
Accept ==
  /\ Connected
  /\ sloop' = "serve"
  /\ peer_list' = IF service = "echo" THEN 1 ELSE 0
  /\ UNCHANGED <<service, sbuff, cvars, up, down, reset, cut>>

\* accept fails, as it may: its len is not initialised. main ignores that, and recv
\* exits on the descriptor -1.
AcceptFails ==
  /\ Connected /\ service = "echo"
  /\ Fails
  /\ UNCHANGED <<service, peer_list, sbuff, cvars, up, down, reset, cut>>

\* erase of the only peer; on an empty list its loop does not begin.
Erased == 0

\* The size of the server's read
\* (mutants: two less, or the whole array)
ServerSize_Whole == MAX_STR
ServerSize_Short == MAX_STR - 2
ServerSize == MAX_STR - 1

\* What the server's read may bring; mutant: it waits until its buffer is full.
ServerPieces_Full == {n \in Pieces(up, ServerSize) : n = ServerSize}
ServerPieces == Pieces(up, ServerSize)

ServerRecv(n) ==
  /\ sloop = "serve"
  /\ n \in ServerPieces
  /\ sbuff' = SubSeq(up, 1, n)
  /\ up' = Rest(up, n)
  /\ cut' = (cut \/ Cuts(up, ServerSize, n))
  /\ sloop' = "answer"
  /\ UNCHANGED <<service, peer_list, cvars, down, reset>>

\* read returns 0: the loop of main ends, or the process exits.
AtEof == "ended"

ServerEof ==
  /\ sloop = "serve"
  /\ cloop = "dead" /\ up = <<>>
  /\ sloop' = AtEof
  /\ peer_list' = Erased
  /\ UNCHANGED <<service, sbuff, cvars, up, down, reset, cut>>

ServerReadFails ==
  /\ sloop = "serve"
  /\ reset
  /\ Fails
  /\ UNCHANGED <<service, peer_list, sbuff, cvars, up, down, reset, cut>>

\* The request the calculator makes of what one read has brought: a whole line, or
\* bytes of which protocol_ makes anything.
Request(text) ==
  LET whole == {n \in DOMAIN lines : lines[n] > 0 /\ text = Line(n)}
  IN  IF whole = {} THEN Garbled ELSE CHOOSE n \in whole : TRUE

\* The bytes that are sent: for the echo those received.
\* The result of request n is written with the bytes of line n.
Answer(text) ==
  IF service = "calculator" /\ Request(text) = Garbled THEN <<Garbled>> ELSE text

Kills == IF service = "echo" THEN {} ELSE DivZero \cup {Garbled}

\* send. To a client that has gone it may succeed, which resets the connection.
ServerSend ==
  /\ sloop = "answer"
  /\ service = "calculator" => Request(sbuff) \notin DivZero
  /\ down' = IF cloop = "dead" THEN down ELSE down \o Answer(sbuff)
  /\ reset' = (reset \/ cloop = "dead")
  /\ sloop' = "serve"
  /\ sbuff' = <<>>
  /\ UNCHANGED <<service, peer_list, cvars, up, cut>>

\* send fails: TcpServer erases the peer and receives again, the calculator exits.
ServerSendFails ==
  /\ sloop = "answer"
  /\ reset
  /\ sbuff' = <<>>
  /\ peer_list' = Erased
  /\ sloop' = IF service = "echo" THEN "serve" ELSE "ended"
  /\ UNCHANGED <<service, cvars, up, down, reset, cut>>

\* A request that divides by zero, or bytes that are no request, kill the process.
ServerDies ==
  /\ sloop = "answer"
  /\ Request(sbuff) \in Kills
  /\ sloop' = "dead"
  /\ UNCHANGED <<service, peer_list, sbuff, cvars, up, down, reset, cut>>

ClientStep == (\E n \in 1..MAX_BUFF : ClientRecv(n)) \/ ClientRecvFails

ServerStep ==
  \/ \E n \in 1..MAX_STR : ServerRecv(n)
  \/ ServerEof \/ ServerReadFails \/ ServerSend \/ ServerSendFails \/ ServerDies

Next ==
  \/ Connect \/ ClientKilled \/ \E length \in 0..MaxLen : ReadAndSend(length)
  \/ ClientStep
  \/ SetUp \/ Listen \/ Accept \/ AcceptFails \/ ServerStep

Spec == Init /\ [][Next]_vars

Fairness == WF_vars(ClientStep) /\ WF_vars(Accept \/ AcceptFails) /\ WF_vars(ServerStep)

FairSpec == Spec /\ Fairness

-----------------------------------------------------------------------------
(* Properties                                                              *)

Short == \A n \in DOMAIN lines : lines[n] \in 1..(MAX_STR - 1)

\* On a stream that is not cut, a client whose lines are neither empty nor longer than
\* the server's buffer prints the answer to each of its lines, whole and in its turn,
\* or nothing once the connection is gone.
InStep ==
  ~cut /\ Short =>
    \A n \in DOMAIN shown : shown[n] \in {Line(n), <<>>}

\* However the stream is cut and however long the lines, the echo loses, repeats and
\* reorders no byte while both sides live.
EchoConserves ==
  service = "echo" /\ is_init /\ cloop # "dead" /\ sloop \notin Gone =>
    FlattenSeq(shown) \o down \o sbuff \o up = FlattenSeq([n \in DOMAIN lines |-> Line(n)])

\* The client writes past its buffer only after a line longer than the server's
\* buffer, or on a stream that was cut.
OverrunNeedsLongLine == overrun => cut \/ ~Short

\* A client that has sent something is not left waiting: it prints an answer, or sees
\* that the server has gone.
LineAnswered ==
  cloop = "recv" /\ is_init /\ lines[Len(lines)] > 0 ~> cloop # "recv"

\* The serving process ends after its client has, however the connection ended.
ServerEnds == cloop = "dead" /\ is_init ~> sloop \in Gone
=============================================================================
