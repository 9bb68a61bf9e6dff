----------------------------- MODULE Calculator -----------------------------
(***************************************************************************)
(* One connection between a CalculatorClient and the process of            *)
(* CalculatorServer_v2 that serves it. Each side sends frames              *)
(*     <length>\r\n<payload>\r\n                                           *)
(* into a TCP stream, which delivers bytes in order but in pieces of any   *)
(* size, and obtain (Protocol.cc) cuts the received bytes into frames.     *)
(*                                                                         *)
(* A byte is its character code. A payload is a JSON text, here a brace,   *)
(* one code that says which request or which answer it is, and the newline *)
(* of Json::FastWriter; its length has two digits, as the real ones have.  *)
(***************************************************************************)
EXTENDS Integers, Sequences, SequencesExt, FiniteSetsExt

CONSTANTS
  MaxRequests,  \* bound: the requests the client makes
  Window,       \* the requests a client makes before it waits: 1 in CalculatorClient
  DivZero       \* the requests that divide by zero

ASSUME CalculatorAssumption ==
  /\ MaxRequests \in Nat /\ MaxRequests < 100
  /\ Window \in Nat \ {0}
  /\ DivZero \subseteq 1..MaxRequests

CR == 13
LF == 10
Digits == 48..57
Marks == 128..255

\* size_t and uint16_t. Any modulus beyond the lengths that occur stands for 2^64.
SizeT == 2^20
UInt16 == 2^16

-----------------------------------------------------------------------------
(* Frames                                                                  *)

\* The texts that serialize makes, for {"oper":43,"x":1,"y":2} and {"result":3}
Text(length, q) ==
  [i \in 1..length |-> IF i = 1 THEN 123 ELSE IF i = length THEN LF ELSE 128 + q]
Requests == [q \in 1..MaxRequests |-> Text(11, q)]
Answers == [q \in 0..MaxRequests |-> Text(10, q)]

\* serialize: the length in decimal, two digits here
Frame(text) ==
  <<48 + (Len(text) \div 10), 48 + (Len(text) % 10), CR, LF>> \o text \o <<CR, LF>>

\* find_first_of("\r\n") looks for either character; 0 stands for npos
Ends(b) == {i \in DOMAIN b : b[i] \in {CR, LF}}
FirstEnd(b) == IF Ends(b) = {} THEN 0 ELSE Min(Ends(b))
NumberArea(b) == FirstEnd(b) - 1

\* std::stoi of the number area: the value of its leading digits, -1 where it
\* throws; mutant: atoi, which makes a number of anything.
DigitsOf(b) ==
  LET stop == {i \in DOMAIN b : b[i] \notin Digits} \cup {Len(b) + 1}
  IN  SubSeq(b, 1, Min(stop) - 1)
Value(digits) ==
  LET value[n \in 0..Len(digits)] ==
        IF n = 0 THEN 0 ELSE 10 * value[n - 1] + (digits[n] - 48)
  IN  value[Len(digits)]
Stoi_Atoi(b) == Value(DigitsOf(SubSeq(b, 1, NumberArea(b))))
Stoi(b) ==
  LET digits == DigitsOf(SubSeq(b, 1, NumberArea(b)))
  IN  IF digits = <<>> THEN -1 ELSE Value(digits)
Number(b) == Stoi(b) % UInt16

\* buff_.size() - number_area_len - 4 < number, in size_t: a buffer shorter than
\* its number area and four more is not found short. Mutant: no such test.
Short_Never(b) == FALSE
Short(b) == (Len(b) - NumberArea(b) - 4) % SizeT < Number(b)

\* erase(0, msg_len), which takes what there is; mutant: the closing \r\n is left.
Erased_NoTail(b) == SubSeq(b, 1 + NumberArea(b) + 2 + Number(b), Len(b))
Erased(b) == SubSeq(b, 1 + NumberArea(b) + 2 + Number(b) + 2, Len(b))

\* What an obtain does with its buffer: go on receiving, throw (stoi of no digits),
\* throw out of deserialize (substr past the end), or take a message.
Verdict(b) ==
  CASE FirstEnd(b) = 0 -> "more"
    [] FirstEnd(b) > 0 /\ Stoi(b) = -1 -> "throw"
    [] FirstEnd(b) > 0 /\ Stoi(b) # -1 /\ Short(b) -> "more"
    [] FirstEnd(b) > 0 /\ Stoi(b) # -1 /\ ~Short(b) ->
         IF NumberArea(b) + 2 > Len(b) THEN "throw" ELSE "message"

\* deserialize: the payload of the message, as much of it as there is
Payload(b) ==
  LET last == NumberArea(b) + 2 + Number(b)
  IN  SubSeq(b, NumberArea(b) + 3, IF last > Len(b) THEN Len(b) ELSE last)

\* When the parser refuses the text, deserialize returns an uninitialised struct.
Garbage == 0
Parse(b, texts) ==
  LET fits == {q \in 1..MaxRequests : Payload(b) = texts[q]}
  IN  IF fits = {} THEN Garbage ELSE Min(fits)

-----------------------------------------------------------------------------
(* The connection                                                          *)

VARIABLES
  client,    \* connect, input, wait and check (in while(!obtain)), spin (obtain fails for
             \* ever), dead
  server,    \* none (not forked), recv and check (in obtain), closed (run has returned)
             \* or dead (killed)
  asked,     \* requests delivered by the client
  printed,   \* the results the client has printed
  replied,   \* the requests the server has answered, Garbage for an unknown one
  c2s, s2c,  \* the bytes under way
  sbuf, cbuf, \* buff_ of either side
  whole      \* whether this stream leaves the first bytes of each frame together

vars == <<client, server, asked, printed, replied, c2s, s2c, sbuf, cbuf, whole>>

ClientInit == client = "connect" /\ asked = 0 /\ printed = <<>> /\ cbuf = <<>>
ServerInit == server = "none" /\ replied = <<>> /\ sbuf = <<>>

Init ==
  /\ ClientInit /\ ServerInit
  /\ c2s = <<>> /\ s2c = <<>>
  /\ whole \in BOOLEAN

\* Socket::send, which fails once the peer is gone
Sends(stream, text) == stream \o Frame(text)
SendFails == client = "dead"

\* TcpClient::get_socket. The server forks the process that serves the connection;
\* when socket or connect fails the client exits.
Connect ==
  /\ client = "connect"
  /\ \/ client' = "input" /\ server' = "recv"
     \/ client' = "dead" /\ UNCHANGED server
  /\ UNCHANGED <<asked, printed, replied, c2s, s2c, sbuf, cbuf, whole>>

\* getline, deliver; then the loop of obtain. A client with a larger window asks
\* again before it waits.
Deliver ==
  /\ \/ client = "input"
     \/ client = "wait" /\ asked - Len(printed) < Window
  /\ asked < MaxRequests
  /\ asked' = asked + 1
  /\ c2s' = Sends(c2s, Requests[asked + 1])
  /\ client' = "wait"
  /\ UNCHANGED <<server, printed, replied, s2c, sbuf, cbuf, whole>>

\* The end of the input: stoi of an empty string throws, the process ends.
EndOfInput ==
  /\ client = "input"
  /\ client' = "dead"
  /\ UNCHANGED <<server, asked, printed, replied, c2s, s2c, sbuf, cbuf, whole>>

\* Socket::recv: the pieces of the stream that can come next
FirstBytes == 6
Pieces(buffer, stream) ==
  {n \in 1..Len(stream) : whole => Len(buffer) + n >= FirstBytes}
Rest(stream, n) == SubSeq(stream, n + 1, Len(stream))

\* obtain receives,
ServerRecv ==
  /\ server = "recv"
  /\ \E n \in Pieces(sbuf, c2s) :
       /\ sbuf' = sbuf \o SubSeq(c2s, 1, n)
       /\ c2s' = Rest(c2s, n)
  /\ server' = "check"
  /\ UNCHANGED <<client, asked, printed, replied, s2c, cbuf, whole>>

\* finds no message in its buffer and receives again, or throws;
ServerMore ==
  /\ server = "check"
  /\ Verdict(sbuf) # "message"
  /\ server' = IF Verdict(sbuf) = "throw" THEN "dead" ELSE "recv"
  /\ UNCHANGED <<client, asked, printed, replied, c2s, s2c, sbuf, cbuf, whole>>

\* or takes a message: CalculatorServer::run computes and delivers. Division by zero
\* kills the process; an uninitialised request computes anything.
ServerAnswer ==
  /\ server = "check"
  /\ Verdict(sbuf) = "message"
  /\ sbuf' = Erased(sbuf)
  /\ \E q \in {Parse(sbuf, Requests)} :
       \/ /\ q \in DivZero \cup {Garbage}
          /\ server' = "dead"
          /\ UNCHANGED <<replied, s2c>>
       \/ /\ q \notin DivZero
          /\ replied' = Append(replied, q)
          /\ s2c' = Sends(s2c, Answers[q])
          /\ server' = "recv"
       \/ /\ SendFails
          /\ server' = "closed"
          /\ UNCHANGED <<replied, s2c>>
  /\ UNCHANGED <<client, asked, printed, c2s, cbuf, whole>>

\* read returns 0 once the client has closed and its bytes are read, and the loop
\* of run ends with obtain's; it fails when answers reached a closed socket, and
\* Socket::recv exits.
ServerEof ==
  /\ server = "recv"
  /\ client = "dead"
  /\ c2s = <<>> \/ s2c # <<>>
  /\ server' = "closed"
  /\ UNCHANGED <<client, asked, printed, replied, c2s, s2c, sbuf, cbuf, whole>>

\* The loop of ProtocolClient::obtain, as the server's
ClientRecv ==
  /\ client = "wait"
  /\ \E n \in Pieces(cbuf, s2c) :
       /\ cbuf' = cbuf \o SubSeq(s2c, 1, n)
       /\ s2c' = Rest(s2c, n)
  /\ client' = "check"
  /\ UNCHANGED <<server, asked, printed, replied, c2s, sbuf, whole>>

ClientMore ==
  /\ client = "check"
  /\ Verdict(cbuf) # "message"
  /\ client' = IF Verdict(cbuf) = "throw" THEN "dead" ELSE "wait"
  /\ UNCHANGED <<server, asked, printed, replied, c2s, s2c, sbuf, cbuf, whole>>

ClientPrint ==
  /\ client = "check"
  /\ Verdict(cbuf) = "message"
  /\ cbuf' = Erased(cbuf)
  /\ printed' = Append(printed, Parse(cbuf, Answers))
  /\ client' = IF Len(printed') = asked THEN "input" ELSE "wait"
  /\ UNCHANGED <<server, asked, replied, c2s, s2c, sbuf, whole>>

\* The server has closed. read returns 0 from now on, and while(!obtain(result_))
\* never ends; or it fails, when the server left bytes unread, and the client exits.
ClientEof ==
  /\ client = "wait"
  /\ server \in {"closed", "dead"}
  /\ \/ s2c = <<>> /\ client' = "spin"
     \/ c2s # <<>> /\ client' = "dead"
  /\ UNCHANGED <<server, asked, printed, replied, c2s, s2c, sbuf, cbuf, whole>>

ServerStep == ServerRecv \/ ServerMore \/ ServerAnswer \/ ServerEof
ClientStep == ClientRecv \/ ClientMore \/ ClientPrint \/ ClientEof

Next == Connect \/ Deliver \/ EndOfInput \/ ServerStep \/ ClientStep

Spec == Init /\ [][Next]_vars

\* What is under way arrives, and a process that has something to read reads it.
FairSpec == Spec /\ WF_vars(ServerStep) /\ WF_vars(ClientStep)

-----------------------------------------------------------------------------
(* Properties                                                              *)

Byte == Digits \cup Marks \cup {CR, LF, 123}

TypeOK ==
  /\ client \in {"connect", "input", "wait", "check", "spin", "dead"}
  /\ server \in {"none", "recv", "check", "closed", "dead"}
  /\ asked \in 0..MaxRequests
  /\ replied \in BoundedSeq(0..MaxRequests, asked)
  /\ printed \in BoundedSeq(0..MaxRequests, Len(replied))
  /\ \A b \in {c2s, s2c, sbuf, cbuf} : \A i \in DOMAIN b : b[i] \in Byte

\* However the stream is cut, an answer that is not the answer to its request is the
\* last of its side: what is left of a frame taken too soon begins with no number,
\* so the next obtain that finds its end throws.
WrongIsLast ==
  /\ \A i \in DOMAIN replied : replied[i] # i => i = Len(replied)
  /\ \A i \in DOMAIN printed : printed[i] # i => i = Len(printed)

Frames(texts, from, to) ==
  FlattenSeq([i \in 1..(to - from + 1) |-> Frame(texts[from + i - 1])])

\* On a stream that keeps the heads of the frames together the client prints the
\* answers to its own requests, in their order; and what a side has received and not
\* yet consumed, with what is under way to it, is exactly the frames it has still to
\* take, from the first byte of the first.
RightAnswers ==
  whole =>
  /\ \A i \in DOMAIN printed : printed[i] = i
  /\ server \in {"recv", "check"} => sbuf \o c2s = Frames(Requests, Len(replied) + 1, asked)
  /\ cbuf \o s2c = Frames(Answers, Len(printed) + 1, Len(replied))

\* The comment over obtain lists the contents its buffer may have, <number>\r\n among
\* them: a frame that has not arrived whole is not taken for a request.
OnlyWholeFrames == \A i \in DOMAIN replied : replied[i] # Garbage

\* On such a stream every request is answered, unless it or one before it divides by
\* zero.
EveryAnswer ==
  \A q \in 1..MaxRequests :
    (\A z \in DivZero : z > q) => (whole /\ asked >= q ~> Len(printed) >= q)
=============================================================================
