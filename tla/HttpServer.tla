----------------------------- MODULE HttpServer -----------------------------
(***************************************************************************)
(* One connection of MyHTTP_1.0: a client (CommonTCPTestClient) sends one  *)
(* request and receives once; the process that TcpServer::run forked for   *)
(* it runs HttpServer::run, which obtains the request, checks it, routes   *)
(* it and delivers a response.                                             *)
(*                                                                         *)
(* A request is a message of the format at the top of HTTPObj.hpp. Its     *)
(* bytes are positions: the head, with the empty line, is 1..HeadBytes and *)
(* the data follow. buff_ is always an interval of positions, so a count   *)
(* of bytes, got, stands for it.                                           *)
(***************************************************************************)
EXTENDS Integers, FiniteSets

CONSTANTS
  HeadBytes,  \* the bytes of a head; the last two are the empty line
  MaxData,    \* bound: the bytes of data in a request
  Target,     \* the request targets
  Dotted,     \* those with a dot in them
  Site        \* the paths under webroot that can be read

ASSUME HttpAssumption ==
  /\ HeadBytes \in Nat /\ HeadBytes >= 4
  /\ MaxData \in Nat
  /\ Dotted \subseteq Target

\* words: how many of method, target and version the request line has.
\* header: whether it has header lines, and whether each has a ": ".
\* empty: whether the empty line ever comes.
\* length: no Content-Length, "0", a number declared in other words, no number at
\* all, or a negative one.
Message ==
  {m \in [words : 1..3, method : {"GET", "POST", "PUT"}, target : Target,
          header : {"no", "lines", "malformed"}, empty : BOOLEAN,
          length : {"absent", "zero", "number", "bad", "negative"},
          declared : 0..(MaxData + 2), data : 0..MaxData] :
     /\ m.header = "no" => m.length = "absent"
     /\ m.header = "malformed" => m.length = "absent"
     /\ m.length # "number" => m.declared = 0}

VARIABLES
  message,   \* the request that the client sends
  sent,      \* the bytes of it the client has sent
  client,    \* start, open, left (it has closed without an answer), done or gone (exit)
  got,       \* the bytes of it that Socket::recv has appended to buff_
  parsed,    \* whether the request line and the header are in the HTTPReqObj
  data,      \* data_: the positions deserialize_data takes
  server,    \* none (not forked), head and length (the loops of obtain), check, route,
             \* deliver, done, or dead
  response,  \* the code of the response made, 0 for none
  delivered, \* that of the response sent
  received   \* that of the response the client receives and prints

clientVars == <<message, sent, client, received>>
serverVars == <<got, parsed, data, server, response, delivered>>
vars == <<clientVars, serverVars>>

ClientInit == message \in Message /\ sent = 0 /\ client = "start" /\ received = 0

ServerInit ==
  /\ got = 0 /\ parsed = FALSE /\ data = {}
  /\ server = "none" /\ response = 0 /\ delivered = 0

Init == ClientInit /\ ServerInit

-----------------------------------------------------------------------------
(* The client                                                              *)

Total == HeadBytes + message.data

\* get_socket. The server forks the process that serves the connection; when socket or
\* connect fails the client exits.
Connect ==
  /\ client = "start"
  /\ \/ client' = "open" /\ server' = "head"
     \/ client' = "gone" /\ UNCHANGED server
  /\ UNCHANGED <<message, sent, received, got, parsed, data, response, delivered>>

\* The request arrives in one piece or in several.
Send ==
  /\ client = "open"
  /\ sent' \in (sent + 1)..Total
  /\ UNCHANGED <<message, client, received, serverVars>>

\* The client's one recv: the response, or nothing where the server has closed. The
\* server closes its socket with bytes unread: the connection is reset, recv fails and
\* exits, and a response that was on its way is lost.
Receive ==
  /\ client = "open" /\ sent = Total
  /\ \/ delivered # 0 /\ received' = delivered /\ client' = "done"
     \/ delivered = 0 /\ server \in {"done", "dead"} /\ client' = "done" /\ UNCHANGED received
     \/ server \in {"done", "dead"} /\ got < sent /\ client' = "gone" /\ UNCHANGED received
  /\ UNCHANGED <<message, sent, serverVars>>

\* A client that does not wait
Leave ==
  /\ client = "open"
  /\ client' = "left"
  /\ UNCHANGED <<message, sent, received, serverVars>>

-----------------------------------------------------------------------------
(* HttpMessageCodec::obtain                                                *)

\* buff_ holds "\r\n\r\n"; mutant: the search misses one at the end of buff_.
HeadEnds_Late(n) == message.empty /\ n > HeadBytes
HeadEnds(n) == message.empty /\ n >= HeadBytes

\* stoi, and the cast to unsigned long: a negative length is beyond every buffer.
Declared == IF message.length = "negative" THEN Total + 3 ELSE message.declared

\* buff_ is in front of the data by what erase left of the head, the empty line.
\* data_len positions are taken of it, less the two that deserialize_data erases.
Waiting == got - (HeadBytes - 2)
Taken == (HeadBytes + 1)..(HeadBytes - 2 + Declared)

\* deserialize_req_line and deserialize_header, for a whole head. With no header
\* lines or no length, or "0", obtain returns; with a malformed line, exit; stoi of
\* no number throws and main exits.
Parse ==
  /\ parsed' = TRUE
  /\ server' = IF message.header = "malformed" \/ message.length = "bad" THEN "dead"
               ELSE IF message.length \in {"absent", "zero"} THEN "check"
               ELSE "length"

\* The loop to the end of the head: it receives, then looks at buff_.
ReadHead ==
  /\ server = "head"
  /\ got < sent
  /\ got' \in (got + 1)..sent
  /\ IF HeadEnds(got') THEN Parse ELSE UNCHANGED <<parsed, server>>
  /\ UNCHANGED <<clientVars, data, response, delivered>>

\* The loop to the end of the data: it looks at the length of buff_, then receives.
TakeData ==
  /\ server = "length"
  /\ Waiting >= Declared
  /\ data' = Taken
  /\ server' = "check"
  /\ UNCHANGED <<clientVars, got, parsed, response, delivered>>

ReadData ==
  /\ server = "length"
  /\ Waiting < Declared
  /\ got < sent
  /\ got' \in (got + 1)..sent
  /\ UNCHANGED <<clientVars, parsed, data, server, response, delivered>>

\* recv in either loop once the client has closed: it returns false and so does
\* obtain, which HttpConnection::obtain ignores; or read fails and it exits.
ReadEnd ==
  /\ \/ server = "head"
     \/ server = "length" /\ Waiting < Declared
  /\ client = "left"
  /\ \/ got = sent /\ server' = "check"
     \/ server' = "dead"
  /\ UNCHANGED <<clientVars, got, parsed, data, response, delivered>>

-----------------------------------------------------------------------------
(* HttpConnection::obtain and deliver, HttpRouter::routing                 *)

\* check_get and check_post: the length the header declares against the data.
\* Mutant: the lengths are not compared.
LengthOk_Unchecked == TRUE
LengthOk == message.length \in {"absent", "zero"} \/ Cardinality(data) = Declared

\* req_check; where the head was never parsed the request has no target
ReqErr == {"REQ_METHOD_UNKNOWN", "REQ_OK", "REQ_LENGTH_ERR", "REQ_LENGTH_NOT_FOUND",
           "REQ_PATH_ERR", "REQ_VERSION_ERR"}
ReqCheck ==
  IF ~parsed \/ message.words < 2 THEN "REQ_PATH_ERR"
  ELSE IF message.words < 3 THEN "REQ_VERSION_ERR"
  ELSE IF message.method = "PUT" THEN "REQ_METHOD_UNKNOWN"
  ELSE IF message.method = "POST" /\ message.length = "absent" THEN "REQ_LENGTH_NOT_FOUND"
  ELSE IF ~LengthOk THEN "REQ_LENGTH_ERR"
  ELSE "REQ_OK"

\* Every other error has delivered res_for_bad_req.
Refused == ReqErr \ {"REQ_OK", "REQ_METHOD_UNKNOWN"}
BadRequest == 400

\* obtain, and run, which goes on with a request that is in order only
Check ==
  /\ server = "check"
  /\ \/ ReqCheck = "REQ_OK" /\ server' = "route" /\ UNCHANGED response
     \/ ReqCheck = "REQ_METHOD_UNKNOWN" /\ server' = "done" /\ UNCHANGED response
     \/ ReqCheck \in Refused /\ server' = "deliver" /\ response' = BadRequest
  /\ UNCHANGED <<clientVars, got, parsed, data, delivered>>

\* routing: the static file of the target, or 404.html. No route is ever added.
ReadFile(path) == path \in Site
GetFileExten(path) == path \in Dotted
Found ==
  \/ message.target = "/" /\ ReadFile("/index.html")
  \/ GetFileExten(message.target) /\ ReadFile(message.target)

Route ==
  /\ server = "route"
  /\ response' = IF Found THEN 200 ELSE 404
  /\ server' = "deliver"
  /\ UNCHANGED <<clientVars, got, parsed, data, delivered>>

\* The codec's deliver: serialize and send, which fails when the client has left.
CodecDeliver ==
  \/ delivered' = response
  \/ client = "left" /\ UNCHANGED delivered

\* The responses made here pass the tests of deliver. Nobody looks at its result, and
\* the socket is closed.
Deliver ==
  /\ server = "deliver"
  /\ CodecDeliver
  /\ server' = "done"
  /\ UNCHANGED <<clientVars, got, parsed, data, response>>

ClientStep == Connect \/ Send \/ Receive \/ Leave
ServerStep == ReadHead \/ TakeData \/ ReadData \/ ReadEnd \/ Check \/ Route \/ Deliver

Next == ClientStep \/ ServerStep

Spec == Init /\ [][Next]_vars

\* The process that serves the connection runs, and a read returns what has come, on
\* either side.
Fairness == WF_vars(ServerStep) /\ WF_vars(Receive)

FairSpec == Spec /\ Fairness

-----------------------------------------------------------------------------
(* Properties                                                              *)

TypeOK ==
  /\ message \in Message
  /\ client \in {"start", "open", "left", "done", "gone"}
  /\ got \in 0..sent /\ sent \in 0..Total
  /\ parsed \in BOOLEAN
  /\ data \subseteq 1..got
  /\ server \in {"none", "head", "length", "check", "route", "deliver", "done", "dead"}
  /\ {response, delivered, received} \subseteq {0, 200, 400, 404}

\* The head has come, and as much data as its Content-Length declares.
Whole == parsed /\ (message.length # "absent" => got >= HeadBytes + Declared)

\* HttpConnection::obtain goes on with the request where the codec's obtain has given
\* up on it. A request that is routed has nevertheless come whole.
OnlyWholeRouted == response \in {200, 404} => Whole

\* What a request without data is owed: its page, or word that there is none, or that
\* it is no request.
Owed ==
  IF message.words < 3 \/ (message.method = "POST" /\ message.length = "absent")
  THEN 400
  ELSE IF Found THEN 200 ELSE 404

\* In whatever pieces such a request comes, its client prints that one response, unless
\* it does not wait. (With bytes behind the request the connection may be reset first.)
EveryRequest ==
  (/\ sent = Total /\ message.empty /\ message.data = 0
   /\ message.header # "malformed"
   /\ message.length \in {"absent", "zero", "number"} /\ message.declared = 0
   /\ message.method # "PUT" \/ message.words < 3)
    ~> received = Owed \/ client = "left"

\* The format in HTTPObj.hpp: the data follow the empty line. A request whose
\* Content-Length is the length of its data is obtained with those data.
DataFollowEmptyLine ==
  (/\ server = "check" /\ client = "open"
   /\ message.length = "number" /\ message.declared = message.data)
    => data = (HeadBytes + 1)..Total
=============================================================================
