-------------------------- MODULE HttpServerProofs --------------------------
(***************************************************************************)
(* Proofs about the servers that answer what one read brings them.         *)
(*   HttpServer, for heads and data of any length: the state has its types *)
(*     and only a request that has come whole is routed.                   *)
(*   UdpEcho, for any clients, lines and mishaps: an answer is that to the *)
(*     line before it, and clients do not get further out of step.         *)
(*   LineServer, for buffers and lines of any length: the answers come in  *)
(*     step and whole, or a read was cut or a line too long.               *)
(***************************************************************************)
EXTENDS MCHttpServer, FiniteSetTheorems, SequenceTheorems, SequenceLemmas, TLAPS

\* The data are none, or what was taken of a buffer long enough.
DataTaken == data = {} \/ (data = Taken /\ Waiting >= Declared)

\* A head that is parsed has been received.
HeadCame == parsed => got >= HeadBytes

\* A request that is about to be routed has come whole.
RoutingWhole == server = "route" => Whole

Inv == TypeOK /\ DataTaken /\ HeadCame /\ RoutingWhole /\ OnlyWholeRouted

\* What the fields of a request may hold, and the lengths that follow from them.
LEMMA Fields ==
  ASSUME message \in Message
  PROVE  /\ message.declared \in Nat /\ message.data \in Nat
         /\ message.length \in {"absent", "zero", "number", "bad", "negative"}
         /\ message.length # "number" => message.declared = 0
         /\ Total \in Nat /\ Declared \in Nat
         /\ message.length = "negative" => Declared > Total
         /\ message.length # "negative" => Declared = message.declared
  BY HttpAssumption DEF Message, Total, Declared

\* Data are never as long as the Content-Length says, unless it says zero: obtain
\* counts the empty line among them.
LEMMA LengthsDiffer ==
  ASSUME Inv, Cardinality(data) = Declared
  PROVE  Declared = 0
<1>1. Declared \in Nat
  BY Fields DEF Inv, TypeOK
<1>2. CASE data = {}
  BY <1>2, FS_EmptySet
<1>3. CASE data = Taken
  <2> DEFINE a == HeadBytes + 1
             b == HeadBytes - 2 + Declared
  <2>1. a \in Int /\ b \in Int
    BY <1>1, HttpAssumption
  <2>2. Cardinality(a..b) = IF a > b THEN 0 ELSE b - a + 1
    BY <2>1, FS_Interval
  <2>3. data = a..b
    BY <1>3 DEF Taken
  <2> QED
    BY <1>1, <2>1, <2>2, <2>3, HttpAssumption
<1> QED
  BY <1>2, <1>3 DEF Inv, DataTaken

LEMMA InitInv == Init => Inv
<1> SUFFICES ASSUME Init PROVE Inv
  OBVIOUS
<1> USE DEF Init, ClientInit, ServerInit
<1>1. message \in Message /\ Total \in Nat
  BY Fields
<1>2. TypeOK
  <2>1. got = 0 /\ sent = 0 /\ data = {}
    OBVIOUS
  <2>2. got \in 0..sent /\ sent \in 0..Total /\ data \subseteq 1..got
    BY <1>1, <2>1
  <2> QED
    BY <1>1, <2>2 DEF TypeOK
<1> QED
  BY <1>2 DEF Inv, DataTaken, HeadCame, RoutingWhole, OnlyWholeRouted

\* A step that leaves the request alone leaves what is computed from it alone.
LEMMA SameMessage ==
  ASSUME message' = message
  PROVE  Total' = Total /\ Declared' = Declared /\ Taken' = Taken
  BY DEF Total, Declared, Taken

LEMMA Arithmetic ==
  ASSUME NEW m \in Nat, NEW n \in Nat, NEW h \in Nat, n > m
  PROVE  n - (h - 2) > m - (h - 2) /\ m - (h - 2) \in Int /\ n - (h - 2) \in Int
OBVIOUS

\* What is received adds to what waits in buff_.
LEMMA Grows ==
  ASSUME got \in Nat, got' \in Nat, got' > got
  PROVE  Waiting' > Waiting /\ Waiting \in Int /\ Waiting' \in Int
  BY Arithmetic, HttpAssumption DEF Waiting

LEMMA NextInv == Inv /\ [Next]_vars => Inv'
<1> SUFFICES ASSUME Inv, [Next]_vars PROVE Inv'
  OBVIOUS
<1> USE HttpAssumption
<1>0. /\ message \in Message /\ Total \in Nat /\ Declared \in Nat
      /\ got \in 0..sent /\ sent \in 0..Total /\ HeadBytes \in Nat
  BY Fields DEF Inv, TypeOK
<1>1. CASE Connect
  <2>1. Total' = Total /\ Declared' = Declared /\ Taken' = Taken
    BY <1>1, SameMessage DEF Connect, clientVars
  <2> QED
    BY <1>0, <1>1, <2>1
    DEF Inv, Connect, clientVars, serverVars, TypeOK, DataTaken, HeadCame, RoutingWhole,
        OnlyWholeRouted, Whole, Waiting
<1>2. CASE Send
  <2>1. Total' = Total /\ Declared' = Declared /\ Taken' = Taken
    BY <1>2, SameMessage DEF Send, clientVars
  <2> QED
    BY <1>0, <1>2, <2>1
    DEF Inv, Send, clientVars, serverVars, TypeOK, DataTaken, HeadCame, RoutingWhole,
        OnlyWholeRouted, Whole, Waiting
<1>3. CASE Receive
  <2>1. Total' = Total /\ Declared' = Declared /\ Taken' = Taken
    BY <1>3, SameMessage DEF Receive, clientVars
  <2> QED
    BY <1>0, <1>3, <2>1
    DEF Inv, Receive, clientVars, serverVars, TypeOK, DataTaken, HeadCame, RoutingWhole,
        OnlyWholeRouted, Whole, Waiting
<1>4. CASE Leave
  <2>1. Total' = Total /\ Declared' = Declared /\ Taken' = Taken
    BY <1>4, SameMessage DEF Leave, clientVars
  <2> QED
    BY <1>0, <1>4, <2>1
    DEF Inv, Leave, clientVars, serverVars, TypeOK, DataTaken, HeadCame, RoutingWhole,
        OnlyWholeRouted, Whole, Waiting
<1>5. CASE ReadHead
  <2>1. Total' = Total /\ Declared' = Declared /\ Taken' = Taken
    BY <1>5, SameMessage DEF ReadHead, clientVars
  <2>2. got' > got /\ got' \in 0..sent /\ got \in Nat /\ got' \in Nat /\ sent' = sent /\ data' = data
    BY <1>0, <1>5 DEF ReadHead, clientVars
  <2>3. parsed' \in BOOLEAN /\ (parsed' => parsed \/ got' >= HeadBytes)
    <3>1. CASE HeadEnds(got')
      <4>1. parsed' = TRUE /\ got' >= HeadBytes
        BY <1>5, <3>1, Zenon DEF ReadHead, Parse, HeadEnds
      <4> QED
        BY <4>1
    <3>2. CASE ~HeadEnds(got')
      <4>1. parsed' = parsed /\ parsed \in BOOLEAN
        BY <1>5, <3>2, Zenon DEF ReadHead, Inv, TypeOK
      <4> QED
        BY <4>1
    <3> QED
      BY <3>1, <3>2
  <2>4. server' \in {"head", "length", "check", "dead"}
    BY <1>5 DEF ReadHead, clientVars, Parse, Inv, TypeOK
  <2>5. TypeOK'
    BY <1>0, <1>5, <2>1, <2>2, <2>3, <2>4 DEF ReadHead, clientVars, Inv, TypeOK
  <2>6. DataTaken' /\ HeadCame'
    <3>1. Waiting' > Waiting /\ Waiting \in Int /\ Waiting' \in Int
      BY <1>0, <2>2, Grows
    <3>2. DataTaken'
      BY <1>0, <2>1, <2>2, <3>1 DEF Inv, DataTaken
    <3> QED
      BY <1>0, <2>2, <2>3, <3>2 DEF Inv, HeadCame
  <2>7. RoutingWhole' /\ OnlyWholeRouted'
    BY <1>0, <1>5, <2>1, <2>2
    DEF ReadHead, clientVars, Parse, Inv, RoutingWhole, OnlyWholeRouted, Whole
  <2> QED
    BY <2>5, <2>6, <2>7 DEF Inv
<1>6. CASE TakeData
  <2>1. Total' = Total /\ Declared' = Declared /\ Taken' = Taken
    BY <1>6, SameMessage DEF TakeData, clientVars
  <2>2. data' = Taken /\ Waiting >= Declared /\ Waiting' = Waiting
    BY <1>6 DEF TakeData, clientVars, Waiting
  <2>3. Taken \subseteq 1..got
    BY <1>0, <2>2 DEF Taken, Waiting
  <2> QED
    BY <1>0, <1>6, <2>1, <2>2, <2>3
    DEF Inv, TakeData, clientVars, TypeOK, DataTaken, HeadCame, RoutingWhole,
        OnlyWholeRouted, Whole
<1>7. CASE ReadData
  <2>1. Total' = Total /\ Declared' = Declared /\ Taken' = Taken
    BY <1>7, SameMessage DEF ReadData, clientVars
  <2>2. got' > got /\ got' \in 0..sent /\ got \in Nat /\ got' \in Nat /\ sent' = sent /\ data' = data
    BY <1>0, <1>7 DEF ReadData, clientVars
  <2>3. TypeOK'
    BY <1>0, <1>7, <2>1, <2>2 DEF Inv, ReadData, clientVars, TypeOK
  <2>4. DataTaken'
    <3>1. Waiting' > Waiting /\ Waiting \in Int /\ Waiting' \in Int
      BY <1>0, <2>2, Grows
    <3> QED
      BY <1>0, <2>1, <2>2, <3>1 DEF Inv, DataTaken
  <2>5. HeadCame' /\ RoutingWhole' /\ OnlyWholeRouted'
    BY <1>0, <1>7, <2>1, <2>2 DEF Inv, ReadData, clientVars, HeadCame, RoutingWhole,
        OnlyWholeRouted, Whole
  <2> QED
    BY <2>3, <2>4, <2>5 DEF Inv
<1>8. CASE ReadEnd
  <2>1. Total' = Total /\ Declared' = Declared /\ Taken' = Taken
    BY <1>8, SameMessage DEF ReadEnd, clientVars
  <2> QED
    BY <1>0, <1>8, <2>1
    DEF Inv, ReadEnd, clientVars, TypeOK, DataTaken, HeadCame, RoutingWhole,
        OnlyWholeRouted, Whole, Waiting
<1>9. CASE Check
  <2>1. Total' = Total /\ Declared' = Declared /\ Taken' = Taken
    BY <1>9, SameMessage DEF Check, clientVars
  <2>2. ASSUME ReqCheck = "REQ_OK"
        PROVE  Whole
    <3>1. parsed /\ LengthOk
      BY <2>2 DEF ReqCheck
    <3>2. CASE message.length \in {"absent", "zero"}
      BY <1>0, <3>1, <3>2, Fields DEF Inv, HeadCame, Whole
    <3>3. CASE Cardinality(data) = Declared
      BY <1>0, <3>1, <3>3, LengthsDiffer DEF Inv, HeadCame, Whole
    <3> QED
      BY <3>1, <3>2, <3>3 DEF LengthOk
  <2>3. RoutingWhole'
    BY <1>9, <2>1, <2>2 DEF Check, clientVars, RoutingWhole, Whole, Refused
  <2>4. OnlyWholeRouted'
    BY <1>9, <2>1 DEF Inv, Check, clientVars, OnlyWholeRouted, Whole, BadRequest
  <2> QED
    BY <1>0, <1>9, <2>1, <2>3, <2>4
    DEF Inv, Check, clientVars, BadRequest, TypeOK, DataTaken, HeadCame, Waiting
<1>10. CASE Route
  <2>1. Total' = Total /\ Declared' = Declared /\ Taken' = Taken
    BY <1>10, SameMessage DEF Route, clientVars
  <2>2. OnlyWholeRouted' /\ RoutingWhole'
    BY <1>10, <2>1 DEF Inv, Route, clientVars, RoutingWhole, OnlyWholeRouted, Whole
  <2> QED
    BY <1>0, <1>10, <2>1, <2>2
    DEF Inv, Route, clientVars, TypeOK, DataTaken, HeadCame, Waiting
<1>11. CASE Deliver
  <2>1. Total' = Total /\ Declared' = Declared /\ Taken' = Taken
    BY <1>11, SameMessage DEF Deliver, clientVars
  <2> QED
    BY <1>0, <1>11, <2>1
    DEF Inv, Deliver, CodecDeliver, clientVars, TypeOK, DataTaken, HeadCame, RoutingWhole,
        OnlyWholeRouted, Whole, Waiting
<1>12. CASE UNCHANGED vars
  <2>1. Total' = Total /\ Declared' = Declared /\ Taken' = Taken
    BY <1>12, SameMessage DEF vars, clientVars
  <2> QED
    BY <1>12, <2>1
    DEF Inv, vars, clientVars, serverVars, TypeOK, DataTaken, HeadCame, RoutingWhole,
        OnlyWholeRouted, Whole, Waiting
<1> QED
  BY <1>1, <1>2, <1>3, <1>4, <1>5, <1>6, <1>7, <1>8, <1>9, <1>10, <1>11, <1>12
  DEF Next, ClientStep, ServerStep

\* In every state the variables have their types: data_ in particular holds only what
\* has been received, and the length of buff_ stays within the request.
THEOREM TypeCorrect == Spec => []TypeOK
<1>1. Inv => TypeOK
  BY DEF Inv
<1> QED
  BY <1>1, InitInv, NextInv, PTL DEF Spec

\* A request is routed only when its head and the data it declares have come, although
\* HttpConnection::obtain ignores that the codec's obtain failed.
THEOREM RoutesWholeRequests == Spec => []OnlyWholeRouted
<1>1. Inv => OnlyWholeRouted
  BY DEF Inv
<1> QED
  BY <1>1, InitInv, NextInv, PTL DEF Spec

-----------------------------------------------------------------------------
(* UdpEcho                                                                   *)

\* The datagrams of a client among those under way to and from the server.
UpOf(datagrams, c) == {d \in datagrams : d.from = c}
DownOf(datagrams, c) == {d \in datagrams : d.to = c}
Pending(c) == IF cpc[c] \in {"send", "receive", "print"} THEN 1 ELSE 0
LastAsked(c) == asked[c][Len(asked[c])]

EchoTypes ==
  /\ Echo!TypeOK
  /\ IsFiniteSet(asking) /\ IsFiniteSet(answers)
  /\ \A c \in Client :
       /\ Len(asked[c]) <= MaxAsked
       /\ Len(asked[c]) = Len(printed[c]) + Pending(c)
       /\ cpc[c] = "init" => asked[c] = <<>>

\* No more datagrams of a client are under way than it waits for, and mishaps.
SurplusInv ==
  \A c \in Client :
    Cardinality(UpOf(asking, c)) + Cardinality(DownOf(answers, c)) <= Echo!Expected(c) + mishaps

\* Without a mishap what is under way belongs to the line that was read last.
LastLineInv ==
  mishaps = 0 =>
    \A c \in Client : is_init_of[c] =>
      /\ cpc[c] = "receive" =>
           /\ \A d \in UpOf(asking, c) : d.q = LastAsked(c)
           /\ \A d \in DownOf(answers, c) : d.msg = Echo!Func(LastAsked(c))
      /\ cpc[c] = "print" => output_buf[c] = Echo!Func(LastAsked(c))

EchoInv == EchoTypes /\ SurplusInv /\ LastLineInv /\ Echo!InStep

LEMMA EchoFacts ==
  /\ MaxAsked \in Nat /\ MaxOdd \in Nat
  /\ Lines!LineAssumption
  BY ProgramsAssumption DEF Echo!EchoAssumption

\* What a datagram more or less makes of the number of those under way.
LEMMA OneMoreOrLess ==
  ASSUME NEW T, IsFiniteSet(T), NEW d
  PROVE  /\ Cardinality(T) \in Nat /\ (Cardinality(T) = 0 <=> T = {})
         /\ Cardinality(T \ {d}) \in Nat /\ Cardinality(T \ {d}) <= Cardinality(T)
         /\ d \in T => Cardinality(T \ {d}) = Cardinality(T) - 1
         /\ Cardinality(T \cup {d}) \in Nat /\ Cardinality(T \cup {d}) <= Cardinality(T) + 1
         /\ Cardinality(T) <= Cardinality(T) + 1
  <1>1. Cardinality(T) \in Nat /\ (Cardinality(T) = 0 <=> T = {})
    BY FS_CardinalityType, FS_EmptySet
  <1>2. Cardinality(T \ {d}) \in Nat /\ Cardinality(T \cup {d}) \in Nat
    BY FS_AddElement, FS_RemoveElement, FS_CardinalityType
  <1>3. CASE d \in T
    <2>1. Cardinality(T \ {d}) = Cardinality(T) - 1 /\ Cardinality(T \cup {d}) = Cardinality(T)
      BY <1>3, FS_AddElement, FS_RemoveElement
    <2> QED BY <1>1, <1>2, <2>1
  <1>4. CASE d \notin T
    <2>1. Cardinality(T \ {d}) = Cardinality(T) /\ Cardinality(T \cup {d}) = Cardinality(T) + 1
      BY <1>4, FS_AddElement, FS_RemoveElement
    <2> QED BY <1>1, <1>2, <1>4, <2>1
  <1> QED BY <1>3, <1>4

LEMMA Ups ==
  ASSUME NEW S, IsFiniteSet(S), NEW d, NEW c
  PROVE  /\ Cardinality(UpOf(S, c)) \in Nat
         /\ Cardinality(UpOf(S, c)) = 0 <=> UpOf(S, c) = {}
         /\ IsFiniteSet(S \ {d}) /\ IsFiniteSet(S \cup {d})
         /\ Cardinality(UpOf(S \ {d}, c)) \in Nat
         /\ Cardinality(UpOf(S \ {d}, c)) <= Cardinality(UpOf(S, c))
         /\ d \in S /\ d.from = c => Cardinality(UpOf(S \ {d}, c)) = Cardinality(UpOf(S, c)) - 1
         /\ Cardinality(UpOf(S \cup {d}, c)) \in Nat
         /\ Cardinality(UpOf(S \cup {d}, c)) <= Cardinality(UpOf(S, c)) + 1
         /\ d.from # c => UpOf(S \cup {d}, c) = UpOf(S, c)
  <1>1. UpOf(S, c) \subseteq S
    BY DEF UpOf
  <1>2. IsFiniteSet(UpOf(S, c))
    BY <1>1, FS_Subset
  <1>3. UpOf(S \ {d}, c) = UpOf(S, c) \ {d}
    BY DEF UpOf
  <1>4. d.from = c => UpOf(S \cup {d}, c) = UpOf(S, c) \cup {d}
    BY DEF UpOf
  <1>5. d.from # c => UpOf(S \cup {d}, c) = UpOf(S, c)
    BY DEF UpOf
  <1>6. d \in S /\ d.from = c => d \in UpOf(S, c)
    BY DEF UpOf
  <1>7. IsFiniteSet(S \ {d}) /\ IsFiniteSet(S \cup {d})
    BY FS_AddElement, FS_RemoveElement
  <1>8. PICK T : T = UpOf(S, c)
    OBVIOUS
  <1>9. /\ Cardinality(T) \in Nat /\ (Cardinality(T) = 0 <=> T = {})
        /\ Cardinality(T \ {d}) \in Nat /\ Cardinality(T \ {d}) <= Cardinality(T)
        /\ d \in T => Cardinality(T \ {d}) = Cardinality(T) - 1
        /\ Cardinality(T \cup {d}) \in Nat /\ Cardinality(T \cup {d}) <= Cardinality(T) + 1
        /\ Cardinality(T) <= Cardinality(T) + 1
    BY <1>2, <1>8, OneMoreOrLess
  <1> QED BY <1>3, <1>4, <1>5, <1>6, <1>7, <1>8, <1>9, Zenon

LEMMA Downs ==
  ASSUME NEW S, IsFiniteSet(S), NEW d, NEW c
  PROVE  /\ Cardinality(DownOf(S, c)) \in Nat
         /\ Cardinality(DownOf(S, c)) = 0 <=> DownOf(S, c) = {}
         /\ IsFiniteSet(S \ {d}) /\ IsFiniteSet(S \cup {d})
         /\ Cardinality(DownOf(S \ {d}, c)) \in Nat
         /\ Cardinality(DownOf(S \ {d}, c)) <= Cardinality(DownOf(S, c))
         /\ d \in S /\ d.to = c => Cardinality(DownOf(S \ {d}, c)) = Cardinality(DownOf(S, c)) - 1
         /\ Cardinality(DownOf(S \cup {d}, c)) \in Nat
         /\ Cardinality(DownOf(S \cup {d}, c)) <= Cardinality(DownOf(S, c)) + 1
         /\ d.to # c => DownOf(S \cup {d}, c) = DownOf(S, c)
  <1>1. DownOf(S, c) \subseteq S
    BY DEF DownOf
  <1>2. IsFiniteSet(DownOf(S, c))
    BY <1>1, FS_Subset
  <1>3. DownOf(S \ {d}, c) = DownOf(S, c) \ {d}
    BY DEF DownOf
  <1>4. d.to = c => DownOf(S \cup {d}, c) = DownOf(S, c) \cup {d}
    BY DEF DownOf
  <1>5. d.to # c => DownOf(S \cup {d}, c) = DownOf(S, c)
    BY DEF DownOf
  <1>6. d \in S /\ d.to = c => d \in DownOf(S, c)
    BY DEF DownOf
  <1>7. IsFiniteSet(S \ {d}) /\ IsFiniteSet(S \cup {d})
    BY FS_AddElement, FS_RemoveElement
  <1>8. PICK T : T = DownOf(S, c)
    OBVIOUS
  <1>9. /\ Cardinality(T) \in Nat /\ (Cardinality(T) = 0 <=> T = {})
        /\ Cardinality(T \ {d}) \in Nat /\ Cardinality(T \ {d}) <= Cardinality(T)
        /\ d \in T => Cardinality(T \ {d}) = Cardinality(T) - 1
        /\ Cardinality(T \cup {d}) \in Nat /\ Cardinality(T \cup {d}) <= Cardinality(T) + 1
        /\ Cardinality(T) <= Cardinality(T) + 1
    BY <1>2, <1>8, OneMoreOrLess
  <1> QED BY <1>3, <1>4, <1>5, <1>6, <1>7, <1>8, <1>9, Zenon

LEMMA EchoInitInv == ASSUME Echo!Init PROVE EchoInv
  <1> USE EchoFacts DEF Echo!Init, Echo!ClientsInit
  <1>1. EchoTypes
    BY FS_EmptySet DEF EchoTypes, Echo!TypeOK, Pending, Echo!Answers, Echo!NoAnswer
  <1>2. \A c \in Client : UpOf(asking, c) = {} /\ DownOf(answers, c) = {}
    BY DEF UpOf, DownOf
  <1>3. SurplusInv
    <2> SUFFICES ASSUME NEW c \in Client
                 PROVE  Cardinality(UpOf(asking, c)) + Cardinality(DownOf(answers, c)) <= 0
      BY DEF SurplusInv, Echo!Expected
    <2>1. Cardinality(UpOf(asking, c)) = 0 /\ Cardinality(DownOf(answers, c)) = 0
      BY <1>2, FS_EmptySet, Zenon
    <2> QED BY <2>1
  <1>4. LastLineInv /\ Echo!InStep
    BY DEF LastLineInv, Echo!InStep
  <1> QED BY <1>1, <1>3, <1>4 DEF EchoInv

\* Without a mishap nothing is under way to or from a client that does not wait.
LEMMA NothingFlies ==
  ASSUME EchoTypes, SurplusInv, mishaps = 0, NEW c \in Client, cpc[c] # "receive"
  PROVE  UpOf(asking, c) = {} /\ DownOf(answers, c) = {}
  <1>1. Cardinality(UpOf(asking, c)) \in Nat /\ Cardinality(DownOf(answers, c)) \in Nat
    BY Ups, Downs DEF EchoTypes
  <1>2. Cardinality(UpOf(asking, c)) + Cardinality(DownOf(answers, c)) <= 0
    BY DEF SurplusInv, Echo!Expected
  <1>3. Cardinality(UpOf(asking, c)) = 0 /\ Cardinality(DownOf(answers, c)) = 0
    BY <1>1, <1>2
  <1> QED BY <1>3, Ups, Downs DEF EchoTypes

LEMMA ServeInv == ASSUME EchoInv, NEW d \in asking, Echo!Serve(d) PROVE EchoInv'
  <1> USE EchoFacts DEF Echo!Serve, Echo!cvars, EchoInv
  <1>1. PICK b : d = [from |-> d.from, n |-> d.n, q |-> d.q] /\ d.from \in Client
                 /\ d.q \in Echo!Questions /\ b = [to |-> d.from, msg |-> Echo!Func(d.q), id |-> answered']
    BY DEF EchoTypes, Echo!TypeOK
  <1>2. /\ asking' \in {asking, asking \ {d}} /\ IsFiniteSet(asking')
        /\ answers' \in {answers, answers \cup {b}} /\ IsFiniteSet(answers')
        /\ d.q = "empty" => answers' = answers
        /\ mishaps' \in {mishaps, mishaps + 1} /\ mishaps \in Nat
        /\ asking' # asking \ {d} => asking' = asking /\ mishaps' = mishaps + 1
    <2>1. IsFiniteSet(asking \ {d}) /\ IsFiniteSet(answers \cup {b})
          /\ IsFiniteSet(asking) /\ IsFiniteSet(answers)
      BY Ups, Downs DEF EchoTypes
    <2>2. \/ asking' = asking \ {d} /\ mishaps' = mishaps
          \/ asking' = asking /\ mishaps' = mishaps + 1
      BY DEF Echo!Mishap
    <2>3. IF d.q = "empty" THEN answers' = answers ELSE answers' = answers \cup {b}
      BY <1>1
    <2>4. mishaps \in Nat
      BY DEF EchoTypes, Echo!TypeOK
    <2> QED BY <2>1, <2>2, <2>3, <2>4, Zenon
  <1>3. EchoTypes'
    <2>1. Echo!Func(d.q) \in Echo!Answers
      BY DEF Echo!Func, Echo!Answers
    <2>2. answers' \subseteq [to : Client, msg : Echo!Answers, id : Nat] /\ answered' \in Nat
      BY <1>1, <1>2, <2>1 DEF EchoTypes, Echo!TypeOK
    <2> QED BY <1>2, <2>2 DEF EchoTypes, Echo!TypeOK, Echo!Mishap, Pending, Echo!AfterEmpty
  <1>4. ASSUME NEW c \in Client
        PROVE  Cardinality(UpOf(asking', c)) + Cardinality(DownOf(answers', c))
               <= Echo!Expected(c) + mishaps'
    <2> DEFINE u == Cardinality(UpOf(asking, c))
               v == Cardinality(DownOf(answers, c))
               up2 == Cardinality(UpOf(asking', c))
               v2 == Cardinality(DownOf(answers', c))
    <2>1. u \in Nat /\ v \in Nat /\ up2 \in Nat /\ v2 \in Nat
      BY <1>2, Ups, Downs DEF EchoTypes
    <2>2. u + v <= Echo!Expected(c) + mishaps /\ Echo!Expected(c) \in Nat
      BY DEF SurplusInv, Echo!Expected
    <2>3. /\ asking' = asking => up2 = u
          /\ asking' = asking \ {d} => up2 <= u /\ (d.from = c => up2 = u - 1)
      <3>1. Cardinality(UpOf(asking \ {d}, c)) <= u
        BY Ups DEF EchoTypes
      <3>2. d.from = c => Cardinality(UpOf(asking \ {d}, c)) = u - 1
        BY Ups DEF EchoTypes
      <3> QED BY <3>1, <3>2, Zenon
    <2>4. v2 <= v + 1 /\ (d.from # c => v2 = v)
      <3>1. b.to = d.from
        BY <1>1
      <3>2. CASE answers' = answers
        BY <2>1, <3>2
      <3>3. CASE answers' = answers \cup {b}
        BY <3>1, <3>3, Downs DEF EchoTypes
      <3> QED BY <1>2, <3>2, <3>3
    <2> HIDE DEF u, v, up2, v2
    <2>5. CASE asking' = asking /\ mishaps' = mishaps + 1
      <3>1. up2 + v2 <= Echo!Expected(c) + mishaps'
        BY <1>2, <2>1, <2>2, <2>3, <2>4, <2>5
      <3> QED BY <3>1 DEF up2, v2
    <2>6. CASE asking' = asking \ {d}
      <3>1. up2 + v2 <= u + v
        BY <2>1, <2>3, <2>4, <2>6
      <3>2. up2 + v2 <= Echo!Expected(c) + mishaps'
        BY <1>2, <2>1, <2>2, <3>1
      <3> QED BY <3>2 DEF up2, v2
    <2> QED BY <1>2, <2>5, <2>6
  <1>5. SurplusInv'
    BY <1>4 DEF SurplusInv, Echo!Expected
  <1>6. LastLineInv'
    <2> SUFFICES ASSUME mishaps' = 0, NEW c \in Client, is_init_of[c]
                 PROVE  /\ cpc[c] = "receive" =>
                             /\ \A e \in UpOf(asking', c) : e.q = LastAsked(c)
                             /\ \A e \in DownOf(answers', c) : e.msg = Echo!Func(LastAsked(c))
                        /\ cpc[c] = "print" => output_buf[c] = Echo!Func(LastAsked(c))
      BY DEF LastLineInv, LastAsked
    <2>1. mishaps = 0
      BY <1>2
    <2>2. CASE cpc[c] = "receive"
      <3>1. \A e \in UpOf(asking', c) : e \in UpOf(asking, c)
        BY <1>2 DEF UpOf
      <3>2. \A e \in DownOf(answers', c) : e \in DownOf(answers, c) \/ (e = b /\ d \in UpOf(asking, c))
        BY <1>1, <1>2 DEF UpOf, DownOf
      <3>3. b.msg = Echo!Func(d.q)
        BY <1>1
      <3> QED BY <2>1, <2>2, <3>1, <3>2, <3>3 DEF LastLineInv
    <2>3. CASE cpc[c] # "receive"
      BY <2>1, <2>3 DEF LastLineInv
    <2> QED BY <2>2, <2>3
  <1>7. Echo!InStep'
    BY <1>2 DEF Echo!InStep
  <1> QED BY <1>3, <1>5, <1>6, <1>7


LEMMA SendInv == ASSUME EchoInv, NEW c \in Client, Echo!Send(c) PROVE EchoInv'
  <1> USE EchoFacts DEF Echo!Send, Echo!Goto, EchoInv
  <1>0. /\ cpc[c] = "send" /\ asked[c] \in Seq(Echo!Questions) /\ Len(asked[c]) \in 1..MaxAsked
        /\ LastAsked(c) \in Echo!Questions
        /\ cpc' = [cpc EXCEPT ![c] = IF is_init_of[c] THEN "receive" ELSE "print"]
        /\ \A e \in Client : e # c => cpc'[e] = cpc[e]
        /\ mishaps \in Nat /\ mishaps' = mishaps
    BY DEF EchoTypes, Echo!TypeOK, Pending, LastAsked
  <1>1. PICK d : d = [from |-> c, n |-> Len(asked[c]), q |-> asked[c][Len(asked[c])]]
    OBVIOUS
  <1>2. d.from = c /\ d.q = LastAsked(c)
    BY <1>1 DEF LastAsked
  <1>3. asking' = IF is_init_of[c] THEN asking \cup {d} ELSE asking
    BY <1>1
  <1>4. EchoTypes'
    <2>1. asking' \subseteq [from : Client, n : 1..MaxAsked, q : Echo!Questions]
      BY <1>0, <1>1, <1>3 DEF EchoTypes, Echo!TypeOK, LastAsked
    <2>2. IsFiniteSet(asking')
      <3>1. IsFiniteSet(asking) /\ IsFiniteSet(asking \cup {d})
        BY Ups DEF EchoTypes
      <3> QED BY <1>3, <3>1, Zenon
    <2> QED BY <1>0, <2>1, <2>2 DEF EchoTypes, Echo!TypeOK, Pending
  <1>5. SurplusInv'
    <2> SUFFICES ASSUME NEW e \in Client
                 PROVE  Cardinality(UpOf(asking', e)) + Cardinality(DownOf(answers, e))
                        <= Echo!Expected(e)' + mishaps
      BY <1>0 DEF SurplusInv, Echo!Expected
    <2>1. /\ Cardinality(UpOf(asking, e)) \in Nat /\ Cardinality(DownOf(answers, e)) \in Nat
          /\ Cardinality(UpOf(asking', e)) \in Nat
          /\ Cardinality(UpOf(asking', e)) <= Cardinality(UpOf(asking, e)) + 1
          /\ e # c \/ ~is_init_of[c] => UpOf(asking', e) = UpOf(asking, e)
      <3>1. /\ Cardinality(UpOf(asking, e)) \in Nat /\ Cardinality(DownOf(answers, e)) \in Nat
            /\ Cardinality(UpOf(asking \cup {d}, e)) \in Nat
            /\ Cardinality(UpOf(asking \cup {d}, e)) <= Cardinality(UpOf(asking, e)) + 1
            /\ d.from # e => UpOf(asking \cup {d}, e) = UpOf(asking, e)
        BY Ups, Downs, Zenon DEF EchoTypes
      <3>2. Cardinality(UpOf(asking, e)) <= Cardinality(UpOf(asking, e)) + 1
        BY <3>1
      <3> QED BY <1>2, <1>3, <3>1, <3>2, Zenon
    <2>2. Cardinality(UpOf(asking, e)) + Cardinality(DownOf(answers, e)) <= Echo!Expected(e) + mishaps
      BY DEF SurplusInv
    <2>3. CASE e # c \/ ~is_init_of[c]
      <3>1. Echo!Expected(e)' = Echo!Expected(e)
        BY <1>0, <2>3 DEF Echo!Expected, EchoTypes, Echo!TypeOK
      <3> QED BY <2>1, <2>2, <2>3, <3>1
    <2>4. CASE e = c /\ is_init_of[c]
      <3>1. Echo!Expected(e)' = 1 /\ Echo!Expected(e) = 0
        BY <1>0, <2>4 DEF Echo!Expected, EchoTypes, Echo!TypeOK
      <3> QED BY <1>0, <2>1, <2>2, <2>4, <3>1
    <2> QED BY <2>3, <2>4
  <1>6. LastLineInv'
    <2> SUFFICES ASSUME mishaps = 0, NEW e \in Client, is_init_of[e]
                 PROVE  /\ cpc'[e] = "receive" =>
                             /\ \A x \in UpOf(asking', e) : x.q = LastAsked(e)
                             /\ \A x \in DownOf(answers, e) : x.msg = Echo!Func(LastAsked(e))
                        /\ cpc'[e] = "print" => output_buf[e] = Echo!Func(LastAsked(e))
      BY <1>0 DEF LastLineInv, LastAsked
    <2>1. CASE e # c
      <3>1. UpOf(asking', e) = UpOf(asking, e) /\ cpc'[e] = cpc[e]
        BY <1>0, <1>2, <1>3, <2>1 DEF UpOf
      <3> QED BY <3>1 DEF LastLineInv
    <2>2. CASE e = c
      <3>1. cpc'[e] = "receive"
        BY <1>0, <2>2 DEF EchoTypes, Echo!TypeOK
      <3>2. UpOf(asking, c) = {} /\ DownOf(answers, c) = {}
        BY <1>0, NothingFlies
      <3>3. UpOf(asking', c) \subseteq {d}
        BY <1>3, <3>2 DEF UpOf
      <3> QED BY <1>2, <2>2, <3>1, <3>2, <3>3
    <2> QED BY <2>1, <2>2
  <1>7. Echo!InStep'
    BY <1>0 DEF Echo!InStep, Echo!Func
  <1> QED BY <1>4, <1>5, <1>6, <1>7

LEMMA ReceiveInv ==
  ASSUME EchoInv, NEW c \in Client, NEW d \in answers, Echo!Receive(c, d)
  PROVE  EchoInv'
  <1> USE EchoFacts DEF Echo!Receive, Echo!Received, Echo!Goto, EchoInv
  <1>0. /\ cpc[c] = "receive" /\ d.to = c /\ d.msg \in Echo!Answers
        /\ cpc' = [cpc EXCEPT ![c] = "print"] /\ cpc'[c] = "print"
        /\ \A e \in Client : e # c => cpc'[e] = cpc[e]
        /\ output_buf'[c] = d.msg
        /\ \A e \in Client : e # c => output_buf'[e] = output_buf[e]
        /\ mishaps \in Nat
    BY DEF EchoTypes, Echo!TypeOK
  <1>1. \/ answers' = answers \ {d} /\ mishaps' = mishaps
        \/ answers' = answers /\ mishaps' = mishaps + 1
    BY DEF Echo!Mishap
  <1>2. EchoTypes'
    <2>1. IsFiniteSet(answers') /\ answers' \subseteq answers
      <3>1. IsFiniteSet(answers) /\ IsFiniteSet(answers \ {d})
        BY Downs DEF EchoTypes
      <3>2. answers \ {d} \subseteq answers
        OBVIOUS
      <3> QED BY <1>1, <3>1, <3>2, Zenon
    <2> QED BY <1>0, <2>1 DEF EchoTypes, Echo!TypeOK, Echo!Mishap, Pending
  <1>3. SurplusInv'
    <2> SUFFICES ASSUME NEW e \in Client
                 PROVE  Cardinality(UpOf(asking, e)) + Cardinality(DownOf(answers', e))
                        <= Echo!Expected(e)' + mishaps'
      BY DEF SurplusInv, Echo!Expected
    <2>1. /\ Cardinality(UpOf(asking, e)) \in Nat /\ Cardinality(DownOf(answers, e)) \in Nat
          /\ Cardinality(DownOf(answers', e)) \in Nat
          /\ mishaps' # mishaps + 1 =>
               /\ mishaps' = mishaps
               /\ Cardinality(DownOf(answers', e)) <= Cardinality(DownOf(answers, e))
               /\ e = c => Cardinality(DownOf(answers', e)) = Cardinality(DownOf(answers, e)) - 1
          /\ mishaps' = mishaps + 1 => Cardinality(DownOf(answers', e)) <= Cardinality(DownOf(answers, e))
      <3>1. /\ Cardinality(UpOf(asking, e)) \in Nat /\ Cardinality(DownOf(answers, e)) \in Nat
            /\ Cardinality(DownOf(answers \ {d}, e)) \in Nat
            /\ Cardinality(DownOf(answers \ {d}, e)) <= Cardinality(DownOf(answers, e))
        BY Ups, Downs, Zenon DEF EchoTypes
      <3>3. d.to = e => Cardinality(DownOf(answers \ {d}, e)) = Cardinality(DownOf(answers, e)) - 1
        BY Downs, ZenonT(30) DEF EchoTypes
      <3>2. Cardinality(DownOf(answers, e)) <= Cardinality(DownOf(answers, e))
        BY <3>1
      <3> QED BY <1>0, <1>1, <3>1, <3>2, <3>3, Zenon
    <2>2. Cardinality(UpOf(asking, e)) + Cardinality(DownOf(answers, e)) <= Echo!Expected(e) + mishaps
      BY DEF SurplusInv
    <2>3. CASE e # c
      <3>1. Echo!Expected(e)' = Echo!Expected(e) /\ Echo!Expected(e) \in Nat
        BY <1>0, <2>3 DEF Echo!Expected
      <3> QED BY <1>0, <2>1, <2>2, <3>1
    <2>4. CASE e = c
      <3>1. Echo!Expected(e)' = 0 /\ Echo!Expected(e) = 1
        BY <1>0, <2>4 DEF Echo!Expected
      <3> QED BY <1>0, <2>1, <2>2, <2>4, <3>1
    <2> QED BY <2>3, <2>4
  <1>4. LastLineInv'
    <2> SUFFICES ASSUME mishaps' = 0, NEW e \in Client, is_init_of[e]
                 PROVE  /\ cpc'[e] = "receive" =>
                             /\ \A x \in UpOf(asking, e) : x.q = LastAsked(e)
                             /\ \A x \in DownOf(answers', e) : x.msg = Echo!Func(LastAsked(e))
                        /\ cpc'[e] = "print" => output_buf'[e] = Echo!Func(LastAsked(e))
      BY DEF LastLineInv, LastAsked
    <2>1. mishaps = 0 /\ answers' \subseteq answers
      BY <1>0, <1>1
    <2>2. CASE e # c
      BY <1>0, <2>1, <2>2 DEF LastLineInv, DownOf
    <2>3. CASE e = c
      <3>1. d \in DownOf(answers, c)
        BY <1>0 DEF DownOf
      <3> QED BY <1>0, <2>1, <2>3, <3>1 DEF LastLineInv
    <2> QED BY <2>2, <2>3
  <1>5. Echo!InStep'
    BY <1>0, <1>1 DEF Echo!InStep
  <1> QED BY <1>2, <1>3, <1>4, <1>5

LEMMA PrintInv == ASSUME EchoInv, NEW c \in Client, Echo!PrintAnswer(c) PROVE EchoInv'
  <1> USE EchoFacts DEF Echo!PrintAnswer, Echo!Goto, Echo!nvars, EchoInv
  <1>0. /\ cpc[c] = "print" /\ cpc' = [cpc EXCEPT ![c] = "read"] /\ cpc'[c] = "read"
        /\ \A e \in Client : e # c => cpc'[e] = cpc[e] /\ printed'[e] = printed[e]
        /\ printed'[c] = Append(printed[c], output_buf[c])
        /\ printed[c] \in Seq(Echo!Answers \cup {Echo!NoAnswer})
        /\ Len(printed[c]) + 1 = Len(asked[c]) /\ output_buf[c] \in Echo!Answers \cup {Echo!NoAnswer}
    BY DEF EchoTypes, Echo!TypeOK, Pending
  <1>1. EchoTypes'
    <2>1. Len(printed'[c]) = Len(printed[c]) + 1
          /\ printed'[c] \in Seq(Echo!Answers \cup {Echo!NoAnswer})
      BY <1>0
    <2>2. Echo!TypeOK'
      BY <1>0, <2>1 DEF EchoTypes, Echo!TypeOK
    <2>3. ASSUME NEW e \in Client PROVE Len(asked[e]) = Len(printed'[e]) + Pending(e)'
      <3>1. CASE e = c
        <4>1. Pending(c)' = 0
          BY <1>0 DEF Pending
        <4>2. Len(asked[c]) = Len(printed'[c]) + 0
          BY <1>0, <2>1
        <4> QED BY <3>1, <4>1, <4>2
      <3>2. CASE e # c
        <4>1. Pending(e)' = Pending(e) /\ printed'[e] = printed[e]
          BY <1>0, <3>2 DEF Pending
        <4> QED BY <4>1 DEF EchoTypes
      <3> QED BY <3>1, <3>2
    <2> QED BY <1>0, <2>2, <2>3 DEF EchoTypes
  <1>2. SurplusInv' /\ LastLineInv'
    <2>1. \A e \in Client : Echo!Expected(e)' = Echo!Expected(e)
      BY <1>0 DEF Echo!Expected
    <2>2. \A e \in Client : cpc'[e] \in {"receive", "print"} => cpc'[e] = cpc[e]
      BY <1>0
    <2> QED BY <2>1, <2>2 DEF SurplusInv, LastLineInv, LastAsked
  <1>3. Echo!InStep'
    <2>0. mishaps' = mishaps /\ is_init_of' = is_init_of /\ asked' = asked
      OBVIOUS
    <2> HIDE DEF Echo!PrintAnswer
    <2> SUFFICES ASSUME mishaps = 0, NEW e \in Client, is_init_of[e], NEW i \in DOMAIN printed'[e]
                 PROVE  printed'[e][i] = Echo!Func(asked[e][i])
      BY <2>0, Zenon DEF Echo!InStep, Echo!Func
    <2>1. CASE e # c
      BY <1>0, <2>1 DEF Echo!InStep
    <2>2. CASE e = c /\ i = Len(asked[c])
      BY <1>0, <2>2 DEF LastLineInv, LastAsked
    <2>3. CASE e = c /\ i # Len(asked[c])
      <3>1. i \in DOMAIN printed[c] /\ printed'[c][i] = printed[c][i]
        BY <1>0, <2>3
      <3> QED BY <2>3, <3>1 DEF Echo!InStep
    <2> QED BY <2>1, <2>2, <2>3
  <1> QED BY <1>1, <1>2, <1>3

LEMMA ReadInv ==
  ASSUME EchoInv, NEW c \in Client, NEW q \in Echo!Questions, Echo!Read(c, q)
  PROVE  EchoInv'
  <1> USE EchoFacts DEF Echo!Read, Echo!Goto, Echo!nvars, EchoInv
  <1>0. /\ cpc[c] = "read" /\ cpc' = [cpc EXCEPT ![c] = "send"] /\ cpc'[c] = "send"
        /\ \A e \in Client : e # c => cpc'[e] = cpc[e] /\ asked'[e] = asked[e]
        /\ asked'[c] = Append(asked[c], q) /\ asked[c] \in Seq(Echo!Questions)
        /\ printed[c] \in Seq(Echo!Answers \cup {Echo!NoAnswer})
    BY DEF EchoTypes, Echo!TypeOK
  <1>9. Len(printed[c]) = Len(asked[c]) /\ Len(asked[c]) < MaxAsked
    <2>1. Len(asked[c]) = Len(printed[c]) + 0
      BY <1>0 DEF EchoTypes, Pending
    <2> QED BY <1>0, <2>1
  <1>1. EchoTypes'
    <2>1. Len(asked'[c]) = Len(asked[c]) + 1 /\ asked'[c] \in Seq(Echo!Questions)
      BY <1>0
    <2>2. Echo!TypeOK'
      BY <1>0, <2>1 DEF EchoTypes, Echo!TypeOK
    <2>3. ASSUME NEW e \in Client
          PROVE  Len(asked'[e]) = Len(printed[e]) + Pending(e)' /\ Len(asked'[e]) <= MaxAsked
      <3>1. CASE e = c
        <4>1. Pending(c)' = 1
          BY <1>0 DEF Pending
        <4>2. Len(asked'[c]) = Len(printed[c]) + 1 /\ Len(asked'[c]) <= MaxAsked
          BY <1>0, <1>9, <2>1
        <4> QED BY <3>1, <4>1, <4>2
      <3>2. CASE e # c
        <4>1. Pending(e)' = Pending(e) /\ asked'[e] = asked[e]
          BY <1>0, <3>2 DEF Pending
        <4> QED BY <4>1 DEF EchoTypes
      <3> QED BY <3>1, <3>2
    <2> QED BY <1>0, <2>2, <2>3 DEF EchoTypes
  <1>2. SurplusInv' /\ LastLineInv'
    <2>1. \A e \in Client : Echo!Expected(e)' = Echo!Expected(e)
      BY <1>0 DEF Echo!Expected
    <2>2. \A e \in Client :
             cpc'[e] \in {"receive", "print"} => cpc'[e] = cpc[e] /\ LastAsked(e)' = LastAsked(e)
      BY <1>0 DEF LastAsked
    <2> QED BY <2>1, <2>2 DEF SurplusInv, LastLineInv, Echo!Func
  <1>3. Echo!InStep'
    <2> SUFFICES ASSUME mishaps = 0, NEW e \in Client, is_init_of[e], NEW i \in DOMAIN printed[e]
                 PROVE  printed[e][i] = Echo!Func(asked'[e][i])
      BY DEF Echo!InStep, Echo!Func
    <2>1. asked'[e][i] = asked[e][i]
      BY <1>0, <1>9
    <2> QED BY <2>1 DEF Echo!InStep
  <1> QED BY <1>1, <1>2, <1>3

\* What else happens makes nothing new to print.
LEMMA EchoOthersInv ==
  ASSUME EchoInv, NEW c \in Client,
         Echo!ServerInit \/ Echo!ClientInit(c) \/ Echo!ReadQuit(c) \/ Echo!ReceiveFails(c)
  PROVE  EchoInv'
  <1> USE EchoFacts DEF Echo!Goto, Echo!nvars, Echo!cvars, EchoInv
  <1>1. CASE Echo!ServerInit
    BY <1>1 DEF Echo!ServerInit, EchoTypes, Echo!TypeOK, Pending, SurplusInv, Echo!Expected,
                LastLineInv, LastAsked, Echo!InStep, Echo!Func
  <1>2. CASE Echo!ClientInit(c)
    <2> USE <1>2 DEF Echo!ClientInit
    <2>1. /\ cpc' = [cpc EXCEPT ![c] = "read"] /\ cpc[c] = "init" /\ cpc'[c] = "read"
          /\ \A e \in Client : e # c => cpc'[e] = cpc[e] /\ is_init_of'[e] = is_init_of[e]
          /\ is_init_of' \in [Client -> BOOLEAN]
      BY DEF EchoTypes, Echo!TypeOK
    <2>4. DOMAIN printed[c] = {}
      <3>1. asked[c] = <<>> /\ Len(asked[c]) = Len(printed[c]) + 0
        BY <2>1 DEF EchoTypes, Pending
      <3>2. printed[c] \in Seq(Echo!Answers \cup {Echo!NoAnswer})
        BY DEF EchoTypes, Echo!TypeOK
      <3>3. Len(printed[c]) = 0
        BY <3>1, <3>2
      <3> QED BY <3>2, <3>3
    <2>2. EchoTypes'
      BY <2>1 DEF EchoTypes, Echo!TypeOK, Pending
    <2>3. SurplusInv'
      BY <2>1 DEF SurplusInv, Echo!Expected
    <2>5. \A e \in Client : cpc'[e] \in {"receive", "print"} => e # c
      BY <2>1
    <2>6. LastLineInv'
      BY <2>1, <2>5 DEF LastLineInv, LastAsked, Echo!Func
    <2>7. Echo!InStep'
      <3>1. mishaps' = mishaps /\ asked' = asked /\ printed' = printed
        OBVIOUS
      <3>2. \A e \in Client : is_init_of'[e] /\ e # c => is_init_of[e]
        BY <2>1
      <3> HIDE DEF Echo!ClientInit
      <3> QED BY <2>4, <3>1, <3>2 DEF Echo!InStep
    <2> QED BY <2>2, <2>3, <2>6, <2>7
  <1>3. CASE Echo!ReadQuit(c)
    <2> USE <1>3 DEF Echo!ReadQuit
    <2>1. /\ cpc' = [cpc EXCEPT ![c] = "quit"] /\ cpc[c] = "read" /\ cpc'[c] = "quit"
          /\ \A e \in Client : e # c => cpc'[e] = cpc[e]
      BY DEF EchoTypes, Echo!TypeOK
    <2>2. EchoTypes'
      BY <2>1 DEF EchoTypes, Echo!TypeOK, Pending
    <2>3. SurplusInv'
      BY <2>1 DEF SurplusInv, Echo!Expected
    <2>5. \A e \in Client : cpc'[e] \in {"receive", "print"} => e # c
      BY <2>1
    <2>6. LastLineInv'
      BY <2>1, <2>5 DEF LastLineInv, LastAsked, Echo!Func
    <2>7. Echo!InStep'
      BY DEF Echo!InStep, Echo!Func
    <2> QED BY <2>2, <2>3, <2>6, <2>7
  <1>4. CASE Echo!ReceiveFails(c)
    <2> USE <1>4 DEF Echo!ReceiveFails, Echo!Mishap
    <2>1. /\ cpc' = [cpc EXCEPT ![c] = "print"] /\ cpc[c] = "receive" /\ cpc'[c] = "print"
          /\ \A e \in Client : e # c => cpc'[e] = cpc[e]
          /\ mishaps \in Nat /\ mishaps' = mishaps + 1 /\ mishaps' # 0
      BY DEF EchoTypes, Echo!TypeOK
    <2>2. EchoTypes'
      BY <2>1 DEF EchoTypes, Echo!TypeOK, Pending
    <2>3. SurplusInv'
      <3> SUFFICES ASSUME NEW e \in Client
                   PROVE  Cardinality(UpOf(asking, e)) + Cardinality(DownOf(answers, e))
                          <= Echo!Expected(e)' + mishaps'
        BY DEF SurplusInv
      <3>1. Cardinality(UpOf(asking, e)) + Cardinality(DownOf(answers, e)) <= Echo!Expected(e) + mishaps
        BY DEF SurplusInv
      <3>2. Echo!Expected(e) \in Nat /\ Echo!Expected(e)' \in Nat /\ Echo!Expected(e) <= Echo!Expected(e)' + 1
        BY <2>1 DEF Echo!Expected
      <3>3. Cardinality(UpOf(asking, e)) \in Nat /\ Cardinality(DownOf(answers, e)) \in Nat
        BY Ups, Downs DEF EchoTypes
      <3> QED BY <2>1, <3>1, <3>2, <3>3
    <2>4. LastLineInv' /\ Echo!InStep'
      BY <2>1 DEF LastLineInv, Echo!InStep
    <2> QED BY <2>2, <2>3, <2>4
  <1> QED BY <1>1, <1>2, <1>3, <1>4

LEMMA LossInv ==
  ASSUME EchoInv, NEW d,
         (d \in asking /\ Echo!LoseUp(d)) \/ (d \in answers /\ Echo!LoseDown(d))
  PROVE  EchoInv'
  <1> USE EchoFacts DEF Echo!LoseUp, Echo!LoseDown, Echo!Mishap, Echo!cvars, EchoInv
  <1>1. /\ asking' \in {asking, asking \ {d}} /\ answers' \in {answers, answers \ {d}}
        /\ mishaps \in Nat /\ mishaps' = mishaps + 1 /\ mishaps' # 0
    BY DEF EchoTypes, Echo!TypeOK
  <1>2. EchoTypes'
    <2>1. IsFiniteSet(asking') /\ IsFiniteSet(answers')
      <3>1. /\ IsFiniteSet(asking) /\ IsFiniteSet(asking \ {d})
            /\ IsFiniteSet(answers) /\ IsFiniteSet(answers \ {d})
        BY Ups, Downs DEF EchoTypes
      <3> QED BY <1>1, <3>1, Zenon
    <2>2. asking' \subseteq asking /\ answers' \subseteq answers /\ mishaps' \in 0..MaxOdd
      BY <1>1 DEF EchoTypes, Echo!TypeOK
    <2>3. /\ answered' = answered /\ cpc' = cpc /\ is_init_of' = is_init_of /\ asked' = asked
          /\ output_buf' = output_buf /\ printed' = printed /\ main' = main
      OBVIOUS
    <2> HIDE DEF Echo!LoseUp, Echo!LoseDown
    <2>4. Echo!TypeOK'
      BY <2>2, <2>3 DEF EchoTypes, Echo!TypeOK
    <2> QED BY <2>1, <2>3, <2>4 DEF EchoTypes, Pending
  <1>3. SurplusInv'
    <2> SUFFICES ASSUME NEW e \in Client
                 PROVE  Cardinality(UpOf(asking', e)) + Cardinality(DownOf(answers', e))
                        <= Echo!Expected(e) + mishaps'
      BY DEF SurplusInv, Echo!Expected
    <2>1. Cardinality(UpOf(asking, e)) + Cardinality(DownOf(answers, e)) <= Echo!Expected(e) + mishaps
      BY DEF SurplusInv
    <2>2. /\ Cardinality(UpOf(asking, e)) \in Nat /\ Cardinality(DownOf(answers, e)) \in Nat
          /\ Cardinality(UpOf(asking \ {d}, e)) \in Nat
          /\ Cardinality(DownOf(answers \ {d}, e)) \in Nat
          /\ Cardinality(UpOf(asking \ {d}, e)) <= Cardinality(UpOf(asking, e))
          /\ Cardinality(DownOf(answers \ {d}, e)) <= Cardinality(DownOf(answers, e))
      BY Ups, Downs DEF EchoTypes
    <2>3. /\ Cardinality(UpOf(asking', e)) \in Nat /\ Cardinality(DownOf(answers', e)) \in Nat
          /\ Cardinality(UpOf(asking', e)) <= Cardinality(UpOf(asking, e))
          /\ Cardinality(DownOf(answers', e)) <= Cardinality(DownOf(answers, e))
      <3>1. /\ Cardinality(UpOf(asking, e)) <= Cardinality(UpOf(asking, e))
            /\ Cardinality(DownOf(answers, e)) <= Cardinality(DownOf(answers, e))
        BY <2>2
      <3> QED BY <1>1, <2>2, <3>1, Zenon
    <2>4. Echo!Expected(e) \in Nat
      BY DEF Echo!Expected
    <2> QED BY <1>1, <2>1, <2>2, <2>3, <2>4
  <1>4. LastLineInv' /\ Echo!InStep'
    BY <1>1 DEF LastLineInv, Echo!InStep
  <1> QED BY <1>2, <1>3, <1>4

LEMMA EchoStep == ASSUME EchoInv, [Echo!Next]_(Echo!vars) PROVE EchoInv'
  <1>1. CASE Echo!ServerStep
    <2>1. CASE Echo!ServerInit
      <3>1. CASE Client = {}
        BY <2>1, <3>1 DEF Echo!ServerInit, Echo!nvars, Echo!cvars, EchoInv, EchoTypes, Echo!TypeOK,
                          SurplusInv, LastLineInv, Echo!InStep
      <3>2. CASE Client # {}
        BY <2>1, <3>2, EchoOthersInv
      <3> QED BY <3>1, <3>2
    <2> QED BY <1>1, <2>1, ServeInv DEF Echo!ServerStep
  <1>2. ASSUME NEW c \in Client, Echo!ClientStep(c) PROVE EchoInv'
    BY <1>2, EchoOthersInv, SendInv, PrintInv, ReadInv, ReceiveInv DEF Echo!ClientStep
  <1>3. CASE UNCHANGED Echo!vars
    BY <1>3 DEF Echo!vars, Echo!nvars, Echo!cvars, EchoInv, EchoTypes, Echo!TypeOK, Pending,
                SurplusInv, Echo!Expected, LastLineInv, LastAsked, Echo!InStep, Echo!Func
  <1> QED BY <1>1, <1>2, <1>3, LossInv DEF Echo!Next

\* What UdpEcho promises of the datagrams of a client follows.
LEMMA EchoKept == ASSUME EchoInv PROVE Echo!TypeOK /\ Echo!InStep /\ Echo!SurplusBounded
  <1>1. ASSUME NEW c \in Client
        PROVE  Cardinality(UpOf(asking, c) \cup DownOf(answers, c)) <= Echo!Expected(c) + mishaps
    <2>1. IsFiniteSet(UpOf(asking, c)) /\ IsFiniteSet(DownOf(answers, c))
      BY FS_Subset DEF UpOf, DownOf, EchoInv, EchoTypes
    <2>2. /\ Cardinality(UpOf(asking, c)) \in Nat /\ Cardinality(DownOf(answers, c)) \in Nat
          /\ Cardinality(UpOf(asking, c) \cap DownOf(answers, c)) \in Nat
      BY <2>1, FS_CardinalityType, FS_Subset
    <2>3. Cardinality(UpOf(asking, c) \cup DownOf(answers, c))
            = Cardinality(UpOf(asking, c)) + Cardinality(DownOf(answers, c))
              - Cardinality(UpOf(asking, c) \cap DownOf(answers, c))
      BY <2>1, FS_Union
    <2>4. Cardinality(UpOf(asking, c)) + Cardinality(DownOf(answers, c)) <= Echo!Expected(c) + mishaps
      BY DEF EchoInv, SurplusInv
    <2>5. Echo!Expected(c) \in Nat /\ mishaps \in Nat
      BY EchoFacts DEF Echo!Expected, EchoInv, EchoTypes, Echo!TypeOK
    <2> QED BY <2>2, <2>3, <2>4, <2>5
  <1>2. ASSUME NEW c \in Client
        PROVE  Cardinality(Echo!Flying(c)) <= Echo!Expected(c) + mishaps
    <2>1. Echo!Flying(c) = UpOf(asking, c) \cup DownOf(answers, c)
      BY DEF Echo!Flying, UpOf, DownOf
    <2>2. Cardinality(UpOf(asking, c) \cup DownOf(answers, c)) <= Echo!Expected(c) + mishaps
      BY <1>1
    <2> QED BY <2>1, <2>2
  <1>3. Echo!SurplusBounded
    BY <1>2 DEF Echo!SurplusBounded, Echo!Cardinality, Cardinality
  <1> QED BY <1>3 DEF EchoInv, EchoTypes

-----------------------------------------------------------------------------
(* LineServer                                                                *)

Bytes == Lines!Bytes
LastLine == Lines!Line(Len(lines))
Said == [n \in 1..Len(lines) |-> Lines!Line(n)]
BothLive == cloop # "dead" /\ sloop \notin Lines!Gone

LineTypes ==
  /\ service \in {"echo", "calculator"}
  /\ sloop \in {"init", "listen", "accept", "serve", "answer", "ended", "failed", "dead"}
  /\ peer_list \in 0..1
  /\ cloop \in {"connect", "input", "recv", "dead"}
  /\ is_init \in BOOLEAN /\ reset \in BOOLEAN /\ cut \in BOOLEAN /\ overrun \in BOOLEAN
  /\ lines \in Seq(0..MaxLen) /\ shown \in Seq(Seq(Bytes))
  /\ up \in Seq(Bytes) /\ down \in Seq(Bytes)
  /\ sbuff \in Seq(Bytes) /\ Len(sbuff) <= MAX_STR - 1
  /\ Len(shown) <= Len(lines) /\ Len(lines) <= MaxLines
  /\ cloop # "dead" => Len(lines) = Len(shown) + (IF cloop = "recv" THEN 1 ELSE 0)

\* A connection that is not made carries nothing, and a loop that does not answer holds
\* nothing.
ConnectionInv ==
  /\ reset => cloop = "dead"
  /\ cloop = "connect" => ~is_init /\ lines = <<>>
  /\ ~is_init => up = <<>> /\ down = <<>> /\ sloop \in {"init", "listen", "accept", "failed"}
  /\ sloop = "answer" => sbuff # <<>>
  /\ sloop \notin {"answer", "dead"} => sbuff = <<>>

\* On a stream that is not cut, with lines that fit, at most the last line is under way,
\* in one place and whole.
OnlyLast(bytes, line) == bytes = <<>> \/ bytes = line

LastInv ==
  ~cut /\ Lines!Short =>
    /\ cloop \in {"connect", "input"} =>
         down = <<>> /\ (sloop \notin Lines!Gone => up = <<>> /\ sbuff = <<>>)
    /\ cloop = "recv" =>
         /\ OnlyLast(down, LastLine)
         /\ sloop \notin Lines!Gone =>
              /\ OnlyLast(up, LastLine) /\ OnlyLast(sbuff, LastLine)
              /\ up # <<>> => sbuff = <<>> /\ down = <<>>
              /\ sbuff # <<>> => down = <<>>

ConservesInv ==
  service = "echo" /\ is_init /\ BothLive =>
    FlattenSeq(shown) \o (down \o (sbuff \o up)) = FlattenSeq(Said)

LineInv ==
  /\ LineTypes /\ ConnectionInv /\ LastInv
  /\ Lines!InStep /\ ConservesInv /\ Lines!OverrunNeedsLongLine

\* What a line and the pieces of a stream are.
LEMMA LineFacts ==
  ASSUME LineTypes, NEW n \in 1..Len(lines)
  PROVE  /\ lines[n] \in Nat /\ lines[n] <= MaxLen
         /\ Lines!Line(n) \in Seq(Bytes) /\ Len(Lines!Line(n)) = lines[n]
  <1>1. lines[n] \in 0..MaxLen /\ MaxLen \in Nat /\ MaxLines \in Nat /\ n \in Bytes
    BY EchoFacts DEF LineTypes, Lines!LineAssumption, Bytes, Lines!Bytes
  <1>2. PICK l \in Nat : l = lines[n]
    BY <1>1
  <1>3. [k \in 1..l |-> n] \in Seq(Bytes) /\ Len([k \in 1..l |-> n]) = l
    BY <1>1, <1>2
  <1> QED BY <1>1, <1>2, <1>3 DEF Lines!Line

LEMMA SaidType == ASSUME LineTypes PROVE Said \in Seq(Seq(Bytes)) /\ Len(Said) = Len(lines)
  <1>1. \A n \in 1..Len(lines) : Lines!Line(n) \in Seq(Bytes)
    BY LineFacts
  <1>2. Len(lines) \in Nat
    BY DEF LineTypes
  <1> QED BY <1>1, <1>2 DEF Said

LEMMA Split ==
  ASSUME NEW S, NEW s \in Seq(S), NEW n \in 1..Len(s)
  PROVE  /\ SubSeq(s, 1, n) \in Seq(S) /\ Len(SubSeq(s, 1, n)) = n /\ SubSeq(s, 1, n) # <<>>
         /\ Lines!Rest(s, n) \in Seq(S)
         /\ SubSeq(s, 1, n) \o Lines!Rest(s, n) = s
         /\ n = Len(s) => SubSeq(s, 1, n) = s /\ Lines!Rest(s, n) = <<>>
  BY SplitAt DEF Lines!Rest

LEMMA LineInitInv == ASSUME Lines!Init PROVE LineInv
  <1> USE EchoFacts DEF Lines!Init, Lines!ClientInit
  <1>1. LineTypes
    <2>1. MaxLines \in Nat /\ MAX_STR - 1 \in Nat /\ 0 <= MaxLines /\ 0 <= MAX_STR - 1
      BY DEF Lines!LineAssumption
    <2>2. /\ <<>> \in Seq(0..MaxLen) /\ <<>> \in Seq(Seq(Bytes)) /\ <<>> \in Seq(Bytes)
          /\ Len(<<>>) = 0
      OBVIOUS
    <2>3. sloop \in {"init", "accept"} /\ service \in {"echo", "calculator"}
      OBVIOUS
    <2>4. sbuff = <<>> /\ lines = <<>> /\ shown = <<>> /\ up = <<>> /\ down = <<>>
          /\ peer_list = 0 /\ cloop = "connect" /\ is_init = FALSE /\ reset = FALSE
          /\ cut = FALSE /\ overrun = FALSE
      OBVIOUS
    <2>5. Len(shown) <= Len(lines) /\ Len(lines) <= MaxLines /\ Len(sbuff) <= MAX_STR - 1
          /\ Len(lines) = Len(shown) + (IF cloop = "recv" THEN 1 ELSE 0)
      BY <2>1, <2>2, <2>4
    <2>6. /\ lines \in Seq(0..MaxLen) /\ shown \in Seq(Seq(Bytes))
          /\ up \in Seq(Bytes) /\ down \in Seq(Bytes) /\ sbuff \in Seq(Bytes)
      BY <2>2, <2>4
    <2> HIDE DEF Lines!Init, Lines!ClientInit
    <2>7. /\ sloop \in {"init", "listen", "accept", "serve", "answer", "ended", "failed", "dead"}
          /\ peer_list \in 0..1 /\ cloop \in {"connect", "input", "recv", "dead"}
      BY <2>3, <2>4
    <2>8. is_init \in BOOLEAN /\ reset \in BOOLEAN /\ cut \in BOOLEAN /\ overrun \in BOOLEAN
      BY <2>4
    <2> QED BY <2>3, <2>5, <2>6, <2>7, <2>8, Zenon DEF LineTypes
  <1>2. ConnectionInv /\ LastInv
    BY DEF ConnectionInv, LastInv
  <1>3. Lines!InStep /\ Lines!OverrunNeedsLongLine
    BY DEF Lines!InStep, Lines!OverrunNeedsLongLine
  <1>4. ConservesInv
    BY DEF ConservesInv
  <1> QED BY <1>1, <1>2, <1>3, <1>4 DEF LineInv

\* Steps that neither read a line nor print one leave what was said about the lines.
LEMMA LinesSame ==
  ASSUME LineInv, lines' = lines, shown' = shown, overrun' = overrun, cut => cut'
  PROVE  /\ Lines!InStep' /\ Lines!OverrunNeedsLongLine'
         /\ (Lines!Short' <=> Lines!Short) /\ LastLine' = LastLine /\ Said' = Said
  BY DEF LineInv, Lines!InStep, Lines!OverrunNeedsLongLine, Lines!Short, LastLine, Said, Lines!Line

\* The steps that move no byte.
LEMMA QuietInv ==
  ASSUME LineInv,
         \/ Lines!ClientKilled \/ Lines!SetUp \/ Lines!Listen
         \/ Lines!Accept \/ Lines!AcceptFails \/ Lines!ServerEof \/ Lines!ServerReadFails
         \/ Lines!ServerDies \/ UNCHANGED Lines!vars
  PROVE  LineInv'
  <1> USE DEF Lines!ClientKilled, Lines!SetUp, Lines!Listen, Lines!Accept, Lines!AcceptFails,
              Lines!ServerEof, Lines!ServerReadFails, Lines!ServerDies, Lines!Fails, Lines!Connected,
              Lines!AtEof, Lines!Erased, Lines!vars, Lines!svars, Lines!cvars
  <1>1. /\ UNCHANGED <<service, is_init, lines, shown, overrun, sbuff, up, down, cut>>
        /\ sloop' \in Lines!Gone \/ sloop \notin Lines!Gone
        /\ sloop \in Lines!Gone => sloop' \in Lines!Gone
        /\ cloop' \in {cloop, "dead"} /\ peer_list' \in {peer_list, 0, 1}
        /\ sloop' \in {"init", "listen", "accept", "serve", "answer", "ended", "failed", "dead"}
    BY DEF LineInv, LineTypes, Lines!Gone
  <1>2. LineTypes'
    <2>1. reset' \in BOOLEAN
      BY DEF LineInv, LineTypes
    <2> QED BY <1>1, <2>1 DEF LineInv, LineTypes
  <1>3. ConnectionInv'
    BY <1>1 DEF LineInv, LineTypes, ConnectionInv
  <1>4. LastInv'
    BY <1>1, LinesSame DEF LineInv, LastInv
  <1>5. ConservesInv'
    BY <1>1, LinesSame DEF LineInv, ConservesInv, BothLive
  <1> QED BY <1>1, <1>2, <1>3, <1>4, <1>5, LinesSame DEF LineInv

LEMMA ConnectInv == ASSUME LineInv, Lines!Connect PROVE LineInv'
  <1> USE DEF Lines!Connect, Lines!svars
  <1>1. /\ cloop = "connect" /\ cloop' = "input" /\ is_init' \in BOOLEAN /\ lines = <<>>
        /\ is_init' => sloop = "accept"
        /\ shown = <<>> /\ up = <<>> /\ down = <<>> /\ sbuff = <<>>
        /\ ~is_init /\ sloop \in {"init", "listen", "accept", "failed"}
    <2>1. /\ cloop = "connect" /\ cloop' = "input" /\ is_init' \in BOOLEAN
          /\ is_init' => sloop = "accept"
      OBVIOUS
    <2>2. /\ ~is_init /\ lines = <<>> /\ up = <<>> /\ down = <<>>
          /\ sloop \in {"init", "listen", "accept", "failed"} /\ sbuff = <<>>
      BY <2>1 DEF LineInv, ConnectionInv
    <2>3. shown \in Seq(Seq(Bytes)) /\ Len(shown) <= 0
      BY <2>2 DEF LineInv, LineTypes
    <2>4. shown = <<>>
      BY <2>3
    <2> QED BY <2>1, <2>2, <2>4
  <1>2. UNCHANGED <<service, lines, shown, overrun, sloop, peer_list, sbuff, up, down, reset, cut>>
    OBVIOUS
  <1> HIDE DEF Lines!Connect
  <1>3. LineTypes'
    BY <1>1, <1>2 DEF LineInv, LineTypes
  <1>4. ConnectionInv' /\ LastInv'
    BY <1>1, <1>2 DEF LineInv, ConnectionInv, LastInv
  <1>5. ConservesInv'
    <2>1. Said' = <<>>
      BY <1>1, <1>2 DEF Said
    <2>2. <<>> \o (<<>> \o (<<>> \o <<>>)) = <<>>
      OBVIOUS
    <2> QED BY <1>1, <1>2, <2>1, <2>2, FlattenEmpty DEF ConservesInv
  <1> QED BY <1>2, <1>3, <1>4, <1>5, LinesSame DEF LineInv

\* A line more.
LEMMA LinesGrow ==
  ASSUME LineTypes, NEW length \in 0..MaxLen, lines' = Append(lines, length), Len(lines) < MaxLines,
         MaxLines \in Nat
  PROVE  /\ Len(lines') = Len(lines) + 1 /\ lines'[Len(lines')] = length
         /\ lines' \in Seq(0..MaxLen)
         /\ \A n \in 1..Len(lines) : Lines!Line(n)' = Lines!Line(n) /\ lines'[n] = lines[n]
         /\ LastLine' = [k \in 1..length |-> Len(lines')]
         /\ Said' = Append(Said, LastLine')
         /\ Lines!Short' => Lines!Short /\ length \in 1..(MAX_STR - 1)
  <1>1. lines \in Seq(0..MaxLen) /\ Len(lines) \in Nat
    BY DEF LineTypes
  <1>2. /\ Len(lines') = Len(lines) + 1 /\ lines'[Len(lines')] = length
        /\ lines' \in Seq(0..MaxLen)
        /\ \A n \in 1..Len(lines) : lines'[n] = lines[n]
    BY <1>1
  <1>3. \A n \in 1..Len(lines) : Lines!Line(n)' = Lines!Line(n)
    BY <1>2 DEF Lines!Line
  <1>4. LastLine' = [k \in 1..length |-> Len(lines')]
    BY <1>2 DEF LastLine, Lines!Line
  <1>5. Said' = Append(Said, LastLine')
    <2>1. LastLine' \in Seq(Bytes)
      <3>1. Len(lines') \in Bytes
        BY <1>1, <1>2 DEF Bytes, Lines!Bytes
      <3> QED BY <1>4, <3>1
    <2>2. Append(Said, LastLine')
            = [n \in 1..Len(lines') |-> IF n = Len(lines') THEN LastLine' ELSE Said[n]]
      BY <1>2, <2>1, SaidType, AppendIs
    <2>3. \A n \in 1..Len(lines') :
             Lines!Line(n)' = IF n = Len(lines') THEN LastLine' ELSE Said[n]
      BY <1>1, <1>2, <1>3 DEF Said, LastLine
    <2> QED BY <2>2, <2>3 DEF Said
  <1>6. Lines!Short' => Lines!Short /\ length \in 1..(MAX_STR - 1)
    BY <1>1, <1>2 DEF Lines!Short
  <1> QED BY <1>2, <1>3, <1>4, <1>5, <1>6

LEMMA ReadAndSendInv ==
  ASSUME LineInv, NEW length \in 0..MaxLen, Lines!ReadAndSend(length)
  PROVE  LineInv'
  <1> USE DEF Lines!ReadAndSend, Lines!svars
  <1>1. /\ cloop = "input" /\ cloop' = "recv" /\ lines' = Append(lines, length)
        /\ Len(lines) < MaxLines /\ MaxLines \in Nat /\ LineTypes
        /\ up' = IF is_init /\ sloop \notin Lines!Gone
                 THEN up \o [k \in 1..length |-> Len(lines')] ELSE up
    BY EchoFacts DEF LineInv, LineTypes, Lines!LineAssumption
  <1>2. UNCHANGED <<service, sloop, peer_list, sbuff, is_init, shown, overrun, down, reset, cut>>
    OBVIOUS
  <1> HIDE DEF Lines!ReadAndSend
  <1>3. /\ Len(lines') = Len(lines) + 1 /\ lines' \in Seq(0..MaxLen)
        /\ \A n \in 1..Len(lines) : Lines!Line(n)' = Lines!Line(n) /\ lines'[n] = lines[n]
        /\ LastLine' = [k \in 1..length |-> Len(lines')]
        /\ Said' = Append(Said, LastLine')
        /\ Lines!Short' => Lines!Short /\ length \in 1..(MAX_STR - 1)
    BY <1>1, LinesGrow
  <1>4. Len(lines) \in Nat /\ Len(shown) \in Nat /\ Len(lines) = Len(shown)
    BY <1>1 DEF LineTypes
  <1>5. LastLine' \in Seq(Bytes)
    <2>1. Len(lines') \in Bytes
      BY <1>1, <1>3, <1>4 DEF Bytes, Lines!Bytes
    <2> QED BY <1>3, <2>1
  <1>6. up' \in Seq(Bytes)
    BY <1>1, <1>3, <1>5 DEF LineTypes
  <1>7. LineTypes'
    BY <1>1, <1>2, <1>3, <1>4, <1>6 DEF LineTypes
  <1>8. ConnectionInv'
    BY <1>1, <1>2 DEF LineInv, ConnectionInv
  <1>9. Lines!InStep' /\ Lines!OverrunNeedsLongLine'
    <2>1. DOMAIN shown = 1..Len(lines)
      BY <1>4, <1>1 DEF LineTypes
    <2> QED BY <1>2, <1>3, <2>1 DEF LineInv, Lines!InStep, Lines!OverrunNeedsLongLine
  <1>10. LastInv'
    <2> SUFFICES ASSUME ~cut, Lines!Short'
                 PROVE  /\ OnlyLast(down, LastLine')
                        /\ sloop \notin Lines!Gone =>
                             /\ OnlyLast(up', LastLine') /\ OnlyLast(sbuff, LastLine')
                             /\ up' # <<>> => sbuff = <<>> /\ down = <<>>
                             /\ sbuff # <<>> => down = <<>>
      BY <1>1, <1>2 DEF LastInv, OnlyLast
    <2>1. down = <<>> /\ (sloop \notin Lines!Gone => up = <<>> /\ sbuff = <<>>)
      BY <1>1, <1>3 DEF LineInv, LastInv
    <2>2. <<>> \o LastLine' = LastLine'
      BY <1>5
    <2> QED BY <1>1, <1>3, <2>1, <2>2 DEF OnlyLast
  <1>11. ConservesInv'
    <2> SUFFICES ASSUME service = "echo", is_init, sloop \notin Lines!Gone
                 PROVE  FlattenSeq(shown) \o (down \o (sbuff \o up')) = FlattenSeq(Said')
      BY <1>1, <1>2 DEF ConservesInv, BothLive
    <2>1. FlattenSeq(shown) \o (down \o (sbuff \o up)) = FlattenSeq(Said)
      BY <1>1 DEF LineInv, ConservesInv, BothLive
    <2>2. FlattenSeq(Said') = FlattenSeq(Said) \o LastLine'
      BY <1>1, <1>3, <1>5, SaidType, FlattenAppend
    <2>3. up' = up \o LastLine'
      BY <1>1, <1>3
    <2>4. /\ FlattenSeq(shown) \in Seq(Bytes) /\ down \in Seq(Bytes) /\ sbuff \in Seq(Bytes)
          /\ up \in Seq(Bytes)
      BY <1>1, FlattenType DEF LineTypes
    <2>5. Cat(FlattenSeq(shown), Cat(down, Cat(sbuff, Cat(up, LastLine'))))
            = Cat(Cat(FlattenSeq(shown), Cat(down, Cat(sbuff, up))), LastLine')
      BY <1>5, <2>4, CatLast
    <2> QED BY <2>1, <2>2, <2>3, <2>5, Zenon DEF Cat
  <1> QED BY <1>7, <1>8, <1>9, <1>10, <1>11 DEF LineInv

\* recv of the client: with lines that fit, and no cut, it brings the whole last line.
LEMMA ClientRecvInv ==
  ASSUME LineInv, NEW n \in 1..MAX_BUFF, Lines!ClientRecv(n)
  PROVE  LineInv'
  <1>1. /\ cloop = "recv" /\ cloop' = "input"
        /\ n <= Len(down) /\ n <= MAX_BUFF /\ n \in Nat
        /\ n \in 1..Len(down)
        /\ down' = Lines!Rest(down, n) /\ shown' = Append(shown, SubSeq(down, 1, n))
        /\ cut' \in BOOLEAN /\ (cut \/ (n < Len(down) /\ n < MAX_BUFF) => cut')
        /\ overrun' = (overrun \/ n = MAX_BUFF)
    <2>1. down \in Seq(Bytes)
      BY DEF LineInv, LineTypes
    <2>2. MAX_BUFF \in Nat
      BY EchoFacts DEF Lines!LineAssumption
    <2>3. PICK l \in Nat : l = Len(down)
      BY <2>1
    <2>4. n \in 1..Lines!Least(l, MAX_BUFF) /\ (cut' = (cut \/ n < Lines!Least(l, MAX_BUFF)))
      BY <2>3 DEF Lines!ClientRecv, Lines!Pieces, Lines!Cuts, Lines!ClientSize
    <2>5. n <= l /\ (n < Lines!Least(l, MAX_BUFF) <=> n < l /\ n < MAX_BUFF)
      BY <2>2, <2>4 DEF Lines!Least
    <2>6. n \in Nat /\ n <= MAX_BUFF /\ n \in 1..l
      BY <2>2, <2>5
    <2>7. /\ cloop = "recv" /\ cloop' = "input"
          /\ down' = Lines!Rest(down, n) /\ shown' = Append(shown, SubSeq(down, 1, n))
          /\ overrun' = (overrun \/ n = MAX_BUFF)
      BY DEF Lines!ClientRecv, Lines!Prints, Lines!ClientSize
    <2>8. cut' \in BOOLEAN /\ (cut \/ (n < l /\ n < MAX_BUFF) => cut')
      <3>1. cut \in BOOLEAN
        BY DEF LineInv, LineTypes
      <3> QED BY <2>4, <2>5, <3>1
    <2> QED BY <2>3, <2>5, <2>6, <2>7, <2>8
  <1>2. UNCHANGED <<service, sloop, peer_list, sbuff, is_init, lines, up, reset>>
    BY DEF Lines!ClientRecv, Lines!Prints, Lines!svars
  <1>3. /\ SubSeq(down, 1, n) \in Seq(Bytes) /\ Lines!Rest(down, n) \in Seq(Bytes)
        /\ SubSeq(down, 1, n) \o Lines!Rest(down, n) = down
        /\ n = Len(down) => SubSeq(down, 1, n) = down /\ Lines!Rest(down, n) = <<>>
        /\ down # <<>>
    <2>1. down \in Seq(Bytes) /\ n \in 1..Len(down)
      BY <1>1 DEF LineInv, LineTypes
    <2>2. down # <<>>
      BY <2>1
    <2> QED BY <2>1, <2>2, Split
  <1>4. /\ shown \in Seq(Seq(Bytes)) /\ Len(lines) = Len(shown) + 1 /\ Len(shown) \in Nat
        /\ shown' \in Seq(Seq(Bytes)) /\ Len(shown') = Len(lines)
        /\ shown'[Len(lines)] = SubSeq(down, 1, n)
        /\ \A k \in 1..Len(shown) : shown'[k] = shown[k]
        /\ DOMAIN shown' = 1..Len(lines) /\ DOMAIN shown = 1..Len(shown)
    BY <1>1, <1>3, SMTT(30) DEF LineInv, LineTypes
  <1>5. LineTypes'
    BY <1>1, <1>2, <1>3, <1>4 DEF LineInv, LineTypes
  <1>6. ConnectionInv'
    BY <1>1, <1>2, <1>3 DEF LineInv, ConnectionInv
  <1>7. ASSUME ~cut', Lines!Short
        PROVE  /\ ~cut /\ n = Len(down) /\ down = LastLine /\ down' = <<>> /\ n < MAX_BUFF
               /\ sloop \notin Lines!Gone => up = <<>> /\ sbuff = <<>>
    <2>1. ~cut /\ ~(n < Len(down) /\ n < MAX_BUFF)
      BY <1>1, <1>7, Zenon
    <2>2. down = LastLine /\ (sloop \notin Lines!Gone => up = <<>> /\ sbuff = <<>>)
      BY <1>1, <1>3, <1>7, <2>1 DEF LineInv, LastInv, OnlyLast
    <2>3. Len(lines) \in 1..Len(lines) /\ Len(lines) \in Nat
      BY <1>4
    <2>4. Len(LastLine) = lines[Len(lines)] /\ lines[Len(lines)] \in Nat
      BY <2>3, LineFacts DEF LineInv, LastLine
    <2>5. lines[Len(lines)] \in 1..(MAX_STR - 1)
      BY <1>7, <2>3 DEF Lines!Short, LineInv, LineTypes
    <2>6. Len(down) < MAX_BUFF
      BY EchoFacts, <2>2, <2>4, <2>5 DEF Lines!LineAssumption
    <2>7. n = Len(down)
      <3>1. n < MAX_BUFF /\ n \in Nat /\ Len(down) \in Nat /\ MAX_BUFF \in Nat /\ n <= Len(down)
        BY <1>1, <2>2, <2>4, <2>6, EchoFacts DEF Lines!LineAssumption
      <3> QED BY <2>1, <3>1
    <2> QED BY <1>1, <1>3, <2>1, <2>2, <2>6, <2>7
  <1>8. Lines!Short' <=> Lines!Short
    BY <1>2 DEF Lines!Short
  <1>9. Lines!InStep'
    <2> SUFFICES ASSUME ~cut', Lines!Short, NEW k \in 1..Len(lines)
                 PROVE  shown'[k] = Lines!Line(k) \/ shown'[k] = <<>>
      BY <1>2, <1>4, <1>8 DEF Lines!InStep, Lines!Line
    <2>1. CASE k = Len(lines)
      BY <1>3, <1>4, <1>7, <2>1 DEF LastLine
    <2>2. CASE k # Len(lines)
      <3>1. k \in 1..Len(shown)
        BY <1>4, <2>2
      <3> QED BY <1>4, <1>7, <3>1 DEF LineInv, Lines!InStep
    <2> QED BY <2>1, <2>2
  <1>10. Lines!OverrunNeedsLongLine'
    <2> SUFFICES ASSUME overrun', ~cut', Lines!Short PROVE FALSE
      BY <1>8 DEF Lines!OverrunNeedsLongLine
    <2> QED BY <1>1, <1>7 DEF LineInv, Lines!OverrunNeedsLongLine
  <1>11. LastInv'
    BY <1>1, <1>2, <1>7, <1>8 DEF LastInv
  <1>12. ConservesInv'
    <2> SUFFICES ASSUME service = "echo", is_init, sloop \notin Lines!Gone
                 PROVE  FlattenSeq(shown') \o (down' \o (sbuff \o up)) = FlattenSeq(Said)
      BY <1>1, <1>2 DEF ConservesInv, BothLive, Said, Lines!Line
    <2>1. FlattenSeq(shown) \o (down \o (sbuff \o up)) = FlattenSeq(Said)
      BY <1>1 DEF LineInv, ConservesInv, BothLive
    <2>2. FlattenSeq(shown') = FlattenSeq(shown) \o SubSeq(down, 1, n)
      BY <1>1, <1>3, <1>4, FlattenAppend
    <2>3. PICK f \in Seq(Bytes), a \in Seq(Bytes), b \in Seq(Bytes), r \in Seq(Bytes) :
                 f = FlattenSeq(shown) /\ a = SubSeq(down, 1, n) /\ b = Lines!Rest(down, n)
                 /\ r = sbuff \o up
      BY <1>3, <1>4, FlattenType, ConcatProperties DEF LineInv, LineTypes
    <2>4. Cat(Cat(f, a), Cat(b, r)) = Cat(f, Cat(Cat(a, b), r))
      BY CatAssociative, CatType
    <2> QED BY <1>1, <1>3, <2>1, <2>2, <2>3, <2>4, Zenon DEF Cat
  <1> QED BY <1>5, <1>6, <1>9, <1>10, <1>11, <1>12 DEF LineInv

\* recv of the client fails: what is printed is empty.
LEMMA ClientRecvFailsInv == ASSUME LineInv, Lines!ClientRecvFails PROVE LineInv'
  <1>1. /\ cloop = "recv" /\ cloop' = "input" /\ shown' = Append(shown, <<>>)
        /\ ~is_init \/ (sloop \in Lines!Gone /\ down = <<>>)
    BY DEF Lines!ClientRecvFails, Lines!Prints
  <1>2. UNCHANGED <<service, sloop, peer_list, sbuff, is_init, lines, up, down, cut, overrun, reset>>
    BY DEF Lines!ClientRecvFails, Lines!Prints, Lines!svars
  <1>3. /\ down = <<>> /\ (sloop \notin Lines!Gone => up = <<>> /\ sbuff = <<>> /\ ~is_init)
    BY <1>1 DEF LineInv, ConnectionInv
  <1>4. /\ shown \in Seq(Seq(Bytes)) /\ Len(lines) = Len(shown) + 1 /\ Len(shown) \in Nat
        /\ shown' \in Seq(Seq(Bytes)) /\ Len(shown') = Len(lines)
        /\ shown'[Len(lines)] = <<>>
        /\ \A k \in 1..Len(shown) : shown'[k] = shown[k]
        /\ DOMAIN shown' = 1..Len(lines) /\ DOMAIN shown = 1..Len(shown)
    <2>1. <<>> \in Seq(Bytes)
      OBVIOUS
    <2> QED BY <1>1, <2>1 DEF LineInv, LineTypes
  <1>5. LineTypes'
    BY <1>1, <1>2, <1>4 DEF LineInv, LineTypes
  <1>6. ConnectionInv' /\ LastInv'
    BY <1>1, <1>2, <1>3 DEF LineInv, ConnectionInv, LastInv
  <1>7. Lines!InStep'
    <2> SUFFICES ASSUME ~cut, Lines!Short, NEW k \in 1..Len(lines)
                 PROVE  shown'[k] = Lines!Line(k) \/ shown'[k] = <<>>
      BY <1>2, <1>4 DEF Lines!InStep, Lines!Line, Lines!Short
    <2>1. CASE k = Len(lines)
      BY <1>4, <2>1
    <2>2. CASE k # Len(lines)
      <3>1. k \in 1..Len(shown)
        BY <1>4, <2>2
      <3> QED BY <1>4, <3>1 DEF LineInv, Lines!InStep
    <2> QED BY <2>1, <2>2
  <1>8. Lines!OverrunNeedsLongLine' /\ ConservesInv'
    BY <1>2, <1>3 DEF LineInv, Lines!OverrunNeedsLongLine, Lines!Short, ConservesInv, BothLive
  <1> QED BY <1>5, <1>6, <1>7, <1>8 DEF LineInv

\* recv of the server: with lines that fit, and no cut, it brings the whole last line.
LEMMA ServerRecvInv ==
  ASSUME LineInv, NEW n \in 1..MAX_STR, Lines!ServerRecv(n)
  PROVE  LineInv'
  <1>1. /\ sloop = "serve" /\ sloop' = "answer" /\ n \in 1..Len(up) /\ n <= MAX_STR - 1
        /\ sbuff' = SubSeq(up, 1, n) /\ up' = Lines!Rest(up, n)
        /\ cut' \in BOOLEAN /\ (cut \/ (n < Len(up) /\ n < MAX_STR - 1) => cut')
    <2>1. up \in Seq(Bytes) /\ cut \in BOOLEAN
      BY DEF LineInv, LineTypes
    <2>2. MAX_STR \in Nat
      BY EchoFacts DEF Lines!LineAssumption
    <2>3. PICK l \in Nat : l = Len(up)
      BY <2>1
    <2>4. /\ n \in 1..Lines!Least(l, MAX_STR - 1)
          /\ cut' = (cut \/ n < Lines!Least(l, MAX_STR - 1))
      BY <2>3 DEF Lines!ServerRecv, Lines!Pieces, Lines!Cuts, Lines!ServerSize, Lines!ServerPieces
    <2>5. n <= l /\ n <= MAX_STR - 1
          /\ (n < Lines!Least(l, MAX_STR - 1) <=> n < l /\ n < MAX_STR - 1)
      BY <2>2, <2>4 DEF Lines!Least
    <2>6. n \in 1..l
      BY <2>5
    <2>7. /\ sloop = "serve" /\ sloop' = "answer"
          /\ sbuff' = SubSeq(up, 1, n) /\ up' = Lines!Rest(up, n)
      BY DEF Lines!ServerRecv
    <2>8. cut' \in BOOLEAN /\ (cut \/ (n < l /\ n < MAX_STR - 1) => cut')
      BY <2>1, <2>4, <2>5
    <2> QED BY <2>3, <2>5, <2>6, <2>7, <2>8
  <1>2. UNCHANGED <<service, peer_list, cloop, is_init, lines, shown, overrun, down, reset>>
    BY DEF Lines!ServerRecv, Lines!cvars
  <1>3. /\ SubSeq(up, 1, n) \in Seq(Bytes) /\ Len(SubSeq(up, 1, n)) = n /\ SubSeq(up, 1, n) # <<>>
        /\ Lines!Rest(up, n) \in Seq(Bytes)
        /\ SubSeq(up, 1, n) \o Lines!Rest(up, n) = up
        /\ n = Len(up) => SubSeq(up, 1, n) = up /\ Lines!Rest(up, n) = <<>>
        /\ up # <<>>
    <2>1. up \in Seq(Bytes) /\ n \in 1..Len(up)
      BY <1>1 DEF LineInv, LineTypes
    <2>2. up # <<>>
      BY <2>1
    <2>3. SubSeq(up, 1, n) \in Seq(Bytes) /\ Lines!Rest(up, n) \in Seq(Bytes)
      BY <2>1, Split
    <2>5. Len(SubSeq(up, 1, n)) = n /\ SubSeq(up, 1, n) # <<>>
      <3>1. n \in Nat /\ Len(up) \in Nat /\ n >= 1 /\ n <= Len(up)
        BY <2>1
      <3>2. Len(SubSeq(up, 1, n)) = n
        BY <2>1, <3>1
      <3> QED BY <3>1, <3>2
    <2>4. /\ SubSeq(up, 1, n) \o Lines!Rest(up, n) = up
          /\ n = Len(up) => SubSeq(up, 1, n) = up /\ Lines!Rest(up, n) = <<>>
      BY <2>1, Split
    <2> QED BY <2>2, <2>3, <2>4, <2>5, Zenon
  <1>4. is_init /\ sbuff = <<>> /\ sloop \notin Lines!Gone /\ sloop' \notin Lines!Gone
    BY <1>1 DEF LineInv, ConnectionInv, Lines!Gone
  <1>5. LineTypes'
    BY <1>1, <1>2, <1>3 DEF LineInv, LineTypes
  <1>6. ConnectionInv'
    BY <1>1, <1>2, <1>3, <1>4 DEF LineInv, ConnectionInv
  <1>7. cut => cut'
    BY <1>1
  <1>8. LastInv'
    <2> SUFFICES ASSUME ~cut', Lines!Short, cloop # "dead"
                 PROVE  /\ cloop = "recv" /\ down = <<>> /\ up' = <<>> /\ sbuff' = LastLine
      BY <1>2, <1>7, LinesSame DEF LastInv, OnlyLast, LineInv, LineTypes
    <2>1. ~cut /\ ~(n < Len(up) /\ n < MAX_STR - 1)
      BY <1>1, Zenon
    <2>2. cloop = "recv" /\ up = LastLine /\ down = <<>>
      BY <1>3, <1>4, <2>1 DEF LineInv, LineTypes, LastInv, OnlyLast
    <2>3. Len(lines) \in 1..Len(lines) /\ Len(lines) \in Nat
      BY <2>2 DEF LineInv, LineTypes
    <2>4. Len(LastLine) = lines[Len(lines)] /\ lines[Len(lines)] \in Nat
      BY <2>3, LineFacts DEF LineInv, LastLine
    <2>5. lines[Len(lines)] \in 1..(MAX_STR - 1)
      BY <2>3 DEF Lines!Short, LineInv, LineTypes
    <2>6. n = Len(up)
      <3>1. /\ n \in Nat /\ n <= Len(up) /\ Len(up) \in Nat /\ Len(up) <= MAX_STR - 1
            /\ MAX_STR \in Nat
        BY <1>1, <2>2, <2>4, <2>5, EchoFacts DEF Lines!LineAssumption
      <3> QED BY <2>1, <3>1
    <2> QED BY <1>1, <1>3, <2>2, <2>6
  <1>9. ConservesInv'
    <2> SUFFICES ASSUME service = "echo", cloop # "dead"
                 PROVE  FlattenSeq(shown) \o (down \o (sbuff' \o up')) = FlattenSeq(Said)
      BY <1>2 DEF ConservesInv, BothLive, Said, Lines!Line
    <2>1. FlattenSeq(shown) \o (down \o (sbuff \o up)) = FlattenSeq(Said)
      BY <1>4 DEF LineInv, ConservesInv, BothLive
    <2>2. Cat(sbuff, up) = up
      BY <1>4, CatEmpty DEF LineInv, LineTypes
    <2> QED BY <1>1, <1>3, <2>1, <2>2, Zenon DEF Cat
  <1> QED BY <1>2, <1>5, <1>6, <1>7, <1>8, <1>9, LinesSame DEF LineInv

\* The last line is a request of the calculator, and what it sends for it is that line.
LEMMA Answers ==
  ASSUME LineTypes, NEW text \in Seq(Bytes)
  PROVE  /\ Lines!Answer(text) \in Seq(Bytes)
         /\ service = "echo" => Lines!Answer(text) = text
         /\ Lines!Short /\ lines # <<>> /\ text = LastLine => Lines!Answer(text) = text
  <1>1. <<Lines!Garbled>> \in Seq(Bytes)
    BY EchoFacts DEF Lines!Garbled, Bytes, Lines!Bytes, Lines!LineAssumption
  <1>2. ASSUME Lines!Short, lines # <<>>, text = LastLine
        PROVE  Lines!Request(text) # Lines!Garbled
    <2> DEFINE whole == {n \in DOMAIN lines : lines[n] > 0 /\ text = Lines!Line(n)}
    <2>1. Len(lines) \in DOMAIN lines /\ DOMAIN lines = 1..Len(lines) /\ Len(lines) \in Nat
      BY <1>2 DEF LineTypes
    <2>2. lines[Len(lines)] > 0
      BY <1>2, <2>1 DEF Lines!Short
    <2>3. Len(lines) \in whole
      BY <1>2, <2>1, <2>2 DEF LastLine
    <2>4. Lines!Request(text) = CHOOSE n \in whole : TRUE
      BY <2>3 DEF Lines!Request
    <2>5. Lines!Request(text) \in whole
      BY <2>3, <2>4
    <2>6. 0 \notin whole
      BY <2>1
    <2> QED BY <2>5, <2>6 DEF Lines!Garbled
  <1> QED BY <1>1, <1>2 DEF Lines!Answer, LineTypes

\* send of the server.
LEMMA ServerSendInv == ASSUME LineInv, Lines!ServerSend PROVE LineInv'
  <1>1. /\ sloop = "answer" /\ sloop' = "serve" /\ sbuff' = <<>>
        /\ down' = IF cloop = "dead" THEN down ELSE down \o Lines!Answer(sbuff)
        /\ reset' = (reset \/ cloop = "dead")
    BY DEF Lines!ServerSend
  <1>2. UNCHANGED <<service, peer_list, cloop, is_init, lines, shown, overrun, up, cut>>
    BY DEF Lines!ServerSend, Lines!cvars
  <1>3. is_init /\ sbuff # <<>> /\ sloop \notin Lines!Gone /\ sloop' \notin Lines!Gone
    BY <1>1 DEF LineInv, ConnectionInv, Lines!Gone
  <1>4. /\ Lines!Answer(sbuff) \in Seq(Bytes)
        /\ service = "echo" => Lines!Answer(sbuff) = sbuff
        /\ Lines!Short /\ lines # <<>> /\ sbuff = LastLine => Lines!Answer(sbuff) = sbuff
    BY Answers DEF LineInv, LineTypes
  <1>5. LineTypes'
    <2>1. down' \in Seq(Bytes)
      <3>1. down \in Seq(Bytes) /\ down \o Lines!Answer(sbuff) \in Seq(Bytes)
        BY <1>4 DEF LineInv, LineTypes
      <3> QED BY <1>1, <3>1
    <2>2. reset' \in BOOLEAN /\ <<>> \in Seq(Bytes) /\ Len(<<>>) <= MAX_STR - 1
      BY <1>1, EchoFacts DEF Lines!LineAssumption, LineInv, LineTypes
    <2> QED BY <1>1, <1>2, <2>1, <2>2 DEF LineInv, LineTypes
  <1>6. ConnectionInv'
    BY <1>1, <1>2, <1>3 DEF LineInv, ConnectionInv
  <1>7. LastInv'
    <2> SUFFICES ASSUME ~cut, Lines!Short, cloop # "dead"
                 PROVE  cloop = "recv" /\ down' = LastLine /\ up = <<>>
      BY <1>1, <1>2, LinesSame DEF LastInv, OnlyLast, LineInv, LineTypes
    <2>1. cloop = "recv" /\ sbuff = LastLine /\ down = <<>> /\ up = <<>>
      BY <1>3 DEF LineInv, LineTypes, LastInv, OnlyLast
    <2>2. lines # <<>>
      BY <2>1 DEF LineInv, LineTypes
    <2>3. Cat(down, sbuff) = sbuff
      BY <2>1, CatEmpty DEF LineInv, LineTypes
    <2> QED BY <1>1, <1>4, <2>1, <2>2, <2>3, Zenon DEF Cat
  <1>8. ConservesInv'
    <2> SUFFICES ASSUME service = "echo", cloop # "dead"
                 PROVE  FlattenSeq(shown) \o (down' \o (sbuff' \o up)) = FlattenSeq(Said)
      BY <1>2 DEF ConservesInv, BothLive, Said, Lines!Line
    <2>1. FlattenSeq(shown) \o (down \o (sbuff \o up)) = FlattenSeq(Said)
      BY <1>3 DEF LineInv, ConservesInv, BothLive
    <2>2. Cat(<<>>, up) = up /\ Cat(Cat(down, sbuff), up) = Cat(down, Cat(sbuff, up))
      BY CatEmpty, CatAssociative DEF LineInv, LineTypes
    <2>3. down' = Cat(down, sbuff)
      BY <1>1, <1>4 DEF Cat
    <2> QED BY <1>1, <2>1, <2>2, <2>3, Zenon DEF Cat
  <1> QED BY <1>2, <1>5, <1>6, <1>7, <1>8, LinesSame DEF LineInv

\* send of the server fails only after the client has gone.
LEMMA ServerSendFailsInv == ASSUME LineInv, Lines!ServerSendFails PROVE LineInv'
  <1>1. /\ sloop = "answer" /\ reset /\ sbuff' = <<>> /\ peer_list' = 0
        /\ sloop' \in {"serve", "ended"}
    BY DEF Lines!ServerSendFails, Lines!Erased
  <1>2. UNCHANGED <<service, cloop, is_init, lines, shown, overrun, up, down, reset, cut>>
    BY DEF Lines!ServerSendFails, Lines!cvars
  <1>3. cloop = "dead" /\ is_init
    BY <1>1 DEF LineInv, ConnectionInv
  <1>4. LineTypes'
    <2>1. <<>> \in Seq(Bytes) /\ Len(<<>>) <= MAX_STR - 1
      BY EchoFacts DEF Lines!LineAssumption
    <2> QED BY <1>1, <1>2, <2>1 DEF LineInv, LineTypes
  <1>5. ConnectionInv' /\ LastInv' /\ ConservesInv'
    BY <1>1, <1>2, <1>3 DEF LineInv, ConnectionInv, LastInv, ConservesInv, BothLive
  <1> QED BY <1>2, <1>4, <1>5, LinesSame DEF LineInv

LEMMA LineStep == ASSUME LineInv, [Lines!Next]_(Lines!vars) PROVE LineInv'
  <1>1. CASE Lines!ClientStep
    BY <1>1, ClientRecvInv, ClientRecvFailsInv DEF Lines!ClientStep
  <1>2. CASE Lines!ServerStep
    BY <1>2, ServerRecvInv, ServerSendInv, ServerSendFailsInv, QuietInv DEF Lines!ServerStep
  <1> QED BY <1>1, <1>2, QuietInv, ConnectInv, ReadAndSendInv DEF Lines!Next

\* What LineServer promises of its bytes follows.
LEMMA LineKept ==
  ASSUME LineInv
  PROVE  Lines!TypeOK /\ Lines!InStep /\ Lines!EchoConserves /\ Lines!OverrunNeedsLongLine
  <1>1. Lines!TypeOK
    <2>1. sbuff \in Lines!BoundedSeq(Bytes, MAX_STR - 1)
      <3>1. Len(sbuff) \in 0..(MAX_STR - 1) /\ sbuff \in [1..Len(sbuff) -> Bytes]
        BY EchoFacts, SMTT(30) DEF LineInv, LineTypes, Lines!LineAssumption
      <3> QED BY <3>1 DEF Lines!BoundedSeq, Lines!SeqOf
    <2>2. Lines!ToSet(shown) \subseteq Seq(Bytes)
      BY DEF LineInv, LineTypes, Lines!ToSet
    <2> QED BY <2>1, <2>2 DEF Lines!TypeOK, LineInv, LineTypes, Bytes
  <1>2. Lines!EchoConserves
    <2> SUFFICES ASSUME service = "echo", is_init, BothLive
                 PROVE  FlattenSeq(shown) \o down \o sbuff \o up = FlattenSeq(Said)
      <3>1. Said = [n \in DOMAIN lines |-> Lines!Line(n)]
        BY DEF Said, LineInv, LineTypes
      <3>2. ASSUME NEW ss PROVE Lines!FlattenSeq(ss) = FlattenSeq(ss)
        BY Zenon DEF Lines!FlattenSeq, FlattenSeq
      <3> QED BY <3>1, <3>2, Zenon DEF Lines!EchoConserves, BothLive
    <2>1. FlattenSeq(shown) \o (down \o (sbuff \o up)) = FlattenSeq(Said)
      BY DEF LineInv, ConservesInv
    <2>2. /\ FlattenSeq(shown) \in Seq(Bytes) /\ down \in Seq(Bytes) /\ sbuff \in Seq(Bytes)
          /\ up \in Seq(Bytes)
      BY FlattenType DEF LineInv, LineTypes
    <2>3. Cat(Cat(Cat(FlattenSeq(shown), down), sbuff), up)
            = Cat(FlattenSeq(shown), Cat(down, Cat(sbuff, up)))
      BY <2>2, CatAssociative, CatType
    <2> QED BY <2>1, <2>3, Zenon DEF Cat
  <1> QED BY <1>1, <1>2 DEF LineInv

-----------------------------------------------------------------------------
(* The three programs                                                        *)

MCInv == Inv /\ LineInv /\ EchoInv

LEMMA MCStep ==
  ASSUME MCInv, [MCNext]_<<program, httpVars, lineVars, echoVars>>
  PROVE  MCInv'
  <1>1. [Next]_vars /\ [Lines!Next]_(Lines!vars) /\ [Echo!Next]_(Echo!vars)
    <2>1. /\ UNCHANGED httpVars => UNCHANGED vars
          /\ UNCHANGED lineVars => UNCHANGED Lines!vars
          /\ UNCHANGED echoVars => UNCHANGED Echo!vars
      BY DEF httpVars, lineVars, echoVars, Lines!vars, Lines!svars, Lines!cvars,
             Echo!vars, Echo!nvars, Echo!cvars
    <2>2. UNCHANGED <<program, httpVars, lineVars, echoVars>> =>
            UNCHANGED httpVars /\ UNCHANGED lineVars /\ UNCHANGED echoVars
      OBVIOUS
    <2>3. UNCHANGED <<lineVars, echoVars>> => UNCHANGED lineVars /\ UNCHANGED echoVars
      OBVIOUS
    <2>4. UNCHANGED <<httpVars, echoVars>> => UNCHANGED httpVars /\ UNCHANGED echoVars
      OBVIOUS
    <2>5. UNCHANGED <<httpVars, lineVars>> => UNCHANGED httpVars /\ UNCHANGED lineVars
      OBVIOUS
    <2> QED BY <2>1, <2>2, <2>3, <2>4, <2>5, Zenon DEF MCNext
  <1> QED BY <1>1, NextInv, LineStep, EchoStep DEF MCInv

LEMMA MCInvariant == MCSpec => []MCInv
  <1>1. MCInit => MCInv
    BY InitInv, LineInitInv, EchoInitInv DEF MCInit, MCInv
  <1> QED BY <1>1, MCStep, PTL DEF MCSpec

\* Each program keeps its types: what TcpServer's read brings leaves room for the zero it
\* writes after it, and no client has printed more than it has asked.
THEOREM TypesCorrect == MCSpec => []TypesOK
  <1>1. MCInv => TypesOK
    BY LineKept, EchoKept DEF MCInv, Inv, TypesOK
  <1> QED BY <1>1, MCInvariant, PTL

\* Nothing in a stream or a datagram says which line it answers, yet TcpClient prints the
\* answers in step with its lines while no read cuts the stream and no line is as long as
\* the server's buffer, the echo loses and reorders no byte, and a client of UdpServer gets
\* at most as many answers too many as there were mishaps.
THEOREM AnswersStayInStep == MCSpec => []AnswersInStep
  <1>1. MCInv => AnswersInStep
    BY LineKept, EchoKept DEF MCInv, AnswersInStep
  <1> QED BY <1>1, MCInvariant, PTL

=============================================================================
