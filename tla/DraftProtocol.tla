--------------------------- MODULE DraftProtocol ---------------------------
(***************************************************************************)
(* The draft of the calculator's protocol in TcpServer_v3 (Protocol.cc):   *)
(* ProtocolServer and ProtocolClient, one on each side of a connection.    *)
(* No program of the repository uses it: the callers are the environment,  *)
(* which calls obtain and deliver of either side in any order.             *)
(*                                                                         *)
(* A frame is <length>\r\n<payload>\r\n; its payload ends with the newline *)
(* of Json::FastWriter. Bytes are positions in the stream towards a side.  *)
(* buff_ is always an interval of them: erased+1 .. received.              *)
(***************************************************************************)
EXTENDS Integers, Sequences, FiniteSetsExt

CONSTANTS
  NumberLen,   \* the digits of a length
  PayloadLen,  \* the bytes of a payload: of a request (to the server), of a result
  MaxFrames    \* bound: the frames that deliver sends to a side

Side == {"server", "client"}

DraftAssumption ==
  /\ NumberLen \in Nat \ {0} /\ MaxFrames \in Nat
  /\ PayloadLen \in [Side -> Nat \ {0, 1}]  \* the newline is not all of it

VARIABLES
  delivered,  \* the frames delivered to each side
  received,   \* the bytes recv has appended to buff_,
  erased,     \* and those that obtain has erased
  taken,      \* the messages obtain has returned, Garbage for uninitialised ones
  state       \* open, closed (by the destructor) or dead (stoi has thrown)

vars == <<delivered, received, erased, taken, state>>

\* size_t. Any modulus beyond the lengths that occur stands for 2^64.
Wide == 2^20

\* An uninitialised Info or Result
Garbage == 0

FrameLen(s) == NumberLen + 2 + PayloadLen[s] + 2
Place(s, i) == ((i - 1) % FrameLen(s)) + 1

\* The characters that find_first_of("\r\n") finds
IsEnd(s, i) ==
  Place(s, i) \in {NumberLen + 1, NumberLen + 2} \cup
                  {NumberLen + 2 + PayloadLen[s] + k : k \in 0..2}
IsDigit(s, i) == Place(s, i) <= NumberLen

Init ==
  /\ delivered = [s \in Side |-> 0]
  /\ received = [s \in Side |-> 0] /\ erased = [s \in Side |-> 0]
  /\ taken = [s \in Side |-> <<>>]
  /\ state = [s \in Side |-> "open"]

Peer(s) == CHOOSE t \in Side : t # s

-----------------------------------------------------------------------------
(* obtain, on a buffer that holds the positions from+1 .. to               *)

\* find_first_of, 0 for npos
FirstEnd(s, from, to) ==
  LET ends == {i \in (from + 1)..to : IsEnd(s, i)}
  IN  IF ends = {} THEN 0 ELSE Min(ends) - from

\* stoi of what is in front of it throws unless a digit comes first.
HasNumber(s, from) == IsDigit(s, from + 1)

\* buff_.size() - number_area_len - 2 < number: also false where the difference
\* is below zero.
Short(s, from, to) ==
  (to - from - (FirstEnd(s, from, to) - 1) - 2) % Wide < PayloadLen[s]

\* deserialize: the text up to the first end of what follows the number
TextOf(s, from, to) ==
  LET after == from + FirstEnd(s, from, to) - 1
  IN  (after + 1)..(after + FirstEnd(s, after, to) - 1)

\* The texts are those of the payloads, without their newline.
Parsed(s, from, to) ==
  LET text(q) == LET start == (q - 1) * FrameLen(s) + NumberLen + 2
                 IN  (start + 1)..(start + PayloadLen[s] - 1)
      fits == {q \in 1..MaxFrames : TextOf(s, from, to) = text(q)}
  IN  IF fits = {} THEN Garbage ELSE Min(fits)

\* The two calls of erase: the number, then what is in front of the next end, which
\* comes first. Mutant: the message is erased.
Erased_Message(s, from, to) == from + FrameLen(s)
Erased(s, from, to) ==
  LET after == from + FirstEnd(s, from, to) - 1
  IN  after + FirstEnd(s, after, to) - 1

\* What obtain does with the bytes it has: it returns false, throws or takes a message.
Incomplete(s, from, to) ==
  \/ FirstEnd(s, from, to) = 0
  \/ HasNumber(s, from) /\ Short(s, from, to)

Throws(s, from, to) == FirstEnd(s, from, to) # 0 /\ ~HasNumber(s, from)

Obtain(s) ==
  /\ state[s] = "open"
  /\ \E to \in (received[s] + 1)..(delivered[s] * FrameLen(s)) :
       /\ received' = [received EXCEPT ![s] = to]
       /\ \/ Incomplete(s, erased[s], to) /\ UNCHANGED <<erased, taken, state>>
          \/ /\ Throws(s, erased[s], to)
             /\ state' = [state EXCEPT ![s] = "dead"]
             /\ UNCHANGED <<erased, taken>>
          \/ /\ ~Incomplete(s, erased[s], to) /\ ~Throws(s, erased[s], to)
             /\ taken' = [taken EXCEPT ![s] = Append(@, Parsed(s, erased[s], to))]
             /\ erased' = [erased EXCEPT ![s] = Erased(s, erased[s], to)]
             /\ UNCHANGED state
  /\ UNCHANGED delivered

ServerObtain == Obtain("server")
ClientObtain == Obtain("client")

-----------------------------------------------------------------------------
(* deliver, and the end of a side                                          *)

Deliver(s) ==
  /\ state[s] = "open"
  /\ delivered[Peer(s)] < MaxFrames
  /\ delivered' = [delivered EXCEPT ![Peer(s)] = @ + 1]
  /\ UNCHANGED <<received, erased, taken, state>>

ServerDeliver == Deliver("server")
ClientDeliver == Deliver("client")

\* The destructor. From now on the other side's obtain returns false,
Close(s) ==
  /\ state[s] = "open"
  /\ state' = [state EXCEPT ![s] = "closed"]
  /\ UNCHANGED <<delivered, received, erased, taken>>

\* or recv exits, when this side has left bytes unread.
Reset(s) ==
  /\ state[s] = "open" /\ state[Peer(s)] # "open"
  /\ received[Peer(s)] < delivered[Peer(s)] * FrameLen(Peer(s))
  /\ state' = [state EXCEPT ![s] = "dead"]
  /\ UNCHANGED <<delivered, received, erased, taken>>

Next ==
  \/ ServerObtain \/ ServerDeliver \/ ClientObtain \/ ClientDeliver
  \/ \E s \in Side : Close(s) \/ Reset(s)

Spec == Init /\ [][Next]_vars

-----------------------------------------------------------------------------
(* Properties                                                              *)

TypeOK ==
  /\ delivered \in [Side -> 0..MaxFrames]
  /\ state \in [Side -> {"open", "closed", "dead"}]
  /\ \A s \in Side :
       /\ taken[s] \in Seq(0..MaxFrames)
       /\ received[s] \in 0..(delivered[s] * FrameLen(s))
       /\ erased[s] \in 0..received[s]

\* However the stream is cut, a side takes at most one message in its life, and never
\* one that was sent: what stays in buff_ begins with no number, so the next obtain
\* that receives anything throws.
NeverARequest ==
  \A s \in Side : Len(taken[s]) <= 1 /\ \A i \in DOMAIN taken[s] : taken[s][i] = Garbage
=============================================================================
