---------------------------- MODULE TcpTransfer ----------------------------
(***************************************************************************)
(* A TCPSender and a TCPReceiver (CS144_note/Lab3.md, Lab2.md) and the     *)
(* network between them, which loses, repeats and reorders. Their owner,   *)
(* outside the repository, calls push after each write and each reply and  *)
(* sends what TCPReceiver::send gives after each segment that comes.       *)
(***************************************************************************)
EXTENDS TcpReceiver

CONSTANTS
  Inputs,      \* how many bytes the sending application may write before it closes
  MaxMishaps,  \* bound: messages the network loses or repeats
  MaxFlight,   \* bound: different messages in flight each way
  MaxProbes    \* bound: probes of a closed window

\* A stream is shorter than half a cycle of sequence numbers, so that a number stands for
\* one byte of it however long the network keeps a message.
TransferAssumption ==
  /\ Inputs \subseteq 0..Length
  /\ Half > 1 /\ \A n \in Inputs : n < Half
  /\ MaxMishaps \in Nat /\ MaxProbes \in Nat /\ MaxFlight \in Nat \ {0}

VARIABLES
  input, SeqFNum, next_seq, RWSize, last_ackno, is_SYNed, is_FINed, window,
  zero_window_probe, probing, probe_msg, undefined, probes, up,  \* of TcpSender
  prompt,   \* the receiving application reads all there is before each reply
  down,     \* the replies in flight
  replies,  \* the receiver has a segment to answer
  mishaps   \* counts what the network has lost or repeated

Sender == INSTANCE TcpSender

svars == <<input, SeqFNum, next_seq, RWSize, last_ackno, is_SYNed, is_FINed, window,
           zero_window_probe, probing, probe_msg, undefined, probes>>
nvars == <<up, prompt, down, replies, mishaps>>
allvars == <<vars, svars, nvars>>

TransferInit ==
  /\ Init
  /\ \E n \in Inputs : Sender!SenderInit(n)
  /\ prompt \in BOOLEAN
  /\ down = {} /\ replies = FALSE /\ mishaps = 0

\* The sending application writes the next byte, or closes the stream after the last:
\* the capacity of input is as large as all it writes.
Write ==
  /\ ~input.close
  /\ input' = (IF input.bytes_pushed < input.capacity
               THEN Push(input, <<input.bytes_pushed>>) ELSE Close(input))
  /\ UNCHANGED <<vars, nvars, SeqFNum, next_seq, RWSize, last_ackno, is_SYNed, is_FINed, window,
                 zero_window_probe, probing, probe_msg, undefined, probes>>

SenderStep ==
  /\ Sender!PushSegment \/ Sender!PushZWP \/ Sender!Timeout
  /\ UNCHANGED <<vars, prompt, down, replies, mishaps>>

Mishap == mishaps < MaxMishaps /\ mishaps' = mishaps + 1

\* A message that is received, and may come again
SegmentArrives(m) ==
  /\ Receive(m)
  /\ \/ up' = up \ {m} /\ UNCHANGED mishaps
     \/ Mishap /\ UNCHANGED up
  /\ replies' = TRUE
  /\ UNCHANGED <<svars, prompt, down>>

Reply ==
  /\ replies
  /\ prompt => output.buffer = <<>>
  /\ Cardinality(down) < MaxFlight
  /\ replies' = FALSE
  /\ down' = down \cup {[ackno |-> IF SYN = 0 THEN Sender!NoAckno ELSE Wrap(ackno, zero_point),
                         window_size |-> window_size, RST |-> output.error]}
  /\ UNCHANGED <<vars, svars, up, prompt, mishaps>>

ReplyArrives(a) ==
  /\ Sender!ReceiveReply(a)
  /\ \/ down' = down \ {a} /\ UNCHANGED mishaps
     \/ Mishap /\ UNCHANGED down
  /\ UNCHANGED <<vars, up, prompt, replies>>

Lose ==
  /\ Mishap
  /\ \/ \E m \in up : up' = up \ {m} /\ UNCHANGED down
     \/ \E a \in down : down' = down \ {a} /\ UNCHANGED up
  /\ UNCHANGED <<vars, svars, prompt, replies>>

ApplicationReads == Application /\ UNCHANGED <<svars, nvars>>

TransferNext ==
  /\ ~undefined
  /\ \/ Write \/ SenderStep \/ Reply \/ Lose \/ ApplicationReads
     \/ \E m \in up : SegmentArrives(m)
     \/ \E a \in down : ReplyArrives(a)

TransferSpec == TransferInit /\ [][TransferNext]_allvars

-----------------------------------------------------------------------------
(* Properties                                                              *)

\* A byte that the sender has taken from its input is at the receiver, or in a segment
\* that the sender still has, to send it again.
Payloads(segments) == UNION {Range(segments[k].payload) : k \in DOMAIN segments}
NothingForgotten ==
  waiting_index..(input.bytes_popped - 1) \subseteq Payloads(window \o probe_msg)

\* What the sender counts as in flight is what has not been acknowledged to it.
FlightCounted == SeqFNum = next_seq - last_ackno

\* Nothing is acknowledged that has not come. And while the receiving application keeps
\* the window open and the connection is not finished, the sender forgets nothing that
\* has not come and counts what is in flight, whatever is lost, repeated or overtaken.
SenderSound ==
  /\ ~undefined => last_ackno <= ackno
  /\ prompt /\ FIN = 0 => NothingForgotten /\ FlightCounted
=============================================================================
