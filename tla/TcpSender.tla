----------------------------- MODULE TcpSender -----------------------------
(***************************************************************************)
(* TCPSender (CS144_note/Lab3.md): segments are cut from input_, sent and  *)
(* kept in window_ until they are acknowledged. The simple mode is for an  *)
(* open window, the zero-window-probe mode for a closed one. A byte is     *)
(* represented by its index in the stream.                                 *)
(*                                                                         *)
(* Windows and streams are shorter than what peek and a segment hold (128  *)
(* and 1000 bytes), so a push sends one segment at most. Differences of    *)
(* uint64_t that go below zero are huge; here they are negative. The timer *)
(* is left out: a tick may time out whenever there is something to send    *)
(* again, and RTO_ and CRT_ decide nothing else.                           *)
(***************************************************************************)
EXTENDS ByteStream, Wrap32, SequencesExt

CONSTANTS
  MaxFlight,  \* bound: different segments in flight
  MaxProbes   \* bound: probes sent

VARIABLES
  isn,          \* isn_
  input,        \* input_
  SeqFNum,      \* SeqFNum_, sequence numbers in flight
  next_seq,     \* next_seq_, absolute
  RWSize,       \* RWSize_, the receiver's window
  last_ackno,   \* last_ackno_, absolute
  is_SYNed, is_FINed,
  window,       \* window_: the segments in flight
  zero_window_probe,  \* zero_window_probe_: the mode
  probing,      \* is_zero_window_probeing_
  probe_msg,    \* zero_window_probe_msg_
  undefined,    \* pop_back has been called on the empty probe_msg, or an ackno that is
                \* not there has been read: nothing is said of what follows
  probes,       \* counts the probes
  up            \* the segments in flight

svars == <<isn, input, SeqFNum, next_seq, RWSize, last_ackno, is_SYNed, is_FINed, window,
           zero_window_probe, probing, probe_msg, undefined, probes>>

One(b) == IF b THEN 1 ELSE 0
sequence_length(m) == One(m.SYN) + Len(m.payload) + One(m.FIN)

SenderTypeOK ==
  /\ {next_seq, last_ackno, input.bytes_popped} \subseteq Nat
  /\ SeqFNum \in Int
  /\ RWSize \in Nat
  /\ {is_SYNed, is_FINed, zero_window_probe, probing, undefined} \subseteq BOOLEAN
  /\ \A k \in DOMAIN window : sequence_length(window[k]) > 0
  /\ probing => probe_msg # <<>>

SenderInit(capacity) ==
  /\ input = NewStream(capacity)
  /\ SeqFNum = 0 /\ next_seq = 0 /\ RWSize = 0 /\ last_ackno = 0
  /\ is_SYNed = FALSE /\ is_FINed = FALSE
  /\ window = <<>>
  /\ zero_window_probe = FALSE /\ probing = FALSE /\ probe_msg = <<>>
  /\ undefined = FALSE /\ probes = 0
  /\ up = {}

NoAckno == -1  \* the ackno of a reply sent before the SYN came

\* The caller's TransmitFunction
transmit(m) == Cardinality(up) < MaxFlight /\ up' = up \cup {m}

\* make_empty_message with its SYN, payload and FIN
Message(syn, payload, fin) ==
  [seqno |-> Wrap(next_seq, isn), SYN |-> syn, payload |-> payload, FIN |-> fin,
   RST |-> input.error]

\* push_simple_mode_: the payload that the room in the window allows
Room == RWSize - SeqFNum
Payload(syn) ==
  IF Room = One(syn) THEN <<>>
  ELSE IF Room > One(syn) THEN Fitting(NewStream(Room), input.buffer) ELSE input.buffer

FitsFIN(used) == ~is_FINed /\ Room # used

PushSimple(syn) ==
  LET payload == Payload(syn)
      rest    == Pop(input, Len(payload))
      m       == Message(syn, payload, FitsFIN(One(syn) + Len(payload)) /\ is_finished(rest))
  IN  /\ sequence_length(m) # 0
      /\ input' = rest
      /\ is_SYNed' = TRUE
      /\ is_FINed' = (is_FINed \/ m.FIN)
      /\ next_seq' = next_seq + sequence_length(m)
      /\ SeqFNum' = SeqFNum + sequence_length(m)
      /\ window' = Append(window, m)
      /\ transmit(m)
      /\ UNCHANGED <<isn, RWSize, last_ackno, zero_window_probe, probing, probe_msg, undefined, probes>>

\* push in the simple mode: the SYN, or data, or the FIN
PushSegment ==
  /\ ~zero_window_probe
  /\ \/ ~is_SYNed
     \/ Room > 0 /\ ~is_FINed /\ input.buffer # <<>>
     \/ FitsFIN(0) /\ is_finished(input)
  /\ PushSimple(~is_SYNed)

\* push_ZWP_mode_ with segments in flight: one number of the first of them, which keeps
\* no more than that of its payload
ProbeWindow ==
  /\ window # <<>>
  /\ LET first == Head(window)
         m == IF first.SYN THEN Message(TRUE, <<>>, FALSE)
              ELSE IF first.payload # <<>> THEN Message(FALSE, SubSeq(first.payload, 1, 1), FALSE)
              ELSE Message(FALSE, <<>>, TRUE)
         left == IF first.SYN THEN [first EXCEPT !.SYN = FALSE]
                 ELSE IF first.payload # <<>> THEN [first EXCEPT !.payload = SubSeq(@, 1, 1)]
                 ELSE [first EXCEPT !.FIN = FALSE]
     IN  /\ window' = (IF sequence_length(left) = 0 THEN Tail(window)
                       ELSE [window EXCEPT ![1] = left])
         /\ probe_msg' = Append(probe_msg, m)
         /\ transmit(m)
  /\ UNCHANGED <<input, next_seq, SeqFNum, is_SYNed, is_FINed>>

\* push_ZWP_mode_ without: one new number
ProbeStream ==
  /\ window = <<>>
  /\ LET fin == input.buffer = <<>>
         m == Message(FALSE, Fitting(NewStream(1), input.buffer), fin)
     IN  /\ fin => is_finished(input) /\ ~is_FINed
         /\ input' = Pop(input, 1)
         /\ is_FINed' = (is_FINed \/ fin)
         /\ probe_msg' = Append(probe_msg, m)
         /\ transmit(m)
  /\ next_seq' = next_seq + 1
  /\ SeqFNum' = SeqFNum + 1
  /\ UNCHANGED <<window, is_SYNed>>

PushZWP ==
  /\ zero_window_probe /\ ~probing
  /\ probes < MaxProbes /\ probes' = probes + 1
  /\ probing' = TRUE
  /\ ProbeWindow \/ ProbeStream
  /\ UNCHANGED <<isn, RWSize, last_ackno, zero_window_probe, undefined>>

\* tick when the time is up: the oldest segment, or the probe, is sent again
Timeout ==
  /\ IF zero_window_probe
     THEN probe_msg # <<>> /\ transmit(Head(probe_msg))
     ELSE window # <<>> /\ transmit(Head(window))
  /\ UNCHANGED svars

\* Mutant: a segment is freed once its first number is acknowledged.
AcksWhole_First(m, ackno) == Unwrap(m.seqno, isn, last_ackno) < ackno
AcksWhole(m, ackno) == Unwrap(m.seqno, isn, last_ackno) + sequence_length(m) <= ackno

\* receive: an ackno of new data frees the segments it covers.
Acknowledge(ackno) ==
  IF next_seq - SeqFNum < ackno /\ ackno <= next_seq
  THEN LET kept == {k \in DOMAIN window : ~AcksWhole(window[k], ackno)}
           from == IF kept = {} THEN Len(window) ELSE (CHOOSE k \in kept : \A j \in kept : k <= j) - 1
       IN  /\ window' = SubSeq(window, from + 1, Len(window))
           /\ SeqFNum' = SeqFNum - (ackno - last_ackno)
           /\ last_ackno' = ackno
  ELSE UNCHANGED <<window, SeqFNum, last_ackno>>

\* receive while no probe is out: in either mode
ReceiveAck(a) ==
  /\ ~zero_window_probe
  /\ Acknowledge(Unwrap(a.ackno, isn, last_ackno))
  /\ UNCHANGED <<probing, probe_msg, undefined>>

\* receive in the zero-window-probe mode: whatever comes answers the probe.
ReceiveProbed(a) ==
  /\ zero_window_probe
  /\ probing' = FALSE
  /\ SeqFNum' = SeqFNum - 1
  /\ last_ackno' = Unwrap(a.ackno, isn, last_ackno)
  /\ undefined' = (probe_msg = <<>>)
  /\ probe_msg' = (IF probe_msg = <<>> THEN <<>> ELSE Front(probe_msg))
  /\ UNCHANGED window

ReceiveReply(a) ==
  /\ input' = (IF a.RST THEN SetError(input) ELSE input)
  /\ RWSize' = a.window_size
  /\ zero_window_probe' = (a.window_size = 0)
  /\ IF a.ackno = NoAckno
     THEN undefined' = TRUE /\ UNCHANGED <<probing, SeqFNum, last_ackno, probe_msg, window>>
     ELSE ReceiveAck(a) \/ ReceiveProbed(a)
  /\ UNCHANGED <<isn, next_seq, is_SYNed, is_FINed, probes>>
=============================================================================
