---------------------------- MODULE TcpReceiver ----------------------------
(***************************************************************************)
(* TCPReceiver (CS144_note/Lab2.md, tcp_receiver.hh and tcp_receiver.cc)   *)
(* with its Reassembler and its ByteStream: segments of one stream come in *)
(* any order, cut in any way, any number of times, and the application     *)
(* reads. SYN_before is left out, it always equals SYN, and so is the      *)
(* reset in receive, whose condition asks for SYN = 0 and SYN = 1.         *)
(***************************************************************************)
EXTENDS Reassembler, Wrap32

CONSTANTS
  ISN,     \* the sender's initial sequence numbers
  MaxFIN   \* bound: FINs received while need_FIN is up

ReceiverAssumption ==
  /\ ReassemblerAssumption /\ HalfAssumption
  /\ ISN \subseteq Raw
  /\ MaxFIN \in Nat \ {0}

VARIABLES
  isn,         \* the sender's initial sequence number
  zero_point,  \* zero_point
  checkpoint,  \* checkpoint
  SYN, FIN, need_FIN

tvars == <<isn, zero_point, checkpoint, SYN, FIN, need_FIN>>
vars == <<rvars, tvars>>

TypeOK ==
  /\ {waiting_index, size, checkpoint, output.bytes_popped} \subseteq 0..Length
  /\ EOF_end_index \in {NoEOF} \cup 0..Length
  /\ \A e \in cache : e.first \in 0..Length /\ e.end \in e.first..Length
  /\ known \subseteq 0..(Length - 1)
  /\ {isn, zero_point} \subseteq Raw
  /\ {SYN, FIN} \subseteq {0, 1} /\ need_FIN \in 0..MaxFIN

Init ==
  /\ RInit
  /\ isn \in ISN
  /\ zero_point = 100 % Cycle
  /\ checkpoint = 0
  /\ SYN = 0 /\ FIN = 0 /\ need_FIN = 0

\* A segment of the stream: bytes first to first + n - 1, the SYN in front of the first
\* byte, the FIN behind the last.
Segment(first, n, syn, fin) ==
  [seqno   |-> Wrap(IF syn THEN 0 ELSE first + 1, isn), SYN |-> syn, FIN |-> fin,
   payload |-> [k \in 1..n |-> first + k - 1]]

\* receive without a connection: an error, and nothing else
Unexpected(m) ==
  /\ ~m.SYN /\ SYN = 0
  /\ output' = SetError(output)
  /\ UNCHANGED <<waiting_index, EOF_end_index, cache, size, known, tvars>>

\* The index of the payload in the stream; it is 0, and not -1, behind a SYN.
Index(m, zero) == Unwrap(m.seqno, zero, checkpoint) - (IF m.SYN THEN 0 ELSE 1)

\* need_FIN counts the FINs, and one of them ends the connection when nothing waits in
\* the cache; mutant: it does not ask whether one has.
Finish_Again(fins) ==
  IF size' = 0 /\ fins = 1 THEN FIN' = FIN + 1 /\ need_FIN' = 0 ELSE FIN' = FIN /\ need_FIN' = fins
Finish(fins) ==
  IF size' = 0 /\ FIN = 0 /\ fins = 1
  THEN FIN' = 1 /\ need_FIN' = 0
  ELSE FIN' = FIN /\ need_FIN' = fins

\* receive in a connection, or with the SYN that makes one
Accepted(m) ==
  /\ m.SYN \/ SYN = 1
  /\ SYN' = 1
  /\ zero_point' = (IF SYN = 0 THEN m.seqno ELSE zero_point)
  /\ Insert(Index(m, zero_point'), m.payload, m.FIN)
  /\ checkpoint' = checkpoint + output'.bytes_pushed - output.bytes_pushed
  /\ Finish(need_FIN + (IF m.FIN THEN 1 ELSE 0))
  /\ UNCHANGED isn

Receive(m) ==
  /\ m.FIN => need_FIN < MaxFIN
  /\ Unexpected(m) \/ Accepted(m)

\* Assumption: the network keeps no segment for half a cycle of sequence numbers, and the
\* peer sends none so far ahead.
Near(seqno) == checkpoint < seqno + Half /\ seqno < checkpoint + Half

Arrive ==
  \E first \in 0..Length : \E n \in 0..(Length - first) : \E syn, fin \in BOOLEAN :
    /\ syn => first = 0
    /\ Near(IF syn THEN 0 ELSE first + 1)
    /\ fin => first + n = Length
    /\ Receive(Segment(first, n, syn, fin))

\* send: the ackno it gives, an absolute number here, and the window
ackno == checkpoint + SYN + FIN
window_size == available_capacity(output)

Application == \E len \in 1..output.capacity : Read(len) /\ UNCHANGED tvars

Next == Arrive \/ Application

Spec == Init /\ [][Next]_vars

\* Steps that a patient peer makes: it connects, and it sends the first byte that is not
\* acknowledged again, as TCPSender does.
Connect == SYN = 0 /\ Receive(Segment(0, 0, TRUE, FALSE))
Resend == waiting_index < Length /\ Receive(Segment(waiting_index, 1, FALSE, FALSE))

-----------------------------------------------------------------------------
(* Properties                                                              *)

\* Lab2.md:296: nothing is left in the cache, so every packet has come, and the
\* connection can be finished.
FinishedWhole == FIN = 1 => waiting_index = EOF_end_index
=============================================================================
