----------------------------- MODULE ByteStream -----------------------------
(***************************************************************************)
(* ByteStream (CS144_note/Lab0.md, byte_stream.hh and byte_stream.cc): a   *)
(* buffer of bounded capacity between a Writer and a Reader. A stream is a *)
(* record, the methods are operators on it.                                *)
(***************************************************************************)
EXTENDS Integers, Sequences

NewStream(capacity) ==
  [capacity |-> capacity, buffer |-> <<>>, bytes_pushed |-> 0, bytes_popped |-> 0,
   close |-> FALSE, error |-> FALSE]

available_capacity(s) == s.capacity - Len(s.buffer)

\* What fits.
Fitting(s, data) ==
  SubSeq(data, 1, IF Len(data) > available_capacity(s) THEN available_capacity(s) ELSE Len(data))

\* Writer::push, which does not ask whether the stream is closed
Push(s, data) ==
  [s EXCEPT !.buffer = @ \o Fitting(s, data), !.bytes_pushed = @ + Len(Fitting(s, data))]

Close(s) == [s EXCEPT !.close = TRUE]

SetError(s) == [s EXCEPT !.error = TRUE]

is_finished(s) == s.close /\ s.buffer = <<>>

\* Reader::pop
Pop(s, len) ==
  LET n == IF Len(s.buffer) < len THEN Len(s.buffer) ELSE len
  IN  [s EXCEPT !.buffer = SubSeq(@, n + 1, Len(@)), !.bytes_popped = @ + n]
=============================================================================
