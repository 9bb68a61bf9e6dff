--------------------------- MODULE ReliableStream ---------------------------
(***************************************************************************)
(* What a TCPSender and a TCPReceiver promise to the two applications: a   *)
(* stream of bounded room. The bytes one of them writes are those the      *)
(* other reads, in order, each once and none that was not written. That    *)
(* it learns where they end is no part of it, see FinishedWhole.           *)
(***************************************************************************)
EXTENDS Naturals, Sequences

VARIABLES
  capacity,  \* the bytes that may wait for the reader
  written,   \* how many bytes have been written; a byte is its index
  waiting,   \* the bytes that have come and can be read
  read       \* how many have been read

vars == <<capacity, written, waiting, read>>

Init ==
  /\ capacity \in Nat \ {0}
  /\ written \in Nat
  /\ waiting = <<>>
  /\ read = 0

Write ==
  /\ written' = written + 1
  /\ UNCHANGED <<capacity, waiting, read>>

\* The n bytes behind those that have come
Following(n) == [k \in 1..n |-> read + Len(waiting) + k - 1]

Deliver(n) ==
  /\ read + Len(waiting) + n <= written
  /\ Len(waiting) + n <= capacity
  /\ waiting' = waiting \o Following(n)
  /\ UNCHANGED <<capacity, written, read>>

Read(n) ==
  /\ waiting' = SubSeq(waiting, n + 1, Len(waiting))
  /\ read' = read + n
  /\ UNCHANGED <<capacity, written>>

Next ==
  \/ Write
  \/ \E n \in 1..capacity : Deliver(n)
  \/ \E n \in 1..Len(waiting) : Read(n)

Spec == Init /\ [][Next]_vars
=============================================================================
