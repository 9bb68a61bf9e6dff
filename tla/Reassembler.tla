---------------------------- MODULE Reassembler ----------------------------
(***************************************************************************)
(* Reassembler (CS144_note/Lab1.md, reassembler.hh and reassembler.cc,     *)
(* version 2): substrings of a stream come in any order, overlapping and   *)
(* repeated; the bytes are written to output_ in order, and what comes     *)
(* early waits in the cache. A byte is represented by its index in the     *)
(* stream, so that one written in the wrong place is seen.                 *)
(***************************************************************************)
EXTENDS ByteStream, FiniteSetsExt

CONSTANTS
  Length,     \* bytes of the stream
  Capacities  \* the capacities output_ may have

ReassemblerAssumption == Length \in Nat /\ Capacities \subseteq Nat \ {0}

NoEOF == -1

VARIABLES
  output,         \* output_
  waiting_index,  \* waiting_index_: the first byte not yet written
  EOF_end_index,  \* EOF_end_index_, NoEOF until is_init_
  cache,          \* cache_: [first, end, data]
  size,           \* size_, bytes in the cache
  known           \* history: the bytes that came when they lay in the window

rvars == <<output, waiting_index, EOF_end_index, cache, size, known>>

RInit ==
  /\ output \in {NewStream(c) : c \in Capacities}
  /\ waiting_index = 0
  /\ EOF_end_index = NoEOF
  /\ cache = {}
  /\ size = 0
  /\ known = {}

\* tail_index_, set anew by each insert
tail_index == waiting_index + available_capacity(output)

Entry(first, data) == [first |-> first, end |-> first + Len(data), data |-> data]
Drop(data, n) == SubSeq(data, n + 1, Len(data))

\* EOFManager::operator(): the end it knows once the substring is seen, what it lets
\* through and what it cuts.
End(e, last) == IF EOF_end_index = NoEOF /\ last THEN e.end ELSE EOF_end_index
AtEnd(e, end) == end # NoEOF /\ e.data = <<>> /\ size = 0
BeyondEnd(e, end) == end # NoEOF /\ end <= e.first
CutAtEnd(e, end) ==
  IF end # NoEOF /\ end < e.end THEN Entry(e.first, SubSeq(e.data, 1, end - e.first)) ELSE e

\* WindowFilter::operator()
Outside(e) ==
  \/ tail_index <= e.first
  \/ IF e.data = <<>> THEN e.end < waiting_index ELSE e.end <= waiting_index
\* Mutant: the index moves and the bytes stay.
CutLeft_Index(e) == IF e.first < waiting_index THEN Entry(waiting_index, e.data) ELSE e
CutLeft(e) ==
  IF e.first < waiting_index THEN Entry(waiting_index, Drop(e.data, waiting_index - e.first)) ELSE e
CutRight(e) ==
  IF tail_index < e.end THEN Entry(e.first, SubSeq(e.data, 1, tail_index - e.first)) ELSE e
InWindow(e) == CutRight(CutLeft(e))

Holds(e, i) == e.first <= i /\ i < e.end
Within(x, y) == y.first <= x.first /\ x.end <= y.end
Bytes(entries) == MapThenSumSet(LAMBDA e : Len(e.data), entries)

\* cache_in: nothing changes when the cache has it all. The entries that the new one
\* contains are erased; those that overlap it are erased and joined with it, their
\* bytes in front of the new ones that repeat them. The code's loop visits the entries
\* in order; as they are disjoint, at most one of them overlaps on each side.
\* Mutant: an entry that has the first byte is taken to have them all.
Contained_First(new) == \E e \in cache : Holds(e, new.first)
Contained(new) == \E e \in cache : Within(new, e)
OnLeft(new) ==
  {e \in cache : e.first < new.first /\ new.first < e.end /\ e.end < new.end}
\* Mutant: the overlap with the next entry is missed.
OnRight_Not(new) == {}
OnRight(new) ==
  {e \in cache : new.first < e.first /\ e.first < new.end /\ new.end < e.end}
JoinLeft(new) ==
  IF OnLeft(new) = {} THEN new
  ELSE LET e == CHOOSE e \in OnLeft(new) : TRUE
       IN  Entry(e.first, e.data \o Drop(new.data, e.end - new.first))
JoinRight(new) ==
  IF OnRight(new) = {} THEN new
  ELSE LET e == CHOOSE e \in OnRight(new) : TRUE
       IN  Entry(new.first, new.data \o Drop(e.data, new.end - e.first))
cache_in(new) ==
  LET joined == JoinLeft(JoinRight(new))
      erased == {e \in cache : Within(e, joined)}
  IN  [entries |-> (cache \ erased) \cup {joined},
       size    |-> size - Bytes(erased) + Len(joined.data)]

\* write: the entries from waiting_index on, up to the first gap, are pushed and erased.
\* That there is room for them is CacheSound; or the loop would never end.
Gap(entries) ==
  Min({i \in waiting_index..tail_index : ~ \E e \in entries : Holds(e, i)} \cup {tail_index})
ByteAt(entries, i) ==
  LET e == CHOOSE e \in entries : Holds(e, i) IN e.data[i - e.first + 1]
write(c) ==
  LET gap    == Gap(c.entries)
      behind == {e \in c.entries : gap < e.first}
  IN  [output  |-> Push(output, [k \in 1..(gap - waiting_index) |->
                                   ByteAt(c.entries, waiting_index + k - 1)]),
       waiting |-> gap,
       entries |-> behind,
       size    |-> c.size - Bytes(c.entries \ behind)]

\* The end of insert: "make sure that it is closed"
Closed(w, end) == IF end # NoEOF /\ end <= w.waiting THEN Close(w.output) ELSE w.output

\* insert with its early returns: at the end of the stream, outside the window, or
\* nothing new; or the substring is cached and what has no gap before it is written.
Insert(first, data, last) ==
  LET e   == Entry(first, data)
      end == End(e, last)
      Ignored(new) == BeyondEnd(e, end) \/ Outside(CutAtEnd(e, end)) \/ Contained(new)
  IN  /\ EOF_end_index' = end
      /\ known' = known \cup {i \in first..(e.end - 1) : i < tail_index}
      /\ IF AtEnd(e, end)
         THEN output' = Close(output) /\ UNCHANGED <<waiting_index, cache, size>>
         ELSE \E new \in {InWindow(CutAtEnd(e, end))} :
                IF Ignored(new)
                THEN UNCHANGED <<output, waiting_index, cache, size>>
                ELSE \E c \in {cache_in(new)} : \E w \in {write(c)} :
                       /\ output' = Closed(w, end)
                       /\ waiting_index' = w.waiting
                       /\ cache' = w.entries
                       /\ size' = w.size

\* The application's Reader::pop
Read(len) ==
  /\ Len(output.buffer) >= len
  /\ output' = Pop(output, len)
  /\ UNCHANGED <<waiting_index, EOF_end_index, cache, size, known>>

-----------------------------------------------------------------------------
(* Properties                                                              *)

\* Every byte is written once and in its place, however the substrings overlap.
InPlace ==
  /\ waiting_index = output.bytes_pushed
  /\ output.bytes_popped + Len(output.buffer) = waiting_index
  /\ \A k \in DOMAIN output.buffer : output.buffer[k] = output.bytes_popped + k - 1

\* What waits in the cache lies behind a gap and before the end of the window (so that
\* write never has to put a rest back), no two entries overlap, and size_ counts it.
CacheSound ==
  /\ \A e \in cache :
       /\ e.data # <<>> => waiting_index < e.first
       /\ e.end <= output.bytes_popped + output.capacity
       /\ e.data = [k \in 1..(e.end - e.first) |-> e.first + k - 1]
  /\ \A e, f \in cache : e = f \/ e.end <= f.first \/ f.end <= e.first
  /\ size = Bytes(cache)

\* A byte that came when the window had room for it is written or waits: it need not
\* come again.
NothingLost ==
  \A i \in known : i < waiting_index \/ \E e \in cache : e.first <= i /\ i < e.end
=============================================================================
