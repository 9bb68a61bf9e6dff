-------------------------- MODULE CalculatorProofs --------------------------
(***************************************************************************)
(* Proofs about the calculator's protocols, for any number of requests and *)
(* any cut of the streams.                                                 *)
(***************************************************************************)
EXTENDS MCCalculator, SequenceLemmas, TLAPS

(* DraftProtocol                                                             *)

\* obtain has found nothing yet, or one uninitialised message, in whose place it has
\* erased the digits of the first frame.
TakenInv ==
  \A s \in Draft!Side :
    \/ erased[s] = 0 /\ taken[s] = <<>>
    \/ erased[s] = NumberLen /\ taken[s] = <<Draft!Garbage>>

DraftTypes ==
  /\ Draft!TypeOK
  /\ received \in [Draft!Side -> Nat] /\ erased \in [Draft!Side -> Nat]
  /\ taken \in [Draft!Side -> Seq(0..MaxFrames)]

DraftInv == DraftTypes /\ TakenInv

LEMMA ModLess == ASSUME NEW a \in Nat, NEW b \in Nat, a < b PROVE a % b = a
  OBVIOUS

LEMMA DraftFacts ==
  ASSUME NEW s \in Draft!Side
  PROVE  /\ NumberLen \in Nat /\ NumberLen >= 1 /\ MaxFrames \in Nat
         /\ PayloadLen[s] \in Nat /\ PayloadLen[s] >= 2
         /\ Draft!FrameLen(s) = NumberLen + PayloadLen[s] + 4
  BY DraftsAssumption DEF Draft!DraftAssumption, Draft!FrameLen

\* The first places of the first frame.
LEMMA Places ==
  ASSUME NEW s \in Draft!Side, NEW i \in 1..(NumberLen + 1)
  PROVE  /\ Draft!IsEnd(s, i) <=> i = NumberLen + 1
         /\ Draft!IsDigit(s, i) <=> i # NumberLen + 1
  <1>1. i - 1 \in Nat /\ Draft!FrameLen(s) \in Nat /\ i - 1 < Draft!FrameLen(s)
    BY DraftFacts
  <1>2. (i - 1) % Draft!FrameLen(s) = i - 1
    BY <1>1, ModLess
  <1>3. Draft!Place(s, i) = i
    BY <1>2, DraftFacts DEF Draft!Place
  <1>4. \A k \in 0..2 : i # NumberLen + 2 + PayloadLen[s] + k
    BY DraftFacts
  <1>5. i \in {NumberLen + 1, NumberLen + 2} \cup {NumberLen + 2 + PayloadLen[s] + k : k \in 0..2}
          <=> i = NumberLen + 1
    BY <1>4, DraftFacts
  <1>6. i <= NumberLen <=> i # NumberLen + 1
    BY DraftFacts
  <1> QED BY <1>3, <1>5, <1>6 DEF Draft!IsEnd, Draft!IsDigit

\* The first end that obtain finds is that of the first number.
LEMMA FirstEnds ==
  ASSUME NEW s \in Draft!Side, NEW from \in 0..NumberLen, NEW to \in Nat
  PROVE  /\ to > NumberLen => Draft!FirstEnd(s, from, to) = NumberLen + 1 - from
         /\ to <= NumberLen => Draft!FirstEnd(s, from, to) = 0
  <1> DEFINE ends == {i \in (from + 1)..to : Draft!IsEnd(s, i)}
  <1>1. NumberLen \in Nat
    BY DraftFacts
  <1>2. ASSUME NEW i \in ends PROVE i >= NumberLen + 1
    <2>1. i \in Nat /\ i >= 1 /\ Draft!IsEnd(s, i)
      BY <1>1
    <2> QED BY <1>1, <2>1, Places
  <1>3. CASE to > NumberLen
    <2>1. NumberLen + 1 \in ends
      BY <1>1, <1>3, Places
    <2>2. ends \subseteq Nat /\ ends # {}
      BY <1>1, <2>1
    <2>3. Min(ends) \in ends /\ \A x \in ends : Min(ends) <= x
      BY <2>2, MinOf
    <2>4. Min(ends) = NumberLen + 1
      <3>1. Min(ends) \in Nat /\ Min(ends) <= NumberLen + 1
        BY <2>1, <2>2, <2>3
      <3>2. Min(ends) >= NumberLen + 1
        BY <1>2, <2>3
      <3> QED BY <1>1, <3>1, <3>2
    <2>5. Draft!Min(ends) = Min(ends)
      BY DEF Draft!Min, Min
    <2> QED BY <1>1, <1>3, <2>2, <2>4, <2>5 DEF Draft!FirstEnd
  <1>4. CASE to <= NumberLen
    <2>1. ends = {}
      BY <1>1, <1>2, <1>4
    <2> QED BY <1>1, <1>4, <2>1 DEF Draft!FirstEnd
  <1> QED BY <1>1, <1>3, <1>4

LEMMA ObtainInv == ASSUME DraftInv, NEW s \in Draft!Side, Draft!Obtain(s) PROVE DraftInv'
  <1>1. PICK to \in (received[s] + 1)..(delivered[s] * Draft!FrameLen(s)) :
         /\ received' = [received EXCEPT ![s] = to]
         /\ \/ Draft!Incomplete(s, erased[s], to) /\ UNCHANGED <<erased, taken, state>>
            \/ /\ Draft!Throws(s, erased[s], to)
               /\ state' = [state EXCEPT ![s] = "dead"]
               /\ UNCHANGED <<erased, taken>>
            \/ /\ ~Draft!Incomplete(s, erased[s], to) /\ ~Draft!Throws(s, erased[s], to)
               /\ taken' = [taken EXCEPT ![s] = Append(@, Draft!Parsed(s, erased[s], to))]
               /\ erased' = [erased EXCEPT ![s] = Draft!Erased(s, erased[s], to)]
               /\ UNCHANGED state
    BY DEF Draft!Obtain
  <1>2. /\ to \in Nat /\ to > received[s] /\ to <= delivered[s] * Draft!FrameLen(s)
        /\ erased[s] \in 0..received[s] /\ NumberLen \in Nat /\ received[s] \in Nat
        /\ delivered' = delivered
    <2>1. received[s] \in Nat /\ delivered[s] \in Nat /\ Draft!FrameLen(s) \in Nat
      <3>1. received[s] \in Nat /\ delivered[s] \in 0..MaxFrames
        BY DEF DraftInv, DraftTypes, Draft!TypeOK
      <3> QED BY <3>1, DraftFacts
    <2>4. erased[s] \in 0..received[s]
      BY DEF DraftInv, DraftTypes, Draft!TypeOK
    <2>2. delivered[s] * Draft!FrameLen(s) \in Nat
      BY <2>1
    <2>3. delivered' = delivered
      BY DEF Draft!Obtain
    <2> QED BY <2>1, <2>2, <2>3, <2>4, DraftFacts
  <1> DEFINE Takes == /\ taken' = [taken EXCEPT ![s] = <<Draft!Garbage>>]
                      /\ erased' = [erased EXCEPT ![s] = NumberLen]
                      /\ to > NumberLen
  <1>3. ASSUME erased[s] = 0 /\ taken[s] = <<>>
        PROVE  UNCHANGED <<taken, erased>> \/ Takes
    <2>1. ASSUME ~Draft!Incomplete(s, 0, to)
          PROVE  Draft!Parsed(s, 0, to) = Draft!Garbage /\ Draft!Erased(s, 0, to) = NumberLen
                 /\ to > NumberLen
      <3>1. Draft!FirstEnd(s, 0, to) # 0
        BY <2>1 DEF Draft!Incomplete
      <3>2. to > NumberLen /\ Draft!FirstEnd(s, 0, to) = NumberLen + 1
        BY <1>2, <3>1, FirstEnds
      <3>3. Draft!FirstEnd(s, NumberLen, to) = 1
        BY <1>2, <3>2, FirstEnds
      <3>4. 0 + (NumberLen + 1) - 1 = NumberLen
        BY <1>2
      <3>5. Draft!TextOf(s, 0, to) = (NumberLen + 1)..(NumberLen + 1 - 1)
        BY <3>2, <3>3, <3>4, Zenon DEF Draft!TextOf
      <3>6. Draft!Erased(s, 0, to) = NumberLen
        BY <1>2, <3>2, <3>3 DEF Draft!Erased
      <3>7. Draft!TextOf(s, 0, to) = {}
        BY <1>2, <3>5
      <3>8. ASSUME NEW q \in 1..MaxFrames,
                   NEW start, start = (q - 1) * Draft!FrameLen(s) + NumberLen + 2
            PROVE  (start + 1)..(start + PayloadLen[s] - 1) # {}
        <4>1. /\ q - 1 \in Nat /\ Draft!FrameLen(s) \in Nat /\ NumberLen \in Nat
              /\ PayloadLen[s] \in Nat /\ PayloadLen[s] >= 2
          BY DraftFacts
        <4>2. (q - 1) * Draft!FrameLen(s) \in Nat
          BY <4>1
        <4>3. start \in Nat
          BY <3>8, <4>1, <4>2
        <4>4. start + 1 \in (start + 1)..(start + PayloadLen[s] - 1)
          BY <4>1, <4>3
        <4> QED BY <4>4
      <3>9. Draft!Parsed(s, 0, to) = Draft!Garbage
        BY <3>7, <3>8, Zenon DEF Draft!Parsed
      <3> QED BY <3>2, <3>6, <3>9
    <2>2. Append(<<>>, Draft!Garbage) = <<Draft!Garbage>>
      OBVIOUS
    <2> QED BY <1>1, <1>3, <2>1, <2>2, Zenon
  <1>4. ASSUME erased[s] = NumberLen /\ taken[s] = <<Draft!Garbage>>
        PROVE  UNCHANGED <<taken, erased>>
    <2>1. to > NumberLen
      BY <1>2, <1>4
    <2>2. Draft!FirstEnd(s, NumberLen, to) = 1
      BY <1>2, <2>1, FirstEnds
    <2>3. ~Draft!HasNumber(s, NumberLen)
      BY <1>2, Places DEF Draft!HasNumber
    <2>4. Draft!Throws(s, NumberLen, to)
      BY <2>2, <2>3 DEF Draft!Throws
    <2> QED BY <1>1, <1>4, <2>4
  <1>5. UNCHANGED <<taken, erased>> \/ Takes
    BY <1>3, <1>4 DEF DraftInv, TakenInv
  <1>6. \/ state' = state \/ state' = [state EXCEPT ![s] = "dead"]
    BY <1>1
  <1>7. /\ received' = [received EXCEPT ![s] = to] /\ received'[s] = to
        /\ \A t \in Draft!Side : t # s => received'[t] = received[t]
    BY <1>1 DEF DraftInv, DraftTypes
  <1>10. ASSUME NEW t \in Draft!Side
         PROVE  /\ received'[t] \in 0..(delivered[t] * Draft!FrameLen(t))
                /\ erased[t] \in 0..received'[t]
    <2>1. /\ received[t] \in 0..(delivered[t] * Draft!FrameLen(t)) /\ erased[t] \in 0..received[t]
          /\ received[t] \in Nat
      BY DEF DraftInv, DraftTypes, Draft!TypeOK
    <2>2. CASE t = s
      BY <1>2, <1>7, <2>1, <2>2
    <2>3. CASE t # s
      BY <1>7, <2>1, <2>3
    <2> QED BY <2>2, <2>3
  <1>11. /\ delivered' \in [Draft!Side -> 0..MaxFrames]
         /\ state' \in [Draft!Side -> {"open", "closed", "dead"}]
         /\ received' \in [Draft!Side -> Nat]
    BY <1>1, <1>2, <1>6 DEF DraftInv, DraftTypes, Draft!TypeOK
  <1>8. CASE UNCHANGED <<taken, erased>>
    <2>1. /\ \A t \in Draft!Side : taken[t] \in Seq(0..MaxFrames)
          /\ erased \in [Draft!Side -> Nat] /\ taken \in [Draft!Side -> Seq(0..MaxFrames)]
          /\ TakenInv'
      BY <1>8 DEF DraftInv, DraftTypes, TakenInv
    <2>2. Draft!TypeOK'
      BY <1>2, <1>8, <1>10, <1>11, <2>1 DEF Draft!TypeOK
    <2> QED BY <1>8, <1>11, <2>1, <2>2 DEF DraftInv, DraftTypes
  <1>9. CASE Takes
    <2>1. /\ taken'[s] = <<Draft!Garbage>> /\ erased'[s] = NumberLen
          /\ \A t \in Draft!Side : t # s => taken'[t] = taken[t] /\ erased'[t] = erased[t]
      BY <1>9 DEF DraftInv, DraftTypes
    <2>2. <<Draft!Garbage>> \in Seq(0..MaxFrames) /\ MaxFrames \in Nat
      BY DraftFacts DEF Draft!Garbage
    <2>3. TakenInv'
      BY <2>1 DEF DraftInv, TakenInv
    <2>4. /\ received' \in [Draft!Side -> Nat] /\ erased' \in [Draft!Side -> Nat]
          /\ taken' \in [Draft!Side -> Seq(0..MaxFrames)]
      BY <1>1, <1>2, <1>9, <2>2 DEF DraftInv, DraftTypes
    <2>5. \A t \in Draft!Side : erased'[t] \in 0..received'[t]
      BY <1>2, <1>7, <1>9, <1>10, <2>1
    <2>6. \A t \in Draft!Side : taken'[t] \in Seq(0..MaxFrames)
      BY <2>4
    <2>7. Draft!TypeOK'
      BY <1>2, <1>10, <1>11, <2>5, <2>6 DEF Draft!TypeOK
    <2> QED BY <2>3, <2>4, <2>7 DEF DraftInv, DraftTypes
  <1> QED BY <1>5, <1>8, <1>9

LEMMA DraftStep == ASSUME DraftInv, [Draft!Next]_(Draft!vars) PROVE DraftInv'
  <1>1. ASSUME NEW s \in Draft!Side, Draft!Deliver(s) PROVE DraftInv'
    <2> DEFINE t == Draft!Peer(s)
    <2>1. /\ delivered[t] < MaxFrames /\ delivered' = [delivered EXCEPT ![t] = @ + 1]
          /\ UNCHANGED <<received, erased, taken, state>>
      BY <1>1 DEF Draft!Deliver
    <2>2. t \in Draft!Side
      <3>1. t \in {"server", "client"}
        BY DEF Draft!Peer, Draft!Side
      <3> QED BY <3>1 DEF Draft!Side
    <2> HIDE DEF t
    <2>3. ASSUME NEW u \in Draft!Side
          PROVE  /\ delivered'[u] \in 0..MaxFrames
                 /\ received[u] \in 0..(delivered'[u] * Draft!FrameLen(u))
      <3>1. /\ delivered[u] \in 0..MaxFrames /\ received[u] \in 0..(delivered[u] * Draft!FrameLen(u))
            /\ MaxFrames \in Nat /\ Draft!FrameLen(u) \in Nat
        <4>1. /\ delivered[u] \in 0..MaxFrames
              /\ received[u] \in 0..(delivered[u] * Draft!FrameLen(u))
          BY DEF DraftInv, DraftTypes, Draft!TypeOK
        <4> QED BY <4>1, DraftFacts
      <3>2. delivered'[u] \in {delivered[u], delivered[u] + 1} /\ delivered'[u] \in 0..MaxFrames
        BY <2>1, <2>2, <3>1 DEF DraftInv, DraftTypes, Draft!TypeOK
      <3>3. (delivered[u] + 1) * Draft!FrameLen(u) = delivered[u] * Draft!FrameLen(u) + Draft!FrameLen(u)
        BY <3>1
      <3>4. delivered[u] * Draft!FrameLen(u) \in Nat
        BY <3>1
      <3> QED BY <3>1, <3>2, <3>3, <3>4
    <2>4. Draft!TypeOK'
      BY <2>1, <2>3 DEF DraftInv, DraftTypes, Draft!TypeOK
    <2> QED BY <2>1, <2>4 DEF DraftInv, DraftTypes, TakenInv
  <1>2. ASSUME NEW s \in Draft!Side, Draft!Close(s) \/ Draft!Reset(s) PROVE DraftInv'
    BY <1>2 DEF Draft!Close, Draft!Reset, DraftInv, DraftTypes, Draft!TypeOK, TakenInv
  <1>3. CASE UNCHANGED Draft!vars
    BY <1>3 DEF Draft!vars, DraftInv, DraftTypes, Draft!TypeOK, TakenInv
  <1>4. "server" \in Draft!Side /\ "client" \in Draft!Side
    BY DEF Draft!Side
  <1> QED
    BY <1>1, <1>2, <1>3, <1>4, ObtainInv
    DEF Draft!Next, Draft!ServerObtain, Draft!ServerDeliver, Draft!ClientObtain, Draft!ClientDeliver

LEMMA DraftInitInv == ASSUME Draft!Init PROVE DraftInv
  <1>1. <<>> \in Seq(0..MaxFrames)
    OBVIOUS
  <1>2. \A s \in Draft!Side : 0 \in 0..(0 * Draft!FrameLen(s))
    BY DraftFacts
  <1> QED BY <1>1, <1>2, DraftFacts DEF Draft!Init, DraftInv, DraftTypes, Draft!TypeOK, TakenInv

LEMMA DraftKept == ASSUME DraftInv PROVE Draft!TypeOK /\ Draft!NeverARequest
  <1>1. ASSUME NEW s \in Draft!Side
        PROVE  Len(taken[s]) <= 1 /\ \A i \in DOMAIN taken[s] : taken[s][i] = Draft!Garbage
    <2>1. CASE taken[s] = <<>>
      BY <2>1
    <2>2. CASE taken[s] = <<Draft!Garbage>>
      BY <2>2
    <2> QED BY <2>1, <2>2 DEF DraftInv, TakenInv
  <1> QED BY <1>1 DEF DraftInv, DraftTypes, Draft!NeverARequest
-----------------------------------------------------------------------------
(* Frames, and what obtain makes of a buffer that begins with one            *)

LEMMA Widths == SizeT = 1048576 /\ UInt16 = 65536
  BY DEF SizeT, UInt16

LEMMA TextIs ==
  ASSUME NEW l, NEW q, l = 10 \/ l = 11, q \in 0..MaxRequests
  PROVE  /\ Text(l, q) \in Seq(Byte) /\ Len(Text(l, q)) = l
         /\ Text(l, q)[1] = 123 /\ Text(l, q)[2] = 128 + q /\ Text(l, q)[l] = LF
  <1>1. l \in Nat /\ l >= 10 /\ q \in Nat /\ 128 + q \in Marks
    BY CalculatorAssumption DEF Marks
  <1>2. {123, LF, 128 + q} \subseteq Byte
    BY <1>1 DEF Byte
  <1> QED BY <1>1, <1>2 DEF Text, LF

\* f is the frame of a request (l = 11) or of an answer (l = 10).
IsFrame(f, l, q) == (l = 10 \/ l = 11) /\ q \in 0..MaxRequests /\ f = Frame(Text(l, q))

LEMMA FrameIs ==
  ASSUME NEW f, NEW l, NEW q, IsFrame(f, l, q)
  PROVE  /\ f \in Seq(Byte) /\ Len(f) = l + 6
         /\ f[1] = 49 /\ f[2] = 38 + l /\ f[3] = CR /\ f[4] = LF
         /\ \A i \in 1..l : f[i + 4] = Text(l, q)[i]
         /\ f[l + 5] = CR /\ f[l + 6] = LF
  <1>0. (l = 10 \/ l = 11) /\ q \in 0..MaxRequests /\ f = Frame(Text(l, q))
    BY DEF IsFrame
  <1>1. PICK t \in Seq(Byte) : t = Text(l, q) /\ Len(t) = l
    BY <1>0, TextIs
  <1>2. l \in Nat /\ 48 + (l \div 10) = 49 /\ 48 + (l % 10) = 38 + l /\ 38 + l \in Digits
    BY <1>0 DEF Digits
  <1>3. {49, 38 + l, CR, LF} \subseteq Byte
    BY <1>2 DEF Byte, Digits
  <1>4. PICK h \in Seq(Byte) : h = <<49, 38 + l, CR, LF>>
    <2>1. <<49, 38 + l, CR, LF>> \in Seq(Byte)
      BY <1>3
    <2> QED BY <2>1, Zenon
  <1>5. PICK e \in Seq(Byte) : e = <<CR, LF>>
    <2>1. <<CR, LF>> \in Seq(Byte)
      BY <1>3
    <2> QED BY <2>1, Zenon
  <1>6. Len(h) = 4 /\ h[1] = 49 /\ h[2] = 38 + l /\ h[3] = CR /\ h[4] = LF
    BY <1>4
  <1>7. Len(e) = 2 /\ e[1] = CR /\ e[2] = LF
    BY <1>5
  <1>8. PICK g : g = h \o t
    OBVIOUS
  <1>9. /\ g \in Seq(Byte) /\ Len(g) = 4 + l
        /\ \A i \in 1..4 : g[i] = h[i]
        /\ \A i \in 1..l : g[4 + i] = t[i]
    <2>1. 4 = Len(h) /\ l = Len(t)
      BY <1>1, <1>6
    <2>2. /\ g \in Seq(Byte) /\ Len(g) = Len(h) + Len(t)
          /\ \A i \in 1..Len(h) : g[i] = h[i]
          /\ \A i \in 1..Len(t) : g[Len(h) + i] = t[i]
      BY <1>8, CatIs
    <2> QED BY <2>1, <2>2, Zenon
  <1>10. f = g \o e
    <2>1. <<48 + (Len(t) \div 10), 48 + (Len(t) % 10), CR, LF>> = h
      BY <1>1, <1>2, <1>4
    <2> QED BY <1>0, <1>1, <1>5, <1>8, <2>1, Zenon DEF Frame
  <1>11. /\ f \in Seq(Byte) /\ Len(f) = (4 + l) + 2
         /\ \A i \in 1..(4 + l) : f[i] = g[i]
         /\ \A i \in 1..2 : f[(4 + l) + i] = e[i]
    <2>1. 2 = Len(e) /\ 4 + l = Len(g)
      BY <1>7, <1>9
    <2>2. /\ f \in Seq(Byte) /\ Len(f) = Len(g) + Len(e)
          /\ \A i \in 1..Len(g) : f[i] = g[i]
          /\ \A i \in 1..Len(e) : f[Len(g) + i] = e[i]
      <3>1. g \in Seq(Byte) /\ f = g \o e
        BY <1>9, <1>10
      <3> QED BY <3>1, CatIs
    <2> QED BY <2>1, <2>2, Zenon
  <1>12. f[1] = h[1] /\ f[2] = h[2] /\ f[3] = h[3] /\ f[4] = h[4]
    <2>1. 1 \in 1..(4 + l) /\ 2 \in 1..(4 + l) /\ 3 \in 1..(4 + l) /\ 4 \in 1..(4 + l)
      BY <1>2
    <2> QED BY <1>9, <1>11, <2>1, SMTT(30)
  <1>13. ASSUME NEW i \in 1..l PROVE f[i + 4] = t[i]
    <2>1. i + 4 \in 1..(4 + l) /\ i + 4 = 4 + i
      BY <1>2
    <2> QED BY <1>9, <1>11, <2>1, SMTT(30)
  <1>14. f[l + 5] = e[1] /\ f[l + 6] = e[2]
    <2>1. (4 + l) + 1 = l + 5 /\ (4 + l) + 2 = l + 6
      BY <1>2
    <2> QED BY <1>11, <2>1
  <1>15. (4 + l) + 2 = l + 6
    BY <1>2
  <1> QED BY <1>1, <1>6, <1>7, <1>11, <1>12, <1>13, <1>14, <1>15

\* The value of a number of two digits
LEMMA ValueOfTwo ==
  ASSUME NEW d \in Seq(Int), Len(d) = 2
  PROVE  Value(d) = 10 * (d[1] - 48) + (d[2] - 48)
  <1> DEFINE Rec(v) == v = [n \in 0..Len(d) |->
                              IF n = 0 THEN 0 ELSE 10 * v[n - 1] + (d[n] - 48)]
             w == CHOOSE v : Rec(v)
             u == [n \in 0..2 |-> IF n = 0 THEN 0 ELSE
                     IF n = 1 THEN d[1] - 48 ELSE 10 * (d[1] - 48) + (d[2] - 48)]
  <1>1. d[1] \in Int /\ d[2] \in Int
    <2>1. 1 \in 1..Len(d) /\ 2 \in 1..Len(d)
      OBVIOUS
    <2> QED BY <2>1, ElementOfSeq
  <1>2. Rec(u)
    <2>1. u[0] = 0 /\ u[1] = d[1] - 48 /\ u[2] = 10 * (d[1] - 48) + (d[2] - 48)
      OBVIOUS
    <2>2. \A n \in 0..2 : u[n] = IF n = 0 THEN 0 ELSE 10 * u[n - 1] + (d[n] - 48)
      BY <1>1, <2>1
    <2> QED BY <2>2
  <1>3. Rec(w)
    <2> HIDE DEF Rec, u
    <2> QED BY <1>2
  <1>4. Value(d) = w[Len(d)]
    BY DEF Value
  <1> HIDE DEF w
  <1>5. w[0] = 0 /\ w[1] = 10 * w[0] + (d[1] - 48) /\ w[2] = 10 * w[1] + (d[2] - 48)
    <2>1. \A n \in 0..2 : w[n] = IF n = 0 THEN 0 ELSE 10 * w[n - 1] + (d[n] - 48)
      BY <1>3
    <2> QED BY <2>1
  <1> QED BY <1>1, <1>4, <1>5

\* The end of the length comes third.
LEMMA FirstEndIs ==
  ASSUME NEW f, NEW l, NEW q, IsFrame(f, l, q),
         NEW b \in Seq(Byte), Begins(b, f)
  PROVE  /\ Len(b) <= 2 => FirstEnd(b) = 0
         /\ Len(b) >= 3 => FirstEnd(b) = 3 /\ NumberArea(b) = 2
  <1>1. /\ Len(f) = l + 6 /\ f[1] = 49 /\ f[2] = 38 + l /\ f[3] = CR
        /\ l \in Nat /\ l >= 10 /\ l <= 11 /\ Len(b) \in Nat /\ DOMAIN b = 1..Len(b)
    <2>1. Len(f) = l + 6 /\ f[1] = 49 /\ f[2] = 38 + l /\ f[3] = CR
      BY FrameIs, ZenonT(30)
    <2>2. l \in Nat /\ l >= 10 /\ l <= 11
      BY DEF IsFrame
    <2>3. Len(b) \in Nat /\ DOMAIN b = 1..Len(b)
      OBVIOUS
    <2> QED BY <2>1, <2>2, <2>3
  <1>2. ASSUME NEW i \in DOMAIN b, i <= 2 PROVE b[i] \notin {CR, LF}
    <2>1. i \in 1..Len(b) /\ i <= Len(f) /\ i \in {1, 2}
      BY <1>1, <1>2
    <2>2. b[i] = f[i]
      BY <2>1 DEF Begins
    <2> QED BY <1>1, <2>1, <2>2 DEF CR, LF
  <1>3. CASE Len(b) <= 2
    <2>1. Ends(b) = {}
      BY <1>1, <1>2, <1>3 DEF Ends
    <2> QED BY <1>1, <1>3, <2>1 DEF FirstEnd
  <1>4. CASE Len(b) >= 3
    <2>1. 3 \in 1..Len(b) /\ 3 <= Len(f)
      BY <1>1, <1>4
    <2>2. b[3] = CR
      BY <1>1, <2>1 DEF Begins
    <2>3. 3 \in Ends(b) /\ Ends(b) \subseteq Nat
      BY <1>1, <2>1, <2>2 DEF Ends
    <2>4. Min(Ends(b)) \in Ends(b) /\ Min(Ends(b)) <= 3
      BY <2>3, MinOf
    <2>5. ~(Min(Ends(b)) <= 2)
      BY <1>2, <2>4 DEF Ends
    <2>6. Min(Ends(b)) = 3
      BY <2>3, <2>4, <2>5
    <2>7. FirstEnd(b) = 3
      BY <2>3, <2>6 DEF FirstEnd
    <2> QED BY <1>1, <1>4, <2>7 DEF NumberArea
  <1> QED BY <1>1, <1>3, <1>4

\* The two digits of a length
LEMMA DigitsAre ==
  ASSUME NEW d \in Seq(Byte), Len(d) = 2, d[1] \in Digits, d[2] \in Digits
  PROVE  DigitsOf(d) = d
  <1> DEFINE stop == {i \in DOMAIN d : d[i] \notin Digits} \cup {Len(d) + 1}
  <1>1. DOMAIN d = {1, 2} /\ Len(d) + 1 = 3
    OBVIOUS
  <1>2. stop = {3}
    BY <1>1
  <1>3. Min(stop) \in stop
    <2>1. stop \subseteq Nat /\ stop # {}
      BY <1>2
    <2> HIDE DEF stop
    <2> QED BY <2>1, MinOf
  <1>4. Min(stop) - 1 = Len(d)
    BY <1>2, <1>3
  <1>5. DigitsOf(d) = SubSeq(d, 1, Len(d))
    BY <1>4 DEF DigitsOf
  <1> QED BY <1>5, SubSeqFull

LEMMA NumberIs ==
  ASSUME NEW f, NEW l, NEW q, IsFrame(f, l, q),
         NEW b \in Seq(Byte), Begins(b, f), Len(b) >= 3
  PROVE  Stoi(b) = l /\ Number(b) = l
  <1>1. NumberArea(b) = 2
    BY FirstEndIs
  <1>2. PICK d : d = SubSeq(b, 1, 2)
    OBVIOUS
  <1>3. d \in Seq(Byte) /\ Len(d) = 2 /\ d[1] = b[1] /\ d[2] = b[2]
    <2>1. \A i \in 1..2 : b[i] \in Byte
      OBVIOUS
    <2>2. /\ d \in Seq(Byte) /\ Len(d) = IF 1 <= 2 THEN 2 - 1 + 1 ELSE 0
          /\ \A i \in 1..(2 - 1 + 1) : d[i] = b[1 + i - 1]
      BY <1>2, <2>1, SubSeqProperties
    <2> QED BY <2>2
  <1>4. b[1] = 49 /\ b[2] = 38 + l
    <2>1. Len(f) = l + 6 /\ f[1] = 49 /\ f[2] = 38 + l
      BY FrameIs, ZenonT(30)
    <2>2. Len(b) \in Nat /\ l \in Nat
      BY DEF IsFrame
    <2>3. 1 \in 1..Len(b) /\ 2 \in 1..Len(b) /\ 1 <= Len(f) /\ 2 <= Len(f)
      BY <2>1, <2>2
    <2>4. b[1] = f[1] /\ b[2] = f[2]
      BY <2>3 DEF Begins
    <2> QED BY <2>1, <2>4
  <1>5. DigitsOf(d) = d /\ d # <<>>
    <2>1. d[1] \in Digits /\ d[2] \in Digits
      BY <1>3, <1>4 DEF Digits, IsFrame
    <2> QED BY <1>3, <2>1, DigitsAre
  <1>6. Value(d) = l
    <2>1. d \in Seq(Int)
      <3>1. Byte \subseteq Int
        BY DEF Byte, Digits, Marks, CR, LF
      <3> QED BY <1>3, <3>1, SeqMonotonic
    <2>2. Value(d) = 10 * (d[1] - 48) + (d[2] - 48)
      BY <1>3, <2>1, ValueOfTwo
    <2>3. l \in Nat
      BY DEF IsFrame
    <2> QED BY <1>3, <1>4, <2>2, <2>3
  <1>7. Stoi(b) = l
    BY <1>1, <1>2, <1>5, <1>6 DEF Stoi
  <1> QED BY <1>7, Widths DEF Number, IsFrame

\* What obtain makes of the beginning of a frame: it takes a frame that is cut after its
\* length for a message of no payload, or of one byte.
LEMMA VerdictIs ==
  ASSUME NEW f, NEW l, NEW q, IsFrame(f, l, q),
         NEW b \in Seq(Byte), Begins(b, f), Len(b) < SizeT
  PROVE  /\ Len(b) <= 2 => Verdict(b) = "more"
         /\ Len(b) = 3 => Verdict(b) = "throw"
         /\ Len(b) = 4 \/ Len(b) = 5 => Verdict(b) = "message"
         /\ Len(b) >= 6 /\ Len(b) < l + 6 => Verdict(b) = "more"
         /\ Len(b) >= l + 6 => Verdict(b) = "message"
  <1>1. PICK n \in Nat : n = Len(b)
    OBVIOUS
  <1>2. (l = 10 \/ l = 11) /\ SizeT = 1048576 /\ n < 1048576
    BY <1>1, Widths DEF IsFrame
  <1>3. CASE n <= 2
    <2>1. FirstEnd(b) = 0
      BY <1>1, <1>3, FirstEndIs
    <2>2. Verdict(b) = "more"
      BY <2>1 DEF Verdict
    <2>3. n # 3 /\ n # 4 /\ n # 5 /\ ~(n >= 6) /\ ~(n >= l + 6)
      BY <1>2, <1>3
    <2> QED BY <1>1, <2>2, <2>3, Zenon
  <1>4. CASE n >= 3
    <2>1. FirstEnd(b) = 3 /\ NumberArea(b) = 2 /\ Stoi(b) = l /\ Number(b) = l
      BY <1>1, <1>4, FirstEndIs, NumberIs
    <2>2. Short(b) <=> (n - 6) % 1048576 < l
      <3>1. n - 2 - 4 = n - 6
        OBVIOUS
      <3> QED BY <1>1, <1>2, <2>1, <3>1 DEF Short
    <2>3. n < 6 => ~((n - 6) % 1048576 < l)
      <3>1. n = 3 \/ n = 4 \/ n = 5 => ~((n - 6) % 1048576 < l)
        BY <1>2
      <3> QED BY <1>4, <3>1
    <2>4. n >= 6 => (n - 6) % 1048576 = n - 6
      BY <1>2
    <2>5. l # -1 /\ l >= 10
      BY <1>2
    <2>6. Verdict(b) = IF Short(b) THEN "more" ELSE IF 4 > n THEN "throw" ELSE "message"
      BY <1>1, <2>1, <2>5 DEF Verdict
    <2>7. n = 3 => Verdict(b) = "throw"
      BY <2>2, <2>3, <2>6
    <2>8. n = 4 \/ n = 5 => Verdict(b) = "message"
      BY <2>2, <2>3, <2>6
    <2>9. n >= 6 /\ n < l + 6 => Verdict(b) = "more"
      BY <1>2, <2>2, <2>4, <2>6
    <2>10. n >= l + 6 => Verdict(b) = "message"
      BY <1>2, <2>2, <2>4, <2>6
    <2>11. ~(n <= 2)
      BY <1>4
    <2> QED BY <1>1, <2>7, <2>8, <2>9, <2>10, <2>11, Zenon
  <1> QED BY <1>1, <1>3, <1>4

\* The message of a frame that is there is its text, and nothing is left of it.
LEMMA WholeIs ==
  ASSUME NEW f, NEW l, NEW q, IsFrame(f, l, q),
         NEW b \in Seq(Byte), Begins(b, f), Len(b) >= l + 6
  PROVE  Payload(b) = Text(l, q) /\ Erased(b) = SubSeq(b, l + 7, Len(b))
  <1>1. l \in Nat /\ l >= 10 /\ (l = 10 \/ l = 11) /\ q \in 0..MaxRequests /\ Len(b) \in Nat
    BY DEF IsFrame
  <1>2. NumberArea(b) = 2 /\ Number(b) = l
    BY <1>1, FirstEndIs, NumberIs
  <1>3. Payload(b) = SubSeq(b, 5, l + 4)
    <2>1. 2 + 3 = 5 /\ 2 + 2 + l = l + 4 /\ ~(l + 4 > Len(b))
      BY <1>1
    <2> QED BY <1>2, <2>1 DEF Payload
  <1>4. Erased(b) = SubSeq(b, l + 7, Len(b))
    <2>1. 1 + 2 + 2 + l + 2 = l + 7
      BY <1>1
    <2> QED BY <1>2, <2>1 DEF Erased
  <1>5. PICK t : t = SubSeq(b, 5, l + 4)
    OBVIOUS
  <1>6. t \in Seq(Byte) /\ Len(t) = l /\ \A i \in 1..l : t[i] = b[i + 4]
    <2>1. \A i \in 5..(l + 4) : b[i] \in Byte
      BY <1>1
    <2>2. /\ t \in Seq(Byte) /\ Len(t) = IF 5 <= l + 4 THEN l + 4 - 5 + 1 ELSE 0
          /\ \A i \in 1..(l + 4 - 5 + 1) : t[i] = b[5 + i - 1]
      BY <1>1, <1>5, <2>1, SubSeqProperties
    <2>3. 5 <= l + 4 /\ l + 4 - 5 + 1 = l /\ \A i \in 1..l : 5 + i - 1 = i + 4
      BY <1>1
    <2> QED BY <2>2, <2>3
  <1>7. ASSUME NEW i \in 1..l PROVE b[i + 4] = Text(l, q)[i]
    <2>1. i + 4 \in 1..Len(b) /\ i + 4 <= l + 6
      BY <1>1
    <2>2. Len(f) = l + 6 /\ \A j \in 1..l : f[j + 4] = Text(l, q)[j]
      <3>1. Len(f) = l + 6
        BY FrameIs, Zenon
      <3>2. \A j \in 1..l : f[j + 4] = Text(l, q)[j]
        BY FrameIs
      <3> QED BY <3>1, <3>2
    <2> QED BY <2>1, <2>2 DEF Begins
  <1>8. t = Text(l, q)
    <2>1. Text(l, q) \in Seq(Byte) /\ Len(Text(l, q)) = l
      BY <1>1, TextIs
    <2>2. \A i \in 1..l : t[i] = Text(l, q)[i]
      BY <1>6, <1>7
    <2> QED BY <1>6, <2>1, <2>2, SeqEqual
  <1> QED BY <1>3, <1>4, <1>5, <1>8

\* The message of a frame that is cut after its length is empty or a byte, and all that
\* has come is erased.
LEMMA CutIs ==
  ASSUME NEW f, NEW l, NEW q, IsFrame(f, l, q),
         NEW b \in Seq(Byte), Begins(b, f), Len(b) = 4 \/ Len(b) = 5
  PROVE  Payload(b) \in Seq(Byte) /\ Len(Payload(b)) <= 1 /\ Erased(b) = <<>>
  <1>1. l \in Nat /\ l >= 10 /\ Len(b) \in Nat /\ Len(b) >= 3 /\ Len(b) <= 5
    <2>1. l \in Nat /\ l >= 10
      BY DEF IsFrame
    <2>2. \A n : n = 4 \/ n = 5 => n \in Nat /\ n >= 3 /\ n <= 5
      OBVIOUS
    <2> QED BY <2>1, <2>2, Zenon
  <1>2. NumberArea(b) = 2 /\ Number(b) = l
    BY <1>1, FirstEndIs, NumberIs
  <1>3. Payload(b) = SubSeq(b, 5, Len(b))
    <2>1. 2 + 3 = 5 /\ 2 + 2 + l > Len(b)
      BY <1>1
    <2> QED BY <1>2, <2>1 DEF Payload
  <1>4. Erased(b) = <<>>
    <2>1. 1 + 2 + 2 + l + 2 = l + 7 /\ Len(b) < l + 7 /\ l + 7 \in Int
      BY <1>1
    <2> QED BY <1>1, <1>2, <2>1, SubSeqEmpty DEF Erased
  <1>5. SubSeq(b, 5, Len(b)) \in Seq(Byte) /\ Len(SubSeq(b, 5, Len(b))) <= 1
    <2>1. \A i \in 5..Len(b) : b[i] \in Byte
      OBVIOUS
    <2>2. /\ SubSeq(b, 5, Len(b)) \in Seq(Byte)
          /\ Len(SubSeq(b, 5, Len(b))) = IF 5 <= Len(b) THEN Len(b) - 5 + 1 ELSE 0
      BY <1>1, <2>1, SubSeqProperties
    <2>3. 5 <= Len(b) => Len(b) - 5 + 1 <= 1
      BY <1>1
    <2>4. 0 <= 1
      OBVIOUS
    <2> QED BY <2>2, <2>3, <2>4
  <1> QED BY <1>3, <1>4, <1>5

\* The texts of each side are told apart by their second byte.
LEMMA Parses ==
  ASSUME NEW l, l = 10 \/ l = 11, NEW texts, NEW b,
         \A p \in 1..MaxRequests : texts[p] = Text(l, p)
  PROVE  /\ \A q \in 0..MaxRequests : Payload(b) = Text(l, q) => Parse(b, texts) = q
         /\ Payload(b) \in Seq(Byte) /\ Len(Payload(b)) <= 1 => Parse(b, texts) = Garbage
  <1> DEFINE fits == {p \in 1..MaxRequests : Payload(b) = texts[p]}
  <1>1. MaxRequests \in Nat
    BY CalculatorAssumption
  <1>2. ASSUME NEW p \in 0..MaxRequests
        PROVE  Text(l, p)[2] = 128 + p /\ Len(Text(l, p)) = l /\ p \in Nat
    <2>1. p \in Nat
      BY <1>1
    <2>2. Text(l, p)[2] = 128 + p /\ Len(Text(l, p)) = l
      BY TextIs
    <2> QED BY <2>1, <2>2
  <1>3. \A p \in 1..MaxRequests : p \in 0..MaxRequests /\ p # 0
    BY <1>1
  <1>4. ASSUME NEW q \in 0..MaxRequests, Payload(b) = Text(l, q)
        PROVE  Parse(b, texts) = q
    <2>1. ASSUME NEW p \in 1..MaxRequests, Payload(b) = texts[p] PROVE p = q
      <3>1. Text(l, p) = Text(l, q)
        BY <1>4, <2>1
      <3>2. 128 + p = 128 + q
        BY <1>2, <1>3, <3>1
      <3> QED BY <1>2, <1>3, <3>2
    <2>2. CASE q = 0
      <3>1. fits = {}
        BY <1>3, <2>1, <2>2
      <3> QED BY <2>2, <3>1 DEF Parse, Garbage
    <2>3. CASE q # 0
      <3>1. q \in fits
        BY <1>1, <1>4, <2>3
      <3>2. fits = {q}
        BY <2>1, <3>1
      <3>3. Min(fits) \in fits
        <4>1. fits \subseteq Nat /\ fits # {}
          BY <1>1, <3>1
        <4> HIDE DEF fits
        <4> QED BY <4>1, MinOf
      <3> QED BY <3>2, <3>3 DEF Parse
    <2> QED BY <2>2, <2>3
  <1>5. ASSUME Payload(b) \in Seq(Byte), Len(Payload(b)) <= 1
        PROVE  Parse(b, texts) = Garbage
    <2>1. ASSUME NEW p \in 1..MaxRequests PROVE Payload(b) # texts[p]
      <3>1. Len(Text(l, p)) = l /\ texts[p] = Text(l, p)
        BY <1>2, <1>3
      <3>2. ~(l <= 1)
        OBVIOUS
      <3> QED BY <1>5, <3>1, <3>2
    <2>2. fits = {}
      BY <2>1
    <2> QED BY <2>2 DEF Parse
  <1> QED BY <1>4, <1>5

LEMMA ParsesNothing ==
  ASSUME NEW l, l = 10 \/ l = 11, NEW texts, NEW b,
         \A p \in 1..MaxRequests : texts[p] = Text(l, p),
         Payload(b) \in Seq(Byte), Len(Payload(b)) <= 1
  PROVE  Parse(b, texts) = Garbage
  BY Parses

-----------------------------------------------------------------------------
(* What is under way to a side                                               *)

\* The frames, with texts of l characters, of the messages qs from the k+1-st.
Lined(l, qs, k) == [i \in 1..(Len(qs) - k) |-> Frame(Text(l, qs[k + i]))]
Due(l, qs, k) == FlattenSeq(Lined(l, qs, k))

\* A side that has taken the messages got has its buffer b and its stream s at the
\* beginning of a frame;
Aligned(l, b, s, qs, got) ==
  Cat(b, s) = Due(l, qs, Len(got)) /\ \A i \in 1..Len(got) : got[i] = qs[i]

\* or, after a message that it has taken too soon, where no number begins.
Astray(g) == g # <<>> /\ g[1] \notin Digits /\ g[1] # CR /\ g[1] # LF

On(l, b, s, qs, got, w) == Aligned(l, b, s, qs, got) \/ (~w /\ Astray(Cat(b, s)))

\* The numbers of the requests, and Garbage
Ids == 0..MaxRequests

LEMMA FrameOf ==
  ASSUME NEW l, l = 10 \/ l = 11, NEW q, q \in Ids
  PROVE  /\ IsFrame(Frame(Text(l, q)), l, q)
         /\ Frame(Text(l, q)) \in Seq(Byte) /\ Len(Frame(Text(l, q))) = l + 6
  <1>1. IsFrame(Frame(Text(l, q)), l, q)
    BY DEF IsFrame, Ids
  <1> QED BY <1>1, FrameIs, ZenonT(30)

LEMMA LinedIs ==
  ASSUME NEW l, l = 10 \/ l = 11, NEW qs \in Seq(Ids), NEW k \in Nat, k <= Len(qs)
  PROVE  /\ Lined(l, qs, k) \in Seq(Seq(Byte))
         /\ Len(Lined(l, qs, k)) = Len(qs) - k
         /\ \A i \in 1..(Len(qs) - k) : Lined(l, qs, k)[i] = Frame(Text(l, qs[k + i]))
         /\ Due(l, qs, k) \in Seq(Byte)
  <1>1. PICK n \in Nat : n = Len(qs) - k
    <2>1. Len(qs) \in Nat
      OBVIOUS
    <2>2. Len(qs) - k \in Nat
      BY <2>1
    <2> QED BY <2>2, Zenon
  <1>2. PICK xs : xs = Lined(l, qs, k)
    OBVIOUS
  <1>3. xs = [i \in 1..n |-> Frame(Text(l, qs[k + i]))]
    BY <1>1, <1>2, Zenon DEF Lined
  <1>4. ASSUME NEW i \in 1..n PROVE Frame(Text(l, qs[k + i])) \in Seq(Byte)
    <2>1. k + i \in 1..Len(qs)
      BY <1>1
    <2>2. qs[k + i] \in Ids
      BY <2>1, ElementOfSeq
    <2> QED BY <2>2, FrameOf
  <1>5. xs \in Seq(Seq(Byte)) /\ Len(xs) = n
    <2>1. xs \in [1..n -> Seq(Byte)]
      BY <1>3, <1>4
    <2> QED BY <2>1
  <1>6. \A i \in 1..n : xs[i] = Frame(Text(l, qs[k + i]))
    BY <1>3
  <1>7. FlattenSeq(xs) \in Seq(Byte)
    BY <1>5, FlattenType
  <1>8. Due(l, qs, k) = FlattenSeq(xs)
    BY <1>2, Zenon DEF Due
  <1> QED BY <1>1, <1>2, <1>5, <1>6, <1>7, <1>8, Zenon

LEMMA DueEnd ==
  ASSUME NEW l, l = 10 \/ l = 11, NEW qs \in Seq(Ids)
  PROVE  Due(l, qs, Len(qs)) = <<>>
  <1>1. Len(qs) \in Nat /\ Len(qs) <= Len(qs) /\ Len(qs) - Len(qs) = 0
    OBVIOUS
  <1>2. PICK xs \in Seq(Seq(Byte)) : xs = Lined(l, qs, Len(qs)) /\ Len(xs) = 0
    <2>1. Lined(l, qs, Len(qs)) \in Seq(Seq(Byte)) /\ Len(Lined(l, qs, Len(qs))) = Len(qs) - Len(qs)
      BY <1>1, LinedIs
    <2> QED BY <1>1, <2>1, Zenon
  <1>3. xs = <<>>
    BY <1>2
  <1> QED BY <1>2, <1>3, FlattenEmpty, Zenon DEF Due

LEMMA DueFirst ==
  ASSUME NEW l, l = 10 \/ l = 11, NEW qs \in Seq(Ids), NEW k \in Nat, k < Len(qs)
  PROVE  Due(l, qs, k) = Cat(Frame(Text(l, qs[k + 1])), Due(l, qs, k + 1))
  <1>1. PICK n \in Nat : n + 1 = Len(qs) - k /\ n = Len(qs) - (k + 1)
    <2>1. Len(qs) \in Nat
      OBVIOUS
    <2>2. Len(qs) - (k + 1) \in Nat /\ Len(qs) - (k + 1) + 1 = Len(qs) - k
      BY <2>1
    <2> QED BY <2>2, Zenon
  <1>2. k + 1 \in Nat /\ k + 1 <= Len(qs) /\ k <= Len(qs) /\ k + 1 \in 1..Len(qs)
    OBVIOUS
  <1>3. PICK xs \in Seq(Seq(Byte)) :
          /\ xs = Lined(l, qs, k + 1) /\ Len(xs) = n
          /\ \A i \in 1..n : xs[i] = Frame(Text(l, qs[(k + 1) + i]))
    <2>1. /\ Lined(l, qs, k + 1) \in Seq(Seq(Byte)) /\ Len(Lined(l, qs, k + 1)) = Len(qs) - (k + 1)
          /\ \A i \in 1..(Len(qs) - (k + 1)) :
               Lined(l, qs, k + 1)[i] = Frame(Text(l, qs[(k + 1) + i]))
      BY <1>2, LinedIs
    <2> QED BY <1>1, <2>1, Zenon
  <1>4. PICK ys \in Seq(Seq(Byte)) :
          /\ ys = Lined(l, qs, k) /\ Len(ys) = n + 1
          /\ \A i \in 1..(n + 1) : ys[i] = Frame(Text(l, qs[k + i]))
    <2>1. /\ Lined(l, qs, k) \in Seq(Seq(Byte)) /\ Len(Lined(l, qs, k)) = Len(qs) - k
          /\ \A i \in 1..(Len(qs) - k) : Lined(l, qs, k)[i] = Frame(Text(l, qs[k + i]))
      BY <1>2, LinedIs
    <2> QED BY <1>1, <2>1, Zenon
  <1>5. PICK x \in Seq(Byte) : x = Frame(Text(l, qs[k + 1]))
    <2>1. qs[k + 1] \in Ids
      BY <1>2, ElementOfSeq
    <2>2. Frame(Text(l, qs[k + 1])) \in Seq(Byte)
      BY <2>1, FrameOf
    <2> QED BY <2>2, Zenon
  <1>6. PICK u \in Seq(Seq(Byte)) : u = <<x>> /\ Len(u) = 1 /\ u[1] = x
    <2>1. <<x>> \in Seq(Seq(Byte)) /\ Len(<<x>>) = 1 /\ <<x>>[1] = x
      OBVIOUS
    <2> QED BY <2>1, Zenon
  <1>7. PICK g \in Seq(Seq(Byte)) : /\ g = Cat(u, xs) /\ Len(g) = n + 1
                                    /\ g[1] = x /\ \A i \in 1..n : g[1 + i] = xs[i]
    <2>1. PICK g : g = u \o xs
      OBVIOUS
    <2>2. /\ g \in Seq(Seq(Byte)) /\ Len(g) = Len(u) + Len(xs)
          /\ \A i \in 1..Len(u) : g[i] = u[i]
          /\ \A i \in 1..Len(xs) : g[Len(u) + i] = xs[i]
      BY <2>1, CatIs
    <2>3. Len(g) = n + 1 /\ g[1] = x /\ \A i \in 1..n : g[1 + i] = xs[i]
      BY <1>3, <1>6, <2>2, SMTT(30)
    <2> QED BY <2>1, <2>2, <2>3, Zenon DEF Cat
  <1>8. ASSUME NEW i \in 1..(n + 1) PROVE g[i] = ys[i]
    <2>1. CASE i = 1
      <3>1. 1 \in 1..(n + 1)
        OBVIOUS
      <3>2. ys[1] = Frame(Text(l, qs[k + 1]))
        BY <1>4, <3>1, Zenon
      <3> QED BY <1>5, <1>7, <2>1, <3>2, Zenon
    <2>2. CASE i # 1
      <3>1. PICK j \in 1..n : 1 + j = i /\ (k + 1) + j = k + i
        <4>1. i - 1 \in 1..n /\ 1 + (i - 1) = i /\ (k + 1) + (i - 1) = k + i
          BY <2>2
        <4> QED BY <4>1, Zenon
      <3>2. xs[j] = Frame(Text(l, qs[k + i])) /\ ys[i] = Frame(Text(l, qs[k + i]))
        BY <1>3, <1>4, <3>1, Zenon
      <3>3. g[i] = xs[j]
        BY <1>7, <3>1, Zenon
      <3> QED BY <3>2, <3>3, Zenon
    <2> QED BY <2>1, <2>2
  <1>9. g = ys
    <2>1. Len(g) = Len(ys) /\ \A i \in 1..Len(g) : g[i] = ys[i]
      BY <1>4, <1>7, <1>8, Zenon
    <2> QED BY <2>1, SeqEqual
  <1>10. FlattenSeq(Cat(<<x>>, xs)) = Cat(x, FlattenSeq(xs))
    BY FlattenCons
  <1>11. Due(l, qs, k) = FlattenSeq(ys) /\ Due(l, qs, k + 1) = FlattenSeq(xs)
    BY <1>3, <1>4, Zenon DEF Due
  <1> QED BY <1>5, <1>6, <1>7, <1>9, <1>10, <1>11, Zenon

LEMMA DueMore ==
  ASSUME NEW l, l = 10 \/ l = 11, NEW qs \in Seq(Ids), NEW k \in Nat, k <= Len(qs),
         NEW q, q \in Ids
  PROVE  Due(l, Append(qs, q), k) = Cat(Due(l, qs, k), Frame(Text(l, q)))
  <1>1. PICK m \in Nat, n \in Nat :
          m = Len(qs) /\ n = m - k /\ n = Len(qs) - k /\ k + (n + 1) = Len(qs) + 1
    <2>1. Len(qs) \in Nat
      OBVIOUS
    <2>2. Len(qs) - k \in Nat /\ k + ((Len(qs) - k) + 1) = Len(qs) + 1
      BY <2>1
    <2>3. PICK m \in Nat : m = Len(qs)
      BY <2>1, Zenon
    <2> QED BY <2>2, <2>3, Zenon
  <1>2. PICK rs \in Seq(Ids) : /\ rs = Append(qs, q) /\ Len(rs) = Len(qs) + 1
                               /\ Len(rs) - k = n + 1 /\ k <= Len(rs)
                               /\ rs[Len(qs) + 1] = q /\ \A i \in 1..Len(qs) : rs[i] = qs[i]
    <2>1. /\ Append(qs, q) \in Seq(Ids) /\ Len(Append(qs, q)) = Len(qs) + 1
          /\ Append(qs, q)[Len(qs) + 1] = q
          /\ \A i \in 1..Len(qs) : Append(qs, q)[i] = qs[i]
      BY AppendProperties
    <2>2. (Len(qs) + 1) - k = n + 1 /\ k <= Len(qs) + 1
      BY <1>1
    <2> QED BY <2>1, <2>2, Zenon
  <1>3. PICK xs \in Seq(Seq(Byte)) : /\ xs = Lined(l, qs, k) /\ Len(xs) = n
                                     /\ \A i \in 1..n : xs[i] = Frame(Text(l, qs[k + i]))
    <2>1. /\ Lined(l, qs, k) \in Seq(Seq(Byte)) /\ Len(Lined(l, qs, k)) = Len(qs) - k
          /\ \A i \in 1..(Len(qs) - k) : Lined(l, qs, k)[i] = Frame(Text(l, qs[k + i]))
      BY LinedIs
    <2> QED BY <1>1, <2>1, Zenon
  <1>4. PICK ys \in Seq(Seq(Byte)) :
          /\ ys = Lined(l, rs, k) /\ Len(ys) = n + 1
          /\ \A i \in 1..(n + 1) : ys[i] = Frame(Text(l, rs[k + i]))
    <2>1. /\ Lined(l, rs, k) \in Seq(Seq(Byte)) /\ Len(Lined(l, rs, k)) = Len(rs) - k
          /\ \A i \in 1..(Len(rs) - k) : Lined(l, rs, k)[i] = Frame(Text(l, rs[k + i]))
      <3>1. k <= Len(rs)
        BY <1>2, Zenon
      <3> QED BY <3>1, LinedIs, SMTT(30)
    <2> QED BY <1>2, <2>1, Zenon
  <1>5. PICK x \in Seq(Byte) : x = Frame(Text(l, q))
    <2>1. Frame(Text(l, q)) \in Seq(Byte)
      BY FrameOf
    <2> QED BY <2>1, Zenon
  <1>6. PICK g \in Seq(Seq(Byte)) : /\ g = Append(xs, x) /\ Len(g) = n + 1
                                    /\ g[n + 1] = x /\ \A i \in 1..n : g[i] = xs[i]
    <2>1. /\ Append(xs, x) \in Seq(Seq(Byte)) /\ Len(Append(xs, x)) = Len(xs) + 1
          /\ Append(xs, x)[Len(xs) + 1] = x /\ \A i \in 1..Len(xs) : Append(xs, x)[i] = xs[i]
      BY AppendProperties
    <2> QED BY <1>3, <2>1, Zenon
  <1>7. ASSUME NEW i \in 1..(n + 1) PROVE g[i] = ys[i]
    <2>1. ys[i] = Frame(Text(l, rs[k + i]))
      BY <1>4, Zenon
    <2>2. CASE i = n + 1
      BY <1>1, <1>2, <1>5, <1>6, <2>1, <2>2, Zenon
    <2>3. CASE i # n + 1
      <3>1. i \in 1..n /\ k + i \in 1..Len(qs)
        <4>1. n = m - k
          BY <1>1, Zenon
        <4>2. i \in 1..n
          BY <2>3
        <4>3. k + i \in 1..m
          BY <4>1, <4>2
        <4> QED BY <1>1, <4>2, <4>3, Zenon
      <3> QED BY <1>2, <1>3, <1>6, <2>1, <3>1, Zenon
    <2> QED BY <2>2, <2>3
  <1>8. g = ys
    <2>1. Len(g) = Len(ys) /\ \A i \in 1..Len(g) : g[i] = ys[i]
      BY <1>4, <1>6, <1>7, Zenon
    <2> QED BY <2>1, SeqEqual
  <1>9. FlattenSeq(Append(xs, x)) = Cat(FlattenSeq(xs), x)
    BY FlattenAppend DEF Cat
  <1> QED BY <1>2, <1>3, <1>4, <1>5, <1>6, <1>8, <1>9, Zenon DEF Due

\* What is sent comes behind what is under way.
LEMMA SendOn ==
  ASSUME NEW l, l = 10 \/ l = 11, NEW b \in Seq(Byte), NEW s \in Seq(Byte),
         NEW qs \in Seq(Ids), NEW got \in Seq(Ids), Len(got) <= Len(qs),
         NEW q, q \in Ids, NEW w, On(l, b, s, qs, got, w)
  PROVE  On(l, b, Cat(s, Frame(Text(l, q))), Append(qs, q), got, w)
  <1>1. PICK f \in Seq(Byte) : f = Frame(Text(l, q))
    <2>1. Frame(Text(l, q)) \in Seq(Byte)
      BY FrameOf
    <2> QED BY <2>1, Zenon
  <1>2. PICK g \in Seq(Byte) : g = Cat(b, s)
    <2>1. Cat(b, s) \in Seq(Byte)
      BY CatType
    <2> QED BY <2>1, Zenon
  <1>3. Cat(b, Cat(s, f)) = Cat(g, f)
    <2>1. Cat(Cat(b, s), f) = Cat(b, Cat(s, f))
      BY CatAssociative
    <2> QED BY <1>2, <2>1, Zenon
  <1>4. ASSUME Aligned(l, b, s, qs, got) PROVE Aligned(l, b, Cat(s, f), Append(qs, q), got)
    <2>1. g = Due(l, qs, Len(got)) /\ \A i \in 1..Len(got) : got[i] = qs[i]
      BY <1>2, <1>4, Zenon DEF Aligned
    <2>2. Len(got) \in Nat
      OBVIOUS
    <2>3. Due(l, Append(qs, q), Len(got)) = Cat(Due(l, qs, Len(got)), Frame(Text(l, q)))
      BY <2>2, DueMore
    <2>4. \A i \in 1..Len(got) : Append(qs, q)[i] = qs[i]
      OBVIOUS
    <2>5. \A i \in 1..Len(got) : got[i] = Append(qs, q)[i]
      BY <2>1, <2>4, Zenon
    <2> QED BY <1>1, <1>3, <2>1, <2>3, <2>5, Zenon DEF Aligned
  <1>5. ASSUME Astray(g) PROVE Astray(Cat(g, f))
    <2>1. PICK h : h = g \o f
      OBVIOUS
    <2>2. h \in Seq(Byte) /\ Len(h) = Len(g) + Len(f) /\ \A i \in 1..Len(g) : h[i] = g[i]
      BY <2>1, CatIs
    <2>3. g # <<>>
      BY <1>5, Zenon DEF Astray
    <2>4. Len(g) \in Nat /\ Len(f) \in Nat /\ Len(g) >= 1
      BY <2>3
    <2>5. 1 \in 1..Len(g) /\ Len(h) >= 1
      BY <2>2, <2>4
    <2>6. h # <<>> /\ h[1] = g[1]
      BY <2>2, <2>5
    <2> QED BY <1>5, <2>1, <2>6, Zenon DEF Astray, Cat
  <1> QED BY <1>1, <1>2, <1>3, <1>4, <1>5, Zenon DEF On

\* What is received moves from the stream to the buffer.
LEMMA RecvOn ==
  ASSUME NEW l, NEW b \in Seq(Byte), NEW s \in Seq(Byte), NEW n \in 1..Len(s),
         NEW qs, NEW got, NEW w
  PROVE  /\ b \o SubSeq(s, 1, n) \in Seq(Byte) /\ Len(b \o SubSeq(s, 1, n)) = Len(b) + n
         /\ Rest(s, n) \in Seq(Byte) /\ Len(Rest(s, n)) = Len(s) - n
         /\ On(l, b, s, qs, got, w) => On(l, b \o SubSeq(s, 1, n), Rest(s, n), qs, got, w)
  <1>1. PICK h \in Seq(Byte), r \in Seq(Byte) :
          h = SubSeq(s, 1, n) /\ r = Rest(s, n) /\ Len(h) = n /\ Cat(h, r) = s
    <2>1. /\ SubSeq(s, 1, n) \in Seq(Byte) /\ Len(SubSeq(s, 1, n)) = n
          /\ SubSeq(s, n + 1, Len(s)) \in Seq(Byte)
          /\ SubSeq(s, 1, n) \o SubSeq(s, n + 1, Len(s)) = s
      BY SplitAt
    <2> QED BY <2>1, Zenon DEF Rest, Cat
  <1>2. Cat(b, h) \in Seq(Byte) /\ Len(Cat(b, h)) = Len(b) + n
    BY <1>1, ConcatProperties DEF Cat
  <1>3. Len(r) = Len(s) - n
    <2>1. PICK g : g = h \o r
      OBVIOUS
    <2>2. Len(g) = Len(h) + Len(r)
      BY <2>1, CatIs
    <2>3. g = s
      BY <1>1, <2>1, Zenon DEF Cat
    <2>4. Len(h) \in Nat /\ Len(r) \in Nat /\ Len(s) \in Nat
      OBVIOUS
    <2> QED BY <1>1, <2>2, <2>3, <2>4
  <1>4. Cat(Cat(b, h), r) = Cat(b, s)
    <2>1. Cat(Cat(b, h), r) = Cat(b, Cat(h, r))
      BY CatAssociative
    <2> QED BY <1>1, <2>1, Zenon
  <1>5. On(l, b, s, qs, got, w) => On(l, Cat(b, h), r, qs, got, w)
    BY <1>4, Zenon DEF On, Aligned
  <1>6. b \o SubSeq(s, 1, n) = Cat(b, h) /\ Rest(s, n) = r
    BY <1>1, Zenon DEF Cat
  <1> QED BY <1>2, <1>3, <1>5, <1>6, Zenon

\* No message is found in what does not begin with a number.
LEMMA AstrayIs ==
  ASSUME NEW b \in Seq(Byte), NEW s \in Seq(Byte), b # <<>>, Astray(Cat(b, s))
  PROVE  Verdict(b) # "message"
  <1>1. PICK n \in Nat : n = Len(b) /\ n >= 1
    <2>1. Len(b) \in Nat /\ Len(b) >= 1
      OBVIOUS
    <2> QED BY <2>1, Zenon
  <1>2. b[1] \notin Digits /\ b[1] # CR /\ b[1] # LF
    <2>1. PICK g : g = b \o s
      OBVIOUS
    <2>2. \A i \in 1..Len(b) : g[i] = b[i]
      BY <2>1, CatIs
    <2>3. 1 \in 1..Len(b)
      BY <1>1
    <2>4. g[1] = b[1]
      BY <2>2, <2>3, Zenon
    <2> QED BY <2>1, <2>4, Zenon DEF Astray, Cat
  <1>3. CASE Ends(b) = {}
    <2>1. FirstEnd(b) = 0
      BY <1>3 DEF FirstEnd
    <2> QED BY <2>1 DEF Verdict
  <1>4. CASE Ends(b) # {}
    <2>1. Ends(b) \subseteq 1..n /\ 1 \notin Ends(b)
      BY <1>1, <1>2 DEF Ends
    <2>2. Ends(b) \subseteq Nat
      BY <2>1
    <2>3. Min(Ends(b)) \in Ends(b)
      BY <1>4, <2>2, MinOf
    <2>4. PICK e \in 2..n : e = FirstEnd(b)
      <3>1. FirstEnd(b) = Min(Ends(b))
        BY <1>4 DEF FirstEnd
      <3>2. Min(Ends(b)) \in 2..n
        BY <2>1, <2>3
      <3> QED BY <3>1, <3>2, Zenon
    <2>5. PICK d : d = SubSeq(b, 1, e - 1)
      OBVIOUS
    <2>6. d \in Seq(Byte) /\ Len(d) = e - 1 /\ d[1] = b[1] /\ Len(d) >= 1
      <3>1. e - 1 \in 1..Len(b) /\ 1 <= e - 1
        BY <1>1
      <3>2. d \in Seq(Byte) /\ Len(d) = e - 1
        BY <2>5, <3>1, SplitAt
      <3>3. PICK m \in Nat : m = e - 1 /\ m >= 1 /\ m <= n
        BY <1>1
      <3>4. \A i \in 1..m : b[i] \in Byte
        BY <1>1, <3>3
      <3>5. \A i \in 1..(m - 1 + 1) : d[i] = b[1 + i - 1]
        BY <2>5, <3>3, <3>4, SubSeqProperties
      <3>6. d[1] = b[1]
        BY <3>3, <3>5
      <3> QED BY <3>1, <3>2, <3>6
    <2>7. DigitsOf(d) = <<>>
      <3> DEFINE stop == {i \in DOMAIN d : d[i] \notin Digits} \cup {Len(d) + 1}
      <3>1. 1 \in stop /\ stop \subseteq Nat /\ \A i \in stop : i >= 1
        BY <1>2, <2>6
      <3>2. Min(stop) = 1
        <4>1. Min(stop) \in stop /\ Min(stop) <= 1
          <5> HIDE DEF stop
          <5> QED BY <3>1, MinOf
        <4> HIDE DEF stop
        <4>2. Min(stop) \in Nat /\ Min(stop) >= 1
          BY <3>1, <4>1, Zenon
        <4>3. \A m \in Nat : m >= 1 /\ m <= 1 => m = 1
          OBVIOUS
        <4> QED BY <4>1, <4>2, <4>3, Zenon
      <3>3. DigitsOf(d) = SubSeq(d, 1, 1 - 1)
        BY <3>2 DEF DigitsOf
      <3>4. SubSeq(d, 1, 0) = <<>>
        BY <2>6, SubSeqEmpty
      <3> QED BY <3>3, <3>4
    <2>8. Stoi(b) = -1
      BY <2>4, <2>5, <2>7 DEF Stoi, NumberArea
    <2>9. FirstEnd(b) # 0 /\ FirstEnd(b) > 0
      BY <2>4
    <2> QED BY <2>8, <2>9 DEF Verdict
  <1> QED BY <1>3, <1>4

\* A side that finds a message takes the next one that was sent to it; or, on a stream
\* that does not keep the head of the frame together, garbage, after which it finds none.
LEMMA TakeOn ==
  ASSUME NEW l, l = 10 \/ l = 11, NEW b \in Seq(Byte), NEW s \in Seq(Byte),
         NEW qs \in Seq(Ids), NEW got \in Seq(Ids), Len(got) <= Len(qs),
         NEW w, On(l, b, s, qs, got, w), b # <<>>, Len(b) < SizeT, w => Len(b) >= 6,
         Verdict(b) = "message",
         NEW texts, \A p \in 1..MaxRequests : texts[p] = Text(l, p)
  PROVE  /\ Len(got) < Len(qs) /\ Parse(b, texts) \in Ids
         /\ \A i \in 1..Len(got) : got[i] = qs[i]
         /\ Parse(b, texts) = qs[Len(got) + 1] \/ (~w /\ Parse(b, texts) = Garbage)
         /\ Erased(b) \in Seq(Byte) /\ Len(Erased(b)) <= Len(b)
         /\ On(l, Erased(b), s, qs, Append(got, Parse(b, texts)), w)
  <1>0. l \in Nat /\ l >= 10
    <2>1. \A x : x = 10 \/ x = 11 => x \in Nat /\ x >= 10
      OBVIOUS
    <2> QED BY <2>1, Zenon
  <1>1. Cat(b, s) = Due(l, qs, Len(got)) /\ \A i \in 1..Len(got) : got[i] = qs[i]
    BY AstrayIs DEF On, Aligned
  <1>2. PICK k \in Nat, m \in Nat, n \in Nat :
          k = Len(got) /\ m = Len(qs) /\ n = Len(b) /\ k <= m /\ n >= 1
    <2>1. Len(got) \in Nat /\ Len(qs) \in Nat /\ Len(b) \in Nat /\ Len(b) >= 1
      OBVIOUS
    <2> QED BY <2>1, Zenon
  <1>3. k < m
    <2>1. SUFFICES ASSUME k = m PROVE FALSE
      BY <1>2
    <2>2. PICK g : g = b \o s
      OBVIOUS
    <2>3. Len(g) = Len(b) + Len(s) /\ Len(s) \in Nat
      BY <2>2, CatIs
    <2>4. Due(l, qs, Len(qs)) = <<>>
      BY DueEnd
    <2>5. g = <<>>
      BY <1>1, <1>2, <2>1, <2>2, <2>4, Zenon DEF Cat
    <2> QED BY <1>2, <2>3, <2>5
  <1>4. PICK q : q = qs[k + 1] /\ q \in Ids
    <2>1. k + 1 \in 1..Len(qs)
      BY <1>2, <1>3
    <2> QED BY <2>1, ElementOfSeq, Zenon
  <1>5. PICK f \in Seq(Byte) : f = Frame(Text(l, q)) /\ IsFrame(f, l, q) /\ Len(f) = l + 6
    <2>1. /\ IsFrame(Frame(Text(l, q)), l, q)
          /\ Frame(Text(l, q)) \in Seq(Byte) /\ Len(Frame(Text(l, q))) = l + 6
      BY <1>4, FrameOf
    <2> QED BY <2>1, Zenon
  <1>6. PICK r \in Seq(Byte) : r = Due(l, qs, k + 1) /\ Cat(b, s) = Cat(f, r)
    <2>1. k + 1 \in Nat /\ k + 1 <= Len(qs)
      BY <1>2, <1>3
    <2>2. Due(l, qs, k + 1) \in Seq(Byte)
      BY <2>1, LinedIs
    <2>3. Due(l, qs, k) = Cat(Frame(Text(l, qs[k + 1])), Due(l, qs, k + 1))
      BY <1>2, <1>3, DueFirst
    <2> QED BY <1>1, <1>2, <1>4, <1>5, <2>2, <2>3, Zenon
  <1>7. /\ Begins(b, f)
        /\ Len(b) >= Len(f) => /\ SubSeq(b, Len(f) + 1, Len(b)) \in Seq(Byte)
                               /\ Cat(SubSeq(b, Len(f) + 1, Len(b)), s) = r
        /\ Len(b) < Len(f) => s # <<>> /\ s[1] = f[Len(b) + 1]
    BY <1>6, CatMeets
  <1>8. n = 4 \/ n = 5 \/ n >= l + 6
    <2>1. /\ Len(b) <= 2 => Verdict(b) = "more"
          /\ Len(b) = 3 => Verdict(b) = "throw"
          /\ Len(b) >= 6 /\ Len(b) < l + 6 => Verdict(b) = "more"
      BY <1>5, <1>7, VerdictIs
    <2>2. ~(n <= 2) /\ n # 3 /\ ~(n >= 6 /\ n < l + 6)
      BY <1>2, <2>1
    <2> QED BY <2>2
  <1>9. \A p : p = Parse(b, texts) /\ p \in Ids => Append(got, p) \in Seq(Ids) /\ Len(Append(got, p)) = k + 1
    BY <1>2
  <1>10. CASE n >= l + 6
    <2>1. Payload(b) = Text(l, q) /\ Erased(b) = SubSeq(b, l + 7, Len(b))
      BY <1>2, <1>5, <1>7, <1>10, WholeIs, SMTT(30)
    <2>2. Parse(b, texts) = q
      <3>1. \A p \in 0..MaxRequests : Payload(b) = Text(l, p) => Parse(b, texts) = p
        BY Parses
      <3> QED BY <1>4, <2>1, <3>1, Zenon DEF Ids
    <2>3. (l + 6) + 1 = l + 7 /\ Len(b) >= Len(f)
      BY <1>2, <1>5, <1>10
    <2>4. Erased(b) \in Seq(Byte) /\ Cat(Erased(b), s) = r
      BY <1>5, <1>7, <2>1, <2>3, Zenon
    <2>5. Len(Erased(b)) <= Len(b)
      <3>1. Len(Erased(b)) = IF l + 7 <= n THEN n - (l + 7) + 1 ELSE 0
        <4>1. \A i \in (l + 7)..Len(b) : b[i] \in Byte
          OBVIOUS
        <4>2. l + 7 \in Nat
          OBVIOUS
        <4> QED BY <1>2, <2>1, <4>1, <4>2, SubSeqProperties
      <3>2. n - (l + 7) + 1 <= n /\ 0 <= n
        BY <1>0
      <3> QED BY <1>2, <3>1, <3>2
    <2>6. PICK now \in Seq(Ids) : /\ now = Append(got, q) /\ Len(now) = k + 1
                                  /\ now[k + 1] = q /\ \A i \in 1..k : now[i] = got[i]
      <3>1. /\ Append(got, q) \in Seq(Ids) /\ Len(Append(got, q)) = Len(got) + 1
            /\ Append(got, q)[Len(got) + 1] = q
            /\ \A i \in 1..Len(got) : Append(got, q)[i] = got[i]
        BY <1>4, AppendProperties
      <3> QED BY <1>2, <3>1, Zenon
    <2>7. ASSUME NEW i \in 1..(k + 1) PROVE now[i] = qs[i]
      <3>1. CASE i = k + 1
        BY <1>4, <2>6, <3>1, Zenon
      <3>2. CASE i # k + 1
        <4>1. i \in 1..k
          BY <3>2
        <4> QED BY <1>1, <1>2, <2>6, <4>1, Zenon
      <3> QED BY <3>1, <3>2
    <2>8. Aligned(l, Erased(b), s, qs, now)
      BY <1>6, <2>4, <2>6, <2>7, Zenon DEF Aligned
    <2> QED BY <1>1, <1>2, <1>3, <1>4, <2>2, <2>4, <2>5, <2>6, <2>8, Zenon DEF On
  <1>11. CASE n = 4 \/ n = 5
    <2>1. Payload(b) \in Seq(Byte) /\ Len(Payload(b)) <= 1 /\ Erased(b) = <<>>
      BY <1>2, <1>5, <1>7, <1>11, CutIs
    <2>2. Parse(b, texts) = Garbage
      <3>1. l = 10 \/ l = 11
        OBVIOUS
      <3>2. \A p \in 1..MaxRequests : texts[p] = Text(l, p)
        OBVIOUS
      <3> QED BY <2>1, <3>1, <3>2, ParsesNothing, Zenon
    <2>3. Garbage \in Ids
      BY CalculatorAssumption DEF Garbage, Ids
    <2>4. w = FALSE \/ ~w
      <3>1. ~(n >= 6)
        BY <1>11
      <3> QED BY <1>2, <3>1, Zenon
    <2>5. Erased(b) \in Seq(Byte) /\ Len(Erased(b)) <= Len(b)
      BY <1>2, <2>1
    <2>6. Cat(Erased(b), s) = s
      BY <2>1, CatEmpty
    <2>7. s # <<>> /\ s[1] = f[n + 1]
      <3>1. Len(b) < Len(f)
        <4>1. n < l + 6
          BY <1>0, <1>11
        <4> QED BY <1>2, <1>5, <4>1, Zenon
      <3> QED BY <1>2, <1>7, <3>1, Zenon
    <2>8. f[n + 1] = 123 \/ f[n + 1] = 128 + q
      <3>1. \A i \in 1..l : f[i + 4] = Text(l, q)[i]
        BY <1>5, FrameIs, SMTT(30)
      <3>2. Text(l, q)[1] = 123 /\ Text(l, q)[2] = 128 + q
        <4>1. q \in 0..MaxRequests
          BY <1>4, Zenon DEF Ids
        <4>2. l = 10 \/ l = 11
          OBVIOUS
        <4>3. /\ Text(l, q) \in Seq(Byte) /\ Len(Text(l, q)) = l
              /\ Text(l, q)[1] = 123 /\ Text(l, q)[2] = 128 + q /\ Text(l, q)[l] = LF
          BY <4>1, <4>2, TextIs, ZenonT(30)
        <4> QED BY <4>3, Zenon
      <3>3. 1 \in 1..l /\ 2 \in 1..l /\ 1 + 4 = 5 /\ 2 + 4 = 6
        OBVIOUS
      <3>4. f[5] = 123 /\ f[6] = 128 + q
        BY <3>1, <3>2, <3>3
      <3> QED BY <1>11, <3>4
    <2>9. s[1] \notin Digits /\ s[1] # CR /\ s[1] # LF
      <3>1. q \in Nat
        <4>1. q \in 0..MaxRequests
          BY <1>4, Zenon DEF Ids
        <4> QED BY <4>1, CalculatorAssumption
      <3>2. 128 + q \notin Digits /\ 128 + q # CR /\ 128 + q # LF
        BY <3>1 DEF Digits, CR, LF
      <3>3. 123 \notin Digits /\ 123 # CR /\ 123 # LF
        BY DEF Digits, CR, LF
      <3>4. CASE s[1] = 123
        BY <3>3, <3>4, Zenon
      <3>5. CASE s[1] = 128 + q
        BY <3>2, <3>5, Zenon
      <3> QED BY <2>7, <2>8, <3>4, <3>5, Zenon
    <2>10. Astray(Cat(Erased(b), s))
      BY <2>6, <2>7, <2>9, Zenon DEF Astray
    <2> QED BY <1>1, <1>2, <1>3, <2>2, <2>3, <2>4, <2>5, <2>10, Zenon DEF On
  <1> QED BY <1>8, <1>10, <1>11

-----------------------------------------------------------------------------
(* The connection                                                            *)

ClientPhases == {"connect", "input", "wait", "check", "spin", "dead"}
ServerPhases == {"none", "recv", "check", "closed", "dead"}

\* The requests of a client that has made n
Asks(n) == [i \in 1..n |-> i]

CalcTypes ==
  /\ client \in ClientPhases /\ server \in ServerPhases /\ whole \in BOOLEAN
  /\ asked \in Nat /\ asked <= MaxRequests
  /\ replied \in Seq(Ids) /\ printed \in Seq(Ids)
  /\ c2s \in Seq(Byte) /\ s2c \in Seq(Byte) /\ sbuf \in Seq(Byte) /\ cbuf \in Seq(Byte)

\* Each side answers at most what it was asked; its bytes are at most those of the frames
\* sent to it, so that no buffer reaches the width of size_t.
Bounds ==
  /\ Len(printed) <= Len(replied) /\ Len(replied) <= asked
  /\ Len(sbuf) + Len(c2s) <= 17 * asked
  /\ Len(cbuf) + Len(s2c) <= 16 * Len(replied)

\* The process that serves the client starts with the connection; a side looks at its
\* buffer only when something has come.
Ready(b) == b # <<>> /\ (whole => Len(b) >= FirstBytes)
ReadyInv ==
  /\ client = "connect" => server = "none"
  /\ server = "check" => Ready(sbuf)
  /\ client = "check" => Ready(cbuf)

\* The messages that a side has taken are those that were sent to it, except for a last one.
Sound(got, qs, w) ==
  \A i \in 1..Len(got) : got[i] = qs[i] \/ (~w /\ got[i] = Garbage /\ i = Len(got))
SoundInv == Sound(replied, Asks(asked), whole) /\ Sound(printed, replied, whole)

Serves == server = "none" \/ server = "recv" \/ server = "check"
ServerOn == Serves => On(11, sbuf, c2s, Asks(asked), replied, whole)
ClientOn == On(10, cbuf, s2c, replied, printed, whole)

CalcInv == CalcTypes /\ Bounds /\ ReadyInv /\ SoundInv /\ ServerOn /\ ClientOn

LEMMA Phases ==
  /\ "connect" \in ClientPhases /\ "input" \in ClientPhases /\ "wait" \in ClientPhases
  /\ "check" \in ClientPhases /\ "spin" \in ClientPhases /\ "dead" \in ClientPhases
  /\ "none" \in ServerPhases /\ "recv" \in ServerPhases /\ "check" \in ServerPhases
  /\ "closed" \in ServerPhases /\ "dead" \in ServerPhases
  BY DEF ClientPhases, ServerPhases

LEMMA IdFacts == MaxRequests \in Nat /\ MaxRequests < 100 /\ Garbage \in Ids
  BY CalculatorAssumption DEF Garbage, Ids

LEMMA AsksIs ==
  ASSUME NEW n \in Nat, n <= MaxRequests
  PROVE  Asks(n) \in Seq(Ids) /\ Len(Asks(n)) = n /\ \A i \in 1..n : Asks(n)[i] = i
  <1>1. \A i \in 1..n : i \in Ids
    BY IdFacts DEF Ids
  <1> QED BY <1>1 DEF Asks

LEMMA AsksMore ==
  ASSUME NEW n \in Nat, n + 1 <= MaxRequests
  PROVE  Asks(n + 1) = Append(Asks(n), n + 1) /\ n + 1 \in Ids
  <1>1. PICK s \in Seq(Ids) : s = Asks(n) /\ Len(s) = n /\ \A i \in 1..n : s[i] = i
    <2>1. n <= MaxRequests
      BY IdFacts
    <2> QED BY <2>1, AsksIs
  <1>2. PICK t \in Seq(Ids) : t = Asks(n + 1) /\ Len(t) = n + 1 /\ \A i \in 1..(n + 1) : t[i] = i
    <2>1. n + 1 \in Nat
      OBVIOUS
    <2> QED BY <2>1, AsksIs
  <1>3. n + 1 \in Ids
    BY IdFacts DEF Ids
  <1>4. PICK u \in Seq(Ids) : /\ u = Append(s, n + 1) /\ Len(u) = n + 1
                              /\ u[n + 1] = n + 1 /\ \A i \in 1..n : u[i] = s[i]
    <2>1. /\ Append(s, n + 1) \in Seq(Ids) /\ Len(Append(s, n + 1)) = Len(s) + 1
          /\ Append(s, n + 1)[Len(s) + 1] = n + 1
          /\ \A i \in 1..Len(s) : Append(s, n + 1)[i] = s[i]
      BY <1>3, AppendProperties
    <2> QED BY <1>1, <2>1, Zenon
  <1>5. ASSUME NEW i \in 1..(n + 1) PROVE u[i] = t[i]
    <2>1. CASE i = n + 1
      BY <1>2, <1>4, <2>1
    <2>2. CASE i # n + 1
      <3>1. i \in 1..n
        BY <2>2
      <3> QED BY <1>1, <1>2, <1>4, <3>1
    <2> QED BY <2>1, <2>2
  <1>6. u = t
    BY <1>2, <1>4, <1>5, SeqEqual
  <1> QED BY <1>1, <1>2, <1>3, <1>4, <1>6

LEMMA SoundMore ==
  ASSUME NEW got \in Seq(Ids), NEW qs \in Seq(Ids), NEW q, q \in Ids, NEW w,
         Len(got) <= Len(qs), Sound(got, qs, w)
  PROVE  Sound(got, Append(qs, q), w)
  <1>1. \A i \in 1..Len(got) : Append(qs, q)[i] = qs[i]
    OBVIOUS
  <1> QED BY <1>1, Zenon DEF Sound

LEMMA SoundNext ==
  ASSUME NEW got \in Seq(Ids), NEW qs \in Seq(Ids), NEW q, q \in Ids, NEW w,
         \A i \in 1..Len(got) : got[i] = qs[i],
         q = qs[Len(got) + 1] \/ (~w /\ q = Garbage)
  PROVE  Sound(Append(got, q), qs, w)
  <1>1. PICK k \in Nat : k = Len(got)
    OBVIOUS
  <1>2. PICK now \in Seq(Ids) : /\ now = Append(got, q) /\ Len(now) = k + 1
                                /\ now[k + 1] = q /\ \A i \in 1..k : now[i] = got[i]
    <2>1. /\ Append(got, q) \in Seq(Ids) /\ Len(Append(got, q)) = Len(got) + 1
          /\ Append(got, q)[Len(got) + 1] = q
          /\ \A i \in 1..Len(got) : Append(got, q)[i] = got[i]
      BY AppendProperties
    <2> QED BY <1>1, <2>1, Zenon
  <1>3. ASSUME NEW i \in 1..(k + 1)
        PROVE  now[i] = qs[i] \/ (~w /\ now[i] = Garbage /\ i = k + 1)
    <2>1. CASE i = k + 1
      BY <1>1, <1>2, <2>1, Zenon
    <2>2. CASE i # k + 1
      <3>1. i \in 1..k
        BY <2>2
      <3> QED BY <1>1, <1>2, <3>1, Zenon
    <2> QED BY <2>1, <2>2
  <1> QED BY <1>2, <1>3, Zenon DEF Sound

\* A step that moves no byte
Still == UNCHANGED <<asked, printed, replied, c2s, s2c, sbuf, cbuf, whole>>

LEMMA PhaseInv ==
  ASSUME CalcInv, Still, client' \in ClientPhases, server' \in ServerPhases,
         client' = "check" => client = "check", server' = "check" => server = "check",
         Serves' => Serves, client' = "connect" => client = "connect" /\ server' = server
  PROVE  CalcInv'
  <1>1. /\ asked' = asked /\ printed' = printed /\ replied' = replied /\ c2s' = c2s
        /\ s2c' = s2c /\ sbuf' = sbuf /\ cbuf' = cbuf /\ whole' = whole
    BY DEF Still
  <1>2. CalcTypes' /\ Bounds'
    BY <1>1, Zenon DEF CalcInv, CalcTypes, Bounds
  <1>3. ReadyInv'
    BY <1>1, Zenon DEF CalcInv, ReadyInv, Ready
  <1>4. SoundInv' /\ ServerOn' /\ ClientOn'
    BY <1>1, Zenon DEF CalcInv, SoundInv, ServerOn, ClientOn
  <1> QED BY <1>2, <1>3, <1>4, Zenon DEF CalcInv

LEMMA StillInv ==
  ASSUME CalcInv,
         Connect \/ EndOfInput \/ ServerMore \/ ServerEof \/ ClientMore \/ ClientEof
  PROVE  CalcInv'
  <1>1. client \in ClientPhases /\ server \in ServerPhases /\ (client = "connect" => server = "none")
    BY Zenon DEF CalcInv, CalcTypes, ReadyInv
  <1>2. CASE Connect
    <2>1. Still /\ client = "connect"
      BY <1>2 DEF Connect, Still
    <2>2. \/ client' = "input" /\ server' = "recv"
          \/ client' = "dead" /\ server' = server
      BY <1>2 DEF Connect
    <2>3. Serves
      BY <1>1, <2>1 DEF Serves
    <2> QED BY <1>1, <2>1, <2>2, <2>3, Phases, PhaseInv
  <1>3. CASE EndOfInput
    <2>1. Still /\ client' = "dead" /\ server' = server
      BY <1>3 DEF EndOfInput, Still
    <2> QED BY <1>1, <2>1, Phases, PhaseInv DEF Serves
  <1>4. CASE ServerMore
    <2>1. Still /\ client' = client /\ server = "check" /\ (server' = "dead" \/ server' = "recv")
      BY <1>4 DEF ServerMore, Still
    <2> QED BY <1>1, <2>1, Phases, PhaseInv DEF Serves
  <1>5. CASE ServerEof
    <2>1. Still /\ client' = client /\ client = "dead" /\ server' = "closed"
      BY <1>5 DEF ServerEof, Still
    <2> QED BY <1>1, <2>1, Phases, PhaseInv DEF Serves
  <1>6. CASE ClientMore
    <2>1. Still /\ server' = server /\ (client' = "dead" \/ client' = "wait")
      BY <1>6 DEF ClientMore, Still
    <2> QED BY <1>1, <2>1, Phases, PhaseInv DEF Serves
  <1>7. CASE ClientEof
    <2>1. Still /\ server' = server /\ (client' = "dead" \/ client' = "spin")
      BY <1>7 DEF ClientEof, Still
    <2> QED BY <1>1, <2>1, Phases, PhaseInv DEF Serves
  <1> QED BY <1>2, <1>3, <1>4, <1>5, <1>6, <1>7

LEMMA DeliverInv == ASSUME CalcInv, Deliver PROVE CalcInv'
  <1>1. /\ client' = "wait" /\ server' = server /\ asked' = asked + 1 /\ printed' = printed
        /\ replied' = replied /\ s2c' = s2c /\ sbuf' = sbuf /\ cbuf' = cbuf /\ whole' = whole
        /\ asked < MaxRequests /\ c2s' = Sends(c2s, Requests[asked + 1])
    BY DEF Deliver
  <1>2. CalcTypes /\ Bounds /\ ReadyInv /\ SoundInv /\ ServerOn /\ ClientOn
    BY DEF CalcInv
  <1>3. asked \in Nat /\ asked + 1 \in Nat /\ asked + 1 <= MaxRequests /\ asked <= MaxRequests
    BY <1>1, <1>2, IdFacts DEF CalcTypes
  <1>4. Asks(asked + 1) = Append(Asks(asked), asked + 1) /\ asked + 1 \in Ids
    BY <1>3, AsksMore
  <1>5. PICK qs \in Seq(Ids) : qs = Asks(asked) /\ Len(qs) = asked
    BY <1>3, AsksIs
  <1>6. PICK f \in Seq(Byte) : f = Frame(Text(11, asked + 1)) /\ Len(f) = 17
    <2>1. PICK m \in Nat : m = asked + 1 /\ m \in Ids
      BY <1>3, <1>4, Zenon
    <2>2. Frame(Text(11, m)) \in Seq(Byte) /\ Len(Frame(Text(11, m))) = 11 + 6
      BY <2>1, FrameOf
    <2> QED BY <2>1, <2>2, 11 + 6 = 17, Zenon
  <1>7. c2s' = Cat(c2s, f)
    <2>1. Requests[asked + 1] = Text(11, asked + 1)
      BY <1>3 DEF Requests
    <2> QED BY <1>1, <1>6, <2>1, Zenon DEF Sends, Cat
  <1>8. c2s' \in Seq(Byte) /\ Len(c2s') = Len(c2s) + 17
    <2>1. c2s \in Seq(Byte)
      BY <1>2 DEF CalcTypes
    <2>2. PICK g : g = c2s \o f
      OBVIOUS
    <2>3. g \in Seq(Byte) /\ Len(g) = Len(c2s) + Len(f)
      BY <2>1, <2>2, CatIs
    <2> QED BY <1>6, <1>7, <2>2, <2>3, Zenon DEF Cat
  <1>9. CalcTypes'
    BY <1>1, <1>2, <1>3, <1>8, Phases, Zenon DEF CalcTypes
  <1>10. Bounds'
    <2>1. /\ Len(printed) \in Nat /\ Len(replied) \in Nat /\ Len(sbuf) \in Nat
          /\ Len(c2s) \in Nat
      BY <1>2 DEF CalcTypes
    <2>2. /\ Len(printed) <= Len(replied) /\ Len(replied) <= asked
          /\ Len(sbuf) + Len(c2s) <= 17 * asked /\ Len(cbuf) + Len(s2c) <= 16 * Len(replied)
      BY <1>2 DEF Bounds
    <2>3. Len(replied) <= asked + 1 /\ Len(sbuf) + (Len(c2s) + 17) <= 17 * (asked + 1)
      BY <1>3, <2>1, <2>2
    <2> QED BY <1>1, <1>8, <2>2, <2>3, Zenon DEF Bounds
  <1>11. ReadyInv'
    <2>1. client' # "check" /\ client' # "connect"
      BY <1>1
    <2> QED BY <1>1, <1>2, <2>1, Zenon DEF ReadyInv, Ready
  <1>12. SoundInv'
    <2>1. replied \in Seq(Ids) /\ Len(replied) <= Len(qs)
      BY <1>2, <1>5 DEF CalcTypes, Bounds
    <2>2. Sound(replied, qs, whole) /\ Sound(printed, replied, whole)
      BY <1>2, <1>5, Zenon DEF SoundInv
    <2>3. Sound(replied, Append(qs, asked + 1), whole)
      BY <1>4, <2>1, <2>2, SoundMore
    <2> QED BY <1>1, <1>4, <1>5, <2>2, <2>3, Zenon DEF SoundInv
  <1>13. ServerOn'
    <2> SUFFICES ASSUME Serves PROVE On(11, sbuf, Cat(c2s, f), Append(qs, asked + 1), replied, whole)
      BY <1>1, <1>4, <1>5, <1>7, Zenon DEF ServerOn, Serves
    <2>1. replied \in Seq(Ids) /\ Len(replied) <= Len(qs) /\ sbuf \in Seq(Byte) /\ c2s \in Seq(Byte)
      BY <1>2, <1>5 DEF CalcTypes, Bounds
    <2>2. On(11, sbuf, c2s, qs, replied, whole)
      BY <1>2, <1>5, Zenon DEF ServerOn
    <2>3. On(11, sbuf, Cat(c2s, Frame(Text(11, asked + 1))), Append(qs, asked + 1), replied, whole)
      BY <1>4, <2>1, <2>2, SendOn
    <2> QED BY <1>6, <2>3, Zenon
  <1>14. ClientOn'
    BY <1>1, <1>2, Zenon DEF ClientOn
  <1> QED BY <1>9, <1>10, <1>11, <1>12, <1>13, <1>14, Zenon DEF CalcInv

LEMMA NotEmpty == ASSUME NEW h, Len(h) >= 1 PROVE h # <<>>
  OBVIOUS

\* What a read brings
LEMMA PieceIs ==
  ASSUME NEW b \in Seq(Byte), NEW s \in Seq(Byte), NEW n, n \in Pieces(b, s)
  PROVE  /\ n \in 1..Len(s) /\ b \o SubSeq(s, 1, n) \in Seq(Byte) /\ Rest(s, n) \in Seq(Byte)
         /\ Len(b \o SubSeq(s, 1, n)) + Len(Rest(s, n)) = Len(b) + Len(s)
         /\ Ready(b \o SubSeq(s, 1, n))
  <1>1. n \in 1..Len(s) /\ (whole => Len(b) + n >= FirstBytes)
    BY DEF Pieces
  <1>2. PICK h, r : h = b \o SubSeq(s, 1, n) /\ r = Rest(s, n)
    OBVIOUS
  <1>3. h \in Seq(Byte) /\ Len(h) = Len(b) + n /\ r \in Seq(Byte) /\ Len(r) = Len(s) - n
    <2>1. /\ b \o SubSeq(s, 1, n) \in Seq(Byte) /\ Len(b \o SubSeq(s, 1, n)) = Len(b) + n
          /\ Rest(s, n) \in Seq(Byte) /\ Len(Rest(s, n)) = Len(s) - n
      BY <1>1, RecvOn
    <2> QED BY <1>2, <2>1, Zenon
  <1>4. Len(h) + Len(r) = Len(b) + Len(s) /\ Len(h) >= 1
    <2>1. Len(b) \in Nat /\ Len(s) \in Nat
      OBVIOUS
    <2> QED BY <1>1, <1>3, <2>1
  <1>5. h # <<>>
    BY <1>4, NotEmpty, Zenon
  <1>6. Ready(h)
    BY <1>1, <1>3, <1>5, Zenon DEF Ready
  <1> QED BY <1>1, <1>2, <1>3, <1>4, <1>6, Zenon

LEMMA ServerRecvInv == ASSUME CalcInv, ServerRecv PROVE CalcInv'
  <1>1. PICK n \in Pieces(sbuf, c2s) : sbuf' = sbuf \o SubSeq(c2s, 1, n) /\ c2s' = Rest(c2s, n)
    BY DEF ServerRecv
  <1>2. /\ client' = client /\ server = "recv" /\ server' = "check" /\ asked' = asked
        /\ printed' = printed /\ replied' = replied /\ s2c' = s2c /\ cbuf' = cbuf
        /\ whole' = whole
    BY DEF ServerRecv
  <1>3. CalcTypes /\ Bounds /\ ReadyInv /\ SoundInv /\ ServerOn /\ ClientOn
    BY DEF CalcInv
  <1>4. sbuf \in Seq(Byte) /\ c2s \in Seq(Byte)
    BY <1>3 DEF CalcTypes
  <1>5. /\ n \in 1..Len(c2s) /\ sbuf' \in Seq(Byte) /\ c2s' \in Seq(Byte)
        /\ Len(sbuf') + Len(c2s') = Len(sbuf) + Len(c2s) /\ Ready(sbuf')
    <2>1. /\ n \in 1..Len(c2s) /\ sbuf \o SubSeq(c2s, 1, n) \in Seq(Byte)
          /\ Rest(c2s, n) \in Seq(Byte)
          /\ Len(sbuf \o SubSeq(c2s, 1, n)) + Len(Rest(c2s, n)) = Len(sbuf) + Len(c2s)
          /\ Ready(sbuf \o SubSeq(c2s, 1, n))
      BY <1>4, PieceIs
    <2> QED BY <1>1, <1>2, <2>1, Zenon DEF Ready
  <1>6. CalcTypes'
    BY <1>2, <1>3, <1>5, Phases, Zenon DEF CalcTypes
  <1>7. Bounds'
    BY <1>2, <1>3, <1>5, Zenon DEF Bounds
  <1>8. ReadyInv'
    <2>1. client # "connect"
      BY <1>2, <1>3 DEF ReadyInv
    <2> QED BY <1>2, <1>3, <1>5, <2>1, Zenon DEF ReadyInv, Ready
  <1>9. SoundInv' /\ ClientOn'
    BY <1>2, <1>3, Zenon DEF SoundInv, ClientOn
  <1>10. ServerOn'
    <2>1. On(11, sbuf, c2s, Asks(asked), replied, whole)
      BY <1>2, <1>3 DEF ServerOn, Serves
    <2>2. On(11, sbuf \o SubSeq(c2s, 1, n), Rest(c2s, n), Asks(asked), replied, whole)
      BY <1>4, <1>5, <2>1, RecvOn
    <2> QED BY <1>1, <1>2, <2>2, Zenon DEF ServerOn
  <1> QED BY <1>6, <1>7, <1>8, <1>9, <1>10, Zenon DEF CalcInv

LEMMA ClientRecvInv == ASSUME CalcInv, ClientRecv PROVE CalcInv'
  <1>1. PICK n \in Pieces(cbuf, s2c) : cbuf' = cbuf \o SubSeq(s2c, 1, n) /\ s2c' = Rest(s2c, n)
    BY DEF ClientRecv
  <1>2. /\ server' = server /\ client' = "check" /\ asked' = asked
        /\ printed' = printed /\ replied' = replied /\ c2s' = c2s /\ sbuf' = sbuf
        /\ whole' = whole
    BY DEF ClientRecv
  <1>3. CalcTypes /\ Bounds /\ ReadyInv /\ SoundInv /\ ServerOn /\ ClientOn
    BY DEF CalcInv
  <1>4. cbuf \in Seq(Byte) /\ s2c \in Seq(Byte)
    BY <1>3 DEF CalcTypes
  <1>5. /\ n \in 1..Len(s2c) /\ cbuf' \in Seq(Byte) /\ s2c' \in Seq(Byte)
        /\ Len(cbuf') + Len(s2c') = Len(cbuf) + Len(s2c) /\ Ready(cbuf')
    <2>1. /\ n \in 1..Len(s2c) /\ cbuf \o SubSeq(s2c, 1, n) \in Seq(Byte)
          /\ Rest(s2c, n) \in Seq(Byte)
          /\ Len(cbuf \o SubSeq(s2c, 1, n)) + Len(Rest(s2c, n)) = Len(cbuf) + Len(s2c)
          /\ Ready(cbuf \o SubSeq(s2c, 1, n))
      BY <1>4, PieceIs
    <2> QED BY <1>1, <1>2, <2>1, Zenon DEF Ready
  <1>6. CalcTypes'
    BY <1>2, <1>3, <1>5, Phases, Zenon DEF CalcTypes
  <1>7. Bounds'
    BY <1>2, <1>3, <1>5, Zenon DEF Bounds
  <1>8. ReadyInv'
    <2>1. client' # "connect"
      BY <1>2
    <2> QED BY <1>2, <1>3, <1>5, <2>1, Zenon DEF ReadyInv, Ready
  <1>9. SoundInv' /\ ServerOn'
    BY <1>2, <1>3, Zenon DEF SoundInv, ServerOn, Serves
  <1>10. ClientOn'
    <2>1. On(10, cbuf, s2c, replied, printed, whole)
      BY <1>3 DEF ClientOn
    <2>2. On(10, cbuf \o SubSeq(s2c, 1, n), Rest(s2c, n), replied, printed, whole)
      BY <1>4, <1>5, <2>1, RecvOn
    <2> QED BY <1>1, <1>2, <2>2, Zenon DEF ClientOn
  <1> QED BY <1>6, <1>7, <1>8, <1>9, <1>10, Zenon DEF CalcInv

\* What the server makes of the message it has found
LEMMA ServerTakes ==
  ASSUME CalcInv, server = "check", Verdict(sbuf) = "message"
  PROVE  /\ Parse(sbuf, Requests) \in Ids /\ Len(replied) + 1 <= asked
         /\ Sound(Append(replied, Parse(sbuf, Requests)), Asks(asked), whole)
         /\ Erased(sbuf) \in Seq(Byte) /\ Len(Erased(sbuf)) <= Len(sbuf)
         /\ On(11, Erased(sbuf), c2s, Asks(asked), Append(replied, Parse(sbuf, Requests)), whole)
  <1>1. CalcTypes /\ Bounds /\ ReadyInv /\ ServerOn
    BY DEF CalcInv
  <1>2. /\ sbuf \in Seq(Byte) /\ c2s \in Seq(Byte) /\ replied \in Seq(Ids)
        /\ asked \in Nat /\ asked <= MaxRequests
    BY <1>1 DEF CalcTypes
  <1>3. PICK qs \in Seq(Ids) : qs = Asks(asked) /\ Len(qs) = asked
    BY <1>2, AsksIs
  <1>4. Len(replied) <= Len(qs)
    BY <1>1, <1>3 DEF Bounds
  <1>5. On(11, sbuf, c2s, qs, replied, whole)
    BY <1>1, <1>3 DEF ServerOn, Serves
  <1>6. sbuf # <<>> /\ (whole => Len(sbuf) >= 6)
    BY <1>1 DEF ReadyInv, Ready, FirstBytes
  <1>7. Len(sbuf) < SizeT
    <2>1. Len(sbuf) + Len(c2s) <= 17 * asked
      BY <1>1 DEF Bounds
    <2>2. Len(sbuf) \in Nat /\ Len(c2s) \in Nat
      BY <1>2
    <2>3. Len(sbuf) < 1048576
      BY <1>2, <2>1, <2>2, IdFacts
    <2> QED BY <2>3, Widths
  <1>8. \A p \in 1..MaxRequests : Requests[p] = Text(11, p)
    BY DEF Requests
  <1>9. PICK q : q = Parse(sbuf, Requests)
    OBVIOUS
  <1>10. /\ Len(replied) < Len(qs) /\ q \in Ids
         /\ \A i \in 1..Len(replied) : replied[i] = qs[i]
         /\ q = qs[Len(replied) + 1] \/ (~whole /\ q = Garbage)
         /\ Erased(sbuf) \in Seq(Byte) /\ Len(Erased(sbuf)) <= Len(sbuf)
         /\ On(11, Erased(sbuf), c2s, qs, Append(replied, q), whole)
    <2>1. /\ sbuf \in Seq(Byte) /\ c2s \in Seq(Byte) /\ replied \in Seq(Ids) /\ sbuf # <<>>
          /\ whole => Len(sbuf) >= 6
      BY <1>2, <1>6, Zenon
    <2>2. /\ Len(replied) < Len(qs) /\ Parse(sbuf, Requests) \in Ids
          /\ \A i \in 1..Len(replied) : replied[i] = qs[i]
          /\ \/ Parse(sbuf, Requests) = qs[Len(replied) + 1]
             \/ ~whole /\ Parse(sbuf, Requests) = Garbage
          /\ Erased(sbuf) \in Seq(Byte) /\ Len(Erased(sbuf)) <= Len(sbuf)
          /\ On(11, Erased(sbuf), c2s, qs, Append(replied, Parse(sbuf, Requests)), whole)
      BY <1>4, <1>5, <1>7, <1>8, <2>1, TakeOn
    <2> QED BY <1>9, <2>2, Zenon
  <1>11. Sound(Append(replied, q), qs, whole)
    BY <1>2, <1>10, SoundNext
  <1>12. Len(replied) + 1 <= asked
    <2>1. Len(replied) \in Nat /\ Len(replied) < asked
      BY <1>2, <1>3, <1>10
    <2> QED BY <1>2, <2>1
  <1> QED BY <1>3, <1>9, <1>10, <1>11, <1>12, Zenon

LEMMA ClientTakes ==
  ASSUME CalcInv, client = "check", Verdict(cbuf) = "message"
  PROVE  /\ Parse(cbuf, Answers) \in Ids /\ Len(printed) + 1 <= Len(replied)
         /\ Sound(Append(printed, Parse(cbuf, Answers)), replied, whole)
         /\ Erased(cbuf) \in Seq(Byte) /\ Len(Erased(cbuf)) <= Len(cbuf)
         /\ On(10, Erased(cbuf), s2c, replied, Append(printed, Parse(cbuf, Answers)), whole)
  <1>1. CalcTypes /\ Bounds /\ ReadyInv /\ ClientOn
    BY DEF CalcInv
  <1>2. /\ cbuf \in Seq(Byte) /\ s2c \in Seq(Byte) /\ replied \in Seq(Ids)
        /\ printed \in Seq(Ids) /\ asked \in Nat /\ asked <= MaxRequests
    BY <1>1 DEF CalcTypes
  <1>3. Len(printed) <= Len(replied)
    BY <1>1 DEF Bounds
  <1>4. On(10, cbuf, s2c, replied, printed, whole)
    BY <1>1 DEF ClientOn
  <1>5. cbuf # <<>> /\ (whole => Len(cbuf) >= 6)
    BY <1>1 DEF ReadyInv, Ready, FirstBytes
  <1>6. Len(cbuf) < SizeT
    <2>1. Len(cbuf) + Len(s2c) <= 16 * Len(replied) /\ Len(replied) <= asked
      BY <1>1 DEF Bounds
    <2>2. Len(cbuf) \in Nat /\ Len(s2c) \in Nat /\ Len(replied) \in Nat
      BY <1>2
    <2>3. Len(cbuf) < 1048576
      BY <1>2, <2>1, <2>2, IdFacts
    <2> QED BY <2>3, Widths
  <1>7. \A p \in 1..MaxRequests : Answers[p] = Text(10, p)
    BY IdFacts DEF Answers
  <1>8. PICK q : q = Parse(cbuf, Answers)
    OBVIOUS
  <1>9. /\ Len(printed) < Len(replied) /\ q \in Ids
        /\ \A i \in 1..Len(printed) : printed[i] = replied[i]
        /\ q = replied[Len(printed) + 1] \/ (~whole /\ q = Garbage)
        /\ Erased(cbuf) \in Seq(Byte) /\ Len(Erased(cbuf)) <= Len(cbuf)
        /\ On(10, Erased(cbuf), s2c, replied, Append(printed, q), whole)
    BY <1>2, <1>3, <1>4, <1>5, <1>6, <1>7, <1>8, TakeOn
  <1>10. Sound(Append(printed, q), replied, whole)
    BY <1>2, <1>9, SoundNext
  <1>11. Len(printed) + 1 <= Len(replied)
    <2>1. Len(printed) \in Nat /\ Len(replied) \in Nat
      BY <1>2
    <2> QED BY <1>9, <2>1
  <1> QED BY <1>8, <1>9, <1>10, <1>11, Zenon

LEMMA ServerAnswerInv == ASSUME CalcInv, ServerAnswer PROVE CalcInv'
  <1>1. PICK q : q = Parse(sbuf, Requests)
    OBVIOUS
  <1>2. /\ server = "check" /\ Verdict(sbuf) = "message" /\ sbuf' = Erased(sbuf)
        /\ client' = client /\ asked' = asked /\ printed' = printed /\ c2s' = c2s
        /\ cbuf' = cbuf /\ whole' = whole
        /\ \/ (server' = "dead" \/ server' = "closed") /\ replied' = replied /\ s2c' = s2c
           \/ /\ replied' = Append(replied, q) /\ s2c' = Sends(s2c, Answers[q])
              /\ server' = "recv"
    BY <1>1 DEF ServerAnswer
  <1>3. CalcTypes /\ Bounds /\ ReadyInv /\ SoundInv /\ ServerOn /\ ClientOn
    BY DEF CalcInv
  <1>4. /\ q \in Ids /\ Len(replied) + 1 <= asked
        /\ Sound(Append(replied, q), Asks(asked), whole)
        /\ Erased(sbuf) \in Seq(Byte) /\ Len(Erased(sbuf)) <= Len(sbuf)
        /\ On(11, Erased(sbuf), c2s, Asks(asked), Append(replied, q), whole)
    BY <1>1, <1>2, ServerTakes, Zenon
  <1>5. /\ Len(sbuf) \in Nat /\ Len(c2s) \in Nat /\ Len(Erased(sbuf)) \in Nat
        /\ Len(replied) \in Nat /\ Len(printed) \in Nat /\ Len(cbuf) \in Nat /\ Len(s2c) \in Nat
        /\ asked \in Nat
    BY <1>3, <1>4 DEF CalcTypes
  <1>6. /\ Len(printed) <= Len(replied) /\ Len(replied) <= asked
        /\ Len(sbuf) + Len(c2s) <= 17 * asked /\ Len(cbuf) + Len(s2c) <= 16 * Len(replied)
    BY <1>3 DEF Bounds
  <1>7. /\ Len(Erased(sbuf)) + Len(c2s) <= 17 * asked
        /\ Len(printed) <= Len(replied) + 1
        /\ Len(cbuf) + (Len(s2c) + 16) <= 16 * (Len(replied) + 1)
    <2>1. ASSUME NEW e \in Nat, NEW s \in Nat, NEW c \in Nat, NEW a \in Nat,
                 e <= s, s + c <= 17 * a
          PROVE  e + c <= 17 * a
      BY <2>1
    <2>2. ASSUME NEW c \in Nat, NEW s \in Nat, NEW r \in Nat, c + s <= 16 * r
          PROVE  c + (s + 16) <= 16 * (r + 1)
      BY <2>2
    <2>3. Len(Erased(sbuf)) <= Len(sbuf)
      BY <1>4, Zenon
    <2>4. Len(Erased(sbuf)) + Len(c2s) <= 17 * asked
      BY <1>5, <1>6, <2>1, <2>3, Zenon
    <2>5. Len(cbuf) + (Len(s2c) + 16) <= 16 * (Len(replied) + 1)
      BY <1>5, <1>6, <2>2, Zenon
    <2>6. Len(printed) <= Len(replied) + 1
      BY <1>5, <1>6
    <2> QED BY <2>4, <2>5, <2>6
  <1>8. ReadyInv'
    <2>1. server' # "check" /\ server # "none"
      BY <1>2
    <2> QED BY <1>2, <1>3, <2>1, Zenon DEF ReadyInv, Ready
  <1>9. CASE /\ server' = "dead" \/ server' = "closed"
             /\ replied' = replied /\ s2c' = s2c
    <2>1. server' \in ServerPhases /\ server' # "none" /\ server' # "recv" /\ server' # "check"
      BY <1>9, Phases
    <2>2. CalcTypes'
      BY <1>2, <1>3, <1>4, <1>9, <2>1, Zenon DEF CalcTypes
    <2>3. Bounds'
      BY <1>2, <1>6, <1>7, <1>9, Zenon DEF Bounds
    <2>4. SoundInv' /\ ServerOn' /\ ClientOn'
      BY <1>2, <1>3, <1>9, <2>1, Zenon DEF SoundInv, ServerOn, Serves, ClientOn
    <2> QED BY <1>8, <2>2, <2>3, <2>4, Zenon DEF CalcInv
  <1>10. CASE /\ replied' = Append(replied, q) /\ s2c' = Sends(s2c, Answers[q])
              /\ server' = "recv"
    <2>1. PICK f \in Seq(Byte) : f = Frame(Text(10, q)) /\ Len(f) = 16
      <3>1. Frame(Text(10, q)) \in Seq(Byte) /\ Len(Frame(Text(10, q))) = 10 + 6
        BY <1>4, FrameOf
      <3> QED BY <3>1, 10 + 6 = 16, Zenon
    <2>2. s2c' = Cat(s2c, f)
      <3>1. q \in 0..MaxRequests
        BY <1>4 DEF Ids
      <3>2. Answers[q] = Text(10, q)
        BY <3>1 DEF Answers
      <3> QED BY <1>10, <2>1, <3>2, Zenon DEF Sends, Cat
    <2>3. replied \in Seq(Ids) /\ printed \in Seq(Ids) /\ cbuf \in Seq(Byte) /\ s2c \in Seq(Byte)
      BY <1>3 DEF CalcTypes
    <2>4. s2c' \in Seq(Byte) /\ Len(s2c') = Len(s2c) + 16
      <3>1. PICK g : g = s2c \o f
        OBVIOUS
      <3>2. g \in Seq(Byte) /\ Len(g) = Len(s2c) + Len(f)
        BY <2>3, <3>1, CatIs
      <3> QED BY <2>1, <2>2, <3>1, <3>2, Zenon DEF Cat
    <2>5. replied' \in Seq(Ids) /\ Len(replied') = Len(replied) + 1
      <3>1. Append(replied, q) \in Seq(Ids) /\ Len(Append(replied, q)) = Len(replied) + 1
        BY <1>4, <2>3
      <3> QED BY <1>10, <3>1, Zenon
    <2>6. CalcTypes'
      BY <1>2, <1>3, <1>4, <1>10, <2>4, <2>5, Phases, Zenon DEF CalcTypes
    <2>7. Bounds'
      BY <1>2, <1>4, <1>7, <2>4, <2>5, Zenon DEF Bounds
    <2>8. SoundInv'
      <3>1. Sound(printed, replied, whole)
        BY <1>3 DEF SoundInv
      <3>2. Sound(printed, Append(replied, q), whole)
        BY <1>4, <1>6, <2>3, <3>1, SoundMore
      <3> QED BY <1>2, <1>4, <1>10, <3>2, Zenon DEF SoundInv
    <2>9. ServerOn'
      BY <1>2, <1>4, <1>10, Zenon DEF ServerOn
    <2>10. ClientOn'
      <3>1. On(10, cbuf, s2c, replied, printed, whole)
        BY <1>3 DEF ClientOn
      <3>2. On(10, cbuf, Cat(s2c, Frame(Text(10, q))), Append(replied, q), printed, whole)
        BY <1>4, <1>6, <2>3, <3>1, SendOn
      <3> QED BY <1>2, <1>10, <2>1, <2>2, <3>2, Zenon DEF ClientOn
    <2> QED BY <1>8, <2>6, <2>7, <2>8, <2>9, <2>10, Zenon DEF CalcInv
  <1> QED BY <1>2, <1>9, <1>10, Zenon

LEMMA ClientPrintInv == ASSUME CalcInv, ClientPrint PROVE CalcInv'
  <1>1. PICK q : q = Parse(cbuf, Answers)
    OBVIOUS
  <1>2. /\ client = "check" /\ Verdict(cbuf) = "message" /\ cbuf' = Erased(cbuf)
        /\ printed' = Append(printed, q) /\ (client' = "input" \/ client' = "wait")
        /\ server' = server /\ asked' = asked /\ replied' = replied /\ c2s' = c2s
        /\ s2c' = s2c /\ sbuf' = sbuf /\ whole' = whole
    BY <1>1 DEF ClientPrint
  <1>3. CalcTypes /\ Bounds /\ ReadyInv /\ SoundInv /\ ServerOn /\ ClientOn
    BY DEF CalcInv
  <1>4. /\ q \in Ids /\ Len(printed) + 1 <= Len(replied)
        /\ Sound(Append(printed, q), replied, whole)
        /\ Erased(cbuf) \in Seq(Byte) /\ Len(Erased(cbuf)) <= Len(cbuf)
        /\ On(10, Erased(cbuf), s2c, replied, Append(printed, q), whole)
    BY <1>1, <1>2, ClientTakes, Zenon
  <1>5. printed' \in Seq(Ids) /\ Len(printed') = Len(printed) + 1
    <2>1. printed \in Seq(Ids)
      BY <1>3 DEF CalcTypes
    <2>2. Append(printed, q) \in Seq(Ids) /\ Len(Append(printed, q)) = Len(printed) + 1
      BY <1>4, <2>1
    <2> QED BY <1>2, <2>2, Zenon
  <1>6. client' \in ClientPhases /\ client' # "check" /\ client' # "connect"
    BY <1>2, Phases
  <1>7. CalcTypes'
    BY <1>2, <1>3, <1>4, <1>5, <1>6, Zenon DEF CalcTypes
  <1>8. Bounds'
    <2>1. Len(cbuf) \in Nat /\ Len(s2c) \in Nat /\ Len(Erased(cbuf)) \in Nat /\ Len(replied) \in Nat
      BY <1>3, <1>4 DEF CalcTypes
    <2>2. Len(cbuf) + Len(s2c) <= 16 * Len(replied)
      BY <1>3 DEF Bounds
    <2>3. Len(Erased(cbuf)) + Len(s2c) <= 16 * Len(replied)
      BY <1>4, <2>1, <2>2
    <2> QED BY <1>2, <1>3, <1>4, <1>5, <2>3, Zenon DEF Bounds
  <1>9. ReadyInv'
    BY <1>2, <1>3, <1>6, Zenon DEF ReadyInv, Ready
  <1>10. SoundInv' /\ ServerOn' /\ ClientOn'
    BY <1>2, <1>3, <1>4, Zenon DEF SoundInv, ServerOn, Serves, ClientOn
  <1> QED BY <1>7, <1>8, <1>9, <1>10, Zenon DEF CalcInv

LEMMA CalcInitInv == ASSUME Init PROVE CalcInv
  <1>1. /\ client = "connect" /\ server = "none" /\ asked = 0 /\ whole \in BOOLEAN
        /\ replied = <<>> /\ printed = <<>> /\ c2s = <<>> /\ s2c = <<>> /\ sbuf = <<>>
        /\ cbuf = <<>>
    BY DEF Init, ClientInit, ServerInit
  <1>2. <<>> \in Seq(Ids) /\ <<>> \in Seq(Byte) /\ Len(<<>>) = 0 /\ 1..0 = {}
    OBVIOUS
  <1>3. CalcTypes
    BY <1>1, <1>2, Phases, IdFacts DEF CalcTypes
  <1>4. Bounds
    BY <1>1, <1>2 DEF Bounds
  <1>5. ReadyInv
    BY <1>1 DEF ReadyInv
  <1>6. SoundInv
    BY <1>1, <1>2 DEF SoundInv, Sound
  <1>7. ASSUME NEW l, l = 10 \/ l = 11 PROVE On(l, <<>>, <<>>, <<>>, <<>>, whole)
    <2>1. Due(l, <<>>, Len(<<>>)) = <<>>
      BY <1>2, <1>7, DueEnd
    <2>2. Cat(<<>>, <<>>) = <<>>
      BY <1>2, CatEmpty
    <2> QED BY <1>2, <2>1, <2>2 DEF On, Aligned
  <1>8. Asks(0) = <<>>
    BY DEF Asks
  <1>9. ServerOn /\ ClientOn
    <2>1. On(10, <<>>, <<>>, <<>>, <<>>, whole) /\ On(11, <<>>, <<>>, <<>>, <<>>, whole)
      BY <1>7
    <2> QED BY <1>1, <1>8, <2>1, Zenon DEF ServerOn, ClientOn
  <1> QED BY <1>3, <1>4, <1>5, <1>6, <1>9 DEF CalcInv

LEMMA CalcStep == ASSUME CalcInv, [Next]_vars PROVE CalcInv'
  <1>1. CASE UNCHANGED vars
    <2>1. Still /\ client' = client /\ server' = server
      BY <1>1 DEF vars, Still
    <2>2. client \in ClientPhases /\ server \in ServerPhases
      BY DEF CalcInv, CalcTypes
    <2>3. Serves' => Serves
      BY <2>1, Zenon DEF Serves
    <2> QED BY <2>1, <2>2, <2>3, PhaseInv, Zenon
  <1>2. CASE Next
    BY <1>2, StillInv, DeliverInv, ServerRecvInv, ServerAnswerInv, ClientRecvInv, ClientPrintInv,
       Zenon DEF Next, ServerStep, ClientStep
  <1> QED BY <1>1, <1>2, Zenon

LEMMA InBoundedSeq ==
  ASSUME NEW S, NEW s, s \in Seq(S), NEW n, n \in Nat, Len(s) <= n
  PROVE  s \in BoundedSeq(S, n)
  <1>1. PICK m \in 0..n : m = Len(s)
    <2>1. Len(s) \in 0..n
      OBVIOUS
    <2> QED BY <2>1, Zenon
  <1>2. s \in [1..m -> S]
    BY <1>1
  <1> QED BY <1>2, Zenon DEF BoundedSeq, SeqOf

\* What is due to a side, in the words of RightAnswers
LEMMA CalcKept == ASSUME CalcInv PROVE TypeOK /\ WrongIsLast /\ RightAnswers
  <1>1. CalcTypes /\ Bounds /\ SoundInv /\ ServerOn /\ ClientOn
    BY DEF CalcInv
  <1>2. /\ asked \in Nat /\ asked <= MaxRequests
        /\ replied \in Seq(Ids) /\ printed \in Seq(Ids)
        /\ c2s \in Seq(Byte) /\ s2c \in Seq(Byte) /\ sbuf \in Seq(Byte) /\ cbuf \in Seq(Byte)
        /\ whole \in BOOLEAN
    BY <1>1 DEF CalcTypes
  <1>3. PICK k \in Nat, p \in Nat :
          k = Len(replied) /\ p = Len(printed) /\ p <= k /\ k <= asked
    <2>1. Len(replied) \in Nat /\ Len(printed) \in Nat
      BY <1>2
    <2> QED BY <1>1, <2>1, Zenon DEF Bounds
  <1>4. TypeOK
    <2>1. client \in {"connect", "input", "wait", "check", "spin", "dead"}
      BY <1>1 DEF CalcTypes, ClientPhases
    <2>2. server \in {"none", "recv", "check", "closed", "dead"}
      BY <1>1 DEF CalcTypes, ServerPhases
    <2>3. asked \in 0..MaxRequests
      BY <1>2, IdFacts
    <2>4. replied \in BoundedSeq(0..MaxRequests, asked)
      BY <1>2, <1>3, InBoundedSeq, Zenon DEF Ids
    <2>5. printed \in BoundedSeq(0..MaxRequests, Len(replied))
      BY <1>2, <1>3, InBoundedSeq, Zenon DEF Ids
    <2>6. ASSUME NEW b \in {c2s, s2c, sbuf, cbuf} PROVE \A i \in DOMAIN b : b[i] \in Byte
      <3>1. b \in Seq(Byte)
        BY <1>2
      <3> QED BY <3>1
    <2> QED BY <2>1, <2>2, <2>3, <2>4, <2>5, <2>6 DEF TypeOK
  <1>5. \A i \in 1..k : i \in 1..asked /\ Asks(asked)[i] = i
    BY <1>2, <1>3, AsksIs
  <1>6. \A i \in 1..k : replied[i] = i \/ (~whole /\ replied[i] = Garbage /\ i = k)
    BY <1>1, <1>3, <1>5, Zenon DEF SoundInv, Sound
  <1>7. \A i \in 1..p : printed[i] = replied[i] \/ (~whole /\ printed[i] = Garbage /\ i = p)
    BY <1>1, <1>3, Zenon DEF SoundInv, Sound
  <1>8. DOMAIN replied = 1..k /\ DOMAIN printed = 1..p /\ \A i \in 1..p : i \in 1..k
    BY <1>2, <1>3
  <1>9. WrongIsLast
    <2>1. ASSUME NEW i \in 1..p, printed[i] # i PROVE i = p
      <3>1. CASE printed[i] = replied[i]
        <4>1. i = k
          BY <1>6, <1>8, <2>1, <3>1, Zenon
        <4> QED BY <1>3, <4>1
      <3> QED BY <1>7, <2>1, <3>1, Zenon
    <2> QED BY <1>3, <1>6, <1>8, <2>1, Zenon DEF WrongIsLast
  <1>10. ASSUME whole PROVE RightAnswers
    <2>1. \A i \in DOMAIN printed : printed[i] = i
      BY <1>6, <1>7, <1>8, <1>10, Zenon
    <2>2. ASSUME Serves PROVE sbuf \o c2s = Frames(Requests, k + 1, asked)
      <3>1. sbuf \o c2s = Due(11, Asks(asked), k)
        BY <1>1, <1>3, <1>10, <2>2, Zenon DEF ServerOn, On, Aligned, Cat
      <3>2. Lined(11, Asks(asked), k) = [i \in 1..(asked - (k + 1) + 1) |-> Frame(Requests[(k + 1) + i - 1])]
        <4>1. Len(Asks(asked)) - k = asked - (k + 1) + 1
          BY <1>2, <1>3, AsksIs
        <4>2. ASSUME NEW i \in 1..(asked - (k + 1) + 1)
              PROVE  Text(11, Asks(asked)[k + i]) = Requests[(k + 1) + i - 1]
          <5>1. k + i \in 1..asked /\ (k + 1) + i - 1 = k + i /\ k + i \in 1..MaxRequests
            BY <1>2, <1>3, IdFacts
          <5>2. Asks(asked)[k + i] = k + i
            BY <1>2, <5>1, AsksIs
          <5> QED BY <5>1, <5>2 DEF Requests
        <4> QED BY <4>1, <4>2 DEF Lined
      <3> QED BY <3>1, <3>2, Zenon DEF Due, Frames
    <2>3. cbuf \o s2c = Frames(Answers, p + 1, k)
      <3>1. cbuf \o s2c = Due(10, replied, p)
        BY <1>1, <1>3, <1>10, Zenon DEF ClientOn, On, Aligned, Cat
      <3>2. Lined(10, replied, p) = [i \in 1..(k - (p + 1) + 1) |-> Frame(Answers[(p + 1) + i - 1])]
        <4>1. Len(replied) - p = k - (p + 1) + 1
          BY <1>3
        <4>2. ASSUME NEW i \in 1..(k - (p + 1) + 1)
              PROVE  Text(10, replied[p + i]) = Answers[(p + 1) + i - 1]
          <5>1. p + i \in 1..k /\ (p + 1) + i - 1 = p + i /\ p + i \in 0..MaxRequests
            BY <1>2, <1>3, IdFacts
          <5>2. replied[p + i] = p + i
            BY <1>6, <1>10, <5>1, Zenon
          <5> QED BY <5>1, <5>2 DEF Answers
        <4> QED BY <4>1, <4>2 DEF Lined
      <3> QED BY <3>1, <3>2, Zenon DEF Due, Frames
    <2>4. server \in {"recv", "check"} => Serves
      BY DEF Serves
    <2> QED BY <1>3, <2>1, <2>2, <2>3, <2>4, Zenon DEF RightAnswers
  <1>11. RightAnswers
    BY <1>10 DEF RightAnswers
  <1> QED BY <1>4, <1>9, <1>11

-----------------------------------------------------------------------------
(* The two programs                                                          *)

MCInv == CalcInv /\ DraftInv

LEMMA MCStep ==
  ASSUME MCInv, [MCNext]_<<program, calcVars, draftVars>>
  PROVE  MCInv'
  <1>1. [Next]_vars /\ [Draft!Next]_(Draft!vars)
    <2>1. /\ UNCHANGED calcVars => UNCHANGED vars
          /\ UNCHANGED draftVars => UNCHANGED Draft!vars
      BY DEF calcVars, draftVars, vars, Draft!vars
    <2>2. UNCHANGED <<program, calcVars, draftVars>> =>
            UNCHANGED calcVars /\ UNCHANGED draftVars
      OBVIOUS
    <2> QED BY <2>1, <2>2, Zenon DEF MCNext
  <1> QED BY <1>1, CalcStep, DraftStep DEF MCInv

LEMMA MCInvariant == MCSpec => []MCInv
  <1>1. MCInit => MCInv
    BY CalcInitInv, DraftInitInv DEF MCInit, MCInv
  <1> QED BY <1>1, MCStep, PTL DEF MCSpec

\* Each program keeps its types: no side answers more than it is asked, and what is under
\* way and what is received are bytes of frames.
THEOREM TypesCorrect == MCSpec => []TypesOK
  <1>1. MCInv => TypesOK
    BY CalcKept, DraftKept DEF MCInv, TypesOK
  <1> QED BY <1>1, MCInvariant, PTL

\* However a stream is cut, the first answer that is not the answer to its request is the
\* last of its side, because what is left of a frame that obtain takes too soon begins with
\* no number; and the draft's obtain never finds a message that was sent.
THEOREM WrongAnswersEnd == MCSpec => []WrongEnds
  <1>1. MCInv => WrongEnds
    BY CalcKept, DraftKept DEF MCInv, WrongEnds
  <1> QED BY <1>1, MCInvariant, PTL

\* On a stream that keeps the head of each frame together, the client prints the answers to
\* its own requests, in their order, and the bytes that either side has still to take are
\* the frames sent to it and not yet taken, from the first byte of the first.
THEOREM RightWhenWhole == MCSpec => []RightAnswers
  <1>1. MCInv => RightAnswers
    BY CalcKept DEF MCInv
  <1> QED BY <1>1, MCInvariant, PTL

=============================================================================
