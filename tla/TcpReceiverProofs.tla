-------------------------- MODULE TcpReceiverProofs --------------------------
(***************************************************************************)
(* Whatever the stream, the window, the cycle of the sequence numbers and  *)
(* the order in which the segments come, how they overlap and how often    *)
(* they are repeated: TCPReceiver writes every byte once and in its place, *)
(* and forgets none that it had room for. The sequence numbers come first: *)
(* Wrap32::unwrap is the inverse of wrap near the checkpoint, for every    *)
(* length of the cycle, what Lab2.md:107 promises of it.                   *)
(***************************************************************************)
EXTENDS MCTcpTransfer, SequenceTheorems, SequenceLemmas, FiniteSetTheorems

-----------------------------------------------------------------------------
(* Numbers that wrap                                                       *)

\* What % gives, for a divisor that is not a literal.
LEMMA ModRange == ASSUME NEW a \in Int, NEW b \in Nat \ {0} PROVE a % b \in 0..(b - 1)
  OBVIOUS

LEMMA ModDivides ==
  ASSUME NEW a \in Int, NEW b \in Nat \ {0}
  PROVE  \E q \in Int : a = b * q + (a % b)
  <1>1. a = b * (a \div b) + (a % b)
    OBVIOUS
  <1>2. a \div b \in Int
    OBVIOUS
  <1> QED BY <1>1, <1>2

\* The only multiple of b that is less than b away from 0 is 0.
LEMMA MultipleZero ==
  ASSUME NEW b \in Nat \ {0}, NEW q \in Int, -b < b * q, b * q < b
  PROVE  q = 0
  <1>1. CASE q >= 1
    <2>1. b * q >= b
      BY <1>1, SMTT(10)
    <2> QED BY <2>1
  <1>2. CASE q <= -1
    <2>1. b * q <= -b
      BY <1>2, SMTT(10)
    <2> QED BY <2>1
  <1> QED BY <1>1, <1>2

LEMMA ModUnique ==
  ASSUME NEW b \in Nat \ {0}, NEW q \in Int, NEW r \in 0..(b - 1)
  PROVE  (b * q + r) % b = r
  <1> DEFINE a == b * q + r
  <1>1. a \in Int
    OBVIOUS
  <1>2. PICK p \in Int : a = b * p + (a % b)
    BY <1>1, ModDivides
  <1>3. a % b \in 0..(b - 1)
    BY <1>1, ModRange
  <1>4. b * q \in Int /\ b * p \in Int /\ b * (q - p) \in Int /\ q - p \in Int
    OBVIOUS
  <1>5. b * (q - p) = b * q - b * p
    OBVIOUS
  <1>6. -b < b * (q - p) /\ b * (q - p) < b
    BY <1>2, <1>3, <1>4, <1>5
  <1>7. q = p
    BY <1>4, <1>6, MultipleZero
  <1> QED BY <1>2, <1>3, <1>4, <1>7

-----------------------------------------------------------------------------

LEMMA CycleType == HalfAssumption => Cycle \in Nat \ {0} /\ Cycle = Half + Half /\ Half \in Nat \ {0}
  BY DEF HalfAssumption, Cycle

\* left_low, moved by the zero point, is raw_value or one cycle more.
LEMMA LeftLowValue ==
  ASSUME HalfAssumption, NEW raw \in Raw, NEW zero \in Raw
  PROVE  /\ LeftLow(raw, zero) \in 0..(Cycle - 1)
         /\ LeftLow(raw, zero) + zero = raw \/ LeftLow(raw, zero) + zero = raw + Cycle
  <1>1. Cycle \in Nat \ {0} /\ raw \in 0..(Cycle - 1) /\ zero \in 0..(Cycle - 1)
    BY CycleType DEF Raw
  <1>2. CASE raw >= zero
    BY <1>1, <1>2 DEF LeftLow
  <1>3. CASE ~(raw >= zero)
    <2>1. raw + Cycle - zero \in 0..(Cycle - 1)
      BY <1>1, <1>3
    <2>2. (Cycle * 0 + (raw + Cycle - zero)) % Cycle = raw + Cycle - zero
      BY <1>1, <2>1, ModUnique
    <2>3. Cycle * 0 + (raw + Cycle - zero) = raw + Cycle - zero
      BY <1>1
    <2>4. LeftLow(raw, zero) = raw + Cycle - zero
      BY <1>3, <2>2, <2>3 DEF LeftLow
    <2> QED BY <1>1, <2>1, <2>4
  <1> QED BY <1>2, <1>3

\* The numbers that wrap to raw_value lie one cycle apart, from left_low on.
LEMMA Residues ==
  ASSUME HalfAssumption, NEW raw \in Raw, NEW zero \in Raw, NEW n \in Int
  PROVE  Wrap(n, zero) = raw <=> \E j \in Int : n = Cycle * j + LeftLow(raw, zero)
  <1> DEFINE left == LeftLow(raw, zero)
  <1>1. Cycle \in Nat \ {0} /\ raw \in 0..(Cycle - 1) /\ zero \in 0..(Cycle - 1)
    BY CycleType DEF Raw
  <1>2. left \in Int /\ (left + zero = raw \/ left + zero = raw + Cycle)
    BY <1>1, LeftLowValue
  <1>3. PICK e \in {0, 1} : left + zero = raw + Cycle * e
    <2>1. Cycle * 0 = 0 /\ Cycle * 1 = Cycle
      BY <1>1
    <2> QED BY <1>1, <1>2, <2>1
  <1> HIDE DEF left
  <1>4. ASSUME Wrap(n, zero) = raw PROVE \E j \in Int : n = Cycle * j + left
    <2>1. PICK q \in Int : n + zero = Cycle * q + ((n + zero) % Cycle)
      <3>1. n + zero \in Int
        BY <1>1
      <3> QED BY <1>1, <3>1, ModDivides
    <2>2. n + zero = Cycle * q + raw
      BY <1>4, <2>1 DEF Wrap
    <2>3. Cycle * q \in Int /\ Cycle * e \in Int /\ Cycle * (q - e) = Cycle * q - Cycle * e
      BY <1>1
    <2>4. n = Cycle * (q - e) + left
      BY <1>1, <1>2, <1>3, <2>2, <2>3
    <2> QED BY <2>4
  <1>5. ASSUME NEW j \in Int, n = Cycle * j + left PROVE Wrap(n, zero) = raw
    <2>1. Cycle * j \in Int /\ Cycle * e \in Int /\ Cycle * (j + e) = Cycle * j + Cycle * e
      BY <1>1
    <2>2. n + zero = Cycle * (j + e) + raw
      BY <1>1, <1>2, <1>3, <1>5, <2>1
    <2>3. (Cycle * (j + e) + raw) % Cycle = raw
      BY <1>1, ModUnique
    <2> QED BY <2>2, <2>3 DEF Wrap
  <1> QED BY <1>4, <1>5 DEF left

-----------------------------------------------------------------------------

Distance(a, b) == IF a < b THEN b - a ELSE a - b

\* What unwrap computes: one of the numbers that wrap to raw_value, at most half a cycle
\* from the checkpoint unless the least of them lies further on.
LEMMA UnwrapValue ==
  ASSUME HalfAssumption, NEW raw \in Raw, NEW zero \in Raw, NEW near \in Nat
  PROVE  \E j \in Nat :
           LET n == Cycle * j + LeftLow(raw, zero)
           IN  /\ Unwrap(raw, zero, near) = n
               /\ (near - Half <= n /\ n < near + Half) \/ (j = 0 /\ near <= n)
  <1> DEFINE left == LeftLow(raw, zero)
             m    == near % Cycle
             U    == Unwrap(raw, zero, near)
  <1>1. Cycle \in Nat \ {0} /\ Half \in Nat \ {0} /\ Cycle = Half + Half
    BY CycleType
  <1>2. left \in 0..(Cycle - 1)
    BY LeftLowValue
  <1>3. m \in 0..(Cycle - 1)
    BY <1>1, ModRange
  <1>4. PICK k \in Int : near = Cycle * k + m
    <2>1. near \in Int
      BY <1>1
    <2>2. \E k \in Int : near = Cycle * k + (near % Cycle)
      BY <1>1, <2>1, ModDivides
    <2> QED BY <2>2
  <1>5. Cycle * k \in Int /\ Cycle * (k + 1) = Cycle * k + Cycle /\ Cycle * (k - 1) = Cycle * k - Cycle
    BY <1>1
  <1>6. k >= 0
    <2>1. CASE k <= -1
      <3>1. Cycle * k <= -Cycle
        BY <1>1, <2>1, SMTT(10)
      <3> QED BY <1>1, <1>3, <1>4, <1>5, <3>1
    <2> QED BY <2>1
  <1>7. Cycle * k >= 0 /\ (k >= 1 => Cycle * k >= Cycle) /\ (k = 0 => Cycle * k = 0) /\ Cycle * 0 = 0
    BY <1>1, <1>6, SMTT(10)
  <1>8. CASE ~(m + Half <= left)
    <2>1. CheckpointLow(left, near) = m
      BY <1>8 DEF CheckpointLow
    <2>2. (IF near > m THEN near - m ELSE 0) = Cycle * k
      BY <1>3, <1>4, <1>5, <1>7
    <2>3. CASE (IF m > Half THEN m - Half ELSE 0) <= left
      <3>1. U = Cycle * k + left
        BY <1>1, <1>2, <1>3, <1>5, <1>8, <2>1, <2>2, <2>3 DEF Unwrap
      <3>2. near - Half <= Cycle * k + left /\ Cycle * k + left < near + Half
        BY <1>1, <1>2, <1>3, <1>4, <1>5, <1>8, <2>3
      <3> QED BY <1>6, <3>1, <3>2
    <2>4. CASE ~((IF m > Half THEN m - Half ELSE 0) <= left)
      <3>1. U = Cycle * (k + 1) + left
        BY <1>1, <1>2, <1>3, <1>5, <1>8, <2>1, <2>2, <2>4 DEF Unwrap
      <3>2. near - Half <= Cycle * (k + 1) + left /\ Cycle * (k + 1) + left < near + Half
        BY <1>1, <1>2, <1>3, <1>4, <1>5, <1>8, <2>4
      <3>3. k + 1 \in Nat
        BY <1>6
      <3> QED BY <3>1, <3>2, <3>3
    <2> QED BY <2>3, <2>4
  <1>9. CASE m + Half <= left
    <2>1. CheckpointLow(left, near) = m + Cycle
      BY <1>9 DEF CheckpointLow
    <2>2. m + Cycle > Half /\ m + Cycle - Half <= left /\ left < m + Cycle + Half
      BY <1>1, <1>2, <1>3, <1>9
    <2>3. CASE k = 0
      <3>1. U = Cycle * 0 + left
        BY <1>1, <1>2, <1>3, <1>4, <1>7, <2>1, <2>2, <2>3 DEF Unwrap
      <3>2. near <= Cycle * 0 + left
        BY <1>1, <1>2, <1>3, <1>4, <1>7, <1>9, <2>3
      <3> QED BY <3>1, <3>2
    <2>4. CASE k >= 1
      <3>1. (IF near > m + Cycle THEN near - (m + Cycle) ELSE 0) = Cycle * (k - 1)
        BY <1>1, <1>3, <1>4, <1>5, <1>7, <2>4
      <3>2. U = Cycle * (k - 1) + left
        BY <1>1, <1>2, <1>3, <1>5, <2>1, <2>2, <3>1 DEF Unwrap
      <3>3. near - Half <= Cycle * (k - 1) + left /\ Cycle * (k - 1) + left < near + Half
        BY <1>1, <1>2, <1>3, <1>4, <1>5, <2>2
      <3>4. k - 1 \in Nat
        BY <2>4
      <3> QED BY <3>2, <3>3, <3>4
    <2> QED BY <1>6, <2>3, <2>4
  <1> QED BY <1>8, <1>9

-----------------------------------------------------------------------------

\* unwrap returns an absolute sequence number that wraps to this Wrap32 (Lab2.md:104).
THEOREM UnwrapWraps ==
  ASSUME HalfAssumption, NEW raw \in Raw, NEW zero \in Raw, NEW near \in Nat
  PROVE  /\ Unwrap(raw, zero, near) \in Nat
         /\ Wrap(Unwrap(raw, zero, near), zero) = raw
  <1>1. Cycle \in Nat \ {0} /\ LeftLow(raw, zero) \in 0..(Cycle - 1)
    BY CycleType, LeftLowValue
  <1>2. PICK j \in Nat : Unwrap(raw, zero, near) = Cycle * j + LeftLow(raw, zero)
    BY UnwrapValue
  <1>3. Cycle * j \in Nat
    BY <1>1
  <1>4. Cycle * j + LeftLow(raw, zero) \in Nat
    BY <1>1, <1>3
  <1> QED BY <1>2, <1>4, Residues

\* It is the closest to the checkpoint of all that do (Lab2.md:108).
THEOREM UnwrapNearest ==
  ASSUME HalfAssumption, NEW raw \in Raw, NEW zero \in Raw, NEW near \in Nat,
         NEW n \in Nat, Wrap(n, zero) = raw
  PROVE  Distance(Unwrap(raw, zero, near), near) <= Distance(n, near)
  <1> DEFINE left == LeftLow(raw, zero)
  <1>1. Cycle \in Nat \ {0} /\ left \in 0..(Cycle - 1) /\ Cycle = Half + Half /\ Half \in Nat \ {0}
    BY CycleType, LeftLowValue
  <1>2. PICK j \in Nat :
          LET u == Cycle * j + left
          IN  /\ Unwrap(raw, zero, near) = u
              /\ (near - Half <= u /\ u < near + Half) \/ (j = 0 /\ near <= u)
    BY UnwrapValue
  <1>3. PICK i \in Int : n = Cycle * i + left
    BY Residues
  <1> HIDE DEF left
  <1>4. /\ Cycle * i \in Int /\ Cycle * j \in Int /\ Cycle * 0 = 0
        /\ Cycle * (i - j) = Cycle * i - Cycle * j
    BY <1>1
  <1>5. i >= 0
    <2>1. CASE i <= -1
      <3>1. Cycle * i <= -Cycle
        BY <1>1, <2>1, SMTT(10)
      <3> QED BY <1>1, <1>3, <1>4, <3>1
    <2> QED BY <2>1
  <1>6. CASE i = j
    BY <1>2, <1>3, <1>6 DEF Distance
  <1>7. CASE i > j
    <2>1. Cycle * (i - j) >= Cycle
      BY <1>1, <1>7, SMTT(10)
    <2> QED BY <1>1, <1>2, <1>3, <1>4, <2>1 DEF Distance
  <1>8. CASE i < j
    <2>1. Cycle * (i - j) <= -Cycle
      BY <1>1, <1>8, SMTT(10)
    <2>2. j # 0
      BY <1>5, <1>8
    <2> QED BY <1>1, <1>2, <1>3, <1>4, <2>1, <2>2 DEF Distance
  <1> QED BY <1>6, <1>7, <1>8

\* So a number that lies within half a cycle of the checkpoint is found again: what
\* TCPReceiver::receive and TCPSender::receive rely on.
THEOREM UnwrapInverts ==
  ASSUME HalfAssumption, NEW zero \in Raw, NEW near \in Nat, NEW n \in Nat,
         Distance(n, near) < Half
  PROVE  Unwrap(Wrap(n, zero), zero, near) = n
  <1> DEFINE raw == Wrap(n, zero)
             u   == Unwrap(raw, zero, near)
  <1>1. Cycle \in Nat \ {0} /\ Cycle = Half + Half /\ Half \in Nat \ {0} /\ zero \in 0..(Cycle - 1)
    BY CycleType DEF Raw
  <1>2. raw \in Raw
    <2>1. n + zero \in Int
      BY <1>1
    <2> QED BY <1>1, <2>1, ModRange DEF Wrap, Raw
  <1>3. u \in Nat /\ Wrap(u, zero) = raw
    BY <1>2, UnwrapWraps
  <1>4. Distance(u, near) <= Distance(n, near)
    BY <1>2, UnwrapNearest
  <1> HIDE DEF u
  <1>5. -Cycle < u - n /\ u - n < Cycle
    BY <1>1, <1>3, <1>4 DEF Distance
  <1>6. PICK i \in Int : n = Cycle * i + LeftLow(raw, zero)
    BY <1>2, Residues
  <1>7. PICK j \in Int : u = Cycle * j + LeftLow(raw, zero)
    BY <1>2, <1>3, Residues
  <1>8. LeftLow(raw, zero) \in Int
    <2> HIDE DEF raw
    <2>1. LeftLow(raw, zero) \in 0..(Cycle - 1)
      BY <1>2, LeftLowValue
    <2> QED BY <1>1, <2>1
  <1>9. Cycle * j \in Int /\ Cycle * i \in Int /\ Cycle * (j - i) = Cycle * j - Cycle * i /\ j - i \in Int
    BY <1>1
  <1>10. -Cycle < Cycle * (j - i) /\ Cycle * (j - i) < Cycle
    BY <1>1, <1>5, <1>6, <1>7, <1>8, <1>9
  <1>11. j - i = 0
    BY <1>1, <1>9, <1>10, MultipleZero
  <1> QED BY <1>6, <1>7, <1>11 DEF u

\* And so is a number of the first cycle that the checkpoint has not left half a cycle
\* behind: what both ends rely on when the stream is shorter than that.
LEMMA UnwrapFinds ==
  ASSUME HalfAssumption, NEW zero, zero \in Raw, NEW near, near \in Nat, NEW n, n \in Nat,
         n < Cycle, near - n <= Half
  PROVE  Unwrap(Wrap(n, zero), zero, near) = n
  <1> DEFINE raw  == Wrap(n, zero)
             left == LeftLow(raw, zero)
  <1>1. Cycle \in Nat \ {0} /\ Cycle = Half + Half /\ Half \in Nat \ {0} /\ zero \in 0..(Cycle - 1)
    BY CycleType DEF Raw
  <1>2. raw \in Raw
    <2>1. n + zero \in Int
      BY <1>1
    <2> QED BY <1>1, <2>1, ModRange DEF Wrap, Raw
  <1>3. PICK i \in Int : n = Cycle * i + left
    BY <1>2, Residues
  <1>4. left \in 0..(Cycle - 1)
    <2> HIDE DEF raw
    <2> QED BY <1>2, LeftLowValue
  <1>5. PICK j \in Nat :
          LET u == Cycle * j + left
          IN  /\ Unwrap(raw, zero, near) = u
              /\ (near - Half <= u /\ u < near + Half) \/ (j = 0 /\ near <= u)
    <2> HIDE DEF raw
    <2> QED BY <1>2, UnwrapValue
  <1> HIDE DEF left, raw
  <1>6. Cycle * i \in Int
    BY <1>1
  <1>7. Cycle * i = 0
    <2>1. -Cycle < Cycle * i /\ Cycle * i < Cycle
      BY <1>1, <1>3, <1>4, <1>6
    <2>2. i = 0
      BY <1>1, <2>1, MultipleZero
    <2> QED BY <1>1, <2>2
  <1>8. n = left
    BY <1>1, <1>3, <1>4, <1>7
  <1>9. CASE j = 0
    BY <1>1, <1>4, <1>5, <1>8, <1>9 DEF raw
  <1>10. CASE j # 0
    <2>1. Cycle * j >= Cycle /\ Cycle * j \in Int
      BY <1>1, <1>10, SMTT(10)
    <2> QED BY <1>1, <1>4, <1>5, <1>8, <1>10, <2>1
  <1> QED BY <1>9, <1>10

-----------------------------------------------------------------------------
(* The bytes of a stream                                                   *)

\* Indices in a row, and an entry of the cache that holds the bytes a to b - 1.
Run(a, b) == [k \in 1..(b - a) |-> a + k - 1]
Block(a, b) == [first |-> a, end |-> b, data |-> Run(a, b)]

-----------------------------------------------------------------------------
(* Substrings of a stream, cut and joined                                  *)

LEMMA RunIsSeq ==
  ASSUME NEW a \in Int, NEW b \in Int, a <= b
  PROVE  /\ Run(a, b) \in Seq(Int)
         /\ Len(Run(a, b)) = b - a
         /\ \A k \in 1..(b - a) : Run(a, b)[k] = a + k - 1
  BY DEF Run

LEMMA IsRun ==
  ASSUME NEW a \in Int, NEW b \in Int, a <= b, NEW s \in Seq(Int),
         Len(s) = b - a, \A k \in 1..(b - a) : s[k] = a + k - 1
  PROVE  s = Run(a, b)
  <1>1. \A k \in 1..Len(s) : s[k] = Run(a, b)[k]
    BY RunIsSeq
  <1> QED BY <1>1, RunIsSeq, SeqEqual

LEMMA RunCut ==
  ASSUME NEW a \in Int, NEW b \in Int, NEW m \in 1..(b - a + 1), NEW n \in (m - 1)..(b - a), a <= b
  PROVE  SubSeq(Run(a, b), m, n) = Run(a + m - 1, a + n)
  <1>1. PICK r \in Seq(Int) : r = Run(a, b) /\ Len(r) = b - a /\ \A k \in 1..(b - a) : r[k] = a + k - 1
    BY RunIsSeq
  <1>2. PICK s : s = SubSeq(r, m, n)
    OBVIOUS
  <1>3. \A k \in m..n : r[k] \in Int
    BY <1>1
  <1>4. /\ s \in Seq(Int)
        /\ Len(s) = n - m + 1
        /\ \A k \in 1..(n - m + 1) : s[k] = r[m + k - 1]
    BY <1>2, <1>3, SubSeqProperties
  <1>5. a + m - 1 \in Int /\ a + n \in Int /\ a + m - 1 <= a + n /\ (a + n) - (a + m - 1) = n - m + 1
    OBVIOUS
  <1>6. \A k \in 1..(n - m + 1) : s[k] = (a + m - 1) + k - 1
    BY <1>1, <1>4
  <1>7. s = Run(a + m - 1, a + n)
    BY <1>4, <1>5, <1>6, IsRun
  <1> QED BY <1>1, <1>2, <1>7

LEMMA RunJoin ==
  ASSUME NEW a \in Int, NEW b \in Int, NEW c \in Int, a <= b, b <= c
  PROVE  Run(a, b) \o Run(b, c) = Run(a, c)
  <1>1. PICK r \in Seq(Int) : r = Run(a, b) /\ Len(r) = b - a /\ \A k \in 1..(b - a) : r[k] = a + k - 1
    BY RunIsSeq
  <1>2. /\ Run(b, c) \in Seq(Int)
        /\ Len(Run(b, c)) = c - b
        /\ \A k \in 1..(c - b) : Run(b, c)[k] = b + k - 1
    BY RunIsSeq
  <1>3. PICK s \in Seq(Int) : s = Run(b, c) /\ Len(s) = c - b /\ \A k \in 1..(c - b) : s[k] = b + k - 1
    BY <1>2
  <1>4. PICK t : t = r \o s
    OBVIOUS
  <1>5. /\ t \in Seq(Int)
        /\ Len(t) = Len(r) + Len(s)
        /\ \A k \in 1..(Len(r) + Len(s)) : t[k] = IF k <= Len(r) THEN r[k] ELSE s[k - Len(r)]
    BY <1>4, ConcatProperties
  <1>6. ASSUME NEW k \in 1..(c - a) PROVE t[k] = a + k - 1
    <2>1. Len(r) + Len(s) = c - a /\ Len(r) = b - a
      BY <1>1, <1>3
    <2>2. CASE k <= b - a
      <3>1. t[k] = r[k]
        BY <1>5, <2>1, <2>2
      <3> QED BY <1>1, <2>2, <3>1
    <2>3. CASE ~(k <= b - a)
      <3>1. t[k] = s[k - (b - a)]
        BY <1>5, <2>1, <2>3
      <3>2. k - (b - a) \in 1..(c - b)
        BY <2>3
      <3>3. s[k - (b - a)] = b + (k - (b - a)) - 1
        BY <1>3, <3>2
      <3> QED BY <3>1, <3>3
    <2> QED BY <2>2, <2>3
  <1>7. t = Run(a, c)
    <2>1. Len(t) = c - a /\ a <= c
      BY <1>1, <1>3, <1>5
    <2> QED BY <1>5, <1>6, <2>1, IsRun
  <1> QED BY <1>1, <1>3, <1>4, <1>7

-----------------------------------------------------------------------------
(* The entries of the cache                                                *)

IsEntry(e, low, high) ==
  /\ e.first \in Int /\ e.end \in Int
  /\ low <= e.first /\ e.first <= e.end /\ e.end <= high
  /\ e = Block(e.first, e.end)

Apart(entries) == \A e, f \in entries : e = f \/ e.end <= f.first \/ f.end <= e.first
Covered(entries, i) == \E e \in entries : Holds(e, i)
Crossed(entries, i) == \E e \in entries : e.first < i /\ i < e.end

LEMMA BlockParts ==
  ASSUME NEW a, NEW b
  PROVE  Block(a, b).first = a /\ Block(a, b).end = b /\ Block(a, b).data = Run(a, b)
  BY DEF Block

LEMMA EntryOfRun ==
  ASSUME NEW a \in Int, NEW b \in Int, a <= b
  PROVE  Entry(a, Run(a, b)) = Block(a, b)
  <1>1. Len(Run(a, b)) = b - a
    BY RunIsSeq
  <1>2. a + Len(Run(a, b)) = b
    BY <1>1
  <1> QED BY <1>2 DEF Entry, Block

LEMMA DropOfRun ==
  ASSUME NEW a \in Int, NEW b \in Int, NEW c \in a..b
  PROVE  Drop(Run(a, b), c - a) = Run(c, b)
  <1>1. a <= b /\ Len(Run(a, b)) = b - a
    BY RunIsSeq
  <1>2. /\ c - a + 1 \in 1..(b - a + 1)
        /\ b - a \in ((c - a + 1) - 1)..(b - a)
    OBVIOUS
  <1>3. SubSeq(Run(a, b), c - a + 1, b - a) = Run(a + (c - a + 1) - 1, a + (b - a))
    BY <1>1, <1>2, RunCut, Zenon
  <1>4. a + (c - a + 1) - 1 = c /\ a + (b - a) = b
    OBVIOUS
  <1> QED BY <1>1, <1>3, <1>4 DEF Drop

LEMMA PrefixOfRun ==
  ASSUME NEW a \in Int, NEW b \in Int, NEW c \in a..b
  PROVE  SubSeq(Run(a, b), 1, c - a) = Run(a, c)
  <1>1. a <= b /\ 1 \in 1..(b - a + 1) /\ c - a \in (1 - 1)..(b - a)
    OBVIOUS
  <1>2. SubSeq(Run(a, b), 1, c - a) = Run(a + 1 - 1, a + (c - a))
    BY <1>1, RunCut
  <1>3. a + 1 - 1 = a /\ a + (c - a) = c
    OBVIOUS
  <1> QED BY <1>2, <1>3

-----------------------------------------------------------------------------
(* How many bytes the entries hold                                         *)

\* The indices that the entries hold. As they are apart, Bytes counts them.
Area(entries) == {i \in Int : Covered(entries, i)}

LEMMA AreaFinite ==
  ASSUME NEW low, low \in Int, NEW high, high \in Int, low <= high,
         NEW S, \A e \in S : IsEntry(e, low, high)
  PROVE  /\ IsFiniteSet(Area(S))
         /\ Cardinality(Area(S)) \in Nat
         /\ Cardinality(Area(S)) <= high - low
  <1>1. Area(S) \subseteq low..(high - 1)
    BY DEF Area, Covered, Holds, IsEntry
  <1>2. high - 1 \in Int
    OBVIOUS
  <1>3. /\ IsFiniteSet(low..(high - 1))
        /\ Cardinality(low..(high - 1)) = IF low > high - 1 THEN 0 ELSE (high - 1) - low + 1
    BY <1>2, FS_Interval
  <1>4. Cardinality(low..(high - 1)) = high - low
    BY <1>3
  <1>5. IsFiniteSet(Area(S)) /\ Cardinality(Area(S)) <= Cardinality(low..(high - 1))
    BY <1>1, <1>3, FS_Subset
  <1>6. Cardinality(Area(S)) \in Nat
    BY <1>5, FS_CardinalityType
  <1> QED BY <1>4, <1>5, <1>6

LEMMA AreaOne ==
  ASSUME NEW low, low \in Int, NEW high, high \in Int, NEW e, IsEntry(e, low, high)
  PROVE  Cardinality(Area({e})) = Len(e.data) /\ Len(e.data) = e.end - e.first
  <1>1. e.first \in Int /\ e.end \in Int /\ e.first <= e.end /\ e = Block(e.first, e.end)
    BY DEF IsEntry
  <1>2. e.data = Run(e.first, e.end)
    BY <1>1, BlockParts
  <1>3. Len(e.data) = e.end - e.first
    BY <1>1, <1>2, RunIsSeq
  <1>4. Area({e}) = e.first..(e.end - 1)
    BY <1>1 DEF Area, Covered, Holds
  <1>5. Cardinality(e.first..(e.end - 1)) = IF e.first > e.end - 1 THEN 0 ELSE (e.end - 1) - e.first + 1
    <2>1. e.end - 1 \in Int
      BY <1>1
    <2> QED BY <1>1, <2>1, FS_Interval
  <1> QED BY <1>1, <1>3, <1>4, <1>5

LEMMA AreaSplit ==
  ASSUME NEW low, low \in Int, NEW high, high \in Int, low <= high,
         NEW S, \A e \in S : IsEntry(e, low, high), Apart(S),
         NEW T, T \subseteq S
  PROVE  Cardinality(Area(S)) = Cardinality(Area(T)) + Cardinality(Area(S \ T))
  <1>1. Area(S) = Area(T) \cup Area(S \ T)
    BY DEF Area, Covered
  <1>2. Area(T) \cap Area(S \ T) = {}
    <2> SUFFICES ASSUME NEW i \in Int, NEW e \in T, Holds(e, i), NEW f \in S \ T, Holds(f, i) PROVE FALSE
      BY DEF Area, Covered
    <2>1. e \in S /\ f \in S /\ e # f
      OBVIOUS
    <2>2. e.first \in Int /\ e.end \in Int /\ f.first \in Int /\ f.end \in Int
      BY <2>1 DEF IsEntry
    <2>3. e.end <= f.first \/ f.end <= e.first
      BY <2>1 DEF Apart
    <2> QED BY <2>2, <2>3 DEF Holds
  <1>3. IsFiniteSet(Area(T)) /\ Cardinality(Area(T)) \in Nat
    <2>1. \A e \in T : IsEntry(e, low, high)
      OBVIOUS
    <2> QED BY <2>1, AreaFinite, Zenon
  <1>4. IsFiniteSet(Area(S \ T)) /\ Cardinality(Area(S \ T)) \in Nat
    <2>1. \A e \in S \ T : IsEntry(e, low, high)
      OBVIOUS
    <2> QED BY <2>1, AreaFinite, Zenon
  <1>5. Cardinality(Area(T) \cup Area(S \ T))
          = Cardinality(Area(T)) + Cardinality(Area(S \ T)) - Cardinality(Area(T) \cap Area(S \ T))
    BY <1>3, <1>4, FS_Union
  <1>6. Cardinality({}) = 0
    BY FS_EmptySet
  <1>7. Cardinality(Area(T) \cap Area(S \ T)) = 0
    BY <1>2, <1>6
  <1> QED BY <1>1, <1>3, <1>4, <1>5, <1>7

\* What MapThenSumSet does on the subsets of S, from the empty one on.
Sums(f, S) ==
  f = [s \in SUBSET S |->
         IF s = {} THEN 0
         ELSE LET x == CHOOSE x \in s : TRUE IN Len(x.data) + f[s \ {x}]]

LEMMA SumsArea ==
  ASSUME NEW low, low \in Int, NEW high, high \in Int, low <= high,
         NEW S, \A e \in S : IsEntry(e, low, high), Apart(S)
  PROVE  Sums([s \in SUBSET S |-> Cardinality(Area(s))], S)
  <1> DEFINE f == [s \in SUBSET S |-> Cardinality(Area(s))]
  <1>1. Cardinality(Area({})) = 0
    <2>1. Area({}) = {}
      BY DEF Area, Covered
    <2> QED BY <2>1, FS_EmptySet
  <1>2. ASSUME NEW s \in SUBSET S, s # {}, NEW x, x = (CHOOSE y \in s : TRUE)
        PROVE  f[s] = Len(x.data) + f[s \ {x}]
    <2>1. x \in s /\ {x} \subseteq s /\ s \ {x} \in SUBSET S
      BY <1>2
    <2>2. \A e \in s : IsEntry(e, low, high)
      OBVIOUS
    <2>3. Apart(s)
      BY DEF Apart
    <2>4. Cardinality(Area(s)) = Cardinality(Area({x})) + Cardinality(Area(s \ {x}))
      <3> HIDE DEF f
      <3>1. PICK T : T = {x} /\ T \subseteq s
        BY <2>1
      <3>2. Cardinality(Area(s)) = Cardinality(Area(T)) + Cardinality(Area(s \ T))
        BY <2>2, <2>3, <3>1, AreaSplit
      <3> QED BY <3>1, <3>2
    <2>5. Cardinality(Area({x})) = Len(x.data)
      BY <2>1, <2>2, AreaOne, Zenon
    <2> QED BY <2>1, <2>4, <2>5
  <1>3. f = [s \in SUBSET S |->
         IF s = {} THEN 0
         ELSE LET x == CHOOSE x \in s : TRUE IN Len(x.data) + f[s \ {x}]]
    <2>1. ASSUME NEW s \in SUBSET S
          PROVE  f[s] = IF s = {} THEN 0
                        ELSE LET x == CHOOSE x \in s : TRUE IN Len(x.data) + f[s \ {x}]
      <3>1. CASE s = {}
        BY <1>1, <3>1
      <3>2. CASE s # {}
        <4> HIDE DEF f
        <4> QED BY <1>2, <3>2
      <3> QED BY <3>1, <3>2
    <2> QED BY <2>1
  <1> QED BY <1>3 DEF Sums

LEMMA SumsUnique ==
  ASSUME NEW S, IsFiniteSet(S), NEW f, NEW g, Sums(f, S), Sums(g, S)
  PROVE  f[S] = g[S]
  <1> DEFINE T == {n \in Nat : \A s \in SUBSET S : Cardinality(s) = n => f[s] = g[s]}
  <1>1. ASSUME NEW s \in SUBSET S PROVE IsFiniteSet(s) /\ Cardinality(s) \in Nat
    BY FS_Subset, FS_CardinalityType
  <1>2. ASSUME NEW s \in SUBSET S
        PROVE  /\ f[s] = IF s = {} THEN 0
                         ELSE LET x == CHOOSE x \in s : TRUE IN Len(x.data) + f[s \ {x}]
               /\ g[s] = IF s = {} THEN 0
                         ELSE LET x == CHOOSE x \in s : TRUE IN Len(x.data) + g[s \ {x}]
    BY Zenon DEF Sums
  <1>3. 0 \in T
    <2> SUFFICES ASSUME NEW s \in SUBSET S, Cardinality(s) = 0 PROVE f[s] = g[s]
      OBVIOUS
    <2>1. s = {}
      BY <1>1, FS_EmptySet
    <2> QED BY <1>2, <2>1
  <1>4. ASSUME NEW n \in Nat, n \in T PROVE n + 1 \in T
    <2> SUFFICES ASSUME NEW s \in SUBSET S, Cardinality(s) = n + 1 PROVE f[s] = g[s]
      OBVIOUS
    <2>1. s # {}
      BY FS_EmptySet
    <2>2. PICK x : x = (CHOOSE y \in s : TRUE)
      OBVIOUS
    <2>3. x \in s
      BY <2>1, <2>2
    <2>4. s \ {x} \in SUBSET S /\ Cardinality(s \ {x}) = n
      <3>1. Cardinality(s \ {x}) = Cardinality(s) - 1
        BY <1>1, <2>3, FS_RemoveElement
      <3> QED BY <3>1
    <2>5. f[s \ {x}] = g[s \ {x}]
      BY <1>4, <2>4
    <2>6. f[s] = Len(x.data) + f[s \ {x}] /\ g[s] = Len(x.data) + g[s \ {x}]
      BY <1>2, <2>1, <2>2
    <2> QED BY <2>5, <2>6
  <1>5. \A n \in Nat : n \in T
    <2> HIDE DEF T
    <2> QED BY <1>3, <1>4, NatSet
  <1>6. S \in SUBSET S
    OBVIOUS
  <1> QED BY <1>1, <1>5, <1>6

LEMMA BytesAre ==
  ASSUME NEW low, low \in Int, NEW high, high \in Int, low <= high,
         NEW S, \A e \in S : IsEntry(e, low, high), Apart(S), IsFiniteSet(S)
  PROVE  Bytes(S) = Cardinality(Area(S))
  <1> DEFINE f == [s \in SUBSET S |-> Cardinality(Area(s))]
             g == CHOOSE h : Sums(h, S)
  <1>1. Sums(f, S)
    BY SumsArea
  <1>2. Sums(g, S)
    <2> HIDE DEF f
    <2> QED BY <1>1
  <1>3. Bytes(S) = g[S]
    BY DEF Bytes, MapThenSumSet, MapThenFoldSet, Sums
  <1>4. f[S] = Cardinality(Area(S))
    BY S \in SUBSET S
  <1> HIDE DEF f, g
  <1>5. f[S] = g[S]
    BY <1>1, <1>2, SumsUnique
  <1> QED BY <1>3, <1>4, <1>5

\* So the bytes of disjoint parts add up, and cannot be more than there is room for.
Packed(S, low, high) == (\A e \in S : IsEntry(e, low, high)) /\ Apart(S) /\ IsFiniteSet(S)
AddUp(S, T, U) ==
  Bytes(S) = Bytes(T) + Bytes(U) /\ Bytes(S) \in Nat /\ Bytes(T) \in Nat /\ Bytes(U) \in Nat

LEMMA BytesSplit ==
  ASSUME NEW low, low \in Int, NEW high, high \in Int, low <= high,
         NEW S, Packed(S, low, high), NEW T, T \subseteq S, NEW U, U = S \ T
  PROVE  AddUp(S, T, U) /\ Bytes(S) <= high - low
  <1>1. (\A e \in S : IsEntry(e, low, high)) /\ Apart(S) /\ IsFiniteSet(S)
    BY DEF Packed
  <1>2. /\ \A e \in T : IsEntry(e, low, high)
        /\ \A e \in U : IsEntry(e, low, high)
    BY <1>1
  <1>3. Apart(T) /\ Apart(U)
    BY <1>1 DEF Apart
  <1>4. IsFiniteSet(T) /\ IsFiniteSet(U)
    BY <1>1, FS_Subset
  <1>5. Bytes(S) = Cardinality(Area(S))
    BY <1>1, BytesAre, Zenon
  <1>6. Bytes(T) = Cardinality(Area(T))
    BY <1>2, <1>3, <1>4, BytesAre, Zenon
  <1>7. Bytes(U) = Cardinality(Area(U))
    BY <1>2, <1>3, <1>4, BytesAre, Zenon
  <1>8. Cardinality(Area(S)) = Cardinality(Area(T)) + Cardinality(Area(U))
    BY <1>1, AreaSplit
  <1>9. Cardinality(Area(S)) \in Nat /\ Cardinality(Area(S)) <= high - low
    BY <1>1, AreaFinite, Zenon
  <1>10. Cardinality(Area(T)) \in Nat
    BY <1>2, AreaFinite, Zenon
  <1>11. Cardinality(Area(U)) \in Nat
    BY <1>2, AreaFinite, Zenon
  <1> QED BY <1>5, <1>6, <1>7, <1>8, <1>9, <1>10, <1>11 DEF AddUp

LEMMA BytesOne ==
  ASSUME NEW low, low \in Int, NEW high, high \in Int, low <= high, NEW e, IsEntry(e, low, high)
  PROVE  Bytes({e}) = Len(e.data)
  <1>1. PICK S : S = {e}
    OBVIOUS
  <1>2. (\A f \in S : IsEntry(f, low, high)) /\ Apart(S)
    BY <1>1 DEF Apart
  <1>3. IsFiniteSet(S)
    BY <1>1, FS_Singleton
  <1>4. Bytes(S) = Cardinality(Area(S))
    BY <1>2, <1>3, BytesAre, Zenon
  <1>5. Cardinality(Area({e})) = Len(e.data)
    BY AreaOne, Zenon
  <1> QED BY <1>1, <1>4, <1>5

-----------------------------------------------------------------------------
(* What insert does to the cache                                           *)

\* The new entry goes up to where no entry crosses.
LEMMA JoinsRight ==
  ASSUME NEW low \in Int, NEW high \in Int, NEW a \in low..high, NEW b \in a..high,
         \A e \in cache : IsEntry(e, low, high), Apart(cache), ~Contained(Block(a, b))
  PROVE  \E b2 \in b..high : JoinRight(Block(a, b)) = Block(a, b2) /\ ~Crossed(cache, b2)
  <1> DEFINE new == Block(a, b)
  <1>1. new.first = a /\ new.end = b /\ new.data = Run(a, b)
    BY BlockParts
  <1>2. CASE OnRight(new) = {}
    <2>1. JoinRight(new) = new
      BY <1>2 DEF JoinRight
    <2>2. ASSUME NEW e \in cache, e.first < b, b < e.end PROVE FALSE
      <3>1. e.first \in Int /\ e.end \in Int
        BY DEF IsEntry
      <3>2. e.first <= a
        BY <1>1, <1>2, <2>2, <3>1 DEF OnRight
      <3> QED BY <1>1, <2>2, <3>1, <3>2 DEF Contained, Within
    <2> QED BY <2>1, <2>2 DEF Crossed
  <1>3. CASE OnRight(new) # {}
    <2>1. PICK r : r \in OnRight(new) /\ JoinRight(new) = Entry(a, Run(a, b) \o Drop(r.data, b - r.first))
      BY <1>1, <1>3 DEF JoinRight
    <2>2. r \in cache /\ a < r.first /\ r.first < b /\ b < r.end
      BY <1>1, <2>1 DEF OnRight
    <2>3. r.first \in Int /\ r.end \in Int /\ r.end <= high /\ r = Block(r.first, r.end)
      BY <2>2 DEF IsEntry
    <2>4. r.data = Run(r.first, r.end)
      BY <2>3, BlockParts
    <2>5. Drop(r.data, b - r.first) = Run(b, r.end)
      BY <2>2, <2>3, <2>4, DropOfRun
    <2>6. a \in Int /\ b \in Int /\ a <= b /\ b <= r.end /\ a <= r.end
      BY <2>2, <2>3
    <2>7. Run(a, b) \o Run(b, r.end) = Run(a, r.end)
      BY <2>3, <2>6, RunJoin, Zenon
    <2>8. Entry(a, Run(a, r.end)) = Block(a, r.end)
      BY <2>3, <2>6, EntryOfRun, Zenon
    <2>9. JoinRight(new) = Block(a, r.end)
      BY <2>1, <2>5, <2>7, <2>8
    <2>10. ASSUME NEW e \in cache, e.first < r.end, r.end < e.end PROVE FALSE
      <3>1. e.first \in Int /\ e.end \in Int
        BY DEF IsEntry
      <3>2. e = r \/ e.end <= r.first \/ r.end <= e.first
        BY <2>2 DEF Apart
      <3> QED BY <2>2, <2>3, <2>10, <3>1, <3>2
    <2> QED BY <2>2, <2>3, <2>9, <2>10 DEF Crossed
  <1> QED BY <1>2, <1>3

\* And from where none crosses.
LEMMA JoinsLeft ==
  ASSUME NEW low \in Int, NEW high \in Int, NEW a \in low..high, NEW b \in a..high, NEW b2 \in b..high,
         \A e \in cache : IsEntry(e, low, high), Apart(cache), ~Contained(Block(a, b))
  PROVE  \E a2 \in low..a : JoinLeft(Block(a, b2)) = Block(a2, b2) /\ ~Crossed(cache, a2)
  <1> DEFINE new == Block(a, b2)
  <1>1. new.first = a /\ new.end = b2 /\ new.data = Run(a, b2) /\ Block(a, b).first = a /\ Block(a, b).end = b
    BY BlockParts
  <1>2. CASE OnLeft(new) = {}
    <2>1. JoinLeft(new) = new
      BY <1>2 DEF JoinLeft
    <2>2. ASSUME NEW e \in cache, e.first < a, a < e.end PROVE FALSE
      <3>1. e.first \in Int /\ e.end \in Int
        BY DEF IsEntry
      <3>2. b2 <= e.end
        BY <1>1, <1>2, <2>2, <3>1 DEF OnLeft
      <3>3. Within(Block(a, b), e)
        BY <1>1, <2>2, <3>1, <3>2 DEF Within
      <3> QED BY <3>3 DEF Contained
    <2> QED BY <2>1, <2>2 DEF Crossed
  <1>3. CASE OnLeft(new) # {}
    <2>1. PICK l : l \in OnLeft(new) /\ JoinLeft(new) = Entry(l.first, l.data \o Drop(Run(a, b2), l.end - a))
      BY <1>1, <1>3 DEF JoinLeft
    <2>2. l \in cache /\ l.first < a /\ a < l.end /\ l.end < b2
      BY <1>1, <2>1 DEF OnLeft
    <2>3. l.first \in Int /\ l.end \in Int /\ low <= l.first /\ l = Block(l.first, l.end)
      BY <2>2 DEF IsEntry
    <2>4. l.data = Run(l.first, l.end)
      BY <2>3, BlockParts
    <2>5. Drop(Run(a, b2), l.end - a) = Run(l.end, b2)
      BY <2>2, <2>3, DropOfRun
    <2>6. b2 \in Int /\ l.first <= l.end /\ l.end <= b2 /\ l.first <= b2
      BY <2>2, <2>3
    <2>7. Run(l.first, l.end) \o Run(l.end, b2) = Run(l.first, b2)
      BY <2>3, <2>6, RunJoin, Zenon
    <2>8. Entry(l.first, Run(l.first, b2)) = Block(l.first, b2)
      BY <2>3, <2>6, EntryOfRun, Zenon
    <2>9. JoinLeft(new) = Block(l.first, b2)
      BY <2>1, <2>4, <2>5, <2>7, <2>8
    <2>10. ASSUME NEW e \in cache, e.first < l.first, l.first < e.end PROVE FALSE
      <3>1. e.first \in Int /\ e.end \in Int
        BY DEF IsEntry
      <3>2. e = l \/ e.end <= l.first \/ l.end <= e.first
        BY <2>2 DEF Apart
      <3> QED BY <2>2, <2>3, <2>10, <3>1, <3>2
    <2> QED BY <2>2, <2>3, <2>9, <2>10 DEF Crossed
  <1> QED BY <1>2, <1>3

\* cache_in loses nothing and keeps the entries apart.
LEMMA CacheIn ==
  ASSUME NEW low \in Int, NEW high \in Int, NEW a \in low..high, NEW b \in a..high,
         \A e \in cache : IsEntry(e, low, high), Apart(cache), ~Contained(Block(a, b)),
         IsFiniteSet(cache), size = Bytes(cache),
         NEW c, c = cache_in(Block(a, b)), NEW entries, entries = c.entries
  PROVE  /\ \A e \in entries : IsEntry(e, low, high)
         /\ Apart(entries)
         /\ \A i \in Int : Covered(cache, i) \/ (a <= i /\ i < b) => Covered(entries, i)
         /\ IsFiniteSet(entries) /\ c.size = Bytes(entries)
  <1>1. PICK b2 \in b..high : JoinRight(Block(a, b)) = Block(a, b2) /\ ~Crossed(cache, b2)
    BY JoinsRight
  <1>2. PICK a2 \in low..a : JoinLeft(Block(a, b2)) = Block(a2, b2) /\ ~Crossed(cache, a2)
    BY JoinsLeft
  <1> DEFINE joined == Block(a2, b2)
             erased == {e \in cache : Within(e, joined)}
  <1>3. /\ entries = (cache \ erased) \cup {joined}
        /\ c.size = size - Bytes(erased) + Len(joined.data)
    BY <1>1, <1>2 DEF cache_in
  <1>4. joined.first = a2 /\ joined.end = b2 /\ joined.data = Run(a2, b2)
    BY BlockParts
  <1> HIDE DEF joined
  <1>5. ASSUME NEW e \in entries PROVE IsEntry(e, low, high)
    <2>1. CASE e \in cache
      BY <2>1
    <2>2. CASE e = joined
      BY <1>4, <2>2 DEF IsEntry, joined
    <2> QED BY <1>3, <2>1, <2>2
  <1>6. ASSUME NEW e \in cache, ~Within(e, joined) PROVE e.end <= a2 \/ b2 <= e.first
    <2>1. e.first \in Int /\ e.end \in Int
      BY DEF IsEntry
    <2>2. ~(e.first < a2 /\ a2 < e.end) /\ ~(e.first < b2 /\ b2 < e.end)
      BY <1>1, <1>2 DEF Crossed
    <2>3. e.first < a2 \/ b2 < e.end
      BY <1>4, <1>6, <2>1 DEF Within
    <2>4. e.first <= e.end
      BY DEF IsEntry
    <2> QED BY <2>1, <2>2, <2>3, <2>4
  <1>7. ASSUME NEW e \in entries, NEW f \in entries PROVE e = f \/ e.end <= f.first \/ f.end <= e.first
    <2>1. CASE e \in cache \ erased /\ f \in cache \ erased
      BY <2>1 DEF Apart
    <2>2. CASE e \in cache \ erased /\ f = joined
      BY <1>4, <1>6, <2>2
    <2>3. CASE e = joined /\ f \in cache \ erased
      BY <1>4, <1>6, <2>3
    <2>4. CASE e = joined /\ f = joined
      BY <2>4
    <2> QED BY <1>3, <2>1, <2>2, <2>3, <2>4
  <1>8. ASSUME NEW i \in Int, a <= i, i < b PROVE Covered(entries, i)
    <2>1. Holds(joined, i)
      BY <1>4, <1>8 DEF Holds
    <2> QED BY <1>3, <2>1 DEF Covered
  <1>9. ASSUME NEW i \in Int, NEW e \in cache, Holds(e, i) PROVE Covered(entries, i)
    <2>1. CASE e \in erased
      <3>1. e.first \in Int /\ e.end \in Int /\ a2 <= e.first /\ e.end <= b2
        BY <1>4, <2>1 DEF Within, IsEntry
      <3>2. Holds(joined, i)
        BY <1>4, <1>9, <3>1 DEF Holds
      <3> QED BY <1>3, <3>2 DEF Covered
    <2>2. CASE e \notin erased
      BY <1>3, <1>9, <2>2 DEF Covered
    <2> QED BY <2>1, <2>2
  <1>10. \A i \in Int : Covered(cache, i) \/ (a <= i /\ i < b) => Covered(entries, i)
    BY <1>8, <1>9 DEF Covered
  <1>11. IsFiniteSet(entries) /\ c.size = Bytes(entries)
    <2>1. low <= high
      OBVIOUS
    <2>2. IsFiniteSet(cache \ erased)
      BY FS_Subset, (cache \ erased) \subseteq cache
    <2>3. IsFiniteSet(entries)
      <3>1. IsFiniteSet((cache \ erased) \cup {joined})
        BY <2>2, FS_AddElement, Zenon
      <3> QED BY <1>3, <3>1, Zenon
    <2>4. joined \in entries /\ IsEntry(joined, low, high)
      BY <1>3, <1>5
    <2>5. joined \notin cache \ erased
      BY <1>4 DEF Within
    <2>6. PICK T, U : T = {joined} /\ T \subseteq entries /\ U = cache \ erased /\ U = entries \ T
      BY <1>3, <2>5
    <2>7. Bytes(T) = Len(joined.data)
      BY <2>1, <2>4, <2>6, BytesOne, Zenon
    <2>8. Packed(entries, low, high) /\ Packed(cache, low, high)
      BY <1>5, <1>7, <2>3 DEF Apart, Packed
    <2>9. AddUp(entries, T, U)
      BY <2>1, <2>6, <2>8, BytesSplit, Zenon
    <2>10. PICK V : V = erased /\ V \subseteq cache /\ U = cache \ V
      BY <2>6
    <2>11. AddUp(cache, V, U)
      BY <2>1, <2>8, <2>10, BytesSplit, Zenon
    <2> HIDE DEF erased
    <2>12. c.size = Bytes(cache) - Bytes(V) + Bytes(T)
      BY <1>3, <2>7, <2>10
    <2> QED BY <2>3, <2>9, <2>11, <2>12 DEF AddUp
  <1> QED BY <1>5, <1>7, <1>10, <1>11 DEF Apart

-----------------------------------------------------------------------------
(* The output                                                              *)

Streams == [capacity : Nat \ {0}, buffer : Seq(Int), bytes_pushed : Nat, bytes_popped : Nat,
            close : BOOLEAN, error : BOOLEAN]

\* The first w bytes of the stream have been pushed, and those not popped are there.
StreamIs(N, s, w) ==
  /\ s \in Streams
  /\ w \in 0..N
  /\ s.bytes_pushed = w
  /\ s.bytes_popped <= w
  /\ w <= s.bytes_popped + s.capacity
  /\ s.buffer = Run(s.bytes_popped, w)

SameRoom(s, t) == s.capacity = t.capacity /\ s.bytes_popped = t.bytes_popped

LEMMA BufferLength ==
  ASSUME NEW N, N \in Nat, NEW s, NEW w, StreamIs(N, s, w)
  PROVE  /\ s.bytes_popped \in Nat /\ s.capacity \in Nat \ {0} /\ w \in Int
         /\ Len(s.buffer) = w - s.bytes_popped
         /\ available_capacity(s) = s.capacity - (w - s.bytes_popped)
  <1>1. /\ s.bytes_popped \in Nat /\ s.bytes_popped \in Int /\ s.capacity \in Nat \ {0}
        /\ w \in Int /\ s.bytes_popped <= w
    BY DEF StreamIs, Streams
  <1>2. s.buffer = Run(s.bytes_popped, w)
    BY DEF StreamIs
  <1>3. Len(Run(s.bytes_popped, w)) = w - s.bytes_popped
    BY <1>1, RunIsSeq, Zenon
  <1> QED BY <1>1, <1>2, <1>3 DEF available_capacity

LEMMA NewStreams ==
  ASSUME NEW N, N \in Nat, NEW c \in Nat \ {0}
  PROVE  StreamIs(N, NewStream(c), 0) /\ NewStream(c).capacity = c /\ NewStream(c).bytes_popped = 0
  <1>1. Run(0, 0) = <<>>
    BY DEF Run
  <1>2. <<>> \in Seq(Int)
    OBVIOUS
  <1> QED BY <1>1, <1>2 DEF StreamIs, Streams, NewStream

LEMMA Closing ==
  ASSUME NEW N, NEW s, NEW w, StreamIs(N, s, w)
  PROVE  StreamIs(N, Close(s), w) /\ SameRoom(Close(s), s)
  BY DEF StreamIs, Streams, Close, SameRoom

LEMMA Failing ==
  ASSUME NEW N, NEW s, NEW w, StreamIs(N, s, w)
  PROVE  StreamIs(N, SetError(s), w) /\ SameRoom(SetError(s), s)
  BY DEF StreamIs, Streams, SetError, SameRoom

LEMMA Pushing ==
  ASSUME NEW N, N \in Nat, NEW s, NEW w, StreamIs(N, s, w),
         NEW v \in w..N, v <= s.bytes_popped + s.capacity
  PROVE  StreamIs(N, Push(s, Run(w, v)), v) /\ SameRoom(Push(s, Run(w, v)), s)
  <1> DEFINE q == s.bytes_popped
  <1>1. /\ q \in Nat /\ s.capacity \in Nat \ {0} /\ w \in Int
        /\ available_capacity(s) = s.capacity - (w - q)
    BY BufferLength
  <1>2. /\ q <= w /\ w <= v /\ v \in Int /\ q \in Int
        /\ s.buffer = Run(q, w) /\ s \in Streams /\ s.bytes_pushed = w
    BY <1>1 DEF StreamIs
  <1>3. Run(w, v) \in Seq(Int) /\ Len(Run(w, v)) = v - w
    BY <1>1, <1>2, RunIsSeq
  <1>4. Fitting(s, Run(w, v)) = Run(w, v)
    <2>1. ~(Len(Run(w, v)) > available_capacity(s))
      BY <1>1, <1>2, <1>3
    <2>2. SubSeq(Run(w, v), 1, Len(Run(w, v))) = Run(w, v)
      BY <1>3, SubSeqFull
    <2> QED BY <2>1, <2>2 DEF Fitting
  <1>5. s.buffer \o Run(w, v) = Run(q, v)
    <2>1. Run(q, w) \o Run(w, v) = Run(q, v)
      BY <1>1, <1>2, RunJoin, Zenon
    <2> QED BY <1>2, <2>1
  <1>6. w + (v - w) = v
    BY <1>1, <1>2
  <1>7. Push(s, Run(w, v)) = [s EXCEPT !.buffer = Run(q, v), !.bytes_pushed = v]
    BY <1>2, <1>3, <1>4, <1>5, <1>6 DEF Push
  <1>8. Run(q, v) \in Seq(Int) /\ q <= v /\ v \in 0..N /\ v \in Nat
    <2>1. q <= v /\ v \in 0..N /\ v \in Nat
      BY <1>1, <1>2
    <2> QED BY <1>2, <2>1, RunIsSeq, Zenon
  <1>9. Push(s, Run(w, v)) \in Streams
    BY <1>2, <1>7, <1>8 DEF Streams
  <1>10. /\ Push(s, Run(w, v)).bytes_popped = q /\ Push(s, Run(w, v)).buffer = Run(q, v)
         /\ Push(s, Run(w, v)).bytes_pushed = v /\ Push(s, Run(w, v)).capacity = s.capacity
    BY <1>2, <1>7 DEF Streams
  <1> QED BY <1>1, <1>8, <1>9, <1>10 DEF StreamIs, SameRoom

LEMMA Popping ==
  ASSUME NEW N, N \in Nat, NEW s, NEW w, StreamIs(N, s, w), NEW len \in Nat, len <= Len(s.buffer)
  PROVE  /\ StreamIs(N, Pop(s, len), w)
         /\ Pop(s, len).capacity = s.capacity
         /\ Pop(s, len).bytes_popped = s.bytes_popped + len
  <1> DEFINE q == s.bytes_popped
  <1>1. /\ q \in Nat /\ s.capacity \in Nat \ {0} /\ w \in Int
        /\ Len(s.buffer) = w - q
    BY BufferLength
  <1>2. /\ q <= w /\ s.buffer = Run(q, w) /\ s \in Streams
        /\ s.bytes_pushed = w /\ w <= q + s.capacity /\ w \in 0..N
    BY DEF StreamIs
  <1>3. SubSeq(s.buffer, len + 1, Len(s.buffer)) = Run(q + len, w)
    <2>1. q + len \in q..w /\ q \in Int /\ (q + len) - q = len
      BY <1>1, <1>2
    <2>2. Drop(Run(q, w), (q + len) - q) = Run(q + len, w)
      BY <1>1, <2>1, DropOfRun, Zenon
    <2> QED BY <1>2, <2>1, <2>2 DEF Drop
  <1>4. Pop(s, len) = [s EXCEPT !.buffer = Run(q + len, w), !.bytes_popped = q + len]
    <2>1. ~(Len(s.buffer) < len)
      BY <1>1
    <2> QED BY <1>3, <2>1 DEF Pop
  <1>5. q + len \in Nat /\ q + len <= w /\ w <= q + len + s.capacity
    <2>1. PICK c \in Nat, l \in Nat : c = s.capacity /\ l = Len(s.buffer) /\ len <= l
      BY <1>1, <1>2
    <2>2. l = w - q /\ w <= q + c /\ q <= w
      BY <1>1, <1>2, <2>1
    <2>3. \A i, k, x, j, h \in Int : j = k - i /\ x <= j /\ 0 <= x /\ 0 <= i /\ k <= i + h
                                  => i + x \in Nat /\ i + x <= k /\ k <= i + x + h
      OBVIOUS
    <2> HIDE DEF q
    <2> QED BY <1>1, <2>1, <2>2, <2>3
  <1>6. Run(q + len, w) \in Seq(Int)
    <2>1. q + len \in Int
      BY <1>5
    <2> QED BY <1>1, <1>5, <2>1, RunIsSeq, Zenon
  <1>7. Pop(s, len) \in Streams
    BY <1>2, <1>4, <1>5, <1>6 DEF Streams
  <1>8. /\ Pop(s, len).bytes_popped = q + len /\ Pop(s, len).buffer = Run(q + len, w)
        /\ Pop(s, len).bytes_pushed = w /\ Pop(s, len).capacity = s.capacity
    BY <1>2, <1>4 DEF Streams
  <1> QED BY <1>1, <1>2, <1>5, <1>7, <1>8 DEF StreamIs

-----------------------------------------------------------------------------
(* The invariant of the Reassembler                                        *)

\* The end of the window, or of the stream.
Edge == output.bytes_popped + output.capacity
Top(N) == IF Edge < N THEN Edge ELSE N

CacheInv(N) ==
  /\ \A e \in cache : IsEntry(e, waiting_index + 1, Top(N))
  /\ Apart(cache)

KnownInv(N) ==
  /\ known \subseteq 0..(N - 1)
  /\ \A i \in known : i < waiting_index \/ Covered(cache, i)

\* size_ counts the bytes of the cache.
CountInv == IsFiniteSet(cache) /\ size = Bytes(cache)

RInv(N) ==
  /\ CountInv
  /\ StreamIs(N, output, waiting_index)
  /\ EOF_end_index \in {NoEOF, N}
  /\ CacheInv(N)
  /\ KnownInv(N)

LEMMA Window ==
  ASSUME NEW N, N \in Nat, StreamIs(N, output, waiting_index)
  PROVE  /\ waiting_index \in Nat /\ tail_index = Edge /\ Edge \in Nat /\ Top(N) \in Nat
         /\ waiting_index <= Top(N) /\ Top(N) <= N /\ Top(N) <= Edge
         /\ available_capacity(output) = Edge - waiting_index
  <1>1. /\ output.bytes_popped \in Nat /\ output.capacity \in Nat /\ waiting_index \in Int
        /\ available_capacity(output) = output.capacity - (waiting_index - output.bytes_popped)
    BY BufferLength
  <1>2. waiting_index \in 0..N /\ waiting_index <= output.bytes_popped + output.capacity
    BY DEF StreamIs
  <1> QED BY <1>1, <1>2 DEF tail_index, Edge, Top

\* The gap is the first byte that no entry has.
LEMMA GapOf ==
  ASSUME NEW N, N \in Nat, StreamIs(N, output, waiting_index),
         NEW entries, \A e \in entries : IsEntry(e, waiting_index, Top(N))
  PROVE  /\ Gap(entries) \in waiting_index..Top(N)
         /\ ~Covered(entries, Gap(entries))
         /\ \A i \in waiting_index..(Gap(entries) - 1) : Covered(entries, i)
  <1> DEFINE T == {i \in waiting_index..tail_index : ~ \E e \in entries : Holds(e, i)} \cup {tail_index}
             gap == Gap(entries)
  <1>1. /\ waiting_index \in Nat /\ tail_index = Edge /\ Edge \in Nat /\ Top(N) \in Nat
        /\ waiting_index <= Top(N) /\ Top(N) <= Edge
    BY Window
  <1>2. T \subseteq Nat /\ T # {} /\ gap = Min(T)
    BY <1>1 DEF Gap
  <1>3. gap \in T /\ \A x \in T : gap <= x
    BY <1>2, MinOf
  <1>4. ASSUME NEW i \in Int, Top(N) <= i PROVE ~Covered(entries, i)
    <2> SUFFICES ASSUME NEW e \in entries, Holds(e, i) PROVE FALSE
      BY DEF Covered
    <2>1. e.end \in Int /\ e.end <= Top(N)
      BY DEF IsEntry
    <2> QED BY <1>1, <1>4, <2>1 DEF Holds
  <1>5. Top(N) \in T
    BY <1>1, <1>4 DEF Covered
  <1>6. gap \in waiting_index..Top(N)
    BY <1>1, <1>3, <1>5
  <1>7. ~Covered(entries, gap)
    <2>1. CASE gap = tail_index
      BY <1>1, <1>4, <2>1
    <2>2. CASE gap # tail_index
      BY <1>3, <2>2 DEF Covered
    <2> QED BY <2>1, <2>2
  <1>8. ASSUME NEW i \in waiting_index..(gap - 1) PROVE Covered(entries, i)
    <2>1. i \notin T
      BY <1>1, <1>3, <1>6
    <2>2. i \in waiting_index..tail_index
      BY <1>1, <1>6
    <2> QED BY <2>1, <2>2 DEF Covered
  <1> QED BY <1>6, <1>7, <1>8

LEMMA WriteOf ==
  ASSUME NEW N, N \in Nat, StreamIs(N, output, waiting_index),
         NEW c, \A e \in c.entries : IsEntry(e, waiting_index, Top(N)), Apart(c.entries),
         IsFiniteSet(c.entries), c.size = Bytes(c.entries),
         NEW w, w = write(c)
  PROVE  /\ StreamIs(N, w.output, w.waiting) /\ SameRoom(w.output, output)
         /\ w.waiting \in waiting_index..Top(N)
         /\ \A e \in w.entries : IsEntry(e, w.waiting + 1, Top(N))
         /\ Apart(w.entries)
         /\ \A i \in Int : Covered(c.entries, i) => i < w.waiting \/ Covered(w.entries, i)
         /\ IsFiniteSet(w.entries) /\ w.size = Bytes(w.entries)
  <1> DEFINE gap == Gap(c.entries)
             bytes == [k \in 1..(gap - waiting_index) |-> ByteAt(c.entries, waiting_index + k - 1)]
             behind == {e \in c.entries : gap < e.first}
  <1>1. /\ waiting_index \in Nat /\ Top(N) \in Nat /\ Top(N) <= N /\ Top(N) <= Edge
        /\ output.bytes_popped + output.capacity = Edge /\ Edge \in Nat
    BY Window DEF Edge
  <1>2. /\ gap \in waiting_index..Top(N)
        /\ ~Covered(c.entries, gap)
        /\ \A i \in waiting_index..(gap - 1) : Covered(c.entries, i)
    BY GapOf
  <1>3. /\ w.waiting = gap /\ w.output = Push(output, bytes) /\ w.entries = behind
        /\ w.size = c.size - Bytes(c.entries \ behind)
    BY DEF write
  <1> HIDE DEF gap
  <1>4. bytes = Run(waiting_index, gap)
    <2>1. ASSUME NEW k \in 1..(gap - waiting_index)
          PROVE  ByteAt(c.entries, waiting_index + k - 1) = waiting_index + k - 1
      <3> DEFINE i == waiting_index + k - 1
      <3>1. i \in waiting_index..(gap - 1)
        BY <1>1, <1>2
      <3>2. \E e \in c.entries : Holds(e, i)
        BY <1>2, <3>1 DEF Covered
      <3> HIDE DEF i
      <3>3. PICK e \in c.entries : Holds(e, i) /\ ByteAt(c.entries, i) = e.data[i - e.first + 1]
        BY <3>2 DEF ByteAt
      <3>4. e.first \in Int /\ e.end \in Int /\ e.first <= i /\ i < e.end /\ e = Block(e.first, e.end)
        BY <3>3 DEF IsEntry, Holds
      <3>5. e.data = Run(e.first, e.end)
        BY <3>4, BlockParts
      <3>6. i - e.first + 1 \in 1..(e.end - e.first)
        BY <1>1, <1>2, <3>1, <3>4
      <3>7. Run(e.first, e.end)[i - e.first + 1] = e.first + (i - e.first + 1) - 1
        BY <3>6 DEF Run
      <3>8. e.first + (i - e.first + 1) - 1 = i
        BY <1>1, <1>2, <3>1, <3>4
      <3>9. ByteAt(c.entries, i) = i
        BY <3>3, <3>5, <3>7, <3>8
      <3> QED BY <3>9 DEF i
    <2> QED BY <2>1 DEF Run
  <1>5. StreamIs(N, w.output, gap) /\ SameRoom(w.output, output)
    <2>1. gap \in waiting_index..N /\ gap <= output.bytes_popped + output.capacity
      BY <1>1, <1>2
    <2>2. /\ StreamIs(N, Push(output, Run(waiting_index, gap)), gap)
          /\ SameRoom(Push(output, Run(waiting_index, gap)), output)
      BY <2>1, Pushing, Zenon
    <2> QED BY <1>3, <1>4, <2>2
  <1>6. ASSUME NEW e \in behind PROVE IsEntry(e, gap + 1, Top(N))
    BY <1>1, <1>2 DEF IsEntry
  <1>7. Apart(behind)
    BY DEF Apart
  <1>8. ASSUME NEW i \in Int, NEW e \in c.entries, Holds(e, i) PROVE i < gap \/ Covered(behind, i)
    <2>1. CASE gap < e.first
      BY <1>8, <2>1 DEF Covered
    <2>2. CASE ~(gap < e.first)
      <3>1. e.first \in Int /\ e.end \in Int
        BY DEF IsEntry
      <3>2. ~Holds(e, gap)
        BY <1>2 DEF Covered
      <3> QED BY <1>1, <1>2, <1>8, <2>2, <3>1, <3>2 DEF Holds
    <2> QED BY <2>1, <2>2
  <1>9. \A i \in Int : Covered(c.entries, i) => i < gap \/ Covered(behind, i)
    BY <1>8 DEF Covered
  <1>10. IsFiniteSet(behind) /\ w.size = Bytes(behind)
    <2>1. IsFiniteSet(behind)
      BY FS_Subset, behind \subseteq c.entries
    <2>2. PICK S, T, U : /\ S = c.entries /\ T = c.entries \ behind /\ U = behind
                         /\ T \subseteq S /\ U = S \ T
      <3>1. behind = c.entries \ (c.entries \ behind)
        OBVIOUS
      <3> HIDE DEF behind
      <3> QED BY <3>1
    <2>3. waiting_index \in Int /\ Top(N) \in Int /\ waiting_index <= Top(N)
      BY <1>1, Window
    <2>4. Packed(S, waiting_index, Top(N))
      BY <2>2 DEF Packed
    <2>5. AddUp(S, T, U)
      BY <2>2, <2>3, <2>4, BytesSplit, Zenon
    <2>6. c.size = Bytes(S) /\ w.size = c.size - Bytes(T)
      <3> HIDE DEF behind
      <3> QED BY <1>3, <2>2, Zenon
    <2>7. w.size = Bytes(U)
      BY <2>5, <2>6 DEF AddUp
    <2> QED BY <2>1, <2>2, <2>7
  <1> QED BY <1>2, <1>3, <1>5, <1>6, <1>7, <1>9, <1>10

\* What the filter lets through is the part of the substring in the window.
LEMMA InWindowOf ==
  ASSUME NEW N, N \in Nat, StreamIs(N, output, waiting_index),
         NEW first \in Nat, NEW z \in first..N, ~Outside(Block(first, z))
  PROVE  \E a \in waiting_index..Top(N) : \E b \in a..Top(N) :
           /\ InWindow(Block(first, z)) = Block(a, b)
           /\ \A i \in first..(z - 1) : i < tail_index => i < waiting_index \/ (a <= i /\ i < b)
  <1> DEFINE e == Block(first, z)
  <1>1. e.first = first /\ e.end = z /\ e.data = Run(first, z)
    BY BlockParts
  <1>2. /\ waiting_index \in Nat /\ tail_index = Edge /\ Edge \in Nat /\ Top(N) \in Nat
        /\ waiting_index <= Top(N) /\ Top(N) <= N /\ Top(N) <= Edge
        /\ Top(N) = (IF Edge < N THEN Edge ELSE N)
    BY Window DEF Top
  <1> HIDE DEF e
  <1>3. first < tail_index /\ (waiting_index < z \/ waiting_index <= first)
    <2>1. ~(tail_index <= e.first)
      BY DEF Outside, e
    <2>2. CASE e.data = <<>>
      <3>1. Len(Run(first, z)) = z - first
        BY RunIsSeq
      <3>2. first = z
        BY <1>1, <2>2, <3>1
      <3>3. ~(e.end < waiting_index)
        BY <2>2 DEF Outside, e
      <3> QED BY <1>1, <1>2, <2>1, <3>2, <3>3
    <2>3. CASE e.data # <<>>
      <3>1. ~(e.end <= waiting_index)
        BY <2>3 DEF Outside, e
      <3> QED BY <1>1, <1>2, <2>1, <3>1
    <2> QED BY <2>2, <2>3
  <1>4. PICK a \in Nat : /\ CutLeft(e) = Block(a, z) /\ waiting_index <= a /\ a <= z
                         /\ a < tail_index \/ a = waiting_index
                         /\ a = first \/ a = waiting_index
    <2>1. CASE first < waiting_index
      <3>1. waiting_index \in first..z
        BY <1>2, <1>3, <2>1
      <3>2. Drop(Run(first, z), waiting_index - first) = Run(waiting_index, z)
        BY <3>1, DropOfRun
      <3>3. waiting_index <= z
        BY <3>1
      <3>4. CutLeft(e) = Entry(waiting_index, Run(waiting_index, z))
        BY <1>1, <2>1, <3>2 DEF CutLeft
      <3>5. CutLeft(e) = Block(waiting_index, z)
        BY <1>2, <3>3, <3>4, EntryOfRun
      <3> QED BY <1>2, <3>3, <3>5
    <2>2. CASE ~(first < waiting_index)
      <3>1. CutLeft(e) = Block(first, z)
        BY <1>1, <2>2 DEF CutLeft, e
      <3> QED BY <1>2, <1>3, <2>2, <3>1
    <2> QED BY <2>1, <2>2
  <1>5. CASE tail_index < z
    <2>1. tail_index \in a..z
      BY <1>2, <1>4, <1>5
    <2>2. SubSeq(Run(a, z), 1, tail_index - a) = Run(a, tail_index)
      BY <2>1, PrefixOfRun
    <2>3. CutRight(Block(a, z)) = Entry(a, Run(a, tail_index))
      BY <1>5, <2>2, BlockParts DEF CutRight
    <2>4. a <= tail_index /\ tail_index \in Int
      BY <1>2, <2>1
    <2>5. InWindow(e) = Block(a, tail_index)
      BY <1>4, <2>3, <2>4, EntryOfRun DEF InWindow
    <2>6. tail_index = Top(N)
      BY <1>2, <1>5
    <2>7. a \in waiting_index..Top(N) /\ tail_index \in a..Top(N)
      BY <1>2, <1>4, <2>4, <2>6
    <2>8. \A i \in first..(z - 1) : i < tail_index => i < waiting_index \/ (a <= i /\ i < tail_index)
      BY <1>2, <1>4
    <2> QED BY <2>5, <2>7, <2>8 DEF e
  <1>6. CASE ~(tail_index < z)
    <2>1. CutRight(Block(a, z)) = Block(a, z)
      BY <1>6, BlockParts DEF CutRight
    <2>2. InWindow(e) = Block(a, z)
      BY <1>4, <2>1 DEF InWindow
    <2>3. z <= Top(N)
      BY <1>2, <1>6
    <2>4. a \in waiting_index..Top(N) /\ z \in a..Top(N)
      BY <1>2, <1>4, <2>3
    <2>5. \A i \in first..(z - 1) : i < tail_index => i < waiting_index \/ (a <= i /\ i < z)
      BY <1>2, <1>4
    <2> QED BY <2>2, <2>4, <2>5 DEF e
  <1> QED BY <1>5, <1>6

\* insert keeps the invariant, for a substring of the stream whose last one is marked.
LEMMA Inserts ==
  ASSUME NEW N, N \in Nat, RInv(N),
         NEW first \in 0..N, NEW z \in first..N, NEW last \in BOOLEAN, last => z = N,
         Insert(first, Run(first, z), last)
  PROVE  RInv(N)' /\ SameRoom(output', output) /\ waiting_index <= waiting_index'
  <1> DEFINE e == Block(first, z)
             end == EOF_end_index'
  <1>1. e.first = first /\ e.end = z /\ e.data = Run(first, z)
    BY BlockParts
  <1>2. Entry(first, Run(first, z)) = e
    BY EntryOfRun
  <1>3. /\ waiting_index \in Nat /\ tail_index = Edge /\ Edge \in Nat /\ Top(N) \in Nat
        /\ waiting_index <= Top(N) /\ Top(N) <= N /\ Top(N) <= Edge
    BY Window DEF RInv
  <1> HIDE DEF e
  <1>4. end = End(e, last) /\ end \in {NoEOF, N}
    BY <1>1, <1>2 DEF Insert, End, RInv
  <1>5. CutAtEnd(e, end) = e
    <2>1. ~(end # NoEOF /\ end < e.end)
      BY <1>1, <1>4
    <2> QED BY <2>1 DEF CutAtEnd
  <1>6. known' = known \cup {i \in first..(z - 1) : i < tail_index}
    BY <1>1, <1>2 DEF Insert
  <1>7. known' \subseteq 0..(N - 1)
    <2>1. \A i \in first..(z - 1) : i \in 0..(N - 1)
      OBVIOUS
    <2>2. known \subseteq 0..(N - 1)
      BY DEF RInv, KnownInv
    <2> QED BY <1>6, <2>1, <2>2
  <1>8. ASSUME UNCHANGED <<waiting_index, cache, size>>,
               StreamIs(N, output', waiting_index), SameRoom(output', output),
               \A i \in first..(z - 1) : i < tail_index => i < waiting_index \/ Covered(cache, i)
        PROVE  RInv(N)' /\ SameRoom(output', output) /\ waiting_index <= waiting_index'
    <2>1. Top(N)' = Top(N)
      BY <1>8 DEF Top, Edge, SameRoom
    <2>2. CacheInv(N)'
      BY <1>8, <2>1 DEF RInv, CacheInv, IsEntry, Apart
    <2>3. \A i \in known' : i < waiting_index \/ Covered(cache, i)
      BY <1>6, <1>8 DEF RInv, KnownInv
    <2>4. KnownInv(N)'
      BY <1>7, <1>8, <2>3 DEF KnownInv, Covered
    <2>5. StreamIs(N, output, waiting_index)'
      BY <1>8 DEF StreamIs
    <2>6. CountInv'
      BY <1>8 DEF RInv, CountInv
    <2> QED BY <1>3, <1>4, <1>8, <2>2, <2>4, <2>5, <2>6 DEF RInv
  <1>9. CASE AtEnd(e, end)
    <2>1. output' = Close(output) /\ UNCHANGED <<waiting_index, cache, size>>
      BY <1>2, <1>4, <1>9 DEF Insert
    <2>2. StreamIs(N, output', waiting_index) /\ SameRoom(output', output)
      BY <2>1, Closing DEF RInv
    <2>3. first = z
      <3>1. Len(Run(first, z)) = z - first
        BY RunIsSeq
      <3>2. Run(first, z) = <<>>
        BY <1>1, <1>9 DEF AtEnd
      <3> QED BY <3>1, <3>2
    <2> QED BY <1>8, <2>1, <2>2, <2>3
  <1>10. CASE ~AtEnd(e, end)
    <2> DEFINE new == InWindow(e)
               Ignored == BeyondEnd(e, end) \/ Outside(e) \/ Contained(new)
    <2>1. IF Ignored
          THEN UNCHANGED <<output, waiting_index, cache, size>>
          ELSE \E c \in {cache_in(new)} : \E w \in {write(c)} :
                 /\ output' = Closed(w, end)
                 /\ waiting_index' = w.waiting
                 /\ cache' = w.entries
                 /\ size' = w.size
      BY <1>2, <1>4, <1>5, <1>10 DEF Insert
    <2> HIDE DEF new
    <2>2. ASSUME ~Outside(e)
          PROVE  \E a \in waiting_index..Top(N) : \E b \in a..Top(N) :
                   /\ new = Block(a, b)
                   /\ \A i \in first..(z - 1) : i < tail_index => i < waiting_index \/ (a <= i /\ i < b)
      <3>1. first \in Nat
        OBVIOUS
      <3> QED BY <2>2, <3>1, InWindowOf DEF RInv, e, new
    <2>3. CASE Ignored
      <3>1. UNCHANGED <<output, waiting_index, cache, size>>
        BY <2>1, <2>3
      <3>2. StreamIs(N, output', waiting_index) /\ SameRoom(output', output)
        BY <3>1 DEF RInv, SameRoom
      <3>3. ASSUME NEW i \in first..(z - 1), i < tail_index PROVE i < waiting_index \/ Covered(cache, i)
        <4>1. CASE BeyondEnd(e, end)
          BY <1>1, <1>4, <4>1 DEF BeyondEnd
        <4>2. CASE Outside(e)
          <5>1. e.end <= waiting_index
            BY <1>1, <1>3, <3>3, <4>2 DEF Outside
          <5> QED BY <1>1, <1>3, <5>1
        <4>3. CASE ~Outside(e) /\ Contained(new)
          <5>1. PICK a \in waiting_index..Top(N), b \in waiting_index..Top(N) :
                  /\ new = Block(a, b)
                  /\ i < waiting_index \/ (a <= i /\ i < b)
            BY <1>3, <2>2, <3>3, <4>3
          <5>2. PICK f \in cache : f.first <= a /\ b <= f.end
            BY <4>3, <5>1, BlockParts DEF Contained, Within
          <5>3. f.first \in Int /\ f.end \in Int
            BY DEF RInv, CacheInv, IsEntry
          <5>4. a <= i /\ i < b => Holds(f, i)
            BY <1>3, <5>2, <5>3 DEF Holds
          <5> QED BY <5>1, <5>4 DEF Covered
        <4> QED BY <2>3, <4>1, <4>2, <4>3
      <3> QED BY <1>8, <3>1, <3>2, <3>3
    <2>4. CASE ~Ignored
      <3>1. PICK c, w : /\ c = cache_in(new) /\ w = write(c)
                        /\ output' = Closed(w, end) /\ waiting_index' = w.waiting
                        /\ cache' = w.entries /\ size' = w.size
        BY <2>1, <2>4
      <3>2. PICK a \in waiting_index..Top(N) : \E b \in a..Top(N) :
              /\ new = Block(a, b)
              /\ \A i \in first..(z - 1) : i < tail_index => i < waiting_index \/ (a <= i /\ i < b)
        BY <2>2, <2>4
      <3>3. PICK b \in a..Top(N) :
              /\ new = Block(a, b)
              /\ \A i \in first..(z - 1) : i < tail_index => i < waiting_index \/ (a <= i /\ i < b)
        BY <3>2
      <3>4. /\ \A f \in cache : IsEntry(f, waiting_index, Top(N))
            /\ Apart(cache) /\ ~Contained(Block(a, b))
            /\ IsFiniteSet(cache) /\ size = Bytes(cache)
        BY <1>3, <2>4, <3>3 DEF RInv, CacheInv, IsEntry, CountInv
      <3>5. c = cache_in(Block(a, b))
        BY <3>1, <3>3
      <3>6. /\ \A f \in c.entries : IsEntry(f, waiting_index, Top(N))
            /\ Apart(c.entries)
            /\ \A i \in Int : Covered(cache, i) \/ (a <= i /\ i < b) => Covered(c.entries, i)
            /\ IsFiniteSet(c.entries) /\ c.size = Bytes(c.entries)
        <4>1. waiting_index \in Int /\ Top(N) \in Int
          BY <1>3
        <4> QED BY <3>4, <3>5, <4>1, CacheIn
      <3>7. /\ StreamIs(N, w.output, w.waiting) /\ SameRoom(w.output, output)
            /\ w.waiting \in waiting_index..Top(N)
            /\ \A f \in w.entries : IsEntry(f, w.waiting + 1, Top(N))
            /\ Apart(w.entries)
            /\ \A i \in Int : Covered(c.entries, i) => i < w.waiting \/ Covered(w.entries, i)
            /\ IsFiniteSet(w.entries) /\ w.size = Bytes(w.entries)
        BY <3>1, <3>6, WriteOf DEF RInv
      <3>8. StreamIs(N, output', w.waiting) /\ SameRoom(output', output)
        BY <3>1, <3>7, Closing DEF Closed, SameRoom
      <3>9. StreamIs(N, output, waiting_index)'
        BY <3>1, <3>8 DEF StreamIs
      <3>10. Top(N)' = Top(N)
        BY <3>8 DEF Top, Edge, SameRoom
      <3>11. CacheInv(N)'
        BY <3>1, <3>7, <3>10 DEF CacheInv, IsEntry, Apart
      <3>12. ASSUME NEW i \in known' PROVE i < w.waiting \/ Covered(w.entries, i)
        <4>1. i \in Int
          BY <1>7, <3>12
        <4>2. i < waiting_index \/ Covered(cache, i) \/ (a <= i /\ i < b)
          BY <1>6, <3>3, <3>12 DEF RInv, KnownInv
        <4>3. CASE i < waiting_index
          BY <1>3, <3>7, <4>1, <4>3
        <4>4. CASE Covered(cache, i) \/ (a <= i /\ i < b)
          BY <3>6, <3>7, <4>1, <4>4
        <4> QED BY <4>2, <4>3, <4>4
      <3>13. KnownInv(N)'
        BY <1>7, <3>1, <3>12 DEF KnownInv, Covered
      <3>14. CountInv'
        BY <3>1, <3>7 DEF CountInv
      <3>15. waiting_index <= waiting_index'
        BY <1>3, <3>1, <3>7
      <3> QED BY <1>4, <3>8, <3>9, <3>11, <3>13, <3>14, <3>15 DEF RInv
    <2> QED BY <2>3, <2>4
  <1> QED BY <1>9, <1>10

-----------------------------------------------------------------------------
(* The receiver                                                            *)

ConnectionInv ==
  /\ isn \in Raw /\ zero_point \in Raw
  /\ SYN \in {0, 1} /\ FIN \in {0, 1} /\ need_FIN \in 0..MaxFIN
  /\ SYN = 1 => zero_point = isn
  /\ checkpoint = waiting_index

IInv(N) == RInv(N) /\ ConnectionInv

LEMMA InitInv ==
  ASSUME ReceiverAssumption, NEW N, N \in Nat, Init
  PROVE  IInv(N)
  <1>1. Capacities \subseteq Nat \ {0} /\ ISN \subseteq Raw /\ MaxFIN \in Nat /\ HalfAssumption
    BY DEF ReceiverAssumption, ReassemblerAssumption
  <1>2. PICK c \in Capacities : output = NewStream(c)
    BY DEF Init, RInit
  <1>3. StreamIs(N, output, 0)
    BY <1>1, <1>2, NewStreams
  <1>4. waiting_index = 0 /\ EOF_end_index = NoEOF /\ cache = {} /\ known = {} /\ size = 0
    BY DEF Init, RInit
  <1>5. CountInv
    <2>1. PICK S : S = {} /\ IsFiniteSet(S) /\ Cardinality(S) = 0
      BY FS_EmptySet
    <2>2. (\A e \in S : IsEntry(e, 0, 0)) /\ Apart(S)
      BY <2>1 DEF Apart
    <2>3. 0 \in Int /\ 0 <= 0
      OBVIOUS
    <2>4. Bytes(S) = Cardinality(Area(S))
      BY <2>1, <2>2, <2>3, BytesAre, Zenon
    <2>5. Area(S) = S
      BY <2>1 DEF Area, Covered
    <2> QED BY <1>4, <2>1, <2>4, <2>5 DEF CountInv
  <1>6. RInv(N)
    BY <1>1, <1>3, <1>4, <1>5 DEF RInv, CacheInv, KnownInv, Apart
  <1>7. zero_point \in Raw
    <2>1. 100 \in Int /\ Cycle \in Nat \ {0} /\ zero_point = 100 % Cycle
      BY <1>1, CycleType DEF Init
    <2> QED BY <2>1, ModRange DEF Raw
  <1>8. ConnectionInv
    BY <1>1, <1>4, <1>7 DEF Init, ConnectionInv
  <1> QED BY <1>6, <1>8 DEF IInv

\* Segment m carries the bytes first to z - 1 of a stream of N bytes, with the SYN in front
\* of the first or the FIN behind the last or without; and the receiver finds its number.
NumberOf(m, first) == IF m.SYN THEN 0 ELSE first + 1
Carries(m, N, first, z) ==
  /\ m.SYN \in BOOLEAN /\ m.FIN \in BOOLEAN
  /\ m.SYN => first = 0
  /\ m.FIN => z = N
  /\ m.seqno = Wrap(NumberOf(m, first), isn)
  /\ m.payload = Run(first, z)
Found(number) == Unwrap(Wrap(number, isn), isn, checkpoint) = number

\* What the receiver computes from a segment's number is where its payload belongs.
LEMMA IndexOf ==
  ASSUME HalfAssumption, NEW N, N \in Nat, IInv(N),
         NEW m, NEW first \in 0..N, NEW z \in first..N, Carries(m, N, first, z),
         Found(NumberOf(m, first)), m.SYN \/ SYN = 1,
         NEW zero, zero = (IF SYN = 0 THEN m.seqno ELSE zero_point)
  PROVE  zero = isn /\ Index(m, zero) = first
  <1>1. m.seqno = Wrap(NumberOf(m, first), isn) /\ m.SYN \in BOOLEAN /\ (m.SYN => first = 0)
    BY DEF Carries
  <1>2. isn \in Raw /\ SYN \in {0, 1}
    BY DEF IInv, ConnectionInv
  <1>3. Cycle \in Nat \ {0} /\ isn \in 0..(Cycle - 1)
    BY <1>2, CycleType DEF Raw
  <1>4. zero = isn
    <2>1. CASE SYN = 1
      BY <2>1 DEF IInv, ConnectionInv
    <2>2. CASE SYN = 0
      <3>1. NumberOf(m, first) = 0
        BY <2>2 DEF NumberOf
      <3>2. (0 + isn) % Cycle = isn
        BY <1>3, SMTT(10)
      <3> QED BY <1>1, <2>2, <3>1, <3>2 DEF Wrap
    <2> QED BY <1>2, <2>1, <2>2
  <1>5. Index(m, zero) = NumberOf(m, first) - (IF m.SYN THEN 0 ELSE 1)
    BY <1>1, <1>4 DEF Index, Found
  <1> QED BY <1>1, <1>4, <1>5 DEF NumberOf

LEMMA ReceiveInv ==
  ASSUME ReceiverAssumption, NEW N, N \in Nat, IInv(N),
         NEW m, NEW first \in 0..N, NEW z \in first..N, Carries(m, N, first, z),
         Found(NumberOf(m, first)), Receive(m)
  PROVE  /\ IInv(N)'
         /\ SameRoom(output', output) /\ isn' = isn
         /\ waiting_index <= waiting_index' /\ SYN <= SYN' /\ FIN <= FIN'
  <1>1. HalfAssumption /\ MaxFIN \in Nat
    BY DEF ReceiverAssumption
  <1>2. m.SYN \in BOOLEAN /\ m.FIN \in BOOLEAN /\ (m.FIN => z = N) /\ m.payload = Run(first, z)
    BY DEF Carries
  <1>3. /\ SYN \in {0, 1} /\ FIN \in {0, 1} /\ need_FIN \in 0..MaxFIN
        /\ checkpoint = waiting_index /\ isn \in Raw
    BY DEF IInv, ConnectionInv
  <1>4. waiting_index \in Nat
    BY Window DEF IInv, RInv
  <1>5. CASE Unexpected(m)
    <2>1. output' = SetError(output) /\ UNCHANGED <<waiting_index, EOF_end_index, cache, size, known, tvars>>
      BY <1>5 DEF Unexpected
    <2>2. StreamIs(N, output', waiting_index) /\ SameRoom(output', output)
      BY <2>1, Failing DEF IInv, RInv
    <2>3. Top(N)' = Top(N)
      BY <2>2 DEF Top, Edge, SameRoom
    <2>4. StreamIs(N, output, waiting_index)'
      BY <2>1, <2>2 DEF StreamIs
    <2>5. CacheInv(N)'
      BY <2>1, <2>3 DEF IInv, RInv, CacheInv, IsEntry, Apart
    <2>6. KnownInv(N)'
      BY <2>1 DEF IInv, RInv, KnownInv, Covered
    <2>7. ConnectionInv'
      BY <2>1 DEF IInv, ConnectionInv, tvars
    <2>8. EOF_end_index' \in {NoEOF, N}
      BY <2>1 DEF IInv, RInv
    <2>9. CountInv'
      BY <2>1 DEF IInv, RInv, CountInv
    <2>10. IInv(N)'
      BY <2>4, <2>5, <2>6, <2>7, <2>8, <2>9 DEF IInv, RInv
    <2>11. waiting_index <= waiting_index' /\ SYN <= SYN' /\ FIN <= FIN' /\ isn' = isn
      BY <1>3, <1>4, <2>1 DEF tvars
    <2> QED BY <2>2, <2>10, <2>11
  <1>6. CASE Accepted(m)
    <2>1. /\ m.SYN \/ SYN = 1
          /\ SYN' = 1
          /\ zero_point' = (IF SYN = 0 THEN m.seqno ELSE zero_point)
          /\ Insert(Index(m, zero_point'), m.payload, m.FIN)
          /\ checkpoint' = checkpoint + output'.bytes_pushed - output.bytes_pushed
          /\ isn' = isn
          /\ Finish(need_FIN + (IF m.FIN THEN 1 ELSE 0))
      BY <1>6 DEF Accepted
    <2>2. zero_point' = isn /\ Index(m, zero_point') = first
      BY <1>1, <2>1, IndexOf
    <2>3. Insert(first, Run(first, z), m.FIN)
      BY <1>2, <2>1, <2>2
    <2>4. /\ RInv(N)' /\ SameRoom(output', output) /\ waiting_index <= waiting_index'
      BY <1>2, <2>3, Inserts DEF IInv
    <2>5. checkpoint' = waiting_index'
      <3>1. output.bytes_pushed = waiting_index /\ waiting_index \in 0..N /\ checkpoint = waiting_index
        BY DEF IInv, RInv, StreamIs, ConnectionInv
      <3>2. output'.bytes_pushed = waiting_index' /\ waiting_index' \in 0..N
        BY <2>4 DEF RInv, StreamIs
      <3>3. checkpoint' = waiting_index + waiting_index' - waiting_index
        BY <2>1, <3>1, <3>2
      <3>4. waiting_index \in Int /\ waiting_index' \in Int
        BY <3>1, <3>2
      <3>5. \A x, y \in Int : x + y - x = y
        OBVIOUS
      <3> QED BY <3>3, <3>4, <3>5, Zenon
    <2>6. FIN' \in {0, 1} /\ FIN <= FIN' /\ need_FIN' \in 0..MaxFIN
      <3>1. m.FIN => need_FIN < MaxFIN
        BY DEF Receive
      <3> QED BY <1>1, <1>2, <1>3, <2>1, <3>1 DEF Finish
    <2>7. ConnectionInv'
      BY <1>3, <2>1, <2>2, <2>5, <2>6 DEF ConnectionInv
    <2>8. IInv(N)' /\ SYN <= SYN'
      BY <1>3, <2>1, <2>4, <2>7 DEF IInv
    <2> QED BY <2>1, <2>4, <2>6, <2>8
  <1> QED BY <1>5, <1>6 DEF Receive

\* Any peer whose segments are near the checkpoint.
LEMMA ArriveInv ==
  ASSUME ReceiverAssumption, NEW N, N \in Nat, N = Length, IInv(N), Arrive
  PROVE  IInv(N)' /\ SameRoom(output', output) /\ waiting_index <= waiting_index'
  <1>1. HalfAssumption
    BY DEF ReceiverAssumption
  <1>2. PICK first \in 0..N : \E n \in 0..(N - first) : \E syn, fin \in BOOLEAN :
          /\ syn => first = 0
          /\ Near(IF syn THEN 0 ELSE first + 1)
          /\ fin => first + n = N
          /\ Receive(Segment(first, n, syn, fin))
    BY DEF Arrive
  <1>3. PICK n \in 0..(N - first), syn \in BOOLEAN, fin \in BOOLEAN :
          /\ syn => first = 0
          /\ Near(IF syn THEN 0 ELSE first + 1)
          /\ fin => first + n = N
          /\ Receive(Segment(first, n, syn, fin))
    BY <1>2
  <1>4. PICK m : m = Segment(first, n, syn, fin)
    OBVIOUS
  <1>5. PICK z \in first..N : z = first + n
    OBVIOUS
  <1>6. Carries(m, N, first, z) /\ NumberOf(m, first) = (IF syn THEN 0 ELSE first + 1)
    <2>1. z - first = n
      BY <1>5
    <2>2. /\ m.SYN = syn /\ m.FIN = fin /\ m.payload = Run(first, z)
          /\ m.seqno = Wrap(IF syn THEN 0 ELSE first + 1, isn)
      BY <1>4, <2>1 DEF Segment, Run
    <2> QED BY <1>3, <1>5, <2>2 DEF Carries, NumberOf
  <1>7. Found(NumberOf(m, first))
    <2>1. PICK number \in Nat : number = NumberOf(m, first)
      BY <1>6
    <2>2. isn \in Raw /\ checkpoint \in Nat
      BY Window DEF IInv, ConnectionInv, RInv
    <2>3. Half \in Nat
      BY <1>1, CycleType
    <2>4. Distance(number, checkpoint) < Half
      BY <1>3, <1>6, <2>1, <2>2, <2>3 DEF Near, Distance
    <2>5. Unwrap(Wrap(number, isn), isn, checkpoint) = number
      BY <1>1, <2>1, <2>2, <2>4, UnwrapInverts, Zenon
    <2> QED BY <2>1, <2>5 DEF Found
  <1>8. Receive(m)
    BY <1>3, <1>4
  <1> QED BY <1>6, <1>7, <1>8, ReceiveInv

LEMMA ReadInv ==
  ASSUME NEW N, N \in Nat, IInv(N), Application
  PROVE  /\ IInv(N)' /\ UNCHANGED <<waiting_index, tvars>>
         /\ output'.capacity = output.capacity
  <1>2. PICK len \in 1..output.capacity : Read(len) /\ UNCHANGED tvars
    BY DEF Application
  <1>3. /\ output' = Pop(output, len) /\ len <= Len(output.buffer)
        /\ UNCHANGED <<waiting_index, EOF_end_index, cache, size, known, tvars>>
    <2>1. Len(output.buffer) \in Int /\ output.capacity \in Int
      BY BufferLength DEF IInv, RInv
    <2> QED BY <1>2, <2>1 DEF Read
  <1>4. /\ StreamIs(N, output', waiting_index)
        /\ output'.capacity = output.capacity
        /\ output'.bytes_popped = output.bytes_popped + len
    <2>1. len \in Nat
      BY BufferLength DEF IInv, RInv
    <2> QED BY <1>3, <2>1, Popping DEF IInv, RInv
  <1>5. Top(N) \in Int /\ Top(N)' \in Int /\ Top(N) <= Top(N)'
    <2>1. output.bytes_popped \in Nat /\ output.capacity \in Nat
      BY BufferLength DEF IInv, RInv
    <2> QED BY <1>4, <2>1 DEF Top, Edge
  <1>6. StreamIs(N, output, waiting_index)'
    BY <1>3, <1>4 DEF StreamIs
  <1>7. CacheInv(N)'
    <2>1. ASSUME NEW e \in cache PROVE IsEntry(e, waiting_index + 1, Top(N)')
      <3>1. IsEntry(e, waiting_index + 1, Top(N))
        BY DEF IInv, RInv, CacheInv
      <3> QED BY <1>5, <3>1 DEF IsEntry
    <2> QED BY <1>3, <2>1 DEF IInv, RInv, CacheInv, IsEntry, Apart
  <1>8. KnownInv(N)'
    BY <1>3 DEF IInv, RInv, KnownInv, Covered
  <1>9. ConnectionInv'
    BY <1>3 DEF IInv, ConnectionInv, tvars
  <1>10. EOF_end_index' \in {NoEOF, N}
    BY <1>3 DEF IInv, RInv
  <1>11. CountInv'
    BY <1>3 DEF IInv, RInv, CountInv
  <1> QED BY <1>3, <1>4, <1>6, <1>7, <1>8, <1>9, <1>10, <1>11 DEF IInv, RInv

LEMMA SameInv == ASSUME NEW N, IInv(N), UNCHANGED vars PROVE IInv(N)'
  BY DEF IInv, RInv, ConnectionInv, StreamIs, CacheInv, KnownInv, IsEntry, Apart, Covered,
         CountInv, Top, Edge, vars, rvars, tvars

\* What the invariant says of the stream and of the cache.
LEMMA PlaceOf == ASSUME NEW N, N \in Nat, IInv(N) PROVE InPlace
  <1> DEFINE q == output.bytes_popped
  <1>1. q \in Nat /\ waiting_index \in Int /\ Len(output.buffer) = waiting_index - q
    BY BufferLength DEF IInv, RInv
  <1>2. waiting_index = output.bytes_pushed /\ output.buffer = Run(q, waiting_index)
    BY DEF IInv, RInv, StreamIs
  <1>3. \A k \in DOMAIN output.buffer : output.buffer[k] = q + k - 1
    BY <1>2 DEF Run
  <1> QED BY <1>1, <1>2, <1>3 DEF InPlace

LEMMA CacheOf == ASSUME NEW N, N \in Nat, IInv(N) PROVE CacheSound
  <1>1. /\ waiting_index \in Nat /\ Top(N) \in Nat /\ Top(N) <= Edge /\ Edge \in Nat
    BY Window DEF IInv, RInv
  <1>2. ASSUME NEW e \in cache
        PROVE  /\ waiting_index < e.first
               /\ e.end <= output.bytes_popped + output.capacity
               /\ e.data = [k \in 1..(e.end - e.first) |-> e.first + k - 1]
    <2>1. IsEntry(e, waiting_index + 1, Top(N))
      BY DEF IInv, RInv, CacheInv
    <2>2. waiting_index < e.first /\ e.end <= Edge
      BY <1>1, <2>1 DEF IsEntry
    <2>3. e.data = Run(e.first, e.end)
      BY <2>1, BlockParts DEF IsEntry
    <2> QED BY <2>2, <2>3 DEF Edge, Run
  <1> QED BY <1>2 DEF IInv, RInv, CacheInv, CountInv, Apart, CacheSound

LEMMA KeptOf == ASSUME NEW N, IInv(N) PROVE NothingLost
  BY DEF IInv, RInv, KnownInv, Covered, Holds, NothingLost

\* The cache holds fewer bytes than the stream has.
LEMMA TypeOf == ASSUME NEW N, N \in Nat, N <= Length, Length \in Nat, IInv(N) PROVE TypeOK
  <1>1. /\ waiting_index \in Nat /\ Top(N) \in Nat /\ waiting_index <= Top(N) /\ Top(N) <= N
    BY Window DEF IInv, RInv
  <1>2. output.bytes_popped \in Nat /\ output.bytes_popped <= waiting_index
    BY BufferLength DEF IInv, RInv, StreamIs
  <1>3. /\ \A e \in cache : IsEntry(e, waiting_index + 1, Top(N))
        /\ Apart(cache) /\ IsFiniteSet(cache) /\ size = Bytes(cache)
    BY DEF IInv, RInv, CacheInv, CountInv
  <1>4. size \in 0..Length
    <2>1. PICK low : low = waiting_index
      OBVIOUS
    <2>2. PICK high : high = Top(N)
      OBVIOUS
    <2>3. low \in Int /\ high \in Int /\ low <= high
      BY <1>1, <2>1, <2>2
    <2>4. Packed(cache, low, high)
      BY <1>1, <1>3, <2>1, <2>2 DEF IsEntry, Packed
    <2>5. PICK T, U : T = cache /\ T \subseteq cache /\ U = cache \ T
      OBVIOUS
    <2>6. Bytes(cache) \in Nat /\ Bytes(cache) <= high - low
      BY <2>3, <2>4, <2>5, BytesSplit DEF AddUp
    <2> QED BY <1>1, <1>3, <2>1, <2>2, <2>6
  <1>5. ASSUME NEW e \in cache PROVE e.first \in 0..Length /\ e.end \in e.first..Length
    BY <1>1, <1>3 DEF IsEntry
  <1>6. known \subseteq 0..(Length - 1)
    BY DEF IInv, RInv, KnownInv
  <1>7. EOF_end_index \in {NoEOF} \cup 0..Length
    BY DEF IInv, RInv
  <1> QED BY <1>1, <1>2, <1>4, <1>5, <1>6, <1>7 DEF IInv, ConnectionInv, TypeOK

-----------------------------------------------------------------------------
(* The sender and the network                                              *)

\* The SYN has number 0, byte i has i + 1 and the FIN the last one. Before counts the bytes
\* in front of number n, and a segment has the numbers a to b - 1.
Before(N, n) == IF n = 0 THEN 0 ELSE IF n = N + 2 THEN N ELSE n - 1

IsSegment(m, N, a, b) ==
  /\ a \in Nat /\ b \in Nat /\ a < b /\ b <= N + 2
  /\ m.seqno = Wrap(a, isn)
  /\ m.SYN \in BOOLEAN /\ (m.SYN <=> a = 0)
  /\ m.FIN \in BOOLEAN /\ (m.FIN <=> b = N + 2)
  /\ m.payload = Run(Before(N, a), Before(N, b))

Messages == [seqno : Raw, SYN : BOOLEAN, payload : Seq(Int), FIN : BOOLEAN, RST : BOOLEAN]

\* The mode of an open window.
SimpleMode ==
  /\ zero_window_probe = FALSE /\ probing = FALSE /\ probe_msg = <<>> /\ undefined \in BOOLEAN
  /\ RWSize \in Nat

\* What is numbered is what has been taken from input_.
InputInv(N) ==
  /\ StreamIs(N, input, input.bytes_pushed) /\ input.capacity = N
  /\ input.close => input.bytes_pushed = N
  /\ is_SYNed \in BOOLEAN /\ is_FINed \in BOOLEAN
  /\ ~is_SYNed => input.bytes_popped = 0 /\ ~is_FINed
  /\ is_FINed => input.bytes_popped = N
  /\ next_seq = (IF is_SYNed THEN 1 ELSE 0) + input.bytes_popped + (IF is_FINed THEN 1 ELSE 0)

\* The segments of window_ follow one another, from one that is not wholly acknowledged up
\* to next_seq_; at says where each begins.
Chain(at, N) ==
  /\ at \in [1..(Len(window) + 1) -> Nat]
  /\ at[Len(window) + 1] = next_seq
  /\ at[1] <= last_ackno
  /\ window # <<>> => last_ackno < at[2]
  /\ \A k \in 1..Len(window) : IsSegment(window[k], N, at[k], at[k + 1])

WindowInv(N) ==
  /\ window \in Seq(Messages)
  /\ last_ackno \in Nat /\ last_ackno <= next_seq /\ SeqFNum = next_seq - last_ackno
  /\ \E at \in [1..(Len(window) + 1) -> Nat] : Chain(at, N)

\* What is in flight is true: a segment of the stream, an ackno of what has come.
UpInv(N) == \A m \in up : m \in Messages /\ \E a, b \in 0..next_seq : IsSegment(m, N, a, b)
DownInv ==
  \A a \in down :
    /\ a.window_size \in Nat \ {0} /\ a.RST \in BOOLEAN
    /\ a.ackno = -1 \/ \E k \in 1..ackno : a.ackno = Wrap(k, isn)

SenderInv(N) ==
  SimpleMode /\ InputInv(N) /\ WindowInv(N) /\ UpInv(N) /\ DownInv /\ last_ackno <= ackno

\* The operators of Sender's instance are those of the receiver.
LEMMA SameNumbers ==
  ASSUME NEW n, NEW zero, NEW near
  PROVE  /\ Sender!Wrap(n, zero) = Wrap(n, zero)
         /\ Sender!Unwrap(n, zero, near) = Unwrap(n, zero, near)
  BY DEF Sender!Wrap, Wrap, Sender!Cycle, Cycle, Sender!Unwrap, Unwrap, Sender!LeftLow, LeftLow,
         Sender!CheckpointLow, CheckpointLow

LEMMA SameStreams ==
  ASSUME NEW s, NEW data, NEW n
  PROVE  /\ Sender!Pop(s, n) = Pop(s, n) /\ Sender!SetError(s) = SetError(s)
         /\ Sender!Fitting(s, data) = Fitting(s, data) /\ Sender!NewStream(n) = NewStream(n)
         /\ Sender!is_finished(s) = is_finished(s)
  BY DEF Sender!Pop, Pop, Sender!SetError, SetError, Sender!Fitting, Fitting, Sender!NewStream, NewStream,
         Sender!is_finished, is_finished, Sender!available_capacity, available_capacity

\* A stream of N bytes with its SYN and FIN is shorter than a cycle.
Fits(N) == N \in Nat /\ Half \in Nat /\ N + 1 <= Half /\ N + 2 < Cycle /\ Cycle = Half + Half

LEMMA InputsFit == ASSUME NEW N, N \in Inputs PROVE Fits(N) /\ N \in 0..Length /\ Length \in Nat
  <1>1. N \in 0..Length /\ Half > 1 /\ N < Half /\ HalfAssumption /\ Length \in Nat
    BY EndsAssumption DEF TransferAssumption, ReceiverAssumption, ReassemblerAssumption
  <1> QED BY <1>1, CycleType DEF Fits

LEMMA SegmentIs ==
  ASSUME NEW N, N \in Nat, NEW m, NEW a, NEW b, IsSegment(m, N, a, b)
  PROVE  /\ Before(N, a) \in 0..N /\ Before(N, b) \in Before(N, a)..N
         /\ Carries(m, N, Before(N, a), Before(N, b)) /\ NumberOf(m, Before(N, a)) = a
         /\ Len(m.payload) = Before(N, b) - Before(N, a)
  <1>1. a \in Nat /\ b \in Nat /\ a < b /\ b <= N + 2
    BY DEF IsSegment
  <1>2. Before(N, a) \in 0..N /\ Before(N, b) \in Before(N, a)..N
    BY <1>1 DEF Before
  <1>3. /\ m.SYN \in BOOLEAN /\ (m.SYN <=> a = 0) /\ m.FIN \in BOOLEAN /\ (m.FIN <=> b = N + 2)
        /\ m.payload = Run(Before(N, a), Before(N, b))
    BY DEF IsSegment
  <1>4. NumberOf(m, Before(N, a)) = a
    BY <1>1, <1>3 DEF NumberOf, Before
  <1>5. Carries(m, N, Before(N, a), Before(N, b))
    <2>1. m.seqno = Wrap(NumberOf(m, Before(N, a)), isn)
      BY <1>4 DEF IsSegment
    <2>2. m.SYN \in BOOLEAN /\ m.FIN \in BOOLEAN
      BY <1>3
    <2>3. (m.SYN => Before(N, a) = 0) /\ (m.FIN => Before(N, b) = N)
      BY <1>1, <1>3 DEF Before
    <2> QED BY <1>3, <2>1, <2>2, <2>3 DEF Carries
  <1>6. Len(m.payload) = Before(N, b) - Before(N, a)
    <2>1. /\ Before(N, a) \in Int /\ Before(N, b) \in Int /\ Before(N, a) <= Before(N, b)
      BY <1>2
    <2> QED BY <1>3, <2>1, RunIsSeq
  <1> QED BY <1>2, <1>4, <1>5, <1>6

LEMMA SegmentLength ==
  ASSUME NEW N, N \in Nat, NEW m, NEW a, NEW b, IsSegment(m, N, a, b)
  PROVE  Sender!sequence_length(m) = b - a
  <1>1. a \in Nat /\ b \in Nat /\ a < b /\ b <= N + 2
    BY DEF IsSegment
  <1>2. m.SYN \in BOOLEAN /\ (m.SYN <=> a = 0) /\ m.FIN \in BOOLEAN /\ (m.FIN <=> b = N + 2)
    BY DEF IsSegment
  <1>3. Len(m.payload) = Before(N, b) - Before(N, a)
    BY SegmentIs
  <1>4. Sender!One(m.SYN) = IF a = 0 THEN 1 ELSE 0
    BY <1>2 DEF Sender!One
  <1>5. Sender!One(m.FIN) = IF b = N + 2 THEN 1 ELSE 0
    BY <1>2 DEF Sender!One
  <1>6. Sender!sequence_length(m)
          = (IF a = 0 THEN 1 ELSE 0) + (Before(N, b) - Before(N, a)) + (IF b = N + 2 THEN 1 ELSE 0)
    BY <1>3, <1>4, <1>5 DEF Sender!sequence_length
  <1> QED BY <1>1, <1>6 DEF Before

\* What is acknowledged and what is sent never goes past the FIN.
LEMMA Bounds ==
  ASSUME NEW N, N \in Nat, IInv(N), SenderInv(N)
  PROVE  /\ next_seq \in 0..(N + 2) /\ last_ackno \in 0..next_seq /\ ackno \in 0..(N + 2)
         /\ waiting_index \in Nat /\ checkpoint = waiting_index /\ SYN \in {0, 1} /\ FIN \in {0, 1}
         /\ input.bytes_popped \in 0..N /\ isn \in Raw
  <1>1. /\ waiting_index \in 0..N /\ checkpoint = waiting_index
        /\ SYN \in {0, 1} /\ FIN \in {0, 1} /\ isn \in Raw
    BY DEF IInv, RInv, StreamIs, ConnectionInv
  <1>2. input.bytes_popped \in 0..N
    <2>1. StreamIs(N, input, input.bytes_pushed)
      BY DEF SenderInv, InputInv
    <2> QED BY <2>1 DEF StreamIs, Streams
  <1>3. next_seq \in 0..(N + 2)
    BY <1>2 DEF SenderInv, InputInv
  <1> QED BY <1>1, <1>2, <1>3 DEF SenderInv, WindowInv, ackno

\* The segments of window_ are in the order of their numbers.
LEMMA ChainUp ==
  ASSUME NEW N, next_seq \in Nat, Len(window) \in Nat, NEW at \in [1..(Len(window) + 1) -> Nat], Chain(at, N)
  PROVE  \A j \in 1..(Len(window) + 1) : at[j] <= next_seq
  <1>1. PICK l \in Nat : l = Len(window)
    OBVIOUS
  <1>2. at[l + 1] = next_seq
    BY <1>1 DEF Chain
  <1>3. \A k \in 1..l : at[k] \in Nat /\ at[k + 1] \in Nat /\ at[k] < at[k + 1]
    BY <1>1 DEF Chain, IsSegment
  <1> DEFINE T == {n \in Nat : n <= l => at[l + 1 - n] <= next_seq}
  <1>4. 0 \in T
    BY <1>1, <1>2
  <1>5. ASSUME NEW n \in Nat, n \in T PROVE n + 1 \in T
    <2>1. CASE n + 1 <= l
      <3>1. l - n \in 1..l /\ l - n + 1 = l + 1 - n /\ l + 1 - (n + 1) = l - n
        BY <1>1, <2>1
      <3>2. at[l - n] \in Nat /\ at[l - n + 1] \in Nat /\ at[l - n] < at[l - n + 1]
        BY <1>3, <3>1
      <3>3. at[l + 1 - n] <= next_seq
        BY <1>5, <2>1
      <3>4. at[l - n] <= next_seq
        BY <3>1, <3>2, <3>3
      <3> QED BY <3>1, <3>4
    <2> QED BY <2>1
  <1> HIDE DEF T
  <1>6. \A n \in Nat : n \in T
    BY <1>4, <1>5, NatSet
  <1>7. ASSUME NEW j \in 1..(l + 1) PROVE at[j] <= next_seq
    <2>1. l + 1 - j \in Nat /\ l + 1 - j <= l /\ l + 1 - (l + 1 - j) = j
      BY <1>1
    <2> QED BY <1>6, <2>1 DEF T
  <1> QED BY <1>1, <1>7

LEMMA ChainSorted ==
  ASSUME NEW N, Len(window) \in Nat, NEW at \in [1..(Len(window) + 1) -> Nat], Chain(at, N)
  PROVE  \A j \in 2..(Len(window) + 1) : at[2] <= at[j]
  <1>1. PICK l \in Nat : l = Len(window)
    OBVIOUS
  <1>2. \A k \in 1..l : at[k] \in Nat /\ at[k + 1] \in Nat /\ at[k] < at[k + 1]
    BY <1>1 DEF Chain, IsSegment
  <1> DEFINE T == {n \in Nat : n + 2 \in 2..(l + 1) => at[2] <= at[n + 2]}
  <1>3. 0 \in T
    <2>1. 2 \in 2..(l + 1) => at[2] \in Nat
      BY <1>1
    <2> QED BY <2>1
  <1>4. ASSUME NEW n \in Nat, n \in T PROVE n + 1 \in T
    <2>1. CASE n + 2 <= l
      <3>1. n + 2 \in 1..l /\ n + 2 \in 2..(l + 1) /\ (n + 1) + 2 = (n + 2) + 1 /\ 2 \in 1..(l + 1)
        BY <1>1, <2>1
      <3>2. at[n + 2] \in Nat /\ at[(n + 2) + 1] \in Nat /\ at[n + 2] < at[(n + 2) + 1] /\ at[2] \in Nat
        BY <1>1, <1>2, <3>1
      <3>3. at[2] <= at[n + 2]
        BY <1>4, <3>1
      <3>4. at[2] <= at[(n + 1) + 2]
        BY <3>1, <3>2, <3>3
      <3> QED BY <3>4
    <2>2. CASE ~(n + 2 <= l)
      <3>1. ~((n + 1) + 2 \in 2..(l + 1))
        BY <1>1, <2>2
      <3> QED BY <3>1
    <2> QED BY <2>1, <2>2
  <1> HIDE DEF T
  <1>5. \A n \in Nat : n \in T
    BY <1>3, <1>4, NatSet
  <1>6. ASSUME NEW j \in 2..(l + 1) PROVE at[2] <= at[j]
    <2>1. j - 2 \in Nat /\ (j - 2) + 2 = j
      BY <1>1
    <2> QED BY <1>5, <2>1 DEF T
  <1> QED BY <1>1, <1>6

LEMMA WindowSame ==
  ASSUME NEW N, WindowInv(N), UNCHANGED <<window, next_seq, last_ackno, SeqFNum, isn>>
  PROVE  WindowInv(N)'
  BY DEF WindowInv, Chain, IsSegment

LEMMA UpSame ==
  ASSUME NEW N, N \in Nat, UpInv(N), next_seq \in Nat, next_seq' \in Nat, next_seq <= next_seq', isn' = isn,
         \A m \in up' : m \in up
  PROVE  UpInv(N)'
  <1> SUFFICES ASSUME NEW m \in up'
               PROVE  m \in Messages /\ \E a, b \in 0..next_seq' : IsSegment(m, N, a, b)'
    BY DEF UpInv
  <1>1. PICK a \in 0..next_seq, b \in 0..next_seq : m \in Messages /\ IsSegment(m, N, a, b)
    BY DEF UpInv
  <1>2. a \in 0..next_seq' /\ b \in 0..next_seq'
    OBVIOUS
  <1>3. IsSegment(m, N, a, b)'
    BY <1>1 DEF IsSegment
  <1> QED BY <1>1, <1>2, <1>3

LEMMA DownSame ==
  ASSUME DownInv, ackno \in Nat, ackno' \in Nat, ackno <= ackno', isn' = isn, \A a \in down' : a \in down
  PROVE  DownInv'
  <1> SUFFICES ASSUME NEW a \in down'
               PROVE  /\ a.window_size \in Nat \ {0} /\ a.RST \in BOOLEAN
                      /\ a.ackno = -1 \/ \E k \in 1..(ackno') : a.ackno = Wrap(k, isn)
    BY DEF DownInv
  <1>1. a \in down
    OBVIOUS
  <1>2. 1..ackno \subseteq 1..(ackno')
    OBVIOUS
  <1> QED BY <1>1, <1>2 DEF DownInv

LEMMA WriteInv ==
  ASSUME NEW N, Fits(N), IInv(N), SenderInv(N), Write
  PROVE  IInv(N)' /\ SenderInv(N)'
  <1>1. /\ ~input.close
        /\ input' = (IF input.bytes_pushed < input.capacity
                     THEN Push(input, <<input.bytes_pushed>>) ELSE Close(input))
        /\ UNCHANGED <<vars, nvars, SeqFNum, next_seq, RWSize, last_ackno, is_SYNed, is_FINed, window,
                 zero_window_probe, probing, probe_msg, undefined, probes>>
    BY DEF Write
  <1>2. N \in Nat
    BY DEF Fits
  <1>3. IInv(N)' /\ isn' = isn /\ ackno' = ackno
    BY <1>1, SameInv DEF vars, tvars, ackno
  <1>4. InputInv(N)'
    <2>1. InputInv(N)
      BY DEF SenderInv
    <2>2. StreamIs(N, input, input.bytes_pushed) /\ input.capacity = N
      BY <2>1 DEF InputInv
    <2>3. PICK w \in 0..N : w = input.bytes_pushed
      BY <2>2 DEF StreamIs
    <2>4. input.bytes_popped \in Nat /\ input \in Streams
      BY <1>2, <2>2, BufferLength DEF StreamIs
    <2>5. CASE w < N
      <3>1. w + 1 \in w..N /\ w + 1 <= input.bytes_popped + input.capacity
        BY <1>2, <2>2, <2>4, <2>5
      <3>2. <<w>> = Run(w, w + 1)
        BY DEF Run
      <3>3. StreamIs(N, Push(input, Run(w, w + 1)), w + 1) /\ SameRoom(Push(input, Run(w, w + 1)), input)
        BY <1>2, <2>2, <2>3, <3>1, Pushing
      <3>4. input' = Push(input, Run(w, w + 1))
        BY <1>1, <2>2, <2>3, <2>5, <3>2
      <3>5. input'.bytes_pushed = w + 1 /\ input'.close = input.close
        BY <2>4, <3>3, <3>4 DEF StreamIs, Push, Streams
      <3> QED BY <1>1, <2>1, <3>3, <3>4, <3>5 DEF InputInv, SameRoom
    <2>6. CASE ~(w < N)
      <3>1. input' = Close(input) /\ w = N
        BY <1>1, <1>2, <2>2, <2>3, <2>6
      <3>2. StreamIs(N, input', w) /\ SameRoom(input', input)
        BY <2>2, <2>3, <3>1, Closing
      <3>3. input'.bytes_pushed = w
        BY <3>2 DEF StreamIs
      <3> QED BY <1>1, <2>1, <3>1, <3>2, <3>3 DEF InputInv, SameRoom
    <2> QED BY <2>5, <2>6
  <1>5. WindowInv(N)'
    BY <1>1, <1>3, WindowSame DEF SenderInv
  <1>6. UpInv(N)'
    BY <1>1, <1>3 DEF SenderInv, UpInv, IsSegment, nvars
  <1>7. DownInv'
    BY <1>1, <1>3 DEF SenderInv, DownInv, nvars
  <1>8. SimpleMode' /\ last_ackno' <= ackno'
    BY <1>1, <1>3 DEF SenderInv, SimpleMode
  <1> QED BY <1>3, <1>4, <1>5, <1>6, <1>7, <1>8 DEF SenderInv

\* What a push takes from input_ is the beginning of what is buffered.
LEMMA PayloadOf ==
  ASSUME NEW N, N \in Nat, InputInv(N), NEW syn \in BOOLEAN, RWSize \in Nat, SeqFNum \in Int
  PROVE  \E n \in 0..(input.bytes_pushed - input.bytes_popped) :
           Sender!Payload(syn) = Run(input.bytes_popped, input.bytes_popped + n)
  <1>1. StreamIs(N, input, input.bytes_pushed)
    BY DEF InputInv
  <1>2. PICK q \in Nat, w \in Nat : /\ q = input.bytes_popped /\ w = input.bytes_pushed /\ q <= w
                                 /\ input.buffer = Run(q, w) /\ Len(input.buffer) = w - q
    BY <1>1, BufferLength DEF StreamIs, Streams
  <1>3. PICK r \in Int : r = Sender!Room
    BY DEF Sender!Room
  <1>4. Sender!One(syn) \in {0, 1}
    BY DEF Sender!One
  <1>5. CASE r = Sender!One(syn)
    <2>1. Sender!Payload(syn) = <<>>
      BY <1>3, <1>5 DEF Sender!Payload
    <2>2. Run(q, q + 0) = <<>>
      BY DEF Run
    <2> QED BY <1>2, <2>1, <2>2
  <1>6. CASE r > Sender!One(syn)
    <2>1. Sender!Payload(syn) = Fitting(NewStream(r), input.buffer)
      BY <1>3, <1>5, <1>6, SameStreams DEF Sender!Payload
    <2>2. available_capacity(NewStream(r)) = r
      <3>1. Len(<<>>) = 0
        OBVIOUS
      <3> QED BY <3>1 DEF available_capacity, NewStream
    <2>3. PICK n \in 0..(w - q) : n = IF w - q > r THEN r ELSE w - q
      BY <1>2, <1>4, <1>6
    <2>4. Fitting(NewStream(r), input.buffer) = SubSeq(input.buffer, 1, n)
      BY <1>2, <2>2, <2>3 DEF Fitting
    <2>5. PICK c \in q..w : c = q + n /\ c - q = n
      BY <1>2
    <2>6. SubSeq(Run(q, w), 1, c - q) = Run(q, c)
      <3>1. q \in Int /\ w \in Int /\ c \in q..w
        OBVIOUS
      <3> QED BY <3>1, PrefixOfRun
    <2> QED BY <1>2, <2>1, <2>3, <2>4, <2>5, <2>6
  <1>7. CASE ~(r = Sender!One(syn)) /\ ~(r > Sender!One(syn))
    <2>1. Sender!Payload(syn) = input.buffer
      BY <1>3, <1>7 DEF Sender!Payload
    <2>2. w - q \in 0..(w - q) /\ q + (w - q) = w
      BY <1>2
    <2> QED BY <1>2, <2>1, <2>2
  <1> QED BY <1>5, <1>6, <1>7

\* The segment that a push cuts follows the last one.
LEMMA PushInv ==
  ASSUME NEW N, Fits(N), IInv(N), SenderInv(N), Sender!PushSegment,
         UNCHANGED <<vars, prompt, down, replies, mishaps>>
  PROVE  SenderInv(N)'
  <1>1. N \in Nat
    BY DEF Fits
  <1>2. SimpleMode /\ InputInv(N) /\ WindowInv(N) /\ UpInv(N) /\ DownInv /\ last_ackno <= ackno
    BY DEF SenderInv
  <1>3. /\ next_seq \in 0..(N + 2) /\ last_ackno \in 0..next_seq /\ isn \in Raw
        /\ RWSize \in Nat /\ SeqFNum = next_seq - last_ackno
    BY <1>1, <1>2, Bounds DEF SimpleMode, WindowInv
  <1>4. is_SYNed \in BOOLEAN /\ is_FINed \in BOOLEAN /\ ~is_FINed
    BY <1>2 DEF InputInv, Sender!PushSegment, Sender!FitsFIN
  <1>5. PICK syn \in BOOLEAN : (syn <=> ~is_SYNed) /\ Sender!PushSimple(syn)
    BY <1>4 DEF Sender!PushSegment
  <1> DEFINE payload == Sender!Payload(syn)
             rest    == Sender!Pop(input, Len(payload))
             fin     == Sender!FitsFIN(Sender!One(syn) + Len(payload)) /\ Sender!is_finished(rest)
             m       == Sender!Message(syn, payload, fin)
  <1>6. /\ Sender!sequence_length(m) # 0
        /\ input' = rest
        /\ is_SYNed' = TRUE
        /\ is_FINed' = (is_FINed \/ m.FIN)
        /\ next_seq' = next_seq + Sender!sequence_length(m)
        /\ SeqFNum' = SeqFNum + Sender!sequence_length(m)
        /\ window' = Append(window, m)
        /\ Sender!transmit(m)
        /\ UNCHANGED <<isn, RWSize, last_ackno, zero_window_probe, probing, probe_msg, undefined, probes>>
    BY <1>5, Zenon DEF Sender!PushSimple
  <1>7. PICK q \in Nat, w \in 0..N :
          /\ q = input.bytes_popped /\ w = input.bytes_pushed /\ q <= w /\ input.capacity = N
          /\ StreamIs(N, input, w) /\ input.buffer = Run(q, w) /\ Len(input.buffer) = w - q
    <2>1. StreamIs(N, input, input.bytes_pushed) /\ input.capacity = N
      BY <1>2 DEF InputInv
    <2> QED BY <1>1, <2>1, BufferLength DEF StreamIs
  <1>8. PICK n \in 0..(w - q) : payload = Run(q, q + n)
    BY <1>1, <1>2, <1>3, <1>7, PayloadOf
  <1>9. PICK v \in 0..N : v = q + n /\ v <= w
    BY <1>1, <1>7
  <1>10. Len(payload) = n /\ payload \in Seq(Int)
    <2>1. q \in Int /\ v \in Int /\ q <= v /\ v - q = n
      BY <1>9
    <2> QED BY <1>8, <1>9, <2>1, RunIsSeq
  <1> HIDE DEF payload
  <1>11. /\ StreamIs(N, rest, w) /\ rest.capacity = N /\ rest.bytes_popped = v
         /\ rest.close = input.close
    <2>1. rest = Pop(input, n)
      BY <1>10, SameStreams
    <2>2. n \in Nat /\ n <= Len(input.buffer)
      BY <1>7
    <2>3. /\ StreamIs(N, Pop(input, n), w) /\ Pop(input, n).capacity = input.capacity
          /\ Pop(input, n).bytes_popped = q + n
      <3>1. StreamIs(N, input, w)
        BY <1>7
      <3>2. n \in Nat /\ n <= Len(input.buffer) /\ w \in Nat
        BY <1>7
      <3>3. /\ StreamIs(N, Pop(input, n), w) /\ Pop(input, n).capacity = input.capacity
            /\ Pop(input, n).bytes_popped = input.bytes_popped + n
        BY <1>1, <3>1, <3>2, Popping
      <3> QED BY <1>7, <3>3
    <2>4. Pop(input, n).close = input.close
      BY <1>7 DEF Pop, StreamIs, Streams
    <2> QED BY <1>7, <1>9, <2>1, <2>3, <2>4
  <1> HIDE DEF rest
  <1>12. fin \in BOOLEAN /\ (fin => v = N /\ w = N)
    <2>1. fin => rest.close /\ rest.buffer = <<>>
      BY DEF Sender!is_finished
    <2>2. rest.close => w = N
      BY <1>2, <1>7, <1>11 DEF InputInv
    <2>3. Len(rest.buffer) = w - v
      BY <1>1, <1>11, BufferLength
    <2>4. Len(<<>>) = 0
      OBVIOUS
    <2> QED BY <1>7, <1>9, <2>1, <2>2, <2>3, <2>4
  <1> HIDE DEF fin
  <1>13. /\ m.seqno = Wrap(next_seq, isn) /\ m.SYN = syn /\ m.payload = payload /\ m.FIN = fin
         /\ m.RST = input.error
    BY SameNumbers DEF Sender!Message
  <1>14. next_seq = (IF syn THEN 0 ELSE 1) + q /\ (syn => q = 0)
    BY <1>2, <1>4, <1>5, <1>7 DEF InputInv
  <1>15. PICK s \in {0, 1}, f \in {0, 1}, b \in Nat :
           /\ s = (IF syn THEN 1 ELSE 0) /\ f = (IF fin THEN 1 ELSE 0) /\ b = next_seq + s + n + f
    <2>1. n \in Nat /\ next_seq \in Nat
      BY <1>3, <1>7
    <2>2. PICK s \in {0, 1}, f \in {0, 1} : s = (IF syn THEN 1 ELSE 0) /\ f = (IF fin THEN 1 ELSE 0)
      OBVIOUS
    <2>3. next_seq + s + n + f \in Nat
      BY <2>1, <2>2
    <2> QED BY <2>2, <2>3
  <1>16. Sender!sequence_length(m) = b - next_seq
    <2>1. Sender!sequence_length(m) = s + n + f
      <3>1. Sender!sequence_length(m) = Sender!One(m.SYN) + Len(m.payload) + Sender!One(m.FIN)
        BY DEF Sender!sequence_length
      <3>2. Sender!One(syn) = s /\ Sender!One(fin) = f
        BY <1>15 DEF Sender!One
      <3> QED BY <1>10, <1>13, <3>1, <3>2
    <2> QED BY <1>3, <1>15, <2>1
  <1>17. next_seq < b /\ next_seq' = b /\ b <= N + 2
    BY <1>1, <1>3, <1>6, <1>9, <1>12, <1>14, <1>15, <1>16
  <1>18. IsSegment(m, N, next_seq, b)
    <2>1. Before(N, next_seq) = q /\ Before(N, b) = v
      <3>1. next_seq = (1 - s) + q /\ (s = 1 => q = 0) /\ b = 1 + v + f /\ (f = 1 => v = N) /\ q <= v
        BY <1>9, <1>12, <1>14, <1>15
      <3>2. q < N + 1
        BY <1>1, <1>7
      <3> QED BY <1>1, <1>9, <1>15, <3>1, <3>2 DEF Before
    <2>2. (syn <=> next_seq = 0) /\ (fin <=> b = N + 2)
      BY <1>1, <1>9, <1>12, <1>14, <1>15
    <2>3. m.payload = Run(q, v)
      BY <1>8, <1>9, <1>13
    <2> QED BY <1>3, <1>12, <1>13, <1>17, <2>1, <2>2, <2>3 DEF IsSegment
  <1>19. m \in Messages
    <2>1. m.seqno \in Raw
      <3>1. Cycle \in Nat \ {0} /\ next_seq + isn \in Int
        BY <1>3, CycleType DEF Fits, Raw
      <3> QED BY <1>13, <3>1, ModRange DEF Wrap, Raw
    <2>2. input.error \in BOOLEAN
      BY <1>7 DEF StreamIs, Streams
    <2> QED BY <1>10, <1>12, <1>13, <2>1, <2>2 DEF Messages, Sender!Message
  <1> HIDE DEF m
  <1>20. InputInv(N)'
    <2>1. input'.bytes_pushed = w /\ StreamIs(N, input', w)
      BY <1>6, <1>11 DEF StreamIs
    <2>2. is_FINed' = fin
      BY <1>4, <1>6, <1>12, <1>13
    <2>3. next_seq' = 1 + v + (IF fin THEN 1 ELSE 0)
      <3>1. next_seq = (1 - s) + q
        BY <1>14, <1>15
      <3>2. b = 1 + v + f
        BY <1>9, <1>15, <3>1
      <3> QED BY <1>15, <1>17, <3>2
    <2> QED BY <1>2, <1>6, <1>7, <1>11, <1>12, <2>1, <2>2, <2>3 DEF InputInv
  <1>21. WindowInv(N)'
    <2>1. PICK at \in [1..(Len(window) + 1) -> Nat] : Chain(at, N)
      BY <1>2 DEF WindowInv
    <2>2. PICK l \in Nat : l = Len(window)
      BY <1>2 DEF WindowInv
    <2>3. /\ window' \in Seq(Messages) /\ Len(window') = l + 1 /\ window'[l + 1] = m
          /\ \A k \in 1..l : window'[k] = window[k]
      <3>1. window \in Seq(Messages)
        BY <1>2 DEF WindowInv
      <3> QED BY <1>6, <1>19, <2>2, <3>1
    <2>4. PICK new : new = [k \in 1..(l + 2) |-> IF k = l + 2 THEN b ELSE at[k]]
      OBVIOUS
    <2>5. /\ new \in [1..(l + 2) -> Nat] /\ new[l + 2] = b /\ new[l + 1] = at[l + 1]
          /\ \A k \in 1..(l + 1) : new[k] = at[k]
      BY <2>1, <2>2, <2>4
    <2>6. at[l + 1] = next_seq /\ at[1] <= last_ackno /\ (l > 0 => last_ackno < at[2])
      BY <1>2, <2>1, <2>2 DEF Chain, WindowInv
    <2>7. new[1] <= last_ackno /\ last_ackno < new[2]
      <3>1. new[1] = at[1]
        BY <2>5
      <3>2. CASE l = 0
        BY <1>3, <1>17, <2>5, <2>6, <3>1, <3>2
      <3>3. CASE l > 0
        BY <2>5, <2>6, <3>1, <3>3
      <3> QED BY <2>2, <3>2, <3>3
    <2>8. ASSUME NEW k \in 1..(l + 1) PROVE IsSegment(window'[k], N, new[k], new[k + 1])
      <3>1. CASE k = l + 1
        BY <1>18, <2>3, <2>5, <2>6, <3>1
      <3>2. CASE k \in 1..l
        <4>1. IsSegment(window[k], N, at[k], at[k + 1])
          BY <2>1, <2>2, <3>2 DEF Chain
        <4>2. new[k] = at[k] /\ new[k + 1] = at[k + 1] /\ window'[k] = window[k]
          BY <2>3, <2>5, <3>2, SMTT(30)
        <4> QED BY <4>1, <4>2
      <3> QED BY <2>2, <3>1, <3>2
    <2>9. Chain(new, N)'
      <3>1. \A k \in 1..(l + 1) : IsSegment(window[k], N, new[k], new[k + 1])'
        BY <1>6, <2>8 DEF IsSegment
      <3>2. Len(window') + 1 = l + 2 /\ 1..Len(window') = 1..(l + 1)
        BY <2>2, <2>3
      <3>3. last_ackno' = last_ackno /\ next_seq' = b
        BY <1>6, <1>17
      <3> QED BY <2>5, <2>7, <3>1, <3>2, <3>3 DEF Chain
    <2>10. Len(window') + 1 = l + 2
      BY <2>2, <2>3
    <2>11. last_ackno' \in Nat /\ last_ackno' <= next_seq' /\ SeqFNum' = next_seq' - last_ackno'
      BY <1>3, <1>6, <1>16, <1>17
    <2> QED BY <2>3, <2>5, <2>9, <2>10, <2>11 DEF WindowInv
  <1>22. UpInv(N)'
    <2> SUFFICES ASSUME NEW u \in up'
                 PROVE  u \in Messages /\ \E x, y \in 0..next_seq' : IsSegment(u, N, x, y)'
      BY DEF UpInv
    <2>1. u \in up \/ u = m
      BY <1>6 DEF Sender!transmit
    <2>2. CASE u = m
      <3>1. next_seq \in 0..next_seq' /\ b \in 0..next_seq'
        BY <1>3, <1>17
      <3> QED BY <1>6, <1>18, <1>19, <2>2, <3>1 DEF IsSegment
    <2>3. CASE u \in up
      <3>1. PICK x \in 0..next_seq, y \in 0..next_seq : u \in Messages /\ IsSegment(u, N, x, y)
        BY <1>2, <2>3 DEF UpInv
      <3>2. x \in 0..next_seq' /\ y \in 0..next_seq'
        BY <1>3, <1>17, <3>1
      <3> QED BY <1>6, <3>1, <3>2 DEF IsSegment
    <2> QED BY <2>1, <2>2, <2>3
  <1>23. ackno' = ackno
    BY DEF vars, tvars, rvars, ackno
  <1>24. DownInv'
    BY <1>2, <1>6, <1>23 DEF DownInv
  <1>25. SimpleMode' /\ last_ackno' <= ackno'
    BY <1>2, <1>6, <1>23 DEF SimpleMode
  <1> QED BY <1>20, <1>21, <1>22, <1>24, <1>25 DEF SenderInv

LEMMA TimeoutInv ==
  ASSUME NEW N, N \in Nat, IInv(N), SenderInv(N), Sender!Timeout,
         UNCHANGED <<vars, prompt, down, replies, mishaps>>
  PROVE  SenderInv(N)'
  <1>1. SimpleMode /\ InputInv(N) /\ WindowInv(N) /\ UpInv(N) /\ DownInv /\ last_ackno <= ackno
    BY DEF SenderInv
  <1>2. /\ window # <<>> /\ up' = up \cup {Head(window)}
        /\ UNCHANGED <<isn, input, SeqFNum, next_seq, RWSize, last_ackno, is_SYNed, is_FINed, window,
                       zero_window_probe, probing, probe_msg, undefined, probes>>
    BY <1>1 DEF SimpleMode, Sender!Timeout, Sender!transmit, Sender!svars
  <1>3. next_seq \in Nat
    BY Bounds
  <1>4. PICK m : m = Head(window)
    OBVIOUS
  <1>5. m \in Messages /\ \E a, b \in 0..next_seq : IsSegment(m, N, a, b)
    <2>1. PICK at \in [1..(Len(window) + 1) -> Nat] : Chain(at, N)
      BY <1>1 DEF WindowInv
    <2>2. window \in Seq(Messages) /\ Len(window) \in Nat /\ Len(window) >= 1 /\ m = window[1]
      BY <1>1, <1>2, <1>4 DEF WindowInv
    <2>3. IsSegment(m, N, at[1], at[2])
      BY <2>1, <2>2 DEF Chain
    <2>4. m \in Messages
      BY <2>2
    <2>5. at[1] \in Nat /\ at[2] \in Nat /\ at[1] < at[2]
      BY <2>3 DEF IsSegment
    <2>6. at[2] <= next_seq
      BY <1>3, <2>1, <2>2, ChainUp
    <2> QED BY <1>3, <2>3, <2>4, <2>5, <2>6
  <1>6. UpInv(N)'
    <2> SUFFICES ASSUME NEW u \in up'
                 PROVE  u \in Messages /\ \E a, b \in 0..next_seq : IsSegment(u, N, a, b)'
      BY <1>2 DEF UpInv
    <2>1. u \in Messages /\ \E a, b \in 0..next_seq : IsSegment(u, N, a, b)
      BY <1>1, <1>2, <1>4, <1>5 DEF UpInv
    <2> QED BY <1>2, <2>1 DEF IsSegment
  <1>7. ackno' = ackno
    BY DEF vars, tvars, rvars, ackno
  <1>8. DownInv'
    BY <1>1, <1>2, <1>7 DEF DownInv
  <1>9. InputInv(N)' /\ SimpleMode' /\ last_ackno' <= ackno'
    BY <1>1, <1>2, <1>7 DEF InputInv, SimpleMode
  <1>10. WindowInv(N)'
    BY <1>1, <1>2, WindowSame
  <1> QED BY <1>6, <1>8, <1>9, <1>10 DEF SenderInv

\* A segment in flight is one of the stream, whose number the receiver finds.
\* A segment in flight carries bytes that have been taken from input_, and the receiver
\* finds its number.
LEMMA InFlight ==
  ASSUME HalfAssumption, NEW N, Fits(N), IInv(N), SenderInv(N), NEW m \in up
  PROVE  \E first, z \in 0..N :
           /\ z \in first..N /\ Carries(m, N, first, z) /\ Found(NumberOf(m, first))
           /\ z <= input.bytes_popped /\ (m.FIN => input.bytes_popped = N)
  <1>1. N \in Nat /\ Half \in Nat /\ N + 1 <= Half /\ N + 2 < Cycle /\ Cycle \in Nat
    BY DEF Fits
  <1>2. PICK a \in 0..next_seq, b \in 0..next_seq : IsSegment(m, N, a, b)
    BY DEF SenderInv, UpInv
  <1>3. a \in Nat /\ b \in Nat /\ a < b /\ b <= N + 2 /\ (m.FIN <=> b = N + 2)
    BY <1>2 DEF IsSegment
  <1>4. /\ Before(N, a) \in 0..N /\ Before(N, b) \in Before(N, a)..N
        /\ Carries(m, N, Before(N, a), Before(N, b)) /\ NumberOf(m, Before(N, a)) = a
    BY <1>1, <1>2, SegmentIs
  <1>5. PICK first \in 0..N, z \in 0..N : first = Before(N, a) /\ z = Before(N, b)
    BY <1>1, <1>4
  <1>6. /\ next_seq \in Nat /\ checkpoint \in Nat /\ checkpoint <= N /\ isn \in Raw
        /\ input.bytes_popped \in 0..N
    <2>1. waiting_index \in 0..N
      BY DEF IInv, RInv, StreamIs
    <2> QED BY <1>1, <2>1, Bounds
  <1>7. Found(NumberOf(m, first))
    <2>1. a < Cycle /\ checkpoint - a <= Half
      BY <1>1, <1>3, <1>6
    <2> QED BY <1>3, <1>4, <1>5, <1>6, <2>1, UnwrapFinds DEF Found
  <1>8. z <= input.bytes_popped /\ (m.FIN => input.bytes_popped = N)
    <2>1. PICK q \in 0..N : q = input.bytes_popped
      BY <1>6
    <2>2. next_seq <= 1 + q + (IF q = N THEN 1 ELSE 0)
      <3>1. InputInv(N)
        BY DEF SenderInv
      <3> QED BY <1>1, <2>1, <3>1 DEF InputInv
    <2>3. b <= 1 + q + (IF q = N THEN 1 ELSE 0)
      BY <1>1, <1>3, <1>6, <2>1, <2>2
    <2>4. Before(N, b) <= q /\ (b = N + 2 => q = N)
      BY <1>1, <1>3, <2>3 DEF Before
    <2> QED BY <1>3, <1>5, <2>1, <2>4
  <1> QED BY <1>4, <1>5, <1>7, <1>8

LEMMA ArrivesInv ==
  ASSUME ReceiverAssumption, NEW N, Fits(N), IInv(N), SenderInv(N), NEW m \in up, SegmentArrives(m)
  PROVE  IInv(N)' /\ SenderInv(N)'
  <1>1. SimpleMode /\ InputInv(N) /\ WindowInv(N) /\ UpInv(N) /\ DownInv /\ last_ackno <= ackno
    BY DEF SenderInv
  <1>2. /\ Receive(m) /\ (up' = up \ {m} \/ up' = up)
        /\ UNCHANGED <<svars, prompt, down>>
    BY DEF SegmentArrives
  <1>3. N \in Nat /\ Half \in Nat /\ N + 1 <= Half /\ N + 2 < Cycle
    BY DEF Fits
  <1>4. HalfAssumption
    BY DEF ReceiverAssumption
  <1>5. PICK first \in 0..N, z \in 0..N :
          z \in first..N /\ Carries(m, N, first, z) /\ Found(NumberOf(m, first))
    BY <1>4, InFlight
  <1>6. /\ next_seq \in Nat /\ ackno \in Nat /\ waiting_index \in 0..N /\ checkpoint = waiting_index
        /\ isn \in Raw /\ last_ackno \in Nat /\ SYN \in {0, 1} /\ FIN \in {0, 1}
    <2>1. waiting_index \in 0..N
      BY DEF IInv, RInv, StreamIs
    <2> QED BY <1>3, <2>1, Bounds
  <1>8. /\ IInv(N)' /\ isn' = isn
        /\ waiting_index <= waiting_index' /\ SYN <= SYN' /\ FIN <= FIN'
    BY <1>2, <1>3, <1>5, ReceiveInv
  <1>9. ackno' \in Nat /\ ackno <= ackno'
    <2>1. waiting_index' \in 0..N /\ checkpoint' = waiting_index' /\ SYN' \in {0, 1} /\ FIN' \in {0, 1}
      BY <1>8 DEF IInv, RInv, StreamIs, ConnectionInv
    <2>2. ackno' = waiting_index' + SYN' + FIN' /\ ackno = waiting_index + SYN + FIN
      BY <1>6, <2>1 DEF ackno
    <2>3. /\ waiting_index' \in Nat /\ SYN' \in Nat /\ FIN' \in Nat
          /\ waiting_index \in Nat /\ SYN \in Nat /\ FIN \in Nat
      BY <1>3, <1>6, <2>1
    <2>4. PICK w \in Nat, s \in Nat, f \in Nat :
            w = waiting_index' /\ s = SYN' /\ f = FIN' /\ ackno' = w + s + f
      BY <2>2, <2>3
    <2>5. waiting_index <= w /\ SYN <= s /\ FIN <= f
      BY <1>8, <2>4
    <2>6. PICK v \in Nat, t \in Nat, g \in Nat :
            v = waiting_index /\ t = SYN /\ g = FIN /\ ackno = v + t + g
      BY <2>2, <2>3
    <2>7. v <= w /\ t <= s /\ g <= f
      BY <2>5, <2>6
    <2>8. v + t + g <= w + s + f /\ w + s + f \in Nat
      BY <2>7
    <2> QED BY <2>4, <2>6, <2>8
  <1>10. /\ UNCHANGED <<input, SeqFNum, next_seq, RWSize, last_ackno, is_SYNed, is_FINed, window,
                        zero_window_probe, probing, probe_msg, undefined, probes>>
         /\ down' = down /\ \A u \in up' : u \in up
    BY <1>2 DEF svars
  <1>11. UpInv(N)'
    BY <1>1, <1>3, <1>6, <1>8, <1>10, UpSame
  <1>12. DownInv'
    BY <1>1, <1>6, <1>8, <1>9, <1>10, DownSame
  <1>13. WindowInv(N)'
    BY <1>1, <1>8, <1>10, WindowSame
  <1>14. InputInv(N)' /\ SimpleMode' /\ last_ackno' <= ackno'
    BY <1>1, <1>6, <1>9, <1>10 DEF InputInv, SimpleMode
  <1> QED BY <1>8, <1>11, <1>12, <1>13, <1>14 DEF SenderInv

\* A reply acknowledges what has come; the prompt application has made room before it.
LEMMA ReplyInv ==
  ASSUME NEW N, N \in Nat, IInv(N), SenderInv(N), prompt, Reply
  PROVE  IInv(N)' /\ SenderInv(N)'
  <1>1. SimpleMode /\ InputInv(N) /\ WindowInv(N) /\ UpInv(N) /\ DownInv /\ last_ackno <= ackno
    BY DEF SenderInv
  <1> DEFINE number == IF SYN = 0 THEN Sender!NoAckno ELSE Wrap(ackno, zero_point)
             reply  == [ackno |-> number, window_size |-> window_size, RST |-> output.error]
  <1>2. /\ output.buffer = <<>> /\ down' = down \cup {reply}
        /\ UNCHANGED <<vars, svars, up, prompt, mishaps>>
    BY DEF Reply
  <1>3. IInv(N)' /\ ackno' = ackno /\ isn' = isn
    BY <1>2, SameInv DEF vars, tvars, ackno
  <1>4. /\ UNCHANGED <<input, SeqFNum, next_seq, RWSize, last_ackno, is_SYNed, is_FINed, window,
                        zero_window_probe, probing, probe_msg, undefined, probes, up>>
    BY <1>2 DEF svars
  <1>5. /\ window_size \in Nat \ {0} /\ output.error \in BOOLEAN
    <2>1. output.capacity \in Nat \ {0} /\ output.error \in BOOLEAN
      BY DEF IInv, RInv, StreamIs, Streams
    <2>2. Len(<<>>) = 0
      OBVIOUS
    <2> QED BY <1>2, <2>1, <2>2 DEF window_size, available_capacity
  <1>6. number = -1 \/ \E k \in 1..ackno : number = Wrap(k, isn)
    <2>1. SYN \in {0, 1} /\ (SYN = 1 => zero_point = isn)
      BY DEF IInv, ConnectionInv
    <2>2. CASE SYN = 0
      BY <2>2 DEF Sender!NoAckno
    <2>3. CASE SYN = 1
      <3>1. ackno \in 1..ackno
        <4>1. waiting_index \in 0..N /\ checkpoint = waiting_index /\ FIN \in {0, 1}
          BY DEF IInv, RInv, StreamIs, ConnectionInv
        <4> QED BY <2>3, <4>1 DEF ackno
      <3> QED BY <2>1, <2>3, <3>1
    <2> QED BY <2>1, <2>2, <2>3
  <1>7. reply.window_size = window_size /\ reply.RST = output.error /\ reply.ackno = number
    OBVIOUS
  <1> HIDE DEF reply, number
  <1>8. DownInv'
    <2> SUFFICES ASSUME NEW a \in down'
                 PROVE  /\ a.window_size \in Nat \ {0} /\ a.RST \in BOOLEAN
                        /\ a.ackno = -1 \/ \E k \in 1..ackno : a.ackno = Wrap(k, isn)
      BY <1>3 DEF DownInv, Wrap
    <2>1. CASE a \in down
      BY <1>1, <2>1 DEF DownInv
    <2>2. CASE a = reply
      BY <1>5, <1>6, <1>7, <2>2
    <2> QED BY <1>2, <2>1, <2>2
  <1>9. WindowInv(N)'
    BY <1>1, <1>3, <1>4, WindowSame
  <1>10. UpInv(N)'
    BY <1>1, <1>3, <1>4 DEF UpInv, IsSegment
  <1>11. InputInv(N)' /\ SimpleMode' /\ last_ackno' <= ackno'
    BY <1>1, <1>3, <1>4 DEF InputInv, SimpleMode
  <1> QED BY <1>3, <1>8, <1>9, <1>10, <1>11 DEF SenderInv

\* The segments that an ackno leaves in window_ are those behind it.
LEMMA AcknowledgeInv ==
  ASSUME HalfAssumption, NEW N, Fits(N), IInv(N), SenderInv(N), NEW k \in 1..ackno, Sender!Acknowledge(k),
         next_seq' = next_seq, isn' = isn
  PROVE  WindowInv(N)' /\ last_ackno' <= ackno
  <1>1. N \in Nat /\ Half \in Nat /\ N + 1 <= Half /\ N + 2 < Cycle
    BY DEF Fits
  <1>2. /\ WindowInv(N) /\ window \in Seq(Messages) /\ last_ackno <= ackno
        /\ SeqFNum = next_seq - last_ackno
    BY DEF SenderInv, WindowInv
  <1>3. next_seq \in 0..(N + 2) /\ last_ackno \in 0..next_seq /\ isn \in Raw /\ ackno \in 0..(N + 2)
    BY <1>1, Bounds
  <1>4. next_seq - SeqFNum = last_ackno /\ k \in Nat
    BY <1>2, <1>3
  <1>5. CASE ~(last_ackno < k /\ k <= next_seq)
    <2>1. UNCHANGED <<window, SeqFNum, last_ackno>>
      BY <1>4, <1>5 DEF Sender!Acknowledge
    <2> QED BY <1>2, <2>1, WindowSame
  <1>6. CASE last_ackno < k /\ k <= next_seq
    <2>1. PICK at \in [1..(Len(window) + 1) -> Nat] : Chain(at, N)
      BY <1>2 DEF WindowInv
    <2>2. PICK l \in Nat : l = Len(window)
      BY <1>2
    <2>3. /\ at \in [1..(l + 1) -> Nat] /\ at[l + 1] = next_seq /\ at[1] <= last_ackno
          /\ (l > 0 => last_ackno < at[2])
          /\ \A j \in 1..l : IsSegment(window[j], N, at[j], at[j + 1])
      BY <1>2, <2>1, <2>2 DEF Chain
    <2>4. \A j \in 1..(l + 1) : at[j] \in Nat /\ at[j] <= next_seq
      <3>1. Len(window) \in Nat /\ next_seq \in Nat
        BY <1>3, <2>2
      <3> QED BY <2>1, <2>2, <2>3, <3>1, ChainUp
    <2>5. ASSUME NEW j \in 1..l
          PROVE  Sender!AcksWhole(window[j], k) <=> at[j + 1] <= k
      <3>1. PICK a \in Nat, b \in Nat, m \in Messages : a = at[j] /\ b = at[j + 1] /\ m = window[j]
        <4>1. j \in 1..Len(window) /\ j \in 1..(l + 1) /\ j + 1 \in 1..(l + 1)
          BY <2>2
        <4>2. window[j] \in Messages
          BY <1>2, <4>1
        <4> QED BY <2>3, <4>1, <4>2
      <3>2. IsSegment(m, N, a, b)
        BY <2>3, <3>1
      <3>3. m.seqno = Wrap(a, isn) /\ a < b /\ b <= N + 2
        BY <3>2 DEF IsSegment
      <3>4. Sender!sequence_length(m) = b - a
        <4>1. N \in Nat
          BY <1>1
        <4> QED BY <3>2, <4>1, SegmentLength
      <3>5. a < Cycle
        <4>1. Cycle \in Nat
          BY DEF Fits
        <4> QED BY <1>1, <3>3, <4>1
      <3>6. last_ackno - a <= Half /\ last_ackno \in Nat
        <4>1. CASE j = 1
          <5>1. last_ackno < b
            BY <2>2, <2>3, <3>1, <4>1
          <5> QED BY <1>1, <1>3, <3>3, <5>1
        <4>2. CASE j # 1
          <5>1. last_ackno \in Nat /\ next_seq \in Nat /\ last_ackno <= next_seq
            BY <1>3
          <5>2. at[2] \in Nat /\ last_ackno < at[2]
            BY <2>2, <2>3, <4>2
          <5>3. at[2] <= a
            <6>1. Len(window) \in Nat
              BY <2>2
            <6>2. \A i \in 2..(Len(window) + 1) : at[2] <= at[i]
              BY <2>1, <6>1, ChainSorted
            <6>3. j \in 2..(Len(window) + 1)
              BY <2>2, <4>2
            <6> QED BY <3>1, <6>2, <6>3
          <5> QED BY <1>1, <3>1, <5>1, <5>2, <5>3
        <4> QED BY <4>1, <4>2
      <3>7. Unwrap(Wrap(a, isn), isn, last_ackno) = a
        BY <1>3, <3>1, <3>5, <3>6, UnwrapFinds
      <3>8. Sender!Unwrap(m.seqno, isn, last_ackno) = a
        BY <3>3, <3>7, SameNumbers
      <3>9. a + (b - a) = b
        BY <3>1
      <3>10. Sender!AcksWhole(m, k) <=> b <= k
        BY <3>4, <3>8, <3>9, Zenon DEF Sender!AcksWhole
      <3> QED BY <3>1, <3>10
    <2> DEFINE kept == {j \in DOMAIN window : ~Sender!AcksWhole(window[j], k)}
               from == IF kept = {} THEN Len(window)
                       ELSE (CHOOSE i \in kept : \A j \in kept : i <= j) - 1
    <2>6. /\ window' = SubSeq(window, from + 1, Len(window))
          /\ SeqFNum' = SeqFNum - (k - last_ackno)
          /\ last_ackno' = k
      BY <1>4, <1>6 DEF Sender!Acknowledge
    <2>7. \A j \in 1..l : j \in kept <=> k < at[j + 1]
      <3>1. DOMAIN window = 1..l
        BY <1>2, <2>2
      <3> TAKE j \in 1..l
      <3>2. j \in kept <=> ~Sender!AcksWhole(window[j], k)
        BY <3>1
      <3>3. at[j + 1] \in Nat
        BY <2>3
      <3>4. ~(at[j + 1] <= k) <=> k < at[j + 1]
        BY <1>4, <3>3
      <3> HIDE DEF kept
      <3> QED BY <2>5, <3>2, <3>4
    <2> HIDE DEF from, kept
    <2>20. PICK f : f = from
      OBVIOUS
    <2> USE DEF from, kept
    <2>8. f \in 0..l /\ (f < l => k < at[f + 2]) /\ (f > 0 => at[f + 1] <= k)
      <3>1. CASE kept = {}
        <4>1. from = l
          BY <2>2, <3>1
        <4>2. l > 0 => at[l + 1] <= k
          <5> SUFFICES ASSUME l > 0 PROVE at[l + 1] <= k
            OBVIOUS
          <5>1. l \in 1..l /\ ~(k < at[l + 1])
            BY <2>7, <3>1
          <5>2. at[l + 1] \in Nat
            BY <2>4
          <5> QED BY <1>4, <5>1, <5>2
        <4> HIDE DEF from
        <4> QED BY <2>20, <4>1, <4>2
      <3>2. CASE kept # {}
        <4>1. kept \subseteq 1..l
          BY <1>2, <2>2
        <4>2. PICK i \in kept : i = Min(kept) /\ \A j \in kept : i <= j
          <5>1. kept \subseteq Nat
            BY <4>1
          <5> QED BY <3>2, <5>1, MinOf
        <4>3. PICK c : c = CHOOSE i0 \in kept : \A j \in kept : i0 <= j
          OBVIOUS
        <4>4. c \in kept /\ \A j \in kept : c <= j
          BY <4>2, <4>3
        <4> HIDE DEF kept
        <4>5. from = c - 1 /\ c \in 1..l
          BY <3>2, <4>1, <4>3, <4>4
        <4>6. k < at[c + 1]
          BY <2>7, <4>4, <4>5
        <4>7. c > 1 => at[c] <= k
          <5> SUFFICES ASSUME c > 1 PROVE at[c] <= k
            OBVIOUS
          <5>1. c - 1 \in 1..l /\ c - 1 \notin kept /\ (c - 1) + 1 = c
            BY <4>4, <4>5
          <5>2. ~(k < at[(c - 1) + 1])
            BY <2>7, <5>1
          <5>3. at[c] \in Nat
            BY <2>3, <4>5
          <5> QED BY <1>4, <5>1, <5>2, <5>3
        <4>8. c - 1 \in 0..l /\ (c - 1) + 2 = c + 1 /\ (c - 1) + 1 = c
          BY <4>5
        <4>9. f = c - 1
          BY <2>20, <4>5
        <4>10. f > 0 => c > 1
          BY <4>5, <4>9
        <4> HIDE DEF from
        <4> QED BY <4>6, <4>7, <4>8, <4>9, <4>10
      <3> QED BY <3>1, <3>2
    <2> HIDE DEF from, kept
    <2>9. /\ window' \in Seq(Messages) /\ Len(window') = l - f
          /\ \A i \in 1..(l - f) : window'[i] = window[f + i]
      <3>1. window' = SubSeq(window, f + 1, l) /\ l = Len(window)
        BY <2>2, <2>6, <2>20
      <3>2. f + 1 \in 1..(l + 1) /\ l - (f + 1) + 1 = l - f
        BY <2>8
      <3>3. PICK s : s = SubSeq(window, f + 1, l)
        OBVIOUS
      <3>4. s \in Seq(Messages) /\ Len(s) = l - f /\ \A i \in 1..(l - f) : s[i] = window[f + i]
        BY <1>2, <2>8, <3>1, <3>2, <3>3, SMTT(20)
      <3> QED BY <3>1, <3>3, <3>4
    <2>10. PICK new : new = [i \in 1..(l - f + 1) |-> at[f + i]]
      OBVIOUS
    <2>11. /\ new \in [1..(l - f + 1) -> Nat]
           /\ \A i \in 1..(l - f + 1) : new[i] = at[f + i]
      <3>1. \A i \in 1..(l - f + 1) : f + i \in 1..(l + 1)
        BY <2>8
      <3> QED BY <2>3, <2>10, <3>1
    <2>12. new[l - f + 1] = next_seq
      <3>1. l - f + 1 \in 1..(l - f + 1) /\ f + (l - f + 1) = l + 1
        BY <2>8
      <3> QED BY <2>3, <2>11, <3>1
    <2>13. new[1] <= k
      <3>1. new[1] = at[f + 1]
        BY <2>8, <2>11
      <3>2. CASE f = 0
        BY <1>3, <1>4, <1>6, <2>3, <3>1, <3>2
      <3>3. CASE f > 0
        BY <2>8, <3>1, <3>3
      <3> QED BY <2>8, <3>2, <3>3
    <2>14. l - f > 0 => k < new[2]
      <3>1. l - f > 0 => 2 \in 1..(l - f + 1) /\ f < l
        BY <2>8
      <3> QED BY <2>8, <2>11, <3>1
    <2>15. ASSUME NEW i \in 1..(l - f) PROVE IsSegment(window[f + i], N, new[i], new[i + 1])
      <3>1. f + i \in 1..l /\ i \in 1..(l - f + 1) /\ i + 1 \in 1..(l - f + 1) /\ f + (i + 1) = (f + i) + 1
        BY <2>8
      <3>2. IsSegment(window[f + i], N, at[f + i], at[(f + i) + 1])
        BY <2>3, <3>1
      <3>3. new[i] = at[f + i] /\ new[i + 1] = at[(f + i) + 1]
        BY <2>11, <3>1
      <3> QED BY <3>2, <3>3
    <2>16. Chain(new, N)'
      <3>1. \A i \in 1..(l - f) : IsSegment(window'[i], N, new[i], new[i + 1])
        BY <2>9, <2>15
      <3>2. \A i \in 1..(l - f) : IsSegment(window[i], N, new[i], new[i + 1])'
        BY <3>1 DEF IsSegment
      <3>3. Len(window') + 1 = l - f + 1 /\ (window' # <<>> => l - f > 0)
        BY <2>9
      <3>4. last_ackno' = k /\ next_seq' = next_seq
        BY <2>6
      <3> QED BY <2>9, <2>11, <2>12, <2>13, <2>14, <3>2, <3>3, <3>4 DEF Chain
    <2>17. last_ackno' \in Nat /\ last_ackno' <= next_seq' /\ SeqFNum' = next_seq' - last_ackno'
      BY <1>2, <1>3, <1>4, <1>6, <2>6
    <2>18. Len(window') + 1 = l - f + 1
      BY <2>9
    <2>19. WindowInv(N)'
      BY <2>9, <2>11, <2>16, <2>17, <2>18 DEF WindowInv
    <2> QED BY <2>6, <2>19
  <1> QED BY <1>5, <1>6

LEMMA ReplyArrivesInv ==
  ASSUME HalfAssumption, NEW N, Fits(N), IInv(N), SenderInv(N), NEW a \in down, ReplyArrives(a)
  PROVE  IInv(N)' /\ SenderInv(N)'
  <1>1. SimpleMode /\ InputInv(N) /\ WindowInv(N) /\ UpInv(N) /\ DownInv /\ last_ackno <= ackno
    BY DEF SenderInv
  <1>2. /\ Sender!ReceiveReply(a) /\ (down' = down \ {a} \/ down' = down)
        /\ UNCHANGED <<vars, up, prompt, replies>>
    BY DEF ReplyArrives
  <1>3. N \in Nat /\ Half \in Nat /\ N + 1 <= Half /\ N + 2 < Cycle /\ Cycle \in Nat
    BY DEF Fits
  <1>4. IInv(N)' /\ ackno' = ackno /\ isn' = isn
    BY <1>2, SameInv DEF vars, tvars, ackno
  <1>5. /\ input' = (IF a.RST THEN Sender!SetError(input) ELSE input)
        /\ RWSize' = a.window_size /\ zero_window_probe' = (a.window_size = 0)
        /\ UNCHANGED <<next_seq, is_SYNed, is_FINed, probes>>
    BY <1>2 DEF Sender!ReceiveReply
  <1>6. /\ a.window_size \in Nat \ {0} /\ a.RST \in BOOLEAN
        /\ a.ackno = -1 \/ \E k \in 1..ackno : a.ackno = Wrap(k, isn)
    BY <1>1 DEF DownInv
  <1>7. UNCHANGED <<probing, probe_msg>> /\ undefined' \in BOOLEAN /\ WindowInv(N)' /\ last_ackno' <= ackno
    <2>1. CASE a.ackno = -1
      <3>1. undefined' = TRUE /\ UNCHANGED <<probing, SeqFNum, last_ackno, probe_msg, window>>
        BY <1>2, <2>1 DEF Sender!ReceiveReply, Sender!NoAckno
      <3> QED BY <1>1, <1>4, <1>5, <3>1, WindowSame
    <2>2. CASE a.ackno # -1
      <3>1. /\ Sender!Acknowledge(Sender!Unwrap(a.ackno, isn, last_ackno))
            /\ UNCHANGED <<probing, probe_msg, undefined>>
        BY <1>1, <1>2, <2>2 DEF Sender!ReceiveReply, Sender!NoAckno, Sender!ReceiveAck,
                                Sender!ReceiveProbed, SimpleMode
      <3>2. PICK k \in 1..ackno : a.ackno = Wrap(k, isn)
        BY <1>6, <2>2
      <3>3. next_seq \in 0..(N + 2) /\ last_ackno \in 0..next_seq /\ isn \in Raw /\ ackno \in 0..(N + 2)
        BY <1>3, Bounds
      <3>4. k \in Nat /\ k < Cycle /\ last_ackno \in Nat /\ last_ackno - k <= Half
        <4>1. k \in Nat /\ 1 <= k /\ k <= N + 2 /\ last_ackno \in Nat /\ last_ackno <= N + 2
          BY <1>3, <3>3
        <4> QED BY <1>3, <4>1
      <3>5. Sender!Unwrap(a.ackno, isn, last_ackno) = k
        <4>1. Unwrap(Wrap(k, isn), isn, last_ackno) = k
          BY <3>3, <3>4, UnwrapFinds
        <4> QED BY <3>2, <4>1, SameNumbers
      <3>6. Sender!Acknowledge(k)
        BY <3>1, <3>5
      <3>7. WindowInv(N)' /\ last_ackno' <= ackno
        BY <1>4, <1>5, <3>6, AcknowledgeInv
      <3>8. undefined' \in BOOLEAN
        BY <1>1, <3>1 DEF SimpleMode
      <3> QED BY <3>1, <3>7, <3>8
    <2> QED BY <2>1, <2>2
  <1>8. InputInv(N)'
    <2>1. StreamIs(N, input, input.bytes_pushed) /\ input \in Streams
      BY <1>1 DEF InputInv, StreamIs
    <2>2. Sender!SetError(input) = SetError(input)
      BY SameStreams
    <2>3. StreamIs(N, SetError(input), input.bytes_pushed)
      BY <2>1, Failing
    <2>4. /\ SetError(input).bytes_pushed = input.bytes_pushed
          /\ SetError(input).bytes_popped = input.bytes_popped
          /\ SetError(input).capacity = input.capacity /\ SetError(input).close = input.close
      BY <2>1 DEF SetError, Streams
    <2>5. /\ StreamIs(N, input', input.bytes_pushed)
          /\ input'.bytes_pushed = input.bytes_pushed /\ input'.bytes_popped = input.bytes_popped
          /\ input'.capacity = input.capacity /\ input'.close = input.close
      BY <1>5, <1>6, <2>1, <2>2, <2>3, <2>4
    <2> QED BY <1>1, <1>5, <2>5 DEF InputInv
  <1>9. SimpleMode'
    BY <1>1, <1>5, <1>6, <1>7 DEF SimpleMode
  <1>10. UpInv(N)'
    BY <1>1, <1>2, <1>4, <1>5 DEF UpInv, IsSegment
  <1>11. DownInv'
    BY <1>1, <1>2, <1>4 DEF DownInv
  <1>12. last_ackno' <= ackno'
    BY <1>4, <1>7
  <1> QED BY <1>4, <1>7, <1>8, <1>9, <1>10, <1>11, <1>12 DEF SenderInv

\* What is lost takes nothing true away, and the application only makes room.
LEMMA LoseInv ==
  ASSUME NEW N, N \in Nat, IInv(N), SenderInv(N), Lose
  PROVE  IInv(N)' /\ SenderInv(N)'
  <1>1. SimpleMode /\ InputInv(N) /\ WindowInv(N) /\ UpInv(N) /\ DownInv /\ last_ackno <= ackno
    BY DEF SenderInv
  <1>2. /\ UNCHANGED <<vars, svars, prompt, replies>>
        /\ \A m \in up' : m \in up
        /\ \A a \in down' : a \in down
    BY DEF Lose
  <1>3. IInv(N)' /\ ackno' = ackno /\ isn' = isn
    BY <1>2, SameInv DEF vars, tvars, ackno
  <1>4. UNCHANGED <<input, SeqFNum, next_seq, RWSize, last_ackno, is_SYNed, is_FINed, window,
                    zero_window_probe, probing, probe_msg, undefined, probes>>
    BY <1>2 DEF svars
  <1>5. WindowInv(N)'
    BY <1>1, <1>3, <1>4, WindowSame
  <1>6. UpInv(N)' /\ DownInv'
    BY <1>1, <1>2, <1>3, <1>4 DEF UpInv, DownInv, IsSegment
  <1>7. InputInv(N)' /\ SimpleMode' /\ last_ackno' <= ackno'
    BY <1>1, <1>3, <1>4 DEF InputInv, SimpleMode
  <1> QED BY <1>3, <1>5, <1>6, <1>7 DEF SenderInv

LEMMA ReadsInv ==
  ASSUME NEW N, N \in Nat, IInv(N), SenderInv(N), ApplicationReads
  PROVE  IInv(N)' /\ SenderInv(N)'
  <1>1. SimpleMode /\ InputInv(N) /\ WindowInv(N) /\ UpInv(N) /\ DownInv /\ last_ackno <= ackno
    BY DEF SenderInv
  <1>2. Application /\ UNCHANGED <<svars, nvars>>
    BY DEF ApplicationReads
  <1>3. IInv(N)' /\ ackno' = ackno /\ isn' = isn
    BY <1>2, ReadInv DEF tvars, ackno
  <1>4. UNCHANGED <<input, SeqFNum, next_seq, RWSize, last_ackno, is_SYNed, is_FINed, window,
                    zero_window_probe, probing, probe_msg, undefined, probes, up, down>>
    BY <1>2 DEF svars, nvars
  <1>5. WindowInv(N)'
    BY <1>1, <1>3, <1>4, WindowSame
  <1>6. UpInv(N)' /\ DownInv'
    BY <1>1, <1>3, <1>4 DEF UpInv, DownInv, IsSegment
  <1>7. InputInv(N)' /\ SimpleMode' /\ last_ackno' <= ackno'
    BY <1>1, <1>3, <1>4 DEF InputInv, SimpleMode
  <1> QED BY <1>3, <1>5, <1>6, <1>7 DEF SenderInv

LEMMA SenderStarts ==
  ASSUME NEW N, Fits(N), N \in Nat \ {0}, isn \in Raw, ConnectionInv, RInv(N),
         Sender!SenderInit(N), down = {}
  PROVE  SenderInv(N)
  <1>1. /\ input = NewStream(N)
        /\ SeqFNum = 0 /\ next_seq = 0 /\ RWSize = 0 /\ last_ackno = 0
        /\ is_SYNed = FALSE /\ is_FINed = FALSE
        /\ window = <<>>
        /\ zero_window_probe = FALSE /\ probing = FALSE /\ probe_msg = <<>>
        /\ undefined = FALSE /\ probes = 0
        /\ up = {}
    BY SameStreams DEF Sender!SenderInit
  <1>2. StreamIs(N, input, 0) /\ input.capacity = N /\ input.bytes_popped = 0 /\ input.bytes_pushed = 0
    BY <1>1, NewStreams DEF NewStream
  <1>3. input.close = FALSE
    BY <1>1 DEF NewStream
  <1>4. InputInv(N)
    <2>1. is_SYNed \in BOOLEAN /\ is_FINed \in BOOLEAN /\ ~is_SYNed /\ ~is_FINed /\ ~input.close
      BY <1>1, <1>3
    <2>2. next_seq = (IF is_SYNed THEN 1 ELSE 0) + input.bytes_popped + (IF is_FINed THEN 1 ELSE 0)
      BY <1>1, <1>2, <2>1
    <2>3. StreamIs(N, input, input.bytes_pushed)
      BY <1>2
    <2> QED BY <1>2, <2>1, <2>2, <2>3 DEF InputInv
  <1>5. WindowInv(N)
    <2>1. PICK at : at = [i \in 1..1 |-> 0]
      OBVIOUS
    <2>2. at \in [1..1 -> Nat] /\ at[1] = 0
      BY <2>1
    <2>3. Len(window) = 0 /\ window \in Seq(Messages)
      BY <1>1
    <2>4. Chain(at, N)
      BY <1>1, <2>2, <2>3 DEF Chain
    <2> QED BY <1>1, <2>2, <2>3, <2>4 DEF WindowInv
  <1>6. UpInv(N) /\ DownInv
    BY <1>1 DEF UpInv, DownInv
  <1>7. SimpleMode
    BY <1>1 DEF SimpleMode
  <1>8. last_ackno <= ackno
    <2>1. waiting_index \in 0..N /\ checkpoint = waiting_index /\ SYN \in {0, 1} /\ FIN \in {0, 1}
      BY DEF RInv, StreamIs, ConnectionInv
    <2> QED BY <1>1, <2>1 DEF ackno, Fits
  <1> QED BY <1>4, <1>5, <1>6, <1>7, <1>8 DEF SenderInv

\* While the application is prompt the window never closes, and every step is one of these.
LEMMA TransferInv ==
  ASSUME ReceiverAssumption, NEW N, Fits(N), IInv(N), SenderInv(N), prompt, TransferNext
  PROVE  IInv(N)' /\ SenderInv(N)'
  <1>1. N \in Nat /\ HalfAssumption
    BY DEF Fits, ReceiverAssumption
  <1>2. CASE Write
    BY <1>2, WriteInv
  <1>3. CASE SenderStep
    <2>1. UNCHANGED <<vars, prompt, down, replies, mishaps>>
      BY <1>3 DEF SenderStep
    <2>2. IInv(N)'
      BY <2>1, SameInv
    <2>3. ~Sender!PushZWP
      BY DEF SenderInv, SimpleMode, Sender!PushZWP
    <2>4. SenderInv(N)'
      BY <1>1, <1>3, <2>1, <2>3, PushInv, TimeoutInv DEF SenderStep
    <2> QED BY <2>2, <2>4
  <1>4. CASE Reply
    BY <1>1, <1>4, ReplyInv
  <1>5. CASE Lose
    BY <1>1, <1>5, LoseInv
  <1>6. CASE ApplicationReads
    BY <1>1, <1>6, ReadsInv
  <1>7. ASSUME NEW m \in up, SegmentArrives(m) PROVE IInv(N)' /\ SenderInv(N)'
    BY <1>7, ArrivesInv
  <1>8. ASSUME NEW a \in down, ReplyArrives(a) PROVE IInv(N)' /\ SenderInv(N)'
    BY <1>1, <1>8, ReplyArrivesInv
  <1> QED BY <1>2, <1>3, <1>4, <1>5, <1>6, <1>7, <1>8 DEF TransferNext

\* A byte taken from input_ that has not come has a number between the last ackno and
\* next_seq_, so one of the segments of window_ has it.
LEMMA NothingForgottenOf ==
  ASSUME NEW N, N \in Nat, IInv(N), SenderInv(N), FIN = 0
  PROVE  NothingForgotten
  <1>1. SimpleMode /\ InputInv(N) /\ WindowInv(N) /\ last_ackno <= ackno
    BY DEF SenderInv
  <1>2. /\ next_seq \in 0..(N + 2) /\ last_ackno \in 0..next_seq
        /\ waiting_index \in Nat /\ checkpoint = waiting_index /\ SYN \in {0, 1}
        /\ input.bytes_popped \in 0..N
    BY Bounds
  <1>3. PICK l \in Nat : l = Len(window) /\ window \in Seq(Messages)
    BY <1>1 DEF WindowInv
  <1>4. PICK at \in [1..(l + 1) -> Nat] : Chain(at, N)
    BY <1>1, <1>3 DEF WindowInv
  <1>5. ASSUME NEW i \in waiting_index..(input.bytes_popped - 1)
        PROVE  \E k \in 1..l : i \in Range(window[k].payload)
    <2>1. i \in Nat /\ waiting_index <= i /\ i < input.bytes_popped /\ i < N
      BY <1>2
    <2>2. i + 1 < next_seq
      <3>1. is_SYNed
        BY <1>1, <2>1 DEF InputInv
      <3>2. PICK g \in {0, 1} : g = (IF is_FINed THEN 1 ELSE 0)
        OBVIOUS
      <3>3. next_seq = 1 + input.bytes_popped + g
        BY <1>1, <3>1, <3>2 DEF InputInv
      <3>4. PICK q \in Nat : q = input.bytes_popped
        BY <1>2
      <3>5. i < q /\ i \in Nat
        BY <2>1, <3>4
      <3>6. i + 1 < 1 + q + g
        BY <3>2, <3>5
      <3> QED BY <3>3, <3>4, <3>6
    <2>3. at[1] <= i + 1 /\ at[1] \in Nat
      <3>1. at[1] <= last_ackno /\ at[1] \in Nat
        BY <1>4 DEF Chain
      <3>2. ackno <= waiting_index + 1 /\ ackno \in Nat
        BY <1>2 DEF ackno
      <3> QED BY <1>1, <1>2, <2>1, <3>1, <3>2
    <2>4. PICK S : S = {j \in 1..(l + 1) : i + 1 < at[j]}
      OBVIOUS
    <2>5. at[l + 1] = next_seq
      BY <1>3, <1>4 DEF Chain
    <2>6. PICK j \in S : \A x \in S : j <= x
      <3>1. l + 1 \in S
        BY <2>2, <2>4, <2>5
      <3>2. S \subseteq Nat
        BY <2>4
      <3> QED BY <3>1, <3>2, MinOf
    <2>7. j \in 1..(l + 1) /\ i + 1 < at[j]
      BY <2>4, <2>6
    <2>8. j # 1
      BY <2>1, <2>3, <2>7
    <2>9. PICK k \in 1..l : k + 1 = j
      <3>1. j - 1 \in 1..l /\ (j - 1) + 1 = j
        BY <2>7, <2>8
      <3> QED BY <3>1
    <2>10. at[k] <= i + 1
      <3>1. k \in 1..(l + 1) /\ k < j /\ at[k] \in Nat
        BY <1>4, <2>9
      <3>2. k \notin S
        BY <2>6, <2>7, <3>1
      <3> QED BY <2>1, <2>4, <3>1, <3>2
    <2>11. PICK a \in Nat, b \in Nat : a = at[k] /\ b = at[k + 1]
      BY <1>4
    <2>12. IsSegment(window[k], N, a, b)
      BY <1>3, <1>4, <2>11 DEF Chain
    <2>13. a <= i + 1 /\ i + 1 < b /\ b <= N + 2 /\ window[k].payload = Run(Before(N, a), Before(N, b))
      BY <2>7, <2>9, <2>10, <2>11, <2>12 DEF IsSegment
    <2>14. PICK f \in Nat, z \in Nat : /\ f = Before(N, a) /\ z = Before(N, b) /\ f <= i /\ i < z
      <3>1. Before(N, a) \in Nat /\ Before(N, a) <= i
        BY <2>1, <2>13 DEF Before
      <3>2. Before(N, b) \in Nat /\ i < Before(N, b)
        BY <2>1, <2>13 DEF Before
      <3> QED BY <3>1, <3>2
    <2>15. i - f + 1 \in 1..(z - f) /\ f + (i - f + 1) - 1 = i
      <3>1. \A x, y, w \in Nat : y <= x /\ x < w => x - y + 1 \in 1..(w - y) /\ y + (x - y + 1) - 1 = x
        OBVIOUS
      <3> QED BY <2>1, <2>14, <3>1
    <2>16. PICK p : p = Run(f, z)
      OBVIOUS
    <2>17. i - f + 1 \in DOMAIN p /\ p[i - f + 1] = i
      BY <2>15, <2>16 DEF Run
    <2>18. i \in Range(p)
      BY <2>17 DEF Range
    <2> QED BY <2>13, <2>14, <2>16, <2>18
  <1>6. window \o probe_msg = window
    BY <1>1, <1>3 DEF SimpleMode
  <1>7. DOMAIN window = 1..l
    BY <1>3
  <1> QED BY <1>5, <1>6, <1>7 DEF NothingForgotten, Payloads

LEMMA SoundOf == ASSUME NEW N, N \in Nat, IInv(N), SenderInv(N) PROVE SenderSound
  <1>1. last_ackno <= ackno /\ FlightCounted
    BY DEF SenderInv, WindowInv, FlightCounted
  <1>2. FIN = 0 => NothingForgotten
    BY NothingForgottenOf
  <1> QED BY <1>1, <1>2 DEF SenderSound

LEMMA SenderSame ==
  ASSUME NEW N, SenderInv(N),
         UNCHANGED <<vars, input, SeqFNum, next_seq, RWSize, last_ackno, is_SYNed, is_FINed, window,
                     zero_window_probe, probing, probe_msg, undefined, probes>>,
         UNCHANGED <<up, prompt, down, isn>>
  PROVE  SenderInv(N)'
  <1>1. ackno' = ackno
    BY DEF vars, tvars, ackno
  <1>2. WindowInv(N)'
    BY WindowSame DEF SenderInv
  <1>3. UpInv(N)'
    BY DEF SenderInv, UpInv, IsSegment
  <1>4. DownInv'
    BY <1>1 DEF SenderInv, DownInv
  <1>5. InputInv(N)' /\ SimpleMode' /\ last_ackno' <= ackno'
    BY <1>1 DEF SenderInv, InputInv, SimpleMode
  <1> QED BY <1>2, <1>3, <1>4, <1>5 DEF SenderInv

LEMMA PromptStays == ASSUME TransferNext PROVE prompt' = prompt
  BY DEF TransferNext, Write, SenderStep, Reply, Lose, ApplicationReads, SegmentArrives, ReplyArrives, nvars

LEMMA Invariant == ASSUME ReceiverAssumption, NEW N, N \in Nat, N = Length PROVE Spec => []IInv(N)
  <1>1. Init => IInv(N)
    BY InitInv
  <1>2. IInv(N) /\ [Next]_vars => IInv(N)'
    BY ArriveInv, ReadInv, SameInv DEF Next
  <1> QED BY <1>1, <1>2, PTL DEF Spec

\* For every stream, capacity and cycle of sequence numbers, in whatever order the segments
\* come: the bytes pushed are the first ones of the stream, each once and in its place.
THEOREM WrittenInPlace == ASSUME ReceiverAssumption PROVE Spec => []InPlace
  <1>1. PICK N \in Nat : N = Length
    BY DEF ReceiverAssumption, ReassemblerAssumption
  <1>2. Spec => []IInv(N)
    BY <1>1, Invariant
  <1>3. IInv(N) => InPlace
    BY PlaceOf
  <1> QED BY <1>2, <1>3, PTL

\* A byte that came when the window had room for it is written or waits in the cache until
\* it is: it need not come again.
THEOREM BytesKept == ASSUME ReceiverAssumption PROVE Spec => []NothingLost
  <1>1. PICK N \in Nat : N = Length
    BY DEF ReceiverAssumption, ReassemblerAssumption
  <1>2. Spec => []IInv(N)
    BY <1>1, Invariant
  <1>3. IInv(N) => NothingLost
    BY KeptOf
  <1> QED BY <1>2, <1>3, PTL
-----------------------------------------------------------------------------
(* The types of both ends, with a closed window too                        *)

\* Of the bytes nothing is said: what a probe of a closed window carries may be false.
Buffers(S) == [capacity : Nat, buffer : Seq(S), bytes_pushed : Int, bytes_popped : Int,
               close : BOOLEAN, error : BOOLEAN]
HasRoom(s) == \E S : s \in Buffers(S) /\ Len(s.buffer) <= s.capacity

ReceiverTypes ==
  /\ HasRoom(output) /\ waiting_index \in Nat /\ checkpoint \in Int
  /\ isn \in Raw /\ zero_point \in Raw /\ SYN \in {0, 1} /\ FIN \in {0, 1}

SenderTypes ==
  /\ input \in Streams
  /\ next_seq \in Nat /\ last_ackno \in Nat /\ SeqFNum \in Int /\ RWSize \in Nat
  /\ is_SYNed \in BOOLEAN /\ is_FINed \in BOOLEAN /\ zero_window_probe \in BOOLEAN
  /\ probing \in BOOLEAN /\ undefined \in BOOLEAN
  /\ window \in Seq(Messages) /\ \A k \in DOMAIN window : Sender!sequence_length(window[k]) > 0
  /\ probe_msg \in Seq(Messages) /\ (probing => probe_msg # <<>>)

NetworkTypes ==
  /\ \A m \in up : m \in Messages
  /\ \A a \in down :
       /\ a.window_size \in Nat /\ a.RST \in BOOLEAN
       /\ a.ackno = -1 \/ a.ackno \in Raw

TypeInv == ReceiverTypes /\ SenderTypes /\ NetworkTypes

LEMMA CloseRoom == ASSUME NEW s, HasRoom(s) PROVE HasRoom(Close(s)) /\ HasRoom(SetError(s))
  <1>1. PICK S : s \in Buffers(S) /\ Len(s.buffer) <= s.capacity
    BY DEF HasRoom
  <1>2. Close(s) \in Buffers(S) /\ Close(s).buffer = s.buffer /\ Close(s).capacity = s.capacity
    BY <1>1 DEF Buffers, Close
  <1>3. SetError(s) \in Buffers(S) /\ SetError(s).buffer = s.buffer /\ SetError(s).capacity = s.capacity
    BY <1>1 DEF Buffers, SetError
  <1> QED BY <1>1, <1>2, <1>3 DEF HasRoom

LEMMA RoomIs ==
  ASSUME NEW s, HasRoom(s)
  PROVE  /\ available_capacity(s) \in Nat /\ Len(s.buffer) \in Nat /\ s.bytes_pushed \in Int
         /\ s.error \in BOOLEAN
  <1>1. PICK S : s \in Buffers(S) /\ Len(s.buffer) <= s.capacity
    BY DEF HasRoom
  <1>2. Len(s.buffer) \in Nat /\ s.capacity \in Nat /\ s.bytes_pushed \in Int /\ s.error \in BOOLEAN
    BY <1>1 DEF Buffers
  <1> QED BY <1>1, <1>2 DEF available_capacity

LEMMA FittingType ==
  ASSUME NEW s, NEW T, NEW data \in Seq(T), available_capacity(s) \in Nat
  PROVE  /\ Fitting(s, data) \in Seq(T) /\ Len(Fitting(s, data)) \in Nat
         /\ Len(Fitting(s, data)) <= available_capacity(s)
  <1>1. PICK n \in Nat : n = IF Len(data) > available_capacity(s) THEN available_capacity(s) ELSE Len(data)
    OBVIOUS
  <1>2. n <= Len(data) /\ n <= available_capacity(s) /\ \A i \in 1..n : data[i] \in T
    BY <1>1
  <1>3. PICK f : f = SubSeq(data, 1, n)
    OBVIOUS
  <1>4. f \in Seq(T) /\ Len(f) = n
    BY <1>2, <1>3, SMTT(20)
  <1> QED BY <1>1, <1>2, <1>3, <1>4 DEF Fitting

LEMMA PushRoom ==
  ASSUME NEW s, HasRoom(s), NEW T, NEW data \in Seq(T)
  PROVE  HasRoom(Push(s, data))
  <1>1. PICK S : s \in Buffers(S) /\ Len(s.buffer) <= s.capacity
    BY DEF HasRoom
  <1>2. PICK f : f = Fitting(s, data)
    OBVIOUS
  <1>3. PICK r \in Nat : r = available_capacity(s)
    BY RoomIs
  <1>4. f \in Seq(T) /\ Len(f) \in Nat /\ Len(f) <= r
    BY <1>2, <1>3, FittingType
  <1>5. PICK b : b = s.buffer
    OBVIOUS
  <1>6. b \in Seq(S) /\ Len(b) \in Nat /\ s.capacity \in Nat /\ r = s.capacity - Len(b)
    BY <1>1, <1>3, <1>5 DEF Buffers, available_capacity
  <1>7. PICK U : U = S \cup T
    OBVIOUS
  <1>8. b \in Seq(U) /\ f \in Seq(U)
    BY <1>4, <1>6, <1>7
  <1>9. b \o f \in Seq(U) /\ Len(b \o f) = Len(b) + Len(f)
    BY <1>8
  <1>10. PICK p \in Int : p = s.bytes_pushed + Len(f)
    <2>1. s.bytes_pushed \in Int
      BY RoomIs
    <2> QED BY <1>4, <2>1
  <1>14. PICK g : g = b \o f
    OBVIOUS
  <1>13. Push(s, data) = [s EXCEPT !.buffer = g, !.bytes_pushed = p]
    BY <1>1, <1>2, <1>5, <1>10, <1>14 DEF Push, Buffers
  <1>11. /\ Push(s, data) \in Buffers(U) /\ Push(s, data).buffer = b \o f
         /\ Push(s, data).capacity = s.capacity
    BY <1>1, <1>9, <1>10, <1>13, <1>14 DEF Buffers
  <1>12. Len(b \o f) <= s.capacity
    BY <1>4, <1>6, <1>9
  <1> QED BY <1>11, <1>12 DEF HasRoom

LEMMA PopRoom ==
  ASSUME NEW s, HasRoom(s), NEW len \in Nat
  PROVE  HasRoom(Pop(s, len))
  <1>1. PICK S : s \in Buffers(S) /\ Len(s.buffer) <= s.capacity
    BY DEF HasRoom
  <1>2. PICK b : b = s.buffer
    OBVIOUS
  <1>3. b \in Seq(S) /\ Len(b) \in Nat /\ s.capacity \in Nat /\ Len(b) <= s.capacity
    BY <1>1, <1>2 DEF Buffers
  <1>4. PICK n \in 0..Len(b) : n = IF Len(b) < len THEN Len(b) ELSE len
    BY <1>3
  <1>5. PICK r : r = SubSeq(b, n + 1, Len(b))
    OBVIOUS
  <1>6. r \in Seq(S) /\ Len(r) = Len(b) - n
    BY <1>3, <1>5, SMTT(20)
  <1>10. PICK p \in Int : p = s.bytes_popped + n
    BY <1>1 DEF Buffers
  <1>7. Pop(s, len) = [s EXCEPT !.buffer = r, !.bytes_popped = p]
    BY <1>1, <1>2, <1>4, <1>5, <1>10 DEF Pop, Buffers
  <1>8. /\ Pop(s, len) \in Buffers(S) /\ Pop(s, len).buffer = r /\ Pop(s, len).capacity = s.capacity
    BY <1>1, <1>6, <1>7 DEF Buffers
  <1>9. Len(r) <= s.capacity
    BY <1>3, <1>6
  <1> QED BY <1>8, <1>9 DEF HasRoom

LEMMA InsertRoom ==
  ASSUME HasRoom(output), waiting_index \in Nat, NEW first, NEW data, NEW last, Insert(first, data, last)
  PROVE  HasRoom(output') /\ waiting_index' \in Nat
  <1>1. \/ output' = Close(output) /\ waiting_index' = waiting_index
        \/ output' = output /\ waiting_index' = waiting_index
        \/ \E c : \E end : output' = Closed(write(c), end) /\ waiting_index' = write(c).waiting
    BY DEF Insert
  <1>2. CASE output' = Close(output) /\ waiting_index' = waiting_index
    BY <1>2, CloseRoom
  <1>3. CASE output' = output /\ waiting_index' = waiting_index
    BY <1>3
  <1>4. ASSUME NEW c, NEW end, output' = Closed(write(c), end), waiting_index' = write(c).waiting
        PROVE  HasRoom(output') /\ waiting_index' \in Nat
    <2>1. PICK g : g = Gap(c.entries)
      OBVIOUS
    <2>2. g \in Nat /\ waiting_index <= g
      <3>1. PICK t \in Nat : t = tail_index /\ waiting_index <= t
        <4>1. available_capacity(output) \in Nat
          BY RoomIs
        <4> QED BY <4>1 DEF tail_index
      <3>2. PICK S : S = {i \in waiting_index..t : ~ \E e \in c.entries : Holds(e, i)} \cup {t}
        OBVIOUS
      <3>3. S \subseteq Nat /\ S # {} /\ \A i \in S : waiting_index <= i
        BY <3>1, <3>2
      <3>4. g = Min(S)
        BY <2>1, <3>1, <3>2 DEF Gap
      <3>5. g \in S
        BY <3>3, <3>4, MinOf
      <3> QED BY <3>3, <3>5
    <2>3. PICK f : f = [k \in 1..(g - waiting_index) |-> ByteAt(c.entries, waiting_index + k - 1)]
      OBVIOUS
    <2>4. PICK T : T = {ByteAt(c.entries, waiting_index + k - 1) : k \in 1..(g - waiting_index)}
      OBVIOUS
    <2>5. f \in Seq(T)
      <3>1. g - waiting_index \in Nat
        BY <2>2
      <3>2. f \in [1..(g - waiting_index) -> T]
        BY <2>3, <2>4
      <3> QED BY <3>1, <3>2
    <2>6. write(c).output = Push(output, f) /\ write(c).waiting = g
      BY <2>1, <2>3 DEF write
    <2>7. HasRoom(Push(output, f))
      BY <2>5, PushRoom
    <2>8. HasRoom(Close(Push(output, f)))
      BY <2>7, CloseRoom
    <2> QED BY <1>4, <2>2, <2>6, <2>7, <2>8 DEF Closed
  <1> QED BY <1>1, <1>2, <1>3, <1>4

LEMMA ReceiveTypes ==
  ASSUME ReceiverTypes, NEW m \in Messages, Receive(m)
  PROVE  ReceiverTypes'
  <1>1. m.seqno \in Raw /\ m.FIN \in BOOLEAN
    BY DEF Messages
  <1>2. CASE Unexpected(m)
    <2>1. output' = SetError(output) /\ UNCHANGED <<waiting_index, tvars>>
      BY <1>2 DEF Unexpected
    <2>2. HasRoom(output')
      BY <2>1, CloseRoom DEF ReceiverTypes
    <2> QED BY <2>1, <2>2 DEF ReceiverTypes, tvars, HasRoom
  <1>3. CASE Accepted(m)
    <2>1. /\ SYN' = 1
          /\ zero_point' = (IF SYN = 0 THEN m.seqno ELSE zero_point)
          /\ Insert(Index(m, zero_point'), m.payload, m.FIN)
          /\ checkpoint' = checkpoint + output'.bytes_pushed - output.bytes_pushed
          /\ Finish(need_FIN + (IF m.FIN THEN 1 ELSE 0))
          /\ isn' = isn
      BY <1>3 DEF Accepted
    <2>2. HasRoom(output') /\ waiting_index' \in Nat
      BY <2>1, InsertRoom DEF ReceiverTypes
    <2>3. output'.bytes_pushed \in Int /\ output.bytes_pushed \in Int
      BY <2>2, RoomIs DEF ReceiverTypes
    <2>4. FIN' \in {0, 1}
      BY <2>1 DEF ReceiverTypes, Finish
    <2> QED BY <1>1, <2>1, <2>2, <2>3, <2>4 DEF ReceiverTypes, HasRoom
  <1> QED BY <1>2, <1>3 DEF Receive

LEMMA CutType ==
  ASSUME NEW S, NEW s \in Seq(S), NEW a \in Int, NEW b \in Int, 1 <= a, b <= Len(s)
  PROVE  SubSeq(s, a, b) \in Seq(S) /\ Len(SubSeq(s, a, b)) \in Nat
  <1>1. \A i \in a..b : s[i] \in S
    OBVIOUS
  <1>2. SubSeq(s, a, b) \in Seq(S)
    BY <1>1, SubSeqProperties, Zenon
  <1> QED BY <1>2

LEMMA InputTypes ==
  ASSUME input \in Streams
  PROVE  /\ SetError(input) \in Streams /\ Close(input) \in Streams
         /\ \A n \in Nat : Pop(input, n) \in Streams
         /\ \A x \in Int : Push(input, <<x>>) \in Streams
  <1>1. PICK b \in Seq(Int), q \in Nat, p \in Nat, c \in Nat :
          /\ b = input.buffer /\ q = input.bytes_popped /\ p = input.bytes_pushed /\ c = input.capacity
    BY DEF Streams
  <1>2. SetError(input) \in Streams /\ Close(input) \in Streams
    BY DEF Streams, SetError, Close
  <1>3. ASSUME NEW n \in Nat PROVE Pop(input, n) \in Streams
    <2>1. PICK l \in Nat : l = Len(b)
      OBVIOUS
    <2>2. PICK k \in Nat : k = (IF l < n THEN l ELSE n) /\ k <= l
      OBVIOUS
    <2>3. PICK g : g = SubSeq(b, k + 1, Len(b))
      OBVIOUS
    <2>4. g \in Seq(Int)
      BY <2>1, <2>2, <2>3, CutType
    <2>5. PICK r \in Nat : r = q + k
      OBVIOUS
    <2>6. Pop(input, n) = [input EXCEPT !.buffer = g, !.bytes_popped = r]
      BY <1>1, <2>1, <2>2, <2>3, <2>5 DEF Pop, Streams
    <2> QED BY <2>4, <2>6 DEF Streams
  <1>4. ASSUME NEW x \in Int PROVE Push(input, <<x>>) \in Streams
    <2>1. PICK f : f = Fitting(input, <<x>>)
      OBVIOUS
    <2>2. f \in Seq(Int) /\ Len(f) \in Nat
      <3>1. PICK k \in Int : k = (IF Len(<<x>>) > available_capacity(input) THEN available_capacity(input)
                                  ELSE Len(<<x>>)) /\ k <= Len(<<x>>)
        <4>1. available_capacity(input) \in Int /\ Len(<<x>>) \in Nat
          BY <1>1 DEF available_capacity
        <4> QED BY <4>1
      <3>2. f = SubSeq(<<x>>, 1, k)
        BY <2>1, <3>1 DEF Fitting
      <3>3. <<x>> \in Seq(Int)
        OBVIOUS
      <3> QED BY <3>1, <3>2, <3>3, CutType
    <2>3. PICK g : g = b \o f
      OBVIOUS
    <2>4. g \in Seq(Int)
      BY <2>2, <2>3
    <2>5. PICK r \in Nat : r = p + Len(f)
      BY <2>2
    <2>6. Push(input, <<x>>) = [input EXCEPT !.buffer = g, !.bytes_pushed = r]
      BY <1>1, <2>1, <2>3, <2>5 DEF Push, Streams
    <2> QED BY <2>4, <2>6 DEF Streams
  <1> QED BY <1>2, <1>3, <1>4

LEMMA LengthType ==
  ASSUME NEW m \in Messages
  PROVE  /\ Sender!sequence_length(m) = Sender!One(m.SYN) + Len(m.payload) + Sender!One(m.FIN)
         /\ Sender!One(m.SYN) \in 0..1 /\ Len(m.payload) \in Nat /\ Sender!One(m.FIN) \in 0..1
         /\ Sender!sequence_length(m) \in Nat
  <1>1. Len(m.payload) \in Nat
    BY DEF Messages
  <1>2. Sender!One(m.SYN) \in 0..1 /\ Sender!One(m.FIN) \in 0..1
    BY DEF Sender!One
  <1>3. Sender!sequence_length(m) = Sender!One(m.SYN) + Len(m.payload) + Sender!One(m.FIN)
    BY DEF Sender!sequence_length
  <1> QED BY <1>1, <1>2, <1>3

LEMMA MessageType ==
  ASSUME HalfAssumption, isn \in Raw, next_seq \in Nat, input \in Streams,
         NEW syn \in BOOLEAN, NEW payload \in Seq(Int), NEW fin \in BOOLEAN
  PROVE  Sender!Message(syn, payload, fin) \in Messages
  <1>1. Wrap(next_seq, isn) \in Raw
    <2>1. Cycle \in Nat \ {0} /\ next_seq + isn \in Int
      BY CycleType DEF Raw
    <2> QED BY <2>1, ModRange DEF Wrap, Raw
  <1>2. Sender!Wrap(next_seq, isn) \in Raw
    BY <1>1, SameNumbers
  <1>3. input.error \in BOOLEAN
    BY DEF Streams
  <1> QED BY <1>2, <1>3 DEF Sender!Message, Messages

LEMMA PayloadType ==
  ASSUME input \in Streams, RWSize \in Nat, SeqFNum \in Int, NEW syn \in BOOLEAN
  PROVE  Sender!Payload(syn) \in Seq(Int)
  <1>1. PICK b \in Seq(Int) : b = input.buffer
    BY DEF Streams
  <1>2. PICK r \in Int : r = Sender!Room
    BY DEF Sender!Room
  <1>3. Sender!One(syn) \in 0..1
    BY DEF Sender!One
  <1>4. CASE r = Sender!One(syn)
    BY <1>2, <1>4 DEF Sender!Payload
  <1>5. CASE r > Sender!One(syn)
    <2>1. Sender!Payload(syn) = Fitting(NewStream(r), b)
      BY <1>1, <1>2, <1>3, <1>5, SameStreams DEF Sender!Payload
    <2>2. available_capacity(NewStream(r)) = r
      <3>1. Len(<<>>) = 0
        OBVIOUS
      <3> QED BY <3>1 DEF available_capacity, NewStream
    <2>3. r \in Nat
      BY <1>3, <1>5
    <2> QED BY <2>1, <2>2, <2>3, FittingType
  <1>6. CASE ~(r = Sender!One(syn)) /\ ~(r > Sender!One(syn))
    BY <1>1, <1>2, <1>6 DEF Sender!Payload
  <1> QED BY <1>4, <1>5, <1>6

LEMMA WriteTypes == ASSUME TypeInv, Write PROVE TypeInv'
  <1>1. /\ input' = (IF input.bytes_pushed < input.capacity
                     THEN Push(input, <<input.bytes_pushed>>) ELSE Close(input))
        /\ UNCHANGED <<vars, nvars, SeqFNum, next_seq, RWSize, last_ackno, is_SYNed, is_FINed, window,
                 zero_window_probe, probing, probe_msg, undefined, probes>>
    BY DEF Write
  <1>2. input \in Streams /\ input.bytes_pushed \in Int
    BY DEF TypeInv, SenderTypes, Streams
  <1>3. input' \in Streams
    BY <1>1, <1>2, InputTypes
  <1>4. SenderTypes'
    BY <1>1, <1>3 DEF TypeInv, SenderTypes
  <1>5. ReceiverTypes' /\ NetworkTypes'
    BY <1>1 DEF TypeInv, ReceiverTypes, NetworkTypes, HasRoom, vars, rvars, tvars, nvars
  <1> QED BY <1>4, <1>5 DEF TypeInv

LEMMA AppendMessage ==
  ASSUME NEW s \in Seq(Messages), \A k \in DOMAIN s : Sender!sequence_length(s[k]) > 0,
         NEW m \in Messages, Sender!sequence_length(m) # 0
  PROVE  /\ Append(s, m) \in Seq(Messages)
         /\ \A k \in DOMAIN Append(s, m) : Sender!sequence_length(Append(s, m)[k]) > 0
  <1>1. PICK l \in Nat : l = Len(s)
    OBVIOUS
  <1>2. PICK t : t = Append(s, m)
    OBVIOUS
  <1>3. /\ t \in Seq(Messages) /\ DOMAIN t = 1..(l + 1) /\ t[l + 1] = m
        /\ \A k \in 1..l : t[k] = s[k] /\ k \in DOMAIN s
    BY <1>1, <1>2
  <1>4. Sender!sequence_length(m) > 0
    BY LengthType
  <1>5. \A k \in DOMAIN t : k = l + 1 \/ k \in 1..l
    BY <1>3
  <1> QED BY <1>2, <1>3, <1>4, <1>5

LEMMA PushTypes ==
  ASSUME HalfAssumption, TypeInv, Sender!PushSegment, UNCHANGED <<vars, prompt, down, replies, mishaps>>
  PROVE  TypeInv'
  <1>1. PICK syn \in BOOLEAN : Sender!PushSimple(syn)
    BY DEF Sender!PushSegment, TypeInv, SenderTypes
  <1>2. /\ input \in Streams /\ next_seq \in Nat /\ isn \in Raw /\ RWSize \in Nat /\ SeqFNum \in Int
        /\ is_FINed \in BOOLEAN
        /\ window \in Seq(Messages) /\ \A k \in DOMAIN window : Sender!sequence_length(window[k]) > 0
    BY DEF TypeInv, SenderTypes, ReceiverTypes
  <1> DEFINE payload == Sender!Payload(syn)
             rest    == Sender!Pop(input, Len(payload))
             fin     == Sender!FitsFIN(Sender!One(syn) + Len(payload)) /\ Sender!is_finished(rest)
             m       == Sender!Message(syn, payload, fin)
  <1>3. /\ Sender!sequence_length(m) # 0
        /\ input' = rest
        /\ is_SYNed' = TRUE
        /\ is_FINed' = (is_FINed \/ m.FIN)
        /\ next_seq' = next_seq + Sender!sequence_length(m)
        /\ SeqFNum' = SeqFNum + Sender!sequence_length(m)
        /\ window' = Append(window, m)
        /\ Sender!transmit(m)
        /\ UNCHANGED <<isn, RWSize, last_ackno, zero_window_probe, probing, probe_msg, undefined, probes>>
    BY <1>1, Zenon DEF Sender!PushSimple
  <1>4. payload \in Seq(Int) /\ Len(payload) \in Nat
    BY <1>2, PayloadType
  <1> HIDE DEF payload
  <1>5. rest \in Streams
    <2>1. rest = Pop(input, Len(payload))
      BY SameStreams
    <2> QED BY <1>2, <1>4, <2>1, InputTypes
  <1> HIDE DEF rest
  <1>6. fin \in BOOLEAN
    OBVIOUS
  <1> HIDE DEF fin
  <1>7. m \in Messages
    BY <1>2, <1>4, <1>6, MessageType
  <1> HIDE DEF m
  <1>8. Sender!sequence_length(m) \in Nat /\ m.FIN \in BOOLEAN
    BY <1>7, LengthType DEF Messages
  <1>9. window' \in Seq(Messages) /\ \A k \in DOMAIN window' : Sender!sequence_length(window'[k]) > 0
    BY <1>2, <1>3, <1>7, AppendMessage
  <1>10. next_seq' \in Nat /\ SeqFNum' \in Int /\ is_FINed' \in BOOLEAN /\ is_SYNed' \in BOOLEAN
    BY <1>2, <1>3, <1>8
  <1>11. SenderTypes'
    BY <1>3, <1>5, <1>9, <1>10 DEF TypeInv, SenderTypes, Sender!sequence_length, Sender!One
  <1>12. \A u \in up' : u \in Messages
    BY <1>3, <1>7 DEF TypeInv, NetworkTypes, Sender!transmit
  <1>13. ReceiverTypes' /\ NetworkTypes'
    BY <1>12 DEF TypeInv, ReceiverTypes, NetworkTypes, HasRoom, vars, rvars, tvars
  <1> QED BY <1>11, <1>13 DEF TypeInv

LEMMA ProbeWindowTypes ==
  ASSUME HalfAssumption, TypeInv, Sender!ProbeWindow
  PROVE  /\ window' \in Seq(Messages) /\ \A k \in DOMAIN window' : Sender!sequence_length(window'[k]) > 0
         /\ probe_msg' \in Seq(Messages) /\ probe_msg' # <<>>
         /\ \A u \in up' : u \in Messages
         /\ UNCHANGED <<input, next_seq, SeqFNum, is_SYNed, is_FINed>>
  <1>1. /\ input \in Streams /\ next_seq \in Nat /\ isn \in Raw /\ probe_msg \in Seq(Messages)
        /\ window \in Seq(Messages) /\ \A k \in DOMAIN window : Sender!sequence_length(window[k]) > 0
        /\ \A u \in up : u \in Messages
    BY DEF TypeInv, SenderTypes, ReceiverTypes, NetworkTypes
  <1>2. window # <<>> /\ UNCHANGED <<input, next_seq, SeqFNum, is_SYNed, is_FINed>>
    BY DEF Sender!ProbeWindow
  <1>3. PICK first \in Messages : first = Head(window)
    BY <1>1, <1>2
  <1> DEFINE m == IF first.SYN THEN Sender!Message(TRUE, <<>>, FALSE)
                  ELSE IF first.payload # <<>> THEN Sender!Message(FALSE, SubSeq(first.payload, 1, 1), FALSE)
                  ELSE Sender!Message(FALSE, <<>>, TRUE)
             left == IF first.SYN THEN [first EXCEPT !.SYN = FALSE]
                     ELSE IF first.payload # <<>> THEN [first EXCEPT !.payload = SubSeq(@, 1, 1)]
                     ELSE [first EXCEPT !.FIN = FALSE]
  <1>4. /\ window' = (IF Sender!sequence_length(left) = 0 THEN Tail(window)
                      ELSE [window EXCEPT ![1] = left])
        /\ probe_msg' = Append(probe_msg, m)
        /\ Sender!transmit(m)
    BY <1>3, Zenon DEF Sender!ProbeWindow
  <1>5. first.payload \in Seq(Int) /\ first.SYN \in BOOLEAN /\ first.FIN \in BOOLEAN
    BY DEF Messages
  <1>6. PICK cut : cut = SubSeq(first.payload, 1, 1)
    OBVIOUS
  <1>7. first.payload # <<>> => cut \in Seq(Int)
    <2>1. first.payload # <<>> => 1 <= Len(first.payload)
      BY <1>5
    <2> QED BY <1>5, <1>6, <2>1, CutType
  <1>8. m \in Messages
    <2>1. <<>> \in Seq(Int)
      OBVIOUS
    <2>2. Sender!Message(TRUE, <<>>, FALSE) \in Messages /\ Sender!Message(FALSE, <<>>, TRUE) \in Messages
      BY <1>1, <2>1, MessageType
    <2>3. first.payload # <<>> => Sender!Message(FALSE, cut, FALSE) \in Messages
      BY <1>1, <1>7, MessageType
    <2> QED BY <1>5, <1>6, <2>2, <2>3
  <1>9. left \in Messages
    BY <1>5, <1>6, <1>7 DEF Messages
  <1> HIDE DEF m, left
  <1>10. probe_msg' \in Seq(Messages) /\ probe_msg' # <<>> /\ \A u \in up' : u \in Messages
    BY <1>1, <1>4, <1>8 DEF Sender!transmit
  <1>11. PICK l \in Nat : l = Len(window) /\ l >= 1 /\ DOMAIN window = 1..l
    BY <1>1, <1>2
  <1>12. window' \in Seq(Messages) /\ \A k \in DOMAIN window' : Sender!sequence_length(window'[k]) > 0
    <2>1. CASE Sender!sequence_length(left) = 0
      <3>1. PICK t : t = Tail(window)
        OBVIOUS
      <3>2. /\ t \in Seq(Messages) /\ DOMAIN t = 1..(l - 1)
            /\ \A k \in 1..(l - 1) : t[k] = window[k + 1] /\ k + 1 \in 1..l
        BY <1>1, <1>2, <1>11, <3>1
      <3> QED BY <1>1, <1>4, <1>11, <2>1, <3>1, <3>2
    <2>2. CASE Sender!sequence_length(left) # 0
      <3>1. PICK t : t = [window EXCEPT ![1] = left]
        OBVIOUS
      <3>2. t \in Seq(Messages) /\ DOMAIN t = 1..l /\ t[1] = left /\ \A k \in 2..l : t[k] = window[k]
        BY <1>1, <1>9, <1>11, <3>1
      <3>3. Sender!sequence_length(left) > 0
        BY <1>9, <2>2, LengthType
      <3>4. \A k \in 1..l : k = 1 \/ k \in 2..l
        OBVIOUS
      <3> QED BY <1>1, <1>4, <1>11, <2>2, <3>1, <3>2, <3>3, <3>4
    <2> QED BY <2>1, <2>2
  <1> QED BY <1>2, <1>10, <1>12

LEMMA ProbeStreamTypes ==
  ASSUME HalfAssumption, TypeInv, Sender!ProbeStream
  PROVE  /\ input' \in Streams /\ next_seq' \in Nat /\ SeqFNum' \in Int /\ is_FINed' \in BOOLEAN
         /\ probe_msg' \in Seq(Messages) /\ probe_msg' # <<>>
         /\ \A u \in up' : u \in Messages
         /\ UNCHANGED <<window, is_SYNed>>
  <1>1. /\ input \in Streams /\ next_seq \in Nat /\ isn \in Raw /\ probe_msg \in Seq(Messages)
        /\ SeqFNum \in Int /\ is_FINed \in BOOLEAN
        /\ \A u \in up : u \in Messages
    BY DEF TypeInv, SenderTypes, ReceiverTypes, NetworkTypes
  <1> DEFINE fin == input.buffer = <<>>
             payload == Sender!Fitting(Sender!NewStream(1), input.buffer)
             m == Sender!Message(FALSE, payload, fin)
  <1>2. /\ input' = Sender!Pop(input, 1)
        /\ is_FINed' = (is_FINed \/ fin)
        /\ probe_msg' = Append(probe_msg, m)
        /\ Sender!transmit(m)
        /\ next_seq' = next_seq + 1 /\ SeqFNum' = SeqFNum + 1 /\ UNCHANGED <<window, is_SYNed>>
    BY Zenon DEF Sender!ProbeStream
  <1>3. payload \in Seq(Int)
    <2>1. input.buffer \in Seq(Int)
      BY <1>1 DEF Streams
    <2>2. payload = Fitting(NewStream(1), input.buffer)
      BY SameStreams
    <2>3. available_capacity(NewStream(1)) = 1
      <3>1. Len(<<>>) = 0
        OBVIOUS
      <3> QED BY <3>1 DEF available_capacity, NewStream
    <2> QED BY <2>1, <2>2, <2>3, FittingType
  <1> HIDE DEF payload
  <1>4. fin \in BOOLEAN
    OBVIOUS
  <1> HIDE DEF fin
  <1>5. m \in Messages
    BY <1>1, <1>3, <1>4, MessageType
  <1> HIDE DEF m
  <1>6. input' \in Streams
    BY <1>1, <1>2, SameStreams, InputTypes
  <1>7. probe_msg' \in Seq(Messages) /\ probe_msg' # <<>>
    BY <1>1, <1>2, <1>5
  <1>8. \A u \in up' : u \in Messages
    BY <1>1, <1>2, <1>5 DEF Sender!transmit
  <1>9. is_FINed' \in BOOLEAN
    BY <1>1, <1>2, <1>4
  <1>10. next_seq' \in Nat /\ SeqFNum' \in Int
    BY <1>1, <1>2
  <1> QED BY <1>2, <1>6, <1>7, <1>8, <1>9, <1>10

LEMMA ProbeTypes ==
  ASSUME HalfAssumption, TypeInv, Sender!PushZWP, UNCHANGED <<vars, prompt, down, replies, mishaps>>
  PROVE  TypeInv'
  <1>1. /\ probing' = TRUE
        /\ Sender!ProbeWindow \/ Sender!ProbeStream
        /\ UNCHANGED <<isn, RWSize, last_ackno, zero_window_probe, undefined>>
    BY DEF Sender!PushZWP
  <1>2. SenderTypes' /\ \A u \in up' : u \in Messages
    <2>0. SenderTypes /\ probing' \in BOOLEAN
      BY <1>1 DEF TypeInv
    <2>1. CASE Sender!ProbeWindow
      <3>1. /\ window' \in Seq(Messages) /\ \A k \in DOMAIN window' : Sender!sequence_length(window'[k]) > 0
            /\ probe_msg' \in Seq(Messages) /\ probe_msg' # <<>>
            /\ UNCHANGED <<input, next_seq, SeqFNum, is_SYNed, is_FINed>>
        BY <2>1, ProbeWindowTypes
      <3>2. SenderTypes'
        BY <1>1, <2>0, <3>1 DEF SenderTypes, Sender!sequence_length, Sender!One
      <3> QED BY <2>1, <3>2, ProbeWindowTypes
    <2>2. CASE Sender!ProbeStream
      <3>1. /\ input' \in Streams /\ next_seq' \in Nat /\ SeqFNum' \in Int /\ is_FINed' \in BOOLEAN
            /\ probe_msg' \in Seq(Messages) /\ probe_msg' # <<>>
            /\ UNCHANGED <<window, is_SYNed>>
        BY <2>2, ProbeStreamTypes
      <3>2. SenderTypes'
        BY <1>1, <2>0, <3>1 DEF SenderTypes, Sender!sequence_length, Sender!One
      <3> QED BY <2>2, <3>2, ProbeStreamTypes
    <2> QED BY <1>1, <2>1, <2>2
  <1>3. ReceiverTypes' /\ NetworkTypes'
    BY <1>2 DEF TypeInv, ReceiverTypes, NetworkTypes, HasRoom, vars, rvars, tvars
  <1> QED BY <1>2, <1>3 DEF TypeInv

LEMMA TimeoutTypes ==
  ASSUME TypeInv, Sender!Timeout, UNCHANGED <<vars, prompt, down, replies, mishaps>>
  PROVE  TypeInv'
  <1>1. /\ UNCHANGED <<input, SeqFNum, next_seq, RWSize, last_ackno, is_SYNed, is_FINed, window,
                       zero_window_probe, probing, probe_msg, undefined, probes>>
        /\ \/ probe_msg # <<>> /\ up' = up \cup {Head(probe_msg)}
           \/ window # <<>> /\ up' = up \cup {Head(window)}
    BY DEF Sender!Timeout, Sender!transmit, Sender!svars
  <1>2. window \in Seq(Messages) /\ probe_msg \in Seq(Messages) /\ \A u \in up : u \in Messages
    BY DEF TypeInv, SenderTypes, NetworkTypes
  <1>3. \A u \in up' : u \in Messages
    BY <1>1, <1>2
  <1>4. SenderTypes'
    BY <1>1 DEF TypeInv, SenderTypes, Sender!sequence_length, Sender!One
  <1>5. ReceiverTypes' /\ NetworkTypes'
    BY <1>3 DEF TypeInv, ReceiverTypes, NetworkTypes, HasRoom, vars, rvars, tvars
  <1> QED BY <1>4, <1>5 DEF TypeInv

LEMMA SenderTypesSame == ASSUME SenderTypes, UNCHANGED svars PROVE SenderTypes'
  BY DEF SenderTypes, svars, Sender!sequence_length, Sender!One

LEMMA ArrivesTypes ==
  ASSUME TypeInv, NEW m \in up, SegmentArrives(m)
  PROVE  TypeInv'
  <1>1. Receive(m) /\ (up' = up \ {m} \/ up' = up) /\ UNCHANGED <<svars, prompt, down>>
    BY DEF SegmentArrives
  <1>2. ReceiverTypes'
    BY <1>1, ReceiveTypes DEF TypeInv, NetworkTypes
  <1>3. SenderTypes'
    BY <1>1, SenderTypesSame DEF TypeInv
  <1>4. NetworkTypes'
    BY <1>1 DEF TypeInv, NetworkTypes
  <1> QED BY <1>2, <1>3, <1>4 DEF TypeInv

LEMMA ReplyTypes ==
  ASSUME HalfAssumption, TypeInv, Reply
  PROVE  TypeInv'
  <1> DEFINE number == IF SYN = 0 THEN Sender!NoAckno ELSE Wrap(ackno, zero_point)
             reply  == [ackno |-> number, window_size |-> window_size, RST |-> output.error]
  <1>1. down' = down \cup {reply} /\ UNCHANGED <<vars, svars, up, prompt, mishaps>>
    BY DEF Reply
  <1>2. window_size \in Nat /\ output.error \in BOOLEAN
    BY RoomIs DEF TypeInv, ReceiverTypes, window_size
  <1>3. number = -1 \/ number \in Raw
    <2>1. Wrap(ackno, zero_point) \in Raw
      <3>1. ackno + zero_point \in Int
        BY CycleType DEF TypeInv, ReceiverTypes, ackno, Raw
      <3>2. Cycle \in Nat \ {0}
        BY CycleType
      <3> QED BY <3>1, <3>2, ModRange DEF Wrap, Raw
    <2> QED BY <2>1 DEF Sender!NoAckno
  <1>4. reply.window_size = window_size /\ reply.RST = output.error /\ reply.ackno = number
    OBVIOUS
  <1> HIDE DEF reply, number
  <1>5. NetworkTypes'
    <2> SUFFICES ASSUME NEW a \in down'
                 PROVE  /\ a.window_size \in Nat /\ a.RST \in BOOLEAN
                        /\ a.ackno = -1 \/ a.ackno \in Raw
      BY <1>1 DEF TypeInv, NetworkTypes
    <2>1. CASE a \in down
      BY <2>1 DEF TypeInv, NetworkTypes
    <2>2. CASE a = reply
      BY <1>2, <1>3, <1>4, <2>2
    <2> QED BY <1>1, <2>1, <2>2
  <1>6. SenderTypes'
    BY <1>1, SenderTypesSame DEF TypeInv
  <1>7. ReceiverTypes'
    BY <1>1 DEF TypeInv, ReceiverTypes, HasRoom, vars, rvars, tvars
  <1> QED BY <1>5, <1>6, <1>7 DEF TypeInv

LEMMA AcknowledgeTypes ==
  ASSUME SenderTypes, NEW k \in Nat, Sender!Acknowledge(k)
  PROVE  /\ window' \in Seq(Messages) /\ \A i \in DOMAIN window' : Sender!sequence_length(window'[i]) > 0
         /\ SeqFNum' \in Int /\ last_ackno' \in Nat
  <1>1. /\ window \in Seq(Messages) /\ \A i \in DOMAIN window : Sender!sequence_length(window[i]) > 0
        /\ SeqFNum \in Int /\ last_ackno \in Nat
    BY DEF SenderTypes
  <1>2. CASE ~(next_seq - SeqFNum < k /\ k <= next_seq)
    <2>1. UNCHANGED <<window, SeqFNum, last_ackno>>
      BY <1>2 DEF Sender!Acknowledge
    <2> QED BY <1>1, <2>1
  <1>3. CASE next_seq - SeqFNum < k /\ k <= next_seq
    <2> DEFINE kept == {j \in DOMAIN window : ~Sender!AcksWhole(window[j], k)}
               from == IF kept = {} THEN Len(window)
                       ELSE (CHOOSE i \in kept : \A j \in kept : i <= j) - 1
    <2>1. /\ window' = SubSeq(window, from + 1, Len(window))
          /\ SeqFNum' = SeqFNum - (k - last_ackno)
          /\ last_ackno' = k
      BY <1>3 DEF Sender!Acknowledge
    <2>2. PICK l \in Nat : l = Len(window) /\ DOMAIN window = 1..l
      BY <1>1
    <2>3. from \in 0..l
      <3>1. CASE kept = {}
        BY <2>2, <3>1
      <3>2. CASE kept # {}
        <4>1. kept \subseteq 1..l
          BY <2>2
        <4> HIDE DEF kept
        <4>2. PICK i \in kept : \A j \in kept : i <= j
          <5>1. kept \subseteq Nat
            BY <4>1
          <5> QED BY <3>2, <5>1, MinOf
        <4>3. PICK c : c = CHOOSE i0 \in kept : \A j \in kept : i0 <= j
          OBVIOUS
        <4>4. c \in kept
          BY <4>2, <4>3
        <4>5. from = c - 1 /\ c \in 1..l
          BY <3>2, <4>1, <4>3, <4>4
        <4> HIDE DEF from
        <4> QED BY <2>2, <4>5
      <3> QED BY <3>1, <3>2
    <2> HIDE DEF from, kept
    <2>4. PICK f \in 0..l : f = from
      BY <2>3
    <2>5. PICK t : t = SubSeq(window, f + 1, l)
      OBVIOUS
    <2>6. t \in Seq(Messages) /\ Len(t) = l - f /\ \A i \in 1..(l - f) : t[i] = window[f + i]
      BY <1>1, <2>2, <2>5, SMTT(20)
    <2>7. DOMAIN t = 1..(l - f) /\ \A i \in 1..(l - f) : f + i \in 1..l
      BY <2>6
    <2>8. window' = t
      BY <2>1, <2>2, <2>4, <2>5
    <2>9. \A i \in DOMAIN t : Sender!sequence_length(t[i]) > 0
      BY <1>1, <2>2, <2>6, <2>7
    <2>10. window' \in Seq(Messages) /\ \A i \in DOMAIN window' : Sender!sequence_length(window'[i]) > 0
      BY <2>6, <2>8, <2>9
    <2>11. SeqFNum' \in Int /\ last_ackno' \in Nat
      BY <1>1, <2>1
    <2> QED BY <2>10, <2>11
  <1> QED BY <1>2, <1>3

LEMMA ReplyArrivesTypes ==
  ASSUME HalfAssumption, TypeInv, NEW a \in down, ReplyArrives(a)
  PROVE  TypeInv'
  <1>1. /\ Sender!ReceiveReply(a) /\ (down' = down \ {a} \/ down' = down)
        /\ UNCHANGED <<vars, up, prompt, replies>>
    BY DEF ReplyArrives
  <1>2. /\ input' = (IF a.RST THEN Sender!SetError(input) ELSE input)
        /\ RWSize' = a.window_size /\ zero_window_probe' = (a.window_size = 0)
        /\ UNCHANGED <<next_seq, is_SYNed, is_FINed, probes>>
    BY <1>1 DEF Sender!ReceiveReply
  <1>3. a.window_size \in Nat /\ a.RST \in BOOLEAN /\ (a.ackno = -1 \/ a.ackno \in Raw)
    BY DEF TypeInv, NetworkTypes
  <1>4. SenderTypes /\ isn \in Raw /\ last_ackno \in Nat
    BY DEF TypeInv, ReceiverTypes, SenderTypes
  <1>5. input' \in Streams
    BY <1>2, <1>3, <1>4, SameStreams, InputTypes DEF SenderTypes
  <1>6. /\ window' \in Seq(Messages) /\ \A i \in DOMAIN window' : Sender!sequence_length(window'[i]) > 0
        /\ SeqFNum' \in Int /\ last_ackno' \in Nat /\ undefined' \in BOOLEAN /\ probing' \in BOOLEAN
        /\ probe_msg' \in Seq(Messages) /\ (probing' => probe_msg' # <<>>)
    <2>1. CASE a.ackno = -1
      <3>1. undefined' = TRUE /\ UNCHANGED <<probing, SeqFNum, last_ackno, probe_msg, window>>
        BY <1>1, <2>1 DEF Sender!ReceiveReply, Sender!NoAckno
      <3> QED BY <1>4, <3>1 DEF SenderTypes
    <2>2. CASE a.ackno # -1
      <3>1. PICK k \in Nat : k = Sender!Unwrap(a.ackno, isn, last_ackno)
        <4>1. Unwrap(a.ackno, isn, last_ackno) \in Nat
          BY <1>3, <1>4, <2>2, UnwrapWraps
        <4> QED BY <4>1, SameNumbers
      <3>2. Sender!ReceiveAck(a) \/ Sender!ReceiveProbed(a)
        BY <1>1, <2>2 DEF Sender!ReceiveReply, Sender!NoAckno
      <3>3. CASE Sender!ReceiveAck(a)
        <4>1. Sender!Acknowledge(k) /\ UNCHANGED <<probing, probe_msg, undefined>>
          BY <3>1, <3>3 DEF Sender!ReceiveAck
        <4>2. /\ window' \in Seq(Messages) /\ \A i \in DOMAIN window' : Sender!sequence_length(window'[i]) > 0
              /\ SeqFNum' \in Int /\ last_ackno' \in Nat
          BY <1>4, <4>1, AcknowledgeTypes
        <4> QED BY <1>4, <4>1, <4>2 DEF SenderTypes
      <3>4. CASE Sender!ReceiveProbed(a)
        <4>1. /\ probing' = FALSE /\ SeqFNum' = SeqFNum - 1 /\ last_ackno' = k
              /\ undefined' = (probe_msg = <<>>) /\ UNCHANGED window
              /\ probe_msg' = (IF probe_msg = <<>> THEN <<>> ELSE SubSeq(probe_msg, 1, Len(probe_msg) - 1))
          BY <3>1, <3>4 DEF Sender!ReceiveProbed, Sender!Front
        <4>2. probe_msg' \in Seq(Messages)
          <5>1. probe_msg \in Seq(Messages)
            BY <1>4 DEF SenderTypes
          <5>2. CASE probe_msg = <<>>
            BY <4>1, <5>2
          <5>3. CASE probe_msg # <<>>
            <6>1. Len(probe_msg) - 1 \in Int /\ Len(probe_msg) - 1 <= Len(probe_msg)
              BY <5>1
            <6> QED BY <4>1, <5>1, <5>3, <6>1, CutType
          <5> QED BY <5>2, <5>3
        <4>3. SeqFNum' \in Int /\ last_ackno' \in Nat /\ undefined' \in BOOLEAN /\ probing' \in BOOLEAN
          <5>1. SeqFNum \in Int
            BY <1>4 DEF SenderTypes
          <5>2. SeqFNum' \in Int /\ last_ackno' \in Nat
            BY <3>1, <4>1, <5>1
          <5>3. undefined' \in BOOLEAN /\ probing' \in BOOLEAN
            BY <4>1, Zenon
          <5> QED BY <5>2, <5>3
        <4>4. ~probing'
          BY <4>1
        <4> QED BY <1>4, <4>1, <4>2, <4>3, <4>4 DEF SenderTypes
      <3> QED BY <3>2, <3>3, <3>4
    <2> QED BY <2>1, <2>2
  <1>7. SenderTypes'
    BY <1>2, <1>3, <1>4, <1>5, <1>6 DEF SenderTypes, Sender!sequence_length, Sender!One
  <1>8. ReceiverTypes'
    BY <1>1 DEF TypeInv, ReceiverTypes, HasRoom, vars, rvars, tvars
  <1>9. NetworkTypes'
    BY <1>1 DEF TypeInv, NetworkTypes
  <1> QED BY <1>7, <1>8, <1>9 DEF TypeInv

LEMMA ReadsTypes == ASSUME TypeInv, ApplicationReads PROVE TypeInv'
  <1>1. Application /\ UNCHANGED <<svars, nvars>>
    BY DEF ApplicationReads
  <1>2. PICK len \in 1..output.capacity : Read(len) /\ UNCHANGED tvars
    BY <1>1 DEF Application
  <1>3. output' = Pop(output, len) /\ waiting_index' = waiting_index
    BY <1>2 DEF Read
  <1>4. HasRoom(output')
    <2>1. len \in Nat
      OBVIOUS
    <2> QED BY <1>3, <2>1, PopRoom DEF TypeInv, ReceiverTypes
  <1>5. ReceiverTypes'
    BY <1>2, <1>3, <1>4 DEF TypeInv, ReceiverTypes, HasRoom, tvars
  <1>6. SenderTypes'
    BY <1>1, SenderTypesSame DEF TypeInv
  <1>7. NetworkTypes'
    BY <1>1 DEF TypeInv, NetworkTypes, nvars
  <1> QED BY <1>5, <1>6, <1>7 DEF TypeInv

LEMMA SameTypes == ASSUME TypeInv, UNCHANGED <<vars, svars>>,
                          \A m \in up' : m \in up, \A a \in down' : a \in down
                   PROVE  TypeInv'
  <1>1. ReceiverTypes'
    BY DEF TypeInv, ReceiverTypes, HasRoom, vars, rvars, tvars
  <1>2. SenderTypes'
    BY SenderTypesSame DEF TypeInv
  <1>3. NetworkTypes'
    BY DEF TypeInv, NetworkTypes
  <1> QED BY <1>1, <1>2, <1>3 DEF TypeInv

LEMMA TransferTypes == ASSUME HalfAssumption, TypeInv, TransferNext PROVE TypeInv'
  <1>1. CASE Write
    BY <1>1, WriteTypes
  <1>2. CASE SenderStep
    BY <1>2, PushTypes, ProbeTypes, TimeoutTypes DEF SenderStep
  <1>3. CASE Reply
    BY <1>3, ReplyTypes
  <1>4. CASE Lose
    <2>1. UNCHANGED <<vars, svars>> /\ (\A m \in up' : m \in up) /\ \A a \in down' : a \in down
      BY <1>4 DEF Lose
    <2> QED BY <2>1, SameTypes
  <1>5. CASE ApplicationReads
    BY <1>5, ReadsTypes
  <1>6. ASSUME NEW m \in up, SegmentArrives(m) PROVE TypeInv'
    BY <1>6, ArrivesTypes
  <1>7. ASSUME NEW a \in down, ReplyArrives(a) PROVE TypeInv'
    BY <1>7, ReplyArrivesTypes
  <1> QED BY <1>1, <1>2, <1>3, <1>4, <1>5, <1>6, <1>7 DEF TransferNext

LEMMA TypesStart ==
  ASSUME ReceiverAssumption, Init, NEW N \in Nat \ {0}, Sender!SenderInit(N), down = {}
  PROVE  TypeInv
  <1>1. RInv(1) /\ ConnectionInv
    BY InitInv DEF IInv
  <1>2. HasRoom(output)
    <2>1. output \in Streams /\ Len(output.buffer) <= output.capacity
      <3>1. Len(output.buffer) = waiting_index - output.bytes_popped
        BY <1>1, BufferLength DEF RInv
      <3>2. /\ output \in Streams /\ waiting_index \in 0..1
            /\ output.bytes_popped \in Nat /\ output.capacity \in Nat
            /\ waiting_index <= output.bytes_popped + output.capacity
        BY <1>1 DEF RInv, StreamIs, Streams
      <3> QED BY <3>1, <3>2
    <2>2. output \in Buffers(Int)
      BY <2>1 DEF Streams, Buffers
    <2> QED BY <2>1, <2>2 DEF HasRoom
  <1>3. ReceiverTypes
    BY <1>1, <1>2 DEF RInv, StreamIs, ConnectionInv, ReceiverTypes
  <1>4. /\ input = NewStream(N)
        /\ SeqFNum = 0 /\ next_seq = 0 /\ RWSize = 0 /\ last_ackno = 0
        /\ is_SYNed = FALSE /\ is_FINed = FALSE
        /\ window = <<>>
        /\ zero_window_probe = FALSE /\ probing = FALSE /\ probe_msg = <<>>
        /\ undefined = FALSE /\ probes = 0
        /\ up = {}
    BY SameStreams DEF Sender!SenderInit
  <1>5. input \in Streams
    BY <1>4, NewStreams DEF StreamIs
  <1>6. SenderTypes /\ NetworkTypes
    <2>1. /\ is_SYNed \in BOOLEAN /\ is_FINed \in BOOLEAN /\ zero_window_probe \in BOOLEAN
          /\ probing \in BOOLEAN /\ undefined \in BOOLEAN /\ ~probing
      BY <1>4, Zenon
    <2>2. window \in Seq(Messages) /\ probe_msg \in Seq(Messages) /\ DOMAIN window = {}
      BY <1>4
    <2> QED BY <1>4, <1>5, <2>1, <2>2 DEF SenderTypes, NetworkTypes
  <1> QED BY <1>3, <1>6 DEF TypeInv

\* SenderTypeOK is a part of it.
LEMMA SenderTypesOf == ASSUME SenderTypes PROVE Sender!SenderTypeOK
  BY DEF SenderTypes, Sender!SenderTypeOK, Streams

-----------------------------------------------------------------------------
(* The stream. Nothing comes that has not been taken from input_: the       *)
(* receiver's invariant holds of the first bytes_popped_ bytes as it does   *)
(* of all.                                                                  *)

LEMMA InvGrows ==
  ASSUME NEW N \in Nat, NEW P \in Nat, NEW Q \in Nat, P <= Q, Q <= N, IInv(N), IInv(P)
  PROVE  IInv(Q)
  <1>1. StreamIs(P, output, waiting_index) /\ EOF_end_index \in {NoEOF, P} /\ EOF_end_index \in {NoEOF, N}
    BY DEF IInv, RInv
  <1>2. Edge \in Nat /\ waiting_index \in 0..P
    BY <1>1, Window DEF StreamIs
  <1>3. StreamIs(Q, output, waiting_index)
    <2>1. waiting_index \in 0..Q
      BY <1>2
    <2> QED BY <1>1, <2>1 DEF StreamIs
  <1>4. EOF_end_index \in {NoEOF, Q}
    BY <1>1 DEF NoEOF
  <1>5. CacheInv(Q)
    <2>1. Top(P) \in Int /\ Top(Q) \in Int /\ Top(P) <= Top(Q)
      BY <1>2 DEF Top
    <2>2. ASSUME NEW e \in cache PROVE IsEntry(e, waiting_index + 1, Top(Q))
      <3>1. IsEntry(e, waiting_index + 1, Top(P))
        BY DEF IInv, RInv, CacheInv
      <3> QED BY <2>1, <3>1 DEF IsEntry
    <2> QED BY <2>2 DEF IInv, RInv, CacheInv
  <1>6. KnownInv(Q)
    <2>1. 0..(P - 1) \subseteq 0..(Q - 1)
      OBVIOUS
    <2> QED BY <2>1 DEF IInv, RInv, KnownInv
  <1> QED BY <1>3, <1>4, <1>5, <1>6 DEF IInv, RInv

\* The application writes one byte, or closes.
LEMMA WriteAdds ==
  ASSUME NEW N, N \in Nat, InputInv(N), Write
  PROVE  /\ input'.bytes_popped = input.bytes_popped
         /\ input'.bytes_pushed \in {input.bytes_pushed, input.bytes_pushed + 1}
  <1>1. StreamIs(N, input, input.bytes_pushed) /\ input.capacity = N
    BY DEF InputInv
  <1>2. PICK w \in 0..N : w = input.bytes_pushed
    BY <1>1 DEF StreamIs
  <1>3. input' = (IF w < N THEN Push(input, <<w>>) ELSE Close(input))
    BY <1>1, <1>2 DEF Write
  <1>4. CASE w < N
    <2>1. input.bytes_popped \in Nat
      BY <1>1, BufferLength
    <2>2. w + 1 \in w..N /\ w + 1 <= input.bytes_popped + input.capacity
      BY <1>1, <1>2, <1>4, <2>1
    <2>3. <<w>> = Run(w, w + 1)
      BY DEF Run
    <2>4. StreamIs(N, Push(input, Run(w, w + 1)), w + 1) /\ SameRoom(Push(input, Run(w, w + 1)), input)
      BY <1>1, <1>2, <2>2, Pushing
    <2>5. input' = Push(input, Run(w, w + 1))
      BY <1>3, <1>4, <2>3
    <2> QED BY <1>2, <2>4, <2>5 DEF StreamIs, SameRoom
  <1>5. CASE ~(w < N)
    <2>1. input' = Close(input)
      BY <1>3, <1>5
    <2>2. StreamIs(N, Close(input), w) /\ SameRoom(Close(input), input)
      BY <1>1, <1>2, Closing
    <2> QED BY <1>2, <2>1, <2>2 DEF StreamIs, SameRoom
  <1> QED BY <1>4, <1>5

\* What a push takes from input_ has been written to it.
LEMMA PushTakes ==
  ASSUME NEW N, N \in Nat, InputInv(N), SimpleMode, WindowInv(N), next_seq \in Nat, Sender!PushSegment
  PROVE  /\ input'.bytes_pushed = input.bytes_pushed
         /\ input'.bytes_popped \in Nat /\ input.bytes_popped <= input'.bytes_popped
  <1>1. is_SYNed \in BOOLEAN /\ StreamIs(N, input, input.bytes_pushed)
    BY DEF InputInv
  <1>2. PICK syn \in BOOLEAN : Sender!PushSimple(syn)
    BY <1>1 DEF Sender!PushSegment
  <1>3. PICK n \in Nat : n <= Len(input.buffer) /\ input' = Pop(input, n)
    <2>1. PICK q \in Nat, w \in Nat : /\ q = input.bytes_popped /\ w = input.bytes_pushed /\ q <= w
                                   /\ Len(input.buffer) = w - q
      BY <1>1, BufferLength DEF StreamIs, Streams
    <2>2. RWSize \in Nat /\ SeqFNum \in Int
      BY DEF SimpleMode, WindowInv
    <2>3. PICK n \in 0..(w - q) : Sender!Payload(syn) = Run(q, q + n)
      BY <2>1, <2>2, PayloadOf
    <2>4. Len(Run(q, q + n)) = n
      <3>1. q \in Int /\ q + n \in Int /\ q <= q + n /\ (q + n) - q = n
        BY <2>1
      <3> QED BY <3>1, RunIsSeq
    <2>5. input' = Sender!Pop(input, Len(Sender!Payload(syn)))
      BY <1>2, Zenon DEF Sender!PushSimple
    <2>6. input' = Pop(input, n)
      BY <2>3, <2>4, <2>5, SameStreams
    <2> QED BY <2>1, <2>6
  <1>4. StreamIs(N, Pop(input, n), input.bytes_pushed) /\ Pop(input, n).bytes_popped = input.bytes_popped + n
    <2>1. PICK s, w : s = input /\ w = input.bytes_pushed
      OBVIOUS
    <2>2. StreamIs(N, s, w) /\ n <= Len(s.buffer)
      BY <1>1, <1>3, <2>1
    <2>3. StreamIs(N, Pop(s, n), w) /\ Pop(s, n).bytes_popped = s.bytes_popped + n
      BY <2>2, Popping
    <2> QED BY <2>1, <2>3
  <1>5. input.bytes_popped \in Nat
    BY <1>1, BufferLength
  <1> QED BY <1>3, <1>4, <1>5 DEF StreamIs

Sent == \E P \in Nat : P = input.bytes_popped /\ IInv(P)

\* What a step does to the two streams: the application writes, bytes come or none, the
\* application reads.
Writes == UNCHANGED vars /\ input'.bytes_pushed \in {input.bytes_pushed, input.bytes_pushed + 1}
Comes ==
  /\ input'.bytes_pushed = input.bytes_pushed
  /\ SameRoom(output', output) /\ waiting_index <= waiting_index'
IsRead == input'.bytes_pushed = input.bytes_pushed /\ Application

LEMMA SentSteps ==
  ASSUME ReceiverAssumption, NEW N, Fits(N), IInv(N), SenderInv(N), IInv(N)', SenderInv(N)',
         Sent, TransferNext
  PROVE  Sent' /\ (Writes \/ Comes \/ IsRead)
  <1> PICK P \in Nat : P = input.bytes_popped /\ IInv(P)
    BY DEF Sent
  <1>1. N \in Nat /\ HalfAssumption
    BY DEF Fits, ReceiverAssumption
  <1>2. /\ SimpleMode /\ InputInv(N) /\ WindowInv(N)
        /\ StreamIs(N, input, input.bytes_pushed) /\ StreamIs(N, input, input.bytes_pushed)'
    BY DEF SenderInv, InputInv
  <1>3. /\ input \in Streams /\ P <= N
        /\ input'.bytes_popped \in Nat /\ input'.bytes_popped <= N
    BY <1>1, <1>2 DEF StreamIs, Streams
  <1>4. ASSUME UNCHANGED vars, input'.bytes_popped = P
        PROVE  Sent'
    BY <1>4, SameInv DEF Sent
  <1>5. CASE Write
    <2>1. UNCHANGED vars
      BY <1>5 DEF Write
    <2>2. /\ input'.bytes_popped = input.bytes_popped
          /\ input'.bytes_pushed \in {input.bytes_pushed, input.bytes_pushed + 1}
      BY <1>1, <1>2, <1>5, WriteAdds
    <2> QED BY <1>4, <2>1, <2>2 DEF Writes
  <1>6. CASE SenderStep
    <2>1. UNCHANGED vars
      BY <1>6 DEF SenderStep
    <2>2. ~Sender!PushZWP
      BY <1>2 DEF SimpleMode, Sender!PushZWP
    <2>3. CASE Sender!PushSegment
      <3>1. next_seq \in Nat
        BY <1>1, Bounds
      <3>2. /\ input'.bytes_pushed = input.bytes_pushed /\ input'.bytes_popped \in Nat
            /\ P <= input'.bytes_popped
        BY <1>1, <1>2, <2>3, <3>1, PushTakes
      <3>3. IInv(input'.bytes_popped)
        BY <1>1, <1>3, <3>2, InvGrows
      <3>4. PICK Q \in Nat : Q = input'.bytes_popped /\ IInv(Q)
        BY <3>2, <3>3
      <3>5. IInv(Q)'
        BY <2>1, <3>4, SameInv
      <3> QED BY <2>1, <3>2, <3>4, <3>5 DEF Writes, Sent
    <2>4. CASE Sender!Timeout
      BY <1>4, <2>1, <2>4 DEF Sender!Timeout, Sender!svars, Writes
    <2> QED BY <1>6, <2>2, <2>3, <2>4 DEF SenderStep
  <1>7. CASE Reply
    BY <1>4, <1>7 DEF Reply, svars, Writes
  <1>8. CASE Lose
    BY <1>4, <1>8 DEF Lose, svars, Writes
  <1>9. CASE ApplicationReads
    <2>1. Application /\ input' = input
      BY <1>9 DEF ApplicationReads, svars
    <2>2. IInv(P)'
      BY <2>1, ReadInv
    <2> QED BY <2>1, <2>2 DEF IsRead, Sent
  <1>10. ASSUME NEW m \in up, SegmentArrives(m)
         PROVE  Sent' /\ Comes
    <2>1. Receive(m) /\ input' = input
      BY <1>10 DEF SegmentArrives, svars
    <2>2. PICK first \in 0..N, z \in 0..N :
            /\ z \in first..N /\ Carries(m, N, first, z) /\ Found(NumberOf(m, first))
            /\ z <= input.bytes_popped /\ (m.FIN => input.bytes_popped = N)
      BY <1>1, InFlight
    <2>3. first \in 0..P /\ z \in first..P
      BY <1>1, <2>2
    <2>4. Carries(m, P, first, z)
      BY <2>2 DEF Carries
    <2>5. IInv(P)' /\ SameRoom(output', output) /\ waiting_index <= waiting_index'
      BY <2>1, <2>2, <2>3, <2>4, ReceiveInv
    <2> QED BY <2>1, <2>5 DEF Comes, Sent
  <1>11. ASSUME NEW a \in down, ReplyArrives(a)
         PROVE  Sent' /\ Writes
    <2>1. UNCHANGED vars /\ input' = (IF a.RST THEN Sender!SetError(input) ELSE input)
      BY <1>11 DEF ReplyArrives, Sender!ReceiveReply
    <2>2. input'.bytes_pushed = input.bytes_pushed /\ input'.bytes_popped = input.bytes_popped
      BY <1>3, <2>1, SameStreams DEF SetError, Streams
    <2> QED BY <1>4, <2>1, <2>2 DEF Writes
  <1> QED BY <1>5, <1>6, <1>7, <1>8, <1>9, <1>10, <1>11 DEF TransferNext

\* What lies in a stream s grows by the n bytes before v.
Grown(s, t, n, v) ==
  /\ n <= s.capacity /\ Len(s.buffer) + n <= s.capacity
  /\ s.bytes_popped + Len(s.buffer) + n = v
  /\ t.buffer = s.buffer \o [k \in 1..n |-> s.bytes_popped + Len(s.buffer) + k - 1]
  /\ n = 0 => t.buffer = s.buffer

LEMMA BufferGrows ==
  ASSUME NEW N, N \in Nat, NEW s, NEW w, StreamIs(N, s, w),
         NEW M, M \in Nat, NEW t, NEW v, StreamIs(M, t, v), SameRoom(t, s), w <= v
  PROVE  \E n \in Nat : Grown(s, t, n, v)
  <1>1. /\ s.bytes_popped \in Nat /\ s.capacity \in Nat \ {0} /\ w \in Int
        /\ Len(s.buffer) = w - s.bytes_popped
    BY BufferLength
  <1>2. /\ v \in Int /\ t.bytes_popped = s.bytes_popped /\ t.capacity = s.capacity
        /\ v <= s.bytes_popped + s.capacity /\ t.buffer = Run(s.bytes_popped, v)
    BY BufferLength DEF StreamIs, SameRoom
  <1>3. PICK q \in Nat, c \in Nat \ {0} : q = s.bytes_popped /\ c = s.capacity
    BY <1>1
  <1>4. /\ q <= w /\ s.buffer = Run(q, w) /\ t.buffer = Run(q, v)
        /\ w \in Int /\ v \in Int /\ q \in Int /\ v <= q + c
    BY <1>1, <1>2, <1>3 DEF StreamIs
  <1>5. Run(q, w) \o Run(w, v) = Run(q, v)
    BY <1>4, RunJoin
  <1>6. s.bytes_popped + Len(s.buffer) = w
    BY <1>1, <1>3, <1>4
  <1>7. PICK n \in Nat : n = v - w /\ n <= c /\ Len(s.buffer) + n <= c /\ w + n = v /\ (n = 0 => v = w)
    <2>1. PICK a \in Int, b \in Int : a = w /\ b = v
      BY <1>4
    <2>2. a <= b /\ q <= a /\ b <= q + c /\ Len(s.buffer) = a - q
      BY <1>1, <1>3, <1>4, <2>1
    <2>3. b - a \in Nat /\ b - a <= c /\ (a - q) + (b - a) <= c /\ a + (b - a) = b /\ (b - a = 0 => b = a)
      BY <2>2
    <2> QED BY <2>1, <2>2, <2>3
  <1>8. [k \in 1..n |-> s.bytes_popped + Len(s.buffer) + k - 1] = Run(w, v)
    BY <1>6, <1>7 DEF Run
  <1>9. n = 0 => t.buffer = s.buffer
    BY <1>4, <1>7
  <1>10. n <= s.capacity /\ Len(s.buffer) + n <= s.capacity /\ s.bytes_popped + Len(s.buffer) + n = v
    BY <1>3, <1>6, <1>7
  <1> QED BY <1>4, <1>5, <1>8, <1>9, <1>10 DEF Grown

-----------------------------------------------------------------------------
(* Both peers                                                              *)

PeerInv ==
  /\ peer \in {"any", "sender"} /\ prompt \in BOOLEAN
  /\ peer = "any" => prompt /\ IInv(Length) /\ Sender!SenderInit(Small)
  /\ peer = "sender" /\ prompt => \E N \in Inputs : N > 0 /\ IInv(N) /\ SenderInv(N) /\ Sent

LEMMA PeerInit == ASSUME MCInit PROVE PeerInv
  <1>1. ReceiverAssumption /\ Length \in Nat /\ Small \in Nat \ {0} /\ HalfAssumption
    BY EndsAssumption DEF ReceiverAssumption, ReassemblerAssumption
  <1>2. TransferInit /\ Init /\ prompt \in BOOLEAN /\ down = {}
    BY DEF MCInit, TransferInit
  <1>3. PICK N \in Inputs : Sender!SenderInit(N)
    BY <1>2 DEF TransferInit
  <1>4. input.capacity = N
    BY <1>3, SameStreams DEF Sender!SenderInit, NewStream
  <1>5. CASE peer = "any"
    <2>1. prompt /\ N = Small
      BY <1>4, <1>5 DEF MCInit
    <2>2. IInv(Length)
      BY <1>1, <1>2, InitInv
    <2> QED BY <1>2, <1>3, <1>5, <2>1, <2>2 DEF PeerInv
  <1>6. CASE peer = "sender"
    <2>1. N \in Nat \ {0} /\ N > 0
      BY <1>1, <1>4, <1>6 DEF MCInit
    <2>2. Fits(N)
      BY InputsFit
    <2>3. IInv(N)
      BY <1>1, <1>2, <2>1, InitInv
    <2>4. SenderInv(N)
      BY <1>2, <1>3, <2>1, <2>2, <2>3, SenderStarts DEF IInv, ConnectionInv
    <2>5. Sent
      <3>1. input.bytes_popped = 0
        BY <1>3 DEF Sender!SenderInit, Sender!NewStream
      <3>2. IInv(0)
        BY <1>1, <1>2, InitInv
      <3> QED BY <3>1, <3>2 DEF Sent
    <2> QED BY <1>2, <1>6, <2>1, <2>3, <2>4, <2>5 DEF PeerInv
  <1> QED BY <1>5, <1>6 DEF MCInit

LEMMA PeerSteps == ASSUME PeerInv, [MCNext]_<<peer, allvars>> PROVE PeerInv'
  <1>1. ReceiverAssumption /\ Length \in Nat
    BY EndsAssumption DEF ReceiverAssumption, ReassemblerAssumption
  <1>2. CASE UNCHANGED <<peer, allvars>>
    <2>1. UNCHANGED <<peer, vars, svars, nvars>>
      BY <1>2 DEF allvars
    <2>2. /\ UNCHANGED <<vars, input, SeqFNum, next_seq, RWSize, last_ackno, is_SYNed, is_FINed, window,
                    zero_window_probe, probing, probe_msg, undefined, probes>>
          /\ UNCHANGED <<up, prompt, down, isn, peer>>
      BY <2>1 DEF svars, nvars, vars, tvars
    <2>3. \A N \in Inputs : IInv(N) => IInv(N)'
      BY <2>2, SameInv
    <2>4. \A N \in Inputs : IInv(N) /\ SenderInv(N) => SenderInv(N)'
      BY <2>2, SenderSame
    <2>5. IInv(Length) => IInv(Length)'
      BY <2>2, SameInv
    <2>6. Sender!SenderInit(Small) => Sender!SenderInit(Small)'
      BY <2>2 DEF Sender!SenderInit
    <2>7. Sent => Sent'
      BY <2>2, SameInv DEF Sent
    <2> QED BY <2>2, <2>3, <2>4, <2>5, <2>6, <2>7 DEF PeerInv
  <1>3. CASE peer = "any" /\ Next /\ UNCHANGED <<svars, nvars>> /\ UNCHANGED peer
    <2>1. IInv(Length)'
      BY <1>1, <1>3, ArriveInv, ReadInv DEF PeerInv, Next
    <2>2. prompt' = prompt /\ Sender!SenderInit(Small)'
      BY <1>3 DEF PeerInv, Sender!SenderInit, svars, nvars
    <2> QED BY <1>3, <2>1, <2>2 DEF PeerInv
  <1>4. CASE peer = "sender" /\ TransferNext /\ UNCHANGED peer
    <2>1. prompt' = prompt
      BY <1>4, PromptStays
    <2>2. CASE ~prompt
      BY <1>4, <2>1, <2>2 DEF PeerInv
    <2>3. CASE prompt
      <3>1. PICK N \in Inputs : N > 0 /\ IInv(N) /\ SenderInv(N) /\ Sent
        BY <1>4, <2>3 DEF PeerInv
      <3>2. IInv(N)' /\ SenderInv(N)'
        BY <1>1, <1>4, <2>3, <3>1, InputsFit, TransferInv
      <3>3. Sent'
        BY <1>1, <1>4, <3>1, <3>2, InputsFit, SentSteps
      <3> QED BY <1>4, <2>1, <2>3, <3>1, <3>2, <3>3 DEF PeerInv
    <2> QED BY <2>2, <2>3 DEF PeerInv
  <1> QED BY <1>2, <1>3, <1>4 DEF MCNext

LEMMA PeerInvariant == MCSpec => []PeerInv
  BY PeerInit, PeerSteps, PTL DEF MCSpec

LEMMA TruthOf ==
  ASSUME PeerInv, Truthful
  PROVE  \E N \in Nat : N <= Length /\ Length \in Nat /\ IInv(N)
  <1>1. Length \in Nat
    BY EndsAssumption DEF ReceiverAssumption, ReassemblerAssumption
  <1>2. CASE peer = "any"
    BY <1>1, <1>2 DEF PeerInv
  <1>3. CASE peer = "sender" /\ prompt
    <2>1. PICK N \in Inputs : IInv(N)
      BY <1>3 DEF PeerInv
    <2>2. N \in 0..Length
      BY InputsFit
    <2> QED BY <1>1, <2>1, <2>2
  <1> QED BY <1>2, <1>3 DEF Truthful, PeerInv

BothTypes == SenderTypes /\ (peer = "sender" => TypeInv)

LEMMA BothTypesInvariant == MCSpec => []BothTypes
  <1>1. ReceiverAssumption /\ HalfAssumption /\ {Small} \subseteq Nat \ {0}
    BY EndsAssumption DEF ReceiverAssumption, ReassemblerAssumption
  <1>2. ASSUME MCInit PROVE BothTypes
    <2>1. Init /\ down = {}
      BY <1>2 DEF MCInit, TransferInit
    <2>2. PICK N \in Inputs : Sender!SenderInit(N)
      BY <1>2 DEF MCInit, TransferInit
    <2>3. input.capacity = N
      BY <2>2, SameStreams DEF Sender!SenderInit, NewStream
    <2>4. N \in Nat \ {0}
      <3>1. input.capacity = Small \/ input.capacity = Small + 1
        BY <1>2 DEF MCInit
      <3> QED BY <1>1, <2>3, <3>1
    <2>5. TypeInv
      BY <1>1, <2>1, <2>2, <2>4, TypesStart
    <2> QED BY <2>5 DEF BothTypes, TypeInv
  <1>3. ASSUME BothTypes, [MCNext]_<<peer, allvars>> PROVE BothTypes'
    <2>1. CASE UNCHANGED <<peer, allvars>>
      <3>1. UNCHANGED <<peer, vars, svars>> /\ up' = up /\ down' = down
        BY <2>1 DEF allvars, nvars
      <3>2. SenderTypes'
        BY <1>3, <3>1, SenderTypesSame DEF BothTypes
      <3>3. TypeInv => TypeInv'
        BY <3>1, SameTypes
      <3> QED BY <1>3, <3>1, <3>2, <3>3 DEF BothTypes
    <2>2. CASE peer = "any" /\ Next /\ UNCHANGED <<svars, nvars>> /\ UNCHANGED peer
      BY <1>3, <2>2, SenderTypesSame DEF BothTypes
    <2>3. CASE peer = "sender" /\ TransferNext /\ UNCHANGED peer
      BY <1>1, <1>3, <2>3, TransferTypes DEF BothTypes, TypeInv
    <2> QED BY <1>3, <2>1, <2>2, <2>3 DEF MCNext
  <1> QED BY <1>2, <1>3, PTL DEF MCSpec

\* With either peer the variables of both ends have their types: the receiver's while the
\* segments tell the truth, the sender's in both modes. None of its segments is empty, and
\* while a probe is out there is one to send again.
THEOREM TypesCorrect == MCSpec => []TypesOK
  <1>1. PeerInv /\ BothTypes => TypesOK
    <2> SUFFICES ASSUME PeerInv, BothTypes PROVE TypesOK
      OBVIOUS
    <2>1. Truthful => TypeOK
      BY TruthOf, TypeOf
    <2>2. Sender!SenderTypeOK
      BY SenderTypesOf DEF BothTypes
    <2> QED BY <2>1, <2>2 DEF TypesOK
  <1> QED BY <1>1, PeerInvariant, BothTypesInvariant, PTL

\* Whoever sends: every byte is written once and in its place.
THEOREM StreamInPlace == MCSpec => []BytesInPlace
  <1>1. PeerInv => BytesInPlace
    BY TruthOf, PlaceOf DEF BytesInPlace
  <1> QED BY <1>1, PeerInvariant, PTL

\* What waits in the cache lies behind a gap and before the end of the window, no two
\* entries overlap, and size_ counts their bytes.
THEOREM CacheStaysSound == MCSpec => []CacheIsSound
  <1>1. PeerInv => CacheIsSound
    BY TruthOf, CacheOf DEF CacheIsSound
  <1> QED BY <1>1, PeerInvariant, PTL

\* A byte that came when the window had room for it is written or waits until it is.
THEOREM NothingComesTwice == MCSpec => []NoByteLost
  <1>1. PeerInv => NoByteLost
    BY TruthOf, KeptOf DEF NoByteLost
  <1> QED BY <1>1, PeerInvariant, PTL

\* While the receiving application keeps the window open, whatever the network loses,
\* repeats or reorders: nothing is acknowledged that has not come, the sender counts what
\* is in flight, and it keeps every byte it has taken from its input until that has come.
THEOREM SenderKeepsAll == MCSpec => [](Truthful => SenderSound)
  <1>1. PeerInv => (Truthful => SenderSound)
    <2> SUFFICES ASSUME PeerInv, Truthful PROVE SenderSound
      OBVIOUS
    <2>1. CASE peer = "any"
      <3>1. IInv(Length) /\ Sender!SenderInit(Small) /\ Length \in Nat
        BY <2>1, EndsAssumption DEF PeerInv, ReceiverAssumption, ReassemblerAssumption
      <3>2. /\ input.bytes_popped = 0 /\ SeqFNum = 0 /\ next_seq = 0 /\ last_ackno = 0
            /\ window = <<>> /\ probe_msg = <<>>
        BY <3>1 DEF Sender!SenderInit, Sender!NewStream
      <3>3. /\ waiting_index \in Nat /\ checkpoint = waiting_index
            /\ SYN \in {0, 1} /\ FIN \in {0, 1}
        BY <3>1 DEF IInv, RInv, StreamIs, ConnectionInv
      <3>4. last_ackno <= ackno
        BY <3>2, <3>3 DEF ackno
      <3>5. waiting_index..(input.bytes_popped - 1) = {}
        BY <3>2, <3>3
      <3>6. NothingForgotten /\ FlightCounted
        BY <3>2, <3>5 DEF NothingForgotten, FlightCounted
      <3> QED BY <3>4, <3>6 DEF SenderSound
    <2>2. CASE peer = "sender" /\ prompt
      <3>1. PICK N \in Inputs : N > 0 /\ IInv(N) /\ SenderInv(N)
        BY <2>2 DEF PeerInv
      <3>2. N \in Nat
        BY InputsFit
      <3> QED BY <3>1, <3>2, SoundOf
    <2> QED BY <2>1, <2>2 DEF PeerInv, Truthful
  <1> QED BY <1>1, PeerInvariant, PTL

-----------------------------------------------------------------------------
(* The two ends together are a reliable stream                             *)

LEMMA Nothing ==
  ASSUME UNCHANGED output, Written' = Written
  PROVE  UNCHANGED Stream!vars
  BY DEF Stream!vars

LEMMA Delivers ==
  ASSUME NEW N, N \in Nat, StreamIs(N, output, waiting_index),
         NEW M, M \in Nat, StreamIs(M, output', waiting_index'),
         SameRoom(output', output), waiting_index <= waiting_index',
         Written' = Written, waiting_index' <= Written
  PROVE  [Stream!Next]_(Stream!vars)
  <1>1. PICK n \in Nat : Grown(output, output', n, waiting_index')
    BY BufferGrows
  <1>2. /\ n <= output.capacity /\ Len(output.buffer) + n <= output.capacity
        /\ output.bytes_popped + Len(output.buffer) + n = waiting_index'
        /\ output'.buffer = output.buffer \o [k \in 1..n |-> output.bytes_popped + Len(output.buffer) + k - 1]
        /\ n = 0 => output'.buffer = output.buffer
    BY <1>1 DEF Grown
  <1>3. output'.capacity = output.capacity /\ output'.bytes_popped = output.bytes_popped
    BY DEF SameRoom
  <1>4. CASE n = 0
    BY <1>2, <1>3, <1>4 DEF Stream!vars
  <1>5. CASE n # 0
    <2>1. Stream!Deliver(n)
      BY <1>2, <1>3 DEF Stream!Deliver, Stream!Following
    <2>2. n \in 1..output.capacity
      <3>1. output.capacity \in Nat
        BY BufferLength
      <3> QED BY <1>2, <1>5, <3>1
    <2> QED BY <2>1, <2>2 DEF Stream!Next
  <1> QED BY <1>4, <1>5

LEMMA Reads ==
  ASSUME NEW N, N \in Nat, StreamIs(N, output, waiting_index), Application, Written' = Written
  PROVE  Stream!Next
  <1>1. PICK len \in 1..output.capacity : Len(output.buffer) >= len /\ output' = Pop(output, len)
    BY DEF Application, Read
  <1>2. output \in Streams /\ output.capacity \in Nat /\ Len(output.buffer) \in Nat
    BY BufferLength DEF StreamIs, Streams
  <1>3. len \in 1..Len(output.buffer) /\ len \in Nat
    BY <1>1, <1>2
  <1>4. output' = [output EXCEPT !.buffer = SubSeq(@, len + 1, Len(@)), !.bytes_popped = @ + len]
    <2>1. (IF Len(output.buffer) < len THEN Len(output.buffer) ELSE len) = len
      BY <1>2, <1>3
    <2> QED BY <1>1, <2>1 DEF Pop
  <1>5. Stream!Read(len)
    BY <1>2, <1>4 DEF Streams, Stream!Read
  <1> QED BY <1>3, <1>5 DEF Stream!Next

LEMMA StreamStarts == ASSUME MCInit, PeerInv PROVE Truthful => Stream!Init
  <1>1. PICK c \in Capacities : output = NewStream(c)
    BY DEF MCInit, TransferInit, Init, RInit
  <1>2. c \in Nat \ {0} /\ Length \in Nat
    BY EndsAssumption DEF ReceiverAssumption, ReassemblerAssumption
  <1>3. output.capacity = c /\ output.buffer = <<>> /\ output.bytes_popped = 0
    BY <1>1 DEF NewStream
  <1>4. Written \in Nat
    <2>1. PICK N \in Inputs : Sender!SenderInit(N)
      BY DEF MCInit, TransferInit
    <2>2. input.bytes_pushed = 0
      BY <2>1 DEF Sender!SenderInit, Sender!NewStream
    <2> QED BY <1>2, <2>2 DEF Written
  <1> QED BY <1>2, <1>3, <1>4 DEF Stream!Init

LEMMA StreamSteps ==
  ASSUME PeerInv, PeerInv', Truthful, [MCNext]_<<peer, allvars>>
  PROVE  [Stream!Next]_(Stream!vars)
  <1>1. ReceiverAssumption /\ Length \in Nat
    BY EndsAssumption DEF ReceiverAssumption, ReassemblerAssumption
  <1>2. CASE UNCHANGED <<peer, allvars>>
    BY <1>2, Nothing DEF Written, allvars, vars, rvars, svars
  <1>3. CASE peer = "any" /\ Next /\ UNCHANGED <<svars, nvars>> /\ UNCHANGED peer
    <2>1. IInv(Length) /\ Written = Length /\ Written' = Written
      BY <1>3 DEF PeerInv, Written
    <2>2. StreamIs(Length, output, waiting_index)
      BY <2>1 DEF IInv, RInv
    <2>3. CASE Arrive
      <3>1. IInv(Length)' /\ SameRoom(output', output) /\ waiting_index <= waiting_index'
        BY <1>1, <2>1, <2>3, ArriveInv
      <3>2. StreamIs(Length, output', waiting_index')
        BY <3>1 DEF IInv, RInv
      <3>3. waiting_index' <= Written
        BY <1>1, <2>1, <3>2 DEF StreamIs
      <3> QED BY <1>1, <2>1, <2>2, <3>1, <3>2, <3>3, Delivers
    <2>4. CASE Application
      BY <1>1, <2>1, <2>2, <2>4, Reads
    <2> QED BY <1>3, <2>3, <2>4 DEF Next
  <1>4. CASE peer = "sender" /\ TransferNext /\ UNCHANGED peer
    <2>1. prompt /\ Written = input.bytes_pushed /\ Written' = input'.bytes_pushed
      BY <1>4 DEF Truthful, Written
    <2>2. PICK N \in Inputs : IInv(N) /\ SenderInv(N) /\ Sent
      BY <1>4, <2>1 DEF PeerInv
    <2>3. Fits(N) /\ N \in Nat
      BY InputsFit
    <2>4. IInv(N)' /\ SenderInv(N)'
      BY <1>1, <1>4, <2>1, <2>2, <2>3, TransferInv
    <2>5. Sent' /\ (Writes \/ Comes \/ IsRead)
      BY <1>1, <1>4, <2>2, <2>3, <2>4, SentSteps
    <2>6. StreamIs(N, output, waiting_index)
      BY <2>2 DEF IInv, RInv
    <2>7. CASE Writes
      <3>1. UNCHANGED output /\ Written' \in {Written, Written + 1}
        BY <2>1, <2>7 DEF Writes, vars, rvars
      <3>2. CASE Written' = Written
        BY <3>1, <3>2, Nothing
      <3>3. CASE Written' = Written + 1
        BY <3>1, <3>3 DEF Stream!Next, Stream!Write
      <3> QED BY <3>1, <3>2, <3>3
    <2>8. CASE Comes
      <3>1. Written' = Written /\ SameRoom(output', output) /\ waiting_index <= waiting_index'
        BY <2>1, <2>8 DEF Comes
      <3>2. PICK P \in Nat : P = input'.bytes_popped /\ StreamIs(P, output', waiting_index')
        BY <2>5 DEF Sent, IInv, RInv
      <3>3. waiting_index' <= Written
        <4>1. StreamIs(N, input', input'.bytes_pushed)
          BY <2>4 DEF SenderInv, InputInv
        <4>2. P <= input'.bytes_pushed /\ input'.bytes_pushed \in Int
          BY <2>3, <3>2, <4>1 DEF StreamIs
        <4>3. waiting_index' \in 0..P
          BY <3>2 DEF StreamIs
        <4> QED BY <2>1, <3>1, <4>2, <4>3
      <3> QED BY <2>3, <2>6, <3>1, <3>2, <3>3, Delivers
    <2>9. CASE IsRead
      <3>1. Application /\ Written' = Written
        BY <2>1, <2>9 DEF IsRead
      <3> QED BY <2>3, <2>6, <3>1, Reads
    <2> QED BY <2>5, <2>7, <2>8, <2>9
  <1> QED BY <1>2, <1>3, <1>4 DEF MCNext

\* Whoever sends, whatever the network does: the sending application, the two ends and the
\* network together are one reliable stream. What the application has read is what was
\* written, in order, each byte once, and none before it was written; no step of a
\* retransmission, of an acknowledgement or of the cache is seen.
THEOREM StreamImplemented == MCSpec => ImplementsStream
  <1>1. MCInit /\ PeerInv => (Truthful => Stream!Init)
    BY StreamStarts
  <1>2. PeerInv /\ PeerInv' /\ [MCNext]_<<peer, allvars>> => [Truthful => Stream!Next]_(Stream!vars)
    BY StreamSteps
  <1> QED BY <1>1, <1>2, PeerInvariant, PTL DEF MCSpec, ImplementsStream
=============================================================================
