--------------------------- MODULE SequenceLemmas ---------------------------
(***************************************************************************)
(* Facts about numbers and sequences that the proofs of several modules    *)
(* need: induction over a set of numbers, and what FlattenSeq makes of a   *)
(* sequence that grows.                                                    *)
(***************************************************************************)
EXTENDS Integers, Sequences, SequencesExt, FiniteSetsExt, SequenceTheorems,
        WellFoundedInduction, TLAPS

\* A set of natural numbers that is not empty has a minimum, and Min is it.
LEMMA Less ==
  ASSUME NEW x \in Nat, NEW y \in Nat, <<x, y>> \notin OpToRel(<, Nat)
  PROVE  ~(x < y)
  <1> SUFFICES ASSUME x < y PROVE <<x, y>> \in OpToRel(<, Nat)
    OBVIOUS
  <1>1. <<x, y>> \in Nat \X Nat
    OBVIOUS
  <1>2. <<x, y>>[1] = x /\ <<x, y>>[2] = y
    OBVIOUS
  <1>3. <<x, y>>[1] < <<x, y>>[2]
    BY <1>2
  <1> QED BY <1>1, <1>3, Zenon DEF OpToRel

LEMMA MinOf ==
  ASSUME NEW S, S \subseteq Nat, S # {}
  PROVE  Min(S) \in S /\ \A x \in S : Min(S) <= x
  <1>1. PICK x \in S : \A y \in S : <<y, x>> \notin OpToRel(<, Nat)
    BY NatLessThanWellFounded, WFMin, Zenon
  <1>2. ASSUME NEW y \in S PROVE ~(y < x)
    <2>1. <<y, x>> \notin OpToRel(<, Nat)
      BY <1>1, Zenon
    <2>2. x \in Nat /\ y \in Nat
      OBVIOUS
    <2> QED BY <2>1, <2>2, Less, Zenon
  <1>3. ASSUME NEW y \in S PROVE x <= y
    BY <1>2
  <1> QED BY <1>3 DEF Min

\* Induction. A property of numbers is the set of those that have it.
LEMMA NatSet ==
  ASSUME NEW S, 0 \in S, \A n \in Nat : n \in S => n + 1 \in S
  PROVE  \A n \in Nat : n \in S
  <1> DEFINE T == {n \in Nat : n \notin S}
  <1>1. CASE T = {}
    BY <1>1
  <1>2. CASE T # {}
    <2>1. PICK m \in T : \A n \in T : m <= n
      BY <1>2, MinOf, T \subseteq Nat
    <2>2. m \in Nat /\ m # 0 /\ m - 1 \in Nat /\ m - 1 + 1 = m
      OBVIOUS
    <2>3. m - 1 \in S
      BY <2>1, <2>2
    <2> QED BY <2>2, <2>3
  <1> QED BY <1>1, <1>2

-----------------------------------------------------------------------------
(* Concatenation                                                             *)

LEMMA AppendIs ==
  ASSUME NEW S, NEW s \in Seq(S), NEW x \in S, NEW n, n = Len(s) + 1
  PROVE  Append(s, x) = [i \in 1..n |-> IF i = n THEN x ELSE s[i]]
  <1>1. PICK t : t = [i \in 1..n |-> IF i = n THEN x ELSE s[i]]
    OBVIOUS
  <1>2. Len(s) \in Nat /\ n \in Nat /\ \A i \in 1..Len(s) : s[i] \in S
    OBVIOUS
  <1>3. t \in Seq(S) /\ Len(t) = n
    <2>1. t \in [1..n -> S]
      BY <1>1, <1>2
    <2> QED BY <1>2, <2>1
  <1>4. Append(s, x) \in Seq(S) /\ Len(Append(s, x)) = n
    OBVIOUS
  <1>5. \A i \in 1..n : Append(s, x)[i] = t[i]
    BY <1>1, <1>2
  <1> QED BY <1>1, <1>3, <1>4, <1>5, SeqEqual

\* Concatenation by a name of its own, which the provers leave alone.
Cat(s, t) == s \o t

LEMMA CatType ==
  ASSUME NEW S, NEW s \in Seq(S), NEW t \in Seq(S)
  PROVE  Cat(s, t) \in Seq(S)
  BY ConcatProperties DEF Cat

LEMMA CatAssociative ==
  ASSUME NEW S, NEW s \in Seq(S), NEW t \in Seq(S), NEW u \in Seq(S)
  PROVE  Cat(Cat(s, t), u) = Cat(s, Cat(t, u))
  BY ConcatAssociative DEF Cat

LEMMA CatEmpty ==
  ASSUME NEW S, NEW s \in Seq(S)
  PROVE  Cat(s, <<>>) = s /\ Cat(<<>>, s) = s
  BY ConcatEmptySeq DEF Cat

\* The elements of a concatenation.
LEMMA CatIs ==
  ASSUME NEW S, NEW s \in Seq(S), NEW t \in Seq(S), NEW g, g = s \o t
  PROVE  /\ g \in Seq(S) /\ Len(g) = Len(s) + Len(t)
         /\ \A i \in 1..Len(s) : g[i] = s[i]
         /\ \A i \in 1..Len(t) : g[Len(s) + i] = t[i]
  <1>1. Len(s) \in Nat /\ Len(t) \in Nat
    OBVIOUS
  <1>2. /\ g \in Seq(S) /\ Len(g) = Len(s) + Len(t)
        /\ \A i \in 1..(Len(s) + Len(t)) : g[i] = IF i <= Len(s) THEN s[i] ELSE t[i - Len(s)]
    BY ConcatProperties
  <1>3. ASSUME NEW i \in 1..Len(s) PROVE g[i] = s[i]
    <2>1. i \in 1..(Len(s) + Len(t)) /\ i <= Len(s)
      BY <1>1
    <2> QED BY <1>2, <2>1
  <1>4. ASSUME NEW i \in 1..Len(t) PROVE g[Len(s) + i] = t[i]
    <2>1. Len(s) + i \in 1..(Len(s) + Len(t)) /\ ~(Len(s) + i <= Len(s)) /\ Len(s) + i - Len(s) = i
      BY <1>1
    <2> QED BY <1>2, <2>1
  <1> QED BY <1>2, <1>3, <1>4

LEMMA CatAppend ==
  ASSUME NEW S, NEW s \in Seq(S), NEW t \in Seq(S), NEW x \in S
  PROVE  Cat(s, Append(t, x)) = Append(Cat(s, t), x)
  <1>1. PICK u \in Seq(S) : u = <<x>>
    <2>1. <<x>> \in Seq(S)
      OBVIOUS
    <2> QED BY <2>1, Zenon
  <1>2. Append(t, x) = Cat(t, u) /\ Append(Cat(s, t), x) = Cat(Cat(s, t), u)
    BY <1>1, CatType, AppendIsConcat, Zenon DEF Cat
  <1>3. Cat(Cat(s, t), u) = Cat(s, Cat(t, u))
    BY CatAssociative
  <1> QED BY <1>2, <1>3, Zenon

\* What is added to the last of four parts is added to the whole.
LEMMA CatLast ==
  ASSUME NEW S, NEW a \in Seq(S), NEW b \in Seq(S), NEW c \in Seq(S), NEW d \in Seq(S),
         NEW e \in Seq(S)
  PROVE  Cat(a, Cat(b, Cat(c, Cat(d, e)))) = Cat(Cat(a, Cat(b, Cat(c, d))), e)
  BY CatAssociative, CatType

LEMMA CatCancel ==
  ASSUME NEW S, NEW s \in Seq(S), NEW t \in Seq(S), NEW u \in Seq(S), Cat(s, t) = Cat(s, u)
  PROVE  t = u
  <1>1. PICK g : g = Cat(s, t)
    OBVIOUS
  <1>2. Len(g) = Len(s) + Len(t) /\ \A i \in 1..Len(t) : g[Len(s) + i] = t[i]
    BY <1>1, CatIs DEF Cat
  <1>3. Len(g) = Len(s) + Len(u) /\ \A i \in 1..Len(u) : g[Len(s) + i] = u[i]
    <2>1. g = s \o u
      BY <1>1 DEF Cat
    <2> QED BY <2>1, CatIs
  <1>4. Len(t) = Len(u)
    <2>1. Len(s) \in Nat /\ Len(t) \in Nat /\ Len(u) \in Nat
      OBVIOUS
    <2> QED BY <1>2, <1>3, <2>1
  <1>5. \A i \in 1..Len(t) : t[i] = u[i]
    BY <1>2, <1>3, <1>4
  <1> QED BY <1>4, <1>5, SeqEqual

\* One of b and f is the beginning of the other.
Begins(b, f) == \A i \in 1..Len(b) : i <= Len(f) => b[i] = f[i]

\* Where a sequence is split in two places, either cut goes through the other's parts.
LEMMA CatMeets ==
  ASSUME NEW S, NEW b \in Seq(S), NEW s \in Seq(S), NEW f \in Seq(S), NEW r \in Seq(S),
         Cat(b, s) = Cat(f, r)
  PROVE  /\ Begins(b, f)
         /\ Len(b) >= Len(f) => /\ SubSeq(b, Len(f) + 1, Len(b)) \in Seq(S)
                                /\ Cat(SubSeq(b, Len(f) + 1, Len(b)), s) = r
         /\ Len(b) < Len(f) => s # <<>> /\ s[1] = f[Len(b) + 1]
  <1>1. PICK g : g = Cat(b, s)
    OBVIOUS
  <1>2. /\ Len(g) = Len(b) + Len(s) /\ \A i \in 1..Len(b) : g[i] = b[i]
        /\ \A i \in 1..Len(s) : g[Len(b) + i] = s[i]
    <2>1. g = b \o s
      BY <1>1 DEF Cat
    <2> QED BY <2>1, CatIs
  <1>3. Len(g) = Len(f) + Len(r) /\ \A i \in 1..Len(f) : g[i] = f[i]
    <2>1. g = f \o r
      BY <1>1 DEF Cat
    <2> QED BY <2>1, CatIs
  <1>4. Len(b) \in Nat /\ Len(s) \in Nat /\ Len(f) \in Nat /\ Len(r) \in Nat
    OBVIOUS
  <1>5. Begins(b, f)
    BY <1>2, <1>3, <1>4 DEF Begins
  <1>6. ASSUME Len(b) >= Len(f)
        PROVE  /\ SubSeq(b, Len(f) + 1, Len(b)) \in Seq(S)
               /\ Cat(SubSeq(b, Len(f) + 1, Len(b)), s) = r
    <2>1. PICK h, t : h = SubSeq(b, 1, Len(f)) /\ t = SubSeq(b, Len(f) + 1, Len(b))
      OBVIOUS
    <2>2. t \in Seq(S)
      <3>1. \A i \in (Len(f) + 1)..Len(b) : b[i] \in S
        BY <1>4
      <3> QED BY <1>4, <2>1, <3>1, SubSeqProperties
    <2>3. h \in Seq(S) /\ Len(h) = Len(f) /\ \A i \in 1..Len(f) : h[i] = b[i]
      <3>1. \A i \in 1..Len(f) : b[i] \in S
        BY <1>4, <1>6
      <3>2. /\ h \in Seq(S) /\ Len(h) = IF 1 <= Len(f) THEN Len(f) - 1 + 1 ELSE 0
            /\ \A i \in 1..(Len(f) - 1 + 1) : h[i] = b[1 + i - 1]
        BY <1>4, <2>1, <3>1, SubSeqProperties
      <3> QED BY <1>4, <3>2
    <2>4. h = f
      <3>1. \A i \in 1..Len(f) : h[i] = f[i]
        BY <1>4, <1>5, <1>6, <2>3 DEF Begins
      <3> QED BY <2>3, <3>1, SeqEqual
    <2>5. Cat(h, t) = b
      <3>1. SubSeq(b, 1, Len(f)) \o SubSeq(b, Len(f) + 1, Len(b)) = SubSeq(b, 1, Len(b))
        <4>1. /\ 1 \in 1..(Len(b) + 1) /\ Len(f) \in (1 - 1)..Len(b)
              /\ Len(b) \in Len(f)..Len(b)
          BY <1>4, <1>6
        <4> QED BY <4>1, ConcatAdjacentSubSeq
      <3>2. SubSeq(b, 1, Len(b)) = b
        BY SubSeqFull
      <3> QED BY <2>1, <3>1, <3>2, Zenon DEF Cat
    <2>6. Cat(f, Cat(t, s)) = Cat(f, r)
      <3>1. Cat(Cat(f, t), s) = Cat(f, Cat(t, s))
        BY <2>2, CatAssociative
      <3> QED BY <2>4, <2>5, <3>1
    <2> QED BY <2>1, <2>2, <2>6, CatType, CatCancel
  <1>7. ASSUME Len(b) < Len(f) PROVE s # <<>> /\ s[1] = f[Len(b) + 1]
    <2>1. Len(s) >= 1 /\ 1 \in 1..Len(s) /\ Len(b) + 1 \in 1..Len(f)
      BY <1>2, <1>3, <1>4, <1>7
    <2>2. g[Len(b) + 1] = s[1] /\ g[Len(b) + 1] = f[Len(b) + 1]
      BY <1>2, <1>3, <2>1
    <2>3. s # <<>>
      BY <2>1
    <2> QED BY <2>2, <2>3
  <1> QED BY <1>5, <1>6, <1>7

\* The two parts of a sequence that is cut.
LEMMA SplitAt ==
  ASSUME NEW S, NEW s \in Seq(S), NEW n \in 1..Len(s)
  PROVE  /\ SubSeq(s, 1, n) \in Seq(S) /\ Len(SubSeq(s, 1, n)) = n /\ SubSeq(s, 1, n) # <<>>
         /\ SubSeq(s, n + 1, Len(s)) \in Seq(S)
         /\ SubSeq(s, 1, n) \o SubSeq(s, n + 1, Len(s)) = s
         /\ n = Len(s) => SubSeq(s, 1, n) = s /\ SubSeq(s, n + 1, Len(s)) = <<>>
  <1>1. \A i \in 1..Len(s) : s[i] \in S
    OBVIOUS
  <1>2. SubSeq(s, 1, n) \in Seq(S) /\ Len(SubSeq(s, 1, n)) = n
    BY <1>1, SubSeqProperties
  <1>3. SubSeq(s, n + 1, Len(s)) \in Seq(S)
    BY <1>1, SubSeqProperties
  <1>4. SubSeq(s, 1, n) \o SubSeq(s, n + 1, Len(s)) = SubSeq(s, 1, Len(s))
    BY ConcatAdjacentSubSeq
  <1>5. SubSeq(s, 1, Len(s)) = s
    BY SubSeqFull
  <1>6. n = Len(s) => SubSeq(s, n + 1, Len(s)) = <<>>
    BY SubSeqEmpty
  <1>7. SubSeq(s, 1, n) # <<>>
    BY <1>2
  <1> QED BY <1>2, <1>3, <1>4, <1>5, <1>6, <1>7, Zenon

-----------------------------------------------------------------------------
(* FlattenSeq                                                              *)

\* f holds the beginnings of the flattened sequence, up to the n-th.
Flattens(f, ss, n) ==
  \A i \in 1..n : f[i] = IF i = 1 THEN ss[i] ELSE f[i - 1] \o ss[i]

LEMMA FlattenExists ==
  ASSUME NEW S, NEW ss \in Seq(Seq(S))
  PROVE  \E f \in [1..Len(ss) -> Seq(S)] : Flattens(f, ss, Len(ss))
  <1> DEFINE T == {n \in Nat : n <= Len(ss) => \E f \in [1..n -> Seq(S)] : Flattens(f, ss, n)}
  <1>1. 0 \in T
    <2>1. [i \in 1..0 |-> <<>>] \in [1..0 -> Seq(S)]
      OBVIOUS
    <2>2. 1..0 = {}
      OBVIOUS
    <2>3. Flattens([i \in 1..0 |-> <<>>], ss, 0)
      BY <2>2 DEF Flattens
    <2> QED BY <2>1, <2>3
  <1>2. ASSUME NEW n \in Nat, n \in T PROVE n + 1 \in T
    <2> SUFFICES ASSUME n + 1 <= Len(ss)
                 PROVE  \E f \in [1..(n + 1) -> Seq(S)] : Flattens(f, ss, n + 1)
      OBVIOUS
    <2>1. PICK f \in [1..n -> Seq(S)] : Flattens(f, ss, n)
      BY <1>2
    <2> DEFINE g == [i \in 1..(n + 1) |->
                       IF i = n + 1 THEN (IF i = 1 THEN ss[i] ELSE f[n] \o ss[i]) ELSE f[i]]
    <2>2. \A i \in 1..(n + 1) : ss[i] \in Seq(S)
      OBVIOUS
    <2>3. n # 0 => f[n] \in Seq(S)
      OBVIOUS
    <2>4. g \in [1..(n + 1) -> Seq(S)]
      <3> SUFFICES ASSUME NEW i \in 1..(n + 1)
                   PROVE  (IF i = n + 1 THEN (IF i = 1 THEN ss[i] ELSE f[n] \o ss[i]) ELSE f[i]) \in Seq(S)
        OBVIOUS
      <3>1. CASE i = n + 1
        BY <3>1, <2>2, <2>3
      <3>2. CASE i # n + 1
        BY <3>2
      <3> QED BY <3>1, <3>2
    <2>5. Flattens(g, ss, n + 1)
      <3> SUFFICES ASSUME NEW i \in 1..(n + 1)
                   PROVE  g[i] = IF i = 1 THEN ss[i] ELSE g[i - 1] \o ss[i]
        BY DEF Flattens
      <3>1. CASE i = n + 1
        <4>1. i # 1 => i - 1 \in 1..(n + 1) /\ g[i - 1] = f[n]
          BY <3>1
        <4> QED BY <3>1, <4>1
      <3>2. CASE i # n + 1
        <4>1. i \in 1..n /\ g[i] = f[i]
          BY <3>2
        <4>2. i # 1 => i - 1 \in 1..(n + 1) /\ g[i - 1] = f[i - 1]
          BY <3>2
        <4> QED BY <4>1, <4>2, <2>1 DEF Flattens
      <3> QED BY <3>1, <3>2
    <2> QED BY <2>4, <2>5
  <1>3. \A n \in Nat : n \in T
    <2> HIDE DEF T
    <2> QED BY <1>1, <1>2, NatSet
  <1> QED BY <1>3

\* There is only one such f, and it does not depend on what comes behind.
Agree(ss, tt, n) == \A i \in 1..n : ss[i] = tt[i]

LEMMA FlattenUnique ==
  ASSUME NEW ss, NEW tt, NEW k \in Nat,
         NEW f, NEW g, Flattens(f, ss, k), Flattens(g, tt, k), Agree(ss, tt, k)
  PROVE  Agree(f, g, k)
  <1> DEFINE T == {n \in Nat : n \in 1..k => f[n] = g[n]}
  <1>1. 0 \in T
    OBVIOUS
  <1>2. ASSUME NEW n \in Nat, n \in T PROVE n + 1 \in T
    <2> SUFFICES ASSUME n + 1 \in 1..k PROVE f[n + 1] = g[n + 1]
      OBVIOUS
    <2>1. /\ f[n + 1] = IF n + 1 = 1 THEN ss[n + 1] ELSE f[n + 1 - 1] \o ss[n + 1]
          /\ g[n + 1] = IF n + 1 = 1 THEN tt[n + 1] ELSE g[n + 1 - 1] \o tt[n + 1]
          /\ ss[n + 1] = tt[n + 1]
      BY DEF Flattens, Agree
    <2>2. CASE n = 0
      BY <2>1, <2>2
    <2>3. CASE n # 0
      <3>1. n \in 1..k /\ n + 1 - 1 = n /\ n + 1 # 1
        BY <2>3
      <3> QED BY <1>2, <2>1, <3>1
    <2> QED BY <2>2, <2>3
  <1>3. \A n \in Nat : n \in T
    <2> HIDE DEF T
    <2> QED BY <1>1, <1>2, NatSet
  <1> QED BY <1>3 DEF Agree

LEMMA FlattenIs ==
  ASSUME NEW S, NEW ss \in Seq(Seq(S)), Len(ss) # 0
  PROVE  \E f \in [1..Len(ss) -> Seq(S)] : Flattens(f, ss, Len(ss)) /\ FlattenSeq(ss) = f[Len(ss)]
  <1> DEFINE n == Len(ss)
             Rec(f) == f = [i \in 1..n |-> IF i = 1 THEN ss[i] ELSE f[i - 1] \o ss[i]]
             g == CHOOSE f : Rec(f)
  <1>1. n \in Nat \ {0}
    OBVIOUS
  <1>2. PICK f \in [1..n -> Seq(S)] : Flattens(f, ss, n)
    BY FlattenExists
  <1>3. Rec(f)
    BY <1>2 DEF Flattens
  <1>4. Rec(g)
    <2> HIDE DEF Rec
    <2> QED BY <1>3
  <1>5. Flattens(g, ss, n)
    BY <1>4 DEF Flattens
  <1>6. FlattenSeq(ss) = g[n]
    BY DEF FlattenSeq
  <1> HIDE DEF Rec, g
  <1>7. f[n] = g[n]
    <2>1. Agree(ss, ss, n)
      BY DEF Agree
    <2>2. Agree(f, g, n)
      BY <1>1, <1>2, <1>5, <2>1, FlattenUnique, Zenon
    <2> QED BY <1>1, <2>2 DEF Agree
  <1> QED BY <1>2, <1>6, <1>7

LEMMA FlattenEmpty == FlattenSeq(<<>>) = <<>>
  BY DEF FlattenSeq

LEMMA FlattenType ==
  ASSUME NEW S, NEW ss \in Seq(Seq(S))
  PROVE  FlattenSeq(ss) \in Seq(S)
  <1>1. CASE Len(ss) = 0
    <2>1. ss = <<>> /\ <<>> \in Seq(S)
      BY <1>1
    <2> QED BY <2>1, FlattenEmpty
  <1>2. CASE Len(ss) # 0
    <2>1. PICK f \in [1..Len(ss) -> Seq(S)] :
                 Flattens(f, ss, Len(ss)) /\ FlattenSeq(ss) = f[Len(ss)]
      BY <1>2, FlattenIs
    <2>2. Len(ss) \in 1..Len(ss)
      BY <1>2
    <2> QED BY <2>1, <2>2
  <1> QED BY <1>1, <1>2

\* One more sequence behind the others leaves the beginnings as they are.
LEMMA FlattenStep ==
  ASSUME NEW n \in Nat, NEW tt, NEW g, Flattens(g, tt, n + 1)
  PROVE  /\ Flattens(g, tt, n)
         /\ n = 0 => g[n + 1] = tt[n + 1]
         /\ n # 0 => g[n + 1] = g[n] \o tt[n + 1]
  <1>1. ASSUME NEW i \in 1..(n + 1)
        PROVE  g[i] = IF i = 1 THEN tt[i] ELSE g[i - 1] \o tt[i]
    BY DEF Flattens
  <1>2. \A i \in 1..n : i \in 1..(n + 1)
    OBVIOUS
  <1>3. Flattens(g, tt, n)
    BY <1>1, <1>2, Zenon DEF Flattens
  <1>5. ASSUME NEW m, m = n + 1
        PROVE  /\ n = 0 => g[m] = tt[m]
               /\ n # 0 => g[m] = g[n] \o tt[m]
    <2>1. m \in 1..(n + 1) /\ m - 1 = n /\ (n # 0 <=> m # 1)
      BY <1>5
    <2>2. g[m] = IF m = 1 THEN tt[m] ELSE g[m - 1] \o tt[m]
      BY <1>1, <2>1, Zenon
    <2>3. m # 1 => g[m] = g[m - 1] \o tt[m]
      BY <2>2, Zenon
    <2>4. m = 1 => g[m] = tt[m]
      BY <2>2, Zenon
    <2> QED BY <2>1, <2>3, <2>4, Zenon
  <1> QED BY <1>3, <1>5, Zenon

LEMMA FlattenAppend ==
  ASSUME NEW S, NEW ss \in Seq(Seq(S)), NEW s \in Seq(S)
  PROVE  FlattenSeq(Append(ss, s)) = FlattenSeq(ss) \o s
  <1>0. SUFFICES ASSUME NEW tt, tt = Append(ss, s), NEW n, n = Len(ss)
                 PROVE  FlattenSeq(tt) = FlattenSeq(ss) \o s
    OBVIOUS
  <1>1. tt \in Seq(Seq(S)) /\ Len(tt) = n + 1 /\ n \in Nat /\ tt[n + 1] = s
        /\ \A i \in 1..n : ss[i] = tt[i]
    BY <1>0
  <1>2. PICK g \in [1..(n + 1) -> Seq(S)] : Flattens(g, tt, n + 1) /\ FlattenSeq(tt) = g[n + 1]
    <2>1. Len(tt) # 0
      BY <1>1
    <2>2. \E g \in [1..Len(tt) -> Seq(S)] :
             Flattens(g, tt, Len(tt)) /\ FlattenSeq(tt) = g[Len(tt)]
      BY <1>1, <2>1, FlattenIs
    <2> QED BY <1>1, <2>2
  <1>3. /\ Flattens(g, tt, n)
        /\ n = 0 => g[n + 1] = s
        /\ n # 0 => g[n + 1] = g[n] \o s
    <2>1. n \in Nat /\ Flattens(g, tt, n + 1) /\ tt[n + 1] = s
      BY <1>1, <1>2
    <2>2. /\ Flattens(g, tt, n)
          /\ n = 0 => g[n + 1] = tt[n + 1]
          /\ n # 0 => g[n + 1] = g[n] \o tt[n + 1]
      BY <2>1, FlattenStep, Zenon
    <2> QED BY <2>1, <2>2, Zenon
  <1>4. CASE n = 0
    <2>1. FlattenSeq(ss) = <<>>
      <3>1. ss \in Seq(Seq(S)) /\ Len(ss) = 0
        BY <1>0, <1>4
      <3>2. ss = <<>>
        BY <3>1
      <3> QED BY <3>2, FlattenEmpty
    <2>2. FlattenSeq(tt) = s
      BY <1>2, <1>3, <1>4
    <2> QED BY <2>1, <2>2
  <1>5. CASE n # 0
    <2>1. \E f \in [1..Len(ss) -> Seq(S)] :
             Flattens(f, ss, Len(ss)) /\ FlattenSeq(ss) = f[Len(ss)]
      BY <1>0, <1>5, FlattenIs
    <2>2. PICK f \in [1..n -> Seq(S)] : Flattens(f, ss, n) /\ FlattenSeq(ss) = f[n]
      BY <1>0, <2>1
    <2>3. \A i \in 1..n : f[i] = g[i]
      <3>1. Flattens(f, ss, n) /\ Flattens(g, tt, n)
        BY <1>3, <2>2
      <3>2. n \in Nat
        BY <1>1
      <3>3. Agree(ss, tt, n)
        BY <1>1 DEF Agree
      <3>4. Agree(f, g, n)
        BY <3>1, <3>2, <3>3, FlattenUnique, Zenon
      <3> QED BY <3>4 DEF Agree
    <2>4. n \in 1..n
      BY <1>1, <1>5
    <2>5. f[n] = g[n]
      BY <2>3, <2>4
    <2> QED BY <1>2, <1>3, <1>5, <2>2, <2>5
  <1> QED BY <1>4, <1>5

\* One more sequence in front of the others is put in front of them.
LEMMA FlattenCons ==
  ASSUME NEW S, NEW s \in Seq(S), NEW ss \in Seq(Seq(S))
  PROVE  FlattenSeq(Cat(<<s>>, ss)) = Cat(s, FlattenSeq(ss))
  <1> DEFINE T == {n \in Nat : \A tt \in Seq(Seq(S)) : Len(tt) = n =>
                     FlattenSeq(Cat(<<s>>, tt)) = Cat(s, FlattenSeq(tt))}
  <1>0. <<s>> \in Seq(Seq(S)) /\ <<>> \in Seq(S) /\ <<>> \in Seq(Seq(S))
    OBVIOUS
  <1>1. 0 \in T
    <2> SUFFICES ASSUME NEW tt \in Seq(Seq(S)), Len(tt) = 0
                 PROVE  FlattenSeq(Cat(<<s>>, tt)) = Cat(s, FlattenSeq(tt))
      OBVIOUS
    <2>1. tt = <<>>
      OBVIOUS
    <2>2. Cat(<<s>>, <<>>) = <<s>> /\ Cat(s, <<>>) = s /\ Cat(<<>>, s) = s
      BY <1>0, CatEmpty
    <2>3. <<s>> = Append(<<>>, s)
      OBVIOUS
    <2>4. FlattenSeq(Append(<<>>, s)) = Cat(FlattenSeq(<<>>), s)
      BY <1>0, FlattenAppend DEF Cat
    <2> QED BY <2>1, <2>2, <2>3, <2>4, FlattenEmpty
  <1>2. ASSUME NEW n \in Nat, n \in T PROVE n + 1 \in T
    <2>0. n + 1 \in Nat
      OBVIOUS
    <2> SUFFICES ASSUME NEW tt \in Seq(Seq(S)), Len(tt) = n + 1
                 PROVE  FlattenSeq(Cat(<<s>>, tt)) = Cat(s, FlattenSeq(tt))
      BY <2>0, Zenon
    <2>1. PICK front \in Seq(Seq(S)), x \in Seq(S) : Len(front) = n /\ tt = Append(front, x)
      <3>1. PICK front \in Seq(Seq(S)), x \in Seq(S) : tt = Append(front, x)
        <4>1. tt # <<>>
          OBVIOUS
        <4> QED BY <4>1, SequenceEmptyOrAppend, Zenon
      <3>2. Len(Append(front, x)) = Len(front) + 1 /\ Len(front) \in Nat
        OBVIOUS
      <3>3. Len(front) = n
        BY <3>1, <3>2
      <3> QED BY <3>1, <3>3
    <2>2. FlattenSeq(Cat(<<s>>, front)) = Cat(s, FlattenSeq(front))
      BY <1>2, <2>1
    <2>3. Cat(<<s>>, Append(front, x)) = Append(Cat(<<s>>, front), x)
      <3>1. PICK u \in Seq(Seq(S)) : u = <<s>>
        BY <1>0
      <3>2. Cat(u, Append(front, x)) = Append(Cat(u, front), x)
        BY CatAppend
      <3> QED BY <3>1, <3>2, Zenon
    <2>4. FlattenSeq(Append(Cat(<<s>>, front), x)) = Cat(FlattenSeq(Cat(<<s>>, front)), x)
      BY <1>0, CatType, FlattenAppend DEF Cat
    <2>5. FlattenSeq(Append(front, x)) = Cat(FlattenSeq(front), x)
      BY FlattenAppend DEF Cat
    <2>6. Cat(Cat(s, FlattenSeq(front)), x) = Cat(s, Cat(FlattenSeq(front), x))
      BY CatAssociative, FlattenType
    <2> QED BY <2>1, <2>2, <2>3, <2>4, <2>5, <2>6, Zenon
  <1>3. \A n \in Nat : n \in T
    <2> HIDE DEF T
    <2> QED BY <1>1, <1>2, NatSet
  <1> QED BY <1>3

=============================================================================
