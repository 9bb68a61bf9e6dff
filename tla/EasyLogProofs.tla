--------------------------- MODULE EasyLogProofs ----------------------------
(***************************************************************************)
(* Theorems about EasyLog, for every set of threads and every size of the  *)
(* queue of records.                                                       *)
(***************************************************************************)
EXTENDS MCEasyLog, SequenceTheorems, TLAPS

LEMMA TailOf ==
  ASSUME NEW S, NEW q \in Seq(S), q # <<>>
  PROVE  /\ Head(q) \in S /\ Head(q) = q[1] /\ 1 \in DOMAIN q
         /\ Tail(q) \in Seq(S)
         /\ \A i \in DOMAIN Tail(q) : i \in Nat
         /\ \A i \in DOMAIN Tail(q) : i + 1 \in DOMAIN q /\ i + 1 # 1 /\ Tail(q)[i] = q[i+1]
         /\ \A i \in DOMAIN q : i = 1 \/ (i - 1 \in DOMAIN Tail(q) /\ Tail(q)[i-1] = q[i])
OBVIOUS

LEMMA AppendTo ==
  ASSUME NEW S, NEW q \in Seq(S), NEW e \in S
  PROVE  /\ Append(q, e) \in Seq(S)
         /\ Append(q, e)[Len(q) + 1] = e
         /\ Len(q) + 1 \in DOMAIN Append(q, e)
         /\ \A i \in DOMAIN Append(q, e) : i = Len(q) + 1 \/ i \in DOMAIN q
         /\ \A i \in DOMAIN q : i \in DOMAIN Append(q, e) /\ i # Len(q) + 1
                                /\ Append(q, e)[i] = q[i]
OBVIOUS

-----------------------------------------------------------------------------
(* The place of the records and the mutexes.                               *)

\* A thread has a record from its front to its push.
RecordHeld ==
  \A w \in Writers : pc[w] \in {"idle", "lock", "front"} <=> rec[w] = NoRecord

\* The file mutex belongs to the thread between its lock and its unlock; only one that
\* was free when exit destroyed it is unlocked without a lock.
FileHeld ==
  /\ Alive => file_mutex # Destroyed
  /\ \A w \in Writers :
       /\ pc[w] \in {"fill", "print"} => file_mutex = w
       /\ pc[w] = "unlock_file" => file_mutex \in {w, Destroyed}
       /\ file_mutex = w => pc[w] \in {"fill", "print", "unlock_file"}

\* A thread that prints has filled its record with its own line.
Printed ==
  \A w \in Writers : pc[w] = "print" =>
    rec[w] \in Records /\ content[rec[w]] = [who |-> w, call |-> calls[w]]

\* Between front() and pop() the record is still the queue's.
held == [w \in Writers |-> IF pc[w] = "pop" THEN NoRecord ELSE rec[w]]

QueueHeld ==
  /\ q_mutex # Destroyed
  /\ \A w \in Writers : pc[w] \in {"front", "pop", "push"} <=> q_mutex = w

FrontKept ==
  \A w \in Writers : pc[w] = "pop" => void_log_q # <<>> /\ rec[w] = Head(void_log_q)

\* RecordExclusive, position by position.
NoTwoPlaces == \A i, j \in DOMAIN void_log_q : void_log_q[i] = void_log_q[j] => i = j
NoTwoUsers == \A v, w \in Writers : held[v] = held[w] /\ held[v] # NoRecord => v = w
NotBoth == \A i \in DOMAIN void_log_q, w \in Writers : void_log_q[i] # held[w]
Somewhere ==
  \A r \in Records : \/ r \in deleted
                     \/ \E i \in DOMAIN void_log_q : void_log_q[i] = r
                     \/ \E w \in Writers : held[w] = r
DeletedUnused ==
  \A r \in deleted : /\ \A i \in DOMAIN void_log_q : void_log_q[i] # r
                     /\ \A w \in Writers : held[w] # r
DeletedLate == log = "up" => deleted = {}

PlacesInv ==
  /\ NoTwoPlaces
  /\ NoTwoUsers
  /\ NotBoth
  /\ Somewhere
  /\ DeletedUnused
  /\ DeletedLate

\* What a thread needs of its own, whatever has become of the mutexes.
ThreadInv ==
  /\ TypeOK
  /\ RecordHeld
  /\ FileHeld
  /\ Printed

RecordInv ==
  /\ ThreadInv
  /\ Alive => QueueHeld /\ FrontKept /\ PlacesInv

LEMMA RecordInit == Init => RecordInv
<1> SUFFICES ASSUME Init PROVE RecordInv
  OBVIOUS
<1> USE LogAssumption DEF Init, Records, NoRecord
<1>1. TypeOK
  BY DEF TypeOK
<1>2. RecordHeld /\ FileHeld /\ Printed
  BY DEF RecordHeld, FileHeld, Printed
<1>3. QueueHeld /\ FrontKept
  BY DEF QueueHeld, FrontKept
<1>4. \A w \in Writers : held[w] = NoRecord
  BY DEF held
<1>5. PlacesInv
  BY <1>4 DEF PlacesInv, NoTwoPlaces, NoTwoUsers, NotBoth, Somewhere, DeletedUnused, DeletedLate
<1> QED
  BY <1>1, <1>2, <1>3, <1>5 DEF RecordInv, ThreadInv

\* What each thread keeps of its own, step by step.
LEMMA ThreadNext == ThreadInv /\ [Next]_vars => ThreadInv'
<1> SUFFICES ASSUME ThreadInv, [Next]_vars PROVE ThreadInv'
  OBVIOUS
<1> USE LogAssumption DEF ThreadInv, TypeOK, Records, NoRecord
<1>0. CASE UNCHANGED vars
  BY <1>0 DEF vars, RecordHeld, FileHeld, Printed, Alive
<1>1. ASSUME NEW w \in Writers, Call(w) PROVE ThreadInv'
  BY <1>1 DEF Call, RecordHeld, FileHeld, Printed, Alive
<1>2. ASSUME NEW w \in Writers, LockQueue(w) PROVE ThreadInv'
  BY <1>2 DEF LockQueue, LockedBy, RecordHeld, FileHeld, Printed, Alive
<1>3. ASSUME NEW w \in Writers, Retry(w) PROVE ThreadInv'
  BY <1>3 DEF Retry, Unlocked, RecordHeld, FileHeld, Printed, Alive
<1>4. ASSUME NEW w \in Writers, Front(w) PROVE ThreadInv'
  <2>1. Head(void_log_q) \in Records
    BY <1>4, TailOf DEF Front
  <2> QED
    BY <1>4, <2>1 DEF Front, RecordHeld, FileHeld, Printed, Alive
<1>5. ASSUME NEW w \in Writers, Pop(w) PROVE ThreadInv'
  <2>1. Tail(void_log_q) \in Seq(Records)
    BY <1>5, TailOf DEF Pop
  <2> QED
    BY <1>5, <2>1 DEF Pop, Unlocked, RecordHeld, FileHeld, Printed, Alive
<1>6. ASSUME NEW w \in Writers, LockFile(w) PROVE ThreadInv'
  BY <1>6 DEF LockFile, FileFree, RecordHeld, FileHeld, Printed, Alive
<1>7. ASSUME NEW w \in Writers, Fill(w) PROVE ThreadInv'
  <2>1. [who |-> w, call |-> calls[w]] \in Line
    BY DEF Line
  <2>2. rec[w] \in Records
    BY <1>7 DEF Fill, RecordHeld
  <2>3. TypeOK' /\ RecordHeld' /\ FileHeld'
    BY <1>7, <2>1 DEF Fill, RecordHeld, FileHeld, Alive
  <2>4. Printed'
    BY <1>7, <2>1, <2>2 DEF Fill, Printed, FileHeld
  <2> QED
    BY <2>3, <2>4
<1>8. ASSUME NEW w \in Writers, WriteLine(w) PROVE ThreadInv'
  <2>1. lines' = Append(lines, [who |-> w, call |-> calls[w]])
    BY <1>8 DEF WriteLine, Printed
  <2>2. [who |-> w, call |-> calls[w]] \in Line
    BY DEF Line
  <2>3. lines' \in Seq(Line)
    BY <2>1, <2>2
  <2> QED
    BY <1>8, <2>3 DEF WriteLine, RecordHeld, FileHeld, Printed, Alive
<1>9. ASSUME NEW w \in Writers, UseDestroyed(w) PROVE ThreadInv'
  <2>1. CASE pc' = pc
    BY <1>9, <2>1 DEF UseDestroyed, RecordHeld, FileHeld, Printed, Alive
  <2>2. CASE pc' = [pc EXCEPT ![w] = "unlock_file"]
    <3>1. TypeOK' /\ RecordHeld' /\ Printed'
      BY <1>9, <2>2 DEF UseDestroyed, RecordHeld, Printed
    <3>2. FileHeld'
      BY <1>9, <2>2 DEF UseDestroyed, FileHeld, Alive
    <3> QED
      BY <3>1, <3>2
  <2> QED
    BY <1>9, <2>1, <2>2 DEF UseDestroyed
<1>10. ASSUME NEW w \in Writers, UnlockFile(w) PROVE ThreadInv'
  BY <1>10 DEF UnlockFile, Unlocked, RecordHeld, FileHeld, Printed, Alive
<1>11. ASSUME NEW w \in Writers, Push(w) PROVE ThreadInv'
  <2>1. rec[w] \in Records /\ void_log_q' = Append(void_log_q, rec[w])
    BY <1>11 DEF Push, Returned, RecordHeld
  <2>2. void_log_q' \in Seq(Records)
    BY <2>1
  <2> QED
    BY <1>11, <2>2 DEF Push, Unlocked, RecordHeld, FileHeld, Printed, Alive
<1>12. CASE Destruct
  BY <1>12 DEF Destruct, RecordHeld, FileHeld, Printed, Alive
<1>13. CASE DestroyMembers
  BY <1>13 DEF DestroyMembers, AfterDestroy, RecordHeld, FileHeld, Printed, Alive
<1>14. CASE ProcessEnd
  BY <1>14 DEF ProcessEnd, RecordHeld, FileHeld, Printed, Alive
<1> QED
  BY <1>0, <1>1, <1>2, <1>3, <1>4, <1>5, <1>6, <1>7, <1>8, <1>9, <1>10, <1>11, <1>12, <1>13, <1>14
  DEF Next, Step

\* The steps that move no record.
LEMMA PlacesSame ==
  ASSUME PlacesInv, UNCHANGED <<void_log_q, deleted>>, held' = held, log' = "up" => log = "up"
  PROVE  PlacesInv'
BY DEF PlacesInv, NoTwoPlaces, NoTwoUsers, NotBoth, Somewhere, DeletedUnused, DeletedLate

LEMMA HeldSame ==
  ASSUME TypeOK, NEW w \in Writers, NEW s, pc' = [pc EXCEPT ![w] = s], rec' = rec,
         pc[w] # "pop", s # "pop"
  PROVE  held' = held
BY DEF held, TypeOK

LEMMA PlacesPop ==
  ASSUME ThreadInv, QueueHeld, FrontKept, PlacesInv, NEW w \in Writers, Pop(w)
  PROVE  PlacesInv'
<1> USE LogAssumption DEF ThreadInv, PlacesInv, TypeOK, Records, NoRecord
<1> DEFINE q == void_log_q
<1>1. q \in Seq(Records) /\ q # <<>> /\ q' = Tail(q) /\ deleted' = deleted /\ log' = log
  BY DEF Pop
<1>2. /\ Head(q) \in Records /\ Head(q) = q[1] /\ 1 \in DOMAIN q
      /\ Tail(q) \in Seq(Records)
      /\ \A i \in DOMAIN Tail(q) : i \in Nat
      /\ \A i \in DOMAIN Tail(q) : i + 1 \in DOMAIN q /\ i + 1 # 1 /\ Tail(q)[i] = q[i+1]
      /\ \A i \in DOMAIN q : i = 1 \/ (i - 1 \in DOMAIN Tail(q) /\ Tail(q)[i-1] = q[i])
  BY <1>1, TailOf
<1>3. held[w] = NoRecord /\ held' = [held EXCEPT ![w] = Head(q)]
  <2>1. pc[w] = "pop" /\ rec[w] = Head(q) /\ rec' = rec /\ pc' = [pc EXCEPT ![w] = "lock_file"]
    BY DEF Pop, FrontKept
  <2> QED
    BY <2>1 DEF held
<1>4. held \in [Writers -> Records \cup {NoRecord}]
  BY DEF held
<1> HIDE DEF TypeOK
<1>5. NoTwoPlaces'
  <2> SUFFICES ASSUME NEW i \in DOMAIN q', NEW j \in DOMAIN q', q'[i] = q'[j] PROVE i = j
    BY DEF NoTwoPlaces
  <2>1. i \in Nat /\ j \in Nat
    BY <1>1, <1>2
  <2>2. q[i+1] = q[j+1] /\ i+1 \in DOMAIN q /\ j+1 \in DOMAIN q
    BY <1>1, <1>2
  <2> QED
    BY <2>1, <2>2 DEF NoTwoPlaces
<1>6. NoTwoUsers'
  BY <1>2, <1>3, <1>4 DEF NoTwoUsers, NotBoth
<1>7. NotBoth'
  <2> SUFFICES ASSUME NEW i \in DOMAIN q', NEW v \in Writers PROVE q'[i] # held'[v]
    BY DEF NotBoth
  <2>1. q'[i] = q[i+1] /\ i+1 \in DOMAIN q /\ i+1 # 1
    BY <1>1, <1>2
  <2>2. CASE v = w
    BY <2>1, <2>2, <1>2, <1>3, <1>4 DEF NoTwoPlaces
  <2>3. CASE v # w
    BY <2>1, <2>3, <1>3, <1>4 DEF NotBoth
  <2> QED
    BY <2>2, <2>3
<1>8. Somewhere'
  <2> SUFFICES ASSUME NEW r \in Records, r \notin deleted
               PROVE  (\E i \in DOMAIN q' : q'[i] = r) \/ (\E v \in Writers : held'[v] = r)
    BY <1>1 DEF Somewhere
  <2>1. CASE \E i \in DOMAIN q : q[i] = r
    <3>1. PICK i \in DOMAIN q : q[i] = r
      BY <2>1
    <3>2. CASE i = 1
      BY <3>1, <3>2, <1>2, <1>3, <1>4
    <3>3. CASE i # 1
      BY <3>1, <3>3, <1>1, <1>2
    <3> QED
      BY <3>2, <3>3
  <2>2. CASE \E v \in Writers : held[v] = r
    BY <2>2, <1>3, <1>4
  <2> QED
    BY <2>1, <2>2 DEF Somewhere
<1>9. DeletedUnused'
  BY <1>1, <1>2, <1>3, <1>4 DEF DeletedUnused
<1>10. DeletedLate'
  BY <1>1 DEF DeletedLate
<1> QED
  BY <1>5, <1>6, <1>7, <1>8, <1>9, <1>10

LEMMA PlacesPush ==
  ASSUME ThreadInv, PlacesInv, NEW w \in Writers, Push(w)
  PROVE  PlacesInv'
<1> USE LogAssumption DEF ThreadInv, PlacesInv, TypeOK, Records, NoRecord
<1> DEFINE q == void_log_q  e == held[w]
<1>1. q \in Seq(Records) /\ e \in Records /\ q' = Append(q, e)
      /\ held' = [held EXCEPT ![w] = NoRecord] /\ deleted' = deleted /\ log' = log
  <2>1. pc[w] = "push" /\ rec[w] \in Records
    BY DEF Push, RecordHeld
  <2>2. e = rec[w]
    BY <2>1 DEF held
  <2>3. rec' = [rec EXCEPT ![w] = NoRecord] /\ pc' = [pc EXCEPT ![w] = "idle"]
    BY DEF Push
  <2>4. held' = [held EXCEPT ![w] = NoRecord]
    BY <2>1, <2>3 DEF held
  <2> QED
    BY <2>1, <2>2, <2>4 DEF Push, Returned
<1>2. /\ Append(q, e) \in Seq(Records)
      /\ Append(q, e)[Len(q) + 1] = e
      /\ Len(q) + 1 \in DOMAIN Append(q, e)
      /\ \A i \in DOMAIN Append(q, e) : i = Len(q) + 1 \/ i \in DOMAIN q
      /\ \A i \in DOMAIN q : i \in DOMAIN Append(q, e) /\ i # Len(q) + 1
                             /\ Append(q, e)[i] = q[i]
  BY <1>1, AppendTo
<1>3. held \in [Writers -> Records \cup {NoRecord}] /\ deleted \subseteq Records
  BY DEF held
<1> HIDE DEF q, e, TypeOK
<1>5. NoTwoPlaces'
  BY <1>1, <1>2 DEF NoTwoPlaces, NotBoth, q, e
<1>6. NoTwoUsers'
  BY <1>1, <1>3 DEF NoTwoUsers
<1>7. NotBoth'
  <2> SUFFICES ASSUME NEW i \in DOMAIN q', NEW v \in Writers PROVE q'[i] # held'[v]
    BY DEF NotBoth, q
  <2>1. CASE v = w
    BY <2>1, <1>1, <1>2, <1>3
  <2>2. CASE v # w /\ i = Len(q) + 1
    BY <2>2, <1>1, <1>2, <1>3 DEF NoTwoUsers, e
  <2>3. CASE v # w /\ i \in DOMAIN q
    BY <2>3, <1>1, <1>2, <1>3 DEF NotBoth, q
  <2> QED
    BY <2>1, <2>2, <2>3, <1>1, <1>2
<1>8. Somewhere'
  <2> SUFFICES ASSUME NEW r \in Records, r \notin deleted
               PROVE  (\E i \in DOMAIN q' : q'[i] = r) \/ (\E v \in Writers : held'[v] = r)
    BY <1>1 DEF Somewhere, q
  <2>1. CASE \E i \in DOMAIN q : q[i] = r
    BY <2>1, <1>1, <1>2
  <2>2. CASE e = r
    BY <2>2, <1>1, <1>2
  <2>3. CASE \E v \in Writers \ {w} : held[v] = r
    BY <2>3, <1>1, <1>3
  <2> QED
    BY <2>1, <2>2, <2>3 DEF Somewhere, q, e
<1>9. DeletedUnused'
  BY <1>1, <1>2, <1>3 DEF DeletedUnused, q, e
<1>10. DeletedLate'
  BY <1>1 DEF DeletedLate
<1> QED
  BY <1>5, <1>6, <1>7, <1>8, <1>9, <1>10

LEMMA PlacesDestruct ==
  ASSUME PlacesInv, Destruct
  PROVE  PlacesInv'
<1> USE DEF PlacesInv
<1> DEFINE q == void_log_q
<1>1. q' = <<>> /\ deleted' = {q[i] : i \in DOMAIN q} /\ deleted = {} /\ log' # "up"
  BY DEF Destruct, DeletedLate
<1>2. held' = held
  BY DEF Destruct, held
<1>3. DOMAIN q' = {}
  BY <1>1
<1>4. NoTwoPlaces' /\ NoTwoUsers' /\ NotBoth' /\ DeletedLate'
  BY <1>1, <1>2, <1>3 DEF NoTwoPlaces, NoTwoUsers, NotBoth, DeletedLate
<1>5. Somewhere'
  BY <1>1, <1>2 DEF Somewhere
<1>6. DeletedUnused'
  BY <1>1, <1>2, <1>3 DEF DeletedUnused, NotBoth
<1> QED
  BY <1>4, <1>5, <1>6

LEMMA RecordNext == RecordInv /\ [Next]_vars => RecordInv'
<1> SUFFICES ASSUME RecordInv, [Next]_vars PROVE RecordInv'
  OBVIOUS
<1>1. ThreadInv /\ ThreadInv'
  BY ThreadNext DEF RecordInv
<1> SUFFICES ASSUME Alive' PROVE (QueueHeld /\ FrontKept /\ PlacesInv)'
  BY <1>1 DEF RecordInv
<1>2. Alive
  BY LogAssumption DEF Alive, Next, Step, vars, Call, LockQueue, Retry, Front, Pop, LockFile, Fill,
     WriteLine, UseDestroyed, UnlockFile, Push, Destruct, DestroyMembers, ProcessEnd
<1>3. QueueHeld /\ FrontKept /\ PlacesInv
  BY <1>2 DEF RecordInv
<1>4. TypeOK
  BY <1>1 DEF ThreadInv
<1> USE LogAssumption DEF QueueHeld, FrontKept
<1>5. CASE UNCHANGED vars
  <2>1. held' = held
    BY <1>5 DEF vars, held
  <2> QED
    BY <1>3, <1>5, <2>1, PlacesSame DEF vars
<1>6. ASSUME NEW w \in Writers,
             Call(w) \/ LockFile(w) \/ Fill(w) \/ WriteLine(w) \/ UnlockFile(w)
      PROVE  (QueueHeld /\ FrontKept /\ PlacesInv)'
  <2>1. /\ pc[w] \in {"idle", "lock_file", "fill", "print", "unlock_file"}
        /\ UNCHANGED <<void_log_q, q_mutex, rec, deleted, log>>
    BY <1>6 DEF Call, LockFile, Fill, WriteLine, UnlockFile
  <2>2. PICK s \in {"lock", "fill", "print", "unlock_file", "relock"} : pc' = [pc EXCEPT ![w] = s]
    BY <1>6 DEF Call, LockFile, Fill, WriteLine, UnlockFile
  <2>3. held' = held
    BY <1>4, <2>1, <2>2, HeldSame
  <2>4. (QueueHeld /\ FrontKept)'
    BY <1>3, <1>4, <2>1, <2>2 DEF TypeOK
  <2> QED
    BY <1>3, <2>1, <2>3, <2>4, PlacesSame
<1>7. ASSUME NEW w \in Writers, LockQueue(w) PROVE (QueueHeld /\ FrontKept /\ PlacesInv)'
  <2>1. PICK s \in {"front", "push"} : pc' = [pc EXCEPT ![w] = s]
    BY <1>7, <1>4 DEF LockQueue, TypeOK
  <2>2. /\ pc[w] \in {"lock", "relock"}
        /\ q_mutex = Nobody /\ q_mutex' = w
        /\ UNCHANGED <<void_log_q, rec, deleted, log>>
    BY <1>3, <1>7 DEF LockQueue, QueueFree, LockedBy
  <2>3. held' = held
    BY <1>4, <2>1, <2>2, HeldSame
  <2>4. (QueueHeld /\ FrontKept)'
    BY <1>3, <1>4, <2>1, <2>2 DEF TypeOK
  <2> QED
    BY <1>3, <2>2, <2>3, <2>4, PlacesSame
<1>8. ASSUME NEW w \in Writers, Retry(w) PROVE (QueueHeld /\ FrontKept /\ PlacesInv)'
  <2>1. /\ pc[w] = "front" /\ pc' = [pc EXCEPT ![w] = "lock"]
        /\ q_mutex = w /\ q_mutex' = Nobody
        /\ UNCHANGED <<void_log_q, rec, deleted, log>>
    BY <1>3, <1>8 DEF Retry, Unlocked
  <2>2. held' = held
    BY <1>4, <2>1, HeldSame
  <2>3. (QueueHeld /\ FrontKept)'
    BY <1>3, <1>4, <2>1 DEF TypeOK
  <2> QED
    BY <1>3, <2>1, <2>2, <2>3, PlacesSame
<1>9. ASSUME NEW w \in Writers, Front(w) PROVE (QueueHeld /\ FrontKept /\ PlacesInv)'
  <2>1. /\ pc[w] = "front" /\ pc' = [pc EXCEPT ![w] = "pop"] /\ q_mutex = w /\ void_log_q # <<>>
        /\ rec' = [rec EXCEPT ![w] = Head(void_log_q)]
        /\ UNCHANGED <<void_log_q, q_mutex, deleted, log>>
    BY <1>3, <1>9 DEF Front
  <2>2. rec[w] = NoRecord
    BY <1>1, <2>1 DEF ThreadInv, RecordHeld
  <2>3. held' = held
    BY <1>4, <2>1, <2>2 DEF held, TypeOK
  <2>4. (QueueHeld /\ FrontKept)'
    BY <1>3, <1>4, <2>1 DEF TypeOK
  <2> QED
    BY <1>3, <2>1, <2>3, <2>4, PlacesSame
<1>10. ASSUME NEW w \in Writers, Pop(w) \/ Push(w) PROVE (QueueHeld /\ FrontKept /\ PlacesInv)'
  <2>1. /\ pc[w] \in {"pop", "push"} /\ q_mutex = w /\ q_mutex' = Nobody
        /\ \A v \in Writers \ {w} : pc'[v] = pc[v] /\ rec'[v] = rec[v]
    BY <1>3, <1>4, <1>10 DEF Pop, Push, Unlocked, TypeOK
  <2>2. pc'[w] \in {"idle", "lock_file"}
    BY <1>4, <1>10 DEF Pop, Push, TypeOK
  <2>3. (QueueHeld /\ FrontKept)'
    BY <1>3, <2>1, <2>2
  <2> QED
    BY <1>1, <1>3, <1>10, <2>3, PlacesPop, PlacesPush
<1>11. CASE Destruct
  <2>1. (QueueHeld /\ FrontKept)'
    BY <1>3, <1>11 DEF Destruct
  <2> QED
    BY <1>3, <1>11, <2>1, PlacesDestruct
<1>12. /\ ~DestroyMembers /\ ~ProcessEnd
       /\ \A w \in Writers : ~UseDestroyed(w)
  BY <1>2 DEF DestroyMembers, ProcessEnd, UseDestroyed, Alive
<1> QED
  BY <1>5, <1>6, <1>7, <1>8, <1>9, <1>10, <1>11, <1>12 DEF Next, Step

-----------------------------------------------------------------------------
(* The invariants that the runs check.                                     *)

LEMMA RecordInvariant == Spec => []RecordInv
BY RecordInit, RecordNext, PTL DEF Spec

\* The queue holds records, a thread writes lines: no null pointer is ever queued
\* by WriteLog, whatever the schedule and the moment of exit.
THEOREM TypeCorrect == Spec => []TypeOK
<1>1. RecordInv => TypeOK
  BY DEF RecordInv, ThreadInv
<1> QED
  BY <1>1, RecordInvariant, PTL

\* At most one thread at a time is in localtime's shared buffer and in the file, exit or
\* not: of a file mutex that is destroyed no thread comes to the writer, destroyed before.
THEOREM FormattingExcludes == Spec => []OneFormatting
<1>1. RecordInv => OneFormatting
  BY DEF RecordInv, ThreadInv, FileHeld, OneFormatting
<1> QED
  BY <1>1, RecordInvariant, PTL

\* Until exit destroys the queue and its mutex, WriteLog (myeasylog.hpp) neither shares,
\* loses nor uses again a deleted record, for any number of threads and of records; nor
\* does it while ~MyEasyLog empties the queue.
THEOREM RecordsExclude == Spec => []RecordExclusive
<1>1. RecordInv => RecordExclusive
  <2> SUFFICES ASSUME RecordInv, Alive, NEW r \in Records
               PROVE  IF r \in deleted
                      THEN Places(r) = {} /\ Users(r) = {}
                      ELSE \/ Users(r) = {} /\ \E i \in Places(r) : Places(r) = {i}
                           \/ Places(r) = {} /\ \E w \in Users(r) : Users(r) = {w}
    BY DEF RecordExclusive
  <2>a. PlacesInv
    BY DEF RecordInv
  <2>b. \A w \in Writers : w \in Users(r) <=> held[w] = r
    BY LogAssumption DEF Users, held, Records, NoRecord
  <2>c. Users(r) \subseteq Writers
    BY DEF Users
  <2> USE <2>a, <2>b, <2>c DEF PlacesInv, Places
  <2>1. CASE r \in deleted
    BY <2>1 DEF DeletedUnused
  <2>2. ASSUME NEW i \in DOMAIN void_log_q, void_log_q[i] = r, r \notin deleted
        PROVE  Users(r) = {} /\ Places(r) = {i} /\ i \in Places(r)
    BY <2>2 DEF NotBoth, NoTwoPlaces
  <2>3. ASSUME NEW w \in Writers, held[w] = r, r \notin deleted
        PROVE  Places(r) = {} /\ Users(r) = {w} /\ w \in Users(r)
    <3>1. r # NoRecord
      BY LogAssumption DEF Records, NoRecord
    <3> QED
      BY <2>3, <3>1 DEF NotBoth, NoTwoUsers
  <2> HIDE DEF Places
  <2>4. CASE r \notin deleted
    BY <2>2, <2>3, <2>4 DEF Somewhere
  <2> QED
    BY <2>1, <2>4
<1> QED
  BY <1>1, RecordInvariant, PTL

-----------------------------------------------------------------------------
(* EasyLog implements AtomicLog.                                           *)

LEMMA PhaseOf ==
  /\ Phase("idle") = "out"
  /\ \A s \in {"lock", "front", "pop", "lock_file", "fill", "print"} : Phase(s) = "calling"
  /\ \A s \in {"unlock_file", "relock", "push"} : Phase(s) = "written"
BY DEF Phase

phases == [w \in Writers |-> Phase(pc[w])]
stage == IF log = "emptied" THEN "up" ELSE log

LEMMA StageOf ==
  /\ log # "gone" => stage # "gone"
  /\ Alive <=> stage = "up"
  /\ log = "destroyed" <=> stage = "destroyed"
  /\ UNCHANGED log => UNCHANGED stage
BY DEF stage, Alive

\* The steps of WriteLog that its caller cannot see.
LEMMA HiddenStep ==
  ASSUME TypeOK, NEW w \in Writers, NEW s, pc' = [pc EXCEPT ![w] = s], Phase(s) = Phase(pc[w])
  PROVE  phases' = phases
BY DEF phases, TypeOK

LEMMA SeenStep ==
  ASSUME TypeOK, NEW w \in Writers, NEW s, pc' = [pc EXCEPT ![w] = s]
  PROVE  phases[w] = Phase(pc[w]) /\ phases' = [phases EXCEPT ![w] = Phase(s)]
BY DEF phases, TypeOK

LEMMA LogStep ==
  ASSUME RecordInv, NEW w \in Writers, log # "gone", Call(w) \/ Step(w)
  PROVE  Log!Next \/ UNCHANGED <<phases, calls, lines, stage>>
<1> USE DEF RecordInv, ThreadInv
<1>2. CASE Call(w)
  <2>1. phases[w] = "out" /\ phases' = [phases EXCEPT ![w] = "calling"]
    <3>1. pc[w] = "idle" /\ pc' = [pc EXCEPT ![w] = "lock"]
      BY <1>2 DEF Call
    <3>2. phases[w] = Phase("idle") /\ phases' = [phases EXCEPT ![w] = Phase("lock")]
      BY <3>1, SeenStep, Zenon
    <3> QED
      BY <3>2, PhaseOf
  <2>2. Log!Call(w)
    BY <2>1, <1>2, StageOf DEF Call, Log!Call, phases, stage
  <2> QED
    BY <2>2 DEF Log!Next
<1>3. CASE WriteLine(w)
  <2>1. phases[w] = "calling" /\ phases' = [phases EXCEPT ![w] = "written"]
    <3>1. pc[w] = "print" /\ pc' = [pc EXCEPT ![w] = "unlock_file"]
      BY <1>3 DEF WriteLine
    <3>2. phases[w] = Phase("print") /\ phases' = [phases EXCEPT ![w] = Phase("unlock_file")]
      BY <3>1, SeenStep, Zenon
    <3> QED
      BY <3>2, PhaseOf
  <2>2. lines' = Append(lines, [who |-> w, call |-> calls[w]]) /\ stage = "up"
        /\ UNCHANGED <<calls, stage>>
    BY <1>3, StageOf DEF WriteLine, Printed
  <2>3. Log!Write(w)
    BY <2>1, <2>2 DEF Log!Write, Log!LineOf, phases, stage
  <2> QED
    BY <2>3 DEF Log!Next
<1>4. CASE Push(w)
  <2>1. phases[w] = "written" /\ phases' = [phases EXCEPT ![w] = "out"]
    <3>1. pc[w] = "push" /\ pc' = [pc EXCEPT ![w] = "idle"]
      BY <1>4 DEF Push
    <3>2. phases[w] = Phase("push") /\ phases' = [phases EXCEPT ![w] = Phase("idle")]
      BY <3>1, SeenStep, Zenon
    <3> QED
      BY <3>2, PhaseOf
  <2>2. Log!Return(w)
    BY <2>1, <1>4, StageOf DEF Push, Log!Return, phases, stage
  <2> QED
    BY <2>2 DEF Log!Next
<1>5. CASE LockQueue(w) \/ Retry(w) \/ Front(w) \/ Pop(w) \/ LockFile(w) \/ Fill(w) \/ UnlockFile(w)
  <2>1. UNCHANGED <<calls, lines, stage>>
    BY <1>5, StageOf DEF LockQueue, Retry, Front, Pop, LockFile, Fill, UnlockFile
  <2>2. PICK s : pc' = [pc EXCEPT ![w] = s] /\ Phase(s) = Phase(pc[w])
    <3>1. CASE LockQueue(w)
      BY <3>1, PhaseOf DEF LockQueue
    <3>2. CASE Retry(w)
      BY <3>2, PhaseOf DEF Retry
    <3>3. CASE Front(w)
      BY <3>3, PhaseOf DEF Front
    <3>7. CASE Pop(w)
      BY <3>7, PhaseOf DEF Pop
    <3>4. CASE LockFile(w)
      BY <3>4, PhaseOf DEF LockFile
    <3>5. CASE Fill(w)
      BY <3>5, PhaseOf DEF Fill
    <3>6. CASE UnlockFile(w)
      BY <3>6, PhaseOf DEF UnlockFile
    <3> QED
      BY <1>5, <3>1, <3>2, <3>3, <3>4, <3>5, <3>6, <3>7
  <2> QED
    BY <2>1, <2>2, HiddenStep
<1>6. CASE UseDestroyed(w) /\ log' = "gone"
  <2>1. log = "destroyed" /\ UNCHANGED <<pc, calls, lines>>
    BY <1>6 DEF UseDestroyed
  <2>2. Log!Exit
    BY <2>1, <1>6 DEF Log!Exit, stage
  <2> QED
    BY <2>2 DEF Log!Next
<1>7. CASE UseDestroyed(w) /\ pc' = [pc EXCEPT ![w] = "unlock_file"] /\ log' = log
  <2>1. /\ stage = "destroyed" /\ pc[w] \in {"lock_file", "fill", "print"}
        /\ UNCHANGED <<calls, lines, stage>>
    BY <1>7, StageOf DEF UseDestroyed
  <2>2. phases[w] = Phase(pc[w]) /\ phases' = [phases EXCEPT ![w] = Phase("unlock_file")]
    BY <1>7, SeenStep, Zenon
  <2>3. phases[w] = "calling" /\ phases' = [phases EXCEPT ![w] = "written"]
    BY <2>1, <2>2, PhaseOf
  <2>4. Log!Lose(w)
    BY <2>1, <2>3 DEF Log!Lose, phases, stage
  <2> QED
    BY <2>4 DEF Log!Next
<1>8. UseDestroyed(w) => \/ UseDestroyed(w) /\ log' = "gone"
                         \/ UseDestroyed(w) /\ pc' = [pc EXCEPT ![w] = "unlock_file"] /\ log' = log
  BY DEF UseDestroyed
<1> QED
  BY <1>2, <1>3, <1>4, <1>5, <1>6, <1>7, <1>8 DEF Step

LEMMA LogExit ==
  ASSUME Destruct \/ DestroyMembers \/ ProcessEnd
  PROVE  Log!Next \/ UNCHANGED <<phases, calls, lines, stage>>
<1>1. CASE Destruct
  BY <1>1 DEF Destruct, phases, stage
<1>2. CASE DestroyMembers \/ ProcessEnd
  <2>1. Log!Exit
    BY <1>2 DEF DestroyMembers, ProcessEnd, Log!Exit, stage
  <2> QED
    BY <2>1 DEF Log!Next
<1> QED
  BY <1>1, <1>2

\* WriteLog is atomic for its callers, for any number of threads and of records:
\* every call appends one line, its own, between its call and its return, unless exit
\* destroys the writer meanwhile.
THEOREM ImplementsAtomicLog == Spec => ImplementsLog
<1>1. Init => Log!Init
  BY PhaseOf DEF Init, Log!Init
<1>2. RecordInv /\ [Next]_vars => [Log!Next]_(Log!vars)
  <2>1. Log!vars = <<phases, calls, lines, stage>>
    BY DEF Log!vars, phases, stage
  <2>2. UNCHANGED vars => UNCHANGED <<phases, calls, lines, stage>>
    BY DEF vars, phases, stage
  <2> QED
    BY <2>1, <2>2, LogStep, LogExit DEF Next, Log!vars, phases, stage
<1> QED
  BY <1>1, <1>2, RecordInvariant, PTL DEF Spec, ImplementsLog, Log!Spec

-----------------------------------------------------------------------------
(* The file. What a process has formatted of its line is in its buffer or in *)
(* the file, in order; outside WriteLog the buffer is empty, so that a fork  *)
(* copies nothing. A short line stays in the buffer until its flush.         *)

PartsIn(text, n) == {text[i].part : i \in {k \in DOMAIN text : text[k].line = n}}

BufferInv ==
  \A p \in Process :
    /\ at[p] \in {"none", "run"} => buffer[p] = <<>>
    /\ at[p] = "format" =>
         /\ line[p] \in DOMAIN size /\ line[p] \notin returned
         /\ part[p] \in 0..size[line[p]]
         /\ Len(buffer[p]) <= part[p]
         /\ \A i \in DOMAIN buffer[p] :
              buffer[p][i] = [line |-> line[p], part |-> part[p] - Len(buffer[p]) + i]
         /\ PartsIn(file, line[p]) = 1..(part[p] - Len(buffer[p]))
         /\ size[line[p]] <= Capacity => Len(buffer[p]) = part[p]

\* A line is one process's own.
OwnInv ==
  \A p, q \in Process :
    at[p] = "format" /\ at[q] = "format" /\ line[p] = line[q] => p = q

OrderInv ==
  /\ \A i \in DOMAIN file : file[i].line \in DOMAIN size
  /\ \A i, j \in DOMAIN file :
       i < j /\ file[i].line = file[j].line => file[i].part < file[j].part

WholeInv == \A n \in returned : PartsIn(file, n) = 1..size[n]

FileInv == Files!TypeOK /\ BufferInv /\ OwnInv /\ OrderInv /\ WholeInv /\ Files!ShortLinesWhole

LEMMA FileInit == Files!Init => FileInv
<1> SUFFICES ASSUME Files!Init PROVE FileInv
  OBVIOUS
<1> USE DEF Files!Init
<1>1. Files!TypeOK
  BY FilesAssumption DEF Files!ForkLogAssumption, Files!TypeOK
<1>2. BufferInv /\ OwnInv /\ OrderInv /\ WholeInv /\ Files!ShortLinesWhole
  BY DEF BufferInv, OwnInv, OrderInv, WholeInv, Files!ShortLinesWhole
<1> QED
  BY <1>1, <1>2 DEF FileInv

\* The buffer of a process that writes, added to the file: its line goes on there where
\* it stopped, and no other line is touched.
LEMMA WriteOut ==
  ASSUME FileInv, NEW p \in Process, at[p] = "format", UNCHANGED size,
         file' = file \o buffer[p]
  PROVE  /\ file' \in Seq(Files!Piece)
         /\ OrderInv'
         /\ PartsIn(file', line[p]) = 1..part[p]
         /\ \A n : n # line[p] => PartsIn(file', n) = PartsIn(file, n)
         /\ Files!ShortLinesWhole'
<1> DEFINE n == line[p]
           f == Len(file)
           b == Len(buffer[p])
           d == part[p] - b
<1>1. /\ f \in Nat /\ b \in Nat /\ part[p] \in Nat /\ d \in Nat
      /\ n \in DOMAIN size
      /\ DOMAIN file = 1..f
      /\ \A i \in 1..b : buffer[p][i] = [line |-> n, part |-> d + i]
      /\ file \in Seq(Files!Piece) /\ buffer[p] \in Seq(Files!Piece)
  BY DEF FileInv, BufferInv, Files!TypeOK
<1>2. /\ file' \in Seq(Files!Piece)
      /\ DOMAIN file' = 1..(f + b)
      /\ \A i \in 1..f : file'[i] = file[i]
      /\ \A i \in (f + 1)..(f + b) : file'[i] = buffer[p][i - f] /\ i - f \in 1..b
  BY <1>1
<1>3. /\ \A i \in 1..f : file'[i] = file[i]
      /\ \A i \in DOMAIN file' : i \in Int /\ (i \in 1..f \/ i \in (f + 1)..(f + b))
  BY <1>1, <1>2
<1>4. \A i \in (f + 1)..(f + b) : file'[i].line = n /\ file'[i].part = d + (i - f)
  <2> SUFFICES ASSUME NEW i \in (f + 1)..(f + b)
               PROVE  file'[i].line = n /\ file'[i].part = d + (i - f)
    OBVIOUS
  <2>1. i - f \in 1..b /\ file'[i] = buffer[p][i - f]
    BY <1>2
  <2>2. buffer[p][i - f] = [line |-> n, part |-> d + (i - f)]
    BY <2>1, <1>1
  <2> QED
    BY <2>1, <2>2
<1>5. PartsIn(file, n) = 1..d
  BY DEF FileInv, BufferInv
<1> HIDE DEF f, b, d, n
<1>6. \A i \in DOMAIN file : file[i].line = n => file[i].part \in 1..d
  BY <1>5 DEF PartsIn
<1>7. OrderInv'
  <2>1. \A i \in DOMAIN file' : file'[i].line \in DOMAIN size
    BY <1>1, <1>2, <1>3, <1>4 DEF FileInv, OrderInv
  <2>2. ASSUME NEW i \in 1..(f + b), NEW j \in 1..(f + b), i < j,
               file'[i].line = file'[j].line
        PROVE  file'[i].part < file'[j].part
    <3>0. i \in DOMAIN file' /\ j \in DOMAIN file'
      BY <1>2
    <3>1. CASE j \in 1..f
      <4>1. /\ i \in DOMAIN file /\ j \in DOMAIN file
            /\ file'[i] = file[i] /\ file'[j] = file[j]
        BY <2>2, <3>1, <1>1, <1>3
      <4> QED
        BY <2>2, <4>1 DEF FileInv, OrderInv
    <3>2. CASE i \in 1..f /\ j \in (f + 1)..(f + b)
      <4>1. file'[j].line = n /\ file'[j].part = d + (j - f) /\ file'[i] = file[i]
        BY <3>2, <1>3, <1>4
      <4>2. file[i].part \in 1..d
        BY <2>2, <3>2, <4>1, <1>1, <1>6
      <4> QED
        BY <3>2, <4>1, <4>2, <1>1
    <3>3. CASE i \in (f + 1)..(f + b) /\ j \in (f + 1)..(f + b)
      <4>1. file'[i].part = d + (i - f) /\ file'[j].part = d + (j - f)
        BY <3>3, <1>4
      <4> QED
        BY <2>2, <3>3, <4>1, <1>1
    <3> QED
      BY <3>0, <3>1, <3>2, <3>3, <1>3
  <2> QED
    BY <2>1, <2>2, <1>2 DEF OrderInv
<1>8. ASSUME NEW m, m # n PROVE PartsIn(file', m) = PartsIn(file, m)
  <2>1. ASSUME NEW i \in DOMAIN file', file'[i].line = m PROVE i \in DOMAIN file
    BY <2>1, <1>1, <1>3, <1>4, <1>8
  <2>2. \A i \in DOMAIN file : i \in DOMAIN file' /\ file'[i] = file[i]
    BY <1>1, <1>2, <1>3
  <2> QED
    BY <2>1, <2>2 DEF PartsIn
<1>9. PartsIn(file', n) = 1..part[p]
  <2>0. part[p] = d + b
    BY <1>1 DEF d
  <2>1. ASSUME NEW k \in PartsIn(file', n) PROVE k \in 1..part[p]
    <3>1. PICK i \in DOMAIN file' : file'[i].line = n /\ k = file'[i].part
      BY <2>1 DEF PartsIn
    <3>2. CASE i \in 1..f
      BY <2>0, <3>1, <3>2, <1>1, <1>3, <1>6
    <3>3. CASE i \in (f + 1)..(f + b)
      BY <2>0, <3>1, <3>3, <1>1, <1>4, SMTT(30)
    <3> QED
      BY <3>1, <3>2, <3>3, <1>3
  <2>2. ASSUME NEW k \in 1..part[p] PROVE k \in PartsIn(file', n)
    <3>1. CASE k \in 1..d
      <4>1. PICK i \in DOMAIN file : file[i].line = n /\ k = file[i].part
        BY <3>1, <1>5 DEF PartsIn
      <4>2. i \in DOMAIN file' /\ file'[i] = file[i]
        BY <1>1, <1>2, <1>3
      <4> QED
        BY <4>1, <4>2 DEF PartsIn
    <3>2. CASE k \in (d + 1)..(d + b)
      <4> DEFINE i == f + (k - d)
      <4>1. i \in (f + 1)..(f + b) /\ i \in DOMAIN file' /\ d + (i - f) = k
        BY <3>2, <1>1, <1>2
      <4>2. file'[i].line = n /\ file'[i].part = k
        BY <4>1, <1>4
      <4> QED
        BY <4>1, <4>2 DEF PartsIn
    <3> QED
      BY <2>0, <2>2, <3>1, <3>2, <1>1
  <2> QED
    BY <2>1, <2>2
<1>10. Files!ShortLinesWhole'
  <2> SUFFICES ASSUME NEW m \in DOMAIN size, size[m] <= Capacity,
                      NEW i \in DOMAIN file', NEW j \in DOMAIN file',
                      file'[i].line = m, file'[j].line = m,
                      NEW k \in i..j
               PROVE  file'[k].line = m
    BY DEF Files!ShortLinesWhole, Files!Where
  <2>0. k \in DOMAIN file' /\ i \in Int /\ j \in Int /\ k \in Int /\ i <= k /\ k <= j
    BY <1>1, <1>2
  <2>1. CASE m = n
    <3>1. d = 0
      BY <2>1 DEF FileInv, BufferInv, d, b, n
    <3>2. \A h \in DOMAIN file : file[h].line # n
      BY <3>1, <1>6
    <3>3. i \in (f + 1)..(f + b) /\ j \in (f + 1)..(f + b)
      BY <2>1, <3>2, <1>1, <1>3
    <3>4. k \in (f + 1)..(f + b)
      BY <2>0, <3>3, <1>1, SMTT(30)
    <3> QED
      BY <3>4, <2>1, <1>4
  <2>2. CASE m # n
    <3>1. i \in 1..f /\ j \in 1..f
      BY <2>2, <1>1, <1>3, <1>4
    <3>2. k \in 1..f
      BY <2>0, <3>1, <1>1
    <3>3. file[i].line = m /\ file[j].line = m
      BY <3>1, <1>3
    <3> QED
      BY <3>1, <3>2, <3>3, <1>1, <1>3 DEF FileInv, Files!ShortLinesWhole, Files!Where
  <2> QED
    BY <2>1, <2>2
<1> QED
  BY <1>2, <1>7, <1>8, <1>9, <1>10 DEF n

\* A step that leaves the file and the lines alone.
LEMMA FileKept ==
  ASSUME FileInv, UNCHANGED <<file, size, returned>>
  PROVE  OrderInv' /\ WholeInv' /\ Files!ShortLinesWhole'
BY DEF FileInv, OrderInv, WholeInv, Files!ShortLinesWhole, Files!Where

LEMMA FileConstruct ==
  ASSUME FileInv, NEW p \in Process, Files!Construct(p) \/ Files!ConstructFails(p) \/ Files!Crash(p)
  PROVE  FileInv'
<1>1. /\ UNCHANGED <<line, part, buffer, file, size, returned>>
      /\ open' \in [Process -> BOOLEAN]
      /\ at' = at \/ at' = [at EXCEPT ![p] = "gone"]
  BY DEF FileInv, Files!TypeOK, Files!Construct, Files!ConstructFails, Files!Crash, Files!Goto,
         Files!fvars
<1>2. Files!TypeOK'
  BY <1>1 DEF FileInv, Files!TypeOK
<1>3. BufferInv' /\ OwnInv'
  BY <1>1 DEF FileInv, Files!TypeOK, BufferInv, OwnInv
<1> QED
  BY <1>1, <1>2, <1>3, FileKept DEF FileInv

LEMMA FileWriteLog ==
  ASSUME FileInv, NEW p \in Process, NEW n \in 1..MaxPieces, Files!WriteLog(p, n)
  PROVE  FileInv'
<1> DEFINE m == Len(size) + 1
<1> USE FilesAssumption DEF Files!ForkLogAssumption
<1>1. /\ at[p] = "run" /\ Len(size) < MaxLines
      /\ size' = Append(size, n)
      /\ line' = [line EXCEPT ![p] = m] /\ part' = [part EXCEPT ![p] = 0]
      /\ at' = [at EXCEPT ![p] = "format"]
      /\ UNCHANGED <<open, buffer, file, returned>>
  BY DEF FileInv, Files!TypeOK, Files!WriteLog, Files!Goto
<1>2. /\ Len(size) \in Nat /\ DOMAIN size = 1..Len(size) /\ DOMAIN size' = 1..m
      /\ size'[m] = n /\ \A k \in DOMAIN size : size'[k] = size[k] /\ k # m /\ k \in DOMAIN size'
      /\ m \in 1..MaxLines /\ m \in DOMAIN size' /\ m \notin DOMAIN size
      /\ \A k \in DOMAIN size' : k = m \/ k \in DOMAIN size
      /\ size' \in Seq(1..MaxPieces)
  BY <1>1, SMTT(30) DEF FileInv, Files!TypeOK
<1> HIDE DEF m
<1>3. Files!TypeOK'
  BY <1>1, <1>2 DEF FileInv, Files!TypeOK
<1>4. \A i \in DOMAIN file : file[i].line # m
  BY <1>2 DEF FileInv, OrderInv
<1>5. BufferInv'
  <2> SUFFICES ASSUME NEW q \in Process, at'[q] = "format"
               PROVE  /\ line'[q] \in DOMAIN size' /\ line'[q] \notin returned
                      /\ part'[q] \in 0..size'[line'[q]]
                      /\ Len(buffer[q]) <= part'[q]
                      /\ \A i \in DOMAIN buffer[q] :
                           buffer[q][i] = [line |-> line'[q], part |-> part'[q] - Len(buffer[q]) + i]
                      /\ PartsIn(file, line'[q]) = 1..(part'[q] - Len(buffer[q]))
                      /\ size'[line'[q]] <= Capacity => Len(buffer[q]) = part'[q]
    BY <1>1, ZenonT(30) DEF FileInv, Files!TypeOK, BufferInv
  <2>1. CASE q = p
    <3>1. line'[q] = m /\ part'[q] = 0 /\ buffer[q] = <<>> /\ Len(buffer[q]) = 0
          /\ DOMAIN buffer[q] = {}
      BY <2>1, <1>1 DEF FileInv, BufferInv, Files!TypeOK
    <3>2. PartsIn(file, m) = {}
      BY <1>4 DEF PartsIn
    <3>3. m \notin returned /\ n \in Nat
      BY <1>2 DEF FileInv, Files!TypeOK
    <3> QED
      BY <3>1, <3>2, <3>3, <1>2
  <2>2. CASE q # p
    <3>1. line'[q] = line[q] /\ part'[q] = part[q] /\ at[q] = "format"
      BY <2>2, <1>1 DEF FileInv, Files!TypeOK
    <3>2. size'[line[q]] = size[line[q]] /\ line[q] \in DOMAIN size'
      BY <3>1, <1>2 DEF FileInv, BufferInv
    <3> QED
      BY <3>1, <3>2 DEF FileInv, BufferInv
  <2> QED
    BY <2>1, <2>2
<1>6. OwnInv'
  <2>1. \A q \in Process : at[q] = "format" => line[q] # m
    BY <1>2 DEF FileInv, BufferInv
  <2> QED
    BY <2>1, <1>1 DEF FileInv, OwnInv, Files!TypeOK
<1>7. OrderInv' /\ WholeInv'
  BY <1>1, <1>2 DEF FileInv, Files!TypeOK, OrderInv, WholeInv
<1>8. Files!ShortLinesWhole'
  <2> SUFFICES ASSUME NEW l \in DOMAIN size', size'[l] <= Capacity,
                      NEW i \in DOMAIN file, NEW j \in DOMAIN file,
                      file[i].line = l, file[j].line = l, NEW k \in i..j
               PROVE  file[k].line = l
    BY <1>1 DEF Files!ShortLinesWhole, Files!Where
  <2>1. l \in DOMAIN size /\ size[l] <= Capacity
    BY <1>2, <1>4
  <2> QED
    BY <2>1 DEF FileInv, Files!ShortLinesWhole, Files!Where
<1> QED
  BY <1>3, <1>5, <1>6, <1>7, <1>8 DEF FileInv

LEMMA FileFlush ==
  ASSUME FileInv, NEW p \in Process, Files!Flush(p)
  PROVE  FileInv'
<1>1. /\ at[p] = "format" /\ part[p] = size[line[p]]
      /\ file' = file \o buffer[p]
      /\ buffer' = [buffer EXCEPT ![p] = <<>>]
      /\ returned' = returned \cup {line[p]}
      /\ at' = [at EXCEPT ![p] = "run"]
      /\ UNCHANGED <<open, line, part, size>>
  BY DEF Files!Flush, Files!Goto
<1>2. /\ file' \in Seq(Files!Piece)
      /\ OrderInv'
      /\ PartsIn(file', line[p]) = 1..part[p]
      /\ \A n : n # line[p] => PartsIn(file', n) = PartsIn(file, n)
      /\ Files!ShortLinesWhole'
  BY <1>1, WriteOut
<1>3. Files!TypeOK'
  <2>1. /\ buffer' \in [Process -> Seq(Files!Piece)] /\ at' \in [Process -> {"none", "run", "format", "gone"}]
        /\ Len(<<>>) = 0 /\ Capacity \in Nat
    BY <1>1, FilesAssumption, SMTT(30) DEF FileInv, Files!TypeOK, Files!ForkLogAssumption
  <2>2. \A q \in Process : buffer'[q] = buffer[q] \/ buffer'[q] = <<>>
    BY <1>1 DEF FileInv, Files!TypeOK
  <2>3. \A q \in Process : Len(buffer'[q]) <= Capacity
    BY <2>1, <2>2 DEF FileInv, Files!TypeOK
  <2>4. returned' \subseteq DOMAIN size
    BY <1>1 DEF FileInv, Files!TypeOK, BufferInv
  <2> QED
    BY <1>1, <1>2, <2>1, <2>3, <2>4 DEF FileInv, Files!TypeOK
<1>4. \A q \in Process \ {p} : at[q] = "format" => line[q] # line[p]
  BY <1>1 DEF FileInv, OwnInv
<1>5. /\ at'[p] = "run" /\ buffer'[p] = <<>>
      /\ \A q \in Process \ {p} : at'[q] = at[q] /\ buffer'[q] = buffer[q]
  BY <1>1 DEF FileInv, Files!TypeOK
<1>6. BufferInv'
  <2>1. ASSUME NEW q \in Process \ {p}, at[q] = "format"
        PROVE  line[q] \notin returned' /\ PartsIn(file', line[q]) = PartsIn(file, line[q])
    BY <2>1, <1>1, <1>2, <1>4 DEF FileInv, BufferInv
  <2>2. \A q \in Process : q = p \/ q \in Process \ {p}
    OBVIOUS
  <2>3. UNCHANGED <<line, part, size>>
    BY <1>1
  <2> QED
    BY <1>5, <2>1, <2>2, <2>3 DEF FileInv, BufferInv
<1>7. OwnInv'
  BY <1>1, <1>5 DEF FileInv, OwnInv
<1>8. WholeInv'
  BY <1>1, <1>2 DEF FileInv, WholeInv
<1> QED
  BY <1>2, <1>3, <1>6, <1>7, <1>8 DEF FileInv

LEMMA FileFork ==
  ASSUME FileInv, NEW p \in Process, NEW q \in Process, Files!Fork(p, q)
  PROVE  FileInv'
<1>1. /\ at[p] = "run" /\ at[q] = "none"
      /\ at' = [at EXCEPT ![q] = "run"] /\ open' = [open EXCEPT ![q] = open[p]]
      /\ UNCHANGED <<line, part, buffer, file, size, returned>>
  <2>1. buffer[p] = <<>> /\ buffer[q] = <<>>
    BY DEF FileInv, BufferInv, Files!Fork
  <2>2. buffer' = buffer
    BY <2>1 DEF FileInv, Files!TypeOK, Files!Fork
  <2> QED
    BY <2>2 DEF Files!Fork, Files!Goto
<1>2. Files!TypeOK'
  BY <1>1 DEF FileInv, Files!TypeOK
<1>3. BufferInv' /\ OwnInv'
  BY <1>1 DEF FileInv, Files!TypeOK, BufferInv, OwnInv
<1> QED
  BY <1>1, <1>2, <1>3, FileKept DEF FileInv

LEMMA FileExit ==
  ASSUME FileInv, NEW p \in Process, Files!Exit(p)
  PROVE  FileInv'
<1>1. /\ at[p] = "run" /\ at' = [at EXCEPT ![p] = "gone"]
      /\ UNCHANGED <<open, line, part, buffer, file, size, returned>>
  <2>1. buffer[p] = <<>> /\ file \in Seq(Files!Piece)
    BY DEF FileInv, BufferInv, Files!Exit, Files!TypeOK
  <2>2. buffer' = buffer /\ file' = file
    BY <2>1 DEF FileInv, Files!TypeOK, Files!Exit
  <2> QED
    BY <2>2 DEF Files!Exit, Files!Goto
<1>2. Files!TypeOK'
  BY <1>1 DEF FileInv, Files!TypeOK
<1>3. BufferInv' /\ OwnInv'
  BY <1>1 DEF FileInv, Files!TypeOK, BufferInv, OwnInv
<1> QED
  BY <1>1, <1>2, <1>3, FileKept DEF FileInv

LEMMA FileFormat ==
  ASSUME FileInv, NEW p \in Process, Files!Format(p)
  PROVE  FileInv'
<1> DEFINE b == Len(buffer[p])
           piece == [line |-> line[p], part |-> part[p] + 1]
<1>1. /\ at[p] = "format" /\ part[p] < size[line[p]]
      /\ part' = [part EXCEPT ![p] = part[p] + 1]
      /\ file' = IF b = Capacity THEN file \o buffer[p] ELSE file
      /\ buffer' = [buffer EXCEPT ![p] = IF b = Capacity THEN <<piece>> ELSE Append(buffer[p], piece)]
      /\ UNCHANGED <<at, open, line, size, returned>>
  BY DEF Files!Format, Files!Full, FileInv, Files!TypeOK
<1>2. /\ b \in Nat /\ b <= Capacity /\ b <= part[p] /\ Capacity \in Nat \ {0} /\ MaxPieces \in Nat
      /\ line[p] \in DOMAIN size /\ line[p] \in 1..MaxLines
      /\ part[p] \in Nat /\ size[line[p]] \in 1..MaxPieces
      /\ part[p] + 1 \in 0..size[line[p]] /\ part[p] + 1 \in 1..MaxPieces
      /\ buffer[p] \in Seq(Files!Piece) /\ piece \in Files!Piece
      /\ line[p] \notin returned
      /\ PartsIn(file, line[p]) = 1..(part[p] - b)
      /\ size[line[p]] <= Capacity => b = part[p]
      /\ \A i \in 1..b : buffer[p][i] = [line |-> line[p], part |-> part[p] - b + i]
  <2>1. line[p] \in DOMAIN size /\ part[p] \in 0..size[line[p]] /\ b <= part[p] /\ line[p] \notin returned
    BY <1>1 DEF FileInv, BufferInv
  <2>2. /\ b \in Nat /\ b <= Capacity /\ Capacity \in Nat \ {0} /\ MaxPieces \in Nat
        /\ size[line[p]] \in 1..MaxPieces /\ buffer[p] \in Seq(Files!Piece) /\ DOMAIN buffer[p] = 1..b
    BY <2>1, FilesAssumption DEF FileInv, Files!TypeOK, Files!ForkLogAssumption
  <2>3. part[p] \in Nat /\ part[p] + 1 \in 0..size[line[p]] /\ part[p] + 1 \in 1..MaxPieces
    BY <1>1, <2>1, <2>2
  <2>4. line[p] \in 1..MaxLines
    BY <2>1 DEF FileInv, Files!TypeOK
  <2> QED
    BY <1>1, <2>1, <2>2, <2>3, <2>4 DEF Files!Piece, FileInv, BufferInv
<1> HIDE DEF b, piece
<1>3. /\ file' \in Seq(Files!Piece) /\ OrderInv' /\ Files!ShortLinesWhole'
      /\ PartsIn(file', line[p]) = 1..(IF b = Capacity THEN part[p] ELSE part[p] - b)
      /\ \A n : n # line[p] => PartsIn(file', n) = PartsIn(file, n)
  <2>1. CASE b = Capacity
    BY <1>1, <2>1, WriteOut
  <2>2. CASE b # Capacity
    <3>1. UNCHANGED <<file, size, returned>>
      BY <1>1, <2>2
    <3> QED
      BY <3>1, <2>2, <1>2, FileKept DEF FileInv, Files!TypeOK
  <2> QED
    BY <2>1, <2>2
<1>4. /\ buffer'[p] \in Seq(Files!Piece)
      /\ Len(buffer'[p]) = (IF b = Capacity THEN 1 ELSE b + 1)
      /\ DOMAIN buffer'[p] = 1..(IF b = Capacity THEN 1 ELSE b + 1)
      /\ \A i \in DOMAIN buffer'[p] :
           buffer'[p][i] = [line |-> line[p], part |-> part[p] + 1 - Len(buffer'[p]) + i]
  <2>1. buffer'[p] = IF b = Capacity THEN <<piece>> ELSE Append(buffer[p], piece)
    BY <1>1 DEF FileInv, Files!TypeOK
  <2>2. CASE b = Capacity
    <3>1. /\ buffer'[p] \in Seq(Files!Piece) /\ Len(buffer'[p]) = 1 /\ DOMAIN buffer'[p] = 1..1
          /\ buffer'[p][1] = piece /\ \A i \in 1..1 : i = 1
      BY <2>1, <2>2, <1>2
    <3>2. part[p] + 1 - 1 + 1 = part[p] + 1
      BY <1>2
    <3> QED
      BY <2>2, <3>1, <3>2 DEF piece
  <2>3. CASE b # Capacity
    <3>1. /\ buffer'[p] \in Seq(Files!Piece) /\ Len(buffer'[p]) = b + 1 /\ DOMAIN buffer'[p] = 1..(b + 1)
          /\ buffer'[p][b + 1] = piece /\ \A i \in 1..b : buffer'[p][i] = buffer[p][i]
      BY <2>1, <2>3, <1>2 DEF b
    <3>2. ASSUME NEW i \in 1..(b + 1)
          PROVE  buffer'[p][i] = [line |-> line[p], part |-> part[p] + 1 - (b + 1) + i]
      <4>1. CASE i = b + 1
        <5>1. part[p] + 1 - (b + 1) + i = part[p] + 1
          BY <4>1, <1>2
        <5> QED
          BY <4>1, <3>1, <5>1 DEF piece
      <4>2. CASE i \in 1..b
        <5>1. part[p] + 1 - (b + 1) + i = part[p] - b + i
          BY <4>2, <1>2
        <5> QED
          BY <4>2, <3>1, <1>2, <5>1
      <4> QED
        BY <4>1, <4>2, <1>2
    <3> QED
      BY <2>3, <3>1, <3>2
  <2> QED
    BY <2>2, <2>3
<1>5. /\ part'[p] = part[p] + 1
      /\ \A q \in Process \ {p} : part'[q] = part[q] /\ buffer'[q] = buffer[q]
  BY <1>1 DEF FileInv, Files!TypeOK
<1>6. Files!TypeOK'
  <2>1. buffer' \in [Process -> Seq(Files!Piece)] /\ part' \in [Process -> 0..MaxPieces]
    BY <1>1, <1>2, <1>4, <1>5, SMTT(30) DEF FileInv, Files!TypeOK
  <2>2. Len(buffer'[p]) <= Capacity
    BY <1>2, <1>4
  <2>3. \A q \in Process : Len(buffer'[q]) <= Capacity
    BY <1>5, <2>2 DEF FileInv, Files!TypeOK
  <2> QED
    BY <1>1, <1>3, <2>1, <2>3 DEF FileInv, Files!TypeOK
<1>7. OwnInv'
  BY <1>1 DEF FileInv, OwnInv
<1>8. WholeInv'
  BY <1>1, <1>2, <1>3 DEF FileInv, WholeInv
<1>9. BufferInv'
  <2>1. ASSUME NEW q \in Process \ {p}, at[q] = "format"
        PROVE  PartsIn(file', line[q]) = PartsIn(file, line[q])
    BY <2>1, <1>1, <1>3 DEF FileInv, OwnInv
  <2>2. /\ part'[p] \in 0..size[line[p]]
        /\ Len(buffer'[p]) <= part'[p]
        /\ PartsIn(file', line[p]) = 1..(part'[p] - Len(buffer'[p]))
        /\ size[line[p]] <= Capacity => Len(buffer'[p]) = part'[p]
    <3>1. part'[p] = part[p] + 1 /\ part'[p] \in Nat /\ b \in Nat
      BY <1>2, <1>5
    <3>2. CASE b = Capacity
      <4>1. Len(buffer'[p]) = 1
        BY <3>2, <1>4
      <4>2. part'[p] - Len(buffer'[p]) = part[p]
        BY <3>1, <4>1, <1>2
      <4>3. ~(size[line[p]] <= Capacity)
        BY <3>2, <1>1, <1>2
      <4> QED
        BY <3>1, <3>2, <4>1, <4>2, <4>3, <1>1, <1>2, <1>3
    <3>3. CASE b # Capacity
      <4>1. Len(buffer'[p]) = b + 1 /\ part'[p] - Len(buffer'[p]) = part[p] - b
        BY <3>1, <3>3, <1>2, <1>4, SMTT(30)
      <4> QED
        BY <3>1, <3>3, <4>1, <1>1, <1>2, <1>3
    <3> QED
      BY <3>2, <3>3
  <2>3. \A q \in Process : q = p \/ q \in Process \ {p}
    OBVIOUS
  <2>4. UNCHANGED <<at, line, size, returned>> /\ at[p] = "format"
    BY <1>1
  <2>5. \A i \in DOMAIN buffer'[p] :
           buffer'[p][i] = [line |-> line[p], part |-> part'[p] - Len(buffer'[p]) + i]
    <3> SUFFICES ASSUME NEW i \in DOMAIN buffer'[p]
                 PROVE  part[p] + 1 - Len(buffer'[p]) + i = part'[p] - Len(buffer'[p]) + i
      BY <1>4
    <3>1. Len(buffer'[p]) \in Nat /\ i \in Nat /\ part[p] \in Nat
      BY <1>2, <1>4
    <3> QED
      BY <3>1, <1>5, SMTT(30)
  <2>6. ASSUME NEW q \in Process
        PROVE  /\ at'[q] \in {"none", "run"} => buffer'[q] = <<>>
               /\ at'[q] = "format" =>
                    /\ line'[q] \in DOMAIN size' /\ line'[q] \notin returned'
                    /\ part'[q] \in 0..size'[line'[q]]
                    /\ Len(buffer'[q]) <= part'[q]
                    /\ \A i \in DOMAIN buffer'[q] :
                         buffer'[q][i] = [line |-> line'[q], part |-> part'[q] - Len(buffer'[q]) + i]
                    /\ PartsIn(file', line'[q]) = 1..(part'[q] - Len(buffer'[q]))
                    /\ size'[line'[q]] <= Capacity => Len(buffer'[q]) = part'[q]
    <3>1. CASE q = p
      BY <3>1, <1>2, <2>2, <2>4, <2>5
    <3>2. CASE q \in Process \ {p}
      BY <3>2, <1>5, <2>1, <2>4, SMTT(30) DEF FileInv, BufferInv
    <3> QED
      BY <3>1, <3>2, <2>3
  <2> QED
    BY <2>6 DEF BufferInv
<1> QED
  BY <1>3, <1>6, <1>7, <1>8, <1>9 DEF FileInv

LEMMA FileNext == FileInv /\ [Files!Next]_processVars => FileInv'
<1> SUFFICES ASSUME FileInv, [Files!Next]_processVars PROVE FileInv'
  OBVIOUS
<1>1. CASE UNCHANGED processVars
  BY <1>1 DEF processVars, FileInv, Files!TypeOK, BufferInv, OwnInv, OrderInv, WholeInv,
              Files!ShortLinesWhole, Files!Where
<1>2. CASE Files!Next
  BY <1>2, FileConstruct, FileFormat, FileFlush, FileExit, FileWriteLog, FileFork DEF Files!Next
<1> QED
  BY <1>1, <1>2

-----------------------------------------------------------------------------
(* The behaviours of MCEasyLog: the threads of one process, or the processes *)
(* that share the file, while the others stand still.                        *)

LEMMA MCInvariant == MCSpec => [](RecordInv /\ FileInv)
<1>1. MCInit => RecordInv /\ FileInv
  BY RecordInit, FileInit DEF MCInit
<1>2. RecordInv /\ FileInv /\ [MCNext]_<<program, threadVars, processVars>> => (RecordInv /\ FileInv)'
  <2> SUFFICES ASSUME RecordInv, FileInv, [MCNext]_<<program, threadVars, processVars>>
               PROVE  RecordInv' /\ FileInv'
    OBVIOUS
  <2>1. [Next]_vars /\ [Files!Next]_processVars
    BY DEF MCNext, threadVars
  <2> QED
    BY <2>1, RecordNext, FileNext
<1> QED
  BY <1>1, <1>2, PTL DEF MCSpec

\* The types of the records and the mutexes, of the buffers and of the file.
THEOREM TypesCorrect == MCSpec => []TypesOK
<1>1. RecordInv /\ FileInv => TypesOK
  BY DEF RecordInv, ThreadInv, FileInv, TypesOK
<1> QED
  BY <1>1, MCInvariant, PTL

\* For any number of processes and lines, a line whose WriteLog has returned is in the
\* file, once, whole and in its order, whatever is forked, exits or crashes; and a short
\* line is in one piece there.
THEOREM FilesSound == MCSpec => []FileSound
<1>1. FileInv => FileSound
  <2> SUFFICES ASSUME FileInv PROVE FileSound
    OBVIOUS
  <2>1. \A i \in DOMAIN file : i \in Int /\ file[i].part \in Int
    <3>1. file \in Seq(Files!Piece)
      BY DEF FileInv, Files!TypeOK
    <3>2. \A i \in DOMAIN file : i \in Int /\ file[i] \in Files!Piece
      BY <3>1
    <3> QED
      BY <3>2 DEF Files!Piece
  <2>2. \A i, j \in DOMAIN file : file[i] = file[j] => i = j
    <3> SUFFICES ASSUME NEW i \in DOMAIN file, NEW j \in DOMAIN file, file[i] = file[j], i < j
                 PROVE  FALSE
      BY <2>1
    <3> QED
      BY <2>1 DEF FileInv, OrderInv
  <2>3. \A n \in returned :
          /\ {file[i].part : i \in Files!Where(n)} = 1..size[n]
          /\ \A i, j \in Files!Where(n) : i < j => file[i].part < file[j].part
    BY DEF FileInv, WholeInv, PartsIn, Files!Where, OrderInv
  <2> QED
    BY <2>2, <2>3 DEF FileInv, FileSound, Files!Durable
<1> QED
  BY <1>1, MCInvariant, PTL
=============================================================================
