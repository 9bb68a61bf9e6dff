-------------------------- MODULE ThreadPoolProofs --------------------------
(***************************************************************************)
(* Theorems about ThreadPool, for every number of threads, every finite    *)
(* set of tasks and every bound.                                           *)
(***************************************************************************)
EXTENDS ThreadPool, FiniteSetTheorems, TLAPS

LEMMA ThreadSets ==
  ASSUME NEW S \in SUBSET Threads
  PROVE  IsFiniteSet(S) /\ Cardinality(S) \in Nat
<1>1. IsFiniteSet(Threads)
  BY PoolAssumption, FS_Interval DEF Threads
<1>2. IsFiniteSet(S)
  BY <1>1, FS_Subset
<1> QED
  BY <1>2, FS_CardinalityType

LEMMA Ids == Owner \notin Threads /\ Nobody \notin Threads /\ Owner # Nobody
BY PoolAssumption DEF Threads, Owner, Nobody

-----------------------------------------------------------------------------
(* Type correctness.                                                       *)

LEMMA TypeInit == Init => TypeOK
<1> SUFFICES ASSUME Init PROVE TypeOK
  OBVIOUS
<1>1. task_queue \in Seq(Tasks \cup {Pill})
  BY DEF Init
<1> QED
  BY <1>1 DEF Init, TypeOK

LEMMA TypeOwner == TypeOK /\ OwnerStep => TypeOK'
<1> SUFFICES ASSUME TypeOK, OwnerStep PROVE TypeOK'
  OBVIOUS
<1> USE PoolAssumption DEF TypeOK, tvars, ovars
<1>1. ASSUME NEW w \in Threads, Construct(w) PROVE TypeOK'
  BY <1>1 DEF Construct
<1>2. ASSUME NEW w \in Threads, SweepNode(w) PROVE TypeOK'
  BY <1>2 DEF SweepNode, Erasable, LockedAfter
<1>3. CASE Constructed
  BY <1>3 DEF Constructed
<1>4. CASE OwnerLock
  BY <1>4 DEF OwnerLock
<1>5. CASE SendEmplace
  <2>1. task_queue' \in Seq(Tasks \cup {Pill})
    BY <1>5 DEF SendEmplace
  <2>2. fate' \in [Tasks -> {"new", "sent", "late", "dropped", "done"}]
    BY <1>5 DEF SendEmplace
  <2> QED
    BY <1>5, <2>1, <2>2 DEF SendEmplace
<1>6. CASE SendSignal
  BY <1>6 DEF SendSignal, Sleepers
<1>7. CASE OwnerUnlock
  BY <1>7 DEF OwnerUnlock
<1>8. CASE KillPush
  <2> DEFINE new == [i \in 1..Cardinality(thread_list) |-> Pill]
  <2>1. Cardinality(thread_list) \in Nat
    BY ThreadSets
  <2>2. new \in Seq(Tasks \cup {Pill})
    BY <2>1
  <2> HIDE DEF new
  <2>3. task_queue \o new \in Seq(Tasks \cup {Pill})
    BY <2>2
  <2> QED
    BY <1>8, <2>3 DEF KillPush, WithExitTasks, ExitTasks, new
<1>9. CASE KillBroadcast
  BY <1>9 DEF KillBroadcast
<1>10. CASE SweepLock
  BY <1>10 DEF SweepLock, Nodes
<1>11. CASE SweepReturn
  BY <1>11 DEF SweepReturn
<1>12. CASE Destroy
  BY <1>12 DEF Destroy
<1> QED
  BY <1>1, <1>2, <1>3, <1>4, <1>5, <1>6, <1>7, <1>8, <1>9, <1>10, <1>11, <1>12
  DEF OwnerStep

LEMMA TypeCall == TypeOK /\ OwnerCall => TypeOK'
<1> SUFFICES ASSUME TypeOK, OwnerCall PROVE TypeOK'
  OBVIOUS
<1> USE DEF TypeOK, tvars, ovars
<1>1. ASSUME NEW t \in Tasks, SendTask(t) PROVE TypeOK'
  BY <1>1 DEF SendTask
<1>2. CASE KillAll
  BY <1>2 DEF KillAll
<1>3. CASE Destruct
  BY <1>3 DEF Destruct
<1>4. CASE ClearTrash
  BY <1>4 DEF ClearTrash
<1> QED
  BY <1>1, <1>2, <1>3, <1>4 DEF OwnerCall

LEMMA TypeThread ==
  ASSUME TypeOK, NEW w \in Threads, ThreadStep(w) \/ SpuriousWakeup(w)
  PROVE  TypeOK'
<1> USE DEF TypeOK, tvars, ovars
<1>1. CASE Begin(w)
  BY <1>1 DEF Begin
<1>2. CASE Lock(w)
  BY <1>2 DEF Lock
<1>3. CASE Wait(w)
  BY <1>3 DEF Wait
<1>4. CASE Take(w)
  <2>1. /\ Head(task_queue) \in Tasks \cup {Pill}
        /\ Tail(task_queue) \in Seq(Tasks \cup {Pill})
    BY <1>4 DEF Take, Popped
  <2> QED
    BY <1>4, <2>1 DEF Take, Popped
<1>5. CASE Return(w)
  BY <1>5 DEF Return
<1>6. CASE Exit(w)
  BY <1>6 DEF Exit
<1>7. CASE Crash(w)
  BY <1>7 DEF Crash
<1>8. CASE SpuriousWakeup(w)
  BY <1>8 DEF SpuriousWakeup
<1> QED
  BY <1>1, <1>2, <1>3, <1>4, <1>5, <1>6, <1>7, <1>8 DEF ThreadStep

\* Every variable of the pool keeps its type, whatever the calls and the
\* schedule, the undefined uses of freed memory included.
THEOREM TypeCorrect == Spec => []TypeOK
<1>1. TypeOK /\ [Next]_vars => TypeOK'
  <2>1. TypeOK /\ UNCHANGED vars => TypeOK'
    BY DEF TypeOK, vars
  <2> QED
    BY <2>1, TypeOwner, TypeCall, TypeThread DEF Next
<1> QED
  BY <1>1, TypeInit, PTL DEF Spec

-----------------------------------------------------------------------------
(* No lost wake-up. The invariant is inductive as it stands: an entry is     *)
(* added together with a signal, a thread sleeps only when the queue is      *)
(* empty, and a thread that leaves for good takes an entry with it.          *)

LEMMA Grow ==
  ASSUME NEW w \in Threads, NEW S \in SUBSET Threads, w \notin S
  PROVE  Cardinality(S \cup {w}) = Cardinality(S) + 1
BY ThreadSets, FS_AddElement

LEMMA Monotone ==
  ASSUME NEW S \in SUBSET Threads, NEW T \in SUBSET Threads, S \subseteq T
  PROVE  Cardinality(S) <= Cardinality(T)
BY ThreadSets, FS_Subset

LEMMA AwakeType ==
  Awake \in SUBSET Threads /\ Cardinality(Awake) \in Nat
BY ThreadSets DEF Awake

\* A step that adds nothing to the queue, puts no thread to sleep and takes
\* none away from those awake keeps the invariant.
LEMMA WakeupsKept ==
  ASSUME TypeOK, TypeOK', WakeupsCoverQueue,
         UNCHANGED task_queue,
         Sleepers' \subseteq Sleepers,
         Awake \subseteq Awake',
         opc = "broadcast" => opc' = "broadcast",
         opc = "signal" => opc' = "signal"
  PROVE  WakeupsCoverQueue'
<1>1. /\ Awake \in SUBSET Threads /\ Awake' \in SUBSET Threads
      /\ Cardinality(Awake) \in Nat /\ Cardinality(Awake') \in Nat
  BY ThreadSets DEF Awake
<1>2. Cardinality(Awake) <= Cardinality(Awake')
  BY <1>1, Monotone
<1>3. Len(task_queue) \in Nat
  BY DEF TypeOK
<1> QED
  BY <1>1, <1>2, <1>3 DEF WakeupsCoverQueue

LEMMA WakeupsOwner == TypeOK /\ TypeOK' /\ WakeupsCoverQueue /\ OwnerStep
                        => WakeupsCoverQueue'
<1> SUFFICES ASSUME TypeOK, TypeOK', WakeupsCoverQueue, OwnerStep
             PROVE  WakeupsCoverQueue'
  OBVIOUS
<1> USE DEF TypeOK, tvars, ovars, Sleepers, Awake
<1>1. ASSUME NEW w \in Threads, Construct(w) PROVE WakeupsCoverQueue'
  BY <1>1, WakeupsKept DEF Construct
<1>2. ASSUME NEW w \in Threads, SweepNode(w) PROVE WakeupsCoverQueue'
  BY <1>2, WakeupsKept DEF SweepNode, Erasable, LockedAfter
<1>3. CASE Constructed
  BY <1>3, WakeupsKept DEF Constructed
<1>4. CASE OwnerLock
  BY <1>4, WakeupsKept DEF OwnerLock
<1>5. CASE SendEmplace
  <2>1. /\ Len(task_queue') = Len(task_queue) + 1
        /\ Len(task_queue) \in Nat
    BY <1>5 DEF SendEmplace
  <2>2. UNCHANGED <<Sleepers, Awake>> /\ opc = "emplace" /\ opc' = "signal"
    BY <1>5 DEF SendEmplace
  <2> HIDE DEF Sleepers, Awake
  <2> QED
    BY <2>1, <2>2, AwakeType DEF WakeupsCoverQueue
<1>6. CASE SendSignal
  <2>1. CASE Sleepers = {} /\ UNCHANGED pc
    BY <2>1 DEF WakeupsCoverQueue
  <2>2. ASSUME NEW w \in Sleepers, pc' = [pc EXCEPT ![w] = "relock"]
        PROVE  WakeupsCoverQueue'
    <3>1. Awake' = Awake \cup {w} /\ w \in Threads /\ w \notin Awake
      BY <2>2
    <3> HIDE DEF Awake
    <3>2. Cardinality(Awake') = Cardinality(Awake) + 1
      BY <3>1, AwakeType, Grow
    <3>3. Len(task_queue) <= Cardinality(Awake) + 1
      BY <1>6 DEF SendSignal, WakeupsCoverQueue
    <3>4. opc' = "unlock" /\ task_queue' = task_queue
      BY <1>6 DEF SendSignal
    <3> QED
      BY <3>2, <3>3, <3>4, AwakeType DEF WakeupsCoverQueue
  <2> QED
    BY <1>6, <2>1, <2>2 DEF SendSignal
<1>7. CASE OwnerUnlock
  BY <1>7, WakeupsKept DEF OwnerUnlock
<1>8. CASE KillPush
  BY <1>8 DEF KillPush, WakeupsCoverQueue
<1>9. CASE KillBroadcast
  <2>1. Sleepers' = {}
    BY <1>9 DEF KillBroadcast
  <2> QED
    BY <2>1 DEF WakeupsCoverQueue
<1>10. CASE SweepLock
  BY <1>10, WakeupsKept DEF SweepLock, Nodes
<1>11. CASE SweepReturn
  BY <1>11, WakeupsKept DEF SweepReturn
<1>12. CASE Destroy
  BY <1>12, WakeupsKept DEF Destroy
<1> QED
  BY <1>1, <1>2, <1>3, <1>4, <1>5, <1>6, <1>7, <1>8, <1>9, <1>10, <1>11, <1>12
  DEF OwnerStep

LEMMA WakeupsCall == TypeOK /\ TypeOK' /\ WakeupsCoverQueue /\ OwnerCall
                       => WakeupsCoverQueue'
<1> SUFFICES ASSUME TypeOK, TypeOK', WakeupsCoverQueue, OwnerCall
             PROVE  WakeupsCoverQueue'
  OBVIOUS
<1>1. UNCHANGED <<task_queue, pc>> /\ opc = "idle"
  BY DEF OwnerCall, SendTask, KillAll, Destruct, ClearTrash, tvars
<1> QED
  BY <1>1, WakeupsKept DEF Sleepers, Awake

LEMMA WakeupsThread ==
  ASSUME TypeOK, TypeOK', WakeupsCoverQueue,
         NEW w \in Threads, ThreadStep(w) \/ SpuriousWakeup(w)
  PROVE  WakeupsCoverQueue'
<1> USE DEF TypeOK, tvars, ovars, Sleepers, Awake
<1>1. CASE Begin(w)
  BY <1>1, WakeupsKept DEF Begin
<1>2. CASE Lock(w)
  BY <1>2, WakeupsKept DEF Lock
<1>3. CASE Wait(w)
  <2>1. Cardinality(Awake') \in Nat
    BY ThreadSets
  <2> QED
    BY <1>3, <2>1 DEF Wait, WakeupsCoverQueue
<1>4. CASE Take(w)
  <2>1. Len(task_queue') = Len(task_queue) - 1 /\ Len(task_queue) \in Nat
    BY <1>4 DEF Take, Popped
  <2>2. Awake \in SUBSET Threads /\ Awake' \in SUBSET Threads
    OBVIOUS
  <2>3. Awake = Awake' \/ (Awake = Awake' \cup {w} /\ w \notin Awake')
    BY <1>4 DEF Take, Popped
  <2>4. Sleepers' = Sleepers /\ opc' = opc
    BY <1>4 DEF Take, Popped
  <2> HIDE DEF Sleepers, Awake
  <2>5. Cardinality(Awake') >= Cardinality(Awake) - 1 /\ Cardinality(Awake') \in Nat
    <3>1. Cardinality(Awake) \in Nat /\ Cardinality(Awake') \in Nat
      BY <2>2, ThreadSets
    <3>2. CASE Awake = Awake'
      BY <3>1, <3>2
    <3>3. CASE Awake = Awake' \cup {w} /\ w \notin Awake'
      <4>1. Cardinality(Awake' \cup {w}) = Cardinality(Awake') + 1
        BY <2>2, <3>3, Grow
      <4> QED
        BY <3>1, <3>3, <4>1
    <3> QED
      BY <2>3, <3>2, <3>3
  <2> QED
    BY <2>1, <2>4, <2>5, AwakeType DEF WakeupsCoverQueue
<1>5. CASE Return(w)
  BY <1>5, WakeupsKept DEF Return
<1>6. CASE Exit(w)
  BY <1>6, WakeupsKept DEF Exit
<1>7. CASE Crash(w)
  <2>1. Sleepers' = {}
    BY <1>7 DEF Crash
  <2> QED
    BY <2>1 DEF WakeupsCoverQueue
<1>8. CASE SpuriousWakeup(w)
  BY <1>8, WakeupsKept DEF SpuriousWakeup
<1> QED
  BY <1>1, <1>2, <1>3, <1>4, <1>5, <1>6, <1>7, <1>8 DEF ThreadStep

\* While a thread sleeps in pthread_cond_wait every entry of the queue has a
\* thread awake to come for it: SendTask's signal and KillAll's broadcast, given
\* while the mutex is held, lose no wake-up.
THEOREM NoLostWakeup == Spec => []WakeupsCoverQueue
<1>1. Init => WakeupsCoverQueue
  BY DEF Init, WakeupsCoverQueue, Sleepers
<1>2. TypeOK /\ TypeOK' /\ WakeupsCoverQueue /\ [Next]_vars => WakeupsCoverQueue'
  <2>1. TypeOK /\ TypeOK' /\ WakeupsCoverQueue /\ UNCHANGED vars => WakeupsCoverQueue'
    BY DEF vars, WakeupsCoverQueue, Sleepers, Awake
  <2> QED
    BY <2>1, WakeupsOwner, WakeupsCall, WakeupsThread DEF Next
<1> QED
  BY <1>1, <1>2, TypeCorrect, PTL DEF Spec

-----------------------------------------------------------------------------
(* No task is lost or run twice. The inductive invariant says where a task   *)
(* can be at each point of SendTask and of entry.                            *)

\* A task occurs at most once in the queue and in the threads' hands.
OneCopy ==
  /\ \A i, j \in DOMAIN task_queue :
        task_queue[i] \in Tasks /\ task_queue[i] = task_queue[j] => i = j
  /\ \A v, w \in Threads : hand[v] \in Tasks /\ hand[v] = hand[w] => v = w
  /\ \A i \in DOMAIN task_queue, w \in Threads :
        task_queue[i] \in Tasks => task_queue[i] # hand[w]

\* It occurs there exactly when it has been sent and has not finished.
Accounted ==
  \A t \in Tasks :
    fate[t] \in {"sent", "late"} <=> \/ \E i \in DOMAIN task_queue : task_queue[i] = t
                                   \/ \E w \in Threads : hand[w] = t

\* A thread has a task in hand exactly while it runs it.
HandInv ==
  \A w \in Threads : /\ pc[w] \notin {"run", "crashed"} => hand[w] = Pill
                     /\ pc[w] = "run" => hand[w] \in Tasks

\* The task of a SendTask call in progress has not been sent before.
ArgInv == opc \in {"send", "emplace"} => arg \in Tasks /\ fate[arg] = "new"

PlaceInv == OneCopy /\ Accounted /\ HandInv /\ ArgInv

LEMMA PlacesKept ==
  ASSUME OneCopy, Accounted, UNCHANGED <<task_queue, hand, fate>>
  PROVE  OneCopy' /\ Accounted'
BY DEF OneCopy, Accounted

LEMMA PlaceOwner == TypeOK /\ PlaceInv /\ OwnerStep => PlaceInv'
<1> SUFFICES ASSUME TypeOK, PlaceInv, OwnerStep PROVE PlaceInv'
  OBVIOUS
<1> USE DEF PlaceInv
<1>1. ASSUME NEW w \in Threads, Construct(w) PROVE PlaceInv'
  <2>1. HandInv'
    BY <1>1 DEF Construct, HandInv, TypeOK
  <2> QED
    BY <1>1, <2>1, PlacesKept DEF Construct, ArgInv, ovars
<1>2. ASSUME NEW w \in Threads, SweepNode(w) PROVE PlaceInv'
  BY <1>2, PlacesKept DEF SweepNode, Erasable, LockedAfter, HandInv, ArgInv, tvars
<1>3. CASE Constructed
  BY <1>3, PlacesKept DEF Constructed, HandInv, ArgInv, tvars
<1>4. CASE OwnerLock
  BY <1>4, PlacesKept DEF OwnerLock, HandInv, ArgInv, tvars
<1>5. CASE SendEmplace
  <2> DEFINE n == Len(task_queue)
  <2>1. /\ arg \in Tasks /\ fate[arg] = "new"
        /\ UNCHANGED <<pc, hand>> /\ opc' = "signal"
    BY <1>5 DEF SendEmplace, ArgInv, tvars
  <2>2. /\ n \in Nat
        /\ DOMAIN task_queue = 1..n /\ DOMAIN task_queue' = 1..(n + 1)
        /\ task_queue'[n + 1] = arg
        /\ \A i \in 1..n : task_queue'[i] = task_queue[i]
    BY <1>5 DEF SendEmplace, TypeOK
  <2>3. /\ \A i \in 1..n : task_queue[i] # arg
        /\ \A w \in Threads : hand[w] # arg
    BY <2>1, <2>2 DEF Accounted
  <2>4. /\ fate'[arg] \in {"sent", "late"}
        /\ \A t \in Tasks \ {arg} : fate'[t] = fate[t]
    BY <1>5, <2>1 DEF SendEmplace, TypeOK
  <2> HIDE DEF n
  <2>5. OneCopy'
    <3>1. \A i \in 1..(n + 1) : i \in 1..n \/ i = n + 1
      BY <2>2
    <3> QED
      BY <2>1, <2>2, <2>3, <3>1 DEF OneCopy
  <2>6. Accounted'
    <3>1. \A i \in 1..(n + 1) : i \in 1..n \/ i = n + 1
      BY <2>2
    <3>2. n + 1 \in 1..(n + 1) /\ 1..n \subseteq 1..(n + 1)
      BY <2>2
    <3>3. SUFFICES ASSUME NEW t \in Tasks
                   PROVE  fate'[t] \in {"sent", "late"} <=>
                            \/ \E i \in 1..(n + 1) : task_queue'[i] = t
                            \/ \E w \in Threads : hand[w] = t
      BY <2>1, <2>2 DEF Accounted
    <3>4. CASE t = arg
      BY <3>4, <3>2, <2>2, <2>4
    <3>5. CASE t # arg
      <4>1. fate'[t] = fate[t]
        BY <3>5, <2>4
      <4>2. (\E i \in 1..(n + 1) : task_queue'[i] = t) <=> (\E i \in 1..n : task_queue[i] = t)
        BY <3>5, <3>1, <3>2, <2>2
      <4> QED
        BY <4>1, <4>2, <2>2 DEF Accounted
    <3> QED
      BY <3>4, <3>5
  <2>7. HandInv' /\ ArgInv'
    BY <2>1 DEF HandInv, ArgInv
  <2> QED
    BY <2>5, <2>6, <2>7
<1>6. CASE SendSignal
  <2>1. HandInv'
    BY <1>6 DEF SendSignal, HandInv, TypeOK, Sleepers
  <2> QED
    BY <1>6, <2>1, PlacesKept DEF SendSignal, ArgInv
<1>7. CASE OwnerUnlock
  BY <1>7, PlacesKept DEF OwnerUnlock, HandInv, ArgInv, tvars
<1>8. CASE KillPush
  <2> DEFINE n == Len(task_queue)
             m == Cardinality(thread_list)
             new == [i \in 1..m |-> Pill]
  <2>1. m \in Nat /\ n \in Nat
    BY ThreadSets DEF TypeOK
  <2>2. new \in Seq({Pill}) /\ Len(new) = m
    BY <2>1
  <2>3. task_queue' = task_queue \o new
    BY <1>8 DEF KillPush, WithExitTasks, ExitTasks
  <2> HIDE DEF m
  <2>4. /\ DOMAIN task_queue = 1..n /\ DOMAIN task_queue' = 1..(n + m)
        /\ \A i \in 1..n : i \in 1..(n + m) /\ task_queue'[i] = task_queue[i]
        /\ \A i \in 1..(n + m) : i \notin 1..n => task_queue'[i] = Pill
    BY <2>1, <2>2, <2>3 DEF TypeOK
  <2> HIDE DEF n, new
  <2>5. Pill \notin Tasks
    BY PoolAssumption
  <2>6. UNCHANGED <<hand, fate, pc, arg>> /\ opc' = "broadcast"
    BY <1>8 DEF KillPush, tvars
  <2>7. OneCopy'
    BY <2>4, <2>5, <2>6 DEF OneCopy
  <2>8. Accounted'
    <3>1. \A t \in Tasks : (\E i \in 1..(n + m) : task_queue'[i] = t)
                            <=> (\E i \in 1..n : task_queue[i] = t)
      BY <2>4, <2>5
    <3> QED
      BY <3>1, <2>4, <2>6 DEF Accounted
  <2> QED
    BY <2>6, <2>7, <2>8 DEF HandInv, ArgInv
<1>9. CASE KillBroadcast
  <2>1. HandInv'
    BY <1>9 DEF KillBroadcast, HandInv, TypeOK
  <2> QED
    BY <1>9, <2>1, PlacesKept DEF KillBroadcast, ArgInv
<1>10. CASE SweepLock
  BY <1>10, PlacesKept DEF SweepLock, Nodes, HandInv, ArgInv, tvars
<1>11. CASE SweepReturn
  BY <1>11, PlacesKept DEF SweepReturn, HandInv, ArgInv, tvars
<1>12. CASE Destroy
  BY <1>12, PlacesKept DEF Destroy, HandInv, ArgInv, tvars
<1> QED
  BY <1>1, <1>2, <1>3, <1>4, <1>5, <1>6, <1>7, <1>8, <1>9, <1>10, <1>11, <1>12
  DEF OwnerStep

LEMMA PlaceCall == TypeOK /\ PlaceInv /\ OwnerCall => PlaceInv'
<1> SUFFICES ASSUME TypeOK, PlaceInv, OwnerCall PROVE PlaceInv'
  OBVIOUS
<1> USE DEF PlaceInv
<1>1. ASSUME NEW t \in Tasks, SendTask(t) PROVE PlaceInv'
  <2>1. UNCHANGED <<task_queue, hand, pc>> /\ fate[t] = "new" /\ opc = "idle"
    BY <1>1 DEF SendTask, tvars
  <2>2. CASE UNCHANGED fate
    <3>1. ArgInv'
      BY <1>1, <2>2 DEF SendTask, ArgInv
    <3> QED
      BY <2>1, <2>2, <3>1, PlacesKept DEF HandInv
  <2>3. CASE fate' = [fate EXCEPT ![t] = "dropped"] /\ UNCHANGED <<opc, arg>>
    <3>1. Accounted'
      BY <2>1, <2>3 DEF Accounted, TypeOK
    <3> QED
      BY <2>1, <2>3, <3>1 DEF OneCopy, HandInv, ArgInv
  <2> QED
    BY <1>1, <2>2, <2>3 DEF SendTask
<1>2. CASE KillAll
  BY <1>2, PlacesKept DEF KillAll, HandInv, ArgInv, tvars
<1>3. CASE Destruct
  BY <1>3, PlacesKept DEF Destruct, HandInv, ArgInv, tvars
<1>4. CASE ClearTrash
  BY <1>4, PlacesKept DEF ClearTrash, HandInv, ArgInv, tvars
<1> QED
  BY <1>1, <1>2, <1>3, <1>4 DEF OwnerCall

LEMMA PlaceThread ==
  ASSUME TypeOK, PlaceInv, NEW w \in Threads, ThreadStep(w) \/ SpuriousWakeup(w)
  PROVE  PlaceInv'
<1> USE DEF PlaceInv
<1>1. CASE Begin(w)
  BY <1>1, PlacesKept DEF Begin, HandInv, ArgInv, ovars, TypeOK
<1>2. CASE Lock(w)
  BY <1>2, PlacesKept DEF Lock, HandInv, ArgInv, ovars, TypeOK
<1>3. CASE Wait(w)
  BY <1>3, PlacesKept DEF Wait, HandInv, ArgInv, ovars, TypeOK
<1>4. CASE Take(w)
  <2> DEFINE n == Len(task_queue)
  <2>1. /\ n \in Nat \ {0} /\ DOMAIN task_queue = 1..n
        /\ DOMAIN task_queue' = 1..(n - 1)
        /\ \A i \in 1..(n - 1) : i + 1 \in 1..n /\ task_queue'[i] = task_queue[i + 1]
        /\ Head(task_queue) = task_queue[1]
        /\ task_queue[1] \in Tasks \cup {Pill}
    BY <1>4 DEF Take, Popped, TypeOK
  <2>2. /\ hand' = [hand EXCEPT ![w] = task_queue[1]]
        /\ hand[w] = Pill /\ Pill \notin Tasks
        /\ UNCHANGED <<fate, opc, arg>>
        /\ pc' = [pc EXCEPT ![w] = IF task_queue[1] = Pill THEN "exit" ELSE "run"]
    BY <1>4, <2>1, PoolAssumption DEF Take, Popped, HandInv, ovars
  <2>3. /\ hand'[w] = task_queue[1]
        /\ \A v \in Threads \ {w} : hand'[v] = hand[v]
    BY <2>2 DEF TypeOK
  <2> HIDE DEF n
  <2>4. OneCopy'
    <3>1. \A i, j \in 1..(n - 1) : i + 1 = j + 1 => i = j
      OBVIOUS
    <3>2. \A i \in 1..(n - 1) : i + 1 # 1 /\ 1 \in 1..n
      BY <2>1
    <3>3. \A i, j \in 1..(n - 1) :
            task_queue'[i] \in Tasks /\ task_queue'[i] = task_queue'[j] => i = j
      BY <2>1, <3>1 DEF OneCopy
    <3>4. 1 \in 1..n
      BY <2>1
    <3>5. \A u, v \in Threads : hand'[u] \in Tasks /\ hand'[u] = hand'[v] => u = v
      BY <2>1, <2>2, <2>3, <3>4 DEF OneCopy
    <3>6. \A i \in 1..(n - 1), v \in Threads :
            task_queue'[i] \in Tasks => task_queue'[i] # hand'[v]
      BY <2>1, <2>3, <3>2 DEF OneCopy
    <3> QED
      BY <2>1, <3>3, <3>5, <3>6 DEF OneCopy
  <2>5. Accounted'
    <3>1. SUFFICES ASSUME NEW t \in Tasks
                   PROVE  (\/ \E i \in 1..(n - 1) : task_queue'[i] = t
                           \/ \E v \in Threads : hand'[v] = t)
                          <=> (\/ \E i \in 1..n : task_queue[i] = t
                               \/ \E v \in Threads : hand[v] = t)
      BY <2>1, <2>2 DEF Accounted
    <3>2. ASSUME NEW i \in 1..n, task_queue[i] = t
          PROVE  \/ \E j \in 1..(n - 1) : task_queue'[j] = t
                 \/ \E v \in Threads : hand'[v] = t
      <4>1. CASE i = 1
        BY <4>1, <3>2, <2>3
      <4>2. CASE i # 1
        <5>1. i - 1 \in 1..(n - 1) /\ (i - 1) + 1 = i
          BY <4>2, <2>1
        <5> QED
          BY <5>1, <3>2, <2>1
      <4> QED
        BY <4>1, <4>2
    <3>3. ASSUME NEW v \in Threads, hand[v] = t
          PROVE  \E u \in Threads : hand'[u] = t
      BY <3>3, <2>2, <2>3
    <3>4. ASSUME NEW i \in 1..(n - 1), task_queue'[i] = t
          PROVE  \E j \in 1..n : task_queue[j] = t
      BY <3>4, <2>1
    <3>5. ASSUME NEW v \in Threads, hand'[v] = t
          PROVE  \/ \E i \in 1..n : task_queue[i] = t
                 \/ \E u \in Threads : hand[u] = t
      <4>1. 1 \in 1..n
        BY <2>1
      <4> QED
        BY <3>5, <4>1, <2>3
    <3> QED
      BY <3>2, <3>3, <3>4, <3>5
  <2>6. HandInv'
    BY <2>1, <2>2, <2>3 DEF HandInv, TypeOK
  <2>7. ArgInv'
    BY <2>2 DEF ArgInv
  <2> QED
    BY <2>4, <2>5, <2>6, <2>7
<1>5. CASE Return(w)
  <2>1. /\ hand[w] \in Tasks /\ Pill \notin Tasks
        /\ hand' = [hand EXCEPT ![w] = Pill]
        /\ fate' = [fate EXCEPT ![hand[w]] = "done"]
        /\ pc' = [pc EXCEPT ![w] = "loop"]
        /\ UNCHANGED <<task_queue, opc, arg>>
    BY <1>5, PoolAssumption DEF Return, HandInv, ovars
  <2>2. /\ hand'[w] = Pill
        /\ \A v \in Threads \ {w} : hand'[v] = hand[v]
        /\ fate'[hand[w]] = "done"
        /\ \A t \in Tasks \ {hand[w]} : fate'[t] = fate[t]
    BY <2>1 DEF TypeOK
  <2>3. OneCopy'
    BY <2>1, <2>2 DEF OneCopy
  <2>4. Accounted'
    BY <2>1, <2>2 DEF OneCopy, Accounted
  <2>5. HandInv'
    BY <2>1, <2>2 DEF HandInv, TypeOK
  <2>6. ArgInv'
    <3>1. fate[hand[w]] \in {"sent", "late"}
      BY <2>1 DEF Accounted
    <3> QED
      BY <2>1, <2>2, <3>1 DEF ArgInv
  <2> QED
    BY <2>3, <2>4, <2>5, <2>6
<1>6. CASE Exit(w)
  BY <1>6, PlacesKept DEF Exit, HandInv, ArgInv, ovars, TypeOK
<1>7. CASE Crash(w)
  BY <1>7, PlacesKept DEF Crash, HandInv, ArgInv
<1>8. CASE SpuriousWakeup(w)
  BY <1>8, PlacesKept DEF SpuriousWakeup, HandInv, ArgInv, ovars, TypeOK
<1> QED
  BY <1>1, <1>2, <1>3, <1>4, <1>5, <1>6, <1>7, <1>8 DEF ThreadStep

\* The invariant gives the property: one copy at most, and one exactly for a
\* task that has been sent and has not finished.
LEMMA PlaceInvConserves == TypeOK /\ PlaceInv => TaskConservation
<1> SUFFICES ASSUME TypeOK, OneCopy, Accounted, NEW t \in Tasks
             PROVE  IF fate[t] \in {"sent", "late"}
                    THEN \/ Holders(t) = {} /\ \E i \in Queued(t) : Queued(t) = {i}
                         \/ Queued(t) = {} /\ \E w \in Holders(t) : Holders(t) = {w}
                    ELSE Queued(t) = {} /\ Holders(t) = {}
  BY DEF TaskConservation, PlaceInv
<1>1. ASSUME NEW i \in Queued(t) PROVE Queued(t) = {i} /\ Holders(t) = {}
  BY <1>1 DEF Queued, Holders, OneCopy
<1>2. ASSUME NEW w \in Holders(t) PROVE Holders(t) = {w} /\ Queued(t) = {}
  BY <1>2 DEF Queued, Holders, OneCopy
<1>3. fate[t] \in {"sent", "late"} <=> Queued(t) # {} \/ Holders(t) # {}
  BY DEF Accounted, Queued, Holders
<1> QED
  BY <1>1, <1>2, <1>3

\* No task is lost, duplicated or run twice, whatever the calls, the schedule
\* and the spurious wake-ups.
THEOREM NoTaskLost == Spec => []TaskConservation
<1>1. Init => PlaceInv
  BY PoolAssumption
  DEF Init, PlaceInv, OneCopy, Accounted, HandInv, ArgInv
<1>2. TypeOK /\ PlaceInv /\ [Next]_vars => PlaceInv'
  <2>1. PlaceInv /\ UNCHANGED vars => PlaceInv'
    BY DEF vars, PlaceInv, OneCopy, Accounted, HandInv, ArgInv
  <2> QED
    BY <2>1, PlaceOwner, PlaceCall, PlaceThread DEF Next
<1> QED
  BY <1>1, <1>2, TypeCorrect, PlaceInvConserves, PTL DEF Spec

-----------------------------------------------------------------------------
(* Memory: under the timing assumption a node is erased, and the pool torn   *)
(* down, only when the thread has left entry. The stat alone does not say so *)
(* (a thread that has not begun is KILLED_TD too); the assumption does.      *)

NodeInv ==
  /\ \A w \in Threads : w \notin thread_list => pc[w] \in {"none", "done"}
  /\ \A w \in Threads : stat[w] = "KILLED" => pc[w] \in {"none", "entry", "done"}
  /\ opc \in {"sweep_lock", "sweep"} => \A w \in Threads : pc[w] # "entry"
  /\ opc = "dead" => \A w \in Threads : pc[w] = "done"

LEMMA NodeInvSafe == NodeInv => NoUseAfterFree
BY DEF NodeInv, NoUseAfterFree, UsesFreed

LEMMA NodeOwner == Timely /\ TypeOK /\ NodeInv /\ OwnerStep => NodeInv'
<1> SUFFICES ASSUME Timely, TypeOK, NodeInv, OwnerStep PROVE NodeInv'
  OBVIOUS
<1> USE DEF NodeInv, TypeOK
<1>1. ASSUME NEW w \in Threads, Construct(w) PROVE NodeInv'
  BY <1>1 DEF Construct, ovars
<1>2. ASSUME NEW w \in Threads, SweepNode(w) PROVE NodeInv'
  <2>1. UNCHANGED <<pc, stat, opc>> /\ opc = "sweep"
    BY <1>2 DEF SweepNode, Erasable, LockedAfter, tvars
  <2>2. ASSUME NEW v \in Threads, v \notin thread_list' PROVE pc[v] \in {"none", "done"}
    <3>1. CASE v \notin thread_list
      BY <3>1
    <3>2. CASE v \in thread_list
      <4>1. v = w /\ stat[w] = "KILLED"
        BY <1>2, <2>2, <3>2 DEF SweepNode, Erasable, LockedAfter
      <4> QED
        BY <2>1, <4>1
    <3> QED
      BY <3>1, <3>2
  <2> QED
    BY <2>1, <2>2
<1>3. CASE Constructed
  BY <1>3 DEF Constructed, tvars
<1>4. CASE OwnerLock
  BY <1>4 DEF OwnerLock, tvars
<1>5. CASE SendEmplace
  BY <1>5 DEF SendEmplace, tvars
<1>6. CASE SendSignal
  BY <1>6 DEF SendSignal, Sleepers
<1>7. CASE OwnerUnlock
  BY <1>7 DEF OwnerUnlock, tvars
<1>8. CASE KillPush
  BY <1>8 DEF KillPush, tvars
<1>9. CASE KillBroadcast
  BY <1>9 DEF KillBroadcast
<1>10. CASE SweepLock
  BY <1>10 DEF SweepLock, Nodes, tvars
<1>11. CASE SweepReturn
  BY <1>11 DEF SweepReturn, tvars
<1>12. CASE Destroy
  BY <1>12 DEF Destroy, tvars
<1> QED
  BY <1>1, <1>2, <1>3, <1>4, <1>5, <1>6, <1>7, <1>8, <1>9, <1>10, <1>11, <1>12
  DEF OwnerStep

LEMMA NodeCall == Timely /\ TypeOK /\ NodeInv /\ OwnerCall => NodeInv'
<1> SUFFICES ASSUME Timely, TypeOK, NodeInv, OwnerCall PROVE NodeInv'
  OBVIOUS
<1>1. UNCHANGED <<thread_list, pc, stat>> /\ opc = "idle"
  BY DEF OwnerCall, SendTask, KillAll, Destruct, ClearTrash, tvars
<1>2. \/ opc' \in {"idle", "send", "kill"}
      \/ opc' = "sweep_lock" /\ \A w \in Threads : pc[w] # "entry"
  <2>1. CASE \E t \in Tasks : SendTask(t)
    <3>1. opc' = "send" \/ UNCHANGED opc
      BY <2>1, Zenon DEF SendTask
    <3> QED
      BY <1>1, <3>1
  <2>2. CASE KillAll \/ Destruct
    <3>1. opc' = "kill"
      BY <2>2, Zenon DEF KillAll, Destruct
    <3> QED
      BY <3>1
  <2>3. CASE ClearTrash
    <3>1. (Timely => \A w \in Threads : pc[w] # "entry") /\ opc' = "sweep_lock"
      BY <2>3 DEF ClearTrash
    <3> QED
      BY <3>1
  <2> QED
    BY <2>1, <2>2, <2>3 DEF OwnerCall
<1> QED
  BY <1>1, <1>2 DEF NodeInv

LEMMA NodeThread ==
  ASSUME TypeOK, NodeInv, NEW w \in Threads, ThreadStep(w) \/ SpuriousWakeup(w)
  PROVE  NodeInv'
<1> USE DEF NodeInv, TypeOK, ovars
<1>1. CASE Begin(w)
  BY <1>1 DEF Begin
<1>2. CASE Lock(w)
  BY <1>2 DEF Lock
<1>3. CASE Wait(w)
  BY <1>3 DEF Wait
<1>4. CASE Take(w)
  BY <1>4 DEF Take, Popped
<1>5. CASE Return(w)
  BY <1>5 DEF Return
<1>6. CASE Exit(w)
  BY <1>6 DEF Exit
<1>7. CASE Crash(w)
  BY <1>7, NodeInvSafe DEF Crash, NoUseAfterFree
<1>8. CASE SpuriousWakeup(w)
  BY <1>8 DEF SpuriousWakeup
<1> QED
  BY <1>1, <1>2, <1>3, <1>4, <1>5, <1>6, <1>7, <1>8 DEF ThreadStep

\* When ClearTrash waits for the threads to have begun and sleep(1) outlasts
\* them, no thread ever uses an erased node or a destroyed pool.
THEOREM TimelyIsSafe ==
  ASSUME Timely
  PROVE  Spec => []NoUseAfterFree
<1>1. Init => NodeInv
  BY DEF Init, NodeInv
<1>2. TypeOK /\ NodeInv /\ [Next]_vars => NodeInv'
  <2>1. NodeInv /\ UNCHANGED vars => NodeInv'
    BY DEF vars, NodeInv
  <2> QED
    BY <2>1, NodeOwner, NodeCall, NodeThread DEF Next
<1> QED
  BY <1>1, <1>2, TypeCorrect, NodeInvSafe, PTL DEF Spec

-----------------------------------------------------------------------------
(* _td_list_mutex. It is locked before the loop of ClearTrash and unlocked   *)
(* by its first round, so that it survives the call only when there was no   *)
(* round; after the constructor nothing adds a node.                         *)

SweepInv ==
  /\ opc = "ctor" => ~td_locked
  /\ td_locked /\ opc = "sweep" => todo = thread_list
  /\ td_locked /\ opc \notin {"sweep", "crashed"} => thread_list = {}

LEMMA SweepInvBlocks == SweepInv => BlockedOnlyWhenEmpty
BY DEF SweepInv, BlockedOnlyWhenEmpty

LEMMA SweepOwner == SweepInv /\ OwnerStep => SweepInv'
<1> SUFFICES ASSUME SweepInv, OwnerStep PROVE SweepInv'
  OBVIOUS
<1> USE DEF SweepInv
<1>1. ASSUME NEW w \in Threads, Construct(w) PROVE SweepInv'
  BY <1>1 DEF Construct, ovars
<1>2. ASSUME NEW w \in Threads, SweepNode(w) PROVE SweepInv'
  <2>1. ~td_locked' /\ UNCHANGED opc /\ opc = "sweep"
    BY <1>2 DEF SweepNode, LockedAfter
  <2> QED
    BY <2>1
<1>3. CASE Constructed
  BY <1>3 DEF Constructed
<1>4. CASE OwnerLock
  BY <1>4 DEF OwnerLock
<1>5. CASE SendEmplace
  BY <1>5 DEF SendEmplace
<1>6. CASE SendSignal
  BY <1>6 DEF SendSignal
<1>7. CASE OwnerUnlock
  BY <1>7 DEF OwnerUnlock
<1>8. CASE KillPush
  BY <1>8 DEF KillPush
<1>9. CASE KillBroadcast
  BY <1>9 DEF KillBroadcast
<1>10. CASE SweepLock
  BY <1>10 DEF SweepLock, Nodes
<1>11. CASE SweepReturn
  BY <1>11 DEF SweepReturn
<1>12. CASE Destroy
  BY <1>12 DEF Destroy
<1> QED
  BY <1>1, <1>2, <1>3, <1>4, <1>5, <1>6, <1>7, <1>8, <1>9, <1>10, <1>11, <1>12
  DEF OwnerStep

LEMMA SweepCall == SweepInv /\ OwnerCall => SweepInv'
<1> SUFFICES ASSUME SweepInv, OwnerCall PROVE SweepInv'
  OBVIOUS
<1>1. /\ UNCHANGED <<thread_list, todo, td_locked>>
      /\ opc = "idle" /\ opc' \in {"idle", "send", "kill", "sweep_lock"}
  BY DEF OwnerCall, SendTask, KillAll, Destruct, ClearTrash
<1> QED
  BY <1>1 DEF SweepInv

LEMMA SweepThread ==
  ASSUME SweepInv, NEW w \in Threads, ThreadStep(w) \/ SpuriousWakeup(w)
  PROVE  SweepInv'
<1>1. /\ UNCHANGED <<thread_list, todo, td_locked>>
      /\ opc' = opc \/ opc' = "crashed"
  BY DEF ThreadStep, Begin, Lock, Wait, Take, Return, Exit, Crash, SpuriousWakeup,
         ovars
<1> QED
  BY <1>1 DEF SweepInv

\* ClearTrash leaves _td_list_mutex locked, and the next call blocks for ever,
\* only when it finds _thread_list empty.
THEOREM BlocksOnlyWhenEmpty == Spec => []BlockedOnlyWhenEmpty
<1>1. Init => SweepInv
  BY DEF Init, SweepInv
<1>2. SweepInv /\ [Next]_vars => SweepInv'
  <2>1. SweepInv /\ UNCHANGED vars => SweepInv'
    BY DEF vars, SweepInv
  <2> QED
    BY <2>1, SweepOwner, SweepCall, SweepThread DEF Next
<1> QED
  BY <1>1, <1>2, SweepInvBlocks, PTL DEF Spec
-----------------------------------------------------------------------------
(* What the pool promises. Under the timing assumption every thread that has *)
(* not left has a node, so that the first KillAll pushes an exit task for    *)
(* each: what is queued behind them is never reached.                        *)

Alive == {w \in Threads : pc[w] \notin {"exit", "done"}}

\* The queue: a tasks sent in time, then exit tasks up to place b, at least one for each
\* thread that is left; behind them no task that was sent in time.
Shape(a, b) ==
  /\ a \in Nat /\ b \in Nat /\ a <= b /\ b <= Len(task_queue)
  /\ \A i \in 1..a : InTime(task_queue[i])
  /\ \A i \in (a + 1)..b : task_queue[i] = Pill
  /\ \A i \in (b + 1)..Len(task_queue) : ~InTime(task_queue[i])
  /\ kills = 0 => a = Len(task_queue)
  /\ kills > 0 => Cardinality(Alive) <= b - a

ShapeInv == \E a, b \in 0..Len(task_queue) : Shape(a, b)

\* What a thread runs was sent in time.
RunsInTime == \A w \in Threads : hand[w] \in Tasks => InTime(hand[w])

\* Threads begin in the constructor and leave after KillAll, and SendTask goes on only
\* when there are threads.
StartedInv ==
  /\ opc # "ctor" => \A w \in Threads : pc[w] # "none"
  /\ kills = 0 => \A w \in Threads : pc[w] \notin {"exit", "done"}
  /\ opc \in {"send", "emplace"} => N > 0

PromiseInv == ShapeInv /\ RunsInTime /\ StartedInv

\* Steps that touch neither the queue nor a task.
LEMMA AliveType == Alive \in SUBSET Threads /\ Cardinality(Alive) \in Nat
BY ThreadSets DEF Alive

LEMMA ShapeKept ==
  ASSUME ShapeInv, UNCHANGED <<task_queue, fate, kills>>, Alive' \subseteq Alive
  PROVE  ShapeInv'
<1>1. PICK a, b \in 0..Len(task_queue) : Shape(a, b)
  BY DEF ShapeInv
<1>2. Alive \in SUBSET Threads /\ Alive' \in SUBSET Threads
  BY DEF Alive
<1>3. /\ Cardinality(Alive) \in Nat /\ Cardinality(Alive') \in Nat
      /\ Cardinality(Alive') <= Cardinality(Alive)
  BY <1>2, ThreadSets, Monotone
<1>4. Shape(a, b)'
  BY <1>1, <1>3 DEF Shape, InTime
<1> QED
  BY <1>1, <1>4 DEF ShapeInv

LEMMA PromiseKept ==
  ASSUME ShapeInv, RunsInTime, UNCHANGED <<task_queue, hand, fate, kills>>,
         Alive' \subseteq Alive
  PROVE  ShapeInv' /\ RunsInTime'
<1>1. RunsInTime'
  BY DEF RunsInTime, InTime
<1> QED
  BY <1>1, ShapeKept

LEMMA PromiseOwner ==
  Timely /\ TypeOK /\ PlaceInv /\ NodeInv /\ PromiseInv /\ OwnerStep => PromiseInv'
<1> SUFFICES ASSUME Timely, TypeOK, PlaceInv, NodeInv, PromiseInv, OwnerStep
             PROVE  PromiseInv'
  OBVIOUS
<1> USE DEF PromiseInv, Alive, StartedInv
<1>1. ASSUME NEW w \in Threads, Construct(w) PROVE PromiseInv'
  <2>1. /\ pc' = [pc EXCEPT ![w] = "entry"] /\ pc[w] = "none" /\ opc = "ctor"
        /\ UNCHANGED <<task_queue, hand, fate, kills, opc>>
    BY <1>1 DEF Construct, ovars
  <2>2. Alive' \subseteq Alive
    BY <2>1 DEF TypeOK
  <2> QED
    BY <2>1, <2>2, PromiseKept DEF TypeOK
<1>2. ASSUME NEW w \in Threads, SweepNode(w) PROVE PromiseInv'
  BY <1>2, PromiseKept DEF SweepNode, tvars
<1>3. CASE Constructed
  BY <1>3, PromiseKept DEF Constructed, tvars
<1>4. CASE OwnerLock
  BY <1>4, PromiseKept DEF OwnerLock, tvars
<1>5. CASE SendEmplace
  <2>0. PICK n : n = Len(task_queue)
    OBVIOUS
  <2>1. /\ arg \in Tasks /\ fate[arg] = "new"
        /\ UNCHANGED <<pc, hand, kills>> /\ opc = "emplace" /\ opc' = "signal"
    BY <1>5 DEF SendEmplace, PlaceInv, ArgInv, tvars
  <2>2. /\ n \in Nat /\ Len(task_queue') = n + 1
        /\ task_queue'[n + 1] = arg
        /\ \A i \in 1..n : task_queue'[i] = task_queue[i]
    BY <1>5, <2>0 DEF SendEmplace, TypeOK
  <2>3. /\ fate'[arg] = (IF kills = 0 THEN "sent" ELSE "late")
        /\ \A t \in Tasks \ {arg} : fate'[t] = fate[t]
    BY <1>5, <2>1 DEF SendEmplace, TypeOK
  <2>4. \A i \in 1..n : task_queue[i] # arg
    <3>1. DOMAIN task_queue = 1..n
      BY <2>0 DEF TypeOK
    <3>2. fate[arg] \notin {"sent", "late"}
      BY <2>1
    <3>3. \A i \in DOMAIN task_queue : task_queue[i] # arg
      BY <2>1, <3>2 DEF PlaceInv, Accounted
    <3> QED
      BY <3>1, <3>3
  <2>5. \A i \in 1..n : InTime(task_queue[i])' <=> InTime(task_queue[i])
    BY <2>2, <2>3, <2>4 DEF InTime
  <2>6. InTime(task_queue[n + 1])' <=> kills = 0
    BY <2>1, <2>2, <2>3 DEF InTime
  <2>7. RunsInTime'
    BY <2>1, <2>3 DEF RunsInTime, InTime
  <2>8. PICK a, b \in 0..n : Shape(a, b)
    BY <2>0 DEF ShapeInv
  <2>9. CASE kills = 0
    <3>1. a = n /\ b = n
      BY <2>0, <2>2, <2>8, <2>9 DEF Shape
    <3>2. Shape(n + 1, n + 1)'
      <4>1. \A i \in 1..(n + 1) : i \in 1..n \/ i = n + 1
        BY <2>2
      <4>2. \A i \in 1..n : InTime(task_queue[i])
        BY <2>0, <2>8, <3>1 DEF Shape
      <4>3. \A i \in 1..(n + 1) : InTime(task_queue[i])'
        BY <2>5, <2>6, <2>9, <4>1, <4>2
      <4> QED
        BY <2>0, <2>1, <2>2, <2>9, <4>3 DEF Shape
    <3> QED
      BY <2>0, <2>1, <2>2, <2>7, <3>2 DEF ShapeInv
  <2>10. CASE kills # 0
    <3>1. Shape(a, b)'
      <4>1. a <= b /\ b <= n /\ a \in Nat /\ b \in Nat
        BY <2>0, <2>2, <2>8
        DEF Shape
      <4>2. \A i \in 1..a : i \in 1..n /\ InTime(task_queue[i])'
        BY <2>0, <2>2, <2>5, <2>8, <4>1 DEF Shape
      <4>3. \A i \in (a + 1)..b : i \in 1..n /\ task_queue'[i] = Pill
        BY <2>0, <2>2, <2>8, <4>1 DEF Shape
      <4>4. ASSUME NEW i \in (b + 1)..(n + 1) PROVE ~InTime(task_queue[i])'
        <5>1. CASE i = n + 1
          BY <2>6, <2>10, <5>1
        <5>2. CASE i # n + 1
          <6>1. i \in 1..n /\ i \in (b + 1)..n
            BY <2>2, <4>1, <5>2
          <6>2. ~InTime(task_queue[i])
            BY <2>0, <2>8, <6>1 DEF Shape
          <6> QED
            BY <2>5, <6>1, <6>2
        <5> QED
          BY <5>1, <5>2
      <4>5. Alive' = Alive
        BY <2>1
      <4> QED
        BY <2>0, <2>1, <2>2, <2>8, <2>10, <4>1, <4>2, <4>3, <4>4, <4>5 DEF Shape
    <3> QED
      BY <2>0, <2>1, <2>2, <2>7, <3>1 DEF ShapeInv
  <2> QED
    BY <2>9, <2>10
<1>6. CASE SendSignal
  <2>1. /\ Alive' \subseteq Alive /\ UNCHANGED <<task_queue, hand, fate, kills>>
        /\ opc' = "unlock" /\ opc = "signal"
        /\ \A w \in Threads : pc'[w] = pc[w] \/ pc'[w] = "relock"
    BY <1>6 DEF SendSignal, Sleepers, TypeOK
  <2> QED
    BY <2>1, PromiseKept
<1>7. CASE OwnerUnlock
  BY <1>7, PromiseKept DEF OwnerUnlock, tvars
<1>8. CASE KillPush
  <2>0. PICK n, m : n = Len(task_queue) /\ m = Cardinality(thread_list)
    OBVIOUS
  <2> DEFINE new == [i \in 1..m |-> Pill]
  <2>1. m \in Nat /\ n \in Nat /\ kills \in Nat
    BY <2>0, ThreadSets DEF TypeOK
  <2>2. new \in Seq({Pill}) /\ Len(new) = m
    BY <2>1
  <2>3. task_queue' = task_queue \o new
    BY <1>8, <2>0 DEF KillPush, WithExitTasks, ExitTasks
  <2>4. /\ Len(task_queue') = n + m
        /\ \A i \in 1..n : i \in 1..(n + m) /\ task_queue'[i] = task_queue[i]
        /\ \A i \in 1..(n + m) : i \notin 1..n => task_queue'[i] = Pill
    BY <2>0, <2>1, <2>2, <2>3 DEF TypeOK
  <2> HIDE DEF new
  <2>5. Pill \notin Tasks
    BY PoolAssumption
  <2>6. /\ UNCHANGED <<hand, fate, pc>> /\ opc' = "broadcast" /\ opc = "push"
        /\ kills' = kills + 1
    BY <1>8 DEF KillPush, tvars
  <2>7. RunsInTime'
    BY <2>6 DEF RunsInTime, InTime
  <2>8. PICK a, b \in 0..n : Shape(a, b)
    BY <2>0 DEF ShapeInv
  <2>9. a <= b /\ b <= n /\ a \in Nat /\ b \in Nat
    BY <2>0, <2>1, <2>8 DEF Shape
  <2>10. Alive' = Alive /\ UNCHANGED <<fate, pc>>
    BY <2>6
  <2>11. \A i \in 1..n : InTime(task_queue[i])' <=> InTime(task_queue[i])
    BY <2>4, <2>10 DEF InTime
  <2>12. \A i \in 1..(n + m) : i \notin 1..n => ~InTime(task_queue[i])'
    BY <2>4, <2>5 DEF InTime
  <2>13. \A i \in 1..a : InTime(task_queue[i])'
    BY <2>0, <2>1, <2>8, <2>9, <2>11 DEF Shape
  <2>14. CASE kills = 0
    <3>1. a = n
      BY <2>0, <2>8, <2>14 DEF Shape
    <3>2. Cardinality(Alive) <= m /\ Cardinality(Alive) \in Nat
      <4>1. Alive \subseteq thread_list
        BY <2>6 DEF NodeInv, TypeOK
      <4>2. Alive \in SUBSET Threads /\ thread_list \in SUBSET Threads
        BY DEF TypeOK
      <4> QED
        BY <2>0, <4>1, <4>2, Monotone, ThreadSets
    <3>3. Shape(n, n + m)'
      <4>1. \A i \in (n + 1)..(n + m) : task_queue'[i] = Pill
        BY <2>1, <2>4
      <4>2. (n + m) - n = m
        BY <2>1
      <4>3. \A i \in (n + m + 1)..(n + m) : FALSE
        BY <2>1
      <4> HIDE DEF Alive
      <4> QED
        BY <2>0, <2>1, <2>4, <2>6, <2>10, <2>13, <3>1, <3>2, <4>1, <4>2, <4>3 DEF Shape
    <3>4. n \in 0..(n + m) /\ n + m \in 0..(n + m)
      BY <2>1
    <3> QED
      BY <2>0, <2>1, <2>4, <2>6, <2>7, <3>3, <3>4 DEF ShapeInv
  <2>15. CASE kills # 0
    <3>1. Cardinality(Alive) <= b - a /\ Cardinality(Alive) \in Nat
      <4> HIDE DEF Alive
      <4> QED
        BY <2>0, <2>1, <2>8, <2>15, AliveType DEF Shape
    <3>2. \A i \in (a + 1)..b : i \in 1..n /\ task_queue'[i] = Pill
      BY <2>0, <2>1, <2>4, <2>8, <2>9 DEF Shape
    <3>3. ASSUME NEW i \in (b + 1)..(n + m) PROVE ~InTime(task_queue[i])'
      <4>1. CASE i \in 1..n
        <5>1. i \in (b + 1)..n
          BY <2>1, <2>9, <4>1
        <5> QED
          BY <2>0, <2>8, <2>11, <4>1, <5>1 DEF Shape
      <4>2. CASE i \notin 1..n
        <5>1. i \in 1..(n + m)
          BY <2>9
        <5> QED
          BY <2>12, <4>2, <5>1
      <4> QED
        BY <4>1, <4>2
    <3>4. Shape(a, b)'
      <4> HIDE DEF Alive
      <4>1. b <= n + m /\ kills' # 0
        BY <2>1, <2>6, <2>9
      <4> QED
        BY <2>0, <2>4, <2>9, <2>10, <2>13, <3>1, <3>2, <3>3, <4>1 DEF Shape
    <3>5. a \in 0..(n + m) /\ b \in 0..(n + m)
      BY <2>1, <2>9
    <3> QED
      BY <2>0, <2>1, <2>4, <2>6, <2>7, <2>15, <3>4, <3>5 DEF ShapeInv
  <2> QED
    BY <2>14, <2>15
<1>9. CASE KillBroadcast
  <2>1. /\ Alive' \subseteq Alive /\ UNCHANGED <<task_queue, hand, fate, kills>>
        /\ opc' = "unlock" /\ opc = "broadcast"
        /\ \A w \in Threads : pc'[w] = pc[w] \/ pc'[w] = "relock"
    BY <1>9 DEF KillBroadcast, TypeOK
  <2> QED
    BY <2>1, PromiseKept
<1>10. CASE SweepLock
  BY <1>10, PromiseKept DEF SweepLock, tvars
<1>11. CASE SweepReturn
  BY <1>11, PromiseKept DEF SweepReturn, tvars
<1>12. CASE Destroy
  BY <1>12, PromiseKept DEF Destroy, tvars
<1> QED
  BY <1>1, <1>2, <1>3, <1>4, <1>5, <1>6, <1>7, <1>8, <1>9, <1>10, <1>11, <1>12
  DEF OwnerStep
LEMMA PromiseCall == TypeOK /\ NodeInv /\ PromiseInv /\ OwnerCall => PromiseInv'
<1> SUFFICES ASSUME TypeOK, NodeInv, PromiseInv, OwnerCall PROVE PromiseInv'
  OBVIOUS
<1>1. /\ UNCHANGED <<task_queue, hand, pc, kills>> /\ opc = "idle" /\ opc' # "emplace"
      /\ opc' # "ctor" /\ (opc' = "send" => N > 0)
  <2>1. ASSUME NEW t \in Tasks, SendTask(t)
        PROVE  /\ UNCHANGED <<task_queue, hand, pc, kills>> /\ opc = "idle"
               /\ opc' \in {"idle", "send"} /\ (opc' = "send" => N > 0)
    <3>1. thread_list # {} => N > 0
      <4>1. thread_list \subseteq 1..N
        BY DEF TypeOK, Threads
      <4>2. ASSUME NEW w \in 1..N PROVE N > 0
        BY PoolAssumption
      <4> QED
        BY <4>1, <4>2
    <3> QED
      BY <2>1, <3>1 DEF SendTask, tvars
  <2> QED
    BY <2>1 DEF OwnerCall, KillAll, Destruct, ClearTrash, tvars
<1>2. StartedInv' /\ Alive' = Alive
  BY <1>1 DEF PromiseInv, StartedInv, Alive
<1>3. ASSUME NEW t \in Tasks
      PROVE  InTime(t)' <=> InTime(t)
  BY DEF OwnerCall, SendTask, KillAll, Destruct, ClearTrash, InTime, TypeOK
<1>4. PICK a, b \in 0..Len(task_queue) : Shape(a, b)
  BY DEF PromiseInv, ShapeInv
<1>5. \A t : InTime(t)' <=> InTime(t)
  BY <1>3 DEF InTime
<1>6. Shape(a, b)'
  <2> HIDE DEF InTime
  <2> QED
    BY <1>1, <1>2, <1>4, <1>5 DEF Shape
<1>7. RunsInTime'
  BY <1>1, <1>5 DEF PromiseInv, RunsInTime
<1> QED
  BY <1>1, <1>2, <1>4, <1>6, <1>7 DEF PromiseInv, ShapeInv

\* While a thread is left and no task sent in time is queued, the front is an exit task.
LEMMA ExitTaskInFront ==
  ASSUME TypeOK, NEW b, Shape(0, b), NEW w \in Alive, task_queue # <<>>
  PROVE  /\ b > 0 /\ task_queue[1] = Pill /\ kills > 0
         /\ Cardinality(Alive) <= b
         /\ Cardinality(Alive \ {w}) = Cardinality(Alive) - 1
         /\ Cardinality(Alive) \in Nat
<1>1. Len(task_queue) \in Nat \ {0} /\ kills \in Nat
  BY DEF TypeOK
<1>2. kills > 0
  BY <1>1 DEF Shape
<1>3. Alive \in SUBSET Threads /\ Cardinality(Alive) \in Nat
  BY AliveType
<1>4. Alive \ {w} \in SUBSET Threads
  BY <1>3
<1>5. Cardinality(Alive \ {w}) = Cardinality(Alive) - 1 /\ Cardinality(Alive \ {w}) \in Nat
  BY <1>3, <1>4, ThreadSets, FS_RemoveElement
<1>6. b \in Nat /\ Cardinality(Alive) <= b
  BY <1>2, <1>3 DEF Shape
<1>7. b > 0
  BY <1>3, <1>5, <1>6
<1>8. 1 \in (0 + 1)..b
  BY <1>6, <1>7
<1>9. task_queue[1] = Pill
  BY <1>8 DEF Shape
<1> QED
  BY <1>2, <1>3, <1>5, <1>6, <1>7, <1>9

LEMMA PromiseThread ==
  ASSUME TypeOK, PlaceInv, NodeInv, PromiseInv,
         NEW w \in Threads, ThreadStep(w) \/ SpuriousWakeup(w)
  PROVE  PromiseInv'
<1> USE DEF PromiseInv, Alive, StartedInv
<1>1. CASE Begin(w)
  BY <1>1, PromiseKept DEF Begin, ovars, TypeOK
<1>2. CASE Lock(w)
  BY <1>2, PromiseKept DEF Lock, ovars, TypeOK
<1>3. CASE Wait(w)
  BY <1>3, PromiseKept DEF Wait, ovars, TypeOK
<1>4. CASE Take(w)
  <2>1. PICK n : n = Len(task_queue)
    OBVIOUS
  <2>2. /\ n \in Nat \ {0} /\ Len(task_queue') = n - 1
        /\ \A i \in 1..(n - 1) : i + 1 \in 1..n /\ task_queue'[i] = task_queue[i + 1]
        /\ Head(task_queue) = task_queue[1]
    BY <1>4, <2>1 DEF Take, Popped, TypeOK
  <2>3. /\ pc[w] = "locked" /\ UNCHANGED <<fate, kills, opc>>
        /\ pc' = [pc EXCEPT ![w] = IF task_queue[1] = Pill THEN "exit" ELSE "run"]
        /\ hand' = [hand EXCEPT ![w] = task_queue[1]]
    BY <1>4, <2>2 DEF Take, ovars
  <2>4. kills \in Nat /\ Pill \notin Tasks
    BY PoolAssumption DEF TypeOK
  <2>5. PICK a, b \in 0..n : Shape(a, b)
    BY <2>1 DEF ShapeInv
  <2>6. a <= b /\ b <= n /\ a \in Nat /\ b \in Nat
    BY <2>1, <2>5 DEF Shape
  <2>7. w \in Alive /\ Alive \in SUBSET Threads /\ Cardinality(Alive) \in Nat
    BY <2>3, AliveType
  <2>8. \A t : InTime(t)' <=> InTime(t)
    BY <2>3 DEF InTime
  <2>9. \A i \in 1..(n - 1) : task_queue'[i] = task_queue[i + 1]
    BY <2>2
  <2>10. CASE a > 0
    <3>1. InTime(task_queue[1]) /\ task_queue[1] # Pill
      BY <2>4, <2>5, <2>6, <2>10 DEF Shape, InTime
    <3>2. Alive' = Alive /\ pc' = [pc EXCEPT ![w] = "run"]
      BY <2>3, <3>1 DEF TypeOK
    <3>3. RunsInTime'
      BY <2>3, <2>8, <3>1 DEF RunsInTime, TypeOK
    <3>4. \A i \in 1..(a - 1) : InTime(task_queue'[i])
      <4>1. \A i \in 1..(a - 1) : i \in 1..(n - 1) /\ i + 1 \in 1..a
        BY <2>2, <2>6, <2>10
      <4> QED
        BY <2>5, <2>9, <4>1 DEF Shape
    <3>5. \A i \in a..(b - 1) : task_queue'[i] = Pill
      <4>1. \A i \in a..(b - 1) : i \in 1..(n - 1) /\ i + 1 \in (a + 1)..b
        BY <2>2, <2>6, <2>10
      <4> QED
        BY <2>5, <2>9, <4>1 DEF Shape
    <3>6. \A i \in b..(n - 1) : ~InTime(task_queue'[i])
      <4>1. \A i \in b..(n - 1) : i \in 1..(n - 1) /\ i + 1 \in (b + 1)..n
        BY <2>2, <2>6, <2>10
      <4> QED
        BY <2>1, <2>5, <2>9, <4>1 DEF Shape
    <3>7. /\ a - 1 \in Nat /\ b - 1 \in Nat /\ a - 1 <= b - 1 /\ b - 1 <= n - 1
          /\ (a - 1) + 1 = a /\ (b - 1) + 1 = b /\ (b - 1) - (a - 1) = b - a
          /\ a - 1 \in 0..(n - 1) /\ b - 1 \in 0..(n - 1)
      BY <2>2, <2>6, <2>10
    <3>8. Shape(a - 1, b - 1)'
      <4> HIDE DEF Alive
      <4> QED
        BY <2>1, <2>2, <2>3, <2>5, <2>8, <3>2, <3>4, <3>5, <3>6, <3>7 DEF Shape
    <3>9. StartedInv'
      BY <2>3, <3>2 DEF TypeOK
    <3> QED
      BY <2>2, <3>3, <3>7, <3>8, <3>9 DEF ShapeInv
  <2>11. CASE a = 0
    <3>1. task_queue # <<>>
      BY <1>4 DEF Take
    <3>2. /\ b > 0 /\ task_queue[1] = Pill /\ kills > 0
          /\ Cardinality(Alive) <= b
          /\ Cardinality(Alive \ {w}) = Cardinality(Alive) - 1
      <4> HIDE DEF Alive
      <4> QED
        BY <2>5, <2>7, <2>11, <3>1, ExitTaskInFront
    <3>3. Alive' = Alive \ {w} /\ pc' = [pc EXCEPT ![w] = "exit"]
      BY <2>3, <3>2 DEF TypeOK
    <3>4. RunsInTime'
      BY <2>3, <2>4, <2>8, <3>2 DEF RunsInTime, TypeOK
    <3>5. \A i \in 1..(b - 1) : task_queue'[i] = Pill
      <4>1. \A i \in 1..(b - 1) : i \in 1..(n - 1) /\ i + 1 \in (a + 1)..b
        BY <2>2, <2>6, <2>11
      <4> QED
        BY <2>5, <2>9, <4>1 DEF Shape
    <3>6. \A i \in b..(n - 1) : ~InTime(task_queue'[i])
      <4>1. \A i \in b..(n - 1) : i \in 1..(n - 1) /\ i + 1 \in (b + 1)..n
        BY <2>2, <2>6, <3>2
      <4> QED
        BY <2>1, <2>5, <2>9, <4>1 DEF Shape
    <3>7. /\ b - 1 \in Nat /\ b - 1 <= n - 1 /\ (b - 1) + 1 = b /\ 0 + 1 = 1
           /\ 0 \in 0..(n - 1) /\ b - 1 \in 0..(n - 1) /\ (b - 1) - 0 = b - 1
      BY <2>2, <2>6, <3>2
    <3>8. Cardinality(Alive') <= b - 1
      <4> HIDE DEF Alive
      <4> QED
        BY <2>6, <2>7, <3>2, <3>3
    <3>9. Shape(0, b - 1)'
      <4> HIDE DEF Alive
      <4> QED
        BY <2>1, <2>2, <2>3, <2>8, <3>2, <3>5, <3>6, <3>7, <3>8 DEF Shape
    <3>10. StartedInv'
      BY <2>3, <2>4, <3>2, <3>3 DEF TypeOK
    <3> QED
      BY <2>2, <3>4, <3>7, <3>9, <3>10 DEF ShapeInv
  <2> QED
    BY <2>6, <2>10, <2>11
<1>5. CASE Return(w)
  <2>1. /\ pc[w] = "run" /\ pc' = [pc EXCEPT ![w] = "loop"]
        /\ hand' = [hand EXCEPT ![w] = Pill]
        /\ fate' = [fate EXCEPT ![hand[w]] = "done"]
        /\ UNCHANGED <<task_queue, kills, opc>>
    BY <1>5 DEF Return, ovars
  <2>2. hand[w] \in Tasks /\ Pill \notin Tasks
    BY <2>1, PoolAssumption DEF PlaceInv, HandInv
  <2>3. \A t \in Tasks : t # hand[w] => fate'[t] = fate[t]
    BY <2>1, <2>2 DEF TypeOK
  <2>4. \A i \in 1..Len(task_queue) : task_queue[i] # hand[w]
    BY <2>2 DEF PlaceInv, OneCopy, TypeOK
  <2>5. \A v \in Threads : v # w /\ hand[v] \in Tasks => hand[v] # hand[w]
    BY <2>2 DEF PlaceInv, OneCopy
  <2>6. \A i \in 1..Len(task_queue) : InTime(task_queue[i])' <=> InTime(task_queue[i])
    BY <2>1, <2>3, <2>4 DEF InTime
  <2>7. RunsInTime'
    BY <2>1, <2>2, <2>3, <2>5 DEF RunsInTime, InTime, TypeOK
  <2>8. Alive' = Alive
    BY <2>1 DEF TypeOK
  <2>9. PICK a, b \in 0..Len(task_queue) : Shape(a, b)
    BY DEF ShapeInv
  <2>10. \A i \in 1..a : i \in 1..Len(task_queue)
    BY <2>9 DEF TypeOK
  <2>11. \A i \in (b + 1)..Len(task_queue) : i \in 1..Len(task_queue)
    BY <2>9 DEF TypeOK
  <2>12. Shape(a, b)'
    <3> HIDE DEF Alive
    <3>1. \A i \in 1..a : InTime(task_queue[i])'
      BY <2>6, <2>9, <2>10 DEF Shape
    <3>2. \A i \in (b + 1)..Len(task_queue) : ~InTime(task_queue[i])'
      BY <2>6, <2>9, <2>11 DEF Shape
    <3> QED
      BY <2>1, <2>8, <2>9, <3>1, <3>2 DEF Shape
  <2>13. StartedInv'
    BY <2>1 DEF TypeOK
  <2> QED
    BY <2>1, <2>7, <2>9, <2>12, <2>13 DEF ShapeInv
<1>6. CASE Exit(w)
  <2>1. kills # 0
    BY <1>6 DEF Exit
  <2>2. Alive' \subseteq Alive /\ UNCHANGED <<task_queue, hand, fate, kills>>
    BY <1>6 DEF Exit, ovars, TypeOK
  <2>3. StartedInv'
    BY <1>6, <2>1 DEF Exit, ovars, TypeOK
  <2> QED
    BY <2>2, <2>3, PromiseKept
<1>7. CASE Crash(w)
  BY <1>7, NodeInvSafe DEF Crash, NoUseAfterFree
<1>8. CASE SpuriousWakeup(w)
  BY <1>8, PromiseKept DEF SpuriousWakeup, ovars, TypeOK
<1> QED
  BY <1>1, <1>2, <1>3, <1>4, <1>5, <1>6, <1>7, <1>8 DEF ThreadStep

LEMMA PromiseStarts == Init => PromiseInv
<1> SUFFICES ASSUME Init PROVE PromiseInv
  OBVIOUS
<1>1. Len(task_queue) = 0 /\ kills = 0
  BY DEF Init
<1>2. Shape(0, 0)
  BY <1>1 DEF Shape
<1> QED
  BY <1>1, <1>2, PoolAssumption DEF Init, PromiseInv, ShapeInv, RunsInTime, StartedInv

-----------------------------------------------------------------------------
(* Every step is one of TaskExecutor, or one it does not see.                *)

LEMMA PendingIs ==
  ASSUME TypeOK, NEW a, NEW b, Shape(a, b)
  PROVE  /\ {k \in DOMAIN task_queue : InTime(task_queue[k])} = 1..a
         /\ Pending = [i \in 1..a |-> task_queue[i]]
         /\ a \in Nat /\ a <= Len(task_queue)
<1>1. DOMAIN task_queue = 1..Len(task_queue) /\ Len(task_queue) \in Nat
  BY DEF TypeOK
<1>2. a \in Nat /\ b \in Nat /\ a <= b /\ b <= Len(task_queue)
  BY DEF Shape
<1>3. \A i \in 1..a : i \in 1..Len(task_queue) /\ InTime(task_queue[i])
  <2>1. \A i \in 1..a : i \in 1..Len(task_queue)
    BY <1>1, <1>2
  <2> QED
    BY <2>1 DEF Shape
<1>4. ASSUME NEW k \in 1..Len(task_queue), k \notin 1..a PROVE ~InTime(task_queue[k])
  <2>1. k \in (a + 1)..b \/ k \in (b + 1)..Len(task_queue)
    BY <1>1, <1>2, <1>4
  <2>2. k \in (a + 1)..b => task_queue[k] = Pill
    BY DEF Shape
  <2>3. ~InTime(Pill)
    BY PoolAssumption DEF InTime
  <2> QED
    BY <2>1, <2>2, <2>3 DEF Shape
<1>5. {k \in DOMAIN task_queue : InTime(task_queue[k])} = 1..a
  BY <1>1, <1>3, <1>4
<1> QED
  BY <1>2, <1>5 DEF Pending

LEMMA PendingKept ==
  ASSUME UNCHANGED task_queue,
         \A k \in DOMAIN task_queue : InTime(task_queue[k])' <=> InTime(task_queue[k])
  PROVE  Pending' = Pending
BY DEF Pending

\* TaskExecutor sees the queue, the hands, the fates and whether KillAll was called.
LEMMA Unseen ==
  ASSUME UNCHANGED <<task_queue, hand, fate>>, (kills = 0)' <=> (kills = 0)
  PROVE  UNCHANGED Executor!vars
<1>1. Pending' = Pending
  BY PendingKept DEF InTime
<1>2. Running' = Running /\ Ended' = Ended /\ Refused' = Refused
  BY DEF Running, Ended, Refused
<1>3. (kills = 0)' = (kills = 0)
  OBVIOUS
<1> QED
  BY <1>1, <1>2, <1>3 DEF Executor!vars

\* A task that has not been sent is new to it.
LEMMA Unknown ==
  ASSUME TypeOK, PlaceInv, NEW t \in Tasks, fate[t] = "new"
  PROVE  t \notin Executor!Known
<1>1. t \notin {Pending[i] : i \in DOMAIN Pending}
  BY DEF Pending, InTime
<1>2. t \notin Running
  BY DEF Running, PlaceInv, Accounted
<1> QED
  BY <1>1, <1>2 DEF Executor!Known, Ended, Refused

LEMMA EmplaceStep ==
  ASSUME TypeOK, PlaceInv, PromiseInv, SendEmplace
  PROVE  Executor!Next
<1>1. /\ arg \in Tasks /\ fate[arg] = "new" /\ opc = "emplace"
      /\ UNCHANGED <<hand, kills>>
      /\ task_queue' = Append(task_queue, arg)
      /\ fate' = [fate EXCEPT ![arg] = IF kills = 0 THEN "sent" ELSE "late"]
  BY DEF SendEmplace, PlaceInv, ArgInv, tvars
<1>2. arg \notin Executor!Known /\ Running' = Running /\ N > 0
  BY <1>1, Unknown DEF Running, PromiseInv, StartedInv
<1>3. PICK n : n = Len(task_queue)
  OBVIOUS
<1>4. /\ n \in Nat /\ DOMAIN task_queue = 1..n /\ DOMAIN task_queue' = 1..(n + 1)
      /\ task_queue'[n + 1] = arg
      /\ \A i \in 1..n : task_queue'[i] = task_queue[i]
  BY <1>1, <1>3 DEF TypeOK
<1>5. \A t \in Tasks : t # arg => fate'[t] = fate[t]
  BY <1>1 DEF TypeOK
<1>6. \A i \in 1..n : task_queue[i] # arg
  BY <1>1, <1>4 DEF PlaceInv, Accounted
<1>7. \A i \in 1..n : InTime(task_queue[i])' <=> InTime(task_queue[i])
  BY <1>4, <1>5, <1>6 DEF InTime
<1>8. CASE kills = 0
  <2>1. fate'[arg] = "sent"
    BY <1>1, <1>8 DEF TypeOK
  <2>2. Ended' = Ended /\ Refused' = Refused
    BY <1>1, <1>5, <2>1 DEF Ended, Refused
  <2>3. PICK a, b \in 0..n : Shape(a, b)
    BY <1>3 DEF PromiseInv, ShapeInv
  <2>4. a = n
    BY <1>3, <1>8, <2>3 DEF Shape
  <2>5. Pending = [i \in 1..n |-> task_queue[i]]
    BY <2>3, <2>4, PendingIs
  <2>6. \A i \in 1..n : InTime(task_queue[i])
    BY <2>3, <2>4 DEF Shape
  <2>7. \A i \in 1..(n + 1) : InTime(task_queue[i])'
    <3>1. InTime(task_queue[n + 1])'
      BY <1>1, <1>4, <2>1 DEF InTime
    <3>2. \A i \in 1..(n + 1) : i \in 1..n \/ i = n + 1
      BY <1>4
    <3> QED
      BY <1>7, <2>6, <3>1, <3>2
  <2>8. Pending' = [i \in 1..(n + 1) |-> task_queue'[i]]
    <3> HIDE DEF InTime
    <3>1. {k \in DOMAIN task_queue' : InTime(task_queue[k])'} = 1..(n + 1)
      BY <1>4, <2>7
    <3> QED
      BY <3>1 DEF Pending
  <2>9. task_queue = Pending /\ task_queue' = Pending'
    <3>1. task_queue \in Seq(Tasks \cup {Pill}) /\ task_queue' \in Seq(Tasks \cup {Pill})
      BY <1>1 DEF TypeOK
    <3>2. \A q \in Seq(Tasks \cup {Pill}) : q = [i \in DOMAIN q |-> q[i]]
      OBVIOUS
    <3> QED
      BY <1>4, <2>5, <2>8, <3>1, <3>2
  <2>10. Executor!Submit(arg)
    BY <1>1, <1>2, <1>8, <2>2, <2>9 DEF Executor!Submit
  <2> QED
    BY <1>1, <2>10 DEF Executor!Next
<1>9. CASE kills # 0
  <2>1. fate'[arg] = "late"
    BY <1>1, <1>9 DEF TypeOK
  <2>2. Ended' = Ended /\ Refused' = Refused \cup {arg}
    BY <1>1, <1>5, <2>1 DEF Ended, Refused
  <2>3. ~InTime(task_queue[n + 1])'
    BY <1>4, <2>1 DEF InTime
  <2>4. {k \in DOMAIN task_queue' : InTime(task_queue[k])'}
          = {k \in DOMAIN task_queue : InTime(task_queue[k])}
    <3> HIDE DEF InTime
    <3>1. \A i \in 1..(n + 1) : i \in 1..n \/ i = n + 1
      BY <1>4
    <3>2. \A i \in 1..n : i \in 1..(n + 1)
      BY <1>4
    <3> QED
      BY <1>4, <1>7, <2>3, <3>1, <3>2
  <2>5. Pending' = Pending
    BY <1>4, <2>4 DEF Pending
  <2>6. Executor!Refuse(arg)
    BY <1>1, <1>2, <1>9, <2>2, <2>5 DEF Executor!Refuse
  <2> QED
    BY <1>1, <2>6 DEF Executor!Next
<1> QED
  BY <1>8, <1>9

LEMMA KillStep ==
  ASSUME TypeOK, PromiseInv, KillPush
  PROVE  Executor!Next \/ UNCHANGED Executor!vars
<1>1. /\ UNCHANGED <<hand, fate>> /\ kills' = kills + 1 /\ kills \in Nat
      /\ task_queue' = task_queue \o ExitTasks
  BY DEF KillPush, WithExitTasks, tvars, TypeOK
<1>2. Running' = Running /\ Ended' = Ended /\ Refused' = Refused
  BY <1>1 DEF Running, Ended, Refused
<1>3. PICK n, m : n = Len(task_queue) /\ m = Cardinality(thread_list)
  OBVIOUS
<1>4. n \in Nat /\ m \in Nat /\ DOMAIN task_queue = 1..n
  BY <1>3, ThreadSets DEF TypeOK
<1>5. ExitTasks \in Seq({Pill}) /\ Len(ExitTasks) = m
  BY <1>3, <1>4 DEF ExitTasks
<1>6. /\ DOMAIN task_queue' = 1..(n + m)
      /\ \A i \in 1..n : i \in 1..(n + m) /\ task_queue'[i] = task_queue[i]
      /\ \A i \in 1..(n + m) : i \notin 1..n => task_queue'[i] = Pill
  BY <1>1, <1>3, <1>4, <1>5 DEF TypeOK
<1>7. \A i \in 1..n : InTime(task_queue[i])' <=> InTime(task_queue[i])
  BY <1>1, <1>6 DEF InTime
<1>8. \A i \in 1..(n + m) : i \notin 1..n => ~InTime(task_queue[i])'
  BY <1>6, PoolAssumption DEF InTime
<1>9. {k \in DOMAIN task_queue' : InTime(task_queue[k])'}
        = {k \in DOMAIN task_queue : InTime(task_queue[k])}
  <2> HIDE DEF InTime
  <2> QED
    BY <1>4, <1>6, <1>7, <1>8
<1>10. Pending' = Pending
  BY <1>4, <1>6, <1>9 DEF Pending
<1>11. CASE kills = 0
  <2>1. kills' # 0
    BY <1>1, <1>11
  <2>2. Executor!Close
    BY <1>2, <1>10, <1>11, <2>1 DEF Executor!Close
  <2> QED
    BY <2>2 DEF Executor!Next
<1>12. CASE kills # 0
  <2>1. (kills = 0)' = (kills = 0)
    BY <1>1, <1>12
  <2> QED
    BY <1>2, <1>10, <2>1 DEF Executor!vars
<1> QED
  BY <1>11, <1>12
\* The other threads have room for N - 1 tasks.
LEMMA RunningFew ==
  ASSUME TypeOK, NEW w \in Threads, hand[w] \notin Tasks
  PROVE  Cardinality(Running) < N
<1>1. PICK S : S = {v \in Threads : hand[v] \in Tasks}
  OBVIOUS
<1>2. PICK f : f = [v \in S |-> hand[v]]
  OBVIOUS
<1>3. f \in Surjection(S, Running)
  BY <1>1, <1>2 DEF Surjection, Running
<1>4. S \in SUBSET Threads /\ S \cup {w} \in SUBSET Threads /\ w \notin S
  BY <1>1
<1>5. IsFiniteSet(S) /\ Cardinality(S) \in Nat
  BY <1>4, ThreadSets
<1>6. IsFiniteSet(Running) /\ Cardinality(Running) <= Cardinality(S)
  BY <1>3, <1>5, FS_Surjection
<1>7. Cardinality(S \cup {w}) = Cardinality(S) + 1
  BY <1>4, Grow
<1>8. Cardinality(S \cup {w}) <= Cardinality(Threads)
  BY <1>4, Monotone
<1>9. Cardinality(Threads) = N
  BY PoolAssumption, FS_Interval DEF Threads
<1>10. Cardinality(Running) \in Nat
  BY <1>6, FS_CardinalityType
<1> QED
  BY <1>5, <1>6, <1>7, <1>8, <1>9, <1>10, PoolAssumption

LEMMA TakeStep ==
  ASSUME TypeOK, PlaceInv, PromiseInv, NEW w \in Threads, Take(w)
  PROVE  Executor!Next \/ UNCHANGED Executor!vars
<1>1. PICK n : n = Len(task_queue)
  OBVIOUS
<1>2. /\ n \in Nat \ {0} /\ DOMAIN task_queue = 1..n /\ DOMAIN task_queue' = 1..(n - 1)
      /\ \A i \in 1..(n - 1) : i + 1 \in 1..n /\ task_queue'[i] = task_queue[i + 1]
      /\ Head(task_queue) = task_queue[1]
  BY <1>1 DEF Take, Popped, TypeOK
<1>3. /\ UNCHANGED <<fate, kills>> /\ pc[w] = "locked"
      /\ hand' = [hand EXCEPT ![w] = task_queue[1]]
  BY <1>2 DEF Take, ovars
<1>4. hand[w] = Pill /\ Pill \notin Tasks
  BY <1>3, PoolAssumption DEF PlaceInv, HandInv
<1>5. Ended' = Ended /\ Refused' = Refused
  BY <1>3 DEF Ended, Refused
<1>6. hand'[w] = task_queue[1] /\ \A v \in Threads : v # w => hand'[v] = hand[v]
  BY <1>3 DEF TypeOK
<1>7. PICK a, b \in 0..n : Shape(a, b)
  BY <1>1 DEF PromiseInv, ShapeInv
<1>8. Pending = [i \in 1..a |-> task_queue[i]] /\ a \in Nat /\ a <= n
  BY <1>1, <1>7, PendingIs
<1>9. {k \in DOMAIN task_queue : InTime(task_queue[k])} = 1..a
  BY <1>7, PendingIs
<1>10. \A t : InTime(t)' <=> InTime(t)
  BY <1>3 DEF InTime
<1>11. {k \in DOMAIN task_queue' : InTime(task_queue'[k])} = 1..(a - 1)
  <2> HIDE DEF InTime
  <2>1. ASSUME NEW k \in 1..(n - 1) PROVE InTime(task_queue'[k]) <=> k \in 1..(a - 1)
    <3>1. InTime(task_queue[k + 1]) <=> k + 1 \in 1..a
      BY <1>2, <1>9
    <3>2. k + 1 \in 1..a <=> k \in 1..(a - 1)
      BY <1>8
    <3> QED
      BY <1>2, <3>1, <3>2
  <2>2. \A k \in 1..(a - 1) : k \in 1..(n - 1)
    BY <1>2, <1>8
  <2> QED
    BY <1>2, <2>1, <2>2
<1>12. Pending' = [i \in 1..(a - 1) |-> task_queue'[i]]
  <2>1. {k \in DOMAIN task_queue : InTime(task_queue[k])}' = 1..(a - 1)
    <3> HIDE DEF InTime
    <3> QED
      BY <1>10, <1>11
  <2> QED
    BY <2>1 DEF Pending
<1>13. CASE a > 0
  <2>1. task_queue[1] \in Tasks
    BY <1>8, <1>9, <1>13 DEF InTime
  <2>2. Running' = Running \cup {task_queue[1]}
    BY <1>4, <1>6, <2>1 DEF Running
  <2>3. Pending \in Seq(Tasks) /\ Len(Pending) = a /\ \A i \in 1..a : Pending[i] = task_queue[i]
    <3>1. \A i \in 1..a : task_queue[i] \in Tasks
      BY <1>9 DEF InTime
    <3> QED
      BY <1>8, <3>1
  <2>4. Pending # <<>> /\ Head(Pending) = task_queue[1]
    BY <1>8, <1>13, <2>3
  <2>5. Tail(Pending) = [i \in 1..(a - 1) |-> Pending[i + 1]]
    <3>1. ASSUME NEW q \in Seq(Tasks), Len(q) = a
          PROVE  Tail(q) = [i \in 1..(a - 1) |-> q[i + 1]]
      <4>1. q # <<>>
        BY <1>13, <3>1
      <4>2. /\ Tail(q) \in Seq(Tasks) /\ Len(Tail(q)) = a - 1
            /\ \A i \in 1..(a - 1) : Tail(q)[i] = q[i + 1]
        BY <3>1, <4>1
      <4>3. \A s \in Seq(Tasks) : s = [i \in 1..Len(s) |-> s[i]]
        OBVIOUS
      <4> QED
        BY <4>2, <4>3
    <3> QED
      BY <2>3, <3>1
  <2>6. Pending' = Tail(Pending)
    <3>1. \A i \in 1..(a - 1) : i \in 1..(n - 1) /\ i + 1 \in 1..a
      BY <1>8, <1>2
    <3>2. \A i \in 1..(a - 1) : task_queue'[i] = Pending[i + 1]
      BY <1>2, <2>3, <3>1
    <3> QED
      BY <1>12, <2>5, <3>2
  <2>7. Cardinality(Running) < N
    BY <1>4, RunningFew
  <2>8. Executor!Start
    <3>1. (kills = 0)' = (kills = 0)
      BY <1>3
    <3>2. Running' = Running \cup {Head(Pending)}
      BY <2>2, <2>4
    <3>3. Pending # <<>>
      BY <2>4
    <3> QED
      BY <1>5, <2>6, <2>7, <3>1, <3>2, <3>3, Zenon
      DEF Executor!Start, Executor!Cardinality, Cardinality
  <2> QED
    BY <2>8 DEF Executor!Next
<1>14. CASE a = 0
  <2>1. task_queue[1] = Pill
    <3>1. w \in Alive /\ task_queue # <<>>
      BY <1>3 DEF Alive, Take
    <3> QED
      BY <1>7, <1>14, <3>1, ExitTaskInFront
  <2>2. Running' = Running
    BY <1>4, <1>6, <2>1 DEF Running
  <2>3. Pending' = Pending
    BY <1>8, <1>12, <1>14
  <2> QED
    BY <1>3, <1>5, <2>2, <2>3 DEF Executor!vars
<1> QED
  BY <1>8, <1>13, <1>14

LEMMA ReturnStep ==
  ASSUME TypeOK, PlaceInv, PromiseInv, NEW w \in Threads, Return(w)
  PROVE  Executor!Next
<1>1. /\ pc[w] = "run" /\ hand[w] \notin Endless
      /\ hand' = [hand EXCEPT ![w] = Pill]
      /\ fate' = [fate EXCEPT ![hand[w]] = "done"]
      /\ UNCHANGED <<task_queue, kills>>
  BY DEF Return, ovars
<1>2. hand[w] \in Tasks /\ Pill \notin Tasks
  BY <1>1, PoolAssumption DEF PlaceInv, HandInv
<1>3. fate[hand[w]] = "sent"
  BY <1>2 DEF PromiseInv, RunsInTime, InTime
<1>4. fate'[hand[w]] = "done" /\ \A t \in Tasks : t # hand[w] => fate'[t] = fate[t]
  BY <1>1, <1>2 DEF TypeOK
<1>5. Ended' = Ended \cup {hand[w]} /\ Refused' = Refused
  BY <1>2, <1>3, <1>4 DEF Ended, Refused
<1>6. \A i \in DOMAIN task_queue : task_queue[i] # hand[w]
  BY <1>2 DEF PlaceInv, OneCopy
<1>7. Pending' = Pending
  <2>1. \A k \in DOMAIN task_queue : InTime(task_queue[k])' <=> InTime(task_queue[k])
    BY <1>1, <1>4, <1>6 DEF InTime
  <2> QED
    BY <1>1, <2>1, PendingKept
<1>8. hand'[w] = Pill /\ \A v \in Threads : v # w => hand'[v] = hand[v]
  BY <1>1 DEF TypeOK
<1>9. \A v \in Threads : v # w => hand[v] # hand[w]
  BY <1>2 DEF PlaceInv, OneCopy
<1>10. Running' = Running \ {hand[w]} /\ hand[w] \in Running
  BY <1>2, <1>8, <1>9 DEF Running
<1>11. Executor!Finish(hand[w])
  BY <1>1, <1>5, <1>7, <1>10 DEF Executor!Finish
<1> QED
  BY <1>2, <1>11 DEF Executor!Next
LEMMA SendStep ==
  ASSUME TypeOK, PlaceInv, NodeInv, PromiseInv, NEW t \in Tasks, SendTask(t)
  PROVE  Executor!Next \/ UNCHANGED Executor!vars
<1>1. fate[t] = "new" /\ opc = "idle" /\ UNCHANGED <<task_queue, hand, kills>>
  BY DEF SendTask, tvars
<1>2. (kills = 0)' = (kills = 0)
  BY <1>1
<1>3. CASE thread_list = {}
  <2>1. fate' = [fate EXCEPT ![t] = "dropped"]
    BY <1>3 DEF SendTask
  <2>2. fate'[t] = "dropped" /\ \A u \in Tasks : u # t => fate'[u] = fate[u]
    BY <2>1 DEF TypeOK
  <2>3. Ended' = Ended /\ Refused' = Refused \cup {t}
    BY <1>1, <2>2 DEF Ended, Refused
  <2>4. Running' = Running
    BY <1>1 DEF Running
  <2>5. Pending' = Pending
    <3>1. \A k \in DOMAIN task_queue : task_queue[k] # t
      BY <1>1 DEF PlaceInv, Accounted
    <3>2. \A k \in DOMAIN task_queue : InTime(task_queue[k])' <=> InTime(task_queue[k])
      BY <1>1, <2>2, <3>1 DEF InTime
    <3> QED
      BY <1>1, <3>2, PendingKept
  <2>6. kills # 0 \/ N = 0
    <3>1. \A w \in Threads : kills # 0
      BY <1>1, <1>3 DEF NodeInv, PromiseInv, StartedInv
    <3>2. N # 0 => 1 \in Threads
      BY PoolAssumption DEF Threads
    <3> QED
      BY <3>1, <3>2
  <2>7. Executor!Refuse(t)
    BY <1>1, <1>2, <2>3, <2>4, <2>5, <2>6, Unknown DEF Executor!Refuse
  <2> QED
    BY <2>7 DEF Executor!Next
<1>4. CASE thread_list # {}
  <2>1. UNCHANGED fate
    BY <1>4 DEF SendTask
  <2> QED
    BY <1>1, <2>1, Unseen
<1> QED
  BY <1>3, <1>4

ExecutorInv == TypeOK /\ PlaceInv /\ NodeInv /\ PromiseInv

LEMMA ExecutorInvariant == ASSUME Timely PROVE Spec => []ExecutorInv
<1>1. Init => PlaceInv /\ NodeInv /\ PromiseInv
  <2>1. Init => PlaceInv
    BY PoolAssumption DEF Init, PlaceInv, OneCopy, Accounted, HandInv, ArgInv
  <2>2. Init => NodeInv
    BY DEF Init, NodeInv
  <2> QED
    BY <2>1, <2>2, PromiseStarts
<1>2. TypeOK /\ PlaceInv /\ NodeInv /\ PromiseInv /\ [Next]_vars
        => PlaceInv' /\ NodeInv' /\ PromiseInv'
  <2> SUFFICES ASSUME TypeOK, PlaceInv, NodeInv, PromiseInv, [Next]_vars
               PROVE  PlaceInv' /\ NodeInv' /\ PromiseInv'
    OBVIOUS
  <2>1. CASE UNCHANGED vars
    <3>1. PlaceInv' /\ NodeInv'
      BY <2>1 DEF vars, PlaceInv, OneCopy, Accounted, HandInv, ArgInv, NodeInv
    <3>2. PromiseInv'
      BY <2>1, PromiseKept DEF vars, PromiseInv, StartedInv, Alive
    <3> QED
      BY <3>1, <3>2
  <2>2. CASE OwnerStep
    BY <2>2, PlaceOwner, NodeOwner, PromiseOwner
  <2>3. CASE OwnerCall
    BY <2>3, PlaceCall, NodeCall, PromiseCall
  <2>4. ASSUME NEW w \in Threads, ThreadStep(w) \/ SpuriousWakeup(w)
        PROVE  PlaceInv' /\ NodeInv' /\ PromiseInv'
    BY <2>4, PlaceThread, NodeThread, PromiseThread
  <2> QED
    BY <2>1, <2>2, <2>3, <2>4 DEF Next
<1> QED
  BY <1>1, <1>2, TypeCorrect, PTL DEF Spec, ExecutorInv

LEMMA ExecutorOwner ==
  ASSUME ExecutorInv, OwnerStep
  PROVE  Executor!Next \/ UNCHANGED Executor!vars
<1> USE DEF ExecutorInv
<1>1. CASE SendEmplace
  BY <1>1, EmplaceStep
<1>2. CASE KillPush
  BY <1>2, KillStep
<1>3. CASE \/ \E w \in Threads : Construct(w) \/ SweepNode(w)
           \/ Constructed \/ OwnerLock \/ SendSignal \/ OwnerUnlock
           \/ KillBroadcast \/ SweepLock \/ SweepReturn \/ Destroy
  <2>1. UNCHANGED <<task_queue, hand, fate, kills>>
    BY <1>3
    DEF Construct, SweepNode, Constructed, OwnerLock, SendSignal, OwnerUnlock,
        KillBroadcast, SweepLock, SweepReturn, Destroy, tvars, ovars
  <2> QED
    BY <2>1, Unseen
<1> QED
  BY <1>1, <1>2, <1>3 DEF OwnerStep

LEMMA ExecutorThread ==
  ASSUME ExecutorInv, NEW w \in Threads, ThreadStep(w) \/ SpuriousWakeup(w)
  PROVE  Executor!Next \/ UNCHANGED Executor!vars
<1> USE DEF ExecutorInv
<1>1. CASE Take(w)
  BY <1>1, TakeStep
<1>2. CASE Return(w)
  BY <1>2, ReturnStep
<1>3. CASE Begin(w) \/ Lock(w) \/ Wait(w) \/ Exit(w) \/ SpuriousWakeup(w)
  <2>1. UNCHANGED <<task_queue, hand, fate, kills>>
    BY <1>3 DEF Begin, Lock, Wait, Exit, SpuriousWakeup, ovars
  <2> QED
    BY <2>1, Unseen
<1>4. ~Crash(w)
  BY NodeInvSafe DEF Crash, NoUseAfterFree
<1> QED
  BY <1>1, <1>2, <1>3, <1>4 DEF ThreadStep

\* Under the timing assumption the pool keeps the promises of TaskExecutor, for any number
\* of threads, tasks, calls and spurious wake-ups: tasks start in the order in which they
\* were sent, at most N at a time and none twice; none that was sent after KillAll starts,
\* and none sent before it is refused.
THEOREM ImplementsTaskExecutor ==
  ASSUME Timely
  PROVE  Spec => Executor!Spec
<1>1. Init => Executor!Init
  <2> SUFFICES ASSUME Init PROVE Executor!Init
    OBVIOUS
  <2>1. Pending = <<>>
    BY DEF Init, Pending
  <2>2. Running = {} /\ Ended = {} /\ Refused = {} /\ kills = 0
    BY PoolAssumption DEF Init, Running, Ended, Refused
  <2> QED
    BY <2>1, <2>2 DEF Executor!Init
<1>2. ExecutorInv /\ [Next]_vars => [Executor!Next]_(Executor!vars)
  <2> SUFFICES ASSUME ExecutorInv, [Next]_vars
               PROVE  Executor!Next \/ UNCHANGED Executor!vars
    OBVIOUS
  <2>1. CASE UNCHANGED vars
    BY <2>1, Unseen DEF vars
  <2>2. CASE OwnerStep
    BY <2>2, ExecutorOwner
  <2>3. CASE OwnerCall
    <3>1. ASSUME NEW t \in Tasks, SendTask(t)
          PROVE  Executor!Next \/ UNCHANGED Executor!vars
      BY <3>1, SendStep DEF ExecutorInv
    <3>2. CASE KillAll \/ Destruct \/ ClearTrash
      BY <3>2, Unseen DEF KillAll, Destruct, ClearTrash, tvars
    <3> QED
      BY <2>3, <3>1, <3>2 DEF OwnerCall
  <2>4. ASSUME NEW w \in Threads, ThreadStep(w) \/ SpuriousWakeup(w)
        PROVE  Executor!Next \/ UNCHANGED Executor!vars
    BY <2>4, ExecutorThread
  <2> QED
    BY <2>1, <2>2, <2>3, <2>4 DEF Next
<1> QED
  BY <1>1, <1>2, ExecutorInvariant, PTL DEF Spec, Executor!Spec
=============================================================================
