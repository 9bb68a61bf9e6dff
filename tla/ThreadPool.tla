----------------------------- MODULE ThreadPool -----------------------------
(***************************************************************************)
(* MyThreadPool (mythread_pool.hpp) and its threads,                       *)
(* MyThreadforThreadPool (mythread.hpp): a task queue guarded by a mutex,  *)
(* a condition variable the threads sleep on, "exit tasks" that end them,  *)
(* and one owner thread that constructs the pool, calls SendTask, KillAll  *)
(* and ClearTrash in any order, and destroys it.                           *)
(*                                                                         *)
(* An action is a step between two points at which another thread can      *)
(* interfere: what happens while _queue_mutex is held is split only where  *)
(* the code signals or releases.                                           *)
(***************************************************************************)
EXTENDS Integers, Sequences, FiniteSets

CONSTANTS
  N,            \* cnt, the number of threads the constructor makes
  Tasks,        \* one element for each task the owner may send
  Endless,      \* the tasks whose function never returns
  Pill,         \* the empty std::function KillAll pushes; also "no task in hand"
  MaxKills,     \* bound: calls of KillAll, the destructor's included
  MaxSweeps,    \* bound: calls of ClearTrash
  MaxSpurious,  \* bound: spurious wake-ups of pthread_cond_wait
  Timely        \* scheduling assumption: ClearTrash is called only when every
                \* thread has reached its loop, and the destructor's sleep(1)
                \* outlasts the threads

ASSUME PoolAssumption ==
  /\ N \in Nat
  /\ IsFiniteSet(Tasks)
  /\ Pill \notin Tasks
  /\ Endless \subseteq Tasks
  /\ MaxKills \in Nat /\ MaxSweeps \in Nat /\ MaxSpurious \in Nat
  /\ Timely \in BOOLEAN

Threads == 1..N
Owner == 0
Nobody == -1

VARIABLES
  task_queue,    \* _task_queue: tasks and pills, the front first
  queue_mutex,   \* who holds _queue_mutex
  thread_list,   \* the threads that have a node in _thread_list
  stat,          \* *_stat of each thread
  pc,            \* where each thread is
  hand,          \* the task a thread has copied out of the queue
  opc,           \* where the owner is
  arg,           \* the task of the SendTask call in progress
  todo,          \* the nodes ClearTrash has still to visit
  td_locked,     \* _td_list_mutex is locked
  dtor,          \* the destructor has begun
  fate,          \* what became of each task
  kills, sweeps, spurious  \* counters of the bounded events

vars == <<task_queue, queue_mutex, thread_list, stat, pc, hand, opc, arg,
          todo, td_locked, dtor, fate, kills, sweeps, spurious>>

tvars == <<stat, pc, hand>>
ovars == <<opc, arg, todo, td_locked, dtor, kills, sweeps>>

TypeOK ==
  /\ task_queue \in Seq(Tasks \cup {Pill})
  /\ queue_mutex \in Threads \cup {Owner, Nobody}
  /\ thread_list \in SUBSET Threads
  /\ stat \in [Threads -> {"KILLED", "WAIT", "RUNNING"}]
  /\ pc \in [Threads -> {"none", "entry", "loop", "locked", "waiting", "relock",
                         "run", "exit", "done", "crashed"}]
  /\ hand \in [Threads -> Tasks \cup {Pill}]
  /\ opc \in {"ctor", "idle", "send", "emplace", "signal", "kill", "push",
              "broadcast", "unlock", "sweep_lock", "sweep", "sleep", "dead", "crashed"}
  /\ arg \in Tasks \cup {Pill}
  /\ todo \in SUBSET Threads
  /\ td_locked \in BOOLEAN
  /\ dtor \in BOOLEAN
  /\ fate \in [Tasks -> {"new", "sent", "late", "dropped", "done"}]
  /\ kills \in Nat /\ sweeps \in Nat /\ spurious \in Nat

Init ==
  /\ task_queue = <<>>
  /\ queue_mutex = Nobody
  /\ thread_list = {}
  /\ stat = [w \in Threads |-> "KILLED"]
  /\ pc = [w \in Threads |-> "none"]
  /\ hand = [w \in Threads |-> Pill]
  /\ opc = "ctor"
  /\ arg = Pill
  /\ todo = {}
  /\ td_locked = FALSE
  /\ dtor = FALSE
  /\ fate = [t \in Tasks |-> "new"]
  /\ kills = 0 /\ sweeps = 0 /\ spurious = 0

-----------------------------------------------------------------------------
(* The owner                                                               *)

\* One round of the constructor's loop. pthread_create starts the thread; its
\* _stat is a value-initialised atomic, 0, which is the value of KILLED_TD.
Construct(w) ==
  /\ opc = "ctor"
  /\ pc[w] = "none" /\ \A v \in 1..(w - 1) : pc[v] # "none"
  /\ thread_list' = thread_list \cup {w}
  /\ pc' = [pc EXCEPT ![w] = "entry"]
  /\ UNCHANGED <<task_queue, queue_mutex, stat, hand, ovars, fate, spurious>>

Constructed ==
  /\ opc = "ctor"
  /\ \A w \in Threads : pc[w] # "none"
  /\ opc' = "idle"
  /\ UNCHANGED <<task_queue, queue_mutex, thread_list, tvars, arg, todo,
                 td_locked, dtor, fate, kills, sweeps, spurious>>

\* SendTask returns at once when the list is empty: the task is dropped.
SendTask(t) ==
  /\ opc = "idle"
  /\ fate[t] = "new"
  /\ IF thread_list = {}
     THEN /\ fate' = [fate EXCEPT ![t] = "dropped"]
          /\ UNCHANGED <<opc, arg>>
     ELSE /\ opc' = "send"
          /\ arg' = t
          /\ UNCHANGED fate
  /\ UNCHANGED <<task_queue, queue_mutex, thread_list, tvars, todo, td_locked,
                 dtor, kills, sweeps, spurious>>

\* pthread_mutex_lock(&_queue_mutex), in SendTask and in KillAll
OwnerLock ==
  /\ opc \in {"send", "kill"}
  /\ queue_mutex = Nobody
  /\ queue_mutex' = Owner
  /\ opc' = IF opc = "send" THEN "emplace" ELSE "push"
  /\ UNCHANGED <<task_queue, thread_list, tvars, arg, todo, td_locked, dtor,
                 fate, kills, sweeps, spurious>>

SendEmplace ==
  /\ opc = "emplace"
  /\ task_queue' = Append(task_queue, arg)
  /\ fate' = [fate EXCEPT ![arg] = IF kills = 0 THEN "sent" ELSE "late"]
  /\ arg' = Pill
  /\ opc' = "signal"
  /\ UNCHANGED <<queue_mutex, thread_list, tvars, todo, td_locked, dtor,
                 kills, sweeps, spurious>>

Sleepers == {w \in Threads : pc[w] = "waiting"}

\* Mutant: nobody is signalled.
SendSignal_None ==
  /\ opc = "signal"
  /\ opc' = "unlock"
  /\ UNCHANGED <<task_queue, queue_mutex, thread_list, tvars, arg, todo,
                 td_locked, dtor, fate, kills, sweeps, spurious>>

\* pthread_cond_signal wakes one sleeping thread, if there is one.
SendSignal ==
  /\ opc = "signal"
  /\ opc' = "unlock"
  /\ \/ \E w \in Sleepers : pc' = [pc EXCEPT ![w] = "relock"]
     \/ Sleepers = {} /\ UNCHANGED pc
  /\ UNCHANGED <<task_queue, queue_mutex, thread_list, stat, hand, arg, todo,
                 td_locked, dtor, fate, kills, sweeps, spurious>>

OwnerUnlock ==
  /\ opc = "unlock"
  /\ queue_mutex' = Nobody
  /\ opc' = IF dtor THEN "sleep" ELSE "idle"
  /\ UNCHANGED <<task_queue, thread_list, tvars, arg, todo, td_locked, dtor,
                 fate, kills, sweeps, spurious>>

KillAll ==
  /\ opc = "idle"
  /\ kills < MaxKills - 1
  /\ opc' = "kill"
  /\ UNCHANGED <<task_queue, queue_mutex, thread_list, tvars, arg, todo,
                 td_locked, dtor, fate, kills, sweeps, spurious>>

\* ~MyThreadPool calls KillAll first.
Destruct ==
  /\ opc = "idle"
  /\ kills < MaxKills
  /\ dtor' = TRUE
  /\ opc' = "kill"
  /\ UNCHANGED <<task_queue, queue_mutex, thread_list, tvars, arg, todo,
                 td_locked, fate, kills, sweeps, spurious>>

\* One exit task for each node of the list.
ExitTasks == [i \in 1..Cardinality(thread_list) |-> Pill]

\* Mutant: the exit tasks overtake the tasks already queued.
WithExitTasks_Front == ExitTasks \o task_queue
WithExitTasks == task_queue \o ExitTasks

KillPush ==
  /\ opc = "push"
  /\ task_queue' = WithExitTasks
  /\ kills' = kills + 1
  /\ opc' = "broadcast"
  /\ UNCHANGED <<queue_mutex, thread_list, tvars, arg, todo, td_locked, dtor,
                 fate, sweeps, spurious>>

\* Mutant: pthread_cond_signal in place of the broadcast.
KillBroadcast_One ==
  /\ opc = "broadcast"
  /\ opc' = "unlock"
  /\ \/ \E w \in Sleepers : pc' = [pc EXCEPT ![w] = "relock"]
     \/ Sleepers = {} /\ UNCHANGED pc
  /\ UNCHANGED <<task_queue, queue_mutex, thread_list, stat, hand, arg, todo,
                 td_locked, dtor, fate, kills, sweeps, spurious>>

KillBroadcast ==
  /\ opc = "broadcast"
  /\ pc' = [w \in Threads |-> IF pc[w] = "waiting" THEN "relock" ELSE pc[w]]
  /\ opc' = "unlock"
  /\ UNCHANGED <<task_queue, queue_mutex, thread_list, stat, hand, arg, todo,
                 td_locked, dtor, fate, kills, sweeps, spurious>>

ClearTrash ==
  /\ opc = "idle"
  /\ sweeps < MaxSweeps
  /\ Timely => \A w \in Threads : pc[w] # "entry"
  /\ sweeps' = sweeps + 1
  /\ opc' = "sweep_lock"
  /\ UNCHANGED <<task_queue, queue_mutex, thread_list, tvars, arg, todo,
                 td_locked, dtor, fate, kills, spurious>>

\* The nodes the loop visits; mutant: it runs one past the end.
Nodes_PastEnd == thread_list \cup {N + 1}
Nodes == thread_list

\* _td_list_mutex is locked once, before the loop.
SweepLock ==
  /\ opc = "sweep_lock"
  /\ ~td_locked
  /\ td_locked' = TRUE
  /\ todo' = Nodes
  /\ opc' = "sweep"
  /\ UNCHANGED <<task_queue, queue_mutex, thread_list, tvars, arg, dtor, fate,
                 kills, sweeps, spurious>>

Erasable_NotRunning(w) == stat[w] # "RUNNING"
Erasable(w) == stat[w] = "KILLED"

\* Whether a round leaves the mutex locked; mutant: it unlocks only after an
\* erasure.
LockedAfter_Kept(w) == td_locked /\ ~Erasable(w)
LockedAfter(w) == FALSE

\* One round of the loop: the front of what is left is erased when its stat is
\* KILLED_TD, and the mutex is unlocked, in every round.
SweepNode(w) ==
  /\ opc = "sweep"
  /\ w \in todo /\ \A v \in todo : w <= v
  /\ todo' = todo \ {w}
  /\ thread_list' = IF Erasable(w) THEN thread_list \ {w} ELSE thread_list
  /\ td_locked' = LockedAfter(w)
  /\ UNCHANGED <<task_queue, queue_mutex, tvars, opc, arg, dtor, fate, kills,
                 sweeps, spurious>>

SweepReturn ==
  /\ opc = "sweep"
  /\ todo = {}
  /\ opc' = "idle"
  /\ UNCHANGED <<task_queue, queue_mutex, thread_list, tvars, arg, todo,
                 td_locked, dtor, fate, kills, sweeps, spurious>>

\* After sleep(1): the mutex, the condition variable, the queue and the nodes
\* (with their _stat) are gone.
Destroy ==
  /\ opc = "sleep"
  /\ Timely => \A w \in Threads : pc[w] = "done"
  /\ opc' = "dead"
  /\ thread_list' = {}
  /\ UNCHANGED <<task_queue, queue_mutex, tvars, arg, todo, td_locked, dtor,
                 fate, kills, sweeps, spurious>>

OwnerStep ==
  \/ \E w \in Threads : Construct(w) \/ SweepNode(w)
  \/ Constructed \/ OwnerLock \/ SendEmplace \/ SendSignal \/ OwnerUnlock
  \/ KillPush \/ KillBroadcast \/ SweepLock \/ SweepReturn \/ Destroy

OwnerCall ==
  \/ \E t \in Tasks : SendTask(t)
  \/ KillAll \/ Destruct \/ ClearTrash

-----------------------------------------------------------------------------
(* The threads: MyThreadforThreadPool::entry                               *)

Begin(w) ==
  /\ pc[w] = "entry"
  /\ stat' = [stat EXCEPT ![w] = "WAIT"]
  /\ pc' = [pc EXCEPT ![w] = "loop"]
  /\ UNCHANGED <<task_queue, queue_mutex, thread_list, hand, ovars, fate, spurious>>

\* pthread_mutex_lock, and the reacquisition inside pthread_cond_wait
Lock(w) ==
  /\ pc[w] \in {"loop", "relock"}
  /\ queue_mutex = Nobody
  /\ queue_mutex' = w
  /\ pc' = [pc EXCEPT ![w] = "locked"]
  /\ UNCHANGED <<task_queue, thread_list, stat, hand, ovars, fate, spurious>>

\* pthread_cond_wait releases the mutex and sleeps in one step.
Wait(w) ==
  /\ pc[w] = "locked"
  /\ task_queue = <<>>
  /\ queue_mutex' = Nobody
  /\ pc' = [pc EXCEPT ![w] = "waiting"]
  /\ UNCHANGED <<task_queue, thread_list, stat, hand, ovars, fate, spurious>>

SpuriousWakeup(w) ==
  /\ pc[w] = "waiting"
  /\ spurious < MaxSpurious
  /\ spurious' = spurious + 1
  /\ pc' = [pc EXCEPT ![w] = "relock"]
  /\ UNCHANGED <<task_queue, queue_mutex, thread_list, stat, hand, ovars, fate>>

\* The queue without its front; mutant: the front is copied and not popped.
Popped_Not == task_queue
Popped == Tail(task_queue)

\* ChangeStat(RUNNING_TD), the front copied and popped, the mutex released.
Take(w) ==
  /\ pc[w] = "locked"
  /\ task_queue # <<>>
  /\ stat' = [stat EXCEPT ![w] = "RUNNING"]
  /\ hand' = [hand EXCEPT ![w] = Head(task_queue)]
  /\ task_queue' = Popped
  /\ queue_mutex' = Nobody
  /\ pc' = [pc EXCEPT ![w] = IF Head(task_queue) = Pill THEN "exit" ELSE "run"]
  /\ UNCHANGED <<thread_list, ovars, fate, spurious>>

\* The task's function returns; stat stays RUNNING_TD in the next round.
Return(w) ==
  /\ pc[w] = "run"
  /\ hand[w] \notin Endless
  /\ fate' = [fate EXCEPT ![hand[w]] = "done"]
  /\ hand' = [hand EXCEPT ![w] = Pill]
  /\ pc' = [pc EXCEPT ![w] = "loop"]
  /\ UNCHANGED <<task_queue, queue_mutex, thread_list, stat, ovars, spurious>>

Exit(w) ==
  /\ pc[w] = "exit"
  /\ stat' = [stat EXCEPT ![w] = "KILLED"]
  /\ pc' = [pc EXCEPT ![w] = "done"]
  /\ UNCHANGED <<task_queue, queue_mutex, thread_list, hand, ovars, fate, spurious>>

\* A thread about to use memory that is gone: its own node, erased or deleted
\* while the thread goes on, or the pool's mutex and queue after Destroy.
UsesFreed(w) ==
  \/ pc[w] \in {"entry", "exit"} /\ w \notin thread_list
  \/ pc[w] = "locked" /\ task_queue # <<>> /\ w \notin thread_list
  \/ pc[w] \in {"loop", "locked", "relock"} /\ opc = "dead"

\* Using it is undefined: either the old contents are still there and the
\* actions above go on with them, or the process crashes.
Crash(w) ==
  /\ UsesFreed(w)
  /\ pc' = [v \in Threads |-> "crashed"]
  /\ opc' = "crashed"
  /\ queue_mutex' = Nobody
  /\ UNCHANGED <<task_queue, thread_list, stat, hand, arg, todo, td_locked,
                 dtor, fate, kills, sweeps, spurious>>

ThreadStep(w) ==
  Begin(w) \/ Lock(w) \/ Wait(w) \/ Take(w) \/ Return(w) \/ Exit(w) \/ Crash(w)

Next ==
  \/ OwnerStep
  \/ OwnerCall
  \/ \E w \in Threads : ThreadStep(w) \/ SpuriousWakeup(w)

Spec == Init /\ [][Next]_vars

\* Every thread is scheduled, and the owner finishes the call it has begun;
\* it need not make another, and nothing has to wake up spuriously.
Fairness == WF_vars(OwnerStep) /\ \A w \in Threads : WF_vars(ThreadStep(w))

FairSpec == Spec /\ Fairness

-----------------------------------------------------------------------------
(* Properties                                                              *)

Queued(t) == {i \in DOMAIN task_queue : task_queue[i] = t}
Holders(t) == {w \in Threads : hand[w] = t}

\* No task is lost, duplicated or run twice: a task that SendTask has put into
\* the queue and that has not finished is in exactly one place, one position
\* of _task_queue or the hand of one thread, and no other task is in either.
\* This is what front/pop under _queue_mutex must preserve, whatever calls and
\* spurious wake-ups interleave with it.
TaskConservation ==
  \A t \in Tasks :
    IF fate[t] \in {"sent", "late"}
    THEN \/ Holders(t) = {} /\ \E i \in Queued(t) : Queued(t) = {i}
         \/ Queued(t) = {} /\ \E w \in Holders(t) : Holders(t) = {w}
    ELSE Queued(t) = {} /\ Holders(t) = {}

\* The threads that will look at the queue again before they sleep.
Awake == {w \in Threads : pc[w] \in {"entry", "loop", "relock", "locked", "run"}}

\* No lost wake-up: as long as a thread sleeps in pthread_cond_wait, every
\* entry of the queue has a thread awake to come for it, save the one entry
\* SendTask has added and not yet signalled (or those KillAll has added and not
\* yet broadcast).
WakeupsCoverQueue ==
  Sleepers # {} /\ opc # "broadcast" =>
    Len(task_queue) <= Cardinality(Awake) + (IF opc = "signal" THEN 1 ELSE 0)

\* Under the timing assumption no thread ever uses a node that ClearTrash has
\* erased or a pool that the destructor has torn down.
NoUseAfterFree == \A w \in Threads : ~UsesFreed(w)

\* mythread.hpp:113 calls ChangeStat thread safe. It stores through the _stat of
\* the thread's own node; the claim needs that node to exist whenever a thread
\* is about to change its stat, whatever ClearTrash and the destructor do.
ChangeStatSafe ==
  \A w \in Threads : pc[w] \in {"entry", "exit"} => w \in thread_list

\* ClearTrash locks _td_list_mutex once and unlocks it in every round of its
\* loop: it leaves the mutex locked, and the next call blocks for ever, only
\* when it found the list empty.
BlockedOnlyWhenEmpty ==
  opc = "sweep_lock" /\ td_locked => thread_list = {}

\* After KillAll every thread of the pool ends, unless it runs a function that never
\* returns.
KillEndsThreads ==
  kills > 0 ~> \A w \in Threads : pc[w] = "done" \/ hand[w] \in Endless

\* What the pool does, seen as TaskExecutor: the tasks in the queue that were sent in
\* time are pending (they form a sequence when nothing is ahead of them), those in a
\* thread's hand are running.
InTime(t) == t \in Tasks /\ fate[t] = "sent"
Pending == [i \in {k \in DOMAIN task_queue : InTime(task_queue[k])} |-> task_queue[i]]
Running == {hand[w] : w \in Threads} \cap Tasks
Ended == {t \in Tasks : fate[t] = "done"}
Refused == {t \in Tasks : fate[t] \in {"late", "dropped"}}

Executor == INSTANCE TaskExecutor WITH
  Slots <- N,
  pending <- Pending,
  running <- Running,
  ended <- Ended,
  refused <- Refused,
  open <- kills = 0

\* The pool implements the executor: tasks start in the order in which they
\* were sent, all those sent before KillAll run to their end when fewer than N
\* tasks are endless, and none sent after it runs.
ImplementsExecutor == Executor!FairSpec
=============================================================================
