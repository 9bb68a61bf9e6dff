------------------------------ MODULE EasyLog -------------------------------
(***************************************************************************)
(* MyEasyLog::WriteLog (myeasylog.hpp): a logging thread takes a record    *)
(* from a queue of a few, fills it and prints it while it holds the file   *)
(* mutex, and puts it back. A thread that finds no record sleeps a         *)
(* millisecond and tries again.                                            *)
(*                                                                         *)
(* Every component of the repository logs through this class, from every   *)
(* thread.                                                                 *)
(***************************************************************************)
EXTENDS Integers, Sequences, FiniteSets

CONSTANTS
  Writers,   \* the threads that log
  Nobody,    \* the holder of a free mutex
  Destroyed, \* that of a mutex pthread_mutex_destroy has ended
  Size,      \* the records of the queue (5 in GetInstance)
  MaxCalls   \* bound: calls of WriteLog per thread

ASSUME LogAssumption ==
  /\ Nobody \notin Writers /\ Destroyed \notin Writers \cup {Nobody}
  /\ Size \in Nat \ {0}
  /\ MaxCalls \in Nat

Records == 1..Size
NoRecord == 0

VARIABLES
  void_log_q,  \* _void_log_q
  q_mutex,     \* who holds _q_mutex
  file_mutex,  \* who holds _file_mutex
  pc,          \* where each thread is in WriteLog
  rec,         \* baselog_p of each thread
  content,     \* what each record was last filled with
  calls,       \* the calls each thread has made
  lines,       \* the log file
  deleted,     \* the records ~MyEasyLog has deleted
  log          \* the static object: up; emptied, then destroyed by exit; gone with its process

vars == <<void_log_q, q_mutex, file_mutex, pc, rec, content, calls, lines, deleted, log>>

Line == [who : Writers, call : Nat]

TypeOK ==
  /\ void_log_q \in Seq(Records)
  /\ {q_mutex, file_mutex} \subseteq Writers \cup {Nobody, Destroyed}
  /\ pc \in [Writers -> {"idle", "lock", "front", "pop", "lock_file", "fill", "print",
                         "unlock_file", "relock", "push"}]
  /\ rec \in [Writers -> Records \cup {NoRecord}]
  /\ content \in [Records -> Line \cup {<<>>}]
  /\ calls \in [Writers -> Nat]
  /\ lines \in Seq(Line)
  /\ deleted \subseteq Records
  /\ log \in {"up", "emptied", "destroyed", "gone"}

Init ==
  /\ void_log_q = [i \in 1..Size |-> i]
  /\ q_mutex = Nobody /\ file_mutex = Nobody
  /\ pc = [w \in Writers |-> "idle"]
  /\ rec = [w \in Writers |-> NoRecord]
  /\ content = [r \in Records |-> <<>>]
  /\ calls = [w \in Writers |-> 0]
  /\ lines = <<>>
  /\ deleted = {}
  /\ log = "up"

Call(w) ==
  /\ pc[w] = "idle"
  /\ calls[w] < MaxCalls
  /\ calls' = [calls EXCEPT ![w] = @ + 1]
  /\ pc' = [pc EXCEPT ![w] = "lock"]
  /\ UNCHANGED <<void_log_q, q_mutex, file_mutex, rec, content, lines, deleted, log>>

\* mymutex::Lock and Unlock. Of a destroyed mutex both only print an error: Lock goes on
\* without it.
LockedBy(mutex, w) == IF mutex = Destroyed THEN mutex ELSE w
Unlocked(mutex) == IF mutex = Destroyed THEN mutex ELSE Nobody

\* The members and the writer are there until the body of ~MyEasyLog has run.
Alive == log \in {"up", "emptied"}

\* Whether _q_mutex.Lock() returns; mutant: it is left out.
QueueFree_Always == TRUE
QueueFree == q_mutex \in {Nobody, Destroyed}

\* _q_mutex.Lock(), before the queue is read and before the record is returned
LockQueue(w) ==
  /\ pc[w] \in {"lock", "relock"}
  /\ QueueFree
  /\ q_mutex' = LockedBy(q_mutex, w)
  /\ pc' = [pc EXCEPT ![w] = IF @ = "lock" THEN "front" ELSE "push"]
  /\ UNCHANGED <<void_log_q, file_mutex, rec, content, calls, lines, deleted, log>>

\* Mutant: a call that finds no record gives up.
Retry_GiveUp(w) ==
  /\ pc[w] = "front"
  /\ void_log_q = <<>> \/ ~Alive
  /\ q_mutex' = Unlocked(q_mutex)
  /\ pc' = [pc EXCEPT ![w] = "idle"]
  /\ UNCHANGED <<void_log_q, file_mutex, rec, content, calls, lines, deleted, log>>

\* front() of an empty std::list is undefined; the list of this build reads its
\* own size there, zero, and so a null pointer: unlock, usleep(1000), lock again.
\* A queue that is destroyed, and changed by several threads, may look empty too.
Retry(w) ==
  /\ pc[w] = "front"
  /\ void_log_q = <<>> \/ ~Alive
  /\ q_mutex' = Unlocked(q_mutex)
  /\ pc' = [pc EXCEPT ![w] = "lock"]
  /\ UNCHANGED <<void_log_q, file_mutex, rec, content, calls, lines, deleted, log>>

Front(w) ==
  /\ pc[w] = "front"
  /\ void_log_q # <<>>
  /\ rec' = [rec EXCEPT ![w] = Head(void_log_q)]
  /\ pc' = [pc EXCEPT ![w] = "pop"]
  /\ UNCHANGED <<void_log_q, q_mutex, file_mutex, content, calls, lines, deleted, log>>

\* pop() takes the front, whichever it is by then.
Pop(w) ==
  /\ pc[w] = "pop"
  /\ void_log_q # <<>>
  /\ void_log_q' = Tail(void_log_q)
  /\ q_mutex' = Unlocked(q_mutex)
  /\ pc' = [pc EXCEPT ![w] = "lock_file"]
  /\ UNCHANGED <<file_mutex, rec, content, calls, lines, deleted, log>>

\* Whether _file_mutex can be locked; mutant: it is left out.
FileFree_Always == TRUE
FileFree == file_mutex = Nobody

LockFile(w) ==
  /\ pc[w] = "lock_file"
  /\ FileFree
  /\ file_mutex' = w
  /\ pc' = [pc EXCEPT ![w] = "fill"]
  /\ UNCHANGED <<void_log_q, q_mutex, rec, content, calls, lines, deleted, log>>

\* BaseLog::Init, from the call of localtime to the finished text
Fill(w) ==
  /\ pc[w] = "fill"
  /\ Alive
  /\ content' = [content EXCEPT ![rec[w]] = [who |-> w, call |-> calls[w]]]
  /\ pc' = [pc EXCEPT ![w] = "print"]
  /\ UNCHANGED <<void_log_q, q_mutex, file_mutex, rec, calls, lines, deleted, log>>

\* fprintf and fflush of the record's text
WriteLine(w) ==
  /\ pc[w] = "print"
  /\ Alive
  /\ lines' = Append(lines, content[rec[w]])
  /\ pc' = [pc EXCEPT ![w] = "unlock_file"]
  /\ UNCHANGED <<void_log_q, q_mutex, file_mutex, rec, content, calls, deleted, log>>

UnlockFile(w) ==
  /\ pc[w] = "unlock_file"
  /\ file_mutex' = Unlocked(file_mutex)
  /\ pc' = [pc EXCEPT ![w] = "relock"]
  /\ UNCHANGED <<void_log_q, q_mutex, rec, content, calls, lines, deleted, log>>

\* push(baselog_p); mutants: the record is not returned; the pointer is reset
\* before it is returned.
Returned_Not(w) == void_log_q
Returned_Null(w) == Append(void_log_q, NoRecord)
Returned(w) == Append(void_log_q, rec[w])

Push(w) ==
  /\ pc[w] = "push"
  /\ void_log_q' = Returned(w)
  /\ rec' = [rec EXCEPT ![w] = NoRecord]
  /\ q_mutex' = Unlocked(q_mutex)
  /\ pc' = [pc EXCEPT ![w] = "idle"]
  /\ UNCHANGED <<file_mutex, content, calls, lines, deleted, log>>

\* The queue, the writer or its file is used after the destructor of the log: the
\* process dies, or the line is lost and the thread goes on. Where the file mutex is
\* destroyed too, nothing keeps a thread from the writer.
UseDestroyed(w) ==
  /\ log = "destroyed"
  /\ \/ /\ pc[w] \in {"front", "pop", "lock_file", "fill", "print", "push"}
        /\ log' = "gone" /\ UNCHANGED pc
     \/ /\ pc[w] \in {"fill", "print"} \/ (pc[w] = "lock_file" /\ file_mutex = Destroyed)
        /\ pc' = [pc EXCEPT ![w] = "unlock_file"] /\ UNCHANGED log
  /\ UNCHANGED <<void_log_q, q_mutex, file_mutex, rec, content, calls, lines, deleted>>

\* ~MyEasyLog, run by exit once it has the queue's mutex: the records that are in
\* the queue are deleted; those that threads hold are not. Threads that still log
\* find an empty queue, or a record that has come back.
Destruct ==
  /\ log = "up"
  /\ q_mutex = Nobody
  /\ log' = "emptied"
  /\ deleted' = {void_log_q[i] : i \in DOMAIN void_log_q}
  /\ void_log_q' = <<>>
  /\ UNCHANGED <<q_mutex, file_mutex, pc, rec, content, calls, lines>>

\* Then the writer, the mutexes and the queue are destroyed. pthread_mutex_destroy
\* refuses a mutex that is held; one that is free is a mutex no more.
AfterDestroy(mutex) == IF mutex = Nobody THEN Destroyed ELSE mutex
DestroyMembers ==
  /\ log = "emptied"
  /\ log' = "destroyed"
  /\ q_mutex' = AfterDestroy(q_mutex)
  /\ file_mutex' = AfterDestroy(file_mutex)
  /\ UNCHANGED <<void_log_q, pc, rec, content, calls, lines, deleted>>

\* exit has run the other destructors and ends the process.
ProcessEnd ==
  /\ log = "destroyed"
  /\ log' = "gone"
  /\ UNCHANGED <<void_log_q, q_mutex, file_mutex, pc, rec, content, calls, lines, deleted>>

Step(w) ==
  \/ LockQueue(w) \/ Retry(w) \/ Front(w) \/ Pop(w) \/ LockFile(w)
  \/ Fill(w) \/ WriteLine(w) \/ UseDestroyed(w) \/ UnlockFile(w) \/ Push(w)

Next ==
  \/ Destruct
  \/ DestroyMembers
  \/ ProcessEnd
  \/ log # "gone" /\ \E w \in Writers : Call(w) \/ Step(w)

Spec == Init /\ [][Next]_vars

\* A thread inside WriteLog is scheduled, and one that waits for the queue's mutex
\* gets it at last: a thread that retries sleeps a millisecond without it. An exit
\* that has begun ends.
Fairness ==
  /\ WF_vars(DestroyMembers) /\ WF_vars(ProcessEnd)
  /\ \A w \in Writers : WF_vars(log # "gone" /\ Step(w)) /\ SF_vars(log # "gone" /\ LockQueue(w))

FairSpec == Spec /\ Fairness

-----------------------------------------------------------------------------
(* Properties                                                              *)

Places(r) == {i \in DOMAIN void_log_q : void_log_q[i] = r}
Users(r) == {w \in Writers : pc[w] # "pop" /\ rec[w] = r}

\* Until exit destroys the queue and its mutex, a record is in one place at a time, one
\* position of the queue or the hands of one thread, and in none once it is deleted: no
\* two threads take the same record, and none is lost or used after its deletion. From
\* then on it is not so: threads that still log may take one record twice.
RecordExclusive ==
  Alive =>
    \A r \in Records :
      IF r \in deleted
      THEN Places(r) = {} /\ Users(r) = {}
      ELSE \/ Users(r) = {} /\ \E i \in Places(r) : Places(r) = {i}
           \/ Places(r) = {} /\ \E w \in Users(r) : Users(r) = {w}

\* localtime returns a buffer that all threads share, and _get_time_mutex is a
\* member of each record, so it does not exclude the threads from one another:
\* that no two of them are in BaseLog::Init or fprintf at once is the work of
\* the file mutex of MyEasyLog. After exit no thread gets as far as that: the writer is
\* destroyed before the mutex.
OneFormatting ==
  \A v, w \in Writers : pc[v] \in {"fill", "print"} /\ pc[w] \in {"fill", "print"} => v = w

Phase(s) ==
  CASE s = "idle" -> "out"
    [] s \in {"unlock_file", "relock", "push"} -> "written"
    [] OTHER -> "calling"

\* Emptied, the log still writes.
Log == INSTANCE AtomicLog WITH
  phase <- [w \in Writers |-> Phase(pc[w])],
  log <- IF log = "emptied" THEN "up" ELSE log

\* Until exit, every call appends exactly one line, its own, between its call and its
\* return, however many threads share the records.
ImplementsLog == Log!Spec

\* And every call returns, even when more threads log than there are records.
ImplementsFairLog == Log!FairSpec
=============================================================================
