---------------------------- MODULE TaskExecutor ----------------------------
(***************************************************************************)
(* What MyThreadPool promises to the programs that use it: tasks are run   *)
(* at most once, they start in the order in which they were sent, at most  *)
(* Slots of them run at a time, everything sent before KillAll is run and  *)
(* nothing sent after it is.                                               *)
(*                                                                         *)
(* ThreadPool implements this specification; ChatServer is built on it.    *)
(***************************************************************************)
EXTENDS Naturals, Sequences, FiniteSets

CONSTANTS
  Tasks,    \* the calls of SendTask, one element each
  Endless,  \* tasks whose function never returns (ChatClient::recv_task_)
  Slots     \* the number of threads

VARIABLES
  pending,  \* sent and not started, in the order they were sent
  running,  \* started and not finished
  ended,    \* finished
  refused,  \* sent too late, or to a pool without threads: never run
  open      \* KillAll has not been called

vars == <<pending, running, ended, refused, open>>

Known == {pending[i] : i \in DOMAIN pending} \cup running \cup ended \cup refused

Init ==
  /\ pending = <<>>
  /\ running = {}
  /\ ended = {}
  /\ refused = {}
  /\ open = TRUE

Submit(t) ==
  /\ t \notin Known
  /\ open /\ Slots > 0
  /\ pending' = Append(pending, t)
  /\ UNCHANGED <<running, ended, refused, open>>

Refuse(t) ==
  /\ t \notin Known
  /\ ~open \/ Slots = 0
  /\ refused' = refused \cup {t}
  /\ UNCHANGED <<pending, running, ended, open>>

\* Mutant: any pending task is started.
Start_AnyOrder ==
  \E i \in DOMAIN pending :
    /\ Cardinality(running) < Slots
    /\ running' = running \cup {pending[i]}
    /\ pending' = SubSeq(pending, 1, i - 1) \o SubSeq(pending, i + 1, Len(pending))
    /\ UNCHANGED <<ended, refused, open>>

Start ==
  /\ pending # <<>>
  /\ Cardinality(running) < Slots
  /\ running' = running \cup {Head(pending)}
  /\ pending' = Tail(pending)
  /\ UNCHANGED <<ended, refused, open>>

Finish(t) ==
  /\ t \in running \ Endless
  /\ running' = running \ {t}
  /\ ended' = ended \cup {t}
  /\ UNCHANGED <<pending, refused, open>>

Close ==
  /\ open
  /\ open' = FALSE
  /\ UNCHANGED <<pending, running, ended, refused>>

Next ==
  \/ \E t \in Tasks : Submit(t) \/ Refuse(t) \/ Finish(t)
  \/ Start
  \/ Close

Spec == Init /\ [][Next]_vars

\* The threads are scheduled: a free slot takes the next task, and a task
\* whose function returns is finished.
Fairness == WF_vars(Start) /\ \A t \in Tasks : WF_vars(Finish(t))

FairSpec == Spec /\ Fairness
=============================================================================
