----------------------------- MODULE AtomicLog ------------------------------
(***************************************************************************)
(* What MyEasyLog promises to the threads that log: between its call and   *)
(* its return WriteLog appends one line, the caller's own, to the log. Only *)
(* while the process exits may a call return without its line.             *)
(***************************************************************************)
EXTENDS Naturals, Sequences

CONSTANTS
  Writers,   \* the threads that log
  MaxCalls   \* bound: calls of WriteLog per thread

VARIABLES
  phase,  \* where each thread is: outside WriteLog, before or after its line
  calls,  \* the calls each thread has made
  lines,  \* the log
  log     \* up, destroyed by exit, or gone with its process

vars == <<phase, calls, lines, log>>

Init ==
  /\ phase = [w \in Writers |-> "out"]
  /\ calls = [w \in Writers |-> 0]
  /\ lines = <<>>
  /\ log = "up"

\* What BaseLog makes of a call: the line that only this call of w prints
LineOf(w) == [who |-> w, call |-> calls[w]]

Call(w) ==
  /\ log # "gone"
  /\ phase[w] = "out"
  /\ calls[w] < MaxCalls
  /\ phase' = [phase EXCEPT ![w] = "calling"]
  /\ calls' = [calls EXCEPT ![w] = @ + 1]
  /\ UNCHANGED <<lines, log>>

Write(w) ==
  /\ log = "up"
  /\ phase[w] = "calling"
  /\ phase' = [phase EXCEPT ![w] = "written"]
  /\ lines' = Append(lines, LineOf(w))
  /\ UNCHANGED <<calls, log>>

Lose(w) ==
  /\ log = "destroyed"
  /\ phase[w] = "calling"
  /\ phase' = [phase EXCEPT ![w] = "written"]
  /\ UNCHANGED <<calls, lines, log>>

Return(w) ==
  /\ log # "gone"
  /\ phase[w] = "written"
  /\ phase' = [phase EXCEPT ![w] = "out"]
  /\ UNCHANGED <<calls, lines, log>>

Exit ==
  /\ \/ log = "up" /\ log' = "destroyed"
     \/ log = "destroyed" /\ log' = "gone"
  /\ UNCHANGED <<phase, calls, lines>>

Next == Exit \/ \E w \in Writers : Call(w) \/ Write(w) \/ Lose(w) \/ Return(w)

Spec == Init /\ [][Next]_vars

\* Every call returns, or the process ends.
FairSpec ==
  /\ Spec
  /\ WF_vars(log = "destroyed" /\ Exit)
  /\ \A w \in Writers : WF_vars(Write(w) \/ Lose(w)) /\ WF_vars(Return(w))
=============================================================================
