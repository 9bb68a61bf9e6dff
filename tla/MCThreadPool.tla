---------------------------- MODULE MCThreadPool ----------------------------
(* Instances of ThreadPool for TLC. *)
EXTENDS ThreadPool, TLC

CONSTANTS t1, t2, t3

OneEndless == {t1}

TaskSymmetry == Permutations(Tasks)
=============================================================================
