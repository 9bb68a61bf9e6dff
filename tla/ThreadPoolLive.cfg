\* Timely calls; liveness: one of the three tasks never returns (as ChatClient's receive
\* loop).
CONSTANTS
  t1 = t1
  t2 = t2
  t3 = t3
  Tasks = {t1, t2, t3}
  Pill = Pill
  N = 2
  Endless <- OneEndless
  MaxKills = 2
  MaxSweeps = 1
  MaxSpurious = 1
  Timely = TRUE
SPECIFICATION FairSpec
INVARIANT
  NoUseAfterFree
PROPERTIES
  ImplementsExecutor
  KillEndsThreads
CHECK_DEADLOCK FALSE
