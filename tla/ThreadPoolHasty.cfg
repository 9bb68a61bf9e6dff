\* No timing assumption: ClearTrash and the destructor may come too early.
CONSTANTS
  t1 = t1
  t2 = t2
  t3 = t3
  Tasks = {t1, t2, t3}
  Pill = Pill
  N = 3
  Endless = {}
  MaxKills = 2
  MaxSweeps = 3
  MaxSpurious = 1
  Timely = FALSE
SYMMETRY TaskSymmetry
SPECIFICATION Spec
INVARIANTS
  TypeOK
  TaskConservation
  WakeupsCoverQueue
  BlockedOnlyWhenEmpty
CHECK_DEADLOCK FALSE
