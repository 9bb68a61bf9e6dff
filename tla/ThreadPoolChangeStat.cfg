\* ChangeStat against ClearTrash, without the timing assumption.
CONSTANTS
  t1 = t1
  t2 = t2
  t3 = t3
  Tasks = {t1}
  Pill = Pill
  N = 2
  Endless = {}
  MaxKills = 1
  MaxSweeps = 1
  MaxSpurious = 0
  Timely = FALSE
SPECIFICATION Spec
INVARIANT ChangeStatSafe
CHECK_DEADLOCK FALSE
