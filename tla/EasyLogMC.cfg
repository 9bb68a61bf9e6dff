\* Three threads share two records; exit may destroy the log under them. Three processes
\* write two lines, of up to three pieces, through buffers of two.
CONSTANTS
  w1 = w1
  w2 = w2
  w3 = w3
  Writers = {w1, w2, w3}
  Nobody = Nobody
  Destroyed = Destroyed
  Size = 2
  MaxCalls = 1
  Process = {p0, p1, p2}
  Root = p0
  Capacity = 2
  MaxLines = 2
  MaxPieces = 3
SPECIFICATION MCSpec
INVARIANTS
  TypesOK
  RecordExclusive
  OneFormatting
  FileSound
PROPERTY
  ImplementsFairLog
CHECK_DEADLOCK FALSE
