\* Any peer with a stream of eight bytes, as long as a cycle of sequence numbers, and a
\* window of four; a sender with three bytes and a window of two, or with two bytes for an
\* application that may not read.
CONSTANTS
  Length = 8
  Inputs = {2, 3}
  Small = 2
  Large = 4
  Capacities = {2, 4}
  Half = 4
  ISN = {0, 6}
  MaxFIN = 2
  MaxMishaps = 1
  MaxFlight = 2
  MaxProbes = 1
SPECIFICATION MCSpec
INVARIANTS
  TypesOK
  CacheIsSound
  NoByteLost
  SenderSound
PROPERTIES
  ImplementsStream
  BytesRead
CHECK_DEADLOCK FALSE
