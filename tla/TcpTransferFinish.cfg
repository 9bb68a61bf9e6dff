\* A FIN that overtakes the data before it.
CONSTANTS
  Length = 8
  Inputs = {2, 3}
  Small = 2
  Large = 4
  Capacities = {2, 4}
  Half = 4
  ISN = {0, 6}
  MaxFIN = 2
  MaxMishaps = 1
  MaxFlight = 2
  MaxProbes = 1
SPECIFICATION MCSpec
INVARIANT FinishedWhole
CHECK_DEADLOCK FALSE
