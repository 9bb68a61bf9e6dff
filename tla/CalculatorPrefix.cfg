\* A frame cut after its length is taken for a request.
CONSTANTS
  MaxRequests = 3
  Window = 1
  DivZero = {3}
SPECIFICATION Spec
INVARIANT OnlyWholeFrames
CHECK_DEADLOCK FALSE
