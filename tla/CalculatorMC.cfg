\* CalculatorClient and CalculatorServer_v2 over a stream cut anywhere, or whole at the heads; the
\* draft of its protocol with two frames each way.
CONSTANTS
  MaxRequests = 3
  Window = 1
  DivZero <- Third
  NumberLen = 2
  PayloadLen <- PayloadLengths
  MaxFrames = 2
SPECIFICATION MCSpec
INVARIANTS
  TypesOK
  WrongEnds
  RightAnswers
PROPERTY EveryAnswer
CHECK_DEADLOCK FALSE
