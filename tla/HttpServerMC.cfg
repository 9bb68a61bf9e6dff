\* One HTTP request of every kind; TcpClient with both servers over a stream cut anywhere,
\* with lines as long as the buffers; two clients of UdpServer with two lines each.
CONSTANTS
  HeadBytes = 4
  MaxData = 2
  Target <- Targets
  Dotted <- DottedTargets
  Site <- Files
  MAX_STR = 3
  MAX_BUFF = 3
  MaxLen = 3
  MaxLines = 3
  MaxCalc = 3
  DivZero = {3}
  Client = {c1, c2}
  MaxAsked = 2
  MaxOdd = 1
SPECIFICATION MCSpec
INVARIANTS
  TypesOK
  OnlyWholeRouted
  AnswersInStep
PROPERTIES
  EveryRequest
  AnswersCome
CHECK_DEADLOCK FALSE
