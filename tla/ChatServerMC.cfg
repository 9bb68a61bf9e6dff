\* Three clients, two pool threads, one duplicate or one failure of recvfrom; a ChatClient
\* with three lines and four messages.
CONSTANTS
  h1 = h1
  h2 = h2
  noip = noip
  Addr <- Clients
  Garbage <- OneGarbage
  Slots = 2
  MaxSends = 3
  MaxRecvs = 4
  MaxOdd = 1
  MaxLines = 3
  MaxClientSends = 5
  MaxArrivals = 4
SPECIFICATION MCSpec
INVARIANTS
  TypesOK
  NoEcho
  AtMostOnce
  BoundedReordering
  NoLineTwice
PROPERTY
  MessagesShown
CHECK_DEADLOCK FALSE
