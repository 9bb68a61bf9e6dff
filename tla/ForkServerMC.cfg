\* The four versions: two connections, three turns of the accept loop; three places for a
\* Socket, three descriptors, four opens.
CONSTANTS
  c1 = c1
  c2 = c2
  Conns = {c1, c2}
  NoConn = NoConn
  MaxRounds = 3
  Objects = {o1, o2, o3}
  LastFd = 3
  MaxOpens = 4
SPECIFICATION MCSpec
INVARIANTS
  TypesOK
  CleanAtAccept
  OneServes
  NoStrayClose
  NoLeak
PROPERTIES
  PeerSeesEnd
  EveryoneAccepted
CHECK_DEADLOCK FALSE
