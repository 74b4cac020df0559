SPECIFICATION FairSpec
CONSTANTS
  Host = host
  g1 = g1
  g2 = g2
  a = a
  b = b
  None = None
  Guests = {g1, g2}
  Device <- TwoDevices
  Backends = {"http", "fs"}
  FaultSets = {{}, {"slow", "cut", "quit", "io", "restart"}}
  MaxWaiters = 2
INVARIANTS
  TypeOK
  MutualKey
PROPERTIES
  ImplementsContract
  PairEnds
  PairCompletes
