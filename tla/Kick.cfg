SPECIFICATION KickSpec
CONSTANTS
  n1 = n1
  n2 = n2
  n3 = n3
  x = x
  None = None
  Devices = {n1, n2, n3}
  InitStore <- FullMesh
  Circle <- CircleFullMesh
  InitId <- SameId
  FreshIds = {1}
  Orders <- KickN3
  Timers = {n1}
  MaxFlight = 1
  Faults = {"offline", "loss", "crash", "quit"}
INVARIANTS
  TypeOK
  KickSparesOthers
PROPERTIES
  KickDelivered
