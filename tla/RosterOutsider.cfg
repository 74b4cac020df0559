SPECIFICATION Spec
CONSTANTS
  n1 = n1
  n2 = n2
  n3 = n3
  x = x
  None = None
  Devices = {n1, n2, x}
  InitStore <- WithOutsider
  Circle <- CircleWithOutsider
  InitId <- SameId
  FreshIds = {1}
  Orders <- KickN2UnlinkN1
  Timers = {n1, n2, x}
  MaxFlight = 2
  Faults = {"offline", "loss", "crash", "quit"}
INVARIANTS
  Vouched
  DeliveredWasSent
