SPECIFICATION GossipSpec
CONSTANTS
  n1 = n1
  n2 = n2
  n3 = n3
  x = x
  None = None
  Devices = {n1, n2, n3}
  InitStore <- Star
  Circle <- CircleStar
  InitId <- OwnIds
  FreshIds = {1}
  Orders = {}
  Timers = {n1, n2, n3}
  MaxFlight = 1
  Faults = {"offline"}
PROPERTIES
  GossipConverges
