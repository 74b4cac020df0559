SPECIFICATION Spec
CONSTANTS
  d1 = d1
  d2 = d2
  me = me
  n1 = n1
  Devices = {d1, d2}
  Local = me
  Names = {n1}
  MyName = n1
  Apps = {app}
  app = app
  Address <- MCAddress
  MaxChanges = 2
  MaxFaults = 1
INVARIANTS TypeOK TunnelReaches
PROPERTY Forwarded
