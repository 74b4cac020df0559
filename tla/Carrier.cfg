SPECIFICATION Spec
CONSTANTS
  s1 = s1
  s2 = s2
  s3 = s3
  r1 = r1
  r2 = r2
  Servers = {s1, s2}
  Requests = {r1}
  MaxWindows = 2
  Faults = {"io", "crash"}
SYMMETRY AnyOrder
INVARIANTS TypeOK ServedInWindow ShownAccepted RestartKeepsQr
CHECK_DEADLOCK FALSE
