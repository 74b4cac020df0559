SPECIFICATION Spec
CONSTANTS
  d1 = d1
  d2 = d2
  n = n
  g = g
  p1 = p1
  p2 = p2
  i1 = i1
  i2 = i2
  i3 = i3
  i4 = i4
  Devices = {d1, d2}
  Names = {n}
  Groups = {g}
  Holders = {p1, p2}
  Inodes = {i1, i2, i3, i4}
  MaxChanges = 3
  Faults = {"crash", "io"}
SYMMETRY AnyOrder
INVARIANTS TypeOK AliasFound TornOnlyByOverlap
PROPERTY ImplementsMap
CHECK_DEADLOCK FALSE
