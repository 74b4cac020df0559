SPECIFICATION Spec
CONSTANTS
  s1 = s1
  s2 = s2
  a = a
  Joiners = {a}
  Sessions = {s1, s2}
  Who <- WhoRetries
  Phones = {p1}
  Kicked = {a}
  MaxArms = 2
  Faults = {"break", "quit", "io", "crash"}
INVARIANTS
  TypeOK
  OnlyApproved
  LinkedBothSides
  WindowSpent
  RequestShown
  OneSidedByRepeat
PROPERTIES
  ImplementsContract
