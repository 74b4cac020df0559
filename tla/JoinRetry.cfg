SPECIFICATION FairSpec
CONSTANTS
  s1 = s1
  s2 = s2
  a = a
  Joiners = {a}
  Sessions = {s1, s2}
  Who <- WhoRetries
  Phones = {}
  Kicked = {}
  MaxArms = 2
  Faults = {"break", "quit", "io", "crash"}
PROPERTIES
  Answered
  AcceptCompletes
