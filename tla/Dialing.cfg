SPECIFICATION Spec
CONSTANTS
  a1 = a1
  a2 = a2
  a3 = a3
  c1 = c1
  c2 = c2
  Agents = {a1, a2, a3}
  Commands = {c1, c2}
  Paths = {"run", "tmp"}
  Identities = {"me", "you"}
  Of <- MCOf
  Socket <- MCSocket
  Others <- MCOthers
SYMMETRY AnyCommand
INVARIANTS TypeOK IdentityKept Reachable
PROPERTY NoNeedlessBind
