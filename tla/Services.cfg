SPECIFICATION Spec
CONSTANTS
  Commands <- MCCommands
  Items = 2
  FaultSets <- SingleFaults
INVARIANTS TypeOK CopyExact ShellOutputWhole
PROPERTIES CommandEnds BothEnd
CHECK_DEADLOCK FALSE
