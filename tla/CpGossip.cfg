SPECIFICATION Spec
CONSTANTS
  Commands <- CopyCommands
  Items = 2
  FaultSets <- NoFaults
INVARIANTS GossipNotDecoded
CHECK_DEADLOCK FALSE
