SPECIFICATION Spec
CONSTANTS
  MaxCommands = 4
  MaxUpdates = 1
  MaxFaults = 1
INVARIANTS StopIsSeen
PROPERTIES RestartCompletes StartResolves
CHECK_DEADLOCK FALSE
