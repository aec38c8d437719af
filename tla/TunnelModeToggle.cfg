\* Settings change between restarts: proxy-only mode may be switched.
CONSTANTS
  Configs <- MCConfigs
  MaxCommands = 1
  MaxCore = 1
  MaxInputs = 2
  MaxFaults = 0
SPECIFICATION Spec
INVARIANT RoutingIsReal
CHECK_DEADLOCK FALSE
