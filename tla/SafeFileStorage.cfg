SPECIFICATION Spec
CONSTANTS
  Processes <- MCProcesses
  Threads <- MCThreads
  ProcessOf <- MCProcessOf
  Savers <- MCSavers
  MaxCalls = 4
  MaxFaults = 2
INVARIANTS LoadSeesLastSave
PROPERTIES CallsReturn
CHECK_DEADLOCK FALSE
