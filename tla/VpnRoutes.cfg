CONSTANTS
  Width = 4
  MaxExclusions = 4
SPECIFICATION Spec
INVARIANTS WellFormed RoutesExactlyTheRest LargestBlocks
CHECK_DEADLOCK FALSE
