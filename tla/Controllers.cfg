SPECIFICATION Spec
CONSTANTS
  MaxCoroutines = 2
  Regions <- MCRegions
  AnyRegion = "any"
  ScanRegions = {"any"}
  UserSettings <- MCUserSettings
  MaxChanges = 1
INVARIANTS ChainIsComplete
PROPERTIES SelectionFirstUnlessMixed CoroutinesEnd
CHECK_DEADLOCK FALSE
