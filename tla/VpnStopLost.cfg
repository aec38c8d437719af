SPECIFICATION Spec
CONSTANTS
  MaxStarts = 2
  MaxSessions = 2
PROPERTY StopCompletes
