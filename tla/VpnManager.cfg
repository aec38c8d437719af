SPECIFICATION Spec
CONSTANTS
  MaxStarts = 4
  MaxSessions = 4
INVARIANTS SingleInstance NoPumpWithoutInterface InterfaceReleased
PROPERTIES SeenStopCompletes ImplementsPump
