SPECIFICATION Spec
CONSTANTS
    Flows = {f1, f2, f3}
    NoFlow = NoFlow
    MaxTime = 4
    Mtu = 1
    PacketWeight = 1
    MaxInits = 4
INVARIANTS EarliestServed
PROPERTIES OverflowIsExact QueuedIsSent
CHECK_DEADLOCK FALSE
