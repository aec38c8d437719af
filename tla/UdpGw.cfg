SPECIFICATION Spec
CONSTANTS
    AuthMethods = {"none", "password"}
    MaxPieces = 2
    Locals = {l1, l2}
    Remotes = {r1, r2}
    NoFlow = NoFlow
    MaxConnections = 2
    SendBuf = 1
    SrvConnections = 1
    StreamCap = 1
    MaxSubmits = 4
    MaxReplies = 1
    MaxFailures = 1
INVARIANTS HoldsWhatItsStateSays RebindIsFollowed
PROPERTIES BufferedIsSent FirstPacketKept
CHECK_DEADLOCK FALSE
