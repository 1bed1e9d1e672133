SPECIFICATION Spec
CONSTANTS
    Fds = {4, 5}
    Apps = {"a"}
    Commands <- MCCommands
    Ops <- MCOps
    Settings <- MCSettings
    MaxConns = 2
    MaxEnded = 1
    MaxCmds = 2
    MaxOps = 1
INVARIANTS TypeOK AckNamesCommand ByteOrder RightPeer WholeFrames WaitsOnlyForItself
CHECK_DEADLOCK FALSE
