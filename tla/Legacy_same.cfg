CONSTANTS
    Clients = {"a"}
    Transports = {"UDP"}
    Contents <- MCContents
    MayNest = {}
    Memory <- MCMemory
    SIZEBUF = 3
    Cleared = 1
    Datagram = 2
    MayKill = FALSE
    MayLose = FALSE
    MayReadShort = FALSE
    MaxTemp = 7
SPECIFICATION Spec
CHECK_DEADLOCK FALSE
INVARIANT SameMeansSame
