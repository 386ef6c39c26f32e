CONSTANTS
    Clients = {"a", "b"}
    Transports = {"TCP", "UDP"}
    Contents <- MCContents
    MayNest = {"b"}
    Memory <- MCMemory
    SIZEBUF = 3
    Cleared = 1
    Datagram = 2
    MayKill = TRUE
    MayLose = TRUE
    MayReadShort = TRUE
    MaxTemp = 7
SPECIFICATION FairSpec
CHECK_DEADLOCK FALSE
INVARIANT CopyInv
INVARIANT CopyKept
PROPERTY RunEnds
