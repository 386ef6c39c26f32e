CONSTANTS
    FileCount = 4
    Kind <- MCKind
    Size <- MCSize
    SIZEBUF = 2
    LooksLikeEof <- MCMarker
    MayLose = TRUE
    MayOvertake = TRUE
    MayKill = TRUE
    MaxSessions = 4
    MaxLength = 3
SPECIFICATION FairSpec
CHECK_DEADLOCK FALSE
INVARIANT TypeOK
INVARIANT SessionAppends
INVARIANT FreshMeansSaved
INVARIANT LockStep
INVARIANT Streaming
INVARIANT Reporting
INVARIANT Kept
PROPERTY OwnBytesOnly
PROPERTY KeepsPromise
PROPERTY SessionEnds
