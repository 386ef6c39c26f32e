CONSTANTS
    FileCount = 5
    Kind <- DeepKind
    Size <- DeepSize
    SIZEBUF = 2
    LooksLikeEof <- MarkerOdd
    ServerDirs = 2
    MayKillClient = TRUE
    MayKillServer = TRUE
    MayReadShort = TRUE
    MaxSessions = 3
    MaxLength = 4
SPECIFICATION FairSpec
CHECK_DEADLOCK FALSE
INVARIANT TypeOK
INVARIANT SessionAppends
INVARIANT FreshMeansSaved
INVARIANT LockStep
INVARIANT Streaming
INVARIANT Reporting
INVARIANT Kept
PROPERTY OwnBytesOnly
PROPERTY KeepsPromise
PROPERTY SessionEnds
