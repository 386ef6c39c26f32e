CONSTANTS
    FileCount = 5
    Kind <- DeepKind
    Size <- DeepSize
    SIZEBUF = 2
    LooksLikeEof <- NoMarker
    ServerDirs = 2
    MayKillClient = FALSE
    MayKillServer = TRUE
    MayReadShort = FALSE
    MaxSessions = 2
    MaxLength = 0
SPECIFICATION Spec
CHECK_DEADLOCK FALSE
INVARIANT VerdictIsIntegrity
