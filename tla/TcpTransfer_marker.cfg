CONSTANTS
    FileCount = 4
    Kind <- FlatKind
    Size <- FlatSize
    SIZEBUF = 2
    LooksLikeEof <- MarkerInside
    ServerDirs = 1
    MayKillClient = FALSE
    MayKillServer = FALSE
    MayReadShort = FALSE
    MaxSessions = 1
    MaxLength = 0
SPECIFICATION Spec
CHECK_DEADLOCK FALSE
INVARIANT EofMeansEnd
