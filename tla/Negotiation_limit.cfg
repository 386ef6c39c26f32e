CONSTANTS
    u = u  v = v  w = w  t = t  x = x  y = y  n = n  b = b
    NoOne = NoOne
    Clients <- OnlyN
    FileCount <- MCFileCount
    Idx <- MCIdx
    TotalSize <- MCTotalSize
    Lossy = FALSE
    OneAtATime = TRUE
    MayKill = FALSE
SPECIFICATION FairSpec
CHECK_DEADLOCK FALSE
PROPERTY ReadyMessageComes
