CONSTANTS
    u = u  v = v  w = w  t = t  x = x  y = y  n = n  b = b
    NoOne = NoOne
    Clients <- MixedClients
    FileCount <- MCFileCount
    Idx <- MCIdx
    TotalSize <- MCTotalSize
    Lossy = TRUE
    OneAtATime = FALSE
    MayKill = TRUE
SPECIFICATION Spec
CHECK_DEADLOCK FALSE
INVARIANT TypeOK
INVARIANT TcpIsExclusive
INVARIANT TcpInv
