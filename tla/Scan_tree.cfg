CONSTANTS
    Paths <- MCPaths
    Root = 1
    Parent <- MCParent
    Types <- MCTypes
    Descriptors = {1, 3, 4, 6, 9, 12}
    SIZEBUF = 2
    Length <- MCLength
    Limit = 8
    Width = 6
SPECIFICATION SizeSpec
CHECK_DEADLOCK FALSE
INVARIANT TypeOK
INVARIANT ArrayComplete
INVARIANT CountsRight
INVARIANT Accounted
INVARIANT SizeWithinFactor
PROPERTY WritesInBounds
PROPERTY TameTreeIsSent
PROPERTY ScanEnds
