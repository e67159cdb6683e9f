SPECIFICATION FairSpec
CONSTANTS
    x = x  y = y  z = z
    open = open  inner = inner
    newOpen = newOpen  newInner = newInner  cross = cross
    Node = {x, y, z}
    Peered <- MCPeered
    Group = {open, inner}
    Owner <- MCOwner
    MayRead <- MCMayRead
    MayPost <- MCMayPost
    Article = {newOpen, newInner, cross}
    Origin <- MCOrigin
    Groups <- MCGroups
    NoRow <- MCNoRow
    Creates <- MCCreates
    NoGroup = NoGroup
    MaxFaults = 2
CHECK_DEADLOCK FALSE
INVARIANTS
    FeedsSettle
    PathIsWay
PROPERTIES
    NodesAreSpools
    Spreads
