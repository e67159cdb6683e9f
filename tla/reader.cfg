SPECIFICATION FairSpec
CONSTANTS
    own = own  friends = friends  closedOne = closedOne
    Group = {own, friends, closedOne}
    Existing = {friends, closedOne}
    None = None
    Perm <- MCPerm
    MaxNum = 2
    ChanCap = 1
INVARIANTS
    TypeOK
    RangeIsComplete
    ListIsComplete
PROPERTIES
    ReplyEnds
