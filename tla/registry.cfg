SPECIFICATION FairSpec
CONSTANTS
    k1 = k1  k2 = k2  f = f  own = own  theirs = theirs
    Group = {own, theirs}
    Key = {k1, k2}
    Friend = {f}
    Everyone = Everyone
    None = None
    OwnerOf <- MCOwnerOf
    Card <- MCCard
    MaxId = 3
    MaxClock = 4
    MaxFaults = 1
    MaxDeaths = 1
CHECK_DEADLOCK FALSE
INVARIANTS
    PermsFollowCard
    RowsAreMapped
    OwnerKeepsGroups
PROPERTIES
    ComesUp
