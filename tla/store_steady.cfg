SPECIFICATION FairSpec
CONSTANTS
    None = None
    s1 = s1  s2 = s2
    article = article  cancel = cancel  foreign = foreign
    g = g  h = h  k = k  u = u
    alice = alice  bob = bob
    Session = {s1, s2}
    Msg = {article, cancel}
    Group = {g, h, k, u}
    Carried = {g, h, k}
    From <- MCFrom
    Cancels <- MCCancels
    MayPost <- MCMayPost
    Newsgroups <- FullCancel
    WriteLeaves = {"whole", "none"}
    MaxCopies = 3
    MaxCrash = 0
    MaxFails = 2
    Dotless = {u}
    MaxId = 2
CHECK_DEADLOCK FALSE
INVARIANTS
    FileWhileListed
PROPERTIES
    EveryPostReturns
