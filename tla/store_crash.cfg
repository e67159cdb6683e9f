SPECIFICATION Spec
CONSTANTS
    None = None
    s1 = s1  s2 = s2
    article = article  cancel = cancel  foreign = foreign
    g = g  h = h  k = k  u = u
    alice = alice  bob = bob
    Session = {s1, s2}
    Msg = {article, cancel, foreign}
    Group = {g, h, k, u}
    Carried = {g, h, k}
    From <- MCFrom
    Cancels <- MCCancels
    MayPost <- MCMayPost
    Newsgroups <- PartialCancel
    WriteLeaves = {"whole", "torn", "none"}
    MaxCopies = 2
    MaxCrash = 1
    MaxFails = 1
    Dotless = {u}
    MaxId = 4
CHECK_DEADLOCK FALSE
INVARIANTS
    AnnouncedOnce
    IndexNeverConflicts
    ListedAsPermitted
PROPERTIES
    WithdrawnUnderItsFrom
    ImplementsSpool
