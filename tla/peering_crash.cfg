SPECIFICATION Spec
CONSTANTS
    s1 = s1  s2 = s2
    me = me  p = p  q = q
    Self = me
    None = None
    Manager = Manager
    Session = {s1, s2}
    Peer = {me, p}
    Posts <- MCAll
    Stalled = {}
    QueueCap = 2
    InboxCap = 1
    MaxWorkers = 3
    MaxPosts = 4
    MaxCrash = 1
CHECK_DEADLOCK FALSE
INVARIANTS
    TypeOK
    PeersAreComplete
    TwoWorkersOnlyEarly
