SPECIFICATION FairSpec
CONSTANTS
    s1 = s1  s2 = s2
    me = me  p = p  q = q
    Self = me
    None = None
    Manager = Manager
    Session = {s1, s2}
    Peer = {me, p}
    Posts <- MCGrow
    Stalled = {}
    QueueCap = 1
    InboxCap = 1
    MaxWorkers = 2
    MaxPosts = 2
    MaxCrash = 1
CHECK_DEADLOCK FALSE
PROPERTIES
    EveryPostAnswered
    PeersConnected
