SPECIFICATION FairSpec
CONSTANTS
    None = None
    v = v  w = w  p = p  a = a  b = b  c = c  d = d
    Worker = {v, w}
    Peer = {p}
    PeerOf <- MCPeerOf
    Access <- MCAccess
    OnPath <- MCOnPath
    Msg = {a, b, c, d}
    Withdrawn = {a}
    Damaged = {b}
    MaxId = 2
    MaxBreaks = 1
    MaxCrash = 1
    MaxFails = 1
CHECK_DEADLOCK FALSE
INVARIANTS
    NothingSkipped
PROPERTIES
    CursorNeverBack
    OfferedOncePerLife
    Delivered
