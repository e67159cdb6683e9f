SPECIFICATION FairSpec
CONSTANTS
    a = a  b = b
    Node = {a, b}
    MaxBreaks = 2
    MaxDeaths = 1
    MaxTorFails = 2
CHECK_DEADLOCK FALSE
INVARIANTS
    TypeOK
    EndsAgree
    NobodyAbandoned
PROPERTIES
    PeersConnect
