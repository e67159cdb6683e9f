SPECIFICATION Spec
CONSTANTS
    id1 = id1  id2 = id2
    n1 = n1  n2 = n2  n3 = n3
    vcard = vcard  NoCard = NoCard
    Id = {id1, id2}
    Nil = Nil  Error = Error  Panic = Panic
    Node = {id1, n1, n2, n3}
    LastHop = 3
    Path <- MCPath
    Messages <- MCMessages
    Orders <- MCOrders
    MaxInstalls = 2
CHECK_DEADLOCK FALSE
INVARIANTS
    
    RefusedIffFragile
    ArrivesAsWritten
    ControlUnderstood
