SPECIFICATION LinkSpec
CONSTANTS
    worker = worker
    command = command
    c1 = c1  c2 = c2  c3 = c3
    NoConn = NoConn
    Helper = {command}
    Connection = {c1, c2, c3}
    Replies = {"ok", "error"}
INVARIANTS
    PostFindsClient
    OneConnectionEach
    OnlyShaken
    RefusedOnlyInRace
