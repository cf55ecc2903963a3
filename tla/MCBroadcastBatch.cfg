CONSTANTS
    Players = {a1, a2}
    Servers = {s1}
    Gids = {g1}
    Null = Null
    NoGid = NoGid
    End = End
    Dangling = Dangling
    Batch = 1
    MaxMsgs = 1
    MaxBreaks = 1
SPECIFICATION Spec
PROPERTIES EveryoneHears
CHECK_DEADLOCK FALSE
