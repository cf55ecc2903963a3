CONSTANTS
    Players = {a1, a2, a3}
    Servers = {s1, s2}
    Gids = {g1, g2}
    Null = Null
    NoGid = NoGid
    End = End
    Dangling = Dangling
    Batch = 1
    MaxMsgs = 1
    MaxBreaks = 1
SPECIFICATION Spec
INVARIANTS TypeOK CursorListed ListSound BusyIsCounted GroupsSound
PROPERTIES GroupsImplemented
CONSTRAINT MessageOrGroups
SYMMETRY Alike
CHECK_DEADLOCK FALSE
