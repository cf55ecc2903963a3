CONSTANTS
    Strs = {3, 7}
    Nums = {0, 2}
    Vals = {"a"}
    MaxNum = 2
    Root = "root"
    Tables = {"t1", "t2"}
    Old = {"t1"}
    Strings = {"s1"}
    Zones = {"z1"}
    MaxHandlers = 3
    NumBlocks = 5
    BlockSize = 3
    Taken = 1
    KeyOffset = 1
    MaxSize = 6
    Accepted = {0, 2, 6}
    MaxCalls = 4
    MaxSends = 2
    MaxSeq = 2
SPECIFICATION LibrarySpec
INVARIANTS
    IsMap
    Counted
    Safe
    AsSequence
    BlocksOnce
    FramesWhole
    ServerRoundTrip
    ClientRoundTrip
PROPERTIES
    EachOnce
    FullExact
    FullEnds
CHECK_DEADLOCK FALSE
