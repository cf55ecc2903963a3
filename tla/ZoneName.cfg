CONSTANTS
    Root = "root"
    Tables = {"t1"}
    Old = {}
    Strings = {"s1"}
    Zones = {"z1"}
    MaxHandlers = 2
SPECIFICATION CollectorSpec
INVARIANT NameKept
CHECK_DEADLOCK FALSE
