CONSTANTS
    Accounts = {a1}
    Servers = {1, 2}
    Zones = {1, 2}
    Conns = {c1, c2}
    Pids = {1}
    NoPlayer = NoPlayer
    Dangling = Dangling
    NoZone = NoZone
    NoServ = NoServ
    NoConn = NoConn
    SaveTimeout = 0
    MaxLogins = 2
    MaxBreaks = 1
    MaxRegs = 1
    ListServers = {s1}
    Players = {p1, p2, p3}
    Gids = {}
    Null = Null
    NoGid = NoGid
    End = End
    Batch = 3
    MaxMsgs = 2
SPECIFICATION WorldSpec
PROPERTIES SecondLoginEnds EveryoneHears
CHECK_DEADLOCK FALSE
