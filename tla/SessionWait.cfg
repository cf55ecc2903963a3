CONSTANTS
    Accounts = {a1}
    Servers = {1}
    Zones = {1}
    Conns = {c1}
    Pids = {1}
    NoPlayer = NoPlayer
    Dangling = Dangling
    NoZone = NoZone
    NoServ = NoServ
    NoConn = NoConn
    SaveTimeout = 1
    MaxLogins = 2
    MaxBreaks = 0
SPECIFICATION WSpec
PROPERTIES NoRushedLogin
CHECK_DEADLOCK FALSE
