CONSTANTS
    Accounts = {a1, a2}
    Servers = {s1, s2}
    Zones = {z1, z2}
    Conns = {c1, c2}
    Pids = {1, 2}
    NoPlayer = NoPlayer
    Dangling = Dangling
    NoZone = NoZone
    NoServ = NoServ
    NoConn = NoConn
    SaveTimeout = 0
    MaxLogins = 2
    MaxBreaks = 1
SPECIFICATION Spec
SYMMETRY Alike
CONSTRAINT OneAccountOrOneServer
INVARIANTS TypeOK NoDanglingPlayer HomeIsZone SaveInFlight
CHECK_DEADLOCK FALSE
