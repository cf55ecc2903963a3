CONSTANTS
    Conns = {k1}
    Lost = Lost
    Scripts = {s1, s2, s3}
    None = None
    InitParams = 1
    ReqMax = 5
    MaxCalls = 7
    MaxBreaks = 0
SPECIFICATION Spec
INVARIANTS NotSwapped
CHECK_DEADLOCK FALSE
