CONSTANTS
    Conns = {k1, k2}
    Lost = Lost
    Scripts = {s1, s2, s3}
    None = None
    InitParams = 1
    ReqMax = 5
    MaxCalls = 4
    MaxBreaks = 1
SPECIFICATION Spec
INVARIANTS TypeOK OwnAnswer Awaited Accounted
PROPERTIES Answered
CHECK_DEADLOCK FALSE
