CONSTANTS
    Pids = {p1, p2}
    None = None
    MaxKills = 0
SPECIFICATION Spec
INVARIANTS
    ServingIsReachable
    LockIsExclusive
CHECK_DEADLOCK FALSE
