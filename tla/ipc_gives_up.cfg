CONSTANTS
    Shims = {p1}
    Conns = {c1, c2}
    Reqs = {r1}
    None = None
    MaxFaults = 1
SPECIFICATION Spec
PROPERTY
    KeepsReconnecting
CHECK_DEADLOCK FALSE
