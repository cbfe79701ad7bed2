CONSTANTS
    Shims = {p1, p2}
    Conns = {c1, c2}
    Reqs = {r1}
    None = None
    MaxFaults = 2
SPECIFICATION Spec
INVARIANTS
    OneServed
    ConnectedIsRegistered
    SentWasHandled
PROPERTIES
    Reconnects
CHECK_DEADLOCK FALSE
