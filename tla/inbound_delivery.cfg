CONSTANTS
    k1 = k1
    k2 = k2
    k3 = k3
    s1 = s1
    s2 = s2
    Keys = {k1, k2}
    Sessions = {s1}
    Target <- MCTarget
    Shims = {c1, c2}
    None = None
    MaxMsgs = 3
    MaxFaults = 2
SPECIFICATION Spec
INVARIANTS
    AckedWasForwarded
    OnlyMissedAreStranded
    OnlyMissedAreOvertaken
    InOrderOnConnection
PROPERTIES
    ImplementsInbox
    EveryRowSettles
CHECK_DEADLOCK FALSE
