CONSTANTS
    k1 = k1
    k2 = k2
    k3 = k3
    s1 = s1
    s2 = s2
    Keys = {k1, k3}
    Sessions = {s1, s2}
    Target <- MCTarget
    Shims = {c1}
    None = None
    MaxMsgs = 2
    MaxFaults = 1
SPECIFICATION Spec
INVARIANTS
    AcknowledgedOnce
    ReplayReachesClaude
PROPERTY
    StartupKeepsQueued
CHECK_DEADLOCK FALSE
