CONSTANTS
    Requests = {r1}
    Last = 2
    Signature <- MCSignature
    DefaultOnTimeout = "deny"
    None = None
    MaxClears = 1
    MaxRestarts = 0
SPECIFICATION Spec
PROPERTY
    AbandonedDisappears
CHECK_DEADLOCK FALSE
