CONSTANTS
    Requests = {r1, r2}
    Last = 2
    Signature <- MCSignature
    DefaultOnTimeout = "deny"
    None = None
    MaxClears = 1
    MaxRestarts = 1
SPECIFICATION Spec
INVARIANTS
    FirstAnswerWins
    AbandonedStaysSilent
    AwaitsAnswerableOnly
    ApprovedWasAllowed
PROPERTIES
    NoneStaysOpen
CHECK_DEADLOCK FALSE
