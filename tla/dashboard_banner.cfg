CONSTANTS
    Sessions = {a, b}
    Requests = {r}
    None = None
    MaxRows = 2
    MaxSelects = 2
    MaxAsked = 2
    MaxPipe = 2
    MaxMishaps = 1
SPECIFICATION Spec
INVARIANTS
    BannerIsShown
CHECK_DEADLOCK FALSE
