CONSTANTS
    Sessions = {a, b}
    Requests = {r}
    None = None
    MaxRows = 2
    MaxSelects = 2
    MaxAsked = 2
    MaxPipe = 2
    MaxMishaps = 1
SPECIFICATION Spec
PROPERTIES
    BadgeCountsUnopened
CHECK_DEADLOCK FALSE
