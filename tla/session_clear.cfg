CONSTANTS
    Files = {f, g}
    Texts = {t}
    None = None
    MaxPrompts = 1
    MaxStarts = 1
    MaxMishaps = 0
SPECIFICATION Spec
INVARIANTS
    IdleIsIdle
CHECK_DEADLOCK FALSE
