CONSTANTS
    Files = {f}
    Texts = {t}
    None = None
    MaxPrompts = 2
    MaxStarts = 1
    MaxMishaps = 1
SPECIFICATION Spec
PROPERTIES
    EveryReplyIsCaptured
CHECK_DEADLOCK FALSE
