CONSTANTS
    Files = {f, g}
    Texts = {t, u}
    None = None
    MaxPrompts = 2
    MaxStarts = 2
    MaxMishaps = 1
SPECIFICATION Spec
SYMMETRY Symmetry
INVARIANTS
    PromptsAreShownOnce
    WorkingIsWorking
PROPERTIES
    OnlySkippedAreMissing
    PromptsAreCaptured
CHECK_DEADLOCK FALSE
