CONSTANTS
    Sessions = {a, b}
    Dirs = {d}
    Procs = {p}
    Nothing = Nothing
    NoDir = NoDir
    Broken = Broken
    BadSettings = {}
    AutoStart = {TRUE}
    MaxSetups = 3
    MaxMishaps = 0
SPECIFICATION SetupSpec
PROPERTIES
    RemoveSparesOthers
CHECK_DEADLOCK FALSE
