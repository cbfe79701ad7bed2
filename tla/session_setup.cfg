CONSTANTS
    Sessions = {a, b}
    Dirs = {d, e}
    Procs = {p, q}
    Nothing = Nothing
    NoDir = NoDir
    Broken = Broken
    BadSettings = {e}
    AutoStart = {TRUE}
    MaxSetups = 3
    MaxMishaps = 1
SPECIFICATION SetupSpec
SYMMETRY Symmetry
PROPERTIES
    AddMakesUsable
    RemoveLeavesNothing
    OthersKeepTheirs
    RestartMoves
CHECK_DEADLOCK FALSE
