CONSTANTS
    Pids = {p1, p2, p3}
    None = None
    MaxKills = 2
    MaxCommands = 3
SPECIFICATION ServiceSpec
PROPERTIES
    RefusedIfRunning
CHECK_DEADLOCK FALSE
