CONSTANTS
    Pids = {p1, p2}
    None = None
    MaxKills = 0
    MaxCommands = 3
SPECIFICATION ServiceSpec
PROPERTIES
    StopMeansStopped
CHECK_DEADLOCK FALSE
