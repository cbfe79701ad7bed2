CONSTANTS
    Pids = {p1, p2, p3}
    None = None
    MaxKills = 2
    MaxCommands = 2
SPECIFICATION ServiceSpec
INVARIANTS
    ServingHoldsLock
    PrintedIsAccepted
PROPERTIES
    StaleLockGivesWay
    CommandsKeepTheirWord
CHECK_DEADLOCK FALSE
