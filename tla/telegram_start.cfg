CONSTANTS
    Bots = {work, home}
    Senders = {alice}
    Blobs = {photo}
    Configs <- MCConfigs
    Kinds = {"text"}
    MsgLimit = 2
    MsgWindow = 2
    PairLimit = 1
    PairWindow = 3
    CodeLife = 1
    MaxUpdates = 1
    MaxTime = 0
    MaxStops = 0
    MaxEdits = 0
SPECIFICATION Spec
PROPERTIES
    StartIsRetried
CHECK_DEADLOCK FALSE
