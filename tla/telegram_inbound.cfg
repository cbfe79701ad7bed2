CONSTANTS
    Bots = {work}
    Senders = {alice, bob}
    Blobs = {photo}
    Configs <- MCConfigs
    Kinds = {"text", "command", "photo", "document", "callback", "other"}
    MsgLimit = 1
    MsgWindow = 2
    PairLimit = 1
    PairWindow = 3
    CodeLife = 1
    MaxUpdates = 2
    MaxTime = 2
    MaxStops = 1
    MaxEdits = 1
SPECIFICATION Spec
INVARIANTS
    StoredOnceBeforeOffset
    RateHeld
    BindingsAreProven
    ListIsObeyed
PROPERTIES
    EveryUpdatePasses
CHECK_DEADLOCK FALSE
