CONSTANTS
    Replies = {r1, r2}
    Files = {r2}
    MaxParts = 2
    Parts <- MCParts
    Senders = {alice, bob}
    None = None
    MaxAttempts = 2
    MaxClears = 1
    MaxCrashes = 1
SPECIFICATION Spec
INVARIANTS
    SentRowWasPosted
    RecipientIsNewest
PROPERTIES
    KeepsPromise
    RowsAreDecided
CHECK_DEADLOCK FALSE
