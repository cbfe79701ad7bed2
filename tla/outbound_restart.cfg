CONSTANTS
    Replies = {r1}
    Files = {}
    MaxParts = 2
    Parts <- MCParts
    Senders = {alice, bob}
    None = None
    MaxAttempts = 1
    MaxMsgs = 2
    MaxClears = 0
    MaxCrashes = 1
SPECIFICATION SpecHeard
PROPERTIES
    RepliesToLast
CHECK_DEADLOCK FALSE
