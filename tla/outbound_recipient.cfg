CONSTANTS
    Replies = {r1}
    Files = {}
    MaxParts = 2
    Parts <- MCParts
    Senders = {alice, bob}
    None = None
    MaxAttempts = 1
    MaxMsgs = 2
    MaxClears = 0
    MaxCrashes = 0
SPECIFICATION SpecHeard
PROPERTIES
    RepliesToHeard
CHECK_DEADLOCK FALSE
