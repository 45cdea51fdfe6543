SPECIFICATION WebSocketSpec
CONSTANTS
    Sockets = {f1, f2}
    MaxMessage = 2
    MaxSession = 3
    MaxMessages = 2
    Faults = 2
INVARIANTS
    TrailCoversForwarded TrailEndsOrLatched
CHECK_DEADLOCK FALSE
