SPECIFICATION Spec
CONSTANTS
    Configs = {a, b}
    First = a
    None = None
    MaxCommands = 0
    MaxFaults = 2
INVARIANTS
    HealthyMountsLive
CHECK_DEADLOCK FALSE
