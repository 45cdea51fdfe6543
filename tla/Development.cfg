SPECIFICATION FairSpec
CONSTANTS
    Configs = {a, b}
    First = a
    None = None
    MaxCommands = 2
    MaxFaults = 1
INVARIANTS
    RoutedIsRegistered ReadyMatches AppliedIsSelected
PROPERTIES
    ActivationCompletes
CHECK_DEADLOCK FALSE
