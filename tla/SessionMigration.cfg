SPECIFICATION ImportSpec
CONSTANTS
    a = a
    b = b
    x = x
    y = y
    Nobody = Nobody
    Importers = {a, b}
    Ids = {x, y}
    Dests <- MCDests
    Sources = {"main", "companion", "tmp"}
    Initially = {"main", "companion"}
    MaxEdits = 1
    MaxCrashes = 1
SYMMETRY MCSymmetry
INVARIANTS
    ImportIsSnapshot FailedLeavesNothing
PROPERTIES
    OthersUntouched
CHECK_DEADLOCK FALSE
