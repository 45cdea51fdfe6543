SPECIFICATION FairSpec
CONSTANTS
    f1 = f1
    f2 = f2
    c1 = c1
    n1 = n1
    canary = canary
    a1 = a1
    a2 = a2
    inside = inside
    None = None
    Flows = {f1, f2}
    Connections = {c1}
    Names = {n1}
    Fixed = {canary}
    FixedAddress <- MCFixedAddress
    Addresses = {a1, a2, inside}
    Public = {a1, a2}
    Attempts = 2
    MaxAnswer = 2
CHECK_DEADLOCK FALSE
INVARIANTS
    OneTarget VerifiedWasLeased
PROPERTIES
    WaiterDecided
