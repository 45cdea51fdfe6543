SPECIFICATION FairSpec
CONSTANTS
    c1 = c1
    c2 = c2
    Clients = {c1, c2}
    MaxSessions = 1
    MaxBuffer = 2
    IdleTimeout = 1
    MaxWrites <- Writes
INVARIANTS
    SlotsReturned AuditTrail CloseCutsAll
PROPERTIES
    RelaysPipe SessionsEnd
CHECK_DEADLOCK FALSE
