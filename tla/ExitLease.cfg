SPECIFICATION FairSpec
CONSTANTS
    s1 = s1
    s2 = s2
    Streams = {s1, s2}
    NumProbes = 2
    Lease = 1
    Grace = 2
    StartLimit = 1
    MaxSessions = 1
INVARIANTS
    ForwardVerified FailureStands SlotsReturned
PROPERTIES
    UnverifiedEnds AuditFaultEnds
