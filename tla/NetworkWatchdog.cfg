SPECIFICATION FairSpec
CONSTANTS
    NumProbes = 2
    NumNamespaces = 3
    Lease = 3
    Interval = 1
    PassLimit = 2
INVARIANTS
    OpenIsAudited ClosedAfterProbeGone
PROPERTIES
    GoneClosesForGood
