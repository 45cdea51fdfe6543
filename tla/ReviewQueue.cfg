SPECIFICATION FairSpec
CONSTANTS
    r1 = r1
    d1 = d1
    d2 = d2
    Requests = {r1}
    Digests = {d1, d2}
    ReviewTTL = 1
    ApproveTTLs = {1, 2}
    FutureSlack = 0
    LockWait = 1
    MaxTime = 3
INVARIANTS
    ReviewedDispatch OutcomeRecordedOrLatched NoOrphanPending
PROPERTIES
    TerminalIsFinal ReviewIsOneShot InterceptedReleased
