SPECIFICATION Spec
CONSTANTS
    q1 = q1
    q2 = q2
    q3 = q3
    n1 = n1
    s1 = s1
    x1 = x1
    t1 = t1
    t2 = t2
    a1 = a1
    w1 = w1
    p1 = p1
    NoLease = NoLease
    Queries = {q1, q2, q3}
    Names = {n1, s1, x1}
    QTypes = {t1, t2}
    Addresses = {a1}
    StaticNames = {s1}
    RefusedNames = {x1}
    Owners = {n1, s1, x1, w1}
    Responses <- MCResponses
    MaxTTL = 2
    Grace = 1
    MaxEntries = 1
    WriteLimit = 1
    MaxTime = 6
CHECK_DEADLOCK FALSE
SYMMETRY Symmetry
VIEW View
INVARIANTS
    LeaseIsRecorded NoStaleAuthority
PROPERTIES
    CachedAnswerIsLeased
