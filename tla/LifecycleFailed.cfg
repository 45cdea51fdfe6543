SPECIFICATION Spec
CONSTANTS
    c1 = c1
    i1 = i1
    None = None
    Controllers = {c1}
    Images = {i1}
    NumProbes = 1
    Wrapped = {}
    MaxGenerations = 1
    MaxFaults = 1
INVARIANTS
    FailedStartStops
