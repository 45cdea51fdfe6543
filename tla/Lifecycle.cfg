SPECIFICATION Spec
CONSTANTS
    c1 = c1
    c2 = c2
    i1 = i1
    i2 = i2
    None = None
    Controllers = {c1, c2}
    Images = {i1, i2}
    NumProbes = 1
    Wrapped = {1}
    MaxGenerations = 2
    MaxFaults = 2
SYMMETRY Symmetry
INVARIANTS
    RouteIsFenced RunningIsCurrent Accounted StopClosesAll StartIsComplete GuardedNetwork
