CONSTANTS
    c1 = c1
    c2 = c2
    c3 = c3
    Calls = {c1, c2, c3}
    Lease = 1
    MaxDuration = 2
    TTL = 1
    MaxNow = 2
    MaxCrashes = 0
SYMMETRY Symmetry
SPECIFICATION Spec
INVARIANT OneEffect
CHECK_DEADLOCK FALSE
