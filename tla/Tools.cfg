CONSTANTS
    r1 = r1
    r2 = r2
    q1 = q1
    q2 = q2
    q3 = q3
    c1 = c1
    c2 = c2
    c3 = c3
    pair = pair
    race = race
    expiring = expiring
    lasting = lasting
    Approvals <- ApprovalNames
    Keys <- KeyNames
    MaxNow <- MaxNowValue
    Resumers <- ResumersValue
    ExpiresAt <- ExpiresAtValue
    Deadline <- DeadlineValue
    MaxFaults <- MaxFaultsValue
    Calls <- CallsValue
    Lease <- LeaseValue
    MaxDuration <- MaxDurationValue
    TTL <- TTLValue
    MaxCrashes <- MaxCrashesValue
    Unused = Unused
SPECIFICATION Spec
INVARIANTS
    SpentOnce
    GivenBack
    OneEffect
PROPERTY SettledIsFinal
SYMMETRY Symmetry
CHECK_DEADLOCK FALSE
