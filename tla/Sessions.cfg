CONSTANTS
    b1 = b1
    b2 = b2
    c1 = c1
    c2 = c2
    c3 = c3
    s1 = s1
    s2 = s2
    s3 = s3
    shared = shared
    mixed = mixed
    crashing = crashing
    writers = writers
    returning = returning
    merging = merging
    indexing = indexing
    None = None
    Outboxes <- OutboxNames
    Stores <- StoreNames
    Bureaus <- BureausValue
    Kinds <- KindsValue
    Lease <- LeaseValue
    MaxTries <- MaxTriesValue
    MaxFacts <- MaxFactsValue
    MaxClock <- MaxClockValue
    MaxCrashes <- MaxCrashesValue
    MaxFaults <- MaxFaultsValue
    Callers <- CallersValue
    Ids <- IdsValue
    Operations <- OperationsValue
    Updaters <- UpdatersValue
    MaxAttempts <- MaxAttemptsValue
    MaxOperations <- MaxOperationsValue
    FineClock <- FineClockValue
SPECIFICATION Spec
INVARIANTS
    NoFactIsLost
    LogTellsBodies
    NoLostMessage
    IndexFaithful
PROPERTIES
    ImplementsOrderedFeed
    NothingIsTakenBack
SYMMETRY Symmetry
CHECK_DEADLOCK FALSE
