CONSTANTS
    r1 = r1
    r2 = r2
    t1 = t1
    t2 = t2
    k1 = k1
    k2 = k2
    i1 = i1
    i2 = i2
    b1 = b1
    Nobody = Nobody
    Unused = Unused
    Runs <- MCRuns
    Tasks <- MCTasks
    Keys = {k1, k2}
    KeyOf <- MCKeyOf
    SingletonOf <- MCSingletonOf
    Limit = 2
    RateLimit = 3
    Window = 1
    MaxNow = 1
    RunImmediately <- MCRunImmediately
    maxConsecutiveFailures = 2
    MaxStarts = 3
    MaxTicks = 3
    Chunks = 3
    maxPreemptionRetries = 2
    MaxPreemptions = 5
    Ids = {i1, i2}
    maxAttempts = 2
    Bureaus = {b1}
    Kinds = {"saved", "attachment"}
    Lease = 1
    MaxTries = 2
    MaxFacts = 2
    MaxClock = 1
    maxStaleRetries = 1
    MaxJobs = 2
    MaxWrites = 3
    MaxCrashes = 1
    MaxFaults = 1
SPECIFICATION Spec
INVARIANTS
    CountsMatch
    StopIsABoundary
    EachChunkOnce
    NotifiedByOneProcess
    OneSummaryAtATime
PROPERTIES
    ShutdownReturns
    EveryFactIsRetired
    PublishesOnlyFresh
CHECK_DEADLOCK FALSE
