CONSTANTS
    c1 = c1
    c2 = c2
    c3 = c3
    x1 = x1
    x2 = x2
    k1 = k1
    k2 = k2
    k3 = k3
    tools = tools
    billing = billing
    steered = steered
    batch = batch
    bare = bare
    queued = queued
    swapped = swapped
    Unused = Unused
    Loops <- LoopNames
    Closings <- ClosingNames
    Calls <- MCCalls
    Aborts <- MCAborts
    maximumSteps <- MCmaximumSteps
    maxErrorRetries <- MCmaxErrorRetries
    RetryAttempts <- MCRetryAttempts
    RetryDelays <- MCRetryDelays
    WithOutput <- MCWithOutput
    schemaRetries <- MCschemaRetries
    MaxCommands <- MCMaxCommands
    AppliedFloor <- MCAppliedFloor
    StepAborts <- MCStepAborts
    MayReject <- MCMayReject
    AfterThrows <- MCAfterThrows
    Limit <- MCLimit
    FailFast <- MCFailFast
    Swapped <- MCSwapped
    Hooked <- MCHooked
    LateChildren <- MCLateChildren
    Children <- MCChildren
    Callers <- MCCallers
SPECIFICATION FairSpec
INVARIANTS
    RunEndsWhole
    PauseHolds
    ClosedIsQuiet
PROPERTY EndsWhenTold
CHECK_DEADLOCK FALSE
