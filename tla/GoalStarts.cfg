SPECIFICATION Spec
CONSTANTS
  MaximumAttempts = 1
  StepBudget = 1
  RetryOn = {"failRetryable"}
  AuditLogMaximum = 16
  s1 = s1
  s2 = s2
  Starts = {s1, s2}
  Hosts = {"boot", "a", "b"}
  Calls <- CallsCancelAndRecover
  DurationBound = FALSE
  MaximumControllerRestarts = 1
  MaxTries = 1
  MaxIdleWakes = 3
  MaxRefusals = 3
  MaxSteps = 1
  MaxTimeouts = 1
  MaxCrashes = 0
  MaxFaults = 0
  StartMayFail = FALSE
SYMMETRY SlotSymmetry
INVARIANTS
  StepsOnlyAcknowledged
  NothingLeftBehind
PROPERTIES
  ImplementsLifecycle
\* A goal that is over takes no more steps.
CHECK_DEADLOCK FALSE
