SPECIFICATION Spec
CONSTANTS
  MaximumAttempts = 2
  StepBudget = 2
  RetryOn = {"failRetryable"}
  AuditLogMaximum = 16
  s1 = s1
  s2 = s2
  Starts = {s1}
  Hosts = {"boot", "a"}
  Calls <- CallsOne
  DurationBound = TRUE
  MaximumControllerRestarts = 1
  MaxTries = 2
  MaxIdleWakes = 3
  MaxRefusals = 3
  MaxSteps = 1
  MaxTimeouts = 0
  MaxCrashes = 1
  MaxFaults = 1
  StartMayFail = TRUE
INVARIANTS
  AtMostOneLiveRun
  CancelKeepsItsWord
\* A goal that is over takes no more steps.
CHECK_DEADLOCK FALSE
