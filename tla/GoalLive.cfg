SPECIFICATION FairSpec
CONSTANTS
  MaximumAttempts = 1
  StepBudget = 1
  RetryOn = {"failRetryable"}
  AuditLogMaximum = 16
  s1 = s1
  s2 = s2
  Starts = {s1}
  Hosts = {"boot", "a"}
  Calls <- CallsOne
  DurationBound = FALSE
  MaximumControllerRestarts = 1
  MaxTries = 2
  MaxIdleWakes = 3
  MaxRefusals = 3
  MaxSteps = 1
  MaxTimeouts = 0
  MaxCrashes = 1
  MaxFaults = 0
  StartMayFail = FALSE
PROPERTIES
  CancellationCompletes
  GoalGoesOn
\* A goal that is over takes no more steps.
CHECK_DEADLOCK FALSE
