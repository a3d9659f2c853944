SPECIFICATION Spec
CONSTANTS
  b = b
  b2 = b2
  i = i
  d = d
  Tasks = {b, i}
  Dispatches = {d}
  Priority <- MCPriority
  Requeue <- MCRequeue
  MaxRequeues = 1
  Durable = TRUE
  Retention = FALSE
  Callbacks = {}
  Faults = {"suspend", "get", "cancel"}
  Stoppers = {"signal"}
  Signal = "signal"
  MaxSubmits = 2
  MaxLost = 1
  NoEntry = NoEntry
INVARIANTS
  Reachable
  ResultIsEarned
  StoppedIsQuiet
\* A cancel that fails in the suspend gap leaves stop() waiting for ever.
CHECK_DEADLOCK FALSE
