SPECIFICATION Spec
CONSTANTS
  b = b
  b2 = b2
  i = i
  d = d
  Tasks = {b, b2, i}
  Dispatches = {}
  Priority <- MCPriority
  Requeue <- MCRequeue
  MaxRequeues = 1
  Durable = FALSE
  Retention = FALSE
  Callbacks = {}
  Faults = {}
  Stoppers = {"caller"}
  Signal = "signal"
  MaxSubmits = 3
  MaxLost = 1
  NoEntry = NoEntry
INVARIANTS
  TypeOK
  QueueOrdered
  FirstComeFirstServed
  SerialExecution
  NoOrphanedPromise
PROPERTIES
  SettledForGood
