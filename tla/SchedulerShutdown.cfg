SPECIFICATION FairSpec
CONSTANTS
  b = b
  b2 = b2
  i = i
  d = d
  Tasks = {b, i}
  Dispatches = {}
  Priority <- MCPriority
  Requeue <- MCRequeue
  MaxRequeues = 1
  Durable = TRUE
  Retention = TRUE
  Callbacks = {b}
  Faults = {}
  Stoppers = {"caller"}
  Signal = "signal"
  MaxSubmits = 2
  MaxLost = 1
  NoEntry = NoEntry
PROPERTIES
  ImplementsTaskLocation
  EverythingEnds
