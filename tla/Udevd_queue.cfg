SPECIFICATION FairSpec
CONSTANTS
  NoPath = NoPath
  Paths <- MCPaths
  Kinds <- LiveKinds
  MaxEvents = 2
  Ctls <- AllCtls
  MaxCtl = 2
  MaxChilds = 0
  MaxRunning = 2
  Load = 0
  Debug <- BoolSet
INVARIANTS TypeOK QueueDrains
PROPERTIES EventEnds
CHECK_DEADLOCK FALSE
