SPECIFICATION SettleSpec
CONSTANTS
  NoPath = NoPath
  Paths <- MCPaths
  Kinds <- MCKinds
  MaxEvents = 3
  Ctls <- NoCtls
  MaxCtl = 0
  MaxChilds = 0
  MaxRunning = 2
  Load = 0
  Debug <- NoDebug
CONSTRAINT EarlyEvents
INVARIANTS QueueInv NoOverlap ChildNoticed SettledSawTheEnd
PROPERTIES ImplementsSchedule
CHECK_DEADLOCK FALSE
