SPECIFICATION SettleSpec
CONSTANTS
  NoPath = NoPath
  Paths <- MCPaths
  Kinds <- LiveKinds
  MaxEvents = 2
  Ctls <- NoCtls
  MaxCtl = 0
  MaxChilds = 0
  MaxRunning = 2
  Load = 0
  Debug <- NoDebug
INVARIANT SettledIsHandled
CHECK_DEADLOCK FALSE
