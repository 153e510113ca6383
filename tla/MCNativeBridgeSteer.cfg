\* Three runs of a loop without tools and streams, one message.
CONSTANTS
  MaxLoopRuns = 3
  ToolSlot = {}
  MaxStreams = 0
  MaxChunks = 0
  MaxSteers = 1
SPECIFICATION BridgeSpec
\* A loop whose last run is over does nothing more.
CHECK_DEADLOCK FALSE
INVARIANT
  SteersReachTheirRun
