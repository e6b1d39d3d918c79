SPECIFICATION ProcessLiveSpec
CONSTANTS
  server = server
  build = build
  NoStatus = NoStatus
  Processes <- JustServer
  StopOnEnd <- JustServer
  Daemonizing <- JustServer
  Shared = TRUE
  MaxCrashes = 1
CHECK_DEADLOCK FALSE
INVARIANTS
  FinishedIsOver
PROPERTIES
  ClosersReturn
