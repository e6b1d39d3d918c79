SPECIFICATION LiveSpec
CONSTANTS
  r1 = r1
  r2 = r2
  r3 = r3
  write = write
  None = None
  Calls <- AllCalls
  Order <- ReadsThenWrite
  Overlapping <- Reads
  Withdrawn <- FirstAndSecond
  Limit = 3
  MaxInterrupts = 2
CHECK_DEADLOCK FALSE
INVARIANTS
  AnsweredOnce
  NothingLeftRunning
PROPERTIES
  StoppedStartsNothing
  UnsafeRunsAlone
  BatchEnds
