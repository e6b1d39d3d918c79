\* Two inputs, the first of them sent twice, two Turns.
SPECIFICATION Spec
CONSTANTS
  i1 = i1
  i2 = i2
  c1 = c1
  c2 = c2
  c3 = c3
  None = None
  Inputs <- TwoInputs
  Calls <- ThreeCalls
  InputOf <- Sent
  WaysOf <- Ways
  Attempts = 2
  MaxSamples = 2
  MaxBatch = 2
  MaxTurns = 2
SYMMETRY Retries
CHECK_DEADLOCK FALSE
INVARIANTS
  QueuedOnce
  AppliedInOrder
  HeardIsKept
  BatchesUnbroken
  HeardBeforeGoingOn
