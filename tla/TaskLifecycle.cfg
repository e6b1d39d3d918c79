SPECIFICATION LiveSpec
CONSTANTS
  p1 = p1
  p2 = p2
  read = read
  write = write
  ask = ask
  None = None
  Procs <- OneProcess
  Calls <- AllCalls
  Gated <- JustWrite
  NonIdempotent <- JustWrite
  Asks <- JustAsk
  Kinds <- BothKinds
INVARIANTS
  RequestMatchesState
  NonIdempotentOnce
PROPERTIES
  ConsentBeforeRun
  EndIsFinal
  TaskSettles
