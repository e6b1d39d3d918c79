SPECIFICATION Spec
CONSTANTS
  p1 = p1
  p2 = p2
  read = read
  write = write
  ask = ask
  None = None
  Procs <- TwoProcesses
  Calls <- JustWrite
  Gated <- JustWrite
  NonIdempotent <- JustWrite
  Asks <- NoCalls
  Kinds <- JustTalk
SYMMETRY ProcSymmetry
PROPERTIES
  OnlyApprovalsOverwriteEnds
