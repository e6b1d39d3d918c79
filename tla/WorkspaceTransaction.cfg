SPECIFICATION Spec
CONSTANTS
  web = web
  cli = cli
  old = old
  new = new
  None = None
  Absent = Absent
  Files <- Two
  Contents <- OldAndNew
  Initial <- Empty
  Begun <- CreatedTwice
  Runtimes <- WebAndCli
  MaxChanges = 2
  MaxEdits = 1
  MaxCrashes = 1
SYMMETRY Swap
INVARIANTS
  JournalMatchesDisk
  JournalIsChain
  RolledBackOnce
  NoMutualWait
