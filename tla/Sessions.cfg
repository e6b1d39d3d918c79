\* One chat and one caller of the kernel in another process, three Tasks, one
\* follow-up, one menu, one Task taken back from its end.
SPECIFICATION Spec
CONSTANTS
  Chats = {chat}
  Callers = {caller}
  Tasks = {t1, t2, t3}
  Inputs = {f1}
  MaxChoices = 1
  MaxRevived = 1
  None = None
SYMMETRY Symmetry
INVARIANTS
  NoLostUpdate
  OneTaskPerFollowUp
  ClosedHoldsOnlyEnded
