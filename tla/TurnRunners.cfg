\* Three messages, one answer, two commands: a redirect can be replaced, stopped
\* and followed by another message while the first Turn is still unwinding.
SPECIFICATION Spec
CONSTANTS
  MaxTexts = 3
  Replies = {reply1}
  MaxCommands = 2
CHECK_DEADLOCK FALSE
INVARIANTS
  InterruptedMeansStopped
  OnlyRegisteredGoesOn
PROPERTIES
  HeardInOrder
  AcceptedSettles
