\* Three rounds of three attempts, two messages, two resumptions.
SPECIFICATION Spec
CONSTANTS
  MaxCalls = 3
  MaxAttempts = 3
  MaxReviews = 1
  MaxInputs = 2
  MaxResumes = 2
CHECK_DEADLOCK FALSE
INVARIANTS
  OneAttemptShown
  ShownIsRecorded
  SamplesAreCounted
  ContinuationsBounded
PROPERTIES
  AnsweredNotResent
