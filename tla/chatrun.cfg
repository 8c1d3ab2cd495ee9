SPECIFICATION FairSpec
CONSTANTS
  NRuns = 2
  MaxCalls = 1
  MaxUpsets = 2
  Threshold = 2
  ListLimit = 2
INVARIANTS
  TypeOK
  SentIsAnswered
  StopIsPrompt
  PaidAnswerKept
PROPERTIES
  StoppedRunEnds
CHECK_DEADLOCK FALSE
