SPECIFICATION FairSpec
CONSTANTS
  Caller = "session"
  Runs = 2
  MaxTurns = 2
  MaxCalls = 2
INVARIANTS TypeOK LlmSeesWellFormed ShownIsAnswered InstructionKept
PROPERTIES EveryRunEnds
CHECK_DEADLOCK FALSE
