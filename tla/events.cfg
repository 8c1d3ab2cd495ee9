SPECIFICATION FairSpec
CONSTANTS
  MaxSay = 1
  MaxHooks = 1
  MaxLag = 1
  MaxFaults = 1
INVARIANTS
  TypeOK
  LostOnlyAfterEnd
  AnswersFollowQuestion
  UploadedOnce
PROPERTIES
  StatusIsShown
CHECK_DEADLOCK FALSE
