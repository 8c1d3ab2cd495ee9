SPECIFICATION Spec
CONSTANTS
  Queries = {q1}
  Fresh = {}
  Cancels = {c1, c2}
  Reaper = reaper
  NoOne = noone
  Turns = 2
  SharedLock = TRUE
  Faults = {"sandbox", "init", "step", "save", "timeout", "drop", "crash"}
  ExpireAt = {"sandbox", "unlock"}
SYMMETRY Commands
INVARIANTS AnswerToCancelIsTrue DropOnlyAfterEnd
PROPERTIES CancelIsHonoured
CHECK_DEADLOCK FALSE
