SPECIFICATION FairSpec
CONSTANTS
  Queries = {q1, q2}
  Fresh = {q1}
  Cancels = {}
  Reaper = reaper
  NoOne = noone
  Turns = 1
  SharedLock = TRUE
  Faults = {"sandbox", "init", "step", "save", "timeout", "crash"}
  ExpireAt = {"sandbox", "unlock"}
INVARIANTS TypeOK
PROPERTIES SlotSpec EveryRunEnds EveryQueryEnds
CHECK_DEADLOCK FALSE
