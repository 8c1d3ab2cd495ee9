SPECIFICATION Spec
CONSTANTS
  Queries = {q1, q2}
  Fresh = {}
  Cancels = {}
  Reaper = reaper
  NoOne = noone
  Turns = 1
  SharedLock = FALSE
  Faults = {}
  ExpireAt = {}
SYMMETRY Commands
INVARIANTS AtMostOneRunning
CHECK_DEADLOCK FALSE
