SPECIFICATION FairSpec
CONSTANTS
  Requests = {r1, r2}
  Consumer = consumer
  NoMsg = nomsg
  Ops = {"connect", "timeout", "pause", "delete"}
  Overlap = TRUE
  Faults = {"provider", "db"}
  MaxCrashes = 2
INVARIANTS CurrentIsDelayed
PROPERTIES MessagesAreHandled
CHECK_DEADLOCK FALSE
