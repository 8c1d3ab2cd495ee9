SPECIFICATION Spec
CONSTANTS
  MaxSay = 1
  MaxHooks = 2
  MaxLag = 1
  MaxFaults = 0
INVARIANTS OwnMessageHandling
CHECK_DEADLOCK FALSE
