SPECIFICATION Spec
CONSTANTS
  Sandboxes = {s1, s2, s3}
  Ports <- Range5
  PortsPer = 2
  MaxRestarts = 2
  Events = {"pause", "cleanup", "refuse", "cut", "exit", "vanish", "scan"}
SYMMETRY Names
INVARIANTS NoPortLost
CHECK_DEADLOCK FALSE
