SPECIFICATION Spec
CONSTANTS
  Sandboxes = {s1, s2, s3}
  Ports <- Range5
  PortsPer = 2
  MaxRestarts = 0
  Events = {"pause", "cleanup", "refuse", "break", "cut", "exit", "vanish"}
SYMMETRY Names
INVARIANTS TypeOK BoundIsAllocated PausedCanResume
PROPERTIES LeaseSpec
CHECK_DEADLOCK FALSE
