SPECIFICATION Spec
CONSTANTS
  Facts = 2
  Modes = {"grade"}
  MaxFaults = 1
INVARIANTS RestoredOnly
CHECK_DEADLOCK FALSE
