SPECIFICATION Spec
CONSTANTS
  Verified = {"v"}
  Judged = {"j"}
  Verdicts = {"met", "unclear"}
  MaxInspections = 2
  MaxWrites = 1
  MaxFaults = 2
PROPERTIES ScratchKept
CHECK_DEADLOCK FALSE
