SPECIFICATION MCSpec
CONSTANTS
  Null = Null
  Refusal = Refusal
  Sessions = {"x", "y"}
  Verifiers <- OneVerifier
  Sides <- BothSides
  JudgesFacts = TRUE
  MaxOps = 2
  MaxFaults = 3
  Nobody = Nobody
  LiveFiles <- TwoFiles
  Nodes <- LiveNodes
  Dereference = TRUE
  Screened = {"secret"}
  NoTree = NoTree
  MaxEdits = 2
  MaxCrashes = 1
  JudgedFacts = {"f1", "f2"}
  MaxCalls = 3
  Verified = {"v"}
  Judged = {"j"}
  CallVerdicts = {"met", "unclear"}
  MaxInspections = 2
  MaxWrites = 1
  MaxInspectionFaults = 1
  Agents = {"a1", "a2"}
  Shells = {"s1"}
  Counts = TRUE
  MaxTurns = 2
  CheckedFacts = 2
  Modes = {"calibrate"}
  MaxCheckFaults = 1
  Commands = 2
  Depth = 2
  MaxMetricFaults = 1
  MaxTouches = 1
  MaxCutSessions = 1
INVARIANTS SubjectRead ConfigSound TreesWhole ChecksSound GradeAgrees InputFitted AccountSound CalibrationSound ViewSound ReportsSound
PROPERTIES TurnsOver InspectionSound
CHECK_DEADLOCK FALSE
