SPECIFICATION LiveSpec
CONSTANTS
    Facts = {"build", "review", "tidy"}
    Optional = {"tidy"}
    NPhases = 2
    PhaseOf <- PhasedPhaseOf
    AfterPhase <- PhasedSteps
    Workflow = TRUE
    Screens = {}
    Signals = {"timeout"}
    Dialogs = {"approval"}
    MaxTurns = 4
    StandInReplies = 5
    MaxInspections = 3
    MaxCalls = 6
    ScreenActions = 1
    ScreenWaits = 1
    ScreenSteps = 1
INVARIANTS WorkflowKept
PROPERTIES Ends
