SPECIFICATION DialogsSpec
CONSTANTS
    Facts = {"build"}
    Optional = {}
    NPhases = 1
    PhaseOf <- OnePhaseOf
    AfterPhase <- OneStep
    Workflow = TRUE
    Screens = {s1, s2}
    Signals = {"cancelled"}
    Dialogs = {"question"}
    MaxTurns = 2
    StandInReplies = 3
    MaxInspections = 1
    MaxCalls = 4
    ScreenActions = 2
    ScreenWaits = 1
    ScreenSteps = 2
SYMMETRY Symmetry
INVARIANTS CreditExact StepsNoted
PROPERTIES StopFinal Promises
