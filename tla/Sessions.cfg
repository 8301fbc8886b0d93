SPECIFICATION MCFairSpec
CONSTANTS
    Kids = {"k1", "k2"}
    NoProc = NoProc
    MaxProcesses = 2
    MaxFaults = 2
INVARIANTS NothingLeftRunning
PROPERTIES ClosedLast CallReturns PassesEnd
CHECK_DEADLOCK FALSE
