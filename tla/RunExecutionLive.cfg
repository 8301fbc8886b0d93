SPECIFICATION LiveSpec
CONSTANTS
    Runs = {r1, r2}
    Trials = {t1, t2}
    Ids = {a1, a2}
    Procs = {e1}
    Kinds = {"daemon"}
    NoRun = NoRun
    NoId = NoId
    NoProc = NoProc
    r2 = r2
    e1 = e1
    e2 = e2
    MaxRetries = 0
    MaxFaults = 2
INVARIANTS NeverRefused
PROPERTIES NoLaunchAfterFailure AttemptsSettle
