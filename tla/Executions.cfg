SPECIFICATION MCSpec
CONSTANTS
    Runs = {r1}
    Trials = {t1}
    Ids = {a1, a2}
    Procs = {single}
    Kinds = {"setup", "helper", "daemon"}
    NoRun = NoRun
    NoId = NoId
    NoProc = NoProc
    MaxRetries = 1
    MaxFaults = 2
    r2 = r2
    e1 = e1
    e2 = e2
SYMMETRY Symmetry
INVARIANTS SubjectsApart
PROPERTIES LaunchedAndCapturedQuiet
