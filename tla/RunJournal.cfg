SPECIFICATION Spec
CONSTANTS
    Procs = {p1, p2}
    Readers = {r1}
    NoProc = NoProc
    MaxEvents = 3
    ReadLimit = 1
    MaxAppends = 4
    MaxFailures = 2
INVARIANTS TypeOK Resumable ReadersSeePrefix
PROPERTIES TornKept
CHECK_DEADLOCK FALSE
