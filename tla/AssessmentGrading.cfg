SPECIFICATION Spec
CONSTANTS
    Attempts = {a1}
    Verifiers = 2
    Metrics = 0
    Suited = {1, 2}
    HasFacts = TRUE
    Rubrics = {q1}
    MaxCalls = 2
    Cases = {c1}
    Misfits = {}
    Findings = {f1}
    NoAttempt = NoAttempt
    NoCase = NoCase
    MaxRegrades = 1
    MaxReviews = 1
    MaxFaults = 2
INVARIANTS WorkBounded GradesSound
PROPERTIES NewAssessment
