-------------------------------- MODULE AttemptParts --------------------------------
(* The parts of an attempt of which theorems are proved, none of which shares    *)
(* state with another: a behaviour is one of one of them.  Calibration is        *)
(* extended; live configurations, the judging of facts, inspections, turns,      *)
(* checks and metrics commands are instances over variables of their own.        *)
EXTENDS Calibration

CONSTANTS
    LiveFiles, Nodes, Dereference, Screened, NoTree, MaxEdits, MaxCrashes,             \* LiveConfig
    JudgedFacts, MaxCalls,                                                             \* FactJudging
    Verified, Judged, CallVerdicts, MaxInspections, MaxWrites, MaxInspectionFaults,    \* Inspection
    Agents, Shells, Counts, MaxTurns,                                                  \* ClaudeTurns
    CheckedFacts, Modes, MaxCheckFaults,                                               \* CheckEvidence
    Commands, Depth, MaxMetricFaults, MaxTouches, MaxCutSessions                       \* CaseMetrics

VARIABLES
    part,
    live, staged, snapshot, journal, w, pc, config, launched, edits, crashes,
    inspected, at, begun, calls, judged, again, asked, contested, grade, replied,
    files, log, read, stop, working, inspection, inspections, named, dirs, records, running, owned, resolved,
    concluded, inspectionFaults,
    turn, phase, task, by, excused, adapter, final,
    mode, fact, side, step, copy, hidden, exec, kept, checks, record, checkFaults,
    measuring, number, intents, saved, work, there, writable, locked, secret, cancelled, metricFaults, touches, cut

Config == INSTANCE LiveConfig WITH Files <- LiveFiles
Judging == INSTANCE FactJudging WITH Facts <- JudgedFacts
Inspected == INSTANCE Inspection WITH
    i <- inspection, n <- inspections, alive <- running, inspected <- concluded, faults <- inspectionFaults,
    Verdicts <- CallVerdicts, MaxFaults <- MaxInspectionFaults
Turns == INSTANCE ClaudeTurns
Checked == INSTANCE CheckEvidence WITH
    at <- step, faults <- checkFaults, Facts <- CheckedFacts, MaxFaults <- MaxCheckFaults
Measured == INSTANCE CaseMetrics WITH
    at <- measuring, hidden <- secret, faults <- metricFaults, sessions <- cut, MaxFaults <- MaxMetricFaults,
    MaxSessions <- MaxCutSessions

configvars == <<live, staged, snapshot, journal, w, pc, config, launched, edits, crashes>>
judgingvars == <<inspected, at, begun, calls, judged, again, asked, contested, grade, replied>>
inspectedvars ==
    <<files, log, read, stop, working, inspection, inspections, named, dirs, records, running, owned, resolved,
      concluded, inspectionFaults>>
turnvars == <<turn, phase, task, by, excused, adapter, final>>
checkvars == <<mode, fact, side, step, copy, hidden, exec, kept, checks, record, checkFaults>>
metricvars ==
    <<measuring, number, intents, saved, work, there, writable, locked, secret, cancelled, metricFaults, touches, cut>>
othervars == <<turnvars, checkvars, metricvars>>
partvars == <<part, vars, configvars, judgingvars, inspectedvars, othervars>>

\* What the proofs ask of the constants.
ASSUME PartsFit ==
    Config!ConstantsFit /\ Judging!ConstantsFit /\ Turns!ConstantsFit /\ Checked!ConstantsFit
-----------------------------------------------------------------------------
\* The variables of a part that is not played stay as they are at the beginning.
ConfigRests ==
    /\ live = 0 /\ staged = 0 /\ snapshot = 0 /\ journal = 0 /\ w = 0 /\ pc = 0 /\ config = 0 /\ launched = 0
    /\ edits = 0 /\ crashes = 0
JudgingRests ==
    /\ inspected = 0 /\ at = 0 /\ begun = 0 /\ calls = 0 /\ judged = 0 /\ again = 0 /\ asked = 0 /\ contested = 0
    /\ grade = 0 /\ replied = 0
InspectedRests ==
    /\ files = 0 /\ log = 0 /\ read = 0 /\ stop = 0 /\ working = 0 /\ inspection = 0 /\ inspections = 0 /\ named = 0
    /\ dirs = 0 /\ records = 0 /\ running = 0 /\ owned = 0 /\ resolved = 0 /\ concluded = 0 /\ inspectionFaults = 0
TurnsRest ==
    turn = 0 /\ phase = 0 /\ task = 0 /\ by = 0 /\ excused = 0 /\ adapter = 0 /\ final = 0
CheckedRests ==
    /\ mode = 0 /\ fact = 0 /\ side = 0 /\ step = 0 /\ copy = 0 /\ hidden = 0 /\ exec = 0 /\ kept = 0 /\ checks = 0
    /\ record = 0 /\ checkFaults = 0
MeasuredRests ==
    /\ measuring = 0 /\ number = 0 /\ intents = 0 /\ saved = 0 /\ work = 0 /\ there = 0 /\ writable = 0 /\ locked = 0
    /\ secret = 0 /\ cancelled = 0 /\ metricFaults = 0 /\ touches = 0 /\ cut = 0

PartsInit ==
    /\ Init
    /\ IF part = "config" THEN Config!Init ELSE ConfigRests
    /\ IF part = "judging" THEN Judging!Init ELSE JudgingRests
    /\ IF part = "inspection" THEN Inspected!Init ELSE InspectedRests
    /\ IF part = "turns" THEN Turns!Init ELSE TurnsRest
    /\ IF part = "checks" THEN Checked!Init ELSE CheckedRests
    /\ IF part = "metrics" THEN Measured!Init ELSE MeasuredRests

PartsNext ==
    \/ part = "calibration" /\ Next /\ UNCHANGED <<part, configvars, judgingvars, inspectedvars, othervars>>
    \/ part = "config" /\ Config!Next /\ UNCHANGED <<part, vars, judgingvars, inspectedvars, othervars>>
    \/ part = "judging" /\ Judging!Next /\ UNCHANGED <<part, vars, configvars, inspectedvars, othervars>>
    \/ part = "inspection" /\ Inspected!Next /\ UNCHANGED <<part, vars, configvars, judgingvars, othervars>>
    \/ part = "turns" /\ Turns!Next
       /\ UNCHANGED <<part, vars, configvars, judgingvars, inspectedvars, checkvars, metricvars>>
    \/ part = "checks" /\ Checked!Next
       /\ UNCHANGED <<part, vars, configvars, judgingvars, inspectedvars, turnvars, metricvars>>
    \/ part = "metrics" /\ Measured!Next
       /\ UNCHANGED <<part, vars, configvars, judgingvars, inspectedvars, turnvars, checkvars>>

PartsSpec == PartsInit /\ [][PartsNext]_partvars
-----------------------------------------------------------------------------
\* All attempts of a run start from the one configuration that its journal names, and nothing
\* screened is in it (LiveConfig).
ConfigSound == part = "config" => Config!ConfigSound

\* Judgments add up to the grade (FactJudging).
GradeAgrees == part = "judging" => Judging!GradeAgrees

\* Inspections are fresh, and on an abort and in the recovery their private directories are removed only
\* when no process that the journal names uses them (Inspection).
InspectionSound == [][part = "inspection" => Inspected!FreshStep /\ Inspected!QuietStep]_partvars

\* No turn is taken for over that is not (ClaudeTurns).
TurnsOver == [][part = "turns" => Turns!OverStep]_partvars

\* What is concluded of verifier checks and of metrics commands has been seen (CheckEvidence,
\* CaseMetrics).
ChecksSound ==
    /\ part = "checks" => Checked!CheckSound
    /\ part = "metrics" => Measured!MetricsSound
=============================================================================
