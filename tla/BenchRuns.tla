------------------------------- MODULE BenchRuns -------------------------------
(* Bench commands (bench.py, bench_cli.py, runner.py): each freezes its         *)
(* experiment, sizes its budget, perhaps from a pilot, looks for an earlier run *)
(* to resume or to report, checks that its variants launch, and then creates or *)
(* resumes a run under the run's lock and the store's, captures and grades.     *)
(* Neither lock is held from the lookup to the run: several commands may do     *)
(* this at once, and any may be killed between two steps.                       *)
EXTENDS Naturals, Sequences, FiniteSets

CONSTANTS
    Commands, Experiments,
    Trials,        \* of each experiment; all have the same case, roles and scoring
    Budgets, Derived,   \* that the user may give; what a pilot's use comes to
    MaxRuns, MaxBegun,
    None

VARIABLES
    runs,      \* experiment, options (or None), captured, graded, passed
    locks,     \* of each run the command that has it open
    native,    \* the command with the store's native lock
    cmd,       \* of each command: at, its arguments, the runs there were when it began, its run, its options
    begun,
    reported   \* history: of each run reported with success, what was asked for

vars == <<runs, locks, native, cmd, begun, reported>>

Numbers == Nat \ {0}
Options == [budget : Budgets \cup {Derived}, pilot : Nat \cup {None}]

\* What the theorems ask of the constants.
ConstantsFit == Trials \in Seq(Numbers) /\ Experiments \subseteq 1..Len(Trials) /\ None \notin Options /\ None \notin Nat

Idle == [at |-> "idle"]
Init ==
    /\ runs = <<>> /\ locks = <<>> /\ native = None
    /\ cmd = [c \in Commands |-> Idle] /\ begun = 0 /\ reported = {}

Runs == 1..Len(runs)
Finished(r) == runs[r].captured = Trials[runs[r].experiment] /\ runs[r].graded = runs[r].captured
Goto(c, at) == cmd' = [cmd EXCEPT ![c].at = at]
Releases(c) ==
    /\ locks' = [r \in DOMAIN locks |-> IF locks[r] = c THEN None ELSE locks[r]]
    /\ native' = IF native = c THEN None ELSE native
Ends(c) == cmd' = [cmd EXCEPT ![c] = Idle] /\ Releases(c)

-----------------------------------------------------------------------------
\* bench, with or without --new-run, --budget-from and --check-only.
Begin(c) ==
    /\ cmd[c].at = "idle" /\ begun < MaxBegun /\ begun' = begun + 1
    /\ \E e \in Experiments, b \in Budgets, p \in {None} \cup Runs, new, check \in BOOLEAN :
         cmd' = [cmd EXCEPT ![c] = [at |-> IF p = None THEN "lookup" ELSE "pilot", experiment |-> e,
                                    options |-> [budget |-> b, pilot |-> p], new |-> new, check |-> check,
                                    began |-> Len(runs), run |-> None, gives |-> TRUE]]
    /\ UNCHANGED <<runs, locks, native, reported>>

\* A pilot is a run of one attempt that is graded and passed, and of the same case and roles.
Sizes(p) == runs[p].captured = 1 /\ runs[p].graded = 1 /\ runs[p].passed
Pilot(c) ==
    /\ cmd[c].at = "pilot"
    /\ IF Sizes(cmd[c].options.pilot)
       THEN cmd' = [cmd EXCEPT ![c].at = "lookup", ![c].options.budget = Derived] /\ UNCHANGED <<locks, native>>
       ELSE Ends(c)
    /\ UNCHANGED <<runs, begun, reported>>

\* resumable_run: the last run of the experiment that has the options asked for, or has none yet.
Matching(c) == {r \in Runs : runs[r].experiment = cmd[c].experiment}
Compatible(c) == {r \in Matching(c) : runs[r].options \in {None, cmd[c].options}}

Lookup(c) ==
    /\ cmd[c].at = "lookup"
    /\ LET previous == Compatible(c)
           last == CHOOSE r \in previous : \A q \in previous : q <= r
       IN  IF previous = {} THEN Goto(c, "check")
           ELSE IF Finished(last) /\ ~cmd[c].new /\ ~cmd[c].check
                THEN cmd' = [cmd EXCEPT ![c].at = "report", ![c].run = last]
           ELSE IF cmd[c].new THEN Goto(c, "check")
           ELSE cmd' = [cmd EXCEPT ![c].at = "check", ![c].run = last, ![c].gives = runs[last].options = None]
    /\ UNCHANGED <<runs, locks, native, begun, reported>>

\* The variants are launched without a prompt, from a snapshot of its own that is thrown away.
LaunchCheck(c) ==
    /\ cmd[c].at = "check"
    /\ \/ ~cmd[c].check /\ Goto(c, IF cmd[c].run = None THEN "create" ELSE "open") /\ UNCHANGED <<locks, native>>
       \/ Ends(c)
    /\ UNCHANGED <<runs, begun, reported>>

Create(c) ==
    /\ cmd[c].at = "create" /\ Len(runs) < MaxRuns
    /\ runs' = Append(runs, [experiment |-> cmd[c].experiment, options |-> None, captured |-> 0, graded |-> 0, passed |-> FALSE])
    /\ locks' = Append(locks, None)
    /\ cmd' = [cmd EXCEPT ![c].at = "open", ![c].run = Len(runs) + 1]
    /\ UNCHANGED <<native, begun, reported>>

Open(c) ==
    /\ cmd[c].at = "open"
    /\ IF locks[cmd[c].run] = None
       THEN locks' = [locks EXCEPT ![cmd[c].run] = c] /\ Goto(c, "configure") /\ UNCHANGED native
       ELSE Ends(c)
    /\ UNCHANGED <<runs, begun, reported>>

\* Options are frozen with the first command that opens the run.
Agrees(c) == cmd[c].gives => runs[cmd[c].run].options = cmd[c].options

Configure(c) ==
    /\ cmd[c].at = "configure"
    /\ IF runs[cmd[c].run].options = None
       THEN /\ runs' = [runs EXCEPT ![cmd[c].run].options = cmd[c].options]
            /\ Goto(c, "native") /\ UNCHANGED <<locks, native>>
       ELSE /\ UNCHANGED runs
            /\ IF Agrees(c) THEN Goto(c, "native") /\ UNCHANGED <<locks, native>> ELSE Ends(c)
    /\ UNCHANGED <<begun, reported>>

Acquire(c) ==
    /\ cmd[c].at = "native"
    /\ IF native = None THEN native' = c /\ Goto(c, "capture") /\ UNCHANGED locks ELSE Ends(c)
    /\ UNCHANGED <<runs, begun, reported>>

Capture(c) ==
    /\ cmd[c].at = "capture" /\ runs[cmd[c].run].captured < Trials[cmd[c].experiment]
    /\ runs' = [runs EXCEPT ![cmd[c].run].captured = @ + 1]
    /\ UNCHANGED <<locks, native, cmd, begun, reported>>

\* Both locks are released between capture and assessment.
Captured(c) ==
    /\ cmd[c].at = "capture" /\ runs[cmd[c].run].captured = Trials[cmd[c].experiment]
    /\ Goto(c, "assess") /\ Releases(c)
    /\ UNCHANGED <<runs, begun, reported>>

Assess(c) ==
    /\ cmd[c].at = "assess"
    /\ IF locks[cmd[c].run] = None /\ native = None
       THEN locks' = [locks EXCEPT ![cmd[c].run] = c] /\ native' = c /\ Goto(c, "grade")
       ELSE Ends(c)
    /\ UNCHANGED <<runs, begun, reported>>

Grade(c) ==
    /\ cmd[c].at = "grade" /\ runs[cmd[c].run].graded < runs[cmd[c].run].captured
    /\ \E passed \in BOOLEAN : runs' = [runs EXCEPT ![cmd[c].run].graded = @ + 1, ![cmd[c].run].passed = passed]
    /\ UNCHANGED <<locks, native, cmd, begun, reported>>

Graded(c) ==
    /\ cmd[c].at = "grade" /\ runs[cmd[c].run].graded = runs[cmd[c].run].captured
    /\ Goto(c, "report") /\ Releases(c)
    /\ UNCHANGED <<runs, begun, reported>>

Report(c) ==
    /\ cmd[c].at = "report" /\ Ends(c)
    /\ reported' = reported \cup {[run |-> cmd[c].run, experiment |-> cmd[c].experiment, options |-> cmd[c].options]}
    /\ UNCHANGED <<runs, begun>>

Kill(c) == cmd[c].at \notin {"idle", "pilot", "lookup"} /\ Ends(c) /\ UNCHANGED <<runs, begun, reported>>

Next ==
    \E c \in Commands :
      \/ Begin(c) \/ Pilot(c) \/ Lookup(c) \/ LaunchCheck(c) \/ Create(c) \/ Open(c) \/ Configure(c)
      \/ Acquire(c) \/ Capture(c) \/ Captured(c) \/ Assess(c) \/ Grade(c) \/ Graded(c) \/ Report(c) \/ Kill(c)

Spec == Init /\ [][Next]_vars
-----------------------------------------------------------------------------
\* What a command reports is a finished run of its own experiment, with the budget and the pilot asked for: whatever
\* other commands made of the run that it found.
ReportsAsked ==
    \A done \in reported :
      Finished(done.run) /\ runs[done.run].experiment = done.experiment /\ runs[done.run].options = done.options

\* A command creates a run only when there was none for it when it began, unless asked for a new one.
PaidOnceStep ==
    \A c \in Commands :
      cmd[c].at = "create" /\ Len(runs') > Len(runs) /\ cmd'[c].at = "open" /\ cmd'[c].run = Len(runs') /\ ~cmd[c].new =>
        ~\E r \in 1..cmd[c].began :
           runs[r].experiment = cmd[c].experiment /\ runs[r].options \in {None, cmd[c].options}

\* Every step of a command is so.
PaidOnce == [][PaidOnceStep]_vars
=============================================================================
