------------------------------ MODULE CaseMetrics ------------------------------
(* A case's metrics commands (case_metrics.py, _measure of assessments.py): each *)
(* is run once over all sessions, beside a copy of the baseline whose entries    *)
(* are made read-only, by device and inode, while it runs. The command runs      *)
(* subject code: it may replace the entries, change the hidden inputs, leave     *)
(* processes behind, write too much. What it reports counts when all went well.  *)
EXTENDS Naturals, FiniteSets

CONSTANTS
    Commands,     \* how many the case has
    Depth,        \* the baseline's entries 1..Depth, each in the one before; 1 holds the workspace
    MaxFaults,    \* bound on failing steps
    MaxTouches,   \* bound on what subject code does to the baseline and the hidden inputs
    MaxSessions   \* bound on sessions that are cut off

VARIABLES
    at, number,   \* the step, and which command
    intents, saved,      \* journaled: of which commands the intents, and the results
    work,                \* the command under way: what is known of it
    there, writable,     \* at each path of the baseline: "own" or something else; whether it can be written
    locked,              \* the entries that were locked
    hidden, cancelled,   \* the hidden inputs; whether the session was asked to stop
    faults, touches, sessions

vars == <<at, number, intents, saved, work, there, writable, locked, hidden, cancelled, faults, touches, sessions>>

Paths == 1..Depth
NotRun == [ran |-> FALSE, ending |-> "none", code |-> 0, output |-> "none", failure |-> "none",
           cleanup |-> "none", watch |-> "none", error |-> "none", values |-> FALSE]
Whole == [p \in Paths |-> "own"]
Open == [p \in Paths |-> TRUE]
Interrupted == [NotRun EXCEPT !.error = "interrupted_metrics"]

Init ==
    /\ at = "next" /\ number = 1 /\ intents = {} /\ saved = [c \in {} |-> 0] /\ work = NotRun
    /\ there = Whole /\ writable = Open /\ locked = {} /\ hidden = "none"
    /\ cancelled = FALSE /\ faults = 0 /\ touches = 0 /\ sessions = 0

Fault == faults < MaxFaults /\ faults' = faults + 1
NoFault == UNCHANGED faults
Fresh == work' = NotRun /\ there' = Whole /\ writable' = Open /\ locked' = {} /\ hidden' = "none"
Journal == <<number, intents, saved>>
Baseline == <<there, writable, locked>>
Bounds == <<touches, sessions>>

-----------------------------------------------------------------------------
(* The case's commands, in order. *)

Onward == number' = number + 1 /\ at' = "next"

Known ==
    /\ at = "next" /\ number <= Commands /\ ~cancelled
    /\ number \in DOMAIN saved /\ Onward
    /\ UNCHANGED <<intents, saved, work, Baseline, hidden, cancelled, faults, Bounds>>

\* An intent without a result: the command may have run.
Spent ==
    /\ at = "next" /\ number <= Commands /\ ~cancelled
    /\ number \notin DOMAIN saved /\ number \in intents
    /\ at' = "record" /\ work' = Interrupted
    /\ UNCHANGED <<Journal, Baseline, hidden, cancelled, faults, Bounds>>

Intend ==
    /\ at = "next" /\ number <= Commands /\ ~cancelled
    /\ number \notin DOMAIN saved /\ number \notin intents
    /\ intents' = intents \cup {number} /\ at' = "prepare"
    /\ UNCHANGED <<number, saved, work, Baseline, hidden, cancelled, faults, Bounds>>

-----------------------------------------------------------------------------
(* One command. *)

Failed(w) == [w EXCEPT !.error = "failed", !.values = FALSE]

\* The directory, the evidence, the two copies.
Prepare ==
    /\ at = "prepare"
    /\ \/ NoFault /\ at' = "lock" /\ UNCHANGED work
       \/ Fault /\ at' = "restore" /\ work' = Failed(work)
    /\ UNCHANGED <<Journal, Baseline, hidden, cancelled, Bounds>>

\* _set_writable passes over what is not the entry that was locked, and what cannot be changed.
AnyInode(items) == items             \* whatever is at the path by now
OfTheInode(items) == {p \in items : there[p] = "own"}
Settable(items) == OfTheInode(items)
SetWritable(items, unable, value) ==
    writable' = [p \in Paths |-> IF p \in Settable(items) \ unable THEN value ELSE writable[p]]
Skipped(items, unable) == items \ (Settable(items) \ unable)

Unable(items, unable) == unable \subseteq items /\ IF unable = {} THEN NoFault ELSE Fault

Lock ==
    /\ at = "lock" /\ locked' = Paths
    /\ \E unable \in SUBSET Paths :
         /\ Unable(Paths, unable) /\ SetWritable(Paths, unable, FALSE)
         /\ IF Skipped(Paths, unable) = {} THEN at' = "hide" /\ UNCHANGED work
            ELSE at' = "restore" /\ work' = Failed(work)
    /\ UNCHANGED <<Journal, there, hidden, cancelled, Bounds>>

\* The directory of the output is made, and the hidden inputs are written and compared.
Hide ==
    /\ at = "hide"
    /\ \/ NoFault /\ hidden' = "intact" /\ at' = "run" /\ UNCHANGED work
       \/ Fault /\ hidden' \in {"none", "partial"} /\ at' = "restore" /\ work' = Failed(work)
    /\ UNCHANGED <<Journal, Baseline, cancelled, Bounds>>

\* A session that was asked to stop starts no command; one that is asked meanwhile ends it.
Refrain ==
    /\ at = "run" /\ cancelled /\ at' = "cleanup"
    /\ UNCHANGED <<Journal, work, Baseline, hidden, cancelled, faults, Bounds>>

\* By itself, with a status or by a signal (2); or stopped at its deadline or its limit of output.
Endings == {<<"exited", 0>>, <<"exited", 1>>, <<"exited", 2>>, <<"stopped", 2>>}
Outputs == {"absent", "good", "bad", "over"}

\* The command, its environment or its executable cannot be had; or it runs, and ends somehow.
Start ==
    /\ at = "run" /\ ~cancelled
    /\ \/ NoFault /\ at' = "running" /\ work' = [work EXCEPT !.ran = TRUE]
       \/ Fault /\ at' = "cleanup" /\ work' = [work EXCEPT !.failure = "failed"]
    /\ UNCHANGED <<Journal, Baseline, hidden, cancelled, Bounds>>

\* Its files exceed their limits: the watch notes it and stops the command.
Watch ==
    /\ at \in {"running", "cleanup"} /\ work.ran /\ work.watch = "none" /\ Fault
    /\ work' = [work EXCEPT !.watch = "limit"]
    /\ UNCHANGED <<at, Journal, Baseline, hidden, cancelled, Bounds>>

\* A stream that cannot be kept is a failure, whatever the command did.
End ==
    /\ at = "running" /\ at' = "cleanup"
    /\ \E ending \in Endings, output \in Outputs :
         LET ended == [work EXCEPT !.ending = ending[1], !.code = ending[2], !.output = output] IN
         \/ NoFault /\ work' = ended
         \/ Fault /\ work' = [ended EXCEPT !.failure = "failed"]
    /\ UNCHANGED <<Journal, Baseline, hidden, cancelled, Bounds>>

\* The processes are stopped, or not all, and the report is kept, or not, which ends the execution.
Cleanup ==
    /\ at = "cleanup"
    /\ \/ NoFault /\ at' = "read" /\ work' = [work EXCEPT !.cleanup = "stopped"]
       \/ Fault /\ at' = "read" /\ work' = [work EXCEPT !.cleanup = "unresolved"]
       \/ Fault /\ at' = "restore" /\ \E how \in {"stopped", "unresolved"} : work' = [Failed(work) EXCEPT !.cleanup = how]
    /\ UNCHANGED <<Journal, Baseline, hidden, cancelled, Bounds>>

\* _outcome, and _result over it.
Outcome(w) ==
    IF w.failure # "none" THEN w.failure
    ELSE IF w.ending # "exited" \/ w.code # 0 THEN "process"
    ELSE IF w.output = "absent" THEN "no_output" ELSE IF w.output = "bad" THEN "violates" ELSE "none"
Result(w) ==
    IF w.cleanup = "unresolved" THEN "metrics_cleanup_failed"
    ELSE IF w.watch # "none" THEN "limits" ELSE Outcome(w)

\* The output is read whether the command failed or not; what cannot be read is a failure unless there is one.
Read ==
    /\ at = "read" /\ at' = "restore"
    /\ LET known == [work EXCEPT !.failure = IF work.failure = "none" THEN "failed" ELSE work.failure]
           concluded(w) == [w EXCEPT !.error = Result(w), !.values = Result(w) = "none"]
       IN  \/ cancelled /\ NoFault /\ UNCHANGED work
           \/ ~cancelled /\ work.output # "over" /\ NoFault /\ work' = concluded(work)
           \/ ~cancelled /\ work.output = "over" /\ NoFault /\ work' = concluded(known)
           \/ ~cancelled /\ work.output # "over" /\ Fault /\ work' = concluded(known)
    /\ UNCHANGED <<Journal, Baseline, hidden, cancelled, Bounds>>

\* A session that was asked to stop before its command was over has no result, but restores the baseline as well.
Stops == cancelled /\ work.cleanup # "none" /\ work.error = "none" /\ ~work.values

Changed(w, error) == [w EXCEPT !.error = error, !.values = FALSE]

Restore ==
    /\ at = "restore"
    /\ \E unable \in SUBSET locked :
         /\ Unable(locked, unable) /\ SetWritable(locked, unable, TRUE)
         /\ work' = IF Skipped(locked, unable) = {} THEN work ELSE Changed(work, "metrics_baseline_changed")
    /\ at' = IF Stops THEN "stopped" ELSE "recheck"
    /\ UNCHANGED <<Journal, there, locked, hidden, cancelled, Bounds>>

\* Hidden inputs that are not there yet are written now.
Recheck ==
    /\ at = "recheck" /\ at' = "record"
    /\ \/ hidden \in {"none", "intact"} /\ NoFault /\ hidden' = "intact" /\ UNCHANGED work
       \/ hidden \in {"none", "intact"} /\ Fault /\ UNCHANGED hidden /\ work' = Changed(work, "hidden_metrics_input_changed")
       \/ hidden \in {"partial", "changed"} /\ NoFault /\ UNCHANGED hidden /\ work' = Changed(work, "hidden_metrics_input_changed")
    /\ UNCHANGED <<Journal, Baseline, cancelled, Bounds>>

Record ==
    /\ at = "record" /\ Onward
    /\ saved' = [c \in DOMAIN saved \cup {number} |-> IF c = number THEN [values |-> work.values, error |-> work.error] ELSE saved[c]]
    /\ Fresh      \* each command has a directory of its own
    /\ UNCHANGED <<intents, cancelled, faults, Bounds>>

-----------------------------------------------------------------------------
(* Subject code, the user, and sessions that are cut off. *)

\* The processes of a command: while it runs, and after it when they could not be stopped.
Alive == at = "running" \/ (at \in {"read", "restore", "recheck"} /\ work.cleanup = "unresolved")

\* An entry is replaced, with all that is in it; or its mode is set, as its owner may.
Touch ==
    /\ Alive /\ touches < MaxTouches /\ touches' = touches + 1
    /\ \/ \E p \in Paths, what \in {"other", "gone"} :
            /\ there' = [q \in Paths |-> IF q < p THEN there[q] ELSE IF q = p THEN what ELSE "gone"]
            /\ UNCHANGED <<writable, hidden>>
       \/ \E p \in Paths : there[p] = "own" /\ writable' = [writable EXCEPT ![p] = ~@] /\ UNCHANGED <<there, hidden>>
       \/ hidden' = "changed" /\ UNCHANGED <<there, writable>>
    /\ UNCHANGED <<at, Journal, work, locked, cancelled, faults, sessions>>

Cancel ==
    /\ ~cancelled /\ sessions < MaxSessions /\ number <= Commands /\ at # "stopped" /\ cancelled' = TRUE
    /\ UNCHANGED <<at, Journal, work, Baseline, hidden, faults, Bounds>>

\* A session that stopped, or died anywhere, is followed by one that starts over with what is journaled.
Session ==
    /\ sessions < MaxSessions /\ number <= Commands /\ sessions' = sessions + 1
    /\ at' = "next" /\ number' = 1 /\ cancelled' = FALSE /\ Fresh
    /\ UNCHANGED <<intents, saved, faults, touches>>

Next ==
    \/ Known \/ Spent \/ Intend \/ Prepare \/ Lock \/ Hide \/ Refrain \/ Start \/ Watch \/ End \/ Cleanup
    \/ Read \/ Restore \/ Recheck \/ Record \/ Touch \/ Cancel \/ Session

Spec == Init /\ [][Next]_vars
-----------------------------------------------------------------------------
\* What values rest on: the command ran, exited with status 0, wrote what the contract asks for within its limits,
\* and was cleaned up.
Earned(w) ==
    /\ w.ran /\ w.ending = "exited" /\ w.code = 0 /\ w.output = "good" /\ w.failure = "none"
    /\ w.cleanup = "stopped" /\ w.watch = "none" /\ w.error = "none"

\* What is reported was earned, in a baseline whose entries were all locked and are all in their place, beside hidden
\* inputs that are what they were; a result says why there are no values; and unless the result says so, or processes
\* that may do so are left, no entry of the baseline is missing or still read-only.
MetricsSound ==
    /\ \A c \in DOMAIN saved : c \in intents /\ (saved[c].values <=> saved[c].error = "none")
    /\ at = "record" /\ work.values => Earned(work) /\ locked = Paths /\ there = Whole /\ hidden = "intact"
    /\ at \in {"stopped", "record"} /\ work.cleanup # "unresolved"
         /\ work.error \notin {"metrics_baseline_changed", "hidden_metrics_input_changed"} =>
         \A p \in locked : there[p] = "own" /\ writable[p]
=============================================================================
