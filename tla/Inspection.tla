---------------------------- MODULE Inspection ----------------------------
(***************************************************************************)
(* One attempt's inspections (TrialExecution._inspect, inspect_workspace): *)
(* the workspace of a subject that may still be at work is captured into a *)
(* private directory, each fact is checked by its verifier or judged, and  *)
(* the verdicts stand only when no event of the subject arrived meanwhile. *)
(* The private directory goes when nothing writes in it any more, in the   *)
(* inspection itself, when it is cut short, or in the recovery of the run  *)
(* (inspection_scratch, native_recovery).                                  *)
(***************************************************************************)
EXTENDS Naturals, FiniteSets

CONSTANTS
    Verified, Judged,   \* the graded facts with a verifier and without one
    Verdicts,           \* those that a call may give: unclear and others
    MaxInspections,     \* bound
    MaxWrites,          \* bound: what the subject still does
    MaxFaults           \* bound: surviving processes, failed file operations, crashes


VARIABLES
    files,      \* the version of the workspace
    log,        \* events in the subject's native log; a write may be logged later
    read,       \* driver.events
    stop,       \* request.cancelled, or its deadline has passed
    working,    \* the worker is alive and its attempt goes on
    i,          \* the inspection
    n,          \* inspections begun
    named,      \* private directories in the journal's intents
    dirs,       \* private directories that exist
    records,    \* cleanup records in the private directories
    alive,      \* verifier and judge processes
    owned,      \* those in the attempt's journal
    resolved,   \* the attempt's last cleanup report is resolved, and nothing was owned since
    inspected,  \* TrialExecution.inspected
    faults

subject == <<files, log>>
scratch == <<named, dirs, records>>
procs == <<alive, owned, resolved>>
vars == <<files, log, read, stop, working, i, n, scratch, procs, inspected, faults>>

InspectionAttempts == 2   \* INSPECTION_ATTEMPTS
SnapshotAttempts   == 2   \* SNAPSHOT_ATTEMPTS
JudgeAttempts      == 2   \* JUDGE_ATTEMPTS
CleanupErrors      == {"judge_cleanup_failed", "verifier_cleanup_failed"}
Facts              == Verified \cup Judged
NoVerdicts         == [f \in Facts |-> "none"]

\* seen: the events counted before; input: what the verdicts are of; asked: the facts of the call under way;
\* answer: what it said; survives: its cleanup was not confirmed.
Idle == [pc |-> "idle", dir |-> <<0, 0>>, seen |-> 0, files |-> 0, input |-> <<0, 0>>, tries |-> 0, calls |-> 0,
         stage |-> "verify", asked |-> {}, answer |-> NoVerdicts, survives |-> FALSE,
         verdicts |-> NoVerdicts, error |-> "none"]

Init ==
    /\ files = 0 /\ log = 0 /\ read = 0 /\ stop = "none" /\ working = TRUE
    /\ i = Idle /\ n = 0
    /\ named = {} /\ dirs = {} /\ records = {}
    /\ alive = {} /\ owned = {} /\ resolved = FALSE
    /\ inspected = {} /\ faults = 0

At(pc) == working /\ i.pc = pc
Fault == faults < MaxFaults /\ faults' = faults + 1
Fails(error) == [i EXCEPT !.pc = "clean", !.error = error]
Writer == <<i.dir, i.calls>>   \* the process of the last call
----------------------------------------------------------------------------
\* The subject, and the user.

Write == files < MaxWrites /\ files' = files + 1
         /\ UNCHANGED <<log, read, stop, working, i, n, scratch, procs, inspected, faults>>

Logged == log < files /\ log' = files
          /\ UNCHANGED <<files, read, stop, working, i, n, scratch, procs, inspected, faults>>

Interrupt == /\ working /\ stop = "none" /\ stop' \in {"cancelled", "deadline_exhausted"}
             /\ UNCHANGED <<subject, read, working, i, n, scratch, procs, inspected, faults>>

Exits(p) == p \in alive /\ alive' = alive \ {p}
            /\ UNCHANGED <<subject, read, stop, working, i, n, scratch, owned, resolved,
                           inspected, faults>>
----------------------------------------------------------------------------
\* TrialExecution._inspect.

\* Both private paths are in the journal before either exists.
Intent(k) == {<<k, a>> : a \in 1..InspectionAttempts}

Begin ==
    /\ At("idle") /\ n < MaxInspections
    /\ n' = n + 1 /\ named' = named \cup Intent(n + 1)
    /\ i' = [Idle EXCEPT !.pc = "observe", !.dir = <<n + 1, 1>>]
    /\ UNCHANGED <<subject, read, stop, working, dirs, records, procs, inspected, faults>>

Observe ==
    /\ At("observe")
    /\ read' = log
    /\ dirs' = dirs \cup {i.dir}
    /\ i' = [i EXCEPT !.pc = "snapshot", !.seen = log]
    /\ UNCHANGED <<subject, stop, working, n, named, records, procs, inspected, faults>>

\* capture_workspace walks the tree while the subject may write in it: it takes
\* a version between the first and the last, or is incomplete.
Snapshot ==
    /\ At("snapshot")
    /\ i' = IF stop # "none" THEN Fails(stop)
            ELSE [i EXCEPT !.pc = "capture", !.files = files, !.tries = @ + 1]
    /\ UNCHANGED <<subject, read, stop, working, n, scratch, procs, inspected, faults>>

Capture ==
    /\ At("capture")
    /\ \/ i' = IF i.tries < SnapshotAttempts THEN [i EXCEPT !.pc = "snapshot"]
               ELSE Fails("snapshot_unavailable")
       \/ stop # "none" /\ i' = Fails(stop)
       \/ /\ stop = "none"
          /\ \E v \in i.files..files : i' = [i EXCEPT !.pc = "reuse", !.files = v, !.tries = 0]
    /\ UNCHANGED <<subject, read, stop, working, n, scratch, procs, inspected, faults>>

\* input_digest: the captured workspace, the transcript and the facts.
SameInput(old) == old.input = <<i.files, read>>

\* The verdicts of a completed inspection of the same input are used again.
Reuse ==
    /\ At("reuse")
    /\ LET same == {old \in inspected : SameInput(old)} IN
       IF same # {}
       THEN \E old \in same : i' = [i EXCEPT !.pc = "clean", !.input = old.input,
                                               !.verdicts = old.verdicts]
       ELSE i' = [i EXCEPT !.pc = "next", !.input = <<i.files, read>>]
    /\ UNCHANGED <<subject, read, stop, working, n, scratch, procs, inspected, faults>>
----------------------------------------------------------------------------
\* Calls of verifiers and of the judge.

Unsettled(fs) == {f \in fs : i.verdicts[f] = "none"}
Unclear == {f \in Judged : i.verdicts[f] = "unclear"}

\* The facts that the next call may be about: verifiers one by one, then the
\* judge on all of the rest, then once more on what it left unclear.
Questions ==
    CASE i.stage = "verify" /\ Unsettled(Verified) # {} -> {{f} : f \in Unsettled(Verified)}
      [] i.stage = "verify" /\ Unsettled(Verified) = {} -> {Unsettled(Judged)}
      [] i.stage = "judge"                              -> {Unsettled(Judged)}
      [] i.stage = "rejudge"                            -> {IF stop = "none" THEN Unclear ELSE {}}

Stage == IF i.stage = "verify" /\ Unsettled(Verified) = {} THEN "judge" ELSE i.stage

\* _available: every call but the re-judge finds the inspection cut short.
Launch ==
    /\ At("next")
    /\ \E asked \in Questions :
         \/ asked = {} /\ i' = [i EXCEPT !.pc = "clean"] /\ UNCHANGED alive
         \/ /\ asked # {} /\ stop # "none" /\ i.stage # "rejudge"
            /\ i' = Fails(stop) /\ UNCHANGED alive
         \/ /\ asked # {} /\ stop = "none" /\ Stage = "judge" /\ i.tries = JudgeAttempts
            /\ i' = Fails("judge_unavailable") /\ UNCHANGED alive
         \/ /\ asked # {} /\ stop = "none" /\ ~ (Stage = "judge" /\ i.tries = JudgeAttempts)
            /\ i' = [i EXCEPT !.pc = "own", !.stage = Stage, !.asked = asked, !.calls = @ + 1,
                              !.tries = IF Stage = "judge" THEN @ + 1 ELSE @]
            /\ alive' = alive \cup {<<i.dir, i.calls + 1>>}
    /\ UNCHANGED <<subject, read, stop, working, n, scratch, owned, resolved, inspected, faults>>

\* on_identities: the attempt's journal names the process, and its last
\* cleanup report no longer counts.
Own ==
    /\ At("own")
    /\ owned' = owned \cup {Writer} /\ resolved' = FALSE
    /\ i' = [i EXCEPT !.pc = "calling"]
    /\ UNCHANGED <<subject, read, stop, working, n, scratch, alive, inspected, faults>>

\* The call ends, its processes are stopped, or not all of them, and the report
\* on them is kept beside its evidence.  A cancelled verifier ends the attempt.
CallEnds ==
    /\ At("calling")
    /\ \E answer \in {NoVerdicts} \cup [i.asked -> Verdicts] :
       \E survives \in IF Writer \in alive /\ faults < MaxFaults THEN BOOLEAN ELSE {FALSE} :
         /\ i.stage = "verify" => answer # NoVerdicts
         /\ alive' = IF survives THEN alive ELSE alive \ {Writer}
         /\ faults' = IF survives THEN faults + 1 ELSE faults
         /\ records' = records \cup {[of |-> Writer, stopped |-> ~ survives]}
         /\ i' = [i EXCEPT !.pc = IF i.stage = "verify" /\ stop = "cancelled" THEN "abort"
                                  ELSE "retain",
                           !.answer = [f \in Facts |-> IF f \in DOMAIN answer THEN answer[f]
                                                       ELSE "none"],
                           !.survives = survives]
    /\ UNCHANGED <<subject, read, stop, working, n, named, dirs, owned, resolved, inspected>>

\* The verdicts of a call, merged into those there are; a judge must answer
\* every fact, a re-judge replaces what it answers.
Settled ==
    LET answered == {f \in i.asked : i.answer[f] # "none"}
        next == [i EXCEPT !.pc = "next", !.answer = NoVerdicts, !.asked = {},
                          !.verdicts = [f \in Facts |-> IF f \in answered THEN i.answer[f]
                                                        ELSE @[f]]] IN
    CASE i.stage = "verify"  -> next
      [] i.stage = "judge"   -> IF answered = i.asked THEN [next EXCEPT !.stage = "rejudge"]
                                ELSE [next EXCEPT !.verdicts = i.verdicts]
      [] i.stage = "rejudge" -> [next EXCEPT !.pc = "clean"]

\* _retain copies the evidence of the call first, and an error of the copy is
\* the error of the inspection whatever became of the processes.
Retain ==
    /\ At("retain")
    /\ \/ i' = Fails("OSError") /\ Fault
       \/ /\ i' = IF i.survives
                  THEN Fails(IF i.stage = "verify" THEN "verifier_cleanup_failed"
                             ELSE "judge_cleanup_failed")
                  ELSE Settled
          /\ UNCHANGED faults
       \/ /\ i.stage = "verify" /\ ~ i.survives /\ i' = Fails("harness_error") /\ UNCHANGED faults
    /\ UNCHANGED <<subject, read, stop, working, n, scratch, procs, inspected>>
----------------------------------------------------------------------------
\* The private directory, and the verdicts.

\* Mutant of StoppedIn: the reports are not read.
NotRead(dir) == TRUE

\* writers_confirmed_stopped without a look at the processes.
StoppedIn(dir) == \A r \in records : r.of[1] = dir => r.stopped

Leaves == working' = FALSE /\ i' = Idle

\* An exception that ends the attempt.
Abort ==
    /\ At("abort")
    /\ dirs' = IF StoppedIn(i.dir) THEN dirs \ {i.dir} ELSE dirs
    /\ Leaves
    /\ UNCHANGED <<subject, read, stop, n, named, records, procs, inspected, faults>>

Clean ==
    /\ At("clean")
    /\ \/ i.error \in CleanupErrors /\ i' = [i EXCEPT !.pc = "after"] /\ UNCHANGED <<dirs, faults>>
       \/ /\ i.error \notin CleanupErrors
          /\ dirs' = dirs \ {i.dir} /\ i' = [i EXCEPT !.pc = "after"] /\ UNCHANGED faults
       \/ /\ i.error \notin CleanupErrors /\ Fault
          /\ i' = [i EXCEPT !.pc = "after",
                            !.error = IF @ = "none" THEN "inspection_cleanup_failed" ELSE @]
          /\ UNCHANGED dirs
    /\ UNCHANGED <<subject, read, stop, working, n, named, records, procs, inspected>>

\* The subject's events are read again: with new ones the inspection is made
\* again, once.
After ==
    /\ At("after")
    /\ read' = log
    /\ \/ /\ log = i.seen /\ i.error = "none"
          /\ inspected' = inspected \cup {[number |-> n, input |-> i.input, verdicts |-> i.verdicts]}
          /\ i' = Idle /\ UNCHANGED working
       \/ /\ log # i.seen /\ i.dir[2] < InspectionAttempts
          /\ i' = [Idle EXCEPT !.pc = "observe", !.dir = <<n, i.dir[2] + 1>>]
          /\ UNCHANGED <<working, inspected>>
       \/ /\ IF log = i.seen THEN i.error # "none" ELSE i.dir[2] = InspectionAttempts
          /\ Leaves /\ UNCHANGED inspected
    /\ UNCHANGED <<subject, stop, n, scratch, procs, faults>>

Crash == working /\ Leaves /\ Fault
         /\ UNCHANGED <<subject, read, stop, n, scratch, procs, inspected>>
----------------------------------------------------------------------------
\* reconcile_attempt, at the next start of the run.

StopOwned ==
    /\ ~ working /\ ~ resolved
    /\ \E surviving \in SUBSET (owned \cap alive) :
         /\ alive' = alive \ (owned \ surviving)
         /\ resolved' = (surviving = {})
         /\ faults' = faults + Cardinality(surviving) /\ faults' <= MaxFaults
    /\ UNCHANGED <<subject, read, stop, working, i, n, scratch, owned, inspected>>

\* reconcile_inspection_scratch: a directory goes once every recorded process
\* is reported stopped or has exited since.
Sweep(dir) ==
    /\ ~ working /\ resolved
    /\ dir \in dirs \cap named
    /\ \A r \in records : r.of[1] = dir => r.stopped \/ r.of \notin alive
    /\ dirs' = dirs \ {dir}
    /\ UNCHANGED <<subject, read, stop, working, i, n, named, records, procs, inspected, faults>>

Next ==
    \/ Write \/ Logged \/ Interrupt \/ \E p \in alive : Exits(p)
    \/ Begin \/ Observe \/ Snapshot \/ Capture \/ Reuse \/ Launch \/ Own \/ CallEnds \/ Retain
    \/ Abort \/ Clean \/ After \/ Crash
    \/ StopOwned \/ \E dir \in dirs : Sweep(dir)

Spec == Init /\ [][Next]_vars
----------------------------------------------------------------------------
\* The verdicts that an inspection ends with are of a workspace of its own time
\* and of a transcript with every event of the subject's log when it ended; each
\* fact has one, and two inspections of the same input agree.
FreshStep ==
    \A new \in inspected' \ inspected :
        /\ new.input = <<i.files, log>>
        /\ \A f \in Facts : new.verdicts[f] # "none"
        /\ \A old \in inspected : old.input = new.input => old.verdicts = new.verdicts

\* An inspection cut short and the recovery of its run leave a private
\* directory in place while a process that the journal names, and that was not
\* seen to stop, may write in it.
QuietStep == (At("abort") \/ ~ working) => \A dir \in dirs \ dirs' : \A p \in owned \cap alive : p[1] # dir

\* Every step of the subject, of inspections and of recovery is both.
InspectionSound == [][FreshStep /\ QuietStep]_vars

\* The same of every inspection: one whose verifier or judge could not be
\* stopped leaves its private directory in place.
ScratchKept == [][\A dir \in dirs \ dirs' : \A p \in owned \cap alive : p[1] # dir]_vars
=============================================================================
