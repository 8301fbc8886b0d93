---------------------------- MODULE RunExecution ----------------------------
(***************************************************************************)
(* The crash-safe execution of benchmark runs (runner.py, runner_attempt,  *)
(* runner_recovery, runner_state, native_recovery).  An executor holds one *)
(* run's lock and the store's native lock, stops whatever earlier attempts *)
(* anywhere in the store left running, recovers the interrupted attempts   *)
(* of its run and then makes one new attempt per trial that has none:      *)
(* reserve, set up, launch, interact, stop, capture.                       *)
(*                                                                         *)
(* What the journals say (att, report, unrec) survives a crash; so do the  *)
(* subject's processes (alive).  An executor's own memory (x) does not.    *)
(* Every append is a step of its own, so a crash can fall between any two. *)
(* Native mode is modelled; the offline fixture starts no process.         *)
(***************************************************************************)
EXTENDS Naturals, FiniteSets

CONSTANTS
    Runs, Trials,   \* the runs of the store; the trials of each run
    Ids,            \* attempt identifiers: bounds the attempts of the store
    Procs,          \* executor processes
    Kinds,          \* the kinds of process a trial may start, see below
    NoRun, NoId, NoProc,
    MaxRetries,     \* bound: explicit --retry requests
    MaxFaults       \* bound: crashes, failures and cancellations

ASSUME NamesAssumption == NoRun \notin Runs /\ NoId \notin Ids /\ NoProc \notin Procs
ASSUME KindsAssumption ==
    "daemon" \in Kinds /\ Kinds \subseteq {"setup", "helper", "daemon", "child"}
ASSUME BoundsAssumption == MaxRetries \in Nat /\ MaxFaults \in Nat

VARIABLES
    att,      \* attempt-state and owned-processes events, replayed, per attempt
    report,   \* the last cleanup event of each attempt
    unrec,    \* ExecutionJournal.unreconciled: owned since the last cleanup event
    alive,    \* the processes of each attempt that really run
    valid,    \* whether the frozen inputs of each run still verify
    runLock, native,
    x,        \* what each executor holds in memory
    refused,  \* history: ExecutionJournal.save raised
    asked,    \* history: retries requested per run and trial
    faults

vars == <<att, report, unrec, alive, valid, runLock, native, x, refused, asked, faults>>

-----------------------------------------------------------------------------
\* A setup command forks helpers, the terminal daemon the subject's children.
Parent == [k \in Kinds \cap {"helper", "child"} |-> IF k = "helper" THEN "setup" ELSE "daemon"]

Active == {"reserved", "preparing", "launching", "interacting", "stopping"}
Stages == Active \cup {"none", "captured"}

Transitions ==
    [reserved    |-> {"preparing", "stopping"},
     preparing   |-> {"launching", "stopping"},
     launching   |-> {"interacting", "stopping"},
     interacting |-> {"stopping"},
     stopping    |-> {"captured"},
     captured    |-> {},
     none        |-> {"reserved"}]

\* tried is launch_attempted; launch says that launch.daemon is saved; failed
\* is capture_error; capture is the frozen capture, if any.
Attempt == [run : Runs \cup {NoRun}, trial : SUBSET Trials, stage : Stages, tried : BOOLEAN,
            launch : BOOLEAN, owned : SUBSET Kinds, failed : BOOLEAN,
            capture : {"none", "full", "partial"}]

NoAttempt == [run |-> NoRun, trial |-> {}, stage |-> "none", tried |-> FALSE, launch |-> FALSE,
              owned |-> {}, failed |-> FALSE, capture |-> "none"]

Report   == [known : BOOLEAN, closed : BOOLEAN, stopped : BOOLEAN, errors : BOOLEAN]
NoReport == [known |-> FALSE, closed |-> FALSE, stopped |-> FALSE, errors |-> FALSE]
CleanReport == [known |-> TRUE, closed |-> TRUE, stopped |-> TRUE, errors |-> FALSE]

cleanup_resolved(r) == r.known /\ r.closed /\ r.stopped /\ ~ r.errors

Combine(a, b) == [known |-> TRUE, closed |-> a.closed /\ b.closed,
                  stopped |-> a.stopped /\ b.stopped, errors |-> a.errors \/ b.errors]

Used(r)  == {i \in Ids : att[i].run = r}
Exists   == {i \in Ids : att[i].stage # "none"}
Tried(r) == UNION {att[i].trial : i \in Used(r)}

\* The processes of an attempt that a later executor can find in the journal.
Recorded(i) == att[i].owned \cup IF att[i].launch THEN {"daemon"} ELSE {}

\* The children that a scan of the live processes in known turns up.
Forked(i, known) == {k \in alive[i] \cap DOMAIN Parent : Parent[k] \in known \cap alive[i]}

\* What an owner that was given known stops: those that run, and their children.
Found(i, known) == (known \cap alive[i]) \cup Forked(i, known)

-----------------------------------------------------------------------------
\* An executor that does nothing.
Rest == [pc |-> "idle", run |-> NoRun, visit |-> NoRun, others |-> {}, todo |-> {}, cur |-> NoId,
         seen |-> {}, clean |-> CleanReport, bad |-> FALSE, retry |-> {}, plan |-> {},
         recovering |-> FALSE]

Init ==
    /\ att = [i \in Ids |-> NoAttempt]
    /\ report = [i \in Ids |-> NoReport]
    /\ unrec = {}
    /\ alive = [i \in Ids |-> {}]
    /\ valid = [r \in Runs |-> TRUE]
    /\ runLock = [r \in Runs |-> NoProc]
    /\ native = NoProc
    /\ x = [e \in Procs |-> Rest]
    /\ refused = FALSE
    /\ asked = [r \in Runs |-> [t \in Trials |-> 0]]
    /\ faults = 0

journal == <<att, report, unrec, refused>>
locks   == <<runLock, native>>
world   == <<alive, valid>>

At(e, pc) == x[e].pc = pc
Cur(e) == x[e].cur
Become(e, new) == x' = [x EXCEPT ![e] = new]
Goto(e, pc) == Become(e, [x[e] EXCEPT !.pc = pc])
Fault == faults < MaxFaults /\ faults' = faults + 1

\* ExecutionJournal._validate.
Valid(old, new) ==
    /\ new.stage = old.stage \/ new.stage \in Transitions[old.stage]
    /\ new.run = old.run \/ old.stage = "none"
    /\ old.tried => new.tried
    /\ old.capture # "none" => new.capture = old.capture

\* ExecutionJournal.save: refuse what does not validate, else append it.
Save(i, new) ==
    IF Valid(att[i], new) THEN att' = [att EXCEPT ![i] = new] /\ UNCHANGED refused
                          ELSE refused' = TRUE /\ UNCHANGED att

\* ExecutionJournal.own: append the identities that are new, if any.
Own(i, kinds) ==
    /\ att' = [att EXCEPT ![i].owned = @ \cup kinds]
    /\ unrec' = IF kinds \subseteq att[i].owned THEN unrec ELSE unrec \cup {i}
    /\ UNCHANGED <<report, refused>>

\* ExecutionJournal.evidence of a cleanup event.
Evidence(i, r) ==
    /\ report' = [report EXCEPT ![i] = r]
    /\ unrec' = unrec \ {i}
    /\ UNCHANGED <<att, refused>>

\* The context managers unwind: every lock the executor holds is released.
Leave(e) ==
    /\ runLock' = [r \in Runs |-> IF runLock[r] = e THEN NoProc ELSE runLock[r]]
    /\ native' = IF native = e THEN NoProc ELSE native
    /\ Become(e, Rest)

-----------------------------------------------------------------------------
(* run_experiment: open the run, take the native lock, reconcile the store. *)

Start(e, r, ts) ==
    /\ At(e, "idle") /\ runLock[r] = NoProc
    /\ Cardinality(ts) <= MaxRetries
    /\ \A t \in ts : asked[r][t] < MaxRetries
    /\ runLock' = [runLock EXCEPT ![r] = e]
    /\ asked' = [asked EXCEPT ![r] = [t \in Trials |-> @[t] + IF t \in ts THEN 1 ELSE 0]]
    /\ Become(e, [Rest EXCEPT !.pc = "locked", !.run = r, !.retry = ts])
    /\ UNCHANGED <<journal, world, native, faults>>

TakeNative(e) ==
    /\ At(e, "locked")
    /\ IF native = NoProc
       THEN /\ native' = e
            /\ LET r == x[e].run IN
               Become(e, [x[e] EXCEPT !.pc = "reconcile", !.visit = r, !.others = Runs \ {r},
                                      !.todo = Used(r)])
            /\ UNCHANGED runLock
       ELSE Leave(e)
    /\ UNCHANGED <<journal, world, asked, faults>>

\* reconcile_attempt trusts a resolved report that nothing was owned after;
\* scratch directories an inspection left may still add an error to it.
Trusted(i) == i \notin unrec /\ cleanup_resolved(report[i])

ReconcileTrusted(e, i) ==
    /\ At(e, "reconcile") /\ i \in x[e].todo /\ Trusted(i)
    /\ \/ /\ Become(e, [x[e] EXCEPT !.pc = "restage", !.cur = i, !.clean = report[i]])
          /\ UNCHANGED faults
       \/ /\ Become(e, [x[e] EXCEPT !.pc = "record", !.cur = i,
                                    !.clean = [report[i] EXCEPT !.errors = TRUE]])
          /\ Fault
    /\ UNCHANGED <<journal, world, locks, asked>>

\* Mutant of IdentityKnown: an unobserved launch is taken for no launch.
AssumeKnown(i) == TRUE

\* Whether a later executor can tell what the launch of i left behind.
IdentityKnown(i) == \/ ~ att[i].tried
                    \/ att[i].launch
                    \/ report[i].known /\ report[i].closed

\* Otherwise it stops every recorded identity and what those have forked; some
\* may survive or refuse the signal.
ReconcileKill(e, i) ==
    /\ At(e, "reconcile") /\ i \in x[e].todo /\ ~ Trusted(i)
    /\ \E survivors \in SUBSET Found(i, Recorded(i)) :
         LET known == IdentityKnown(i)
             done  == known /\ survivors = {}
         IN /\ IF survivors = {} THEN UNCHANGED faults ELSE Fault
            /\ alive' = [alive EXCEPT ![i] = @ \ (Found(i, Recorded(i)) \ survivors)]
            /\ Become(e, [x[e] EXCEPT !.pc = "publish", !.cur = i, !.seen = Found(i, Recorded(i)),
                                      !.clean = [known |-> TRUE, closed |-> done,
                                                 stopped |-> done, errors |-> ~ known]])
    /\ UNCHANGED <<journal, valid, locks, asked>>

ReconcilePublish(e) ==
    /\ At(e, "publish")
    /\ Own(Cur(e), x[e].seen)
    /\ Goto(e, "record")
    /\ UNCHANGED <<world, locks, asked, faults>>

ReconcileRecord(e) ==
    /\ At(e, "record")
    /\ Evidence(Cur(e), x[e].clean)
    /\ Goto(e, "restage")
    /\ UNCHANGED <<world, locks, asked, faults>>

\* Mutant of Restage: a captured attempt is moved back too.
RestageAll(e) ==
    /\ At(e, "restage")
    /\ LET i == Cur(e) IN
       /\ Save(i, [att[i] EXCEPT !.stage = "stopping"])
       /\ Become(e, [x[e] EXCEPT !.pc = "reconcile", !.cur = NoId, !.todo = @ \ {i}, !.seen = {},
                                 !.bad = @ \/ ~ cleanup_resolved(x[e].clean),
                                 !.clean = CleanReport])
    /\ UNCHANGED <<report, unrec, world, locks, asked, faults>>

\* reconcile_execution moves an active attempt to stopping.
Restage(e) ==
    /\ At(e, "restage")
    /\ LET i == Cur(e) IN
       /\ IF att[i].stage \in Active THEN Save(i, [att[i] EXCEPT !.stage = "stopping"])
                                     ELSE UNCHANGED <<att, refused>>
       /\ Become(e, [x[e] EXCEPT !.pc = "reconcile", !.cur = NoId, !.todo = @ \ {i}, !.seen = {},
                                 !.bad = @ \/ ~ cleanup_resolved(x[e].clean),
                                 !.clean = CleanReport])
    /\ UNCHANGED <<report, unrec, world, locks, asked, faults>>

\* The run just reconciled was clean: go on with another run under its own
\* lock, or to the inputs after the last.  An unresolved run or a busy lock
\* ends the command.
ReconcileNext(e) ==
    /\ At(e, "reconcile") /\ x[e].todo = {} /\ ~ x[e].bad /\ x[e].others # {}
    /\ \E r \in x[e].others :
         IF runLock[r] # NoProc THEN Leave(e)
         ELSE /\ runLock' = [q \in Runs |-> CASE q = r -> e
                                              [] q = x[e].visit /\ q # x[e].run -> NoProc
                                              [] OTHER -> runLock[q]]
              /\ Become(e, [x[e] EXCEPT !.visit = r, !.others = @ \ {r}, !.todo = Used(r)])
              /\ UNCHANGED native
    /\ UNCHANGED <<journal, world, asked, faults>>

ReconcileDone(e) ==
    /\ At(e, "reconcile") /\ x[e].todo = {}
    /\ IF x[e].bad THEN Leave(e)
       ELSE /\ x[e].others = {}
            /\ runLock' = [q \in Runs |-> IF q = x[e].visit /\ q # x[e].run THEN NoProc
                                                                           ELSE runLock[q]]
            /\ Become(e, [x[e] EXCEPT !.pc = IF valid[x[e].run] THEN "gate" ELSE "invalid",
                                      !.visit = NoRun, !.todo = Used(x[e].run)])
            /\ UNCHANGED native
    /\ UNCHANGED <<journal, world, asked, faults>>

\* The frozen inputs do not load: the stopped attempts are marked, then it ends.
MarkInvalid(e) ==
    /\ At(e, "invalid")
    /\ IF x[e].todo = {} THEN Leave(e) /\ UNCHANGED <<att, refused>>
       ELSE \E i \in x[e].todo :
              /\ IF att[i].stage = "stopping" /\ att[i].capture = "none"
                 THEN Save(i, [att[i] EXCEPT !.failed = TRUE]) ELSE UNCHANGED <<att, refused>>
              /\ Become(e, [x[e] EXCEPT !.todo = @ \ {i}])
              /\ UNCHANGED locks
    /\ UNCHANGED <<report, unrec, world, asked, faults>>

-----------------------------------------------------------------------------
(* _run_trials: recover what was interrupted, then attempt the other trials. *)

Failed(r) == \E i \in Used(r) : att[i].failed

Gate(e) ==
    /\ At(e, "gate")
    /\ IF x[e].retry \subseteq Tried(x[e].run) /\ ~ Failed(x[e].run)
       THEN /\ Become(e, [x[e] EXCEPT !.pc = "recover",
                                      !.plan = (Trials \ Tried(x[e].run)) \cup x[e].retry])
            /\ UNCHANGED locks
       ELSE Leave(e)
    /\ UNCHANGED <<journal, world, asked, faults>>

\* recover_attempt: the attempt is stopping, its report is the trusted one of
\* the reconciliation just made; draining its logs may add an error.
Recover(e, i) ==
    /\ At(e, "recover") /\ i \in x[e].todo /\ att[i].stage \in Active
    /\ Save(i, [att[i] EXCEPT !.stage = "stopping"])
    /\ \E errors \in BOOLEAN :
         /\ IF errors THEN Fault ELSE UNCHANGED faults
         /\ Become(e, [x[e] EXCEPT !.pc = "evidence", !.cur = i, !.recovering = TRUE,
                                   !.todo = @ \ {i},
                                   !.clean = [report[i] EXCEPT !.errors = @ \/ errors]])
    /\ UNCHANGED <<report, unrec, world, locks, asked>>

\* Mutant of Recovered: interrupted attempts may be left for later.
RecoveredSome(e) ==
    /\ At(e, "recover")
    /\ IF Failed(x[e].run) THEN Leave(e)
       ELSE Become(e, [x[e] EXCEPT !.pc = "trials", !.todo = {}]) /\ UNCHANGED locks
    /\ UNCHANGED <<journal, world, asked, faults>>

Recovered(e) ==
    /\ At(e, "recover") /\ \A i \in x[e].todo : att[i].stage \notin Active
    /\ IF Failed(x[e].run) THEN Leave(e)
       ELSE Become(e, [x[e] EXCEPT !.pc = "trials", !.todo = {}]) /\ UNCHANGED locks
    /\ UNCHANGED <<journal, world, asked, faults>>

\* The end of the command: nothing left to attempt, or it was cancelled.  The
\* bound on attempts ends it too.
Finish(e) ==
    /\ At(e, "trials")
    /\ IF x[e].plan = {} \/ Exists = Ids THEN UNCHANGED faults ELSE Fault
    /\ Leave(e)
    /\ UNCHANGED <<journal, world, asked>>

Reserve(e, t) ==
    /\ At(e, "trials") /\ t \in x[e].plan
    /\ \E i \in Ids \ Exists :
         /\ Save(i, [NoAttempt EXCEPT !.run = x[e].run, !.trial = {t}, !.stage = "reserved"])
         /\ Become(e, [x[e] EXCEPT !.pc = "prepare", !.cur = i, !.plan = @ \ {t}, !.seen = {},
                                   !.clean = CleanReport, !.recovering = FALSE])
    /\ UNCHANGED <<report, unrec, world, locks, asked, faults>>

-----------------------------------------------------------------------------
(* TrialExecution.execute.  Whatever fails on the way leads to stop().      *)

Prepare(e) ==
    /\ At(e, "prepare")
    /\ Save(Cur(e), [att[Cur(e)] EXCEPT !.stage = "preparing"])
    /\ Goto(e, "setup")
    /\ UNCHANGED <<report, unrec, world, locks, asked, faults>>

\* _setup starts a command; the journal learns of it only in the next step.
SpawnSetup(e) ==
    /\ At(e, "setup") /\ "setup" \in Kinds
    /\ alive' = [alive EXCEPT ![Cur(e)] = @ \cup {"setup"}]
    /\ Become(e, [x[e] EXCEPT !.pc = "claim", !.seen = {"setup"}])
    /\ UNCHANGED <<journal, valid, locks, asked, faults>>

NoSetup(e) ==
    /\ At(e, "setup")
    /\ Goto(e, "plan")
    /\ UNCHANGED <<journal, world, locks, asked, faults>>

ClaimSetup(e) ==
    /\ At(e, "claim")
    /\ Own(Cur(e), x[e].seen)
    /\ Goto(e, "setting")
    /\ UNCHANGED <<world, locks, asked, faults>>

\* run_command kills what is left of the command, owner.stop the rest.
EndSetup(e) ==
    /\ At(e, "setting")
    /\ LET i == Cur(e) IN
       \E survivors \in SUBSET Found(i, x[e].seen) :
         /\ IF survivors = {} THEN UNCHANGED faults ELSE Fault
         /\ alive' = [alive EXCEPT ![i] = @ \ (Found(i, x[e].seen) \ survivors)]
         /\ Become(e, [x[e] EXCEPT !.pc = "setup_own", !.seen = @ \cup Found(i, @),
                                   !.clean = [CleanReport EXCEPT !.stopped = (survivors = {})]])
    /\ UNCHANGED <<journal, valid, locks, asked>>

OwnSetup(e) ==
    /\ At(e, "setup_own")
    /\ Own(Cur(e), x[e].seen)
    /\ Become(e, [x[e] EXCEPT !.pc = IF x[e].clean.stopped THEN "plan" ELSE "stop", !.seen = {}])
    /\ UNCHANGED <<world, locks, asked, faults>>

LaunchIntent(e) ==
    /\ At(e, "plan")
    /\ Save(Cur(e), [att[Cur(e)] EXCEPT !.stage = "launching", !.tried = TRUE])
    /\ Goto(e, "launch")
    /\ UNCHANGED <<report, unrec, world, locks, asked, faults>>

SpawnDaemon(e) ==
    /\ At(e, "launch")
    /\ alive' = [alive EXCEPT ![Cur(e)] = @ \cup {"daemon"}]
    /\ Goto(e, "spawned")
    /\ UNCHANGED <<journal, valid, locks, asked, faults>>

\* The daemon's identity is read and saved with the attempt, then published.
ObserveLaunch(e) ==
    /\ At(e, "spawned") /\ "daemon" \in alive[Cur(e)]
    /\ Save(Cur(e), [att[Cur(e)] EXCEPT !.launch = TRUE])
    /\ Become(e, [x[e] EXCEPT !.pc = "observed",
                              !.seen = {"daemon"} \cup Forked(Cur(e), {"daemon"})])
    /\ UNCHANGED <<report, unrec, world, locks, asked, faults>>

PublishLaunch(e) ==
    /\ At(e, "observed")
    /\ Own(Cur(e), x[e].seen)
    /\ Goto(e, "started")
    /\ UNCHANGED <<world, locks, asked, faults>>

BeginInteraction(e) ==
    /\ At(e, "started")
    /\ Save(Cur(e), [att[Cur(e)] EXCEPT !.stage = "interacting"])
    /\ Goto(e, "interact")
    /\ UNCHANGED <<report, unrec, world, locks, asked, faults>>

\* The monitor thread notices a fork; a later poll publishes it.
Watching == {"claim", "setting", "observed", "started", "interact"}

Notice(e) ==
    /\ x[e].pc \in Watching /\ ~ Forked(Cur(e), x[e].seen) \subseteq x[e].seen
    /\ Become(e, [x[e] EXCEPT !.seen = @ \cup Forked(Cur(e), @)])
    /\ UNCHANGED <<journal, world, locks, asked, faults>>

Poll(e) ==
    /\ x[e].pc \in {"setting", "started", "interact"} /\ ~ x[e].seen \subseteq att[Cur(e)].owned
    /\ Own(Cur(e), x[e].seen)
    /\ UNCHANGED <<x, world, locks, asked, faults>>

\* The conversation is over.
EndInteraction(e) ==
    /\ At(e, "interact")
    /\ Goto(e, "stop")
    /\ UNCHANGED <<journal, world, locks, asked, faults>>

\* Anything before it raises, or the command is cancelled.  A daemon that died
\* before its identity was read fails the launch.
Raise(e) ==
    /\ \/ x[e].pc \in {"setup", "plan", "launch", "spawned", "observed", "started"} /\ Fault
       \/ At(e, "spawned") /\ "daemon" \notin alive[Cur(e)] /\ UNCHANGED faults
    /\ Goto(e, "stop")
    /\ UNCHANGED <<journal, world, locks, asked>>

-----------------------------------------------------------------------------
(* TrialExecution.stop and capture. *)

BeginStop(e) ==
    /\ At(e, "stop")
    /\ Save(Cur(e), [att[Cur(e)] EXCEPT !.stage = "stopping"])
    /\ Goto(e, "close")
    /\ UNCHANGED <<report, unrec, world, locks, asked, faults>>

\* driver.close: the daemon is closed when it is known to be ours, then the
\* owner stops every process it has seen.  Nothing was started before a launch.
Close(e) ==
    /\ At(e, "close")
    /\ LET i == Cur(e) IN
       \E survivors \in SUBSET Found(i, x[e].seen), quiet \in BOOLEAN :
         LET left   == alive[i] \ (Found(i, x[e].seen) \ survivors)
             closed == quiet /\ (att[i].tried => "daemon" \notin left)
         IN /\ IF survivors = {} /\ quiet THEN UNCHANGED faults ELSE Fault
            /\ alive' = [alive EXCEPT ![i] = left]
            /\ Become(e, [x[e] EXCEPT
                   !.pc = "own", !.seen = @ \cup Found(i, @),
                   !.clean = Combine(@, [known |-> TRUE, closed |-> closed, errors |-> ~ closed,
                                         stopped |-> quiet /\ survivors = {}])])
    /\ UNCHANGED <<journal, valid, locks, asked>>

OwnCleanup(e) ==
    /\ At(e, "own")
    /\ Own(Cur(e), x[e].seen)
    /\ Goto(e, "evidence")
    /\ UNCHANGED <<world, locks, asked, faults>>

RecordCleanup(e) ==
    /\ At(e, "evidence")
    /\ Evidence(Cur(e), x[e].clean)
    /\ Goto(e, "capture")
    /\ UNCHANGED <<world, locks, asked, faults>>

QuiescentTerminal(r) == r.closed  \* mutant: surviving writers are overlooked

Quiescent(r) == r.closed /\ r.stopped

\* Mutant of Capture: the batch goes on after a quarantined capture.
CaptureGoesOn(e) ==
    /\ At(e, "capture")
    /\ \E how \in {"full", "partial", "none"} :
         /\ how = "full" => x[e].clean.closed /\ x[e].clean.stopped
         /\ Save(Cur(e), [att[Cur(e)] EXCEPT !.stage = "captured", !.capture = how,
                                            !.failed = (how = "none")])
         /\ IF how = "none" THEN Fault ELSE UNCHANGED faults
    /\ Become(e, [x[e] EXCEPT !.pc = IF x[e].recovering THEN "recover" ELSE "trials",
                              !.cur = NoId, !.seen = {}, !.clean = CleanReport,
                              !.recovering = FALSE])
    /\ UNCHANGED <<report, unrec, world, asked, locks>>

\* store.put freezes the capture, or quarantines it and blocks the run.  The
\* batch goes on only after a clean attempt.
Capture(e) ==
    /\ At(e, "capture")
    /\ LET i == Cur(e)
           on == [x[e] EXCEPT !.pc = IF x[e].recovering THEN "recover" ELSE "trials",
                              !.cur = NoId, !.seen = {}, !.clean = CleanReport,
                              !.recovering = FALSE]
       IN \/ \E how \in IF Quiescent(x[e].clean) THEN {"full", "partial"} ELSE {"partial"} :
               /\ Save(i, [att[i] EXCEPT !.stage = "captured", !.capture = how])
               /\ IF x[e].recovering \/ Quiescent(x[e].clean) THEN Become(e, on) /\ UNCHANGED locks
                                                             ELSE Leave(e)
               /\ UNCHANGED faults
          \/ /\ Save(i, [att[i] EXCEPT !.stage = "captured", !.failed = TRUE])
             /\ Fault
             /\ IF x[e].recovering THEN Become(e, on) /\ UNCHANGED locks ELSE Leave(e)
    /\ UNCHANGED <<report, unrec, world, asked>>

-----------------------------------------------------------------------------
\* The executor is killed: the kernel drops its locks, its children live on.
Crash(e) ==
    /\ ~ At(e, "idle") /\ Fault
    /\ Leave(e)
    /\ UNCHANGED <<journal, world, asked>>

Fork(i, k) ==
    /\ k \in DOMAIN Parent /\ Parent[k] \in alive[i] /\ k \notin alive[i]
    /\ k \notin att[i].owned  \* bound: one process of each kind per attempt
    /\ alive' = [alive EXCEPT ![i] = @ \cup {k}]
    /\ UNCHANGED <<journal, valid, locks, x, asked, faults>>

Exit(i, k) ==
    /\ k \in alive[i]
    /\ alive' = [alive EXCEPT ![i] = @ \ {k}]
    /\ UNCHANGED <<journal, valid, locks, x, asked, faults>>

\* A frozen object of the run is altered or lost.
Tamper(r) ==
    /\ valid[r] /\ Fault
    /\ valid' = [valid EXCEPT ![r] = FALSE]
    /\ UNCHANGED <<journal, alive, locks, x, asked>>

Resume(e) == \E r \in Runs : \E ts \in SUBSET Trials : Start(e, r, ts)

Reconcile(e) ==
    \/ TakeNative(e) \/ ReconcilePublish(e) \/ ReconcileRecord(e) \/ Restage(e)
    \/ ReconcileNext(e) \/ ReconcileDone(e) \/ MarkInvalid(e)
    \/ \E i \in Ids : ReconcileTrusted(e, i) \/ ReconcileKill(e, i)

Execute(e) ==
    \/ Gate(e) \/ Recovered(e) \/ Finish(e)
    \/ \E i \in Ids : Recover(e, i)
    \/ \E t \in Trials : Reserve(e, t)
    \/ Prepare(e) \/ SpawnSetup(e) \/ NoSetup(e) \/ ClaimSetup(e) \/ EndSetup(e) \/ OwnSetup(e)
    \/ LaunchIntent(e) \/ SpawnDaemon(e) \/ ObserveLaunch(e) \/ PublishLaunch(e)
    \/ BeginInteraction(e) \/ Notice(e) \/ Poll(e) \/ EndInteraction(e) \/ Raise(e)
    \/ BeginStop(e) \/ Close(e) \/ OwnCleanup(e) \/ RecordCleanup(e) \/ Capture(e)

Next ==
    \/ \E e \in Procs : Resume(e) \/ Reconcile(e) \/ Execute(e) \/ Crash(e)
    \/ \E i \in Ids : \E k \in Kinds : Fork(i, k) \/ Exit(i, k)
    \/ \E r \in Runs : Tamper(r)

Spec == Init /\ [][Next]_vars

\* The program goes on while it runs, and whoever runs it resumes every run
\* again and again; that is not the code's doing but what recovery is for.
Fairness ==
    \A e \in Procs :
        /\ WF_vars(Reconcile(e) \/ Execute(e))
        /\ \A r \in Runs : SF_vars(Start(e, r, {}))

FairSpec == Spec /\ Fairness

-----------------------------------------------------------------------------
PcNames == {"idle", "locked", "reconcile", "publish", "record", "restage", "invalid", "gate",
            "recover", "trials", "prepare", "setup", "claim", "setting", "setup_own", "plan",
            "launch", "spawned", "observed", "started", "interact", "stop", "close", "own",
            "evidence", "capture"}

Memory == [pc : PcNames, run : Runs \cup {NoRun}, visit : Runs \cup {NoRun}, others : SUBSET Runs,
           todo : SUBSET Ids, cur : Ids \cup {NoId}, seen : SUBSET Kinds, clean : Report,
           bad : BOOLEAN, retry : SUBSET Trials, plan : SUBSET Trials, recovering : BOOLEAN]

\* Every variable stays in its type.
TypeOK ==
    /\ att \in [Ids -> Attempt] /\ report \in [Ids -> Report] /\ unrec \subseteq Ids
    /\ alive \in [Ids -> SUBSET Kinds] /\ valid \in [Runs -> BOOLEAN]
    /\ runLock \in [Runs -> Procs \cup {NoProc}] /\ native \in Procs \cup {NoProc}
    /\ x \in [Procs -> Memory] /\ refused \in BOOLEAN
    /\ asked \in [Runs -> [Trials -> Nat]] /\ faults \in Nat

\* While a subject's terminal runs, nothing recorded of any other attempt in
\* any run of the store runs, and no other terminal at all, recorded or not.
NoOverlap ==
    \A i, j \in Ids : i # j /\ "daemon" \in alive[i] =>
        alive[j] \cap (Recorded(j) \cup {"daemon"}) = {}

\* The journals alone already say so before a subject is launched.
LaunchStep ==
    \A i, j \in Ids : i # j /\ "daemon" \notin alive[i] /\ "daemon" \in alive'[i]
        /\ att[j].stage # "none" => j \notin unrec /\ report[j].known /\ Quiescent(report[j])

\* A capture that claims a settled workspace was taken when no terminal and no
\* recorded writer of the attempt was running.
CaptureStep ==
    \A i \in Ids : att[i].capture = "none" /\ att'[i].capture = "full" =>
        alive[i] \cap (Recorded(i) \cup {"daemon"}) = {}

\* However often a run is resumed, a trial is attempted again only on request.
RetryOnRequest ==
    \A r \in Runs : \A t \in Trials :
        Cardinality({i \in Used(r) : t \in att[i].trial}) <= 1 + asked[r][t]

\* No two subjects run at once, and no trial is attempted again unasked.
SubjectsApart == NoOverlap /\ RetryOnRequest

\* A subject is launched, and a settled workspace captured, only when the
\* processes of every earlier attempt are accounted for.
LaunchedAndCapturedQuiet == [][LaunchStep /\ CaptureStep]_vars

\* After a quarantined capture or inputs that failed to verify, a run launches
\* nothing more.
NoLaunchAfterFailure ==
    [][\A i \in Ids : "daemon" \notin alive[i] /\ "daemon" \in alive'[i] => ~ Failed(att[i].run)]_vars

\* No interleaving of crashes and resumes makes the runner save a state that
\* the journal's own lifecycle check refuses.
NeverRefused == ~ refused

\* A reconciliation found a launch whose terminal was never identified.
Stuck == \E i \in Ids : report[i].known /\ ~ IdentityKnown(i)

\* Once failures stop, every attempt ends captured or marked failed, unless an
\* unobserved launch blocks the store.
AttemptsSettle ==
    \A i \in Ids : att[i].stage # "none" ~> att[i].stage = "captured" \/ att[i].failed \/ Stuck
=============================================================================
