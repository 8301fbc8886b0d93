# A verification project for dryheave

dryheave benchmarks coding agents. It freezes cases, profiles and experiments as
content-addressed objects, runs each trial of an experiment by driving a real agent in a
terminal, with a language model standing in for the user, captures what the agent left behind,
and has judges and verifiers assess the captures. Everything it learns goes to one append-only
journal per run, because a run takes hours, spends money and must survive being killed at any
point: a resumed run must not attempt a trial twice, must not run two agents at once, must not
take a half-stopped agent's workspace for a result, and must not lose or invent an answer.

This directory holds TLA+ models of the parts that carry that promise, the TLC runs that check
them on small instances, and proofs that TLAPS checks for every instance. `PROJECT.json` lists the
components, runs, mutants, theorems and hazards, and maps each definition to the lines that it
models. Paths below are relative to the Python package `src/src/dryheave/`.

## The system: inventory

| Component | State it keeps | What is hard about it | Modules |
| --- | --- | --- | --- |
| Run journal (`journals.py`, `filesystem.py`) | `events.jsonl`, a hash chain of lines; `checkpoint.json`, `result.json`; `torn-*.bin`; a lock file | torn and unsynced lines, failed writes, files that get out of step across a power loss, readers during writes | `RunJournal`, `RunJournalProofs` |
| Run execution (`runner.py`, `runner_state.py`, `runner_attempt.py`, `native_recovery.py`) | per attempt: stage, launch, owned processes, cleanup report, capture; the run locks and the store's native lock | crashes between any two records, processes that outlive the runner, two runners on one store | `RunExecution`, `RunExecutionProofs` |
| Interaction (`runner_attempt.py`, `workflow.py`) | position in the workflow, pending step or fix, accepted turns, calls, inspections, stop reason | acceptance that arrives late, screens that change under a key, budgets, interruption | `Interaction`, `CaseWorkflow`, `InteractionProofs` |
| Driver session (`drivers/`) | cursors in the agent's logs, submission, dialog focus, usage ledger | an unacknowledged key, the log trailing the screen, half lines, an agent that goes on after its turn | `DialogAnswer`, `ClaudeTurns`, `NativeLog`, `UsageAccount`, `AttemptProofs` |
| Controllers and process ownership (`controllers.py`, `controller_runtime.py`, `process_ownership.py`, `processes.py`, `drivers/auth.py`) | a call's runtime directory and credential link, tracked processes and identities | forks between scans, survivors, limits, deadlines against a call about to answer | `RoleCall`, `RoleCallProofs`, `InputFit` |
| Inspection (`inspection.py`, `inspection_scratch.py`) | private directories, the owner's record, snapshots | the subject writes meanwhile; a crash leaves live processes | `Inspection`, `AttemptProofs` |
| Assessment, regrading, review (`assessments.py`, `assessment_recovery.py`, `compaction.py`) | intents and results per attempt and scope, grades, reviews | nothing may run twice; crashes between intent and result; two scopes | `Assessment`, `AssessmentProofs`, `FactJudging`, `FactCredit`, `AttemptProofs` |
| Checks, metrics, calibrations (`grading.py`, `case_metrics.py`, `calibrations.py`) | copies of workspaces, evidence, locked baselines, operations | every operation may fail half-way; subject code runs in the middle | `CheckEvidence`, `CaseMetrics`, `Calibration`, `AttemptProofs` |
| Judge input (`judges.py`) | none | off-by-one in a search within a bound | `InputFit` |
| Object store and bundles (`storage.py`, `bundles.py`) | published objects, staging directories, aliases | concurrent writers without waiting, lock-free readers, a crash during publication | `ObjectStore`, `WorkspaceProofs` |
| Live configuration (`live_config.py`, `tree_copy.py`) | a snapshot per run and agent | files change between lstat, open and the second walk; a crash before the record | `LiveConfig`, `AttemptProofs` |
| Repositories and captures (`repositories.py`, `final_capture.py`) | git objects, entries, links | several git commands over a repository in use; links through links | `RepositorySnapshot`, `FinalCapture` |
| Benchmarks, reports, replay (`bench.py`, `bench_cli.py`, `reports.py`, `replay.py`) | runs found, budgets; documents derived from runs | decisions taken long before the lock; readers of runs that go on | `BenchRuns`, `RunReports`, `Replay`, `WorkspaceProofs` |
| Workspaces and skills (`workspaces.py`, `workspace_git.py`, `skills.py`) | ownership record, directories, configuration; commits; manifests | killed between two files, among the user's own files and commits | `WorkspaceInit`, `Checkpoint`, `SkillFiles`, `WorkspaceProofs` |
| Authoring (`authoring_catalog.py`, `mining.py`, `cases.py`) | one catalogue file with a revision; drafts | edits based on what was seen before, drafts written meanwhile | `Authoring`, `WorkspaceProofs` |
| Viewer and transcripts (`viewer.py`, `viewer_http.py`, `transcript.py`, `viewer.js`) | connections, slots, parsed journals, pages of a scan | journals and stores that grow while they are read; a stop during an accept | `ViewerServer`, `ViewerReads`, `ViewerScan`, `ViewerDetails`, `ReviewLanes`, `WorkspaceProofs` |
| Profiles, personas, rubrics, experiments, log formats, command line | file trees, documents | data transformation, little state across steps | none |

How they interact: the runner holds a run's journal (by `flock`) and the store's native lock for
the whole of a command. It appends to the journal before (intents) and after (results) each act
with an effect outside. Process owners push the identities they notice to the journal through
callbacks. The driver reads the agent's own log files and the terminal's screen; the agent is a
separate process that writes them when it pleases. The stand-in and the judge are processes started
per call. Signals only set a flag, which the loops look at. Assessment and regrading run later,
over frozen captures, under the same two locks; reviews take the run lock only; the viewer and the
reports take none. Commands that write into the user's workspace (init, skills, authoring,
checkpoint commits) have locks of their own, none of which excludes the user.

The list of hazards in `PROJECT.json` says, line by line, what a test would hardly reach, and which
property would notice.

## How the modules fit together

The detailed modules are layers of one program, cut where one can take the other for granted.

* `RunJournal` shows that an append which returned is durable, that events keep their order and that
  one holder of the lock writes at a time. All other modules therefore have journals as
  variables that change atomically and survive crashes.
* `RunExecution` has the conversation of an attempt as one stretch (`BeginInteraction` to
  `EndInteraction`), which `Interaction` models step by step for one trial, with launch and recovery
  reduced to its first and last steps. `Interaction` implements the abstract `CaseWorkflow`.
* `Interaction` has an inspection as one step with any verdicts (`Inspection`), a call of the stand-in as
  one step with any answer (`RoleCall`), a dialog that is answered or not (`DialogAnswer`), and a turn
  that is accepted and ends (`ClaudeTurns`, `NativeLog`).
* `Assessment` starts from attempts that execution left at any stage and has every check, fact
  judgement and metrics command as an intent and a result; what lies between is in `CheckEvidence`,
  `FactJudging`, `CaseMetrics` and, for what is made of it afterwards, `FactCredit` and `UsageAccount`.
* `BenchRuns`, `Replay` and `Calibration` share the native lock with `RunExecution`; each models it.
* `ReviewLanes`, `FactCredit` and `RunReports` each put a writer, which knows, beside a reader that has only
  what was written, and compare the two.

Parts that share no state need no run of their own: a variable `part`, chosen initially and never
changed, says which one a behaviour of the run is a behaviour of, and a property of the run says
`part = "..." => property of that part`, for one part or for several that answer one question. The variables
of a part that is not played are 0. `MC_RunExecution` and `MC_Interaction` have a specification for each of
their two runs.

* `MC_Sessions` extends `RoleCall` and takes `Assessment` as an instance.
* `AttemptParts` extends `Calibration` and takes the other parts of an attempt of which theorems are proved as
  instances over constants and variables of their own: `LiveConfig`, `FactJudging`, `Inspection`, `ClaudeTurns`,
  `CheckEvidence`, `CaseMetrics`. Its `PartsSpec` is what `AttemptProofs` is about. `MC_Attempts` extends
  it with small instances of thirteen modules that are only model-checked, to all of which it lends the same
  fifteen variables. They are kept out of `AttemptParts` as two of them are recursive, and as the provers
  are better off without them; a step of one leaves the variables of `AttemptParts` alone, and the other way
  round, so a behaviour of the run, seen through `AttemptParts`, is one of `PartsSpec`.
* `MC_Workspaces` extends `ObjectStore` and takes `BenchRuns`, `ViewerServer`, `Checkpoint`, `WorkspaceInit`,
  `SkillFiles` and `Authoring` as instances over constants and variables of their own; all seven have
  theorems in `WorkspaceProofs`.

So a run checks the very formula that is proved, and an `ASSUME` (`PartsFit`), which TLC evaluates, has the
constants of the run satisfy the assumptions of the proofs.

Each property has a mutant in `PROJECT.json`: a definition, next to the one it distorts and marked
"Mutant of", that no specification uses and that breaks the property when it is put in its place.

## Modules

### RunJournal

A journal is a sequence of records; a record has its sequence number, the hash of its predecessor
(itself a function of sequence and contents, as no two appends have equal contents) and a stamp
that stands for its contents. `file` is what a reader of `events.jsonl` sees, `synced` how much of
it is certain to survive a power loss, `tail` an incomplete last line. `snap` and `dsnap` are the two
snapshot files as visible and as durable. Per process: `pc`, `mem` (the handle's `_events`), `usable`
(`_active`) and `fresh`, whether it appended since it opened the run. The last matters: the only
caller of `checkpoint` is `ExecutionJournal.save`, which appends first, while `write_result` is also
called by a resume that found nothing to do.

Opening is three steps (read and verify; keep the torn tail; truncate), an append also (first bytes;
rest of the line; fsync), a snapshot two (rename; fsync of the directory). `Kill` and `PowerLoss` fall
between any two, and `FailAppend` and `FailSnapshot` are the write or fsync errors. `Inspect`,
`SummarizePrefix` and `SummarizeCheckpoint` read without a lock. A read of the journal is as many calls
as it takes to meet its end or the limit (`StartRead`, `ReadOn`), a limited reader reads the checkpoint
later still. `seen` is the lines a reader has by then and `got` the torn line it has begun behind them:
if a repair removes that line and a resume appends another, what the reader gets is made of two.

* `Resumable`: what is on disk, now and after a power loss, can be opened again (`Reopenable`), no
  opening fails an integrity check (`NeverCorrupt`), an append that returned is never lost
  (`AckedSurvive`). A lock-free reader may raise `IntegrityError` in the one case of a line made of two;
  `NeverCorrupt` says that it happens in no other, the check of the checkpoint included.
* `ReadersSeePrefix`: the lines a lock-free reader has read, and what it returned, are a prefix of the
  journal.
* `TornKept`: bytes that leave the file as a torn tail are in a file of their own.

### RunExecution

State that survives a crash: `att` (attempt states with owned processes, replayed from the journal),
`report` (the last cleanup report of each attempt), `unrec` (`ExecutionJournal.unreconciled`) and
`alive`, the processes that really run, by kind: a setup command, a helper it forked, the terminal
daemon and a child of it. Locks die with their holder. An executor's memory `x` has its program
counter, the run that it works on, the run that it reconciles (`visit`), what it has left to do and,
for the current attempt, the process identities it has noticed (`seen`) and the cleanup report so
far. Each append to the journal is a step; so are each spawn, each kill and each loop iteration.
`Close`, `EndSetup` and `ReconcileKill` may leave survivors, which counts as a fault, as do crashes,
failed steps, cancellation and lost store objects (`MaxFaults`).

* `SubjectsApart`: while one attempt's terminal runs, no recorded process of another attempt and no
  other terminal runs, in any run of the store (`NoOverlap`), and a trial is attempted again only on
  request. This needs more than recorded facts: the window between spawn and record is covered by the
  refusal to go on after `launch_ownership_unobserved`.
* `LaunchedAndCapturedQuiet`: at each launch the journals of the whole store say that nothing is left;
  a capture that claims a settled workspace was taken when nothing recorded ran.
* `NeverRefused`, `NoLaunchAfterFailure`: the lifecycle check in `ExecutionJournal._validate` never
  fires, and a quarantined capture blocks the run.
* `AttemptsSettle`: see *Fairness*.

The order of trials and of runs in the reconciliation is left open, which includes the order that the
code takes. Left out: the offline fixture mode (no processes), and the process that died before it
could be claimed, which `docs/tech/storage.md` (lines 183-197) documents as outside what is tracked.

### Interaction and CaseWorkflow

`pc` is where the runner is in `_interact`, `_dialogs`, `_answer_screen`, `_stand_in_turn` or
`_done_point`; `ask` holds what the frames of a stand-in request know (its purpose, the first call that
belongs to it, whether a retry is left), `tally` is the code's `ScreenTally`. The driver is what the
runner can see: `read` (how far the log was taken in), `counted` and `count` (acceptances), `entered`
(Enter was sent). The subject has `log` (0 nothing, 1 accepted, 2 completed, 3 aborted) and `shown`;
it moves at any point where the runner looks at it. The journal is counted: `progress` (position in
the last workflow step recorded), `saved` (position in the attempt state), `noted` (accepted turns in
the last interaction event), `raises`, `answers` and `credited` (in how many workflow steps each call
is named). History variables: `message`, `due`, `inspectedAt`, `keyed` and `fresh`.

* `WorkflowKept`: "complete" means that the last inspection judged it so, and each delivered step
  rests on the phases before it.
* `CreditExact`: no stand-in call is credited twice, no dialog is counted as answered without a key.
* `StepsNoted`: the capture tells every step noted, after a crash too; a trial that ends by itself has
  noted every accepted step and fix; a dialog gets the hint of the step it belongs to, whether or not
  the step's acceptance was noted when the dialog was met.
* `StopFinal`: after a reason to stop nothing more is sent, asked or inspected.
* `Promises`: the interaction implements `CaseWorkflow`, under the mapping at the end of the module.
  `CaseWorkflow` sends one message at a time, moves its position and counts a fix only after the
  subject took the message, and completes only with every step delivered.
* `Ends`: see *Fairness*.

Abstractions: `completed` and `question` are one observation (the code treats them alike), and so are
`partial_input` and `unsupported`. That a call's time budget is spent is possible once a call was
made. A screen is a name; the same name is the same screen after normalisation. Steps of the subject
and signals happen only where the runner next looks (`Looking`): elsewhere they commute with the
runner's steps.

### The driver session

`DialogAnswer` has the subject's own dialog (`tui`), the keys it has not taken, the frame it shows, and
the session that walks through questions, options and texts and waits for frames. *What the subject
takes for an answer is what the stand-in chose for that very question* (`AnswersChosen`). Three things are assumed of
the outside: a call of the stand-in lasts longer than pending keys and a repaint; a dialog goes away by
itself only while the stand-in is asked; no two questions of a dialog look the same.

`ClaudeTurns` is what `drivers/claude.py` makes of the records of a session's log. Claude Code itself is
external: it goes on by itself when a background agent or shell has finished, hooks may prevent the end
of a turn, and reports come queued, as notifications or not at all. *A turn taken for completed is over*
(`OverStep`), *and one that is over is seen to be, unless something excuses it* (`NeverHeldForEver`).

`NativeLog` reads several log files incrementally: half lines, files replaced or cut, forks that repeat
their parent's history, a close that drains. *Each line once, in order and whole* (`InOrder`); *usage
attributed to the root and its subagents once* (`UsageExact`).

`UsageAccount` is the ledger of what an agent used (snapshots that replace each other, totals that start
over, both) with its price. *No token counts twice, no price is made of unknown counts, and what was
logged response by response is exact*. Cache-write split, reasoning tokens and unknown accounting are left
out.

### Controllers

`RoleCall` is one call of a stand-in or judge with two commands (version probe, model), the
`ProcessOwner` with its monitor, limit and publication of identities, the process group that
`run_command` kills, the runtime directory with its link to the user's credentials, a crash, and the
recovery by the next session. Processes fork, hide, detach and exit. `NothingLeftRunning` and
`ClosedLast` have its safety (`ReportHonest`, `AllPublished`, `NoLinkLeft`; `UnlinkStep`), `CallReturns` its
liveness. The owner's two limits (processes, observations) are one; a pid that is used again is a process
of its own.

`InputFit` is how what a model is shown is cut down to its input bound by a binary search, for the stand-in
(`PromptFitted`) and for the judge (`TranscriptFitted`, against a reference definition). A text is its length.
For raised facts the result is only locally the longest: a longer cut may take fewer bytes, and the search
does not look for it.

### What an attempt starts from and what is kept of it

`LiveConfig`: two walks over live files with inode checks, links followed or kept, a screen, the
publication of a staged tree, its journal event, the check on resume, the copy for each attempt. *One
configuration for all attempts, nothing screened in it.*

`RepositorySnapshot`: the freezing of a commit in five git steps while the user commits, the import
of any snapshot, and workspaces made by two processes at one destination. *The commit with its ancestry
and nothing else; no link out; the work of the one who made it.*

`FinalCapture`: listing, then reading, within limits, while writers may be at work; then the removal of
links until none is left that cannot be made again. *Complete means whole; links lead.*

`Inspection`: a capture into a private directory, a call per fact, reuse of an earlier verdict, the
freshness check against the log, and the removal of the directory in the inspection, on an abort or
in the recovery. *Fresh verdicts* (`FreshStep`), *no directory removed under a live named
process by an abort or the recovery* (`QuietStep`); the ordinary cleanup may do so, see the findings.

### Grading

`Assessment`: `att` is the journal's attempt state, `chain` the assessments an attempt had (each
object's `previous` is its `previous_id`). `work` has the assessment events per attempt and *scope*, 0
for plain `assess` and the position in `regrades` for a regrade, as `ExecutionJournal.events_for` keeps
them apart; also the evidence files, and as a history the sessions in which each check was run. `left`
and `trusted` are the recorded processes and what the last cleanup report says of them. All
commands hold the run's lock, so one record `x` is the memory of the only session. Every journal event
is a step. `Unwind` is a cancellation or exception at any of them, with the reconciliation of the
`finally` or `except` clause; `Crash` leaves the processes running.

* `WorkBounded`: over all sessions of a pass no check runs twice, a suite is not split over two
  workspaces, the judge's budget holds; nothing is launched beside a recorded process of a dead session.
* `GradesSound`: whatever was cut off, a grade has a result for every check, fact set and rubric; the
  history has no gap and loses no review; an attempt is graded once per pass; the evidence of first
  assessments is kept.
* `NewAssessment`: passes exclude each other and keep to the case they were started with; no attempt is
  graded while something recorded of it runs; a finished regrade has covered every captured attempt.
* `PassesEnd`: see *Fairness*.

Left out: outcomes and prices as functions of the evidence, the native lock (one run), and the window
between a verifier's start and its record, which is in `RunExecution`. A RESULT object that a crash leaves
without the save that names it has no effect. An audit may pass or fail and report any findings.

`CheckEvidence`: the checks of a suite on the copies of its sides, each operation of which may fail, what
is kept of it (at most one check's evidence is omitted for size), and a calibration validated against
it. *What is concluded was seen.*

`CaseMetrics`: each metrics command beside a baseline that is made read-only by device and inode, with
subject code that replaces entries, changes modes and hidden inputs. *A value was earned in an untouched
baseline, and nothing stays locked unnoticed.* A locked file that its owner makes writable again and
rewrites in place is not noticed by the code, which compares device and inode only, nor by the model; a
crash leaves the baseline locked until it is removed.

`FactJudging`: one call for all facts, a second for those left out, a third where the judge and the last
inspection differ, within one budget, killed and resumed. *A grade is a judgment, and never contradicts
the inspection undisputed.*

`FactCredit`: a live attempt (replies, screen answers, inspections, fixes) beside the grading that
reconstructs who told the subject what. *Nothing is its own that it was told; phases, positions and
verdicts are what they were.* By design a fact that an accepted fix request cited without being handed it
counts as the subject's own; screen answers never count as elicited (`docs/tech/runner.md` line 457); and
a death between the acceptance of a fallback's fix request and its raise record loses that the fact was
told.

`Calibration`: two sessions over the store's native lock, operations that die between any two steps,
recovery by the next session. *Evidence and publication are quiet; nobody launches beside a dead
calibration's processes.*

### The store and the commands around it

`ObjectStore`: puts, alias changes, exports and imports by two processes with the two locks that are
never waited for. *Closed under references at every moment, never like a legacy store; no alias is lost, and
no object or bundle that is there is written again.* Opening the store looks for the format marker and then
for data; `Begins` is its last look. A store that another process makes between the two looks may be refused
as legacy: the operation does not begin and the disk stays as it is.

`BenchRuns`: two bench commands over the same runs, each looking up, sizing, launching, creating or
resuming, capturing, grading and reporting. *A report is of what was asked; no run is paid for again.*

`RunReports`: reports of two runs that go on, exports, and their comparison, read one after the other. *A
report accounts for every attempt, a comparison pairs the latest attempts of the same trial.* A report is
one atomic reading; missing assessment objects (for which a report raises), statistics and tables are left
out. Eligible rates count every attempt, the table the latest one of each trial, as in the code.

`Replay`: requests read from a capture or from an attempt under way, then sent into a directory of its own.
*A report names every selected call, in order, once; a refused replay leaves nothing.*

`WorkspaceInit`, `SkillFiles`, `Checkpoint`, `Authoring`: two commands each, killed between any two writes,
and a user who edits, stages, commits and merges meanwhile. *A workspace is whole or can be resumed; foreign
bytes are kept; a checkpoint commits its own paths and loses no commit; what is frozen is what was
validated.* The hooks of the repository may leave any tree in the temporary index; what they changed outside
the command's paths (`hooked`) is theirs. A draft is recorded when it agrees with its decision (`Agreeing`) and
validated or frozen only when it passes validation too (`Fit`).

### The viewer

`ViewerServer` counts connections, threads and slots through refusals, failed thread starts and a stop.
`ViewerReads` has the cache of parsed journals, keyed by size and time, and the rows made of a journal's
beginning and a checkpoint of another moment. `ViewerScan` has the pages of a scan, made by the server and put
together by the page in the browser, which may select something else meanwhile. `ViewerDetails` serves an
attempt's objects, read one by one from a store that a regrade writes to (at most one object is wrong).
`ReviewLanes` runs the interaction beside `transcript._Lanes`, which recovers authors from the journal's
order; a failed call about a screen is shown with the purpose `dialog`, as the code has it.

## Runs

| Run | Instance | Distinct states | Why it is enough |
| --- | --- | --- | --- |
| `journal` | 2 writers, 1 reader, 3 events, 4 appends, 2 failures | 0.29 M | the hazards involve a last line, its predecessor and one successor writer; 4 appends let a lost line be replaced by another |
| `executions` | *store*: 2 runs of 1 trial, 2 processes, daemon and child, 3 faults; *retried*: 1 run, 2 attempts with setup command and helper, 1 retry, 2 faults | 1.8 M | two runners, a crash of each and a survivor; a setup's helper that survives into the next attempt |
| `execution_live` | *trials*: 2 runs of 2 trials, 1 process, 2 faults; *setup*: 1 run of 2 trials with setup command and helper, 1 fault | 0.63 M | a crash during the recovery of a crash, a trial after a failed one, a trial left without an attempt |
| `interaction_live` | *phased*: 3 facts in 2 phases, 2 prompt steps, 4 turns, 3 inspections, timeout; *asking*: no workflow, 1 screen, questions, exit, 2 turns, 2 replies | 0.77 M | every verdict of every inspection, with a fix before, between and after the steps; every loop can be repeated until a budget ends it |
| `interaction_dialogs` | 1 step, 2 screens and a question, 2 turns, 3 replies, 2 actions per screen, cancellation | 2.0 M | a chain of two screens and a dialog within a turn, a retry in it, and a second turn |
| `assessment_grading` | 1 attempt, 2 verifiers of a suite, facts, 1 rubric, 2 judge calls, 1 replacement case, 1 regrade, 1 review, 2 faults | 3.4 M | a first pass or a regrade cut off twice at any event, a review at any moment; the budget can be spent on the facts |
| `sessions` | *call*: 2 commands, 2 forks, limit of 2 processes, 2 faults; *passes*: 2 attempts, 1 metrics command, 1 regrade, 1 fault | 0.36 M | a fork that hides or detaches beside one the owner has no room for; every way in which one session can leave another its work, also between two attempts |
| `attempts` | twenty parts, see the table below | 2.4 M | |
| `workspaces` | seven parts, see the table below | 1.9 M | |
| `evidence_partial` | `CheckEvidence`, grading, 2 facts, 1 fault | violation | |
| `lanes_unknown` | the `lanes` part of `attempts` | violation | |
| `inspection_scratch` | `Inspection`, 1 verifier, 1 judged fact, 2 faults | violation | |

| Part of `attempts` | Instance | What it reaches |
| --- | --- | --- |
| `turns` | 2 agents, 1 shell, 2 turns | an agent of the first turn that reports in the second |
| `log` | root, fork, fork of a fork, a log from before; 1 poll before the close, 1 replacement | every place for a half line, in each file; records out of the wrong session; bad lines |
| `dialog` | a question with choices and text, one with a single choice | late keys across a question's end, text typed twice |
| `config` | 2 paths, 9 kinds of node, 2 edits, 1 crash | an edit within a visit and one between the walks |
| `repository` | 4 commits in 2 branches, 2 processes, 2 acts of the user, limits of 3 objects and 4 files | a commit that comes, and one that goes, between two git commands; links through two others |
| `capture` | 4 paths, a directory, an excluded one, limits of 3 and 3, 1 write | each limit reached, a link to a link |
| `inspection` | 1 verifier, 1 judged fact, 2 inspections, 1 write, 1 fault | a reuse, and a write at every point of either inspection |
| `checks` | 2 facts, 2 sides, 5 results, 1 failing operation | any operation fails, and the next check meets what it left |
| `metrics` | 2 commands, a baseline two levels deep, 1 fault, 1 touch, 1 interrupted session | a touch and a fault at every step |
| `judging` | 2 facts, budget of 3 | all three calls, and the rubrics' |
| `input` | up to 4 entries of size 2 under every limit to 8; 3 texts to length 5 under every limit to 15 | every off-by-one of the searches |
| `credit` | 2 facts in 2 phases, 3 calls, 2 inspections | a fact told by a reply, a fix, or both, in either order |
| `usage` | 2 requests, 2 records, outputs to 1, two rates | a restart, a replaced snapshot, an unknown count |
| `calibration` | 2 sessions, 1 verifier on 2 sides, a judged fact, 2 operations, 3 faults | a crash of each, and a survivor |
| `replay` | 3 calls, 1 replay, 1 directory, 1 fault | a capture, and a runner's death, at every step |
| `reads` | 2 readers, 2 events with a crash, a cache of 1 | a file cut and grown again between two requests |
| `scan` | 3 names, 2 cases, pages of 1, 2 requests, 1 change | answers out of order, a store that grows |
| `lanes` | 1 fact, replies equal to the step's prompt, 3 turns, 3 calls, 1 inspection | texts that tell nothing apart |
| `details` | 2 judge calls, 1 wrong object | a regrade between two readings |
| `reports` | 2 runs of 3 trials, two of them attempted at the start, 3 results, 2 events | any event between the two readings; variants paired across runs |

| Part of `workspaces` | Instance | What it reaches |
| --- | --- | --- |
| `bench` | 2 commands, 1 experiment, pilot and full budget, 2 runs, 3 begun | a run made, configured or finished by the other after the lookup |
| `store` | 2 processes, 2 objects, 2 names, 2 bundles, 3 operations, 1 fault | put, import and alias beside each other |
| `server` | 4 connections, limits of 3 and 1 | each limit reached, a stop at every step |
| `checkpoint` | 2 commands, 2 paths, 2 acts of the user | a commit of the user's or of the other command between seeding and moving, a merge and its commit, any tree left by a hook |
| `init` | 2 inits, 2 roles, 2 layouts, 2 acts | a kill of each, an edit in between |
| `skills` | 2 commands, 2 skills, 2 versions, 2 acts | a kill between the two files, an upgrade |
| `authoring` | 2 commands, 1 candidate, 4 drafts of which 3 agree and 2 are valid, 1 edit, 5 revisions | a draft written between validation and freezing |

Symmetry is used in `executions` (attempts, processes) and `interaction_dialogs` (screens), never with
liveness. The
bounds that are not the program's own are named `Max…` or are the sets of identifiers; the budgets of
`Interaction`, the limits of `FinalCapture`, `RepositorySnapshot`, `ViewerServer` and `RoleCall` and the
judge's are the program's own with small values. A fault is a crash, an exception or cancellation, a
process that survives its cleanup, or an input that does not verify. Deadlock is checked in the runs in
which the system can always go on; in the others bounded actors come to an end.

## Fairness

`AttemptsSettle` assumes that an executor that runs takes its next step (its waits have deadlines), and
that somebody resumes every run again and again (strong fairness of `Start`, as a lock may be busy):
the program has no daemon that would, so this is a statement about what resuming achieves. Faults are
finite. The exception `Stuck` is the code's own: a launch that was never observed blocks the store until
somebody acts.

`Ends` assumes weak fairness of the runner's steps alone: every wait is bounded by a deadline or the
polling limit. Nothing is assumed of the subject, the stand-in's answers or the signals, so the trial
ends by its budgets.

`CallReturns` assumes weak fairness of the caller and strong fairness of `CommandCut`: every wait for a
command has a deadline, at which the command is killed. Nothing is assumed of the commands.

`PassesEnd` assumes that a session takes its next step and that its user runs the refused or cut-off
command again (strong fairness of `Assess` and `Resume`, the command that the refusal prints). No
attempt in this instance blocks a regrade.

## Proofs

Seven modules hold theorems, which TLAPS checks for every value of the constants that the named
assumptions of the component's module allow: identifiers that stand for "none" are none of the others,
bounds are naturals, sets that the code counts are finite, references and bundles are of the store's own
objects, a case's phases and prompt steps are in order (`CaseAssumption`, which freezing a case validates).
Nothing else is assumed. Each proof has the same shape: an inductive invariant `IInv`, one lemma per action
(or one per group of actions that touch the same parts), and a step that adds them up. TLC checked every
`IInv` as an invariant of a small instance before it was proved. The listed theorems name the properties
that the runs check, so a run shows on an instance what the theorem says of all.

### RunJournalProofs

`TypeOK`, `Resumable` (`Reopenable`, `NeverCorrupt`, `AckedSurvive`), `ReadersSeePrefix` and `TornKept`.
None but `TypeOK` is inductive. `IInv` adds four things.

* `FileFacts`: the lines parse; stamps grow along the file, so that hashes identify records; an
  acknowledged record lies in the synced part; both checkpoints name a record in the synced part.
* `Exclusive`: only the lock's holder is between opening and closing.
* `HandlesFit`: a usable handle's events are the file's lines, one less while a line is being synced;
  a handle that is `fresh` has all of them synced.
* `ReadsFollowed`: the torn line that a reader has begun is the incomplete tail of the file, or by now
  its next line, or kept by a repair.

The argument: only the holder writes (`Exclusive`), from a handle that equals the file (`HandlesFit`),
so each line is chained to the one before it (`Parses`); a checkpoint is taken from a fresh handle, so
it lies in the synced part and survives with it; a power loss or a truncation removes only what lies
behind the synced part.

### RunExecutionProofs

`NeverRefused`, `SubjectsApart`, `NoLaunchAfterFailure` and `LaunchedAndCapturedQuiet`, for any number of
runs, trials, executors and faults.

* `Exclusive`: whoever is past taking the native lock holds it.
* `Journal`: an attempt that was never reserved has no state; a report that says that all is settled is
  true of the processes (`Truthful`); no two subjects run (`NoOverlap`); nothing was refused.
* `Executor`, what an executor knows where it is. While it reconciles, what it has behind it is settled
  or it has noted that it is not (`Reconciling`); an attempt at work finds all others settled and has
  the stage that its place allows (`AtWork`); before the terminal, only a setup command and what it
  forked can live (`SettingUp`); what it is about to report is true (`Reporting`); it works on no run
  with a failed capture (`Unfailed`).

The argument: a report is made true by the close that precedes it and stays true because only the
holder of the native lock starts processes; a launch comes after a reconciliation of the whole store,
which either found everything settled or ended the command. That a trial is attempted again only on
request takes a second invariant, `RInv`: under the run's lock, the attempts of a trial are at most one
more than what was asked for, and less than that for trials which an executor may still attempt.

### AssessmentProofs

`WorkBounded`, `GradesSound` and `NewAssessment`. `IInv` is `TypeOK` with `History` (each assessment of a
chain is sound, each pass within its bounds), `InPass` (a session works on the pass that is open),
`InHand` (the attempt in hand has no grade of this pass, and its reviews are those of the last
assessment) and `AtWork` (the checks before the next one have results, a suite is run by this session
or not at all, the calls of this session and of earlier ones add up within the budget).

The argument: an event that says what is about to be done is appended before it is done; so a session
that resumes a pass finds the intent, and continues behind it instead of doing it again. A second
invariant, `Coverage` and `Quiet`, is proved on top of the first: a pass has graded, or has yet to
visit, every captured attempt; a trusted report is true, and a session launches nothing before it has
reconciled all that earlier ones left.

### InteractionProofs

`WorkflowKept`, `CreditExact`, `StepsNoted`, `StopFinal`, and `Promises`: the interaction implements
`CaseWorkflow` under the refinement mapping at the end of `Interaction`. `IInv` says, for each place of
the runner, where it is in the turn (`Counted`), what the message in flight is (`Sent`), where the
workflow is (`Positioned`), how a reason to stop leads out (`Stopping`), what the last inspection judged
(`Judged`), which calls are still to be credited (`Creditable`), which dialog got a key (`Pressed`) and
that a screen has room for one more step (`Roomy`).

The argument for the refinement: a message is sent from a place between turns only, where nothing is in
flight (`Counted`, `Sent`), so that `CaseWorkflow` can send too; the subject's log says that it was taken,
and it is noted before the runner looks for another; completion comes from a done point whose inspection
judged it so after the last accepted message (`Judged`). All other steps are stutters of `CaseWorkflow`.

### RoleCallProofs

`NothingLeftRunning` and `ClosedLast`. `IInv` is `Types` with `Followed`, `Placed`, `Stopped` and `Linked`.

The argument: whoever a scan meets is tracked, unless there is no room or it cannot be identified, and
then there is an error (`Followed`); a report that all writers stopped is made only without an error,
after the monitor has ended, when nothing that was met lives (`Stopped`); what was met only grows by
scans, so the report stays true. Everybody taken up is in the journal or on the way there, and the last
publication takes all of it. The link appears after its marker and is removed with the bindings by a
call that saw its processes end, or by a recovery that stopped the recorded ones (`Linked`).

### AttemptProofs

About `AttemptParts`: for each of its seven parts an inductive invariant, a lemma per action and the theorem
of the component; then what follows of `PartsSpec`. A behaviour with `part = X` is a behaviour of X (lemmas
`JudgingPlayed` to `MetricsPlayed`), so `GradesInAttempts`, `ConfigInAttempts`, `InspectionsInAttempts`,
`TurnsInAttempts` and `ChecksInAttempts` need nothing but the component's theorem and temporal logic. What is
assumed of the constants is each module's `ConstantsFit`.

* *Judging* (`GradeAgrees`, for any facts and calls). Each answer is one that was given; what is contested is what
  the last inspection contradicts and is no grade yet; a grade is given once, at the end. A call is made only
  within the budget, so the bound holds through kills and resumes.
* *Live configuration* (`ConfigSound`, for any files, nodes and screened texts). The digests of a copy in the making
  are of what it has copied so far, and of that nothing is screened (`Walk`); what was published has no screened
  text, and an attempt is made only when the journal has the configuration (`Taken`). An attempt's copy is
  digested as it is made and compared with the journal's manifest, so what becomes of the snapshot does not matter.
* *Inspections* (`InspectionSound`: `FreshStep`, `QuietStep`). While calls are made, no inspection had the same input
  before, and what a completed one would say is of the last input and agrees with the earlier ones (`Fresh`); the
  processes in the journal are numbered by directory and call (`InspectNumbered`); a process that is named and
  alive after its call has a report that says so, and the resolution of owned processes leaves none
  (`Watched`), so an abort and the recovery remove the directory only when nobody named uses it. The ordinary
  cleanup looks at less, and for it this is false (run `inspection_scratch`).
* *Turns* (`OverStep`, for any agents, shells and turns, counted or not). The adapter waits only for the turn that
  Claude is in (`OfThisTurn`); it tracks every agent of that turn that would make Claude go on (`AllTracked`);
  nothing was launched before the first turn, by a later one or by a slash command (`Launched`). So when nothing
  tracked is left, nothing will go on.
* *Checks* (`CheckSound`). What an execution concluded is borne out by what was kept of it, also step by step in the
  making (`Borne`, `InTheMaking`); it ran in a whole copy, or in what an earlier check left of one (`Ran`); where a
  partial copy was left, a check of that side failed before (`PartlyCopied`). So a calibration that demonstrates
  all its facts has no failed check, hence no partial copy, and ran in whole ones. In grading, where one failed
  check does not condemn the others, the last step fails, which is the finding `evidence_partial`.
* *Metrics* (`MetricsSound`, for any commands and depth). Values are read only after a run that ended by itself with a
  good output, while every entry of the baseline is locked and in its place (`Unread`, `ValuesEarned`); a result
  without values says why, unless the session is to stop (`SaysWhy`); one that names no exception has the
  baseline restored (`Restored`); the commands before are journaled, with an intent each (`Journaled`).
* *Calibrations* (`CalibrationSound`: `QuietResult`, `NoneBeside`). A session that is not idle holds the native lock
  (`Exclusive`); processes are numbered as they are launched, recorded or not (`CalNumbered`); a report of a clean
  cleanup is true, and an operation has evidence only after one (`Truthful`); a session that recovers finds clean
  all it has passed, one with an operation finds all others clean (`Placed`). A report is cleared when another
  process is recorded, and the process that runs unrecorded belongs to no other operation, so a clean report
  stays true when somebody launches.

### WorkspaceProofs

About `MC_Workspaces`, in the same way: the theorems of six components with their invariants, then `ServerHolds`,
`CheckpointsHold`, `CommandsHold` and `OthersHold` of the run's specification, then the object store, which
`MC_Workspaces` extends.

* *Server* (`ServerSound`, for any connections and limits). The accounting of connections, threads and slots
  (`Accounted`) is inductive with what the accepting thread is at (`Accepting`): it handles one connection at a
  time, and once the socket is closed it has ended and nobody waits to be accepted.
* *Checkpoints* (`CheckpointSound`: `OwnPathsOnly`, `CommitsKept`). Once a command has the tree of its parent, its own
  differs from that in its paths and in those that hooks changed alone, and until it has landed nobody else knows of its commit (`CheckFits`); a
  commit is the user's or of a command that made it (`Building`). HEAD is moved only from the parent that the
  command has seen, and a commit has all the ancestors of its parent.
* *Initialization* (`WholeAndResumable`, `ForeignStep`). What an init has planned is of the record and configuration
  that it read, which stay unless a user changes them (`Plans`); with no user at work the directories are the
  workspace's, and what is missing is what the init is going to make (`SetupWhole`, `Follows`).
* *Skills* (`ReviewStep`). A command at work has the folder to itself (`Alone`); of the names that it has yet to come
  to it knows that the manifest vouches for what is there, or that there is nothing (`AllReviewed`), as long as no
  user crosses its work (`racing`).
* *Authoring* (`EditsKept`, `FrozenStep`). A command with the lock has read the catalogue as it is (`Inside`), and what
  its edit requires was seen in it (`ItsDecision`); a validation that is there is of the request as it is and was
  its last edit (`FrozenApart`, `ValidatedLast`); so freezing, which requires it, freezes what was validated.
* *Benchmarks* (`ReportsAsked`, `PaidOnceStep`). No run has more attempts than trials, more grades than attempts, or
  attempts without options (`RunsFit`); a command knows its run, whoever else works on it, as runs only grow
  and keep their options (`BenchWhole`, `BenchOnward`); one that creates a run has found none to resume (`Suits`);
  what was reported of a run stays true of it (`AllAnswered`). That there is a latest of the runs
  found follows from a well-founded order (`Below`, `Latest`).
* *Object store* (`StoreSound`: `Closed`, `NeverLegacy`; `AliasesKept`). What is on disk leads nowhere outside of it, and
  is marked (`Disk`); each process is sure of what its next step relies on: the lock keeps the place free and the
  object's references are there (`SurePut`), the index is as it was read (`SureName`), what will be linked is
  closed (`SureExport`). Objects are never removed (`Grows`), so references verified before the lock was taken
  are still there when the object appears; what else a process relies on is changed only under a lock that
  it holds (`StoreApart`). The closure is the least set that refers to nothing outside of it, so that no
  induction is needed.

### Only model-checked

* Liveness under fairness is out of the prover's reach: `AttemptsSettle`, `Ends`, `CallReturns`, `PassesEnd`.
* What a search, a fold or a selection from a sequence computes for every input needs induction over data:
  `InputFitted`, `AccountSound` (sums of usage, the calls of a replay, who told a fact), `ReportsSound`,
  `ViewSound` (pages, rows and lanes made of a journal).
* `TreesWhole` rests on `RECURSIVE` operators that resolve links and ancestors.
* `SubjectRead`: of the turns, only `OverStep` is proved, not `NeverHeldForEver`, which also needs that what Claude
  reports is not lost; `InOrder` and `UsageExact` of `NativeLog` and `AnswersChosen` of `DialogAnswer` have no
  proof, the former as they are about sequences of log lines filtered by file. See the plan.
* The abstract specification of a store (objects that appear whole) is not stated; `Closed` and `NamesStep`
  say what a refinement of it would.

## Findings

Three runs show a disagreement.

`evidence_partial` (bug): `check_copy` (`grading.py` line 220) makes the copy of a suite's side only if its
directory does not exist, but a copy that fails half-way leaves the directory. The next check of the suite
runs its verifier on a workspace that is not all there, and its exit code becomes a verdict, although
`docs/tech/authoring.md` lines 369-372 say that a copy that could not be restored gives none.

`inspection_scratch` (bug): a call's evidence is copied before its cleanup is looked at, and a failed copy
becomes the inspection's error, which is not among those for which the private directory stays; it is
removed although the process may still write in it (`inspection.py` lines 313 and 346; the tests at
`src/tests/test_inspection.py` lines 471 and 492 say that it stays).

`lanes_unknown` (documentation and code differ): a workflow prompt whose delivery opens a dialog is
journaled before the interaction, and `_attribute` finds no line to name; it is shown with the author
`unknown`, which `docs/tech/results.md` lines 283-286 reserve for messages that nothing in the journal
matches.

Others were met while modelling and have no run of their own; the properties above are stated so as not to
claim what they refute.

* `docs/tech/storage.md` lines 165-168 call what both snapshots hold *durable*. A handle takes every complete
  line it finds for durable (`journals.py` line 119), including one whose writer was killed between `write`
  and `fsync`. If the resume then has nothing to append, `write_result` names a line that a power loss can
  still remove, and `read_result` then refuses the file. The checkpoint is safe, as it follows an append.
* `docs/tech/storage.md` lines 144-145 say that nothing which compaction deletes is read after assessment.
  `compact_run` asks only that attempts are finished, which they stay during a regrade; a regrade resumed
  after it claims complete evidence for results whose evidence is gone.
* `docs/tech/results.md` lines 76-77 say that an interrupted regrade resumes when the same command is run
  again. Its validation is repeated over all attempts captured by then; one captured in between, at a
  repository which the replacement case does not share, makes it fail, and nothing else can close it.
* `docs/tech/drivers.md` lines 155-157 say that a held turn is completed once the agents that its count reported
  and every tracked agent are finished. A new human turn clears what is tracked, so a turn that is held for an
  agent of an earlier one stays held until the driver's timeout (`excused` in `ClaudeTurns`).
* The viewer's panel keeps the pages of the earlier selection when the first request for another case fails, and
  then continues them with that case's; `ViewerScan` states what holds of pages of one selection.

## Hazards without a property

* A command of `setup` runs before `on_start` has recorded it (`runner_attempt.py` line 307); documented.
* `KeyboardInterrupt` within `Thread.start` counts a connection down twice (`viewer_http.py` lines 203-208):
  the model lets a thread start or not, with no signal in between.
* The viewer's page gives up on a live poll after 5 s (`viewer.js` line 805): times are not modelled.
* A user's `git commit` between a checkpoint's move of HEAD and the synchronisation of the index
  (`workspace_git.py` line 297) is made of the old index and reverts the checkpoint's files: it stays in the
  history, which is what `CommitsKept` says, but not in the tree.
* An event that makes `_ingest` raise drops the rest of its batch (`drivers/session.py` line 147): `InOrder`
  speaks of sessions that took what they were given.

## Not modelled

* Profiles and launch, personas, rubrics, experiments: the freezing and materialisation of data, with no
  state across steps that another actor could change.
* Log formats, commits, HTML, tables, statistics, command line, menus, doctor: parsers and renderers.
* Of modelled components: the offline fixture mode, the typing of a message into the composer, the recognition of
  screens, Droid's logs, submodules and git attributes, byte limits of archives, layouts per agent, the mining
  of logs for candidates, the numbers in reports, and what the viewer's page draws.

## Plan

1. An abstract store, in which an object appears whole with its references and an alias moves at once, and the
   refinement proved from the invariant `StoreInv` of `WorkspaceProofs`.
2. `InOrder` and `UsageExact` of `NativeLog`, from an invariant that says of each file how far it was read.
3. The composer of the driver session against a terminal that loses or delays keys.
