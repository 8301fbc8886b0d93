----------------------------- MODULE Assessment -----------------------------
(***************************************************************************)
(* Grading the captured attempts of one run (assessments.py with           *)
(* assessment_recovery, the scoped events of runner_state and compaction). *)
(* "assess" gives every attempt its first assessment; a "regrade" is a     *)
(* later pass under an identifier of its own that gives each captured      *)
(* attempt a new one; a review adds a decision to the current assessment.  *)
(*                                                                         *)
(* Every check, fact judgement and rubric judgement appends its intent     *)
(* before it runs and its result after, both in the scope of the pass.  A  *)
(* session that dies is followed by one that reads those events back.      *)
(* Every command holds the run's lock, so at most one session exists: x is *)
(* its memory.  RunJournal models the lock and the journal, RunExecution   *)
(* how the attempts come about and the process found but not yet recorded. *)
(***************************************************************************)
EXTENDS Naturals, Sequences, FiniteSets

CONSTANTS
    Attempts,
    Verifiers, Metrics,  \* how many verifier facts, then metrics commands, a case has
    Suited,              \* the verifiers that share one suite, hence one workspace
    HasFacts,            \* whether the case has facts that a judge decides
    Rubrics,             \* the rubric criteria of the case
    MaxCalls,            \* the judge's call budget per pass; 0: there is no judge
    Cases,               \* the replacement cases a regrade may name
    Misfits,             \* attempts at another repository than the replacements
    Findings,            \* the suspected findings an audit may report
    NoAttempt, NoCase,
    MaxRegrades,         \* bound: regrade passes
    MaxReviews,          \* bound: reviews per attempt
    MaxFaults            \* bound: crashes, exceptions, cancellations, survivors

Checks == 1 .. Verifiers + Metrics

ASSUME SizesAssumption ==
    {Verifiers, Metrics, MaxCalls, MaxRegrades, MaxReviews, MaxFaults} \subseteq Nat
ASSUME InputsAssumption ==
    Suited \subseteq 1 .. Verifiers /\ HasFacts \in BOOLEAN /\ Misfits \subseteq Attempts
ASSUME NamesAssumption == NoAttempt \notin Attempts /\ NoCase \notin Cases

VARIABLES
    att,      \* attempt-state events: stage, and whether a capture is published
    heard,    \* whether the subject accepted a prompt; fixed by the capture
    chain,    \* the assessments of each attempt; the last is the current one
    work,     \* assessment events and evidence files, per attempt and scope
    regrades, \* regrade-start, -assessed and -finished events; scope = position
    left,     \* the recorded processes of each attempt that run
    trusted,  \* the last cleanup report is resolved and nothing was owned since
    x,        \* the session that holds the run's lock
    faults

vars == <<att, heard, chain, work, regrades, left, trusted, x, faults>>

-----------------------------------------------------------------------------
HasJudge   == MaxCalls > 0
Active     == {"active", "stopping"}
Regradable == {"captured", "audited", "grading", "finished"}
Stages     == {"none"} \cup Active \cup Regradable
Scopes     == 0 .. MaxRegrades     \* 0: the events that carry no regrade_id

\* No event yet.  ran holds the session of every time a check was
\* run, a history; files are the checks whose evidence lies in assessment_root.
NoWork == [intents |-> {}, results |-> [c \in Checks |-> "none"], files |-> {},
           factsAsked |-> FALSE, facts |-> "none", calls |-> 0,
           rubricsAsked |-> FALSE, rubrics |-> [r \in Rubrics |-> "none"],
           sessions |-> 0, ran |-> [c \in Checks |-> {}]]

\* The memory of no command.
Rest == [pc |-> "idle", kind |-> "none", scope |-> 0, case |-> NoCase, todo |-> {},
         bad |-> FALSE, cur |-> NoAttempt, ok |-> FALSE, findings |-> {}, reviews |-> {},
         previous |-> 0, next |-> 1, torn |-> FALSE, saved |-> 0, made |-> 0, round |-> 0,
         judged |-> {}]

\* An attempt may not exist yet, may have been left running, or is captured.
Init ==
    /\ \E stage \in [Attempts -> {"none", "active", "captured"}] :
         /\ att = [a \in Attempts |-> [stage |-> stage[a], captured |-> stage[a] = "captured"]]
         /\ left = [a \in Attempts |-> IF stage[a] = "active" THEN "orphan" ELSE "none"]
         /\ trusted = [a \in Attempts |-> stage[a] # "active"]
    /\ heard \in [Attempts -> BOOLEAN]
    /\ chain = [a \in Attempts |-> << >>]
    /\ work = [a \in Attempts |-> [s \in Scopes |-> NoWork]]
    /\ regrades = << >>
    /\ x = Rest
    /\ faults = 0

events == <<att, chain, work, regrades>>
procs  == <<left, trusted>>

Exists == {a \in Attempts : att[a].stage # "none"}
At(pc) == x.pc = pc
Goto(pc) == x' = [x EXCEPT !.pc = pc]
Fault == faults < MaxFaults /\ faults' = faults + 1
FaultIf(b) == IF b THEN Fault ELSE UNCHANGED faults

Cur  == x.cur
Work == work[Cur][x.scope]
Record(new) == work' = [work EXCEPT ![Cur][x.scope] = new]
Current(a) == chain[a][Len(chain[a])]

\* _open_regrade: the pass that was started and not finished; 0 if there is none.
Open == IF regrades # << >> /\ ~ regrades[Len(regrades)].finished THEN Len(regrades) ELSE 0

\* The attempts a regrade grades.
Captured == {a \in Exists : att[a].captured /\ att[a].stage \in Regradable}

\* _validate_regrade.
Validates(case) ==
    /\ case # NoCase => Captured \cap Misfits = {}
    /\ Captured # {} /\ (HasFacts \/ Rubrics # {}) => HasJudge

-----------------------------------------------------------------------------
(* The start of a session. *)

Assess ==
    /\ At("idle") /\ Open = 0
    /\ x' = [Rest EXCEPT !.pc = "reconcile", !.kind = "assess", !.todo = Exists]
    /\ UNCHANGED <<events, heard, procs, faults>>

\* regrade_run resumes the unfinished pass, if it names the same case, or
\* prepares a new one.
Regrade(case) ==
    /\ At("idle")
    /\ IF Open # 0 THEN regrades[Open].case = case ELSE Len(regrades) < MaxRegrades
    /\ x' = [Rest EXCEPT !.pc = "reconcile", !.kind = "regrade", !.case = case, !.todo = Exists,
                         !.scope = IF Open # 0 THEN Open ELSE Len(regrades) + 1]
    /\ UNCHANGED <<events, heard, procs, faults>>

\* What a reconciliation of a does: everything recorded is stopped, or some of
\* it survives and the cleanup report is not resolved.
Stop(a, survives) ==
    /\ left' = [left EXCEPT ![a] = IF survives /\ @ # "none" THEN "orphan" ELSE "none"]
    /\ trusted' = [trusted EXCEPT ![a] = ~ survives]

\* reconcile_store_ownership, one attempt: a resolved report that nothing was
\* owned after is trusted; an attempt the runner left active becomes stopping.
Reconcile(a) ==
    /\ At("reconcile") /\ a \in x.todo
    /\ \E survives \in IF trusted[a] THEN {FALSE} ELSE BOOLEAN :
         /\ FaultIf(survives)
         /\ IF trusted[a] THEN UNCHANGED procs ELSE Stop(a, survives)
         /\ x' = [x EXCEPT !.todo = @ \ {a}, !.bad = @ \/ survives]
    /\ att' = [att EXCEPT ![a].stage = IF @ \in Active THEN "stopping" ELSE @]
    /\ UNCHANGED <<heard, chain, work, regrades>>

\* What a session goes through: a regrade every attempt with a capture, the
\* marked ones too.
Todo == IF x.kind = "regrade" THEN Captured ELSE {a \in Exists : att[a].stage # "finished"}

\* Mutant of Refuses: a regrade with nothing left to grade returns at once.
RefusesWhenDone ==
    x.bad \/ (x.kind = "regrade" /\ (~ Validates(x.case) \/ (Open # 0 /\ Captured \subseteq regrades[Open].done)))

\* Unresolved writers, and a regrade that does not validate.
Refuses == x.bad \/ (x.kind = "regrade" /\ ~ Validates(x.case))

\* A refused command grades nothing; a new regrade is recorded before the first
\* attempt it grades.
Begin ==
    /\ At("reconcile") /\ x.todo = {}
    /\ IF Refuses
       THEN x' = Rest /\ UNCHANGED regrades
       ELSE /\ x' = [x EXCEPT !.pc = "next", !.todo = Todo]
            /\ regrades' = IF x.kind = "regrade" /\ Open = 0
                           THEN Append(regrades, [case |-> x.case, done |-> {}, finished |-> FALSE])
                           ELSE regrades
    /\ UNCHANGED <<att, heard, chain, work, procs, faults>>

-----------------------------------------------------------------------------
(* The loop over the attempts. *)

\* The pass already marked the attempt.
SkipMarked(a) ==
    /\ At("next") /\ a \in x.todo /\ x.kind = "regrade" /\ a \in regrades[x.scope].done
    /\ x' = [x EXCEPT !.todo = @ \ {a}]
    /\ UNCHANGED <<events, heard, procs, faults>>

\* The current assessment was made in this pass, which ended before the mark.
AlreadyGraded(a) == chain[a] # << >> /\ Current(a).scope = x.scope

MarkGraded(a) ==
    /\ At("next") /\ a \in x.todo /\ x.kind = "regrade" /\ a \notin regrades[x.scope].done
    /\ AlreadyGraded(a)
    /\ x' = [x EXCEPT !.pc = "mark", !.cur = a]
    /\ UNCHANGED <<events, heard, procs, faults>>

\* Any other attempt is graded; if an earlier session was grading it, what that
\* session owned is stopped once more.
Visit(a) ==
    /\ At("next") /\ a \in x.todo
    /\ x.kind = "regrade" => a \notin regrades[x.scope].done /\ ~ AlreadyGraded(a)
    /\ \E survives \in IF att[a].stage = "grading" THEN BOOLEAN ELSE {FALSE} :
         /\ FaultIf(survives)
         /\ IF att[a].stage = "grading" THEN Stop(a, survives) ELSE UNCHANGED procs
         /\ x' = IF survives THEN Rest ELSE [x EXCEPT !.pc = "load", !.cur = a]
    /\ UNCHANGED <<events, heard>>

\* The end of the command; a regrade is finished once every attempt is.
Close ==
    /\ At("next") /\ x.todo = {}
    /\ regrades' = IF x.kind = "regrade" THEN [regrades EXCEPT ![x.scope].finished = TRUE]
                                         ELSE regrades
    /\ x' = Rest
    /\ UNCHANGED <<att, heard, chain, work, procs, faults>>

-----------------------------------------------------------------------------
(* _assess_one: the audit, and the attempt's stages. *)

\* The inputs are read and audited.  A capture that was not published never
\* passes, another may fail too.  A regrade carries the reviews of findings that
\* the new audit still reports.
Load ==
    /\ At("load")
    /\ \E ok \in BOOLEAN : \E found \in SUBSET Findings :
         /\ ok => att[Cur].captured
         /\ FaultIf(att[Cur].captured /\ ~ ok)
         /\ x' = [x EXCEPT !.pc = "stage", !.ok = ok, !.findings = found,
                           !.previous = Len(chain[Cur]),
                           !.reviews = IF x.kind = "regrade" /\ chain[Cur] # << >>
                                       THEN Current(Cur).reviews \cap found ELSE {}]
    /\ UNCHANGED <<events, heard, procs>>

Staged(stage) == att' = [att EXCEPT ![Cur].stage = stage]

\* A stopped attempt counts as captured, without a capture.
StageCaptured ==
    /\ At("stage") /\ att[Cur].stage = "stopping" /\ Staged("captured")
    /\ UNCHANGED <<heard, chain, work, regrades, procs, x, faults>>

\* An assessment as it is put in the store; the save that follows makes it the
\* attempt's current one.
Assessed(kind, evidence) ==
    [kind |-> kind, scope |-> IF kind = "audit" THEN 0 ELSE x.scope, case |-> x.case, ok |-> x.ok,
     findings |-> x.findings, reviews |-> x.reviews, previous |-> x.previous,
     evidence |-> evidence]

\* The audit is the first assessment; the later one names it as its previous.
StageAudited ==
    /\ At("stage") /\ att[Cur].stage = "captured" /\ Staged("audited")
    /\ chain' = [chain EXCEPT ![Cur] = Append(@, Assessed("audit", {}))]
    /\ x' = [x EXCEPT !.previous = Len(chain[Cur]) + 1]
    /\ UNCHANGED <<heard, work, regrades, procs, faults>>

StageGrading ==
    /\ At("stage") /\ att[Cur].stage = "audited" /\ Staged("grading")
    /\ UNCHANGED <<heard, chain, work, regrades, procs, x, faults>>

\* resumed_suites: an earlier session of the scope has run part of the suite.
Torn == \E c \in Suited : c \in Work.intents \/ Work.results[c] # "none"

\* An audit that did not pass excludes the attempt from grading; otherwise the
\* session gets a directory of its own and counts the calls already made.
Grade ==
    /\ At("stage") /\ att[Cur].stage \in {"grading", "finished"}
    /\ IF x.ok
       THEN /\ x' = [x EXCEPT !.pc = "checks", !.next = 1, !.torn = Torn, !.saved = Work.calls]
            /\ Record([Work EXCEPT !.sessions = @ + 1])
       ELSE Goto("finish") /\ UNCHANGED work
    /\ UNCHANGED <<att, heard, chain, regrades, procs, faults>>

-----------------------------------------------------------------------------
(* _grade and _measure: the verifiers, then the metrics commands. *)

CheckSaved ==
    /\ At("checks") /\ x.next \in Checks /\ Work.results[x.next] # "none"
    /\ x' = [x EXCEPT !.next = @ + 1]
    /\ UNCHANGED <<events, heard, procs, faults>>

\* Mutant of Interrupted: the verifier that was cut off runs again, and only the
\* rest of its suite is given up.
InterruptedRest(c) == c \in Suited /\ x.torn /\ c \notin Work.intents

\* The check, or its suite, was begun by an earlier session.
Interrupted(c) == c \in Work.intents \/ (c \in Suited /\ x.torn)

CheckInterrupted ==
    /\ At("checks") /\ x.next \in Checks /\ Work.results[x.next] = "none" /\ Interrupted(x.next)
    /\ Record([Work EXCEPT !.results[x.next] = "interrupted"])
    /\ x' = [x EXCEPT !.next = @ + 1]
    /\ UNCHANGED <<att, heard, chain, regrades, procs, faults>>

CheckIntent ==
    /\ At("checks") /\ x.next \in Checks /\ Work.results[x.next] = "none" /\ ~ Interrupted(x.next)
    /\ Record([Work EXCEPT !.intents = @ \cup {x.next}])
    /\ Goto("launch")
    /\ UNCHANGED <<att, heard, chain, regrades, procs, faults>>

\* A process of the attempt starts and is recorded; what its session left
\* behind before stays.
Launched ==
    /\ left' = [left EXCEPT ![Cur] = IF @ = "orphan" THEN @ ELSE "own"]
    /\ trusted' = [trusted EXCEPT ![Cur] = FALSE]

CheckLaunch ==
    /\ At("launch")
    /\ Launched
    /\ Record([Work EXCEPT !.ran[x.next] = @ \cup {Work.sessions}])
    /\ Goto("running")
    /\ UNCHANGED <<att, heard, chain, regrades, faults>>

\* The command ends and what it started is stopped, all of it or not.
Ended(survives) == left' = [left EXCEPT ![Cur] = IF survives THEN @ ELSE "none"]

CheckEnd ==
    /\ At("running")
    /\ \E survives \in BOOLEAN : FaultIf(survives) /\ Ended(survives)
    /\ Record([Work EXCEPT !.files = @ \cup {x.next}])
    /\ Goto("result")
    /\ UNCHANGED <<att, heard, chain, regrades, trusted>>

CheckResult ==
    /\ At("result")
    /\ Record([Work EXCEPT !.results[x.next] = "ran"])
    /\ x' = [x EXCEPT !.pc = "checks", !.next = @ + 1]
    /\ UNCHANGED <<att, heard, chain, regrades, procs, faults>>

-----------------------------------------------------------------------------
(* The judge. *)

\* _judge_call: the intent, the process, the result.
JudgeIntent(pc) ==
    /\ Record([Work EXCEPT !.calls = @ + 1])
    /\ Launched
    /\ Goto(pc)
    /\ UNCHANGED <<att, heard, chain, regrades, faults>>

\* _fact_phase: a saved grade is kept; without a judge, a prompt or facts, and
\* after a judgement that an earlier session began, the grade is empty.
ChecksDone == At("checks") /\ x.next \notin Checks

FactsSaved ==
    /\ ChecksDone /\ Work.facts # "none"
    /\ Goto("rubrics")
    /\ UNCHANGED <<events, heard, procs, faults>>

Judgeable == HasFacts /\ heard[Cur] /\ HasJudge /\ ~ Work.factsAsked

FactsEmpty ==
    /\ ChecksDone /\ Work.facts = "none" /\ ~ Judgeable
    /\ Record([Work EXCEPT !.facts = "empty"])
    /\ Goto("rubrics")
    /\ UNCHANGED <<att, heard, chain, regrades, procs, faults>>

FactsIntent ==
    /\ ChecksDone /\ Work.facts = "none" /\ Judgeable
    /\ Record([Work EXCEPT !.factsAsked = TRUE])
    /\ Goto("facts")
    /\ UNCHANGED <<att, heard, chain, regrades, procs, faults>>

\* _judge_facts asks for all facts, then for those it did not answer, then for
\* those it disputes, within the budget.
AskFacts ==
    /\ At("facts") /\ x.round < 3 /\ x.made < MaxCalls
    /\ JudgeIntent("judging_facts")

FactsAnswered ==
    /\ At("judging_facts")
    /\ \E survives \in BOOLEAN : FaultIf(survives) /\ Ended(survives)
    /\ x' = [x EXCEPT !.pc = "facts", !.made = @ + 1, !.round = @ + 1]
    /\ UNCHANGED <<events, heard, trusted>>

\* Either later request may have nothing to ask.
FactsDone ==
    /\ At("facts") /\ x.round > 0
    /\ Record([Work EXCEPT !.facts = "judged"])
    /\ Goto("rubrics")
    /\ UNCHANGED <<att, heard, chain, regrades, procs, faults>>

Unsaved == {r \in Rubrics : Work.rubrics[r] = "none"}

\* The calls of earlier sessions of the scope count too.
WithinBudget == x.saved + x.made < MaxCalls

RubricsAskable == Unsaved # {} /\ ~ Work.rubricsAsked /\ heard[Cur] /\ WithinBudget

RubricsIntent ==
    /\ At("rubrics") /\ RubricsAskable
    /\ Record([Work EXCEPT !.rubricsAsked = TRUE])
    /\ Goto("ask_rubrics")
    /\ UNCHANGED <<att, heard, chain, regrades, procs, faults>>

AskRubrics == At("ask_rubrics") /\ JudgeIntent("judging_rubrics")

RubricsAnswered ==
    /\ At("judging_rubrics")
    /\ \E survives \in BOOLEAN : FaultIf(survives) /\ Ended(survives)
    /\ \E judged \in SUBSET Unsaved :
         x' = [x EXCEPT !.pc = "rubrics", !.made = @ + 1, !.judged = judged]
    /\ UNCHANGED <<events, heard, trusted>>

RubricJudged(r) ==
    /\ At("rubrics") /\ r \in x.judged \cap Unsaved
    /\ Record([Work EXCEPT !.rubrics[r] = "judged"])
    /\ UNCHANGED <<att, heard, chain, regrades, procs, x, faults>>

Reason == CASE Work.rubricsAsked -> "interrupted"
            [] ~ heard[Cur]      -> "no_prompt"
            [] HasJudge /\ ~ WithinBudget -> "budget"
            [] OTHER             -> "no_judge"

\* What was not judged is saved with the reason, after what was.
RubricRest(r) ==
    /\ At("rubrics") /\ ~ RubricsAskable /\ x.judged \cap Unsaved = {} /\ r \in Unsaved
    /\ Record([Work EXCEPT !.rubrics[r] = Reason])
    /\ UNCHANGED <<att, heard, chain, regrades, procs, x, faults>>

\* Mutant of RubricsDone: criteria an earlier session asked for get no result.
RubricsDoneOnceAsked ==
    /\ At("rubrics") /\ x.judged \cap Unsaved = {} /\ (Unsaved = {} \/ Work.rubricsAsked)
    /\ Goto("finish")
    /\ UNCHANGED <<events, heard, procs, faults>>

RubricsDone ==
    /\ At("rubrics") /\ Unsaved = {}
    /\ Goto("finish")
    /\ UNCHANGED <<events, heard, procs, faults>>

-----------------------------------------------------------------------------
(* The end of _assess_one, and of the session. *)

\* The frozen inputs are verified again, everything the attempt owned is
\* stopped, and only then its evidence is read and the assessment saved.
Finish ==
    /\ At("finish")
    /\ \/ /\ Fault /\ Stop(Cur, TRUE) /\ x' = Rest
          /\ UNCHANGED <<att, chain>>
       \/ \E ok \in IF x.ok THEN BOOLEAN ELSE {FALSE} :
            /\ FaultIf(x.ok /\ ~ ok)
            /\ Stop(Cur, FALSE)
            /\ chain' = [chain EXCEPT ![Cur] =
                           Append(@, [Assessed("graded", Work.files) EXCEPT !.ok = ok])]
            /\ Staged("finished")
            /\ x' = IF x.kind = "regrade" THEN [x EXCEPT !.pc = "mark"]
                    ELSE [Rest EXCEPT !.pc = "next", !.kind = x.kind, !.todo = x.todo \ {Cur}]
    /\ UNCHANGED <<heard, work, regrades>>

\* mark_regraded.
Mark ==
    /\ At("mark")
    /\ regrades' = [regrades EXCEPT ![x.scope].done = @ \cup {Cur}]
    /\ x' = [Rest EXCEPT !.pc = "next", !.kind = x.kind, !.scope = x.scope, !.case = x.case,
                         !.todo = x.todo \ {Cur}]
    /\ UNCHANGED <<att, heard, chain, work, procs, faults>>

\* Where a cancellation or an exception can end _assess_one.
Grading == {"load", "stage", "checks", "launch", "running", "result", "facts", "judging_facts",
            "rubrics", "ask_rubrics", "judging_rubrics", "finish"}

\* It unwinds: what the attempt owns is stopped, or survives the command.
Unwind ==
    /\ x.pc \in Grading /\ Fault
    /\ \E survives \in BOOLEAN :
         IF att[Cur].stage = "grading" \/ x.kind = "regrade" THEN Stop(Cur, survives)
                                                             ELSE UNCHANGED procs
    /\ x' = Rest
    /\ UNCHANGED <<events, heard>>

\* The process dies; the lock is free, what it had started goes on.
Crash ==
    /\ ~ At("idle") /\ Fault
    /\ left' = [a \in Attempts |-> IF left[a] = "own" THEN "orphan" ELSE left[a]]
    /\ x' = Rest
    /\ UNCHANGED <<events, heard, trusted>>

-----------------------------------------------------------------------------
(* The other commands that take the run's lock. *)

\* Mutant of Review: it does not wait for the run's lock.
ReviewUnlocked(a, f) ==
    /\ att[a].stage = "finished" /\ att[a].captured
    /\ Len(chain[a]) < MaxReviews + MaxRegrades + 2
    /\ f \in Current(a).findings
    /\ chain' = [chain EXCEPT ![a] = Append(@, [Current(a) EXCEPT !.kind = "review",
                    !.reviews = @ \cup {f}, !.previous = Len(chain[a])])]
    /\ UNCHANGED <<att, heard, work, regrades, procs, x, faults>>

\* review_assessment: the current assessment, with one more review.
Review(a, f) ==
    /\ At("idle") /\ att[a].stage = "finished" /\ att[a].captured
    /\ Cardinality({i \in DOMAIN chain[a] : chain[a][i].kind = "review"}) < MaxReviews
    /\ f \in Current(a).findings
    /\ chain' = [chain EXCEPT ![a] = Append(@, [Current(a) EXCEPT !.kind = "review",
                    !.reviews = @ \cup {f}, !.previous = Len(chain[a])])]
    /\ UNCHANGED <<att, heard, work, regrades, procs, x, faults>>

\* compact_run: every attempt is finished; the working directories go.
Compact ==
    /\ At("idle") /\ \A a \in Exists : att[a].stage = "finished"
    /\ work' = [a \in Attempts |-> [s \in Scopes |-> [work[a][s] EXCEPT !.files = {}]]]
    /\ UNCHANGED <<att, heard, chain, regrades, procs, x, faults>>

\* "dryheave run --resume", seen from here: whatever an earlier command left is
\* stopped and an attempt becomes captured, with a published capture or without.
Execute(a) ==
    /\ At("idle") /\ att[a].stage \in {"none"} \cup Active
    /\ \E captured \in BOOLEAN :
         att' = [att EXCEPT ![a] = [stage |-> "captured", captured |-> captured]]
    /\ left' = [b \in Attempts |-> "none"]
    /\ trusted' = [b \in Attempts |-> TRUE]
    /\ UNCHANGED <<heard, chain, work, regrades, x, faults>>

-----------------------------------------------------------------------------
Begins == Begin \/ \E a \in Attempts : Reconcile(a)

Loop == Close \/ Mark \/ \E a \in Attempts : SkipMarked(a) \/ MarkGraded(a) \/ Visit(a)

AssessOne ==
    \/ Load \/ StageCaptured \/ StageAudited \/ StageGrading \/ Grade \/ Finish
    \/ CheckSaved \/ CheckInterrupted \/ CheckIntent \/ CheckLaunch \/ CheckEnd \/ CheckResult
    \/ FactsSaved \/ FactsEmpty \/ FactsIntent \/ AskFacts \/ FactsAnswered \/ FactsDone
    \/ RubricsIntent \/ AskRubrics \/ RubricsAnswered \/ RubricsDone
    \/ \E r \in Rubrics : RubricJudged(r) \/ RubricRest(r)

Session == Begins \/ Loop \/ AssessOne

Next ==
    \/ Assess \/ Session \/ Unwind \/ Crash \/ Compact
    \/ \E case \in Cases \cup {NoCase} : Regrade(case)
    \/ \E a \in Attempts : Execute(a) \/ \E f \in Findings : Review(a, f)

Spec == Init /\ [][Next]_vars

\* The command that "assess" and its refusals tell the user to run.
Resume == Open # 0 /\ \E case \in Cases \cup {NoCase} : Regrade(case)

\* A session goes on while it lives, and its user assesses, or resumes the
\* unfinished regrade, again and again; the latter is not the code's doing.
FairSpec == Spec /\ WF_vars(Session) /\ SF_vars(Assess) /\ SF_vars(Resume)
-----------------------------------------------------------------------------
WorkRecord == [intents : SUBSET Checks, results : [Checks -> {"none", "ran", "interrupted"}],
          files : SUBSET Checks, factsAsked : BOOLEAN, facts : {"none", "empty", "judged"},
          calls : Nat, rubricsAsked : BOOLEAN,
          rubrics : [Rubrics -> {"none", "judged", "interrupted", "no_prompt", "budget", "no_judge"}],
          sessions : Nat, ran : [Checks -> SUBSET Nat]]

AssessmentObject == [kind : {"audit", "graded", "review"}, scope : Scopes, case : Cases \cup {NoCase},
                ok : BOOLEAN, findings : SUBSET Findings, reviews : SUBSET Findings,
                previous : Nat, evidence : SUBSET Checks]

Memory == [pc : {"idle", "reconcile", "next", "mark"} \cup Grading,
           kind : {"none", "assess", "regrade"}, scope : Scopes, case : Cases \cup {NoCase},
           todo : SUBSET Attempts, bad : BOOLEAN, cur : Attempts \cup {NoAttempt}, ok : BOOLEAN,
           findings : SUBSET Findings, reviews : SUBSET Findings, previous : Nat, next : Nat,
           torn : BOOLEAN, saved : Nat, made : 0 .. MaxCalls, round : 0 .. 3, judged : SUBSET Rubrics]

\* Every variable stays in its type.
TypeOK ==
    /\ att \in [Attempts -> [stage : Stages, captured : BOOLEAN]]
    /\ heard \in [Attempts -> BOOLEAN]
    /\ chain \in [Attempts -> Seq(AssessmentObject)]
    /\ work \in [Attempts -> [Scopes -> WorkRecord]]
    /\ regrades \in Seq([case : Cases \cup {NoCase}, done : SUBSET Attempts, finished : BOOLEAN])
    /\ left \in [Attempts -> {"none", "own", "orphan"}] /\ trusted \in [Attempts -> BOOLEAN]
    /\ x \in Memory /\ faults \in Nat

Changed(a) == chain[a] # chain'[a]
New(a) == chain'[a][Len(chain'[a])]

\* Through crashes, resumes and reviews, following previous_id from an attempt's
\* current assessment visits every assessment it ever had, in order.
ChainIntact == \A a \in Attempts : \A i \in DOMAIN chain[a] : chain[a][i].previous = i - 1

\* A review of a finding is never lost while the audit still reports the finding.
ReviewStep ==
    \A a \in Attempts : Changed(a) /\ chain[a] # << >> =>
        Current(a).reviews \cap New(a).findings \subseteq New(a).reviews

\* While a regrade is unfinished nothing is graded outside it, and all it grades
\* it grades by the case it was started with.
PassStep ==
    \A a \in Attempts : Changed(a) /\ New(a).kind = "graded" =>
        /\ New(a).scope = Open
        /\ New(a).case = IF Open = 0 THEN NoCase ELSE regrades[Open].case

\* However often its session dies, a pass grades an attempt once.
GradedOncePerPass ==
    \A a \in Attempts : \A s \in Scopes :
        Cardinality({i \in DOMAIN chain[a] : chain[a][i].kind = "graded" /\ chain[a][i].scope = s}) <= 1

\* A regrade is recorded as finished only when the current assessment of every
\* captured attempt is its own.
CoverStep ==
    \A r \in DOMAIN regrades : ~ regrades[r].finished /\ regrades'[r].finished =>
        \A a \in Captured : att[a].stage = "finished" /\ Current(a).scope = r

\* Nothing is launched while a recorded process of an earlier session runs, in
\* a first assessment or in a regrade of attempts that stay finished.
NoOrphanBeside ==
    x.pc \in {"running", "judging_facts", "judging_rubrics"} => \A a \in Attempts : left[a] # "orphan"

\* No grade is saved while anything recorded of the attempt still runs.
QuietStep == \A a \in Attempts : Changed(a) /\ New(a).kind = "graded" => left'[a] = "none"

\* What may become an attempt's current assessment, and end a pass.
NewAssessment == [][ReviewStep /\ PassStep /\ QuietStep /\ CoverStep]_vars

\* Within a pass no verifier and no metrics command is run twice.
CheckedOnce ==
    \A a \in Attempts : \A s \in Scopes : \A c \in Checks : Cardinality(work[a][s].ran[c]) <= 1

\* The verifiers of a suite that a pass runs at all share one workspace.
SuiteTogether ==
    \A a \in Attempts : \A s \in Scopes :
        Cardinality(UNION {work[a][s].ran[c] : c \in Suited}) <= 1

\* The judge is not called more often in one pass than its budget allows, over
\* all the sessions the pass took.
JudgeBudget == \A a \in Attempts : \A s \in Scopes : work[a][s].calls <= MaxCalls

\* However often a pass is cut off, what it runs and asks keeps to these four.
WorkBounded == TypeOK /\ CheckedOnce /\ SuiteTogether /\ JudgeBudget /\ NoOrphanBeside

\* A grade that was not excluded accounts for every check, the facts and every
\* rubric, whatever was interrupted.
GradeComplete ==
    \A a \in Attempts : \A i \in DOMAIN chain[a] :
        chain[a][i].kind = "graded" /\ chain[a][i].ok =>
            LET w == work[a][chain[a][i].scope] IN
            /\ \A c \in Checks : w.results[c] # "none"
            /\ w.facts # "none"
            /\ \A r \in Rubrics : w.rubrics[r] # "none"

HasEvidence(a, i) ==
    chain[a][i].kind = "graded" /\ chain[a][i].ok =>
        {c \in Checks : work[a][chain[a][i].scope].results[c] = "ran"} \subseteq chain[a][i].evidence

\* The first grade of an attempt holds the evidence of every check it reports as
\* run, also of those that an earlier session ran.
FirstEvidenceKept ==
    \A a \in Attempts : \A i \in DOMAIN chain[a] : chain[a][i].scope = 0 => HasEvidence(a, i)

\* What the assessments of an attempt tell, taken together.
GradesSound == ChainIntact /\ GradedOncePerPass /\ GradeComplete /\ FirstEvidenceKept

\* Once faults stop, every attempt of the run gets its grade, and a regrade that
\* was started is finished: Known(a) leads to Graded(a), and Open # 0 to Open = 0.
Known(a)  == att[a].stage # "none"
Graded(a) == att[a].stage = "finished"
=============================================================================
