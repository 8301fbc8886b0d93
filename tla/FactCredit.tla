------------------------------- MODULE FactCredit -------------------------------
(* How the facts of a case are credited to the subject (fact_metrics.py,        *)
(* assessments.py, workflow.py): an attempt is conducted, live, and graded      *)
(* later from what it left behind, its stand-in calls and its journal. Who told *)
(* the subject what, how far it came and what each inspection decided are       *)
(* reconstructed from there, and must be what they were.                        *)
EXTENDS Naturals, Sequences, FiniteSetsExt

CONSTANTS
    Facts, Optional,      \* the graded facts; those that are no requirement
    Proactive, Verified,  \* those the stand-in tells unasked; those with a verifier
    NPhases, PhaseOf, AfterPhase, Workflow,
    Finals,               \* final verdicts; none: no result
    Stops,                \* how an attempt may end that neither completes nor spends a budget
    MaxCalls, MaxInspections

VARIABLES
    at,         \* ready, inspecting, deciding, fixing, sending, over, graded
    accepted, position,
    sending,    \* the message that is sent: what it tells, and what is noted once it is accepted
    calls,      \* the attempt's stand-in calls
    records,    \* the journal's inspections, results or intents alone
    raises, events,   \* its raise events and workflow-step events
    stop, results,
    told        \* history: the facts that ordinary replies it accepted cited, or accepted fixes handed

live == <<calls, records, raises, events>>
vars == <<at, accepted, position, sending, live, stop, results, told>>

Requirements == Facts \ Optional
Eligible == Requirements \ Proactive
Unmet(v) == {PhaseOf[f] : f \in {g \in Requirements : v[g] = "unmet"}}
Blocking(v) == Min(Unmet(v) \cup {NPhases + 1})     \* past the last phase when none blocks

NextAction(pos, v) ==
    IF pos < Len(AfterPhase) /\ AfterPhase[pos + 1] < Blocking(v) THEN "deliver_prompt"
    ELSE IF Blocking(v) > NPhases THEN "complete" ELSE "raise"

RaisedFacts(v) == {f \in Facts : PhaseOf[f] = Blocking(v) /\ v[f] = "unmet"}

InspectionVerdict(pos, record) ==
    CASE record.status # "completed" -> "unavailable"
      [] NextAction(pos, record.verdicts) = "raise" -> "failed"
      [] \E f \in Verified \cap Requirements : record.verdicts[f] = "unclear" -> "unavailable"
      [] OTHER -> "passed"

None == [kind |-> "none"]

Init ==
    /\ at = "ready" /\ accepted = 1 /\ position = 0 /\ sending = None
    /\ calls = <<>> /\ records = <<>> /\ raises = <<>> /\ events = <<>>
    /\ stop = "none" /\ results = [f \in Facts |-> "none"] /\ told = {}

-----------------------------------------------------------------------------
(* The attempt.                                                            *)

Stopped(reason) == stop' = reason /\ at' = "over"

Called(status, action, screen, cited) ==
    /\ Len(calls) < MaxCalls
    /\ calls' = Append(calls, [status |-> status, action |-> action, screen |-> screen, cited |-> cited])

\* The stand-in is asked: it replies, or answers a dialog; acts on a screen; or stops.
Reply ==
    /\ at = "ready"
    /\ \E cited \in SUBSET Facts :
          /\ Called("completed", "reply", FALSE, cited)
          /\ sending' = [kind |-> "reply", tells |-> cited \cap Eligible]
    /\ at' = "sending"
    /\ UNCHANGED <<accepted, position, records, raises, events, stop, results, told>>

ScreenAnswer ==
    /\ at = "ready"
    /\ \E cited \in SUBSET Facts : Called("completed", "reply", TRUE, cited)
    /\ UNCHANGED <<at, accepted, position, sending, records, raises, events, stop, results, told>>

Follow ==
    /\ at = "ready"
    /\ Called("completed", "stop", FALSE, {})
    /\ \/ Stopped("stand_in_stop")
       \/ /\ Workflow
          /\ IF Len(records) = MaxInspections THEN Stopped("inspection_budget")
             ELSE at' = "inspecting" /\ UNCHANGED stop
    /\ UNCHANGED <<accepted, position, sending, records, raises, events, results, told>>

\* The intent, then the result and a workflow event with its verdict; killed, the intent alone is left.
Inspect ==
    /\ at = "inspecting"
    /\ \E status \in {"completed", "unavailable", "unknown"}, v \in [Facts -> {"met", "unmet", "unclear"}] :
        LET record == [turn |-> accepted, status |-> status, verdicts |-> v] IN
          /\ status # "completed" => v = [f \in Facts |-> "unclear"]
          /\ records' = Append(records, record)
          /\ CASE status = "completed" -> at' = "deciding" /\ UNCHANGED stop
               [] status = "unavailable" -> Stopped("inspection_unavailable")
               [] OTHER -> Stopped("interrupted")
          /\ IF status = "unknown" THEN UNCHANGED events
             ELSE events' = Append(events, [kind |-> "inspect", turn |-> accepted,
                                            outcome |-> InspectionVerdict(position, record), calls |-> {}])
    /\ UNCHANGED <<accepted, position, sending, calls, raises, results, told>>

DonePoint ==
    /\ at = "deciding"
    /\ LET v == records[Len(records)].verdicts IN
       CASE NextAction(position, v) = "complete" -> Stopped("workflow_complete") /\ UNCHANGED sending
         [] NextAction(position, v) = "deliver_prompt" ->
              /\ sending' = [kind |-> "step", turn |-> accepted]
              /\ at' = "sending"
              /\ UNCHANGED stop
         [] OTHER ->
              /\ sending' = [kind |-> "fix", handed |-> RaisedFacts(v), before |-> Len(calls)]
              /\ at' = "fixing"
              /\ UNCHANGED stop
    /\ UNCHANGED <<accepted, position, live, results, told>>

\* The stand-in requests the fix; after two answers that stop, a fixed text does.
RequestFix ==
    /\ at = "fixing"
    /\ \/ /\ \E cited \in SUBSET Facts : Called("completed", "reply", FALSE, cited)
          /\ at' = "sending"
       \/ /\ Called("failed", "stop", FALSE, {})
          /\ at' = IF Len(calls) > sending.before THEN "sending" ELSE "fixing"
    /\ sending' = [sending EXCEPT !.kind = IF at' = "sending" THEN "request" ELSE "fix"]
    /\ UNCHANGED <<accepted, position, records, raises, events, stop, results, told>>

\* The subject accepts what was sent, and it is noted (_accept_pending).
Accept ==
    /\ at = "sending"
    /\ at' = "ready" /\ accepted' = accepted + 1 /\ sending' = None
    /\ CASE sending.kind = "reply" ->
              told' = told \cup sending.tells /\ UNCHANGED <<position, raises, events>>
         [] sending.kind = "step" ->
              /\ position' = position + 1
              /\ events' = Append(events, [kind |-> "prompt", turn |-> sending.turn, outcome |-> "sent", calls |-> {}])
              /\ UNCHANGED <<raises, told>>
         [] OTHER ->
              /\ raises' = Append(raises, [call |-> Len(calls), facts |-> sending.handed])
              /\ events' = Append(events, [kind |-> "inspect", turn |-> accepted, outcome |-> "fix_requested",
                                           calls |-> (sending.before + 1)..Len(calls)])
              /\ told' = told \cup sending.handed
              /\ UNCHANGED position
    /\ UNCHANGED <<calls, records, stop, results>>

\* A budget is spent, the time is up, the subject exits, the run is interrupted.
Stop ==
    /\ at \in {"ready", "fixing", "sending"}
    /\ \E reason \in Stops : Stopped(reason)
    /\ UNCHANGED <<accepted, position, sending, live, results, told>>

-----------------------------------------------------------------------------
(* The account, from what was captured and the journal.                    *)

BudgetStops == {"turn_budget", "stand_in_budget", "controller_budget"}
SubjectStops == BudgetStops \cup {"timeout", "stand_in_stop", "workflow_complete"}

Assisted == UNION {events[i].calls : i \in {j \in DOMAIN events : events[j].outcome = "fix_requested"}}
Raising(call) == {i \in DOMAIN raises : raises[i].call = call}
Raised(f) == \E i \in DOMAIN raises : f \in raises[i].facts

Ordinary(call) ==
    /\ Raising(call) = {}
    /\ calls[call].status = "completed" /\ calls[call].action = "reply" /\ ~ calls[call].screen
    /\ call \notin Assisted

\* elicited_facts: cited in an ordinary reply before it was raised.
Elicited(f) ==
    /\ f \in Eligible
    /\ \E call \in DOMAIN calls :
         /\ Ordinary(call) /\ f \in calls[call].cited
         /\ \A i \in DOMAIN raises : raises[i].call < call => f \notin raises[i].facts

Completed == {i \in DOMAIN records : records[i].status = "completed"}

Reached ==
    IF Workflow THEN 1..Max({1} \cup {Min({Blocking(records[i].verdicts), NPhases}) : i \in Completed})
    ELSE 1..NPhases

Credit(f) ==
    CASE PhaseOf[f] \notin Reached -> "unreached"
      [] results[f] # "met" -> "unmet"
      [] Raised(f) -> "corrected"
      [] Elicited(f) -> "elicited"
      [] OTHER -> "own"

\* The independence score is withheld unless what it covers is settled.
Scored == {f \in Eligible : Credit(f) # "unreached"}
Independent == Scored # {} /\ \A f \in Scored : results[f] \in {"met", "unmet"}

AttemptOutcome ==
    LET failed == {f \in Requirements : results[f] = "unmet"}
        some(verdict) == \E f \in Requirements : results[f] = verdict
    IN  CASE (\E f \in failed : PhaseOf[f] \in Reached) \/ (failed # {} /\ stop \in SubjectStops) -> "fail"
          [] some("none") -> "grading_error"
          [] some("disputed") -> "disputed"
          [] some("unclear") -> "unclear"
          [] failed # {} -> "phase_unreached"
          [] OTHER -> "pass"

\* Mutant of SentBefore: the step that an inspection released counts as sent before it.
SentUpTo(turn) == Cardinality({i \in DOMAIN events : events[i].kind = "prompt" /\ events[i].turn <= turn})

\* workflow_outcome: the position at an inspection is the number of steps sent before its turn.
SentBefore(turn) == Cardinality({i \in DOMAIN events : events[i].kind = "prompt" /\ events[i].turn < turn})

VerdictOf(record) ==
    IF record.status = "unknown" THEN "unknown" ELSE InspectionVerdict(SentBefore(record.turn), record)

Grade ==
    /\ at = "over"
    /\ results' \in [Facts -> Finals]
    /\ at' = "graded"
    /\ UNCHANGED <<accepted, position, sending, live, stop, told>>

Graded == at = "graded" /\ UNCHANGED vars

Next ==
    \/ Reply \/ ScreenAnswer \/ Follow \/ Inspect \/ DonePoint \/ RequestFix \/ Accept \/ Stop
    \/ Grade \/ Graded

Spec == Init /\ [][Next]_vars

-----------------------------------------------------------------------------
Verdict(i) == VerdictOf(records[i])
Noted == SelectSeq(events, LAMBDA e : e.kind = "inspect" /\ e.outcome # "fix_requested")

\* What a subject is credited with as its own it met untold: no ordinary reply that it accepted cited it
\* and no fix request that it accepted handed it. What it was told to fix it is never credited for, and
\* what it was told to fix lies in a phase that it reached.
OwnWork ==
    /\ \A f \in Facts : Credit(f) = "own" => f \notin told
    /\ \A f \in Facts : Raised(f) => PhaseOf[f] \in Reached /\ Credit(f) \in {"corrected", "unmet"}
    /\ \A f \in Facts : Credit(f) = "elicited" => \E call \in DOMAIN calls :
         f \in calls[call].cited /\ calls[call].action = "reply" /\ ~ calls[call].screen

\* What is read back of the inspections is what was decided then, and of the steps what was sent.
ReadBack ==
    /\ SentBefore(accepted) = position
    /\ Len(Noted) = Cardinality({i \in DOMAIN records : records[i].status # "unknown"})
    /\ \A i \in DOMAIN Noted : Verdict(i) = Noted[i].outcome
    /\ Len(raises) <= Cardinality({i \in DOMAIN records : Verdict(i) = "failed"})

\* A pass means that every requirement is met; a workflow that is complete reached every phase, so that
\* no verdict is withheld for a phase, and a score is known only for verdicts that are.
OutcomeSound ==
    /\ AttemptOutcome = "pass" <=> \A f \in Requirements : results[f] = "met"
    /\ AttemptOutcome = "fail" => \E f \in Requirements : results[f] = "unmet"
    /\ stop = "workflow_complete" =>
         /\ Reached = 1..NPhases /\ position = Len(AfterPhase)
         /\ AttemptOutcome # "phase_unreached" /\ Verdict(Len(records)) # "failed"
    /\ Independent => \A f \in Eligible : Credit(f) = "unmet" => results[f] = "unmet"

AccountSound == at = "graded" => OwnWork /\ ReadBack /\ OutcomeSound
=============================================================================
