---------------------------- MODULE Interaction -----------------------------
(***************************************************************************)
(* How a running trial is conducted (runner_attempt.py, workflow.py).  The *)
(* runner delivers a message to the subject's terminal, waits for the      *)
(* subject's log to show it accepted and its turn ended, answers questions *)
(* that open meanwhile, and asks a stand-in for the user what to say next. *)
(* When the stand-in says the work is done, the workspace is inspected and *)
(* the verdicts decide: deliver the case's next prompt step, have the      *)
(* stand-in request a fix, or end the trial as complete.                   *)
(*                                                                         *)
(* The subject is a process of its own: it logs what it accepts and when a *)
(* turn ends, and shows dialogs, in any order and late.  What the driver   *)
(* knows of the log (read) trails it.  The stand-in and the inspector may  *)
(* give any answer, or none.  The runner may die between any two steps.    *)
(***************************************************************************)
EXTENDS Naturals, Sequences, FiniteSets

CONSTANTS
    Facts, Optional,    \* the facts inspected; those that are no requirement
    NPhases, PhaseOf,   \* the case's phases, in order; the phase of each fact
    AfterPhase,         \* the phase after which each prompt step is due
    Workflow,           \* RunOptions.workflow
    Screens,            \* question screens that the driver cannot parse
    Signals,            \* how the trial may be interrupted: cancelled, timeout
    Dialogs,            \* what else the subject may show: question, approval, exited
    MaxTurns, StandInReplies, MaxInspections,   \* RunOptions.budget
    MaxCalls,                                   \* the stand-in recipe's budget
    ScreenActions, ScreenWaits, ScreenSteps

ASSUME CaseAssumption ==
    /\ Optional \subseteq Facts
    /\ NPhases \in Nat
    /\ PhaseOf \in [Facts -> 1..NPhases]
    /\ AfterPhase \in Seq(1..NPhases)
    /\ \A i, j \in DOMAIN AfterPhase : i <= j => AfterPhase[i] <= AfterPhase[j]
ASSUME OptionsAssumption ==
    /\ Workflow \in BOOLEAN
    /\ Dialogs \subseteq {"question", "approval", "exited"}
    /\ Screens \cap {"question", "approval", "exited", "composer", "none"} = {}
ASSUME BudgetsAssumption ==
    /\ {MaxTurns, StandInReplies, MaxInspections} \subseteq Nat \ {0}
    /\ {MaxCalls, ScreenActions, ScreenWaits, ScreenSteps} \subseteq Nat

VARIABLES
    pc,           \* where the runner is
    back,         \* where it goes on after noting an acceptance
    obs,          \* the last observation
    accepted,     \* TrialExecution.accepted, and its value at delivery
    delivered,
    deliveries,
    position, pending, raised,  \* raised: pending_raise, its phase and calls
    ask,          \* the request to the stand-in: its purpose, first call, retry
    made,         \* stand-in calls made: they are numbered 1..made
    inspections, verdicts,
    refreshed, tally,           \* locals of the dialog and the screen loop
    stop,         \* stop_reason
    \* the driver
    count, read, counted, entered,
    \* the subject
    log, shown,
    \* the journal
    progress, saved, noted, raises, answers, credited, captured,
    \* the environment's signals
    cancelled, expired,
    \* history: what the submission carries, the step current at its delivery,
    \* the accepted turns that the last inspection saw, and the dialogs on
    \* which a key was pressed
    message, due, inspectedAt, keyed, fresh

runner  == <<accepted, delivered, deliveries, position, pending, raised>>
asking  == <<ask, made>>
judging == <<inspections, verdicts, inspectedAt>>
screen  == <<refreshed, tally>>
driver  == <<count, read, counted, entered>>
subject == <<log, shown>>
journal == <<progress, saved, noted, raises, answers, credited, captured>>
signals == <<cancelled, expired>>
keys    == <<keyed, fresh>>
history == <<message, due>>

vars == <<pc, back, obs, runner, asking, judging, screen, stop, driver, subject, journal,
          signals, keys, history>>

-----------------------------------------------------------------------------
NSteps == IF Workflow THEN Len(AfterPhase) ELSE 0
Calls == 1..StandInReplies
Verdicts == [Facts -> {"met", "unmet", "unclear"}]
Unjudged == [f \in Facts |-> "unclear"]

\* workflow.py: the earliest phase with an unmet requirement; 0 if there is none.
Unmet(v) == {PhaseOf[f] : f \in {g \in Facts \ Optional : v[g] = "unmet"}}

blocking_phase(v) ==
    IF Unmet(v) = {} THEN 0 ELSE CHOOSE p \in Unmet(v) : \A q \in Unmet(v) : p <= q

\* Mutant of next_workflow_action: the step of the blocking phase is sent too.
NextActionEager(at, v) ==
    LET blocker == blocking_phase(v)
    IN  CASE at < NSteps /\ (blocker = 0 \/ AfterPhase[at + 1] <= blocker) -> "deliver_prompt"
          [] OTHER -> IF blocker = 0 THEN "complete" ELSE "raise"

next_workflow_action(at, v) ==
    LET blocker == blocking_phase(v)
    IN  CASE at < NSteps /\ (blocker = 0 \/ AfterPhase[at + 1] < blocker) -> "deliver_prompt"
          [] OTHER -> IF blocker = 0 THEN "complete" ELSE "raise"

\* dialog_source: the step whose hint goes with a question; 0 if there is none.
dialog_source(end) == IF end < NSteps THEN end ELSE NSteps

\* _ask: the hint that goes with a question asked now.
Hint == dialog_source(IF pending THEN position + 1 ELSE position)

Interrupted == cancelled \/ expired
Interruption == IF cancelled THEN "cancelled" ELSE "timeout"

Settled == {"completed"}        \* completed and question: both let the trial go on
Awaits(o) == o \in {"structured_input", "unrecognized"}
StopReason(o) ==
    IF o \in {"approval", "structured_input", "unrecognized", "unsupported", "uncertain"}
    THEN "needs_input" ELSE o

NoRaise == [phase |-> 0, calls |-> {}]

NoTally == [steps |-> 0, acted |-> 0, waited |-> 0, pressed |-> FALSE, before |-> 0,
            cur |-> "none"]

\* What the driver makes of the log read as far as n, and of the screen.
Turn(n) == CASE n = 2 -> "completed" [] n = 3 -> "cancelled" [] OTHER -> "pending"
Sees(n) ==
    IF cancelled THEN "cancelled"
    ELSE CASE shown = "question" -> "structured_input"
           [] shown = "approval" -> "approval"
           [] shown \in Screens -> "unrecognized"
           [] shown = "exited" /\ n < 2 -> "exited"
           [] OTHER -> Turn(n)

\* observe_turn counts the acceptance of a submission once.
Count(n, observed) ==
    /\ count' = count + IF observed /\ n > 0 /\ ~ counted THEN 1 ELSE 0
    /\ counted' = (counted \/ (observed /\ n > 0))

\* The driver takes in the log and looks at the screen.
Look(n) ==
    /\ n \in read..log
    /\ read' = n
    /\ Count(n, ~ cancelled /\ shown \in {"composer", "exited"})
    /\ obs' = Sees(n)
    /\ UNCHANGED entered

-----------------------------------------------------------------------------
Init ==
    /\ pc = "start" /\ back = "proceed" /\ obs = "ready"
    /\ accepted = 0 /\ delivered = 0 /\ deliveries = 0
    /\ position = 0 /\ pending = FALSE /\ raised = NoRaise
    /\ ask = [for |-> "follow", before |-> 0, retry |-> TRUE] /\ made = 0
    /\ inspections = 0 /\ verdicts = Unjudged /\ inspectedAt = 0
    /\ refreshed = FALSE /\ tally = NoTally
    /\ stop = "none"
    /\ count = 0 /\ read = 0 /\ counted = FALSE /\ entered = FALSE
    /\ log = 0 /\ shown = "composer"
    /\ progress = 0 /\ saved = 0 /\ noted = 0 /\ raises = 0 /\ answers = 0
    /\ credited = [c \in Calls |-> 0] /\ captured = 0
    /\ cancelled = FALSE /\ expired = FALSE
    /\ message = "none" /\ due = 0
    /\ keyed = 0 /\ fresh = TRUE

Halt(reason) == stop' = reason /\ pc' = "ended"

\* _interact goes on only from a composer that is ready.
Start ==
    /\ pc = "start"
    /\ \/ pc' = "submit" /\ UNCHANGED <<obs, stop>>
       \/ \E o \in {"approval", "unrecognized", "exited", "timeout"} :
             obs' = o /\ Halt(StopReason(o))
    /\ UNCHANGED <<back, runner, asking, judging, screen, driver, subject, journal, signals,
                   keys, history>>

\* DriverSession.prepare and deliver, as far as Enter.  Enter is sent only to a
\* composer that holds the message; a read or a paste that is uncertain leaves it
\* to the turn's observation.
Deliver ==
    /\ log' = 0 /\ read' = 0 /\ counted' = FALSE
    /\ entered' \in {shown = "composer", FALSE}
    /\ \/ pc' = "wait" /\ UNCHANGED obs
       \/ ~ entered' /\ pc' = "settle" /\ obs' \in {"unsupported", Sees(0)} \ {"pending"}
    /\ UNCHANGED <<count, shown>>

Submit ==
    /\ pc = "submit"
    /\ IF Interrupted
       THEN /\ Halt(Interruption)
            /\ UNCHANGED <<obs, runner, driver, subject, history>>
       ELSE /\ deliveries' = deliveries + 1
            /\ delivered' = accepted
            /\ message' = CASE pending -> "step" [] raised # NoRaise -> "fix" [] OTHER -> "reply"
            /\ due' = IF pending THEN position + 1 ELSE position
            /\ Deliver
            /\ UNCHANGED <<accepted, position, pending, raised, stop>>
    /\ UNCHANGED <<back, asking, judging, screen, journal, signals, keys>>

-----------------------------------------------------------------------------
(* The subject.                                                            *)

Conduct == pc \notin {"ended", "captured"}

\* The steps at which the runner looks at the subject or at the signals.  What
\* happens between two of them is as if it happened just before the second.
Looking == pc \in {"submit", "wait", "calling", "inspect", "dialog_loop", "refresh", "select",
                  "answer_wait", "screen_loop", "act", "busy", "followed"}

Take ==
    /\ Looking /\ entered /\ log = 0
    /\ log' = 1
    /\ UNCHANGED <<pc, back, obs, runner, asking, judging, screen, stop, driver, shown,
                   journal, signals, keys, history>>

\* A turn completes (2) or is aborted (3).
Finish ==
    /\ Looking /\ log = 1
    /\ log' \in {2, 3}
    /\ UNCHANGED <<pc, back, obs, runner, asking, judging, screen, stop, driver, shown,
                   journal, signals, keys, history>>

Show ==
    /\ Looking /\ entered /\ shown # "exited"
    /\ shown' \in (Dialogs \cup Screens \cup {"composer"}) \ {shown}
    /\ fresh' = TRUE
    /\ UNCHANGED <<pc, back, obs, runner, asking, judging, screen, stop, driver, log, journal,
                   signals, keyed, history>>

Cancel ==
    /\ Looking /\ ~ cancelled /\ "cancelled" \in Signals
    /\ cancelled' = TRUE
    /\ UNCHANGED <<pc, back, obs, runner, asking, judging, screen, stop, driver, subject,
                   journal, expired, keys, history>>

\* The time that an inspection takes is not the subject's.
Expire ==
    /\ Looking /\ ~ expired /\ "timeout" \in Signals /\ pc # "inspect"
    /\ expired' = TRUE
    /\ UNCHANGED <<pc, back, obs, runner, asking, judging, screen, stop, driver, subject,
                   journal, cancelled, keys, history>>

-----------------------------------------------------------------------------
(* Waiting for the turn, and noting what the subject accepted.             *)

\* DriverSession._wait: until the observation is final, or the driver's
\* deadline or its polling limit is reached.
Waited ==
    \/ obs' = "timeout" /\ UNCHANGED driver
    \/ \E n \in 0..3 : Look(n) /\ obs' # "pending"

Wait ==
    /\ pc = "wait"
    /\ Waited
    /\ pc' = IF Awaits(obs') /\ entered THEN "dialogs" ELSE "settle"
    /\ UNCHANGED <<back, runner, asking, judging, screen, stop, subject, journal, signals,
                   keys, history>>

\* _dialogs begins with what the log already says of the submission.
EnterDialogs ==
    /\ pc = "dialogs"
    /\ Count(read, TRUE)
    /\ accepted' = count'
    /\ refreshed' = FALSE
    /\ back' = "dialog_loop"
    /\ pc' = IF accepted' > delivered THEN "accept" ELSE "dialog_loop"
    /\ UNCHANGED <<obs, delivered, deliveries, position, pending, raised, asking, judging,
                   tally, stop, read, entered, subject, journal, signals, keys, history>>

\* Mutant of Settle: whatever was sent is taken for accepted.
SettleAnyway ==
    /\ pc = "settle"
    /\ accepted' = count
    /\ noted' = count
    /\ back' = "proceed"
    /\ pc' = IF count >= accepted THEN "accept" ELSE "proceed"
    /\ UNCHANGED <<obs, delivered, deliveries, position, pending, raised, asking, judging,
                   screen, stop, driver, subject, progress, saved, raises, answers, credited, captured,
                   signals, keys, history>>

\* _interact after the turn: note the interaction in the journal.
Settle ==
    /\ pc = "settle"
    /\ accepted' = count
    /\ noted' = count
    /\ back' = "proceed"
    /\ pc' = IF count > accepted THEN "accept" ELSE "proceed"
    /\ UNCHANGED <<obs, delivered, deliveries, position, pending, raised, asking, judging,
                   screen, stop, driver, subject, progress, saved, raises, answers, credited, captured,
                   signals, keys, history>>

Credit(calls) == credited' = [c \in Calls |-> credited[c] + IF c \in calls THEN 1 ELSE 0]

\* _accept_pending: the workflow step, or the raise, goes to the journal.
Accept ==
    /\ pc = "accept"
    /\ \/ /\ pending
          /\ progress' = position + 1
          /\ position' = position + 1
          /\ message' = "noted"
          /\ pending' = FALSE
          /\ pc' = "save"
          /\ UNCHANGED <<raised, raises, credited>>
       \/ /\ ~ pending /\ raised # NoRaise
          /\ raises' = raises + 1
          /\ message' = "noted"
          /\ pc' = "fix_requested"
          /\ UNCHANGED <<position, pending, raised, progress, credited>>
       \/ /\ ~ pending /\ raised = NoRaise
          /\ pc' = back
          /\ UNCHANGED <<position, pending, raised, progress, raises, credited, message>>
    /\ UNCHANGED <<back, obs, accepted, delivered, deliveries, asking, judging, screen, stop,
                   driver, subject, saved, noted, answers, captured, signals, keys, due>>

\* _advance: the attempt state's workflow_position follows its record.
SavePosition ==
    /\ pc = "save"
    /\ saved' = position
    /\ pc' = "accept"
    /\ UNCHANGED <<back, obs, runner, asking, judging, screen, stop, driver, subject, progress,
                   noted, raises, answers, credited, captured, signals, keys, history>>

\* The raise event is followed by the workflow step that names its calls.
FixRequested ==
    /\ pc = "fix_requested"
    /\ Credit(raised.calls)
    /\ raised' = NoRaise
    /\ pc' = back
    /\ UNCHANGED <<back, obs, accepted, delivered, deliveries, position, pending, asking,
                   judging, screen, stop, driver, subject, progress, saved, noted, raises,
                   answers, captured, signals, keys, history>>

\* What was not accepted is given up; the trial goes on from a settled turn.
Proceed ==
    /\ pc = "proceed"
    /\ pending' = FALSE /\ raised' = NoRaise
    /\ IF obs \notin Settled
       THEN Halt(IF stop = "none" THEN StopReason(obs) ELSE stop) /\ UNCHANGED ask
       ELSE IF accepted >= MaxTurns THEN Halt("turn_budget") /\ UNCHANGED ask
       ELSE /\ pc' = "stand_in"
            /\ ask' = [for |-> "follow", before |-> made, retry |-> TRUE]
            /\ UNCHANGED stop
    /\ UNCHANGED <<back, obs, accepted, delivered, deliveries, position, made, judging, screen,
                   driver, subject, journal, signals, keys, history>>

-----------------------------------------------------------------------------
(* The stand-in.                                                           *)

\* Mutant of Undecided: the trial goes on without the stand-in.
UndecidedSends ==
    /\ pc' = IF ask.for \in {"follow", "fix"} THEN "submit" ELSE "settle"
    /\ obs' = IF ask.for = "screen" THEN "unsupported" ELSE obs

\* What a stand-in turn without a decision comes to, for each purpose.
Undecided ==
    /\ pc' = IF ask.for \in {"follow", "fix"} THEN "ended" ELSE "settle"
    /\ obs' = IF ask.for = "screen" THEN "unsupported" ELSE obs

MayAsk == made < StandInReplies /\ made < MaxCalls

\* _stand_in_turn as far as the call's intent.  The recipe's total time may be
\* spent once a call was made.
StandIn ==
    /\ pc = "stand_in"
    /\ \/ /\ MayAsk
          /\ made' = made + 1
          /\ pc' = "calling"
          /\ UNCHANGED <<obs, stop>>
       \/ /\ ~ MayAsk \/ made > 0
          /\ stop' = IF made >= StandInReplies THEN "stand_in_budget" ELSE "controller_budget"
          /\ Undecided
          /\ UNCHANGED made
    /\ UNCHANGED <<back, runner, ask, judging, screen, driver, subject, journal, signals, keys,
                   history>>

Decisions ==
    [follow |-> {"reply", "done", "declined"}, fix |-> {"reply"}, dialog |-> {"select"},
     screen |-> {"act", "busy", "approval"}]
Rejections ==
    [follow |-> {"empty_reply"}, fix |-> {"empty_reply", "stop_with_findings"},
     dialog |-> {"invalid"},
     screen |-> {"invalid"}]

\* What the runner does with a decision.
Decide(d) ==
    CASE ask.for = "follow" /\ d = "reply" -> pc' = "submit" /\ UNCHANGED <<obs, stop, raised>>
      [] ask.for = "follow" /\ d # "reply" ->
            /\ IF Workflow /\ d = "done" THEN pc' = "done_point" /\ UNCHANGED stop
                                         ELSE Halt("stand_in_stop")
            /\ UNCHANGED <<obs, raised>>
      [] ask.for = "fix" ->
            /\ raised' = [phase |-> blocking_phase(verdicts), calls |-> (ask.before + 1)..made]
            /\ pc' = "submit"
            /\ UNCHANGED <<obs, stop>>
      [] ask.for = "screen" /\ d = "approval" ->
            /\ stop' = "needs_input" /\ obs' = "approval" /\ pc' = "settle"
            /\ UNCHANGED raised
      [] OTHER -> pc' = d /\ UNCHANGED <<obs, stop, raised>>

\* _stand_in_turn once the call has come back.  A call that failed leaves its
\* processes stopped or not; one that was rejected has stopped them.
Answered ==
    /\ pc = "calling"
    /\ \/ /\ \E d \in Decisions[ask.for] : Decide(d)
          /\ UNCHANGED ask
       \/ \E error \in Rejections[ask.for] \cup {"failed"}, stopped \in BOOLEAN :
            /\ error # "failed" => stopped
            /\ CASE ask.retry /\ stopped /\ ~ Interrupted ->
                      /\ ask' = [ask EXCEPT !.retry = FALSE]
                      /\ pc' = "stand_in"
                      /\ UNCHANGED <<obs, stop, raised>>
                 [] error = "stop_with_findings" /\ ~ ask.retry /\ ~ Interrupted ->
                      Decide("reply") /\ UNCHANGED ask
                 [] OTHER ->
                      /\ stop' = IF Interrupted THEN Interruption
                                 ELSE IF error = "invalid" THEN "needs_input"
                                 ELSE "controller_error"
                      /\ Undecided
                      /\ UNCHANGED <<ask, raised>>
    /\ UNCHANGED <<back, accepted, delivered, deliveries, position, pending, made, judging,
                   screen, driver, subject, journal, signals, keys, history>>

-----------------------------------------------------------------------------
(* A done point.                                                           *)

DonePoint ==
    /\ pc = "done_point"
    /\ IF inspections >= MaxInspections
       THEN Halt("inspection_budget") /\ UNCHANGED inspections
       ELSE /\ inspections' = inspections + 1
            /\ pc' = "inspect"
            /\ UNCHANGED stop
    /\ UNCHANGED <<back, obs, runner, asking, verdicts, inspectedAt, screen, driver, subject,
                   journal, signals, keys, history>>

\* _inspect: the inspection is made again when events arrived meanwhile, and is
\* unavailable when they did each time, or when the inspector failed.  The
\* driver takes in the log before and after each attempt.
Inspect ==
    /\ pc = "inspect"
    /\ read' = log
    /\ \/ /\ Halt(IF Interrupted THEN Interruption ELSE "inspection_unavailable")
          /\ UNCHANGED <<ask, verdicts, inspectedAt, pending>>
       \/ \E v \in Verdicts :
            /\ verdicts' = v
            /\ inspectedAt' = accepted
            /\ LET action == next_workflow_action(position, v)
               IN  /\ pending' = (action = "deliver_prompt")
                   /\ ask' = IF action = "raise"
                             THEN [for |-> "fix", before |-> made, retry |-> TRUE] ELSE ask
                   /\ CASE action = "deliver_prompt" -> pc' = "submit" /\ UNCHANGED stop
                        [] action = "complete"       -> Halt("workflow_complete")
                        [] OTHER                     -> pc' = "stand_in" /\ UNCHANGED stop
    /\ UNCHANGED <<back, obs, accepted, delivered, deliveries, position, raised, made,
                   inspections, screen, count, counted, entered, subject, journal, signals,
                   keys, history>>

-----------------------------------------------------------------------------
(* Dialogs.                                                                *)

Ask(purpose, before) ==
    /\ ask' = [for |-> purpose, before |-> before, retry |-> TRUE]
    /\ pc' = "stand_in"

\* Mutant of Again: the turn is awaited as often as it shows no dialog.
AgainAndAgain == refreshed' = TRUE /\ pc' = "refresh"

Again == refreshed' = TRUE /\ pc' = IF refreshed THEN "settle" ELSE "refresh"

\* The loop of _dialogs: a question is put to the stand-in, so is a screen; of
\* neither, the turn is awaited once more.
DialogLoop ==
    /\ pc = "dialog_loop"
    /\ IF ~ Awaits(obs) \/ stop # "none"
       THEN pc' = "settle" /\ UNCHANGED <<ask, screen, stop>>
       ELSE IF Interrupted
       THEN stop' = Interruption /\ pc' = "settle" /\ UNCHANGED <<ask, screen>>
       ELSE \/ shown = "question" /\ Ask("dialog", made) /\ UNCHANGED <<screen, stop>>
            \/ /\ shown \in Screens
               /\ tally' = [NoTally EXCEPT !.before = made, !.cur = shown]
               /\ pc' = "screen_loop"
               /\ UNCHANGED <<ask, refreshed, stop>>
            \/ /\ shown \notin Screens \cup {"question"}
               /\ Again
               /\ UNCHANGED <<ask, tally, stop>>
    /\ UNCHANGED <<back, obs, runner, made, judging, driver, subject, journal, signals, keys,
                   history>>

Refresh ==
    /\ pc = "refresh"
    /\ Waited
    /\ pc' = "dialog_loop"
    /\ UNCHANGED <<back, runner, asking, judging, screen, stop, subject, journal, signals,
                   keys, history>>

\* A key reaches what is shown; a dialog counts once however many keys it got.
Press == keyed' = keyed + (IF fresh THEN 1 ELSE 0)

\* DriverSession.answer.  The dialog may have changed, or may not do what was
\* expected of it, after some keys or none; a verified answer closes it, and the
\* subject goes on or asks something else.
Select ==
    /\ pc = "select"
    /\ \/ /\ obs' \in {"unsupported", "timeout"} \cup (IF cancelled THEN {"cancelled"} ELSE {})
          /\ pc' = "dialog_loop"
          /\ UNCHANGED <<shown, keys>>
       \/ /\ shown = "question"
          /\ Press
          /\ fresh' = TRUE
          /\ shown' \in Dialogs \cup Screens \cup {"composer"}
          /\ IF shown' = "question" THEN obs' = "structured_input" ELSE UNCHANGED obs
          /\ pc' = IF shown' = "question" THEN "answered" ELSE "answer_wait"
    /\ UNCHANGED <<back, runner, asking, judging, screen, stop, driver, log, journal, signals,
                   history>>

AnswerWait ==
    /\ pc = "answer_wait"
    /\ Waited
    /\ pc' = "answered"
    /\ UNCHANGED <<back, runner, asking, judging, screen, stop, subject, journal, signals,
                   keys, history>>

\* _answered, for a dialog.
DialogAnswered ==
    /\ pc = "answered"
    /\ Credit((ask.before + 1)..made)
    /\ answers' = answers + 1
    /\ refreshed' = FALSE
    /\ pc' = "dialog_loop"
    /\ UNCHANGED <<back, obs, runner, asking, judging, tally, stop, driver, subject, progress,
                   saved, noted, raises, captured, signals, keys, history>>

-----------------------------------------------------------------------------
(* Screens.                                                                *)

\* The loop of _answer_screen.
ScreenLoop ==
    /\ pc = "screen_loop"
    /\ CASE Interrupted ->
              stop' = Interruption /\ obs' = "unsupported" /\ pc' = "settle" /\ UNCHANGED ask
         [] ~ Interrupted /\ ( \/ tally.steps >= ScreenSteps \/ tally.acted >= ScreenActions
                               \/ tally.waited >= ScreenWaits ) ->
              stop' = "needs_input" /\ obs' = "unsupported" /\ pc' = "settle" /\ UNCHANGED ask
         [] OTHER -> Ask("screen", made) /\ UNCHANGED <<obs, stop>>
    /\ UNCHANGED <<back, runner, made, judging, screen, driver, subject, journal, signals,
                   keys, history>>

\* DriverSession.act: nothing is sent to a screen that changed or closed, or
\* when the action is refused.  A key may be lost, or change what is shown.
Act ==
    /\ pc = "act"
    /\ \E pressed \in BOOLEAN :
         /\ tally' = [tally EXCEPT !.steps = @ + 1, !.acted = @ + 1, !.pressed = @ \/ pressed]
         /\ IF pressed
            THEN /\ shown = tally.cur /\ ~ cancelled
                 /\ Press
                 /\ \/ /\ obs' \in {"uncertain", "timeout"}
                       /\ fresh' = FALSE
                       /\ UNCHANGED <<shown, driver>>
                    \/ /\ shown' \in Dialogs \cup Screens \cup {"composer"}
                       /\ fresh' = (shown' # shown)
                       /\ IF shown' \in Screens THEN obs' = "unrecognized" /\ UNCHANGED driver
                          ELSE IF shown' = "composer"
                          THEN /\ read' = log /\ Count(log, TRUE) /\ obs' = Turn(log)
                               /\ UNCHANGED entered
                          ELSE /\ obs' = CASE shown' = "question" -> "structured_input"
                                           [] shown' = "approval" -> "approval"
                                           [] OTHER -> "exited"
                               /\ UNCHANGED driver
                 /\ pc' = "followed"
                 /\ UNCHANGED stop
            ELSE /\ \/ /\ \E n \in 0..3 : Look(n)
                       /\ pc' = "followed"
                       /\ UNCHANGED stop
                    \/ /\ shown = tally.cur
                       /\ obs' = "approval" /\ stop' = "needs_input" /\ pc' = "settle"
                       /\ UNCHANGED driver
                 /\ UNCHANGED <<shown, keys>>
    /\ UNCHANGED <<back, runner, asking, judging, refreshed, log, journal, signals, history>>

\* DriverSession.await_change.
Busy ==
    /\ pc = "busy"
    /\ tally' = [tally EXCEPT !.steps = @ + 1, !.waited = @ + 1]
    /\ \/ /\ obs' = "timeout" /\ pc' = "followed" /\ UNCHANGED <<stop, driver>>
       \/ /\ \E n \in 0..3 : Look(n)
          /\ pc' = "followed"
          /\ UNCHANGED stop
       \/ /\ log > 1 /\ read' = log
          /\ Count(log, TRUE)
          /\ obs' = Turn(log)
          /\ pc' = "followed"
          /\ UNCHANGED <<stop, entered>>
       \/ /\ obs' = "unsupported" /\ stop' = "needs_input" /\ pc' = "settle"
          /\ UNCHANGED driver
    /\ UNCHANGED <<back, runner, asking, judging, refreshed, subject, journal, signals, keys,
                   history>>

\* Mutant of NewTally: the calls made for the last screen are kept.
NewTallyCalls(cur) ==
    [tally EXCEPT !.acted = 0, !.waited = 0, !.pressed = FALSE, !.cur = cur]

NewTally(cur) ==
    [tally EXCEPT !.acted = 0, !.waited = 0, !.pressed = FALSE, !.before = made, !.cur = cur]

\* The screen that follows: another screen means that this one was answered.
Followed ==
    /\ pc = "followed"
    /\ LET following == IF Awaits(obs) /\ shown \in Screens THEN shown ELSE "none"
           unsettled == obs \in {"cancelled", "timeout", "exited", "uncertain"}
       IN  /\ IF following # tally.cur
              THEN /\ tally' = NewTally(following)
                   /\ IF tally.pressed /\ ~ unsettled
                      THEN /\ answers' = answers + 1
                           /\ Credit((tally.before + 1)..made)
                      ELSE UNCHANGED <<answers, credited>>
              ELSE UNCHANGED <<tally, answers, credited>>
           /\ refreshed' = FALSE
           /\ pc' = CASE following # "none" -> "screen_loop"
                      [] following = "none" /\ obs = "pending" -> "refresh"
                      [] OTHER -> "dialog_loop"
    /\ UNCHANGED <<back, obs, runner, asking, judging, stop, driver, subject, progress, saved,
                   noted, raises, captured, signals, keys, history>>

-----------------------------------------------------------------------------
\* What the frames of the interaction held is gone when they unwind.
Unwind ==
    /\ ask' = [for |-> "follow", before |-> 0, retry |-> TRUE]
    /\ refreshed' = FALSE /\ tally' = NoTally
    /\ back' = "proceed"

\* The driver or the journal raised: execute catches it.
Raise ==
    /\ Conduct
    /\ Halt(IF cancelled THEN "cancelled" ELSE "error")
    /\ Unwind
    /\ UNCHANGED <<obs, runner, made, judging, driver, subject, journal, signals, keys,
                   history>>

\* Mutant of Progress: the position is taken from the attempt state.
ProgressSaved == saved

\* workflow_progress: what the capture says of the workflow is replayed from the
\* journal's workflow steps.
Progress == progress

\* Captured: the trial's execution, its driver and its subject are gone.
Close ==
    /\ pc' = "captured"
    /\ captured' = Progress
    /\ Unwind
    /\ obs' = "ready" /\ delivered' = 0 /\ pending' = FALSE
    /\ raised' = NoRaise
    /\ verdicts' = Unjudged /\ inspectedAt' = 0
    /\ read' = 0 /\ counted' = FALSE /\ entered' = FALSE /\ shown' = "composer"
    /\ cancelled' = FALSE /\ expired' = FALSE /\ due' = 0 /\ fresh' = TRUE
    /\ UNCHANGED <<deliveries, position, count, progress, saved, noted, raises, answers,
                   credited, made, inspections, message, log, keyed>>

\* The capture by the runner itself.
Capture ==
    /\ pc = "ended"
    /\ Close
    /\ UNCHANGED <<accepted, stop>>

\* recover_attempt after a crash: accepted comes from the interactions noted.
Crash ==
    /\ Conduct
    /\ Close
    /\ accepted' = noted
    /\ stop' = "interrupted"

Over == pc = "captured" /\ UNCHANGED vars

Runner ==
    \/ Start \/ Submit \/ Wait \/ EnterDialogs \/ Settle \/ Accept \/ SavePosition
    \/ FixRequested \/ Proceed \/ StandIn \/ Answered \/ DonePoint \/ Inspect \/ DialogLoop
    \/ Refresh \/ Select \/ AnswerWait \/ DialogAnswered \/ ScreenLoop \/ Act \/ Busy
    \/ Followed \/ Capture

Next == Runner \/ Take \/ Finish \/ Show \/ Cancel \/ Expire \/ Raise \/ Crash \/ Over

Spec == Init /\ [][Next]_vars

\* The runner's own thread is never suspended for ever: each of its waits is
\* bounded by a deadline.  Nothing is assumed of the subject or the environment.
FairSpec == Spec /\ WF_vars(Runner)

-----------------------------------------------------------------------------
TypeOK ==
    /\ pc \in {"start", "submit", "wait", "dialogs", "settle", "accept", "save", "proceed",
               "fix_requested", "stand_in", "calling", "done_point", "inspect", "dialog_loop",
               "refresh", "select", "answer_wait", "answered", "screen_loop", "act", "busy",
               "followed", "ended", "captured"}
    /\ back \in {"proceed", "dialog_loop"}
    /\ {accepted, delivered, count, noted, inspectedAt} \subseteq 0..MaxTurns
    /\ deliveries \in 0..(MaxTurns + 1)
    /\ {position, progress, saved, captured, due} \subseteq 0..NSteps
    /\ {pending, counted, entered, refreshed, cancelled, expired, fresh} \subseteq BOOLEAN
    /\ raised \in [phase : 0..NPhases, calls : SUBSET Calls]
    /\ ask \in [for : DOMAIN Decisions, before : 0..StandInReplies, retry : BOOLEAN]
    /\ made \in 0..StandInReplies
    /\ inspections \in 0..MaxInspections
    /\ verdicts \in Verdicts
    /\ tally \in [steps : 0..ScreenSteps, acted : 0..ScreenActions, waited : 0..ScreenWaits,
                  pressed : BOOLEAN, before : 0..StandInReplies, cur : Screens \cup {"none"}]
    /\ log \in 0..3 /\ read \in 0..3 /\ read <= log
    /\ shown \in Dialogs \cup Screens \cup {"composer"}
    /\ credited \in [Calls -> Nat]
    /\ {raises, answers, keyed} \subseteq Nat
    /\ message \in {"none", "reply", "step", "fix", "noted"}

\* A stop_reason of "workflow_complete" stands on a closing inspection: it was
\* made after the last message the subject accepted, every prompt step had been
\* delivered, and it left no requirement unmet in any phase.
CompletionJudged ==
    pc = "ended" /\ stop = "workflow_complete" =>
        /\ position = NSteps /\ ~ pending /\ raised = NoRaise
        /\ inspectedAt = accepted /\ accepted = count
        /\ \A f \in Facts \ Optional : verdicts[f] # "unmet"

\* A prompt step is in flight only when its phase and every earlier one were
\* last seen without an unmet requirement, and a request to fix only when that
\* is so of every phase before the one it is about.
PhasesInOrder ==
    LET clear(p) == \A f \in Facts \ Optional : PhaseOf[f] <= p => verdicts[f] # "unmet"
    IN  /\ pending => clear(AfterPhase[position + 1])
        /\ raised # NoRaise => ~ clear(raised.phase) /\ clear(raised.phase - 1)

\* Both of the workflow: complete means judged complete, and nothing goes out
\* before its phase.
WorkflowKept == CompletionJudged /\ PhasesInOrder

\* Whatever is asked of the stand-in during a turn goes with the hint of the
\* step that the turn delivers, or delivered last: it does not depend on whether
\* the step's acceptance has been noted yet.
HintStable ==
    pc = "calling" /\ ask.for \in {"dialog", "screen"} =>
        Hint = due

\* A call of the stand-in is named by one workflow step at most: no exchange is
\* credited to two dialogs, or to a dialog and a request to fix.
CallsCreditedOnce == \A c \in Calls : credited[c] <= 1

\* The journal has no more answers than there were dialogs that got a key.
AnswersEarned == answers <= keyed

\* Both of the credit for answers.
CreditExact == CallsCreditedOnce /\ AnswersEarned

\* The capture, after a crash too, tells every prompt step that was noted; and
\* a trial that ends by itself has noted every step and every request to fix
\* whose acceptance the driver counted.
NothingLost ==
    /\ pc = "captured" => captured = position
    /\ pc = "ended" /\ stop \notin {"error", "cancelled"} /\ counted =>
           message \notin {"step", "fix"}

\* Both of them: whenever its acceptance is seen, a step is told and noted once.
StepsNoted == HintStable /\ NothingLost

\* Once there is a reason to stop, nothing more is sent to the subject, no call
\* of the stand-in or inspection begins, and only a failure replaces the reason.
StopFinal ==
    [][stop # "none" =>
         /\ UNCHANGED <<deliveries, made, inspections, keyed>>
         /\ stop' \in {stop, "error", "cancelled", "interrupted"}]_vars

\* The trial ends, by its budgets alone if need be: no deadline is needed.
Ends == <>(pc = "captured")

\* How the case's workflow ended, if it did.
Outcome ==
    IF pc \notin {"ended", "captured"} THEN "running"
    ELSE IF stop = "workflow_complete" THEN "complete" ELSE "ended"

Abstract == INSTANCE CaseWorkflow WITH
    inflight <- message, taken <- log > 0, position <- progress, outcome <- Outcome

\* The interaction keeps the workflow's promises.
Promises == Abstract!Spec
=============================================================================
