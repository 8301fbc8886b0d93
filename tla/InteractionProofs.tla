-------------------------- MODULE InteractionProofs --------------------------
(***************************************************************************)
(* Proofs about Interaction, for every case, every budget and every way in *)
(* which the subject and the stand-in may behave: complete means judged    *)
(* complete and nothing goes out before its phase, an answer is credited   *)
(* once and only to a dialog that got a key, no step is lost or told       *)
(* twice, a reason to stop is final, and the interaction implements the    *)
(* workflow that CaseWorkflow states.                                      *)
(*                                                                         *)
(* The inductive invariant IInv says, for each place that the runner can   *)
(* be at, what it knows there: how many messages were accepted (Counted),  *)
(* what the message in flight is and whether it was noted (Sent), where    *)
(* the workflow is (Positioned), which calls are still to be credited      *)
(* (Creditable), and whether the dialog that is shown has got a key        *)
(* (Pressed).  TLC checks it on small instances; here every action is      *)
(* shown to keep it, by a lemma of its own.                                *)
(***************************************************************************)
EXTENDS Interaction, WellFoundedInduction, TLAPS

-----------------------------------------------------------------------------
(* The types, by what the steps change together.                           *)

TypeOfPlace ==
    /\ pc \in {"start", "submit", "wait", "dialogs", "settle", "accept", "save", "proceed",
               "fix_requested", "stand_in", "calling", "done_point", "inspect", "dialog_loop",
               "refresh", "select", "answer_wait", "answered", "screen_loop", "act", "busy",
               "followed", "ended", "captured"}
    /\ back \in {"proceed", "dialog_loop"}
TypeOfTurns ==
    /\ accepted \in 0..MaxTurns /\ delivered \in 0..MaxTurns /\ count \in 0..MaxTurns
    /\ noted \in 0..MaxTurns /\ inspectedAt \in 0..MaxTurns
    /\ deliveries \in 0..(MaxTurns + 1)
TypeOfSteps ==
    /\ position \in 0..NSteps /\ progress \in 0..NSteps /\ saved \in 0..NSteps
    /\ captured \in 0..NSteps /\ due \in 0..NSteps
    /\ pending \in BOOLEAN
    /\ message \in {"none", "reply", "step", "fix", "noted"}
TypeOfAsking ==
    /\ ask \in [for : {"follow", "fix", "dialog", "screen"}, before : 0..StandInReplies, retry : BOOLEAN]
    /\ made \in 0..StandInReplies
    /\ raised \in [phase : 0..NPhases, calls : SUBSET Calls]
    /\ credited \in [Calls -> Nat]
TypeOfJudging ==
    /\ inspections \in 0..MaxInspections
    /\ verdicts \in Verdicts
TypeOfScreen ==
    /\ tally \in [steps : 0..ScreenSteps, acted : 0..ScreenActions, waited : 0..ScreenWaits,
                  pressed : BOOLEAN, before : 0..StandInReplies, cur : Screens \cup {"none"}]
    /\ refreshed \in BOOLEAN
TypeOfSubject ==
    /\ log \in 0..3 /\ read \in 0..3 /\ read <= log
    /\ shown \in Dialogs \cup Screens \cup {"composer"}
    /\ counted \in BOOLEAN /\ entered \in BOOLEAN /\ fresh \in BOOLEAN
    /\ cancelled \in BOOLEAN /\ expired \in BOOLEAN
    /\ raises \in Nat /\ answers \in Nat /\ keyed \in Nat

Types ==
    /\ TypeOfPlace /\ TypeOfTurns /\ TypeOfSteps /\ TypeOfAsking /\ TypeOfJudging
    /\ TypeOfScreen /\ TypeOfSubject
-----------------------------------------------------------------------------
(* Where the runner is.                                                    *)

Conversing == {"stand_in", "calling"}

\* A message is under way: from Enter to the decision of what comes next.
AtScreen ==
    pc \in {"screen_loop", "act", "busy", "followed"} \/ (pc \in Conversing /\ ask.for = "screen")
AtDialog ==
    pc \in {"select", "answer_wait", "answered"} \/ (pc \in Conversing /\ ask.for = "dialog")
Noting == pc \in {"accept", "save", "fix_requested"}
InTurn ==
    Noting \/ AtScreen \/ AtDialog
    \/ pc \in {"wait", "dialogs", "settle", "proceed", "dialog_loop", "refresh"}

\* No message is under way: the trial starts, or looks for the next message.
Between ==
    pc \in {"start", "submit", "done_point", "inspect"}
    \/ (pc \in Conversing /\ ask.for \in {"follow", "fix"})

\* Nothing was sent yet.
Unsent == pc \in {"start", "submit"} /\ accepted = 0

-----------------------------------------------------------------------------
(* The inductive invariant.                                                *)

Observations == {"ready", "pending", "completed", "cancelled", "timeout", "exited", "uncertain", "unsupported",
                 "approval", "structured_input", "unrecognized"}

\* The observations and the reasons to stop; completion is a reason of its own.
Named ==
    /\ obs \in Observations
    /\ pc \notin {"ended", "captured"} => stop # "workflow_complete"

\* How many messages the subject accepted: within a turn, those accepted before it and, once
\* its own was counted, that one.
Counted ==
    /\ counted => read > 0
    /\ pc \notin {"ended", "captured"} /\ log > 0 => entered
    /\ InTurn =>
        /\ delivered < MaxTurns /\ deliveries = delivered + 1
        /\ count = delivered + IF counted THEN 1 ELSE 0
        /\ accepted \in {delivered, count}
    /\ Noting \/ pc = "proceed" => accepted = count
    /\ Noting => counted
    /\ InTurn /\ pc # "wait" /\ obs = "completed" => counted
    /\ Between =>
        /\ count = accepted /\ deliveries = accepted /\ accepted < MaxTurns
        /\ counted <=> accepted > 0
        /\ pc \notin {"start", "submit"} => accepted > 0

\* What the message is that was sent last, and whether it was noted.
Sent ==
    /\ ~ (pending /\ raised # NoRaise)
    /\ Unsent => message = "none" /\ log = 0 /\ ~ entered
    /\ Between /\ accepted > 0 => message \in {"reply", "noted"}
    /\ Between /\ pc # "submit" => ~ pending /\ raised = NoRaise
    /\ InTurn =>
        /\ message # "none"
        /\ message = "step" <=> pending
        /\ message = "fix" => raised # NoRaise
        /\ raised # NoRaise => message = "fix" \/ pc = "fix_requested"
        /\ message = "noted" => counted
    /\ InTurn /\ ~ Noting /\ accepted > delivered => ~ pending /\ raised = NoRaise
    /\ pc \in {"save", "fix_requested"} => ~ pending /\ message = "noted"
    /\ pc = "ended" /\ stop \notin {"error", "cancelled"} /\ counted => message \notin {"step", "fix"}

\* Where the workflow is: the journal's position is the runner's, and the message in flight
\* belongs to the step after it when it is that step.
Positioned ==
    /\ progress = position
    /\ pending => position < NSteps
    /\ InTurn => due = position + IF pending THEN 1 ELSE 0
    /\ pc = "captured" => captured = position

\* A reason to stop leads out of the turn, whose observation does not let the trial go on.
Stopping ==
    /\ pc \notin {"ended", "captured"} /\ stop # "none" =>
        /\ pc \in {"settle", "proceed"} \/ (Noting /\ back = "proceed")
        /\ obs # "completed"
    /\ pc \in Conversing /\ ask.for = "dialog" => Awaits(obs)

\* The last inspection is why a step or a fix was sent, and why the trial is complete.
Judged ==
    /\ CompletionJudged
    /\ PhasesInOrder
    /\ pc \in Conversing /\ ask.for = "fix" => blocking_phase(verdicts) # 0

\* The calls that are still to be credited: to the fix under way, to the question, to the screen.
Open(before) ==
    /\ before <= made
    /\ \A c \in Calls : c > before => credited[c] = 0
    /\ \A c \in raised.calls : c <= before
Creditable ==
    /\ CallsCreditedOnce
    /\ \A c \in Calls : c > made => credited[c] = 0
    /\ \A c \in raised.calls : c <= made /\ credited[c] = 0
    /\ AtDialog \/ (pc \in Conversing /\ ask.for = "fix") => Open(ask.before)
    /\ AtScreen => Open(tally.before)

\* The dialogs on which a key was pressed, and whether the one that is shown is among them.
Pressed ==
    /\ AnswersEarned
    /\ ~ fresh => shown \in Screens
    /\ AtScreen =>
        /\ tally.pressed => answers < keyed
        /\ ~ fresh => shown = tally.cur /\ tally.pressed
    /\ pc \in {"answer_wait", "answered"} => answers < keyed
    /\ AtDialog \/ pc \in {"dialogs", "refresh"} => fresh
    /\ pc = "wait" /\ entered => fresh
    /\ pc = "dialog_loop" /\ Awaits(obs) => fresh
    /\ Noting /\ back = "dialog_loop" => fresh
    /\ pc = "followed" /\ obs = "pending" => fresh

\* A screen that is dealt with has room for one more step.
Roomy ==
    pc \in {"act", "busy"} \/ (pc \in Conversing /\ ask.for = "screen") =>
        tally.steps < ScreenSteps /\ tally.acted < ScreenActions /\ tally.waited < ScreenWaits

IInv ==
    /\ Types /\ Named /\ Counted /\ Sent /\ Positioned /\ Stopping /\ Judged /\ Creditable
    /\ Pressed /\ Roomy
-----------------------------------------------------------------------------
USE DEF runner, asking, judging, screen, driver, subject, journal, signals, keys, history,
        Conversing, AtScreen, AtDialog, Noting, InTurn, Between, Unsent

-----------------------------------------------------------------------------
(* What the operators that several steps share come to.                    *)

\* What the driver takes in when it looks: the log as far as it is, an acceptance once, and a
\* completed turn only with its acceptance.  It finds a turn pending only on a screen it knows.
Observed ==
    /\ read' \in Nat /\ read <= read' /\ read' <= log
    /\ entered' = entered
    /\ counted' \in BOOLEAN /\ (counted => counted') /\ (counted' => read' > 0)
    /\ count' = count + IF counted' /\ ~ counted THEN 1 ELSE 0
    /\ obs' \in Observations
    /\ obs' = "completed" => counted'
    /\ obs' = "pending" => shown' \notin Screens

\* observe_turn counts the acceptance of a submission once, when it sees one.
LEMMA CountOnce ==
  ASSUME NEW n \in Nat, NEW observed \in BOOLEAN, counted \in BOOLEAN, count \in Nat, Count(n, observed),
         counted => n > 0
  PROVE  /\ counted' \in BOOLEAN
         /\ counted => counted'
         /\ observed /\ n > 0 => counted'
         /\ counted' => n > 0
         /\ counted' => counted \/ observed
         /\ count' = count + IF counted' /\ ~ counted THEN 1 ELSE 0
<1>1. counted' = (counted \/ (observed /\ n > 0))
  BY DEF Count
<1>2. counted' \in BOOLEAN /\ (counted' <=> counted \/ (observed /\ n > 0))
  BY <1>1, Zenon
<1>3. count' = count + IF observed /\ n > 0 /\ ~ counted THEN 1 ELSE 0
  BY DEF Count
<1>4. (observed /\ n > 0 /\ ~ counted) <=> (counted' /\ ~ counted)
  BY <1>2, Zenon
<1>5. count' = count + IF counted' /\ ~ counted THEN 1 ELSE 0
  BY <1>3, <1>4
<1> QED BY <1>2, <1>5

\* Looking at the subject (DriverSession.observe) is such an observation.
LEMMA LookObserves ==
  ASSUME IInv, NEW n \in 0..3, Look(n), shown' = shown
  PROVE  Observed
<1> DEFINE seen == ~ cancelled /\ shown \in {"composer", "exited"}
<1>1. /\ n \in Nat /\ read <= n /\ n <= log /\ read' = n /\ entered' = entered
      /\ seen \in BOOLEAN
  BY DEF Look, IInv, Types, TypeOfSubject
<1>2. Count(n, seen)
  BY DEF Look
<1>3. counted \in BOOLEAN /\ count \in Nat /\ (counted => n > 0)
  BY <1>1 DEF IInv, Types, TypeOfSubject, TypeOfTurns, Counted
<1>4. /\ counted' \in BOOLEAN /\ (counted => counted') /\ (counted' => n > 0)
      /\ count' = count + IF counted' /\ ~ counted THEN 1 ELSE 0
      /\ seen /\ n > 0 => counted'
  <2> HIDE DEF seen
  <2> QED BY <1>1, <1>2, <1>3, CountOnce
<1>5. obs' \in Observations /\ (obs' = "pending" => shown' \notin Screens)
  BY OptionsAssumption DEF Look, Sees, Turn, Observations
<1>6. obs' = "completed" => seen /\ n > 0
  BY OptionsAssumption, <1>1 DEF Look, Sees, Turn, IInv, Types, TypeOfSubject
<1> QED BY <1>1, <1>4, <1>5, <1>6 DEF Observed

\* An observation that tells nothing of the log changes nothing of the driver's.
LEMMA BlindObserves ==
  ASSUME IInv, obs' \in Observations \ {"completed", "pending"}, UNCHANGED driver
  PROVE  Observed
BY DEF Observed, IInv, Types, TypeOfSubject, TypeOfTurns, Counted, driver

\* So is waiting for the turn (DriverSession._wait), which does not end while it is pending.
LEMMA WaitObserves ==
  ASSUME IInv, Waited, UNCHANGED subject
  PROVE  Observed /\ obs' # "pending"
<1>1. CASE obs' = "timeout" /\ UNCHANGED driver
  BY <1>1, BlindObserves DEF Observations
<1>2. CASE \E n \in 0..3 : Look(n) /\ obs' # "pending"
  BY <1>2, LookObserves
<1> QED BY <1>1, <1>2 DEF Waited

\* And so is taking in the whole log (observe_turn after a screen closed).
LEMMA ClosedObserves ==
  ASSUME IInv, read' = log, Count(log, TRUE), obs' = Turn(log), UNCHANGED entered,
         shown' = "composer" \/ log > 1
  PROVE  Observed
<1>1. log \in Nat /\ counted \in BOOLEAN /\ count \in Nat /\ (counted => log > 0)
  BY DEF IInv, Types, TypeOfSubject, TypeOfTurns, Counted
<1>2. /\ counted' \in BOOLEAN /\ (counted => counted') /\ (counted' => read' > 0)
      /\ count' = count + IF counted' /\ ~ counted THEN 1 ELSE 0
      /\ log > 0 => counted'
  BY <1>1, CountOnce
<1>3. obs' \in Observations /\ (obs' = "completed" => log > 0) /\ (obs' = "pending" => log < 2)
  <2>1. log \in 0..3
    BY DEF IInv, Types, TypeOfSubject
  <2>2. log = 0 \/ log = 1 \/ log = 2 \/ log = 3
    BY <2>1
  <2> QED BY <2>2 DEF Turn, Observations
<1>4. shown' = "composer" => shown' \notin Screens
  BY OptionsAssumption
<1> QED BY <1>1, <1>2, <1>3, <1>4 DEF Observed, IInv, Types, TypeOfSubject


\* Enter is sent to a composer that is ready, or else not at all; without it the turn is over.
LEMMA Delivering ==
  ASSUME IInv, Deliver
  PROVE  /\ log' = 0 /\ read' = 0 /\ counted' = FALSE /\ count' = count /\ shown' = shown
         /\ entered' \in BOOLEAN /\ (entered' => shown = "composer")
         /\ \/ pc' = "wait" /\ obs' = obs
            \/ pc' = "settle" /\ ~ entered' /\ obs' \in Observations \ {"completed"}
<1>1. entered' \in {shown = "composer", FALSE}
  BY DEF Deliver
<1>2. entered' = (shown = "composer") \/ entered' = FALSE
  BY <1>1, Zenon
<1>3. entered' \in BOOLEAN /\ (entered' => shown = "composer")
  BY <1>2, Zenon
<1>4. Sees(0) \in Observations \ {"completed"}
  BY DEF Sees, Turn, Observations
<1> QED BY <1>3, <1>4 DEF Deliver, Observations

\* The number of prompt steps is a number, whether there is a workflow or not.
LEMMA StepsNat == NSteps \in Nat
BY CaseAssumption DEF NSteps

\* No request to fix is one of phase 0 that names no call.
LEMMA NoRaiseTyped ==
  /\ NoRaise \in [phase : 0..NPhases, calls : SUBSET Calls]
  /\ NoRaise.calls = {} /\ NoRaise.phase = 0
BY CaseAssumption DEF NoRaise

-----------------------------------------------------------------------------
(* The verdicts and what they lead to (workflow.py).                       *)

\* Below is well-founded, so that every set of phases that is not empty has an earliest one.
Below == {pair \in Nat \X Nat : pair[1] < pair[2]}

\* A set of phases that is not empty has an earliest one.
LEMMA Earliest ==
  ASSUME NEW S \in SUBSET Nat, S # {}
  PROVE  \E p \in S : \A q \in S : p <= q
<1>1. IsWellFoundedOn(Below, Nat)
  BY NatLessThanWellFounded DEF OpToRel, Below
<1>2. PICK p \in S : \A q \in S : ~ (<<q, p>> \in Below)
  BY <1>1, WFMin, Zenon
<1>3. ASSUME NEW q \in S
      PROVE  p <= q
  <2>1. ~ (<<q, p>> \in Below)
    BY <1>2
  <2> QED BY <2>1 DEF Below
<1> QED BY <1>3

\* blocking_phase is the earliest phase in which a requirement is unmet, and 0 when none is.
LEMMA BlockingPhase ==
  ASSUME NEW v \in Verdicts
  PROVE  /\ blocking_phase(v) \in 0..NPhases
         /\ blocking_phase(v) = 0 => \A f \in Facts \ Optional : v[f] # "unmet"
         /\ blocking_phase(v) # 0 =>
              /\ blocking_phase(v) \in 1..NPhases
              /\ \E f \in Facts \ Optional : PhaseOf[f] = blocking_phase(v) /\ v[f] = "unmet"
              /\ \A f \in Facts \ Optional : v[f] = "unmet" => blocking_phase(v) <= PhaseOf[f]
<1>1. Unmet(v) \subseteq 1..NPhases
  BY CaseAssumption DEF Unmet
<1>2. CASE Unmet(v) = {}
  <2>1. blocking_phase(v) = 0
    BY <1>2 DEF blocking_phase
  <2>2. \A f \in Facts \ Optional : v[f] # "unmet"
    BY <1>2 DEF Unmet
  <2> QED BY <2>1, <2>2, CaseAssumption
<1>3. CASE Unmet(v) # {}
  <2>1. \E p \in Unmet(v) : \A q \in Unmet(v) : p <= q
    <3>1. Unmet(v) \in SUBSET Nat
      BY <1>1
    <3> QED BY <3>1, <1>3, Earliest
  <2>2. blocking_phase(v) = CHOOSE p \in Unmet(v) : \A q \in Unmet(v) : p <= q
    BY <1>3 DEF blocking_phase
  <2>3. blocking_phase(v) \in Unmet(v) /\ \A q \in Unmet(v) : blocking_phase(v) <= q
    BY <2>1, <2>2
  <2>4. blocking_phase(v) \in 1..NPhases
    BY <2>3, <1>1
  <2>5. \E f \in Facts \ Optional : PhaseOf[f] = blocking_phase(v) /\ v[f] = "unmet"
    BY <2>3 DEF Unmet
  <2>6. \A f \in Facts \ Optional : v[f] = "unmet" => blocking_phase(v) <= PhaseOf[f]
    BY <2>3 DEF Unmet
  <2> QED BY <2>4, <2>5, <2>6, CaseAssumption
<1> QED BY <1>2, <1>3

\* A prompt step is sent when there is one left and its phase comes before the blocking one;
\* the trial is complete when neither is the case; otherwise there is something to fix.
LEMMA NextAction ==
  ASSUME NEW at \in 0..NSteps, NEW v \in Verdicts
  PROVE  LET action == next_workflow_action(at, v)
         IN  /\ action \in {"deliver_prompt", "complete", "raise"}
             /\ action = "deliver_prompt" =>
                  at < NSteps /\ \A f \in Facts \ Optional : PhaseOf[f] <= AfterPhase[at + 1] => v[f] # "unmet"
             /\ action = "complete" => at = NSteps /\ \A f \in Facts \ Optional : v[f] # "unmet"
             /\ action = "raise" => blocking_phase(v) # 0
<1> DEFINE blocker == blocking_phase(v)
<1>1. next_workflow_action(at, v) =
        IF at < NSteps /\ (blocker = 0 \/ AfterPhase[at + 1] < blocker) THEN "deliver_prompt"
        ELSE IF blocker = 0 THEN "complete" ELSE "raise"
  BY DEF next_workflow_action
<1>2. at < NSteps => AfterPhase[at + 1] \in 1..NPhases
  BY CaseAssumption DEF NSteps
<1>3. \A f \in Facts \ Optional : PhaseOf[f] \in 1..NPhases
  BY CaseAssumption
<1>4. blocker = 0 => \A f \in Facts \ Optional : v[f] # "unmet"
  BY BlockingPhase
<1>5. blocker # 0 => blocker \in 1..NPhases /\ \A f \in Facts \ Optional : v[f] = "unmet" => blocker <= PhaseOf[f]
  BY BlockingPhase
<1> HIDE DEF blocker
<1>6. CASE at < NSteps /\ (blocker = 0 \/ AfterPhase[at + 1] < blocker)
  <2>1. \A f \in Facts \ Optional : PhaseOf[f] <= AfterPhase[at + 1] => v[f] # "unmet"
    BY <1>2, <1>3, <1>4, <1>5, <1>6, CaseAssumption
  <2> QED BY <1>1, <1>6, <2>1
<1>7. CASE ~ (at < NSteps /\ (blocker = 0 \/ AfterPhase[at + 1] < blocker))
  <2>1. blocker = 0 => at = NSteps
    BY <1>7, StepsNat
  <2> QED BY <1>1, <1>4, <1>7, <2>1 DEF blocker
<1> QED BY <1>6, <1>7
\* A message goes out: what the step or the fix was before is the message now.
LEMMA SubmitKeeps ==
  ASSUME IInv, Submit
  PROVE  IInv'
<1> USE DEF Submit
<1>1. CASE Interrupted
  <2> USE <1>1 DEF Halt, Interruption
  <2>1. pc = "submit" /\ pc' = "ended" /\ stop' \in {"cancelled", "timeout"}
        /\ UNCHANGED <<runner, asking, judging, screen, driver, subject, journal, signals, keys, history>>
        /\ UNCHANGED <<back, obs>>
    OBVIOUS
  <2>2. Types' /\ Named' /\ Counted' /\ Sent'
    BY <2>1 DEF IInv, Types, TypeOfPlace, TypeOfTurns, TypeOfSteps, TypeOfAsking, TypeOfJudging, TypeOfScreen,
                TypeOfSubject, Named, Counted, Sent
  <2>3. Positioned' /\ Stopping' /\ Judged' /\ Creditable' /\ Pressed' /\ Roomy'
    BY <2>1 DEF IInv, Positioned, Stopping, Judged, CompletionJudged, PhasesInOrder, Creditable,
                CallsCreditedOnce, Pressed, AnswersEarned, Roomy
  <2> QED BY <2>2, <2>3 DEF IInv
<1>2. CASE ~ Interrupted
  <2>1. /\ pc = "submit" /\ deliveries' = deliveries + 1 /\ delivered' = accepted
        /\ message' = CASE pending -> "step" [] raised # NoRaise -> "fix" [] OTHER -> "reply"
        /\ due' = IF pending THEN position + 1 ELSE position
        /\ UNCHANGED <<accepted, position, pending, raised, stop>>
        /\ UNCHANGED <<back, asking, judging, screen, journal, signals, keys>>
    BY <1>2
  <2>2. /\ log' = 0 /\ read' = 0 /\ counted' = FALSE /\ count' = count /\ shown' = shown
        /\ entered' \in BOOLEAN /\ (entered' => shown = "composer")
        /\ \/ pc' = "wait" /\ obs' = obs
           \/ pc' = "settle" /\ ~ entered' /\ obs' \in Observations \ {"completed"}
    BY <1>2, Delivering
  <2>3. Types'
    <3>1. TypeOfPlace' /\ TypeOfAsking' /\ TypeOfJudging' /\ TypeOfScreen'
      BY <2>1, <2>2 DEF IInv, Types, TypeOfPlace, TypeOfAsking, TypeOfJudging, TypeOfScreen
    <3>2. TypeOfTurns'
      BY <2>1, <2>2, BudgetsAssumption DEF IInv, Types, TypeOfTurns, Counted
    <3>3. TypeOfSteps'
      BY <2>1, <2>2, StepsNat DEF IInv, Types, TypeOfSteps, Positioned
    <3>4. log' \in 0..3 /\ read' \in 0..3 /\ read' <= log'
      BY <2>2
    <3>5. /\ shown' \in Dialogs \cup Screens \cup {"composer"}
          /\ counted' \in BOOLEAN /\ entered' \in BOOLEAN
          /\ fresh' \in BOOLEAN /\ cancelled' \in BOOLEAN /\ expired' \in BOOLEAN
          /\ raises' \in Nat /\ answers' \in Nat /\ keyed' \in Nat
      BY <2>1, <2>2 DEF IInv, Types, TypeOfSubject
    <3>6. TypeOfSubject'
      BY <3>4, <3>5 DEF TypeOfSubject
    <3> QED BY <3>1, <3>2, <3>3, <3>6 DEF Types
  <2>4. Named' /\ Stopping'
    BY <2>1, <2>2 DEF IInv, Named, Stopping
  <2>5. Counted'
    BY <2>1, <2>2, BudgetsAssumption DEF IInv, Types, TypeOfTurns, Counted
  <2>6. Sent' /\ Positioned'
    BY <2>1, <2>2, StepsNat DEF IInv, Types, TypeOfTurns, TypeOfSteps, Sent, Positioned
  <2>7. Judged' /\ Creditable' /\ Roomy'
    BY <2>1, <2>2 DEF IInv, Judged, CompletionJudged, PhasesInOrder, Creditable, CallsCreditedOnce, Roomy
  <2>8. Pressed'
    BY <2>1, <2>2, OptionsAssumption DEF IInv, Types, TypeOfSubject, Pressed, AnswersEarned
  <2> QED BY <2>3, <2>4, <2>5, <2>6, <2>7, <2>8 DEF IInv
<1> QED BY <1>1, <1>2

\* The turn is awaited; its observation is all that is learnt.
LEMMA WaitKeeps ==
  ASSUME IInv, Wait
  PROVE  IInv'
<1>1. Observed /\ obs' # "pending"
  BY WaitObserves DEF Wait
<1>2. /\ pc = "wait" /\ pc' = IF Awaits(obs') /\ entered THEN "dialogs" ELSE "settle"
      /\ UNCHANGED <<back, runner, asking, judging, screen, stop, subject, journal, signals, keys, history>>
  BY DEF Wait
<1> USE <1>1, <1>2 DEF Observed
<1>3. Types'
  BY BudgetsAssumption
     DEF IInv, Types, TypeOfPlace, TypeOfTurns, TypeOfSteps, TypeOfAsking, TypeOfJudging, TypeOfScreen,
         TypeOfSubject, Counted
<1>4. Named' /\ Stopping'
  BY DEF IInv, Named, Stopping
<1>5. Counted'
  BY BudgetsAssumption DEF IInv, Types, TypeOfTurns, TypeOfSubject, Counted
<1>6. Sent' /\ Positioned'
  BY DEF IInv, Types, TypeOfTurns, Sent, Positioned, Counted
<1>7. Judged' /\ Creditable' /\ Roomy'
  BY DEF IInv, Judged, CompletionJudged, PhasesInOrder, Creditable, CallsCreditedOnce, Roomy
<1>8. Pressed'
  BY DEF IInv, Types, TypeOfSubject, Pressed, AnswersEarned
<1> QED BY <1>3, <1>4, <1>5, <1>6, <1>7, <1>8 DEF IInv

\* The trial starts from a composer that is ready, or ends at once.
LEMMA StartKeeps ==
  ASSUME IInv, Start
  PROVE  IInv'
<1>1. /\ pc = "start"
      /\ UNCHANGED <<back, runner, asking, judging, screen, driver, subject, journal, signals, keys, history>>
      /\ \/ pc' = "submit" /\ obs' = obs /\ stop' = stop
         \/ pc' = "ended" /\ obs' \in {"approval", "unrecognized", "exited", "timeout"}
            /\ stop' \in {"needs_input", "exited", "timeout"}
  BY DEF Start, Halt, StopReason
<1> USE <1>1
<1>2. Types'
  BY DEF IInv, Types, TypeOfPlace, TypeOfTurns, TypeOfSteps, TypeOfAsking, TypeOfJudging, TypeOfScreen,
         TypeOfSubject
<1>3. Named' /\ Stopping' /\ Counted' /\ Sent'
  BY DEF IInv, Named, Observations, Stopping, Counted, Sent
<1>4. Positioned' /\ Judged' /\ Creditable' /\ Pressed' /\ Roomy'
  BY DEF IInv, Positioned, Judged, CompletionJudged, PhasesInOrder, Creditable, CallsCreditedOnce,
         Pressed, AnswersEarned, Roomy
<1> QED BY <1>2, <1>3, <1>4 DEF IInv

\* A question opens the dialogs of the turn, with its acceptance noted first if there is one.
LEMMA EnterDialogsKeeps ==
  ASSUME IInv, EnterDialogs
  PROVE  IInv'
<1>1. /\ counted' \in BOOLEAN /\ (counted => counted') /\ (counted' => read > 0)
      /\ count' = count + IF counted' /\ ~ counted THEN 1 ELSE 0
  <2>1. read \in Nat /\ counted \in BOOLEAN /\ count \in Nat /\ (counted => read > 0)
    BY DEF IInv, Types, TypeOfSubject, TypeOfTurns, Counted
  <2>2. Count(read, TRUE)
    BY DEF EnterDialogs
  <2> QED BY <2>1, <2>2, CountOnce
<1>2. /\ pc = "dialogs" /\ accepted' = count' /\ refreshed' = FALSE /\ back' = "dialog_loop"
      /\ pc' = IF accepted' > delivered THEN "accept" ELSE "dialog_loop"
      /\ UNCHANGED <<obs, delivered, deliveries, position, pending, raised, asking, judging,
                     tally, stop, read, entered, subject, journal, signals, keys, history>>
  BY DEF EnterDialogs
<1> USE <1>1, <1>2
<1>3. Types'
  <2>1. TypeOfTurns'
    BY BudgetsAssumption DEF IInv, Types, TypeOfTurns, Counted
  <2>2. TypeOfPlace' /\ TypeOfSteps' /\ TypeOfAsking' /\ TypeOfJudging' /\ TypeOfScreen'
    BY DEF IInv, Types, TypeOfPlace, TypeOfSteps, TypeOfAsking, TypeOfJudging, TypeOfScreen
  <2>3. TypeOfSubject'
    BY DEF IInv, Types, TypeOfSubject
  <2> QED BY <2>1, <2>2, <2>3 DEF Types
<1>4. Named' /\ Stopping'
  BY DEF IInv, Named, Stopping
<1>5. Counted'
  BY BudgetsAssumption DEF IInv, Types, TypeOfTurns, TypeOfSubject, Counted
<1>6. Sent' /\ Positioned'
  BY DEF IInv, Types, TypeOfTurns, Sent, Positioned, Counted
<1>7. Judged' /\ Creditable' /\ Roomy'
  BY DEF IInv, Judged, CompletionJudged, PhasesInOrder, Creditable, CallsCreditedOnce, Roomy
<1>8. Pressed'
  BY DEF IInv, Pressed, AnswersEarned
<1> QED BY <1>3, <1>4, <1>5, <1>6, <1>7, <1>8 DEF IInv

\* The turn is over, and what it accepted is counted for the interaction.
LEMMA SettleKeeps ==
  ASSUME IInv, Settle
  PROVE  IInv'
<1>1. /\ pc = "settle" /\ accepted' = count /\ noted' = count /\ back' = "proceed"
      /\ pc' = IF count > accepted THEN "accept" ELSE "proceed"
      /\ UNCHANGED <<obs, delivered, deliveries, position, pending, raised, asking, judging, screen, stop,
                     driver, subject, progress, saved, raises, answers, credited, captured, signals, keys,
                     history>>
  BY DEF Settle
<1> USE <1>1
<1>2. Types'
  BY DEF IInv, Types, TypeOfPlace, TypeOfTurns, TypeOfSteps, TypeOfAsking, TypeOfJudging, TypeOfScreen,
         TypeOfSubject
<1>3. Named' /\ Stopping'
  BY DEF IInv, Named, Stopping
<1>4. Counted'
  BY DEF IInv, Types, TypeOfTurns, TypeOfSubject, Counted
<1>5. Sent' /\ Positioned'
  BY DEF IInv, Types, TypeOfTurns, TypeOfSubject, Sent, Positioned, Counted
<1>6. Judged' /\ Creditable' /\ Roomy' /\ Pressed'
  BY DEF IInv, Judged, CompletionJudged, PhasesInOrder, Creditable, CallsCreditedOnce, Roomy, Pressed,
         AnswersEarned
<1> QED BY <1>2, <1>3, <1>4, <1>5, <1>6 DEF IInv

\* An accepted step moves the position, an accepted request to fix is raised, and both are noted once.
LEMMA AcceptKeeps ==
  ASSUME IInv, Accept
  PROVE  IInv'
<1>1. /\ pc = "accept"
      /\ UNCHANGED <<back, obs, accepted, delivered, deliveries, asking, judging, screen, stop,
                     driver, subject, saved, noted, answers, captured, signals, keys, due>>
  BY DEF Accept
<1>2. CASE /\ pending /\ pending' = FALSE /\ message' = "noted" /\ pc' = "save"
           /\ progress' = position + 1 /\ position' = position + 1
           /\ UNCHANGED <<raised, raises, credited>>
  <2> USE <1>1, <1>2
  <2>1. Types'
    <3>1. TypeOfSteps'
      BY StepsNat DEF IInv, Types, TypeOfSteps, Positioned
    <3>2. TypeOfPlace' /\ TypeOfTurns' /\ TypeOfAsking' /\ TypeOfJudging' /\ TypeOfScreen' /\ TypeOfSubject'
      BY DEF IInv, Types, TypeOfPlace, TypeOfTurns, TypeOfAsking, TypeOfJudging, TypeOfScreen, TypeOfSubject
    <3> QED BY <3>1, <3>2 DEF Types
  <2>2. Named' /\ Stopping' /\ Counted'
    BY DEF IInv, Named, Stopping, Counted
  <2>3. Sent' /\ Positioned'
    BY DEF IInv, Types, TypeOfSteps, Sent, Positioned, Counted
  <2>4. Judged' /\ Creditable' /\ Roomy' /\ Pressed'
    BY DEF IInv, Judged, CompletionJudged, PhasesInOrder, Creditable, CallsCreditedOnce, Roomy, Pressed,
           AnswersEarned, Sent
  <2> QED BY <2>1, <2>2, <2>3, <2>4 DEF IInv
<1>3. CASE /\ ~ pending /\ raised # NoRaise /\ raises' = raises + 1 /\ message' = "noted"
           /\ pc' = "fix_requested"
           /\ UNCHANGED <<position, pending, raised, progress, credited>>
  <2> USE <1>1, <1>3
  <2>1. Types'
    BY DEF IInv, Types, TypeOfPlace, TypeOfTurns, TypeOfSteps, TypeOfAsking, TypeOfJudging, TypeOfScreen,
           TypeOfSubject
  <2>2. Named' /\ Stopping' /\ Counted'
    BY DEF IInv, Named, Stopping, Counted
  <2>3. Sent' /\ Positioned'
    BY DEF IInv, Sent, Positioned, Counted
  <2>4. Judged' /\ Creditable' /\ Roomy' /\ Pressed'
    BY DEF IInv, Judged, CompletionJudged, PhasesInOrder, Creditable, CallsCreditedOnce, Roomy, Pressed,
           AnswersEarned
  <2> QED BY <2>1, <2>2, <2>3, <2>4 DEF IInv
<1>4. CASE /\ ~ pending /\ raised = NoRaise /\ pc' = back
           /\ UNCHANGED <<position, pending, raised, progress, raises, credited, message>>
  <2> USE <1>1, <1>4
  <2>1. pc' \in {"proceed", "dialog_loop"}
    BY DEF IInv, Types, TypeOfPlace
  <2>2. Types'
    BY <2>1 DEF IInv, Types, TypeOfPlace, TypeOfTurns, TypeOfSteps, TypeOfAsking, TypeOfJudging, TypeOfScreen,
           TypeOfSubject
  <2>3. Named' /\ Stopping' /\ Counted'
    BY <2>1 DEF IInv, Named, Stopping, Counted
  <2>4. Sent' /\ Positioned'
    BY <2>1 DEF IInv, Sent, Positioned, Counted
  <2>5. Judged' /\ Creditable' /\ Roomy' /\ Pressed'
    BY <2>1 DEF IInv, Judged, CompletionJudged, PhasesInOrder, Creditable, CallsCreditedOnce, Roomy, Pressed,
           AnswersEarned
  <2> QED BY <2>2, <2>3, <2>4, <2>5 DEF IInv
<1> QED BY <1>2, <1>3, <1>4 DEF Accept

\* The attempt state follows the journal.
LEMMA SavePositionKeeps ==
  ASSUME IInv, SavePosition
  PROVE  IInv'
<1>1. /\ pc = "save" /\ saved' = position /\ pc' = "accept"
      /\ UNCHANGED <<back, obs, runner, asking, judging, screen, stop, driver, subject, progress,
                     noted, raises, answers, credited, captured, signals, keys, history>>
  BY DEF SavePosition
<1> USE <1>1
<1>2. Types'
  BY DEF IInv, Types, TypeOfPlace, TypeOfTurns, TypeOfSteps, TypeOfAsking, TypeOfJudging, TypeOfScreen,
         TypeOfSubject
<1>3. Named' /\ Stopping' /\ Counted'
  BY DEF IInv, Named, Stopping, Counted
<1>4. Sent' /\ Positioned'
  BY DEF IInv, Sent, Positioned, Counted
<1>5. Judged' /\ Creditable' /\ Roomy' /\ Pressed'
  BY DEF IInv, Judged, CompletionJudged, PhasesInOrder, Creditable, CallsCreditedOnce, Roomy, Pressed,
         AnswersEarned
<1> QED BY <1>2, <1>3, <1>4, <1>5 DEF IInv

\* Calls that no step names yet are named by one from then on.
LEMMA CreditOnce ==
  ASSUME TypeOfAsking, CallsCreditedOnce, NEW calls, \A c \in Calls : c \in calls => credited[c] = 0,
         Credit(calls)
  PROVE  /\ credited' \in [Calls -> Nat]
         /\ CallsCreditedOnce'
         /\ \A c \in Calls : c \notin calls => credited'[c] = credited[c]
BY DEF Credit, TypeOfAsking, CallsCreditedOnce

\* The calls of a request to fix are credited to it, and are to be credited to nothing else.
LEMMA FixRequestedKeeps ==
  ASSUME IInv, FixRequested
  PROVE  IInv'
<1>1. /\ pc = "fix_requested" /\ raised' = NoRaise /\ pc' = back
      /\ UNCHANGED <<back, obs, accepted, delivered, deliveries, position, pending, asking,
                     judging, screen, stop, driver, subject, progress, saved, noted, raises,
                     answers, captured, signals, keys, history>>
  BY DEF FixRequested
<1>2. /\ credited' \in [Calls -> Nat] /\ CallsCreditedOnce'
      /\ \A c \in Calls : c \notin raised.calls => credited'[c] = credited[c]
  BY CreditOnce DEF FixRequested, IInv, Types, Creditable
<1>3. pc' \in {"proceed", "dialog_loop"}
  BY <1>1 DEF IInv, Types, TypeOfPlace
<1>4. raised' \in [phase : 0..NPhases, calls : SUBSET Calls] /\ raised'.calls = {}
  BY <1>1, NoRaiseTyped
<1>5. Types'
  BY <1>1, <1>2, <1>3, <1>4
     DEF IInv, Types, TypeOfPlace, TypeOfTurns, TypeOfSteps, TypeOfAsking, TypeOfJudging, TypeOfScreen,
         TypeOfSubject
<1>6. Named' /\ Stopping' /\ Counted'
  BY <1>1, <1>3 DEF IInv, Named, Stopping, Counted
<1>7. Sent' /\ Positioned'
  BY <1>1, <1>3 DEF IInv, Sent, Positioned, Counted
<1>8. Creditable'
  <2>1. \A c \in Calls : c > made => c \notin raised.calls
    BY DEF IInv, Types, TypeOfAsking, Creditable, Calls
  <2> QED BY <1>1, <1>2, <1>3, <1>4, <2>1 DEF IInv, Creditable
<1>9. Judged' /\ Roomy' /\ Pressed'
  BY <1>1, <1>3 DEF IInv, Judged, CompletionJudged, PhasesInOrder, Roomy, Pressed, AnswersEarned
<1> QED BY <1>5, <1>6, <1>7, <1>8, <1>9 DEF IInv

\* An end other than completion, which leaves the rest as it was or gives up what was pending.
LEMMA EndKeeps ==
  ASSUME IInv, Between \/ pc = "proceed", pc' = "ended", stop' # "workflow_complete",
         obs' \in Observations, read' \in {read, log},
         UNCHANGED <<pending, raised>> \/ (pending' = FALSE /\ raised' = NoRaise),
         UNCHANGED <<back, accepted, delivered, deliveries, position, asking, judging, screen, count, counted,
                     entered, subject, journal, signals, keys, history>>
  PROVE  IInv'
<1>1. raised' \in [phase : 0..NPhases, calls : SUBSET Calls] /\ raised'.calls \subseteq raised.calls
      /\ (pending' => pending) /\ pending' \in BOOLEAN
  <2>1. raised \in [phase : 0..NPhases, calls : SUBSET Calls] /\ pending \in BOOLEAN
    BY DEF IInv, Types, TypeOfAsking, TypeOfSteps
  <2>2. CASE UNCHANGED <<pending, raised>>
    BY <2>1, <2>2
  <2>3. CASE pending' = FALSE /\ raised' = NoRaise
    BY <2>3, NoRaiseTyped
  <2> QED BY <2>2, <2>3
<1>2. Types'
  <2>1. TypeOfPlace' /\ TypeOfTurns' /\ TypeOfAsking' /\ TypeOfJudging' /\ TypeOfScreen'
    BY <1>1 DEF IInv, Types, TypeOfPlace, TypeOfTurns, TypeOfAsking, TypeOfJudging, TypeOfScreen
  <2>2. TypeOfSteps'
    BY <1>1 DEF IInv, Types, TypeOfSteps
  <2>3. read' \in 0..3 /\ read' <= log' /\ log' \in 0..3
    BY DEF IInv, Types, TypeOfSubject
  <2>4. TypeOfSubject'
    BY <2>3 DEF IInv, Types, TypeOfSubject
  <2> QED BY <2>1, <2>2, <2>4 DEF Types
<1>3. Counted'
  BY DEF IInv, Types, TypeOfSubject, Counted
<1>4. Named' /\ Stopping' /\ Roomy' /\ Pressed'
  BY DEF IInv, Named, Stopping, Roomy, Pressed, AnswersEarned
<1>6. Sent'
  <2>1. counted => message \notin {"step", "fix"}
    BY DEF IInv, Types, TypeOfTurns, Counted, Sent
  <2>2. ~ (pending' /\ raised' # NoRaise)
    BY DEF IInv, Sent
  <2> QED BY <2>1, <2>2 DEF Sent
<1>5. Positioned' /\ Judged' /\ Creditable'
  BY <1>1 DEF IInv, Positioned, Judged, CompletionJudged, PhasesInOrder, Creditable, CallsCreditedOnce
<1> QED BY <1>2, <1>3, <1>4, <1>5, <1>6 DEF IInv

\* After the turn the trial goes on, for one more message, or ends.
LEMMA ProceedKeeps ==
  ASSUME IInv, Proceed
  PROVE  IInv'
<1>1. /\ pc = "proceed" /\ pending' = FALSE /\ raised' = NoRaise
      /\ UNCHANGED <<back, obs, accepted, delivered, deliveries, position, made, judging, screen,
                     driver, subject, journal, signals, keys, history>>
  BY DEF Proceed
<1>2. obs \in Observations /\ stop # "workflow_complete"
  BY <1>1 DEF IInv, Named
<1>3. CASE pc' = "ended" /\ stop' # "workflow_complete" /\ ask' = ask
  BY <1>1, <1>2, <1>3, EndKeeps
<1>4. CASE /\ obs = "completed" /\ accepted < MaxTurns
           /\ pc' = "stand_in" /\ ask' = [for |-> "follow", before |-> made, retry |-> TRUE]
           /\ stop' = stop
  <2> USE <1>1, <1>4
  <2>1. Types'
    <3>1. TypeOfAsking'
      BY NoRaiseTyped DEF IInv, Types, TypeOfAsking
    <3>2. TypeOfSteps'
      BY DEF IInv, Types, TypeOfSteps
    <3>3. TypeOfPlace' /\ TypeOfTurns' /\ TypeOfJudging' /\ TypeOfScreen' /\ TypeOfSubject'
      BY DEF IInv, Types, TypeOfPlace, TypeOfTurns, TypeOfJudging, TypeOfScreen, TypeOfSubject
    <3> QED BY <3>1, <3>2, <3>3 DEF Types
  <2>2. Named' /\ Stopping'
    BY DEF IInv, Named, Stopping
  <2>3. ask'.for = "follow" /\ raised'.calls = {}
    BY NoRaiseTyped
  <2>4. Counted'
    BY <2>3 DEF IInv, Types, TypeOfTurns, Counted
  <2>5. Sent' /\ Positioned'
    BY <2>3 DEF IInv, Types, TypeOfTurns, TypeOfSteps, Sent, Positioned, Counted
  <2>6. Judged' /\ Creditable' /\ Roomy' /\ Pressed'
    BY <2>3 DEF IInv, Judged, CompletionJudged, PhasesInOrder, Creditable, CallsCreditedOnce, Roomy, Pressed,
                AnswersEarned
  <2> QED BY <2>1, <2>2, <2>4, <2>5, <2>6 DEF IInv
<1>5. accepted \in Nat /\ MaxTurns \in Nat
  BY BudgetsAssumption DEF IInv, Types, TypeOfTurns
<1> QED BY <1>2, <1>3, <1>4, <1>5 DEF Proceed, Halt, StopReason, Settled, Observations

\* A turn that is not waited for any more, whether there is a reason to stop or not.
LEMMA TurnLeft ==
  ASSUME IInv, InTurn, ~ Noting, pc # "proceed", pc' = "settle",
         obs' \in Observations, obs' = "completed" => counted,
         stop' # "workflow_complete", stop' # "none" => obs' # "completed", TypeOfScreen',
         UNCHANGED <<back, runner, asking, judging, driver, subject, journal, signals, keys, history>>
  PROVE  IInv'
<1>1. Types'
  BY DEF IInv, Types, TypeOfPlace, TypeOfTurns, TypeOfSteps, TypeOfAsking, TypeOfJudging, TypeOfSubject
<1>2. Named' /\ Stopping' /\ Counted'
  BY DEF IInv, Named, Stopping, Counted
<1>3. Sent' /\ Positioned'
  BY DEF IInv, Sent, Positioned
<1>4. Judged' /\ Creditable' /\ Roomy' /\ Pressed'
  BY DEF IInv, Judged, CompletionJudged, PhasesInOrder, Creditable, CallsCreditedOnce, Roomy, Pressed,
         AnswersEarned
<1> QED BY <1>1, <1>2, <1>3, <1>4 DEF IInv

\* A stand-in turn without a decision ends the trial, or the turn that it interrupts.
LEMMA UndecidedKeeps ==
  ASSUME IInv, pc \in Conversing, Undecided, stop' # "workflow_complete",
         UNCHANGED <<back, runner, asking, judging, screen, driver, subject, journal, signals, keys, history>>
  PROVE  IInv'
<1>1. ask.for \in {"follow", "fix", "dialog", "screen"}
  BY DEF IInv, Types, TypeOfAsking
<1>2. CASE ask.for \in {"follow", "fix"}
  <2>1. pc' = "ended" /\ obs' = obs
    BY <1>2 DEF Undecided
  <2> QED BY <1>2, <2>1, EndKeeps DEF IInv, Named
<1>3. CASE ask.for \in {"dialog", "screen"}
  <2>1. pc' = "settle" /\ obs' \in Observations \ {"completed"}
    BY <1>3 DEF Undecided, IInv, Named, Stopping, Awaits, Observations
  <2>2. TypeOfScreen'
    BY DEF IInv, Types, TypeOfScreen
  <2> QED BY <1>3, <2>1, <2>2, TurnLeft
<1> QED BY <1>1, <1>2, <1>3

\* A call of the stand-in is numbered before it is made, or none is left.
LEMMA StandInKeeps ==
  ASSUME IInv, StandIn
  PROVE  IInv'
<1>1. /\ pc = "stand_in"
      /\ UNCHANGED <<back, runner, ask, judging, screen, driver, subject, journal, signals, keys, history>>
  BY DEF StandIn
<1>2. CASE MayAsk /\ made' = made + 1 /\ pc' = "calling" /\ UNCHANGED <<obs, stop>>
  <2> USE <1>1, <1>2
  <2>1. made \in Nat /\ made' <= StandInReplies /\ StandInReplies \in Nat
    BY BudgetsAssumption DEF MayAsk, IInv, Types, TypeOfAsking
  <2>2. TypeOfAsking'
    BY <2>1 DEF IInv, Types, TypeOfAsking
  <2>3. TypeOfPlace' /\ TypeOfTurns' /\ TypeOfSteps' /\ TypeOfJudging' /\ TypeOfScreen' /\ TypeOfSubject'
    BY DEF IInv, Types, TypeOfPlace, TypeOfTurns, TypeOfSteps, TypeOfJudging, TypeOfScreen, TypeOfSubject
  <2>4. Named' /\ Stopping' /\ Counted'
    BY DEF IInv, Named, Stopping, Counted
  <2>5. Sent' /\ Positioned' /\ Judged' /\ Roomy' /\ Pressed'
    BY DEF IInv, Sent, Positioned, Judged, CompletionJudged, PhasesInOrder, Roomy, Pressed, AnswersEarned
  <2>6. Creditable'
    BY <2>1 DEF IInv, Types, TypeOfAsking, TypeOfScreen, Creditable, CallsCreditedOnce, Open, Calls
  <2> QED BY <2>2, <2>3, <2>4, <2>5, <2>6 DEF IInv, Types
<1>3. CASE Undecided /\ stop' # "workflow_complete" /\ made' = made
  BY <1>1, <1>3, UndecidedKeeps
<1> QED BY <1>2, <1>3 DEF StandIn

\* What the runner does with a decision, for each purpose of the question.
LEMMA DecideKeeps ==
  ASSUME IInv, pc = "calling", NEW d \in Decisions[ask.for], Decide(d),
         UNCHANGED <<back, accepted, delivered, deliveries, position, pending, asking, judging, screen, driver,
                     subject, journal, signals, keys, history>>
  PROVE  IInv'
<1>1. stop = "none"
  BY DEF IInv, Stopping
<1>2. CASE ask.for = "follow" /\ d = "reply"
  <2>1. pc' = "submit" /\ UNCHANGED <<obs, stop, raised>>
    BY <1>2 DEF Decide
  <2> USE <1>2, <2>1
  <2>2. Types'
    BY DEF IInv, Types, TypeOfPlace, TypeOfTurns, TypeOfSteps, TypeOfAsking, TypeOfJudging, TypeOfScreen,
           TypeOfSubject
  <2>3. Named' /\ Stopping' /\ Counted' /\ Sent' /\ Positioned'
    BY <1>1 DEF IInv, Types, TypeOfTurns, Named, Stopping, Counted, Sent, Positioned
  <2>4. Judged' /\ Creditable' /\ Roomy' /\ Pressed'
    BY DEF IInv, Judged, CompletionJudged, PhasesInOrder, Creditable, CallsCreditedOnce, Roomy, Pressed,
           AnswersEarned
  <2> QED BY <2>2, <2>3, <2>4 DEF IInv
<1>3. CASE ask.for = "follow" /\ d # "reply"
  <2>1. UNCHANGED <<obs, raised>>
        /\ \/ pc' = "done_point" /\ stop' = stop
           \/ pc' = "ended" /\ stop' = "stand_in_stop"
    BY <1>3 DEF Decide, Halt
  <2>2. CASE pc' = "ended" /\ stop' = "stand_in_stop"
    BY <1>3, <2>1, <2>2, EndKeeps DEF IInv, Named
  <2>3. CASE pc' = "done_point" /\ stop' = stop
    <3> USE <1>3, <2>1, <2>3
    <3>1. Types'
      BY DEF IInv, Types, TypeOfPlace, TypeOfTurns, TypeOfSteps, TypeOfAsking, TypeOfJudging, TypeOfScreen,
             TypeOfSubject
    <3>2. Named' /\ Stopping' /\ Counted' /\ Sent' /\ Positioned'
      BY <1>1 DEF IInv, Named, Stopping, Counted, Sent, Positioned
    <3>3. Judged' /\ Creditable' /\ Roomy' /\ Pressed'
      BY DEF IInv, Judged, CompletionJudged, PhasesInOrder, Creditable, CallsCreditedOnce, Roomy, Pressed,
             AnswersEarned
    <3> QED BY <3>1, <3>2, <3>3 DEF IInv
  <2> QED BY <2>1, <2>2, <2>3
<1>4. CASE ask.for = "fix"
  <2>1. /\ raised' = [phase |-> blocking_phase(verdicts), calls |-> (ask.before + 1)..made]
        /\ pc' = "submit" /\ UNCHANGED <<obs, stop>>
    BY <1>4 DEF Decide
  <2>2. blocking_phase(verdicts) \in 1..NPhases
    BY <1>4, BlockingPhase DEF IInv, Types, TypeOfJudging, Judged
  <2>3. /\ raised'.phase = blocking_phase(verdicts) /\ raised'.phase \in 1..NPhases
        /\ raised'.calls = (ask.before + 1)..made /\ raised'.calls \subseteq Calls
    BY <2>1, <2>2, BudgetsAssumption DEF IInv, Types, TypeOfAsking, Calls
  <2>4. raised' \in [phase : 0..NPhases, calls : SUBSET Calls] /\ raised' # NoRaise
    BY <2>1, <2>3, NoRaiseTyped, CaseAssumption
  <2>5. ~ pending /\ raised = NoRaise /\ accepted > 0
    BY <1>4 DEF IInv, Sent, Counted
  <2>6. Types'
    <3>1. TypeOfAsking'
      BY <2>4 DEF IInv, Types, TypeOfAsking
    <3>2. TypeOfPlace' /\ TypeOfTurns' /\ TypeOfSteps' /\ TypeOfJudging' /\ TypeOfScreen' /\ TypeOfSubject'
      BY <2>1 DEF IInv, Types, TypeOfPlace, TypeOfTurns, TypeOfSteps, TypeOfJudging, TypeOfScreen, TypeOfSubject
    <3> QED BY <3>1, <3>2 DEF Types
  <2>7. Named' /\ Stopping' /\ Counted' /\ Sent' /\ Positioned'
    BY <1>1, <1>4, <2>1, <2>5 DEF IInv, Types, TypeOfTurns, Named, Stopping, Counted, Sent, Positioned
  <2>8. Judged'
    <3>1. \E f \in Facts \ Optional : PhaseOf[f] = raised'.phase /\ verdicts[f] = "unmet"
      BY <2>2, <2>3, BlockingPhase DEF IInv, Types, TypeOfJudging
    <3>2. \A f \in Facts \ Optional : PhaseOf[f] <= raised'.phase - 1 => verdicts[f] # "unmet"
      BY <2>2, <2>3, BlockingPhase, CaseAssumption DEF IInv, Types, TypeOfJudging
    <3>3. PhasesInOrder'
      <4>1. verdicts' = verdicts /\ pending' = FALSE
        BY <2>5, Zenon DEF IInv, Types, TypeOfSteps
      <4>2. \E f \in Facts \ Optional : PhaseOf[f] <= raised'.phase /\ verdicts'[f] = "unmet"
        BY <2>3, <3>1, <4>1
      <4> QED BY <3>2, <4>1, <4>2 DEF PhasesInOrder
    <3> QED BY <2>1, <3>3 DEF IInv, Judged, CompletionJudged
  <2>9. Creditable'
    BY <1>4, <2>1, <2>3 DEF IInv, Types, TypeOfAsking, Creditable, CallsCreditedOnce, Open, Calls
  <2>10. Roomy' /\ Pressed'
    BY <2>1 DEF IInv, Roomy, Pressed, AnswersEarned
  <2> QED BY <2>6, <2>7, <2>8, <2>9, <2>10 DEF IInv
<1>5. CASE ask.for = "screen" /\ d = "approval"
  <2>1. pc' = "settle" /\ stop' = "needs_input" /\ obs' = "approval" /\ raised' = raised
    BY <1>5 DEF Decide
  <2>2. TypeOfScreen'
    BY DEF IInv, Types, TypeOfScreen
  <2> QED BY <1>5, <2>1, <2>2, TurnLeft DEF Observations
<1>6. CASE \/ ask.for = "dialog" /\ d = "select"
           \/ ask.for = "screen" /\ d \in {"act", "busy"}
  <2>1. pc' = d /\ UNCHANGED <<obs, stop, raised>>
    BY <1>6 DEF Decide
  <2> USE <1>6, <2>1
  <2>2. Types'
    BY DEF IInv, Types, TypeOfPlace, TypeOfTurns, TypeOfSteps, TypeOfAsking, TypeOfJudging, TypeOfScreen,
           TypeOfSubject
  <2>3. Named' /\ Stopping' /\ Counted' /\ Sent' /\ Positioned'
    BY <1>1 DEF IInv, Named, Stopping, Counted, Sent, Positioned
  <2>4. Judged' /\ Creditable' /\ Roomy'
    BY DEF IInv, Judged, CompletionJudged, PhasesInOrder, Creditable, CallsCreditedOnce, Open, Roomy
  <2>5. Pressed'
    BY DEF IInv, Pressed, AnswersEarned
  <2> QED BY <2>2, <2>3, <2>4, <2>5 DEF IInv
<1>7. ask.for \in {"follow", "fix", "dialog", "screen"}
  BY DEF IInv, Types, TypeOfAsking
<1>8. /\ ask.for = "dialog" => d = "select"
      /\ ask.for = "screen" => d \in {"act", "busy", "approval"}
  BY DEF Decisions
<1> QED BY <1>2, <1>3, <1>4, <1>5, <1>6, <1>7, <1>8

\* The stand-in decides, fails or is rejected.
LEMMA AnsweredKeeps ==
  ASSUME IInv, Answered
  PROVE  IInv'
<1>1. /\ pc = "calling"
      /\ UNCHANGED <<back, accepted, delivered, deliveries, position, pending, made, judging, screen, driver,
                     subject, journal, signals, keys, history>>
  BY DEF Answered
<1>2. stop = "none"
  BY <1>1 DEF IInv, Stopping
<1>3. CASE ask' = ask /\ \E d \in Decisions[ask.for] : Decide(d)
  BY <1>1, <1>3, DecideKeeps
<1>4. CASE /\ ask' = [ask EXCEPT !.retry = FALSE] /\ pc' = "stand_in" /\ UNCHANGED <<obs, stop, raised>>
  <2> USE <1>1, <1>4
  <2>1. ask'.for = ask.for /\ ask'.before = ask.before
        /\ ask' \in [for : {"follow", "fix", "dialog", "screen"}, before : 0..StandInReplies, retry : BOOLEAN]
    BY DEF IInv, Types, TypeOfAsking
  <2>2. Types'
    BY <2>1 DEF IInv, Types, TypeOfPlace, TypeOfTurns, TypeOfSteps, TypeOfAsking, TypeOfJudging, TypeOfScreen,
                TypeOfSubject
  <2>3. Named' /\ Stopping' /\ Counted' /\ Sent' /\ Positioned'
    BY <1>2, <2>1 DEF IInv, Named, Stopping, Counted, Sent, Positioned
  <2>4. Judged' /\ Creditable' /\ Roomy' /\ Pressed'
    BY <2>1 DEF IInv, Judged, CompletionJudged, PhasesInOrder, Creditable, CallsCreditedOnce, Open, Roomy,
                Pressed, AnswersEarned
  <2> QED BY <2>2, <2>3, <2>4 DEF IInv
<1>5. CASE Undecided /\ stop' # "workflow_complete" /\ UNCHANGED <<ask, raised>>
  BY <1>1, <1>5, UndecidedKeeps
<1>6. ASSUME ~ (ask' = ask /\ \E d \in Decisions[ask.for] : Decide(d)),
             NEW error \in Rejections[ask.for] \cup {"failed"}, NEW stopped \in BOOLEAN,
             CASE ask.retry /\ stopped /\ ~ Interrupted ->
                      /\ ask' = [ask EXCEPT !.retry = FALSE]
                      /\ pc' = "stand_in"
                      /\ UNCHANGED <<obs, stop, raised>>
               [] error = "stop_with_findings" /\ ~ Interrupted ->
                      Decide("reply") /\ UNCHANGED ask
               [] OTHER ->
                      /\ stop' = CASE Interrupted -> Interruption
                                   [] error = "invalid" -> "needs_input"
                                   [] OTHER -> "controller_error"
                      /\ Undecided
                      /\ UNCHANGED <<ask, raised>>
      PROVE  IInv'
  <2>1. error = "stop_with_findings" => "reply" \in Decisions[ask.for]
    BY DEF Rejections, Decisions, IInv, Types, TypeOfAsking
  <2>2. CASE error = "stop_with_findings" /\ Decide("reply") /\ UNCHANGED ask
    BY <1>6, <2>1, <2>2
  <2>3. (CASE Interrupted -> Interruption
           [] error = "invalid" -> "needs_input"
           [] OTHER -> "controller_error") # "workflow_complete"
    BY DEF Interruption
  <2> QED BY <1>4, <1>5, <1>6, <2>2, <2>3
<1> QED BY <1>3, <1>6 DEF Answered

\* An inspection is due, or the budget of inspections is spent.
LEMMA DonePointKeeps ==
  ASSUME IInv, DonePoint
  PROVE  IInv'
<1>1. /\ pc = "done_point"
      /\ UNCHANGED <<back, obs, runner, asking, verdicts, inspectedAt, screen, driver, subject, journal,
                     signals, keys, history>>
  BY DEF DonePoint
<1>2. CASE pc' = "ended" /\ stop' = "inspection_budget" /\ inspections' = inspections
  BY <1>1, <1>2, EndKeeps DEF IInv, Named
<1>3. CASE inspections < MaxInspections /\ inspections' = inspections + 1 /\ pc' = "inspect" /\ stop' = stop
  <2> USE <1>1, <1>3
  <2>1. TypeOfJudging'
    BY BudgetsAssumption DEF IInv, Types, TypeOfJudging
  <2>2. TypeOfPlace' /\ TypeOfTurns' /\ TypeOfSteps' /\ TypeOfAsking' /\ TypeOfScreen' /\ TypeOfSubject'
    BY DEF IInv, Types, TypeOfPlace, TypeOfTurns, TypeOfSteps, TypeOfAsking, TypeOfScreen, TypeOfSubject
  <2>3. Named' /\ Stopping' /\ Counted' /\ Sent' /\ Positioned'
    BY DEF IInv, Named, Stopping, Counted, Sent, Positioned
  <2>4. Judged' /\ Creditable' /\ Roomy' /\ Pressed'
    BY DEF IInv, Judged, CompletionJudged, PhasesInOrder, Creditable, CallsCreditedOnce, Roomy, Pressed,
           AnswersEarned
  <2> QED BY <2>1, <2>2, <2>3, <2>4 DEF IInv, Types
<1>4. inspections \in Nat /\ MaxInspections \in Nat
  BY BudgetsAssumption DEF IInv, Types, TypeOfJudging
<1> QED BY <1>2, <1>3, <1>4 DEF DonePoint, Halt

\* The verdicts decide what comes next, and they are those of the turns accepted so far.
LEMMA InspectKeeps ==
  ASSUME IInv, Inspect
  PROVE  IInv'
<1>1. /\ pc = "inspect" /\ read' = log
      /\ UNCHANGED <<back, obs, accepted, delivered, deliveries, position, raised, made, inspections, screen,
                     count, counted, entered, subject, journal, signals, keys, history>>
  BY DEF Inspect
<1>2. stop = "none" /\ ~ pending /\ raised = NoRaise /\ accepted > 0 /\ accepted = count
  BY <1>1 DEF IInv, Stopping, Sent, Counted
<1>3. CASE /\ pc' = "ended" /\ stop' # "workflow_complete"
           /\ UNCHANGED <<ask, verdicts, inspectedAt, pending>>
  BY <1>1, <1>3, EndKeeps DEF IInv, Named
<1>4. ASSUME NEW v \in Verdicts, verdicts' = v, inspectedAt' = accepted,
             LET action == next_workflow_action(position, v)
             IN  /\ pending' = (action = "deliver_prompt")
                 /\ ask' = IF action = "raise"
                           THEN [for |-> "fix", before |-> made, retry |-> TRUE] ELSE ask
                 /\ CASE action = "deliver_prompt" -> pc' = "submit" /\ UNCHANGED stop
                      [] action = "complete"       -> Halt("workflow_complete")
                      [] OTHER                     -> pc' = "stand_in" /\ UNCHANGED stop
      PROVE  IInv'
  <2> DEFINE action == next_workflow_action(position, v)
             clear(p) == \A f \in Facts \ Optional : PhaseOf[f] <= p => v[f] # "unmet"
  <2>1. /\ action \in {"deliver_prompt", "complete", "raise"}
        /\ action = "deliver_prompt" => position < NSteps /\ clear(AfterPhase[position + 1])
        /\ action = "complete" => position = NSteps /\ \A f \in Facts \ Optional : v[f] # "unmet"
        /\ action = "raise" => blocking_phase(v) # 0
    <3>1. position \in 0..NSteps
      BY DEF IInv, Types, TypeOfSteps
    <3> QED BY <3>1, NextAction
  <2>2. /\ pending' = (action = "deliver_prompt")
        /\ ask' = IF action = "raise" THEN [for |-> "fix", before |-> made, retry |-> TRUE] ELSE ask
        /\ action = "deliver_prompt" => pc' = "submit" /\ stop' = stop
        /\ action = "complete" => pc' = "ended" /\ stop' = "workflow_complete"
        /\ action = "raise" => pc' = "stand_in" /\ stop' = stop
    BY <1>4, <2>1 DEF Halt
  <2> HIDE DEF action
  <2>3. pending' \in BOOLEAN /\ (pending' <=> action = "deliver_prompt")
    BY <2>2, Zenon
  <2>4. Types'
    <3>1. TypeOfAsking'
      BY <1>1, <2>2 DEF IInv, Types, TypeOfAsking
    <3>2. TypeOfPlace' /\ TypeOfTurns' /\ TypeOfSteps' /\ TypeOfJudging' /\ TypeOfScreen'
      BY <1>1, <1>4, <2>1, <2>2, <2>3
         DEF IInv, Types, TypeOfPlace, TypeOfTurns, TypeOfSteps, TypeOfJudging, TypeOfScreen
    <3>3. TypeOfSubject'
      BY <1>1 DEF IInv, Types, TypeOfSubject
    <3> QED BY <3>1, <3>2, <3>3 DEF Types
  <2>5. PhasesInOrder'
    <3>1. pending' => \A f \in Facts \ Optional :
                        PhaseOf[f] <= AfterPhase[position' + 1] => verdicts'[f] # "unmet"
      BY <1>1, <1>4, <2>1, <2>3
    <3>2. raised' = NoRaise
      BY <1>1, <1>2
    <3> QED BY <3>1, <3>2 DEF PhasesInOrder
  <2>6. raised' = NoRaise /\ raised'.calls = {}
    BY <1>1, <1>2, NoRaiseTyped
  <2>7. CASE action = "deliver_prompt"
    <3> USE <1>1, <1>2, <1>4, <2>1, <2>2, <2>3, <2>6, <2>7
    <3>1. Named' /\ Stopping' /\ Counted'
      BY DEF IInv, Types, TypeOfTurns, TypeOfSubject, Named, Stopping, Counted
    <3>2. Sent' /\ Positioned'
      BY DEF IInv, Types, TypeOfTurns, Sent, Positioned
    <3>3. Judged' /\ Creditable' /\ Roomy' /\ Pressed'
      BY <2>5 DEF IInv, Judged, CompletionJudged, Creditable, CallsCreditedOnce, Roomy, Pressed, AnswersEarned
    <3> QED BY <2>4, <3>1, <3>2, <3>3 DEF IInv
  <2>8. CASE action = "complete"
    <3> USE <1>1, <1>2, <1>4, <2>1, <2>2, <2>3, <2>6, <2>8
    <3>1. Named' /\ Stopping' /\ Counted'
      BY DEF IInv, Types, TypeOfSubject, Named, Stopping, Counted
    <3>2. Sent' /\ Positioned'
      BY DEF IInv, Sent, Positioned
    <3>3. Judged'
      BY <2>5 DEF IInv, Judged, CompletionJudged
    <3>4. Creditable' /\ Roomy' /\ Pressed'
      BY DEF IInv, Creditable, CallsCreditedOnce, Roomy, Pressed, AnswersEarned
    <3> QED BY <2>4, <3>1, <3>2, <3>3, <3>4 DEF IInv
  <2>9. CASE action = "raise"
    <3> USE <1>1, <1>2, <1>4, <2>1, <2>2, <2>3, <2>6, <2>9
    <3>1. ask'.for = "fix" /\ ask'.before = made
      OBVIOUS
    <3>2. Named' /\ Stopping' /\ Counted'
      BY <3>1 DEF IInv, Types, TypeOfTurns, TypeOfSubject, Named, Stopping, Counted
    <3>3. Sent' /\ Positioned'
      BY <3>1 DEF IInv, Sent, Positioned
    <3>4. Judged'
      BY <2>5 DEF IInv, Judged, CompletionJudged
    <3>5. Creditable'
      BY <3>1 DEF IInv, Types, TypeOfAsking, Creditable, CallsCreditedOnce, Open
    <3>6. Roomy' /\ Pressed'
      BY <3>1 DEF IInv, Roomy, Pressed, AnswersEarned
    <3> QED BY <2>4, <3>2, <3>3, <3>4, <3>5, <3>6 DEF IInv
  <2> QED BY <2>1, <2>7, <2>8, <2>9
<1>5. Interruption # "workflow_complete"
  BY DEF Interruption
<1> QED BY <1>3, <1>4, <1>5 DEF Inspect, Halt

\* A question or a screen is put to the stand-in, with the calls made so far behind it.
LEMMA DialogLoopKeeps ==
  ASSUME IInv, DialogLoop
  PROVE  IInv'
<1>1. /\ pc = "dialog_loop" /\ stop = "none"
      /\ UNCHANGED <<back, obs, runner, made, judging, driver, subject, journal, signals, keys, history>>
  BY DEF DialogLoop, IInv, Stopping
<1>2. obs \in Observations /\ (obs = "completed" => counted)
  BY <1>1 DEF IInv, Named, Counted
<1>3. CASE ~ Awaits(obs) /\ pc' = "settle" /\ UNCHANGED <<ask, screen, stop>>
  <2>1. TypeOfScreen'
    BY <1>3 DEF IInv, Types, TypeOfScreen
  <2> QED BY <1>1, <1>2, <1>3, <2>1, TurnLeft
<1>4. CASE Awaits(obs) /\ stop' = Interruption /\ pc' = "settle" /\ UNCHANGED <<ask, screen>>
  <2>1. TypeOfScreen'
    BY <1>4 DEF IInv, Types, TypeOfScreen
  <2> QED BY <1>1, <1>2, <1>4, <2>1, TurnLeft DEF Awaits, Interruption
<1>5. CASE Awaits(obs) /\ Ask("dialog", made) /\ UNCHANGED <<screen, stop>>
  <2>1. pc' = "stand_in" /\ ask' = [for |-> "dialog", before |-> made, retry |-> TRUE]
    BY <1>5 DEF Ask
  <2>2. ask'.for = "dialog" /\ ask'.before = made
    BY <2>1
  <2> USE <1>1, <1>5, <2>2
  <2>3. Types'
    BY <2>1 DEF IInv, Types, TypeOfPlace, TypeOfTurns, TypeOfSteps, TypeOfAsking, TypeOfJudging, TypeOfScreen,
                TypeOfSubject
  <2>4. Named' /\ Stopping' /\ Counted' /\ Sent' /\ Positioned'
    BY <2>1 DEF IInv, Named, Stopping, Counted, Sent, Positioned
  <2>5. Judged' /\ Roomy' /\ Pressed'
    BY <2>1 DEF IInv, Judged, CompletionJudged, PhasesInOrder, Roomy, Pressed, AnswersEarned
  <2>6. Creditable'
    BY <2>1 DEF IInv, Types, TypeOfAsking, Creditable, CallsCreditedOnce, Open
  <2> QED BY <2>3, <2>4, <2>5, <2>6 DEF IInv
<1>6. CASE /\ Awaits(obs) /\ shown \in Screens /\ pc' = "screen_loop" /\ UNCHANGED <<ask, refreshed, stop>>
           /\ tally' = [NoTally EXCEPT !.before = made, !.cur = shown]
  <2>1. tally' = [steps |-> 0, acted |-> 0, waited |-> 0, pressed |-> FALSE, before |-> made, cur |-> shown]
    BY <1>6 DEF NoTally
  <2>2. tally'.before = made /\ tally'.pressed = FALSE
    BY <2>1
  <2>3. TypeOfScreen'
    <3>1. made \in 0..StandInReplies /\ refreshed' \in BOOLEAN
      BY <1>1, <1>6 DEF IInv, Types, TypeOfAsking, TypeOfScreen
    <3>2. 0 \in 0..ScreenSteps /\ 0 \in 0..ScreenActions /\ 0 \in 0..ScreenWaits
      BY BudgetsAssumption
    <3>3. tally' \in [steps : 0..ScreenSteps, acted : 0..ScreenActions, waited : 0..ScreenWaits,
                      pressed : BOOLEAN, before : 0..StandInReplies, cur : Screens \cup {"none"}]
      <4>1. shown \in Screens \cup {"none"}
        BY <1>6
      <4> QED BY ONLY <2>1, <3>1, <3>2, <4>1
    <3> QED BY <3>1, <3>3 DEF TypeOfScreen
  <2> USE <1>1, <1>6, <2>2
  <2>4. TypeOfPlace' /\ TypeOfTurns' /\ TypeOfSteps' /\ TypeOfAsking' /\ TypeOfJudging' /\ TypeOfSubject'
    BY DEF IInv, Types, TypeOfPlace, TypeOfTurns, TypeOfSteps, TypeOfAsking, TypeOfJudging, TypeOfSubject
  <2>5. Named' /\ Stopping' /\ Counted' /\ Sent' /\ Positioned'
    BY DEF IInv, Named, Stopping, Counted, Sent, Positioned
  <2>6. Judged' /\ Roomy' /\ Pressed'
    BY DEF IInv, Judged, CompletionJudged, PhasesInOrder, Roomy, Pressed, AnswersEarned
  <2>7. Creditable'
    BY DEF IInv, Types, TypeOfAsking, Creditable, CallsCreditedOnce, Open
  <2> QED BY <2>3, <2>4, <2>5, <2>6, <2>7 DEF IInv, Types
<1>7. CASE Awaits(obs) /\ Again /\ UNCHANGED <<ask, tally, stop>>
  <2>1. refreshed' = TRUE /\ pc' \in {"settle", "refresh"}
    BY <1>7 DEF Again
  <2>2. TypeOfScreen'
    BY <1>7, <2>1 DEF IInv, Types, TypeOfScreen
  <2>3. CASE pc' = "settle"
    BY <1>1, <1>2, <1>7, <2>2, <2>3, TurnLeft
  <2>4. CASE pc' = "refresh"
    <3> USE <1>1, <1>7, <2>4
    <3>1. TypeOfPlace' /\ TypeOfTurns' /\ TypeOfSteps' /\ TypeOfAsking' /\ TypeOfJudging' /\ TypeOfSubject'
      BY DEF IInv, Types, TypeOfPlace, TypeOfTurns, TypeOfSteps, TypeOfAsking, TypeOfJudging, TypeOfSubject
    <3>2. Named' /\ Stopping' /\ Counted' /\ Sent' /\ Positioned'
      BY DEF IInv, Named, Stopping, Counted, Sent, Positioned
    <3>3. Judged' /\ Creditable' /\ Roomy' /\ Pressed'
      BY DEF IInv, Judged, CompletionJudged, PhasesInOrder, Creditable, CallsCreditedOnce, Roomy, Pressed,
             AnswersEarned
    <3> QED BY <2>2, <3>1, <3>2, <3>3 DEF IInv, Types
  <2> QED BY <2>1, <2>3, <2>4
<1>8. CASE ~ Awaits(obs)
  <2>1. pc' = "settle" /\ UNCHANGED <<ask, screen, stop>>
    BY <1>8 DEF DialogLoop
  <2> QED BY <1>3, <1>8, <2>1
<1>9. CASE Awaits(obs) /\ Interrupted
  <2>1. stop' = Interruption /\ pc' = "settle" /\ UNCHANGED <<ask, screen>>
    BY <1>1, <1>9 DEF DialogLoop
  <2> QED BY <1>4, <1>9, <2>1
<1>10. CASE Awaits(obs) /\ ~ Interrupted
  BY <1>1, <1>5, <1>6, <1>7, <1>10 DEF DialogLoop
<1> QED BY <1>8, <1>9, <1>10

\* A look at the subject within a turn, after which the turn goes on.
LEMMA LookingKeeps ==
  ASSUME IInv, Observed, obs' # "pending",
         \/ pc = "refresh" /\ pc' = "dialog_loop"
         \/ pc = "answer_wait" /\ pc' = "answered",
         UNCHANGED <<back, runner, asking, judging, screen, stop, subject, journal, signals, keys, history>>
  PROVE  IInv'
<1> USE DEF Observed
<1>1. Types'
  <2>1. TypeOfTurns'
    BY BudgetsAssumption DEF IInv, Types, TypeOfTurns, Counted
  <2>2. TypeOfSubject'
    BY DEF IInv, Types, TypeOfSubject
  <2>3. TypeOfPlace' /\ TypeOfSteps' /\ TypeOfAsking' /\ TypeOfJudging' /\ TypeOfScreen'
    BY DEF IInv, Types, TypeOfPlace, TypeOfSteps, TypeOfAsking, TypeOfJudging, TypeOfScreen
  <2> QED BY <2>1, <2>2, <2>3 DEF Types
<1>2. Named' /\ Stopping'
  BY DEF IInv, Named, Stopping
<1>3. Counted'
  BY BudgetsAssumption DEF IInv, Types, TypeOfTurns, TypeOfSubject, Counted
<1>4. Sent' /\ Positioned'
  BY DEF IInv, Types, TypeOfTurns, Sent, Positioned, Counted
<1>5. Judged' /\ Roomy' /\ Pressed'
  BY DEF IInv, Judged, CompletionJudged, PhasesInOrder, Roomy, Pressed, AnswersEarned
<1>6. Creditable'
  BY DEF IInv, Creditable, CallsCreditedOnce, Open
<1> QED BY <1>1, <1>2, <1>3, <1>4, <1>5, <1>6 DEF IInv

\* The turn is awaited once more when no dialog is shown.
LEMMA RefreshKeeps ==
  ASSUME IInv, Refresh
  PROVE  IInv'
<1>1. /\ pc = "refresh" /\ pc' = "dialog_loop" /\ Waited
      /\ UNCHANGED <<back, runner, asking, judging, screen, stop, subject, journal, signals, keys, history>>
  BY DEF Refresh
<1>2. Observed /\ obs' # "pending"
  BY <1>1, WaitObserves
<1> QED BY <1>1, <1>2, LookingKeeps

\* The turn is awaited after an answer.
LEMMA AnswerWaitKeeps ==
  ASSUME IInv, AnswerWait
  PROVE  IInv'
<1>1. /\ pc = "answer_wait" /\ pc' = "answered" /\ Waited
      /\ UNCHANGED <<back, runner, asking, judging, screen, stop, subject, journal, signals, keys, history>>
  BY DEF AnswerWait
<1>2. Observed /\ obs' # "pending"
  BY <1>1, WaitObserves
<1> QED BY <1>1, <1>2, LookingKeeps

\* A key that is sent to a dialog without one makes it a dialog with one.
LEMMA SelectKeeps ==
  ASSUME IInv, Select
  PROVE  IInv'
<1>1. /\ pc = "select"
      /\ UNCHANGED <<back, runner, asking, judging, screen, stop, driver, log, journal, signals, history>>
  BY DEF Select
<1>2. CASE /\ obs' \in {"unsupported", "timeout", "cancelled"} /\ pc' = "dialog_loop" /\ UNCHANGED <<shown, keys>>
  <2> USE <1>1, <1>2
  <2>1. Types'
    BY DEF IInv, Types, TypeOfPlace, TypeOfTurns, TypeOfSteps, TypeOfAsking, TypeOfJudging, TypeOfScreen,
           TypeOfSubject
  <2>2. Named' /\ Stopping' /\ Counted' /\ Sent' /\ Positioned'
    BY DEF IInv, Named, Observations, Stopping, Counted, Sent, Positioned
  <2>3. Judged' /\ Creditable' /\ Roomy' /\ Pressed'
    BY DEF IInv, Judged, CompletionJudged, PhasesInOrder, Creditable, CallsCreditedOnce, Roomy, Pressed,
           AnswersEarned
  <2> QED BY <2>1, <2>2, <2>3 DEF IInv
<1>3. CASE /\ keyed' = keyed + (IF fresh THEN 1 ELSE 0) /\ fresh' = TRUE
           /\ shown' \in Dialogs \cup Screens \cup {"composer"}
           /\ obs' = "structured_input" \/ obs' = obs
           /\ pc' \in {"answered", "answer_wait"}
  <2> USE <1>1, <1>3
  <2>1. fresh /\ keyed \in Nat /\ answers \in Nat /\ keyed' = keyed + 1
    BY DEF IInv, Types, TypeOfSubject, Pressed
  <2>2. Types'
    <3>1. TypeOfSubject'
      BY <2>1 DEF IInv, Types, TypeOfSubject
    <3>2. TypeOfPlace' /\ TypeOfTurns' /\ TypeOfSteps' /\ TypeOfAsking' /\ TypeOfJudging' /\ TypeOfScreen'
      BY DEF IInv, Types, TypeOfPlace, TypeOfTurns, TypeOfSteps, TypeOfAsking, TypeOfJudging, TypeOfScreen
    <3> QED BY <3>1, <3>2 DEF Types
  <2>3. Named' /\ Stopping' /\ Counted' /\ Sent' /\ Positioned'
    BY DEF IInv, Named, Observations, Stopping, Counted, Sent, Positioned
  <2>4. Judged' /\ Roomy'
    BY DEF IInv, Judged, CompletionJudged, PhasesInOrder, Roomy
  <2>5. Creditable'
    BY DEF IInv, Creditable, CallsCreditedOnce, Open
  <2>6. Pressed'
    BY <2>1 DEF IInv, Pressed, AnswersEarned
  <2> QED BY <2>2, <2>3, <2>4, <2>5, <2>6 DEF IInv
<1> QED BY <1>1, <1>2, <1>3 DEF Select, Press

\* The calls of an answered dialog are credited to it, once.
LEMMA DialogAnsweredKeeps ==
  ASSUME IInv, DialogAnswered
  PROVE  IInv'
<1>1. /\ pc = "answered" /\ answers' = answers + 1 /\ refreshed' = FALSE /\ pc' = "dialog_loop"
      /\ UNCHANGED <<back, obs, runner, asking, judging, tally, stop, driver, subject, progress,
                     saved, noted, raises, captured, signals, keys, history>>
  BY DEF DialogAnswered
<1>2. /\ credited' \in [Calls -> Nat] /\ CallsCreditedOnce'
      /\ \A c \in Calls : c \notin (ask.before + 1)..made => credited'[c] = credited[c]
  <2>1. \A c \in Calls : c \in (ask.before + 1)..made => credited[c] = 0
    BY <1>1 DEF IInv, Types, TypeOfAsking, Creditable, Open, Calls
  <2> QED BY <2>1, CreditOnce DEF DialogAnswered, IInv, Types, Creditable
<1> USE <1>1, <1>2
<1>3. Types'
  <2>1. TypeOfAsking'
    BY DEF IInv, Types, TypeOfAsking
  <2>2. TypeOfSubject'
    BY DEF IInv, Types, TypeOfSubject
  <2>3. TypeOfPlace' /\ TypeOfTurns' /\ TypeOfSteps' /\ TypeOfJudging' /\ TypeOfScreen'
    BY DEF IInv, Types, TypeOfPlace, TypeOfTurns, TypeOfSteps, TypeOfJudging, TypeOfScreen
  <2> QED BY <2>1, <2>2, <2>3 DEF Types
<1>4. Named' /\ Stopping' /\ Counted' /\ Sent' /\ Positioned'
  BY DEF IInv, Named, Stopping, Counted, Sent, Positioned
<1>5. Judged' /\ Roomy'
  BY DEF IInv, Judged, CompletionJudged, PhasesInOrder, Roomy
<1>6. Creditable'
  BY DEF IInv, Types, TypeOfAsking, Creditable, Open, Calls
<1>7. Pressed'
  BY DEF IInv, Types, TypeOfSubject, Pressed, AnswersEarned
<1> QED BY <1>3, <1>4, <1>5, <1>6, <1>7 DEF IInv

\* A screen has room for one more step, or the turn is left.
LEMMA ScreenLoopKeeps ==
  ASSUME IInv, ScreenLoop
  PROVE  IInv'
<1>1. /\ pc = "screen_loop"
      /\ UNCHANGED <<back, runner, made, judging, screen, driver, subject, journal, signals, keys, history>>
  BY DEF ScreenLoop
<1>2. stop = "none" /\ TypeOfScreen'
  BY <1>1 DEF IInv, Stopping, Types, TypeOfScreen
<1>3. CASE /\ stop' \in {"cancelled", "timeout", "needs_input"} /\ obs' = "unsupported" /\ pc' = "settle"
           /\ ask' = ask
  BY <1>1, <1>2, <1>3, TurnLeft DEF Observations
<1>4. CASE /\ tally.steps < ScreenSteps /\ tally.acted < ScreenActions /\ tally.waited < ScreenWaits
           /\ pc' = "stand_in" /\ ask' = [for |-> "screen", before |-> made, retry |-> TRUE]
           /\ UNCHANGED <<obs, stop>>
  <2> USE <1>1, <1>2, <1>4
  <2>1. ask'.for = "screen"
    OBVIOUS
  <2>2. TypeOfAsking'
    BY DEF IInv, Types, TypeOfAsking
  <2>3. TypeOfPlace' /\ TypeOfTurns' /\ TypeOfSteps' /\ TypeOfJudging' /\ TypeOfSubject'
    BY DEF IInv, Types, TypeOfPlace, TypeOfTurns, TypeOfSteps, TypeOfJudging, TypeOfSubject
  <2>4. Named' /\ Stopping' /\ Counted' /\ Sent' /\ Positioned'
    BY <2>1 DEF IInv, Named, Stopping, Counted, Sent, Positioned
  <2>5. Judged' /\ Roomy' /\ Pressed'
    BY <2>1 DEF IInv, Judged, CompletionJudged, PhasesInOrder, Roomy, Pressed, AnswersEarned
  <2>6. Creditable'
    BY <2>1 DEF IInv, Creditable, CallsCreditedOnce, Open
  <2> QED BY <2>2, <2>3, <2>4, <2>5, <2>6 DEF IInv, Types
<1>5. /\ tally.steps \in Nat /\ tally.acted \in Nat /\ tally.waited \in Nat
      /\ ScreenSteps \in Nat /\ ScreenActions \in Nat /\ ScreenWaits \in Nat
  BY BudgetsAssumption DEF IInv, Types, TypeOfScreen
<1> QED BY <1>3, <1>4, <1>5 DEF ScreenLoop, Ask, Interruption

\* What a step on a screen comes to: the screen is looked at, and a key that was sent to it is on
\* the tally; the dialog that is shown has got a key only if it is that screen.
LEMMA ScreenFollowed ==
  ASSUME IInv, pc \in {"act", "busy"}, pc' = "followed", Observed, TypeOfScreen', tally'.before = tally.before,
         shown' \in Dialogs \cup Screens \cup {"composer"}, keyed' \in Nat, fresh' \in BOOLEAN,
         answers <= keyed', tally'.pressed => answers < keyed',
         ~ fresh' => shown' \in Screens /\ shown' = tally'.cur /\ tally'.pressed,
         UNCHANGED <<back, runner, asking, judging, stop, log, journal, signals, history>>
  PROVE  IInv'
<1> USE DEF Observed
<1>1. Types'
  <2>1. TypeOfTurns'
    BY BudgetsAssumption DEF IInv, Types, TypeOfTurns, Counted
  <2>2. TypeOfSubject'
    BY DEF IInv, Types, TypeOfSubject
  <2>3. TypeOfPlace' /\ TypeOfSteps' /\ TypeOfAsking' /\ TypeOfJudging'
    BY DEF IInv, Types, TypeOfPlace, TypeOfSteps, TypeOfAsking, TypeOfJudging
  <2> QED BY <2>1, <2>2, <2>3 DEF Types
<1>2. Named' /\ Stopping'
  BY DEF IInv, Named, Stopping
<1>3. Counted'
  BY BudgetsAssumption DEF IInv, Types, TypeOfTurns, TypeOfSubject, Counted
<1>4. Sent' /\ Positioned'
  BY DEF IInv, Types, TypeOfTurns, Sent, Positioned, Counted
<1>5. Judged' /\ Roomy' /\ Pressed'
  BY DEF IInv, Judged, CompletionJudged, PhasesInOrder, Roomy, Pressed, AnswersEarned
<1>6. Creditable'
  BY DEF IInv, Creditable, CallsCreditedOnce, Open
<1> QED BY <1>1, <1>2, <1>3, <1>4, <1>5, <1>6 DEF IInv

\* A step on a screen counts: of the screen's actions or of its waits.
LEMMA TallyKept ==
  ASSUME IInv, pc \in {"act", "busy"}, NEW b \in BOOLEAN, UNCHANGED refreshed,
         \/ tally' = [tally EXCEPT !.steps = @ + 1, !.acted = @ + 1, !.pressed = b]
         \/ tally' = [tally EXCEPT !.steps = @ + 1, !.waited = @ + 1] /\ b = tally.pressed
  PROVE  TypeOfScreen' /\ tally'.before = tally.before /\ tally'.cur = tally.cur /\ tally'.pressed = b
<1>1. /\ tally.steps < ScreenSteps /\ tally.acted < ScreenActions /\ tally.waited < ScreenWaits
      /\ ScreenSteps \in Nat /\ ScreenActions \in Nat /\ ScreenWaits \in Nat
  BY BudgetsAssumption DEF IInv, Roomy
<1>2. /\ tally \in [steps : 0..ScreenSteps, acted : 0..ScreenActions, waited : 0..ScreenWaits,
                    pressed : BOOLEAN, before : 0..StandInReplies, cur : Screens \cup {"none"}]
      /\ refreshed' \in BOOLEAN
  BY DEF IInv, Types, TypeOfScreen
<1>3. /\ tally.steps + 1 \in 0..ScreenSteps /\ tally.acted + 1 \in 0..ScreenActions
      /\ tally.waited + 1 \in 0..ScreenWaits
  BY <1>1, <1>2
<1> QED BY <1>2, <1>3 DEF TypeOfScreen

\* A key on a screen is on its tally, and the dialog that follows has none unless it is the same one.
LEMMA ActKeeps ==
  ASSUME IInv, Act
  PROVE  IInv'
<1>1. /\ pc = "act"
      /\ UNCHANGED <<back, runner, asking, judging, refreshed, log, journal, signals, history>>
  BY DEF Act
<1>2. /\ answers \in Nat /\ keyed \in Nat /\ answers <= keyed /\ fresh \in BOOLEAN /\ tally.pressed \in BOOLEAN
      /\ (~ fresh => shown \in Screens /\ shown = tally.cur /\ tally.pressed)
      /\ (tally.pressed => answers < keyed)
      /\ shown \in Dialogs \cup Screens \cup {"composer"}
      /\ stop = "none"
  BY <1>1 DEF IInv, Types, TypeOfSubject, TypeOfScreen, Pressed, AnswersEarned, Stopping
<1>3. ASSUME tally' = [tally EXCEPT !.steps = @ + 1, !.acted = @ + 1, !.pressed = @ \/ FALSE],
             \E n \in 0..3 : Look(n), pc' = "followed", UNCHANGED <<stop, shown, keys>>
      PROVE  IInv'
  <2>1. Observed
    BY <1>3, LookObserves
  <2>2. tally' = [tally EXCEPT !.steps = @ + 1, !.acted = @ + 1, !.pressed = tally.pressed]
    <3>1. (tally.pressed \/ FALSE) = tally.pressed
      BY <1>2, Zenon
    <3> QED BY <1>3, <3>1, Zenon
  <2>3. TypeOfScreen' /\ tally'.before = tally.before /\ tally'.cur = tally.cur /\ tally'.pressed = tally.pressed
    BY <1>1, <1>2, <2>2, TallyKept
  <2> QED BY <1>1, <1>2, <1>3, <2>1, <2>3, ScreenFollowed
<1>4. ASSUME tally' = [tally EXCEPT !.steps = @ + 1, !.acted = @ + 1, !.pressed = @ \/ FALSE],
             obs' = "approval", stop' = "needs_input", pc' = "settle", UNCHANGED <<driver, shown, keys>>
      PROVE  IInv'
  <2>1. tally' = [tally EXCEPT !.steps = @ + 1, !.acted = @ + 1, !.pressed = tally.pressed]
    <3>1. (tally.pressed \/ FALSE) = tally.pressed
      BY <1>2, Zenon
    <3> QED BY <1>4, <3>1, Zenon
  <2>2. TypeOfScreen'
    BY <1>1, <1>2, <2>1, TallyKept
  <2> QED BY <1>1, <1>4, <2>2, TurnLeft DEF Observations
<1>5. ASSUME tally' = [tally EXCEPT !.steps = @ + 1, !.acted = @ + 1, !.pressed = @ \/ TRUE],
             shown = tally.cur, Press, pc' = "followed", UNCHANGED stop,
             \/ fresh' = FALSE /\ UNCHANGED shown
             \/ shown' \in Dialogs \cup Screens \cup {"composer"} /\ fresh' = (shown' # shown),
             Observed
      PROVE  IInv'
  <2>1. tally' = [tally EXCEPT !.steps = @ + 1, !.acted = @ + 1, !.pressed = TRUE]
    <3>1. (tally.pressed \/ TRUE) = TRUE
      BY <1>2, Zenon
    <3> QED BY <1>5, <3>1, Zenon
  <2>2. TypeOfScreen' /\ tally'.before = tally.before /\ tally'.cur = tally.cur /\ tally'.pressed = TRUE
    BY <1>1, <2>1, TallyKept
  <2>3. shown \in Screens
    BY <1>2, <1>5, OptionsAssumption DEF IInv, Types, TypeOfScreen
  <2>4. keyed' \in Nat /\ answers < keyed'
    BY <1>2, <1>5 DEF Press
  <2>5. fresh' \in BOOLEAN /\ (~ fresh' => shown' = shown) /\ shown' \in Dialogs \cup Screens \cup {"composer"}
    <3>1. CASE fresh' = FALSE /\ UNCHANGED shown
      BY <1>2, <3>1
    <3>2. CASE shown' \in Dialogs \cup Screens \cup {"composer"} /\ fresh' = (shown' # shown)
      BY <3>2, Zenon
    <3> QED BY <1>5, <3>1, <3>2
  <2> QED BY <1>1, <1>2, <1>5, <2>2, <2>3, <2>4, <2>5, ScreenFollowed
<1>6. ASSUME Act, tally' = [tally EXCEPT !.steps = @ + 1, !.acted = @ + 1, !.pressed = @ \/ TRUE],
             Press, shown = tally.cur, pc' = "followed", UNCHANGED stop,
             \/ /\ obs' \in {"uncertain", "timeout"}
                /\ fresh' = FALSE
                /\ UNCHANGED <<shown, driver>>
             \/ /\ shown' \in Dialogs \cup Screens \cup {"composer"}
                /\ fresh' = (shown' # shown)
                /\ IF shown' \in Screens THEN obs' = "unrecognized" /\ UNCHANGED driver
                   ELSE IF shown' = "composer"
                   THEN /\ read' = log /\ Count(log, TRUE) /\ obs' = Turn(log)
                        /\ UNCHANGED entered
                   ELSE /\ obs' = CASE shown' = "question" -> "structured_input"
                                    [] shown' = "approval" -> "approval"
                                    [] OTHER -> "exited"
                        /\ UNCHANGED driver
      PROVE  Observed
  <2>1. CASE obs' \in Observations \ {"completed", "pending"} /\ UNCHANGED driver
    BY <2>1, BlindObserves
  <2>2. CASE shown' = "composer" /\ read' = log /\ Count(log, TRUE) /\ obs' = Turn(log) /\ UNCHANGED entered
    BY <2>2, ClosedObserves
  <2> QED BY <1>6, <2>1, <2>2 DEF Observations
<1> QED BY <1>1, <1>3, <1>4, <1>5, <1>6 DEF Act

\* Waiting for a screen to change counts on its tally.
LEMMA BusyKeeps ==
  ASSUME IInv, Busy
  PROVE  IInv'
<1>1. /\ pc = "busy" /\ tally' = [tally EXCEPT !.steps = @ + 1, !.waited = @ + 1]
      /\ UNCHANGED <<back, runner, asking, judging, refreshed, subject, journal, signals, keys, history>>
  BY DEF Busy
<1>2. /\ answers \in Nat /\ keyed \in Nat /\ answers <= keyed /\ fresh \in BOOLEAN /\ tally.pressed \in BOOLEAN
      /\ (~ fresh => shown \in Screens /\ shown = tally.cur /\ tally.pressed)
      /\ (tally.pressed => answers < keyed)
      /\ shown \in Dialogs \cup Screens \cup {"composer"}
  BY <1>1 DEF IInv, Types, TypeOfSubject, TypeOfScreen, Pressed, AnswersEarned
<1>3. TypeOfScreen' /\ tally'.before = tally.before /\ tally'.cur = tally.cur /\ tally'.pressed = tally.pressed
  BY <1>1, <1>2, TallyKept
<1>4. CASE Observed /\ pc' = "followed" /\ UNCHANGED stop
  BY <1>1, <1>2, <1>3, <1>4, ScreenFollowed
<1>5. CASE obs' = "unsupported" /\ stop' = "needs_input" /\ pc' = "settle" /\ UNCHANGED driver
  BY <1>1, <1>3, <1>5, TurnLeft DEF Observations
<1>6. CASE obs' = "timeout" /\ pc' = "followed" /\ UNCHANGED <<stop, driver>>
  BY <1>4, <1>6, BlindObserves DEF Observations
<1>7. CASE (\E n \in 0..3 : Look(n)) /\ pc' = "followed" /\ UNCHANGED stop
  BY <1>1, <1>4, <1>7, LookObserves
<1>8. CASE /\ log > 1 /\ read' = log /\ Count(log, TRUE) /\ obs' = Turn(log) /\ pc' = "followed"
           /\ UNCHANGED <<stop, entered>>
  BY <1>4, <1>8, ClosedObserves
<1> QED BY <1>5, <1>6, <1>7, <1>8 DEF Busy

\* The tally of another screen begins with the calls made so far and without a key.
LEMMA TallyAnew ==
  ASSUME IInv, NEW cur \in Screens \cup {"none"}, tally' = NewTally(cur), refreshed' = FALSE
  PROVE  TypeOfScreen' /\ tally'.before = made /\ tally'.pressed = FALSE
<1>1. tally \in [steps : 0..ScreenSteps, acted : 0..ScreenActions, waited : 0..ScreenWaits,
                 pressed : BOOLEAN, before : 0..StandInReplies, cur : Screens \cup {"none"}]
  BY DEF IInv, Types, TypeOfScreen
<1>2. made \in 0..StandInReplies /\ 0 \in 0..ScreenActions /\ 0 \in 0..ScreenWaits
  BY BudgetsAssumption DEF IInv, Types, TypeOfAsking
<1>3. tally' = [tally EXCEPT !.acted = 0, !.waited = 0, !.pressed = FALSE, !.before = made, !.cur = cur]
  BY DEF NewTally
<1>4. tally' \in [steps : 0..ScreenSteps, acted : 0..ScreenActions, waited : 0..ScreenWaits,
                  pressed : BOOLEAN, before : 0..StandInReplies, cur : Screens \cup {"none"}]
      /\ tally'.before = made /\ tally'.pressed = FALSE
  BY ONLY <1>1, <1>2, <1>3, cur \in Screens \cup {"none"}
<1> QED BY <1>4 DEF TypeOfScreen
\* When the screen is no longer the one that was dealt with, the next one starts a tally of its own.
LEMMA FollowedKeeps ==
  ASSUME IInv, Followed
  PROVE  IInv'
<1> DEFINE following == IF Awaits(obs) /\ shown \in Screens THEN shown ELSE "none"
<1>1. /\ pc = "followed" /\ refreshed' = FALSE
      /\ pc' = CASE following # "none" -> "screen_loop"
                 [] following = "none" /\ obs = "pending" -> "refresh"
                 [] OTHER -> "dialog_loop"
      /\ UNCHANGED <<back, obs, runner, asking, judging, stop, driver, subject, progress, saved,
                     noted, raises, captured, signals, keys, history>>
  BY DEF Followed
<1>2. /\ answers \in Nat /\ keyed \in Nat /\ answers <= keyed /\ fresh \in BOOLEAN
      /\ (~ fresh => shown \in Screens /\ shown = tally.cur /\ tally.pressed)
      /\ (tally.pressed => answers < keyed) /\ (obs = "pending" => fresh)
      /\ stop = "none"
  BY <1>1 DEF IInv, Types, TypeOfSubject, Pressed, AnswersEarned, Stopping
<1>3. /\ following \in Screens \cup {"none"}
      /\ following # "none" => following = shown /\ Awaits(obs)
      /\ following = "none" /\ Awaits(obs) => shown \notin Screens
  BY OptionsAssumption
<1>4. /\ pc' \in {"screen_loop", "refresh", "dialog_loop"}
      /\ pc' = "screen_loop" <=> following # "none"
      /\ pc' = "refresh" => obs = "pending"
  BY <1>1
<1> HIDE DEF following
<1>5. CASE /\ following # tally.cur /\ tally' = NewTally(following) /\ tally.pressed
           /\ answers' = answers + 1 /\ Credit((tally.before + 1)..made)
  <2>1. TypeOfScreen' /\ tally'.before = made /\ tally'.pressed = FALSE
    BY <1>1, <1>3, <1>5, TallyAnew
  <2>2. /\ credited' \in [Calls -> Nat] /\ CallsCreditedOnce'
        /\ \A c \in Calls : c \notin (tally.before + 1)..made => credited'[c] = credited[c]
    <3>1. \A c \in Calls : c \in (tally.before + 1)..made => credited[c] = 0
      BY <1>1 DEF IInv, Types, TypeOfAsking, TypeOfScreen, Creditable, Open, Calls
    <3> QED BY <1>5, <3>1, CreditOnce DEF IInv, Types, Creditable
  <2> USE <1>1, <1>2, <1>3, <1>4, <1>5, <2>1, <2>2
  <2>3. TypeOfAsking' /\ TypeOfSubject'
    BY DEF IInv, Types, TypeOfAsking, TypeOfSubject
  <2>4. TypeOfPlace' /\ TypeOfTurns' /\ TypeOfSteps' /\ TypeOfJudging'
    BY DEF IInv, Types, TypeOfPlace, TypeOfTurns, TypeOfSteps, TypeOfJudging
  <2>5. Named' /\ Stopping' /\ Counted' /\ Sent' /\ Positioned'
    BY DEF IInv, Named, Stopping, Counted, Sent, Positioned
  <2>6. Judged' /\ Roomy'
    BY DEF IInv, Judged, CompletionJudged, PhasesInOrder, Roomy
  <2>7. Creditable'
    BY DEF IInv, Types, TypeOfAsking, TypeOfScreen, Creditable, Open, Calls
  <2>8. Pressed'
    BY DEF IInv, Pressed, AnswersEarned
  <2> QED BY <2>1, <2>3, <2>4, <2>5, <2>6, <2>7, <2>8 DEF IInv, Types
<1>6. CASE following # tally.cur /\ tally' = NewTally(following) /\ UNCHANGED <<answers, credited>>
  <2>1. TypeOfScreen' /\ tally'.before = made /\ tally'.pressed = FALSE
    BY <1>1, <1>3, <1>6, TallyAnew
  <2> USE <1>1, <1>2, <1>3, <1>4, <1>6, <2>1
  <2>3. TypeOfAsking' /\ TypeOfSubject'
    BY DEF IInv, Types, TypeOfAsking, TypeOfSubject
  <2>4. TypeOfPlace' /\ TypeOfTurns' /\ TypeOfSteps' /\ TypeOfJudging'
    BY DEF IInv, Types, TypeOfPlace, TypeOfTurns, TypeOfSteps, TypeOfJudging
  <2>5. Named' /\ Stopping' /\ Counted' /\ Sent' /\ Positioned'
    BY DEF IInv, Named, Stopping, Counted, Sent, Positioned
  <2>6. Judged' /\ Roomy'
    BY DEF IInv, Judged, CompletionJudged, PhasesInOrder, Roomy
  <2>7. Creditable'
    BY DEF IInv, Types, TypeOfAsking, TypeOfScreen, Creditable, CallsCreditedOnce, Open, Calls
  <2>8. Pressed'
    BY DEF IInv, Pressed, AnswersEarned
  <2> QED BY <2>1, <2>3, <2>4, <2>5, <2>6, <2>7, <2>8 DEF IInv, Types
<1>7. CASE following = tally.cur /\ UNCHANGED <<tally, answers, credited>>
  <2> USE <1>1, <1>2, <1>3, <1>4, <1>7
  <2>3. TypeOfScreen' /\ TypeOfAsking' /\ TypeOfSubject'
    BY DEF IInv, Types, TypeOfScreen, TypeOfAsking, TypeOfSubject
  <2>4. TypeOfPlace' /\ TypeOfTurns' /\ TypeOfSteps' /\ TypeOfJudging'
    BY DEF IInv, Types, TypeOfPlace, TypeOfTurns, TypeOfSteps, TypeOfJudging
  <2>5. Named' /\ Stopping' /\ Counted' /\ Sent' /\ Positioned'
    BY DEF IInv, Named, Stopping, Counted, Sent, Positioned
  <2>6. Judged' /\ Roomy'
    BY DEF IInv, Judged, CompletionJudged, PhasesInOrder, Roomy
  <2>7. Creditable'
    BY DEF IInv, Creditable, CallsCreditedOnce, Open
  <2>8. Pressed'
    BY DEF IInv, Pressed, AnswersEarned
  <2> QED BY <2>3, <2>4, <2>5, <2>6, <2>7, <2>8 DEF IInv, Types
<1> QED BY <1>5, <1>6, <1>7 DEF Followed, following

\* What the subject does leaves the runner where it is: it logs what it accepts,
LEMMA TakeKeeps ==
  ASSUME IInv, Take
  PROVE  IInv'
<1> USE DEF Take, Looking
<1>1. Types'
  BY DEF IInv, Types, TypeOfPlace, TypeOfTurns, TypeOfSteps, TypeOfAsking, TypeOfJudging, TypeOfScreen,
         TypeOfSubject
<1>2. Named' /\ Stopping' /\ Counted' /\ Sent' /\ Positioned'
  BY DEF IInv, Named, Stopping, Counted, Sent, Positioned, Types, TypeOfSubject
<1>3. Judged' /\ Roomy' /\ Pressed'
  BY DEF IInv, Judged, CompletionJudged, PhasesInOrder, Roomy, Pressed, AnswersEarned
<1>4. Creditable'
  BY DEF IInv, Creditable, CallsCreditedOnce, Open
<1> QED BY <1>1, <1>2, <1>3, <1>4 DEF IInv

\* it ends the turn only of what it accepted,
LEMMA FinishKeeps ==
  ASSUME IInv, Finish
  PROVE  IInv'
<1> USE DEF Finish, Looking
<1>1. Types'
  BY DEF IInv, Types, TypeOfPlace, TypeOfTurns, TypeOfSteps, TypeOfAsking, TypeOfJudging, TypeOfScreen,
         TypeOfSubject
<1>2. Named' /\ Stopping' /\ Counted' /\ Sent' /\ Positioned'
  BY DEF IInv, Named, Stopping, Counted, Sent, Positioned, Types, TypeOfSubject
<1>3. Judged' /\ Roomy' /\ Pressed'
  BY DEF IInv, Judged, CompletionJudged, PhasesInOrder, Roomy, Pressed, AnswersEarned
<1>4. Creditable'
  BY DEF IInv, Creditable, CallsCreditedOnce, Open
<1> QED BY <1>1, <1>2, <1>3, <1>4 DEF IInv

\* and what it shows next is a dialog that has got no key.
LEMMA ShowKeeps ==
  ASSUME IInv, Show
  PROVE  IInv'
<1> USE DEF Show, Looking
<1>1. Types'
  BY DEF IInv, Types, TypeOfPlace, TypeOfTurns, TypeOfSteps, TypeOfAsking, TypeOfJudging, TypeOfScreen,
         TypeOfSubject
<1>2. Named' /\ Stopping' /\ Counted' /\ Sent' /\ Positioned'
  BY DEF IInv, Named, Stopping, Counted, Sent, Positioned
<1>3. Judged' /\ Roomy' /\ Pressed'
  BY DEF IInv, Judged, CompletionJudged, PhasesInOrder, Roomy, Pressed, AnswersEarned
<1>4. Creditable'
  BY DEF IInv, Creditable, CallsCreditedOnce, Open
<1> QED BY <1>1, <1>2, <1>3, <1>4 DEF IInv

\* A signal stays unread until the runner looks at it.
LEMMA SignalKeeps ==
  ASSUME IInv, Cancel \/ Expire
  PROVE  IInv'
<1>1. /\ cancelled' \in BOOLEAN /\ expired' \in BOOLEAN
      /\ UNCHANGED <<pc, back, obs, runner, asking, judging, screen, stop, driver, subject, journal, keys, history>>
  BY DEF Cancel, Expire, IInv, Types, TypeOfSubject
<1> USE <1>1
<1>2. Types'
  BY DEF IInv, Types, TypeOfPlace, TypeOfTurns, TypeOfSteps, TypeOfAsking, TypeOfJudging, TypeOfScreen,
         TypeOfSubject
<1>3. Named' /\ Stopping' /\ Counted' /\ Sent' /\ Positioned'
  BY DEF IInv, Named, Stopping, Counted, Sent, Positioned
<1>4. Judged' /\ Roomy' /\ Pressed'
  BY DEF IInv, Judged, CompletionJudged, PhasesInOrder, Roomy, Pressed, AnswersEarned
<1>5. Creditable'
  BY DEF IInv, Creditable, CallsCreditedOnce, Open
<1> QED BY <1>2, <1>3, <1>4, <1>5 DEF IInv

\* What the frames held is empty again when they unwind.
LEMMA Unwound ==
  ASSUME Unwind, TypeOfAsking
  PROVE  /\ ask'.for = "follow" /\ tally'.before = 0 /\ tally'.pressed = FALSE /\ back' = "proceed"
         /\ ask' \in [for : {"follow", "fix", "dialog", "screen"}, before : 0..StandInReplies, retry : BOOLEAN]
         /\ TypeOfScreen'
<1>1. 0 \in 0..StandInReplies /\ 0 \in 0..ScreenSteps /\ 0 \in 0..ScreenActions /\ 0 \in 0..ScreenWaits
  BY BudgetsAssumption
<1>2. tally' \in [steps : 0..ScreenSteps, acted : 0..ScreenActions, waited : 0..ScreenWaits,
                 pressed : BOOLEAN, before : 0..StandInReplies, cur : Screens \cup {"none"}]
      /\ tally'.before = 0 /\ tally'.pressed = FALSE
  BY <1>1 DEF Unwind, NoTally
<1>3. ask' \in [for : {"follow", "fix", "dialog", "screen"}, before : 0..StandInReplies, retry : BOOLEAN]
      /\ ask'.for = "follow"
  BY <1>1 DEF Unwind
<1> QED BY <1>2, <1>3 DEF Unwind, TypeOfScreen

\* A failure ends the trial wherever it is.
LEMMA RaiseKeeps ==
  ASSUME IInv, Raise
  PROVE  IInv'
<1>1. /\ pc \notin {"ended", "captured"} /\ pc' = "ended" /\ stop' \in {"cancelled", "error"}
      /\ UNCHANGED <<obs, runner, made, judging, driver, subject, journal, signals, keys, history>>
  BY DEF Raise, Conduct, Halt
<1>2. /\ ask'.for = "follow" /\ tally'.before = 0 /\ tally'.pressed = FALSE /\ back' = "proceed"
      /\ ask' \in [for : {"follow", "fix", "dialog", "screen"}, before : 0..StandInReplies, retry : BOOLEAN]
      /\ TypeOfScreen'
  BY Unwound DEF Raise, IInv, Types
<1> USE <1>1, <1>2
<1>3. Types'
  BY DEF IInv, Types, TypeOfPlace, TypeOfTurns, TypeOfSteps, TypeOfAsking, TypeOfJudging, TypeOfSubject
<1>4. Named' /\ Stopping' /\ Counted' /\ Sent' /\ Positioned'
  BY DEF IInv, Named, Stopping, Counted, Sent, Positioned
<1>5. Judged' /\ Creditable' /\ Roomy' /\ Pressed'
  BY DEF IInv, Judged, CompletionJudged, PhasesInOrder, Creditable, CallsCreditedOnce, Roomy, Pressed,
         AnswersEarned
<1> QED BY <1>3, <1>4, <1>5 DEF IInv

\* The capture, by the runner or after a crash, keeps the journal's counts and nothing of the trial.
LEMMA CloseKeeps ==
  ASSUME IInv, Close, accepted' \in {accepted, noted}
  PROVE  IInv'
<1>1. /\ pc' = "captured" /\ captured' = progress
      /\ obs' = "ready" /\ delivered' = 0 /\ pending' = FALSE /\ raised' = NoRaise
      /\ verdicts' = Unjudged /\ inspectedAt' = 0
      /\ read' = 0 /\ counted' = FALSE /\ entered' = FALSE /\ shown' = "composer"
      /\ cancelled' = FALSE /\ expired' = FALSE /\ due' = 0 /\ fresh' = TRUE
      /\ UNCHANGED <<deliveries, position, count, progress, saved, noted, raises, answers,
                     credited, made, inspections, message, log, keyed>>
  BY DEF Close, Progress
<1>2. /\ ask'.for = "follow" /\ tally'.before = 0 /\ tally'.pressed = FALSE /\ back' = "proceed"
      /\ ask' \in [for : {"follow", "fix", "dialog", "screen"}, before : 0..StandInReplies, retry : BOOLEAN]
      /\ TypeOfScreen'
  BY Unwound DEF Close, IInv, Types
<1>3. /\ raised' \in [phase : 0..NPhases, calls : SUBSET Calls] /\ raised'.calls = {}
      /\ verdicts' \in Verdicts
      /\ 0 \in 0..MaxTurns /\ 0 \in 0..NSteps
  BY <1>1, NoRaiseTyped, StepsNat, BudgetsAssumption DEF Verdicts, Unjudged
<1> USE <1>1, <1>2, <1>3
<1>4. Types'
  <2>1. TypeOfTurns' /\ TypeOfSteps'
    BY DEF IInv, Types, TypeOfTurns, TypeOfSteps, Positioned
  <2>2. TypeOfPlace' /\ TypeOfAsking' /\ TypeOfJudging'
    BY DEF IInv, Types, TypeOfPlace, TypeOfAsking, TypeOfJudging
  <2>3. log' \in 0..3 /\ read' \in 0..3 /\ read' <= log'
    BY DEF IInv, Types, TypeOfSubject
  <2>4. TypeOfSubject'
    BY <2>3 DEF IInv, Types, TypeOfSubject
  <2> QED BY <2>1, <2>2, <2>4 DEF Types
<1>5. Named' /\ Stopping' /\ Counted' /\ Sent' /\ Positioned'
  BY DEF IInv, Named, Observations, Stopping, Counted, Sent, Positioned
<1>6. Judged' /\ Creditable' /\ Roomy' /\ Pressed'
  BY DEF IInv, Judged, CompletionJudged, PhasesInOrder, Creditable, CallsCreditedOnce, Roomy, Pressed,
         AnswersEarned
<1> QED BY <1>4, <1>5, <1>6 DEF IInv

\* A trial begins with the invariant.
LEMMA InitKeeps == Init => IInv
<1> SUFFICES ASSUME Init
             PROVE  IInv
  OBVIOUS
<1> USE DEF Init
<1>1. /\ raised \in [phase : 0..NPhases, calls : SUBSET Calls] /\ raised.calls = {}
      /\ verdicts \in Verdicts
      /\ 0 \in 0..MaxTurns /\ 0 \in 0..NSteps /\ 0 \in 0..(MaxTurns + 1) /\ 0 < MaxTurns
      /\ 0 \in 0..StandInReplies /\ 0 \in 0..MaxInspections
      /\ 0 \in 0..ScreenSteps /\ 0 \in 0..ScreenActions /\ 0 \in 0..ScreenWaits
  BY NoRaiseTyped, StepsNat, BudgetsAssumption DEF Verdicts, Unjudged
<1>2. Types
  <2>1. TypeOfPlace /\ TypeOfTurns /\ TypeOfSteps
    BY <1>1 DEF TypeOfPlace, TypeOfTurns, TypeOfSteps
  <2>2. TypeOfAsking /\ TypeOfJudging
    BY <1>1 DEF TypeOfAsking, TypeOfJudging
  <2>3. TypeOfScreen
    BY <1>1 DEF TypeOfScreen, NoTally
  <2>4. log \in 0..3 /\ read \in 0..3 /\ read <= log /\ 0 \in Nat
    OBVIOUS
  <2>5. TypeOfSubject
    BY <2>4 DEF TypeOfSubject
  <2> QED BY <2>1, <2>2, <2>3, <2>5 DEF Types
<1>3. Named /\ Stopping /\ Counted /\ Sent /\ Positioned
  BY <1>1 DEF Named, Observations, Stopping, Counted, Sent, Positioned
<1>4. Judged /\ Creditable /\ Roomy /\ Pressed
  BY <1>1 DEF Judged, CompletionJudged, PhasesInOrder, Creditable, CallsCreditedOnce, Roomy, Pressed,
         AnswersEarned, Calls
<1> QED BY <1>2, <1>3, <1>4 DEF IInv

-----------------------------------------------------------------------------
(* The theorems.                                                           *)

\* Every step of the runner, the subject, the signals and a crash keeps the invariant.
LEMMA NextKeeps == IInv /\ [Next]_vars => IInv'
<1> SUFFICES ASSUME IInv, [Next]_vars
             PROVE  IInv'
  OBVIOUS
<1>1. CASE Start \/ Submit \/ Wait \/ EnterDialogs \/ Settle
  BY <1>1, StartKeeps, SubmitKeeps, WaitKeeps, EnterDialogsKeeps, SettleKeeps
<1>2. CASE Accept \/ SavePosition \/ FixRequested \/ Proceed
  BY <1>2, AcceptKeeps, SavePositionKeeps, FixRequestedKeeps, ProceedKeeps
<1>3. CASE StandIn \/ Answered \/ DonePoint \/ Inspect
  BY <1>3, StandInKeeps, AnsweredKeeps, DonePointKeeps, InspectKeeps
<1>4. CASE DialogLoop \/ Refresh \/ Select \/ AnswerWait \/ DialogAnswered
  BY <1>4, DialogLoopKeeps, RefreshKeeps, SelectKeeps, AnswerWaitKeeps, DialogAnsweredKeeps
<1>5. CASE ScreenLoop \/ Act \/ Busy \/ Followed
  BY <1>5, ScreenLoopKeeps, ActKeeps, BusyKeeps, FollowedKeeps
<1>6. CASE Take \/ Finish \/ Show \/ Cancel \/ Expire
  BY <1>6, TakeKeeps, FinishKeeps, ShowKeeps, SignalKeeps
<1>7. CASE Raise
  BY <1>7, RaiseKeeps
<1>8. CASE Capture \/ Crash
  BY <1>8, CloseKeeps DEF Capture, Crash
<1>9. CASE UNCHANGED vars
  <2> USE <1>9 DEF vars
  <2>1. Types'
    BY DEF IInv, Types, TypeOfPlace, TypeOfTurns, TypeOfSteps, TypeOfAsking, TypeOfJudging, TypeOfScreen,
           TypeOfSubject
  <2>2. Named' /\ Stopping' /\ Counted' /\ Sent' /\ Positioned'
    BY DEF IInv, Named, Stopping, Counted, Sent, Positioned
  <2>3. Judged' /\ Roomy' /\ Pressed'
    BY DEF IInv, Judged, CompletionJudged, PhasesInOrder, Roomy, Pressed, AnswersEarned
  <2>4. Creditable'
    BY DEF IInv, Creditable, CallsCreditedOnce, Open
  <2> QED BY <2>1, <2>2, <2>3, <2>4 DEF IInv
<1> QED BY <1>1, <1>2, <1>3, <1>4, <1>5, <1>6, <1>7, <1>8, <1>9 DEF Next, Runner, Over

\* The invariant holds in every state of every behaviour.
THEOREM Invariant == Spec => []IInv
BY InitKeeps, NextKeeps, PTL DEF Spec

\* Every variable of the interaction has its type (the budgets of RunOptions bound the counters).
THEOREM TypeCorrect == Spec => []TypeOK
<1>1. IInv => TypeOK
  <2> SUFFICES ASSUME IInv
               PROVE  TypeOK
    OBVIOUS
  <2>1. DOMAIN Decisions = {"follow", "fix", "dialog", "screen"}
    BY DEF Decisions
  <2>2. /\ pc \in {"start", "submit", "wait", "dialogs", "settle", "accept", "save", "proceed",
               "fix_requested", "stand_in", "calling", "done_point", "inspect", "dialog_loop",
               "refresh", "select", "answer_wait", "answered", "screen_loop", "act", "busy",
               "followed", "ended", "captured"}
        /\ back \in {"proceed", "dialog_loop"}
    BY DEF IInv, Types, TypeOfPlace
  <2>3. /\ {accepted, delivered, count, noted, inspectedAt} \subseteq 0..MaxTurns
        /\ deliveries \in 0..(MaxTurns + 1)
    BY DEF IInv, Types, TypeOfTurns
  <2>4. {position, progress, saved, captured, due} \subseteq 0..NSteps
    BY DEF IInv, Types, TypeOfSteps
  <2>5. {pending, counted, entered, refreshed, cancelled, expired, fresh} \subseteq BOOLEAN
    <3>1. /\ pending \in BOOLEAN /\ counted \in BOOLEAN /\ entered \in BOOLEAN /\ refreshed \in BOOLEAN
          /\ cancelled \in BOOLEAN /\ expired \in BOOLEAN /\ fresh \in BOOLEAN
      BY DEF IInv, Types, TypeOfSteps, TypeOfScreen, TypeOfSubject
    <3> QED BY <3>1, Zenon
  <2>6. /\ raised \in [phase : 0..NPhases, calls : SUBSET Calls]
        /\ ask \in [for : DOMAIN Decisions, before : 0..StandInReplies, retry : BOOLEAN]
        /\ made \in 0..StandInReplies /\ credited \in [Calls -> Nat]
    BY <2>1 DEF IInv, Types, TypeOfAsking
  <2>7. inspections \in 0..MaxInspections /\ verdicts \in Verdicts
    BY DEF IInv, Types, TypeOfJudging
  <2>8. tally \in [steps : 0..ScreenSteps, acted : 0..ScreenActions, waited : 0..ScreenWaits,
                  pressed : BOOLEAN, before : 0..StandInReplies, cur : Screens \cup {"none"}]
    BY DEF IInv, Types, TypeOfScreen
  <2>9. /\ log \in 0..3 /\ read \in 0..3 /\ read <= log
        /\ shown \in Dialogs \cup Screens \cup {"composer"}
        /\ {raises, answers, keyed} \subseteq Nat
    BY DEF IInv, Types, TypeOfSubject
  <2>10. message \in {"none", "reply", "step", "fix", "noted"}
    BY DEF IInv, Types, TypeOfSteps
  <2> HIDE DEF runner, asking, judging, screen, driver, subject, journal, signals, keys, history
  <2> QED BY <2>2, <2>3, <2>4, <2>5, <2>6, <2>7, <2>8, <2>9, <2>10 DEF TypeOK
<1> QED BY <1>1, Invariant, PTL

\* A trial that is complete was judged so after the last accepted message, with every step delivered;
\* a step or a request to fix goes out only when its phase has come (workflow.py, next_workflow_action).
THEOREM CompletionAndPhases == Spec => []WorkflowKept
<1>1. IInv => WorkflowKept
  BY DEF IInv, Judged, WorkflowKept
<1> QED BY <1>1, Invariant, PTL

\* No call of the stand-in is named by two workflow steps, and the journal has no more answers than
\* there were dialogs that got a key (_answered, _answer_screen).
THEOREM AnswersCredited == Spec => []CreditExact
<1>1. IInv => CreditExact
  BY DEF IInv, Creditable, Pressed, CreditExact
<1> QED BY <1>1, Invariant, PTL

\* A question goes with the hint of the step that its turn delivers (dialog_source), and an accepted
\* step or request to fix is in the journal when the trial ends (_accept_pending, workflow_progress).
THEOREM StepsToldAndNoted == Spec => []StepsNoted
<1>1. IInv => HintStable
  <2> SUFFICES ASSUME IInv, pc = "calling", ask.for \in {"dialog", "screen"}
               PROVE  Hint = due
    BY DEF HintStable
  <2>1. due = position + (IF pending THEN 1 ELSE 0)
    BY DEF IInv, Positioned
  <2>2. due <= NSteps /\ position \in Nat /\ NSteps \in Nat
    BY StepsNat DEF IInv, Types, TypeOfSteps
  <2>3. Hint = dialog_source(due)
    BY <2>1, <2>2 DEF Hint
  <2>4. dialog_source(due) = due
    BY <2>1, <2>2 DEF dialog_source
  <2> QED BY <2>3, <2>4
<1>2. IInv => NothingLost
  BY DEF IInv, Sent, Positioned, NothingLost
<1> QED BY <1>1, <1>2, Invariant, PTL DEF StepsNoted

\* Once there is a reason to stop, nothing more is sent, asked or inspected, and only a failure
\* replaces the reason (_interact, _dialogs).
THEOREM StopIsFinal == Spec => StopFinal
<1> DEFINE Final == stop # "none" =>
                       /\ UNCHANGED <<deliveries, made, inspections, keyed>>
                       /\ stop' \in {stop, "error", "cancelled", "interrupted"}
<1>1. IInv /\ [Next]_vars => [Final]_vars
  <2> SUFFICES ASSUME IInv, Next, stop # "none"
               PROVE  UNCHANGED <<deliveries, made, inspections, keyed>>
                      /\ stop' \in {stop, "error", "cancelled", "interrupted"}
    BY Zenon
  <2>1. /\ pc \in {"settle", "proceed", "accept", "save", "fix_requested", "ended", "captured"}
        /\ pc \notin {"ended", "captured"} => obs # "completed"
    BY DEF IInv, Stopping
  <2>2. CASE Settle \/ Accept \/ SavePosition \/ FixRequested
    BY <2>2 DEF Settle, Accept, SavePosition, FixRequested
  <2>3. CASE Proceed
    BY <2>1, <2>3 DEF Proceed, Settled, Halt
  <2>4. CASE Raise \/ Crash \/ Capture
    BY <2>4 DEF Raise, Halt, Crash, Capture, Close
  <2>5. CASE Take \/ Finish \/ Show \/ Cancel \/ Expire \/ Over
    BY <2>5 DEF Take, Finish, Show, Cancel, Expire, Over, vars
  <2>6. ~ (Start \/ Submit \/ Wait \/ EnterDialogs \/ StandIn \/ Answered \/ DonePoint \/ Inspect)
    BY <2>1 DEF Start, Submit, Wait, EnterDialogs, StandIn, Answered, DonePoint, Inspect
  <2>7. ~ (DialogLoop \/ Refresh \/ Select \/ AnswerWait \/ DialogAnswered \/ ScreenLoop \/ Act \/ Busy \/ Followed)
    BY <2>1 DEF DialogLoop, Refresh, Select, AnswerWait, DialogAnswered, ScreenLoop, Act, Busy, Followed
  <2> QED BY <2>2, <2>3, <2>4, <2>5, <2>6, <2>7 DEF Next, Runner
<1>2. Spec => [][Final]_vars
  BY <1>1, Invariant, PTL DEF Spec
<1> QED BY <1>2 DEF StopFinal

-----------------------------------------------------------------------------
(* The interaction implements the case's workflow (CaseWorkflow).          *)

Running == pc \notin {"ended", "captured"}

\* A step that leaves the message, the position and the end as they are is none of the workflow's.
LEMMA Quiet ==
  ASSUME UNCHANGED <<message, progress, raises, log>>,
         (Running /\ Running') \/ (~ Running /\ ~ Running' /\ stop' = stop)
  PROVE  UNCHANGED Abstract!vars
<1>1. Outcome' = Outcome
  BY DEF Outcome, Running
<1> QED BY <1>1 DEF Abstract!vars

\* The end of the trial, but for completion, is the workflow's.
LEMMA Ending ==
  ASSUME UNCHANGED <<message, progress, raises, log>>, Running, ~ Running', stop' # "workflow_complete"
  PROVE  Abstract!End
BY DEF Abstract!End, Outcome, Running

\* At the start nothing was sent.
LEMMA InitImplements == Init => Abstract!Init
<1> SUFFICES ASSUME Init
             PROVE  Abstract!Init
  OBVIOUS
<1>1. log = 0
  BY DEF Init
<1>2. (log > 0) = FALSE
  BY <1>1
<1> QED BY <1>2 DEF Init, Abstract!Init, Outcome

\* A message is sent when the last one was accepted and noted.
LEMMA SubmitImplements ==
  ASSUME IInv, Submit
  PROVE  \/ \E m \in {"reply", "step", "fix"} : Abstract!Send(m)
         \/ Abstract!End
<1>1. CASE Interrupted
  BY <1>1, Ending DEF Submit, Halt, Interruption, Running
<1>2. CASE ~ Interrupted
  <2>1. /\ pc = "submit" /\ pc' \in {"wait", "settle"} /\ log' = 0
        /\ message' = CASE pending -> "step" [] raised # NoRaise -> "fix" [] OTHER -> "reply"
        /\ UNCHANGED <<progress, raises>>
    BY <1>2 DEF Submit, Deliver
  <2>2. Outcome = "running" /\ Outcome' = "running"
    BY <2>1 DEF Outcome
  <2>3. message' \in {"reply", "step", "fix"} /\ (message' = "step" => pending)
    BY <2>1 DEF IInv, Sent
  <2>4. pending => progress < NSteps
    BY DEF IInv, Positioned
  <2>5. (log > 0)' = FALSE
    <3>1. log' = 0
      BY <2>1
    <3> QED BY ONLY <3>1
  <2>6. message \in {"none", "noted"} \/ (message = "reply" /\ log > 0)
    <3>1. accepted > 0 => log > 0
      BY <2>1 DEF IInv, Types, TypeOfSubject, Counted
    <3>2. accepted = 0 \/ accepted > 0
      BY DEF IInv, Types, TypeOfTurns
    <3> QED BY <2>1, <3>1, <3>2 DEF IInv, Sent
  <2>7. Abstract!Send(message')
    BY <2>1, <2>2, <2>3, <2>4, <2>5, <2>6 DEF Abstract!Send
  <2> QED BY <2>3, <2>7
<1> QED BY <1>1, <1>2

\* The subject accepts a message once.
LEMMA TakeImplements ==
  ASSUME IInv, Take
  PROVE  Abstract!Take
<1>1. /\ pc \notin {"ended", "captured", "start", "accept", "save", "fix_requested"} /\ entered /\ log = 0 /\ log' = 1
      /\ UNCHANGED <<pc, message, progress, raises, stop>>
  BY DEF Take, Looking
<1>2. (log > 0) = FALSE /\ (log > 0)' = TRUE
  <2>1. log = 0 /\ log' = 1
    BY <1>1
  <2> QED BY ONLY <2>1
<1>3. ~ counted
  BY <1>1 DEF IInv, Types, TypeOfSubject, Counted
<1>4. InTurn \/ (Between /\ accepted = 0)
  BY <1>1, <1>3 DEF IInv, Types, TypeOfPlace, TypeOfAsking, TypeOfTurns, Counted
<1>5. InTurn
  BY <1>1, <1>3, <1>4 DEF IInv, Counted, Sent
<1>6. message \in {"reply", "step", "fix"}
  BY <1>3, <1>5 DEF IInv, Types, TypeOfSteps, Sent
<1>7. Outcome' = Outcome
  BY <1>1 DEF Outcome
<1> QED BY <1>1, <1>2, <1>6, <1>7 DEF Abstract!Take, Abstract!Messages

\* What was accepted is noted: a step, or a request to fix, or neither.
LEMMA AcceptImplements ==
  ASSUME IInv, Accept
  PROVE  Abstract!NoteStep \/ Abstract!NoteFix \/ UNCHANGED Abstract!vars
<1>1. pc = "accept" /\ UNCHANGED <<log, stop>>
  BY DEF Accept
<1>2. log > 0 /\ Outcome = "running"
  BY <1>1 DEF IInv, Types, TypeOfSubject, Counted, Outcome
<1>3. CASE /\ pending /\ progress' = position + 1 /\ message' = "noted" /\ pc' = "save" /\ UNCHANGED raises
  <2>1. message = "step" /\ progress = position
    BY <1>1, <1>3 DEF IInv, Sent, Positioned
  <2>2. Outcome' = "running"
    BY <1>3 DEF Outcome
  <2>3. Abstract!NoteStep
    BY <1>1, <1>2, <1>3, <2>1, <2>2 DEF Abstract!NoteStep
  <2> QED BY <2>3
<1>4. CASE /\ ~ pending /\ raised # NoRaise /\ raises' = raises + 1 /\ message' = "noted" /\ pc' = "fix_requested"
           /\ UNCHANGED progress
  <2>1. message = "fix"
    BY <1>1, <1>4 DEF IInv, Sent
  <2>2. Outcome' = "running"
    BY <1>4 DEF Outcome
  <2>3. Abstract!NoteFix
    BY <1>1, <1>2, <1>4, <2>1, <2>2 DEF Abstract!NoteFix
  <2> QED BY <2>3
<1>5. CASE pc' = back /\ UNCHANGED <<progress, raises, message>>
  <2>1. pc' \in {"proceed", "dialog_loop"}
    BY <1>5 DEF IInv, Types, TypeOfPlace
  <2> QED BY <1>1, <1>5, <2>1, Quiet DEF Running
<1> QED BY <1>3, <1>4, <1>5 DEF Accept

\* The trial is complete with every step delivered and the last message accepted and noted.
LEMMA InspectImplements ==
  ASSUME IInv, Inspect
  PROVE  Abstract!Complete \/ Abstract!End \/ UNCHANGED Abstract!vars
<1>1. /\ pc = "inspect" /\ UNCHANGED <<message, log, progress, raises>>
  BY DEF Inspect
<1>2. CASE pc' = "ended" /\ stop' \in {"cancelled", "timeout", "inspection_unavailable"}
  BY <1>1, <1>2, Ending DEF Running
<1>3. CASE pc' \in {"submit", "stand_in"}
  BY <1>1, <1>3, Quiet DEF Running
<1>4. ASSUME NEW v \in Verdicts, next_workflow_action(position, v) = "complete", Halt("workflow_complete")
      PROVE  Abstract!Complete
  <2>1. progress = NSteps
    BY <1>4, NextAction DEF IInv, Types, TypeOfSteps, Positioned
  <2>2. counted /\ accepted > 0
    BY <1>1 DEF IInv, Types, TypeOfTurns, Counted
  <2>3. log > 0 /\ message \in {"reply", "noted"}
    BY <1>1, <2>2 DEF IInv, Types, TypeOfSubject, Counted, Sent
  <2>4. Outcome = "running" /\ Outcome' = "complete"
    BY <1>1, <1>4 DEF Outcome, Halt
  <2> QED BY <1>1, <2>1, <2>3, <2>4 DEF Abstract!Complete
<1>5. ASSUME NEW v \in Verdicts,
             LET action == next_workflow_action(position, v)
             IN  CASE action = "deliver_prompt" -> pc' = "submit" /\ UNCHANGED stop
                   [] action = "complete"       -> Halt("workflow_complete")
                   [] OTHER                     -> pc' = "stand_in" /\ UNCHANGED stop
      PROVE  pc' \in {"submit", "stand_in"}
             \/ (next_workflow_action(position, v) = "complete" /\ Halt("workflow_complete"))
  BY <1>5
<1> QED BY <1>2, <1>3, <1>4, <1>5 DEF Inspect, Halt, Interruption

\* Every other step of the runner leaves the workflow as it is or ends it.
LEMMA RestImplements ==
  ASSUME IInv,
         \/ Start \/ Wait \/ EnterDialogs \/ Settle \/ SavePosition \/ FixRequested \/ Proceed \/ StandIn \/ Answered
         \/ DonePoint \/ DialogLoop \/ Refresh \/ Select \/ AnswerWait \/ DialogAnswered \/ ScreenLoop \/ Act \/ Busy
         \/ Followed \/ Show \/ Cancel \/ Expire \/ Raise \/ Crash \/ Capture
  PROVE  Abstract!End \/ UNCHANGED Abstract!vars
<1>1. CASE Start
  BY <1>1, Ending, Quiet DEF Start, Halt, StopReason, Running
<1>2. CASE Wait \/ EnterDialogs \/ Settle \/ SavePosition \/ FixRequested
  <2>1. back \in {"proceed", "dialog_loop"}
    BY DEF IInv, Types, TypeOfPlace
  <2> QED BY <1>2, <2>1, Quiet DEF Wait, EnterDialogs, Settle, SavePosition, FixRequested, Running
<1>3. CASE Proceed
  <2>1. stop # "workflow_complete" /\ obs \in Observations
    BY <1>3 DEF Proceed, IInv, Named
  <2> QED BY <1>3, <2>1, Ending, Quiet DEF Proceed, Halt, StopReason, Observations, Running
<1>4. CASE StandIn
  BY <1>4, Ending, Quiet DEF StandIn, Undecided, Running
<1>5. CASE Answered
  <2>1. /\ pc = "calling" /\ UNCHANGED <<message, progress, raises, log>>
    BY <1>5 DEF Answered
  <2>2. ask.for \in {"follow", "fix", "dialog", "screen"}
    BY DEF IInv, Types, TypeOfAsking
  <2>3. stop # "workflow_complete"
    BY <2>1 DEF IInv, Named
  <2>4. ASSUME NEW d \in Decisions[ask.for] \cup {"reply"}, d \in Decisions[ask.for] \/ ask.for = "fix", Decide(d)
        PROVE  Running' \/ stop' # "workflow_complete"
    BY <2>2, <2>4 DEF Decide, Decisions, Halt, Running
  <2>5. Running' \/ stop' # "workflow_complete"
    BY <1>5, <2>2, <2>3, <2>4 DEF Answered, Rejections, Interruption, Running
  <2> QED BY <2>1, <2>5, Ending, Quiet DEF Running
<1>6. CASE DonePoint
  BY <1>6, Ending, Quiet DEF DonePoint, Halt, Running
<1>7. CASE DialogLoop \/ ScreenLoop \/ Refresh \/ Select \/ AnswerWait \/ DialogAnswered
  BY <1>7, Quiet DEF DialogLoop, ScreenLoop, Refresh, Select, AnswerWait, DialogAnswered, Ask, Again, Running
<1>8. CASE Act \/ Busy \/ Followed
  BY <1>8, Quiet DEF Act, Busy, Followed, Running
<1>9. CASE Show \/ Cancel \/ Expire
  BY <1>9, Quiet DEF Show, Cancel, Expire, Looking, Running
<1>10. CASE Raise
  BY <1>10, Ending DEF Raise, Conduct, Halt, Running
<1>11. CASE Crash
  BY <1>11, Ending DEF Crash, Close, Conduct, Running
<1>12. CASE Capture
  BY <1>12, Quiet DEF Capture, Close, Running
<1> QED BY <1>1, <1>2, <1>3, <1>4, <1>5, <1>6, <1>7, <1>8, <1>9, <1>10, <1>11, <1>12

\* A turn that ends is accepted already.
LEMMA FinishImplements ==
  ASSUME IInv, Finish
  PROVE  UNCHANGED Abstract!vars
<1>1. log = 1 /\ log' \in {2, 3} /\ UNCHANGED <<pc, message, progress, raises, stop>>
  BY DEF Finish
<1>2. (log > 0)' = (log > 0)
  <2>1. log = 1 /\ (log' = 2 \/ log' = 3)
    BY <1>1
  <2> QED BY ONLY <2>1
<1> QED BY <1>1, <1>2 DEF Abstract!vars, Outcome

\* The interaction implements CaseWorkflow: its steps are the sending, accepting and noting of one
\* message at a time, completion and the end, and all others leave the workflow alone.
THEOREM WorkflowImplemented == Spec => Promises
<1>1. IInv /\ [Next]_vars => [Abstract!Next]_(Abstract!vars)
  <2> SUFFICES ASSUME IInv, [Next]_vars
               PROVE  Abstract!Next \/ UNCHANGED Abstract!vars
    OBVIOUS
  <2> USE DEF Abstract!Next, Abstract!Messages
  <2>1. CASE Submit
    BY <2>1, SubmitImplements
  <2>2. CASE Take
    BY <2>2, TakeImplements
  <2>3. CASE Accept
    BY <2>3, AcceptImplements
  <2>4. CASE Inspect
    BY <2>4, InspectImplements
  <2>5. CASE Finish
    BY <2>5, FinishImplements
  <2>6. CASE UNCHANGED vars
    BY <2>6 DEF vars, Abstract!vars, Outcome
  <2>7. CASE ~ (Submit \/ Take \/ Accept \/ Inspect \/ Finish \/ UNCHANGED vars)
    <3>1. \/ Start \/ Wait \/ EnterDialogs \/ Settle \/ SavePosition \/ FixRequested \/ Proceed \/ StandIn \/ Answered
          \/ DonePoint \/ DialogLoop \/ Refresh \/ Select \/ AnswerWait \/ DialogAnswered \/ ScreenLoop \/ Act \/ Busy
          \/ Followed \/ Show \/ Cancel \/ Expire \/ Raise \/ Crash \/ Capture
      BY <2>7 DEF Next, Runner, Over
    <3> QED BY <3>1, RestImplements
  <2> QED BY <2>1, <2>2, <2>3, <2>4, <2>5, <2>6, <2>7
<1> QED BY <1>1, InitImplements, Invariant, PTL DEF Spec, Promises, Abstract!Spec
=============================================================================
