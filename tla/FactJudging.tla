------------------------------ MODULE FactJudging ------------------------------
(* How the facts of a case are judged at the end (assessments.py, judges.py):  *)
(* one call asks for all of them, a second for those it left out, a third      *)
(* for those on which it and the run's last inspection differ, within the      *)
(* budget that the rubrics' call shares, and once: what was begun and not      *)
(* finished is not begun again. A call may fail in several ways.               *)
EXTENDS Naturals, FiniteSets

CONSTANTS
    Facts,
    MaxCalls      \* the judge's budget

Settled == {"met", "unmet"}
Verdicts == Settled \cup {"unclear"}
None == "none"
Unanswered == [f \in Facts |-> None]

VARIABLES
    inspected,  \* the last inspection's verdicts, as far as they can be compared
    at,         \* none, asking, again, rubrics, done; killed in between
    begun,      \* events of the journal: facts and rubrics (the intents), graded (fact-grade)
    calls,      \* judge-intent events
    judged, again,   \* the first two answers, put together, and the third
    asked,      \* what the call that is made asks for
    contested,
    grade,      \* the fact-grade event: the verdicts
    replied     \* every judgment of an answer that was accepted

vars == <<inspected, at, begun, calls, judged, again, asked, contested, grade, replied>>

\* What the theorem asks of the constants.
ConstantsFit == MaxCalls \in Nat

\* An inspection is compared when it saw the files that were captured, and for the facts that are
\* graded as they were inspected.
Init ==
    /\ inspected \in [Facts -> Verdicts \cup {None}]
    /\ at = "none" /\ begun = {} /\ calls = 0 /\ judged = Unanswered /\ again = Unanswered
    /\ asked = {} /\ contested = {} /\ grade = Unanswered /\ replied = {}

Missing(answers) == {f \in Facts : answers[f] = None}
Decides(verdict) == verdict \in Settled
Disagreements(answers) ==
    {f \in Facts : Decides(answers[f]) /\ Decides(inspected[f]) /\ inspected[f] # answers[f]}

-----------------------------------------------------------------------------
\* The intent is recorded before the first call; an intent without a grade is never taken up.
Begin(delivered) ==
    /\ at = "none" /\ begun = {}
    /\ IF delivered
       THEN at' = "asking" /\ begun' = {"facts"} /\ asked' = Facts
       ELSE at' = "rubrics" /\ begun' = {"graded"} /\ UNCHANGED asked
    /\ UNCHANGED <<grade, inspected, calls, judged, again, contested, replied>>

\* What follows the first two answers: those missing, if there are any and it was the first; then
\* those contested, if there are any.
After(answers, first) ==
    IF first /\ Missing(answers) # {}
    THEN at' = "missing" /\ asked' = Missing(answers) /\ UNCHANGED contested
    ELSE /\ at' = "again" /\ asked' = Disagreements(answers)
         /\ contested' = Disagreements(answers)

\* A call is recorded, made, and answered. An answer that is late, malformed, names a fact twice or one that
\* was not asked, or comes from a command that failed, is none; a judgment without evidence is unclear.
Call(answer) ==
    /\ calls < MaxCalls /\ asked # {} /\ calls' = calls + 1
    /\ answer \in [asked -> Verdicts \cup {None}]
    /\ replied' = replied \cup {<<f, answer[f]>> : f \in {g \in asked : answer[g] # None}}
    /\ UNCHANGED <<inspected, begun, grade>>

Answers(answer) == [f \in Facts |-> IF f \in asked /\ answer[f] # None THEN answer[f] ELSE judged[f]]

Ask(answer) ==
    /\ at \in {"asking", "missing"} /\ Call(answer)
    /\ judged' = Answers(answer) /\ UNCHANGED again
    /\ After(judged', at = "asking")

AskAgain(answer) ==
    /\ at = "again" /\ Call(answer)
    /\ again' = [f \in Facts |-> IF f \in asked THEN answer[f] ELSE None]
    /\ at' = "grade" /\ asked' = {} /\ UNCHANGED <<judged, contested>>

\* The budget is spent: no call, and no answer.
Unasked ==
    /\ at \in {"asking", "missing"} /\ calls >= MaxCalls
    /\ UNCHANGED <<inspected, begun, calls, judged, again, grade, replied>>
    /\ After(judged, at = "asking")

NotAgain ==
    /\ at = "again" /\ (asked = {} \/ calls >= MaxCalls)
    /\ at' = "grade" /\ asked' = {}
    /\ UNCHANGED <<inspected, begun, calls, judged, again, contested, grade, replied>>

\* A contested fact stands as inspected when the judge, asked again, says so too; else it is disputed.
TakesAgain(f) == again[f] # None
Agrees(f) == again[f] = inspected[f]
Grade ==
    /\ at = "grade" /\ at' = "rubrics" /\ begun' = begun \cup {"graded"}
    /\ grade' = [f \in Facts |->
         IF f \notin contested THEN judged[f] ELSE IF Agrees(f) THEN again[f] ELSE "disputed"]
    /\ UNCHANGED <<inspected, calls, judged, again, asked, contested, replied>>

\* The rubrics are judged by one call, recorded before it is made, if the budget has one left.
Rubrics ==
    /\ at = "rubrics" /\ at' = "done"
    /\ IF "rubrics" \notin begun /\ calls < MaxCalls
       THEN begun' = begun \cup {"rubrics"} /\ calls' = calls + 1
       ELSE UNCHANGED <<begun, calls>>
    /\ UNCHANGED <<inspected, judged, again, asked, contested, grade, replied>>

\* Killed or cancelled: what was recorded stays, the answers do not.
Kill ==
    /\ at \notin {"none", "done", "killed"} /\ at' = "killed"
    /\ judged' = Unanswered /\ again' = Unanswered /\ asked' = {} /\ contested' = {}
    /\ UNCHANGED <<inspected, begun, calls, grade, replied>>

\* Taken up again: a grade that was saved stands, facts that were begun without one have none.
Resume ==
    /\ at = "killed" /\ at' = "rubrics" /\ begun' = begun \cup {"graded"}
    /\ UNCHANGED <<inspected, grade, calls, judged, again, asked, contested, replied>>

Next ==
    \/ \E delivered \in BOOLEAN : Begin(delivered)
    \/ \E answer \in [asked -> Verdicts \cup {None}] : Ask(answer) \/ AskAgain(answer)
    \/ Unasked \/ NotAgain \/ Grade \/ Rubrics \/ Kill \/ Resume

Spec == Init /\ [][Next]_vars
-----------------------------------------------------------------------------
\* A fact's grade is a judgment of this grading, and never one that contradicts what the last
\* inspection saw: that is disputed, and only that; and the judge is never called more often than
\* its budget allows, however often the grading is killed and taken up.
GradeAgrees ==
    /\ calls <= MaxCalls
    /\ "graded" \in begun =>
        \A f \in Facts :
          /\ grade[f] \in Verdicts => <<f, grade[f]>> \in replied
          /\ grade[f] \in Settled /\ inspected[f] \in Settled => grade[f] = inspected[f]
          /\ grade[f] = "disputed" =>
               inspected[f] \in Settled /\ \E v \in Settled \ {inspected[f]} : <<f, v>> \in replied
=============================================================================
