---------------------------- MODULE ReviewLanes ----------------------------
(***************************************************************************)
(* The lanes of an attempt (transcript._Lanes): who wrote each line of the *)
(* conversation and what each call behind the scenes was for, recovered    *)
(* from the order of the journal's events alone, beside the interaction    *)
(* (runner_attempt._interact) that writes those events and knows.          *)
(***************************************************************************)
EXTENDS Naturals, Sequences, FiniteSets, TLC, SequencesExt, FiniteSetsExt

CONSTANTS
    Facts,          \* requirements that an inspection may find unmet
    Texts,          \* what a stand-in may reply
    StepTexts,      \* the prompts of the workflow, in order
    MaxTurns, MaxCalls, MaxInspections   \* bounds, and the budgets

VARIABLES
    journal,
    at,            \* where _interact is
    taken,         \* the agent took the prompt of this delivery
    counted,       \* self.accepted
    prompt,        \* that is delivered: its text, author and origin
    pending,       \* the workflow step it delivers, 0 when none
    raising,       \* what the fix it asks for was handed
    position,
    call,          \* the stand-in call under way: purpose, handed, whether it may be retried
    truth,         \* author and origin of each accepted turn
    asked          \* purpose and handed set of each stand-in call

runner == <<at, taken, counted, prompt, pending, raising, position, call, truth, asked>>
vars == <<journal, runner>>

NoCall == [purpose |-> "none", handed |-> {}, retry |-> FALSE, screen |-> FALSE]

Init ==
    /\ journal = <<>> /\ at = "send" /\ taken = FALSE /\ counted = 0
    /\ prompt = [text |-> "initial", author |-> "initial", origin |-> 0]
    /\ pending = 0 /\ raising = {} /\ position = 0 /\ call = NoCall
    /\ truth = <<>> /\ asked = <<>>

Writes(events) == journal' = journal \o events
Inspections == Cardinality({k \in DOMAIN journal : journal[k].event = "inspection-intent"})
----------------------------------------------------------------------------
\* The attempt (runner_attempt).

\* _accept_pending: the step or the raise that the accepted prompt carried.
Carried(turn) ==
    CASE pending > 0 -> <<[event |-> "workflow-step", kind |-> "prompt", outcome |-> "sent",
                           id |-> pending, turn |-> turn, calls |-> FALSE]>>
      [] raising # {} -> <<[event |-> "raise", handed |-> raising]>>
      [] OTHER -> <<>>

AcceptPending(turn) ==
    /\ Writes(Carried(turn))
    /\ position' = IF pending > 0 THEN pending ELSE position
    /\ pending' = 0 /\ raising' = {}

Submit ==
    /\ at = "send" /\ Writes(<<[event |-> "submission-intent"]>>)
    /\ at' = "wire" /\ taken' = FALSE
    /\ UNCHANGED <<counted, prompt, pending, raising, position, call, truth, asked>>

\* The agent's.
Take ==
    /\ at \in {"wire", "dialogs"} /\ ~taken
    /\ taken' = TRUE /\ truth' = Append(truth, [author |-> prompt.author, origin |-> prompt.origin])
    /\ UNCHANGED <<journal, at, counted, prompt, pending, raising, position, call, asked>>

\* _dialogs: the delivery left a question or a screen open.
Open ==
    /\ at = "wire" /\ at' = "dialogs" /\ counted' = Len(truth)
    /\ IF Len(truth) > counted THEN AcceptPending(counted)
       ELSE UNCHANGED <<journal, pending, raising, position>>
    /\ UNCHANGED <<taken, prompt, call, truth, asked>>

\* The interaction's event, then its steps; an attempt goes on after a turn that completed.
Interact ==
    /\ at \in {"wire", "dialogs"} /\ at' = "pend" /\ counted' = Len(truth)
    /\ Writes(<<[event |-> "interaction", text |-> prompt.text, accepted |-> Len(truth),
                 fresh |-> Len(truth) > counted]>>)
    /\ UNCHANGED <<taken, prompt, pending, raising, position, call, truth, asked>>

Settle ==
    /\ at = "pend"
    /\ IF Last(journal).fresh THEN AcceptPending(counted - 1)
       ELSE pending' = 0 /\ raising' = {} /\ UNCHANGED <<journal, position>>
    /\ at' \in IF taken /\ counted < MaxTurns THEN {"follow", "over"} ELSE {"over"}
    /\ UNCHANGED <<taken, counted, prompt, call, truth, asked>>

\* _stand_in_turn: the intent, and the budgets.
Ask(purpose, handed, retry, screen) ==
    IF Len(asked) < MaxCalls
    THEN /\ Writes(<<[event |-> "controller-intent", call |-> Len(asked) + 1]>>)
         /\ asked' = Append(asked, [purpose |-> purpose, handed |-> handed])
         /\ call' = [purpose |-> purpose, handed |-> handed, retry |-> retry, screen |-> screen]
         /\ at' = "calling"
    ELSE at' = (IF purpose = "dialog" THEN "dialogs_over" ELSE "over") /\ UNCHANGED <<journal, asked, call>>

Follow ==
    /\ at = "follow" /\ Ask("reply", {}, TRUE, FALSE)
    /\ UNCHANGED <<taken, counted, prompt, pending, raising, position, truth>>

Dialog ==
    /\ at = "dialogs" /\ \E screen \in BOOLEAN : Ask("dialog", {}, TRUE, screen)
    /\ UNCHANGED <<taken, counted, prompt, pending, raising, position, truth>>

\* No answer: the delivery's observation stands.
GivenUp ==
    /\ at = "dialogs_over" /\ at' = "pend" /\ counted' = Len(truth)
    /\ Writes(<<[event |-> "interaction", text |-> prompt.text, accepted |-> Len(truth),
                 fresh |-> Len(truth) > counted]>>)
    /\ UNCHANGED <<taken, prompt, pending, raising, position, call, truth, asked>>

Result(status, action, text) ==
    [event |-> "controller-result", call |-> Len(asked), status |-> status,
     action |-> action, screen |-> call.screen /\ status = "completed", text |-> text]

Says(text, author, origin) == prompt' = [text |-> text, author |-> author, origin |-> origin]

Reply ==
    /\ at = "calling" /\ call.purpose # "dialog"
    /\ \E text \in Texts :
        Writes(<<Result("completed", "reply", text)>>) /\ Says(text, "stand_in", Len(asked))
    /\ raising' = call.handed /\ at' = "send"
    /\ UNCHANGED <<taken, counted, pending, position, call, truth, asked>>

Answer ==
    /\ at = "calling" /\ call.purpose = "dialog" /\ at' = "dialogs"
    /\ \E text \in Texts : Writes(<<Result("completed", "reply", text)>>)
    /\ UNCHANGED <<taken, counted, prompt, pending, raising, position, call, truth, asked>>

Stop ==
    /\ at = "calling" /\ call.purpose = "reply" /\ at' \in {"over", "done"}
    /\ Writes(<<Result("completed", "stop", "")>>)
    /\ UNCHANGED <<taken, counted, prompt, pending, raising, position, call, truth, asked>>

\* A refused or failed answer: once more, and then the reply that needs none.
Refused ==
    /\ at = "calling" /\ at' \in (IF call.retry THEN {"again"} ELSE {}) \cup
           {IF call.purpose = "dialog" THEN "dialogs_over" ELSE "over"} \cup
           (IF call.handed # {} THEN {"fallback"} ELSE {})
    /\ \E action \in {"none", "stop"} : Writes(<<Result("failed", action, "")>>)
    /\ UNCHANGED <<taken, counted, prompt, pending, raising, position, call, truth, asked>>

Again ==
    /\ at = "again" /\ Ask(call.purpose, call.handed, FALSE, call.screen)
    /\ UNCHANGED <<taken, counted, prompt, pending, raising, position, truth>>

Fallback ==
    /\ at = "fallback" /\ Writes(<<[event |-> "stand-in-fallback", text |-> "fallback"]>>)
    /\ Says("fallback", "fallback", 0) /\ raising' = call.handed /\ at' = "send"
    /\ UNCHANGED <<taken, counted, pending, position, call, truth, asked>>

\* _done_point.
Inspect ==
    /\ at = "done"
    /\ IF Inspections < MaxInspections
       THEN at' = "inspecting" /\ Writes(<<[event |-> "inspection-intent", id |-> Inspections + 1]>>)
       ELSE at' = "over" /\ UNCHANGED journal
    /\ UNCHANGED <<taken, counted, prompt, pending, raising, position, call, truth, asked>>

\* What it finds, and its outcome: steps[position] is next when no phase before it is blocked.
Inspected(unmet, outcome) ==
    Writes(<<[event |-> "fact-inspection", id |-> Inspections, unmet |-> unmet, done |-> TRUE],
             [event |-> "workflow-step", kind |-> "inspect", outcome |-> outcome, id |-> Inspections,
              turn |-> counted, calls |-> TRUE]>>)

Unavailable ==
    /\ at = "inspecting" /\ at' = "over"
    /\ Writes(<<[event |-> "fact-inspection", id |-> Inspections, unmet |-> {}, done |-> FALSE],
                [event |-> "workflow-step", kind |-> "inspect", outcome |-> "unavailable",
                 id |-> Inspections, turn |-> counted, calls |-> FALSE]>>)
    /\ UNCHANGED <<taken, counted, prompt, pending, raising, position, call, truth, asked>>

Deliver ==
    /\ at = "inspecting" /\ position < Len(StepTexts) /\ at' = "send"
    /\ \E unmet \in {{}} \cup {{f} : f \in Facts}, outcome \in {"passed", "unavailable"} :
        Inspected(unmet, outcome)
    /\ pending' = position + 1 /\ Says(StepTexts[position + 1], "workflow", position + 1)
    /\ UNCHANGED <<taken, counted, raising, position, call, truth, asked>>

Complete ==
    /\ at = "inspecting" /\ position = Len(StepTexts) /\ at' = "over" /\ Inspected({}, "passed")
    /\ UNCHANGED <<taken, counted, prompt, pending, raising, position, call, truth, asked>>

RequestFix ==
    /\ at = "inspecting" /\ at' = "fix"
    /\ \E f \in Facts : Inspected({f}, "failed") /\ call' = [NoCall EXCEPT !.handed = {f}]
    /\ UNCHANGED <<taken, counted, prompt, pending, raising, position, truth, asked>>

AskFix ==
    /\ at = "fix" /\ Ask("fix_request", call.handed, TRUE, FALSE)
    /\ UNCHANGED <<taken, counted, prompt, pending, raising, position, truth>>

\* A crash, cancellation or deadline ends an attempt anywhere: its journal is read as it is.
Next ==
    \/ Submit \/ Take \/ Open \/ Interact \/ Settle \/ Follow \/ Dialog \/ GivenUp
    \/ Reply \/ Answer \/ Stop \/ Refused \/ Again \/ Fallback
    \/ Inspect \/ Unavailable \/ Deliver \/ Complete \/ RequestFix \/ AskFix

Spec == Init /\ [][Next]_vars
----------------------------------------------------------------------------
\* The reader (transcript).

Ids(event) == {journal[k].call : k \in {j \in DOMAIN journal : journal[j].event = event}}
Resolved == {journal[k].id : k \in {j \in DOMAIN journal : journal[j].event = "fact-inspection"}}

Scene(kind, id) ==
    [kind |-> kind, id |-> id, status |-> "unknown", purpose |-> "none", handed |-> {}, calls |-> FALSE]

AuthorOf(l, text) ==
    LET matching == {k \in DOMAIN l.sources : l.sources[k].text = text}
    IN CASE l.lines = <<>> -> [author |-> "initial", origin |-> 0]
         [] l.lines # <<>> /\ matching = {} -> [author |-> "unknown", origin |-> 0]
         [] OTHER -> [author |-> l.sources[Max(matching)].author, origin |-> l.sources[Max(matching)].origin]

\* _Lanes.interaction.
Line(l, e) ==
    IF e.accepted > l.turn
    THEN [l EXCEPT !.turn = e.accepted,
                   !.lines = Append(@, [turn |-> e.accepted, author |-> AuthorOf(l, e.text).author,
                                        origin |-> AuthorOf(l, e.text).origin])]
    ELSE l

Interaction(l, e) == [Line(l, e) EXCEPT !.delivering = FALSE, !.fix = {}, !.sources = <<>>]

StandInIntent(l, e) ==
    IF e.call \in Ids("controller-result") THEN l
    ELSE [l EXCEPT !.scenes = Append(@, Scene("stand_in", e.call))]

\* _Lanes.controller.
Purpose(l, e) ==
    CASE l.delivering -> IF e.screen THEN "screen" ELSE "dialog"
      [] ~l.delivering /\ l.fix # {} -> "fix_request"
      [] OTHER -> "reply"

Controller(l, e) ==
    LET purpose == Purpose(l, e)
        source == [author |-> "stand_in", origin |-> e.call, text |-> e.text]
    IN [l EXCEPT !.scenes = Append(@, [Scene("stand_in", e.call) EXCEPT !.status = e.status,
                     !.purpose = purpose, !.handed = IF purpose = "fix_request" THEN l.fix ELSE {}]),
                 !.sources = IF e.status = "completed" /\ e.action = "reply" /\ purpose \in {"reply", "fix_request"}
                             THEN Append(@, source) ELSE @]

FallbackReply(l, e) ==
    [l EXCEPT !.scenes = Append(@, [Scene("fallback", 0) EXCEPT !.handed = l.fix]),
              !.sources = Append(@, [author |-> "fallback", origin |-> 0, text |-> e.text])]

InspectionIntent(l, e) ==
    IF e.id \in Resolved THEN l ELSE [l EXCEPT !.scenes = Append(@, Scene("inspection", e.id))]

Inspection(l, e) ==
    [l EXCEPT !.scenes = Append(@, [Scene("inspection", e.id) EXCEPT
                             !.status = IF e.done THEN "completed" ELSE "unavailable"]),
              !.raises = IF e.unmet # {} THEN @ @@ (e.id :> e.unmet) ELSE @]

\* _attach_calls and _attribute: the latest scene of the inspection, the line of the turn.
AttachCalls(l, e) ==
    LET scenes == {k \in DOMAIN l.scenes : l.scenes[k].kind = "inspection" /\ l.scenes[k].id = e.id}
    IN IF scenes = {} \/ ~e.calls THEN l ELSE [l EXCEPT !.scenes[Max(scenes)].calls = TRUE]

Attribute(l, e) ==
    LET lines == {k \in DOMAIN l.lines : l.lines[k].turn = e.turn + 1 /\ l.lines[k].author = "unknown"}
    IN IF lines = {} THEN l
       ELSE [l EXCEPT !.lines[Max(lines)] = [@ EXCEPT !.author = "workflow", !.origin = e.id]]

Step(l, e) ==
    IF e.kind = "prompt"
    THEN Attribute([l EXCEPT !.scenes = Append(@, Scene("prompt_step", e.id))], e)
    ELSE LET attached == AttachCalls(l, e)
         IN IF e.id \in DOMAIN l.raises
            THEN [attached EXCEPT !.fix = IF e.outcome = "failed" THEN l.raises[e.id] ELSE {}]
            ELSE attached

Correction(l, e) == [l EXCEPT !.scenes = Append(@, [Scene("correction", 0) EXCEPT !.handed = e.handed])]

\* _journal_lanes.
Handle(l, e) ==
    CASE e.event = "submission-intent" -> [l EXCEPT !.delivering = TRUE]
      [] e.event = "interaction" -> Interaction(l, e)
      [] e.event = "controller-intent" -> StandInIntent(l, e)
      [] e.event = "controller-result" -> Controller(l, e)
      [] e.event = "stand-in-fallback" -> FallbackReply(l, e)
      [] e.event = "inspection-intent" -> InspectionIntent(l, e)
      [] e.event = "fact-inspection" -> Inspection(l, e)
      [] e.event = "workflow-step" -> Step(l, e)
      [] e.event = "raise" -> Correction(l, e)

Lanes ==
    FoldLeft(Handle, [turn |-> 0, delivering |-> FALSE, fix |-> {}, raises |-> <<>>, sources |-> <<>>,
                      lines |-> <<>>, scenes |-> <<>>], journal)
----------------------------------------------------------------------------
\* A line whose author is shown was written by that author: the texts of a stand-in's replies and
\* of the workflow's prompts may be the same, and only the order of events tells them apart.
AuthorsRight(lines) ==
    \A k \in DOMAIN lines :
        \/ lines[k].author = "unknown"
        \/ truth[lines[k].turn] = [author |-> lines[k].author, origin |-> lines[k].origin]

\* What a settled call is shown to have been for, and handed, is what the runner asked it for, a
\* call shown without a result has none, and no call is shown twice.
ScenesRight(scenes) ==
    LET shown == SelectSeq(scenes, LAMBDA scene : scene.kind = "stand_in")
    IN /\ \A k \in DOMAIN shown : LET scene == shown[k] IN
            IF scene.status = "unknown" THEN scene.id \notin Ids("controller-result")
            ELSE /\ (IF scene.purpose = "screen" THEN "dialog" ELSE scene.purpose) = asked[scene.id].purpose
                 /\ scene.handed = asked[scene.id].handed
       /\ Len(shown) = Len(asked) /\ {shown[k].id : k \in DOMAIN shown} = DOMAIN asked

\* The two of what is shown of the journal.
LanesRight == LET shown == Lanes IN AuthorsRight(shown.lines) /\ ScenesRight(shown.scenes)

\* results.md on `transcript`: the author of a user message is a workflow prompt step when the journal
\* has the step that sent it, and `unknown` only when nothing in the journal matches it.
WorkflowNamed ==
    at = "follow" =>
        LET lines == Lanes.lines
        IN \A k \in DOMAIN lines :
            lines[k].author = "unknown" =>
                \A j \in DOMAIN journal :
                    ~(/\ journal[j].event = "workflow-step" /\ journal[j].kind = "prompt"
                      /\ journal[j].turn + 1 = lines[k].turn)
=============================================================================
