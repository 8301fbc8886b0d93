------------------------------ MODULE DialogAnswer ------------------------------
(* Answering the questions of a native dialog (drivers/session.py, dialogs.py): *)
(* the stand-in chooses, the session moves the focus, toggles, types and enters *)
(* with keys that the subject's terminal takes one by one and shows when it     *)
(* gets to it, in frames that may be torn; every step waits for a frame that    *)
(* shows what it was to do, for a bounded time.                                 *)
EXTENDS Naturals, Sequences, FiniteSets, SequencesExt

CONSTANTS
    Script,      \* the questions that the subject asks: options, multi, text
    ClosedPolls, \* polls without a dialog until it counts as closed
    None

Review == Len(Script) + 1
Closed == 0

VARIABLES
    tui,        \* the subject's dialog: question (or Review, Closed), focus, checked, text (times typed), answered
    keys,       \* that it has not taken yet
    frame,      \* what it shows
    pc, asked, selection, current, duties, tries, gone,   \* the session
    wanted, given    \* history: answers chosen, answers taken, by question

vars == <<tui, keys, frame, pc, asked, selection, current, duties, tries, gone, wanted, given>>
session == <<pc, asked, selection, current, duties, tries, gone, wanted>>
subject == <<tui, frame, given>>

-----------------------------------------------------------------------------
(* The dialog and its frames. *)

TextRow(q) == IF q.text THEN q.options + 1 ELSE 0
SubmitRow(q) == IF q.multi THEN q.options + (IF q.text THEN 2 ELSE 1) ELSE 0
RowCount(d) == IF d = Review THEN 2 ELSE Script[d].options + (IF Script[d].text THEN 1 ELSE 0) + (IF Script[d].multi THEN 1 ELSE 0)

Opened(d, answered) == [question |-> d, focus |-> 1, checked |-> {}, text |-> 0, answered |-> answered]

\* A frame as question_dialog makes it out: a dialog, one whose focus cannot be told, or none.
Shown(t) == [question |-> t.question, focused |-> t.focus, checked |-> t.checked, text |-> t.text,
             complete |-> t.answered = 1..Len(Script)]
Torn == [question |-> Closed, focused |-> 0, checked |-> {}, text |-> 0, complete |-> FALSE]
Frames(t) == {IF t.question = Closed THEN Torn ELSE Shown(t), [Shown(t) EXCEPT !.focused = 0], Torn}
Present(f) == f.question # Closed

Same(f, d) == Present(f) /\ f.question = d       \* the questions differ from each other
FocusedOn(f, d, row) == Same(f, d) /\ f.focused = row
Toggled(f, d, row, on) == Same(f, d) /\ (row \in f.checked <=> on)
Typed(f, d, row) == Same(f, d) /\ f.focused = row /\ f.text = 1

Init ==
    /\ tui = Opened(1, {}) /\ keys = <<>> /\ frame = Torn
    /\ pc = "look" /\ asked = Closed /\ selection = None /\ current = None /\ duties = <<>> /\ tries = 0 /\ gone = 0
    /\ wanted = {} /\ given = {}

\* The terminal takes a key.
Answered(t) ==
    IF Script[t.question].multi THEN [rows |-> t.checked, text |-> t.text]
    ELSE IF t.focus = TextRow(Script[t.question]) THEN [rows |-> {}, text |-> t.text] ELSE [rows |-> {t.focus}, text |-> 0]
Following(t) ==
    LET answered == t.answered \cup {t.question}
    IN  IF t.question < Len(Script) THEN Opened(t.question + 1, answered)
        ELSE IF Len(Script) > 1 THEN Opened(Review, answered) ELSE Opened(Closed, answered)

Enters(t) ==
    IF t.question = Review THEN tui' = Opened(Closed, t.answered) /\ UNCHANGED given
    ELSE LET q == Script[t.question]
         IN  IF (q.multi /\ t.focus # SubmitRow(q)) \/ (t.focus = TextRow(q) /\ t.text = 0) THEN UNCHANGED <<tui, given>>
             ELSE tui' = Following(t) /\ given' = given \cup {[question |-> t.question, answer |-> Answered(t)]}

Takes(key, t) ==
    LET onText == t.question \in 1..Len(Script) /\ t.focus = TextRow(Script[t.question])
        onOption == t.question \in 1..Len(Script) /\ Script[t.question].multi /\ t.focus <= Script[t.question].options
    IN  CASE t.question = Closed -> t
          [] key = "Up" -> [t EXCEPT !.focus = IF @ > 1 THEN @ - 1 ELSE @]
          [] key = "Down" -> [t EXCEPT !.focus = IF @ < RowCount(t.question) THEN @ + 1 ELSE @]
          [] key = "Space" /\ onOption -> [t EXCEPT !.checked = IF t.focus \in @ THEN @ \ {t.focus} ELSE @ \cup {t.focus}]
          [] key = "Clear" /\ onText -> [t EXCEPT !.text = 0]
          [] key = "Paste" /\ onText -> [t EXCEPT !.text = @ + 1]
          [] OTHER -> t

TakeKey ==
    /\ keys # <<>> /\ keys' = Tail(keys)
    /\ IF Head(keys) = "Enter" /\ tui.question # Closed THEN Enters(tui)
       ELSE tui' = Takes(Head(keys), tui) /\ UNCHANGED given
    /\ UNCHANGED <<frame, session>>

Paint ==
    /\ pc \notin {"over", "stopped"}
    /\ \E f \in Frames(tui) \ {frame} : frame' = f
    /\ UNCHANGED <<tui, keys, given, session>>

\* The subject takes its question back, while the stand-in is asked about it.
Withdraw ==
    /\ pc = "decide" /\ tui.question = asked
    /\ tui' = IF asked < Len(Script) THEN Opened(asked + 1, tui.answered) ELSE Opened(Closed, tui.answered)
    /\ UNCHANGED <<keys, frame, given, session>>

-----------------------------------------------------------------------------
(* The session. *)

\* A question is seen and the stand-in is asked about it. Its call outlasts the keys still to be taken and a
\* frame; what it chooses is an answer that the question can have.
Look ==
    /\ pc = "look" /\ Present(frame) /\ frame.question # Review
    /\ asked' = frame.question /\ pc' = "decide"
    /\ UNCHANGED <<keys, subject, selection, current, duties, tries, gone, wanted>>

Selections(q) ==
    LET options == SUBSET (1..q.options)
    IN  IF q.multi THEN {[rows |-> o, text |-> t] : o \in options, t \in IF q.text THEN 0..1 ELSE {0}} \ {[rows |-> {}, text |-> 0]}
        ELSE {[rows |-> {o}, text |-> 0] : o \in 1..q.options} \cup (IF q.text THEN {[rows |-> {}, text |-> 1]} ELSE {})

Decide ==
    /\ pc = "decide" /\ keys = <<>> /\ frame = (CHOOSE f \in Frames(tui) : f.question = tui.question /\ (f = Torn \/ f.focused = tui.focus))
    /\ \E s \in Selections(Script[asked]) :
         /\ selection' = s /\ wanted' = wanted \cup {[question |-> asked, answer |-> s]}
    /\ pc' = "begin"
    /\ UNCHANGED <<keys, subject, asked, current, duties, tries, gone>>

\* What is to be done, from what is seen first: each [row, key].
DutiesFrom(f) ==
    LET q == Script[asked]
        toggles == SelectSeq([n \in 1..q.options |-> [row |-> n, key |-> "Space"]],
                             LAMBDA d : (d.row \in f.checked) # (d.row \in selection.rows))
        types == IF selection.text = 1 THEN <<[row |-> TextRow(q), key |-> "Paste"]>> ELSE <<>>
    IN  IF q.multi THEN toggles \o types \o <<[row |-> SubmitRow(q), key |-> "Enter"]>>
        ELSE types \o <<[row |-> IF selection.text = 1 THEN TextRow(q) ELSE CHOOSE r \in selection.rows : TRUE, key |-> "Enter"]>>

Begin ==
    /\ pc = "begin" /\ Same(frame, asked)
    /\ current' = frame /\ duties' = DutiesFrom(frame) /\ pc' = "focus" /\ tries' = 0
    /\ UNCHANGED <<keys, subject, asked, selection, gone, wanted>>

\* A key is pressed. When that is not acknowledged it may have been taken or not, and nothing more is pressed.
Press(sequence, at) ==
    \/ keys' = keys \o sequence /\ pc' = at
    \/ keys' \in {keys, keys \o sequence} /\ pc' = "stopped"

Focus ==
    /\ pc = "focus" /\ UNCHANGED <<subject, asked, selection, current, duties, gone, wanted, tries>>
    /\ LET target == Head(duties).row
       IN  CASE current.focused = 0 -> pc' = "stopped" /\ UNCHANGED keys
             [] current.focused = target -> pc' = "act" /\ UNCHANGED keys
             [] OTHER -> Press(<<IF current.focused < target THEN "Down" ELSE "Up">>, "moving")

Expected == IF current.focused < Head(duties).row THEN current.focused + 1 ELSE current.focused - 1
Moved ==
    /\ pc = "moving" /\ FocusedOn(frame, asked, Expected)
    /\ current' = frame /\ pc' = "focus"
    /\ UNCHANGED <<keys, subject, asked, selection, duties, tries, gone, wanted>>

Retyping == <<"Clear", "Paste">>
Act ==
    /\ pc = "act" /\ UNCHANGED <<subject, asked, selection, current, duties, gone, wanted>>
    /\ CASE Head(duties).key = "Space" -> Press(<<"Space">>, "toggling") /\ UNCHANGED tries
         [] Head(duties).key = "Paste" -> Press(IF tries = 0 THEN <<"Paste">> ELSE Retyping, "typing") /\ tries' = tries + 1
         [] OTHER -> Press(<<"Enter">>, "advance") /\ UNCHANGED tries

Done ==
    /\ \/ pc = "toggling" /\ Toggled(frame, asked, Head(duties).row, Head(duties).row \in selection.rows)
       \/ pc = "typing" /\ Typed(frame, asked, Head(duties).row)
    /\ current' = frame /\ duties' = Tail(duties) /\ pc' = "focus"
    /\ UNCHANGED <<keys, subject, asked, selection, tries, gone, wanted>>

\* The time for a frame is over: text is typed once more, anything else stops.
Expire ==
    /\ pc \in {"begin", "moving", "toggling", "typing", "advance"}
    /\ pc' = IF pc = "typing" /\ tries = 1 THEN "act" ELSE "stopped"
    /\ UNCHANGED <<keys, subject, asked, selection, current, duties, tries, gone, wanted>>

\* After Enter: another dialog, or none for some polls.
StillThere == pc = "advance" /\ Present(frame) /\ frame.question = asked /\ gone' = 0
              /\ UNCHANGED <<keys, subject, asked, selection, current, duties, tries, wanted, pc>>
NotThere ==
    /\ pc = "advance" /\ ~Present(frame) /\ gone' = gone + 1
    /\ pc' = IF gone' >= ClosedPolls THEN "over" ELSE "advance"
    /\ UNCHANGED <<keys, subject, asked, selection, current, duties, tries, wanted>>

Another ==
    /\ pc = "advance" /\ Present(frame) /\ frame.question # asked /\ gone' = 0
    /\ IF asked = Review THEN pc' = "stopped" /\ UNCHANGED <<asked, current, duties>>
       ELSE IF frame.question # Review THEN pc' = "look" /\ UNCHANGED <<asked, current, duties>>
       ELSE IF frame.complete THEN asked' = Review /\ current' = frame /\ pc' = "focus"
                                   /\ duties' = <<[row |-> 1, key |-> "Enter"]>>
       ELSE pc' = "stopped" /\ UNCHANGED <<asked, current, duties>>
    /\ UNCHANGED <<keys, subject, selection, tries, wanted>>

Next ==
    \/ TakeKey \/ Paint \/ Withdraw
    \/ Look \/ Decide \/ Begin \/ Focus \/ Moved \/ Act \/ Done \/ Expire
    \/ StillThere \/ NotThere \/ Another

Spec == Init /\ [][Next]_vars
-----------------------------------------------------------------------------
\* What the subject takes for an answer is what the stand-in chose for that very question, however late keys
\* are taken and shown, and whatever was typed twice or never acknowledged.
AnswersChosen == given \subseteq wanted
=============================================================================
