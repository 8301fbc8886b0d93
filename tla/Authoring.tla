------------------------------- MODULE Authoring -------------------------------
(* The authoring catalogue (authoring_catalog.py, mining.py, cases.py): one     *)
(* file of selections, requests with their candidates, triage and voices, that  *)
(* commands edit under a lock and against the revision that their user has      *)
(* inspected. A candidate is decided, drafted, validated and frozen into a      *)
(* case, from files which the user may change at any time.                      *)
EXTENDS Naturals, FiniteSets

CONSTANTS
    Commands, Names,             \* the candidates of a request
    Micro,                       \* a request for a micro-bug
    Drafts, Agreeing, Fit,       \* versions of a draft; those that agree with their decision; that pass validation too
    MaxEdits, MaxRevision,       \* bounds on what the user writes and on saved edits
    None

VARIABLES
    catalog,    \* revision; selected, requested, triaged, voiced; the request's revision; decisions
    held,       \* the command with the lock
    cmd,        \* of each command: at, op, name, revision expected, catalogue read, what it copied
    files,      \* of each candidate its draft and the file it names: versions
    cases,      \* objects: frozen contents
    edits, saves,   \* history: how often the user wrote, and commands saved
    last        \* history: the last saved edit of the request

vars == <<catalog, held, cmd, files, cases, edits, saves, last>>

\* What the theorems ask of the constants.
ConstantsFit == None \notin Commands /\ Fit # {} /\ Fit \subseteq Agreeing /\ Agreeing \subseteq Drafts

Undecided == [state |-> "none", said |-> 0, validation |-> None, case |-> None]
Idle == [at |-> "idle", op |-> "none", name |-> None, expected |-> 0, read |-> None, draft |-> 0, file |-> 0]

Init ==
    /\ catalog = [revision |-> 0, selected |-> FALSE, requested |-> FALSE, triage |-> 0, voice |-> None,
                  request |-> 1, decisions |-> [n \in Names |-> Undecided]]
    /\ held = None /\ cmd = [c \in Commands |-> Idle]
    /\ files = [n \in Names |-> [draft |-> CHOOSE v \in Fit : TRUE, file |-> 1]]
    /\ cases = {} /\ edits = 0 /\ saves = 0 /\ last = None

-----------------------------------------------------------------------------
\* The user writes a draft or the file it names.
WriteDraft(n) ==
    /\ edits < MaxEdits /\ edits' = edits + 1
    /\ \E v \in Drafts \ {files[n].draft} : files' = [files EXCEPT ![n].draft = v]
    /\ UNCHANGED <<catalog, held, cmd, cases, saves, last>>

WriteFile(n) ==
    /\ edits < MaxEdits /\ edits' = edits + 1
    /\ files' = [files EXCEPT ![n].file = 3 - @]
    /\ UNCHANGED <<catalog, held, cmd, cases, saves, last>>

Becomes(c, s) == cmd' = [cmd EXCEPT ![c] = s]
Goto(c, at) == Becomes(c, [cmd[c] EXCEPT !.at = at])
Ends(c) == Becomes(c, Idle) /\ held' = IF held = c THEN None ELSE held

Operations ==
    [op : {"select", "request", "gap", "triage", "voice", "unvoice"}, name : {None}]
      \cup [op : {"reject", "draft", "validate", "freeze"}, name : Names]

\* The user inspects the catalogue and calls for an edit of what he has seen.
Inspect(c) ==
    /\ cmd[c].at = "idle" /\ catalog.revision < MaxRevision
    /\ \E o \in Operations :
         Becomes(c, [Idle EXCEPT !.at = "called", !.op = o.op, !.name = o.name, !.expected = catalog.revision])
    /\ UNCHANGED <<catalog, held, files, cases, edits, saves, last>>

Free == held = None

Busy(c) ==
    /\ cmd[c].at = "called" /\ ~Free /\ Becomes(c, Idle)
    /\ UNCHANGED <<catalog, held, files, cases, edits, saves, last>>

Enter(c) ==
    /\ cmd[c].at = "called" /\ Free
    /\ IF catalog.revision = cmd[c].expected
       THEN held' = c /\ Becomes(c, [cmd[c] EXCEPT !.at = "checks", !.read = catalog])
       ELSE Ends(c)
    /\ UNCHANGED <<catalog, files, cases, edits, saves, last>>

-----------------------------------------------------------------------------
\* What an edit requires of the catalogue.
Decision(c) == cmd[c].read.decisions[cmd[c].name]
Drafted(r) == {n \in Names : r.decisions[n].state \in {"drafted", "frozen"}}
TargetMaximum == IF Micro THEN 1 ELSE 6

Allowed(c) ==
    LET r == cmd[c].read
    IN  CASE cmd[c].op = "select" -> ~r.selected
          [] cmd[c].op = "request" -> r.selected /\ ~r.requested
          [] cmd[c].op = "triage" -> r.selected
          [] cmd[c].op = "voice" -> r.selected /\ r.voice = None
          [] cmd[c].op = "unvoice" -> r.voice # None
          [] cmd[c].op = "gap" -> r.requested
          [] cmd[c].op \in {"reject", "draft"} -> r.requested /\ Decision(c).state # "frozen"
          [] OTHER -> r.requested /\ Decision(c).state = "drafted"

Check(c) ==
    /\ cmd[c].at = "checks"
    /\ IF Allowed(c) THEN Goto(c, IF cmd[c].op \in {"draft", "validate", "freeze"} THEN "reads" ELSE "saves") /\ UNCHANGED held
       ELSE Ends(c)
    /\ UNCHANGED <<catalog, files, cases, edits, saves, last>>

\* The draft is read once, then the file; both are copied.
ReadDraft(c) ==
    /\ cmd[c].at = "reads"
    /\ Becomes(c, [cmd[c] EXCEPT !.draft = files[cmd[c].name].draft, !.at = IF cmd[c].op = "draft" THEN "verifies" ELSE "copies"])
    /\ UNCHANGED <<catalog, held, files, cases, edits, saves, last>>

ReadFile(c) ==
    /\ cmd[c].at = "copies" /\ Becomes(c, [cmd[c] EXCEPT !.file = files[cmd[c].name].file, !.at = "verifies"])
    /\ UNCHANGED <<catalog, held, files, cases, edits, saves, last>>

Content(c) == [said |-> Decision(c).said, draft |-> cmd[c].draft, file |-> cmd[c].file]
Validated(c) ==
    /\ Decision(c).validation # None
    /\ Decision(c).validation.revision = cmd[c].read.request
    /\ Decision(c).validation.content = Content(c)

\* A draft that is recorded agrees with its decision; only one that is to be frozen is validated.
Fits(c) ==
    CASE cmd[c].op = "draft" -> cmd[c].draft \in Agreeing
      [] cmd[c].op = "validate" -> cmd[c].draft \in Fit
      [] OTHER -> cmd[c].draft \in Fit /\ Validated(c)

Verify(c) ==
    /\ cmd[c].at = "verifies"
    /\ IF Fits(c)
       THEN Goto(c, IF cmd[c].op = "freeze" THEN "puts" ELSE "saves") /\ UNCHANGED held
       ELSE Ends(c)
    /\ UNCHANGED <<catalog, files, cases, edits, saves, last>>

\* The case is made of the copies.
Put(c) ==
    /\ cmd[c].at = "puts" /\ Goto(c, "saves") /\ cases' = cases \cup {Content(c)}
    /\ UNCHANGED <<catalog, held, files, edits, saves, last>>

-----------------------------------------------------------------------------
Unvalidated(decisions) == [n \in Names |-> [decisions[n] EXCEPT !.validation = None]]
Revised(r) == [r EXCEPT !.request = @ + 1, !.decisions = Unvalidated(@)]

\* The request says something else than before: each decision recorded is a new one.
Recorded(r, n, state) == [Revised(r) EXCEPT !.decisions[n] = [Undecided EXCEPT !.state = state, !.said = r.request]]

Edited(c) ==
    LET r == cmd[c].read n == cmd[c].name
    IN  CASE cmd[c].op = "select" -> [r EXCEPT !.selected = TRUE]
          [] cmd[c].op = "request" -> [r EXCEPT !.requested = TRUE]
          [] cmd[c].op = "triage" -> [r EXCEPT !.triage = 1 - @]
          [] cmd[c].op = "voice" -> [r EXCEPT !.voice = r.triage]
          [] cmd[c].op = "unvoice" -> [r EXCEPT !.voice = None]
          [] cmd[c].op = "gap" -> Revised(r)
          [] cmd[c].op = "reject" -> Recorded(r, n, "rejected")
          [] cmd[c].op = "draft" -> Recorded(r, n, "drafted")
          [] cmd[c].op = "validate" ->
               [Revised(r) EXCEPT !.decisions[n].validation = [revision |-> r.request + 1, content |-> Content(c)]]
          [] OTHER -> [Revised(r) EXCEPT !.decisions[n].state = "frozen", !.decisions[n].case = Content(c)]

OfRequest == {"gap", "reject", "draft", "validate", "freeze"}

\* The catalogue is replaced as a whole, or, with too many candidates, not at all.
Save(c) ==
    /\ cmd[c].at = "saves" /\ Ends(c)
    /\ IF Cardinality(Drafted(Edited(c))) <= TargetMaximum
       THEN /\ catalog' = [Edited(c) EXCEPT !.revision = @ + 1] /\ saves' = saves + 1
            /\ last' = IF cmd[c].op \in OfRequest
                       THEN [op |-> cmd[c].op, name |-> cmd[c].name, draft |-> cmd[c].draft, file |-> cmd[c].file]
                       ELSE last
       ELSE UNCHANGED <<catalog, saves, last>>
    /\ UNCHANGED <<files, cases, edits>>

Kill(c) ==
    /\ cmd[c].at # "idle" /\ Ends(c)
    /\ UNCHANGED <<catalog, files, cases, edits, saves, last>>

Next ==
    \/ \E n \in Names : WriteDraft(n) \/ WriteFile(n)
    \/ \E c \in Commands : Inspect(c) \/ Busy(c) \/ Enter(c) \/ Check(c) \/ ReadDraft(c) \/ ReadFile(c)
                           \/ Verify(c) \/ Put(c) \/ Save(c) \/ Kill(c)

Spec == Init /\ [][Next]_vars
-----------------------------------------------------------------------------
\* No edit is lost, and what is frozen stays as it is and can be loaded.
EditsKept ==
    /\ catalog.revision = saves
    /\ \A n \in Names : catalog.decisions[n].state = "frozen" => catalog.decisions[n].case \in cases

Frozen(n) == catalog.decisions[n].state = "frozen"

\* A candidate is frozen only as it was validated by the edit of its request just before, draft, file
\* and decision alike, however they are written meanwhile; and stays so.
FrozenStep ==
    \A n \in Names :
      /\ Frozen(n) => catalog'.decisions[n] = catalog.decisions[n]
      /\ Frozen(n)' /\ ~Frozen(n) =>
           LET case == catalog'.decisions[n].case
           IN  /\ last = [op |-> "validate", name |-> n, draft |-> case.draft, file |-> case.file]
               /\ case.draft \in Fit /\ case.said = catalog.decisions[n].said

\* Every step of a command and of the user is so.
FrozenKept == [][FrozenStep]_vars
=============================================================================
