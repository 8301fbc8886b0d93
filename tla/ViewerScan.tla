----------------------------- MODULE ViewerScan -----------------------------
(***************************************************************************)
(* The viewer's calibrations: the scan of the object store, a page of it   *)
(* at a time (viewer.ViewerService._scan_calibrations), and the panel that *)
(* asks for the pages and puts them together (resources/viewer/viewer.js), *)
(* while the store grows and is damaged and the user selects what to see.  *)
(***************************************************************************)
EXTENDS Naturals, Sequences, FiniteSets, SequencesExt, FiniteSetsExt

CONSTANTS
    Names,          \* the names that objects may have, in order: 1..n
    Cases,
    RunCases,       \* the cases of each run
    Limit,          \* objects scanned for a page
    MaxRequests, MaxChanges   \* bounds

Runs == DOMAIN RunCases
NoSelection == "none"

VARIABLES
    changes,    \* of the store
    objects,    \* of each name: absent, other, damaged, or the case it calibrates
    source,     \* state.source
    caseId,     \* state.caseId
    due,        \* selectRun awaits the report
    slot,       \* state.calibration: data, and the request that may change it
    requests    \* in flight: what they ask for, and the response once it is made

page == <<source, caseId, due, slot>>
vars == <<changes, objects, page, requests>>

\* data, beside what it shows: the selections it is of, and what was there when it was begun.
NoData == [entries |-> <<>>, cursor |-> 0, of |-> {}, base |-> {}]
Area == [data |-> NoData, controller |-> 0]

Init ==
    /\ objects \in [Names -> {"absent", "other"} \cup Cases]
    /\ changes = 0 /\ source = NoSelection /\ caseId = NoSelection /\ due = FALSE /\ slot = Area /\ requests = <<>>

Wanted(selection) == IF selection \in Runs THEN RunCases[selection] ELSE {selection}
Calibrations(selection) == {n \in Names : objects[n] \in Wanted(selection)}
----------------------------------------------------------------------------
\* The store.

Becomes(n, kind) ==
    /\ changes < MaxChanges /\ changes' = changes + 1
    /\ objects' = [objects EXCEPT ![n] = kind] /\ UNCHANGED <<page, requests>>

Put == \E n \in Names, kind \in {"other"} \cup Cases : objects[n] = "absent" /\ Becomes(n, kind)

Damage == \E n \in Names : objects[n] \in Cases /\ Becomes(n, "damaged")
----------------------------------------------------------------------------
\* The page.

Selected == IF caseId # NoSelection THEN caseId ELSE source

\* load: the request that the slot waits for from now on.
Over == [of |-> NoSelection, after |-> 0, status |-> "over", entries |-> <<>>, cursor |-> 0, base |-> {}]

Load(selection, after, in) ==
    /\ Len(requests) < MaxRequests
    /\ requests' = Append(requests, [Over EXCEPT !.of = selection, !.after = after, !.status = "sent"])
    /\ slot' = [in EXCEPT !.controller = Len(requests) + 1]

SelectRun(r) ==
    /\ source' = r /\ slot' = Area /\ due' = TRUE /\ UNCHANGED <<changes, objects, caseId, requests>>

ReportLoaded ==
    /\ due /\ due' = FALSE /\ Load(Selected, 0, slot) /\ UNCHANGED <<changes, objects, source, caseId>>

\* The form, and the button that clears it.
SubmitCase(c) ==
    /\ caseId' = c /\ Load(c, 0, slot) /\ UNCHANGED <<changes, objects, source, due>>

ClearCase ==
    /\ caseId # NoSelection /\ caseId' = NoSelection
    /\ IF source = NoSelection THEN slot' = Area /\ UNCHANGED requests ELSE Load(source, 0, Area)
    /\ UNCHANGED <<changes, objects, source, due>>

\* continueCalibrations.
Continue ==
    /\ slot.data.cursor > 0 /\ Load(Selected, slot.data.cursor, slot)
    /\ UNCHANGED <<changes, objects, source, caseId, due>>

\* mergeCalibrations: a run's calibrations are by case, a case's are a list, and a list replaces.
Merged(data, q) ==
    IF q.after = 0 \/ data = NoData
    THEN [entries |-> q.entries, cursor |-> q.cursor, of |-> {q.of}, base |-> q.base]
    ELSE [entries |-> IF q.of \in Cases /\ data.of \cap Runs # {} THEN q.entries
                      ELSE data.entries \o q.entries,
          cursor |-> q.cursor, of |-> data.of \cup {q.of}, base |-> data.base]

Accepted(k) == slot.controller = k

Deliver(k) ==
    /\ requests[k].status = "made" /\ requests' = [requests EXCEPT ![k] = Over]
    /\ slot' = IF Accepted(k) THEN [data |-> Merged(slot.data, requests[k]), controller |-> 0] ELSE slot
    /\ UNCHANGED <<changes, objects, source, caseId, due>>

\* What the panel has stays.
Fail(k) ==
    /\ requests[k].status = "sent" /\ requests' = [requests EXCEPT ![k] = Over]
    /\ slot' = IF Accepted(k) THEN [slot EXCEPT !.controller = 0] ELSE slot
    /\ UNCHANGED <<changes, objects, source, caseId, due>>
----------------------------------------------------------------------------
\* The server.

After(after) == {n \in Names : objects[n] # "absent" /\ n > after}

Window(after) == {n \in After(after) : Cardinality({m \in After(after) : m < n}) < Limit}

Scan(k) ==
    LET q == requests[k]
        window == Window(q.after)
        found == SetToSortSeq(window \cap Calibrations(q.of), <)
    IN /\ q.status = "sent"
       /\ requests' = [requests EXCEPT ![k] =
              [@ EXCEPT !.status = "made", !.entries = found, !.base = Calibrations(q.of),
                        !.cursor = IF window = After(q.after) THEN 0 ELSE Max(window)]]
       /\ UNCHANGED <<changes, objects, page>>

Next ==
    \/ Put \/ Damage \/ ReportLoaded \/ ClearCase \/ Continue
    \/ \E r \in Runs : SelectRun(r)
    \/ \E c \in Cases : SubmitCase(c)
    \/ \E k \in DOMAIN requests : Deliver(k) \/ Fail(k) \/ Scan(k)

Spec == Init /\ [][Next]_vars
----------------------------------------------------------------------------
Whole == slot.data # NoData /\ slot.data.cursor = 0

\* The pages of one selection, put together, are a scan of the store: none of its calibrations is
\* there twice, and once there is nothing to continue, none that was there from the first page on and
\* can still be read is missing, whatever is stored or damaged and however the answers come.
PagesMakeScan ==
    Cardinality(slot.data.of) = 1 =>
        LET shown == slot.data.entries IN
        /\ IsInjective(shown)
        /\ Whole => \A selection \in slot.data.of :
                        slot.data.base \cap Calibrations(selection) \subseteq ToSet(shown)

=============================================================================
