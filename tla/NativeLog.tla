----------------------------- MODULE NativeLog -----------------------------
(***************************************************************************)
(* The native log of an agent's session while it is written                *)
(* (drivers/log_source, drivers/codex, DriverSession._ingest, usage).  The *)
(* root session and each subagent append to a file of their own; the       *)
(* source reads on from where it was, and a line counts when all of it is  *)
(* there.  The file of a forked subagent begins with a copy of its         *)
(* parent's history.                                                       *)
(***************************************************************************)
EXTENDS Naturals, Sequences, FiniteSets, SequencesExt

CONSTANTS
    Files,       \* names of log files
    Contents,    \* what the files may come to hold: functions from Files to sequences of
                 \* [kind, session, parent, id]; the first is a "meta", and its id
                 \* the lines before the session's own: itself, and the copy
    Before,      \* files that exist before the source is made
    MaxPolls,    \* bound: polls before the session is closed
    MaxFaults    \* bound: files replaced or truncated

VARIABLES
    content,     \* what the files will hold in the end
    written,     \* half lines in each file; 0: there is no file
    replaced,    \* the file is not the one that was there, or was cut
    stopped,     \* the terminal is closed: nobody writes any more
    seen,        \* cursor and tail: half lines that the source has read
    poll,        \* "no", or "yes" with the files to visit
    visit,
    batch,       \* events of the poll, as <<file, line>>
    failed,      \* NativeLogSource.failed
    events,      \* DriverSession.events
    session,     \* open; raised: an exception left _ingest; closing; closed
    drained,     \* CleanupReport.logs_drained
    polls, faults

log == <<content, written, replaced, stopped>>
source == <<seen, poll, visit, batch, failed>>
vars == <<log, source, events, session, drained, polls, faults>>

Init ==
    /\ content \in Contents
    /\ written = [f \in Files |-> IF f \in Before THEN 2 * Len(content[f]) - 1 ELSE 0]
    /\ replaced = {} /\ stopped = FALSE
    /\ seen = written
    /\ poll = "no" /\ visit = {} /\ batch = <<>> /\ failed = FALSE
    /\ events = <<>> /\ session = "open" /\ drained = FALSE
    /\ polls = 0 /\ faults = 0

Line(e) == content[e[1]][e[2]]
Copied(f) == content[f][1].id
----------------------------------------------------------------------------
\* The agent.

\* Half a line more.
WriteOn(f) ==
    /\ ~ stopped /\ written[f] < 2 * Len(content[f])
    /\ written' = [written EXCEPT ![f] = @ + 1]
    /\ UNCHANGED <<content, replaced, stopped, source, events, session, drained, polls, faults>>

Replace(f) ==
    /\ ~ stopped /\ written[f] > 0 /\ faults < MaxFaults
    /\ replaced' = replaced \cup {f} /\ faults' = faults + 1
    /\ UNCHANGED <<content, written, stopped, source, events, session, drained, polls>>
----------------------------------------------------------------------------
\* NativeLogSource.poll.

BeginPoll ==
    /\ poll = "no" /\ ~ failed /\ batch = <<>>
    /\ (session = "open" /\ polls < MaxPolls) \/ session = "closing"
    /\ poll' = "yes" /\ visit' = {f \in Files : written[f] > 0} /\ failed' = TRUE
    /\ polls' = polls + 1
    /\ UNCHANGED <<log, seen, batch, events, session, drained, faults>>

\* Mutant of Complete: the last line is taken before its end is there.
Begun(f, halves) == (halves + 1) \div 2

\* The lines that have ended: what is left of the last one is kept.
Complete(f, halves) == halves \div 2

\* CodexAdapter.skips_next: copied_until is of the first line.
Skipped(f, line) == 1 < line /\ line <= Copied(f)

\* _consume: the lines that the source has not had yet, without those of a file
\* from before, and without the copy.
Fresh(f) ==
    SelectSeq([k \in 1..(Complete(f, written[f]) - Complete(f, seen[f])) |->
                  <<f, Complete(f, seen[f]) + k>>],
              LAMBDA e : f \notin Before /\ ~ Skipped(f, e[2]))

\* A file is read up to the size that it has when it is opened.  A line that
\* cannot be read ends the poll for good, and so does another file of that name.
Visit(f) ==
    /\ poll = "yes" /\ f \in visit
    /\ IF f \in replaced \/ \E e \in ToSet(Fresh(f)) : Line(e).kind = "bad"
       THEN poll' = "no" /\ visit' = {} /\ batch' = <<>> /\ UNCHANGED seen
            /\ session' = IF session = "closing" THEN "closed" ELSE "raised"
       ELSE /\ seen' = [seen EXCEPT ![f] = written[f]]
            /\ batch' = batch \o Fresh(f)
            /\ visit' = visit \ {f} /\ UNCHANGED <<poll, session>>
    /\ UNCHANGED <<log, failed, events, drained, polls, faults>>

EndPoll ==
    /\ poll = "yes" /\ visit = {}
    /\ poll' = "got" /\ failed' = FALSE
    /\ UNCHANGED <<log, seen, visit, batch, events, session, drained, polls, faults>>
----------------------------------------------------------------------------
\* DriverSession.

\* Root sessions: their meta has no parent.
RootOf(es) == LET metas == SelectSeq(es, LAMBDA e : Line(e).kind = "meta" /\ Line(e).parent = "none") IN
              IF metas = <<>> THEN "none" ELSE Line(metas[1]).session

\* _metadata: a second root session is an error.
Raising(e, es) == Line(e).kind = "meta" /\ Line(e).parent = "none" /\ Line(e).session # RootOf(es)

\* _ingest: an event is recorded, and then looked at.  One that raises keeps
\* those after it out of the session.
Ingest ==
    /\ poll = "got"
    /\ LET all == events \o batch
           bad == {k \in (Len(events) + 1)..Len(all) : Raising(all[k], SubSeq(all, 1, k))}
           last == IF bad = {} THEN Len(all) ELSE CHOOSE k \in bad : \A j \in bad : k <= j IN
       /\ events' = SubSeq(all, 1, last)
       /\ session' = IF session = "closing" THEN "closed"
                     ELSE IF bad = {} THEN "open" ELSE "raised"
       /\ drained' = (session = "closing" /\ bad = {} /\ \A f \in Files : seen[f] % 2 = 0)
    /\ poll' = "no" /\ batch' = <<>>
    /\ UNCHANGED <<log, seen, visit, failed, polls, faults>>

\* close: the terminal first, then the rest of the log.  A source that failed
\* cannot go on.
Close ==
    /\ session \in {"open", "raised"} /\ poll = "no"
    /\ stopped' = TRUE
    /\ session' = IF failed THEN "closed" ELSE "closing"
    /\ UNCHANGED <<content, written, replaced, source, events, drained, polls, faults>>

Next ==
    \/ \E f \in Files : WriteOn(f) \/ Replace(f) \/ Visit(f)
    \/ BeginPoll \/ EndPoll \/ Ingest \/ Close

Spec == Init /\ [][Next]_vars
----------------------------------------------------------------------------
\* What the session knows.

\* usage_snapshot: the sessions that descend from the root, by their metadata.
SeenSessions == {Line(e).session : e \in ToSet(events)}
ParentOf(s) == {Line(e).parent : e \in {x \in ToSet(events) : Line(x).kind = "meta" /\ Line(x).session = s}}
Known[n \in Nat] == IF n = 0 THEN {RootOf(events)}
                    ELSE Known[n - 1] \cup {s \in SeenSessions : ParentOf(s) \cap Known[n - 1] # {}}

\* The usage that is attributed, by session and response.
Attributable ==
    {<<content[e[1]][1].session, Line(e).id>> :
        e \in {x \in ToSet(events) : Line(x).kind = "usage"
                                     /\ content[x[1]][1].session \in Known[Cardinality(Files)]}}

\* Lines of a session's own, ended, in a file that the source knows from its beginning.
Own(f) == {n \in 1..(written[f] \div 2) : f \notin Before /\ (n = 1 \/ n > Copied(f))}

\* Each line of a file is delivered at most once, in order and whole, whenever
\* the polls come and whatever half lines they find; and none of those before it
\* is missing, if the session took what it was given.
Taken == \A k \in 1..Len(events) : ~ Raising(events[k], SubSeq(events, 1, k))
InOrder == \A f \in Files :
    LET got == SelectSeq(events, LAMBDA e : e[1] = f)
        own == SetToSortSeq(Own(f), <) IN
    /\ \A k \in 1..Len(got) : got[k][2] \in Own(f) /\ (k > 1 => got[k - 1][2] < got[k][2])
    /\ Taken => \A k \in 1..Len(got) : got[k][2] = own[k]

\* A session that was closed with its log drained attributes the usage of each
\* response of the root and of its subagents, once, and no other: the copy of a
\* response in a fork's file is not counted again.  (Metadata of one root, and of
\* each parent, have been written.)
Metas == {content[f][1] : f \in {g \in Files \ Before : written[g] >= 2}}
OneTree == /\ Cardinality({x \in Metas : x.parent = "none"}) = 1
           /\ \A x \in Metas : x.parent = "none" \/ \E y \in Metas : y.session = x.parent
OwnUsage(f) == {<<content[f][1].session, content[f][n].id>> : n \in {k \in Own(f) : content[f][k].kind = "usage"}}
UsageExact == session = "closed" /\ drained /\ OneTree => Attributable = UNION {OwnUsage(f) : f \in Files}
=============================================================================
