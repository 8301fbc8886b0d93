---------------------------- MODULE LiveConfig ----------------------------
(***************************************************************************)
(* The snapshot of a user's live agent configuration that a run takes once *)
(* and launches every attempt from (live_config, tree_copy, the run's      *)
(* _prepare_live_config).  The user edits the live files while they are    *)
(* walked, the run may die in any step and be resumed, and the snapshot    *)
(* may be edited where it lies.                                            *)
(***************************************************************************)
EXTENDS Naturals, Sequences, FiniteSets

CONSTANTS
    Files,         \* a sequence: the paths of the entries, as they are walked
    Nodes,         \* what may be found at a path: [kind, id, text, to]
    Dereference,   \* TreePolicy.dereference: Codex's links are followed
    Screened,      \* texts that the policy's screen refuses
    NoTree,
    MaxEdits,      \* bound: edits by the user, of live files or of the snapshot
    MaxCrashes     \* bound

\* kind: file, link, special or none; id: the inode; to: where a link leads.
Paths == {Files[k] : k \in 1..Len(Files)}

VARIABLES
    live,          \* what is at each path of the live directory
    staged,        \* the .partial directory, a tree, or NoTree
    snapshot,      \* the published directory: its tree and its manifest's
    journal,       \* trees in the run's live-config events
    w,             \* the walk under way
    pc,
    config,        \* the configuration of the attempt that is being prepared
    launched,      \* configurations that attempts were launched with
    edits, crashes

vars == <<live, staged, snapshot, journal, w, pc, config, launched, edits, crashes>>

\* What the theorem asks of the constants: the walk meets paths, and what is screened is text.
ConstantsFit == Files \in Seq(Paths) /\ Screened \cap {"absent", "counted", "other"} = {}

\* A tree: what the copy has at each path, a text, a link's target or nothing.
Empty == [f \in Paths |-> "absent"]

\* listed: the paths there were; at: the next one; found: what lstat said of it;
\* records: the digests.
Start(listed) == [listed |-> listed, at |-> 1, found |-> NoTree, records |-> Empty]

Init ==
    /\ live \in [Paths -> Nodes]
    /\ staged = NoTree /\ snapshot = NoTree /\ journal = <<>>
    /\ w = Start({}) /\ pc = "down" /\ config = NoTree /\ launched = {}
    /\ edits = 0 /\ crashes = 0

Fail == pc' = "down" /\ w' = Start({})
----------------------------------------------------------------------------
\* The user.

Edit == \E f \in Paths, node \in Nodes :
    /\ edits < MaxEdits /\ edits' = edits + 1 /\ live' = [live EXCEPT ![f] = node]
    /\ UNCHANGED <<staged, snapshot, journal, w, pc, config, launched, crashes>>

Tamper == \E f \in Paths, text \in {"other", "absent"} :
    /\ snapshot # NoTree /\ edits < MaxEdits /\ edits' = edits + 1
    /\ \/ snapshot' = [snapshot EXCEPT !.tree[f] = text]
       \/ snapshot' = [snapshot EXCEPT !.manifest[f] = text]
    /\ UNCHANGED <<live, staged, journal, w, pc, config, launched, crashes>>
----------------------------------------------------------------------------
\* copy_tree over the live directory: to "count" (read=False), then to "copy".

Walking == pc \in {"count", "copy"}
AtEnd == w.at > Len(Files)
File == Files[w.at]

\* _Walk._visit: what was listed is examined before it is opened.
Visit ==
    /\ Walking /\ ~ AtEnd /\ w.found = NoTree
    /\ IF File \notin w.listed THEN w' = [w EXCEPT !.at = @ + 1] /\ UNCHANGED pc
       ELSE IF live[File].kind = "none" THEN Fail
       ELSE w' = [w EXCEPT !.found = live[File]] /\ UNCHANGED pc
    /\ UNCHANGED <<live, staged, snapshot, journal, config, launched, edits, crashes>>

Moved == live[File].kind # w.found.kind \/ live[File].id # w.found.id

\* Refused: a special file; what a link leads to, by its name, or because it is
\* a part of the directory that is not taken.
Refused == \/ w.found.kind = "special"
           \/ Dereference /\ w.found.kind = "link" /\ live[File].to \in {"credential", "unlisted"}
Dangling == Dereference /\ w.found.kind = "link" /\ live[File].to = "dangling"

Keep(text) == w' = [w EXCEPT !.at = @ + 1, !.found = NoTree, !.records[File] = text]

\* policy.screen, on the content that is written.
Screen(text) == text \in Screened

\* Nothing is opened while files are counted.
Changed == IF w.found.kind = "file" THEN pc = "copy" /\ Moved ELSE live[File].kind # w.found.kind

\* A file is opened without following links and must be the one examined; a
\* link is followed, or kept as it is (and then read again only).
Open ==
    /\ Walking /\ ~ AtEnd /\ w.found # NoTree
    /\ \/ (Refused \/ Changed) /\ Fail /\ UNCHANGED staged
       \/ /\ ~ Refused /\ ~ Changed /\ Dangling
          /\ w' = [w EXCEPT !.at = @ + 1, !.found = NoTree] /\ UNCHANGED <<pc, staged>>
       \/ /\ ~ Refused /\ ~ Changed /\ ~ Dangling
          /\ IF pc = "count" THEN Keep("counted") /\ UNCHANGED <<pc, staged>>
             ELSE /\ staged' = [staged EXCEPT ![File] = live[File].text]
                  /\ IF Screen(live[File].text) THEN Fail
                     ELSE Keep(live[File].text) /\ UNCHANGED pc
    /\ UNCHANGED <<live, snapshot, journal, config, launched, edits, crashes>>
----------------------------------------------------------------------------
\* _prepare_live_config, when a run begins or resumes.

Listed == {f \in Paths : live[f].kind # "none"}

\* snapshot_live_config, unless there is a snapshot.  What is left of one that
\* was not finished goes.
Prepare ==
    /\ pc = "down"
    /\ \/ journal # <<>> /\ pc' = "verify" /\ w' = Start({})
       \/ journal = <<>> /\ snapshot # NoTree /\ pc' = "adopt" /\ w' = Start({})
       \/ journal = <<>> /\ snapshot = NoTree /\ pc' = "count" /\ w' = Start(Listed)
    /\ UNCHANGED <<live, staged, snapshot, journal, config, launched, edits, crashes>>

Counted ==
    /\ pc = "count" /\ AtEnd
    /\ pc' = "copy" /\ w' = Start(w.listed) /\ staged' = Empty
    /\ UNCHANGED <<live, snapshot, journal, config, launched, edits, crashes>>

\* An exception while the files are staged removes them; the process may also
\* die first.
Unstage ==
    /\ pc = "down" /\ staged # NoTree /\ staged' = NoTree
    /\ UNCHANGED <<live, snapshot, journal, w, pc, config, launched, edits, crashes>>

\* The manifest is written into the directory, which then gets its name.
Publish ==
    /\ pc = "copy" /\ AtEnd
    /\ snapshot' = [tree |-> staged, manifest |-> w.records] /\ staged' = NoTree
    /\ pc' = "append" /\ w' = Start({})
    /\ UNCHANGED <<live, journal, config, launched, edits, crashes>>

AppendEvent ==
    /\ pc = "append"
    /\ journal' = Append(journal, snapshot.manifest) /\ pc' = "ready"
    /\ UNCHANGED <<live, staged, snapshot, w, config, launched, edits, crashes>>

ManifestFound == snapshot.manifest     \* as the directory has it by now

\* The run's manifest: the first of the journal; that of the directory only
\* before there is one.
Manifest == IF journal = <<>> THEN snapshot.manifest ELSE Head(journal)

\* verify_snapshot reads the whole tree again.
Verify ==
    /\ pc \in {"verify", "adopt"}
    /\ IF snapshot.tree = Manifest
       THEN pc' = (IF pc = "adopt" THEN "append" ELSE "ready") /\ UNCHANGED w
       ELSE Fail
    /\ UNCHANGED <<live, staged, snapshot, journal, config, launched, edits, crashes>>
----------------------------------------------------------------------------
\* materialize_live_config, for each attempt.

BeginAttempt ==
    /\ pc = "ready"
    /\ config' = Empty /\ w' = Start(Paths) /\ pc' = "materialize"
    /\ UNCHANGED <<live, staged, snapshot, journal, launched, edits, crashes>>

\* A file is digested as it is copied.
CopyNext ==
    /\ pc = "materialize" /\ ~ AtEnd
    /\ config' = [config EXCEPT ![File] = snapshot.tree[File]]
    /\ Keep(snapshot.tree[File])
    /\ UNCHANGED <<live, staged, snapshot, journal, pc, launched, edits, crashes>>

\* The digests of the walk that made the copy.
Walked == w.records

\* A copy that differs from the run's manifest is discarded, and the attempt
\* fails before it launches.
Materialized ==
    /\ pc = "materialize" /\ AtEnd
    /\ IF Walked = Manifest
       THEN launched' = launched \cup {config}
       ELSE UNCHANGED launched
    /\ pc' = "ready" /\ w' = Start({}) /\ config' = NoTree
    /\ UNCHANGED <<live, staged, snapshot, journal, edits, crashes>>

Crash ==
    /\ pc # "down" /\ crashes < MaxCrashes /\ crashes' = crashes + 1
    /\ Fail /\ config' = NoTree
    /\ UNCHANGED <<live, staged, snapshot, journal, launched, edits>>

Next ==
    \/ Edit \/ Tamper \/ Visit \/ Open \/ Prepare \/ Counted \/ Unstage \/ Publish \/ AppendEvent
    \/ Verify \/ BeginAttempt \/ CopyNext \/ Materialized \/ Crash

Spec == Init /\ [][Next]_vars
----------------------------------------------------------------------------
\* Every attempt of a run is launched with the same configuration, the one that
\* the run's journal names, whatever became of the live files, of the snapshot
\* and of the process that took it.
OneConfig == \A c \in launched : journal # <<>> /\ c = Head(journal)

\* What the screen refuses gets into no published snapshot and no attempt,
\* although the live files change between the two walks and within them.
NothingScreened ==
    /\ journal # <<>> => \A f \in Paths : Head(journal)[f] \notin Screened
    /\ \A c \in launched : \A f \in Paths : c[f] \notin Screened

\* The two together, of every run.
ConfigSound == OneConfig /\ NothingScreened
=============================================================================
