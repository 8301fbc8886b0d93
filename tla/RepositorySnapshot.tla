-------------------------- MODULE RepositorySnapshot --------------------------
(* Snapshots of a repository (repositories.py): one commit with its whole       *)
(* ancestry is taken out of a repository that its user goes on working in, and  *)
(* made again as the workspace of an attempt, with an optional patch. A         *)
(* snapshot may also have come from elsewhere, with any content. A tree is a    *)
(* set of entries; the objects of a commit are told apart no further.           *)
EXTENDS Naturals, Sequences, FiniteSets, SequencesExt, FiniteSetsExt

CONSTANTS
    Commits, Parents, Base,       \* what there may be; the commit that is asked for
    Trees, Patched,               \* what the base may hold, and may hold after the patch
    Procs,                        \* that make the same workspace
    MaxObjects, MaxFiles, MaxListed, MaxDepth, MaxHops,
    MaxUser,                      \* bound on what the user does
    None, Rejected

VARIABLES
    source,      \* the user's repository: its commits
    tree,        \* the base's tree
    patch,       \* None, Rejected (does not apply) or the tree that it makes of the base's
    take,        \* idle, look, tree, pack, audit, verify, put, taken, failed
    kept,        \* the commits that were there ever since the capture began
    listed, coverage,             \* of the audit
    stored,      \* the snapshot
    mat,         \* of each materialization: idle, fresh, pack, compare, patch, write, done, failed, killed
    place,       \* None, or the destination
    acts

vars == <<source, tree, patch, take, kept, listed, coverage, stored, mat, place, acts>>

RECURSIVE Ancestry(_)
Ancestry(commits) ==          \* with the commits themselves
    LET further == commits \cup UNION {Parents[c] : c \in commits}
    IN IF further = commits THEN commits ELSE Ancestry(further)
Closed(commits) == Ancestry(commits) \subseteq commits
Baseline == Ancestry({Base})

-----------------------------------------------------------------------------
Of(t, modes) == {e.path : e \in {x \in t : x.mode \in modes}}
Entries(t) == Of(t, {"file", "exec", "link"})
Folders(t) == UNION {{SubSeq(e.path, 1, n) : n \in 0..Len(e.path) - 1} : e \in t}
Target(t, path) == (CHOOSE e \in t : e.path = path).to

\* Where a link leads, component by component, following the links on the way: None where it leads
\* out of the tree, to nothing, through what is no directory, or in a circle.
RECURSIVE Resolve(_, _, _, _)
Resolve(t, at, rest, active) ==
    IF rest = <<>> THEN at
    ELSE IF at \notin Folders(t) THEN None
    ELSE LET next == Append(at, Head(rest)) IN
         IF Head(rest) = ".." THEN IF at = <<>> THEN None ELSE Resolve(t, Front(at), Tail(rest), active)
         ELSE IF next \in Of(t, {"link"})
         THEN IF next \in active \/ Cardinality(active) >= MaxDepth THEN None
              ELSE LET there == Resolve(t, at, Target(t, next), active \cup {next})
                   IN IF there = None THEN None ELSE Resolve(t, there, Tail(rest), active)
         ELSE IF next \in Entries(t) \cup Folders(t) THEN Resolve(t, next, Tail(rest), active) ELSE None

\* A link's text alone, as if no link were on the way.
LinksValid(t) == \A e \in t : e.mode = "link" => Resolve(t, Front(e.path), e.to, {e.path}) # None

\* Nothing but files and links, within the limit, and every link leads to something inside.
ValidTree(t) == Cardinality(t) <= MaxFiles /\ Of(t, {"odd"}) = {} /\ LinksValid(t)

-----------------------------------------------------------------------------
\* A snapshot from elsewhere may hold and declare anything.
Foreign == [pack : SUBSET Commits, entries : {{}} \cup {tree}, listed : {{}}, coverage : {"partial"}, own : {FALSE}]

Init ==
    /\ tree \in Trees
    /\ patch \in {None, Rejected} \cup Patched
    /\ take = "idle" /\ kept = {} /\ listed = {} /\ coverage = "none"
    /\ \/ stored = None /\ source \in {s \in SUBSET Commits : Closed(s)}
       \/ stored \in Foreign /\ source = {}
    /\ mat = [p \in Procs |-> "idle"] /\ place = None /\ acts = 0

\* The user commits, or collects what nothing refers to; the commit that is asked for may be such.
User ==
    /\ take \notin {"idle", "taken", "failed"} /\ acts < MaxUser /\ acts' = acts + 1
    /\ \E c \in Commits :
        \/ /\ c \notin source /\ Parents[c] \subseteq source
           /\ source' = source \cup {c} /\ UNCHANGED kept
        \/ /\ c \in source /\ \A d \in source : c \notin Parents[d]
           /\ source' = source \ {c} /\ kept' = kept \ {c}
    /\ UNCHANGED <<tree, patch, take, listed, coverage, stored, mat, place>>

Taking(from, to) == take = from /\ take' = to /\ UNCHANGED <<source, tree, patch, mat, place, acts>>
Keeps == UNCHANGED <<kept, listed, coverage, stored>>

TakeBegin == Taking("idle", "look") /\ stored = None /\ kept' = source /\ UNCHANGED <<listed, coverage, stored>>

\* The commit is there, with all of its history, within the limit.
TakeLook == Taking("look", "tree") /\ Baseline \subseteq source /\ Cardinality(Baseline) <= MaxObjects /\ Keeps
TakeTree == Taking("tree", "pack") /\ Base \in source /\ ValidTree(tree) /\ Keeps
TakePack == Taking("pack", "audit") /\ Baseline \subseteq source /\ Keeps

\* What must not be known to the subject: every commit that is no ancestor, up to the limit.
Later(commits) == commits \ Baseline
TakeAudit ==
    /\ Taking("audit", "verify")
    /\ \/ listed' = {} /\ coverage' = "partial"         \* the inventory itself is too long
       \/ Base \in source /\ Cardinality(Later(source)) <= MaxListed
          /\ listed' = Later(source) /\ coverage' = "complete_at_capture"
       \/ Base \in source /\ Cardinality(Later(source)) > MaxListed
          /\ listed' \in kSubset(MaxListed, Later(source)) /\ coverage' = "partial"
    /\ UNCHANGED <<kept, stored>>

\* What a materialization checks before it writes any file.
OnlyReachable(s) == Base \in s.pack /\ s.pack = Baseline
PackValid(s) == Base \in s.pack /\ Closed(s.pack) /\ OnlyReachable(s)
TreeValid(s) == ValidTree(tree) /\ s.entries = tree
PatchValid == patch # Rejected /\ (patch # None => ValidTree(patch))
Taken == [pack |-> Baseline, entries |-> tree, listed |-> listed, coverage |-> coverage, own |-> TRUE]

\* The snapshot is made again, elsewhere, before it is stored.
TakeVerify == Taking("verify", "put") /\ PackValid(Taken) /\ TreeValid(Taken) /\ PatchValid /\ Keeps
TakePut == Taking("put", "taken") /\ stored' = Taken /\ UNCHANGED <<kept, listed, coverage>>

\* A command fails or takes too long, the objects are gone, the capture is killed.
TakeFails == take \notin {"idle", "taken", "failed"} /\ Taking(take, "failed") /\ Keeps

-----------------------------------------------------------------------------
Made(by) == [objects |-> {}, files |-> {}, ref |-> "none", by |-> by]
Making(p, from, to) ==
    /\ mat[p] = from /\ mat' = [mat EXCEPT ![p] = to]
    /\ UNCHANGED <<source, tree, patch, take, kept, listed, coverage, stored, acts>>

\* Whoever finds the destination, or is late with making it, leaves it alone.
MakeBegin(p) ==
    /\ stored # None
    /\ Making(p, "idle", IF place = None THEN "fresh" ELSE "failed") /\ UNCHANGED place
MakeDirectory(p) ==
    \/ Making(p, "fresh", "pack") /\ place = None /\ place' = Made(p)
    \/ Making(p, "fresh", "failed") /\ place # None /\ UNCHANGED place
MakePack(p) == Making(p, "pack", "compare") /\ PackValid(stored) /\ place' = [place EXCEPT !.objects = stored.pack]
MakeCompare(p) == Making(p, "compare", "patch") /\ TreeValid(stored) /\ UNCHANGED place
MakePatch(p) == Making(p, "patch", "write") /\ PatchValid /\ UNCHANGED place
MakeWrite(p) ==
    /\ Making(p, "write", "ref")
    /\ place' = [place EXCEPT !.files = IF patch = None THEN tree ELSE patch]
MakeRef(p) == Making(p, "ref", "done") /\ place' = [place EXCEPT !.ref = "baseline"]

\* What was made is taken away again; not by a kill.
Underway == {"pack", "compare", "patch", "write", "ref"}
MakeFails(p) == mat[p] \in Underway /\ Making(p, mat[p], "failed") /\ place' = None
MakeKilled(p) == mat[p] \in Underway /\ Making(p, mat[p], "killed") /\ UNCHANGED place

Next ==
    \/ User \/ TakeBegin \/ TakeLook \/ TakeTree \/ TakePack \/ TakeAudit \/ TakeVerify \/ TakePut \/ TakeFails
    \/ \E p \in Procs :
        \/ MakeBegin(p) \/ MakeDirectory(p) \/ MakePack(p) \/ MakeCompare(p) \/ MakePatch(p)
        \/ MakeWrite(p) \/ MakeRef(p) \/ MakeFails(p) \/ MakeKilled(p)

Spec == Init /\ [][Next]_vars
-----------------------------------------------------------------------------
\* How a file system follows a link: it goes on with the link's own text.
RECURSIVE Leads(_, _, _, _)
Leads(t, at, rest, hops) ==
    IF rest = <<>> THEN at \in Entries(t) \cup Folders(t)
    ELSE LET next == Append(at, Head(rest)) IN
         /\ at \in Folders(t)
         /\ IF Head(rest) = ".." THEN at # <<>> /\ Leads(t, Front(at), Tail(rest), hops)
            ELSE IF next \in Of(t, {"link"})
            THEN hops > 0 /\ Leads(t, at, Target(t, next) \o Tail(rest), hops - 1)
            ELSE Leads(t, next, Tail(rest), hops)

\* A snapshot that was taken of a repository in use is the commit with its ancestry and nothing else,
\* and an audit that says it is complete lists every other commit that was there all along. And
\* whatever the snapshot says of itself, a workspace that was made of it holds no commit but the
\* base's ancestry, holds the tree of the base or of the patch, none of its links leads out of it or
\* nowhere, and it is the work of the one who made it, whoever else tried and failed.
SnapshotSound ==
    /\ stored # None /\ stored.own =>
        /\ stored.pack = Baseline /\ stored.listed \cap Baseline = {}
        /\ stored.coverage = "complete_at_capture" => kept \subseteq stored.listed \cup Baseline
    /\ \A p \in Procs : mat[p] = "done" =>
        /\ place = [objects |-> Baseline, files |-> IF patch = None THEN tree ELSE patch, ref |-> "baseline", by |-> p]
        /\ \A e \in place.files : e.mode = "link" => Leads(place.files, Front(e.path), e.to, MaxHops)
=============================================================================
