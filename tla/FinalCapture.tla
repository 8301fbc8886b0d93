------------------------------ MODULE FinalCapture ------------------------------
(* The capture of a workspace (final_capture.py): its entries are listed, then  *)
(* read one by one, within limits, while writers may still be at work; links    *)
(* that could not be made again are taken out until none is left; and whatever  *)
(* is not taken is named. Paths are sequences of names.                         *)
EXTENDS Naturals, Sequences, FiniteSets, SequencesExt

CONSTANTS
    Paths,                       \* of the entries that there may be, in sorted order
    Targets,                     \* of links: sequences of names, "..", or <<"/">> (an absolute one)
    Excluded, Ignored,           \* by the policy, by git
    MaxFiles, MaxBytes, MaxDepth, MaxHops,
    MaxChanges                   \* bound on what writers do

VARIABLES
    now,        \* the workspace: of each path what it is
    changed,    \* paths written since the capture began
    at,         \* list, take, filter, patch, done
    found,      \* by the walk: modes
    visited, bytes,
    queue,      \* directories to walk, or paths to take
    files, directories,
    omitted,    \* [path, intentional]
    patch       \* a final patch was made

vars == <<now, changed, at, found, visited, bytes, queue, files, directories, omitted, patch>>
capture == <<at, found, visited, bytes, queue, files, directories, omitted, patch>>

Root == <<>>
Gone == [kind |-> "none", to |-> Root, size |-> 0]
Directory == [kind |-> "dir", to |-> Root, size |-> 0]
States(p) ==
    {Gone, [kind |-> "special", to |-> Root, size |-> 0]}
      \cup {[kind |-> "file", to |-> Root, size |-> n] : n \in 1..2}
      \cup {[kind |-> "link", to |-> t, size |-> 1] : t \in Targets}
      \cup (IF \E q \in Range(Paths) : Len(q) > Len(p) THEN {Directory} ELSE {})

Kind(p) == IF p = Root THEN "dir" ELSE now[p].kind
Exists(p) == \A n \in 1..Len(p) : Kind(SubSeq(p, 1, n - 1)) = "dir" /\ Kind(SubSeq(p, 1, n)) # "none"
Entries(d) == {p \in Range(Paths) : Len(p) = Len(d) + 1 /\ SubSeq(p, 1, Len(d)) = d /\ Kind(p) # "none"}

Init ==
    /\ now \in {t \in [Range(Paths) -> UNION {States(p) : p \in Range(Paths)}] : \A p \in Range(Paths) : t[p] \in States(p)}
    /\ changed = {} /\ at = "list" /\ found = [p \in Range(Paths) |-> "none"] /\ visited = 0 /\ bytes = 0
    /\ queue = <<Root>> /\ files = {} /\ directories = {} /\ omitted = {} /\ patch = FALSE

-----------------------------------------------------------------------------
\* A writer that is still there.
Write(p, state) ==
    /\ at \in {"list", "take"} /\ Cardinality(changed) < MaxChanges
    /\ state \in States(p) \ {now[p]}
    /\ now' = [now EXCEPT ![p] = state]
    /\ changed' = changed \cup {q \in Range(Paths) : SubSeq(q \o p, 1, Len(p)) = p}
    /\ UNCHANGED capture

Omit(paths, intentional) == {[path |-> p, intentional |-> intentional] : p \in paths}
CutShort(d, cut) == IF cut THEN Omit({d}, FALSE) ELSE {}

\* One directory's entries, up to the limit on all; what is excluded, too deep, special or ignored is
\* left out and named; the directories among the rest are walked in turn.
WalkDirectory ==
    LET d == Head(queue)
    IN  \E seen \in SUBSET Entries(d) :
          LET cut == visited + Cardinality(Entries(d)) > MaxFiles
              excluded == seen \cap Excluded
              deep == {p \in seen \ excluded : Len(p) > MaxDepth}
              special == {p \in seen \ (excluded \cup deep) : Kind(p) = "special"}
              ignored == (seen \ (excluded \cup deep \cup special)) \cap Ignored
              kept == seen \ (excluded \cup deep \cup special \cup ignored)
          IN  /\ Exists(d) /\ Kind(d) = "dir"
              /\ Cardinality(seen) = IF cut THEN MaxFiles - visited ELSE Cardinality(Entries(d))
              /\ visited' = visited + Cardinality(seen) + (IF cut THEN 1 ELSE 0)
              /\ found' = [p \in Range(Paths) |-> IF p \in kept THEN Kind(p) ELSE found[p]]
              /\ omitted' = omitted \cup Omit(excluded \cup ignored, TRUE) \cup Omit(deep \cup special, FALSE)
                                    \cup CutShort(d, cut)
              /\ queue' = SelectSeq(Paths, LAMBDA p : p \in kept /\ Kind(p) = "dir") \o Tail(queue)

Walk ==
    /\ at = "list" /\ queue # <<>> /\ visited <= MaxFiles
    /\ WalkDirectory
    /\ UNCHANGED <<now, changed, at, bytes, files, directories, patch>>

\* Past the limit every other directory is cut short at its first entry.
WalkNothing ==
    /\ at = "list" /\ queue # <<>> /\ visited > MaxFiles /\ Exists(Head(queue)) /\ Kind(Head(queue)) = "dir"
    /\ omitted' = omitted \cup CutShort(Head(queue), Entries(Head(queue)) # {})
    /\ queue' = Tail(queue)
    /\ UNCHANGED <<now, changed, at, found, visited, bytes, files, directories, patch>>

\* A directory that is not there any more, or any other failure, ends the walk with nothing.
WalkFails ==
    /\ at = "list" /\ queue # <<>>
    /\ at' = "filter" /\ queue' = <<>> /\ found' = [p \in Range(Paths) |-> "none"]
    /\ omitted' = omitted \cup Omit({Root}, FALSE)
    /\ UNCHANGED <<now, changed, visited, bytes, files, directories, patch>>

Walked ==
    /\ at = "list" /\ queue = <<>>
    /\ at' = "take" /\ queue' = SelectSeq(Paths, LAMBDA p : found[p] # "none")
    /\ UNCHANGED <<now, changed, found, visited, bytes, files, directories, omitted, patch>>

\* A path is read as what it was listed as; if it is that no more, cannot be read or is too large, it is named.
Readable(p) == Exists(p) /\ Kind(p) = found[p]

TakePath(p) ==
    IF found[p] = "dir"
    THEN directories' = directories \cup {p} /\ UNCHANGED <<bytes, files, omitted>>
    ELSE IF Readable(p) /\ bytes + now[p].size <= MaxBytes
    THEN /\ files' = files \cup {[path |-> p, kind |-> now[p].kind, to |-> now[p].to, size |-> now[p].size]}
         /\ bytes' = bytes + now[p].size /\ UNCHANGED <<directories, omitted>>
    ELSE omitted' = omitted \cup Omit({p}, FALSE) /\ UNCHANGED <<bytes, files, directories>>

Take ==
    /\ at = "take" /\ queue # <<>>
    /\ TakePath(Head(queue)) /\ queue' = Tail(queue)
    /\ UNCHANGED <<now, changed, at, found, visited, patch>>

Taken ==
    /\ at = "take" /\ queue = <<>> /\ at' = "filter"
    /\ UNCHANGED <<now, changed, found, visited, bytes, queue, files, directories, omitted, patch>>

-----------------------------------------------------------------------------
(* Links. *)

DirectoryPaths(entries) ==
    {Root} \cup directories
      \cup UNION {{SubSeq(p, 1, n) : n \in 1..(Len(p) - 1)} : p \in {e.path : e \in entries} \cup directories}
LinkAt(entries, p) == {e \in entries : e.path = p /\ e.kind = "link"}
Absolute(target) == target = <<>> \/ target[1] = "/"

RECURSIVE Resolves(_, _, _, _)
Resolves(entries, resolved, parts, hops) ==
    IF parts = <<>> THEN resolved \in DirectoryPaths(entries) \cup {e.path : e \in entries}
    ELSE /\ resolved \in DirectoryPaths(entries)
         /\ IF parts[1] = ".." THEN resolved # Root /\ Resolves(entries, Front(resolved), Tail(parts), hops)
            ELSE LET current == Append(resolved, parts[1])
                 IN  IF LinkAt(entries, current) = {} THEN Resolves(entries, current, Tail(parts), hops)
                     ELSE \E link \in LinkAt(entries, current) :
                            /\ hops < MaxHops /\ ~Absolute(link.to)
                            /\ Resolves(entries, resolved, link.to \o Tail(parts), hops + 1)

NamesAnEntry(entry, entries) == \E e \in entries : e.path = Front(entry.path) \o entry.to
SafeLink(entry, entries) == ~Absolute(entry.to) /\ Resolves(entries, Root, Front(entry.path) \o entry.to, 0)
Rejected == {e \in files : e.kind = "link" /\ ~SafeLink(e, files)}

FilterLinks ==
    /\ at = "filter" /\ at' = IF Rejected = {} THEN "patch" ELSE "filter"
    /\ files' = files \ Rejected /\ omitted' = omitted \cup Omit({e.path : e \in Rejected}, FALSE)
    /\ UNCHANGED <<now, changed, found, visited, bytes, queue, directories, patch>>

\* The patch is made from the files as they were taken, made again elsewhere: that refuses any link that is not
\* safe, and may fail.
Materializable == \A e \in files : e.kind = "link" => SafeLink(e, files)

Patch ==
    /\ at = "patch" /\ at' = "done"
    /\ \/ Materializable /\ patch' = TRUE /\ UNCHANGED omitted
       \/ patch' = FALSE /\ omitted' = omitted \cup Omit({Root}, FALSE)
    /\ UNCHANGED <<now, changed, found, visited, bytes, queue, files, directories>>

Next ==
    \/ \E p \in Range(Paths) : \E state \in States(p) : Write(p, state)
    \/ Walk \/ WalkNothing \/ WalkFails \/ Walked \/ Take \/ Taken \/ FilterLinks \/ Patch

Spec == Init /\ [][Next]_vars
-----------------------------------------------------------------------------
Complete == at = "done" /\ \A o \in omitted : o.intentional
LeftOut(p) == \E o \in omitted : o.intentional /\ SubSeq(p \o o.path, 1, Len(o.path)) = o.path

\* A capture that says it is complete is: everything that was there and was not written meanwhile is in
\* it as it was, but for what the policy leaves out; and it is within its limits.
CompleteIsWhole ==
    /\ bytes <= MaxBytes
    /\ Complete =>
         \A p \in Range(Paths) : Exists(p) /\ p \notin changed /\ ~LeftOut(p) =>
            IF Kind(p) = "dir" THEN p \in directories
            ELSE \E e \in files : e.path = p /\ e.kind = Kind(p) /\ e.to = now[p].to

\* What is captured can be made again: no link that is kept leads out, to nothing, or round in
\* circles, over however many others: among any of them one leads through none of them.
KeptLinks == {e \in files : e.kind = "link"}
Step(p, name) == IF name = ".." THEN Front(p) ELSE Append(p, name)
Lexical(e) == FoldLeft(Step, Root, Front(e.path) \o e.to)
Through(e, others) == {f \in others : SubSeq(Lexical(e) \o f.path, 1, Len(f.path)) = f.path /\ Len(f.path) <= Len(Lexical(e))}
LinksLead ==
    at \in {"patch", "done"} =>
        /\ \A links \in SUBSET KeptLinks \ {{}} : \E e \in links : Through(e, links) = {}
        /\ \A e \in KeptLinks : Through(e, KeptLinks) = {} => Lexical(e) \in directories \cup {f.path : f \in files}
=============================================================================
