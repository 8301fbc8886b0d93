------------------------------ MODULE Checkpoint ------------------------------
(* Checkpoint commits (workspace_git.py). A command that wrote files commits   *)
(* their paths, and nothing else but what the user's hooks add, in a           *)
(* repository in which the user edits, stages, commits and merges, and other   *)
(* commands commit, meanwhile. The commit is built in an index of its own;     *)
(* HEAD moves only from the commit that index was seeded from; then the user's *)
(* index follows, for the paths.                                               *)
EXTENDS Naturals, Sequences, FiniteSets

CONSTANTS
    Commands,
    Paths, Ignored,   \* what git ignores is left out
    MaxVersions,      \* of a path's content; 0 is its absence
    MaxUser           \* bound on what the user does

VARIABLES
    commits,    \* the repository: parents, tree, and the command that made it
    head,       \* 0: unborn
    merging,    \* MERGE_HEAD exists
    index, work,
    staged,     \* what the user put in the index
    cmd,        \* of each command: at, paths, those that a hook changed, parent, private, commit, state
    done        \* by the user

repository == <<commits, head, merging, index, work, staged>>
vars == <<repository, cmd, done>>

\* What the theorem asks of the constants.
ConstantsFit == MaxVersions \in Nat /\ "user" \notin Commands

Content == 0..MaxVersions
Empty == [p \in Paths |-> 0]
Tree(commit) == IF commit = 0 THEN Empty ELSE commits[commit].tree
Landed(c) == cmd[c].commit # 0 /\ cmd[c].state = "committed"

\* A commit, its parent, and so on: what is in every set that has it and a parent of each that it has.
Numbers(history) == 0..Len(history)
Closed(history, set) == \A k \in set \ {0} : history[k].parent \in set
AncestorsOf(history, commit) ==
    {k \in Numbers(history) : \A set \in SUBSET Numbers(history) : commit \in set /\ Closed(history, set) => k \in set}

New == [at |-> "idle", paths |-> {}, hooked |-> {}, parent |-> 0, private |-> Empty, commit |-> 0, state |-> "none"]

Init ==
    /\ commits = <<>> /\ head = 0 /\ merging = FALSE
    /\ index = Empty /\ work = Empty /\ staged = Empty
    /\ cmd = [c \in Commands |-> New] /\ done = 0

Goes(c, from, to) == cmd[c].at = from /\ cmd' = [cmd EXCEPT ![c] = to]
Ends(c, state) == [cmd[c] EXCEPT !.at = "done", !.state = state]

-----------------------------------------------------------------------------
(* The user, in another terminal. *)

User == done < MaxUser /\ done' = done + 1 /\ UNCHANGED cmd

Edit(p) ==
    /\ User
    /\ \E v \in Content \ {work[p]} : work' = [work EXCEPT ![p] = v]
    /\ UNCHANGED <<commits, head, merging, index, staged>>

Stage(p) ==
    /\ User /\ index[p] # work[p]
    /\ index' = [index EXCEPT ![p] = work[p]] /\ staged' = [staged EXCEPT ![p] = work[p]]
    /\ UNCHANGED <<commits, head, merging, work>>

Commit ==
    /\ User /\ (merging \/ index # Tree(head))
    /\ commits' = Append(commits, [parent |-> head, tree |-> index, by |-> "user"])
    /\ head' = Len(commits) + 1 /\ merging' = FALSE
    /\ UNCHANGED <<index, work, staged>>

\* A merge that stops before its commit.
Merge ==
    /\ User /\ ~merging /\ head # 0 /\ merging' = TRUE
    /\ UNCHANGED <<commits, head, index, work, staged>>

-----------------------------------------------------------------------------
\* The files are written, or found as they were, and the paths are planned: in a mode other
\* than auto a checkpoint commits nothing, but a workspace's first commit is made unless the mode is off.
Begin(c, mode, first, paths) ==
    /\ Goes(c, "idle",
         IF mode = "auto" \/ (first /\ mode = "ask" /\ head = 0)
            THEN [New EXCEPT !.at = "check", !.paths = paths \ Ignored]
            ELSE Ends(c, "planned"))
    /\ \E v \in Content \ {0} : work' = [p \in Paths |-> IF p \in paths THEN v ELSE work[p]]
    /\ UNCHANGED <<commits, head, merging, index, staged, done>>

\* No paths, no commit; a merge that is seen refuses it.
CheckMerge(c) ==
    /\ Goes(c, "check",
         IF cmd[c].paths = {} THEN Ends(c, "nothing_to_commit")
         ELSE IF merging THEN Ends(c, "failed")
         ELSE [cmd[c] EXCEPT !.at = "seed"])
    /\ UNCHANGED <<repository, done>>

\* The parent is recorded first, and the temporary index seeded from it.
Seed(c) ==
    /\ Goes(c, "seed", [cmd[c] EXCEPT !.at = "add", !.parent = head, !.private = Tree(head)])
    /\ UNCHANGED <<repository, done>>

\* git add takes what the files hold by now. A path that is nowhere is an error.
Added(c) == [p \in Paths |-> IF p \in cmd[c].paths THEN work[p] ELSE cmd[c].private[p]]

Add(c) ==
    /\ Goes(c, "add",
         IF \E p \in cmd[c].paths : work[p] = 0 /\ cmd[c].private[p] = 0 THEN Ends(c, "failed")
         ELSE IF Added(c) = Tree(cmd[c].parent) THEN Ends(c, "nothing_to_commit")
         ELSE [cmd[c] EXCEPT !.at = "hooks", !.private = Added(c)])
    /\ UNCHANGED <<repository, done>>

\* The hooks before the commit work on the temporary index and may leave any tree there, of other
\* paths too. Any may refuse the commit (so may a git that is too old) or, in the end, have left no
\* message; after pre-commit, but not after those of the message, there may be nothing to commit.
Hooked(c, t) == {p \in Paths \ cmd[c].paths : t[p] # cmd[c].private[p]}

Hooks(c) ==
    /\ \/ \E state \in {"failed", "nothing_to_commit"} : Goes(c, "hooks", Ends(c, state))
       \/ \E t \in [Paths -> Content] :
            Goes(c, "hooks", [cmd[c] EXCEPT !.at = "tree", !.private = t, !.hooked = Hooked(c, t)])
    /\ UNCHANGED <<repository, done>>

\* The commit is made; nothing points at it yet.
CommitTree(c) ==
    /\ commits' = Append(commits, [parent |-> cmd[c].parent, tree |-> cmd[c].private, by |-> c])
    /\ Goes(c, "tree", [cmd[c] EXCEPT !.at = "move", !.commit = Len(commits) + 1])
    /\ UNCHANGED <<head, merging, index, work, staged, done>>

ExpectNothing(c) == TRUE     \* update-ref without the old value
Expected(c) == head = cmd[c].parent

\* update-ref takes HEAD from the parent to the commit, or fails: HEAD moved, or a lock is held.
Move(c) ==
    /\ \/ /\ Expected(c)
          /\ Goes(c, "move", [cmd[c] EXCEPT !.at = "sync", !.state = "committed"])
          /\ head' = cmd[c].commit
       \/ Goes(c, "move", Ends(c, "failed")) /\ UNCHANGED head
    /\ UNCHANGED <<commits, merging, index, work, staged, done>>

Synced(c) == cmd[c].paths

\* The user's index follows for the paths, to what HEAD is by now; a failure is reported beside the commit.
Sync(c) ==
    /\ Goes(c, "sync", Ends(c, "committed"))
    /\ \/ index' = [p \in Paths |-> IF p \in Synced(c) THEN Tree(head)[p] ELSE index[p]]
       \/ UNCHANGED index
    /\ UNCHANGED <<commits, head, merging, work, staged, done>>

Next ==
    \/ \E p \in Paths : Edit(p) \/ Stage(p)
    \/ Commit \/ Merge
    \/ \E c \in Commands :
         \/ \E mode \in {"ask", "auto", "off"}, first \in BOOLEAN, paths \in SUBSET Paths : Begin(c, mode, first, paths)
         \/ CheckMerge(c) \/ Seed(c) \/ Add(c) \/ Hooks(c) \/ CommitTree(c) \/ Move(c) \/ Sync(c)

Spec == Init /\ [][Next]_vars
-----------------------------------------------------------------------------
\* A checkpoint changes its own paths, and those that the user's hooks changed, and no other: in its
\* commit, whatever is staged or committed while it is built; and in the user's index its own paths
\* alone, where everything else stays as staged.
OwnPathsOnly ==
    /\ \A k \in DOMAIN commits : \A p \in Paths :
         commits[k].by # "user" /\ p \notin cmd[commits[k].by].paths \cup cmd[commits[k].by].hooked =>
            commits[k].tree[p] = Tree(commits[k].parent)[p]
    /\ \A p \in Paths : index[p] # staged[p] => \E c \in Commands : Landed(c) /\ p \in cmd[c].paths

\* Whatever is committed while another commit is built stays in the history: every
\* commit of the user's and every checkpoint that says it is committed is an ancestor of HEAD.
CommitsKept ==
    LET history == AncestorsOf(commits, head)
    IN  /\ \A k \in DOMAIN commits : commits[k].by = "user" => k \in history
        /\ \A c \in Commands : Landed(c) => cmd[c].commit \in history

\* The two together, of a repository at any moment.
CheckpointSound == OwnPathsOnly /\ CommitsKept
=============================================================================
