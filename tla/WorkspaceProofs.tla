---------------------------- MODULE WorkspaceProofs ----------------------------
(* Proofs about the object store and the commands and the viewer around it: each   *)
(* has an inductive invariant, the lemmas that each of its actions keeps it, and   *)
(* its theorems, which ask of its constants what its ConstantsFit says; at the     *)
(* end, what follows of a behaviour of MC_Workspaces, which is one of one of them. *)
EXTENDS MC_Workspaces, FiniteSetTheorems, SequenceTheorems, WellFoundedInduction, TLAPS

-----------------------------------------------------------------------------
(* The viewer's server (ViewerServer). *)

Held == {"counted", "started", "waiting", "serving", "turned", "leaving"}
Handled == {"waiting", "serving", "turned", "leaving"}
Stages == Held \cup {"away", "queued", "refused", "closed"}

\* The accepting thread is busy with one connection at a time; once the listening socket is closed
\* it has ended, and nobody waits to be accepted.
Accepting ==
    /\ \A c \in Clients : conn[c] \in {"refused", "counted"} =>
         loop = "busy" /\ \A d \in Clients \ {c} : conn[d] \notin {"refused", "counted"}
    /\ server \in {"joining", "stopped", "conflict"} => loop = "ended" /\ Server!In({"queued"}) = {}

ServerInv ==
    /\ Server!ConstantsFit
    /\ conn \in [Clients -> Stages] /\ loop \in {"polling", "busy", "ended"}
    /\ accepted \in Nat /\ slots \in Nat
    /\ server \in {"running", "shutdown", "joining", "stopped", "conflict"}
    /\ Server!Accounted /\ Accepting /\ Server!StopHonest

\* Counting here is counting there.
LEMMA Count == (\A S : Server!Cardinality(S) = Cardinality(S)) /\ (Server!ConstantsFit => IsFiniteSet(Clients))
BY DEF Server!Cardinality, Cardinality, Server!ConstantsFit, Server!IsFiniteSet, IsFiniteSet

LEMMA InFinite ==
    ASSUME Server!ConstantsFit, NEW S
    PROVE  IsFiniteSet(Server!In(S)) /\ Cardinality(Server!In(S)) \in Nat
<1>1. Server!In(S) \subseteq Clients
  BY DEF Server!In
<1> QED
  BY <1>1, Count, FS_Subset, FS_CardinalityType

\* A connection that moves is counted among those of its new stage, and no more of its old one.
LEMMA Moved ==
    ASSUME Server!ConstantsFit, conn \in [Clients -> Stages], NEW c \in Clients, NEW from, NEW to,
           Server!Moves(c, from, to), NEW S
    PROVE  /\ from \in S /\ to \notin S =>
                 Server!In(S)' = Server!In(S) \ {c}
                    /\ Cardinality(Server!In(S)') = Cardinality(Server!In(S)) - 1
           /\ from \notin S /\ to \in S => Server!In(S)' = Server!In(S) \cup {c}
              /\ Cardinality(Server!In(S)') = Cardinality(Server!In(S)) + 1
           /\ (from \in S <=> to \in S) => Server!In(S)' = Server!In(S)
<1>1. conn' = [conn EXCEPT ![c] = to] /\ conn[c] = from
  BY DEF Server!Moves
<1>2. CASE from \in S /\ to \notin S
  <2>1. Server!In(S)' = Server!In(S) \ {c} /\ c \in Server!In(S)
    BY <1>1, <1>2 DEF Server!In
  <2> QED
    BY <2>1, <1>2, InFinite, FS_RemoveElement
<1>3. CASE from \notin S /\ to \in S
  <2>1. Server!In(S)' = Server!In(S) \cup {c} /\ c \notin Server!In(S)
    BY <1>1, <1>3 DEF Server!In
  <2> QED
    BY <2>1, <1>3, InFinite, FS_AddElement
<1>4. CASE from \in S <=> to \in S
  BY <1>1, <1>4 DEF Server!In
<1> QED
  BY <1>2, <1>3, <1>4

LEMMA ServerInit == Server!Init /\ Server!ConstantsFit => ServerInv
<1> SUFFICES ASSUME Server!Init, Server!ConstantsFit PROVE ServerInv
  OBVIOUS
<1>1. \A S : "away" \notin S => Server!In(S) = {}
  BY DEF Server!Init, Server!In
<1>2. Server!In(Held) = {} /\ Server!In(Handled) = {} /\ Server!In({"serving"}) = {}
      /\ Server!In({"queued"}) = {}
  BY <1>1 DEF Held, Handled
<1>3. Cardinality({}) = 0
  BY FS_EmptySet
<1> QED
  BY <1>2, <1>3, Count, SMT DEF Server!ConstantsFit, Server!Init, ServerInv, Server!Accounted, Accepting,
     Server!StopHonest, Stages, Held, Handled

\* What follows of a move for the four sets that are counted or must be empty.
LEMMA Counts ==
    ASSUME Server!ConstantsFit, conn \in [Clients -> Stages], NEW c \in Clients, NEW from, NEW to,
           Server!Moves(c, from, to)
    PROVE  \A S \in {Held, Handled, {"serving"}, {"queued"}} :
             /\ from \in S /\ to \notin S => Server!In(S)' = Server!In(S) \ {c}
                /\ Cardinality(Server!In(S)') = Cardinality(Server!In(S)) - 1
             /\ from \notin S /\ to \in S => Server!In(S)' = Server!In(S) \cup {c}
                /\ Cardinality(Server!In(S)') = Cardinality(Server!In(S)) + 1
             /\ (from \in S <=> to \in S) => Server!In(S)' = Server!In(S)
BY Moved

LEMMA ServerStep == ServerInv /\ [Server!Next]_(Server!vars) => ServerInv'
<1> SUFFICES ASSUME ServerInv, [Server!Next]_(Server!vars) PROVE ServerInv'
  OBVIOUS
<1> USE Count DEF ServerInv, Server!ConstantsFit, Stages, Held, Handled
<1>0. \A S : Cardinality(Server!In(S)) \in Nat /\ Cardinality(Server!In(S)') \in Nat
  <2>1. \A S : Server!In(S)' \subseteq Clients
    BY DEF Server!In
  <2> QED
    BY <2>1, InFinite, FS_Subset, FS_CardinalityType
<1>1. ASSUME NEW c \in Clients, Server!Connect(c) PROVE ServerInv'
  <2>1. Server!Moves(c, "away", "queued") /\ conn' = [conn EXCEPT ![c] = "queued"] /\ conn[c] = "away"
    BY <1>1 DEF Server!Connect, Server!Moves
  <2>2. Server!Accounted'
    BY <1>1, <1>0, <2>1, Counts DEF Server!Connect, Server!Accounted
  <2>3. Accepting' /\ Server!StopHonest'
    BY <1>1, <2>1 DEF Server!Connect, Accepting, Server!StopHonest, Server!In
  <2> QED
    BY <1>1, <1>0, <2>1, <2>2, <2>3 DEF Server!Connect, Server!Accounted, Accepting
<1>2. ASSUME NEW c \in Clients, Server!Refuse(c) PROVE ServerInv'
  <2>1. Server!Moves(c, "refused", "closed") /\ conn' = [conn EXCEPT ![c] = "closed"] /\ conn[c] = "refused"
    BY <1>2 DEF Server!Refuse, Server!Moves
  <2>2. Server!Accounted'
    BY <1>2, <1>0, <2>1, Counts DEF Server!Refuse, Server!Accounted
  <2>3. Accepting' /\ Server!StopHonest'
    BY <1>2, <2>1 DEF Server!Refuse, Accepting, Server!StopHonest, Server!In
  <2> QED
    BY <1>2, <1>0, <2>1, <2>2, <2>3 DEF Server!Refuse, Server!Accounted, Accepting
<1>3. ASSUME NEW c \in Clients, Server!StartThread(c) PROVE ServerInv'
  <2>1. Server!Moves(c, "counted", "started") /\ conn' = [conn EXCEPT ![c] = "started"] /\ conn[c] = "counted"
    BY <1>3 DEF Server!StartThread, Server!Moves
  <2>2. Server!Accounted'
    BY <1>3, <1>0, <2>1, Counts DEF Server!StartThread, Server!Accounted
  <2>3. Accepting' /\ Server!StopHonest'
    BY <1>3, <2>1 DEF Server!StartThread, Accepting, Server!StopHonest, Server!In
  <2> QED
    BY <1>3, <1>0, <2>1, <2>2, <2>3 DEF Server!StartThread, Server!Accounted, Accepting
<1>4. ASSUME NEW c \in Clients, Server!NoThread(c) PROVE ServerInv'
  <2>1. Server!Moves(c, "counted", "closed") /\ conn' = [conn EXCEPT ![c] = "closed"] /\ conn[c] = "counted"
    BY <1>4 DEF Server!NoThread, Server!Moves
  <2>2. Server!Accounted'
    BY <1>4, <1>0, <2>1, Counts DEF Server!NoThread, Server!Accounted
  <2>3. Accepting' /\ Server!StopHonest'
    BY <1>4, <2>1 DEF Server!NoThread, Accepting, Server!StopHonest, Server!In
  <2> QED
    BY <1>4, <1>0, <2>1, <2>2, <2>3 DEF Server!NoThread, Server!Accounted, Accepting
<1>5. ASSUME NEW c \in Clients, Server!Register(c) PROVE ServerInv'
  <2>1. Server!Moves(c, "started", "waiting") /\ conn' = [conn EXCEPT ![c] = "waiting"] /\ conn[c] = "started"
    BY <1>5 DEF Server!Register, Server!Moves
  <2>2. Server!Accounted'
    BY <1>5, <1>0, <2>1, Counts DEF Server!Register, Server!Accounted
  <2>3. Accepting' /\ Server!StopHonest'
    BY <1>5, <2>1 DEF Server!Register, Accepting, Server!StopHonest, Server!In
  <2> QED
    BY <1>5, <1>0, <2>1, <2>2, <2>3 DEF Server!Register, Server!Accounted, Accepting
<1>6. ASSUME NEW c \in Clients, Server!Acquire(c) PROVE ServerInv'
  <2>1. Server!Moves(c, "waiting", "serving") /\ conn' = [conn EXCEPT ![c] = "serving"] /\ conn[c] = "waiting"
    BY <1>6 DEF Server!Acquire, Server!Moves
  <2>2. Server!Accounted'
    BY <1>6, <1>0, <2>1, Counts DEF Server!Acquire, Server!Accounted
  <2>3. Accepting' /\ Server!StopHonest'
    BY <1>6, <2>1 DEF Server!Acquire, Accepting, Server!StopHonest, Server!In
  <2> QED
    BY <1>6, <1>0, <2>1, <2>2, <2>3 DEF Server!Acquire, Server!Accounted, Accepting
<1>7. ASSUME NEW c \in Clients, Server!TurnAway(c) PROVE ServerInv'
  <2>1. Server!Moves(c, "waiting", "turned") /\ conn' = [conn EXCEPT ![c] = "turned"] /\ conn[c] = "waiting"
    BY <1>7 DEF Server!TurnAway, Server!Moves
  <2>2. Server!Accounted'
    BY <1>7, <1>0, <2>1, Counts DEF Server!TurnAway, Server!Accounted
  <2>3. Accepting' /\ Server!StopHonest'
    BY <1>7, <2>1 DEF Server!TurnAway, Accepting, Server!StopHonest, Server!In
  <2> QED
    BY <1>7, <1>0, <2>1, <2>2, <2>3 DEF Server!TurnAway, Server!Accounted, Accepting
<1>8. ASSUME NEW c \in Clients, Server!TurnedAway(c) PROVE ServerInv'
  <2>1. Server!Moves(c, "turned", "leaving") /\ conn' = [conn EXCEPT ![c] = "leaving"] /\ conn[c] = "turned"
    BY <1>8 DEF Server!TurnedAway, Server!Moves
  <2>2. Server!Accounted'
    BY <1>8, <1>0, <2>1, Counts DEF Server!TurnedAway, Server!Accounted
  <2>3. Accepting' /\ Server!StopHonest'
    BY <1>8, <2>1 DEF Server!TurnedAway, Accepting, Server!StopHonest, Server!In
  <2> QED
    BY <1>8, <1>0, <2>1, <2>2, <2>3 DEF Server!TurnedAway, Server!Accounted, Accepting
<1>9. ASSUME NEW c \in Clients, Server!Answer(c) PROVE ServerInv'
  <2>1. Server!Moves(c, "serving", "leaving") /\ conn' = [conn EXCEPT ![c] = "leaving"] /\ conn[c] = "serving"
    BY <1>9 DEF Server!Answer, Server!Moves
  <2>2. Server!Accounted'
    BY <1>9, <1>0, <2>1, Counts DEF Server!Answer, Server!Accounted
  <2>3. Accepting' /\ Server!StopHonest'
    BY <1>9, <2>1 DEF Server!Answer, Accepting, Server!StopHonest, Server!In
  <2> QED
    BY <1>9, <1>0, <2>1, <2>2, <2>3 DEF Server!Answer, Server!Accounted, Accepting
<1>10. ASSUME NEW c \in Clients, Server!Leave(c) PROVE ServerInv'
  <2>1. Server!Moves(c, "leaving", "closed") /\ conn' = [conn EXCEPT ![c] = "closed"] /\ conn[c] = "leaving"
    BY <1>10 DEF Server!Leave, Server!Moves
  <2>2. Server!Accounted'
    BY <1>10, <1>0, <2>1, Counts DEF Server!Leave, Server!Accounted
  <2>3. Accepting' /\ Server!StopHonest'
    BY <1>10, <2>1 DEF Server!Leave, Accepting, Server!StopHonest, Server!In
  <2> QED
    BY <1>10, <1>0, <2>1, <2>2, <2>3 DEF Server!Leave, Server!Accounted, Accepting
<1>11. ASSUME NEW c \in Clients, Server!Accept(c) PROVE ServerInv'
  <2>1. CASE Server!Saturated
    <3>1. Server!Moves(c, "queued", "refused") /\ conn' = [conn EXCEPT ![c] = "refused"] /\ conn[c] = "queued"
      BY <1>11, <2>1 DEF Server!Accept, Server!Moves
    <3>2. Server!Accounted'
      BY <1>11, <2>1, <1>0, <3>1, Counts DEF Server!Accept, Server!Accounted
    <3>3. Accepting' /\ Server!StopHonest'
      BY <1>11, <2>1, <3>1 DEF Server!Accept, Accepting, Server!StopHonest, Server!In
    <3> QED
      BY <1>11, <2>1, <3>1, <3>2, <3>3 DEF Server!Accept
  <2>2. CASE ~Server!Saturated
    <3>1. Server!Moves(c, "queued", "counted") /\ conn' = [conn EXCEPT ![c] = "counted"] /\ conn[c] = "queued"
      BY <1>11, <2>2 DEF Server!Accept, Server!Moves
    <3>2. Server!Accounted'
      BY <1>11, <2>2, <1>0, <3>1, Counts DEF Server!Accept, Server!Accounted, Server!Saturated
    <3>3. Accepting' /\ Server!StopHonest'
      BY <1>11, <2>2, <3>1 DEF Server!Accept, Accepting, Server!StopHonest, Server!In
    <3> QED
      BY <1>11, <2>2, <3>1, <3>2, <3>3 DEF Server!Accept
  <2> QED
    BY <2>1, <2>2
<1>12. CASE Server!CloseListener
  <2>1. \A S \in {Held, Handled, {"serving"}} : Server!In(S)' = Server!In(S)
    BY <1>12 DEF Server!CloseListener, Server!In
  <2>2. Server!In({"queued"})' = {}
    BY <1>12 DEF Server!CloseListener, Server!In
  <2>3. conn' \in [Clients -> Stages]
    BY <1>12 DEF Server!CloseListener
  <2>4. Server!Accounted'
    BY <1>12, <2>1 DEF Server!CloseListener, Server!Accounted
  <2>5. Accepting' /\ Server!StopHonest'
    BY <1>12, <2>2 DEF Server!CloseListener, Accepting, Server!StopHonest
  <2> QED
    BY <1>12, <2>3, <2>4, <2>5 DEF Server!CloseListener
\* Nobody is counted, and nobody is about to be: those who are left are gone.
<1>13. CASE Server!Join
  <2>1. Server!In(Held) = {}
    BY <1>13, InFinite, FS_EmptySet DEF Server!Join, Server!NobodyLeft, Server!Accounted
  <2>2. \A c \in Clients : conn[c] \in {"away", "closed"}
    BY <1>13, <2>1 DEF Server!Join, Accepting, Server!In
  <2> QED
    BY <1>13, <2>2 DEF Server!Join, Server!Accounted, Accepting, Server!StopHonest, Server!In
<1>14. CASE Server!EndLoop \/ Server!Shutdown \/ Server!GiveUp \/ UNCHANGED Server!vars
  BY <1>14 DEF Server!EndLoop, Server!Shutdown, Server!GiveUp, Server!vars, Server!Accounted, Accepting,
     Server!StopHonest, Server!In
<1> QED
  BY <1>1, <1>2, <1>3, <1>4, <1>5, <1>6, <1>7, <1>8, <1>9, <1>10, <1>11, <1>12, <1>13, <1>14 DEF Server!Next

\* Connections, threads and slots are accounted for, and a stop that is reported is one, for any
\* number of connections and any limits (Accounted, StopHonest).
THEOREM ServerStaysSound == ASSUME Server!ConstantsFit PROVE Server!Spec => []Server!ServerSound
<1>1. ServerInv => Server!ServerSound
  BY DEF ServerInv, Server!ServerSound
<1>2. Server!Init /\ Server!ConstantsFit => ServerInv
  BY ServerInit
<1> QED
  BY <1>1, <1>2, ServerStep, PTL DEF Server!Spec

-----------------------------------------------------------------------------
(* Checkpoint commits (Checkpoint). *)

CheckContents == [Paths -> Commits!Content]
Made == [parent : Nat, tree : CheckContents, by : Commands \cup {"user"}]
CheckPlaces == {"idle", "check", "seed", "add", "hooks", "tree", "move", "sync", "done"}
CheckStates == {"none", "planned", "nothing_to_commit", "failed", "committed"}
CheckTheCommand == [at : CheckPlaces, paths : SUBSET Paths, hooked : SUBSET Paths, parent : Nat,
                    private : CheckContents, commit : Nat, state : CheckStates]

CheckTyped ==
    /\ commits \in Seq(Made) /\ head \in Commits!Numbers(commits) /\ merging \in BOOLEAN
    /\ \A k \in DOMAIN commits :
         /\ commits[k].parent \in Commits!Numbers(commits) /\ commits[k].tree \in CheckContents
         /\ commits[k].by \in Commands \cup {"user"}
    /\ index \in CheckContents /\ work \in CheckContents /\ staged \in CheckContents
    /\ gitCmd \in [Commands -> CheckTheCommand]

\* Once a command has the tree of its parent, its own differs from that in its paths, and in those
\* that a hook changed, alone; until it has landed it has no commit that anyone else knows of.
CheckFits(r) ==
    /\ r.at \in {"add", "hooks", "tree", "move"} => r.parent \in Commits!Numbers(commits)
    /\ r.at \in {"add", "hooks", "tree"}
       => \A path \in Paths \ (r.paths \cup r.hooked) : r.private[path] = Commits!Tree(r.parent)[path]
    /\ r.at \in {"check", "seed", "add", "hooks"} => r.hooked = {}
    /\ r.at = "move" => r.commit \in DOMAIN commits /\ commits[r.commit].parent = r.parent
    /\ r.at \notin {"sync", "done"} => r.state = "none"
    /\ r.at = "sync" => r.state = "committed" /\ r.commit # 0
    /\ r.commit # 0 => r.commit \in DOMAIN commits

\* A commit is the user's or of a command that has made one.
Building ==
    /\ \A c \in Commands : CheckFits(gitCmd[c])
    /\ \A k \in DOMAIN commits : commits[k].by # "user" => gitCmd[commits[k].by].at \in {"move", "sync", "done"}

OwnCommits ==
    \A k \in DOMAIN commits : \A path \in Paths :
        commits[k].by # "user" /\ path \notin gitCmd[commits[k].by].paths \cup gitCmd[commits[k].by].hooked =>
            commits[k].tree[path] = Commits!Tree(commits[k].parent)[path]
OwnIndex == \A path \in Paths : index[path] # staged[path] => \E c \in Commands : Commits!Landed(c)
   /\ path \in gitCmd[c].paths

CheckInv == Commits!ConstantsFit /\ CheckTyped /\ Building /\ Commits!OwnPathsOnly /\ Commits!CommitsKept

\* A commit is its own ancestor, and has those of its parent.
LEMMA OwnAncestor ==
    ASSUME NEW history, NEW k \in Commits!Numbers(history)
    PROVE  k \in Commits!AncestorsOf(history, k)
BY DEF Commits!AncestorsOf

LEMMA ParentsAncestors ==
    ASSUME NEW history, NEW k \in Commits!Numbers(history) \ {0},
           NEW a \in Commits!AncestorsOf(history, history[k].parent)
    PROVE  a \in Commits!AncestorsOf(history, k)
BY DEF Commits!AncestorsOf, Commits!Closed

\* A new commit takes no ancestor from those there are.
LEMMA AncestorsStay ==
    ASSUME NEW history \in Seq(Made), \A k \in DOMAIN history : history[k].parent \in Commits!Numbers(history),
           NEW new \in Made, NEW m \in Commits!Numbers(history), NEW a \in Commits!AncestorsOf(history, m)
    PROVE  a \in Commits!AncestorsOf(Append(history, new), m)
<1> DEFINE longer == Append(history, new)
<1>1. Len(history) \in Nat /\ Len(longer) = Len(history) + 1
      /\ \A k \in 1..Len(history) : longer[k] = history[k] /\ history[k].parent \in Commits!Numbers(history)
  OBVIOUS
<1> HIDE DEF longer
<1>2. Commits!Numbers(history) \subseteq Commits!Numbers(longer) /\ a \in Commits!Numbers(history)
  BY <1>1 DEF Commits!Numbers, Commits!AncestorsOf
<1>3. ASSUME NEW set \in SUBSET Commits!Numbers(longer), m \in set, Commits!Closed(longer, set)
      PROVE  a \in set
  <2> DEFINE old == set \cap Commits!Numbers(history)
  <2>1. old \in SUBSET Commits!Numbers(history) /\ m \in old
    BY <1>3
  <2>2. Commits!Closed(history, old)
    BY <1>1, <1>3 DEF Commits!Closed, Commits!Numbers
  <2> QED
    BY <2>1, <2>2 DEF Commits!AncestorsOf
<1>4. a \in Commits!AncestorsOf(longer, m)
  BY <1>2, <1>3 DEF Commits!AncestorsOf
<1> QED
  BY <1>4 DEF longer

LEMMA TreeIn ==
    ASSUME Commits!ConstantsFit, CheckTyped, NEW k \in Commits!Numbers(commits)
    PROVE  Commits!Empty \in CheckContents /\ Commits!Tree(k) \in CheckContents
<1>1. Commits!Empty \in CheckContents
  BY DEF Commits!ConstantsFit, Commits!Empty, CheckContents, Commits!Content
<1>2. CASE k = 0
  BY <1>1, <1>2 DEF Commits!Tree
<1>3. CASE k # 0
  BY <1>1, <1>3 DEF Commits!Tree, CheckTyped, Commits!Numbers
<1> QED
  BY <1>2, <1>3

LEMMA CheckInit == Commits!Init /\ Commits!ConstantsFit => CheckInv
<1> SUFFICES ASSUME Commits!Init, Commits!ConstantsFit PROVE CheckInv
  OBVIOUS
<1>1. Commits!Empty \in CheckContents
  BY DEF Commits!ConstantsFit, Commits!Empty, CheckContents, Commits!Content
<1>2. Commits!New \in CheckTheCommand
  BY <1>1 DEF Commits!New, CheckTheCommand, CheckPlaces, CheckStates
<1>3. commits = <<>> /\ commits \in Seq(Made) /\ DOMAIN commits = {} /\ 0 \in Commits!Numbers(commits)
  BY DEF Commits!Init, Commits!Numbers
<1>4. CheckTyped
  BY <1>1, <1>2, <1>3 DEF Commits!Init, CheckTyped
<1>5. Building /\ Commits!OwnPathsOnly /\ Commits!CommitsKept
  BY DEF Commits!Init, Building, CheckFits, Commits!OwnPathsOnly, Commits!CommitsKept, Commits!New,
     Commits!Landed
<1> QED
  BY <1>4, <1>5 DEF CheckInv

\* A step of a command that has not landed, and does not.
LEMMA Goes1 ==
    ASSUME CheckInv, NEW c \in Commands, NEW to \in CheckTheCommand, gitCmd' = [gitCmd EXCEPT ![c] = to],
           UNCHANGED <<commits, head, index, staged>>, work' \in CheckContents, merging' \in BOOLEAN,
           gitCmd[c].at \notin {"sync", "done"}, CheckFits(to), to.state # "committed",
           gitCmd[c].at = "idle" \/ to.paths = gitCmd[c].paths,
           gitCmd[c].at = "move" => to.at = "done" /\ to.hooked = gitCmd[c].hooked
    PROVE  CheckInv'
<1>1. CheckTyped'
  BY DEF CheckInv, CheckTyped, Commits!Numbers
<1>2. /\ \A d \in Commands \ {c} : gitCmd'[d] = gitCmd[d]
      /\ gitCmd'[c] = to /\ ~ Commits!Landed(c) /\ gitCmd[c].at \in CheckPlaces
  BY DEF CheckInv, CheckTyped, Building, CheckFits, Commits!Landed, CheckTheCommand
<1>3. \A d \in Commands : Commits!Landed(d)' => Commits!Landed(d) /\ gitCmd'[d] = gitCmd[d]
  BY <1>2 DEF Commits!Landed
<1>4. \A d \in Commands : Commits!Landed(d) => Commits!Landed(d)' /\ gitCmd'[d] = gitCmd[d]
  BY <1>2 DEF Commits!Landed
<1>5. \A k \in DOMAIN commits : commits[k].by # "user" =>
         /\ commits[k].by \in Commands
         /\ commits[k].by = c => gitCmd[c].at = "move"
  BY DEF CheckInv, CheckTyped, Building
<1>6. Building'
  <2>1. \A d \in Commands : CheckFits(gitCmd[d])'
    BY <1>2 DEF CheckInv, Building, CheckFits, Commits!Tree, Commits!Numbers
  <2>2. \A k \in DOMAIN commits : commits[k].by # "user"
        => gitCmd'[commits[k].by].at \in {"move", "sync", "done"}
    BY <1>2, <1>5 DEF CheckInv, Building
  <2> QED
    BY <2>1, <2>2 DEF Building
<1>7. OwnCommits' /\ OwnIndex'
  <2>1. OwnCommits'
    BY <1>2, <1>5 DEF CheckInv, Commits!OwnPathsOnly, OwnCommits, Commits!Tree
  <2>2. OwnIndex'
    BY <1>4 DEF CheckInv, Commits!OwnPathsOnly, OwnIndex
  <2> QED
    BY <2>1, <2>2
<1>8. Commits!CommitsKept'
  BY <1>3 DEF CheckInv, Commits!CommitsKept, Commits!AncestorsOf, Commits!Numbers, Commits!Closed
<1> QED
  BY <1>1, <1>6, <1>7, <1>8 DEF CheckInv, Commits!ConstantsFit, Commits!OwnPathsOnly, OwnCommits, OwnIndex

LEMMA CheckEnded ==
    ASSUME CheckInv, NEW c \in Commands, NEW state \in {"planned", "nothing_to_commit", "failed"}
    PROVE  Commits!Ends(c, state) \in CheckTheCommand /\ CheckFits(Commits!Ends(c, state))
           /\ Commits!Ends(c, state).paths = gitCmd[c].paths /\ Commits!Ends(c, state).hooked = gitCmd[c].hooked
           /\ Commits!Ends(c, state).at = "done" /\ Commits!Ends(c, state).state # "committed"
<1>1. gitCmd[c] \in CheckTheCommand /\ CheckFits(gitCmd[c])
  BY DEF CheckInv, CheckTyped, Building
<1>2. Commits!Ends(c, state) \in CheckTheCommand /\ Commits!Ends(c, state).paths = gitCmd[c].paths
      /\ Commits!Ends(c, state).hooked = gitCmd[c].hooked /\ Commits!Ends(c, state).parent = gitCmd[c].parent
      /\ Commits!Ends(c, state).at = "done" /\ Commits!Ends(c, state).state = state
         /\ Commits!Ends(c, state).commit = gitCmd[c].commit
  BY <1>1 DEF Commits!Ends, CheckTheCommand, CheckPlaces, CheckStates
<1> QED
  BY <1>1, <1>2 DEF CheckFits

\* A commit is added; HEAD may go to it.
LEMMA Added1 ==
    ASSUME Commits!ConstantsFit, CheckTyped, NEW new \in Made, new.parent \in Commits!Numbers(commits),
           commits' = Append(commits, new)
    PROVE  /\ commits' \in Seq(Made) /\ Commits!Numbers(commits) \subseteq Commits!Numbers(commits')
           /\ Len(commits) + 1 \in Commits!Numbers(commits')
           /\ \A k \in DOMAIN commits' : commits'[k].parent \in Commits!Numbers(commits')
              /\ commits'[k].tree \in CheckContents
                                          /\ commits'[k].by \in Commands \cup {"user"}
           /\ DOMAIN commits' = DOMAIN commits \cup {Len(commits) + 1}
           /\ \A k \in DOMAIN commits : commits'[k] = commits[k]
           /\ commits'[Len(commits) + 1] = new
           /\ \A k \in Commits!Numbers(commits) : Commits!Tree(k)' = Commits!Tree(k)
<1>1. Len(commits) \in Nat /\ Len(commits') = Len(commits) + 1 /\ commits' \in Seq(Made)
      /\ DOMAIN commits = 1..Len(commits) /\ DOMAIN commits' = 1..(Len(commits) + 1)
      /\ (\A k \in 1..Len(commits) : commits'[k] = commits[k]) /\ commits'[Len(commits) + 1] = new
  BY DEF CheckTyped
<1>2. Commits!Numbers(commits) \subseteq Commits!Numbers(commits')
      /\ Len(commits) + 1 \in Commits!Numbers(commits')
  BY <1>1 DEF Commits!Numbers
<1>3. \A k \in DOMAIN commits' : commits'[k].parent \in Commits!Numbers(commits')
      /\ commits'[k].tree \in CheckContents
                                /\ commits'[k].by \in Commands \cup {"user"}
  <2>1. new.parent \in Commits!Numbers(commits) /\ new.tree \in CheckContents
        /\ new.by \in Commands \cup {"user"}
    BY DEF Made
  <2> QED
    BY <1>1, <1>2, <2>1 DEF CheckTyped
<1>4. DOMAIN commits' = DOMAIN commits \cup {Len(commits) + 1}
  BY <1>1
<1>5. \A k \in Commits!Numbers(commits) : Commits!Tree(k)' = Commits!Tree(k)
  BY <1>1 DEF Commits!Tree, Commits!Numbers, Commits!Empty
<1> QED
  BY <1>1, <1>2, <1>3, <1>4, <1>5

LEMMA CheckStep == CheckInv /\ [Commits!Next]_(Commits!vars) => CheckInv'
<1> SUFFICES ASSUME CheckInv, [Commits!Next]_(Commits!vars) PROVE CheckInv'
  OBVIOUS
<1>0. /\ Commits!ConstantsFit /\ CheckTyped /\ Building /\ OwnCommits /\ OwnIndex /\ Commits!CommitsKept
      /\ \A c \in Commands : gitCmd[c] \in CheckTheCommand /\ CheckFits(gitCmd[c])
      /\ Commits!Empty \in CheckContents
         /\ \A k \in Commits!Numbers(commits) : Commits!Tree(k) \in CheckContents
  BY TreeIn DEF CheckInv, CheckTyped, Building, Commits!OwnPathsOnly, OwnCommits, OwnIndex
\* The files and the index are the user's.
<1>1. ASSUME NEW path \in Paths, Commits!Edit(path) \/ Commits!Stage(path) PROVE CheckInv'
  <2>1. UNCHANGED <<commits, head, merging, gitCmd>> /\ index' \in CheckContents /\ work' \in CheckContents
        /\ staged' \in CheckContents
    BY <1>0, <1>1 DEF Commits!Edit, Commits!Stage, Commits!User, CheckTyped, CheckContents
  <2>2. \A q \in Paths : index'[q] # staged'[q] => index[q] # staged[q]
    BY <1>0, <1>1 DEF Commits!Edit, Commits!Stage, CheckTyped, CheckContents
  <2>3. CheckTyped'
    BY <1>0, <2>1 DEF CheckTyped, Commits!Numbers
  <2>4. Building' /\ OwnCommits' /\ Commits!CommitsKept'
    BY <1>0, <2>1 DEF Building, CheckFits, OwnCommits, Commits!CommitsKept, Commits!Tree, Commits!Landed,
       Commits!AncestorsOf, Commits!Closed, Commits!Numbers
  <2>5. OwnIndex'
    BY <1>0, <2>1, <2>2 DEF OwnIndex, Commits!Landed
  <2> QED
    BY <1>0, <2>3, <2>4, <2>5 DEF CheckInv, Commits!ConstantsFit, Commits!OwnPathsOnly, OwnCommits, OwnIndex
<1>2. CASE Commits!Commit
  <2> DEFINE new == [parent |-> head, tree |-> index, by |-> "user"]
  <2>1. commits' = Append(commits, new) /\ head' = Len(commits) + 1 /\ merging' = FALSE
        /\ UNCHANGED <<index, work, staged, gitCmd>>
    BY <1>2 DEF Commits!Commit, Commits!User
  <2>2. new \in Made /\ new.parent = head /\ head \in Commits!Numbers(commits) /\ new.by = "user"
        /\ head \in Nat
    BY <1>0 DEF CheckTyped, Made, Commits!Numbers
  <2> HIDE DEF new
  <2>3. /\ commits' \in Seq(Made) /\ Commits!Numbers(commits) \subseteq Commits!Numbers(commits')
        /\ Len(commits) + 1 \in Commits!Numbers(commits')
        /\ \A k \in DOMAIN commits' : commits'[k].parent \in Commits!Numbers(commits')
           /\ commits'[k].tree \in CheckContents
                                       /\ commits'[k].by \in Commands \cup {"user"}
        /\ DOMAIN commits' = DOMAIN commits \cup {Len(commits) + 1}
        /\ \A k \in DOMAIN commits : commits'[k] = commits[k] /\ k \in Commits!Numbers(commits)
           /\ commits[k].parent \in Commits!Numbers(commits)
        /\ commits'[Len(commits) + 1] = new
        /\ \A k \in Commits!Numbers(commits) : Commits!Tree(k)' = Commits!Tree(k)
    BY <1>0, <2>1, <2>2, Added1 DEF CheckTyped, Commits!Numbers
  <2>4. CheckTyped'
    BY <1>0, <2>1, <2>3 DEF CheckTyped
  <2>5. Building'
    <3>1. \A c \in Commands : CheckFits(gitCmd[c])'
      BY <1>0, <2>1, <2>3 DEF CheckFits
    <3>2. \A k \in DOMAIN commits' : commits'[k].by # "user"
          => gitCmd'[commits'[k].by].at \in {"move", "sync", "done"}
      BY <1>0, <2>1, <2>2, <2>3 DEF Building
    <3> QED
      BY <3>1, <3>2 DEF Building
  <2>6. OwnCommits' /\ OwnIndex'
    <3>1. OwnCommits'
      BY <1>0, <2>1, <2>2, <2>3 DEF OwnCommits, Commits!Tree, Commits!Numbers, CheckTyped
    <3>2. OwnIndex'
      BY <1>0, <2>1 DEF OwnIndex, Commits!Landed
    <3> QED
      BY <3>1, <3>2
  <2>7. Commits!CommitsKept'
    <3>1. PICK h \in Commits!Numbers(commits) : h = head
      BY <2>2
    <3>2. h + 0 = h /\ Len(commits) + 1 \in Commits!Numbers(commits') \ {0}
          /\ commits'[Len(commits) + 1].parent = h
      BY <1>0, <2>2, <2>3, <3>1 DEF CheckTyped
    <3>3. \A a \in Commits!AncestorsOf(commits, head) : a \in Commits!AncestorsOf(commits', head')
      <4> TAKE a \in Commits!AncestorsOf(commits, head)
      <4>1. a \in Commits!AncestorsOf(commits', h)
        BY <1>0, <2>1, <2>2, <3>1, AncestorsStay DEF CheckTyped
      <4> QED
        BY <2>1, <3>2, <4>1, ParentsAncestors
    <3>4. head' \in Commits!AncestorsOf(commits', head')
      BY <2>1, <2>3, OwnAncestor
    <3>5. \A c \in Commands : Commits!Landed(c)' = Commits!Landed(c) /\ gitCmd'[c] = gitCmd[c]
      BY <2>1 DEF Commits!Landed
    <3> QED
      BY <1>0, <2>1, <2>3, <3>3, <3>4, <3>5 DEF Commits!CommitsKept
  <2> QED
    BY <1>0, <2>4, <2>5, <2>6, <2>7 DEF CheckInv, Commits!ConstantsFit, Commits!OwnPathsOnly, OwnCommits,
       OwnIndex
<1>3. ASSUME NEW c \in Commands, NEW mode \in {"ask", "auto", "off"}, NEW first \in BOOLEAN,
             NEW paths \in SUBSET Paths,
             Commits!Begin(c, mode, first, paths)
      PROVE  CheckInv'
  <2>1. UNCHANGED <<commits, head, merging, index, staged>> /\ work' \in CheckContents /\ gitCmd[c].at = "idle"
    BY <1>0, <1>3 DEF Commits!Begin, Commits!Goes, CheckTyped, CheckContents
  <2>2. CASE gitCmd' = [gitCmd EXCEPT ![c] = Commits!Ends(c, "planned")]
    BY <1>0, <2>1, <2>2, CheckEnded, Goes1 DEF CheckTyped
  <2>3. CASE gitCmd' = [gitCmd EXCEPT ![c] = [Commits!New EXCEPT !.at = "check", !.paths = paths \ Ignored]]
    <3> DEFINE to == [Commits!New EXCEPT !.at = "check", !.paths = paths \ Ignored]
    <3>1. Commits!New \in CheckTheCommand /\ "check" \in CheckPlaces /\ paths \ Ignored \in SUBSET Paths
      BY <1>0 DEF Commits!New, CheckTheCommand, CheckPlaces, CheckStates
    <3>2. to \in CheckTheCommand /\ to.at = "check" /\ to.commit = 0 /\ to.state = "none" /\ to.hooked = {}
      BY <3>1 DEF CheckTheCommand, Commits!New
    <3>3. CheckFits(to) /\ to.state # "committed"
      BY <3>2 DEF CheckFits
    <3> QED
      BY <1>0, <2>1, <2>3, <3>2, <3>3, Goes1 DEF CheckTyped
  <2> QED
    BY <1>3, <2>2, <2>3 DEF Commits!Begin, Commits!Goes
<1>4. ASSUME NEW c \in Commands, Commits!CheckMerge(c) PROVE CheckInv'
  <2>1. UNCHANGED <<commits, head, merging, index, staged, work>> /\ gitCmd[c].at = "check"
    BY <1>4 DEF Commits!CheckMerge, Commits!Goes, Commits!repository
  <2>2. CASE \/ gitCmd' = [gitCmd EXCEPT ![c] = Commits!Ends(c, "nothing_to_commit")]
             \/ gitCmd' = [gitCmd EXCEPT ![c] = Commits!Ends(c, "failed")]
    BY <1>0, <2>1, <2>2, CheckEnded, Goes1 DEF CheckTyped
  <2>3. CASE gitCmd' = [gitCmd EXCEPT ![c] = [gitCmd[c] EXCEPT !.at = "seed"]]
    <3> DEFINE to == [gitCmd[c] EXCEPT !.at = "seed"]
    <3>1. to \in CheckTheCommand /\ to.paths = gitCmd[c].paths /\ to.at = "seed"
          /\ to.commit = gitCmd[c].commit /\ to.state = gitCmd[c].state /\ to.hooked = gitCmd[c].hooked
      BY <1>0 DEF CheckTheCommand, CheckPlaces
    <3>2. CheckFits(to) /\ to.state = "none"
      BY <1>0, <2>1, <3>1 DEF CheckFits
    <3> QED
      BY <1>0, <2>1, <2>3, <3>1, <3>2, Goes1 DEF CheckTyped
  <2> QED
    BY <1>4, <2>2, <2>3 DEF Commits!CheckMerge, Commits!Goes
<1>5. ASSUME NEW c \in Commands, Commits!Seed(c) PROVE CheckInv'
  <2> DEFINE to == [gitCmd[c] EXCEPT !.at = "add", !.parent = head, !.private = Commits!Tree(head)]
  <2>1. UNCHANGED <<commits, head, merging, index, staged, work>> /\ gitCmd[c].at = "seed"
        /\ gitCmd' = [gitCmd EXCEPT ![c] = to]
    BY <1>5 DEF Commits!Seed, Commits!Goes, Commits!repository
  <2>2. head \in Commits!Numbers(commits) /\ head \in Nat /\ Commits!Tree(head) \in CheckContents
    BY <1>0 DEF CheckTyped, Commits!Numbers
  <2>3. to \in CheckTheCommand /\ to.paths = gitCmd[c].paths /\ to.at = "add" /\ to.commit = gitCmd[c].commit
        /\ to.state = gitCmd[c].state /\ to.hooked = gitCmd[c].hooked
        /\ to.parent = head /\ to.private = Commits!Tree(head)
    BY <1>0, <2>2 DEF CheckTheCommand, CheckPlaces
  <2>4. CheckFits(to) /\ to.state = "none"
    BY <1>0, <2>1, <2>2, <2>3 DEF CheckFits
  <2> QED
    BY <1>0, <2>1, <2>3, <2>4, Goes1 DEF CheckTyped
<1>6. ASSUME NEW c \in Commands, Commits!Add(c) PROVE CheckInv'
  <2>1. UNCHANGED <<commits, head, merging, index, staged, work>> /\ gitCmd[c].at = "add"
    BY <1>6 DEF Commits!Add, Commits!Goes, Commits!repository
  <2>2. CASE \/ gitCmd' = [gitCmd EXCEPT ![c] = Commits!Ends(c, "nothing_to_commit")]
             \/ gitCmd' = [gitCmd EXCEPT ![c] = Commits!Ends(c, "failed")]
    BY <1>0, <2>1, <2>2, CheckEnded, Goes1 DEF CheckTyped
  <2>3. CASE gitCmd' = [gitCmd EXCEPT ![c] = [gitCmd[c] EXCEPT !.at = "hooks", !.private = Commits!Added(c)]]
    <3> DEFINE to == [gitCmd[c] EXCEPT !.at = "hooks", !.private = Commits!Added(c)]
    <3>1. Commits!Added(c) \in CheckContents
      BY <1>0 DEF Commits!Added, CheckContents, CheckTyped, CheckTheCommand
    <3>2. to \in CheckTheCommand /\ to.paths = gitCmd[c].paths /\ to.at = "hooks"
          /\ to.commit = gitCmd[c].commit /\ to.state = gitCmd[c].state
          /\ to.parent = gitCmd[c].parent /\ to.private = Commits!Added(c) /\ to.hooked = gitCmd[c].hooked
      BY <1>0, <3>1 DEF CheckTheCommand, CheckPlaces
    <3>3. CheckFits(to) /\ to.state = "none"
      BY <1>0, <2>1, <3>2 DEF CheckFits, Commits!Added
    <3> QED
      BY <1>0, <2>1, <2>3, <3>2, <3>3, Goes1 DEF CheckTyped
  <2> QED
    BY <1>6, <2>2, <2>3 DEF Commits!Add, Commits!Goes
<1>7. ASSUME NEW c \in Commands, Commits!Hooks(c) PROVE CheckInv'
  <2>1. UNCHANGED <<commits, head, merging, index, staged, work>> /\ gitCmd[c].at = "hooks"
    BY <1>7 DEF Commits!Hooks, Commits!Goes, Commits!repository
  <2>2. ASSUME NEW state \in {"failed", "nothing_to_commit"}, gitCmd' = [gitCmd EXCEPT ![c] = Commits!Ends(c, state)]
        PROVE  CheckInv'
    BY <1>0, <2>1, <2>2, CheckEnded, Goes1 DEF CheckTyped
  <2>3. ASSUME NEW t \in CheckContents,
               gitCmd' = [gitCmd EXCEPT ![c] = [gitCmd[c] EXCEPT !.at = "tree", !.private = t,
                                                                 !.hooked = Commits!Hooked(c, t)]]
        PROVE  CheckInv'
    <3> DEFINE to == [gitCmd[c] EXCEPT !.at = "tree", !.private = t, !.hooked = Commits!Hooked(c, t)]
    <3>1. /\ to \in CheckTheCommand /\ to.paths = gitCmd[c].paths /\ to.at = "tree"
          /\ to.commit = gitCmd[c].commit /\ to.state = gitCmd[c].state
          /\ to.parent = gitCmd[c].parent /\ to.private = t /\ to.hooked = Commits!Hooked(c, t)
      BY <1>0 DEF Commits!Hooked, CheckTheCommand, CheckPlaces
    <3>2. \A path \in Paths \ gitCmd[c].paths : path \notin gitCmd[c].hooked
      BY <1>0, <2>1 DEF CheckFits
    <3>3. \A path \in Paths \ (to.paths \cup to.hooked) : to.private[path] = Commits!Tree(to.parent)[path]
      BY <1>0, <2>1, <3>1, <3>2 DEF CheckFits, Commits!Hooked
    <3>4. CheckFits(to) /\ to.state = "none"
      BY <1>0, <2>1, <3>1, <3>3 DEF CheckFits
    <3> QED
      BY <1>0, <2>1, <2>3, <3>1, <3>4, Goes1 DEF CheckTyped
  <2> QED
    BY <1>7, <2>2, <2>3 DEF Commits!Hooks, Commits!Goes, CheckContents
<1>8. ASSUME NEW c \in Commands, Commits!CommitTree(c) PROVE CheckInv'
  <2> DEFINE new == [parent |-> gitCmd[c].parent, tree |-> gitCmd[c].private, by |-> c]
             to == [gitCmd[c] EXCEPT !.at = "move", !.commit = Len(commits) + 1]
  <2>1. commits' = Append(commits, new) /\ UNCHANGED <<head, merging, index, work, staged>>
        /\ gitCmd' = [gitCmd EXCEPT ![c] = to]
        /\ gitCmd[c].at = "tree"
    BY <1>8 DEF Commits!CommitTree, Commits!Goes
  <2>2. new \in Made /\ new.parent = gitCmd[c].parent /\ gitCmd[c].parent \in Commits!Numbers(commits)
        /\ new.by = c /\ new.tree = gitCmd[c].private
    BY <1>0, <2>1 DEF CheckFits, CheckTheCommand, Made
  <2>3. Len(commits) + 1 \in Nat
    BY <1>0 DEF CheckTyped
  <2>4. to \in CheckTheCommand /\ to.paths = gitCmd[c].paths /\ to.at = "move" /\ to.commit = Len(commits) + 1
        /\ to.hooked = gitCmd[c].hooked
        /\ to.state = gitCmd[c].state
        /\ to.parent = gitCmd[c].parent
    BY <1>0, <2>3 DEF CheckTheCommand, CheckPlaces
  <2> HIDE DEF new, to
  <2>5. /\ commits' \in Seq(Made) /\ Commits!Numbers(commits) \subseteq Commits!Numbers(commits')
        /\ Len(commits) + 1 \in Commits!Numbers(commits')
        /\ \A k \in DOMAIN commits' : commits'[k].parent \in Commits!Numbers(commits')
           /\ commits'[k].tree \in CheckContents
                                       /\ commits'[k].by \in Commands \cup {"user"}
        /\ DOMAIN commits' = DOMAIN commits \cup {Len(commits) + 1}
        /\ \A k \in DOMAIN commits : commits'[k] = commits[k] /\ k \in Commits!Numbers(commits)
           /\ commits[k].parent \in Commits!Numbers(commits)
        /\ commits'[Len(commits) + 1] = new
        /\ \A k \in Commits!Numbers(commits) : Commits!Tree(k)' = Commits!Tree(k)
    BY <1>0, <2>1, <2>2, Added1 DEF CheckTyped, Commits!Numbers
  <2>6. CheckTyped'
    BY <1>0, <2>1, <2>4, <2>5 DEF CheckTyped
  <2>7. gitCmd'[c] = to /\ \A d \in Commands \ {c} : gitCmd'[d] = gitCmd[d]
    BY <1>0, <2>1 DEF CheckTyped
  <2>8. \A d \in Commands : (Commits!Landed(d)' => Commits!Landed(d))
        /\ (Commits!Landed(d) => Commits!Landed(d)') /\ (Commits!Landed(d) => gitCmd'[d] = gitCmd[d])
    BY <1>0, <2>1, <2>4, <2>7 DEF Commits!Landed, CheckFits
  <2>9. Building'
    <3>1. CheckFits(gitCmd[c])'
      BY <1>0, <2>1, <2>2, <2>4, <2>5, <2>7 DEF CheckFits
    <3>2. \A d \in Commands \ {c} : CheckFits(gitCmd[d])'
      BY <1>0, <2>5, <2>7 DEF CheckFits
    <3>3. \A k \in DOMAIN commits' : commits'[k].by # "user"
          => gitCmd'[commits'[k].by].at \in {"move", "sync", "done"}
      <4> SUFFICES ASSUME NEW k \in DOMAIN commits', commits'[k].by # "user"
                   PROVE  gitCmd'[commits'[k].by].at \in {"move", "sync", "done"}
        OBVIOUS
      <4>1. commits'[k].by \in Commands
        BY <2>5
      <4> QED
        BY <1>0, <2>1, <2>2, <2>4, <2>5, <2>7, <4>1 DEF Building
    <3> QED
      BY <3>1, <3>2, <3>3 DEF Building
  <2>10. OwnCommits'
    <3> SUFFICES ASSUME NEW k \in DOMAIN commits', NEW path \in Paths, commits'[k].by # "user",
                        path \notin gitCmd'[commits'[k].by].paths \cup gitCmd'[commits'[k].by].hooked
                 PROVE  commits'[k].tree[path] = (Commits!Tree(commits[k].parent)')[path]
      BY DEF OwnCommits
    <3>1. CASE k \in DOMAIN commits
      <4>1. commits[k].by \in Commands /\ gitCmd'[commits[k].by].paths = gitCmd[commits[k].by].paths
            /\ gitCmd'[commits[k].by].hooked = gitCmd[commits[k].by].hooked
        BY <1>0, <2>4, <2>5, <2>7, <3>1 DEF CheckTyped
      <4>2. commits[k].tree[path] = Commits!Tree(commits[k].parent)[path]
        BY <1>0, <2>5, <3>1, <4>1 DEF OwnCommits
      <4> QED
        BY <2>5, <3>1, <4>2
    <3>2. CASE k = Len(commits) + 1
      <4>1. path \in Paths \ (gitCmd[c].paths \cup gitCmd[c].hooked)
        BY <2>2, <2>4, <2>5, <2>7, <3>2
      <4>2. gitCmd[c].private[path] = Commits!Tree(gitCmd[c].parent)[path]
        BY <1>0, <2>1, <4>1 DEF CheckFits
      <4> QED
        BY <2>2, <2>5, <3>2, <4>2
    <3> QED
      BY <2>5, <3>1, <3>2
  <2>11. OwnIndex'
    BY <1>0, <2>1, <2>8 DEF OwnIndex
  <2>12. Commits!CommitsKept'
    <3>1. PICK h \in Commits!Numbers(commits) : h = head
      BY <1>0 DEF CheckTyped
    <3>2. \A a \in Commits!AncestorsOf(commits, head) : a \in Commits!AncestorsOf(commits', head')
      BY <1>0, <2>1, <2>2, <3>1, AncestorsStay DEF CheckTyped
    <3>3. c # "user"
      BY <1>0 DEF Commits!ConstantsFit
    <3> QED
      BY <1>0, <2>2, <2>5, <2>8, <3>2, <3>3 DEF Commits!CommitsKept
  <2> QED
    BY <1>0, <2>6, <2>9, <2>10, <2>11, <2>12 DEF CheckInv, Commits!ConstantsFit, Commits!OwnPathsOnly,
       OwnCommits, OwnIndex
<1>9. ASSUME NEW c \in Commands, Commits!Move(c) PROVE CheckInv'
  <2>1. UNCHANGED <<commits, merging, index, work, staged>> /\ gitCmd[c].at = "move"
    BY <1>9 DEF Commits!Move, Commits!Goes
  <2>2. CASE gitCmd' = [gitCmd EXCEPT ![c] = Commits!Ends(c, "failed")] /\ UNCHANGED head
    BY <1>0, <2>1, <2>2, CheckEnded, Goes1 DEF CheckTyped
  <2>3. CASE /\ Commits!Expected(c) /\ head' = gitCmd[c].commit
             /\ gitCmd' = [gitCmd EXCEPT ![c] = [gitCmd[c] EXCEPT !.at = "sync", !.state = "committed"]]
    <3> DEFINE to == [gitCmd[c] EXCEPT !.at = "sync", !.state = "committed"]
    <3>1. to \in CheckTheCommand /\ to.paths = gitCmd[c].paths /\ to.at = "sync"
          /\ to.commit = gitCmd[c].commit /\ to.state = "committed" /\ to.hooked = gitCmd[c].hooked
      BY <1>0 DEF CheckTheCommand, CheckPlaces, CheckStates
    <3>2. gitCmd'[c] = to /\ \A d \in Commands \ {c} : gitCmd'[d] = gitCmd[d]
      BY <1>0, <2>3 DEF CheckTyped
    <3> HIDE DEF to
    <3>3. gitCmd[c].commit \in DOMAIN commits /\ commits[gitCmd[c].commit].parent = head /\ gitCmd[c].commit # 0
          /\ gitCmd[c].commit \in Commits!Numbers(commits) \ {0}
      BY <1>0, <2>1, <2>3 DEF CheckFits, Commits!Expected, CheckTyped, Commits!Numbers
    <3>4. gitCmd' \in [Commands -> CheckTheCommand] /\ head' \in Commits!Numbers(commits')
      BY <1>0, <2>1, <2>3, <3>1, <3>3 DEF CheckTyped, to
    <3>5. CheckTyped'
      BY <1>0, <2>1, <3>4 DEF CheckTyped
    <3>6. Building'
      <4>1. CheckFits(gitCmd[c])'
        BY <2>1, <3>1, <3>2, <3>3 DEF CheckFits
      <4>2. \A d \in Commands \ {c} : CheckFits(gitCmd[d])'
        BY <1>0, <2>1, <3>2 DEF CheckFits, Commits!Tree
      <4>3. \A k \in DOMAIN commits' : commits'[k].by # "user"
            => gitCmd'[commits'[k].by].at \in {"move", "sync", "done"}
        BY <1>0, <2>1, <3>1, <3>2 DEF Building, CheckTyped
      <4> QED
        BY <4>1, <4>2, <4>3 DEF Building
    <3>7. OwnCommits'
      BY <1>0, <2>1, <3>1, <3>2 DEF OwnCommits, CheckTyped, Commits!Tree
    <3>8. OwnIndex'
      BY <1>0, <2>1, <3>1, <3>2 DEF OwnIndex, Commits!Landed
    <3>9. Commits!CommitsKept'
      <4>1. \A a \in Commits!AncestorsOf(commits, head) : a \in Commits!AncestorsOf(commits', head')
        BY <2>1, <2>3, <3>3, ParentsAncestors
      <4>2. head' \in Commits!AncestorsOf(commits', head')
        BY <2>1, <2>3, <3>3, OwnAncestor
      <4>3. \A d \in Commands \ {c} : Commits!Landed(d)' => Commits!Landed(d)
        BY <3>2 DEF Commits!Landed
      <4> QED
        BY <1>0, <2>1, <2>3, <3>1, <3>2, <4>1, <4>2, <4>3 DEF Commits!CommitsKept
    <3> QED
      BY <1>0, <3>5, <3>6, <3>7, <3>8, <3>9 DEF CheckInv, Commits!ConstantsFit, Commits!OwnPathsOnly,
         OwnCommits, OwnIndex
  <2> QED
    BY <1>9, <2>2, <2>3 DEF Commits!Move, Commits!Goes
<1>10. ASSUME NEW c \in Commands, Commits!Sync(c) PROVE CheckInv'
  <2>1. UNCHANGED <<commits, head, merging, work, staged>> /\ gitCmd[c].at = "sync"
        /\ gitCmd' = [gitCmd EXCEPT ![c] = Commits!Ends(c, "committed")]
    BY <1>10 DEF Commits!Sync, Commits!Goes
  <2>2. Commits!Ends(c, "committed") \in CheckTheCommand
        /\ Commits!Ends(c, "committed").paths = gitCmd[c].paths /\ Commits!Ends(c, "committed").at = "done"
        /\ Commits!Ends(c, "committed").hooked = gitCmd[c].hooked
        /\ Commits!Ends(c, "committed").commit = gitCmd[c].commit
           /\ Commits!Ends(c, "committed").state = "committed"
    BY <1>0 DEF Commits!Ends, CheckTheCommand, CheckPlaces, CheckStates
  <2>3. gitCmd'[c] = Commits!Ends(c, "committed") /\ (\A d \in Commands \ {c} : gitCmd'[d] = gitCmd[d])
        /\ gitCmd' \in [Commands -> CheckTheCommand]
    BY <1>0, <2>1, <2>2 DEF CheckTyped
  <2>4. index' \in CheckContents
    BY <1>0, <1>10 DEF Commits!Sync, CheckTyped, CheckContents
  <2>5. CheckTyped'
    BY <1>0, <2>1, <2>3, <2>4 DEF CheckTyped
  <2>6. Commits!Landed(c) /\ (\A d \in Commands : Commits!Landed(d)' = Commits!Landed(d))
        /\ \A d \in Commands : /\ gitCmd'[d].paths = gitCmd[d].paths /\ gitCmd'[d].commit = gitCmd[d].commit
                              /\ gitCmd'[d].hooked = gitCmd[d].hooked
    BY <1>0, <2>1, <2>2, <2>3 DEF Commits!Landed, CheckFits
  <2>7. Building'
    <3>1. CheckFits(gitCmd[c])'
      BY <1>0, <2>1, <2>2, <2>3 DEF CheckFits
    <3>2. \A d \in Commands \ {c} : CheckFits(gitCmd[d])'
      BY <1>0, <2>1, <2>3 DEF CheckFits, Commits!Tree
    <3>3. \A k \in DOMAIN commits' : commits'[k].by # "user"
          => gitCmd'[commits'[k].by].at \in {"move", "sync", "done"}
      BY <1>0, <2>1, <2>2, <2>3 DEF Building, CheckTyped
    <3> QED
      BY <3>1, <3>2, <3>3 DEF Building
  <2>8. OwnCommits'
    BY <1>0, <2>1, <2>6 DEF OwnCommits, CheckTyped, Commits!Tree
  <2>9. OwnIndex'
    <3> SUFFICES ASSUME NEW path \in Paths, index'[path] # staged'[path]
                 PROVE  \E d \in Commands : Commits!Landed(d)' /\ path \in gitCmd'[d].paths
      BY DEF OwnIndex
    <3>1. CASE path \in gitCmd[c].paths
      BY <2>6, <3>1
    <3>2. CASE path \notin gitCmd[c].paths
      <4>1. index'[path] = index[path]
        BY <1>10, <3>2 DEF Commits!Sync, Commits!Synced
      <4> QED
        BY <1>0, <2>1, <2>6, <4>1 DEF OwnIndex
    <3> QED
      BY <3>1, <3>2
  <2>10. Commits!CommitsKept'
    BY <1>0, <2>1, <2>6 DEF Commits!CommitsKept
  <2> QED
    BY <1>0, <2>5, <2>7, <2>8, <2>9, <2>10 DEF CheckInv, Commits!ConstantsFit, Commits!OwnPathsOnly,
       OwnCommits, OwnIndex
<1>11. CASE Commits!Merge
  <2>1. UNCHANGED <<commits, head, index, work, staged, gitCmd>> /\ merging' = TRUE
    BY <1>11 DEF Commits!Merge, Commits!User
  <2> QED
    BY <1>0, <2>1 DEF CheckInv, CheckTyped, Building, CheckFits, Commits!OwnPathsOnly, Commits!CommitsKept,
       Commits!Tree, Commits!Landed, Commits!ConstantsFit
<1>12. CASE UNCHANGED Commits!vars
  BY <1>0, <1>12 DEF Commits!vars, Commits!repository, CheckInv, CheckTyped, Building, CheckFits,
     Commits!OwnPathsOnly, Commits!CommitsKept, Commits!Tree, Commits!Landed, Commits!ConstantsFit
<1> QED
  BY <1>1, <1>2, <1>3, <1>4, <1>5, <1>6, <1>7, <1>8, <1>9, <1>10, <1>11, <1>12 DEF Commits!Next

\* Whatever the user and other commands stage and commit while a checkpoint is built, it changes its own paths, and those
\* that hooks changed, alone, and no commit is lost (commit_paths).
THEOREM CheckpointsStaySound == ASSUME Commits!ConstantsFit PROVE Commits!Spec => []Commits!CheckpointSound
<1>1. Commits!Init => CheckInv
  BY CheckInit
<1>2. CheckInv => Commits!CheckpointSound
  BY DEF CheckInv, Commits!CheckpointSound
<1> QED
  BY <1>1, <1>2, CheckStep, PTL DEF Commits!Spec

-----------------------------------------------------------------------------
(* Initialization (WorkspaceInit). *)

SetupPlaces == {"idle", "plan", "check", "own", "create", "config", "done", "conflict", "busy", "killed"}
Tags == Inits \cup {None, "foreign"}
TheInit ==
    [at : SetupPlaces, layout : Layouts \cup {Setup!Keep}, settings : Settings \cup {Setup!Keep},
     existing : Setup!Configs \cup {None},
     planned : Setup!Configs \cup {None}, id : Inits \cup {None}, missing : SUBSET Roles]

InitTyped ==
    /\ owner \in Setup!Owners \cup {None} /\ directory \in [Roles -> Tags] /\ storeFormat \in BOOLEAN
    /\ config \in Setup!Configs \cup {None} /\ inits \in [Inits -> TheInit] /\ meddled \in BOOLEAN
       /\ initActs \in Nat

\* What an init has planned is of the record and of the configuration that it read, which stays unless the
\* user changes it.
Plans(i) ==
    /\ inits[i].at \in {"plan", "check", "own", "create", "config"} => initLock = i
    /\ inits[i].at \in {"check", "own", "create", "config"} =>
         /\ inits[i].planned \in Setup!Configs /\ inits[i].id \in Inits
         /\ inits[i].existing = None <=> config = None
         /\ inits[i].existing # None => inits[i].existing.layout = inits[i].planned.layout
         /\ i \notin racing => config = inits[i].existing
         /\ owner # None => owner.id = inits[i].id /\ owner.layout = inits[i].planned.layout
    /\ inits[i].at \in {"create", "config"} => owner # None

\* With no user at work the directories are the workspace's, and what is missing is what init makes.
SetupWhole ==
    /\ owner = None => config = None /\ \A r \in Roles : directory[r] = None
    /\ owner # None => \A r \in Roles : directory[r] \in {None, owner.id}
    /\ config # None =>
         owner # None /\ owner.layout = config.layout /\ storeFormat /\ \A r \in Roles : directory[r] = owner.id
Follows(i) ==
    /\ inits[i].at \in {"own", "create"} => \A r \in Roles : r \in inits[i].missing <=> directory[r] = None
    /\ inits[i].at = "config" => storeFormat /\ \A r \in Roles : directory[r] = owner.id
    /\ inits[i].at = "conflict" => owner # None /\ inits[i].layout \notin {Setup!Keep, owner.layout}

SetupInv ==
    /\ Setup!ConstantsFit /\ InitTyped
    /\ \A i \in Inits : Plans(i)
    /\ ~ meddled => SetupWhole /\ \A i \in Inits : Follows(i)
LEMMA InitInit == Setup!Init /\ Setup!ConstantsFit => SetupInv
<1> SUFFICES ASSUME Setup!Init, Setup!ConstantsFit PROVE SetupInv
  OBVIOUS
<1>1. Setup!Idle \in TheInit /\ Setup!Idle.at = "idle"
  BY DEF Setup!Idle, TheInit, SetupPlaces
<1>2. InitTyped
  BY <1>1 DEF Setup!Init, InitTyped, Tags
<1>3. \A i \in Inits : Plans(i) /\ Follows(i)
  BY <1>1 DEF Setup!Init, Plans, Follows
<1>4. SetupWhole
  BY DEF Setup!Init, SetupWhole
<1> QED
  BY <1>2, <1>3, <1>4 DEF SetupInv

\* The init that ends had the lock, and no other is at work; it reports a conflict with nobody but itself.
LEMMA SetupEnded ==
    ASSUME SetupInv, NEW i \in Inits, NEW from \in {"plan", "check", "own", "create", "config"},
           NEW to \in {"done", "conflict", "killed"}, Setup!Ends(i, from, to),
           UNCHANGED <<owner, directory, storeFormat>>,
           config' \in Setup!Configs \cup {None},
           ~ meddled => SetupWhole',
           ~ meddled /\ to = "conflict" => owner # None /\ inits[i].layout \notin {Setup!Keep, owner.layout}
    PROVE  SetupInv'
<1>1. inits[i] \in TheInit /\ inits[i].at = from /\ Setup!Idle \in TheInit /\ to \in SetupPlaces
      /\ inits[i].layout \in Layouts \cup {Setup!Keep}
  BY DEF Setup!Ends, Setup!Becomes, SetupInv, InitTyped, Setup!Idle, TheInit, SetupPlaces
<1>2. inits' = [inits EXCEPT ![i] = [Setup!Idle EXCEPT !.at = to, !.layout = inits[i].layout]]
      /\ UNCHANGED <<meddled, initActs>>
  BY DEF Setup!Ends, Setup!Becomes
<1>3. [Setup!Idle EXCEPT !.at = to, !.layout = inits[i].layout] \in TheInit
      /\ [Setup!Idle EXCEPT !.at = to, !.layout = inits[i].layout].at = to
      /\ [Setup!Idle EXCEPT !.at = to, !.layout = inits[i].layout].layout = inits[i].layout
  BY <1>1 DEF TheInit
<1>4. inits' \in [Inits -> TheInit] /\ inits'[i].at = to /\ inits'[i].layout = inits[i].layout
      /\ \A j \in Inits \ {i} : inits'[j] = inits[j]
  BY <1>2, <1>3 DEF SetupInv, InitTyped
<1>5. \A j \in Inits \ {i} : inits[j].at \notin {"plan", "check", "own", "create", "config"}
  BY <1>1 DEF SetupInv, Plans
<1>6. InitTyped'
  BY <1>2, <1>4 DEF SetupInv, InitTyped
<1>7. \A j \in Inits : Plans(j)'
  BY <1>4, <1>5 DEF Plans
<1>8. ~ meddled => \A j \in Inits : Follows(j)'
  BY <1>4, <1>5 DEF SetupInv, Follows
<1> QED
  BY <1>2, <1>6, <1>7, <1>8 DEF SetupInv, Setup!ConstantsFit

\* The init that goes on is the only one at work.
LEMMA Continued ==
    ASSUME SetupInv, NEW i \in Inits, NEW from \in {"plan", "check", "own", "create", "config"}, NEW to \in TheInit,
           Setup!Continues(i, from, to)
    PROVE  /\ inits' \in [Inits -> TheInit] /\ inits'[i] = to /\ \A j \in Inits \ {i} : inits'[j] = inits[j]
           /\ \A j \in Inits \ {i} : inits[j].at \notin {"plan", "check", "own", "create", "config"}
           /\ UNCHANGED <<initLock, meddled, racing, initActs>>
BY DEF Setup!Continues, Setup!Becomes, SetupInv, InitTyped, Plans

LEMMA InitStep == SetupInv /\ [Setup!Next]_(Setup!vars) => SetupInv'
<1> SUFFICES ASSUME SetupInv, [Setup!Next]_(Setup!vars) PROVE SetupInv'
  OBVIOUS
<1>0. /\ Setup!ConstantsFit /\ InitTyped /\ Setup!Idle \in TheInit /\ Setup!Idle.at = "idle"
      /\ \A i \in Inits : Plans(i) /\ inits[i] \in TheInit /\ inits[i].at \in SetupPlaces
      /\ ~ meddled => SetupWhole /\ \A i \in Inits : Follows(i)
  BY DEF SetupInv, InitTyped, Setup!Idle, TheInit, SetupPlaces
<1>1. ASSUME NEW i \in Inits, NEW layout \in Layouts \cup {Setup!Keep}, NEW settings \in Settings \cup {Setup!Keep},
             Setup!Start(i, layout, settings)
      PROVE  SetupInv'
  <2>1. UNCHANGED <<owner, directory, storeFormat, config, meddled, racing, initActs>> /\ inits[i].at = "idle"
    BY <1>1 DEF Setup!Start, Setup!Becomes, Setup!disk
  <2>2. CASE initLock = None
    <3> DEFINE to == [Setup!Idle EXCEPT !.at = "plan", !.layout = layout, !.settings = settings]
    <3>1. to \in TheInit /\ to.at = "plan" /\ inits' = [inits EXCEPT ![i] = to] /\ initLock' = i
      BY <1>0, <1>1, <2>2 DEF Setup!Start, Setup!Becomes, TheInit, SetupPlaces
    <3> HIDE DEF to
    <3>2. inits' \in [Inits -> TheInit] /\ inits'[i] = to /\ \A j \in Inits \ {i} : inits'[j] = inits[j]
      BY <1>0, <3>1 DEF InitTyped
    <3>3. \A j \in Inits : inits[j].at \notin {"plan", "check", "own", "create", "config"}
      BY <1>0, <2>2 DEF Plans, Setup!ConstantsFit
    <3>4. InitTyped'
      BY <1>0, <2>1, <3>2 DEF InitTyped
    <3>5. \A j \in Inits : Plans(j)'
      BY <3>1, <3>2, <3>3 DEF Plans
    <3>6. ~ meddled => SetupWhole' /\ \A j \in Inits : Follows(j)'
      BY <1>0, <2>1, <3>1, <3>2, <3>3 DEF SetupWhole, Follows
    <3> QED
      BY <1>0, <2>1, <3>4, <3>5, <3>6 DEF SetupInv, Setup!ConstantsFit
  <2>3. CASE initLock # None
    <3> DEFINE to == [inits[i] EXCEPT !.at = "busy"]
    <3>1. to \in TheInit /\ to.at = "busy" /\ inits' = [inits EXCEPT ![i] = to] /\ initLock' = initLock
      BY <1>0, <1>1, <2>3 DEF Setup!Start, Setup!Becomes, Setup!Goto, TheInit, SetupPlaces
    <3> HIDE DEF to
    <3>2. inits' \in [Inits -> TheInit] /\ inits'[i] = to /\ \A j \in Inits \ {i} : inits'[j] = inits[j]
      BY <1>0, <3>1 DEF InitTyped
    <3>3. InitTyped'
      BY <1>0, <2>1, <3>2 DEF InitTyped
    <3>4. \A j \in Inits : Plans(j)'
      BY <1>0, <2>1, <3>1, <3>2 DEF Plans
    <3>5. ~ meddled => SetupWhole' /\ \A j \in Inits : Follows(j)'
      BY <1>0, <2>1, <3>1, <3>2 DEF SetupWhole, Follows
    <3> QED
      BY <1>0, <2>1, <3>3, <3>4, <3>5 DEF SetupInv, Setup!ConstantsFit
  <2> QED
    BY <2>2, <2>3
<1>2. ASSUME NEW i \in Inits, Setup!Plan(i) PROVE SetupInv'
  <2>1. UNCHANGED <<owner, directory, storeFormat, config>>
    BY <1>2 DEF Setup!Plan, Setup!disk
  <2>2. Setup!Planned(i) \in Setup!Configs
        /\ Setup!Planned(i).layout = (IF inits[i].layout # Setup!Keep THEN inits[i].layout ELSE Setup!Base.layout)
    <3>1. Setup!Base.layout \in Layouts /\ Setup!Base.settings \in Settings
      BY <1>0 DEF Setup!Base, InitTyped, Setup!ConstantsFit, Setup!Owners
    <3>2. config # None => config.settings \in Settings
      BY <1>0 DEF InitTyped, Setup!Configs
    <3>3. inits[i].layout \in Layouts \cup {Setup!Keep} /\ inits[i].settings \in Settings \cup {Setup!Keep}
      BY <1>0 DEF TheInit
    <3> QED
      BY <3>1, <3>2, <3>3 DEF Setup!Planned, Setup!Configs
  <2>3. CASE Setup!Foreign \/ Setup!Differs(i)
    <3>1. Setup!Ends(i, "plan", "conflict")
      BY <1>2, <2>3 DEF Setup!Plan
    <3>2. ~ meddled => SetupWhole'
      BY <1>0, <2>1 DEF SetupWhole
    <3>3. ~ meddled => owner # None /\ inits[i].layout \notin {Setup!Keep, owner.layout}
      <4> SUFFICES ASSUME ~ meddled PROVE owner # None /\ inits[i].layout \notin {Setup!Keep, owner.layout}
        OBVIOUS
      <4>1. ~ Setup!Foreign
        BY <1>0 DEF Setup!Foreign, SetupWhole
      <4>2. owner # None /\ Setup!Planned(i).layout # owner.layout /\ Setup!Base.layout = owner.layout
        BY <2>3, <4>1 DEF Setup!Differs, Setup!Base
      <4> QED
        BY <2>2, <4>2
    <3> QED
      BY <1>0, <2>1, <3>1, <3>2, <3>3, SetupEnded DEF InitTyped
  <2>4. CASE ~ (Setup!Foreign \/ Setup!Differs(i))
    <3> DEFINE to == [inits[i] EXCEPT !.at = "check", !.existing = config, !.planned = Setup!Planned(i),
                                     !.id = IF owner # None THEN owner.id ELSE i]
    <3>1. Setup!Continues(i, "plan", to)
      BY <1>2, <2>4 DEF Setup!Plan
    <3>2. (IF owner # None THEN owner.id ELSE i) \in Inits /\ config \in Setup!Configs \cup {None}
          /\ "check" \in SetupPlaces
      BY <1>0 DEF InitTyped, Setup!Owners, SetupPlaces
    <3>3. to \in TheInit /\ to.at = "check" /\ to.existing = config /\ to.planned = Setup!Planned(i)
          /\ to.id = IF owner # None THEN owner.id ELSE i
      BY <1>0, <2>2, <3>2 DEF TheInit
    <3> HIDE DEF to
    <3>4. /\ inits' \in [Inits -> TheInit] /\ inits'[i] = to /\ \A j \in Inits \ {i} : inits'[j] = inits[j]
          /\ \A j \in Inits \ {i} : inits[j].at \notin {"plan", "check", "own", "create", "config"}
          /\ UNCHANGED <<initLock, meddled, racing, initActs>>
      BY <3>1, <3>3, Continued
    <3>5. config # None => config.layout = owner.layout /\ owner # None
      BY <2>4 DEF Setup!Foreign
    <3>6. owner # None => Setup!Planned(i).layout = owner.layout
      BY <2>4 DEF Setup!Differs
    <3>7. initLock = i
      BY <1>0, <3>1 DEF Setup!Continues, Setup!Becomes, Plans
    <3>8. InitTyped'
      BY <1>0, <2>1, <3>4 DEF InitTyped
    <3>9. \A j \in Inits : Plans(j)'
      BY <1>0, <2>1, <2>2, <3>2, <3>3, <3>4, <3>5, <3>6, <3>7 DEF Plans
    <3>10. ~ meddled => SetupWhole' /\ \A j \in Inits : Follows(j)'
      BY <1>0, <2>1, <3>3, <3>4 DEF SetupWhole, Follows
    <3> QED
      BY <1>0, <3>4, <3>8, <3>9, <3>10 DEF SetupInv, Setup!ConstantsFit
  <2> QED
    BY <2>3, <2>4
<1>3. ASSUME NEW i \in Inits, Setup!Check(i) PROVE SetupInv'
  <2>1. UNCHANGED <<owner, directory, storeFormat, config>> /\ inits[i].at = "check"
    BY <1>3 DEF Setup!Check, Setup!disk, Setup!Ends, Setup!Continues, Setup!Becomes
  <2>2. CASE \E r \in Roles : directory[r] \notin {None, inits[i].id}
    <3>1. Setup!Ends(i, "check", "conflict")
      BY <1>3, <2>2 DEF Setup!Check
    <3>2. ~ meddled => SetupWhole'
      BY <1>0, <2>1 DEF SetupWhole
    <3>3. meddled
      BY <1>0, <2>1, <2>2 DEF SetupWhole, Plans
    <3> QED
      BY <1>0, <2>1, <3>1, <3>2, <3>3, SetupEnded DEF InitTyped
  <2>3. CASE ~ \E r \in Roles : directory[r] \notin {None, inits[i].id}
    <3> DEFINE to == [inits[i] EXCEPT !.at = "own", !.missing = {r \in Roles : directory[r] = None}]
    <3>1. Setup!Continues(i, "check", to)
      BY <1>3, <2>3 DEF Setup!Check
    <3>2. to \in TheInit /\ to.at = "own" /\ to.existing = inits[i].existing /\ to.planned = inits[i].planned
          /\ to.id = inits[i].id /\ to.missing = {r \in Roles : directory[r] = None}
      BY <1>0 DEF TheInit, SetupPlaces
    <3> HIDE DEF to
    <3>3. /\ inits' \in [Inits -> TheInit] /\ inits'[i] = to /\ \A j \in Inits \ {i} : inits'[j] = inits[j]
          /\ \A j \in Inits \ {i} : inits[j].at \notin {"plan", "check", "own", "create", "config"}
          /\ UNCHANGED <<initLock, meddled, racing, initActs>>
      BY <3>1, <3>2, Continued
    <3>4. InitTyped'
      BY <1>0, <2>1, <3>3 DEF InitTyped
    <3>5. \A j \in Inits : Plans(j)'
      BY <1>0, <2>1, <3>2, <3>3 DEF Plans
    <3>6. ~ meddled => SetupWhole' /\ \A j \in Inits : Follows(j)'
      BY <1>0, <2>1, <3>2, <3>3 DEF SetupWhole, Follows
    <3> QED
      BY <1>0, <3>3, <3>4, <3>5, <3>6 DEF SetupInv, Setup!ConstantsFit
  <2> QED
    BY <2>2, <2>3
<1>4. ASSUME NEW i \in Inits, Setup!WriteOwner(i) PROVE SetupInv'
  <2> DEFINE to == [inits[i] EXCEPT !.at = "create"]
  <2>1. UNCHANGED <<directory, storeFormat, config>> /\ inits[i].at = "own" /\ Setup!Continues(i, "own", to)
        /\ owner' = Setup!Record(i)
    BY <1>4 DEF Setup!WriteOwner, Setup!Continues, Setup!Becomes, Setup!Goto
  <2>2. to \in TheInit /\ to.at = "create" /\ to.existing = inits[i].existing /\ to.planned = inits[i].planned
        /\ to.id = inits[i].id /\ to.missing = inits[i].missing
    BY <1>0 DEF TheInit, SetupPlaces
  <2> HIDE DEF to
  <2>3. /\ inits' \in [Inits -> TheInit] /\ inits'[i] = to /\ \A j \in Inits \ {i} : inits'[j] = inits[j]
        /\ \A j \in Inits \ {i} : inits[j].at \notin {"plan", "check", "own", "create", "config"}
        /\ UNCHANGED <<initLock, meddled, racing, initActs>>
    BY <2>1, <2>2, Continued
  <2>4. inits[i].planned \in Setup!Configs /\ inits[i].id \in Inits
        /\ (owner # None => owner.id = inits[i].id /\ owner.layout = inits[i].planned.layout)
    BY <1>0, <2>1 DEF Plans
  <2>5. owner' \in Setup!Owners /\ owner' # None /\ owner'.id = inits[i].id
        /\ owner'.layout = inits[i].planned.layout
    BY <1>0, <2>1, <2>4 DEF Setup!Record, Setup!Owners, Setup!Configs, Setup!ConstantsFit
  <2>6. InitTyped'
    BY <1>0, <2>1, <2>3, <2>5 DEF InitTyped
  <2>7. \A j \in Inits : Plans(j)'
    BY <1>0, <2>1, <2>2, <2>3, <2>5 DEF Plans
  <2>8. ~ meddled => SetupWhole'
    BY <1>0, <2>1, <2>4, <2>5 DEF SetupWhole
  <2>9. ~ meddled => \A j \in Inits : Follows(j)'
    BY <1>0, <2>1, <2>2, <2>3, <2>4, <2>5 DEF Follows
  <2> QED
    BY <1>0, <2>3, <2>6, <2>7, <2>8, <2>9 DEF SetupInv, Setup!ConstantsFit
<1>5. ASSUME NEW i \in Inits, NEW r \in Roles, Setup!Create(i, r) PROVE SetupInv'
  <2>1. UNCHANGED <<owner, storeFormat, config>> /\ r \in inits[i].missing /\ inits[i].at = "create"
    BY <1>5 DEF Setup!Create, Setup!Ends, Setup!Continues, Setup!Becomes
  <2>2. owner # None /\ owner.id = inits[i].id /\ inits[i].id \in Inits
    BY <1>0, <2>1 DEF Plans
  <2>3. CASE ~ Setup!Vacant(i, r)
    <3>1. Setup!Ends(i, "create", "conflict") /\ UNCHANGED directory
      BY <1>5, <2>3 DEF Setup!Create
    <3>2. ~ meddled => SetupWhole'
      BY <1>0, <2>1, <3>1 DEF SetupWhole
    <3>3. meddled
      BY <1>0, <2>1, <2>3 DEF Follows, Setup!Vacant
    <3> QED
      BY <1>0, <2>1, <3>1, <3>2, <3>3, SetupEnded DEF InitTyped
  <2>4. CASE Setup!Vacant(i, r)
    <3> DEFINE to == [inits[i] EXCEPT !.missing = @ \ {r}]
    <3>1. Setup!Continues(i, "create", to) /\ directory' = [directory EXCEPT ![r] = inits[i].id]
      BY <1>5, <2>4 DEF Setup!Create
    <3>2. to \in TheInit /\ to.at = "create" /\ to.existing = inits[i].existing /\ to.planned = inits[i].planned
          /\ to.id = inits[i].id /\ to.missing = inits[i].missing \ {r}
      BY <1>0, <2>1 DEF TheInit
    <3> HIDE DEF to
    <3>3. /\ inits' \in [Inits -> TheInit] /\ inits'[i] = to /\ \A j \in Inits \ {i} : inits'[j] = inits[j]
          /\ \A j \in Inits \ {i} : inits[j].at \notin {"plan", "check", "own", "create", "config"}
          /\ UNCHANGED <<initLock, meddled, racing, initActs>>
      BY <3>1, <3>2, Continued
    <3>4. directory' \in [Roles -> Tags] /\ directory'[r] = owner.id /\ owner.id # None
          /\ \A q \in Roles \ {r} : directory'[q] = directory[q]
      BY <1>0, <2>2, <3>1 DEF InitTyped, Tags, Setup!ConstantsFit
    <3>5. InitTyped'
      BY <1>0, <2>1, <3>3, <3>4 DEF InitTyped
    <3>6. \A j \in Inits : Plans(j)'
      BY <1>0, <2>1, <3>2, <3>3 DEF Plans
    <3>7. ~ meddled => SetupWhole'
      BY <1>0, <2>1, <2>2, <3>4 DEF SetupWhole
    <3>8. ~ meddled => \A j \in Inits : Follows(j)'
      BY <1>0, <2>1, <3>2, <3>3, <3>4 DEF Follows
    <3> QED
      BY <1>0, <3>3, <3>5, <3>6, <3>7, <3>8 DEF SetupInv, Setup!ConstantsFit
  <2> QED
    BY <2>3, <2>4
<1>6. ASSUME NEW i \in Inits, Setup!EnsureFormat(i) PROVE SetupInv'
  <2> DEFINE to == [inits[i] EXCEPT !.at = "config"]
  <2>1. UNCHANGED <<owner, config>> /\ inits[i].at = "create" /\ Setup!Continues(i, "create", to)
        /\ inits[i].missing = {} /\ storeFormat' = TRUE
        /\ directory' = [directory EXCEPT !["store"] =
                            IF directory["store"] = None THEN "foreign" ELSE directory["store"]]
    BY <1>6 DEF Setup!EnsureFormat, Setup!Continues, Setup!Becomes, Setup!Goto, Setup!Complete
  <2>2. to \in TheInit /\ to.at = "config" /\ to.existing = inits[i].existing /\ to.planned = inits[i].planned
        /\ to.id = inits[i].id
    BY <1>0 DEF TheInit, SetupPlaces
  <2> HIDE DEF to
  <2>3. /\ inits' \in [Inits -> TheInit] /\ inits'[i] = to /\ \A j \in Inits \ {i} : inits'[j] = inits[j]
        /\ \A j \in Inits \ {i} : inits[j].at \notin {"plan", "check", "own", "create", "config"}
        /\ UNCHANGED <<initLock, meddled, racing, initActs>>
    BY <2>1, <2>2, Continued
  <2>4. directory' \in [Roles -> Tags] /\ "store" \in Roles
    BY <1>0, <2>1 DEF InitTyped, Tags, Setup!ConstantsFit
  <2>5. InitTyped'
    BY <1>0, <2>1, <2>3, <2>4 DEF InitTyped
  <2>6. \A j \in Inits : Plans(j)'
    BY <1>0, <2>1, <2>2, <2>3 DEF Plans
  <2>7. ~ meddled => \A r \in Roles : directory'[r] = directory[r] /\ directory[r] = owner.id /\ owner # None
    BY <1>0, <2>1, <2>4 DEF Follows, SetupWhole, Plans, InitTyped
  <2>8. ~ meddled => SetupWhole'
    BY <1>0, <2>1, <2>7 DEF SetupWhole
  <2>9. ~ meddled => \A j \in Inits : Follows(j)'
    BY <1>0, <2>1, <2>2, <2>3, <2>7 DEF Follows
  <2> QED
    BY <1>0, <2>3, <2>5, <2>6, <2>8, <2>9 DEF SetupInv, Setup!ConstantsFit
<1>7. ASSUME NEW i \in Inits, Setup!WriteConfig(i) PROVE SetupInv'
  <2>1. UNCHANGED <<owner, directory, storeFormat>> /\ inits[i].at = "config"
    BY <1>7 DEF Setup!WriteConfig, Setup!Ends, Setup!Becomes
  <2>2. /\ inits[i].planned \in Setup!Configs /\ (inits[i].existing = None <=> config = None)
        /\ owner # None /\ owner.id = inits[i].id /\ owner.layout = inits[i].planned.layout
    BY <1>0, <2>1 DEF Plans
  <2>3. Setup!Ends(i, "config", "done")
        /\ config' = IF inits[i].existing = inits[i].planned THEN config ELSE inits[i].planned
    BY <1>7, <2>2 DEF Setup!WriteConfig
  <2>4. config' \in Setup!Configs \cup {None}
    BY <1>0, <2>2, <2>3 DEF InitTyped
  <2>5. ~ meddled => SetupWhole'
    BY <1>0, <2>1, <2>2, <2>3 DEF SetupWhole, Follows
  <2> QED
    BY <2>1, <2>3, <2>4, <2>5, SetupEnded
<1>8. ASSUME NEW i \in Inits, Setup!Kill(i) PROVE SetupInv'
  <2>1. UNCHANGED <<owner, directory, storeFormat, config>> /\ Setup!Ends(i, inits[i].at, "killed")
        /\ i \in Setup!Running
    BY <1>8 DEF Setup!Kill, Setup!disk
  <2>2. inits[i].at \in {"plan", "check", "own", "create", "config"}
    BY <1>0, <2>1 DEF Setup!Running, SetupPlaces
  <2>3. PICK from \in {"plan", "check", "own", "create", "config"} : from = inits[i].at
    BY <2>2
  <2>4. ~ meddled => SetupWhole'
    BY <1>0, <2>1 DEF SetupWhole
  <2> QED
    BY <1>0, <2>1, <2>3, <2>4, SetupEnded DEF InitTyped
\* The user's steps count in racing for whatever init is at work.
<1>9. ASSUME NEW layout \in Layouts, NEW settings \in Settings, Setup!EditConfig(layout, settings)
      PROVE  SetupInv'
  <2>1. /\ UNCHANGED <<owner, directory, storeFormat, initLock, inits>> /\ config # None
        /\ initActs' = initActs + 1
        /\ config' = [layout |-> layout, settings |-> settings] /\ racing' = racing \cup Setup!Running
        /\ meddled' = (meddled \/ layout # config.layout)
    BY <1>9 DEF Setup!EditConfig, Setup!User
  <2>2. config' \in Setup!Configs /\ config' # None /\ config'.layout = layout
    BY <1>0, <2>1 DEF Setup!Configs, Setup!ConstantsFit
  <2>3. InitTyped'
    BY <1>0, <2>1, <2>2 DEF InitTyped
  <2>4. \A i \in Inits : Plans(i)'
    BY <1>0, <2>1, <2>2 DEF Plans, Setup!Running
  <2>5. ~ meddled' => SetupWhole' /\ \A i \in Inits : Follows(i)'
    BY <1>0, <2>1, <2>2 DEF SetupWhole, Follows, InitTyped
  <2> QED
    BY <1>0, <2>3, <2>4, <2>5 DEF SetupInv, Setup!ConstantsFit
<1>10. ASSUME NEW r \in Roles, Setup!MakeDirectory(r) \/ Setup!RemoveDirectory(r) PROVE SetupInv'
  <2>1. /\ UNCHANGED <<owner, config, initLock, inits>> /\ meddled' = TRUE /\ initActs' = initActs + 1
        /\ racing' = racing \cup Setup!Running
        /\ directory' \in [Roles -> Tags] /\ storeFormat' \in BOOLEAN
    BY <1>0, <1>10 DEF Setup!MakeDirectory, Setup!RemoveDirectory, Setup!User, InitTyped, Tags
  <2>2. InitTyped'
    BY <1>0, <2>1 DEF InitTyped
  <2>3. \A i \in Inits : Plans(i)'
    BY <1>0, <2>1 DEF Plans, Setup!Running
  <2> QED
    BY <1>0, <2>1, <2>2, <2>3 DEF SetupInv, Setup!ConstantsFit
<1>11. CASE UNCHANGED Setup!vars
  BY <1>0, <1>11 DEF Setup!vars, Setup!disk, SetupInv, InitTyped, Plans, SetupWhole, Follows,
     Setup!ConstantsFit
<1> QED
  BY <1>1, <1>2, <1>3, <1>4, <1>5, <1>6, <1>7, <1>8, <1>9, <1>10, <1>11 DEF Setup!Next

\* A workspace that has its configuration is whole, and an init that finds what a killed one left goes on from it
\* (initialize_workspace).
THEOREM WorkspacesStayWhole == ASSUME Setup!ConstantsFit PROVE Setup!Spec => []Setup!WholeAndResumable
<1>1. Setup!Init => SetupInv
  BY InitInit
<1>2. SetupInv => Setup!WholeAndResumable
  BY DEF SetupInv, Setup!WholeAndResumable, SetupWhole, Follows
<1> QED
  BY <1>1, <1>2, InitStep, PTL DEF Setup!Spec

\* No init writes over a directory that is not the workspace's, or over a configuration whose layout was edited before
\* it began (initialize_workspace).
THEOREM ForeignStaysForeign == ASSUME Setup!ConstantsFit PROVE Setup!Spec => Setup!ForeignKept
<1>1. SetupInv /\ [Setup!Next]_(Setup!vars) => [Setup!ForeignStep]_(Setup!vars)
  <2> SUFFICES ASSUME SetupInv, Setup!Next PROVE Setup!ForeignStep
    OBVIOUS
  <2>1. (\E layout \in Layouts, settings \in Settings : Setup!EditConfig(layout, settings))
          \/ (\E r \in Roles : Setup!MakeDirectory(r) \/ Setup!RemoveDirectory(r)) => initActs' # initActs
    BY DEF Setup!EditConfig, Setup!MakeDirectory, Setup!RemoveDirectory, Setup!User, SetupInv, InitTyped
  <2>2. ASSUME NEW r \in Roles, directory[r] = "foreign", initActs' = initActs PROVE directory'[r] = "foreign"
    BY <2>1, <2>2 DEF Setup!Next, Setup!Start, Setup!Plan, Setup!Check, Setup!WriteOwner, Setup!Create,
       Setup!Vacant, Setup!EnsureFormat, Setup!WriteConfig, Setup!Kill, Setup!disk, SetupInv, InitTyped,
       Setup!ConstantsFit
  <2>3. ASSUME config # None, config' # config, initActs' = initActs
        PROVE  config.layout = owner.layout \/ racing # {}
    <3>1. PICK i \in Inits : Setup!WriteConfig(i)
      BY <2>1, <2>3 DEF Setup!Next, Setup!Start, Setup!Plan, Setup!Check, Setup!WriteOwner, Setup!Create,
         Setup!EnsureFormat, Setup!Kill, Setup!disk
    <3>2. inits[i].at = "config"
      BY <3>1 DEF Setup!WriteConfig, Setup!Ends, Setup!Becomes
    <3> QED
      BY <2>3, <3>2 DEF SetupInv, Plans
  <2> QED
    BY <2>2, <2>3 DEF Setup!ForeignStep
<1>2. Setup!Init => SetupInv
  BY InitInit
<1>9. Setup!Spec => [][Setup!ForeignStep]_(Setup!vars)
  BY <1>1, <1>2, InitStep, PTL DEF Setup!Spec
<1> QED BY <1>9 DEF Setup!ForeignKept

-----------------------------------------------------------------------------
(* Skill files (SkillFiles). *)

Working == {"check", "next", "skill", "manifest", "unlink", "rmdir"}
SkillPlaces == Working \cup {"idle", "busy", "conflict", "failed", "done", "killed"}
Listed == SUBSET Skills
SkillChosen == Skills \cup {Skilled!NoOne}
SkillTheCommand == [at : SkillPlaces, action : {"none", "install", "update", "uninstall"}, present : Listed,
                    todo : Listed, name : SkillChosen]

SkillsTyped == skillCmd \in [Commands -> SkillTheCommand] /\ skillActs \in Nat

\* A directory that is not there has no files.
Absent == \A n \in Skills \ present : skill[n] = Skilled!NoVersion /\ manifest[n] = Skilled!NoVersion
FilesFit == present \subseteq Skills /\ DOMAIN skill = Skills /\ DOMAIN manifest = Skills /\ Absent

\* A command at work has the folder to itself.
Alone == \A c \in Skilled!Running : skillLock = c

\* It is at a name, and writes in a directory that it has found or made.
Placed(s, there) ==
    /\ s.at \in {"skill", "manifest"} => s.name \in there
    /\ s.at \in {"unlink", "rmdir"} => s.name \in Skills
AllPlaced == \A c \in Skilled!Running : Placed(skillCmd[c], present)

\* What a command whose work no user has crossed knows of the names that it has yet to come to, and of the one it
\* is at.
Vouched(n, text, vouch) == vouch[n] \in Versions /\ text[n] = vouch[n]
SkillRest(s) == IF s.at \in {"skill", "manifest", "unlink", "rmdir"} THEN s.todo \ {s.name} ELSE s.todo
Reviewed(s, there, text, vouch) ==
    /\ s.at = "check" => s.present = there
    /\ s.at \in {"next", "skill", "manifest", "unlink", "rmdir"} =>
         \A n \in SkillRest(s) :
           /\ n \in s.present \/ s.action = "uninstall" => Vouched(n, text, vouch)
           /\ n \notin s.present => n \notin there
    /\ s.at = "skill"
       => Vouched(s.name, text, vouch) \/ (text[s.name] = Skilled!NoVersion /\ vouch[s.name] = Skilled!NoVersion)
    /\ s.at = "unlink" => Vouched(s.name, text, vouch)

AllReviewed == \A c \in Skilled!Running \ skillRacing : Reviewed(skillCmd[c], present, skill, manifest)

SkillInv == Skilled!ConstantsFit /\ SkillsTyped /\ FilesFit /\ Alone /\ AllPlaced /\ AllReviewed

-----------------------------------------------------------------------------
\* A command goes on, alone; it may end.
LEMMA SkillMoves ==
    ASSUME SkillInv, NEW c \in Commands, NEW s \in SkillTheCommand, skillCmd' = [skillCmd EXCEPT ![c] = s],
           skillActs' = skillActs,
           skillLock \in {c, Skilled!NoOne}, s.at \in Working => skillLock' = c,
           skillLock' = skillLock \/ skillLock = c \/ (skillLock = Skilled!NoOne
              /\ skillLock' = c), skillRacing \subseteq skillRacing' \cup {c},
           FilesFit', Placed(s, present'),
           s.at \in Working /\ c \notin skillRacing' => Reviewed(s, present', skill', manifest')
    PROVE  SkillInv'
<1>1. SkillsTyped' BY DEF SkillInv, SkillsTyped
<1>2. \A d \in Commands \ {c} : skillCmd'[d] = skillCmd[d] /\ skillCmd[d].at \notin Working
  <2> SUFFICES ASSUME NEW d \in Commands \ {c} PROVE skillCmd'[d] = skillCmd[d] /\ skillCmd[d].at \notin Working OBVIOUS
  <2>1. skillCmd'[d] = skillCmd[d] BY DEF SkillInv, SkillsTyped
  <2>2. d \in Skilled!Running => skillLock = d BY DEF SkillInv, Alone
  <2> QED BY <2>1, <2>2 DEF Skilled!Running, Working, SkillInv, Skilled!ConstantsFit
<1>3. skillCmd'[c] = s BY DEF SkillInv, SkillsTyped
<1>4. Skilled!Running' \subseteq {c} /\ (c \in Skilled!Running' => s.at \in Working)
  BY <1>2, <1>3 DEF Skilled!Running, Working
<1>5. Alone' BY <1>4 DEF Alone
<1>6. AllReviewed' /\ AllPlaced' BY <1>3, <1>4 DEF AllReviewed, AllPlaced
<1> QED BY <1>1, <1>5, <1>6 DEF SkillInv, Skilled!ConstantsFit

LEMMA SkillBegins == ASSUME Skilled!ConstantsFit, Skilled!Init PROVE SkillInv
<1>1. Skilled!Idle \in SkillTheCommand /\ Skilled!Idle.at = "idle"
  <2>1. "idle" \in SkillPlaces /\ {} \in Listed /\ Skilled!NoOne \in SkillChosen
    BY DEF SkillPlaces, Listed, SkillChosen
  <2> QED BY <2>1 DEF Skilled!Idle, SkillTheCommand
<1>2. SkillsTyped BY <1>1 DEF Skilled!Init, SkillsTyped
<1>3. FilesFit BY DEF Skilled!Init, Absent, FilesFit
<1>4. Skilled!Running = {} BY <1>1 DEF Skilled!Running, Skilled!Init
<1>5. Alone /\ AllReviewed /\ AllPlaced BY <1>4 DEF Alone, AllReviewed, AllPlaced
<1> QED BY <1>2, <1>3, <1>5 DEF SkillInv

LEMMA Stays == ASSUME SkillInv, UNCHANGED Skilled!vars PROVE SkillInv'
<1> USE DEF Skilled!vars, Skilled!disk
<1>1. SkillsTyped' /\ FilesFit' /\ Skilled!ConstantsFit'
  BY DEF SkillInv, SkillsTyped, FilesFit, Absent, Skilled!ConstantsFit
<1>2. Skilled!Running' = Skilled!Running BY DEF Skilled!Running
<1>3. Alone' BY <1>2 DEF SkillInv, Alone
<1>5. AllReviewed' /\ AllPlaced' BY <1>2 DEF SkillInv, AllReviewed, AllPlaced
<1> QED BY <1>1, <1>3, <1>5 DEF SkillInv

\* What a user does while a command is at work is not the command's.
LEMMA SkillUserKeeps ==
    ASSUME SkillInv, Skilled!Upgrade \/ \E n \in Skills : Skilled!EditSkill(n) \/ Skilled!EditManifest(n)
    PROVE  SkillInv'
<1>1. UNCHANGED <<skillLock, skillCmd>> /\ skillRacing' = skillRacing \cup Skilled!Running
  BY DEF Skilled!Upgrade, Skilled!EditSkill, Skilled!EditManifest, Skilled!User
<1>2. Skilled!Running' = Skilled!Running BY <1>1 DEF Skilled!Running
<1>3. Alone' /\ AllReviewed' BY <1>1, <1>2 DEF SkillInv, Alone, AllReviewed
<1>4. FilesFit'
  <2>1. CASE Skilled!Upgrade BY <2>1 DEF Skilled!Upgrade, Skilled!disk, SkillInv, FilesFit, Absent
  <2>2. ASSUME NEW n \in Skills, Skilled!EditSkill(n) PROVE FilesFit'
    BY <2>2 DEF Skilled!EditSkill, SkillInv, FilesFit, Absent
  <2>3. ASSUME NEW n \in Skills, Skilled!EditManifest(n) PROVE FilesFit'
    BY <2>3 DEF Skilled!EditManifest, SkillInv, FilesFit, Absent
  <2> QED BY <2>1, <2>2, <2>3
<1>5. AllPlaced'
  <2>1. present \subseteq present' BY DEF Skilled!Upgrade, Skilled!EditSkill, Skilled!EditManifest,
                                      Skilled!disk
  <2>2. \A c \in Skilled!Running : skillCmd'[c] = skillCmd[c] /\ Placed(skillCmd[c], present)
    BY <1>1 DEF SkillInv, AllPlaced
  <2>3. \A c \in Skilled!Running : Placed(skillCmd[c], present') BY <2>1, <2>2 DEF Placed
  <2> QED BY <1>2, <2>2, <2>3 DEF AllPlaced
<1>6. skillActs' = skillActs + 1 BY DEF Skilled!Upgrade, Skilled!EditSkill, Skilled!EditManifest, Skilled!User
<1> QED BY <1>1, <1>3, <1>4, <1>5, <1>6 DEF SkillInv, Skilled!ConstantsFit, SkillsTyped

LEMMA StartKeeps ==
    ASSUME SkillInv, NEW c \in Commands, NEW action \in {"install", "update", "uninstall"},
           NEW names \in SUBSET Skills,
           Skilled!Start(c, action, names)
    PROVE  SkillInv'
<1>1. UNCHANGED <<skill, manifest, present>> BY DEF Skilled!Start, Skilled!disk
<1>2. FilesFit' BY <1>1 DEF SkillInv, FilesFit, Absent
<1>3. CASE skillLock = Skilled!NoOne
  <2> DEFINE s == [Skilled!Idle EXCEPT !.at = "check", !.action = action, !.present = present, !.todo = names]
  <2>1. "check" \in SkillPlaces /\ present \in Listed /\ names \in Listed /\ Skilled!NoOne \in SkillChosen
    BY DEF SkillPlaces, Working, Listed, SkillChosen, SkillInv, FilesFit
  <2>2. s \in SkillTheCommand /\ s.at = "check" /\ s.present = present BY <2>1 DEF SkillTheCommand,
     Skilled!Idle
  <2>3. skillCmd' = [skillCmd EXCEPT ![c] = s] /\ skillLock' = c /\ skillRacing' = skillRacing
        /\ skillActs' = skillActs
    BY <1>3 DEF Skilled!Start, Skilled!Becomes
  <2> HIDE DEF s
  <2>4. Reviewed(s, present', skill', manifest') /\ Placed(s, present') BY <2>2, <1>1 DEF Reviewed, Placed
  <2> QED BY SkillMoves, <1>2, <1>3, <2>2, <2>3, <2>4
<1>4. CASE skillLock # Skilled!NoOne
  <2> DEFINE s == [skillCmd[c] EXCEPT !.at = "busy"]
  <2>1. skillCmd[c] \in SkillTheCommand /\ skillCmd[c].at = "idle" /\ skillCmd' = [skillCmd EXCEPT ![c] = s]
        /\ UNCHANGED <<skillLock, skillRacing, skillActs>>
    BY <1>4 DEF Skilled!Start, Skilled!Becomes, Skilled!Goto, SkillInv, SkillsTyped
  <2>2. "busy" \in SkillPlaces BY DEF SkillPlaces
  <2>3. s \in SkillTheCommand /\ s.at = "busy" BY <2>1, <2>2 DEF SkillTheCommand
  <2> HIDE DEF s
  <2>4. SkillsTyped' BY <2>1, <2>3, <1>1 DEF SkillInv, SkillsTyped
  <2>5. Skilled!Running' = Skilled!Running BY <2>1, <2>3 DEF Skilled!Running, SkillInv, SkillsTyped
  <2>6. \A d \in Skilled!Running : skillCmd'[d] = skillCmd[d] BY <2>1 DEF Skilled!Running, SkillInv,
     SkillsTyped
  <2>8. Alone' /\ AllReviewed' /\ AllPlaced'
    BY <1>1, <2>1, <2>5, <2>6 DEF SkillInv, Alone, AllReviewed, AllPlaced
  <2> QED BY <1>2, <2>4, <2>8 DEF SkillInv, Skilled!ConstantsFit
<1> QED BY <1>3, <1>4

\* A command at work ends, and leaves the files.
LEMMA SkillEndKeeps ==
    ASSUME SkillInv, NEW c \in Skilled!Running, NEW place \in {"conflict", "failed", "done", "killed"},
           Skilled!Ends(c, skillCmd[c].at, place), FilesFit'
    PROVE  SkillInv'
<1> DEFINE s == [Skilled!Idle EXCEPT !.at = place]
<1>1. place \in SkillPlaces /\ {} \in Listed /\ Skilled!NoOne \in SkillChosen BY DEF SkillPlaces, Listed,
   SkillChosen
<1>2. s \in SkillTheCommand /\ s.at = place BY <1>1 DEF SkillTheCommand, Skilled!Idle
<1>3. skillCmd' = [skillCmd EXCEPT ![c] = s] /\ skillLock' = Skilled!NoOne /\ skillRacing' = skillRacing \ {c}
      /\ skillActs' = skillActs
  BY DEF Skilled!Ends, Skilled!Becomes
<1> HIDE DEF s
<1>4. skillLock = c /\ c \in Commands BY DEF SkillInv, Alone, Skilled!Running
<1>5. s.at \notin Working /\ Placed(s, present') BY <1>2 DEF Working, Placed
<1> QED BY SkillMoves, <1>2, <1>3, <1>4, <1>5

LEMMA SkillCheckKeeps == ASSUME SkillInv, NEW c \in Commands, Skilled!Check(c) PROVE SkillInv'
<1>1. UNCHANGED <<skill, manifest, present>> BY DEF Skilled!Check, Skilled!disk
<1>2. FilesFit' BY <1>1 DEF SkillInv, FilesFit, Absent
<1>3. skillCmd[c].at = "check" /\ skillCmd[c] \in SkillTheCommand
  BY DEF Skilled!Check, Skilled!Ends, Skilled!Continues, Skilled!Becomes, SkillInv, SkillsTyped
<1>4. c \in Skilled!Running /\ skillLock = c BY <1>3 DEF Skilled!Running, SkillInv, Alone
<1>5. CASE Skilled!Refused(c) # {} BY <1>2, <1>3, <1>4, <1>5, SkillEndKeeps DEF Skilled!Check
<1>6. CASE Skilled!Refused(c) = {}
  <2> DEFINE todo == IF skillCmd[c].action = "install" THEN skillCmd[c].todo \ skillCmd[c].present ELSE skillCmd[c].todo
             s == [skillCmd[c] EXCEPT !.at = "next", !.todo = todo]
  <2>1. skillCmd' = [skillCmd EXCEPT ![c] = s] /\ UNCHANGED <<skillLock, skillRacing, skillActs>>
    BY <1>3, <1>6 DEF Skilled!Check, Skilled!Continues, Skilled!Becomes
  <2>2. todo \in Listed /\ "next" \in SkillPlaces BY <1>3 DEF SkillTheCommand, Listed, SkillPlaces, Working
  <2>3. s \in SkillTheCommand /\ s.at = "next" /\ s.todo = todo /\ s.present = skillCmd[c].present
        /\ s.action = skillCmd[c].action
    BY <1>3, <2>2 DEF SkillTheCommand
  <2> HIDE DEF s
  <2>4. ASSUME c \notin skillRacing PROVE Reviewed(s, present', skill', manifest')
    <3>1. skillCmd[c].present = present BY <2>4, <1>3, <1>4 DEF SkillInv, AllReviewed, Reviewed
    <3>2. \A n \in todo : n \in s.present \/ s.action = "uninstall" => Vouched(n, skill, manifest)
      BY <1>6, <2>3 DEF Skilled!Refused, Skilled!Owned, Vouched
    <3>3. SkillRest(s) = todo BY <2>3 DEF SkillRest
    <3> QED BY <1>1, <2>3, <3>1, <3>2, <3>3 DEF Reviewed, Vouched
  <2>5. Placed(s, present') BY <2>3 DEF Placed
  <2> QED BY SkillMoves, <1>2, <1>4, <2>1, <2>3, <2>4, <2>5
<1> QED BY <1>5, <1>6

LEMMA SelectKeeps ==
    ASSUME SkillInv, NEW c \in Commands, NEW n \in Skills, Skilled!Select(c, n)
    PROVE  SkillInv'
<1>1. skillCmd[c].at = "next" /\ skillCmd[c] \in SkillTheCommand /\ n \in skillCmd[c].todo
  BY DEF Skilled!Select, Skilled!Ends, Skilled!Continues, Skilled!Becomes, SkillInv, SkillsTyped
<1>2. c \in Skilled!Running /\ skillLock = c BY <1>1 DEF Skilled!Running, SkillInv, Alone
<1>3. UNCHANGED <<skill, manifest>> /\ present \subseteq present' /\ present' \subseteq present \cup {n}
  BY DEF Skilled!Select, Skilled!disk
<1>4. FilesFit' BY <1>3 DEF SkillInv, FilesFit, Absent
<1>5. c \notin skillRacing => Reviewed(skillCmd[c], present, skill, manifest) BY <1>2 DEF SkillInv,
   AllReviewed
<1>6. SkillRest(skillCmd[c]) = skillCmd[c].todo BY <1>1 DEF SkillRest
<1>7. n \in SkillChosen BY DEF SkillChosen
<1>8. CASE skillCmd[c].action = "uninstall"
  <2> DEFINE s == [skillCmd[c] EXCEPT !.at = "unlink", !.name = n]
  <2>1. skillCmd' = [skillCmd EXCEPT ![c] = s] /\ UNCHANGED <<skillLock, skillRacing, skillActs, present>>
    BY <1>8 DEF Skilled!Select, Skilled!Continues, Skilled!Becomes, Skilled!disk
  <2>2. "unlink" \in SkillPlaces BY DEF SkillPlaces, Working
  <2>3. /\ s \in SkillTheCommand /\ s.at = "unlink" /\ s.name = n /\ s.todo = skillCmd[c].todo
        /\ s.present = skillCmd[c].present
        /\ s.action = skillCmd[c].action
    BY <1>1, <1>7, <2>2 DEF SkillTheCommand
  <2> HIDE DEF s
  <2>4. SkillRest(s) \subseteq skillCmd[c].todo BY <2>3 DEF SkillRest
  <2>5. ASSUME c \notin skillRacing
        PROVE  Reviewed(s, present', skill', manifest') BY <1>1, <1>3, <1>5, <1>6, <1>8, <2>1, <2>3, <2>4,
        <2>5 DEF Reviewed, Vouched
  <2>6. Placed(s, present') BY <2>1, <2>3 DEF Placed
  <2> QED BY SkillMoves, <1>2, <1>4, <2>1, <2>3, <2>5, <2>6
<1>9. CASE skillCmd[c].action # "uninstall" /\ n \notin skillCmd[c].present /\ n \in present
  BY <1>1, <1>2, <1>4, <1>9, SkillEndKeeps DEF Skilled!Select
<1>10. CASE skillCmd[c].action # "uninstall" /\ ~(n \notin skillCmd[c].present /\ n \in present)
  <2> DEFINE s == [skillCmd[c] EXCEPT !.at = "skill", !.name = n]
  <2>1. skillCmd' = [skillCmd EXCEPT ![c] = s] /\ UNCHANGED <<skillLock, skillRacing, skillActs>>
        /\ present' = present \cup {n}
    BY <1>10 DEF Skilled!Select, Skilled!Continues, Skilled!Becomes
  <2>2. "skill" \in SkillPlaces BY DEF SkillPlaces, Working
  <2>3. /\ s \in SkillTheCommand /\ s.at = "skill" /\ s.name = n /\ s.todo = skillCmd[c].todo
        /\ s.present = skillCmd[c].present
        /\ s.action = skillCmd[c].action
    BY <1>1, <1>7, <2>2 DEF SkillTheCommand
  <2> HIDE DEF s
  <2>4. SkillRest(s) = skillCmd[c].todo \ {n} BY <2>3 DEF SkillRest
  <2>5. ASSUME c \notin skillRacing PROVE Reviewed(s, present', skill', manifest')
    <3>1. Vouched(n, skill, manifest) \/ (skill[n] = Skilled!NoVersion /\ manifest[n] = Skilled!NoVersion)
      BY <1>1, <1>5, <1>6, <1>10, <2>5 DEF Reviewed, SkillInv, FilesFit, Absent
    <3> QED BY <1>1, <1>3, <1>5, <1>6, <2>1, <2>3, <2>4, <2>5, <3>1 DEF Reviewed, Vouched
  <2>6. Placed(s, present') BY <2>1, <2>3 DEF Placed
  <2> QED BY SkillMoves, <1>2, <1>4, <2>1, <2>3, <2>5, <2>6
<1> QED BY <1>8, <1>9, <1>10

\* The command at a name writes it, or is done with it: the rest is as it was reviewed.
LEMMA FileKeeps ==
    ASSUME SkillInv, NEW c \in Commands, NEW s \in SkillTheCommand, skillCmd' = [skillCmd EXCEPT ![c] = s],
           UNCHANGED <<skillLock, skillRacing, skillActs>>,
           skillCmd[c].at \in {"skill", "manifest", "unlink", "rmdir"}, s.at \in {"manifest", "rmdir", "next"},
           s.action = skillCmd[c].action, s.present = skillCmd[c].present, SkillRest(s) = SkillRest(skillCmd[c]),
           s.at \in {"manifest", "rmdir"} => s.name = skillCmd[c].name,
           skillCmd[c].at \in {"skill", "unlink"} => s.at \in {"manifest", "rmdir"},
           \A n \in Skills \ {skillCmd[c].name} : skill'[n] = skill[n] /\ manifest'[n] = manifest[n]
              /\ (n \in present <=> n \in present'),
           FilesFit', Placed(s, present')
    PROVE  SkillInv'
<1>1. c \in Skilled!Running /\ skillLock = c BY DEF Skilled!Running, SkillInv, Alone
<1>2. c \notin skillRacing => Reviewed(skillCmd[c], present, skill, manifest) BY <1>1 DEF SkillInv,
   AllReviewed
<1>3. skillCmd[c] \in SkillTheCommand BY DEF SkillInv, SkillsTyped
<1>4. SkillRest(s) \subseteq Skills \ {skillCmd[c].name} BY <1>3 DEF SkillRest, SkillTheCommand, Listed
<1>5. ASSUME c \notin skillRacing PROVE Reviewed(s, present', skill', manifest')
  <2>1. \A n \in SkillRest(s) : (n \in s.present \/ s.action = "uninstall" => Vouched(n, skill, manifest))
        /\ (n \notin s.present => n \notin present)
    BY <1>2, <1>5 DEF Reviewed
  <2>2. \A n \in SkillRest(s) : (n \in s.present \/ s.action = "uninstall" => Vouched(n, skill', manifest'))
        /\ (n \notin s.present => n \notin present')
    BY <2>1, <1>4 DEF Vouched
  <2> QED BY <2>2 DEF Reviewed, SkillRest
<1> QED BY SkillMoves, <1>1, <1>5

LEMMA WriteSkillKeeps == ASSUME SkillInv, NEW c \in Commands, Skilled!WriteSkill(c) PROVE SkillInv'
<1>1. skillCmd[c].at = "skill" /\ skillCmd[c] \in SkillTheCommand BY DEF Skilled!WriteSkill, SkillInv,
   SkillsTyped
<1>2. c \in Skilled!Running /\ skillLock = c /\ UNCHANGED <<present, manifest>>
  BY <1>1 DEF Skilled!Running, SkillInv, Alone, Skilled!WriteSkill
<1>3. skillCmd[c].name \in present BY <1>1, <1>2 DEF SkillInv, AllPlaced, Placed
<1>4. CASE Skilled!CanWrite(c, skill)
  <2> DEFINE s == [skillCmd[c] EXCEPT !.at = "manifest"]
  <2>1. skillCmd' = [skillCmd EXCEPT ![c] = s] /\ UNCHANGED <<skillLock, skillRacing, skillActs>>
        /\ skill' = [skill EXCEPT ![skillCmd[c].name] = version]
    BY <1>4 DEF Skilled!WriteSkill, Skilled!Continues, Skilled!Becomes, Skilled!Goto
  <2>2. "manifest" \in SkillPlaces BY DEF SkillPlaces, Working
  <2>3. /\ s \in SkillTheCommand /\ s.at = "manifest" /\ s.name = skillCmd[c].name /\ s.todo = skillCmd[c].todo
        /\ s.present = skillCmd[c].present /\ s.action = skillCmd[c].action
    BY <1>1, <2>2 DEF SkillTheCommand
  <2> HIDE DEF s
  <2>4. SkillRest(s) = SkillRest(skillCmd[c]) BY <1>1, <2>3 DEF SkillRest
  <2>5. FilesFit' BY <1>2, <1>3, <2>1 DEF SkillInv, FilesFit, Absent
  <2>6. \A n \in Skills \ {skillCmd[c].name} : skill'[n] = skill[n] /\ manifest'[n] = manifest[n]
        /\ (n \in present <=> n \in present')
    BY <1>2, <2>1 DEF SkillInv, FilesFit
  <2>7. Placed(s, present') BY <1>2, <1>3, <2>3 DEF Placed
  <2> QED BY FileKeeps, <1>1, <2>1, <2>3, <2>4, <2>5, <2>6, <2>7
<1>5. CASE ~Skilled!CanWrite(c, skill)
  <2>1. FilesFit' BY <1>2, <1>5 DEF Skilled!WriteSkill, SkillInv, FilesFit, Absent
  <2> QED BY <1>1, <1>2, <1>5, <2>1, SkillEndKeeps DEF Skilled!WriteSkill
<1> QED BY <1>4, <1>5

LEMMA WriteManifestKeeps == ASSUME SkillInv, NEW c \in Commands, Skilled!WriteManifest(c) PROVE SkillInv'
<1>1. skillCmd[c].at = "manifest" /\ skillCmd[c] \in SkillTheCommand
  BY DEF Skilled!WriteManifest, SkillInv, SkillsTyped
<1>2. c \in Skilled!Running /\ skillLock = c /\ UNCHANGED <<present, skill>>
  BY <1>1 DEF Skilled!Running, SkillInv, Alone, Skilled!WriteManifest
<1>3. skillCmd[c].name \in present BY <1>1, <1>2 DEF SkillInv, AllPlaced, Placed
<1>4. CASE Skilled!CanWrite(c, manifest)
  <2> DEFINE todo == skillCmd[c].todo \ {skillCmd[c].name}
             s == [skillCmd[c] EXCEPT !.at = "next", !.todo = todo, !.name = Skilled!NoOne]
  <2>1. skillCmd' = [skillCmd EXCEPT ![c] = s] /\ UNCHANGED <<skillLock, skillRacing, skillActs>>
        /\ manifest' = [manifest EXCEPT ![skillCmd[c].name] = version]
    BY <1>1, <1>4 DEF Skilled!WriteManifest, Skilled!Continues, Skilled!Becomes
  <2>2. "next" \in SkillPlaces /\ todo \in Listed /\ Skilled!NoOne \in SkillChosen
    BY <1>1 DEF SkillPlaces, Working, SkillTheCommand, Listed, SkillChosen
  <2>3. s \in SkillTheCommand /\ s.at = "next" /\ s.todo = todo /\ s.present = skillCmd[c].present
        /\ s.action = skillCmd[c].action
    BY <1>1, <2>2 DEF SkillTheCommand
  <2> HIDE DEF s
  <2>4. SkillRest(s) = SkillRest(skillCmd[c]) BY <1>1, <2>3 DEF SkillRest
  <2>5. FilesFit' BY <1>2, <1>3, <2>1 DEF SkillInv, FilesFit, Absent
  <2>6. \A n \in Skills \ {skillCmd[c].name} : skill'[n] = skill[n] /\ manifest'[n] = manifest[n]
        /\ (n \in present <=> n \in present')
    BY <1>2, <2>1 DEF SkillInv, FilesFit
  <2>7. Placed(s, present') BY <2>3 DEF Placed
  <2> QED BY FileKeeps, <1>1, <2>1, <2>3, <2>4, <2>5, <2>6, <2>7
<1>5. CASE ~Skilled!CanWrite(c, manifest)
  <2>1. FilesFit' BY <1>2, <1>5 DEF Skilled!WriteManifest, SkillInv, FilesFit, Absent
  <2> QED BY <1>1, <1>2, <1>5, <2>1, SkillEndKeeps DEF Skilled!WriteManifest
<1> QED BY <1>4, <1>5

LEMMA UnlinkSkillKeeps == ASSUME SkillInv, NEW c \in Commands, Skilled!UnlinkSkill(c) PROVE SkillInv'
<1>1. skillCmd[c].at = "unlink" /\ skillCmd[c] \in SkillTheCommand
  BY DEF Skilled!UnlinkSkill, Skilled!Continues, Skilled!Becomes, SkillInv, SkillsTyped
<1>2. c \in Skilled!Running /\ skillLock = c /\ UNCHANGED <<present, manifest>>
  BY <1>1 DEF Skilled!Running, SkillInv, Alone, Skilled!UnlinkSkill
<1>3. skillCmd[c].name \in Skills BY <1>1, <1>2 DEF SkillInv, AllPlaced, Placed
<1> DEFINE s == [skillCmd[c] EXCEPT !.at = "rmdir"]
<1>4. skillCmd' = [skillCmd EXCEPT ![c] = s] /\ UNCHANGED <<skillLock, skillRacing, skillActs>>
      /\ skill' = [skill EXCEPT ![skillCmd[c].name] = Skilled!NoVersion]
  BY DEF Skilled!UnlinkSkill, Skilled!Continues, Skilled!Becomes, Skilled!Goto
<1>5. "rmdir" \in SkillPlaces BY DEF SkillPlaces, Working
<1>6. /\ s \in SkillTheCommand /\ s.at = "rmdir" /\ s.name = skillCmd[c].name /\ s.todo = skillCmd[c].todo
      /\ s.present = skillCmd[c].present /\ s.action = skillCmd[c].action
  BY <1>1, <1>5 DEF SkillTheCommand
<1> HIDE DEF s
<1>7. SkillRest(s) = SkillRest(skillCmd[c]) BY <1>1, <1>6 DEF SkillRest
<1>8. FilesFit' BY <1>2, <1>3, <1>4 DEF SkillInv, FilesFit, Absent
<1>9. \A n \in Skills \ {skillCmd[c].name} : skill'[n] = skill[n] /\ manifest'[n] = manifest[n]
      /\ (n \in present <=> n \in present')
  BY <1>2, <1>4 DEF SkillInv, FilesFit
<1>10. Placed(s, present') BY <1>3, <1>6 DEF Placed
<1> QED BY FileKeeps, <1>1, <1>4, <1>6, <1>7, <1>8, <1>9, <1>10

LEMMA RemoveKeeps == ASSUME SkillInv, NEW c \in Commands, Skilled!Remove(c) PROVE SkillInv'
<1>1. skillCmd[c].at = "rmdir" /\ skillCmd[c] \in SkillTheCommand BY DEF Skilled!Remove, SkillInv, SkillsTyped
<1>2. c \in Skilled!Running /\ skillLock = c /\ UNCHANGED skill
  BY <1>1 DEF Skilled!Running, SkillInv, Alone, Skilled!Remove
<1>3. skillCmd[c].name \in Skills BY <1>1, <1>2 DEF SkillInv, AllPlaced, Placed
<1>4. manifest' = [manifest EXCEPT ![skillCmd[c].name] = Skilled!NoVersion] BY DEF Skilled!Remove
<1>5. CASE skill[skillCmd[c].name] = Skilled!NoVersion
  <2> DEFINE todo == skillCmd[c].todo \ {skillCmd[c].name}
             s == [skillCmd[c] EXCEPT !.at = "next", !.todo = todo, !.name = Skilled!NoOne]
  <2>1. skillCmd' = [skillCmd EXCEPT ![c] = s] /\ UNCHANGED <<skillLock, skillRacing, skillActs>>
        /\ present' = present \ {skillCmd[c].name}
    BY <1>1, <1>5 DEF Skilled!Remove, Skilled!Continues, Skilled!Becomes
  <2>2. "next" \in SkillPlaces /\ todo \in Listed /\ Skilled!NoOne \in SkillChosen
    BY <1>1 DEF SkillPlaces, Working, SkillTheCommand, Listed, SkillChosen
  <2>3. s \in SkillTheCommand /\ s.at = "next" /\ s.todo = todo /\ s.present = skillCmd[c].present
        /\ s.action = skillCmd[c].action
    BY <1>1, <2>2 DEF SkillTheCommand
  <2> HIDE DEF s
  <2>4. SkillRest(s) = SkillRest(skillCmd[c]) BY <1>1, <2>3 DEF SkillRest
  <2>5. FilesFit' BY <1>2, <1>3, <1>4, <1>5, <2>1 DEF SkillInv, FilesFit, Absent
  <2>6. \A n \in Skills \ {skillCmd[c].name} : skill'[n] = skill[n] /\ manifest'[n] = manifest[n]
        /\ (n \in present <=> n \in present')
    BY <1>2, <1>4, <2>1 DEF SkillInv, FilesFit
  <2>7. Placed(s, present') BY <2>3 DEF Placed
  <2> QED BY FileKeeps, <1>1, <2>1, <2>3, <2>4, <2>5, <2>6, <2>7
<1>6. CASE skill[skillCmd[c].name] # Skilled!NoVersion
  <2>1. FilesFit' BY <1>2, <1>4, <1>6 DEF Skilled!Remove, SkillInv, FilesFit, Absent
  <2> QED BY <1>1, <1>2, <1>6, <2>1, SkillEndKeeps DEF Skilled!Remove
<1> QED BY <1>5, <1>6

LEMMA LeaveKeeps == ASSUME SkillInv, NEW c \in Commands, Skilled!Finish(c) \/ Skilled!Kill(c) PROVE SkillInv'
<1>1. FilesFit' BY DEF Skilled!Finish, Skilled!Kill, Skilled!disk, SkillInv, FilesFit, Absent
<1>2. CASE Skilled!Finish(c)
  <2>1. skillCmd[c].at = "next" /\ Skilled!Ends(c, skillCmd[c].at, "done")
    BY <1>2 DEF Skilled!Finish, Skilled!Ends, Skilled!Becomes
  <2>2. c \in Skilled!Running BY <2>1 DEF Skilled!Running
  <2> QED BY <1>1, <2>1, <2>2, SkillEndKeeps
<1>3. CASE Skilled!Kill(c) BY <1>1, <1>3, SkillEndKeeps DEF Skilled!Kill
<1> QED BY <1>2, <1>3

LEMMA SkillKept == Skilled!Spec /\ Skilled!ConstantsFit => []SkillInv
<1>1. Skilled!Init /\ Skilled!ConstantsFit => SkillInv BY SkillBegins
<1>2. ASSUME SkillInv, [Skilled!Next]_(Skilled!vars) PROVE SkillInv'
  <2>1. CASE UNCHANGED Skilled!vars BY <1>2, <2>1, Stays
  <2>2. CASE Skilled!Upgrade \/ \E n \in Skills : Skilled!EditSkill(n) \/ Skilled!EditManifest(n) BY <1>2,
     <2>2, SkillUserKeeps
  <2>3. ASSUME NEW c \in Commands, NEW action \in {"install", "update", "uninstall"},
               NEW names \in SUBSET Skills \ {{}}, Skilled!Start(c, action, names)
        PROVE  SkillInv'
    BY <1>2, <2>3, StartKeeps
  <2>4. ASSUME NEW c \in Commands, Skilled!Refresh(c) PROVE SkillInv'
    <3>1. PICK names \in {{n \in Skills : Skilled!Status(n) \in {"missing", "outdated"}}} :
              Skilled!Start(c, "update", names)
      BY <2>4 DEF Skilled!Refresh
    <3>2. names \in SUBSET Skills OBVIOUS
    <3> QED BY <1>2, <3>1, <3>2, StartKeeps
  <2>5. ASSUME NEW c \in Commands, NEW n \in Skills, Skilled!Select(c, n)
        PROVE  SkillInv' BY <1>2, <2>5, SelectKeeps
  <2>6. ASSUME NEW c \in Commands,
               \/ Skilled!Check(c) \/ Skilled!WriteSkill(c) \/ Skilled!WriteManifest(c) \/ Skilled!UnlinkSkill(c)
               \/ Skilled!Remove(c) \/ Skilled!Finish(c) \/ Skilled!Kill(c)
        PROVE  SkillInv'
    BY <1>2, <2>6, SkillCheckKeeps, WriteSkillKeeps, WriteManifestKeeps, UnlinkSkillKeeps, RemoveKeeps,
       LeaveKeeps
  <2> QED BY <1>2, <2>1, <2>2, <2>3, <2>4, <2>5, <2>6 DEF Skilled!Next
<1> QED BY <1>1, <1>2, PTL DEF Skilled!Spec

\* Wherever a command on skills is killed, and whatever the user writes between commands, bytes that no manifest vouches
\* for are neither replaced nor removed (install, update, uninstall).
THEOREM SkillsStayReviewed == ASSUME Skilled!ConstantsFit PROVE Skilled!Spec => Skilled!SkillsReviewed
<1>1. ASSUME SkillInv, [Skilled!Next]_(Skilled!vars) PROVE [Skilled!ReviewStep]_(Skilled!vars)
  <2>1. CASE UNCHANGED Skilled!vars BY <2>1
  <2>2. ASSUME UNCHANGED skill PROVE Skilled!ReviewStep BY <2>2 DEF Skilled!ReviewStep
  <2>3. ASSUME skillActs' # skillActs PROVE Skilled!ReviewStep BY <2>3 DEF Skilled!ReviewStep
  <2>4. ASSUME NEW c \in Commands, Skilled!WriteSkill(c) PROVE Skilled!ReviewStep
    <3> SUFFICES ASSUME NEW n \in Skills, skill'[n] # skill[n], skillRacing = {}
                 PROVE  Skilled!Owned(n) \/ (skill[n] = Skilled!NoVersion /\ manifest[n] = Skilled!NoVersion)
      BY DEF Skilled!ReviewStep
    <3>1. c \in Skilled!Running /\ skillCmd[c].at = "skill" BY <2>4 DEF Skilled!WriteSkill, Skilled!Running
    <3>2. n = skillCmd[c].name BY <2>4, <1>1 DEF Skilled!WriteSkill, SkillInv, FilesFit
    <3> QED BY <1>1, <3>1, <3>2 DEF SkillInv, AllReviewed, Reviewed, Vouched, Skilled!Owned
  <2>5. ASSUME NEW c \in Commands, Skilled!UnlinkSkill(c) PROVE Skilled!ReviewStep
    <3> SUFFICES ASSUME NEW n \in Skills, skill'[n] # skill[n], skillRacing = {} PROVE Skilled!Owned(n)
      BY DEF Skilled!ReviewStep
    <3>1. c \in Skilled!Running /\ skillCmd[c].at = "unlink"
      BY <2>5 DEF Skilled!UnlinkSkill, Skilled!Continues, Skilled!Becomes, Skilled!Running
    <3>2. n = skillCmd[c].name BY <2>5, <1>1 DEF Skilled!UnlinkSkill, SkillInv, FilesFit
    <3> QED BY <1>1, <3>1, <3>2 DEF SkillInv, AllReviewed, Reviewed, Vouched, Skilled!Owned
  <2>6. CASE Skilled!Upgrade BY <2>2, <2>6 DEF Skilled!Upgrade, Skilled!disk
  <2>7. ASSUME NEW n \in Skills, Skilled!EditSkill(n) \/ Skilled!EditManifest(n) PROVE Skilled!ReviewStep
    <3>1. CASE Skilled!EditManifest(n) BY <2>2, <3>1 DEF Skilled!EditManifest
    <3>2. CASE Skilled!EditSkill(n)
      <4>1. skillActs' = skillActs + 1 BY <3>2 DEF Skilled!EditSkill, Skilled!User
      <4> QED BY <4>1, <2>3, <1>1 DEF SkillInv, SkillsTyped
    <3> QED BY <2>7, <3>1, <3>2
  <2>8. ASSUME NEW c \in Commands,
               \/ \E action \in {"install", "update", "uninstall"},
                  names \in SUBSET Skills \ {{}} : Skilled!Start(c, action, names)
               \/ Skilled!Refresh(c) \/ Skilled!Check(c) \/ (\E n \in Skills : Skilled!Select(c, n))
               \/ Skilled!WriteManifest(c) \/ Skilled!Remove(c) \/ Skilled!Finish(c) \/ Skilled!Kill(c)
        PROVE  Skilled!ReviewStep
    <3>1. UNCHANGED skill
      BY <2>8 DEF Skilled!Start, Skilled!Refresh, Skilled!Check, Skilled!Select, Skilled!WriteManifest,
         Skilled!Remove, Skilled!Finish, Skilled!Kill, Skilled!disk
    <3> QED BY <3>1, <2>2
  <2> QED BY <1>1, <2>1, <2>4, <2>5, <2>6, <2>7, <2>8 DEF Skilled!Next
<1>9. Skilled!Spec => [][Skilled!ReviewStep]_(Skilled!vars)
  BY <1>1, SkillKept, PTL DEF Skilled!Spec
<1> QED BY <1>9 DEF Skilled!SkillsReviewed

-----------------------------------------------------------------------------
(* The authoring catalogue (Authoring). *)

AuthorVersions == Drafts \cup {0}
AuthorContents == [said : Nat, draft : AuthorVersions, file : 0..2]
Validations == [revision : Nat, content : AuthorContents]
AuthorStates == {"none", "rejected", "drafted", "frozen"}
Decisions == [state : AuthorStates, said : Nat, validation : Validations \cup {None},
              case : AuthorContents \cup {None}]
Decided == [Candidates -> Decisions]
Voices == {0, 1, None}
Catalogs ==
    [revision : Nat, selected : BOOLEAN, requested : BOOLEAN, triage : {0, 1}, voice : Voices, request : Nat,
     decisions : Decided]
AuthorPlaces == {"idle", "called", "checks", "reads", "copies", "verifies", "puts", "saves"}
Ops == {"none", "select", "request", "gap", "triage", "voice", "unvoice", "reject", "draft", "validate", "freeze"}
Named == Candidates \cup {None}
Copies == 0..2
Reads == Catalogs \cup {None}
AuthorTheCommand == [at : AuthorPlaces, op : Ops, name : Named, expected : Nat, read : Reads,
                     draft : AuthorVersions, file : Copies]
AuthorWritten == [Candidates -> [draft : Drafts, file : {1, 2}]]

AuthTyped == catalog \in Catalogs /\ authorCmd \in [Commands -> AuthorTheCommand] /\ drafts \in AuthorWritten
   /\ saves \in Nat

\* A command with the lock has read the catalogue as it is.
Inside == {"checks", "reads", "copies", "verifies", "puts", "saves"}
Locked(c, s, holder, seen) == s.at \in Inside => holder = c /\ s.read = seen

\* What its edit requires was seen of the catalogue, and of the copies.
ItsDecision(s) == s.read.decisions[s.name]
ItsContent(s) == [said |-> ItsDecision(s).said, draft |-> s.draft, file |-> s.file]
AuthorReady(s, made) ==
    /\ s.at \in Inside \cup {"called"} => [op |-> s.op, name |-> s.name] \in Authors!Operations
    /\ s.at \in {"reads", "copies", "verifies", "puts", "saves"} =>
         /\ s.op \in {"reject", "draft"} => ItsDecision(s).state # "frozen"
         /\ s.op \in {"validate", "freeze"} => ItsDecision(s).state = "drafted"
    /\ s.at \in {"reads", "copies", "verifies"} => s.op \in {"draft", "validate", "freeze"}
    /\ s.at = "puts" => s.op = "freeze"
    /\ s.at \in {"puts", "saves"} /\ s.op = "freeze" =>
         ItsDecision(s).validation # None /\ ItsDecision(s).validation.content = ItsContent(s)
            /\ s.draft \in Fit
    /\ s.at = "saves" /\ s.op = "validate" => s.draft \in Fit
    /\ s.at = "saves" /\ s.op = "freeze" => ItsContent(s) \in made

AuthorAttended == \A c \in Commands : Locked(c, authorCmd[c], held, catalog) /\ AuthorReady(authorCmd[c], cases)

\* A validation that there is, is of the request as it is, and was its last edit.
FrozenApart == \A n \in Candidates : Authors!Frozen(n) => catalog.decisions[n].validation = None
ValidatedLast ==
    \A n \in Candidates : catalog.decisions[n].validation # None =>
      LET content == catalog.decisions[n].validation.content
      IN  /\ last = [op |-> "validate", name |-> n, draft |-> content.draft, file |-> content.file]
          /\ content.draft \in Fit

AuthorInv == Authors!ConstantsFit /\ AuthTyped /\ AuthorAttended /\ Authors!EditsKept /\ FrozenApart
   /\ ValidatedLast

-----------------------------------------------------------------------------
\* The edits of the catalogue and those of a candidate.
LEMMA Called ==
    ASSUME NEW op, NEW n, [op |-> op, name |-> n] \in Authors!Operations
    PROVE  \/ op \in {"select", "request", "gap", "triage", "voice", "unvoice"} /\ n = None
           \/ op \in {"reject", "draft", "validate", "freeze"} /\ n \in Candidates
BY DEF Authors!Operations

\* A command goes on, alone, and the catalogue stays.
LEMMA AuthorMoves ==
    ASSUME AuthorInv, NEW c \in Commands, NEW s \in AuthorTheCommand, authorCmd' = [authorCmd EXCEPT ![c] = s],
           UNCHANGED <<catalog, drafts, saves, last>>, cases \subseteq cases',
           \/ held' = held
           \/ held = c
           \/ held = None,
           Locked(c, s, held', catalog), AuthorReady(s, cases')
    PROVE  AuthorInv'
<1>1. Authors!ConstantsFit' /\ AuthTyped' BY DEF AuthorInv, AuthTyped, Authors!ConstantsFit
<1>2. ASSUME NEW d \in Commands
      PROVE  Locked(d, authorCmd'[d], held', catalog) /\ AuthorReady(authorCmd'[d], cases')
  <2>1. CASE d = c
    <3>1. authorCmd'[d] = s BY <2>1 DEF AuthorInv, AuthTyped
    <3> QED BY <3>1, <2>1
  <2>2. CASE d # c
    <3>1. authorCmd'[d] = authorCmd[d] BY <2>2 DEF AuthorInv, AuthTyped
    <3>2. Locked(d, authorCmd[d], held, catalog) /\ AuthorReady(authorCmd[d], cases) BY DEF AuthorInv,
       AuthorAttended
    <3>3. Locked(d, authorCmd[d], held', catalog) BY <3>2, <2>2 DEF Locked, AuthorInv, Authors!ConstantsFit
    <3>4. AuthorReady(authorCmd[d], cases') BY <3>2 DEF AuthorReady
    <3> QED BY <3>1, <3>3, <3>4
  <2> QED BY <2>1, <2>2
<1>3. AuthorAttended' BY <1>2 DEF AuthorAttended
<1>4. Authors!EditsKept' BY DEF AuthorInv, Authors!EditsKept
<1>5. FrozenApart' /\ ValidatedLast' BY DEF AuthorInv, FrozenApart, ValidatedLast, Authors!Frozen
<1> QED BY <1>1, <1>3, <1>4, <1>5 DEF AuthorInv

\* A command that is not doing anything has nothing to be ready for.
LEMMA AtRest ==
    ASSUME NEW c, NEW holder, NEW seen, NEW made
    PROVE  Authors!Idle \in AuthorTheCommand /\ Locked(c, Authors!Idle, holder, seen)
       /\ AuthorReady(Authors!Idle, made)
<1>1. "idle" \in AuthorPlaces /\ "none" \in Ops /\ None \in Named /\ 0 \in Nat /\ None \in Reads
      /\ 0 \in AuthorVersions /\ 0 \in Copies
  BY DEF AuthorPlaces, Ops, Named, Reads, AuthorVersions, Copies
<1>2. Authors!Idle \in AuthorTheCommand /\ Authors!Idle.at = "idle" BY <1>1 DEF Authors!Idle, AuthorTheCommand
<1> HIDE DEF Authors!Idle
<1> QED BY <1>2 DEF Locked, AuthorReady, Inside

LEMMA AuthorBegins == ASSUME Authors!ConstantsFit, Authors!Init PROVE AuthorInv
<1> DEFINE v == CHOOSE v \in Fit : TRUE
<1>1. v \in Drafts BY DEF Authors!ConstantsFit
<1>2. Authors!Undecided \in Decisions BY DEF Authors!Undecided, Decisions, AuthorStates
<1>3. [n \in Candidates |-> Authors!Undecided] \in Decided BY <1>2 DEF Decided
<1>4. catalog \in Catalogs /\ catalog.decisions = [n \in Candidates |-> Authors!Undecided]
      /\ catalog.revision = 0
  BY <1>3 DEF Authors!Init, Catalogs, Voices
<1>5. drafts \in AuthorWritten
  <2>1. drafts = [n \in Candidates |-> [draft |-> v, file |-> 1]] BY DEF Authors!Init
  <2> HIDE DEF v
  <2> QED BY <2>1, <1>1 DEF AuthorWritten
<1>6. authorCmd \in [Commands -> AuthorTheCommand] /\ \A c \in Commands : authorCmd[c] = Authors!Idle
  BY AtRest DEF Authors!Init
<1>7. AuthTyped BY <1>4, <1>5, <1>6 DEF AuthTyped, Authors!Init
<1>8. AuthorAttended BY <1>6, AtRest DEF AuthorAttended
<1>9. \A n \in Candidates : catalog.decisions[n].state = "none" /\ catalog.decisions[n].validation = None
  BY <1>4 DEF Authors!Undecided
<1>10. Authors!EditsKept BY <1>4, <1>9 DEF Authors!EditsKept, Authors!Init
<1>11. FrozenApart /\ ValidatedLast BY <1>9 DEF FrozenApart, ValidatedLast, Authors!Frozen
<1> QED BY <1>7, <1>8, <1>10, <1>11 DEF AuthorInv

LEMMA AuthorRest == ASSUME AuthorInv, UNCHANGED Authors!vars PROVE AuthorInv'
<1> USE DEF Authors!vars
<1>1. Authors!ConstantsFit' /\ AuthTyped' BY DEF AuthorInv, AuthTyped, Authors!ConstantsFit
<1>2. AuthorAttended' BY DEF AuthorInv, AuthorAttended
<1>3. Authors!EditsKept' /\ FrozenApart' /\ ValidatedLast'
  BY DEF AuthorInv, Authors!EditsKept, FrozenApart, ValidatedLast, Authors!Frozen
<1> QED BY <1>1, <1>2, <1>3 DEF AuthorInv

LEMMA AuthorUserKeeps ==
    ASSUME AuthorInv, NEW n \in Candidates, Authors!WriteDraft(n) \/ Authors!WriteFile(n)
    PROVE  AuthorInv'
<1>1. drafts' \in AuthorWritten
  <2>1. CASE Authors!WriteDraft(n) BY <2>1 DEF Authors!WriteDraft, AuthorInv, AuthTyped, AuthorWritten
  <2>2. CASE Authors!WriteFile(n)
    <3>1. drafts[n].file \in {1, 2} /\ drafts \in AuthorWritten BY DEF AuthorInv, AuthTyped, AuthorWritten
    <3>2. 3 - drafts[n].file \in {1, 2} BY <3>1
    <3>3. drafts' = [drafts EXCEPT ![n].file = 3 - drafts[n].file] BY <2>2 DEF Authors!WriteFile
    <3> QED BY <3>1, <3>2, <3>3 DEF AuthorWritten
  <2> QED BY <2>1, <2>2
<1>2. UNCHANGED <<catalog, held, authorCmd, cases, saves, last>> BY DEF Authors!WriteDraft, Authors!WriteFile
<1>3. Authors!ConstantsFit' /\ AuthTyped' BY <1>1, <1>2 DEF AuthorInv, AuthTyped, Authors!ConstantsFit
<1>4. AuthorAttended' BY <1>2 DEF AuthorInv, AuthorAttended
<1>5. Authors!EditsKept' /\ FrozenApart' /\ ValidatedLast'
  BY <1>2 DEF AuthorInv, Authors!EditsKept, FrozenApart, ValidatedLast, Authors!Frozen
<1> QED BY <1>3, <1>4, <1>5 DEF AuthorInv

LEMMA InspectKeeps == ASSUME AuthorInv, NEW c \in Commands, Authors!Inspect(c) PROVE AuthorInv'
<1>1. PICK o \in Authors!Operations :
        authorCmd' = [authorCmd EXCEPT ![c] = [Authors!Idle EXCEPT !.at = "called", !.op = o.op, !.name = o.name,
                                               !.expected = catalog.revision]]
  BY DEF Authors!Inspect, Authors!Becomes
<1> DEFINE s == [Authors!Idle EXCEPT !.at = "called", !.op = o.op, !.name = o.name, !.expected = catalog.revision]
<1>2. o.op \in Ops /\ o.name \in Named /\ o = [op |-> o.op, name |-> o.name] BY DEF Authors!Operations, Ops,
   Named
<1>3. catalog.revision \in Nat BY DEF AuthorInv, AuthTyped, Catalogs
<1>4. "called" \in AuthorPlaces /\ None \in Reads /\ 0 \in AuthorVersions /\ 0 \in Copies
  BY DEF AuthorPlaces, Reads, AuthorVersions, Copies
<1>5. s \in AuthorTheCommand /\ s.at = "called" /\ s.op = o.op /\ s.name = o.name
  BY <1>2, <1>3, <1>4 DEF AuthorTheCommand, Authors!Idle
<1>6. authorCmd' = [authorCmd EXCEPT ![c] = s] BY <1>1
<1> HIDE DEF s
<1>7. Locked(c, s, held', catalog) BY <1>5 DEF Locked, Inside
<1>8. AuthorReady(s, cases') BY <1>5, <1>2 DEF AuthorReady
<1>9. UNCHANGED <<catalog, held, drafts, cases, saves, last>> BY DEF Authors!Inspect
<1> QED BY AuthorMoves, <1>5, <1>6, <1>7, <1>8, <1>9

\* A command ends without having saved anything.
LEMMA AuthorEndKeeps ==
    ASSUME AuthorInv, NEW c \in Commands, authorCmd' = [authorCmd EXCEPT ![c] = Authors!Idle],
           held' = held \/ held = c,
           UNCHANGED <<catalog, drafts, cases, saves, last>>
    PROVE  AuthorInv'
BY AuthorMoves, AtRest

LEMMA EnterKeeps == ASSUME AuthorInv, NEW c \in Commands, Authors!Enter(c) PROVE AuthorInv'
<1>1. UNCHANGED <<catalog, drafts, cases, saves, last>> BY DEF Authors!Enter
<1>2. CASE catalog.revision = authorCmd[c].expected
  <2> DEFINE s == [authorCmd[c] EXCEPT !.at = "checks", !.read = catalog]
  <2>1. authorCmd[c] \in AuthorTheCommand /\ authorCmd[c].at = "called" BY DEF AuthorInv, AuthTyped,
     Authors!Enter
  <2>2. "checks" \in AuthorPlaces /\ catalog \in Reads BY DEF AuthorInv, AuthTyped, AuthorPlaces, Reads
  <2>3. s \in AuthorTheCommand /\ s.at = "checks" /\ s.read = catalog /\ s.op = authorCmd[c].op
        /\ s.name = authorCmd[c].name
    BY <2>1, <2>2 DEF AuthorTheCommand
  <2>4. authorCmd' = [authorCmd EXCEPT ![c] = s] /\ held' = c /\ held = None
    BY <1>2 DEF Authors!Enter, Authors!Becomes, Authors!Free
  <2> HIDE DEF s
  <2>5. Locked(c, s, held', catalog) BY <2>3, <2>4 DEF Locked
  <2>6. [op |-> s.op, name |-> s.name] \in Authors!Operations BY <2>1, <2>3 DEF AuthorInv, AuthorAttended,
     AuthorReady
  <2>7. AuthorReady(s, cases') BY <2>3, <2>6 DEF AuthorReady
  <2> QED BY AuthorMoves, <1>1, <2>3, <2>4, <2>5, <2>7
<1>3. CASE catalog.revision # authorCmd[c].expected
  BY <1>1, <1>3, AuthorEndKeeps DEF Authors!Enter, Authors!Ends, Authors!Becomes
<1> QED BY <1>2, <1>3

LEMMA AuthorCheckKeeps == ASSUME AuthorInv, NEW c \in Commands, Authors!Check(c) PROVE AuthorInv'
<1>1. UNCHANGED <<catalog, drafts, cases, saves, last>> BY DEF Authors!Check
<1>2. CASE Authors!Allowed(c)
  <2> DEFINE to == IF authorCmd[c].op \in {"draft", "validate", "freeze"} THEN "reads" ELSE "saves"
             s == [authorCmd[c] EXCEPT !.at = to]
  <2>1. authorCmd[c] \in AuthorTheCommand /\ authorCmd[c].at = "checks" BY DEF AuthorInv, AuthTyped,
     Authors!Check
  <2>2. to \in AuthorPlaces BY DEF AuthorPlaces
  <2>3. authorCmd' = [authorCmd EXCEPT ![c] = s] /\ held' = held
    BY <1>2 DEF Authors!Check, Authors!Goto, Authors!Becomes
  <2>4. s \in AuthorTheCommand /\ s.at = to /\ s.read = authorCmd[c].read /\ s.op = authorCmd[c].op
        /\ s.name = authorCmd[c].name
    BY <2>1, <2>2 DEF AuthorTheCommand
  <2> HIDE DEF s
  <2>5. held = c /\ s.read = catalog BY <2>1, <2>4 DEF AuthorInv, AuthorAttended, Locked, Inside
  <2>6. Locked(c, s, held', catalog) BY <2>3, <2>5 DEF Locked
  <2>7. [op |-> s.op, name |-> s.name] \in Authors!Operations
    BY <2>1, <2>4 DEF AuthorInv, AuthorAttended, AuthorReady, Inside
  <2>8. ItsDecision(s) = Authors!Decision(c) BY <2>4 DEF ItsDecision, Authors!Decision
  <2>9. s.op \in {"reject", "draft"} => Authors!Decision(c).state # "frozen" BY <1>2, <2>4 DEF Authors!Allowed
  <2>10. s.op \in {"validate", "freeze"} => Authors!Decision(c).state = "drafted" BY <1>2, <2>4
     DEF Authors!Allowed
  <2>11. AuthorReady(s, cases') BY <2>4, <2>7, <2>8, <2>9, <2>10 DEF AuthorReady
  <2> QED BY AuthorMoves, <1>1, <2>3, <2>4, <2>6, <2>11
<1>3. CASE ~Authors!Allowed(c) BY <1>1, <1>3, AuthorEndKeeps DEF Authors!Check, Authors!Ends, Authors!Becomes
<1> QED BY <1>2, <1>3

LEMMA ReadDraftKeeps == ASSUME AuthorInv, NEW c \in Commands, Authors!ReadDraft(c) PROVE AuthorInv'
<1> DEFINE to == IF authorCmd[c].op = "draft" THEN "verifies" ELSE "copies"
           s == [authorCmd[c] EXCEPT !.draft = drafts[authorCmd[c].name].draft, !.at = to]
<1>1. UNCHANGED <<catalog, held, drafts, cases, saves, last>> BY DEF Authors!ReadDraft
<1>2. authorCmd[c] \in AuthorTheCommand /\ authorCmd[c].at = "reads" BY DEF AuthorInv, AuthTyped,
   Authors!ReadDraft
<1>3. [op |-> authorCmd[c].op, name |-> authorCmd[c].name] \in Authors!Operations
      /\ authorCmd[c].op \in {"draft", "validate", "freeze"}
  BY <1>2 DEF AuthorInv, AuthorAttended, AuthorReady, Inside
<1>4. authorCmd[c].name \in Candidates BY <1>3, Called
<1>5. drafts[authorCmd[c].name].draft \in AuthorVersions
  BY <1>4 DEF AuthorInv, AuthTyped, AuthorWritten, AuthorVersions
<1>6. to \in AuthorPlaces BY DEF AuthorPlaces
<1>7. authorCmd' = [authorCmd EXCEPT ![c] = s] BY DEF Authors!ReadDraft, Authors!Becomes
<1>8. s \in AuthorTheCommand /\ s.at = to /\ s.read = authorCmd[c].read /\ s.op = authorCmd[c].op
      /\ s.name = authorCmd[c].name
  BY <1>2, <1>5, <1>6 DEF AuthorTheCommand
<1> HIDE DEF s
<1>9. Locked(c, s, held', catalog) BY <1>1, <1>2, <1>8 DEF AuthorInv, AuthorAttended, Locked, Inside
<1>10. ItsDecision(s) = ItsDecision(authorCmd[c]) BY <1>8 DEF ItsDecision
<1>11. AuthorReady(authorCmd[c], cases) BY DEF AuthorInv, AuthorAttended
<1>12. AuthorReady(s, cases') BY <1>2, <1>3, <1>8, <1>10, <1>11 DEF AuthorReady
<1> QED BY AuthorMoves, <1>1, <1>7, <1>8, <1>9, <1>12

LEMMA ReadFileKeeps == ASSUME AuthorInv, NEW c \in Commands, Authors!ReadFile(c) PROVE AuthorInv'
<1> DEFINE s == [authorCmd[c] EXCEPT !.file = drafts[authorCmd[c].name].file, !.at = "verifies"]
<1>1. UNCHANGED <<catalog, held, drafts, cases, saves, last>> BY DEF Authors!ReadFile
<1>2. authorCmd[c] \in AuthorTheCommand /\ authorCmd[c].at = "copies" BY DEF AuthorInv, AuthTyped,
   Authors!ReadFile
<1>3. [op |-> authorCmd[c].op, name |-> authorCmd[c].name] \in Authors!Operations
      /\ authorCmd[c].op \in {"draft", "validate", "freeze"}
  BY <1>2 DEF AuthorInv, AuthorAttended, AuthorReady, Inside
<1>4. authorCmd[c].name \in Candidates BY <1>3, Called
<1>5. drafts[authorCmd[c].name].file \in Copies BY <1>4 DEF AuthorInv, AuthTyped, AuthorWritten, Copies
<1>6. "verifies" \in AuthorPlaces BY DEF AuthorPlaces
<1>7. authorCmd' = [authorCmd EXCEPT ![c] = s] BY DEF Authors!ReadFile, Authors!Becomes
<1>8. s \in AuthorTheCommand /\ s.at = "verifies" /\ s.read = authorCmd[c].read /\ s.op = authorCmd[c].op
      /\ s.name = authorCmd[c].name
  BY <1>2, <1>5, <1>6 DEF AuthorTheCommand
<1> HIDE DEF s
<1>9. Locked(c, s, held', catalog) BY <1>1, <1>2, <1>8 DEF AuthorInv, AuthorAttended, Locked, Inside
<1>10. ItsDecision(s) = ItsDecision(authorCmd[c]) BY <1>8 DEF ItsDecision
<1>11. AuthorReady(authorCmd[c], cases) BY DEF AuthorInv, AuthorAttended
<1>12. AuthorReady(s, cases') BY <1>2, <1>3, <1>8, <1>10, <1>11 DEF AuthorReady
<1> QED BY AuthorMoves, <1>1, <1>7, <1>8, <1>9, <1>12

LEMMA VerifyKeeps == ASSUME AuthorInv, NEW c \in Commands, Authors!Verify(c) PROVE AuthorInv'
<1>1. UNCHANGED <<catalog, drafts, cases, saves, last>> BY DEF Authors!Verify
<1>2. CASE Authors!Fits(c)
  <2> DEFINE to == IF authorCmd[c].op = "freeze" THEN "puts" ELSE "saves"
             s == [authorCmd[c] EXCEPT !.at = to]
  <2>1. authorCmd[c] \in AuthorTheCommand /\ authorCmd[c].at = "verifies" BY DEF AuthorInv, AuthTyped,
     Authors!Verify
  <2>2. to \in AuthorPlaces BY DEF AuthorPlaces
  <2>3. authorCmd' = [authorCmd EXCEPT ![c] = s] /\ held' = held
    BY <1>2 DEF Authors!Verify, Authors!Goto, Authors!Becomes
  <2>4. /\ s \in AuthorTheCommand /\ s.at = to /\ s.read = authorCmd[c].read /\ s.op = authorCmd[c].op
        /\ s.name = authorCmd[c].name
        /\ s.draft = authorCmd[c].draft /\ s.file = authorCmd[c].file
    BY <2>1, <2>2 DEF AuthorTheCommand
  <2> HIDE DEF s
  <2>5. Locked(c, s, held', catalog) BY <2>1, <2>3, <2>4 DEF AuthorInv, AuthorAttended, Locked, Inside
  <2>6. ItsDecision(s) = Authors!Decision(c) /\ ItsDecision(authorCmd[c]) = Authors!Decision(c)
        /\ ItsContent(s) = Authors!Content(c)
    BY <2>4 DEF ItsDecision, Authors!Decision, ItsContent, Authors!Content
  <2>7. /\ s.op = "freeze" => /\ Authors!Decision(c).validation # None /\ s.draft \in Fit
                              /\ Authors!Decision(c).validation.content = Authors!Content(c)
        /\ s.op = "validate" => s.draft \in Fit
    BY <1>2, <2>4 DEF Authors!Fits, Authors!Validated
  <2>8. AuthorReady(authorCmd[c], cases) BY DEF AuthorInv, AuthorAttended
  <2>9. AuthorReady(s, cases') BY <2>1, <2>4, <2>6, <2>7, <2>8 DEF AuthorReady, Inside
  <2> QED BY AuthorMoves, <1>1, <2>3, <2>4, <2>5, <2>9
<1>3. CASE ~Authors!Fits(c) BY <1>1, <1>3, AuthorEndKeeps DEF Authors!Verify, Authors!Ends, Authors!Becomes
<1> QED BY <1>2, <1>3

LEMMA PutKeeps == ASSUME AuthorInv, NEW c \in Commands, Authors!Put(c) PROVE AuthorInv'
<1> DEFINE s == [authorCmd[c] EXCEPT !.at = "saves"]
<1>1. UNCHANGED <<catalog, held, drafts, saves, last>> /\ cases' = cases \cup {Authors!Content(c)} BY
   DEF Authors!Put
<1>2. authorCmd[c] \in AuthorTheCommand /\ authorCmd[c].at = "puts" /\ authorCmd' = [authorCmd EXCEPT ![c] = s]
  BY DEF AuthorInv, AuthTyped, Authors!Put, Authors!Goto, Authors!Becomes
<1>3. "saves" \in AuthorPlaces BY DEF AuthorPlaces
<1>4. /\ s \in AuthorTheCommand /\ s.at = "saves" /\ s.read = authorCmd[c].read /\ s.op = authorCmd[c].op
      /\ s.name = authorCmd[c].name
      /\ s.draft = authorCmd[c].draft /\ s.file = authorCmd[c].file
  BY <1>2, <1>3 DEF AuthorTheCommand
<1> HIDE DEF s
<1>5. Locked(c, s, held', catalog) BY <1>1, <1>2, <1>4 DEF AuthorInv, AuthorAttended, Locked, Inside
<1>6. ItsDecision(s) = ItsDecision(authorCmd[c]) /\ ItsContent(s) = Authors!Content(c)
      /\ ItsContent(authorCmd[c]) = Authors!Content(c)
  BY <1>4 DEF ItsDecision, Authors!Decision, ItsContent, Authors!Content
<1>7. AuthorReady(authorCmd[c], cases) /\ Authors!Content(c) \in cases' BY <1>1 DEF AuthorInv, AuthorAttended
<1>8. AuthorReady(s, cases') BY <1>2, <1>4, <1>6, <1>7 DEF AuthorReady, Inside
<1> QED BY AuthorMoves, <1>1, <1>2, <1>4, <1>5, <1>8

-----------------------------------------------------------------------------
\* What an edit of the request leaves of the decisions: their states and cases, and no validation.
LEMMA Revision ==
    ASSUME NEW r \in Catalogs
    PROVE  /\ Authors!Revised(r) = [r EXCEPT !.request = r.request + 1,
                                    !.decisions = Authors!Unvalidated(r.decisions)]
           /\ Authors!Revised(r) \in Catalogs
           /\ Authors!Revised(r).decisions = Authors!Unvalidated(r.decisions)
              /\ Authors!Revised(r).revision = r.revision
           /\ Authors!Unvalidated(r.decisions) \in Decided
           /\ \A n \in Candidates :
                /\ Authors!Unvalidated(r.decisions)[n] = [r.decisions[n] EXCEPT !.validation = None]
                /\ Authors!Unvalidated(r.decisions)[n] \in Decisions /\ r.decisions[n] \in Decisions
                /\ Authors!Unvalidated(r.decisions)[n].validation = None
                /\ Authors!Unvalidated(r.decisions)[n].state = r.decisions[n].state
                /\ Authors!Unvalidated(r.decisions)[n].case = r.decisions[n].case
                /\ r.decisions[n].validation = None => Authors!Unvalidated(r.decisions)[n] = r.decisions[n]
<1>1. Authors!Revised(r) = [r EXCEPT !.request = r.request + 1, !.decisions = Authors!Unvalidated(r.decisions)]
  BY DEF Authors!Revised, Catalogs
<1>2. r.request + 1 \in Nat /\ r.decisions \in Decided BY DEF Catalogs
<1>3. ASSUME NEW n \in Candidates
      PROVE  /\ Authors!Unvalidated(r.decisions)[n] = [r.decisions[n] EXCEPT !.validation = None]
             /\ Authors!Unvalidated(r.decisions)[n] \in Decisions /\ r.decisions[n] \in Decisions
             /\ Authors!Unvalidated(r.decisions)[n].validation = None
             /\ Authors!Unvalidated(r.decisions)[n].state = r.decisions[n].state
             /\ Authors!Unvalidated(r.decisions)[n].case = r.decisions[n].case
             /\ r.decisions[n].validation = None => Authors!Unvalidated(r.decisions)[n] = r.decisions[n]
  <2>1. r.decisions[n] \in Decisions BY <1>2 DEF Decided
  <2>2. Authors!Unvalidated(r.decisions)[n] = [r.decisions[n] EXCEPT !.validation = None] BY
     DEF Authors!Unvalidated
  <2> QED BY <2>1, <2>2 DEF Decisions
<1>4. Authors!Unvalidated(r.decisions) \in Decided BY <1>3 DEF Decided, Authors!Unvalidated
<1>5. Authors!Revised(r) \in Catalogs /\ Authors!Revised(r).decisions = Authors!Unvalidated(r.decisions)
      /\ Authors!Revised(r).revision = r.revision
  BY <1>1, <1>2, <1>4 DEF Catalogs
<1> QED BY <1>1, <1>3, <1>4, <1>5

\* What the edit of a command that saves makes of the catalogue that it has read.
Judged(c) == authorCmd[c].op \in Authors!OfRequest
Target(c) == authorCmd[c].name
LEMMA Edits ==
    ASSUME AuthorInv, NEW c \in Commands, authorCmd[c].at = "saves"
    PROVE  /\ Authors!Edited(c) \in Catalogs /\ Authors!Edited(c).revision = catalog.revision
           /\ ~Judged(c) => Authors!Edited(c).decisions = catalog.decisions
           /\ \A n \in Candidates : Judged(c) /\ n # Target(c)
              => Authors!Edited(c).decisions[n] = Authors!Unvalidated(catalog.decisions)[n]
           /\ authorCmd[c].op = "gap"
              => \A n \in Candidates : Authors!Edited(c).decisions[n] = Authors!Unvalidated(catalog.decisions)[n]
           /\ authorCmd[c].op \in {"reject", "draft"} =>
                /\ Target(c) \in Candidates /\ ~Authors!Frozen(Target(c))
                /\ Authors!Edited(c).decisions[Target(c)].state # "frozen"
                /\ Authors!Edited(c).decisions[Target(c)].validation = None
           /\ authorCmd[c].op = "validate" =>
                /\ Target(c) \in Candidates /\ ~Authors!Frozen(Target(c)) /\ authorCmd[c].draft \in Fit
                /\ Authors!Edited(c).decisions[Target(c)].state # "frozen"
                /\ Authors!Edited(c).decisions[Target(c)].validation.content = Authors!Content(c)
           /\ authorCmd[c].op = "freeze" =>
                /\ Target(c) \in Candidates /\ ~Authors!Frozen(Target(c)) /\ Authors!Content(c) \in cases
                   /\ authorCmd[c].draft \in Fit
                /\ Authors!Edited(c).decisions[Target(c)].case = Authors!Content(c)
                /\ Authors!Edited(c).decisions[Target(c)].validation = None
                /\ catalog.decisions[Target(c)].validation # None
                /\ catalog.decisions[Target(c)].validation.content = Authors!Content(c)
<1> DEFINE r == catalog
           n == Target(c)
           u == Authors!Unvalidated(r.decisions)
<1>1. r \in Catalogs /\ authorCmd[c] \in AuthorTheCommand BY DEF AuthorInv, AuthTyped
<1>2. authorCmd[c].read = r /\ [op |-> authorCmd[c].op, name |-> n] \in Authors!Operations
      /\ AuthorReady(authorCmd[c], cases)
  BY DEF AuthorInv, AuthorAttended, Locked, AuthorReady, Inside, Target
<1>3. /\ Authors!Revised(r) = [r EXCEPT !.request = r.request + 1, !.decisions = u]
      /\ Authors!Revised(r) \in Catalogs /\ Authors!Revised(r).decisions = u
         /\ Authors!Revised(r).revision = r.revision /\ u \in Decided
  BY <1>1, Revision
<1>4. ItsDecision(authorCmd[c]) = r.decisions[n] /\ Authors!Decision(c) = r.decisions[n]
      /\ ItsContent(authorCmd[c]) = Authors!Content(c)
  BY <1>2 DEF ItsDecision, Authors!Decision, Target, ItsContent, Authors!Content
<1>5. CASE ~Judged(c)
  <2>1. authorCmd[c].op \in {"select", "request", "triage", "voice", "unvoice"}
    BY <1>2, <1>5, Called DEF Judged, Authors!OfRequest, Target
  <2>2. r.triage \in {0, 1} /\ 1 - r.triage \in {0, 1} /\ r.triage \in Voices /\ None \in Voices
    BY <1>1 DEF Catalogs, Voices
  <2>3. Authors!Edited(c) \in Catalogs /\ Authors!Edited(c).revision = r.revision
        /\ Authors!Edited(c).decisions = r.decisions
    <3>1. CASE authorCmd[c].op = "select" BY <3>1, <1>1, <1>2 DEF Authors!Edited, Catalogs
    <3>2. CASE authorCmd[c].op = "request" BY <3>2, <1>1, <1>2 DEF Authors!Edited, Catalogs
    <3>3. CASE authorCmd[c].op = "triage"
      <4>1. Authors!Edited(c) = [r EXCEPT !.triage = 1 - r.triage] BY <3>3, <1>1, <1>2 DEF Authors!Edited
      <4> QED BY <4>1, <1>1, <2>2 DEF Catalogs
    <3>4. CASE authorCmd[c].op = "voice"
      <4>1. Authors!Edited(c) = [r EXCEPT !.voice = r.triage] BY <3>4, <1>1, <1>2 DEF Authors!Edited
      <4> QED BY <4>1, <1>1, <2>2 DEF Catalogs
    <3>5. CASE authorCmd[c].op = "unvoice"
      <4>1. Authors!Edited(c) = [r EXCEPT !.voice = None] BY <3>5, <1>1, <1>2 DEF Authors!Edited
      <4> QED BY <4>1, <1>1, <2>2 DEF Catalogs
    <3> QED BY <2>1, <3>1, <3>2, <3>3, <3>4, <3>5
  <2>4. authorCmd[c].op \notin {"gap", "reject", "draft", "validate", "freeze"} BY <1>5 DEF Judged,
     Authors!OfRequest
  <2> QED BY <1>5, <2>3, <2>4
<1>6. CASE authorCmd[c].op = "gap"
  <2>1. Authors!Edited(c) = Authors!Revised(r) BY <1>6, <1>2 DEF Authors!Edited
  <2> QED BY <2>1, <1>3, <1>6 DEF Judged, Authors!OfRequest
<1>7. CASE authorCmd[c].op \in {"reject", "draft", "validate", "freeze"}
  <2>1. n \in Candidates /\ Judged(c) BY <1>2, <1>7, Called DEF Judged, Authors!OfRequest, Target
  <2>2. r.decisions[n] \in Decisions /\ u[n] \in Decisions /\ u[n] = [r.decisions[n] EXCEPT !.validation = None]
        /\ u[n].validation = None /\ u[n].state = r.decisions[n].state
    BY <2>1, <1>1, Revision
  <2>3. Authors!Content(c) \in AuthorContents
    BY <1>1, <1>4, <2>2 DEF Authors!Content, AuthorContents, AuthorTheCommand, Decisions, Copies
  <2> HIDE DEF u
  <2>4. ASSUME NEW decision \in Decisions,
               Authors!Edited(c) = [Authors!Revised(r) EXCEPT !.decisions = [u EXCEPT ![n] = decision]]
        PROVE  /\ Authors!Edited(c) \in Catalogs /\ Authors!Edited(c).revision = r.revision
               /\ Authors!Edited(c).decisions[n] = decision
               /\ \A m \in Candidates : m # n => Authors!Edited(c).decisions[m] = u[m]
    <3>1. [u EXCEPT ![n] = decision] \in Decided BY <1>3 DEF Decided
    <3>2. Authors!Edited(c) \in Catalogs /\ Authors!Edited(c).revision = r.revision
          /\ Authors!Edited(c).decisions = [u EXCEPT ![n] = decision]
      BY <1>3, <2>4, <3>1 DEF Catalogs
    <3> QED BY <3>2, <1>3, <2>1 DEF Decided
  <2>5. CASE authorCmd[c].op \in {"reject", "draft"}
    <3> DEFINE state == IF authorCmd[c].op = "reject" THEN "rejected" ELSE "drafted"
               decision == [Authors!Undecided EXCEPT !.state = state, !.said = r.request]
    <3>1. Authors!Edited(c) = Authors!Recorded(r, n, state) BY <2>5, <1>2 DEF Authors!Edited, Target
    <3>2. state \in AuthorStates /\ r.request \in Nat /\ state # "frozen" BY <1>1 DEF AuthorStates, Catalogs
    <3>3. decision \in Decisions /\ decision.state = state /\ decision.validation = None
      BY <3>2 DEF Decisions, Authors!Undecided
    <3>4. Authors!Edited(c) = [Authors!Revised(r) EXCEPT !.decisions = [u EXCEPT ![n] = decision]]
      BY <3>1, <1>3 DEF Authors!Recorded, Catalogs
    <3> HIDE DEF decision
    <3>5. r.decisions[n].state # "frozen" BY <1>2, <1>4, <2>5 DEF AuthorReady
    <3> QED BY <3>2, <3>3, <3>4, <3>5, <2>1, <2>4, <2>5 DEF Authors!Frozen, u
  <2>6. CASE authorCmd[c].op = "validate"
    <3> DEFINE validation == [revision |-> r.request + 1, content |-> Authors!Content(c)]
               decision == [u[n] EXCEPT !.validation = validation]
    <3>1. Authors!Edited(c) = [Authors!Revised(r) EXCEPT !.decisions[n].validation = validation]
      BY <2>6, <1>2 DEF Authors!Edited, Target
    <3>2. validation \in Validations /\ validation.content = Authors!Content(c)
      BY <1>1, <2>3 DEF Validations, Catalogs
    <3> HIDE DEF validation
    <3>3. decision \in Decisions /\ decision.state = u[n].state /\ decision.validation = validation
      BY <2>2, <3>2 DEF Decisions
    <3>4. Authors!Edited(c) = [Authors!Revised(r) EXCEPT !.decisions = [u EXCEPT ![n] = decision]]
      BY <3>1, <1>3 DEF Catalogs
    <3> HIDE DEF decision
    <3>5. r.decisions[n].state = "drafted" /\ authorCmd[c].draft \in Fit BY <1>2, <1>4, <2>6 DEF AuthorReady
    <3> QED BY <3>2, <3>3, <3>4, <3>5, <2>1, <2>2, <2>4, <2>6 DEF Authors!Frozen, u
  <2>7. CASE authorCmd[c].op = "freeze"
    <3> DEFINE decision == [u[n] EXCEPT !.state = "frozen", !.case = Authors!Content(c)]
    <3>1. Authors!Edited(c) = [Authors!Revised(r) EXCEPT !.decisions[n].state = "frozen",
                               !.decisions[n].case = Authors!Content(c)]
      BY <2>7, <1>2 DEF Authors!Edited, Target
    <3>2. "frozen" \in AuthorStates BY DEF AuthorStates
    <3>3. decision \in Decisions /\ decision.case = Authors!Content(c) /\ decision.validation = None
      BY <2>2, <2>3, <3>2 DEF Decisions
    <3>4. Authors!Edited(c) = [Authors!Revised(r) EXCEPT !.decisions = [u EXCEPT ![n] = decision]]
      <4> DEFINE first == [u[n] EXCEPT !.state = "frozen"]
                 once == [u EXCEPT ![n] = first]
      <4>1. once = [u EXCEPT ![n].state = "frozen"] /\ once[n] = first BY <1>3, <2>1 DEF Decided
      <4>2. [Authors!Revised(r) EXCEPT !.decisions[n].state = "frozen"] = [Authors!Revised(r) EXCEPT !.decisions = once]
        BY <1>3, <4>1 DEF Catalogs
      <4>3. Authors!Edited(c) = [[Authors!Revised(r) EXCEPT !.decisions = once] EXCEPT !.decisions[n].case = Authors!Content(c)]
        BY <3>1, <4>2
      <4>4. Authors!Edited(c) = [Authors!Revised(r) EXCEPT !.decisions = [once EXCEPT ![n].case = Authors!Content(c)]]
        BY <4>3, <1>3 DEF Catalogs
      <4>5. [once EXCEPT ![n].case = Authors!Content(c)] = [u EXCEPT ![n] = [first EXCEPT !.case = Authors!Content(c)]]
        BY <4>1, <1>3, <2>1 DEF Decided
      <4> QED BY <4>4, <4>5
    <3> HIDE DEF decision
    <3>5. /\ r.decisions[n].state = "drafted" /\ authorCmd[c].draft \in Fit /\ Authors!Content(c) \in cases
          /\ r.decisions[n].validation # None /\ r.decisions[n].validation.content = Authors!Content(c)
      BY <1>2, <1>4, <2>7 DEF AuthorReady
    <3> QED BY <3>3, <3>4, <3>5, <2>1, <2>4, <2>7 DEF Authors!Frozen, u
  <2> QED BY <1>7, <2>5, <2>6, <2>7
<1> QED BY <1>5, <1>6, <1>7 DEF Judged, Authors!OfRequest

\* What a save makes of the catalogue.
LEMMA Saves ==
    ASSUME AuthorInv, NEW c \in Commands, Authors!Save(c), ~UNCHANGED <<catalog, saves, last>>
    PROVE  /\ catalog' \in Catalogs /\ catalog'.revision = catalog.revision + 1 /\ saves' = saves + 1
           /\ catalog'.decisions = Authors!Edited(c).decisions
           /\ last' = IF Judged(c)
                      THEN [op |-> authorCmd[c].op, name |-> authorCmd[c].name, draft |-> authorCmd[c].draft,
                            file |-> authorCmd[c].file]
                      ELSE last
<1>1. catalog' = [Authors!Edited(c) EXCEPT !.revision = @ + 1] /\ saves' = saves + 1
      /\ authorCmd[c].at = "saves"
  BY DEF Authors!Save
<1>2. Authors!Edited(c) \in Catalogs /\ Authors!Edited(c).revision = catalog.revision BY <1>1, Edits
<1>3. catalog' = [Authors!Edited(c) EXCEPT !.revision = catalog.revision + 1] BY <1>1, <1>2
<1>4. catalog.revision + 1 \in Nat BY DEF AuthorInv, AuthTyped, Catalogs
<1>5. catalog' \in Catalogs /\ catalog'.revision = catalog.revision + 1
      /\ catalog'.decisions = Authors!Edited(c).decisions
  BY <1>2, <1>3, <1>4 DEF Catalogs
<1> QED BY <1>1, <1>5 DEF Authors!Save, Judged

LEMMA SaveKeeps == ASSUME AuthorInv, NEW c \in Commands, Authors!Save(c) PROVE AuthorInv'
<1>1. authorCmd' = [authorCmd EXCEPT ![c] = Authors!Idle] /\ authorCmd[c].at = "saves"
      /\ UNCHANGED <<drafts, cases>>
  BY DEF Authors!Save, Authors!Ends, Authors!Becomes
<1>2. held = c BY <1>1 DEF AuthorInv, AuthorAttended, Locked, Inside
<1>3. CASE UNCHANGED <<catalog, saves, last>> BY AuthorEndKeeps, <1>1, <1>2, <1>3
<1>4. CASE ~UNCHANGED <<catalog, saves, last>>
  <2>1. /\ catalog' \in Catalogs /\ catalog'.revision = catalog.revision + 1 /\ saves' = saves + 1
        /\ catalog'.decisions = Authors!Edited(c).decisions
        /\ last' = IF Judged(c)
                   THEN [op |-> authorCmd[c].op, name |-> authorCmd[c].name, draft |-> authorCmd[c].draft,
                         file |-> authorCmd[c].file]
                   ELSE last
    BY <1>4, Saves
  <2>2. Authors!ConstantsFit' /\ AuthTyped' BY <2>1, <1>1, AtRest DEF AuthorInv, Authors!ConstantsFit,
     AuthTyped
  <2>3. AuthorAttended'
    <3> SUFFICES ASSUME NEW d \in Commands
                 PROVE  Locked(d, authorCmd'[d], held', catalog') /\ AuthorReady(authorCmd'[d], cases')
      BY DEF AuthorAttended
    <3>1. CASE d = c
      <4>1. authorCmd'[d] = Authors!Idle BY <3>1, <1>1 DEF AuthorInv, AuthTyped
      <4> QED BY <4>1, AtRest
    <3>2. CASE d # c
      <4>1. authorCmd'[d] = authorCmd[d] BY <3>2, <1>1 DEF AuthorInv, AuthTyped
      <4>2. authorCmd[d].at \notin Inside BY <3>2, <1>2 DEF AuthorInv, AuthorAttended, Locked
      <4>3. AuthorReady(authorCmd[d], cases) BY DEF AuthorInv, AuthorAttended
      <4> QED BY <4>1, <4>2, <4>3, <1>1 DEF Locked
    <3> QED BY <3>1, <3>2
  <2>4. \A n \in Candidates :
          /\ Authors!Unvalidated(catalog.decisions)[n].validation = None
          /\ Authors!Unvalidated(catalog.decisions)[n].state = catalog.decisions[n].state
          /\ Authors!Unvalidated(catalog.decisions)[n].case = catalog.decisions[n].case
    BY Revision DEF AuthorInv, AuthTyped
  <2>5. Authors!EditsKept'
    <3>1. ASSUME NEW n \in Candidates, catalog'.decisions[n].state = "frozen"
          PROVE  catalog'.decisions[n].case \in cases
      <4>1. catalog.decisions[n].state = "frozen" => catalog.decisions[n].case \in cases
        BY DEF AuthorInv, Authors!EditsKept
      <4> QED BY <4>1, <3>1, <2>1, <2>4, <1>1, Edits DEF Judged, Authors!OfRequest, Target
    <3> QED BY <3>1, <2>1, <1>1 DEF Authors!EditsKept, AuthorInv
  <2>6. FrozenApart'
    <3> SUFFICES ASSUME NEW n \in Candidates,
       Authors!Frozen(n)' PROVE catalog'.decisions[n].validation = None BY DEF FrozenApart
    <3>1. catalog.decisions[n].state = "frozen" => catalog.decisions[n].validation = None
      BY DEF AuthorInv, FrozenApart, Authors!Frozen
    <3> QED BY <3>1, <2>1, <2>4, <1>1, Edits DEF Judged, Authors!OfRequest, Target, Authors!Frozen
  <2>7. ValidatedLast'
    <3> SUFFICES ASSUME NEW n \in Candidates, catalog'.decisions[n].validation # None
                 PROVE  LET content == catalog'.decisions[n].validation.content
                        IN  /\ last' = [op |-> "validate", name |-> n, draft |-> content.draft,
                                        file |-> content.file]
                            /\ content.draft \in Fit
      BY DEF ValidatedLast
    <3>1. CASE ~Judged(c)
      <4>1. catalog'.decisions[n] = catalog.decisions[n] /\ last' = last BY <3>1, <2>1, <1>1, Edits
      <4> QED BY <4>1 DEF AuthorInv, ValidatedLast
    <3>2. CASE Judged(c)
      <4>1. n = Target(c) /\ authorCmd[c].op = "validate"
        BY <3>2, <2>1, <2>4, <1>1, Edits DEF Judged, Authors!OfRequest
      <4>2. catalog'.decisions[n].validation.content = Authors!Content(c) /\ authorCmd[c].draft \in Fit
        BY <4>1, <2>1, <1>1, Edits
      <4>3. last' = [op |-> "validate", name |-> n, draft |-> authorCmd[c].draft, file |-> authorCmd[c].file]
        BY <4>1, <3>2, <2>1 DEF Target
      <4> QED BY <4>2, <4>3 DEF Authors!Content
    <3> QED BY <3>1, <3>2
  <2> QED BY <2>2, <2>3, <2>5, <2>6, <2>7 DEF AuthorInv
<1> QED BY <1>3, <1>4

LEMMA AuthorKept == Authors!Spec /\ Authors!ConstantsFit => []AuthorInv
<1>1. Authors!Init /\ Authors!ConstantsFit => AuthorInv BY AuthorBegins
<1>2. ASSUME AuthorInv, [Authors!Next]_(Authors!vars) PROVE AuthorInv'
  <2>1. CASE UNCHANGED Authors!vars BY <1>2, <2>1, AuthorRest
  <2>2. ASSUME NEW n \in Candidates, Authors!WriteDraft(n) \/ Authors!WriteFile(n)
        PROVE  AuthorInv' BY <1>2, <2>2, AuthorUserKeeps
  <2>3. ASSUME NEW c \in Commands,
               \/ Authors!Inspect(c) \/ Authors!Busy(c) \/ Authors!Enter(c) \/ Authors!Check(c)
               \/ Authors!ReadDraft(c) \/ Authors!ReadFile(c)
               \/ Authors!Verify(c) \/ Authors!Put(c) \/ Authors!Save(c) \/ Authors!Kill(c)
        PROVE  AuthorInv'
    <3>1. CASE Authors!Inspect(c) BY <1>2, <3>1, InspectKeeps
    <3>2. CASE Authors!Busy(c) BY <1>2, <3>2, AuthorEndKeeps DEF Authors!Busy, Authors!Becomes
    <3>3. CASE Authors!Enter(c) BY <1>2, <3>3, EnterKeeps
    <3>4. CASE Authors!Check(c) BY <1>2, <3>4, AuthorCheckKeeps
    <3>5. CASE Authors!ReadDraft(c) BY <1>2, <3>5, ReadDraftKeeps
    <3>6. CASE Authors!ReadFile(c) BY <1>2, <3>6, ReadFileKeeps
    <3>7. CASE Authors!Verify(c) BY <1>2, <3>7, VerifyKeeps
    <3>8. CASE Authors!Put(c) BY <1>2, <3>8, PutKeeps
    <3>9. CASE Authors!Save(c) BY <1>2, <3>9, SaveKeeps
    <3>10. CASE Authors!Kill(c) BY <1>2, <3>10, AuthorEndKeeps DEF Authors!Kill, Authors!Ends, Authors!Becomes
    <3> QED BY <2>3, <3>1, <3>2, <3>3, <3>4, <3>5, <3>6, <3>7, <3>8, <3>9, <3>10
  <2> QED BY <1>2, <2>1, <2>2, <2>3 DEF Authors!Next
<1> QED BY <1>1, <1>2, PTL DEF Authors!Spec

\* Of commands that edit the catalogue at once none loses another's edit, and a frozen case can be loaded
\* (AuthoringCatalog's edits under its lock and revision).
THEOREM EditsStayKept == ASSUME Authors!ConstantsFit PROVE Authors!Spec => []Authors!EditsKept
<1>1. AuthorInv => Authors!EditsKept BY DEF AuthorInv
<1> QED BY <1>1, AuthorKept, PTL

LEMMA SaveFreezes == ASSUME AuthorInv, NEW c \in Commands, Authors!Save(c) PROVE Authors!FrozenStep
<1>1. authorCmd[c].at = "saves" BY DEF Authors!Save
<1>2. CASE UNCHANGED <<catalog, saves, last>> BY <1>2 DEF Authors!FrozenStep, Authors!Frozen
<1>3. CASE ~UNCHANGED <<catalog, saves, last>>
  <2> SUFFICES ASSUME NEW n \in Candidates
               PROVE  /\ Authors!Frozen(n) => catalog'.decisions[n] = catalog.decisions[n]
                      /\ Authors!Frozen(n)' /\ ~Authors!Frozen(n) =>
                           LET case == catalog'.decisions[n].case
                           IN  /\ last = [op |-> "validate", name |-> n, draft |-> case.draft, file |-> case.file]
                               /\ case.draft \in Fit /\ case.said = catalog.decisions[n].said
    BY DEF Authors!FrozenStep
  <2>1. catalog'.decisions = Authors!Edited(c).decisions BY <1>3, Saves
  <2>2. /\ Authors!Unvalidated(catalog.decisions)[n].state = catalog.decisions[n].state
        /\ catalog.decisions[n].validation = None
           => Authors!Unvalidated(catalog.decisions)[n] = catalog.decisions[n]
    BY Revision DEF AuthorInv, AuthTyped
  <2>3. ASSUME Authors!Frozen(n) PROVE catalog'.decisions[n] = catalog.decisions[n]
    <3>1. catalog.decisions[n].validation = None BY <2>3 DEF AuthorInv, FrozenApart
    <3>2. n # Target(c) \/ authorCmd[c].op = "gap" \/ ~Judged(c) BY <2>3, <1>1, Edits DEF Judged,
       Authors!OfRequest
    <3> QED BY <3>1, <3>2, <2>1, <2>2, <1>1, Edits DEF Judged, Authors!OfRequest
  <2>4. ASSUME Authors!Frozen(n)', ~Authors!Frozen(n)
        PROVE  LET case == catalog'.decisions[n].case
               IN  /\ last = [op |-> "validate", name |-> n, draft |-> case.draft, file |-> case.file]
                   /\ case.draft \in Fit /\ case.said = catalog.decisions[n].said
    <3>1. n = Target(c) /\ authorCmd[c].op = "freeze"
      BY <2>4, <2>1, <2>2, <1>1, Edits DEF Judged, Authors!OfRequest, Authors!Frozen
    <3>2. /\ catalog'.decisions[n].case = Authors!Content(c) /\ authorCmd[c].draft \in Fit
          /\ catalog.decisions[n].validation # None
             /\ catalog.decisions[n].validation.content = Authors!Content(c)
      BY <3>1, <2>1, <1>1, Edits
    <3>3. last = [op |-> "validate", name |-> n, draft |-> Authors!Content(c).draft,
                  file |-> Authors!Content(c).file]
      BY <3>2 DEF AuthorInv, ValidatedLast
    <3>4. Authors!Content(c).draft = authorCmd[c].draft BY DEF Authors!Content
    <3>5. Authors!Content(c).said = catalog.decisions[n].said
      <4>1. authorCmd[c].read = catalog BY <1>1 DEF AuthorInv, AuthorAttended, Locked, Inside
      <4> QED BY <4>1, <3>1 DEF Authors!Content, Authors!Decision, Target
    <3> QED BY <3>2, <3>3, <3>4, <3>5
  <2> QED BY <2>3, <2>4
<1> QED BY <1>2, <1>3

\* However the files of a draft are written meanwhile, it is frozen only as it was validated by the edit just before, and
\* stays as it is (freeze_candidate).
THEOREM FrozenAsValidated == ASSUME Authors!ConstantsFit PROVE Authors!Spec => Authors!FrozenKept
<1>1. ASSUME AuthorInv, [Authors!Next]_(Authors!vars) PROVE [Authors!FrozenStep]_(Authors!vars)
  <2>1. CASE UNCHANGED Authors!vars BY <2>1
  <2>2. ASSUME UNCHANGED catalog PROVE Authors!FrozenStep BY <2>2 DEF Authors!FrozenStep, Authors!Frozen
  <2>3. ASSUME NEW n \in Candidates, Authors!WriteDraft(n) \/ Authors!WriteFile(n) PROVE Authors!FrozenStep
    BY <2>2, <2>3 DEF Authors!WriteDraft, Authors!WriteFile
  <2>4. ASSUME NEW c \in Commands,
               \/ Authors!Inspect(c) \/ Authors!Busy(c) \/ Authors!Enter(c) \/ Authors!Check(c)
               \/ Authors!ReadDraft(c) \/ Authors!ReadFile(c)
               \/ Authors!Verify(c) \/ Authors!Put(c) \/ Authors!Save(c) \/ Authors!Kill(c)
        PROVE  Authors!FrozenStep
    <3>1. CASE Authors!Save(c) BY <1>1, <3>1, SaveFreezes
    <3>2. CASE ~Authors!Save(c)
      <4>1. UNCHANGED catalog
        BY <2>4, <3>2 DEF Authors!Inspect, Authors!Busy, Authors!Enter, Authors!Check, Authors!ReadDraft,
           Authors!ReadFile, Authors!Verify, Authors!Put, Authors!Kill
      <4> QED BY <4>1, <2>2
    <3> QED BY <3>1, <3>2
  <2> QED BY <1>1, <2>1, <2>3, <2>4 DEF Authors!Next
<1>9. Authors!Spec => [][Authors!FrozenStep]_(Authors!vars)
  BY <1>1, AuthorKept, PTL DEF Authors!Spec
<1> QED BY <1>9 DEF Authors!FrozenKept

-----------------------------------------------------------------------------
(* Benchmarks (BenchRuns). *)

MaybeOptions == Bench!Options \cup {None}
Passes == BOOLEAN
ARun == [experiment : Experiments, options : MaybeOptions, captured : Nat, graded : Nat, passed : Passes]
BenchPlaces == {"pilot", "lookup", "check", "create", "open", "configure", "native", "capture", "assess", "grade",
                "report"}
Maybe == Nat \cup {None}
BenchTheCommand ==
    [at : BenchPlaces, experiment : Experiments, options : Bench!Options, new : BOOLEAN, check : BOOLEAN,
     began : Nat, run : Maybe,
     gives : BOOLEAN]

BenchTyped == runs \in Seq(ARun) /\ benchCmd \in [Commands -> BenchTheCommand \cup {Bench!Idle}]

\* No run has more attempts than its experiment has trials, or more grades than attempts, or attempts without options.
BenchFits(run) ==
    /\ run.graded <= run.captured /\ run.captured <= Trials[run.experiment]
    /\ run.captured > 0 => run.options # None
RunsFit == \A r \in Bench!Runs : BenchFits(runs[r])

\* What a command at work knows of its run, whoever else works on it.
BenchWhole(run) == run.captured = Trials[run.experiment]
Configured == {"native", "capture", "assess", "grade", "report"}
BenchChosen(s, all) ==
    /\ s.at \in {"open", "configure"} \cup Configured => s.run # None
    /\ s.at \in {"pilot", "lookup"} => s.gives
    /\ s.run # None =>
         /\ s.run \in 1..Len(all) /\ all[s.run].experiment = s.experiment
         /\ s.at \in Configured \/ ~s.gives => all[s.run].options = s.options
         /\ s.at \in {"assess", "grade", "report"} => BenchWhole(all[s.run])
         /\ s.at = "report" => all[s.run].graded = all[s.run].captured
    /\ ~s.gives => s.run # None

\* One that is to create a run has found none that it might resume, of those there were when it began.
Suits(run, s) == run.experiment = s.experiment /\ run.options \in {None, s.options}
BenchApart(s, all) ==
    /\ s.began <= Len(all)
    /\ s.at \in {"check", "create"} /\ s.run = None /\ ~s.new => \A r \in 1..s.began : ~Suits(all[r], s)
    /\ s.at = "create" => s.run = None

BenchAttended == \A c \in Commands : benchCmd[c] # Bench!Idle => BenchChosen(benchCmd[c], runs)
   /\ BenchApart(benchCmd[c], runs)

\* What has been reported of a run stays true of it.
Answered(said, all) ==
    /\ said.options \in Bench!Options /\ said.run \in 1..Len(all)
    /\ BenchWhole(all[said.run]) /\ all[said.run].graded = all[said.run].captured
    /\ all[said.run].experiment = said.experiment /\ all[said.run].options = said.options
AllAnswered == \A said \in reported : Answered(said, runs)

BenchInv == Bench!ConstantsFit /\ BenchTyped /\ RunsFit /\ BenchAttended /\ AllAnswered

-----------------------------------------------------------------------------
\* Runs only grow, keep their options, and when they are whole stay so.
BenchOnward(old, new) ==
    /\ Len(old) <= Len(new)
    /\ \A r \in 1..Len(old) :
         /\ new[r].experiment = old[r].experiment
         /\ old[r].options # None => new[r].options = old[r].options
         /\ BenchWhole(old[r]) => BenchWhole(new[r])
         /\ BenchWhole(old[r]) /\ old[r].graded = old[r].captured => new[r].graded = new[r].captured

LEMMA TrialsNumber == ASSUME Bench!ConstantsFit, NEW e \in Experiments PROVE Trials[e] \in Bench!Numbers
<1>1. Trials \in Seq(Bench!Numbers) /\ e \in 1..Len(Trials) BY DEF Bench!ConstantsFit
<1> QED BY <1>1, ElementOfSeq

\* What a command knows, and what was reported, holds of the runs as they go on.
LEMMA Lasting ==
    ASSUME Bench!ConstantsFit, NEW old \in Seq(ARun), NEW new \in Seq(ARun), BenchOnward(old, new)
    PROVE  /\ \A s \in BenchTheCommand : BenchChosen(s, old) => BenchChosen(s, new)
           /\ \A s \in BenchTheCommand : BenchApart(s, old) => BenchApart(s, new)
           /\ \A said : Answered(said, old) => Answered(said, new)
<1>1. Len(old) \in Nat /\ Len(new) \in Nat /\ Len(old) <= Len(new) BY DEF BenchOnward
<1>2. ASSUME NEW s \in BenchTheCommand, BenchChosen(s, old) PROVE BenchChosen(s, new)
  <2>1. s.options # None BY DEF BenchTheCommand, Bench!ConstantsFit
  <2>2. ASSUME s.run # None
        PROVE  /\ s.run \in 1..Len(new) /\ new[s.run].experiment = s.experiment
               /\ s.at \in Configured \/ ~s.gives => new[s.run].options = s.options
               /\ s.at \in {"assess", "grade", "report"} => BenchWhole(new[s.run])
               /\ s.at = "report" => new[s.run].graded = new[s.run].captured
    <3>1. /\ s.run \in 1..Len(old) /\ old[s.run].experiment = s.experiment
          /\ s.at \in Configured \/ ~s.gives => old[s.run].options = s.options
          /\ s.at \in {"assess", "grade", "report"} => BenchWhole(old[s.run])
          /\ s.at = "report" => old[s.run].graded = old[s.run].captured
      BY <1>2, <2>2 DEF BenchChosen
    <3>2. s.run \in 1..Len(new) BY <1>1, <3>1
    <3>3. /\ new[s.run].experiment = old[s.run].experiment
          /\ old[s.run].options # None => new[s.run].options = old[s.run].options
          /\ BenchWhole(old[s.run]) => BenchWhole(new[s.run])
          /\ BenchWhole(old[s.run]) /\ old[s.run].graded = old[s.run].captured
             => new[s.run].graded = new[s.run].captured
      BY <3>1 DEF BenchOnward
    <3> QED BY <2>1, <3>1, <3>2, <3>3
  <2> QED BY <1>2, <2>2 DEF BenchChosen
<1>3. ASSUME NEW s \in BenchTheCommand, BenchApart(s, old) PROVE BenchApart(s, new)
  <2>1. s.options # None /\ s.began \in Nat BY DEF BenchTheCommand, Bench!ConstantsFit
  <2>2. s.began <= Len(new) BY <1>1, <1>3, <2>1 DEF BenchApart
  <2>3. ASSUME NEW r \in 1..s.began, ~Suits(old[r], s) PROVE ~Suits(new[r], s)
    <3>1. r \in 1..Len(old) BY <1>1, <1>3, <2>1 DEF BenchApart
    <3> QED BY <2>1, <2>3, <3>1 DEF Suits, BenchOnward
  <2> QED BY <1>3, <2>2, <2>3 DEF BenchApart
<1>4. ASSUME NEW said, Answered(said, old) PROVE Answered(said, new)
  <2>1. said.options # None /\ said.run \in 1..Len(old) BY <1>4 DEF Answered, Bench!ConstantsFit
  <2>2. said.run \in 1..Len(new) BY <1>1, <2>1
  <2> QED BY <1>4, <2>1, <2>2 DEF Answered, BenchOnward
<1> QED BY <1>2, <1>3, <1>4

LEMMA Same == ASSUME NEW all \in Seq(ARun) PROVE BenchOnward(all, all)
<1>1. Len(all) \in Nat OBVIOUS
<1> QED BY <1>1 DEF BenchOnward

LEMMA AtWork ==
    ASSUME BenchInv, NEW c \in Commands, benchCmd[c].at # "idle"
    PROVE  benchCmd[c] \in BenchTheCommand /\ BenchChosen(benchCmd[c], runs) /\ BenchApart(benchCmd[c], runs)
<1>1. benchCmd[c] # Bench!Idle BY DEF Bench!Idle
<1>2. benchCmd[c] \in BenchTheCommand \cup {Bench!Idle} BY DEF BenchInv, BenchTyped
<1> QED BY <1>1, <1>2 DEF BenchInv, BenchAttended

\* A command goes on, and its run with it.
LEMMA BenchMoves ==
    ASSUME BenchInv, NEW c \in Commands, NEW s \in BenchTheCommand \cup {Bench!Idle},
           benchCmd' = [benchCmd EXCEPT ![c] = s],
           runs' \in Seq(ARun), RunsFit', BenchOnward(runs, runs'), s # Bench!Idle => BenchChosen(s, runs')
              /\ BenchApart(s, runs'),
           \A said \in reported' : said \in reported \/ Answered(said, runs')
    PROVE  BenchInv'
<1>1. Bench!ConstantsFit' /\ BenchTyped' BY DEF BenchInv, BenchTyped, Bench!ConstantsFit, Bench!Options,
   Bench!Idle
<1>2. runs \in Seq(ARun) /\ Bench!ConstantsFit BY DEF BenchInv, BenchTyped
<1>3. /\ \A r \in BenchTheCommand : BenchChosen(r, runs) => BenchChosen(r, runs')
      /\ \A r \in BenchTheCommand : BenchApart(r, runs) => BenchApart(r, runs')
      /\ \A said : Answered(said, runs) => Answered(said, runs')
  BY <1>2, Lasting
<1>4. ASSUME NEW d \in Commands, benchCmd'[d] # Bench!Idle
      PROVE  BenchChosen(benchCmd'[d], runs') /\ BenchApart(benchCmd'[d], runs')
  <2>1. CASE d = c
    <3>1. benchCmd'[d] = s BY <2>1 DEF BenchInv, BenchTyped
    <3> QED BY <1>4, <3>1
  <2>2. CASE d # c
    <3>1. benchCmd'[d] = benchCmd[d] BY <2>2 DEF BenchInv, BenchTyped
    <3>2. benchCmd[d] \in BenchTheCommand /\ BenchChosen(benchCmd[d], runs) /\ BenchApart(benchCmd[d], runs)
      BY <1>4, <3>1 DEF BenchInv, BenchTyped, BenchAttended
    <3> QED BY <1>3, <3>1, <3>2
  <2> QED BY <2>1, <2>2
<1>5. BenchAttended'
  <2>1. Bench!Idle' = Bench!Idle BY DEF Bench!Idle
  <2> QED BY <1>4, <2>1 DEF BenchAttended
<1>6. AllAnswered' BY <1>3 DEF BenchInv, AllAnswered
<1> QED BY <1>1, <1>5, <1>6 DEF BenchInv

\* A command goes on by itself.
LEMMA Steps ==
    ASSUME BenchInv, NEW c \in Commands, NEW s \in BenchTheCommand \cup {Bench!Idle},
           benchCmd' = [benchCmd EXCEPT ![c] = s],
           UNCHANGED <<runs, reported>>, s # Bench!Idle => BenchChosen(s, runs) /\ BenchApart(s, runs)
    PROVE  BenchInv'
<1>1. runs' \in Seq(ARun) /\ RunsFit' BY DEF BenchInv, BenchTyped, RunsFit, BenchFits, Bench!Runs
<1>2. BenchOnward(runs, runs') BY <1>1, Same
<1> QED BY BenchMoves, <1>1, <1>2

LEMMA BenchEndKeeps ==
    ASSUME BenchInv, NEW c \in Commands, benchCmd' = [benchCmd EXCEPT ![c] = Bench!Idle],
           UNCHANGED <<runs, reported>>
    PROVE  BenchInv'
BY Steps

LEMMA Goes ==
    ASSUME NEW s \in BenchTheCommand, NEW place \in BenchPlaces, NEW to, to = [s EXCEPT !.at = place]
    PROVE  /\ to \in BenchTheCommand /\ to.at = place /\ to.experiment = s.experiment /\ to.options = s.options
           /\ to.new = s.new
           /\ to.began = s.began /\ to.run = s.run /\ to.gives = s.gives /\ to.check = s.check
BY DEF BenchTheCommand

\* Where a command has been, it may go when nothing else is asked there of its run.
LEMMA GotoKeeps ==
    ASSUME BenchInv, NEW c \in Commands, benchCmd[c].at # "idle", NEW place \in BenchPlaces, Bench!Goto(c, place),
           UNCHANGED <<runs, reported>>,
           BenchChosen([benchCmd[c] EXCEPT !.at = place], runs), BenchApart([benchCmd[c] EXCEPT !.at = place], runs)
    PROVE  BenchInv'
<1> DEFINE s == [benchCmd[c] EXCEPT !.at = place]
<1>1. s \in BenchTheCommand BY AtWork, Goes
<1>2. benchCmd' = [benchCmd EXCEPT ![c] = s] BY DEF Bench!Goto
<1> HIDE DEF s
<1>3. BenchChosen(s, runs) /\ BenchApart(s, runs) BY DEF s
<1> QED BY Steps, <1>1, <1>2, <1>3

-----------------------------------------------------------------------------
LEMMA BeginKeeps == ASSUME BenchInv, NEW c \in Commands, Bench!Begin(c) PROVE BenchInv'
<1>1. PICK e \in Experiments, b \in Budgets, piloted \in {None} \cup Bench!Runs, new \in BOOLEAN, check \in BOOLEAN :
         benchCmd' = [benchCmd EXCEPT ![c] = [at |-> IF piloted = None THEN "lookup" ELSE "pilot", experiment |-> e,
                                    options |-> [budget |-> b, pilot |-> piloted], new |-> new, check |-> check,
                                    began |-> Len(runs), run |-> None, gives |-> TRUE]]
  BY DEF Bench!Begin
<1> DEFINE place == IF piloted = None THEN "lookup" ELSE "pilot"
           options == [budget |-> b, pilot |-> piloted]
           s == [at |-> place, experiment |-> e, options |-> options, new |-> new, check |-> check,
                 began |-> Len(runs),
                 run |-> None, gives |-> TRUE]
<1>2. Len(runs) \in Nat BY DEF BenchInv, BenchTyped
<1>3. piloted \in Nat \cup {None} BY <1>2 DEF Bench!Runs
<1>4. options \in Bench!Options BY <1>3 DEF Bench!Options
<1>5. place \in BenchPlaces /\ place \notin {"check", "create", "open", "configure"} \cup Configured
  BY DEF BenchPlaces, Configured
<1>6. None \in Maybe BY DEF Maybe
<1>7. benchCmd' = [benchCmd EXCEPT ![c] = s] BY <1>1
<1> HIDE DEF place, options
<1>8. s \in BenchTheCommand /\ s.at = place /\ s.run = None /\ s.gives /\ s.began = Len(runs)
  BY <1>2, <1>4, <1>5, <1>6 DEF BenchTheCommand
<1> HIDE DEF s
<1>9. BenchChosen(s, runs) /\ BenchApart(s, runs) BY <1>2, <1>5, <1>8 DEF BenchChosen, BenchApart, Configured
<1>10. UNCHANGED <<runs, reported>> BY DEF Bench!Begin
<1> QED BY Steps, <1>7, <1>8, <1>9, <1>10

LEMMA PilotKeeps == ASSUME BenchInv, NEW c \in Commands, Bench!Pilot(c) PROVE BenchInv'
<1>1. UNCHANGED <<runs, reported>> /\ benchCmd[c].at = "pilot" BY DEF Bench!Pilot
<1>2. CASE Bench!Sizes(benchCmd[c].options.pilot)
  <2> DEFINE options == [benchCmd[c].options EXCEPT !.budget = Derived]
             s == [benchCmd[c] EXCEPT !.at = "lookup", !.options = options]
  <2>1. benchCmd[c] \in BenchTheCommand /\ BenchChosen(benchCmd[c], runs) /\ BenchApart(benchCmd[c], runs)
    BY <1>1, AtWork
  <2>2. options \in Bench!Options BY <2>1 DEF BenchTheCommand, Bench!Options
  <2>3. benchCmd' = [benchCmd EXCEPT ![c] = s]
    <3>1. benchCmd' = [benchCmd EXCEPT ![c].at = "lookup", ![c].options.budget = Derived] BY <1>2
       DEF Bench!Pilot
    <3>2. benchCmd[c].options = [benchCmd[c] EXCEPT !.at = "lookup"].options BY <2>1 DEF BenchTheCommand
    <3> QED BY <3>1, <3>2, <2>1 DEF BenchInv, BenchTyped, BenchTheCommand
  <2>4. "lookup" \in BenchPlaces BY DEF BenchPlaces
  <2>5. /\ s \in BenchTheCommand /\ s.at = "lookup" /\ s.experiment = benchCmd[c].experiment
        /\ s.began = benchCmd[c].began /\ s.run = benchCmd[c].run /\ s.gives = benchCmd[c].gives
    BY <2>1, <2>2, <2>4 DEF BenchTheCommand
  <2> HIDE DEF s
  <2>6. BenchChosen(s, runs) BY <1>1, <2>1, <2>5 DEF BenchChosen, Configured
  <2>7. BenchApart(s, runs) BY <2>1, <2>5 DEF BenchApart
  <2> QED BY Steps, <1>1, <2>3, <2>5, <2>6, <2>7
<1>3. CASE ~Bench!Sizes(benchCmd[c].options.pilot) BY <1>1, <1>3, BenchEndKeeps DEF Bench!Pilot, Bench!Ends
<1> QED BY <1>2, <1>3

\* Below is well-founded, so that a bounded set of numbers that is not empty has a last one.
Below == {pair \in Nat \X Nat : pair[1] < pair[2]}
LEMMA Latest ==
    ASSUME NEW n \in Nat, NEW S \in SUBSET (1..n), S # {}
    PROVE  \E found \in S : \A q \in S : q <= found
<1> DEFINE T == {n - r : r \in S}
<1>1. IsWellFoundedOn(Below, Nat) BY NatLessThanWellFounded DEF OpToRel, Below
<1>2. T \subseteq Nat /\ T # {}
  <2>1. \A r \in S : r \in 1..n OBVIOUS
  <2>2. \A r \in S : n - r \in Nat BY <2>1
  <2>3. PICK r \in S : TRUE OBVIOUS
  <2>4. n - r \in T OBVIOUS
  <2> QED BY <2>2, <2>4
<1>3. PICK x \in T : \A y \in T : ~(<<y, x>> \in Below) BY <1>1, <1>2, WFMin, Zenon
<1>4. PICK found \in S : x = n - found OBVIOUS
<1>5. ASSUME NEW q \in S PROVE q <= found
  <2>1. n - q \in T OBVIOUS
  <2>2. ~(<<n - q, x>> \in Below) BY <1>3, <2>1
  <2>3. n - q \in Nat /\ x \in Nat BY <1>2, <2>1
  <2> QED BY <1>4, <2>2, <2>3 DEF Below
<1> QED BY <1>5

LEMMA LookupKeeps == ASSUME BenchInv, NEW c \in Commands, Bench!Lookup(c) PROVE BenchInv'
<1>1. UNCHANGED <<runs, reported>> /\ benchCmd[c].at = "lookup" BY DEF Bench!Lookup
<1>2. benchCmd[c] \in BenchTheCommand /\ BenchChosen(benchCmd[c], runs) /\ BenchApart(benchCmd[c], runs)
  BY <1>1, AtWork
<1>3. benchCmd[c].gives BY <1>1, <1>2 DEF BenchChosen
<1> DEFINE previous == Bench!Compatible(c)
           found == CHOOSE r \in previous : \A q \in previous : q <= r
<1>4. Len(runs) \in Nat /\ previous \subseteq 1..Len(runs)
  BY DEF BenchInv, BenchTyped, Bench!Compatible, Bench!Matching, Bench!Runs
<1>5. \A r \in Bench!Runs : r \in previous <=> Suits(runs[r], benchCmd[c])
  BY DEF Bench!Compatible, Bench!Matching, Suits
<1>6. "check" \in BenchPlaces /\ "report" \in BenchPlaces BY DEF BenchPlaces
<1>7. ASSUME benchCmd[c].new \/ previous = {}, Bench!Goto(c, "check") PROVE BenchInv'
  <2> DEFINE s == [benchCmd[c] EXCEPT !.at = "check"]
  <2>1. /\ s \in BenchTheCommand /\ s.at = "check" /\ s.experiment = benchCmd[c].experiment
        /\ s.options = benchCmd[c].options
        /\ s.new = benchCmd[c].new /\ s.began = benchCmd[c].began /\ s.run = benchCmd[c].run
           /\ s.gives = benchCmd[c].gives
    BY <1>2, <1>6, Goes
  <2>2. benchCmd' = [benchCmd EXCEPT ![c] = s] BY <1>7 DEF Bench!Goto
  <2> HIDE DEF s
  <2>3. BenchChosen(s, runs) BY <1>2, <1>3, <2>1 DEF BenchChosen, Configured
  <2>4. ~s.new => \A r \in 1..s.began : ~Suits(runs[r], s)
    <3> SUFFICES ASSUME ~s.new, NEW r \in 1..s.began PROVE ~Suits(runs[r], s) OBVIOUS
    <3>1. s.began \in Nat /\ s.began <= Len(runs) BY <1>2, <2>1 DEF BenchApart, BenchTheCommand
    <3>2. r \in Bench!Runs BY <1>4, <3>1 DEF Bench!Runs
    <3> QED BY <1>5, <1>7, <2>1, <3>2 DEF Suits
  <2>5. BenchApart(s, runs) BY <1>2, <2>1, <2>4 DEF BenchApart
  <2> QED BY Steps, <1>1, <2>1, <2>2, <2>3, <2>5
<1>8. CASE previous = {} BY <1>7, <1>8 DEF Bench!Lookup
<1>9. CASE previous # {}
  <2>1. found \in previous
    <3>1. \E r \in previous : \A q \in previous : q <= r BY <1>4, <1>9, Latest
    <3> QED BY <3>1
  <2>2. found \in Bench!Runs /\ found \in Nat /\ Suits(runs[found], benchCmd[c]) /\ runs[found] \in ARun
    BY <2>1, <1>4, <1>5 DEF Bench!Runs, BenchInv, BenchTyped
  <2>3. found # None /\ found \in Maybe /\ benchCmd[c].options # None
    BY <2>2, <1>2 DEF BenchInv, Bench!ConstantsFit, Maybe, BenchTheCommand
  <2> HIDE DEF found
  <2>4. CASE Bench!Finished(found) /\ ~benchCmd[c].new /\ ~benchCmd[c].check
    <3> DEFINE s == [benchCmd[c] EXCEPT !.at = "report", !.run = found]
    <3>1. benchCmd' = [benchCmd EXCEPT ![c] = s]
      <4>1. benchCmd' = [benchCmd EXCEPT ![c].at = "report", ![c].run = found] BY <1>9, <2>4
         DEF Bench!Lookup, found
      <4> QED BY <4>1, <1>2 DEF BenchInv, BenchTyped
    <3>2. /\ s \in BenchTheCommand /\ s.at = "report" /\ s.experiment = benchCmd[c].experiment
          /\ s.options = benchCmd[c].options
          /\ s.began = benchCmd[c].began /\ s.run = found /\ s.gives = benchCmd[c].gives
      BY <1>2, <1>6, <2>3 DEF BenchTheCommand
    <3> HIDE DEF s
    <3>3. runs[found].captured > 0
      <4>1. Trials[runs[found].experiment] \in Bench!Numbers BY <2>2, TrialsNumber DEF BenchInv, ARun
      <4> QED BY <4>1, <2>4 DEF Bench!Finished, Bench!Numbers
    <3>4. runs[found].options = benchCmd[c].options BY <2>2, <3>3 DEF BenchInv, RunsFit, BenchFits, Suits
    <3>5. BenchWhole(runs[found]) /\ runs[found].graded = runs[found].captured BY <2>4 DEF Bench!Finished,
       BenchWhole
    <3>6. runs[found].experiment = benchCmd[c].experiment /\ found \in 1..Len(runs) BY <2>2 DEF Suits,
       Bench!Runs
    <3>7. BenchChosen(s, runs) BY <1>3, <2>3, <3>2, <3>4, <3>5, <3>6 DEF BenchChosen
    <3>8. BenchApart(s, runs) BY <1>2, <3>2 DEF BenchApart
    <3> QED BY Steps, <1>1, <3>1, <3>2, <3>7, <3>8
  <2>5. CASE ~(Bench!Finished(found) /\ ~benchCmd[c].new /\ ~benchCmd[c].check) /\ benchCmd[c].new BY <1>7,
     <1>9, <2>5 DEF Bench!Lookup, found
  <2>6. CASE ~(Bench!Finished(found) /\ ~benchCmd[c].new /\ ~benchCmd[c].check) /\ ~benchCmd[c].new
    <3> DEFINE gives == runs[found].options = None
               s == [benchCmd[c] EXCEPT !.at = "check", !.run = found, !.gives = gives]
    <3>1. benchCmd' = [benchCmd EXCEPT ![c] = s]
      <4>1. benchCmd' = [benchCmd EXCEPT ![c].at = "check", ![c].run = found, ![c].gives = gives]
        BY <1>9, <2>6 DEF Bench!Lookup, found
      <4> QED BY <4>1, <1>2 DEF BenchInv, BenchTyped
    <3>2. gives \in BOOLEAN OBVIOUS
    <3>3. ~gives => runs[found].options = benchCmd[c].options BY <2>2 DEF Suits
    <3> HIDE DEF gives
    <3>4. /\ s \in BenchTheCommand /\ s.at = "check" /\ s.experiment = benchCmd[c].experiment
          /\ s.options = benchCmd[c].options
          /\ s.began = benchCmd[c].began /\ s.run = found /\ s.gives = gives
      BY <1>2, <1>6, <2>3, <3>2 DEF BenchTheCommand
    <3> HIDE DEF s
    <3>5. runs[found].experiment = benchCmd[c].experiment /\ found \in 1..Len(runs) BY <2>2 DEF Suits,
       Bench!Runs
    <3>6. BenchChosen(s, runs) BY <2>3, <3>3, <3>4, <3>5 DEF BenchChosen, Configured
    <3>7. BenchApart(s, runs) BY <1>2, <2>3, <3>4 DEF BenchApart
    <3> QED BY Steps, <1>1, <3>1, <3>4, <3>6, <3>7
  <2> QED BY <2>4, <2>5, <2>6
<1> QED BY <1>8, <1>9

LEMMA LaunchCheckKeeps == ASSUME BenchInv, NEW c \in Commands, Bench!LaunchCheck(c) PROVE BenchInv'
<1>1. UNCHANGED <<runs, reported>> /\ benchCmd[c].at = "check" BY DEF Bench!LaunchCheck
<1>2. benchCmd[c] \in BenchTheCommand /\ BenchChosen(benchCmd[c], runs) /\ BenchApart(benchCmd[c], runs)
  BY <1>1, AtWork
<1> DEFINE place == IF benchCmd[c].run = None THEN "create" ELSE "open"
           s == [benchCmd[c] EXCEPT !.at = place]
<1>3. CASE Bench!Goto(c, place)
  <2>1. place \in BenchPlaces /\ place \in {"create", "open"} BY DEF BenchPlaces
  <2>2. /\ s \in BenchTheCommand /\ s.at = place /\ s.experiment = benchCmd[c].experiment
        /\ s.options = benchCmd[c].options
        /\ s.new = benchCmd[c].new /\ s.began = benchCmd[c].began /\ s.run = benchCmd[c].run
           /\ s.gives = benchCmd[c].gives
    BY <1>2, <2>1, Goes
  <2>3. benchCmd' = [benchCmd EXCEPT ![c] = s] BY <1>3 DEF Bench!Goto
  <2> HIDE DEF s
  <2>4. BenchChosen(s, runs) BY <1>1, <1>2, <2>1, <2>2 DEF BenchChosen, Configured
  <2>5. BenchApart(s, runs) BY <1>1, <1>2, <2>2 DEF BenchApart, Suits
  <2> QED BY Steps, <1>1, <2>2, <2>3, <2>4, <2>5
<1>4. CASE Bench!Ends(c) BY <1>1, <1>4, BenchEndKeeps DEF Bench!Ends
<1> QED BY <1>3, <1>4 DEF Bench!LaunchCheck

LEMMA CreateKeeps == ASSUME BenchInv, NEW c \in Commands, Bench!Create(c) PROVE BenchInv'
<1>1. reported' = reported /\ benchCmd[c].at = "create" BY DEF Bench!Create
<1>2. benchCmd[c] \in BenchTheCommand /\ BenchChosen(benchCmd[c], runs) /\ BenchApart(benchCmd[c], runs)
  BY <1>1, AtWork
<1> DEFINE run == [experiment |-> benchCmd[c].experiment, options |-> None, captured |-> 0, graded |-> 0,
                   passed |-> FALSE]
           next == Len(runs) + 1
           s == [benchCmd[c] EXCEPT !.at = "open", !.run = next]
<1>3. benchCmd[c].experiment \in Experiments /\ None \in MaybeOptions BY <1>2 DEF BenchTheCommand,
   MaybeOptions
<1>4. run \in ARun
  <2>1. FALSE \in Passes BY DEF Passes
  <2> QED BY <1>3, <2>1 DEF ARun
<1>5. /\ run.experiment = benchCmd[c].experiment /\ run.options = None /\ run.captured = 0
      /\ run.graded = 0 OBVIOUS
<1>6. runs' = Append(runs, run) BY DEF Bench!Create
<1> HIDE DEF run
<1>7. runs \in Seq(ARun) /\ Len(runs) \in Nat BY DEF BenchInv, BenchTyped
<1>8. /\ runs' \in Seq(ARun) /\ Len(runs') = next /\ runs'[next] = run
      /\ \A r \in 1..Len(runs) : runs'[r] = runs[r]
  BY <1>4, <1>6, <1>7, AppendProperties
<1>9. Trials[run.experiment] \in Nat BY <1>3, <1>5, TrialsNumber DEF BenchInv, Bench!Numbers
<1>10. RunsFit'
  <2>1. \A r \in 1..Len(runs) : BenchFits(runs[r]) BY DEF BenchInv, RunsFit, Bench!Runs
  <2>2. BenchFits(run) BY <1>5, <1>9 DEF BenchFits
  <2>3. \A r \in 1..Len(runs') : r \in 1..Len(runs) \/ r = next BY <1>7, <1>8
  <2>4. \A r \in 1..Len(runs') : BenchFits(runs'[r]) BY <1>8, <2>1, <2>2, <2>3
  <2> QED BY <2>4 DEF RunsFit, Bench!Runs, BenchFits
<1>11. BenchOnward(runs, runs') BY <1>7, <1>8 DEF BenchOnward
<1>12. "open" \in BenchPlaces /\ next \in Maybe /\ next # None
  BY <1>7 DEF BenchPlaces, Maybe, BenchInv, Bench!ConstantsFit
<1>13. benchCmd' = [benchCmd EXCEPT ![c] = s]
  <2>1. benchCmd' = [benchCmd EXCEPT ![c].at = "open", ![c].run = next] BY DEF Bench!Create
  <2> QED BY <2>1, <1>2 DEF BenchInv, BenchTyped
<1> HIDE DEF next
<1>14. /\ s \in BenchTheCommand /\ s.at = "open" /\ s.experiment = benchCmd[c].experiment
       /\ s.options = benchCmd[c].options
       /\ s.began = benchCmd[c].began /\ s.run = next /\ s.gives = benchCmd[c].gives
  BY <1>2, <1>12 DEF BenchTheCommand
<1> HIDE DEF s
<1>15. benchCmd[c].gives BY <1>1, <1>2 DEF BenchChosen, BenchApart
<1>16. next \in 1..Len(runs') BY <1>7, <1>8 DEF next
<1>17. BenchChosen(s, runs') BY <1>5, <1>8, <1>12, <1>14, <1>15, <1>16 DEF BenchChosen, Configured
<1>18. BenchApart(s, runs')
  <2>1. s.began \in Nat /\ s.began <= Len(runs) BY <1>2, <1>14 DEF BenchApart, BenchTheCommand
  <2>2. s.began <= Len(runs') BY <1>7, <1>8, <2>1 DEF next
  <2> QED BY <1>14, <2>2 DEF BenchApart
<1> QED BY BenchMoves, <1>1, <1>8, <1>10, <1>11, <1>13, <1>14, <1>17, <1>18

\* A command that goes on from one place to another with its run.
LEMMA WithRun ==
    ASSUME BenchInv, NEW c \in Commands, benchCmd[c].at \in {"open", "configure"} \cup Configured,
           NEW place \in {"configure"} \cup Configured, Bench!Goto(c, place), UNCHANGED <<runs, reported>>,
           place \in Configured => runs[benchCmd[c].run].options = benchCmd[c].options,
           place \in {"assess", "grade", "report"} => BenchWhole(runs[benchCmd[c].run]),
           place = "report" => runs[benchCmd[c].run].graded = runs[benchCmd[c].run].captured
    PROVE  BenchInv'
<1> DEFINE s == [benchCmd[c] EXCEPT !.at = place]
<1>1. benchCmd[c] \in BenchTheCommand /\ BenchChosen(benchCmd[c], runs) /\ BenchApart(benchCmd[c], runs)
  BY AtWork DEF Configured
<1>2. place \in BenchPlaces BY DEF BenchPlaces, Configured
<1>3. /\ s \in BenchTheCommand /\ s.at = place /\ s.experiment = benchCmd[c].experiment
      /\ s.options = benchCmd[c].options
      /\ s.new = benchCmd[c].new /\ s.began = benchCmd[c].began /\ s.run = benchCmd[c].run
         /\ s.gives = benchCmd[c].gives
  BY <1>1, <1>2, Goes
<1>4. benchCmd' = [benchCmd EXCEPT ![c] = s] BY DEF Bench!Goto
<1> HIDE DEF s
<1>5. BenchChosen(s, runs) BY <1>1, <1>3 DEF BenchChosen, Configured
<1>6. BenchApart(s, runs) BY <1>1, <1>3 DEF BenchApart, Configured
<1> QED BY Steps, <1>3, <1>4, <1>5, <1>6

\* What a command with a run knows.
LEMMA HasRun ==
    ASSUME BenchInv, NEW c \in Commands, benchCmd[c].at \in {"open", "configure"} \cup Configured
    PROVE  /\ benchCmd[c] \in BenchTheCommand /\ benchCmd[c].run \in 1..Len(runs) /\ Len(runs) \in Nat
           /\ runs[benchCmd[c].run] \in ARun /\ BenchFits(runs[benchCmd[c].run])
           /\ runs[benchCmd[c].run].experiment = benchCmd[c].experiment
           /\ benchCmd[c].at \in Configured \/ ~benchCmd[c].gives
              => runs[benchCmd[c].run].options = benchCmd[c].options
           /\ benchCmd[c].at \in {"assess", "grade", "report"} => BenchWhole(runs[benchCmd[c].run])
           /\ benchCmd[c].at = "report" => runs[benchCmd[c].run].graded = runs[benchCmd[c].run].captured
           /\ benchCmd[c].options # None /\ benchCmd[c].options \in Bench!Options
<1>1. benchCmd[c] \in BenchTheCommand /\ BenchChosen(benchCmd[c], runs) BY AtWork DEF Configured
<1>2. runs \in Seq(ARun) BY DEF BenchInv, BenchTyped
<1>3. benchCmd[c].run \in 1..Len(runs) BY <1>1 DEF BenchChosen
<1>4. Len(runs) \in Nat /\ runs[benchCmd[c].run] \in ARun BY <1>2, <1>3, ElementOfSeq
<1>5. BenchFits(runs[benchCmd[c].run]) BY <1>3 DEF BenchInv, RunsFit, Bench!Runs
<1>6. benchCmd[c].options # None /\ benchCmd[c].options \in Bench!Options
  BY <1>1 DEF BenchTheCommand, BenchInv, Bench!ConstantsFit
<1> QED BY <1>1, <1>3, <1>4, <1>5, <1>6 DEF BenchChosen

LEMMA OpenKeeps == ASSUME BenchInv, NEW c \in Commands, Bench!Open(c) PROVE BenchInv'
<1>1. UNCHANGED <<runs, reported>> /\ benchCmd[c].at = "open" BY DEF Bench!Open
<1>2. CASE Bench!Goto(c, "configure") BY <1>1, <1>2, WithRun DEF Configured
<1>3. CASE Bench!Ends(c) BY <1>1, <1>3, BenchEndKeeps DEF Bench!Ends
<1> QED BY <1>2, <1>3 DEF Bench!Open

\* A command makes something of its run.
LEMMA RunKeeps ==
    ASSUME BenchInv, NEW c \in Commands, benchCmd[c].at \in {"configure"} \cup Configured, NEW run \in ARun,
           NEW place \in Configured, NEW old, old = runs[benchCmd[c].run],
           benchCmd' = [benchCmd EXCEPT ![c] = [benchCmd[c] EXCEPT !.at = place]], reported' = reported,
           runs' = [runs EXCEPT ![benchCmd[c].run] = run],
           BenchFits(run), run.experiment = old.experiment, run.options = benchCmd[c].options,
           old.options # None => run.options = old.options,
           BenchWhole(old) => BenchWhole(run) /\ (old.graded = old.captured => run.graded = run.captured),
           place \in {"assess", "grade"} => BenchWhole(run), place # "report"
    PROVE  BenchInv'
<1> DEFINE s == [benchCmd[c] EXCEPT !.at = place]
           r == benchCmd[c].run
<1>1. /\ benchCmd[c] \in BenchTheCommand /\ r \in 1..Len(runs) /\ Len(runs) \in Nat
      /\ old.experiment = benchCmd[c].experiment
  BY HasRun
<1>2. runs \in Seq(ARun) BY DEF BenchInv, BenchTyped
<1>3. /\ runs' \in Seq(ARun) /\ Len(runs') = Len(runs)
      /\ \A q \in 1..Len(runs) : runs'[q] = IF q = r THEN run ELSE runs[q]
  BY <1>1, <1>2, ExceptSeq
<1>4. RunsFit'
  <2>1. \A q \in 1..Len(runs) : BenchFits(runs[q]) BY DEF BenchInv, RunsFit, Bench!Runs
  <2>2. \A q \in 1..Len(runs') : BenchFits(runs'[q]) BY <1>3, <2>1
  <2> QED BY <2>2 DEF RunsFit, Bench!Runs, BenchFits
<1>5. BenchOnward(runs, runs') BY <1>1, <1>3 DEF BenchOnward
<1>6. place \in BenchPlaces BY DEF BenchPlaces, Configured
<1>7. /\ s \in BenchTheCommand /\ s.at = place /\ s.experiment = benchCmd[c].experiment
      /\ s.options = benchCmd[c].options
      /\ s.new = benchCmd[c].new /\ s.began = benchCmd[c].began /\ s.run = benchCmd[c].run
         /\ s.gives = benchCmd[c].gives
  BY <1>1, <1>6, Goes
<1>8. benchCmd' = [benchCmd EXCEPT ![c] = s] OBVIOUS
<1> HIDE DEF s
<1>9. runs'[r] = run /\ r \in 1..Len(runs') BY <1>1, <1>3
<1>10. r # None BY <1>1 DEF BenchInv, Bench!ConstantsFit
<1>11. BenchChosen(s, runs') BY <1>1, <1>7, <1>9, <1>10 DEF BenchChosen, Configured
<1>12. BenchApart(s, runs')
  <2>1. BenchApart(benchCmd[c], runs) BY AtWork DEF Configured
  <2> QED BY <1>3, <1>7, <2>1 DEF BenchApart, Configured
<1> QED BY BenchMoves, <1>3, <1>4, <1>5, <1>7, <1>8, <1>11, <1>12

LEMMA ConfigureKeeps == ASSUME BenchInv, NEW c \in Commands, Bench!Configure(c) PROVE BenchInv'
<1>1. reported' = reported /\ benchCmd[c].at = "configure" BY DEF Bench!Configure
<1> DEFINE r == benchCmd[c].run
           old == runs[r]
<1>2. /\ benchCmd[c] \in BenchTheCommand /\ r \in 1..Len(runs) /\ old \in ARun /\ BenchFits(old)
      /\ benchCmd[c].options \in Bench!Options
      /\ (~benchCmd[c].gives => old.options = benchCmd[c].options)
  BY <1>1, HasRun
<1>3. CASE runs[benchCmd[c].run].options = None
  <2> DEFINE run == [old EXCEPT !.options = benchCmd[c].options]
  <2>1. benchCmd[c].options \in MaybeOptions /\ benchCmd[c].options # None
    BY <1>2 DEF MaybeOptions, BenchInv, Bench!ConstantsFit
  <2>2. /\ run \in ARun /\ run.options = benchCmd[c].options /\ run.captured = old.captured
        /\ run.graded = old.graded
        /\ run.experiment = old.experiment
    BY <1>2, <2>1 DEF ARun
  <2>3. runs' = [runs EXCEPT ![r] = run]
        /\ benchCmd' = [benchCmd EXCEPT ![c] = [benchCmd[c] EXCEPT !.at = "native"]]
    BY <1>3 DEF Bench!Configure, Bench!Goto
  <2> HIDE DEF run
  <2>4. BenchFits(run) BY <1>2, <2>1, <2>2 DEF BenchFits
  <2>5. BenchWhole(old) => BenchWhole(run) BY <2>2 DEF BenchWhole
  <2>6. "native" \in Configured BY DEF Configured
  <2> QED BY RunKeeps, <1>1, <1>3, <2>2, <2>3, <2>4, <2>5, <2>6
<1>4. CASE runs[benchCmd[c].run].options # None
  <2>1. UNCHANGED runs BY <1>4 DEF Bench!Configure
  <2>2. CASE Bench!Agrees(c)
    <3>1. old.options = benchCmd[c].options BY <1>2, <2>2 DEF Bench!Agrees
    <3>2. Bench!Goto(c, "native") BY <1>4, <2>2 DEF Bench!Configure
    <3> QED BY WithRun, <1>1, <2>1, <3>1, <3>2 DEF Configured
  <2>3. CASE ~Bench!Agrees(c) BY <1>1, <1>4, <2>1, <2>3, BenchEndKeeps DEF Bench!Configure, Bench!Ends
  <2> QED BY <2>2, <2>3
<1> QED BY <1>3, <1>4

LEMMA AcquireKeeps == ASSUME BenchInv, NEW c \in Commands, Bench!Acquire(c) PROVE BenchInv'
<1>1. UNCHANGED <<runs, reported>> /\ benchCmd[c].at = "native" BY DEF Bench!Acquire
<1>2. runs[benchCmd[c].run].options = benchCmd[c].options BY <1>1, HasRun DEF Configured
<1>3. CASE Bench!Goto(c, "capture") BY <1>1, <1>2, <1>3, WithRun DEF Configured
<1>4. CASE Bench!Ends(c) BY <1>1, <1>4, BenchEndKeeps DEF Bench!Ends
<1> QED BY <1>3, <1>4 DEF Bench!Acquire

LEMMA CaptureKeeps == ASSUME BenchInv, NEW c \in Commands, Bench!Capture(c) PROVE BenchInv'
<1>1. reported' = reported /\ benchCmd[c].at = "capture" BY DEF Bench!Capture
<1> DEFINE r == benchCmd[c].run
           old == runs[r]
           run == [old EXCEPT !.captured = old.captured + 1]
<1>2. /\ benchCmd[c] \in BenchTheCommand /\ r \in 1..Len(runs) /\ old \in ARun /\ BenchFits(old)
      /\ benchCmd[c].options # None
      /\ old.options = benchCmd[c].options /\ old.experiment = benchCmd[c].experiment
  BY <1>1, HasRun DEF Configured
<1>3. old.captured \in Nat /\ old.graded \in Nat /\ old.experiment \in Experiments BY <1>2 DEF ARun
<1>4. Trials[old.experiment] \in Nat BY <1>3, TrialsNumber DEF BenchInv, Bench!Numbers
<1>5. old.captured < Trials[old.experiment] BY <1>2 DEF Bench!Capture
<1>6. /\ run \in ARun /\ run.options = old.options /\ run.captured = old.captured + 1 /\ run.graded = old.graded
      /\ run.experiment = old.experiment
  BY <1>2, <1>3 DEF ARun
<1>7. runs' = [runs EXCEPT ![r] = run] BY DEF Bench!Capture
<1> HIDE DEF run
<1>8. BenchFits(run) BY <1>2, <1>3, <1>4, <1>5, <1>6 DEF BenchFits
<1>9. ~BenchWhole(old) BY <1>3, <1>4, <1>5 DEF BenchWhole
<1>10. benchCmd' = [benchCmd EXCEPT ![c] = [benchCmd[c] EXCEPT !.at = "capture"]]
  BY <1>1, <1>2 DEF Bench!Capture, BenchTheCommand, BenchInv, BenchTyped
<1>11. "capture" \in Configured BY DEF Configured
<1> QED BY RunKeeps, <1>1, <1>2, <1>6, <1>7, <1>8, <1>9, <1>10, <1>11

LEMMA CapturedKeeps == ASSUME BenchInv, NEW c \in Commands, Bench!Captured(c) PROVE BenchInv'
<1>1. UNCHANGED <<runs, reported>> /\ benchCmd[c].at = "capture" /\ Bench!Goto(c, "assess") BY
   DEF Bench!Captured
<1>2. runs[benchCmd[c].run].options = benchCmd[c].options
      /\ runs[benchCmd[c].run].experiment = benchCmd[c].experiment
  BY <1>1, HasRun DEF Configured
<1>3. BenchWhole(runs[benchCmd[c].run]) BY <1>2 DEF Bench!Captured, BenchWhole
<1> QED BY <1>1, <1>2, <1>3, WithRun DEF Configured

LEMMA AssessKeeps == ASSUME BenchInv, NEW c \in Commands, Bench!Assess(c) PROVE BenchInv'
<1>1. UNCHANGED <<runs, reported>> /\ benchCmd[c].at = "assess" BY DEF Bench!Assess
<1>2. runs[benchCmd[c].run].options = benchCmd[c].options /\ BenchWhole(runs[benchCmd[c].run])
  BY <1>1, HasRun DEF Configured
<1>3. CASE Bench!Goto(c, "grade") BY <1>1, <1>2, <1>3, WithRun DEF Configured
<1>4. CASE Bench!Ends(c) BY <1>1, <1>4, BenchEndKeeps DEF Bench!Ends
<1> QED BY <1>3, <1>4 DEF Bench!Assess

LEMMA GradeKeeps == ASSUME BenchInv, NEW c \in Commands, Bench!Grade(c) PROVE BenchInv'
<1>1. reported' = reported /\ benchCmd[c].at = "grade" BY DEF Bench!Grade
<1> DEFINE r == benchCmd[c].run
           old == runs[r]
<1>2. PICK passed \in BOOLEAN : runs' = [runs EXCEPT ![r].graded = @ + 1, ![r].passed = passed] BY
   DEF Bench!Grade
<1> DEFINE run == [old EXCEPT !.graded = old.graded + 1, !.passed = passed]
<1>3. /\ benchCmd[c] \in BenchTheCommand /\ r \in 1..Len(runs) /\ old \in ARun /\ BenchFits(old)
      /\ benchCmd[c].options # None
      /\ old.options = benchCmd[c].options /\ old.experiment = benchCmd[c].experiment /\ BenchWhole(old)
  BY <1>1, HasRun DEF Configured
<1>4. old.captured \in Nat /\ old.graded \in Nat BY <1>3 DEF ARun
<1>5. old.graded < old.captured BY DEF Bench!Grade
<1>6. /\ run \in ARun /\ run.options = old.options /\ run.captured = old.captured /\ run.graded = old.graded + 1
      /\ run.experiment = old.experiment
  <2>1. passed \in Passes /\ old.graded + 1 \in Nat BY <1>2, <1>4 DEF Passes
  <2> QED BY <1>3, <1>4, <2>1 DEF ARun
<1>7. runs' = [runs EXCEPT ![r] = run]
  <2>1. runs \in Seq(ARun) BY DEF BenchInv, BenchTyped
  <2> QED BY <1>2, <1>3, <2>1 DEF ARun
<1> HIDE DEF run
<1>8. BenchFits(run) BY <1>3, <1>4, <1>5, <1>6 DEF BenchFits
<1>9. BenchWhole(run) /\ old.graded # old.captured BY <1>3, <1>4, <1>5, <1>6 DEF BenchWhole
<1>10. benchCmd' = [benchCmd EXCEPT ![c] = [benchCmd[c] EXCEPT !.at = "grade"]]
  BY <1>1, <1>3 DEF Bench!Grade, BenchTheCommand, BenchInv, BenchTyped
<1>11. "grade" \in Configured BY DEF Configured
<1> QED BY RunKeeps, <1>1, <1>3, <1>6, <1>7, <1>8, <1>9, <1>10, <1>11

LEMMA GradedKeeps == ASSUME BenchInv, NEW c \in Commands, Bench!Graded(c) PROVE BenchInv'
<1>1. UNCHANGED <<runs, reported>> /\ benchCmd[c].at = "grade" /\ Bench!Goto(c, "report") BY DEF Bench!Graded
<1>2. runs[benchCmd[c].run].options = benchCmd[c].options /\ BenchWhole(runs[benchCmd[c].run])
  BY <1>1, HasRun DEF Configured
<1>3. runs[benchCmd[c].run].graded = runs[benchCmd[c].run].captured BY DEF Bench!Graded
<1> QED BY <1>1, <1>2, <1>3, WithRun DEF Configured

LEMMA ReportKeeps == ASSUME BenchInv, NEW c \in Commands, Bench!Report(c) PROVE BenchInv'
<1>1. benchCmd[c].at = "report" /\ runs' = runs /\ benchCmd' = [benchCmd EXCEPT ![c] = Bench!Idle]
  BY DEF Bench!Report, Bench!Ends
<1> DEFINE said == [run |-> benchCmd[c].run, experiment |-> benchCmd[c].experiment, options |-> benchCmd[c].options]
<1>2. reported' = reported \cup {said} BY DEF Bench!Report
<1>3. /\ benchCmd[c].run \in 1..Len(runs) /\ runs[benchCmd[c].run].experiment = benchCmd[c].experiment
      /\ runs[benchCmd[c].run].options = benchCmd[c].options /\ BenchWhole(runs[benchCmd[c].run])
      /\ runs[benchCmd[c].run].graded = runs[benchCmd[c].run].captured /\ benchCmd[c].options \in Bench!Options
  BY <1>1, HasRun DEF Configured
<1>4. Answered(said, runs) BY <1>3 DEF Answered
<1> HIDE DEF said
<1>5. runs' \in Seq(ARun) /\ RunsFit' BY <1>1 DEF BenchInv, BenchTyped, RunsFit, BenchFits, Bench!Runs
<1>6. BenchOnward(runs, runs') BY <1>1, <1>5, Same
<1> QED BY BenchMoves, <1>1, <1>2, <1>4, <1>5, <1>6

LEMMA BenchKept == Bench!Spec /\ Bench!ConstantsFit => []BenchInv
<1>1. Bench!Init /\ Bench!ConstantsFit => BenchInv
  <2> SUFFICES ASSUME Bench!Init, Bench!ConstantsFit PROVE BenchInv OBVIOUS
  <2>1. BenchTyped /\ Bench!Runs = {} BY DEF Bench!Init, BenchTyped, Bench!Runs
  <2>2. RunsFit BY <2>1 DEF RunsFit
  <2>3. BenchAttended /\ AllAnswered BY DEF Bench!Init, BenchAttended, AllAnswered
  <2> QED BY <2>1, <2>2, <2>3 DEF BenchInv
<1>2. ASSUME BenchInv, [Bench!Next]_(Bench!vars) PROVE BenchInv'
  <2>1. CASE UNCHANGED Bench!vars
    <3> USE <2>1 DEF Bench!vars
    <3>1. Bench!ConstantsFit' /\ BenchTyped' /\ RunsFit' /\ AllAnswered'
      BY <1>2 DEF BenchInv, Bench!ConstantsFit, BenchTyped, RunsFit, BenchFits, Bench!Runs, AllAnswered,
         Bench!Options, Bench!Idle
    <3>2. BenchAttended' BY <1>2 DEF BenchInv, BenchAttended, Bench!Idle
    <3> QED BY <3>1, <3>2 DEF BenchInv
  <2>2. ASSUME NEW c \in Commands,
               Bench!Begin(c) \/ Bench!Pilot(c) \/ Bench!Lookup(c) \/ Bench!LaunchCheck(c) \/ Bench!Create(c)
        PROVE  BenchInv'
    BY <1>2, <2>2, BeginKeeps, PilotKeeps, LookupKeeps, LaunchCheckKeeps, CreateKeeps
  <2>3. ASSUME NEW c \in Commands,
               Bench!Open(c) \/ Bench!Configure(c) \/ Bench!Acquire(c) \/ Bench!Capture(c) \/ Bench!Captured(c)
        PROVE  BenchInv'
    BY <1>2, <2>3, OpenKeeps, ConfigureKeeps, AcquireKeeps, CaptureKeeps, CapturedKeeps
  <2>4. ASSUME NEW c \in Commands, Bench!Assess(c) \/ Bench!Grade(c) \/ Bench!Graded(c) \/ Bench!Report(c)
        PROVE  BenchInv'
    BY <1>2, <2>4, AssessKeeps, GradeKeeps, GradedKeeps, ReportKeeps
  <2>5. ASSUME NEW c \in Commands, Bench!Kill(c)
        PROVE  BenchInv' BY <1>2, <2>5, BenchEndKeeps DEF Bench!Kill, Bench!Ends
  <2>6. CASE Bench!Next
    <3>1. PICK c \in Commands :
            \/ Bench!Begin(c) \/ Bench!Pilot(c) \/ Bench!Lookup(c) \/ Bench!LaunchCheck(c) \/ Bench!Create(c)
            \/ Bench!Open(c) \/ Bench!Configure(c)
            \/ Bench!Acquire(c) \/ Bench!Capture(c) \/ Bench!Captured(c) \/ Bench!Assess(c) \/ Bench!Grade(c)
            \/ Bench!Graded(c) \/ Bench!Report(c) \/ Bench!Kill(c)
      BY <2>6 DEF Bench!Next
    <3> QED BY <2>2, <2>3, <2>4, <2>5, <3>1
  <2> QED BY <1>2, <2>1, <2>6
<1> QED BY <1>1, <1>2, PTL DEF Bench!Spec

\* Whatever other commands made of the run that a benchmark found, it reports a finished one of its experiment, with the
\* options asked for (resumable_run, configure).
THEOREM ReportsStayAsked == ASSUME Bench!ConstantsFit PROVE Bench!Spec => []Bench!ReportsAsked
<1>1. BenchInv => Bench!ReportsAsked
  <2> SUFFICES ASSUME BenchInv, NEW said \in reported
               PROVE  Bench!Finished(said.run) /\ runs[said.run].experiment = said.experiment
                  /\ runs[said.run].options = said.options
    BY DEF Bench!ReportsAsked
  <2> QED BY DEF BenchInv, AllAnswered, Answered, Bench!Finished, BenchWhole
<1> QED BY <1>1, BenchKept, PTL

\* A benchmark that creates a run found none it might resume, of those there were when it began, unless asked for a new
\* one (resumable_run).
THEOREM RunsPaidOnce == ASSUME Bench!ConstantsFit PROVE Bench!Spec => Bench!PaidOnce
<1>1. BenchInv => Bench!PaidOnceStep
  <2> SUFFICES ASSUME BenchInv, NEW c \in Commands, benchCmd[c].at = "create", ~benchCmd[c].new,
                      NEW r \in 1..benchCmd[c].began,
                      runs[r].experiment = benchCmd[c].experiment, runs[r].options \in {None, benchCmd[c].options}
               PROVE  FALSE
    BY DEF Bench!PaidOnceStep
  <2>1. BenchApart(benchCmd[c], runs) BY AtWork
  <2> QED BY <2>1 DEF BenchApart, Suits
<1>9. Bench!Spec => [][Bench!PaidOnceStep]_(Bench!vars)
  BY <1>1, BenchKept, PTL DEF Bench!Spec
<1> QED BY <1>9 DEF Bench!PaidOnce

-----------------------------------------------------------------------------
(* What follows of the compositions: a behaviour of MC_Workspaces with             *)
(* part = "server" is one of the viewer's server, and likewise for the others.     *)

LEMMA ServerPlayed ==
    /\ MCInit /\ part = "server" => Server!Init
    /\ part = "server" /\ [MCNext]_MCvars => (part = "server")' /\ [Server!Next]_(Server!vars)
    /\ ~(part = "server") /\ [MCNext]_MCvars => (~(part = "server"))'
  BY DEF MCInit, MCNext, MCvars, servervars, Server!vars

LEMMA CommitsPlayed ==
    /\ MCInit /\ part = "checkpoint" => Commits!Init
    /\ part = "checkpoint" /\ [MCNext]_MCvars => (part = "checkpoint")' /\ [Commits!Next]_(Commits!vars)
    /\ ~(part = "checkpoint") /\ [MCNext]_MCvars => (~(part = "checkpoint"))'
  BY DEF MCInit, MCNext, MCvars, gitvars, Commits!vars, Commits!repository

LEMMA SetupPlayed ==
    /\ MCInit /\ part = "init" => Setup!Init
    /\ part = "init" /\ [MCNext]_MCvars => (part = "init")' /\ [Setup!Next]_(Setup!vars)
    /\ ~(part = "init") /\ [MCNext]_MCvars => (~(part = "init"))'
  BY DEF MCInit, MCNext, MCvars, initvars, Setup!vars, Setup!disk

LEMMA SkilledPlayed ==
    /\ MCInit /\ part = "skills" => Skilled!Init
    /\ part = "skills" /\ [MCNext]_MCvars => (part = "skills")' /\ [Skilled!Next]_(Skilled!vars)
    /\ ~(part = "skills") /\ [MCNext]_MCvars => (~(part = "skills"))'
  BY DEF MCInit, MCNext, MCvars, skillvars, Skilled!vars, Skilled!disk

LEMMA AuthorsPlayed ==
    /\ MCInit /\ part = "authoring" => Authors!Init
    /\ part = "authoring" /\ [MCNext]_MCvars => (part = "authoring")' /\ [Authors!Next]_(Authors!vars)
    /\ ~(part = "authoring") /\ [MCNext]_MCvars => (~(part = "authoring"))'
  BY DEF MCInit, MCNext, MCvars, authorvars, Authors!vars

LEMMA BenchPlayed ==
    /\ MCInit /\ part = "bench" => Bench!Init
    /\ part = "bench" /\ [MCNext]_MCvars => (part = "bench")' /\ [Bench!Next]_(Bench!vars)
    /\ ~(part = "bench") /\ [MCNext]_MCvars => (~(part = "bench"))'
  BY DEF MCInit, MCNext, MCvars, benchvars, Bench!vars

\* Connections, threads and slots of the server are accounted for however it is stopped
\* (viewer_http.py).
THEOREM ServerHolds == MCSpec => []ServerSound
<1>1. Server!Spec => []Server!ServerSound
  BY PartsFit, ServerStaysSound
<1>2. (part = "server" => Server!ServerSound) => ServerSound
  BY DEF ServerSound
<1> QED
  BY <1>1, <1>2, ServerPlayed, PTL DEF MCSpec, Server!Spec

\* A checkpoint commits its own paths alone and no commit is lost (workspace_git.py).
THEOREM CheckpointsHold == MCSpec => []CheckpointSound
<1>1. Commits!Spec => []Commits!CheckpointSound
  BY PartsFit, CheckpointsStaySound
<1>2. (part = "checkpoint" => Commits!CheckpointSound) => CheckpointSound
  BY DEF CheckpointSound
<1> QED
  BY <1>1, <1>2, CommitsPlayed, PTL DEF MCSpec, Commits!Spec

\* Wherever commands are killed and whatever goes on beside them, a workspace is whole or can be
\* resumed, no edit of the catalogue is lost, and a benchmark reports what was asked for
\* (workspace_init.py, catalog.py, bench_cli.py).
THEOREM CommandsHold == MCSpec => []CommandsSound
<1>1. Setup!Spec => []Setup!WholeAndResumable
  BY PartsFit, WorkspacesStayWhole
<1>2. Authors!Spec => []Authors!EditsKept
  BY PartsFit, EditsStayKept
<1>3. Bench!Spec => []Bench!ReportsAsked
  BY PartsFit, ReportsStayAsked
<1>4. (part = "init" => Setup!WholeAndResumable) /\ (part = "authoring" => Authors!EditsKept)
      /\ (part = "bench" => Bench!ReportsAsked) => CommandsSound
  BY DEF CommandsSound
<1> QED
  BY <1>1, <1>2, <1>3, <1>4, SetupPlayed, AuthorsPlayed, BenchPlayed, PTL DEF MCSpec, Setup!Spec,
     Authors!Spec, Bench!Spec

\* What is there already is respected: directories that are not the workspace's, skill files that a
\* user edited, frozen cases, and runs that were paid for (workspace_init.py, skills.py, catalog.py,
\* bench_cli.py).
THEOREM OthersHold == MCSpec => OthersKept
<1> DEFINE Keeps ==
         /\ part = "init" => Setup!ForeignStep
         /\ part = "skills" => Skilled!ReviewStep
         /\ part = "authoring" => Authors!FrozenStep
         /\ part = "bench" => Bench!PaidOnceStep
<1>1. Setup!Spec => [][Setup!ForeignStep]_(Setup!vars)
  BY PartsFit, ForeignStaysForeign DEF Setup!ForeignKept
<1>2. part = "init" /\ [MCNext]_MCvars /\ [Setup!ForeignStep]_(Setup!vars) => [Keeps]_MCvars
  BY DEF MCNext, MCvars, initvars, Setup!vars, Setup!disk
<1>3. Skilled!Spec => [][Skilled!ReviewStep]_(Skilled!vars)
  BY PartsFit, SkillsStayReviewed DEF Skilled!SkillsReviewed
<1>4. part = "skills" /\ [MCNext]_MCvars /\ [Skilled!ReviewStep]_(Skilled!vars) => [Keeps]_MCvars
  BY DEF MCNext, MCvars, skillvars, Skilled!vars, Skilled!disk
<1>5. Authors!Spec => [][Authors!FrozenStep]_(Authors!vars)
  BY PartsFit, FrozenAsValidated DEF Authors!FrozenKept
<1>6. part = "authoring" /\ [MCNext]_MCvars /\ [Authors!FrozenStep]_(Authors!vars) => [Keeps]_MCvars
  BY DEF MCNext, MCvars, authorvars, Authors!vars
<1>7. Bench!Spec => [][Bench!PaidOnceStep]_(Bench!vars)
  BY PartsFit, RunsPaidOnce DEF Bench!PaidOnce
<1>8. part = "bench" /\ [MCNext]_MCvars /\ [Bench!PaidOnceStep]_(Bench!vars) => [Keeps]_MCvars
  BY DEF MCNext, MCvars, benchvars, Bench!vars
<1>9. ~(part = "init") /\ ~(part = "skills") /\ ~(part = "authoring") /\ ~(part = "bench") => [Keeps]_MCvars
  OBVIOUS
<1>10. MCSpec => [][Keeps]_MCvars
  BY <1>1, <1>2, <1>3, <1>4, <1>5, <1>6, <1>7, <1>8, <1>9, SetupPlayed, SkilledPlayed, AuthorsPlayed,
     BenchPlayed, PTL DEF MCSpec, Setup!Spec, Skilled!Spec, Authors!Spec, Bench!Spec
<1> QED
  BY <1>10 DEF OthersKept

-----------------------------------------------------------------------------
(* The object store (ObjectStore). *)

(* The inductive invariant.                                                *)

Entries == Objects \cup {Nothing}
StorePlaces  == {"idle", "import", "refs", "lock", "probe", "format", "stage", "naming", "alias", "index", "link",
            "collect"}
Putting == {"lock", "probe", "format", "stage"}

Process == [pc : StorePlaces, obj : Entries \cup Names, staged : SUBSET Parts, todo : SUBSET Objects,
            naming : [Names -> Entries], current : [Names -> Entries], replace : BOOLEAN, skip : SUBSET Names,
            kind : {"none", "put", "alias", "export", "import"}]

\* (No property depends on the number of operations or faults.)
Types ==
    /\ format \in BOOLEAN /\ store \in [Objects -> {{}, Parts}] /\ litter \in Nat
    /\ aliases \in [Names -> Entries]
    /\ bundle \in [objects : SUBSET Objects, names : [Names -> Entries]]
    /\ lock \in [objects : Procs \cup {Nothing}, aliases : Procs \cup {Nothing}]
    /\ p \in [Procs -> Process]

\* Everything that an object refers to is there.
Led(o) == \A x \in Refs[o] : Exists(x)

\* What is on disk leads nowhere outside of it, and bears the marker.
Disk ==
    /\ \A o \in Objects : Exists(o) => Led(o) /\ format
    /\ litter > 0 => format
    /\ \A n \in Names : aliases[n] # Nothing => Exists(aliases[n])
    /\ \A o \in bundle.objects : Refs[o] \subseteq bundle.objects
    /\ \A n \in Names : bundle.names[n] \in bundle.objects \cup {Nothing}

\* A process on its way to one alias, and one that is about to write the index.
Linking(m) == m.pc \in {"alias", "index", "link"} /\ m.kind # "export"
Writing(m) == m.pc = "link" /\ m.kind # "export"

\* A process on its way to an object: the lock keeps the place free, and what
\* the object refers to stays there.
SurePut(q, m) ==
    /\ m.pc \in Putting \cup {"refs", "collect"} => m.obj \in Objects
    /\ m.pc \in Putting => Led(m.obj)
    /\ m.pc \in Putting \ {"lock"} => lock.objects = q
    /\ m.pc \in {"format", "stage"} => ~ Exists(m.obj)
    /\ m.pc = "stage" => format
    /\ m.staged # {} => m.pc = "stage"

\* A process on its way to an alias: the lock keeps the index as it was read.
SureName(q, m) ==
    /\ m.pc \in {"import", "naming", "alias", "index"} => m.kind # "export"
    /\ Linking(m) => m.obj \in Names /\ m.naming[m.obj] \in Objects /\ Exists(m.naming[m.obj])
    /\ m.pc = "index" \/ Writing(m) => lock.aliases = q
    /\ Writing(m) => m.current = aliases /\ (aliases[m.obj] \in {Nothing, m.naming[m.obj]} \/ m.replace)

\* A process about to link a bundle, which is closed.
SureExport(m) ==
    /\ m.pc = "collect" => m.kind = "export"
    /\ m.pc = "link" /\ m.kind = "export" =>
         /\ \A o \in m.todo : Refs[o] \subseteq m.todo
         /\ \A n \in Names : m.naming[n] \in m.todo \cup {Nothing}

Sure(q, m) == SurePut(q, m) /\ SureName(q, m) /\ SureExport(m)

StoreInv == Types /\ Disk /\ \A q \in Procs : Sure(q, p[q])
-----------------------------------------------------------------------------
(* What is common to the steps. *)

USE DEF At, Goto, Ends, Fault, Complete, Free, Holding, Parts

\* The closure of an object has it and leads nowhere else.
LEMMA ClosureClosed ==
    ASSUME NEW o \in Objects
    PROVE  /\ o \in Closure[o] /\ Closure[o] \subseteq Objects
           /\ \A x \in Closure[o] : Refs[x] \subseteq Closure[o]
<1>1. Closure[o] = {x \in Objects : \A S \in SUBSET Objects : o \in S /\ ClosedUnder(S) => x \in S}
  BY DEF Closure
<1>2. ASSUME NEW x \in Closure[o], NEW y \in Refs[x] PROVE y \in Closure[o]
  <2>1. x \in Objects /\ y \in Objects
    BY <1>1, ObjectsAssumption
  <2>2. ASSUME NEW S \in SUBSET Objects, o \in S, ClosedUnder(S) PROVE y \in S
    BY <1>1, <2>2 DEF ClosedUnder
  <2> QED BY <1>1, <2>1, <2>2
<1> QED BY <1>1, <1>2

\* A verified object is there.
LEMMA VerifiedExists == ASSUME NEW o \in Objects, Verified(o) PROVE Exists(o)
  BY ClosureClosed DEF Verified, Exists

LEMMA CheckedLed == ASSUME NEW o \in Objects, Checked(o) PROVE Led(o)
  BY VerifiedExists, ObjectsAssumption DEF Checked, Led

LEMMA IdleType == Idle \in Process
  BY DEF Idle, Process, StorePlaces, Entries, NoNames

LEMMA IdleSure == ASSUME NEW q, p[q] = Idle PROVE Sure(q, p[q])
  BY DEF Idle, Sure, SurePut, SureName, SureExport, Putting, Linking, Writing

\* What a process knows.
LEMMA Situation ==
    ASSUME StoreInv, NEW q \in Procs
    PROVE  p[q] \in Process /\ SurePut(q, p[q]) /\ SureName(q, p[q]) /\ SureExport(p[q])
  BY DEF StoreInv, Types, Sure

\* A step that takes no lock from y, and changes the store or the index only if
\* y has not locked it, leaves y as sure as it was.
StoreApart(y) ==
    /\ lock.objects = y => lock'.objects = y /\ store' = store
    /\ lock.aliases = y => lock'.aliases = y /\ aliases' = aliases

\* What is there stays there.
Grows == (format => format') /\ \A o \in Objects : Exists(o) => Exists(o)'

LEMMA Bystander ==
    ASSUME StoreInv, NEW y \in Procs, p'[y] = p[y], StoreApart(y), Grows
    PROVE  Sure(y, p[y])'
<1>1. p[y] \in Process
  BY Situation
<1>2. \A o \in Objects : Led(o) => Led(o)'
  BY ObjectsAssumption DEF Grows, Led
<1>3. SurePut(y, p[y])'
  BY <1>1, <1>2, Situation DEF SurePut, Putting, StoreApart, Grows, Exists
<1>4. SureName(y, p[y])'
  BY <1>1, Situation DEF SureName, Linking, Writing, StoreApart, Grows
<1>5. SureExport(p[y])'
  BY Situation DEF SureExport
<1> QED BY <1>3, <1>4, <1>5 DEF Sure

\* The types of what processes share.
Shared ==
    /\ format \in BOOLEAN /\ store \in [Objects -> {{}, Parts}] /\ litter \in Nat
    /\ aliases \in [Names -> Entries]
    /\ bundle \in [objects : SUBSET Objects, names : [Names -> Entries]]
    /\ lock \in [objects : Procs \cup {Nothing}, aliases : Procs \cup {Nothing}]

\* The step of one process.
LEMMA Preserved ==
    ASSUME StoreInv, NEW q \in Procs, NEW new \in Process, p' = [p EXCEPT ![q] = new],
           \A y \in Procs : y # q => StoreApart(y),
           Grows, Shared', Disk', p'[q] = new => Sure(q, p[q])'
    PROVE  StoreInv'
<1>1. p' \in [Procs -> Process] /\ p'[q] = new /\ \A y \in Procs : y # q => p'[y] = p[y]
  BY DEF StoreInv, Types
<1>2. \A y \in Procs : Sure(y, p[y])'
  BY <1>1, Bystander
<1>3. Types'
  BY <1>1 DEF Shared, Types
<1> QED BY <1>2, <1>3 DEF StoreInv

\* A process goes on, and touches nothing.
LEMMA StoreOnward ==
    ASSUME StoreInv, NEW q \in Procs, NEW new \in Process, p' = [p EXCEPT ![q] = new], UNCHANGED <<disk, lock>>,
           p'[q] = new => Sure(q, p[q])'
    PROVE  StoreInv'
<1>1. UNCHANGED <<format, store, litter, aliases, bundle, lock>>
  BY DEF disk
<1>2. Grows /\ Shared' /\ Disk' /\ \A y \in Procs : StoreApart(y)
  BY <1>1 DEF StoreApart, Grows, Exists, StoreInv, Types, Shared, Disk, Led
<1> QED BY <1>2, Preserved

\* The locks of one process are released.
LEMMA Releases ==
    ASSUME StoreInv, NEW q \in Procs, lock' = Released(q)
    PROVE  /\ lock' \in [objects : Procs \cup {Nothing}, aliases : Procs \cup {Nothing}]
           /\ \A y \in Procs : y # q => /\ lock.objects = y => lock'.objects = y
                                        /\ lock.aliases = y => lock'.aliases = y
  BY DEF Released, StoreInv, Types

\* A process goes on, and may release its locks.
LEMMA Freed ==
    ASSUME StoreInv, NEW q \in Procs, NEW new \in Process, p' = [p EXCEPT ![q] = new],
           lock' \in {lock, Released(q)}, UNCHANGED disk, p'[q] = new => Sure(q, p[q])'
    PROVE  StoreInv'
<1>1. UNCHANGED <<format, store, litter, aliases, bundle>>
  BY DEF disk
<1>2. /\ lock' \in [objects : Procs \cup {Nothing}, aliases : Procs \cup {Nothing}]
      /\ \A y \in Procs : y # q => StoreApart(y)
  <2>1. CASE lock' = lock
    BY <1>1, <2>1 DEF StoreApart, StoreInv, Types
  <2>2. CASE lock' = Released(q)
    <3>1. /\ lock' \in [objects : Procs \cup {Nothing}, aliases : Procs \cup {Nothing}]
          /\ \A y \in Procs : y # q => /\ lock.objects = y => lock'.objects = y
                                       /\ lock.aliases = y => lock'.aliases = y
      BY <2>2, Releases
    <3>2. ASSUME NEW y \in Procs, y # q PROVE StoreApart(y)
      BY <1>1, <3>1, <3>2 DEF StoreApart
    <3> QED BY <3>1, <3>2
  <2> QED BY <2>1, <2>2
<1>3. Grows /\ Shared' /\ Disk'
  BY <1>1, <1>2 DEF Grows, Exists, StoreInv, Types, Shared, Disk, Led
<1> QED BY <1>2, <1>3, Preserved

\* An operation ends.
LEMMA StoreEnded ==
    ASSUME StoreInv, NEW q \in Procs, Ends(q), lock' \in {lock, Released(q)}, UNCHANGED disk
    PROVE  StoreInv'
<1>1. ASSUME p'[q] = Idle PROVE Sure(q, p[q])'
  BY <1>1 DEF Idle, Sure, SurePut, SureName, SureExport, Putting, Linking, Writing
<1> QED BY <1>1, IdleType, Freed

-----------------------------------------------------------------------------
(* Operations begin. *)

LEMMA BeginPutStep == ASSUME StoreInv, NEW q \in Procs, NEW o \in Objects, BeginPut(q, o) PROVE StoreInv'
<1> DEFINE new == [Idle EXCEPT !.pc = "refs", !.obj = o, !.kind = "put"]
<1>1. new \in Process
  BY DEF Process, StorePlaces, Idle, Entries, NoNames, StoreInv, Types
<1>2. p' = [p EXCEPT ![q] = new] /\ UNCHANGED <<disk, lock>>
  BY DEF BeginPut, Begins
<1>3. ASSUME p'[q] = new PROVE Sure(q, p[q])'
  BY <1>3 DEF Idle, Sure, SurePut, SureName, SureExport, Putting, Linking, Writing
<1> HIDE DEF new
<1> QED BY <1>1, <1>2, <1>3, StoreOnward

LEMMA BeginAliasStep ==
    ASSUME StoreInv, NEW q \in Procs, NEW n \in Names, NEW o \in Objects, NEW replace \in BOOLEAN, BeginAlias(q,
           n, o, replace)
    PROVE  StoreInv'
<1> DEFINE new == [Idle EXCEPT !.pc = "naming", !.naming = [NoNames EXCEPT ![n] = o],
                         !.replace = replace, !.kind = "alias"]
<1>1. new \in Process
  BY DEF Process, StorePlaces, Idle, Entries, NoNames, StoreInv, Types
<1>2. p' = [p EXCEPT ![q] = new] /\ UNCHANGED <<disk, lock>>
  BY DEF BeginAlias, Begins
<1>3. ASSUME p'[q] = new PROVE Sure(q, p[q])'
  BY <1>3 DEF Idle, Sure, SurePut, SureName, SureExport, Putting, Linking, Writing
<1> HIDE DEF new
<1> QED BY <1>1, <1>2, <1>3, StoreOnward

LEMMA BeginExportStep ==
    ASSUME StoreInv, NEW q \in Procs, NEW n \in Names, NEW o \in Objects, BeginExport(q, n, o)
    PROVE  StoreInv'
<1> DEFINE new == [Idle EXCEPT !.pc = "collect", !.obj = o, !.kind = "export",
                         !.naming = [NoNames EXCEPT ![n] = aliases[n]]]
<1>1. new \in Process
  BY DEF Process, StorePlaces, Idle, Entries, NoNames, StoreInv, Types
<1>2. p' = [p EXCEPT ![q] = new] /\ UNCHANGED <<disk, lock>>
  BY DEF BeginExport, Begins
<1>3. ASSUME p'[q] = new PROVE Sure(q, p[q])'
  BY <1>3 DEF Idle, Sure, SurePut, SureName, SureExport, Putting, Linking, Writing
<1> HIDE DEF new
<1> QED BY <1>1, <1>2, <1>3, StoreOnward

LEMMA BeginImportStep ==
    ASSUME StoreInv, NEW q \in Procs, NEW archive \in Archives \cup {bundle},
           NEW policy \in {"error", "skip", "replace"}, BeginImport(q, archive, policy)
    PROVE  StoreInv'
<1> DEFINE new == [Idle EXCEPT !.pc = "import", !.kind = "import", !.todo = archive.objects,
                         !.naming = archive.names, !.replace = policy = "replace",
                         !.skip = {n \in Names : policy = "skip" /\ aliases[n] # Nothing}]
<1>0. archive.objects \in SUBSET Objects /\ archive.names \in [Names -> Entries]
  BY ObjectsAssumption DEF StoreInv, Types, Entries
<1>1. new \in Process
  BY <1>0 DEF Process, StorePlaces, Idle, Entries, NoNames, StoreInv, Types
<1>2. p' = [p EXCEPT ![q] = new] /\ UNCHANGED <<disk, lock>>
  BY DEF BeginImport, Begins
<1>3. ASSUME p'[q] = new PROVE Sure(q, p[q])'
  BY <1>3 DEF Idle, Sure, SurePut, SureName, SureExport, Putting, Linking, Writing
<1> HIDE DEF new
<1> QED BY <1>1, <1>2, <1>3, StoreOnward

LEMMA DeleteAliasStep == ASSUME StoreInv, NEW q \in Procs, NEW n \in Names, DeleteAlias(q, n) PROVE StoreInv'
<1>1. aliases' = [aliases EXCEPT ![n] = Nothing] /\ lock.aliases = Nothing
      /\ UNCHANGED <<format, store, litter, bundle, lock, p>>
  BY DEF DeleteAlias
<1>2. Grows /\ \A y \in Procs : StoreApart(y)
  BY <1>1, NamesAssumption DEF StoreApart, Grows, Exists
<1>3. \A y \in Procs : Sure(y, p[y])'
  BY <1>1, <1>2, Bystander
<1>4. Types'
  BY <1>1 DEF StoreInv, Types, Entries
<1>5. Disk'
  BY <1>1 DEF StoreInv, Types, Disk, Led, Exists
<1> QED BY <1>3, <1>4, <1>5 DEF StoreInv

-----------------------------------------------------------------------------
(* Objects are put. *)

LEMMA ImportNextPut ==
    ASSUME StoreInv, NEW q \in Procs, NEW o \in Ready(q), ImportNext(q),
           p' = [p EXCEPT ![q].pc = "refs", ![q].obj = o, ![q].todo = @ \ {o}]
    PROVE  StoreInv'
<1> DEFINE new == [p[q] EXCEPT !.pc = "refs", !.obj = o, !.todo = @ \ {o}]
<1>1. p[q].pc = "import" /\ p[q].kind # "export" /\ o \in Objects /\ p[q].todo \ {o} \in SUBSET Objects
  BY Situation DEF ImportNext, SurePut, SureName, Putting, Linking, Ready, Process
<1>2. new \in Process /\ p' = [p EXCEPT ![q] = new]
      /\ new.pc = "refs" /\ new.obj = o /\ new.staged = p[q].staged /\ new.kind = p[q].kind
  <2>1. p[q] \in Process
    BY Situation
  <2>2. p' = [p EXCEPT ![q] = new]
    BY <2>1 DEF ImportNext, Process
  <2> QED BY <1>1, <2>1, <2>2 DEF Process, StorePlaces, Entries
<1>3. UNCHANGED disk /\ lock' = lock
  BY DEF ImportNext
<1> HIDE DEF new
<1>4. ASSUME p'[q] = new PROVE Sure(q, p[q])'
  <2>1. UNCHANGED <<format, store, aliases>>
    BY <1>3 DEF disk
  <2> QED BY <1>1, <1>2, <1>3, <1>4, <2>1, Situation
          DEF Sure, SurePut, SureName, SureExport, Putting, Linking, Writing, Exists, Led
<1> QED BY <1>2, <1>3, <1>4, StoreOnward

LEMMA ImportNextName == ASSUME StoreInv, NEW q \in Procs, ImportNext(q), Goto(q, "naming") PROVE StoreInv'
<1> DEFINE new == [p[q] EXCEPT !.pc = "naming"]
<1>1. p[q].pc = "import" /\ p[q].kind # "export"
  BY Situation DEF ImportNext, SurePut, SureName, Putting, Linking
<1>2. new \in Process /\ p' = [p EXCEPT ![q] = new]
      /\ new.pc = "naming" /\ new.obj = p[q].obj /\ new.staged = p[q].staged /\ new.kind = p[q].kind
  <2>1. p[q] \in Process
    BY Situation
  <2>2. p' = [p EXCEPT ![q] = new]
    BY <2>1 DEF ImportNext, Process
  <2> QED BY <1>1, <2>1, <2>2 DEF Process, StorePlaces, Entries
<1>3. UNCHANGED disk /\ lock' = lock
  BY DEF ImportNext
<1> HIDE DEF new
<1>4. ASSUME p'[q] = new PROVE Sure(q, p[q])'
  <2>1. UNCHANGED <<format, store, aliases>>
    BY <1>3 DEF disk
  <2> QED BY <1>1, <1>2, <1>3, <1>4, <2>1, Situation
          DEF Sure, SurePut, SureName, SureExport, Putting, Linking, Writing, Exists, Led
<1> QED BY <1>2, <1>3, <1>4, StoreOnward

LEMMA ReferencesStep == ASSUME StoreInv, NEW q \in Procs, References(q), Checked(p[q].obj) PROVE StoreInv'
<1> DEFINE new == [p[q] EXCEPT !.pc = "lock"]
<1>1. p[q].pc = "refs" /\ p[q].obj \in Objects /\ Led(p[q].obj)
  BY Situation, CheckedLed DEF References, SurePut, SureName, Putting, Linking
<1>2. new \in Process /\ p' = [p EXCEPT ![q] = new]
      /\ new.pc = "lock" /\ new.obj = p[q].obj /\ new.staged = p[q].staged /\ new.kind = p[q].kind
  <2>1. p[q] \in Process
    BY Situation
  <2>2. p' = [p EXCEPT ![q] = new]
    BY <2>1 DEF References, Process
  <2> QED BY <1>1, <2>1, <2>2 DEF Process, StorePlaces, Entries
<1>3. UNCHANGED disk /\ lock' = lock
  BY DEF References
<1> HIDE DEF new
<1>4. ASSUME p'[q] = new PROVE Sure(q, p[q])'
  <2>1. UNCHANGED <<format, store, aliases>>
    BY <1>3 DEF disk
  <2> QED BY <1>1, <1>2, <1>3, <1>4, <2>1, Situation
          DEF Sure, SurePut, SureName, SureExport, Putting, Linking, Writing, Exists, Led
<1> QED BY <1>2, <1>3, <1>4, StoreOnward

LEMMA ProbeFree == ASSUME StoreInv, NEW q \in Procs, Probe(q), ~ Exists(p[q].obj) PROVE StoreInv'
<1> DEFINE new == [p[q] EXCEPT !.pc = "format"]
<1>1. p[q].pc = "probe"
  BY Situation DEF Probe, SurePut, SureName, Putting, Linking
<1>2. new \in Process /\ p' = [p EXCEPT ![q] = new]
      /\ new.pc = "format" /\ new.obj = p[q].obj /\ new.staged = p[q].staged /\ new.kind = p[q].kind
  <2>1. p[q] \in Process
    BY Situation
  <2>2. p' = [p EXCEPT ![q] = new]
    BY <2>1 DEF Probe, Process
  <2> QED BY <1>1, <2>1, <2>2 DEF Process, StorePlaces, Entries
<1>3. UNCHANGED disk /\ lock' = lock
  BY DEF Probe
<1> HIDE DEF new
<1>4. ASSUME p'[q] = new PROVE Sure(q, p[q])'
  <2>1. UNCHANGED <<format, store, aliases>>
    BY <1>3 DEF disk
  <2> QED BY <1>1, <1>2, <1>3, <1>4, <2>1, Situation
          DEF Sure, SurePut, SureName, SureExport, Putting, Linking, Writing, Exists, Led
<1> QED BY <1>2, <1>3, <1>4, StoreOnward

LEMMA StageStep ==
    ASSUME StoreInv, NEW q \in Procs, NEW piece \in Parts, Stage(q), p' = [p EXCEPT ![q].staged = @ \cup {piece}]
    PROVE  StoreInv'
<1> DEFINE new == [p[q] EXCEPT !.staged = @ \cup {piece}]
<1>1. p[q].pc = "stage"
  BY Situation DEF Stage, SurePut, SureName, Putting, Linking
<1>2. new \in Process /\ p' = [p EXCEPT ![q] = new]
      /\ new.pc = "stage" /\ new.obj = p[q].obj /\ new.kind = p[q].kind
  <2>1. p[q] \in Process
    BY Situation
  <2>2. p' = [p EXCEPT ![q] = new]
    BY <2>1 DEF Stage, Process
  <2> QED BY <1>1, <2>1, <2>2 DEF Process, StorePlaces, Entries
<1>3. UNCHANGED disk /\ lock' = lock
  BY DEF Stage
<1> HIDE DEF new
<1>4. ASSUME p'[q] = new PROVE Sure(q, p[q])'
  <2>1. UNCHANGED <<format, store, aliases>>
    BY <1>3 DEF disk
  <2> QED BY <1>1, <1>2, <1>3, <1>4, <2>1, Situation
          DEF Sure, SurePut, SureName, SureExport, Putting, Linking, Writing, Exists, Led
<1> QED BY <1>2, <1>3, <1>4, StoreOnward

\* Where a put returns to.
LEMMA Returns ==
    ASSUME StoreInv, NEW q \in Procs, p' = Done(q)
    PROVE  \E new \in Process : p' = [p EXCEPT ![q] = new] /\ (p'[q] = new => Sure(q, p[q])')
<1>1. p[q] \in Process
  BY Situation
<1>2. CASE p[q].kind = "import"
  <2> DEFINE new == [p[q] EXCEPT !.pc = "import", !.staged = {}]
  <2>1. new \in Process /\ p' = [p EXCEPT ![q] = new]
        /\ new.pc = "import" /\ new.staged = {} /\ new.kind = "import"
    BY <1>1, <1>2 DEF Done, Process, StorePlaces
  <2> HIDE DEF new
  <2>2. ASSUME p'[q] = new PROVE Sure(q, p[q])'
    BY <2>1, <2>2 DEF Sure, SurePut, SureName, SureExport, Putting, Linking, Writing
  <2> QED BY <2>1, <2>2
<1>3. CASE p[q].kind # "import"
  <2>1. p' = [p EXCEPT ![q] = Idle]
    BY <1>3 DEF Done
  <2>2. ASSUME p'[q] = Idle PROVE Sure(q, p[q])'
    BY <2>2 DEF Idle, Sure, SurePut, SureName, SureExport, Putting, Linking, Writing
  <2> QED BY <2>1, <2>2, IdleType
<1> QED BY <1>2, <1>3

LEMMA ProbeKept == ASSUME StoreInv, NEW q \in Procs, Probe(q), Exists(p[q].obj) PROVE StoreInv'
<1>1. lock' = Released(q) /\ UNCHANGED disk /\ (p' = Done(q) \/ Ends(q))
  BY DEF Probe
<1>2. CASE p' = Done(q)
  BY <1>1, <1>2, Returns, Freed
<1> QED BY <1>1, <1>2, StoreEnded

\* A lock that is free is taken.
LEMMA Taken ==
    ASSUME StoreInv, NEW q \in Procs, NEW l \in {"objects", "aliases"}, lock[l] = Nothing,
           lock' = [lock EXCEPT ![l] = q], NEW new \in Process, p' = [p EXCEPT ![q] = new], UNCHANGED disk,
           p'[q] = new => Sure(q, p[q])'
    PROVE  StoreInv'
<1>1. UNCHANGED <<format, store, litter, aliases, bundle>>
  BY DEF disk
<1>2. lock' \in [objects : Procs \cup {Nothing}, aliases : Procs \cup {Nothing}]
  BY DEF StoreInv, Types
<1>3. ASSUME NEW y \in Procs PROVE StoreApart(y)
  <2>1. y # Nothing
    BY NamesAssumption
  <2> QED BY <1>1, <2>1 DEF StoreApart, StoreInv, Types
<1>4. Grows /\ Shared' /\ Disk'
  BY <1>1, <1>2 DEF Grows, Exists, StoreInv, Types, Shared, Disk, Led
<1> QED BY <1>3, <1>4, Preserved

LEMMA LockObjectsStep == ASSUME StoreInv, NEW q \in Procs, LockObjects(q) PROVE StoreInv'
<1>1. UNCHANGED disk /\ p[q].pc = "lock"
  BY DEF LockObjects, Lock
<1>2. CASE lock["objects"] = Nothing
  <2> DEFINE new == [p[q] EXCEPT !.pc = "probe"]
  <2>1. p[q] \in Process
    BY Situation
  <2>2. lock' = [lock EXCEPT !["objects"] = q] /\ p' = [p EXCEPT ![q] = new]
    BY <1>2, <2>1 DEF LockObjects, Lock, Process
  <2>3. new \in Process /\ new.pc = "probe" /\ new.obj = p[q].obj /\ new.kind = p[q].kind
        /\ new.staged = p[q].staged /\ new.naming = p[q].naming
    BY <2>1 DEF Process, StorePlaces
  <2>4. UNCHANGED <<format, store, aliases>> /\ lock'["objects"] = q
    BY <1>1, <2>2 DEF disk, StoreInv, Types
  <2> HIDE DEF new
  <2>5. ASSUME p'[q] = new PROVE Sure(q, p[q])'
    BY <1>1, <2>3, <2>4, <2>5, Situation
       DEF Sure, SurePut, SureName, SureExport, Putting, Linking, Writing, Exists, Led
  <2> QED BY <1>1, <1>2, <2>2, <2>3, <2>5, Taken
<1>3. CASE lock["objects"] # Nothing
  <2>1. Ends(q) /\ lock' = lock
    BY <1>3 DEF LockObjects, Lock
  <2> QED BY <1>1, <2>1, StoreEnded
<1> QED BY <1>2, <1>3

LEMMA EnsureFormatStep == ASSUME StoreInv, NEW q \in Procs, EnsureFormat(q) PROVE StoreInv'
<1> DEFINE new == [p[q] EXCEPT !.pc = "stage"]
<1>1. p[q].pc = "format" /\ format' = TRUE /\ UNCHANGED <<store, litter, aliases, bundle, lock>>
  BY DEF EnsureFormat
<1>2. new \in Process /\ p' = [p EXCEPT ![q] = new] /\ new.pc = "stage" /\ new.obj = p[q].obj
  <2>1. p[q] \in Process
    BY Situation
  <2> QED BY <2>1 DEF EnsureFormat, Process, StorePlaces
<1> HIDE DEF new
<1>3. ASSUME p'[q] = new PROVE Sure(q, p[q])'
  BY <1>1, <1>2, <1>3, Situation
     DEF Sure, SurePut, SureName, SureExport, Putting, Linking, Writing, Exists, Led
<1>4. Grows /\ Shared' /\ Disk' /\ \A y \in Procs : StoreApart(y)
  BY <1>1 DEF Grows, StoreApart, Exists, StoreInv, Types, Shared, Disk, Led
<1> QED BY <1>2, <1>3, <1>4, Preserved

\* An object appears at once, complete, in a place that is free, and what it
\* refers to is there.
LEMMA PublishStep == ASSUME StoreInv, NEW q \in Procs, Publish(q) PROVE StoreInv'
<1> DEFINE o == p[q].obj
<1>1. /\ o \in Objects /\ Led(o) /\ ~ Exists(o) /\ format /\ lock.objects = q
      /\ store' = [store EXCEPT ![o] = Parts] /\ lock' = Released(q) /\ p' = Done(q)
      /\ UNCHANGED <<format, litter, aliases, bundle>>
  BY Situation DEF Publish, SurePut, Putting
<1> HIDE DEF o
<1>2. store' \in [Objects -> {{}, Parts}] /\ store'[o] = Parts /\ \A x \in Objects : x # o
      => store'[x] = store[x]
  BY <1>1 DEF StoreInv, Types
<1>3. Grows
  BY <1>1, <1>2 DEF Grows, Exists
<1>4. \A y \in Procs : y # q => StoreApart(y)
  BY <1>1, Releases DEF StoreApart
<1>5. Shared'
  BY <1>1, <1>2, Releases DEF Shared, StoreInv, Types
<1>6. Disk'
  <2>1. ASSUME NEW x \in Objects, Exists(x)' PROVE Led(x)' /\ format'
    <3>1. Led(x) /\ format
      BY <1>1, <1>2, <2>1 DEF Exists, StoreInv, Disk
    <3> QED BY <1>1, <1>3, <3>1, ObjectsAssumption DEF Led, Grows
  <2>2. \A n \in Names : aliases'[n] # Nothing => Exists(aliases[n])'
    BY <1>1, <1>3 DEF StoreInv, Types, Disk, Entries, Grows
  <2> QED BY <1>1, <2>1, <2>2 DEF StoreInv, Disk
<1> QED BY <1>1, <1>3, <1>4, <1>5, <1>6, Returns, Preserved

LEMMA WriteFailsStep == ASSUME StoreInv, NEW q \in Procs, WriteFails(q) PROVE StoreInv'
  BY StoreEnded DEF WriteFails

-----------------------------------------------------------------------------
(* Aliases are moved, and bundles exported. *)

LEMMA NextAliasFound ==
    ASSUME StoreInv, NEW q \in Procs, NEW n \in Names, NextAlias(q), p[q].naming[n] # Nothing,
           Verified(p[q].naming[n]), p' = [p EXCEPT ![q].pc = "alias", ![q].obj = n]
    PROVE  StoreInv'
<1> DEFINE new == [p[q] EXCEPT !.pc = "alias", !.obj = n]
<1>1. p[q].pc = "naming" /\ p[q].kind # "export" /\ p[q].naming[n] \in Objects
      /\ Exists(p[q].naming[n])
  BY Situation, VerifiedExists DEF NextAlias, SurePut, SureName, Putting, Linking, Process, Entries
<1>2. new \in Process /\ p' = [p EXCEPT ![q] = new]
      /\ new.pc = "alias" /\ new.obj = n /\ new.naming = p[q].naming /\ new.staged = p[q].staged
         /\ new.kind = p[q].kind
  <2>1. p[q] \in Process
    BY Situation
  <2>2. p' = [p EXCEPT ![q] = new]
    BY <2>1 DEF NextAlias, Process
  <2> QED BY <1>1, <2>1, <2>2 DEF Process, StorePlaces, Entries
<1>3. UNCHANGED disk /\ lock' = lock
  BY DEF NextAlias
<1> HIDE DEF new
<1>4. ASSUME p'[q] = new PROVE Sure(q, p[q])'
  <2>1. UNCHANGED <<format, store, aliases>>
    BY <1>3 DEF disk
  <2> QED BY <1>1, <1>2, <1>3, <1>4, <2>1, Situation
          DEF Sure, SurePut, SureName, SureExport, Putting, Linking, Writing, Exists, Led
<1> QED BY <1>2, <1>3, <1>4, StoreOnward

LEMMA LockAliasesStep == ASSUME StoreInv, NEW q \in Procs, LockAliases(q) PROVE StoreInv'
<1>1. UNCHANGED disk /\ p[q].pc = "alias"
  BY DEF LockAliases, Lock
<1>2. CASE lock["aliases"] = Nothing
  <2> DEFINE new == [p[q] EXCEPT !.pc = "index"]
  <2>1. p[q] \in Process
    BY Situation
  <2>2. lock' = [lock EXCEPT !["aliases"] = q] /\ p' = [p EXCEPT ![q] = new]
    BY <1>2, <2>1 DEF LockAliases, Lock, Process
  <2>3. new \in Process /\ new.pc = "index" /\ new.obj = p[q].obj /\ new.kind = p[q].kind
        /\ new.staged = p[q].staged /\ new.naming = p[q].naming
    BY <2>1 DEF Process, StorePlaces
  <2>4. UNCHANGED <<format, store, aliases>> /\ lock'["aliases"] = q
    BY <1>1, <2>2 DEF disk, StoreInv, Types
  <2> HIDE DEF new
  <2>5. ASSUME p'[q] = new PROVE Sure(q, p[q])'
    BY <1>1, <2>3, <2>4, <2>5, Situation
       DEF Sure, SurePut, SureName, SureExport, Putting, Linking, Writing, Exists, Led
  <2> QED BY <1>1, <1>2, <2>2, <2>3, <2>5, Taken
<1>3. CASE lock["aliases"] # Nothing
  <2>1. Ends(q) /\ lock' = lock
    BY <1>3 DEF LockAliases, Lock
  <2> QED BY <1>1, <2>1, StoreEnded
<1> QED BY <1>2, <1>3

LEMMA ReadIndexRead == ASSUME StoreInv, NEW q \in Procs, ReadIndex(q), ~ Ends(q) PROVE StoreInv'
<1> DEFINE new == [p[q] EXCEPT !.pc = "link", !.current = aliases]
<1>1. /\ p[q].pc = "index" /\ lock' = lock /\ UNCHANGED disk
      /\ aliases[p[q].obj] \in {Nothing, p[q].naming[p[q].obj]} \/ p[q].replace
      /\ p' = [p EXCEPT ![q].pc = "link", ![q].current = aliases]
  BY DEF ReadIndex
<1>2. /\ new \in Process /\ p' = [p EXCEPT ![q] = new]
      /\ new.pc = "link" /\ new.current = aliases /\ new.replace = p[q].replace /\ new.obj = p[q].obj
      /\ new.naming = p[q].naming /\ new.staged = p[q].staged /\ new.kind = p[q].kind
  <2>1. p[q] \in Process /\ aliases \in [Names -> Entries]
    BY Situation DEF StoreInv, Types
  <2>2. p' = [p EXCEPT ![q] = new]
    BY <1>1, <2>1 DEF Process
  <2> QED BY <2>1, <2>2 DEF Process, StorePlaces
<1> HIDE DEF new
<1>3. ASSUME p'[q] = new PROVE Sure(q, p[q])'
  <2>1. UNCHANGED <<format, store, aliases, lock>>
    BY <1>1 DEF disk
  <2>2. SurePut(q, p[q])' /\ SureExport(p[q])'
    BY <1>1, <1>2, <1>3, Situation DEF SurePut, SureName, SureExport, Putting
  <2>3. /\ p[q].kind # "export" /\ p[q].obj \in Names /\ p[q].naming[p[q].obj] \in Objects
        /\ Exists(p[q].naming[p[q].obj]) /\ lock.aliases = q
    BY <1>1, Situation DEF SureName, Linking
  <2>4. SureName(q, p[q])'
    BY <1>1, <1>2, <1>3, <2>1, <2>3 DEF SureName, Linking, Writing, Exists
  <2> QED BY <2>2, <2>4 DEF Sure
<1> QED BY <1>1, <1>2, <1>3, StoreOnward

\* The index is written as it was read, but for one name.
LEMMA StoreWritten ==
    ASSUME StoreInv, NEW q \in Procs, WriteIndex(q)
    PROVE  /\ Writing(p[q]) /\ p[q].obj \in Names /\ lock.aliases = q
           /\ p[q].naming[p[q].obj] \in Objects /\ Exists(p[q].naming[p[q].obj])
           /\ aliases[p[q].obj] \in {Nothing, p[q].naming[p[q].obj]} \/ p[q].replace
           /\ aliases' = [aliases EXCEPT ![p[q].obj] = p[q].naming[p[q].obj]]
           /\ lock' = Released(q) /\ UNCHANGED <<format, store, litter, bundle>>
  BY Situation DEF WriteIndex, SureName, Linking, Writing

LEMMA WriteIndexStep == ASSUME StoreInv, NEW q \in Procs, WriteIndex(q) PROVE StoreInv'
<1> DEFINE n == p[q].obj
           new == [p[q] EXCEPT !.pc = "naming", !.naming = [p[q].naming EXCEPT ![n] = Nothing], !.current = NoNames]
<1>1. /\ Writing(p[q]) /\ n \in Names /\ lock.aliases = q
      /\ p[q].naming[n] \in Objects /\ Exists(p[q].naming[n])
      /\ aliases' = [aliases EXCEPT ![n] = p[q].naming[n]]
      /\ lock' = Released(q) /\ UNCHANGED <<format, store, litter, bundle>>
  BY StoreWritten
<1>2. /\ new \in Process /\ p' = [p EXCEPT ![q] = new]
      /\ new.pc = "naming" /\ new.staged = p[q].staged /\ new.kind = p[q].kind
  <2>1. p[q] \in Process
    BY Situation
  <2>2. p' = [p EXCEPT ![q] = new]
    BY <2>1 DEF WriteIndex, Process
  <2> QED BY <2>1, <2>2 DEF Process, StorePlaces, NoNames, Entries
<1> HIDE DEF new, n
<1>3. ASSUME p'[q] = new PROVE Sure(q, p[q])'
  BY <1>1, <1>2, <1>3, Situation DEF Sure, SurePut, SureName, SureExport, Putting, Linking, Writing
<1>4. \A y \in Procs : y # q => StoreApart(y)
  BY <1>1, Releases DEF StoreApart
<1>5. Grows
  BY <1>1 DEF Grows, Exists
<1>6. Shared'
  BY <1>1, Releases DEF Shared, StoreInv, Types, Entries
<1>7. Disk'
  BY <1>1 DEF StoreInv, Types, Disk, Led, Exists
<1> QED BY <1>2, <1>3, <1>4, <1>5, <1>6, <1>7, Preserved

LEMMA CollectStep == ASSUME StoreInv, NEW q \in Procs, Collect(q), ~ Ends(q) PROVE StoreInv'
<1> DEFINE o == p[q].obj
           new == [p[q] EXCEPT !.pc = "link", !.todo = Closure[o]]
<1>1. /\ p[q].pc = "collect" /\ o \in Objects /\ \A n \in Names : p[q].naming[n] \in Closure[o] \cup {Nothing}
      /\ p' = [p EXCEPT ![q].pc = "link", ![q].todo = Closure[o]] /\ UNCHANGED <<disk, lock>>
  BY Situation DEF Collect, SurePut
<1>2. Closure[o] \subseteq Objects /\ \A x \in Closure[o] : Refs[x] \subseteq Closure[o]
  BY <1>1, ClosureClosed
<1>3. /\ new \in Process /\ p' = [p EXCEPT ![q] = new]
      /\ new.pc = "link" /\ new.todo = Closure[o] /\ new.naming = p[q].naming
      /\ new.staged = p[q].staged /\ new.kind = p[q].kind
  <2>1. p[q] \in Process
    BY Situation
  <2>2. p' = [p EXCEPT ![q] = new]
    BY <1>1, <2>1 DEF Process
  <2> QED BY <1>2, <2>1, <2>2 DEF Process, StorePlaces
<1> HIDE DEF new, o
<1>4. ASSUME p'[q] = new PROVE Sure(q, p[q])'
  <2>1. p[q].kind = "export"
    BY <1>1, Situation DEF SureExport
  <2>2. SurePut(q, p[q])' /\ SureName(q, p[q])'
    BY <1>1, <1>3, <1>4, <2>1, Situation DEF SurePut, SureName, Putting, Linking, Writing
  <2>3. SureExport(p[q])'
    BY <1>1, <1>2, <1>3, <1>4 DEF SureExport
  <2> QED BY <2>2, <2>3 DEF Sure
<1> QED BY <1>1, <1>3, <1>4, StoreOnward

LEMMA LinkBundleStep == ASSUME StoreInv, NEW q \in Procs, LinkBundle(q) PROVE StoreInv'
<1>1. /\ p[q].pc = "link" /\ p[q].kind = "export" /\ p' = [p EXCEPT ![q] = Idle]
      /\ UNCHANGED <<format, store, litter, aliases, lock>>
  BY DEF LinkBundle
<1>2. ASSUME p'[q] = Idle PROVE Sure(q, p[q])'
  BY <1>2 DEF Idle, Sure, SurePut, SureName, SureExport, Putting, Linking, Writing
<1>3. bundle' = bundle \/ bundle' = [objects |-> p[q].todo, names |-> p[q].naming]
  BY DEF LinkBundle
<1>4. Grows /\ \A y \in Procs : StoreApart(y)
  BY <1>1 DEF StoreApart, Grows, Exists
<1>5. Shared'
  <2>1. p[q].todo \in SUBSET Objects /\ p[q].naming \in [Names -> Entries]
    BY Situation DEF Process
  <2> QED BY <1>1, <1>3, <2>1 DEF Shared, StoreInv, Types
<1>6. Disk'
  BY <1>1, <1>3, Situation DEF SureExport, StoreInv, Types, Disk, Led, Exists
<1> QED BY <1>1, <1>2, <1>4, <1>5, <1>6, IdleType, Preserved

-----------------------------------------------------------------------------
(* Faults. *)

LEMMA CrashStep == ASSUME StoreInv, NEW q \in Procs, Crash(q) PROVE StoreInv'
<1>1. /\ lock' = Released(q) /\ p' = [p EXCEPT ![q] = Idle]
      /\ litter' = IF p[q].staged = {} THEN litter ELSE litter + 1
      /\ UNCHANGED <<format, store, aliases, bundle>>
  BY DEF Crash
<1>2. ASSUME p'[q] = Idle PROVE Sure(q, p[q])'
  BY <1>2 DEF Idle, Sure, SurePut, SureName, SureExport, Putting, Linking, Writing
<1>3. Grows /\ \A y \in Procs : y # q => StoreApart(y)
  BY <1>1, Releases DEF StoreApart, Grows, Exists
<1>4. litter' \in Nat /\ (litter' > 0 => format)
  BY <1>1, Situation DEF SurePut, StoreInv, Types, Disk
<1>5. Shared'
  BY <1>1, <1>4, Releases DEF Shared, StoreInv, Types
<1>6. Disk'
  BY <1>1, <1>4 DEF StoreInv, Types, Disk, Led, Exists
<1> QED BY <1>1, <1>2, <1>3, <1>5, <1>6, IdleType, Preserved

LEMMA DamageStep == ASSUME StoreInv, NEW o \in Objects, Damage(o) PROVE StoreInv'
<1>1. UNCHANGED <<format, store, litter, aliases, bundle, lock, p>>
  BY DEF Damage
<1>2. Types' /\ Disk'
  BY <1>1 DEF StoreInv, Types, Disk, Led, Exists
<1>3. \A q \in Procs : Sure(q, p[q])'
  BY <1>1, Bystander DEF StoreApart, Grows, Exists
<1> QED BY <1>2, <1>3 DEF StoreInv

-----------------------------------------------------------------------------
(* The theorems. *)

LEMMA StoreBegins == Init => StoreInv
<1> SUFFICES ASSUME Init PROVE StoreInv
  OBVIOUS
<1>1. Types
  BY IdleType DEF Init, Types, NoNames, Entries
<1>2. Disk
  BY DEF Init, Disk, Exists, NoNames
<1>3. \A q \in Procs : Sure(q, p[q])
  BY IdleSure DEF Init
<1> QED BY <1>1, <1>2, <1>3 DEF StoreInv

LEMMA BeginInv == ASSUME StoreInv, NEW q \in Procs, Begin(q) PROVE StoreInv'
  BY BeginPutStep, BeginAliasStep, BeginExportStep, BeginImportStep, DeleteAliasStep DEF Begin

LEMMA StepInv == ASSUME StoreInv, NEW q \in Procs, Step(q) PROVE StoreInv'
<1>1. ASSUME ImportNext(q) PROVE StoreInv'
  BY <1>1, ImportNextPut, ImportNextName DEF ImportNext
<1>2. ASSUME References(q) PROVE StoreInv'
  <2>1. CASE Checked(p[q].obj)
    BY <1>2, <2>1, ReferencesStep
  <2>2. CASE ~ Checked(p[q].obj)
    BY <1>2, <2>2, StoreEnded DEF References
  <2> QED BY <2>1, <2>2
<1>3. ASSUME Probe(q) PROVE StoreInv'
  BY <1>3, ProbeFree, ProbeKept
<1>4. ASSUME Stage(q) PROVE StoreInv'
  BY <1>4, StageStep DEF Stage
<1>5. ASSUME NextAlias(q) PROVE StoreInv'
  <2>1. CASE Ends(q)
    BY <1>5, <2>1, StoreEnded DEF NextAlias
  <2>2. CASE ~ Ends(q)
    BY <1>5, <2>2, NextAliasFound DEF NextAlias
  <2> QED BY <2>1, <2>2
<1>6. ASSUME ReadIndex(q) PROVE StoreInv'
  <2>1. CASE Ends(q)
    BY <1>6, <2>1, StoreEnded DEF ReadIndex
  <2> QED BY <1>6, <2>1, ReadIndexRead
<1>7. ASSUME Collect(q) PROVE StoreInv'
  <2>1. CASE Ends(q)
    BY <1>7, <2>1, StoreEnded DEF Collect
  <2> QED BY <1>7, <2>1, CollectStep
<1> QED
  BY <1>1, <1>2, <1>3, <1>4, <1>5, <1>6, <1>7, LockObjectsStep, EnsureFormatStep, PublishStep,
     LockAliasesStep,
     WriteIndexStep, LinkBundleStep DEF Step

LEMMA StoreSteps == StoreInv /\ [Next]_vars => StoreInv'
<1> SUFFICES ASSUME StoreInv, [Next]_vars PROVE StoreInv'
  OBVIOUS
<1>1. CASE UNCHANGED vars
  <2>1. UNCHANGED <<format, store, litter, aliases, bundle, lock, p>>
    BY <1>1 DEF vars
  <2>2. Types' /\ Disk'
    BY <2>1 DEF StoreInv, Types, Disk, Led, Exists
  <2>3. \A q \in Procs : Sure(q, p[q])'
    BY <2>1, Bystander DEF StoreApart, Grows, Exists
  <2> QED BY <2>2, <2>3 DEF StoreInv
<1>2. CASE Next
  BY <1>2, BeginInv, StepInv, WriteFailsStep, CrashStep, DamageStep DEF Next
<1> QED BY <1>1, <1>2

\* The inductive invariant holds throughout: what is on disk is whole, and each
\* process is sure of what its next step relies on (ObjectStore.put,
\* put_manifest, set_alias, import_bundle, export_bundle).
THEOREM StoreInvariant == Spec => []StoreInv
  BY StoreBegins, StoreSteps, PTL DEF Spec

LEMMA InvSound == StoreInv => StoreSound
<1> SUFFICES ASSUME StoreInv PROVE StoreSound
  OBVIOUS
<1>1. Closed
  BY DEF StoreInv, Types, Disk, Led, Exists, Closed
<1>2. NeverLegacy
  <2>1. ASSUME NEW q \in Procs, p[q].staged # {} PROVE format
    BY <2>1, Situation DEF SurePut
  <2> QED BY <2>1 DEF StoreInv, Disk, NeverLegacy, HoldsData
<1> QED BY <1>1, <1>2 DEF StoreSound

\* A reader that takes no lock finds only complete objects whose references are
\* there, and no store looks like a legacy one, wherever a writer died or failed
\* (ObjectStore._publish, _ensure_format).
THEOREM StoreStaysSound == Spec => []StoreSound
  BY StoreInvariant, InvSound, PTL

LEMMA NamesKept == StoreInv /\ [Next]_vars => [NamesStep]_vars
<1> SUFFICES ASSUME StoreInv, Next PROVE NamesStep
  OBVIOUS
<1>1. CASE \E q \in Procs : WriteIndex(q)
  <2> PICK q \in Procs : WriteIndex(q)
    BY <1>1
  <2>1. store' = store /\ bundle' = bundle /\ aliases \in [Names -> Entries] /\ p[q].pc = "link"
    BY StoreWritten DEF StoreInv, Types, Writing
  <2>2. ASSUME NEW n \in Names, aliases'[n] # aliases[n]
        PROVE  /\ \A m \in Names \ {n} : aliases'[m] = aliases[m]
               /\ aliases[n] = Nothing \/ p[q].replace
    BY <2>1, <2>2, StoreWritten
  <2> QED BY <2>1, <2>2 DEF NamesStep
<1>2. CASE \E q \in Procs, n \in Names : DeleteAlias(q, n)
  BY <1>2 DEF DeleteAlias, NamesStep, StoreInv, Types
<1>3. CASE \E q \in Procs : Publish(q)
  <2> PICK q \in Procs : Publish(q)
    BY <1>3
  <2>1. ~ Exists(p[q].obj) /\ store' = [store EXCEPT ![p[q].obj] = p[q].staged] /\ UNCHANGED <<aliases, bundle>>
    BY Situation DEF Publish, SurePut
  <2> QED BY <2>1 DEF NamesStep, StoreInv, Types
<1>4. CASE \E q \in Procs : LinkBundle(q)
  BY <1>4 DEF LinkBundle, NamesStep
<1>5. CASE UNCHANGED <<aliases, store, bundle>>
  BY <1>5 DEF NamesStep
<1>6. ASSUME NEW q \in Procs, Begin(q), ~ \E n \in Names : DeleteAlias(q, n)
      PROVE  UNCHANGED <<aliases, store, bundle>>
  BY <1>6 DEF Begin, BeginPut, BeginAlias, BeginExport, BeginImport, Begins, disk
<1>7. ASSUME NEW q \in Procs, Step(q), ~ WriteIndex(q), ~ Publish(q), ~ LinkBundle(q)
      PROVE  UNCHANGED <<aliases, store, bundle>>
  BY <1>7 DEF Step, ImportNext, References, LockObjects, LockAliases, Lock, Probe, EnsureFormat, Stage,
     NextAlias,
              ReadIndex, Collect, disk
<1>8. ASSUME NEW q \in Procs, WriteFails(q) \/ Crash(q) PROVE UNCHANGED <<aliases, store, bundle>>
  BY <1>8 DEF WriteFails, Crash, disk
<1>9. ASSUME NEW o \in Objects, Damage(o) PROVE UNCHANGED <<aliases, store, bundle>>
  BY <1>9 DEF Damage
<1> QED BY <1>1, <1>2, <1>3, <1>4, <1>5, <1>6, <1>7, <1>8, <1>9 DEF Next

\* Whatever else goes on, an operation on aliases changes the one it names, and
\* moves it only if it may; an object that is there is not written again, and an
\* exported file is not replaced (set_alias, delete_alias, _publish,
\* export_bundle).
THEOREM OthersUntouched == Spec => AliasesKept
<1>1. Spec => [][NamesStep]_vars
  BY StoreInvariant, NamesKept, PTL DEF Spec
<1> QED BY <1>1 DEF AliasesKept
=============================================================================
