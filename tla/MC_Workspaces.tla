------------------------------- MODULE MC_Workspaces -------------------------------
(* The commands around a store, and the server of the viewer: a behaviour is one  *)
(* of one of them, as they share no state.  The object store is extended; the     *)
(* others are instances over constants and variables of their own.                *)
EXTENDS ObjectStore, Sequences

CONSTANTS
    None,
    Commands, Experiments, Trials, Budgets, Derived, MaxRuns, MaxBegun,             \* BenchRuns
    Clients, MaxConnections, MaxConcurrent,                                         \* ViewerServer
    Paths, Ignored, MaxVersions, MaxGitActs,                                        \* Checkpoint
    Inits, Roles, Layouts, Settings, DefaultLayout, DefaultSettings, MaxActs,       \* WorkspaceInit
    Skills, Versions,                                                               \* SkillFiles
    Candidates, Micro, Drafts, Agreeing, Fit, MaxEdits, MaxRevision                 \* Authoring

VARIABLES
    part,
    runs, locks, native, benchCmd, begun, reported,
    conn, loop, accepted, handlers, slots, server,
    commits, head, merging, index, work, staged, gitCmd, gitActs,
    owner, directory, storeFormat, config, initLock, inits, meddled, racing, initActs,
    present, skill, manifest, version, skillLock, skillCmd, skillRacing, skillActs,
    catalog, held, authorCmd, drafts, cases, edits, saves, last

benchvars == <<runs, locks, native, benchCmd, begun, reported>>
servervars == <<conn, loop, accepted, handlers, slots, server>>
gitvars == <<commits, head, merging, index, work, staged, gitCmd, gitActs>>
initvars == <<owner, directory, storeFormat, config, initLock, inits, meddled, racing, initActs>>
skillvars == <<present, skill, manifest, version, skillLock, skillCmd, skillRacing, skillActs>>
authorvars == <<catalog, held, authorCmd, drafts, cases, edits, saves, last>>
MCvars == <<part, vars, benchvars, servervars, gitvars, initvars, skillvars, authorvars>>

TwoTrials == <<1, 2>>

\* One object refers to the other; a whole bundle of them and one that lacks what it refers to.
LeafOfTop == [o \in {"top", "leaf"} |-> IF o = "top" THEN {"leaf"} ELSE {}]
TwoArchives ==
    {[objects |-> {"top", "leaf"}, names |-> [n \in {"n1", "n2"} |-> IF n = "n1" THEN "top" ELSE "leaf"]],
     [objects |-> {"top"}, names |-> [n \in {"n1", "n2"} |-> Nothing]]}

-----------------------------------------------------------------------------
Bench == INSTANCE BenchRuns WITH cmd <- benchCmd
Server == INSTANCE ViewerServer
Commits == INSTANCE Checkpoint WITH cmd <- gitCmd, done <- gitActs, MaxUser <- MaxGitActs
Setup == INSTANCE WorkspaceInit WITH
    format <- storeFormat, lock <- initLock, init <- inits, done <- initActs, MaxUser <- MaxActs
Skilled == INSTANCE SkillFiles WITH
    lock <- skillLock, cmd <- skillCmd, racing <- skillRacing, done <- skillActs, Names <- Skills, MaxUser <- MaxActs
Authors == INSTANCE Authoring WITH cmd <- authorCmd, files <- drafts, Names <- Candidates
-----------------------------------------------------------------------------
\* The variables of a part that is not played stay as they are at the beginning.
BenchRests ==
    /\ runs = 0 /\ locks = 0 /\ native = 0 /\ benchCmd = 0 /\ begun = 0 /\ reported = 0
ServerRests ==
    /\ conn = 0 /\ loop = 0 /\ accepted = 0 /\ handlers = 0 /\ slots = 0 /\ server = 0
CommitsRests ==
    /\ commits = 0 /\ head = 0 /\ merging = 0 /\ index = 0 /\ work = 0 /\ staged = 0 /\ gitCmd = 0 /\ gitActs = 0
SetupRests ==
    /\ owner = 0 /\ directory = 0 /\ storeFormat = 0 /\ config = 0 /\ initLock = 0 /\ inits = 0 /\ meddled = 0
    /\ racing = 0 /\ initActs = 0
SkilledRests ==
    /\ present = 0 /\ skill = 0 /\ manifest = 0 /\ version = 0 /\ skillLock = 0 /\ skillCmd = 0 /\ skillRacing = 0
    /\ skillActs = 0
AuthorsRests ==
    /\ catalog = 0 /\ held = 0 /\ authorCmd = 0 /\ drafts = 0 /\ cases = 0 /\ edits = 0 /\ saves = 0 /\ last = 0

MCInit ==
    /\ part \in {"store", "bench", "server", "checkpoint", "init", "skills", "authoring"}
    /\ Init
    /\ IF part = "bench" THEN Bench!Init ELSE BenchRests
    /\ IF part = "server" THEN Server!Init ELSE ServerRests
    /\ IF part = "checkpoint" THEN Commits!Init ELSE CommitsRests
    /\ IF part = "init" THEN Setup!Init ELSE SetupRests
    /\ IF part = "skills" THEN Skilled!Init ELSE SkilledRests
    /\ IF part = "authoring" THEN Authors!Init ELSE AuthorsRests

MCNext ==
    \/ part = "store" /\ Next
       /\ UNCHANGED <<part, benchvars, servervars, gitvars, initvars, skillvars, authorvars>>
    \/ part = "bench" /\ Bench!Next
       /\ UNCHANGED <<part, vars, servervars, gitvars, initvars, skillvars, authorvars>>
    \/ part = "server" /\ Server!Next
       /\ UNCHANGED <<part, vars, benchvars, gitvars, initvars, skillvars, authorvars>>
    \/ part = "checkpoint" /\ Commits!Next
       /\ UNCHANGED <<part, vars, benchvars, servervars, initvars, skillvars, authorvars>>
    \/ part = "init" /\ Setup!Next
       /\ UNCHANGED <<part, vars, benchvars, servervars, gitvars, skillvars, authorvars>>
    \/ part = "skills" /\ Skilled!Next
       /\ UNCHANGED <<part, vars, benchvars, servervars, gitvars, initvars, authorvars>>
    \/ part = "authoring" /\ Authors!Next
       /\ UNCHANGED <<part, vars, benchvars, servervars, gitvars, initvars, skillvars>>

MCSpec == MCInit /\ [][MCNext]_MCvars
-----------------------------------------------------------------------------
\* What the proofs ask of the constants.
ASSUME PartsFit ==
    /\ Bench!ConstantsFit /\ Server!ConstantsFit /\ Commits!ConstantsFit
    /\ Setup!ConstantsFit /\ Skilled!ConstantsFit /\ Authors!ConstantsFit

\* The viewer's connections are counted, and a stop it reports is one (ViewerServer).
ServerSound == part = "server" => Server!ServerSound

\* A checkpoint commits its own paths and loses no commit (Checkpoint).
CheckpointSound == part = "checkpoint" => Commits!CheckpointSound

\* What commands that are killed, and run beside others, leave: a workspace is whole or can be resumed
\* (WorkspaceInit), edits of the catalogue are kept (Authoring), and a benchmark reports runs made with
\* what was asked (BenchRuns).
CommandsSound ==
    /\ part = "init" => Setup!WholeAndResumable
    /\ part = "authoring" => Authors!EditsKept
    /\ part = "bench" => Bench!ReportsAsked

\* What is there already is respected: an init touches nothing that is not the workspace's
\* (WorkspaceInit), skill files that a user edited stay (SkillFiles), a case is frozen as it was
\* validated and stays (Authoring), and no run is paid for again (BenchRuns).
OthersKept ==
    [][ /\ part = "init" => Setup!ForeignStep
        /\ part = "skills" => Skilled!ReviewStep
        /\ part = "authoring" => Authors!FrozenStep
        /\ part = "bench" => Bench!PaidOnceStep ]_MCvars
=============================================================================
