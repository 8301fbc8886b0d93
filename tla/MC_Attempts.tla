-------------------------------- MODULE MC_Attempts --------------------------------
(* The parts of an attempt, and of what is read of its records afterwards, that *)
(* do not share state: a behaviour is one of one of them.  Those of AttemptParts *)
(* have variables of their own; the others are small instances of their modules *)
(* and are lent the same variables.                                             *)
EXTENDS AttemptParts

CONSTANTS Null, Refusal

VARIABLES v1, v2, v3, v4, v5, v6, v7, v8, v9, v10, v11, v12, v13, v14, v15

Lent == <<v1, v2, v3, v4, v5, v6, v7, v8, v9, v10, v11, v12, v13, v14, v15>>
MCvars == <<partvars, Lent>>

\* A session's logs: its root, a subagent that repeats a part of it, one below that, one from before.
Meta(in, p, until) == [kind |-> "meta", session |-> in, parent |-> p, id |-> until]
Usage(in, id)      == [kind |-> "usage", session |-> in, parent |-> "none", id |-> id]
Bad               == [kind |-> "bad", session |-> "f", parent |-> "none", id |-> 0]
Of(root, fork, deep) ==
    [root |-> root, fork |-> fork, deep |-> deep, old |-> <<Meta("o", "none", 1), Usage("o", 9)>>]
OneLog == Of(<<Meta("r", "none", 1), Usage("r", 1)>>, <<Meta("f", "r", 2), Usage("f", 1), Usage("f", 2)>>, <<>>)
Logs ==
    {OneLog,
     Of(<<Meta("r", "none", 1)>>, <<Meta("f", "r", 1)>>, <<Meta("d", "f", 1), Usage("d", 1)>>),
     Of(<<Meta("r", "none", 1)>>, <<Meta("f", "r", 1), Bad>>, <<>>),
     Of(<<Meta("r", "none", 1)>>, <<>>, <<Meta("x", "none", 1), Usage("x", 1)>>)}

\* A dialog of two questions.
Script == <<[options |-> 2, multi |-> TRUE, text |-> TRUE], [options |-> 2, multi |-> FALSE, text |-> TRUE]>>

\* What may be at a live path: files and links, screened or not, and special files.
Node(kind, id, text, to) == [kind |-> kind, id |-> id, text |-> text, to |-> to]
LiveNodes ==
    {Node("file", 1, "a", "dangling"), Node("file", 2, "secret", "dangling"),
     Node("link", 3, "a", "elsewhere"), Node("link", 4, "secret", "elsewhere"),
     Node("link", 5, "secret", "credential"), Node("link", 6, "a", "dangling"),
     Node("link", 8, "a", "unlisted"), Node("special", 7, "a", "dangling"), Node("none", 0, "a", "dangling")}

TwoFiles == <<"skills/a", "skills/b">>

\* Calibrations of one verifier on both sides.
OneVerifier == <<"v">>
BothSides   == <<"baseline", "reference">>

\* Two files and two links, one of them in a directory.
File(path) == [path |-> path, mode |-> "file", to |-> <<>>]
Link(path, to) == [path |-> path, mode |-> "link", to |-> to]
Plain == {File(<<"a">>), File(<<"d", "b">>)}
Targets == {<<"a">>, <<"..">>, <<"b", "..">>, <<"..", "l">>, <<"d", "m", "..", "a">>,
            <<"l", "..", "..", "a">>, <<"d", "m">>}
Trees == {Plain \cup {Link(<<"l">>, x), Link(<<"d", "m">>, y)} : x, y \in Targets}
           \cup {Plain, Plain \cup {[path |-> <<"o">>, mode |-> "odd", to |-> <<>>]}}
Patched == {Plain \cup {Link(<<"l">>, <<"d", "b">>)}, Plain \cup {Link(<<"l">>, <<"d", "..", "..", "a">>)}}

\* What an assessment may say, and an attempt that has had one.
Assessed ==
    {[eligible |-> TRUE, outcome |-> "pass", criteria |-> 1],
     [eligible |-> TRUE, outcome |-> "fail", criteria |-> 2],
     [eligible |-> FALSE, outcome |-> "indeterminate", criteria |-> 1]}
Had(t) == [trial |-> t, result |-> [eligible |-> TRUE, outcome |-> "pass", criteria |-> 1], capture |-> "kept"]

-----------------------------------------------------------------------------
Log == INSTANCE NativeLog WITH
    content <- v1, written <- v2, replaced <- v3, stopped <- v4, seen <- v5, poll <- v6, visit <- v7, batch <- v8,
    failed <- v9, events <- v10, session <- v11, drained <- v12, polls <- v13, faults <- v14, Files <- DOMAIN OneLog,
    Contents <- Logs, Before <- {"old"}, MaxPolls <- 1, MaxFaults <- 1
Dialog == INSTANCE DialogAnswer WITH
    tui <- v1, keys <- v2, frame <- v3, pc <- v4, asked <- v5, selection <- v6, current <- v7, duties <- v8,
    tries <- v9, gone <- v10, wanted <- v11, given <- v12, None <- Null, Script <- Script, ClosedPolls <- 2
Repository == INSTANCE RepositorySnapshot WITH
    source <- v1, tree <- v2, patch <- v3, take <- v4, kept <- v5, listed <- v6, coverage <- v7, stored <- v8,
    mat <- v9, place <- v10, acts <- v11, None <- Null, Rejected <- Refusal, Commits <- 1..4,
    Parents <- <<{}, {1}, {1}, {2}>>, Base <- 2, Trees <- Trees, Patched <- Patched, Procs <- {"p1", "p2"},
    MaxObjects <- 3, MaxFiles <- 4, MaxListed <- 1, MaxDepth <- 3, MaxHops <- 3, MaxUser <- 2
Capture == INSTANCE FinalCapture WITH
    now <- v1, changed <- v2, at <- v3, found <- v4, visited <- v5, bytes <- v6, queue <- v7, files <- v8,
    directories <- v9, omitted <- v10, patch <- v11, Paths <- <<<<"a">>, <<"b">>, <<"b", "x">>, <<"c">>>>,
    Targets <- {<<"a">>, <<"..", "a">>}, Excluded <- {<<"c">>}, Ignored <- {}, MaxFiles <- 3, MaxBytes <- 3,
    MaxDepth <- 2, MaxHops <- 3, MaxChanges <- 1
Input == INSTANCE InputFit WITH
    kind <- v1, transcript <- v2, texts <- v3, limit <- v4, search <- v5, kept <- v6, sent <- v7, KeptActions <- 2,
    MaxEntries <- 4, MaxSize <- 2, Mark <- 3, MaxTexts <- 3, MaxLength <- 5, MaxLimit <- 15
Credited == INSTANCE FactCredit WITH
    at <- v1, accepted <- v2, position <- v3, sending <- v4, calls <- v5, records <- v6, raises <- v7, events <- v8,
    stop <- v9, results <- v10, told <- v11, Facts <- {"r1", "r2"}, Optional <- {}, Proactive <- {},
    Verified <- {"r2"}, NPhases <- 2, PhaseOf <- [r1 |-> 1, r2 |-> 2], AfterPhase <- <<1>>, Workflow <- TRUE,
    Finals <- {"met", "unmet", "unclear"}, Stops <- {"exited"}, MaxCalls <- 3, MaxInspections <- 2
Used == INSTANCE UsageAccount WITH
    requests <- v1, segments <- v2, ledger <- v3, totals <- v4, over <- v5, MaxRequests <- 2, MaxRecords <- 2,
    MaxOutput <- 1, Unknown <- Null, Long <- 1, LongRates <- TRUE
Replays == INSTANCE Replay WITH
    status <- v1, run <- v2, capture <- v3, at <- v4, lock <- v5, place <- v6, cmd <- v7, cancelled <- v8,
    faults <- v9, None <- Null, Calls <- <<"c1", "j1", "c2">>,
    Role <- [c1 |-> "stand_in", j1 |-> "inspector", c2 |-> "stand_in"], Asked <- {Null, "c2"}, Procs <- {"p1"},
    Outs <- {"o1"}, Lacks <- {"c2"}, MaxFaults <- 1
Reads == INSTANCE ViewerReads WITH
    journal <- v1, tail <- v2, mtime <- v3, ckpt <- v4, run <- v5, cache <- v6, req <- v7, requests <- v8,
    crashes <- v9, Attempts <- {"a1"}, Readers <- {"r1", "r2"}, Allowance <- 2, CacheSize <- 1, MaxEvents <- 2,
    MaxCrashes <- 1, MaxRequests <- 2
Scan == INSTANCE ViewerScan WITH
    changes <- v1, objects <- v2, source <- v3, caseId <- v4, due <- v5, slot <- v6, requests <- v7, Names <- 1..3,
    Cases <- {"c1", "c2"}, RunCases <- [r |-> {"c1"}], Limit <- 1, MaxRequests <- 2, MaxChanges <- 1
Lanes == INSTANCE ReviewLanes WITH
    journal <- v1, at <- v2, taken <- v3, counted <- v4, prompt <- v5, pending <- v6, raising <- v7, position <- v8,
    call <- v9, truth <- v10, asked <- v11, Facts <- {"f1"}, Texts <- {"more", "step"}, StepTexts <- <<"step">>,
    MaxTurns <- 3, MaxCalls <- 3, MaxInspections <- 1
Details == INSTANCE ViewerDetails WITH
    objects <- v1, attempt <- v2, request <- v3, damages <- v4, Calls <- {1, 2}, MaxDamage <- 1
Reported == INSTANCE RunReports WITH
    attempts <- v1, frozen <- v2, exported <- v3, at <- v4, left <- v5, right <- v6, chosen <- v7, comparison <- v8,
    events <- v9, Runs <- {"x", "z"}, Signature <- [x |-> "s", z |-> "o"], Trials <- {"t1", "t2", "t3"},
    Variant <- [t1 |-> "A", t2 |-> "B", t3 |-> "A"], Identity <- [t1 |-> "i", t2 |-> "i", t3 |-> "j"],
    Results <- Assessed, Begun <- {<<Had("t1"), Had("t2")>>}, MaxEvents <- 2, None <- Null
-----------------------------------------------------------------------------
LentInit ==
    \/ part = "log" /\ Log!Init /\ v15 = 0
    \/ part = "dialog" /\ Dialog!Init /\ v13 = 0 /\ v14 = 0 /\ v15 = 0
    \/ part = "repository" /\ Repository!Init /\ v12 = 0 /\ v13 = 0 /\ v14 = 0 /\ v15 = 0
    \/ part = "capture" /\ Capture!Init /\ v12 = 0 /\ v13 = 0 /\ v14 = 0 /\ v15 = 0
    \/ part = "input" /\ Input!Init
       /\ v8 = 0 /\ v9 = 0 /\ v10 = 0 /\ v11 = 0 /\ v12 = 0 /\ v13 = 0 /\ v14 = 0 /\ v15 = 0
    \/ part = "credit" /\ Credited!Init /\ v12 = 0 /\ v13 = 0 /\ v14 = 0 /\ v15 = 0
    \/ part = "usage" /\ Used!Init
       /\ v6 = 0 /\ v7 = 0 /\ v8 = 0 /\ v9 = 0 /\ v10 = 0 /\ v11 = 0 /\ v12 = 0 /\ v13 = 0 /\ v14 = 0 /\ v15 = 0
    \/ part = "replay" /\ Replays!Init /\ v10 = 0 /\ v11 = 0 /\ v12 = 0 /\ v13 = 0 /\ v14 = 0 /\ v15 = 0
    \/ part = "reads" /\ Reads!Init /\ v10 = 0 /\ v11 = 0 /\ v12 = 0 /\ v13 = 0 /\ v14 = 0 /\ v15 = 0
    \/ part = "scan" /\ Scan!Init
       /\ v8 = 0 /\ v9 = 0 /\ v10 = 0 /\ v11 = 0 /\ v12 = 0 /\ v13 = 0 /\ v14 = 0 /\ v15 = 0
    \/ part = "lanes" /\ Lanes!Init /\ v12 = 0 /\ v13 = 0 /\ v14 = 0 /\ v15 = 0
    \/ part = "details" /\ Details!Init
       /\ v5 = 0 /\ v6 = 0 /\ v7 = 0 /\ v8 = 0 /\ v9 = 0
       /\ v10 = 0 /\ v11 = 0 /\ v12 = 0 /\ v13 = 0 /\ v14 = 0 /\ v15 = 0
    \/ part = "reports" /\ Reported!Init /\ v10 = 0 /\ v11 = 0 /\ v12 = 0 /\ v13 = 0 /\ v14 = 0 /\ v15 = 0

LentNext ==
    \/ part = "log" /\ Log!Next /\ UNCHANGED <<v15>>
    \/ part = "dialog" /\ Dialog!Next /\ UNCHANGED <<v13, v14, v15>>
    \/ part = "repository" /\ Repository!Next /\ UNCHANGED <<v12, v13, v14, v15>>
    \/ part = "capture" /\ Capture!Next /\ UNCHANGED <<v12, v13, v14, v15>>
    \/ part = "input" /\ Input!Next /\ UNCHANGED <<v8, v9, v10, v11, v12, v13, v14, v15>>
    \/ part = "credit" /\ Credited!Next /\ UNCHANGED <<v12, v13, v14, v15>>
    \/ part = "usage" /\ Used!Next /\ UNCHANGED <<v6, v7, v8, v9, v10, v11, v12, v13, v14, v15>>
    \/ part = "replay" /\ Replays!Next /\ UNCHANGED <<v10, v11, v12, v13, v14, v15>>
    \/ part = "reads" /\ Reads!Next /\ UNCHANGED <<v10, v11, v12, v13, v14, v15>>
    \/ part = "scan" /\ Scan!Next /\ UNCHANGED <<v8, v9, v10, v11, v12, v13, v14, v15>>
    \/ part = "lanes" /\ Lanes!Next /\ UNCHANGED <<v12, v13, v14, v15>>
    \/ part = "details" /\ Details!Next /\ UNCHANGED <<v5, v6, v7, v8, v9, v10, v11, v12, v13, v14, v15>>
    \/ part = "reports" /\ Reported!Next /\ UNCHANGED <<v10, v11, v12, v13, v14, v15>>

\* The variables of a part that is not played stay as they are at the beginning.
NotLent == {"calibration", "config", "judging", "inspection", "turns", "checks", "metrics"}
NoneLent ==
    /\ v1 = 0 /\ v2 = 0 /\ v3 = 0 /\ v4 = 0 /\ v5 = 0 /\ v6 = 0 /\ v7 = 0 /\ v8 = 0 /\ v9 = 0 /\ v10 = 0 /\ v11 = 0
    /\ v12 = 0 /\ v13 = 0 /\ v14 = 0 /\ v15 = 0

MCInit ==
    /\ (part \in NotLent /\ NoneLent) \/ LentInit
    /\ PartsInit

MCNext ==
    \/ LentNext /\ UNCHANGED partvars
    \/ PartsNext /\ UNCHANGED Lent

MCSpec == MCInit /\ [][MCNext]_MCvars
-----------------------------------------------------------------------------
\* What is read of a subject: a turn that is over is seen to be (ClaudeTurns), its log is read in
\* order, each line once, and its usage counted once (NativeLog); and a dialog is answered with what
\* was chosen (DialogAnswer).
SubjectRead ==
    /\ part = "turns" => Turns!NeverHeldForEver
    /\ part = "log" => Log!InOrder /\ Log!UsageExact
    /\ part = "dialog" => Dialog!AnswersChosen

\* An attempt starts from the base with its history and nothing else (RepositorySnapshot), and what is
\* captured of its workspace is whole (FinalCapture).
TreesWhole ==
    /\ part = "repository" => Repository!SnapshotSound
    /\ part = "capture" => Capture!CompleteIsWhole /\ Capture!LinksLead

\* What the judge and the stand-in are shown keeps to its bounds (InputFit).
InputFitted == part = "input" => Input!TranscriptFitted /\ Input!PromptFitted

\* What is told afterwards from the records of an attempt: what the subject is credited with and how
\* it ended (FactCredit), what it used and what that cost (UsageAccount), its calls (Replay).
AccountSound ==
    /\ part = "credit" => Credited!AccountSound
    /\ part = "usage" => Used!UsageExact
    /\ part = "replay" => Replays!ReplayWhole

\* A report accounts for every attempt and a comparison pairs what was the same trial (RunReports).
ReportsSound == part = "reports" => Reported!ReportsSound

\* What the viewer shows is in the store, of what was asked for (ViewerReads, ViewerScan, ViewerDetails),
\* and of each line of a conversation whose it is, and of each call what it was for (ReviewLanes).
ViewSound ==
    /\ part = "reads" => Reads!NeverStale /\ Reads!RowExact
    /\ part = "scan" => Scan!PagesMakeScan
    /\ part = "details" => Details!ServedIsOwn
    /\ part = "lanes" => Lanes!LanesRight

\* A workflow prompt in the journal is the author of a line (ReviewLanes); documented, and not so.
PromptsNamed == part = "lanes" => Lanes!WorkflowNamed
=============================================================================
