---------------------------- MODULE ViewerReads ----------------------------
(***************************************************************************)
(* What the viewer reads of a run that goes on (viewer.ViewerService,      *)
(* RunStore.summarize): whole journals, which it keeps parsed by the       *)
(* file's size and time, and rows of the listing, made of the beginning of *)
(* a journal and of a checkpoint that is of another moment.                *)
(***************************************************************************)
EXTENDS Naturals, Sequences, FiniteSets, SequencesExt, FiniteSetsExt

CONSTANTS
    Attempts, Readers,
    Allowance,      \* bytes of a journal that a row may read
    CacheSize,      \* PARSED_JOURNAL_CACHE
    MaxEvents, MaxCrashes, MaxRequests   \* bounds

VARIABLES
    journal,     \* complete events: the attempt whose state it is, or "other"
    tail,        \* bytes of an event that is not all there
    mtime,       \* of the file; each write and truncation changes it
    ckpt,        \* the events that checkpoint.json covers
    run,         \* up; due: a checkpoint is to be written; down
    cache,       \* _executions: <<key, events>>, the latest last
    req,         \* of each reader: at, since (events when it began), key, got, cut
    requests, crashes

run_vars == <<journal, tail, mtime, ckpt, run, crashes>>
vars == <<run_vars, cache, req, requests>>

Idle == [at |-> "idle", since |-> 0, key |-> <<>>, got |-> 0, cut |-> FALSE, from |-> 0]

Init ==
    /\ journal = <<>> /\ tail = 0 /\ mtime = 0 /\ ckpt = 0 /\ run = "up" /\ crashes = 0
    /\ cache = <<>> /\ req = [r \in Readers |-> Idle] /\ requests = 0

\* An attempt's state is longer than another event.
Bytes(e) == IF e \in Attempts THEN 2 ELSE 1
BytesOf(n) == n + Cardinality({k \in 1..n : journal[k] \in Attempts})
FileSize == BytesOf(Len(journal)) + tail

\* The stage of each attempt after n events: its states so far.
Stages(n) == [a \in Attempts |-> Cardinality({k \in 1..n : journal[k] = a})]
----------------------------------------------------------------------------
\* The run.

AppendEvent(e) ==
    /\ run = "up" /\ Len(journal) < MaxEvents /\ (tail = 0 \/ e \in Attempts)
    /\ IF tail + 1 < Bytes(e)
       THEN tail' = tail + 1 /\ UNCHANGED <<journal, run>>
       ELSE tail' = 0 /\ journal' = Append(journal, e) /\ run' = IF e \in Attempts THEN "due" ELSE "up"
    /\ mtime' = mtime + 1
    /\ UNCHANGED <<ckpt, crashes, cache, req, requests>>

\* ExecutionJournal: after each state.
Checkpoint ==
    /\ run = "due" /\ run' = "up" /\ ckpt' = Len(journal)
    /\ UNCHANGED <<journal, tail, mtime, crashes, cache, req, requests>>

Crash ==
    /\ run # "down" /\ crashes < MaxCrashes /\ run' = "down" /\ crashes' = crashes + 1
    /\ UNCHANGED <<journal, tail, mtime, ckpt, cache, req, requests>>

\* RunJournal: a torn event is cut off.
Reopen ==
    /\ run = "down" /\ run' = "up" /\ tail' = 0
    /\ mtime' = IF tail > 0 THEN mtime + 1 ELSE mtime
    /\ UNCHANGED <<journal, ckpt, crashes, cache, req, requests>>
----------------------------------------------------------------------------
\* progress, run_report, details of an attempt: _execution.

Moves(r, from, to) == req[r].at = from /\ req' = [req EXCEPT ![r] = to]

\* Mutant of Key: the size alone.
KeySize == <<FileSize>>

Key == <<FileSize, mtime>>

Stat(r) ==
    /\ requests < MaxRequests /\ requests' = requests + 1
    /\ Moves(r, "idle", [Idle EXCEPT !.at = "stat", !.since = Len(journal), !.key = Key])
    /\ UNCHANGED <<run_vars, cache>>

Cached(key) == {k \in 1..Len(cache) : cache[k][1] = key}

Hit(r) ==
    /\ Cached(req[r].key) # {}
    /\ LET k == CHOOSE x \in Cached(req[r].key) : TRUE IN
       /\ Moves(r, "stat", [req[r] EXCEPT !.at = "answered", !.got = cache[k][2]])
       /\ cache' = Append(RemoveAt(cache, k), cache[k])
    /\ UNCHANGED <<run_vars, requests>>

\* The journal is read and parsed without the lock, and without its torn tail.
Inspect(r) ==
    /\ Cached(req[r].key) = {}
    /\ Moves(r, "stat", [req[r] EXCEPT !.at = "parsed", !.got = Len(journal)])
    /\ UNCHANGED <<run_vars, cache, requests>>

Keep(r) ==
    /\ Moves(r, "parsed", [req[r] EXCEPT !.at = "answered"])
    /\ LET others == SelectSeq(cache, LAMBDA c : c[1] # req[r].key)
           all == Append(others, <<req[r].key, req[r].got>>) IN
       cache' = SubSeq(all, IF Len(all) > CacheSize THEN 2 ELSE 1, Len(all))
    /\ UNCHANGED <<run_vars, requests>>
----------------------------------------------------------------------------
\* runs: a row of the listing, summarize.

\* Complete events in the first Allowance bytes.
Prefix == Max({n \in 0..Len(journal) : BytesOf(n) <= Allowance})

ReadPrefix(r) ==
    /\ requests < MaxRequests /\ requests' = requests + 1
    /\ Moves(r, "idle", [Idle EXCEPT !.at = IF FileSize > Allowance THEN "cut" ELSE "row", !.since = Len(journal),
                                     !.got = Prefix, !.cut = FileSize > Allowance])
    /\ UNCHANGED <<run_vars, cache>>

\* The checkpoint, unless there is none or it is too long.
ReadCheckpoint(r) ==
    /\ \E found \in {0, ckpt} : Moves(r, "cut", [req[r] EXCEPT !.at = "row", !.from = found])
    /\ UNCHANGED <<run_vars, cache, requests>>

Answer(r) ==
    /\ req[r].at \in {"answered", "row"} /\ req' = [req EXCEPT ![r] = Idle]
    /\ UNCHANGED <<run_vars, cache, requests>>

\* _stages: the checkpoint's, and those of later events.
Row(from, got) ==
    [a \in Attempts |-> IF \E k \in (from + 1)..got : journal[k] = a THEN Stages(got)[a] ELSE Stages(from)[a]]

CountedThrough(r) == Max({req[r].from, req[r].got})

Next ==
    \/ \E e \in Attempts \cup {"other"} : AppendEvent(e)
    \/ Checkpoint \/ Crash \/ Reopen
    \/ \E r \in Readers : Stat(r) \/ Hit(r) \/ Inspect(r) \/ Keep(r) \/ ReadPrefix(r) \/ ReadCheckpoint(r) \/ Answer(r)

Spec == Init /\ [][Next]_vars
----------------------------------------------------------------------------
\* An answer is never older than the request, though it may be another's: events
\* that were there when it came are in it.
NeverStale == \A r \in Readers : req[r].at = "answered" => req[r].got >= req[r].since

\* A row's stages are those of one moment, the one that counted_through names,
\* though the events and the checkpoint it is made of are of two.
RowExact == \A r \in Readers : req[r].at = "row" => Row(req[r].from, req[r].got) = Stages(CountedThrough(r))
=============================================================================
