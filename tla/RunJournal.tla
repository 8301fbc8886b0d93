----------------------------- MODULE RunJournal -----------------------------
(***************************************************************************)
(* The append-only run journal of dryheave (journals.py on filesystem.py). *)
(* A run directory holds events.jsonl, one canonical line per event, each  *)
(* line carrying its sequence number and the digest of the line before it, *)
(* and two derived snapshots, checkpoint.json and result.json, that name   *)
(* the sequence and digest they were taken at.  One process at a time owns *)
(* the run lock and a handle on the journal; readers take no lock.         *)
(*                                                                         *)
(* The file is modelled as the kernel shows it (file, tail, snap) together *)
(* with what is known to be on stable storage (synced, dsnap), so that a   *)
(* killed process and a host that loses power are different failures.      *)
(* An event is reduced to its chain fields and a stamp that stands for the *)
(* rest of its content, timestamp included; the digest of an event is its  *)
(* stamp, i.e. SHA-256 is taken to be collision free.                      *)
(***************************************************************************)
EXTENDS Naturals, Sequences

CONSTANTS
    Procs,       \* processes that may own the run (run, assess, review...)
    Readers,     \* processes that inspect or summarize it without the lock
    NoProc,      \* the value of a free lock
    MaxEvents,   \* MAX_JOURNAL_BYTES, counted in events
    ReadLimit,   \* the byte limit of RunStore.summarize, counted in events
    MaxAppends,  \* bound: appends attempted in a behaviour
    MaxFailures  \* bound: kills, I/O errors and power losses in a behaviour

ASSUME ProcsAssumption  == NoProc \notin Procs
ASSUME BoundsAssumption ==
    /\ MaxEvents \in Nat /\ ReadLimit \in Nat
    /\ MaxAppends \in Nat /\ MaxFailures \in Nat

VARIABLES
    file,     \* complete lines of events.jsonl
    tail,     \* stamp of the torn line after the last newline, 0 if none
    synced,   \* how many leading lines are known to be on stable storage
    snap,     \* the visible checkpoint.json and result.json
    dsnap,    \* the ones whose directory entry is on stable storage
    torn,     \* stamps of the tails kept in torn-*.bin files
    lock,     \* owner of locks/run-<id>.lock
    pc,       \* where each process is inside a journal operation
    mem,      \* RunJournal._events of each handle
    usable,   \* RunJournal._active of each handle
    fresh,    \* whether the handle has appended since it was opened
    rec,      \* the record each handle is writing
    rpc,      \* where each reader is
    seen,     \* the complete lines each reader has read
    got,      \* stamp of the torn line behind them that it has read too, 0 if none
    acked,    \* history: the events append() has returned
    clock,    \* history: the last stamp handed out
    failures  \* history: failures so far

vars == <<file, tail, synced, snap, dsnap, torn, lock, pc, mem, usable, fresh,
          rec, rpc, seen, got, acked, clock, failures>>

-----------------------------------------------------------------------------
Names == {"checkpoint", "result"}

Event    == [seq : Nat, prev : Nat, stamp : Nat]
Snapshot == [seq : Nat, hash : Nat]

\* What a line becomes when it is written behind the bytes of a torn one.
Malformed == [seq |-> 0, prev |-> 0, stamp |-> 0]

\* A snapshot that was never written; reading it back checks nothing.
NoSnapshot == [seq |-> 0, hash |-> 0]

Digest(e) == e.stamp

\* The digest a line or snapshot after the first n events must carry.
HashAt(events, n) == IF n = 0 THEN 0 ELSE Digest(events[n])

\* The line number i is the i-th event and carries the digest of the one before.
LineFits(events, i) == /\ events[i].seq = i
                       /\ events[i].prev = HashAt(events, i - 1)

Parses(events) == \A i \in 1 .. Len(events) : LineFits(events, i)

\* A snapshot that points into the events read and carries their digest.
SnapshotFits(s, events) == s.seq <= Len(events) /\ s.hash = HashAt(events, s.seq)

Prefix(events, n) == [i \in 1 .. n |-> events[i]]

NewEvent(events) == [seq   |-> Len(events) + 1,
                     prev  |-> HashAt(events, Len(events)),
                     stamp |-> clock + 1]

-----------------------------------------------------------------------------
\* RunStore.create has published an empty journal.
Init ==
    /\ file = <<>> /\ tail = 0 /\ synced = 0
    /\ snap = [n \in Names |-> NoSnapshot]
    /\ dsnap = [n \in Names |-> NoSnapshot]
    /\ torn = {}
    /\ lock = NoProc
    /\ pc = [p \in Procs |-> "idle"]
    /\ mem = [p \in Procs |-> <<>>]
    /\ usable = [p \in Procs |-> FALSE]
    /\ fresh = [p \in Procs |-> FALSE]
    /\ rec = [p \in Procs |-> Malformed]
    /\ rpc = [r \in Readers |-> "idle"]
    /\ seen = [r \in Readers |-> <<>>]
    /\ got = [r \in Readers |-> 0]
    /\ acked = {} /\ clock = 0 /\ failures = 0

files == <<file, tail, synced>>
snaps == <<snap, dsnap>>
handles == <<mem, usable, fresh, rec>>
reads == <<rpc, seen, got>>
ghosts == <<acked, clock>>

At(p, from) == pc[p] = from
Goto(p, to) == pc' = [pc EXCEPT ![p] = to]
Fail == failures < MaxFailures /\ failures' = failures + 1

-----------------------------------------------------------------------------
(* RunStore.open: take the run lock without waiting; a busy lock raises    *)
(* LockBusyError and leaves everything as it was.                          *)
Acquire(p) ==
    /\ At(p, "idle") /\ lock = NoProc
    /\ lock' = p
    /\ Goto(p, "locked")
    /\ UNCHANGED <<files, snaps, torn, handles, reads, ghosts, failures>>

\* A handle that opens the journal: parse every complete line, then check
\* the checkpoint against them.  Either check raises IntegrityError, which
\* gives the lock back.
Load(p) ==
    /\ At(p, "locked")
    /\ mem' = [mem EXCEPT ![p] = file]
    /\ IF Parses(file) /\ SnapshotFits(snap["checkpoint"], file)
       THEN /\ Goto(p, IF tail = 0 THEN "active" ELSE "torn")
            /\ usable' = [usable EXCEPT ![p] = (tail = 0)]
            /\ UNCHANGED lock
       ELSE /\ Goto(p, "corrupt")
            /\ lock' = NoProc
            /\ UNCHANGED usable
    /\ fresh' = [fresh EXCEPT ![p] = FALSE]
    /\ UNCHANGED <<files, snaps, torn, rec, reads, ghosts, failures>>

\* Mutant of KeepTail: the tail is not kept.
KeepNothing(p) ==
    /\ At(p, "torn")
    /\ Goto(p, "truncating")
    /\ UNCHANGED <<files, snaps, torn, lock, handles, reads, ghosts, failures>>

\* The torn tail is kept in a file of its own before anything is removed.
KeepTail(p) ==
    /\ At(p, "torn")
    /\ torn' = torn \cup {tail}
    /\ Goto(p, "truncating")
    /\ UNCHANGED <<files, snaps, lock, handles, reads, ghosts, failures>>

\* Mutants of Truncate: the last complete line goes too, or is miscounted.
TruncateLine(p) ==
    /\ At(p, "truncating")
    /\ file' = IF file = <<>> THEN file ELSE Prefix(file, Len(file) - 1)
    /\ tail' = 0 /\ synced' = Len(file')
    /\ usable' = [usable EXCEPT ![p] = TRUE]
    /\ Goto(p, "active")
    /\ UNCHANGED <<snaps, torn, lock, mem, fresh, rec, reads, ghosts, failures>>

TruncateMiscounted(p) ==
    /\ At(p, "truncating")
    /\ tail' = 0 /\ synced' = Len(file) - 1
    /\ usable' = [usable EXCEPT ![p] = TRUE]
    /\ Goto(p, "active")
    /\ UNCHANGED <<file, snaps, torn, lock, mem, fresh, rec, reads, ghosts, failures>>

\* ftruncate and fsync; the journal handle is now ready for use.
Truncate(p) ==
    /\ At(p, "truncating")
    /\ tail' = 0 /\ synced' = Len(file)
    /\ usable' = [usable EXCEPT ![p] = TRUE]
    /\ Goto(p, "active")
    /\ UNCHANGED <<file, snaps, torn, lock, mem, fresh, rec, reads, ghosts, failures>>

-----------------------------------------------------------------------------
(* RunJournal.append.  The record is chained to the handle's own events,   *)
(* refused above the journal's size limit, written in as many write calls  *)
(* as the kernel needs and fsynced.  An OSError closes the handle.         *)

\* The first bytes of the line (possibly none) have reached the file.
StartAppend(p) ==
    /\ At(p, "active") /\ usable[p]
    /\ Len(file) < MaxEvents /\ clock < MaxAppends
    /\ rec' = [rec EXCEPT ![p] = NewEvent(mem[p])]
    /\ clock' = clock + 1
    /\ tail' \in IF tail = 0 THEN {0, clock + 1} ELSE {tail}
    /\ Goto(p, "writing")
    /\ UNCHANGED <<file, synced, snaps, torn, lock, mem, usable, fresh, reads, acked, failures>>

FinishWrite(p) ==
    /\ At(p, "writing")
    /\ file' = Append(file, IF tail \in {0, rec[p].stamp} THEN rec[p] ELSE Malformed)
    /\ tail' = 0
    /\ Goto(p, "syncing")
    /\ UNCHANGED <<synced, snaps, torn, lock, handles, reads, ghosts, failures>>

\* Mutant of FinishAppend: returns without fsync.
FinishUnsynced(p) ==
    /\ At(p, "syncing")
    /\ mem' = [mem EXCEPT ![p] = Append(@, rec[p])]
    /\ fresh' = [fresh EXCEPT ![p] = TRUE]
    /\ acked' = acked \cup {rec[p]}
    /\ Goto(p, "active")
    /\ UNCHANGED <<files, snaps, torn, lock, usable, rec, reads, clock, failures>>

\* fsync succeeded: the record joins the handle's events and is returned.
FinishAppend(p) ==
    /\ At(p, "syncing")
    /\ synced' = Len(file)
    /\ mem' = [mem EXCEPT ![p] = Append(@, rec[p])]
    /\ fresh' = [fresh EXCEPT ![p] = TRUE]
    /\ acked' = acked \cup {rec[p]}
    /\ Goto(p, "active")
    /\ UNCHANGED <<file, tail, snaps, torn, lock, usable, rec, reads, clock, failures>>

\* The write stopped part way or fsync failed: the handle refuses further use.
FailAppend(p) ==
    /\ pc[p] \in {"writing", "syncing"} /\ Fail
    /\ usable' = [usable EXCEPT ![p] = FALSE]
    /\ Goto(p, "active")
    /\ UNCHANGED <<files, snaps, torn, lock, mem, fresh, rec, reads, ghosts>>

-----------------------------------------------------------------------------
(* RunJournal.checkpoint and write_result through atomic_write: a fsynced  *)
(* temporary file is renamed over the old one, then the directory is       *)
(* fsynced.  The only caller of checkpoint, ExecutionJournal.save, appends *)
(* to the same handle first; write_result is called at any time.           *)

MayWrite(p, name) == usable[p] /\ (name = "checkpoint" => fresh[p])

TakeSnapshot(p) == [seq |-> Len(mem[p]), hash |-> HashAt(mem[p], Len(mem[p]))]

ReplaceSnapshot(p, name) ==
    /\ At(p, "active") /\ MayWrite(p, name)
    /\ snap[name] # TakeSnapshot(p)
    /\ snap' = [snap EXCEPT ![name] = TakeSnapshot(p)]
    /\ Goto(p, name)
    /\ UNCHANGED <<files, dsnap, torn, lock, handles, reads, ghosts, failures>>

SyncSnapshot(p, name) ==
    /\ At(p, name)
    /\ dsnap' = [dsnap EXCEPT ![name] = snap[name]]
    /\ Goto(p, "active")
    /\ UNCHANGED <<files, snap, torn, lock, handles, reads, ghosts, failures>>

\* The directory fsync failed: the error reaches the caller, the new file
\* is visible and the handle stays usable.
FailSnapshot(p) ==
    /\ pc[p] \in Names /\ Fail
    /\ Goto(p, "active")
    /\ UNCHANGED <<files, snaps, torn, lock, handles, reads, ghosts>>

\* The handle of p is gone.
Drop(p) ==
    /\ mem' = [mem EXCEPT ![p] = <<>>]
    /\ usable' = [usable EXCEPT ![p] = FALSE]
    /\ fresh' = [fresh EXCEPT ![p] = FALSE]
    /\ rec' = [rec EXCEPT ![p] = Malformed]

\* The end of RunStore.open: close the handle, give the lock back.
Release(p) ==
    /\ At(p, "active")
    /\ lock' = NoProc
    /\ Drop(p)
    /\ Goto(p, "idle")
    /\ UNCHANGED <<files, snaps, torn, reads, ghosts, failures>>

-----------------------------------------------------------------------------
(* Readers.  inspect reads every complete line, summarize at most a limit; *)
(* each in as many read calls as it takes to meet the end of the file, or  *)
(* the limit.  Only if there was more does summarize read the checkpoint,  *)
(* in yet another call, and hold it against the lines.                     *)
StartRead(r) ==
    /\ rpc[r] = "idle"
    /\ rpc' = [rpc EXCEPT ![r] = "reading"]
    /\ seen' = [seen EXCEPT ![r] = file] /\ got' = [got EXCEPT ![r] = tail]
    /\ UNCHANGED <<files, snaps, torn, lock, pc, handles, ghosts, failures>>

\* A repair has removed the torn line that the reader has begun, and another
\* line was written in its place, of which the reader gets the rest.
Grown(r) == Len(file) > Len(seen[r])
Spliced(r) == Grown(r) /\ got[r] \notin {0, file[Len(seen[r]) + 1].stamp}

ReadOn(r) ==
    /\ rpc[r] = "reading"
    /\ \/ Spliced(r) /\ rpc' = [rpc EXCEPT ![r] = "corrupt"] /\ UNCHANGED <<seen, got>>
       \/ /\ ~ Spliced(r) /\ UNCHANGED rpc
          /\ seen' = [seen EXCEPT ![r] = file]
          /\ got' = [got EXCEPT ![r] = IF Grown(r) \/ got[r] = 0 THEN tail ELSE got[r]]
    /\ UNCHANGED <<files, snaps, torn, lock, pc, handles, ghosts, failures>>

\* A read ends with the lines that it is to give.
Gives(r, lines, next) ==
    /\ rpc[r] = "reading"
    /\ seen' = [seen EXCEPT ![r] = lines]
    /\ rpc' = [rpc EXCEPT ![r] = IF Parses(lines) THEN next ELSE "corrupt"]
    /\ got' = [got EXCEPT ![r] = IF Parses(lines) THEN 0 ELSE @]
    /\ UNCHANGED <<files, snaps, torn, lock, pc, handles, ghosts, failures>>

Inspect(r) == ~ Grown(r) /\ Gives(r, seen[r], "idle")

SummarizePrefix(r) ==
    /\ Len(seen[r]) >= ReadLimit /\ Len(file) > ReadLimit
    /\ Gives(r, Prefix(seen[r], ReadLimit), "prefix")

SummarizeCheckpoint(r) ==
    /\ rpc[r] = "prefix"
    /\ LET s == snap["checkpoint"] IN
       rpc' = [rpc EXCEPT ![r] =
                 IF s.seq <= Len(seen[r]) => s.hash = HashAt(seen[r], s.seq)
                 THEN "idle" ELSE "corrupt"]
    /\ UNCHANGED <<files, snaps, torn, lock, pc, handles, seen, got, ghosts, failures>>

-----------------------------------------------------------------------------
\* A process dies (or an exception it does not handle unwinds RunStore.open):
\* the kernel drops its flock and its handle; what it wrote stays visible.
Kill(p) ==
    /\ pc[p] \notin {"idle", "corrupt"} /\ Fail
    /\ lock' = NoProc
    /\ Drop(p)
    /\ Goto(p, "idle")
    /\ UNCHANGED <<files, snaps, torn, reads, ghosts>>

\* The host loses power: every process dies, and of the lines and directory
\* entries that were not fsynced any part may be gone.
PowerLoss ==
    /\ Fail
    /\ \E n \in synced .. Len(file) :
         /\ file' = Prefix(file, n)
         /\ tail' \in {0, IF n = Len(file) THEN tail ELSE file[n + 1].stamp}
         /\ synced' = n
    /\ \E lost \in SUBSET Names :
         snap' = [n \in Names |-> IF n \in lost THEN dsnap[n] ELSE snap[n]]
    /\ dsnap' = snap'
    /\ lock' = NoProc
    /\ pc' = [p \in Procs |-> IF pc[p] = "corrupt" THEN "corrupt" ELSE "idle"]
    /\ mem' = [p \in Procs |-> <<>>]
    /\ usable' = [p \in Procs |-> FALSE]
    /\ fresh' = [p \in Procs |-> FALSE]
    /\ rec' = [p \in Procs |-> Malformed]
    /\ rpc' = [r \in Readers |-> IF rpc[r] = "corrupt" THEN "corrupt" ELSE "idle"]
    /\ seen' = [r \in Readers |-> <<>>]
    /\ got' = [r \in Readers |-> IF rpc[r] = "corrupt" THEN got[r] ELSE 0]
    /\ UNCHANGED <<torn, ghosts>>

Operate(p) ==
    \/ Acquire(p) \/ Load(p) \/ KeepTail(p) \/ Truncate(p)
    \/ StartAppend(p) \/ FinishWrite(p) \/ FinishAppend(p) \/ FailAppend(p)
    \/ \E name \in Names : ReplaceSnapshot(p, name) \/ SyncSnapshot(p, name)
    \/ FailSnapshot(p) \/ Release(p) \/ Kill(p)

Read(r) == StartRead(r) \/ ReadOn(r) \/ Inspect(r) \/ SummarizePrefix(r) \/ SummarizeCheckpoint(r)

Next ==
    \/ \E p \in Procs : Operate(p)
    \/ \E r \in Readers : Read(r)
    \/ PowerLoss

Spec == Init /\ [][Next]_vars

-----------------------------------------------------------------------------
PcStates == {"idle", "locked", "torn", "truncating", "active", "writing", "syncing", "corrupt"}
              \cup Names

\* Every variable stays in its type; tail, stamps and snapshots are numbers.
TypeOK ==
    /\ file \in Seq(Event) /\ tail \in Nat /\ synced \in Nat
    /\ snap \in [Names -> Snapshot] /\ dsnap \in [Names -> Snapshot]
    /\ torn \subseteq Nat
    /\ lock \in Procs \cup {NoProc}
    /\ pc \in [Procs -> PcStates]
    /\ mem \in [Procs -> Seq(Event)]
    /\ usable \in [Procs -> BOOLEAN] /\ fresh \in [Procs -> BOOLEAN]
    /\ rec \in [Procs -> Event]
    /\ rpc \in [Readers -> {"idle", "reading", "prefix", "corrupt"}]
    /\ seen \in [Readers -> Seq(Event)] /\ got \in [Readers -> Nat]
    /\ acked \subseteq Event /\ clock \in Nat /\ failures \in Nat

IsPrefixOf(s, t) == Len(s) <= Len(t) /\ \A i \in 1 .. Len(s) : s[i] = t[i]

\* Whatever was killed, failed or lost power at whatever point, the run can be
\* opened again: the chain parses and checkpoint.json is not ahead of it.
Reopenable == Parses(file) /\ SnapshotFits(snap["checkpoint"], file)

\* No opening ever raises IntegrityError on a journal only this code has
\* written; an inspect or summary, however it interleaves with the writer, only
\* if a repair removed, while it read, the torn line that it had begun, which
\* is kept: what is on disk is sound, and another read succeeds.
NeverCorrupt ==
    /\ \A p \in Procs : pc[p] # "corrupt"
    /\ \A r \in Readers : rpc[r] = "corrupt" => got[r] \in torn

\* An event append() has returned is in the journal for good, in the order it
\* was returned, through kills and power losses.
AckedSurvive ==
    /\ \A e \in acked : e.seq \in 1 .. Len(file) /\ file[e.seq] = e
    /\ \A e, f \in acked : e.stamp < f.stamp => e.seq < f.seq

\* All three: whatever happens, the run can be resumed from what it acknowledged.
Resumable == Reopenable /\ NeverCorrupt /\ AckedSurvive

\* What a reader was given without the lock stays a prefix of the journal as
\* long as the host it runs on is up: a repair never removes a complete line.
ReadersSeePrefix == \A r \in Readers : IsPrefixOf(seen[r], file)

Stamps(events) == {events[i].stamp : i \in 1 .. Len(events)}

\* Torn bytes only leave the journal by becoming the complete line they were
\* part of, or after torn-*.bin holds them; a power loss may take them.
TornKept ==
    [][tail # 0 /\ tail' # tail /\ failures' = failures
         => tail \in torn' \cup Stamps(file')]_vars

=============================================================================
