-------------------------- MODULE RunJournalProofs --------------------------
(***************************************************************************)
(* Proofs, for every number of writers, readers, events and failures, of   *)
(* the properties of RunJournal.                                           *)
(***************************************************************************)
EXTENDS RunJournal, SequenceTheorems, TLAPS

\* The prefix of a journal is a journal, line for line.
LEMMA PrefixProperties ==
  ASSUME NEW s \in Seq(Event), NEW n \in 0 .. Len(s)
  PROVE  /\ Prefix(s, n) \in Seq(Event)
         /\ Len(Prefix(s, n)) = n
         /\ \A i \in 1 .. n : Prefix(s, n)[i] = s[i]
<1>1. n \in Nat /\ \A i \in 1 .. n : s[i] \in Event
  BY LenProperties
<1>2. Prefix(s, n) \in [1 .. n -> Event]
  BY <1>1 DEF Prefix
<1> QED
  BY <1>1, <1>2 DEF Prefix

\* Digests are numbers.
LEMMA HashAtType ==
  ASSUME NEW s \in Seq(Event), NEW n \in 0 .. Len(s)
  PROVE  HashAt(s, n) \in Nat
<1>1. CASE n = 0
  BY <1>1 DEF HashAt
<1>2. CASE n # 0
  <2>1. s \in [1 .. Len(s) -> Event] /\ n \in 1 .. Len(s)
    BY <1>2, LenProperties
  <2>2. s[n] \in Event
    BY <2>1
  <2> QED BY <1>2, <2>2 DEF HashAt, Digest, Event
<1> QED BY <1>1, <1>2

\* A digest depends only on the line it is taken of.
LEMMA HashAtAgree ==
  ASSUME NEW s \in Seq(Event), NEW t \in Seq(Event), NEW n \in Nat,
         n = 0 \/ s[n] = t[n]
  PROVE  HashAt(s, n) = HashAt(t, n)
  BY DEF HashAt, Digest

USE DEF At, Goto, Fail, Drop, files, snaps, handles, reads, ghosts

\* A handle's next record is an event.
LEMMA NewEventType ==
  ASSUME NEW s \in Seq(Event), clock \in Nat
  PROVE  NewEvent(s) \in Event
<1>1. Len(s) \in Nat /\ HashAt(s, Len(s)) \in Nat
  BY HashAtType, LenProperties
<1> QED BY <1>1 DEF NewEvent, Event

\* What a handle would write into a snapshot is one.
LEMMA SnapshotType ==
  ASSUME NEW s \in Seq(Event)
  PROVE  [seq |-> Len(s), hash |-> HashAt(s, Len(s))] \in Snapshot
<1>1. Len(s) \in Nat /\ HashAt(s, Len(s)) \in Nat
  BY HashAtType, LenProperties
<1> QED BY <1>1 DEF Snapshot

\* The initial state of the journal is of its type.
LEMMA InitTypeOK == Init => TypeOK
  BY EmptySeq DEF Init, TypeOK, Names, Snapshot, NoSnapshot, Event, Malformed, PcStates

\* Every step keeps the type.
LEMMA NextTypeOK == TypeOK /\ [Next]_vars => TypeOK'
<1> SUFFICES ASSUME TypeOK, [Next]_vars PROVE TypeOK'
  OBVIOUS
<1> USE DEF TypeOK
<1>1. ASSUME NEW p \in Procs, Acquire(p) PROVE TypeOK'
  BY <1>1 DEF Acquire, PcStates
<1>2. ASSUME NEW p \in Procs, Load(p) PROVE TypeOK'
  BY <1>2 DEF Load, PcStates
<1>3. ASSUME NEW p \in Procs, KeepTail(p) PROVE TypeOK'
  BY <1>3 DEF KeepTail, PcStates
<1>4. ASSUME NEW p \in Procs, Truncate(p) PROVE TypeOK'
  BY <1>4, LenProperties DEF Truncate, PcStates
<1>5. ASSUME NEW p \in Procs, StartAppend(p) PROVE TypeOK'
  BY <1>5, NewEventType DEF StartAppend, PcStates
<1>6. ASSUME NEW p \in Procs, FinishWrite(p) PROVE TypeOK'
  <2>1. rec[p] \in Event /\ Malformed \in Event
    BY DEF Malformed, Event
  <2>2. file' \in Seq(Event)
    BY <1>6, <2>1, AppendProperties DEF FinishWrite
  <2> QED BY <1>6, <2>2 DEF FinishWrite, PcStates
<1>7. ASSUME NEW p \in Procs, FinishAppend(p) PROVE TypeOK'
  <2>1. mem'[p] \in Seq(Event) /\ synced' \in Nat
    BY <1>7, AppendProperties, LenProperties DEF FinishAppend
  <2> QED BY <1>7, <2>1 DEF FinishAppend, PcStates
<1>8. ASSUME NEW p \in Procs, FailAppend(p) PROVE TypeOK'
  BY <1>8 DEF FailAppend, PcStates
<1>9. ASSUME NEW p \in Procs, NEW name \in Names, ReplaceSnapshot(p, name) PROVE TypeOK'
  <2>1. TakeSnapshot(p) \in Snapshot
    BY SnapshotType DEF TakeSnapshot
  <2> QED BY <1>9, <2>1 DEF ReplaceSnapshot, PcStates
<1>10. ASSUME NEW p \in Procs, NEW name \in Names, SyncSnapshot(p, name) PROVE TypeOK'
  BY <1>10 DEF SyncSnapshot, PcStates
<1>11. ASSUME NEW p \in Procs, FailSnapshot(p) PROVE TypeOK'
  BY <1>11 DEF FailSnapshot, PcStates
<1>12. ASSUME NEW p \in Procs, Release(p) PROVE TypeOK'
  BY <1>12, EmptySeq DEF Release, PcStates, Malformed, Event
<1>13. ASSUME NEW p \in Procs, Kill(p) PROVE TypeOK'
  BY <1>13, EmptySeq DEF Kill, PcStates, Malformed, Event
<1>14. ASSUME NEW r \in Readers, Inspect(r) PROVE TypeOK'
  BY <1>14 DEF Inspect, Gives
<1>15. ASSUME NEW r \in Readers, SummarizePrefix(r) PROVE TypeOK'
  <2>1. ReadLimit \in 0 .. Len(seen[r])
    BY <1>15, BoundsAssumption, LenProperties DEF SummarizePrefix
  <2>2. Prefix(seen[r], ReadLimit) \in Seq(Event)
    BY <2>1, PrefixProperties
  <2> QED BY <1>15, <2>2 DEF SummarizePrefix, Gives
<1>16. ASSUME NEW r \in Readers, SummarizeCheckpoint(r) PROVE TypeOK'
  BY <1>16 DEF SummarizeCheckpoint
<1>17. ASSUME PowerLoss PROVE TypeOK'
  <2>1. PICK n \in synced .. Len(file) :
          /\ file' = Prefix(file, n)
          /\ tail' \in {0, IF n = Len(file) THEN tail ELSE file[n + 1].stamp}
          /\ synced' = n
    BY <1>17 DEF PowerLoss
  <2>2. n \in 0 .. Len(file) /\ Len(file) \in Nat
    BY LenProperties
  <2>3. file' \in Seq(Event)
    BY <2>1, <2>2, PrefixProperties
  <2>4. tail' \in Nat
    <3>1. n # Len(file) => file[n + 1].stamp \in Nat
      <4>1. file \in [1 .. Len(file) -> Event]
        BY LenProperties
      <4>2. n # Len(file) => n + 1 \in 1 .. Len(file)
        BY <2>2
      <4>3. n # Len(file) => file[n + 1] \in Event
        BY <4>1, <4>2, Zenon
      <4> QED BY <4>3 DEF Event
    <3> QED BY <2>1, <3>1
  <2>5. snap' \in [Names -> Snapshot] /\ dsnap' \in [Names -> Snapshot]
    BY <1>17 DEF PowerLoss
  <2>6. got' \in [Readers -> Nat]
    <3>1. got' = [r \in Readers |-> IF rpc[r] = "corrupt" THEN got[r] ELSE 0]
      BY <1>17 DEF PowerLoss
    <3>2. got \in [Readers -> Nat]
      OBVIOUS
    <3>3. \A r \in Readers : got[r] \in Nat
      BY <3>2
    <3> QED BY <3>1, <3>3
  <2>7. rpc' \in [Readers -> {"idle", "reading", "prefix", "corrupt"}] /\ seen' \in [Readers -> Seq(Event)]
    BY <1>17, EmptySeq DEF PowerLoss
  <2>8. /\ pc' \in [Procs -> PcStates] /\ mem' \in [Procs -> Seq(Event)]
        /\ usable' \in [Procs -> BOOLEAN] /\ fresh' \in [Procs -> BOOLEAN]
    BY <1>17, EmptySeq DEF PowerLoss, PcStates
  <2>9. rec' \in [Procs -> Event]
    BY <1>17, EmptySeq DEF PowerLoss, Malformed, Event
  <2>10. synced' \in Nat /\ lock' \in Procs \cup {NoProc} /\ failures' \in Nat /\ torn' = torn
         /\ acked' = acked /\ clock' = clock
    BY <1>17, <2>1, <2>2 DEF PowerLoss
  <2> QED
    BY <2>3, <2>4, <2>5, <2>6, <2>7, <2>8, <2>9, <2>10
<1>18. ASSUME NEW r \in Readers, StartRead(r) \/ ReadOn(r) PROVE TypeOK'
  BY <1>18 DEF StartRead, ReadOn
<1>19. CASE UNCHANGED vars
  BY <1>19 DEF vars
<1> QED
  BY <1>1, <1>2, <1>3, <1>4, <1>5, <1>6, <1>7, <1>8, <1>9, <1>10, <1>11, <1>12, <1>13, <1>14,
     <1>15, <1>16, <1>17, <1>18, <1>19 DEF Next, Operate, Read

\* Type correctness of the journal for every instance.
THEOREM TypeCorrect == Spec => []TypeOK
  BY InitTypeOK, NextTypeOK, PTL DEF Spec

-----------------------------------------------------------------------------
(* The inductive invariant.  Reopenable alone is not inductive: it says     *)
(* nothing of the record in flight, of the handle that will chain the next  *)
(* one, or of what a power loss may take away.                              *)

\* Stamps grow along the journal and none is ahead of the clock.
Ordered ==
    /\ \A i \in 1 .. Len(file) : file[i].stamp <= clock
    /\ \A i, j \in 1 .. Len(file) : i < j => file[i].stamp < file[j].stamp

\* Only the owner of the run lock is inside an operation.
Exclusive == \A p \in Procs : pc[p] \notin {"idle", "corrupt"} => lock = p

Open == {"active"} \cup Names

\* The record p is writing is the next line of the journal.
Writing(p) ==
    /\ mem[p] = file
    /\ rec[p].seq = Len(file) + 1 /\ rec[p].prev = HashAt(file, Len(file))
    /\ rec[p].stamp = clock /\ tail \in {0, clock}
    /\ \A i \in 1 .. Len(file) : file[i].stamp < clock

\* A handle that will be used agrees with the file it appends to.
HandlesFit ==
    \A p \in Procs :
        /\ pc[p] \in {"torn", "truncating"} => mem[p] = file
        /\ pc[p] = "truncating" => tail \in torn
        /\ pc[p] \in Open /\ usable[p] => mem[p] = file /\ tail = 0
        /\ pc[p] \in Open /\ usable[p] /\ fresh[p] => synced = Len(file)
        /\ pc[p] = "writing" => Writing(p)
        /\ pc[p] = "syncing" => /\ Len(file) = Len(mem[p]) + 1 /\ tail = 0
                                /\ file = Append(mem[p], rec[p])
                                /\ rec[p].seq = Len(file)

\* What was acknowledged is on stable storage.
AckedSynced ==
    /\ synced <= Len(file)
    /\ \A e \in acked : e.seq \in 1 .. synced /\ file[e.seq] = e

Stable(s) == s.seq <= synced /\ s.hash = HashAt(file, s.seq)

\* Both the visible and the durable checkpoint describe stable lines.
CheckpointsStable == Stable(snap["checkpoint"]) /\ Stable(dsnap["checkpoint"])

FileFacts == Parses(file) /\ Ordered /\ AckedSynced /\ CheckpointsStable /\ ReadersSeePrefix

\* The torn line that a reader has begun is the one being written, or the next
\* line by now, or is kept.
Followed(r) ==
    \/ got[r] \in torn \cup {0}
    \/ Len(file) = Len(seen[r]) /\ tail = got[r]
    \/ Grown(r) /\ file[Len(seen[r]) + 1].stamp = got[r]

ReadsFollowed == \A r \in Readers : rpc[r] = "reading" => Followed(r)

IInv == TypeOK /\ FileFacts /\ Exclusive /\ NeverCorrupt /\ HandlesFit /\ ReadsFollowed

\* A step that leaves the journal and its snapshots alone keeps what is known
\* of them.
LEMMA FileStutter ==
  ASSUME TypeOK, TypeOK', FileFacts, clock <= clock',
         UNCHANGED <<file, synced, snap, dsnap, seen, acked>>
  PROVE  FileFacts'
<1>1. Ordered'
  <2>1. \A i \in 1 .. Len(file) : file[i].stamp \in Nat
    <3>1. file \in [1 .. Len(file) -> Event]
      BY LenProperties DEF TypeOK
    <3> QED BY <3>1 DEF Event
  <2> QED BY <2>1 DEF FileFacts, Ordered, TypeOK
<1> QED
  BY <1>1 DEF FileFacts, Parses, LineFits, AckedSynced, CheckpointsStable, Stable,
              ReadersSeePrefix, IsPrefixOf, HashAt, Digest

\* Processes other than the owner of the lock are outside every operation.
LEMMA OthersIdle ==
  ASSUME IInv, NEW p \in Procs, pc[p] \notin {"idle", "corrupt"} \/ lock = NoProc,
         NEW q \in Procs, q # p
  PROVE  pc[q] = "idle"
  BY ProcsAssumption DEF IInv, Exclusive, NeverCorrupt

\* The empty journal satisfies the invariant.
LEMMA InitIInv == Init => IInv
<1> SUFFICES ASSUME Init PROVE IInv
  OBVIOUS
<1>1. TypeOK BY InitTypeOK
<1>2. Len(file) = 0 BY EmptySeq DEF Init
<1>3. FileFacts
  BY <1>2, EmptySeq DEF Init, FileFacts, Parses, Ordered, AckedSynced, CheckpointsStable, Stable,
        ReadersSeePrefix, IsPrefixOf, HashAt, NoSnapshot, Names
<1>4. Exclusive /\ NeverCorrupt /\ HandlesFit /\ ReadsFollowed
  BY DEF Init, Exclusive, NeverCorrupt, HandlesFit, Open, Names, ReadsFollowed
<1> QED BY <1>1, <1>3, <1>4 DEF IInv

\* The first lines of a journal parse.
LEMMA PrefixParses ==
  ASSUME NEW s, NEW t, Len(s) \in Nat, Len(t) \in Nat, Len(s) <= Len(t), Parses(t),
         \A i \in 1 .. Len(s) : s[i] = t[i]
  PROVE  Parses(s)
<1>1. \A i \in 1 .. Len(s) : s[i] = t[i] /\ LineFits(t, i) /\ i \in Nat
  BY DEF Parses
<1>2. \A i \in 1 .. Len(s) : i - 1 = 0 \/ i - 1 \in 1 .. Len(s)
  OBVIOUS
<1>3. \A i \in 1 .. Len(s) : HashAt(s, i - 1) = HashAt(t, i - 1)
  BY <1>1, <1>2 DEF HashAt, Digest
<1> QED BY <1>1, <1>3 DEF Parses, LineFits

\* Whoever reads while a line is written, or a torn one repaired, has begun the
\* line that is written or one that is kept.
LEMMA ReadersFollow == ASSUME IInv, [Next]_vars PROVE ReadsFollowed'
<1>t. TypeOK /\ TypeOK'
  BY NextTypeOK DEF IInv
<1>n. Len(file) \in Nat /\ \A r \in Readers : Len(seen[r]) \in Nat /\ got[r] \in Nat
  BY <1>t, LenProperties DEF TypeOK
<1>s. ASSUME UNCHANGED <<file, tail, seen, got>>, torn \subseteq torn',
             \A r \in Readers : rpc'[r] = "reading" => rpc[r] = "reading"
      PROVE  ReadsFollowed'
  BY <1>s DEF IInv, ReadsFollowed, Followed, Grown
<1>1. ASSUME NEW p \in Procs, Truncate(p) PROVE ReadsFollowed'
  BY <1>1 DEF Truncate, IInv, HandlesFit, ReadsFollowed, Followed, Grown
<1>2. ASSUME NEW p \in Procs, StartAppend(p) PROVE ReadsFollowed'
  <2>1. tail = 0 /\ UNCHANGED <<file, seen, got, rpc, torn>>
    BY <1>2 DEF StartAppend, IInv, HandlesFit, Open
  <2> QED BY <2>1 DEF IInv, ReadsFollowed, Followed, Grown
<1>3. ASSUME NEW p \in Procs, FinishWrite(p) PROVE ReadsFollowed'
  <2>1. Writing(p) /\ rec[p] \in Event /\ file \in Seq(Event)
    BY <1>3, <1>t DEF FinishWrite, IInv, HandlesFit, TypeOK
  <2>2. file' = Append(file, rec[p]) /\ tail \in {0, rec[p].stamp} /\ UNCHANGED <<seen, got, rpc, torn>>
    BY <1>3, <2>1 DEF FinishWrite, Writing
  <2>3. /\ Len(file') = Len(file) + 1 /\ file'[Len(file) + 1] = rec[p]
        /\ \A i \in 1 .. Len(file) : file'[i] = file[i]
    BY <2>1, <2>2, AppendProperties
  <2>4. ASSUME NEW r \in Readers, rpc[r] = "reading" PROVE Followed(r)'
    <3>1. Followed(r)
      BY <2>4 DEF IInv, ReadsFollowed
    <3>2. CASE got[r] \in torn \cup {0}
      BY <2>2, <3>2 DEF Followed
    <3>3. CASE Len(file) = Len(seen[r]) /\ tail = got[r] /\ got[r] # 0
      BY <1>n, <2>2, <2>3, <3>3 DEF Followed, Grown
    <3>4. CASE Grown(r) /\ file[Len(seen[r]) + 1].stamp = got[r]
      BY <1>n, <2>2, <2>3, <3>4 DEF Followed, Grown
    <3> QED BY <3>1, <3>2, <3>3, <3>4 DEF Followed
  <2> QED BY <2>2, <2>4 DEF ReadsFollowed
<1>4. ASSUME NEW r \in Readers, Read(r) PROVE ReadsFollowed'
  <2>1. \A q \in Readers \ {r} : rpc'[q] = rpc[q] /\ seen'[q] = seen[q] /\ got'[q] = got[q]
    BY <1>4, <1>t DEF Read, StartRead, ReadOn, Inspect, SummarizePrefix, Gives, SummarizeCheckpoint, TypeOK
  <2>2. UNCHANGED <<file, tail, torn>>
    BY <1>4 DEF Read, StartRead, ReadOn, Inspect, SummarizePrefix, Gives, SummarizeCheckpoint
  <2>3. \A q \in Readers \ {r} : rpc'[q] = "reading" => Followed(q)'
    BY <2>1, <2>2 DEF IInv, ReadsFollowed, Followed, Grown
  <2>r. rpc \in [Readers -> {"idle", "reading", "prefix", "corrupt"}]
        /\ seen \in [Readers -> Seq(Event)] /\ got \in [Readers -> Nat]
    BY <1>t DEF TypeOK
  <2>4. ASSUME StartRead(r) PROVE rpc'[r] = "reading" => Followed(r)'
    <3>1. seen'[r] = file /\ got'[r] = tail
      BY <2>r, <2>4 DEF StartRead
    <3> QED BY <2>2, <3>1 DEF Followed
  <2>5. ASSUME ReadOn(r) PROVE rpc'[r] = "reading" => Followed(r)'
    <3>1. Followed(r) /\ rpc[r] = "reading"
      BY <2>5 DEF ReadOn, IInv, ReadsFollowed
    <3>2. CASE Spliced(r)
      <4>1. rpc'[r] = "corrupt"
        BY <2>r, <2>5, <3>2 DEF ReadOn
      <4> QED BY <4>1
    <3>3. CASE ~ Spliced(r)
      <4>1. seen'[r] = file
        BY <2>r, <2>5, <3>3 DEF ReadOn
      <4>2. CASE Grown(r) \/ got[r] = 0
        <5>1. got'[r] = tail
          BY <2>r, <2>5, <3>3, <4>2 DEF ReadOn
        <5> QED BY <2>2, <4>1, <5>1 DEF Followed
      <4>3. CASE ~ Grown(r) /\ got[r] # 0
        <5>1. got'[r] = got[r]
          BY <2>r, <2>5, <3>3, <4>3 DEF ReadOn
        <5> QED BY <2>2, <3>1, <4>1, <4>3, <5>1 DEF Followed
      <4> QED BY <4>2, <4>3
    <3> QED BY <3>2, <3>3
  <2>6. ASSUME Inspect(r) \/ SummarizePrefix(r) \/ SummarizeCheckpoint(r)
        PROVE  rpc'[r] = "reading" => Followed(r)'
    <3>1. rpc'[r] # "reading"
      BY <2>r, <2>6 DEF Inspect, SummarizePrefix, Gives, SummarizeCheckpoint
    <3> QED BY <3>1
  <2>7. rpc'[r] = "reading" => Followed(r)'
    BY <1>4, <2>4, <2>5, <2>6 DEF Read
  <2> QED BY <2>3, <2>7 DEF ReadsFollowed
<1>5. CASE PowerLoss
  BY <1>5 DEF PowerLoss, ReadsFollowed
<1>6. CASE UNCHANGED vars
  BY <1>6, <1>s DEF vars
<1>7. ASSUME NEW p \in Procs, Operate(p), ~ Truncate(p), ~ StartAppend(p), ~ FinishWrite(p)
      PROVE  ReadsFollowed'
  BY <1>7, <1>s DEF Operate, Acquire, Load, KeepTail, FinishAppend, FailAppend, ReplaceSnapshot,
     SyncSnapshot, FailSnapshot, Release, Kill
<1> QED
  BY <1>1, <1>2, <1>3, <1>4, <1>5, <1>6, <1>7 DEF Next

\* Every step keeps the invariant.
LEMMA NextIInv == IInv /\ [Next]_vars => IInv'
<1> SUFFICES ASSUME IInv, [Next]_vars PROVE IInv'
  OBVIOUS
<1>t. TypeOK /\ TypeOK'
  BY NextTypeOK DEF IInv
<1>r. ReadsFollowed'
  BY ReadersFollow
<1>n. Len(file) \in Nat /\ file \in [1 .. Len(file) -> Event] /\ synced \in Nat /\ clock \in Nat
  BY <1>t, LenProperties DEF TypeOK
<1>1. ASSUME NEW p \in Procs, Acquire(p) PROVE IInv'
  <2>1. FileFacts'
    BY <1>1, <1>t, <1>n, FileStutter DEF Acquire, IInv
  <2>2. \A q \in Procs : q # p => pc[q] = "idle"
    BY <1>1, OthersIdle DEF Acquire
  <2>3. pc' = [pc EXCEPT ![p] = "locked"] /\ pc \in [Procs -> PcStates] /\ lock' = p
    BY <1>1, <1>t DEF Acquire, TypeOK
  <2>4. Exclusive' /\ NeverCorrupt'
    BY <1>1, <2>2, <2>3 DEF Acquire, IInv, Exclusive, NeverCorrupt
  <2>5. HandlesFit'
    BY <1>1, <2>2, <2>3 DEF HandlesFit, Open, Names
  <2> QED BY <1>t, <1>r, <2>1, <2>4, <2>5 DEF IInv
<1>2. ASSUME NEW p \in Procs, Load(p) PROVE IInv'
  <2>1. FileFacts'
    BY <1>2, <1>t, <1>n, FileStutter DEF Load, IInv
  <2>2. \A q \in Procs : q # p => pc[q] = "idle"
    BY <1>2, OthersIdle DEF Load
  <2>3. Parses(file) /\ SnapshotFits(snap["checkpoint"], file)
    <3>1. snap["checkpoint"].seq \in Nat
      BY <1>t DEF TypeOK, Snapshot, Names
    <3> QED BY <1>n, <3>1 DEF IInv, FileFacts, CheckpointsStable, Stable, AckedSynced, SnapshotFits
  <2>4. /\ pc' = [pc EXCEPT ![p] = IF tail = 0 THEN "active" ELSE "torn"]
        /\ usable' = [usable EXCEPT ![p] = (tail = 0)]
        /\ fresh' = [fresh EXCEPT ![p] = FALSE]
        /\ mem' = [mem EXCEPT ![p] = file]
        /\ UNCHANGED <<lock, files, torn>>
    BY <1>2, <2>3 DEF Load
  <2>5. Exclusive' /\ NeverCorrupt'
    BY <1>2, <1>t, <2>2, <2>4 DEF Load, IInv, Exclusive, NeverCorrupt, TypeOK
  <2>6. HandlesFit'
    BY <1>t, <2>2, <2>4 DEF HandlesFit, Open, Names, TypeOK
  <2> QED BY <1>t, <1>r, <2>1, <2>5, <2>6 DEF IInv
<1>3. ASSUME NEW p \in Procs, KeepTail(p) PROVE IInv'
  <2>1. FileFacts'
    BY <1>3, <1>t, <1>n, FileStutter DEF KeepTail, IInv
  <2>2. \A q \in Procs : q # p => pc[q] = "idle"
    BY <1>3, OthersIdle DEF KeepTail
  <2>3. Exclusive' /\ NeverCorrupt'
    BY <1>3, <1>t, <2>2 DEF KeepTail, IInv, Exclusive, NeverCorrupt, TypeOK
  <2>4. HandlesFit'
    BY <1>3, <1>t, <2>2 DEF KeepTail, IInv, HandlesFit, Open, Names, TypeOK
  <2> QED BY <1>t, <1>r, <2>1, <2>3, <2>4 DEF IInv
<1>4. ASSUME NEW p \in Procs, Truncate(p) PROVE IInv'
  <2>1. FileFacts'
    <3>1. Parses(file)' /\ Ordered' /\ ReadersSeePrefix'
      BY <1>4 DEF Truncate, IInv, FileFacts, Parses, LineFits, HashAt, Digest, Ordered,
                  ReadersSeePrefix, IsPrefixOf
    <3>2. AckedSynced'
      BY <1>4, <1>n DEF Truncate, IInv, FileFacts, AckedSynced
    <3>3. CheckpointsStable'
      <4>1. snap["checkpoint"].seq \in Nat /\ dsnap["checkpoint"].seq \in Nat
        BY <1>t DEF TypeOK, Snapshot, Names
      <4> QED BY <1>4, <1>n, <4>1 DEF Truncate, IInv, FileFacts, AckedSynced, CheckpointsStable,
                                      Stable, HashAt, Digest
    <3> QED BY <3>1, <3>2, <3>3 DEF FileFacts
  <2>2. \A q \in Procs : q # p => pc[q] = "idle"
    BY <1>4, OthersIdle DEF Truncate
  <2>3. Exclusive' /\ NeverCorrupt'
    BY <1>4, <1>t, <2>2 DEF Truncate, IInv, Exclusive, NeverCorrupt, TypeOK
  <2>4. HandlesFit'
    BY <1>4, <1>t, <2>2 DEF Truncate, IInv, HandlesFit, Open, Names, TypeOK
  <2> QED BY <1>t, <1>r, <2>1, <2>3, <2>4 DEF IInv
<1>5. ASSUME NEW p \in Procs, StartAppend(p) PROVE IInv'
  <2>1. FileFacts'
    BY <1>5, <1>t, <1>n, FileStutter DEF StartAppend, IInv
  <2>2. \A q \in Procs : q # p => pc[q] = "idle"
    BY <1>5, OthersIdle DEF StartAppend
  <2>3. Exclusive' /\ NeverCorrupt'
    BY <1>5, <1>t, <2>2 DEF StartAppend, IInv, Exclusive, NeverCorrupt, TypeOK
  <2>4. mem[p] = file /\ tail = 0
    BY <1>5 DEF StartAppend, IInv, HandlesFit, Open
  <2>5. rec'[p] = NewEvent(file) /\ mem' = mem /\ clock' = clock + 1 /\ tail' \in {0, clock'} /\ file' = file
    BY <1>5, <1>t, <2>4 DEF StartAppend, TypeOK
  <2>6. \A i \in 1 .. Len(file) : file[i].stamp < clock'
    <3>1. \A i \in 1 .. Len(file) : file[i].stamp \in Nat /\ file[i].stamp <= clock
      BY <1>n DEF IInv, FileFacts, Ordered, Event
    <3> QED BY <1>n, <2>5, <3>1
  <2>7. Writing(p)'
    BY <2>4, <2>5, <2>6 DEF Writing, NewEvent, HashAt, Digest
  <2>8. HandlesFit'
    BY <1>5, <1>t, <2>2, <2>7 DEF StartAppend, HandlesFit, Open, Names, TypeOK
  <2> QED BY <1>t, <1>r, <2>1, <2>3, <2>8 DEF IInv
<1>6. ASSUME NEW p \in Procs, FinishWrite(p) PROVE IInv'
  <2>1. Writing(p) /\ rec[p] \in Event /\ file \in Seq(Event)
    BY <1>6, <1>t DEF FinishWrite, IInv, HandlesFit, TypeOK
  <2>2. file' = Append(file, rec[p])
    BY <1>6, <2>1 DEF FinishWrite, Writing
  <2>3. /\ Len(file') = Len(file) + 1
        /\ \A i \in 1 .. Len(file) : file'[i] = file[i]
        /\ file'[Len(file) + 1] = rec[p]
    BY <2>1, <2>2, AppendProperties
  <2>4. \A i \in 1 .. Len(file') : i \in 1 .. Len(file) \/ i = Len(file) + 1
    BY <1>n, <2>3
  <2>5. \A n \in 0 .. Len(file) : HashAt(file', n) = HashAt(file, n)
    BY <1>n, <2>3 DEF HashAt, Digest
  <2>6. Parses(file)'
    <3>1. \A i \in 1 .. Len(file) : LineFits(file', i)
      BY <1>n, <2>3, <2>5 DEF IInv, FileFacts, Parses, LineFits
    <3>2. LineFits(file', Len(file) + 1)
      BY <1>n, <2>1, <2>3, <2>5 DEF Writing, LineFits
    <3> QED BY <2>4, <3>1, <3>2 DEF Parses
  <2>7. Ordered'
    <3>1. clock' = clock
      BY <1>6 DEF FinishWrite
    <3>2. \A i \in 1 .. Len(file) : file'[i].stamp <= clock' /\ file'[i].stamp < rec[p].stamp
      BY <1>n, <2>1, <2>3, <3>1 DEF IInv, FileFacts, Ordered, Writing
    <3>3. rec[p].stamp <= clock'
      BY <1>n, <2>1, <3>1 DEF Writing
    <3>4. \A i, j \in 1 .. Len(file) : i < j => file'[i].stamp < file'[j].stamp
      BY <2>3 DEF IInv, FileFacts, Ordered
    <3> QED BY <1>n, <2>3, <2>4, <3>2, <3>3, <3>4 DEF Ordered
  <2>8. AckedSynced'
    BY <1>6, <1>n, <2>3 DEF FinishWrite, IInv, FileFacts, AckedSynced
  <2>9. CheckpointsStable'
    <3>1. snap["checkpoint"].seq \in 0 .. Len(file) /\ dsnap["checkpoint"].seq \in 0 .. Len(file)
      <4>1. snap["checkpoint"].seq \in Nat /\ dsnap["checkpoint"].seq \in Nat
        BY <1>t DEF TypeOK, Snapshot, Names
      <4> QED BY <1>n, <4>1 DEF IInv, FileFacts, AckedSynced, CheckpointsStable, Stable
    <3> QED BY <1>6, <2>5, <3>1 DEF FinishWrite, IInv, FileFacts, CheckpointsStable, Stable
  <2>10. ReadersSeePrefix'
    <3>1. \A r \in Readers : Len(seen[r]) \in Nat
      BY <1>t, LenProperties DEF TypeOK
    <3> QED BY <1>6, <1>n, <2>3, <3>1 DEF FinishWrite, IInv, FileFacts, ReadersSeePrefix, IsPrefixOf
  <2>11. \A q \in Procs : q # p => pc[q] = "idle"
    BY <1>6, OthersIdle DEF FinishWrite
  <2>12. Exclusive' /\ NeverCorrupt'
    BY <1>6, <1>t, <2>11 DEF FinishWrite, IInv, Exclusive, NeverCorrupt, TypeOK
  <2>13. HandlesFit'
    BY <1>6, <1>t, <2>1, <2>2, <2>3, <2>11 DEF FinishWrite, HandlesFit, Writing, Open, Names, TypeOK
  <2> QED BY <1>t, <1>r, <2>6, <2>7, <2>8, <2>9, <2>10, <2>12, <2>13 DEF IInv, FileFacts
<1>7. ASSUME NEW p \in Procs, FinishAppend(p) PROVE IInv'
  <2>1. /\ file = Append(mem[p], rec[p]) /\ tail = 0 /\ rec[p].seq = Len(file)
        /\ rec[p] \in Event /\ mem[p] \in Seq(Event) /\ Len(file) = Len(mem[p]) + 1
    BY <1>7, <1>t DEF FinishAppend, IInv, HandlesFit, TypeOK
  <2>2. file[Len(file)] = rec[p] /\ Len(file) \in 1 .. Len(file)
    BY <2>1, AppendProperties, LenProperties
  <2>3. AckedSynced'
    BY <1>7, <1>n, <2>1, <2>2 DEF FinishAppend, IInv, FileFacts, AckedSynced
  <2>4. CheckpointsStable'
    <3>1. snap["checkpoint"].seq \in Nat /\ dsnap["checkpoint"].seq \in Nat
      BY <1>t DEF TypeOK, Snapshot, Names
    <3> QED BY <1>7, <1>n, <3>1 DEF FinishAppend, IInv, FileFacts, AckedSynced, CheckpointsStable,
                                    Stable, HashAt, Digest
  <2>5. Parses(file)' /\ Ordered' /\ ReadersSeePrefix'
    BY <1>7 DEF FinishAppend, IInv, FileFacts, Parses, LineFits, HashAt, Digest, Ordered,
                ReadersSeePrefix, IsPrefixOf
  <2>6. \A q \in Procs : q # p => pc[q] = "idle"
    BY <1>7, OthersIdle DEF FinishAppend
  <2>7. Exclusive' /\ NeverCorrupt'
    BY <1>7, <1>t, <2>6 DEF FinishAppend, IInv, Exclusive, NeverCorrupt, TypeOK
  <2>8. HandlesFit'
    BY <1>7, <1>t, <2>1, <2>6 DEF FinishAppend, HandlesFit, Open, Names, TypeOK
  <2> QED BY <1>t, <1>r, <2>3, <2>4, <2>5, <2>7, <2>8 DEF IInv, FileFacts
<1>8. ASSUME NEW p \in Procs, FailAppend(p) PROVE IInv'
  <2>1. FileFacts'
    BY <1>8, <1>t, <1>n, FileStutter DEF FailAppend, IInv
  <2>2. \A q \in Procs : q # p => pc[q] = "idle"
    BY <1>8, OthersIdle DEF FailAppend
  <2>3. Exclusive' /\ NeverCorrupt'
    BY <1>8, <1>t, <2>2 DEF FailAppend, IInv, Exclusive, NeverCorrupt, TypeOK, Names
  <2>4. HandlesFit'
    BY <1>8, <1>t, <2>2 DEF FailAppend, IInv, HandlesFit, Open, Names, TypeOK
  <2> QED BY <1>t, <1>r, <2>1, <2>3, <2>4 DEF IInv
<1>9. ASSUME NEW p \in Procs, NEW name \in Names, ReplaceSnapshot(p, name) PROVE IInv'
  <2>1. mem[p] = file /\ (name = "checkpoint" => synced = Len(file))
    BY <1>9 DEF ReplaceSnapshot, MayWrite, IInv, HandlesFit, Open
  <2>2. Parses(file)' /\ Ordered' /\ ReadersSeePrefix' /\ AckedSynced'
    BY <1>9 DEF ReplaceSnapshot, IInv, FileFacts, Parses, LineFits, HashAt, Digest, Ordered,
                ReadersSeePrefix, IsPrefixOf, AckedSynced
  <2>3. CheckpointsStable'
    <3>1. snap'["checkpoint"] = IF name = "checkpoint" THEN TakeSnapshot(p) ELSE snap["checkpoint"]
      BY <1>9, <1>t DEF ReplaceSnapshot, TypeOK, Names
    <3>2. Stable(snap["checkpoint"])' /\ Stable(dsnap["checkpoint"])'
      <4>1. UNCHANGED <<file, synced, dsnap>>
        BY <1>9 DEF ReplaceSnapshot
      <4>2. Stable(snap["checkpoint"]) /\ Stable(dsnap["checkpoint"])
        BY DEF IInv, FileFacts, CheckpointsStable
      <4>3. CASE name = "checkpoint"
        <5>1. snap'["checkpoint"] = [seq |-> Len(file), hash |-> HashAt(file, Len(file))]
          BY <2>1, <3>1, <4>3 DEF TakeSnapshot
        <5> QED BY <1>n, <2>1, <4>1, <4>2, <4>3, <5>1 DEF Stable, HashAt, Digest
      <4>4. CASE name # "checkpoint"
        BY <3>1, <4>1, <4>2, <4>4 DEF Stable, HashAt, Digest
      <4> QED BY <4>3, <4>4
    <3> QED BY <3>2 DEF CheckpointsStable
  <2>4. \A q \in Procs : q # p => pc[q] = "idle"
    BY <1>9, OthersIdle DEF ReplaceSnapshot
  <2>5. Exclusive' /\ NeverCorrupt'
    BY <1>9, <1>t, <2>4 DEF ReplaceSnapshot, IInv, Exclusive, NeverCorrupt, TypeOK, Names
  <2>6. HandlesFit'
    BY <1>9, <1>t, <2>4 DEF ReplaceSnapshot, IInv, HandlesFit, Open, Names, TypeOK
  <2> QED BY <1>t, <1>r, <2>2, <2>3, <2>5, <2>6 DEF IInv, FileFacts
<1>10. ASSUME NEW p \in Procs, NEW name \in Names, SyncSnapshot(p, name) PROVE IInv'
  <2>1. Parses(file)' /\ Ordered' /\ ReadersSeePrefix' /\ AckedSynced'
    BY <1>10 DEF SyncSnapshot, IInv, FileFacts, Parses, LineFits, HashAt, Digest, Ordered,
                ReadersSeePrefix, IsPrefixOf, AckedSynced
  <2>2. CheckpointsStable'
    <3>1. dsnap'["checkpoint"] \in {snap["checkpoint"], dsnap["checkpoint"]}
      BY <1>10, <1>t DEF SyncSnapshot, TypeOK, Names
    <3> QED BY <1>10, <3>1 DEF SyncSnapshot, IInv, FileFacts, CheckpointsStable, Stable, HashAt, Digest
  <2>3. \A q \in Procs : q # p => pc[q] = "idle"
    BY <1>10, OthersIdle DEF SyncSnapshot, Names
  <2>4. Exclusive' /\ NeverCorrupt'
    BY <1>10, <1>t, <2>3 DEF SyncSnapshot, IInv, Exclusive, NeverCorrupt, TypeOK, Names
  <2>5. HandlesFit'
    BY <1>10, <1>t, <2>3 DEF SyncSnapshot, IInv, HandlesFit, Open, Names, TypeOK
  <2> QED BY <1>t, <1>r, <2>1, <2>2, <2>4, <2>5 DEF IInv, FileFacts
<1>11. ASSUME NEW p \in Procs, FailSnapshot(p) PROVE IInv'
  <2>1. FileFacts'
    BY <1>11, <1>t, <1>n, FileStutter DEF FailSnapshot, IInv
  <2>2. \A q \in Procs : q # p => pc[q] = "idle"
    BY <1>11, OthersIdle DEF FailSnapshot, Names
  <2>3. Exclusive' /\ NeverCorrupt'
    BY <1>11, <1>t, <2>2 DEF FailSnapshot, IInv, Exclusive, NeverCorrupt, TypeOK, Names
  <2>4. HandlesFit'
    BY <1>11, <1>t, <2>2 DEF FailSnapshot, IInv, HandlesFit, Open, Names, TypeOK
  <2> QED BY <1>t, <1>r, <2>1, <2>3, <2>4 DEF IInv
<1>12. ASSUME NEW p \in Procs, Release(p) PROVE IInv'
  <2>1. FileFacts'
    BY <1>12, <1>t, <1>n, FileStutter DEF Release, IInv
  <2>2. \A q \in Procs : q # p => pc[q] = "idle"
    BY <1>12, OthersIdle DEF Release
  <2>3. Exclusive' /\ NeverCorrupt'
    BY <1>12, <1>t, <2>2 DEF Release, IInv, Exclusive, NeverCorrupt, TypeOK, Names
  <2>4. HandlesFit'
    BY <1>12, <1>t, <2>2 DEF Release, IInv, HandlesFit, Open, Names, TypeOK
  <2> QED BY <1>t, <1>r, <2>1, <2>3, <2>4 DEF IInv
<1>13. ASSUME NEW p \in Procs, Kill(p) PROVE IInv'
  <2>1. FileFacts'
    BY <1>13, <1>t, <1>n, FileStutter DEF Kill, IInv
  <2>2. \A q \in Procs : q # p => pc[q] = "idle"
    BY <1>13, OthersIdle DEF Kill
  <2>3. Exclusive' /\ NeverCorrupt'
    BY <1>13, <1>t, <2>2 DEF Kill, IInv, Exclusive, NeverCorrupt, TypeOK, Names
  <2>4. HandlesFit'
    BY <1>13, <1>t, <2>2 DEF Kill, IInv, HandlesFit, Open, Names, TypeOK
  <2> QED BY <1>t, <1>r, <2>1, <2>3, <2>4 DEF IInv
<1>14. ASSUME NEW r \in Readers, Inspect(r) PROVE IInv'
  <2>1. Parses(seen[r])
    <3>1. IsPrefixOf(seen[r], file) /\ Parses(file) /\ Len(seen[r]) \in Nat
      BY <1>t, LenProperties DEF TypeOK, IInv, FileFacts, ReadersSeePrefix
    <3> QED BY <1>n, <3>1, PrefixParses DEF IsPrefixOf
  <2>2. seen' = seen /\ UNCHANGED <<file, synced, snap, dsnap, acked, clock, torn>>
    BY <1>14, <1>t DEF Inspect, Gives, TypeOK
  <2>3. FileFacts'
    BY <1>t, <1>n, <2>2, FileStutter DEF IInv
  <2>4. NeverCorrupt'
    BY <1>14, <1>t, <2>1 DEF Inspect, Gives, IInv, NeverCorrupt, TypeOK
  <2>5. Exclusive' /\ HandlesFit'
    BY <1>14 DEF Inspect, Gives, IInv, Exclusive, HandlesFit, Writing, HashAt, Digest
  <2> QED BY <1>t, <1>r, <2>3, <2>4, <2>5 DEF IInv
<1>15. ASSUME NEW r \in Readers, SummarizePrefix(r) PROVE IInv'
  <2> DEFINE s == Prefix(seen[r], ReadLimit)
  <2>1. seen[r] \in Seq(Event) /\ Len(seen[r]) \in Nat /\ ReadLimit \in 0 .. Len(seen[r])
        /\ IsPrefixOf(seen[r], file)
    BY <1>15, <1>t, LenProperties, BoundsAssumption
       DEF SummarizePrefix, TypeOK, IInv, FileFacts, ReadersSeePrefix
  <2>2. s \in Seq(Event) /\ Len(s) = ReadLimit /\ \A i \in 1 .. ReadLimit : s[i] = seen[r][i]
    BY <2>1, PrefixProperties
  <2> HIDE DEF s
  <2>3. IsPrefixOf(s, file)
    BY <1>n, <2>1, <2>2 DEF IsPrefixOf
  <2>4. Parses(s)
    BY <1>n, <2>2, <2>3, <2>1, PrefixParses DEF IsPrefixOf, IInv, FileFacts
  <2>5. FileFacts'
    <3>1. seen' = [seen EXCEPT ![r] = s] /\ file' = file
      BY <1>15 DEF SummarizePrefix, Gives, s
    <3>2. ReadersSeePrefix'
      BY <1>t, <2>3, <3>1 DEF IInv, FileFacts, ReadersSeePrefix, IsPrefixOf, TypeOK
    <3> QED BY <1>15, <3>2 DEF SummarizePrefix, Gives, IInv, FileFacts, Parses, LineFits, HashAt, Digest,
                               Ordered, AckedSynced, CheckpointsStable, Stable
  <2>6. NeverCorrupt'
    BY <1>15, <1>t, <2>4 DEF SummarizePrefix, Gives, s, IInv, NeverCorrupt, TypeOK
  <2>7. Exclusive' /\ HandlesFit'
    BY <1>15 DEF SummarizePrefix, Gives, IInv, Exclusive, HandlesFit, Writing, HashAt, Digest
  <2> QED BY <1>t, <1>r, <2>5, <2>6, <2>7 DEF IInv
<1>16. ASSUME NEW r \in Readers, SummarizeCheckpoint(r) PROVE IInv'
  <2>1. FileFacts'
    BY <1>16, <1>t, <1>n, FileStutter DEF SummarizeCheckpoint, IInv
  <2> DEFINE c == snap["checkpoint"]
  <2>2. c.seq <= Len(seen[r]) => c.hash = HashAt(seen[r], c.seq)
    <3>1. c.seq \in Nat /\ Len(seen[r]) \in Nat
      BY <1>t, LenProperties DEF TypeOK, Snapshot, Names
    <3>2. c.hash = HashAt(file, c.seq) /\ IsPrefixOf(seen[r], file)
      BY DEF IInv, FileFacts, CheckpointsStable, Stable, ReadersSeePrefix
    <3> QED BY <1>n, <3>1, <3>2 DEF IsPrefixOf, HashAt, Digest
  <2>3. NeverCorrupt'
    BY <1>16, <1>t, <2>2 DEF SummarizeCheckpoint, IInv, NeverCorrupt, TypeOK
  <2>4. Exclusive' /\ HandlesFit'
    BY <1>16 DEF SummarizeCheckpoint, IInv, Exclusive, HandlesFit, Writing, HashAt, Digest
  <2> QED BY <1>t, <1>r, <2>1, <2>3, <2>4 DEF IInv
<1>17. ASSUME PowerLoss PROVE IInv'
  <2>1. PICK n \in synced .. Len(file) : file' = Prefix(file, n) /\ synced' = n
    BY <1>17 DEF PowerLoss
  <2>2. n \in 0 .. Len(file) /\ n \in Nat
    BY <1>n
  <2>3. Len(file') = n /\ \A i \in 1 .. n : file'[i] = file[i]
    BY <1>t, <2>1, <2>2, PrefixProperties DEF TypeOK
  <2>4. \A i \in 0 .. n : HashAt(file', i) = HashAt(file, i)
    BY <2>2, <2>3 DEF HashAt, Digest
  <2>5. Parses(file)'
    <3>1. \A i \in 1 .. n : LineFits(file, i) /\ i - 1 \in 0 .. n
      BY <1>n, <2>2 DEF IInv, FileFacts, Parses
    <3> QED BY <2>3, <2>4, <3>1 DEF Parses, LineFits
  <2>6. Ordered'
    <3>1. clock' = clock
      BY <1>17 DEF PowerLoss
    <3>2. \A i \in 1 .. n : i \in 1 .. Len(file)
      BY <1>n, <2>2
    <3> QED BY <2>3, <3>1, <3>2 DEF IInv, FileFacts, Ordered
  <2>7. AckedSynced'
    <3>1. acked' = acked /\ acked \subseteq Event
      BY <1>17, <1>t DEF PowerLoss, TypeOK
    <3> QED BY <1>n, <2>1, <2>2, <2>3, <3>1 DEF IInv, FileFacts, AckedSynced, Event
  <2>8. CheckpointsStable'
    <3>1. /\ snap'["checkpoint"] \in {snap["checkpoint"], dsnap["checkpoint"]}
          /\ dsnap'["checkpoint"] \in {snap["checkpoint"], dsnap["checkpoint"]}
      BY <1>17 DEF PowerLoss, Names
    <3>2. snap["checkpoint"].seq \in 0 .. synced /\ dsnap["checkpoint"].seq \in 0 .. synced
      BY <1>t, <1>n DEF TypeOK, Snapshot, Names, IInv, FileFacts, CheckpointsStable, Stable
    <3>3. \A i \in 0 .. synced : i <= n /\ i \in 0 .. n
      BY <1>n, <2>2
    <3> QED BY <2>1, <2>4, <3>1, <3>2, <3>3 DEF IInv, FileFacts, CheckpointsStable, Stable
  <2>9. ReadersSeePrefix'
    BY <1>17, <2>2, <2>3, EmptySeq DEF PowerLoss, ReadersSeePrefix, IsPrefixOf
  <2>10. \A p \in Procs : pc'[p] = "idle"
    BY <1>17, <1>t, ProcsAssumption DEF PowerLoss, IInv, NeverCorrupt, TypeOK
  <2>11. Exclusive' /\ NeverCorrupt' /\ HandlesFit'
    BY <1>17, <1>t, <2>10 DEF PowerLoss, IInv, Exclusive, NeverCorrupt, HandlesFit, Open, Names, TypeOK
  <2> QED BY <1>t, <1>r, <2>5, <2>6, <2>7, <2>8, <2>9, <2>11 DEF IInv, FileFacts
<1>18. ASSUME NEW r \in Readers, StartRead(r) \/ ReadOn(r) PROVE IInv'
  <2>1. UNCHANGED <<files, snaps, torn, lock, pc, handles, ghosts, failures>>
    BY <1>18 DEF StartRead, ReadOn
  <2>2. seen' \in {seen, [seen EXCEPT ![r] = file]}
    BY <1>18 DEF StartRead, ReadOn
  <2>3. ReadersSeePrefix'
    BY <1>n, <1>t, <2>1, <2>2 DEF IInv, FileFacts, ReadersSeePrefix, IsPrefixOf, TypeOK
  <2>4. FileFacts'
    BY <2>1, <2>3 DEF IInv, FileFacts, Parses, LineFits, HashAt, Digest, Ordered, AckedSynced,
                      CheckpointsStable, Stable
  <2>r. /\ rpc \in [Readers -> {"idle", "reading", "prefix", "corrupt"}]
        /\ got \in [Readers -> Nat] /\ NeverCorrupt
    BY <1>t DEF TypeOK, IInv
  <2>5. ASSUME StartRead(r) PROVE NeverCorrupt'
    <3>1. /\ rpc[r] = "idle" /\ rpc'[r] = "reading"
          /\ \A q \in Readers \ {r} : rpc'[q] = rpc[q] /\ got'[q] = got[q]
      BY <2>r, <2>5 DEF StartRead
    <3> QED BY <2>r, <2>1, <3>1 DEF NeverCorrupt
  <2>6. ASSUME ReadOn(r) PROVE NeverCorrupt'
    <3>1. rpc[r] = "reading" /\ Followed(r)
      BY <2>6 DEF ReadOn, IInv, ReadsFollowed
    <3>2. Spliced(r) => got[r] \in torn
      <4>1. Len(seen[r]) \in Nat
        BY <1>t, LenProperties DEF TypeOK
      <4> QED BY <1>n, <3>1, <4>1 DEF Spliced, Grown, Followed
    <3>3. /\ rpc'[r] = "corrupt" => Spliced(r) /\ got'[r] = got[r]
          /\ \A q \in Readers \ {r} : rpc'[q] = rpc[q] /\ got'[q] = got[q]
      BY <2>r, <2>6, <3>1 DEF ReadOn
    <3> QED BY <2>r, <2>1, <3>2, <3>3 DEF NeverCorrupt
  <2>7. Exclusive' /\ HandlesFit'
    BY <2>1 DEF IInv, Exclusive, HandlesFit, Writing, HashAt, Digest
  <2> QED BY <1>18, <1>t, <1>r, <2>4, <2>5, <2>6, <2>7 DEF IInv
<1>19. CASE UNCHANGED vars
  <2>1. TypeOK' /\ FileFacts' /\ NeverCorrupt'
    BY <1>19, <1>t DEF vars, IInv, FileFacts, Parses, LineFits, HashAt, Digest, Ordered,
       AckedSynced, CheckpointsStable, Stable, ReadersSeePrefix, IsPrefixOf, NeverCorrupt
  <2>2. Exclusive' /\ HandlesFit'
    BY <1>19 DEF vars, IInv, Exclusive, HandlesFit, Writing, HashAt, Digest
  <2> QED BY <1>r, <2>1, <2>2 DEF IInv
<1> QED
  BY <1>1, <1>2, <1>3, <1>4, <1>5, <1>6, <1>7, <1>8, <1>9, <1>10, <1>11, <1>12, <1>13, <1>14,
     <1>15, <1>16, <1>17, <1>18, <1>19 DEF Next, Operate, Read

\* The invariant holds throughout.
LEMMA Invariance == Spec => []IInv
  BY InitIInv, NextIInv, PTL DEF Spec

\* Whatever fails wherever, the run can be opened again.
THEOREM JournalReopenable == Spec => []Reopenable
<1>1. IInv => Reopenable
  <2> SUFFICES ASSUME IInv PROVE Reopenable
    OBVIOUS
  <2>1. snap["checkpoint"].seq \in Nat /\ synced \in Nat /\ Len(file) \in Nat
    BY LenProperties DEF IInv, TypeOK, Snapshot, Names
  <2> QED BY <2>1 DEF IInv, FileFacts, CheckpointsStable, Stable, AckedSynced, Reopenable, SnapshotFits
<1> QED BY <1>1, Invariance, PTL

\* No opening ever meets a journal it must call corrupt, and a reader without
\* the lock only while a torn line is repaired under its read.
THEOREM JournalNeverCorrupt == Spec => []NeverCorrupt
<1>1. IInv => NeverCorrupt
  BY DEF IInv
<1> QED BY <1>1, Invariance, PTL

\* Acknowledged events survive every kill and power loss, in order.
THEOREM JournalDurable == Spec => []AckedSurvive
<1>1. IInv => AckedSurvive
  <2> SUFFICES ASSUME IInv PROVE AckedSurvive
    OBVIOUS
  <2>1. Len(file) \in Nat /\ synced \in Nat
    BY LenProperties DEF IInv, TypeOK
  <2>2. \A e \in acked : e.seq \in 1 .. Len(file) /\ file[e.seq] = e /\ e.stamp \in Nat
    <3>1. \A e \in acked : e.stamp \in Nat
      BY DEF IInv, TypeOK, Event
    <3>2. \A e \in acked : e.seq \in 1 .. synced /\ file[e.seq] = e
      BY DEF IInv, FileFacts, AckedSynced
    <3>3. synced <= Len(file)
      BY DEF IInv, FileFacts, AckedSynced
    <3> QED BY <2>1, <3>1, <3>2, <3>3
  <2>3. \A e, f \in acked : e.stamp < f.stamp => e.seq < f.seq
    <3> SUFFICES ASSUME NEW e \in acked, NEW f \in acked, e.stamp < f.stamp PROVE e.seq < f.seq
      OBVIOUS
    <3>1. e.seq # f.seq /\ ~ (f.seq < e.seq)
      BY <2>1, <2>2 DEF IInv, FileFacts, Ordered
    <3> QED BY <2>1, <2>2, <3>1
  <2> QED BY <2>2, <2>3 DEF AckedSurvive
<1> QED BY <1>1, Invariance, PTL

\* What a reader saw without the lock is never taken back by a repair.
THEOREM ReadersConsistent == Spec => []ReadersSeePrefix
<1>1. IInv => ReadersSeePrefix
  BY DEF IInv, FileFacts
<1> QED BY <1>1, Invariance, PTL

\* All of it together: the run can be resumed from what it acknowledged.
THEOREM JournalResumable == Spec => []Resumable
  BY JournalReopenable, JournalNeverCorrupt, JournalDurable, PTL DEF Resumable

\* Torn bytes leave the journal only as the line they belong to or into a file.
THEOREM TornBytesKept == Spec => TornKept
<1>1. IInv /\ [Next]_vars =>
        [tail # 0 /\ tail' # tail /\ failures' = failures => tail \in torn' \cup Stamps(file')]_vars
  <2> SUFFICES ASSUME IInv, Next, tail # 0, tail' # tail, failures' = failures
               PROVE  tail \in torn' \cup Stamps(file')
    OBVIOUS
  <2>1. failures \in Nat /\ failures + 1 # failures
    BY DEF IInv, TypeOK
  <2>2. ASSUME NEW p \in Procs, Truncate(p) PROVE tail \in torn'
    BY <2>2 DEF Truncate, IInv, HandlesFit
  <2>3. ASSUME NEW p \in Procs, StartAppend(p) PROVE FALSE
    BY <2>3 DEF StartAppend, IInv, HandlesFit, Open
  <2>4. ASSUME NEW p \in Procs, FinishWrite(p) PROVE tail \in Stamps(file')
    <3>1. Writing(p) /\ rec[p] \in Event /\ file \in Seq(Event)
      BY <2>4 DEF FinishWrite, IInv, HandlesFit, TypeOK
    <3>2. file' = Append(file, rec[p]) /\ tail = rec[p].stamp
      BY <2>4, <3>1 DEF FinishWrite, Writing
    <3>3. file'[Len(file) + 1] = rec[p] /\ Len(file) + 1 \in 1 .. Len(file')
      BY <3>1, <3>2, AppendProperties, LenProperties
    <3> QED BY <3>2, <3>3 DEF Stamps
  <2> QED
    BY <2>1, <2>2, <2>3, <2>4 DEF Next, Operate, Read, Acquire, Load, KeepTail, FinishAppend,
       FailAppend, ReplaceSnapshot, SyncSnapshot, FailSnapshot, Release, Kill, StartRead, ReadOn,
       Inspect, SummarizePrefix, Gives, SummarizeCheckpoint, PowerLoss
<1> QED BY <1>1, Invariance, PTL DEF Spec, TornKept
=============================================================================
