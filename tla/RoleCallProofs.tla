----------------------------- MODULE RoleCallProofs -----------------------------
(***************************************************************************)
(* What a call of a controller or judge leaves behind, for any number of   *)
(* processes it may fork, any limit of the owner and any number of faults. *)
(*                                                                         *)
(* The owner's report speaks of processes that it came across, while it    *)
(* stops only those it tracks.  It is true because whoever is met and not  *)
(* tracked leaves an error for good (Followed), because nothing is met     *)
(* once the monitor has ended (Placed), and because a process that is new  *)
(* is in none of the sets.  Placed also says that what is unpublished is   *)
(* handed over before the call returns; Linked, that the link to the       *)
(* credentials exists only between its marker and the end of the bindings. *)
(***************************************************************************)
EXTENDS RoleCall, FiniteSetTheorems, TLAPS

\* The places of a caller: before its call has a process, and after its death.
Before   == {"idle", "mkdir", "marker", "link", "identity"}
Recovery == {"crashed", "unowned", "recovered"}
Places   == {"idle", "mkdir", "marker", "link", "identity", "spawn", "claim", "take", "append", "run",
             "stop", "term", "kill", "unbind", "done", "crashed", "unowned", "recovered"}

Owner  == [on : BOOLEAN, tracked : SUBSET Procs, seen : SUBSET Procs, unpublished : SUBSET Procs, errors : BOOLEAN]
Report == [known : BOOLEAN, stopped : BOOLEAN]
Memory == [pc : Places, phase : Commands, ok : BOOLEAN, held : BOOLEAN, batch : SUBSET Procs,
           back : {"idle", "run", "stop", "done"}, report : Report, watch : BOOLEAN]

Types ==
    /\ alive \subseteq born /\ born \subseteq Procs /\ hidden \subseteq Kids
    /\ parent \in [Procs -> Procs \cup {NoProc}] /\ session \in [Procs -> Procs \cup {NoProc}]
    /\ owner \in Owner /\ c \in Memory /\ broken \in BOOLEAN
    /\ dir \in {"none", "bare", "marked", "identified"} /\ link \in {"none", "ours", "theirs"}

\* The last publication of the call is under way.
Closing == c.pc \in {"take", "append"} /\ c.back = "done"

\* Who has been seen, and what becomes of it: it is in the journal or on its
\* way there, and what lives of it is tracked unless the owner has an error.
Followed ==
    /\ owner.tracked \subseteq owner.seen /\ owner.unpublished \subseteq owner.seen
    /\ owner.seen \subseteq born /\ owned \subseteq born /\ met \subseteq born
    /\ c.batch \subseteq owner.unpublished
    /\ owner.seen \subseteq owned \cup owner.unpublished
    /\ Cardinality(owner.tracked) <= MaxProcesses
    /\ ~ owner.errors /\ c.pc \notin Recovery => met \cap alive \subseteq owner.tracked

\* What the caller has and has not done when it is at a place.
Placed ==
    /\ c.pc \in Before => born = {} /\ owner = NoOwner /\ c.phase = "version"
    /\ c.phase = "version" /\ c.pc \notin Recovery => "model" \notin born
    /\ c.pc = "spawn" => c.phase \notin born
    /\ c.pc = "claim" => c.phase \in born
    /\ c.pc \in {"take", "append"} => c.back # "idle"
    /\ c.pc # "append" => c.batch = {}
    /\ c.pc \in {"term", "kill", "unbind", "done"} \/ Closing => ~ owner.on
    /\ c.report.known => c.pc \in {"unbind", "done"} \/ Closing
    /\ c.pc = "append" /\ Closing => c.batch = owner.unpublished
    /\ c.pc = "done" /\ ~ broken => owner.unpublished = {}

\* What a report that all has stopped stands for, in a call and in a recovery.
Stopped ==
    /\ c.report.stopped => c.report.known /\ met \cap alive = {}
    /\ c.pc \in {"unowned", "recovered"} => owned \cap alive = {}

\* The link comes after the directory and its marker, and goes with the bindings.
Linked ==
    /\ dir \in {"none", "bare"} => link = "none"
    /\ c.pc \in {"idle", "mkdir", "marker", "link"} => link = "none"
    /\ c.pc = "link" => dir = "marked"
    /\ c.pc \in {"identity", "spawn", "claim", "run", "stop", "term", "kill", "unbind"} => c.held
    /\ c.pc \in {"take", "append"} /\ ~ Closing => c.held
    /\ c.pc = "done" \/ Closing => (c.ok => link # "ours" /\ c.report.stopped)
    /\ c.pc = "recovered" => link # "ours"

IInv == Types /\ Followed /\ Placed /\ Stopped /\ Linked
-----------------------------------------------------------------------------
(* Operators. *)

\* The processes found from some lie between those of them that live and all
\* that live.
LEMMA BelowFacts ==
  ASSUME NEW from
  PROVE  from \cap alive \subseteq Below(from) /\ Below(from) \subseteq alive
BY DEF Below

\* Whoever ends processes only takes them out.
LEMMA GoneFacts ==
  ASSUME Types, NEW dead, Gone(dead)
  PROVE  alive' = alive \ dead /\ parent' \in [Procs -> Procs \cup {NoProc}]
BY DEF Types, Gone

\* Sets of processes are finite.
LEMMA Finite == ASSUME NEW S \in SUBSET Procs PROVE IsFiniteSet(S)
<1>1. IsFiniteSet({"version"} \cup {"model"})
  BY FS_Singleton, FS_Union
<1>2. IsFiniteSet(Procs)
  <2>1. {"version"} \cup {"model"} = Commands
    BY DEF Commands
  <2> QED BY <1>1, <2>1, BoundsAssumption, FS_Union DEF Procs
<1> QED BY <1>2, FS_Subset

\* What a scan takes up stays within the limit.
LEMMA WithinLimit ==
  ASSUME Types, Followed, NEW found, NEW new \in SUBSET alive, Takes(owner.tracked, found, new)
  PROVE  Cardinality((owner.tracked \cap alive) \cup new) <= MaxProcesses
<1> DEFINE known == owner.tracked \cap alive
<1>1. new \in SUBSET Procs /\ known \in SUBSET Procs /\ owner.tracked \in SUBSET Procs
  BY DEF Types, Owner
<1>2. IsFiniteSet(new) /\ IsFiniteSet(known) /\ IsFiniteSet(owner.tracked)
  BY <1>1, Finite, Zenon
<1>3. Cardinality(known) <= MaxProcesses
  BY <1>2, FS_Subset, FS_CardinalityType, BoundsAssumption DEF Followed
<1>4. Cardinality(new) <= MaxProcesses - Cardinality(known)
  BY <1>2, <1>3, FS_CardinalityType, BoundsAssumption DEF Takes
<1>5. Cardinality(known \cup new) = Cardinality(known) + Cardinality(new) - Cardinality(known \cap new)
  BY <1>2, FS_Union
<1>6. IsFiniteSet(known \cap new)
  BY <1>2, FS_Intersection
<1>7. Cardinality(known \cup new) <= MaxProcesses
  <2> DEFINE k == Cardinality(known)
             n == Cardinality(new)
             b == Cardinality(known \cap new)
  <2>1. k \in Nat /\ n \in Nat /\ b \in Nat
    BY <1>2, <1>6, FS_CardinalityType
  <2>2. Cardinality(known \cup new) = k + n - b /\ n <= MaxProcesses - k
    BY <1>4, <1>5
  <2> HIDE DEF k, n, b
  <2> QED BY <2>1, <2>2, BoundsAssumption
<1> QED BY <1>7

-----------------------------------------------------------------------------
(* The steps, one lemma for each or for a few alike. *)

\* TakeBatch: the batch is what is unpublished, and stays so once the monitor has
\* ended.
LEMMA TakeBatchKeeps ==
  ASSUME IInv, TakeBatch
  PROVE  IInv'
<1>1. /\ c.pc = "take" /\ c'.batch = owner.unpublished /\ c \in Memory
      /\ c'.pc = (IF owner.unpublished = {} THEN c.back ELSE "append")
      /\ c'.phase = c.phase /\ c'.ok = c.ok /\ c'.held = c.held /\ c'.back = c.back /\ c'.report = c.report
      /\ UNCHANGED <<alive, born, parent, session, hidden, owner, owned, broken, dir, link, met, faults>>
  BY DEF TakeBatch, At, IInv, Types, Memory, world, files
<1>2. Types'
  BY DEF TakeBatch, At, IInv, Types, Owner, Memory, Places, world, files
<1>3. Followed'
  BY <1>1 DEF IInv, Followed, Recovery
<1>4. Placed'
  BY <1>1 DEF IInv, Placed, Types, Memory, Before, Recovery, Closing
<1>5. Stopped'
  BY <1>1 DEF IInv, Stopped, Placed, Memory, Closing
<1>6. Linked'
  BY <1>1 DEF IInv, Linked, Placed, Memory, Closing
<1> QED BY <1>2, <1>3, <1>4, <1>5, <1>6 DEF IInv

\* Fork: a new process is in no set that knows processes.
LEMMA ForkKeeps ==
  ASSUME IInv, NEW p \in Procs, NEW k \in Kids, Fork(p, k)
  PROVE  IInv'
<1>1. /\ k \notin born /\ alive # {} /\ alive' = alive \cup {k} /\ born' = born \cup {k} /\ hidden' \subseteq hidden \cup {k}
      /\ parent' = [parent EXCEPT ![k] = p] /\ (\E s \in Procs \cup {NoProc} : session' = [session EXCEPT ![k] = s])
      /\ UNCHANGED <<owner, owned, broken, files, c, met>>
  BY DEF Fork, IInv, Types, Procs
<1>2. Types'
  BY <1>1 DEF IInv, Types, Procs, files
<1>3. Followed'
  BY <1>1 DEF IInv, Followed
<1>4. Placed'
  BY <1>1, NamesAssumption DEF IInv, Types, Memory, Placed, Closing, Before, Commands
<1>5. Stopped'
  BY <1>1 DEF IInv, Stopped, Followed
<1>6. Linked'
  BY <1>1 DEF IInv, Linked, Closing, files
<1> QED BY <1>2, <1>3, <1>4, <1>5, <1>6 DEF IInv

\* Exit: fewer live.
LEMMA ExitKeeps ==
  ASSUME IInv, NEW p \in Procs, Exit(p)
  PROVE  IInv'
<1>1. /\ alive' \subseteq alive /\ parent' \in [Procs -> Procs \cup {NoProc}]
      /\ UNCHANGED <<born, session, hidden, owner, owned, broken, files, c, met, faults>>
  BY GoneFacts DEF Exit, IInv
<1> QED BY <1>1 DEF IInv, Types, Followed, Placed, Stopped, Linked, Closing, files

\* Replace and JournalFails: the link is then the controller's own.
LEMMA OutsideKeeps ==
  ASSUME IInv, Replace \/ JournalFails
  PROVE  IInv'
<1>1. /\ broken' \in BOOLEAN /\ (broken => broken')
      /\ link' = link \/ (link = "ours" /\ link' = "theirs")
      /\ UNCHANGED <<alive, born, parent, session, hidden, owner, owned, dir, c, met>>
  <2>1. broken \in BOOLEAN
    BY DEF IInv, Types
  <2>2. CASE Replace
    BY <2>1, <2>2 DEF Replace, world
  <2>3. CASE JournalFails
    BY <2>3 DEF JournalFails, world, files
  <2> QED BY <2>2, <2>3
<1>2. Types'
  BY <1>1 DEF IInv, Types
<1>3. Followed' /\ Stopped'
  BY <1>1 DEF IInv, Followed, Stopped
<1>4. Placed'
  BY <1>1 DEF IInv, Placed, Closing
<1>5. Linked'
  BY <1>1 DEF IInv, Linked, Closing
<1> QED BY <1>2, <1>3, <1>4, <1>5 DEF IInv

\* Publish: what leaves the unpublished is in the journal.
LEMMA PublishKeeps ==
  ASSUME IInv, Publish
  PROVE  IInv'
<1>1. /\ c.pc = "append" /\ c'.batch = {} /\ c \in Memory /\ c'.pc = c.back
      /\ c'.phase = c.phase /\ c'.ok = c.ok /\ c'.held = c.held /\ c'.back = c.back /\ c'.report = c.report
      /\ owned' = owned \cup c.batch /\ owner'.unpublished = owner.unpublished \ c.batch
      /\ owner'.on = owner.on /\ owner'.tracked = owner.tracked /\ owner'.seen = owner.seen
      /\ owner'.errors = owner.errors
      /\ UNCHANGED <<alive, born, parent, session, hidden, broken, dir, link, met, faults>>
  BY DEF Publish, Published, At, IInv, Types, Owner, Memory, world, files
<1>2. Types'
  BY DEF Publish, Published, At, IInv, Types, Owner, Memory, Places, world, files
<1>3. Followed'
  BY <1>1 DEF IInv, Followed, Recovery
<1>4. Placed'
  BY <1>1 DEF IInv, Placed, Types, Memory, Before, Recovery, Closing
<1>5. Stopped'
  BY <1>1 DEF IInv, Stopped, Placed, Memory, Closing, Followed
<1>6. Linked'
  BY <1>1 DEF IInv, Linked, Placed, Memory, Closing
<1> QED BY <1>2, <1>3, <1>4, <1>5, <1>6 DEF IInv

\* PublishFails: the journal is broken.
LEMMA PublishFailsKeeps ==
  ASSUME IInv, PublishFails
  PROVE  IInv'
<1>1. /\ c.pc = "append" /\ c'.batch = {} /\ c \in Memory /\ broken
      /\ \/ c.back = "run" /\ c'.pc = "take" /\ c'.back = "stop"
         \/ c.back # "run" /\ c'.pc = c.back /\ c'.back = c.back
      /\ c'.phase = c.phase /\ c'.ok = FALSE /\ c'.held = c.held /\ c'.report = c.report
      /\ alive' \subseteq alive /\ parent' \in [Procs -> Procs \cup {NoProc}]
      /\ UNCHANGED <<born, session, hidden, owner, owned, broken, dir, link, met, faults>>
  BY GoneFacts DEF PublishFails, KillGroup, At, IInv, Types, Memory, files
<1>2. Types'
  BY <1>1 DEF PublishFails, IInv, Types, Owner, Memory, Places
<1>3. Followed'
  BY <1>1 DEF IInv, Followed, Recovery
<1>4. Placed'
  BY <1>1 DEF IInv, Placed, Types, Memory, Before, Recovery, Closing
<1>5. Stopped'
  BY <1>1 DEF IInv, Stopped, Placed, Memory, Closing, Followed
<1>6. Linked'
  BY <1>1 DEF IInv, Linked, Placed, Memory, Closing
<1> QED BY <1>2, <1>3, <1>4, <1>5, <1>6 DEF IInv

\* Begin: nothing has been made.
LEMMA BeginKeeps ==
  ASSUME IInv, Begin
  PROVE  IInv'
<1>1. /\ c.pc = "idle" /\ c \in Memory /\ c'.pc \in {"mkdir", "done"} /\ (c'.pc = "done" => c'.ok = FALSE)
      /\ c'.phase = c.phase /\ c'.batch = c.batch /\ c'.held = c.held /\ c'.back = c.back /\ c'.report = c.report
      /\ UNCHANGED <<alive, born, parent, session, hidden, owner, owned, broken, dir, link, met, faults>>
  BY DEF Begin, At, Goto, IInv, Types, Memory, world, files
<1>2. Types'
  BY <1>1 DEF Begin, Goto, IInv, Types, Memory, Places
<1>3. Followed'
  BY <1>1 DEF IInv, Followed, Recovery
<1>4. Placed'
  BY <1>1 DEF IInv, Placed, Types, Memory, Before, Recovery, Closing, NoOwner
<1>5. Stopped'
  BY <1>1 DEF IInv, Stopped
<1>6. Linked'
  BY <1>1 DEF IInv, Linked, Closing
<1> QED BY <1>2, <1>3, <1>4, <1>5, <1>6 DEF IInv

\* The preparation: directory, marker, link and identity in that order.
LEMMA PrepareKeeps ==
  ASSUME IInv, MakeDirectory \/ WriteMarker \/ MakeLink \/ WriteIdentity
  PROVE  IInv'
<1>1. /\ c.pc \in Before /\ c \in Memory /\ c' \in Memory
      /\ c'.phase = c.phase /\ c'.batch = c.batch /\ c'.report = c.report /\ c'.back = c.back
      /\ \/ c.pc = "mkdir" /\ c'.pc = "marker" /\ dir' = "bare" /\ link' = link /\ owner' = owner
         \/ c.pc = "marker" /\ c'.pc = "link" /\ dir' = "marked" /\ link' = link /\ owner' = owner
         \/ c.pc = "link" /\ c'.pc = "identity" /\ dir' = dir /\ link' = "ours" /\ c'.held /\ owner' = owner
         \/ /\ c.pc = "identity" /\ c'.pc = "spawn" /\ dir' = "identified" /\ link' = link /\ c'.held = c.held
            /\ owner' = [NoOwner EXCEPT !.on = TRUE]
         \/ c'.pc = "done" /\ ~ c'.ok /\ dir' = dir /\ link' \in {link, Unlinked} /\ owner' = owner
      /\ UNCHANGED <<alive, born, parent, session, hidden, owned, broken, met>>
  <2>1. c \in Memory
    BY DEF IInv, Types
  <2>2. CASE MakeDirectory
    BY <2>1, <2>2 DEF MakeDirectory, Prepares, Goto, At, Memory, Places, Before, world
  <2>3. CASE WriteMarker
    BY <2>1, <2>3 DEF WriteMarker, Prepares, Goto, At, Memory, Places, Before, world
  <2>4. CASE MakeLink
    BY <2>1, <2>4 DEF MakeLink, Prepares, At, Memory, Places, Before, world
  <2>5. CASE WriteIdentity
    BY <2>1, <2>5 DEF WriteIdentity, Prepares, Goto, At, Memory, Places, Before, world
  <2> QED BY <2>2, <2>3, <2>4, <2>5
<1>2. Types'
  BY <1>1 DEF IInv, Types, Owner, NoOwner, Unlinked
<1>3. Followed'
  BY <1>1 DEF IInv, Followed, Placed, Recovery, NoOwner, Before
<1>4. Placed'
  BY <1>1 DEF IInv, Placed, Before, Recovery, Closing, NoOwner
<1>5. Stopped'
  BY <1>1 DEF IInv, Stopped, Before
<1>6. Linked'
  BY <1>1 DEF IInv, Linked, Closing, Unlinked
<1> QED BY <1>2, <1>3, <1>4, <1>5, <1>6 DEF IInv

\* Spawn: the command is a process that nobody knows.
LEMMA SpawnKeeps ==
  ASSUME IInv, Spawn
  PROVE  IInv'
<1>1. /\ c.pc = "spawn" /\ c \in Memory /\ c' \in Memory /\ c'.phase = c.phase /\ c'.batch = c.batch
      /\ c'.held = c.held /\ c'.report = c.report
      /\ \/ /\ c'.pc = "claim" /\ alive' = alive \cup {c.phase} /\ born' = born \cup {c.phase}
            /\ session' = [session EXCEPT ![c.phase] = c.phase]
         \/ c'.pc = "take" /\ c'.back = "stop" /\ UNCHANGED <<alive, born, session>>
      /\ UNCHANGED <<parent, hidden, owner, owned, broken, dir, link, met>>
  BY DEF Spawn, At, Goto, IInv, Types, Memory, Places, files
<1>2. Types'
  BY <1>1 DEF IInv, Types, Memory, Procs
<1>3. Followed'
  BY <1>1 DEF IInv, Followed, Placed, Recovery
<1>4. Placed'
  BY <1>1 DEF IInv, Placed, Memory, Commands, Before, Recovery, Closing
<1>5. Stopped'
  BY <1>1 DEF IInv, Stopped, Placed, Closing
<1>6. Linked'
  BY <1>1 DEF IInv, Linked, Closing
<1> QED BY <1>2, <1>3, <1>4, <1>5, <1>6 DEF IInv

\* Claim: it is tracked, or an error of the owner.
LEMMA ClaimKeeps ==
  ASSUME IInv, Claim
  PROVE  IInv'
<1> DEFINE tracked == owner.tracked \cap alive
<1>1. /\ c.pc = "claim" /\ c \in Memory /\ owner \in Owner /\ c.phase \in born
      /\ tracked \in SUBSET Procs /\ c.phase \in Procs
      /\ UNCHANGED <<born, session, hidden, owned, broken, dir, link>> /\ met' = met \cup {c.phase}
  BY DEF Claim, At, IInv, Types, Owner, Memory, Placed, Procs, files
<1>2. Cardinality(tracked) <= MaxProcesses /\ Cardinality(tracked) \in Nat /\ IsFiniteSet(tracked)
  <2>1. IsFiniteSet(owner.tracked)
    BY <1>1, Finite DEF Owner
  <2>2. Cardinality(owner.tracked) \in Nat /\ Cardinality(owner.tracked) <= MaxProcesses
    BY <2>1, FS_CardinalityType DEF IInv, Followed
  <2>3. IsFiniteSet(tracked) /\ Cardinality(tracked) <= Cardinality(owner.tracked)
    BY <2>1, FS_Subset
  <2> QED BY <2>2, <2>3, FS_CardinalityType, BoundsAssumption
<1>3. CASE Cardinality(tracked) >= MaxProcesses
  <2>1. /\ c'.pc = "take" /\ c'.back = "stop" /\ c' \in Memory /\ c'.phase = c.phase /\ c'.batch = c.batch
        /\ c'.held = c.held /\ c'.report = c.report
        /\ owner'.tracked = tracked /\ owner'.errors /\ owner'.seen = owner.seen /\ owner'.on = owner.on
        /\ owner'.unpublished = owner.unpublished /\ owner' \in Owner
        /\ alive' \subseteq alive /\ parent' \in [Procs -> Procs \cup {NoProc}]
    <3>1. /\ KillGroup /\ owner' = [owner EXCEPT !.tracked = tracked, !.errors = TRUE]
          /\ c' = [c EXCEPT !.pc = "take", !.back = "stop", !.ok = FALSE]
      BY <1>3 DEF Claim
    <3>2. alive' \subseteq alive /\ parent' \in [Procs -> Procs \cup {NoProc}]
      BY <3>1, GoneFacts DEF KillGroup, IInv
    <3> QED BY <1>1, <3>1, <3>2 DEF Memory, Places, Owner
  <2>2. Types'
    BY <1>1, <2>1 DEF IInv, Types
  <2>3. Followed'
    BY <1>1, <1>2, <2>1 DEF IInv, Followed
  <2>4. Placed'
    BY <1>1, <2>1 DEF IInv, Placed, Before, Recovery, Closing
  <2>5. Stopped'
    BY <1>1, <2>1 DEF IInv, Stopped, Placed, Closing
  <2>6. Linked'
    BY <1>1, <2>1 DEF IInv, Linked, Closing
  <2> QED BY <2>2, <2>3, <2>4, <2>5, <2>6 DEF IInv
<1>4. CASE ~ Cardinality(tracked) >= MaxProcesses
  <2>1. Cardinality(tracked \cup {c.phase}) <= MaxProcesses
    <3>1. Cardinality(tracked \cup {c.phase}) \in {Cardinality(tracked), Cardinality(tracked) + 1}
      BY <1>2, FS_AddElement
    <3> HIDE DEF tracked
    <3> QED BY <1>2, <1>4, <3>1, BoundsAssumption
  <2>2. /\ c'.pc = "take" /\ c'.back = "run" /\ c' \in Memory /\ c'.phase = c.phase /\ c'.batch = c.batch
        /\ c'.held = c.held /\ c'.report = c.report
        /\ owner'.tracked = tracked \cup {c.phase} /\ owner'.errors = owner.errors
        /\ owner'.seen = owner.seen \cup {c.phase} /\ owner'.on = owner.on
        /\ owner'.unpublished = owner.unpublished \cup {c.phase} /\ owner' \in Owner
        /\ UNCHANGED <<alive, parent>>
    <3>1. /\ owner' = [owner EXCEPT !.tracked = tracked \cup {c.phase}, !.seen = @ \cup {c.phase},
                                    !.unpublished = @ \cup {c.phase}]
          /\ c' = [c EXCEPT !.pc = "take", !.back = "run"] /\ UNCHANGED <<alive, parent>>
      BY <1>4 DEF Claim
    <3> QED BY <1>1, <3>1 DEF Memory, Places, Owner
  <2>3. Types'
    BY <1>1, <2>2 DEF IInv, Types
  <2>4. Followed'
    BY <1>1, <2>1, <2>2 DEF IInv, Followed, Recovery
  <2>5. Placed'
    BY <1>1, <2>2 DEF IInv, Placed, Before, Recovery, Closing
  <2>6. Stopped'
    BY <1>1, <2>2 DEF IInv, Stopped, Placed, Closing
  <2>7. Linked'
    BY <1>1, <2>2 DEF IInv, Linked, Closing
  <2> QED BY <2>3, <2>4, <2>5, <2>6, <2>7 DEF IInv
<1> QED BY <1>3, <1>4

\* The command's waits and its end.
LEMMA RunKeeps ==
  ASSUME IInv, Poll \/ CommandExits \/ CommandCut
  PROVE  IInv'
<1>1. /\ c.pc = "run" /\ c \in Memory /\ c' \in Memory /\ c'.batch = c.batch /\ c'.held = c.held
      /\ c'.report = c.report
      /\ \/ c'.pc = "take" /\ c'.back \in {"run", "stop"} /\ c'.phase = c.phase
         \/ c'.pc = "spawn" /\ c.phase = "version" /\ c'.phase = "model"
      /\ alive' \subseteq alive /\ parent' \in [Procs -> Procs \cup {NoProc}]
      /\ UNCHANGED <<born, session, hidden, owner, owned, broken, dir, link, met>>
  <2>1. c \in Memory /\ parent \in [Procs -> Procs \cup {NoProc}]
    BY DEF IInv, Types
  <2>2. CASE Poll
    BY <2>1, <2>2 DEF Poll, At, Memory, Places, world, files
  <2>3. CASE CommandExits
    BY <2>1, <2>3 DEF CommandExits, At, Memory, Places, Commands, world, files
  <2>4. CASE CommandCut
    BY <2>1, <2>4, GoneFacts DEF CommandCut, KillGroup, Waiting, Measured, At, Memory, Places, IInv, files
  <2> QED BY <2>2, <2>3, <2>4
<1>2. Types'
  BY <1>1 DEF IInv, Types
<1>3. Followed'
  BY <1>1 DEF IInv, Followed, Recovery
<1>4. Placed'
  BY <1>1 DEF IInv, Placed, Before, Recovery, Closing
<1>5. Stopped'
  BY <1>1 DEF IInv, Stopped, Placed, Closing
<1>6. Linked'
  BY <1>1 DEF IInv, Linked, Closing
<1> QED BY <1>2, <1>3, <1>4, <1>5, <1>6 DEF IInv

\* A scan leaves the owner with all that it found, or with an error.
LEMMA ScanFacts ==
  ASSUME IInv, Scan
  PROVE  /\ owner' \in Owner /\ owner'.tracked \subseteq owner'.seen /\ owner'.unpublished \subseteq owner'.seen
         /\ owner'.seen \subseteq born /\ met' \subseteq born
         /\ owner.unpublished \subseteq owner'.unpublished
         /\ owner'.seen \subseteq owned \cup owner'.unpublished
         /\ Cardinality(owner'.tracked) <= MaxProcesses
         /\ ~ owner'.errors /\ c.pc \notin Recovery => met' \cap alive \subseteq owner'.tracked
         /\ c.pc = "stop" => ~ owner'.on
<1>1. PICK new \in SUBSET alive :
         /\ Takes(owner.tracked, Found, new)
         /\ owner' = [owner EXCEPT !.tracked = (@ \cap alive) \cup new,
                                   !.seen = @ \cup new,
                                   !.unpublished = @ \cup (new \ owner.seen),
                                   !.errors = @ \/ Missed(new),
                                   !.on = @ /\ ~ At("stop") /\ ~ Full(new)]
         /\ met' = met \cup Found
  BY DEF Scan
<1>2. Found \subseteq alive /\ owner.tracked \cap alive \subseteq Found
  BY BelowFacts DEF Found
<1>3. Cardinality((owner.tracked \cap alive) \cup new) <= MaxProcesses
  BY <1>1, WithinLimit DEF IInv
<1>4. /\ owner \in Owner /\ alive \subseteq born /\ born \subseteq Procs
      /\ Missed(new) \in BOOLEAN /\ Full(new) \in BOOLEAN /\ At("stop") \in BOOLEAN
  BY DEF IInv, Types, Missed, Full, At
<1>5. /\ owner' \in Owner
      /\ owner'.tracked = (owner.tracked \cap alive) \cup new
      /\ owner'.seen = owner.seen \cup new
      /\ owner'.unpublished = owner.unpublished \cup (new \ owner.seen)
  BY <1>1, <1>4 DEF Owner
<1>6. owner'.errors = (owner.errors \/ Missed(new))
  BY <1>1, <1>4, Zenon DEF Owner
<1>7. owner'.on = (owner.on /\ ~ At("stop") /\ ~ Full(new))
  BY <1>1, <1>4, Zenon DEF Owner
<1>8. ~ Missed(new) => Found \subseteq owner'.tracked
  BY <1>2, <1>5 DEF Missed
<1>9. ~ owner'.errors /\ c.pc \notin Recovery => met' \cap alive \subseteq owner'.tracked
  BY <1>1, <1>5, <1>6, <1>8 DEF IInv, Followed
<1>10. c.pc = "stop" => ~ owner'.on
  BY <1>7 DEF At
<1> QED BY <1>1, <1>2, <1>3, <1>4, <1>5, <1>9, <1>10 DEF IInv, Followed

\* Monitor: only while the owner is on, which it is not at the end.
LEMMA MonitorKeeps ==
  ASSUME IInv, Monitor
  PROVE  IInv'
<1>1. owner.on /\ Scan /\ UNCHANGED <<alive, born, parent, session, hidden, owned, broken, dir, link, c>>
  BY DEF Monitor, world, files
<1>2. Types'
  BY <1>1, ScanFacts DEF IInv, Types
<1>3. Followed'
  BY <1>1, ScanFacts DEF IInv, Followed
<1>4. Placed' /\ Stopped'
  <2>1. c.pc \notin Before
    BY <1>1 DEF IInv, Placed, NoOwner
  <2> QED BY <1>1, <2>1, ScanFacts DEF IInv, Placed, Stopped, Closing
<1>5. Linked'
  BY <1>1 DEF IInv, Linked, Closing
<1> QED BY <1>2, <1>3, <1>4, <1>5 DEF IInv

\* Stop: the last scan; from here on the owner is off.
LEMMA StopKeeps ==
  ASSUME IInv, Stop
  PROVE  IInv'
<1>1. /\ c.pc = "stop" /\ Scan /\ c \in Memory /\ c' \in Memory /\ c'.pc = "term"
      /\ c'.phase = c.phase /\ c'.batch = c.batch /\ c'.held = c.held /\ c'.report = c.report
      /\ UNCHANGED <<alive, born, parent, session, hidden, owned, broken, dir, link>>
  BY DEF Stop, At, Goto, IInv, Types, Memory, Places, world, files
<1>2. Types'
  BY <1>1, ScanFacts DEF IInv, Types
<1>3. Followed'
  BY <1>1, ScanFacts DEF IInv, Followed, Recovery
<1>4. Placed'
  BY <1>1, ScanFacts DEF IInv, Placed, Before, Recovery, Closing
<1>5. Stopped'
  BY <1>1 DEF IInv, Stopped, Placed, Closing
<1>6. Linked'
  BY <1>1 DEF IInv, Linked, Closing
<1> QED BY <1>2, <1>3, <1>4, <1>5, <1>6 DEF IInv

\* Terminate: fewer live.
LEMMA TerminateKeeps ==
  ASSUME IInv, Terminate
  PROVE  IInv'
<1>1. /\ c.pc = "term" /\ c \in Memory /\ c' \in Memory /\ c'.pc = "kill"
      /\ c'.phase = c.phase /\ c'.batch = c.batch /\ c'.held = c.held /\ c'.report = c.report
      /\ alive' \subseteq alive /\ parent' \in [Procs -> Procs \cup {NoProc}]
      /\ UNCHANGED <<born, session, hidden, owner, owned, broken, dir, link, met>>
  BY GoneFacts DEF Terminate, At, Goto, IInv, Types, Memory, Places, files
<1>2. Types'
  BY <1>1 DEF IInv, Types
<1>3. Followed'
  BY <1>1 DEF IInv, Followed, Recovery
<1>4. Placed'
  BY <1>1 DEF IInv, Placed, Before, Recovery, Closing
<1>5. Stopped'
  BY <1>1 DEF IInv, Stopped, Placed, Closing
<1>6. Linked'
  BY <1>1 DEF IInv, Linked, Closing
<1> QED BY <1>2, <1>3, <1>4, <1>5, <1>6 DEF IInv

\* The report: without survivors and errors all that was met is dead.
LEMMA KillKeeps ==
  ASSUME IInv, Kill
  PROVE  IInv'
<1>1. PICK survivors \in SUBSET (owner.tracked \cap alive) :
         /\ Gone((owner.tracked \cap alive) \ survivors)
         /\ c' = [c EXCEPT !.pc = "unbind",
                           !.report = [known |-> TRUE, stopped |-> survivors = {} /\ ~ owner.errors]]
  BY DEF Kill
<1>2. alive' = alive \ ((owner.tracked \cap alive) \ survivors) /\ parent' \in [Procs -> Procs \cup {NoProc}]
  BY <1>1, GoneFacts DEF IInv
<1>3. c.pc = "kill" /\ c \in Memory /\ UNCHANGED <<born, session, hidden, owner, owned, broken, dir, link, met>>
  BY DEF Kill, At, IInv, Types, files
<1> DEFINE stopped == survivors = {} /\ ~ owner.errors
<1>4. stopped => met \cap alive' = {}
  BY <1>2, <1>3 DEF IInv, Followed, Recovery
<1>5. stopped \in BOOLEAN /\ c' = [c EXCEPT !.pc = "unbind", !.report = [known |-> TRUE, stopped |-> stopped]]
  BY <1>1
<1> HIDE DEF stopped
<1>6. /\ c' \in Memory /\ c'.pc = "unbind" /\ c'.phase = c.phase /\ c'.batch = c.batch /\ c'.held = c.held
      /\ c'.report.known /\ c'.report.stopped = stopped
  BY <1>3, <1>5 DEF Memory, Report, Places
<1>7. Types'
  BY <1>2, <1>3, <1>6 DEF IInv, Types
<1>8. Followed'
  BY <1>2, <1>3, <1>6 DEF IInv, Followed, Recovery
<1>9. Placed'
  BY <1>3, <1>6 DEF IInv, Placed, Before, Recovery, Closing
<1>10. Stopped'
  BY <1>3, <1>4, <1>6 DEF IInv, Stopped
<1>11. Linked'
  BY <1>3, <1>6 DEF IInv, Linked, Closing
<1> QED BY <1>7, <1>8, <1>9, <1>10, <1>11 DEF IInv

\* Unbind: a call that is still good is left without its link.
LEMMA UnbindKeeps ==
  ASSUME IInv, Unbind
  PROVE  IInv'
<1>1. PICK trips \in BOOLEAN :
         c' = [c EXCEPT !.pc = "take", !.back = "done", !.held = @ /\ ~ MayUnbind, !.watch = trips,
                        !.ok = @ /\ c.report.stopped /\ ~ trips /\ ~ (MayUnbind /\ link = "theirs")]
  <2>1. Measured \subseteq BOOLEAN
    BY DEF Measured, IInv, Types, Memory
  <2> QED BY <2>1 DEF Unbind
<1>2. /\ c.pc = "unbind" /\ c.held /\ c \in Memory /\ UNCHANGED <<alive, born, parent, session, hidden>>
      /\ UNCHANGED <<owner, owned, broken, dir, met>> /\ link' = IF c.report.stopped THEN Unlinked ELSE link
  BY DEF Unbind, MayUnbind, At, IInv, Types, Linked, world
<1>3. /\ c' \in Memory /\ c'.pc = "take" /\ c'.back = "done" /\ c'.phase = c.phase /\ c'.batch = c.batch
      /\ c'.report = c.report /\ (c'.ok => c.report.stopped)
  BY <1>1, <1>2 DEF Memory, Places, MayUnbind, Report
<1>4. Types'
  BY <1>2, <1>3 DEF IInv, Types, Unlinked
<1>5. Followed'
  BY <1>2, <1>3 DEF IInv, Followed, Recovery
<1>6. Placed'
  BY <1>2, <1>3 DEF IInv, Placed, Before, Recovery, Closing
<1>7. Stopped'
  BY <1>2, <1>3 DEF IInv, Stopped
<1>8. Linked'
  BY <1>2, <1>3 DEF IInv, Linked, Closing, Unlinked
<1> QED BY <1>4, <1>5, <1>6, <1>7, <1>8 DEF IInv

\* Crash: all but the files, the journal and the processes is gone.
LEMMA CrashKeeps ==
  ASSUME IInv, Crash
  PROVE  IInv'
<1>1. /\ c' \in Memory /\ c'.pc = "crashed" /\ ~ c'.report.known /\ ~ c'.report.stopped /\ c'.batch = {}
      /\ owner' \in Owner /\ owner' = NoOwner /\ broken' = FALSE
      /\ UNCHANGED <<alive, born, parent, session, hidden, owned, dir, link, met>>
  BY DEF Crash, Idle, NoReport, NoOwner, Memory, Report, Owner, Commands, Places, world, files
<1>2. Types'
  BY <1>1 DEF IInv, Types
<1>3. Followed'
  BY <1>1, FS_EmptySet, BoundsAssumption DEF IInv, Followed, Recovery, NoOwner
<1>4. Placed' /\ Stopped'
  BY <1>1 DEF IInv, Placed, Stopped, Before, Recovery, Closing
<1>5. Linked'
  BY <1>1 DEF IInv, Linked, Closing
<1> QED BY <1>2, <1>3, <1>4, <1>5 DEF IInv

\* The recovery is through with the processes when none is left that it found.
LEMMA ReconcileWritersKeeps ==
  ASSUME IInv, ReconcileWriters
  PROVE  IInv'
<1> DEFINE named == owned \cap alive
           found == Below(named)
<1>1. PICK new \in SUBSET alive, survivors \in SUBSET alive :
         /\ Gone((named \cup new) \ survivors)
         /\ owned' = owned \cup new
         /\ Goto(IF survivors = {} /\ new = found \ named THEN "unowned" ELSE "crashed")
         /\ met' = met \cup found
  BY DEF ReconcileWriters
<1>2. found \subseteq alive
  BY BelowFacts
<1>3. alive' = alive \ ((named \cup new) \ survivors) /\ parent' \in [Procs -> Procs \cup {NoProc}]
  BY <1>1, GoneFacts DEF IInv
<1> HIDE DEF found
<1>4. /\ c.pc = "crashed" /\ c \in Memory /\ c' \in Memory /\ c'.batch = c.batch /\ c'.report = c.report
      /\ c'.phase = c.phase
      /\ (c'.pc = "unowned" /\ survivors = {}) \/ c'.pc = "crashed"
      /\ UNCHANGED <<born, session, hidden, owner, broken, dir, link>>
  BY <1>1 DEF ReconcileWriters, At, Goto, IInv, Types, Memory, Places, files
<1>5. Types'
  BY <1>3, <1>4 DEF IInv, Types
<1>6. Followed'
  <2>1. alive \subseteq born
    BY DEF IInv, Types
  <2> QED BY <1>1, <1>2, <1>4, <2>1 DEF IInv, Followed, Recovery
<1>7. Placed'
  BY <1>4 DEF IInv, Placed, Before, Recovery, Closing
<1>8. Stopped'
  BY <1>1, <1>3, <1>4 DEF IInv, Stopped, Placed, Closing
<1>9. Linked'
  BY <1>4 DEF IInv, Linked, Closing
<1> QED BY <1>5, <1>6, <1>7, <1>8, <1>9 DEF IInv

\* ReconcileRuntime: what explains the link, or that there is none.
LEMMA ReconcileRuntimeKeeps ==
  ASSUME IInv, ReconcileRuntime
  PROVE  IInv'
<1>1. /\ c.pc = "unowned" /\ c'.pc = "recovered" /\ c' \in Memory /\ c'.batch = c.batch /\ c'.report = c.report
      /\ c'.phase = c.phase /\ Explained /\ link' = (IF dir = "identified" THEN Unlinked ELSE link)
      /\ UNCHANGED <<alive, born, parent, session, hidden, owner, owned, broken, dir, met>>
  BY DEF ReconcileRuntime, At, Goto, IInv, Types, Memory, Places, world
<1>2. Types'
  BY <1>1 DEF IInv, Types, Unlinked
<1>3. Followed'
  BY <1>1 DEF IInv, Followed, Recovery
<1>4. Placed'
  BY <1>1 DEF IInv, Placed, Before, Recovery, Closing
<1>5. Stopped'
  BY <1>1 DEF IInv, Stopped
<1>6. Linked'
  BY <1>1 DEF IInv, Types, Linked, Closing, Explained, Unlinked
<1> QED BY <1>2, <1>3, <1>4, <1>5, <1>6 DEF IInv
-----------------------------------------------------------------------------
(* The theorems. *)

\* The invariant holds at first,
LEMMA InitHolds == Init => IInv
<1> SUFFICES ASSUME Init PROVE IInv
  OBVIOUS
<1>1. Types
  BY DEF Init, Types, Idle, NoReport, NoOwner, Memory, Report, Owner, Commands, Places
<1>2. Followed
  BY FS_EmptySet, BoundsAssumption DEF Init, Followed, Idle, NoOwner
<1>3. Placed /\ Stopped /\ Linked
  BY DEF Init, Placed, Stopped, Linked, Idle, NoReport, NoOwner, Before, Recovery, Closing
<1> QED BY <1>1, <1>2, <1>3 DEF IInv

\* and every step keeps it.
LEMMA NextKeeps == IInv /\ [Next]_vars => IInv'
<1> SUFFICES ASSUME IInv, [Next]_vars PROVE IInv'
  OBVIOUS
<1>1. CASE Begin \/ Poll \/ Monitor
  BY <1>1, BeginKeeps, RunKeeps, MonitorKeeps
<1>2. CASE Caller
  BY <1>2, TakeBatchKeeps, PublishKeeps, PublishFailsKeeps, PrepareKeeps, SpawnKeeps, ClaimKeeps,
     RunKeeps, StopKeeps, TerminateKeeps, KillKeeps, UnbindKeeps DEF Caller
<1>3. CASE \E p \in Procs : Exit(p) \/ \E k \in Kids : Fork(p, k)
  BY <1>3, ExitKeeps, ForkKeeps
<1>4. CASE Replace \/ JournalFails \/ Crash \/ ReconcileWriters \/ ReconcileRuntime
  BY <1>4, OutsideKeeps, CrashKeeps, ReconcileWritersKeeps, ReconcileRuntimeKeeps
<1>5. CASE UNCHANGED vars
  BY <1>5 DEF vars, IInv, Types, Followed, Placed, Stopped, Linked, Closing
<1> QED BY <1>1, <1>2, <1>3, <1>4, <1>5 DEF Next

\* The inductive invariant holds throughout.
THEOREM Invariant == Spec => []IInv
<1> QED BY InitHolds, NextKeeps, PTL DEF Spec

\* A report that all writers have stopped is true of every process that the
\* owner ever came across, a call that has returned has every process it took up
\* named in the journal, and a completed call, or a recovery that went through,
\* leaves no link to the user's credentials.
THEOREM CallsLeaveNothing == Spec => []NothingLeftRunning
<1>1. IInv => TypeOK
  BY DEF IInv, Types, Followed, TypeOK
<1>2. IInv => ReportHonest
  BY DEF IInv, Stopped, ReportHonest, At
<1>3. IInv => AllPublished
  BY DEF IInv, Followed, Placed, AllPublished, At
<1>4. IInv => NoLinkLeft
  BY DEF IInv, Linked, NoLinkLeft, At
<1> QED BY <1>1, <1>2, <1>3, <1>4, Invariant, PTL DEF NothingLeftRunning

\* The link to the user's credentials is removed by the call that made it, or by
\* a recovery, and only when no process known to use it lives.
THEOREM LinkOutlivesUsers == Spec => ClosedLast
<1>1. ASSUME IInv, [Next]_vars, link' # link, link' = "none"
      PROVE  link = "ours" /\ (IF At("unowned") THEN owned ELSE met) \cap alive = {}
  <2>1. CASE MakeDirectory \/ WriteMarker \/ MakeLink \/ WriteIdentity
    <3>1. c.pc \in Before /\ (link' = link \/ link' = "ours" \/ link' = Unlinked)
      BY <2>1 DEF MakeDirectory, WriteMarker, MakeLink, WriteIdentity, Prepares, At, Before
    <3>2. met = {} /\ ~ At("unowned")
      BY <1>1, <3>1 DEF IInv, Placed, Followed, Before, At
    <3> QED BY <1>1, <3>1, <3>2 DEF Unlinked
  <2>2. CASE Unbind
    <3>1. MayUnbind /\ link' = Unlinked /\ ~ At("unowned")
      BY <1>1, <2>2 DEF Unbind, At
    <3>2. met \cap alive = {}
      BY <1>1, <3>1 DEF MayUnbind, IInv, Stopped
    <3> QED BY <1>1, <3>1, <3>2 DEF Unlinked
  <2>3. CASE ReconcileRuntime
    <3>1. c.pc = "unowned" /\ link' = Unlinked
      BY <1>1, <2>3 DEF ReconcileRuntime, At
    <3> QED BY <1>1, <3>1 DEF Unlinked, At, IInv, Stopped
  <2>4. CASE TakeBatch \/ Publish \/ PublishFails \/ Spawn \/ Claim \/ CommandExits \/ CommandCut
             \/ Stop \/ Terminate \/ Kill \/ Begin \/ Poll \/ Monitor
    BY <1>1, <2>4 DEF TakeBatch, Publish, PublishFails, Spawn, Claim, CommandExits, CommandCut, Stop,
       Terminate, Kill, Begin, Poll, Monitor, files
  <2>5. CASE (\E p \in Procs : Exit(p) \/ \E k \in Kids : Fork(p, k)) \/ Replace \/ JournalFails
             \/ Crash \/ ReconcileWriters \/ UNCHANGED vars
    BY <1>1, <2>5 DEF Exit, Fork, Replace, JournalFails, Crash, ReconcileWriters, files, vars
  <2> QED BY <1>1, <2>1, <2>2, <2>3, <2>4, <2>5 DEF Next, Caller
<1>2. IInv /\ [Next]_vars => [UnlinkStep]_vars
  BY <1>1 DEF UnlinkStep
<1> QED BY <1>2, Invariant, PTL DEF Spec, ClosedLast
=============================================================================
