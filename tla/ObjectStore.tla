---------------------------- MODULE ObjectStore ----------------------------
(***************************************************************************)
(* The content-addressed object store (storage), with export and import of *)
(* bundles (bundles), used by several processes at once.  An object is     *)
(* staged in a directory of its own and renamed into place; two advisory   *)
(* locks (objects, aliases) that are never waited for serialise writers;   *)
(* readers take none.  A process may die between any two steps, or a write *)
(* may fail.                                                               *)
(***************************************************************************)
EXTENDS Naturals, FiniteSets

CONSTANTS
    Procs,
    Objects,
    Refs,          \* Manifest.references
    Names,         \* aliases
    Archives,      \* bundles of other stores: their objects and aliases
    Nothing,
    MaxOps,        \* bound: operations begun
    MaxFaults      \* bound: crashes, failed writes, damaged objects

ASSUME ObjectsAssumption ==
    /\ Refs \in [Objects -> SUBSET Objects]
    /\ Archives \subseteq [objects : SUBSET Objects, names : [Names -> Objects \cup {Nothing}]]
ASSUME BoundsAssumption == MaxOps \in Nat /\ MaxFaults \in Nat
ASSUME NamesAssumption  == Nothing \notin Objects /\ Nothing \notin Procs

VARIABLES
    format,        \* format.json is there
    store,         \* what is in objects/<id>; {} for no such directory
    damaged,       \* objects whose content no longer has its digest
    litter,        \* number of staged directories that dead processes left
    aliases,       \* aliases.json
    bundle,        \* the exported file
    lock,          \* who holds objects.lock, aliases.lock
    p,             \* the processes
    ops, faults

vars == <<format, store, damaged, litter, aliases, bundle, lock, p, ops, faults>>
disk == <<format, store, damaged, litter, aliases, bundle>>

Parts   == {"manifest", "blobs"}
NoNames == [n \in Names |-> Nothing]

\* An operation: what is put or named next, the staged parts, what is still to
\* be put and to be named, the index it has read, whether it may move an alias,
\* and the aliases it leaves alone.
Idle == [pc |-> "idle", obj |-> Nothing, staged |-> {}, todo |-> {}, naming |-> NoNames,
         current |-> NoNames, replace |-> FALSE, skip |-> {}, kind |-> "none"]

Init ==
    /\ format = FALSE
    /\ store = [o \in Objects |-> {}] /\ damaged = {} /\ litter = 0
    /\ aliases = NoNames
    /\ bundle = [objects |-> {}, names |-> NoNames]
    /\ lock = [objects |-> Nothing, aliases |-> Nothing]
    /\ p = [q \in Procs |-> Idle]
    /\ ops = 0 /\ faults = 0

At(q, pc) == p[q].pc = pc
Goto(q, pc) == p' = [p EXCEPT ![q].pc = pc]
Ends(q) == p' = [p EXCEPT ![q] = Idle]
Fault == faults < MaxFaults /\ faults' = faults + 1

Released(q) == [l \in DOMAIN lock |-> IF lock[l] = q THEN Nothing ELSE lock[l]]

\* All objects that one leads to, itself included: what is in every set that
\* has it and whatever its members refer to.
ClosedUnder(S) == \A y \in S : Refs[y] \subseteq S
Closure ==
    [o \in Objects |-> {x \in Objects : \A S \in SUBSET Objects : o \in S /\ ClosedUnder(S) => x \in S}]

\* verify: the object and everything it refers to is there, complete and
\* unchanged.
Verified(o) == \A x \in Closure[o] : store[x] = Parts /\ x \notin damaged
Exists(o) == store[o] # {}

HoldsData == (\E o \in Objects : Exists(o)) \/ litter > 0 \/ (\E q \in Procs : p[q].staged # {})

\* Mutant of Checked: references are taken as given.
CheckedNot(o) == TRUE

\* What put and put_manifest ask of an object's references.
Checked(o) == \A x \in Refs[o] : Verified(x)

-----------------------------------------------------------------------------
(* Operations begin; each opens the store, which refuses data without the    *)
(* format marker.  It looks for the marker first and, if there is none, for  *)
(* data.  Data that this code writes comes after the marker, which stays, so *)
(* whoever is let in is so by the guard below at the moment of its last look.*)
(* Another may have made the store between the two looks: then the opening   *)
(* is refused, the operation does not begin and nothing changes.             *)

Begins(q, record) ==
    /\ At(q, "idle") /\ ops < MaxOps
    /\ format \/ ~ HoldsData
    /\ ops' = ops + 1
    /\ p' = [p EXCEPT ![q] = record]
    /\ UNCHANGED <<disk, lock, faults>>

BeginPut(q, o) == Begins(q, [Idle EXCEPT !.pc = "refs", !.obj = o, !.kind = "put"])

BeginAlias(q, n, o, replace) ==
    Begins(q, [Idle EXCEPT !.pc = "naming", !.naming = [NoNames EXCEPT ![n] = o],
                           !.replace = replace, !.kind = "alias"])

BeginExport(q, n, o) ==
    /\ bundle.objects = {}
    /\ Begins(q, [Idle EXCEPT !.pc = "collect", !.obj = o, !.kind = "export",
                              !.naming = [NoNames EXCEPT ![n] = aliases[n]]])

\* _verify_inventory: the archive holds what its objects refer to.
Sound(archive) == \A o \in archive.objects : Refs[o] \subseteq archive.objects

\* import_bundle: an archive that names other objects than its own is refused,
\* and under "error" one that would move an alias.
BeginImport(q, archive, policy) ==
    /\ Sound(archive)
    /\ \A n \in Names :
         /\ archive.names[n] \in archive.objects \cup {Nothing}
         /\ policy = "error" /\ archive.names[n] # Nothing => aliases[n] \in {Nothing, archive.names[n]}
    /\ Begins(q, [Idle EXCEPT !.pc = "import", !.kind = "import", !.todo = archive.objects,
                              !.naming = archive.names, !.replace = policy = "replace",
                              !.skip = {n \in Names : policy = "skip" /\ aliases[n] # Nothing}])

-----------------------------------------------------------------------------
(* put, put_manifest. *)

\* The objects of a bundle that refer to none still to be put.
Ready(q) == {o \in p[q].todo : Refs[o] \cap p[q].todo = {}}

ImportNext(q) ==
    /\ At(q, "import")
    /\ \/ \E o \in Ready(q) : p' = [p EXCEPT ![q].pc = "refs", ![q].obj = o, ![q].todo = @ \ {o}]
       \/ p[q].todo = {} /\ Goto(q, "naming")
    /\ UNCHANGED <<disk, lock, ops, faults>>

References(q) ==
    /\ At(q, "refs")
    /\ IF Checked(p[q].obj) THEN Goto(q, "lock") ELSE Ends(q)
    /\ UNCHANGED <<disk, lock, ops, faults>>

\* file_lock: taken at once, or the operation fails.
Lock(q, l, pc, next) ==
    /\ At(q, pc)
    /\ IF lock[l] = Nothing
       THEN lock' = [lock EXCEPT ![l] = q] /\ Goto(q, next)
       ELSE UNCHANGED lock /\ Ends(q)
    /\ UNCHANGED <<disk, ops, faults>>

LockObjects(q) == Lock(q, "objects", "lock", "probe")
LockAliases(q) == Lock(q, "aliases", "alias", "index")

\* Where a put returns to.
Done(q) == [p EXCEPT ![q] = IF p[q].kind = "import" THEN [@ EXCEPT !.pc = "import", !.staged = {}] ELSE Idle]

\* Under the lock: an object that is there is verified and kept, one that is
\* broken stays as it is and fails the operation.
Probe(q) ==
    /\ At(q, "probe")
    /\ IF ~ Exists(p[q].obj) THEN Goto(q, "format") /\ UNCHANGED lock
       ELSE /\ lock' = Released(q)
            /\ IF Verified(p[q].obj) THEN p' = Done(q) ELSE Ends(q)
    /\ UNCHANGED <<disk, ops, faults>>

EnsureFormat(q) ==
    /\ At(q, "format")
    /\ format' = TRUE /\ Goto(q, "stage")
    /\ UNCHANGED <<store, damaged, litter, aliases, bundle, lock, ops, faults>>

Complete(parts) == parts = Parts

\* The staged directory gets its manifest, then its blobs.
Stage(q) ==
    /\ At(q, "stage") /\ ~ Complete(p[q].staged)
    /\ \E part \in Parts \ p[q].staged :
         /\ part = "blobs" => "manifest" \in p[q].staged
         /\ p' = [p EXCEPT ![q].staged = @ \cup {part}]
    /\ UNCHANGED <<disk, lock, ops, faults>>

\* publish_directory: one rename, into a place that is still free.
Publish(q) ==
    /\ At(q, "stage") /\ Complete(p[q].staged)
    /\ store' = [store EXCEPT ![p[q].obj] = p[q].staged]
    /\ p' = Done(q)
    /\ lock' = Released(q)
    /\ UNCHANGED <<format, damaged, litter, aliases, bundle, ops, faults>>

\* A write fails: the staged directory is removed, the lock released.
WriteFails(q) ==
    /\ p[q].pc \in {"stage", "index", "link"} /\ Fault
    /\ Ends(q)
    /\ lock' = Released(q)
    /\ UNCHANGED <<disk, ops>>

-----------------------------------------------------------------------------
(* set_alias, delete_alias. *)

\* The next alias of the operation; "skip" passes over the names that were
\* taken when the import began. The target is verified before the lock is
\* tried.
NextAlias(q) ==
    /\ At(q, "naming")
    /\ LET due == {n \in Names : p[q].naming[n] # Nothing} \ p[q].skip
       IN  IF due = {} THEN Ends(q)
           ELSE \E n \in due :
                  IF Verified(p[q].naming[n])
                  THEN p' = [p EXCEPT ![q].pc = "alias", ![q].obj = n]
                  ELSE Ends(q)
    /\ UNCHANGED <<disk, lock, ops, faults>>

Dropping == [lock EXCEPT !.aliases = Nothing]     \* not held until the write

\* The locks, when the index has been read but not written.
Holding == lock

\* The index is read under the lock; a name that is taken is left alone,
\* unless it may be moved.
ReadIndex(q) ==
    /\ At(q, "index")
    /\ LET n == p[q].obj IN
         IF aliases[n] \notin {Nothing, p[q].naming[n]} /\ ~ p[q].replace
         THEN lock' = Released(q) /\ Ends(q)
         ELSE lock' = Holding /\ p' = [p EXCEPT ![q].pc = "link", ![q].current = aliases]
    /\ UNCHANGED <<disk, ops, faults>>

\* The whole index is written again. (The name is done: it is skipped from now on.)
WriteIndex(q) ==
    /\ At(q, "link") /\ p[q].kind # "export"
    /\ aliases' = [p[q].current EXCEPT ![p[q].obj] = p[q].naming[p[q].obj]]
    /\ p' = [p EXCEPT ![q].pc = "naming", ![q].naming[p[q].obj] = Nothing,
                     ![q].current = NoNames]
    /\ lock' = Released(q)
    /\ UNCHANGED <<format, store, damaged, litter, bundle, ops, faults>>

DeleteAlias(q, n) ==
    /\ At(q, "idle") /\ ops < MaxOps /\ ops' = ops + 1
    /\ aliases[n] # Nothing /\ lock.aliases = Nothing
    /\ aliases' = [aliases EXCEPT ![n] = Nothing]
    /\ UNCHANGED <<format, store, damaged, litter, bundle, lock, p, faults>>

-----------------------------------------------------------------------------
(* export_bundle. *)

Collect(q) ==
    /\ At(q, "collect")
    /\ IF /\ Verified(p[q].obj)
          /\ \A n \in Names : p[q].naming[n] \in Closure[p[q].obj] \cup {Nothing}
       THEN p' = [p EXCEPT ![q].pc = "link", ![q].todo = Closure[p[q].obj]]
       ELSE Ends(q)
    /\ UNCHANGED <<disk, lock, ops, faults>>

Free == bundle.objects = {}

\* os.link: fails when somebody else has made the file meanwhile.
LinkBundle(q) ==
    /\ At(q, "link") /\ p[q].kind = "export"
    /\ bundle' = IF Free THEN [objects |-> p[q].todo, names |-> p[q].naming] ELSE bundle
    /\ Ends(q)
    /\ UNCHANGED <<format, store, damaged, litter, aliases, lock, ops, faults>>

-----------------------------------------------------------------------------
(* Faults. *)

\* The process dies: its locks are released, a staged directory stays.
Crash(q) ==
    /\ ~ At(q, "idle") /\ Fault
    /\ litter' = IF p[q].staged = {} THEN litter ELSE litter + 1
    /\ lock' = Released(q)
    /\ Ends(q)
    /\ UNCHANGED <<format, store, damaged, aliases, bundle, ops>>

Damage(o) ==
    /\ Exists(o) /\ o \notin damaged /\ Fault
    /\ damaged' = damaged \cup {o}
    /\ UNCHANGED <<format, store, litter, aliases, bundle, lock, p, ops>>

Step(q) ==
    \/ ImportNext(q) \/ References(q) \/ LockObjects(q) \/ Probe(q) \/ EnsureFormat(q)
    \/ Stage(q) \/ Publish(q) \/ NextAlias(q) \/ LockAliases(q) \/ ReadIndex(q) \/ WriteIndex(q)
    \/ Collect(q) \/ LinkBundle(q)

Begin(q) ==
    \/ \E o \in Objects : BeginPut(q, o)
    \/ \E n \in Names, o \in Objects, r \in BOOLEAN : BeginAlias(q, n, o, r)
    \/ \E n \in Names, o \in Objects : BeginExport(q, n, o)
    \/ \E archive \in Archives \cup {bundle}, policy \in {"error", "skip", "replace"} :
         BeginImport(q, archive, policy)
    \/ \E n \in Names : DeleteAlias(q, n)

Next ==
    \/ \E q \in Procs : Begin(q) \/ Step(q) \/ WriteFails(q) \/ Crash(q)
    \/ \E o \in Objects : Damage(o)

Spec == Init /\ [][Next]_vars

-----------------------------------------------------------------------------
(* Properties. *)

\* Whoever opens the store, at whatever moment, finds only complete objects
\* whose references are there as well: no reader ever needs a lock. Aliases,
\* and the aliases and objects of an exported bundle, lead to objects.
Closed ==
    /\ \A o \in Objects : Exists(o) => store[o] = Parts /\ \A x \in Refs[o] : Exists(x)
    /\ \A n \in Names : aliases[n] # Nothing => Exists(aliases[n])
    /\ \A o \in bundle.objects : Refs[o] \subseteq bundle.objects
    /\ \A n \in Names : bundle.names[n] \in bundle.objects \cup {Nothing}

\* A store never looks like one of an older format, whose data has no marker,
\* wherever the first process that wrote to it died.
NeverLegacy == HoldsData => format

\* An alias changes only by an operation on that very name, it is moved only
\* by one that may, and no other alias is lost on the way; an object that is
\* there is not written again, whoever else put it at the same time; and an
\* exported file, once there, is never replaced.
NamesStep ==
    /\ \A n \in Names :
        aliases'[n] # aliases[n] =>
          /\ \A m \in Names \ {n} : aliases'[m] = aliases[m]
          /\ \/ aliases[n] = Nothing \/ aliases'[n] = Nothing
             \/ \E q \in Procs : At(q, "link") /\ p[q].replace
    /\ \A o \in Objects : Exists(o) => store'[o] = store[o]
    /\ bundle # bundle' => bundle.objects = {}

\* Every step of an operation is so.
AliasesKept == [][NamesStep]_vars

\* A store is closed under references, and never looks like a legacy one.
StoreSound == Closed /\ NeverLegacy
=============================================================================
