------------------------------ MODULE RoleCall ------------------------------
(***************************************************************************)
(* One call of a native controller or judge (controllers.run_role_command) *)
(* with the ProcessOwner that follows its processes (process_ownership),   *)
(* the process group that run_command kills (processes), the runtime       *)
(* directory with its link to the user's credentials (controller_runtime,  *)
(* drivers/auth), and the recovery after a crash (native_recovery).        *)
(*                                                                         *)
(* What the journal names (owned), the directory (dir, link) and the       *)
(* processes (alive) survive a crash of the caller; the rest is memory.    *)
(* Deadlines and cancellation are choices: a wait may end at any moment.   *)
(***************************************************************************)
EXTENDS Naturals, FiniteSets

CONSTANTS
    Kids,          \* processes that the commands may fork
    NoProc,
    MaxProcesses,  \* ProcessOwner.max_processes
    MaxFaults      \* bound: failures, crashes, survivors, detached processes

\* The two commands of a call: the probe for a version, then the model.
Commands == {"version", "model"}
Procs    == Commands \cup Kids

ASSUME NamesAssumption  == Kids \cap Commands = {} /\ NoProc \notin Procs
ASSUME BoundsAssumption == IsFiniteSet(Kids) /\ MaxProcesses \in Nat /\ MaxFaults \in Nat

VARIABLES
    alive, born,   \* the processes that run; that ever ran
    parent,        \* who forked a process; NoProc once that one is gone
    session,       \* the command whose process group it is in, or itself
    hidden,        \* processes whose state the system does not show
    owner,         \* the ProcessOwner
    owned,         \* identities in the journal
    broken,        \* the journal takes no more events
    dir, link,     \* the runtime directory's progress; config/auth.json
    c,             \* the caller
    met,           \* history: processes a scan of this call came across
    faults

vars == <<alive, born, parent, session, hidden, owner, owned, broken, dir, link, c, met, faults>>

world  == <<born, parent, session, hidden>>
files  == <<dir, link>>

NoReport == [known |-> FALSE, stopped |-> FALSE]
NoOwner  == [on |-> FALSE, tracked |-> {}, seen |-> {}, unpublished |-> {}, errors |-> FALSE]

\* phase is the command under way, ok that nothing has failed yet, held the
\* links in RuntimeBindings.owned, batch what publish is handing over, back
\* where it returns to.
Idle == [pc |-> "idle", phase |-> "version", ok |-> TRUE, held |-> FALSE, batch |-> {},
         back |-> "idle", report |-> NoReport, watch |-> FALSE]

Init ==
    /\ alive = {} /\ born = {} /\ hidden = {}
    /\ parent = [p \in Procs |-> NoProc]
    /\ session = [p \in Procs |-> NoProc]
    /\ owner = NoOwner
    /\ owned = {} /\ broken = FALSE
    /\ dir = "none" /\ link = "none"
    /\ c = Idle
    /\ met = {}
    /\ faults = 0

At(pc) == c.pc = pc
Goto(pc) == c' = [c EXCEPT !.pc = pc]
FaultIf(b) == IF b THEN faults < MaxFaults /\ faults' = faults + 1 ELSE UNCHANGED faults

\* Processes are gone: their children have another parent from then on.
Gone(dead) ==
    /\ alive' = alive \ dead
    /\ parent' = [p \in Procs |-> IF parent[p] \in dead THEN NoProc ELSE parent[p]]

-----------------------------------------------------------------------------
(* The world. *)

\* A process forks; the child may leave the process group, or be one that the
\* system does not let the owner look at.
Fork(p, k) ==
    /\ p \in alive /\ k \in Kids \ born
    /\ \E leaves \in BOOLEAN, unseen \in BOOLEAN :
         /\ FaultIf(leaves \/ unseen)
         /\ session' = [session EXCEPT ![k] = IF leaves THEN k ELSE session[p]]
         /\ hidden' = IF unseen THEN hidden \cup {k} ELSE hidden
    /\ alive' = alive \cup {k} /\ born' = born \cup {k}
    /\ parent' = [parent EXCEPT ![k] = p]
    /\ UNCHANGED <<owner, owned, broken, files, c, met>>

Exit(p) ==
    /\ p \in alive
    /\ Gone({p})
    /\ UNCHANGED <<born, session, hidden, owner, owned, broken, files, c, met, faults>>

\* The controller refreshes its credentials: its own file takes the link's place.
Replace ==
    /\ link = "ours" /\ "model" \in born /\ alive # {}
    /\ faults < MaxFaults /\ faults' = faults + 1
    /\ link' = "theirs"
    /\ UNCHANGED <<alive, world, owner, owned, broken, dir, c, met>>

\* An append to the journal fails, and with it all later ones.
JournalFails ==
    /\ ~ broken /\ c.pc \notin {"idle", "crashed", "recovered"}
    /\ faults < MaxFaults /\ faults' = faults + 1
    /\ broken' = TRUE
    /\ UNCHANGED <<alive, world, owner, owned, files, c, met>>

-----------------------------------------------------------------------------
(* ProcessOwner. *)

\* The descendants of the given processes, as far as living parents lead; the
\* walk does not go past a process that may not be looked at.
ClosedBelow(S) == \A k \in alive : parent[k] \in S \ hidden => k \in S
Below(from) == {p \in alive : \A S \in SUBSET alive : from \cap alive \subseteq S /\ ClosedBelow(S) => p \in S}
Found == Below(owner.tracked)

\* What a scan may take up: dead processes make room first, and the walk stops
\* at the limit.
Takes(known, found, new) ==
    LET room == MaxProcesses - Cardinality(known \cap alive)
        open == found \ (known \cup hidden)
    IN  /\ new \subseteq open
        /\ Cardinality(new) = room \/ (Cardinality(new) < room /\ new = open)

\* Mutant of Missed: a list that is full is no error.
MissedHidden(new) == (Found \cap hidden) \ owner.tracked # {}

\* A process that the limit leaves no room for, or that may not be looked at,
\* is an error of the owner for good.
Missed(new) == new # Found \ owner.tracked

\* At the limit the monitor gives up.
Full(new) == new # Found \ (owner.tracked \cup hidden)

Scan ==
    \E new \in SUBSET alive :
      /\ Takes(owner.tracked, Found, new)
      /\ owner' = [owner EXCEPT !.tracked = (@ \cap alive) \cup new,
                                !.seen = @ \cup new,
                                !.unpublished = @ \cup (new \ owner.seen),
                                !.errors = @ \/ Missed(new),
                                !.on = @ /\ ~ At("stop") /\ ~ Full(new)]
      /\ met' = met \cup Found

\* The monitor thread, until the owner is stopped; a scan that finds nothing
\* new changes nothing.
Monitor ==
    /\ owner.on /\ Found \ owner.tracked # {}
    /\ Scan
    /\ UNCHANGED <<alive, world, owned, broken, files, c, faults>>

\* publish takes the batch under the lock, hands it over without, and forgets
\* only what it handed over.
TakeBatch ==
    /\ At("take")
    /\ c' = [c EXCEPT !.batch = owner.unpublished,
                      !.pc = IF owner.unpublished = {} THEN c.back ELSE "append"]
    /\ UNCHANGED <<alive, world, owner, owned, broken, files, met, faults>>

Published(batch) == owner.unpublished \ batch

Publish ==
    /\ At("append") /\ ~ broken
    /\ owned' = owned \cup c.batch
    /\ owner' = [owner EXCEPT !.unpublished = Published(c.batch)]
    /\ c' = [c EXCEPT !.pc = c.back, !.batch = {}]
    /\ UNCHANGED <<alive, world, broken, files, met, faults>>

\* run_command's _stop: the whole process group of the command, if its main
\* process has not been waited for.
KillGroup == Gone({p \in alive : session[p] = c.phase})

\* The journal refuses the identities: run_command unwinds, flush goes on to
\* the stop, and after the stop the call fails without a cleanup record.
PublishFails ==
    /\ At("append") /\ broken
    /\ IF c.back = "run"
       THEN KillGroup /\ c' = [c EXCEPT !.pc = "take", !.back = "stop", !.batch = {}, !.ok = FALSE]
       ELSE UNCHANGED <<alive, parent>> /\ c' = [c EXCEPT !.pc = c.back, !.batch = {}, !.ok = FALSE]
    /\ UNCHANGED <<born, session, hidden, owner, owned, broken, files, met, faults>>

-----------------------------------------------------------------------------
(* prepare_runtime. *)

\* RuntimeBindings.close: only the link that was made here goes.
Unlinked == IF link = "ours" THEN "none" ELSE link

\* A step of it: done, or failed. A failure from the link on closes the
\* bindings again; the directory stays.
Prepares(pc, then) ==
    /\ At(pc)
    /\ \/ then /\ UNCHANGED faults
       \/ /\ FaultIf(TRUE)
          /\ c' = [c EXCEPT !.pc = "done", !.ok = FALSE, !.held = FALSE]
          /\ link' = IF c.held THEN Unlinked ELSE link
          /\ UNCHANGED <<dir, owner>>
    /\ UNCHANGED <<alive, world, owned, broken, met>>

\* invoke_controller: over budget, too large, too late or cancelled, a call
\* fails before anything is made.
Begin ==
    /\ At("idle")
    /\ Goto("mkdir") \/ c' = [c EXCEPT !.pc = "done", !.ok = FALSE]
    /\ UNCHANGED <<alive, world, owner, owned, broken, files, met, faults>>
MakeDirectory == Prepares("mkdir", Goto("marker") /\ dir' = "bare" /\ UNCHANGED <<link, owner>>)
WriteMarker   == Prepares("marker", Goto("link") /\ dir' = "marked" /\ UNCHANGED <<link, owner>>)
MakeLink      == Prepares("link", /\ c' = [c EXCEPT !.pc = "identity", !.held = TRUE]
                                  /\ link' = "ours" /\ UNCHANGED <<dir, owner>>)
WriteIdentity == Prepares("identity", /\ Goto("spawn") /\ dir' = "identified"
                                      /\ owner' = [NoOwner EXCEPT !.on = TRUE] /\ UNCHANGED link)

-----------------------------------------------------------------------------
(* run_role_command. *)

\* The command starts in a session of its own, unless the call was cancelled.
Spawn ==
    /\ At("spawn")
    /\ \/ /\ alive' = alive \cup {c.phase} /\ born' = born \cup {c.phase}
          /\ session' = [session EXCEPT ![c.phase] = c.phase]
          /\ Goto("claim")
       \/ /\ c' = [c EXCEPT !.pc = "take", !.back = "stop", !.ok = FALSE]
          /\ UNCHANGED <<alive, born, session>>
    /\ UNCHANGED <<parent, hidden, owner, owned, broken, files, met, faults>>

\* on_start: the process is taken up and its identity published before a byte
\* of its output is read.
Claim ==
    /\ At("claim")
    /\ LET tracked == owner.tracked \cap alive IN
         IF Cardinality(tracked) >= MaxProcesses
         THEN /\ KillGroup
              /\ owner' = [owner EXCEPT !.tracked = tracked, !.errors = TRUE]
              /\ c' = [c EXCEPT !.pc = "take", !.back = "stop", !.ok = FALSE]
         ELSE /\ UNCHANGED <<alive, parent>>
              /\ owner' = [owner EXCEPT !.tracked = tracked \cup {c.phase}, !.seen = @ \cup {c.phase},
                                        !.unpublished = @ \cup {c.phase}]
              /\ c' = [c EXCEPT !.pc = "take", !.back = "run"]
    /\ met' = met \cup {c.phase}
    /\ UNCHANGED <<born, session, hidden, owned, broken, files, faults>>

Poll ==
    /\ At("run") /\ owner.unpublished # {}
    /\ c' = [c EXCEPT !.pc = "take", !.back = "run"]
    /\ UNCHANGED <<alive, world, owner, owned, broken, files, met, faults>>

\* The command ends by itself, with a result that is accepted or not.
CommandExits ==
    /\ At("run") /\ c.phase \notin alive
    /\ \/ c.phase = "version" /\ c' = [c EXCEPT !.pc = "spawn", !.phase = "model"]
       \/ c.phase = "model" /\ c' = [c EXCEPT !.pc = "take", !.back = "stop"]
       \/ c' = [c EXCEPT !.pc = "take", !.back = "stop", !.ok = FALSE]
    /\ UNCHANGED <<alive, world, owner, owned, broken, files, met, faults>>

\* Mutant of Waiting: the wait has a deadline only once the command is gone.
WaitingLate == At("run") /\ c.phase \notin alive

\* run_command is polling or waiting for the command.
Waiting == At("run")

\* What the watch reports, once it has measured the directories again.
Measured == {c.watch, TRUE}

\* The deadline, a cancellation (the watch's too) or too much output.
CommandCut ==
    /\ Waiting
    /\ KillGroup
    /\ \E w \in Measured : c' = [c EXCEPT !.pc = "take", !.back = "stop", !.ok = FALSE, !.watch = w]
    /\ UNCHANGED <<born, session, hidden, owner, owned, broken, files, met, faults>>

\* ProcessOwner.stop: the monitor ends, a last scan, SIGTERM, SIGKILL.
Stop ==
    /\ At("stop")
    /\ Scan
    /\ Goto("term")
    /\ UNCHANGED <<alive, world, owned, broken, files, faults>>

Terminate ==
    /\ At("term")
    /\ \E dead \in SUBSET (owner.tracked \cap alive) : Gone(dead)
    /\ Goto("kill")
    /\ UNCHANGED <<born, session, hidden, owner, owned, broken, files, met, faults>>

Kill ==
    /\ At("kill")
    /\ \E survivors \in SUBSET (owner.tracked \cap alive) :
         /\ FaultIf(survivors # {})
         /\ Gone((owner.tracked \cap alive) \ survivors)
         /\ c' = [c EXCEPT !.pc = "unbind",
                           !.report = [known |-> TRUE, stopped |-> survivors = {} /\ ~ owner.errors]]
    /\ UNCHANGED <<born, session, hidden, owner, owned, broken, files, met>>

\* Mutant of MayUnbind: the bindings are closed whatever the report says.
MayUnbindHeld == c.held

MayUnbind == c.held /\ c.report.stopped

\* watch.close measures once more; the bindings are closed when every known
\* writer has stopped, and a replaced link is left for its owner.
Unbind ==
    /\ At("unbind")
    /\ link' = IF MayUnbind THEN Unlinked ELSE link
    /\ \E trips \in Measured :
         c' = [c EXCEPT !.pc = "take", !.back = "done", !.held = @ /\ ~ MayUnbind, !.watch = trips,
                        !.ok = @ /\ c.report.stopped /\ ~ trips /\ ~ (MayUnbind /\ link = "theirs")]
    /\ UNCHANGED <<alive, world, owner, owned, broken, dir, met, faults>>

-----------------------------------------------------------------------------
(* A crash of the caller, and native_recovery. *)

Crash ==
    /\ c.pc \notin {"idle", "crashed", "unowned", "recovered"}
    /\ faults < MaxFaults /\ faults' = faults + 1
    /\ c' = [Idle EXCEPT !.pc = "crashed"]
    /\ owner' = NoOwner
    /\ broken' = FALSE
    /\ UNCHANGED <<alive, world, owned, files, met>>

\* reconcile_attempt: what the journal names, with its descendants.
ReconcileWriters ==
    /\ At("crashed")
    /\ LET named == owned \cap alive
           found == Below(named)
       IN  \E new \in SUBSET alive, survivors \in SUBSET alive :
             /\ Takes(named, found, new)
             /\ survivors \subseteq named \cup new /\ FaultIf(survivors # {})
             /\ Gone((named \cup new) \ survivors)
             /\ owned' = owned \cup new
             /\ Goto(IF survivors = {} /\ new = found \ named THEN "unowned" ELSE "crashed")
             /\ met' = met \cup found
    /\ UNCHANGED <<born, session, hidden, owner, broken, files>>

\* reconcile_runtimes: only a link with a durable identity may be removed. A
\* directory without its marker, or a link that no identity explains, is an
\* error on every later try.
Explained == dir # "bare" /\ ~ (dir = "marked" /\ link # "none") /\ link # "theirs"

ReconcileRuntime ==
    /\ At("unowned") /\ Explained
    /\ link' = IF dir = "identified" THEN Unlinked ELSE link
    /\ Goto("recovered")
    /\ UNCHANGED <<alive, world, owner, owned, broken, dir, met, faults>>

Caller ==
    \/ TakeBatch \/ Publish \/ PublishFails
    \/ MakeDirectory \/ WriteMarker \/ MakeLink \/ WriteIdentity
    \/ Spawn \/ Claim \/ CommandExits \/ CommandCut
    \/ Stop \/ Terminate \/ Kill \/ Unbind

Next ==
    \/ Begin \/ Caller \/ Poll \/ Monitor
    \/ \E p \in Procs : Exit(p) \/ \E k \in Kids : Fork(p, k)
    \/ Replace \/ JournalFails
    \/ Crash \/ ReconcileWriters \/ ReconcileRuntime

\* Every wait of the caller has a deadline, which ends the polling as well.
Fairness == WF_vars(Caller) /\ SF_vars(CommandCut)
Spec == Init /\ [][Next]_vars /\ Fairness

-----------------------------------------------------------------------------
(* Properties. *)

TypeOK ==
    /\ alive \subseteq born /\ born \subseteq Procs /\ hidden \subseteq Kids
    /\ parent \in [Procs -> Procs \cup {NoProc}] /\ session \in [Procs -> Procs \cup {NoProc}]
    /\ owner.tracked \subseteq owner.seen /\ owner.unpublished \subseteq owner.seen
    /\ Cardinality(owner.tracked) <= MaxProcesses
    /\ dir \in {"none", "bare", "marked", "identified"} /\ link \in {"none", "ours", "theirs"}
    /\ c.batch \subseteq owner.unpublished

\* A report that the writers have stopped is true of every process that the
\* owner ever came across, including those it had no room for and those it was
\* not allowed to look at; and when recovery is through, nothing lives that the
\* journal names.
ReportHonest ==
    /\ c.report.stopped => met \cap alive = {}
    /\ c.pc \in {"unowned", "recovered"} => owned \cap alive = {}

\* When a call has returned and the journal still takes events, the journal
\* names every process that the owner took up, so that a later session can stop
\* what this one could not.
AllPublished == At("done") /\ ~ broken => owner.seen \subseteq owned

\* The link to the user's credentials is removed only as long as it is the one
\* this call made, and only when no process known to use it lives: known to the
\* owner, and in a recovery to the journal.
UnlinkStep ==
    link' # link /\ link' = "none" =>
        link = "ours" /\ (IF At("unowned") THEN owned ELSE met) \cap alive = {}

\* A completed call leaves no link to the user's credentials, nor does a
\* recovery that went through.
NoLinkLeft ==
    /\ At("done") /\ c.ok => link # "ours" /\ c.report.stopped
    /\ At("recovered") => link # "ours"

\* A report that the writers have stopped is true, and a call that is through
\* leaves its processes named and no link.
NothingLeftRunning == TypeOK /\ ReportHonest /\ AllPublished /\ NoLinkLeft

\* The link goes when nothing uses it.
ClosedLast == [][UnlinkStep]_vars

\* Every call that is made gets here: it returns, or its caller dies.
Through == At("done") \/ At("crashed") \/ At("unowned") \/ At("recovered")
=============================================================================
