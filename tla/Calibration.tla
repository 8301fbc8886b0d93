---------------------------- MODULE Calibration ----------------------------
(***************************************************************************)
(* Calibrating a case: each verifier runs on a copy of the baseline and of *)
(* the reference, each side is judged, and the evidence is published once  *)
(* every process that the operation recorded has stopped.  A session that  *)
(* launches anything, a calibration or another (run, assess, replay),      *)
(* holds the store's native lock and first reconciles what earlier         *)
(* calibrations left (calibrations, calibration_recovery).                 *)
(***************************************************************************)
EXTENDS Naturals, FiniteSets, Sequences

CONSTANTS
    Sessions,      \* processes of the command
    Verifiers,     \* a sequence: the facts with a verifier
    Sides,         \* a sequence: baseline, and reference when there is a patch
    JudgesFacts,   \* some fact has no verifier
    MaxOps,        \* bound: calibrations begun
    MaxFaults,     \* bound: surviving processes and crashes
    Nobody

ASSUME InputsAssumption ==
    /\ Verifiers \in Seq(STRING) /\ Sides \in Seq({"baseline", "reference"}) /\ JudgesFacts \in BOOLEAN
ASSUME BoundsAssumption == MaxOps \in Nat /\ MaxFaults \in Nat
ASSUME NamesAssumption  == Nobody \notin Sessions

VARIABLES
    native,        \* who holds native.lock
    s,             \* the sessions
    op,            \* calibrations/<id>/operation.json, in order of creation
    alive,         \* verifier and judge processes
    evidence,      \* operations whose evidence has been taken
    published,     \* CALIBRATION objects in the store
    faults

vars == <<native, s, op, alive, evidence, published, faults>>

\* left: the checks to be made; cut: cancellation_signals.
Idle == [pc |-> "idle", own |-> 0, left |-> <<>>, proc |-> <<0, 0>>, cut |-> FALSE, seen |-> 0]

NewOp == [owned |-> {}, cleanup |-> "none", calls |-> 0, result |-> FALSE]

Init ==
    /\ native = Nobody /\ s = [x \in Sessions |-> Idle] /\ op = <<>>
    /\ alive = {} /\ evidence = {} /\ published = {} /\ faults = 0

\* What calibrate_case does in order: verifier by verifier and side by side.
Checks ==
    [k \in 1..(Len(Verifiers) * Len(Sides)) |->
        <<"verify", Verifiers[((k - 1) \div Len(Sides)) + 1],
          Sides[((k - 1) % Len(Sides)) + 1]>>]
    \o IF JudgesFacts THEN [k \in 1..Len(Sides) |-> <<"judge", "facts", Sides[k]>>] ELSE <<>>

At(x, pc) == s[x].pc = pc
Goto(x, pc) == s' = [s EXCEPT ![x].pc = pc]
Own(x) == s[x].own
Check(x) == Head(s[x].left)
Cancelled(x, pc) == s' = [s EXCEPT ![x].pc = IF s[x].cut THEN "raise" ELSE pc]

\* Mutant of Clean: a report of a failed cleanup will do.
AnyReport(cleanup) == cleanup # "none"

\* known_writers_stopped, and no error.
Clean(cleanup) == cleanup = "ok"

\* CalibrationOwnership.reconcile: the recorded processes that still run are
\* stopped, or some survive, and the report is saved.
Reconciled(o) ==
    \E surviving \in SUBSET (op[o].owned \cap alive) :
      /\ faults + Cardinality(surviving) <= MaxFaults
      /\ faults' = faults + Cardinality(surviving)
      /\ alive' = alive \ (op[o].owned \ surviving)
      /\ op' = [op EXCEPT ![o].cleanup = IF surviving = {} THEN "ok" ELSE "bad"]
Raises(o) == ~ Clean(op'[o].cleanup)
----------------------------------------------------------------------------
\* store.native_lock is not waited for.
Enter(x) ==
    /\ At(x, "idle") /\ native = Nobody /\ native' = x
    /\ s' = [s EXCEPT ![x] = [Idle EXCEPT !.pc = "recover"]]
    /\ UNCHANGED <<op, alive, evidence, published, faults>>

\* reconcile_calibrations, one operation after the other; an unresolved one
\* ends the session.
Recover(x) ==
    /\ At(x, "recover") /\ s[x].seen < Len(op)
    /\ LET o == s[x].seen + 1 IN
       IF ~ Clean(op[o].cleanup)
       THEN Reconciled(o) /\ s' = [s EXCEPT ![x].seen = o,
                                            ![x].pc = IF Raises(o) THEN "raise" ELSE @]
       ELSE s' = [s EXCEPT ![x].seen = o] /\ UNCHANGED <<op, alive, faults>>
    /\ UNCHANGED <<native, evidence, published>>

\* CalibrationOwnership.create: the operation's directory appears complete.
Create(x) ==
    /\ At(x, "recover") /\ s[x].seen = Len(op) /\ Len(op) < MaxOps
    /\ op' = Append(op, NewOp)
    /\ s' = [s EXCEPT ![x].pc = "checks", ![x].own = Len(op) + 1, ![x].left = Checks]
    /\ UNCHANGED <<native, alive, evidence, published, faults>>

\* A run, an assessment or a replay launches processes of its own now.
Others(x) ==
    /\ At(x, "recover") /\ s[x].seen = Len(op)
    /\ Goto(x, "other")
    /\ UNCHANGED <<native, op, alive, evidence, published, faults>>

Signal(x) ==
    /\ s[x].pc \notin {"idle", "other", "raise"} /\ ~ s[x].cut
    /\ s' = [s EXCEPT ![x].cut = TRUE]
    /\ UNCHANGED <<native, op, alive, evidence, published, faults>>

\* _verified_fact, _judge_side: a process begins, and is recorded after that.
Launch(x) ==
    /\ At(x, "checks") /\ s[x].left # <<>>
    /\ IF s[x].cut
       THEN Goto(x, "stop") /\ UNCHANGED <<op, alive>>
       ELSE LET proc == <<Own(x), op[Own(x)].calls + 1>> IN
            /\ alive' = alive \cup {proc}
            /\ op' = [op EXCEPT ![Own(x)].calls = @ + 1]
            /\ s' = [s EXCEPT ![x].pc = "owning", ![x].proc = proc]
    /\ UNCHANGED <<native, evidence, published, faults>>

\* CalibrationOwnership.own
Recorded(o, proc) == [op EXCEPT ![o].owned = @ \cup {proc}, ![o].cleanup = "none"]

Record(x) ==
    /\ At(x, "owning")
    /\ op' = Recorded(Own(x), s[x].proc)
    /\ Goto(x, "running")
    /\ UNCHANGED <<native, alive, evidence, published, faults>>

\* The check's own cleanup may leave its process behind; a cancelled verifier
\* is interrupted, and an error of a judge's call ends that side only.
CheckEnds(x) ==
    /\ At(x, "running")
    /\ \/ alive' = alive \ {s[x].proc} /\ UNCHANGED faults
       \/ s[x].proc \in alive /\ faults < MaxFaults /\ faults' = faults + 1 /\ UNCHANGED alive
    /\ \/ ~ (s[x].cut /\ Check(x)[1] = "verify") /\ Goto(x, "reconcile")
       \/ s[x].cut /\ Check(x)[1] = "verify" /\ Goto(x, "stop")
       \/ Check(x)[1] = "judge" /\ s' = [s EXCEPT ![x].pc = "checks", ![x].left = Tail(@)]
    /\ UNCHANGED <<native, op, evidence, published>>

\* After each side: a verifier's process that survives ends the calibration, a
\* judge's makes the call a failed one.
Reconcile(x) ==
    /\ At(x, "reconcile")
    /\ Reconciled(Own(x))
    /\ IF Raises(Own(x)) /\ Check(x)[1] = "verify"
       THEN Goto(x, "stop")
       ELSE s' = [s EXCEPT ![x].pc = "checks", ![x].left = Tail(@)]
    /\ UNCHANGED <<native, evidence, published>>

\* The finally clause: every way out of the checks reconciles once more.
Stop(x) ==
    /\ At(x, "stop") \/ (At(x, "checks") /\ s[x].left = <<>>)
    /\ Reconciled(Own(x))
    /\ IF Raises(Own(x)) \/ At(x, "stop") THEN Goto(x, "raise") ELSE Cancelled(x, "evidence")
    /\ UNCHANGED <<native, evidence, published>>

Evidence(x) ==
    /\ At(x, "evidence")
    /\ IF ~ Clean(op[Own(x)].cleanup) THEN Goto(x, "raise") /\ UNCHANGED evidence
       ELSE Cancelled(x, "put") /\ evidence' = evidence \cup {Own(x)}
    /\ UNCHANGED <<native, op, alive, published, faults>>

\* The object is put, and then the operation names it.
Put(x) ==
    /\ At(x, "put") /\ Goto(x, "name")
    /\ published' = published \cup {Own(x)}
    /\ UNCHANGED <<native, op, alive, evidence, faults>>

Name(x) ==
    /\ At(x, "name") /\ Goto(x, "raise")
    /\ op' = [op EXCEPT ![Own(x)].result = TRUE]
    /\ UNCHANGED <<native, alive, evidence, published, faults>>

Leave(x) ==
    /\ s[x].pc \in {"raise", "other"}
    /\ s' = [s EXCEPT ![x] = Idle] /\ native' = Nobody
    /\ UNCHANGED <<op, alive, evidence, published, faults>>

\* The process dies; its locks go with it, what it launched does not.
Crash(x) ==
    /\ native = x /\ faults < MaxFaults /\ faults' = faults + 1
    /\ s' = [s EXCEPT ![x] = Idle] /\ native' = Nobody
    /\ UNCHANGED <<op, alive, evidence, published>>

Next == \E x \in Sessions :
    \/ Enter(x) \/ Recover(x) \/ Create(x) \/ Others(x) \/ Signal(x) \/ Launch(x) \/ Record(x)
    \/ CheckEnds(x) \/ Reconcile(x) \/ Stop(x) \/ Evidence(x) \/ Put(x) \/ Name(x) \/ Leave(x)
    \/ Crash(x)

Spec == Init /\ [][Next]_vars
----------------------------------------------------------------------------
\* Evidence is taken, and published, while no recorded process can write in it.
QuietResult == \A o \in evidence \cup published : op[o].owned \cap alive = {}

\* A session that launches processes, whatever its kind, does not do so beside
\* a recorded process of another calibration, also after sessions that died in
\* any step or could not stop a process.
NoneBeside == \A x \in Sessions :
    s[x].pc \in {"other", "checks", "owning", "running"} =>
        \A o \in 1..Len(op) : o # Own(x) => op[o].owned \cap alive = {}

\* What calibrations conclude and what they leave are never touched by the
\* processes of another, nor by their own once they are taken.
CalibrationSound == QuietResult /\ NoneBeside
=============================================================================
