----------------------- MODULE RunExecutionProofs -----------------------
(***************************************************************************)
(* What every execution of RunExecution keeps, whatever the runs, trials,  *)
(* attempts, executors and kinds of process, and however many faults.      *)
(*                                                                         *)
(* The promises of the runner are not inductive: that no two subjects run  *)
(* at once rests on the reports that the journals hold of all other        *)
(* attempts, those on what the executors found while they reconciled, and  *)
(* that on who holds which lock.  IInv says what each executor knows at    *)
(* each of its steps, and that the journals never say more than is true.   *)
(* RInv, which takes IInv for granted, counts the attempts of a trial.     *)
(***************************************************************************)
EXTENDS RunExecution, FiniteSetTheorems, TLAPS

-----------------------------------------------------------------------------
(* Types. *)

\* What an executor that has an attempt in hand may be doing.
Setting == {"prepare", "setup", "claim", "setting", "setup_own", "plan"}
Launching == {"launch", "spawned", "observed", "started"}
Conducting == Setting \cup Launching \cup {"interact", "stop", "close", "own"}
Working == Conducting \cup {"evidence", "capture"}
Holding == Working \cup {"publish", "record", "restage"}

\* It knows which attempt, and of which run.
PlacedAt(m) == (m.pc \in Holding => m.cur \in Ids) /\ (m.pc # "idle" => m.run \in Runs)
Placed == \A e \in Procs : PlacedAt(x[e])

USE DEF At, Cur, Goto, journal, world, locks

\* The names that stand for nothing are nobody's, and a terminal may run.
LEMMA Names ==
  /\ NoId \notin Ids /\ NoProc \notin Procs /\ NoRun \notin Runs
  /\ "daemon" \in Kinds /\ MaxRetries \in Nat /\ MaxFaults \in Nat
  BY NamesAssumption, KindsAssumption, BoundsAssumption

\* The constants of the model have their types.
LEMMA ConstantTypes ==
  /\ Rest \in Memory /\ NoAttempt \in Attempt
  /\ CleanReport \in Report /\ NoReport \in Report
  BY DEF Rest, Memory, PcNames, CleanReport, NoReport, Report, NoAttempt, Attempt, Stages, Active

\* An executor's memory has the types of its fields.
LEMMA MemoryFields ==
  ASSUME NEW m \in Memory
  PROVE  /\ m.pc \in PcNames /\ m.run \in Runs \cup {NoRun} /\ m.visit \in Runs \cup {NoRun}
         /\ m.others \subseteq Runs /\ m.todo \subseteq Ids /\ m.cur \in Ids \cup {NoId}
         /\ m.seen \subseteq Kinds /\ m.clean \in Report /\ m.bad \in BOOLEAN
         /\ m.retry \subseteq Trials /\ m.plan \subseteq Trials /\ m.recovering \in BOOLEAN
  BY DEF Memory

\* One executor changes what it holds; the others hold what they held.
LEMMA BecomeType ==
  ASSUME TypeOK, Placed, NEW e \in Procs, NEW new \in Memory, Become(e, new),
         PlacedAt(new)
  PROVE  x' \in [Procs -> Memory] /\ Placed'
<1>1. x \in [Procs -> Memory] /\ x' = [x EXCEPT ![e] = new]
  BY DEF TypeOK, Become
<1>2. x'[e] = new /\ \A f \in Procs \ {e} : x'[f] = x[f]
  BY <1>1
<1> QED BY <1>1, <1>2 DEF Placed

\* A save keeps the journal's type, whether it is refused or not.
LEMMA SaveType ==
  ASSUME TypeOK, NEW i \in Ids, NEW new \in Attempt, Save(i, new)
  PROVE  att' \in [Ids -> Attempt] /\ refused' \in BOOLEAN
  BY DEF TypeOK, Save

\* So do the publication of identities and a report.
LEMMA OwnType ==
  ASSUME TypeOK, NEW i \in Ids, NEW kinds \in SUBSET Kinds, Own(i, kinds)
  PROVE  /\ att' \in [Ids -> Attempt] /\ unrec' \subseteq Ids
         /\ report' = report /\ refused' = refused
<1>1. att \in [Ids -> Attempt] /\ unrec \subseteq Ids
  BY DEF TypeOK
<1> QED BY <1>1 DEF Own, Attempt

\* A report is a report.
LEMMA EvidenceType ==
  ASSUME TypeOK, NEW i \in Ids, NEW r \in Report, Evidence(i, r)
  PROVE  /\ report' \in [Ids -> Report] /\ unrec' \subseteq Ids
         /\ att' = att /\ refused' = refused
  BY DEF TypeOK, Evidence

\* An executor that unwinds is at rest.
LEMMA LeaveType ==
  ASSUME TypeOK, Placed, NEW e \in Procs, Leave(e)
  PROVE  /\ x' \in [Procs -> Memory] /\ Placed' /\ native' \in Procs \cup {NoProc}
         /\ runLock' \in [Runs -> Procs \cup {NoProc}]
<1>1. x' \in [Procs -> Memory] /\ Placed'
  BY ConstantTypes, BecomeType DEF Leave, Rest, PlacedAt, Holding, Working, Conducting, Setting, Launching
<1> QED BY <1>1 DEF TypeOK, Leave

\* What a stop finds are processes of the attempt.
LEMMA FoundType ==
  ASSUME TypeOK, NEW i \in Ids, NEW known
  PROVE  Forked(i, known) \subseteq Kinds /\ Found(i, known) \subseteq alive[i]
         /\ alive[i] \subseteq Kinds
  BY DEF TypeOK, Forked, Found

\* Reports are combined into reports, and resolved or not.
LEMMA ReportType ==
  ASSUME NEW a \in Report
  PROVE  /\ cleanup_resolved(a) \in BOOLEAN
         /\ \A b \in BOOLEAN : [a EXCEPT !.errors = b] \in Report
         /\ \A b \in BOOLEAN : [a EXCEPT !.stopped = b] \in Report
         /\ \A b, c, d \in BOOLEAN :
               Combine(a, [known |-> TRUE, closed |-> b, errors |-> c, stopped |-> d]) \in Report
  BY DEF Report, cleanup_resolved, Combine

\* Every step keeps the types.
LEMMA NextTypeOK == TypeOK /\ Placed /\ [Next]_vars => TypeOK' /\ Placed'
<1> SUFFICES ASSUME TypeOK, Placed, [Next]_vars PROVE TypeOK' /\ Placed'
  OBVIOUS
<1> DEFINE Typed == TypeOK' /\ Placed'
<1>a. \A e \in Procs : x[e] \in Memory /\ PlacedAt(x[e])
  BY DEF TypeOK, Placed
<1> USE DEF PlacedAt, Holding, Working, Conducting, Setting, Launching
<1>1. ASSUME NEW e \in Procs, NEW r \in Runs, NEW ts \in SUBSET Trials, Start(e, r, ts) PROVE Typed
  <2>1. x[e] \in Memory /\ PlacedAt(x[e])
    BY <1>a
  <2>2. [Rest EXCEPT !.pc = "locked", !.run = r, !.retry = ts] \in Memory
    BY ConstantTypes DEF Memory, PcNames
  <2>3. x' \in [Procs -> Memory] /\ Placed'
    BY <1>1, <2>2, BecomeType DEF Start, Rest
  <2> QED BY <1>1, <2>3, Names DEF Start, TypeOK
<1>2. ASSUME NEW e \in Procs, TakeNative(e) PROVE Typed
  <2>1. x[e] \in Memory /\ PlacedAt(x[e])
    BY <1>a
  <2>2. x' \in [Procs -> Memory] /\ Placed'
    BY <1>2, <2>1, BecomeType, LeaveType DEF TakeNative, Memory, PcNames, Used
  <2>4. native' \in Procs \cup {NoProc} /\ runLock' \in [Runs -> Procs \cup {NoProc}]
    BY <1>2, LeaveType DEF TakeNative, TypeOK
  <2> QED BY <1>2, <2>2, <2>4, Names DEF TakeNative, TypeOK
<1>3. ASSUME NEW e \in Procs, ReconcilePublish(e) PROVE Typed
  <2>1. x[e] \in Memory /\ PlacedAt(x[e])
    BY <1>a
  <2>2. x' \in [Procs -> Memory] /\ Placed'
    BY <1>3, <2>1, BecomeType DEF ReconcilePublish, Memory, PcNames
  <2>3. att' \in [Ids -> Attempt] /\ unrec' \subseteq Ids /\ report' = report /\ refused' = refused
    BY <1>3, <2>1, MemoryFields, OwnType DEF ReconcilePublish
  <2> QED BY <1>3, <2>2, <2>3, Names DEF ReconcilePublish, TypeOK
<1>4. ASSUME NEW e \in Procs, ReconcileRecord(e) PROVE Typed
  <2>1. x[e] \in Memory /\ PlacedAt(x[e])
    BY <1>a
  <2>2. x' \in [Procs -> Memory] /\ Placed'
    BY <1>4, <2>1, BecomeType DEF ReconcileRecord, Memory, PcNames, Report
  <2>3. report' \in [Ids -> Report] /\ unrec' \subseteq Ids /\ att' = att /\ refused' = refused
    BY <1>4, <2>1, MemoryFields, EvidenceType DEF ReconcileRecord
  <2> QED BY <1>4, <2>2, <2>3, Names DEF ReconcileRecord, TypeOK
<1>5. ASSUME NEW e \in Procs, Restage(e) PROVE Typed
  <2>1. x[e] \in Memory /\ PlacedAt(x[e])
    BY <1>a
  <2>2. x' \in [Procs -> Memory] /\ Placed'
    <3> DEFINE bad == x[e].bad \/ ~ cleanup_resolved(x[e].clean)
               new == [x[e] EXCEPT !.pc = "reconcile", !.cur = NoId, !.todo = @ \ {x[e].cur},
                                   !.seen = {}, !.bad = bad, !.clean = CleanReport]
    <3>0. x[e].run \in Runs
      BY <1>5, <2>1 DEF Restage
    <3>1. bad \in BOOLEAN /\ Become(e, new)
      BY <1>5 DEF Restage
    <3> HIDE DEF bad
    <3>2. new \in Memory
      BY <2>1, <3>1, ConstantTypes DEF Memory, PcNames
    <3> QED BY <2>1, <3>0, <3>1, <3>2, BecomeType DEF Memory
  <2>3. att' \in [Ids -> Attempt] /\ refused' \in BOOLEAN
    BY <1>5, <2>1, ConstantTypes, MemoryFields, SaveType DEF Restage, Attempt, Stages, Active, TypeOK
  <2> QED BY <1>5, <2>2, <2>3, Names DEF Restage, TypeOK
<1>6. ASSUME NEW e \in Procs, ReconcileNext(e) PROVE Typed
  <2>1. x[e] \in Memory /\ PlacedAt(x[e])
    BY <1>a
  <2>2. x' \in [Procs -> Memory] /\ Placed'
    BY <1>6, <2>1, BecomeType, LeaveType DEF ReconcileNext, Memory, PcNames, Used
  <2>4. native' \in Procs \cup {NoProc} /\ runLock' \in [Runs -> Procs \cup {NoProc}]
    BY <1>6, LeaveType DEF ReconcileNext, TypeOK
  <2> QED BY <1>6, <2>2, <2>4, Names DEF ReconcileNext, TypeOK
<1>7. ASSUME NEW e \in Procs, ReconcileDone(e) PROVE Typed
  <2>1. x[e] \in Memory /\ PlacedAt(x[e])
    BY <1>a
  <2>2. x' \in [Procs -> Memory] /\ Placed'
    BY <1>7, <2>1, BecomeType, LeaveType DEF ReconcileDone, Memory, PcNames, Used
  <2>4. native' \in Procs \cup {NoProc} /\ runLock' \in [Runs -> Procs \cup {NoProc}]
    BY <1>7, LeaveType DEF ReconcileDone, TypeOK
  <2> QED BY <1>7, <2>2, <2>4, Names DEF ReconcileDone, TypeOK
<1>8. ASSUME NEW e \in Procs, MarkInvalid(e) PROVE Typed
  <2>1. x[e] \in Memory /\ PlacedAt(x[e])
    BY <1>a
  <2>2. x' \in [Procs -> Memory] /\ Placed'
    BY <1>8, <2>1, BecomeType, LeaveType DEF MarkInvalid, Memory, PcNames
  <2>3. att' \in [Ids -> Attempt] /\ refused' \in BOOLEAN
    BY <1>8, <2>1, ConstantTypes, MemoryFields, SaveType DEF MarkInvalid, Attempt, Stages, Active, TypeOK
  <2>4. native' \in Procs \cup {NoProc} /\ runLock' \in [Runs -> Procs \cup {NoProc}]
    BY <1>8, LeaveType DEF MarkInvalid, TypeOK
  <2> QED BY <1>8, <2>2, <2>3, <2>4, Names DEF MarkInvalid, TypeOK
<1>9. ASSUME NEW e \in Procs, NEW i \in Ids, ReconcileTrusted(e, i) PROVE Typed
  <2>1. x[e] \in Memory /\ PlacedAt(x[e])
    BY <1>a
  <2>2. x' \in [Procs -> Memory] /\ Placed'
    <3>1. report[i] \in Report /\ [report[i] EXCEPT !.errors = TRUE] \in Report
      BY ReportType DEF TypeOK
    <3> QED BY <1>9, <2>1, <3>1, BecomeType DEF ReconcileTrusted, Memory, PcNames
  <2> QED BY <1>9, <2>2, Names DEF ReconcileTrusted, Fault, TypeOK
<1>10. ASSUME NEW e \in Procs, NEW i \in Ids, ReconcileKill(e, i) PROVE Typed
  <2>1. x[e] \in Memory /\ PlacedAt(x[e])
    BY <1>a
  <2>2. x' \in [Procs -> Memory] /\ Placed'
    <3>1. Found(i, Recorded(i)) \subseteq Kinds
      BY FoundType
    <3>0. x[e].run \in Runs
      BY <1>10, <2>1 DEF ReconcileKill
    <3>2. PICK done \in BOOLEAN, ok \in BOOLEAN :
             Become(e, [x[e] EXCEPT !.pc = "publish", !.cur = i, !.seen = Found(i, Recorded(i)),
                                    !.clean = [known |-> TRUE, closed |-> done,
                                               stopped |-> done, errors |-> ok]])
      BY <1>10 DEF ReconcileKill
    <3>3. [known |-> TRUE, closed |-> done, stopped |-> done, errors |-> ok] \in Report
      BY DEF Report
    <3> QED BY <2>1, <3>0, <3>1, <3>2, <3>3, BecomeType DEF Memory, PcNames
  <2> QED BY <1>10, <2>2, Names DEF ReconcileKill, Fault, TypeOK
<1>11. ASSUME NEW e \in Procs, Gate(e) PROVE Typed
  <2>1. x[e] \in Memory /\ PlacedAt(x[e])
    BY <1>a
  <2>2. x' \in [Procs -> Memory] /\ Placed'
    BY <1>11, <2>1, BecomeType, LeaveType DEF Gate, Memory, PcNames
  <2>4. native' \in Procs \cup {NoProc} /\ runLock' \in [Runs -> Procs \cup {NoProc}]
    BY <1>11, LeaveType DEF Gate, TypeOK
  <2> QED BY <1>11, <2>2, <2>4, Names DEF Gate, TypeOK
<1>12. ASSUME NEW e \in Procs, Recovered(e) PROVE Typed
  <2>1. x[e] \in Memory /\ PlacedAt(x[e])
    BY <1>a
  <2>2. x' \in [Procs -> Memory] /\ Placed'
    BY <1>12, <2>1, BecomeType, LeaveType DEF Recovered, Memory, PcNames
  <2>4. native' \in Procs \cup {NoProc} /\ runLock' \in [Runs -> Procs \cup {NoProc}]
    BY <1>12, LeaveType DEF Recovered, TypeOK
  <2> QED BY <1>12, <2>2, <2>4, Names DEF Recovered, TypeOK
<1>13. ASSUME NEW e \in Procs, Finish(e) PROVE Typed
  <2>1. x[e] \in Memory /\ PlacedAt(x[e])
    BY <1>a
  <2>2. x' \in [Procs -> Memory] /\ Placed'
    BY <1>13, <2>1, LeaveType DEF Finish, Memory, PcNames
  <2>4. native' \in Procs \cup {NoProc} /\ runLock' \in [Runs -> Procs \cup {NoProc}]
    BY <1>13, LeaveType DEF Finish, TypeOK
  <2> QED BY <1>13, <2>2, <2>4, Names DEF Finish, Fault, TypeOK
<1>14. ASSUME NEW e \in Procs, NEW i \in Ids, Recover(e, i) PROVE Typed
  <2>1. x[e] \in Memory /\ PlacedAt(x[e])
    BY <1>a
  <2>2. x' \in [Procs -> Memory] /\ Placed'
    <3>1. \A b \in BOOLEAN : [report[i] EXCEPT !.errors = @ \/ b] \in Report
      BY DEF TypeOK, Report
    <3> QED BY <1>14, <2>1, <3>1, BecomeType DEF Recover, Memory, PcNames
  <2>3. att' \in [Ids -> Attempt] /\ refused' \in BOOLEAN
    BY <1>14, <2>1, ConstantTypes, MemoryFields, SaveType DEF Recover, Attempt, Stages, Active, TypeOK
  <2> QED BY <1>14, <2>2, <2>3, Names DEF Recover, Fault, TypeOK
<1>15. ASSUME NEW e \in Procs, NEW t \in Trials, Reserve(e, t) PROVE Typed
  <2>1. x[e] \in Memory /\ PlacedAt(x[e])
    BY <1>a
  <2>2. x' \in [Procs -> Memory] /\ Placed'
    <3>0. x[e].run \in Runs
      BY <1>15, <2>1 DEF Reserve
    <3>1. PICK i \in Ids : Become(e, [x[e] EXCEPT !.pc = "prepare", !.cur = i, !.plan = @ \ {t},
               !.seen = {}, !.clean = CleanReport, !.recovering = FALSE])
      BY <1>15 DEF Reserve
    <3>2. [x[e] EXCEPT !.pc = "prepare", !.cur = i, !.plan = @ \ {t}, !.seen = {},
               !.clean = CleanReport, !.recovering = FALSE] \in Memory
      BY <2>1, ConstantTypes DEF Memory, PcNames
    <3> QED BY <2>1, <3>0, <3>1, <3>2, BecomeType DEF Memory
  <2>3. att' \in [Ids -> Attempt] /\ refused' \in BOOLEAN
    BY <1>15, <2>1, ConstantTypes, MemoryFields, SaveType DEF Reserve, Attempt, Stages, Active, TypeOK
  <2> QED BY <1>15, <2>2, <2>3, Names DEF Reserve, TypeOK
<1>16. ASSUME NEW e \in Procs, Prepare(e) PROVE Typed
  <2>1. x[e] \in Memory /\ PlacedAt(x[e])
    BY <1>a
  <2>2. x' \in [Procs -> Memory] /\ Placed'
    BY <1>16, <2>1, BecomeType DEF Prepare, Memory, PcNames
  <2>3. att' \in [Ids -> Attempt] /\ refused' \in BOOLEAN
    BY <1>16, <2>1, ConstantTypes, MemoryFields, SaveType DEF Prepare, Attempt, Stages, Active, TypeOK
  <2> QED BY <1>16, <2>2, <2>3, Names DEF Prepare, TypeOK
<1>17. ASSUME NEW e \in Procs, SpawnSetup(e) PROVE Typed
  <2>1. x[e] \in Memory /\ PlacedAt(x[e])
    BY <1>a
  <2>2. x' \in [Procs -> Memory] /\ Placed'
    BY <1>17, <2>1, BecomeType DEF SpawnSetup, Memory, PcNames
  <2> QED BY <1>17, <2>2, Names DEF SpawnSetup, TypeOK
<1>18. ASSUME NEW e \in Procs, NoSetup(e) PROVE Typed
  <2>1. x[e] \in Memory /\ PlacedAt(x[e])
    BY <1>a
  <2>2. x' \in [Procs -> Memory] /\ Placed'
    BY <1>18, <2>1, BecomeType DEF NoSetup, Memory, PcNames
  <2> QED BY <1>18, <2>2, Names DEF NoSetup, TypeOK
<1>19. ASSUME NEW e \in Procs, ClaimSetup(e) PROVE Typed
  <2>1. x[e] \in Memory /\ PlacedAt(x[e])
    BY <1>a
  <2>2. x' \in [Procs -> Memory] /\ Placed'
    BY <1>19, <2>1, BecomeType DEF ClaimSetup, Memory, PcNames
  <2>3. att' \in [Ids -> Attempt] /\ unrec' \subseteq Ids /\ report' = report /\ refused' = refused
    BY <1>19, <2>1, MemoryFields, OwnType DEF ClaimSetup
  <2> QED BY <1>19, <2>2, <2>3, Names DEF ClaimSetup, TypeOK
<1>20. ASSUME NEW e \in Procs, EndSetup(e) PROVE Typed
  <2>1. x[e] \in Memory /\ PlacedAt(x[e])
    BY <1>a
  <2>2. x' \in [Procs -> Memory] /\ Placed'
    <3>1. x[e].cur \in Ids /\ x[e].seen \subseteq Kinds
      BY <1>20, <2>1, MemoryFields DEF EndSetup
    <3>2. Found(x[e].cur, x[e].seen) \subseteq Kinds
      BY <3>1, FoundType
    <3>3. \A b \in BOOLEAN : [CleanReport EXCEPT !.stopped = b] \in Report
      BY DEF CleanReport, Report
    <3> QED BY <1>20, <2>1, <3>1, <3>2, <3>3, BecomeType DEF EndSetup, Memory, PcNames
  <2>3. alive' \in [Ids -> SUBSET Kinds]
    BY <1>20 DEF EndSetup, TypeOK
  <2>4. faults' \in Nat
    BY <1>20 DEF EndSetup, Fault, TypeOK
  <2> QED BY <1>20, <2>2, <2>3, <2>4 DEF EndSetup, TypeOK
<1>21. ASSUME NEW e \in Procs, OwnSetup(e) PROVE Typed
  <2>1. x[e] \in Memory /\ PlacedAt(x[e])
    BY <1>a
  <2>2. x' \in [Procs -> Memory] /\ Placed'
    BY <1>21, <2>1, BecomeType DEF OwnSetup, Memory, PcNames, Report
  <2>3. att' \in [Ids -> Attempt] /\ unrec' \subseteq Ids /\ report' = report /\ refused' = refused
    BY <1>21, <2>1, MemoryFields, OwnType DEF OwnSetup
  <2> QED BY <1>21, <2>2, <2>3, Names DEF OwnSetup, TypeOK
<1>22. ASSUME NEW e \in Procs, LaunchIntent(e) PROVE Typed
  <2>1. x[e] \in Memory /\ PlacedAt(x[e])
    BY <1>a
  <2>2. x' \in [Procs -> Memory] /\ Placed'
    BY <1>22, <2>1, BecomeType DEF LaunchIntent, Memory, PcNames
  <2>3. att' \in [Ids -> Attempt] /\ refused' \in BOOLEAN
    BY <1>22, <2>1, ConstantTypes, MemoryFields, SaveType DEF LaunchIntent, Attempt, Stages, Active, TypeOK
  <2> QED BY <1>22, <2>2, <2>3, Names DEF LaunchIntent, TypeOK
<1>23. ASSUME NEW e \in Procs, SpawnDaemon(e) PROVE Typed
  <2>1. x[e] \in Memory /\ PlacedAt(x[e])
    BY <1>a
  <2>2. x' \in [Procs -> Memory] /\ Placed'
    BY <1>23, <2>1, BecomeType DEF SpawnDaemon, Memory, PcNames
  <2> QED BY <1>23, <2>2, Names DEF SpawnDaemon, TypeOK
<1>24. ASSUME NEW e \in Procs, ObserveLaunch(e) PROVE Typed
  <2>1. x[e] \in Memory /\ PlacedAt(x[e])
    BY <1>a
  <2>2. x' \in [Procs -> Memory] /\ Placed'
    <3>1. {"daemon"} \cup Forked(x[e].cur, {"daemon"}) \in SUBSET Kinds
      BY <1>24, <2>1, FoundType, Names DEF ObserveLaunch
    <3> QED BY <1>24, <2>1, <3>1, BecomeType DEF ObserveLaunch, Memory, PcNames
  <2>3. att' \in [Ids -> Attempt] /\ refused' \in BOOLEAN
    BY <1>24, <2>1, ConstantTypes, MemoryFields, SaveType DEF ObserveLaunch, Attempt, Stages, Active, TypeOK
  <2> QED BY <1>24, <2>2, <2>3, Names DEF ObserveLaunch, TypeOK
<1>25. ASSUME NEW e \in Procs, PublishLaunch(e) PROVE Typed
  <2>1. x[e] \in Memory /\ PlacedAt(x[e])
    BY <1>a
  <2>2. x' \in [Procs -> Memory] /\ Placed'
    BY <1>25, <2>1, BecomeType DEF PublishLaunch, Memory, PcNames
  <2>3. att' \in [Ids -> Attempt] /\ unrec' \subseteq Ids /\ report' = report /\ refused' = refused
    BY <1>25, <2>1, MemoryFields, OwnType DEF PublishLaunch
  <2> QED BY <1>25, <2>2, <2>3, Names DEF PublishLaunch, TypeOK
<1>26. ASSUME NEW e \in Procs, BeginInteraction(e) PROVE Typed
  <2>1. x[e] \in Memory /\ PlacedAt(x[e])
    BY <1>a
  <2>2. x' \in [Procs -> Memory] /\ Placed'
    BY <1>26, <2>1, BecomeType DEF BeginInteraction, Memory, PcNames
  <2>3. att' \in [Ids -> Attempt] /\ refused' \in BOOLEAN
    BY <1>26, <2>1, ConstantTypes, MemoryFields, SaveType DEF BeginInteraction, Attempt, Stages, Active, TypeOK
  <2> QED BY <1>26, <2>2, <2>3, Names DEF BeginInteraction, TypeOK
<1>27. ASSUME NEW e \in Procs, Notice(e) PROVE Typed
  <2>1. x[e] \in Memory /\ PlacedAt(x[e])
    BY <1>a
  <2>2. x' \in [Procs -> Memory] /\ Placed'
    <3>1. x[e].cur \in Ids /\ Forked(x[e].cur, x[e].seen) \subseteq Kinds
      BY <1>27, <2>1, FoundType DEF Notice, Watching
    <3> QED BY <1>27, <2>1, <3>1, BecomeType DEF Notice, Memory
  <2> QED BY <1>27, <2>2, Names DEF Notice, TypeOK
<1>28. ASSUME NEW e \in Procs, Poll(e) PROVE Typed
  <2>1. x[e] \in Memory /\ PlacedAt(x[e])
    BY <1>a
  <2>2. x' \in [Procs -> Memory] /\ Placed'
    BY <1>28 DEF Poll, TypeOK, Placed
  <2>3. att' \in [Ids -> Attempt] /\ unrec' \subseteq Ids /\ report' = report /\ refused' = refused
    BY <1>28, <2>1, MemoryFields, OwnType DEF Poll
  <2> QED BY <1>28, <2>2, <2>3, Names DEF Poll, TypeOK
<1>29. ASSUME NEW e \in Procs, EndInteraction(e) PROVE Typed
  <2>1. x[e] \in Memory /\ PlacedAt(x[e])
    BY <1>a
  <2>2. x' \in [Procs -> Memory] /\ Placed'
    BY <1>29, <2>1, BecomeType DEF EndInteraction, Memory, PcNames
  <2> QED BY <1>29, <2>2, Names DEF EndInteraction, TypeOK
<1>30. ASSUME NEW e \in Procs, Raise(e) PROVE Typed
  <2>1. x[e] \in Memory /\ PlacedAt(x[e])
    BY <1>a
  <2>2. x' \in [Procs -> Memory] /\ Placed'
    BY <1>30, <2>1, BecomeType DEF Raise, Memory, PcNames
  <2> QED BY <1>30, <2>2, Names DEF Raise, Fault, TypeOK
<1>31. ASSUME NEW e \in Procs, BeginStop(e) PROVE Typed
  <2>1. x[e] \in Memory /\ PlacedAt(x[e])
    BY <1>a
  <2>2. x' \in [Procs -> Memory] /\ Placed'
    BY <1>31, <2>1, BecomeType DEF BeginStop, Memory, PcNames
  <2>3. att' \in [Ids -> Attempt] /\ refused' \in BOOLEAN
    BY <1>31, <2>1, ConstantTypes, MemoryFields, SaveType DEF BeginStop, Attempt, Stages, Active, TypeOK
  <2> QED BY <1>31, <2>2, <2>3, Names DEF BeginStop, TypeOK
<1>32. ASSUME NEW e \in Procs, Close(e) PROVE Typed
  <2>1. x[e] \in Memory /\ PlacedAt(x[e])
    BY <1>a
  <2>2. x' \in [Procs -> Memory] /\ Placed'
    <3>1. x[e].cur \in Ids /\ x[e].seen \subseteq Kinds /\ x[e].clean \in Report
      BY <1>32, <2>1, MemoryFields DEF Close
    <3>2. Found(x[e].cur, x[e].seen) \subseteq Kinds
      BY <3>1, FoundType
    <3> QED BY <1>32, <2>1, <3>1, <3>2, BecomeType, ReportType DEF Close, Memory, PcNames
  <2>3. alive' \in [Ids -> SUBSET Kinds]
    BY <1>32 DEF Close, TypeOK
  <2>4. faults' \in Nat
    BY <1>32 DEF Close, Fault, TypeOK
  <2> QED BY <1>32, <2>2, <2>3, <2>4 DEF Close, TypeOK
<1>33. ASSUME NEW e \in Procs, OwnCleanup(e) PROVE Typed
  <2>1. x[e] \in Memory /\ PlacedAt(x[e])
    BY <1>a
  <2>2. x' \in [Procs -> Memory] /\ Placed'
    BY <1>33, <2>1, BecomeType DEF OwnCleanup, Memory, PcNames
  <2>3. att' \in [Ids -> Attempt] /\ unrec' \subseteq Ids /\ report' = report /\ refused' = refused
    BY <1>33, <2>1, MemoryFields, OwnType DEF OwnCleanup
  <2> QED BY <1>33, <2>2, <2>3, Names DEF OwnCleanup, TypeOK
<1>34. ASSUME NEW e \in Procs, RecordCleanup(e) PROVE Typed
  <2>1. x[e] \in Memory /\ PlacedAt(x[e])
    BY <1>a
  <2>2. x' \in [Procs -> Memory] /\ Placed'
    BY <1>34, <2>1, BecomeType DEF RecordCleanup, Memory, PcNames, Report
  <2>3. report' \in [Ids -> Report] /\ unrec' \subseteq Ids /\ att' = att /\ refused' = refused
    BY <1>34, <2>1, MemoryFields, EvidenceType DEF RecordCleanup
  <2> QED BY <1>34, <2>2, <2>3, Names DEF RecordCleanup, TypeOK
<1>35. ASSUME NEW e \in Procs, Capture(e) PROVE Typed
  <2>1. x[e] \in Memory /\ PlacedAt(x[e])
    BY <1>a
  <2>2. x' \in [Procs -> Memory] /\ Placed'
    <3>0. x[e].run \in Runs
      BY <1>35, <2>1 DEF Capture
    <3>1. PICK pc \in {"recover", "trials"} :
             \/ Become(e, [x[e] EXCEPT !.pc = pc, !.cur = NoId, !.seen = {},
                                       !.clean = CleanReport, !.recovering = FALSE])
             \/ Leave(e)
      BY <1>35 DEF Capture
    <3>2. [x[e] EXCEPT !.pc = pc, !.cur = NoId, !.seen = {}, !.clean = CleanReport,
                       !.recovering = FALSE] \in Memory
      BY <2>1, ConstantTypes DEF Memory, PcNames
    <3>3. CASE Leave(e)
      BY <3>3, LeaveType
    <3>4. CASE ~ Leave(e)
      BY <2>1, <3>0, <3>1, <3>2, <3>4, BecomeType DEF Memory
    <3> QED BY <3>3, <3>4
  <2>3. att' \in [Ids -> Attempt] /\ refused' \in BOOLEAN
    BY <1>35, <2>1, ConstantTypes, MemoryFields, SaveType DEF Capture, Attempt, Stages, Active, TypeOK
  <2>4. native' \in Procs \cup {NoProc} /\ runLock' \in [Runs -> Procs \cup {NoProc}]
    BY <1>35, LeaveType DEF Capture, TypeOK
  <2>5. faults' \in Nat
    <3>1. UNCHANGED faults \/ Fault
      BY <1>35 DEF Capture
    <3> QED BY <3>1 DEF Fault, TypeOK
  <2>6. UNCHANGED <<report, unrec, alive, valid, asked>>
    BY <1>35 DEF Capture
  <2> QED BY <2>2, <2>3, <2>4, <2>5, <2>6 DEF TypeOK
<1>36. ASSUME NEW e \in Procs, Crash(e) PROVE Typed
  <2>1. x[e] \in Memory /\ PlacedAt(x[e])
    BY <1>a
  <2>2. x' \in [Procs -> Memory] /\ Placed'
    BY <1>36, <2>1, LeaveType DEF Crash, Memory, PcNames
  <2>4. native' \in Procs \cup {NoProc} /\ runLock' \in [Runs -> Procs \cup {NoProc}]
    BY <1>36, LeaveType DEF Crash, TypeOK
  <2> QED BY <1>36, <2>2, <2>4, Names DEF Crash, Fault, TypeOK
<1>37. ASSUME NEW i \in Ids, NEW k \in Kinds, Fork(i, k) PROVE Typed
  <2> QED BY <1>37, <1>a, Names DEF Fork, Placed, TypeOK
<1>38. ASSUME NEW i \in Ids, NEW k \in Kinds, Exit(i, k) PROVE Typed
  <2> QED BY <1>38, <1>a, Names DEF Exit, Placed, TypeOK
<1>39. ASSUME NEW r \in Runs, Tamper(r) PROVE Typed
  <2> QED BY <1>39, <1>a, Names DEF Tamper, Fault, Placed, TypeOK
<1>40. CASE UNCHANGED vars
  BY <1>40 DEF vars, TypeOK, Placed
<1> QED
  BY <1>1, <1>2, <1>3, <1>4, <1>5, <1>6, <1>7, <1>8, <1>9, <1>10, <1>11, <1>12, <1>13, <1>14, <1>15, <1>16, <1>17, <1>18, <1>19, <1>20, <1>21, <1>22, <1>23, <1>24, <1>25, <1>26, <1>27, <1>28, <1>29, <1>30, <1>31, <1>32, <1>33, <1>34, <1>35, <1>36, <1>37, <1>38, <1>39, <1>40
  DEF Next, Resume, Reconcile, Execute

\* The initial state has its types.
LEMMA InitTypeOK == Init => TypeOK /\ Placed
<1> SUFFICES ASSUME Init PROVE TypeOK /\ Placed
  OBVIOUS
<1>1. x \in [Procs -> Memory] /\ att \in [Ids -> Attempt] /\ report \in [Ids -> Report]
  BY ConstantTypes DEF Init
<1>2. Placed
  BY DEF Init, Placed, PlacedAt, Rest, Holding, Working, Conducting, Setting, Launching
<1> QED BY <1>1, <1>2 DEF Init, TypeOK

\* Every variable of the execution stays in its type.
THEOREM TypeCorrect == Spec => []TypeOK
<1>1. Init => TypeOK /\ Placed
  BY InitTypeOK
<1>2. TypeOK /\ Placed /\ [Next]_vars => (TypeOK /\ Placed)'
  BY NextTypeOK
<1> QED BY <1>1, <1>2, PTL DEF Spec

-----------------------------------------------------------------------------
(* The inductive invariant. *)

\* The journal says that nothing of attempt i is left.
Settled(i) == i \notin unrec /\ report[i].known /\ Quiescent(report[i])

\* Nothing of attempt i is left: no terminal, and nothing that the journal names.
Gone(i) == alive[i] \cap (Recorded(i) \cup {"daemon"}) = {}

\* Only the holder of the native lock is past taking it.
Exclusive == \A e \in Procs : x[e].pc \notin {"idle", "locked"} => native = e

\* What there is of an attempt before it is reserved, and until it is captured.
Fresh == \A i \in Ids :
    /\ att[i].stage = "none" => att[i] = NoAttempt /\ report[i] = NoReport /\ alive[i] = {}
    /\ att[i].stage # "none" => att[i].run \in Runs
    /\ att[i].stage # "captured" => att[i].capture = "none"

\* The journal's reports are true.
Truthful == \A i \in Ids :
    /\ Settled(i) => Gone(i)
    /\ report[i].known /\ report[i].closed => "daemon" \notin alive[i]
    /\ "daemon" \in alive[i] => att[i].tried

OthersSettled(i) == \A j \in Ids : j # i /\ att[j].stage # "none" => Settled(j)
AllSettled == \A j \in Ids : att[j].stage # "none" => Settled(j)

\* While it reconciles, an executor has left behind it what is settled, or it has noted that it is not.
Reconciling(m) ==
    /\ m.pc \in {"reconcile", "publish", "record", "restage"} /\ ~ m.bad =>
         \A j \in Ids : /\ att[j].stage # "none" /\ att[j].run \notin m.others
                        /\ att[j].run = m.visit => j \notin m.todo
                        => Settled(j)
    /\ m.pc \in {"reconcile", "publish", "record", "restage"} =>
         \A j \in m.todo \cap Ids : att[j].stage # "none" /\ att[j].run = m.visit
    /\ m.pc \in {"publish", "record", "restage"} => m.cur \in m.todo
    /\ m.pc = "publish" =>
         /\ (\E i \in Ids : i # m.cur /\ "daemon" \in alive[i]) => m.seen = {}
         /\ m.clean.closed =>
              /\ Gone(m.cur) /\ alive[m.cur] \cap m.seen = {}
              /\ \A k \in m.seen \cap DOMAIN Parent :
                   k \in att[m.cur].owned \/ Parent[k] \notin alive[m.cur]
    /\ m.pc = "record" => (m.clean.closed => Gone(m.cur))
    /\ m.pc = "restage" => report[m.cur] = m.clean /\ m.cur \notin unrec
    /\ m.pc \in {"gate", "recover", "trials"} => AllSettled

\* The stage that the journal has of an attempt at work.
StageAt(pc) ==
    CASE pc = "prepare" -> {"reserved"}
      [] pc \in Setting \ {"prepare"} -> {"preparing"}
      [] pc \in Launching -> {"launching"}
      [] pc = "interact" -> {"interacting"}
      [] pc = "stop" -> {"preparing", "launching", "interacting"}
      [] OTHER -> {"stopping"}

\* An attempt at work has the store to itself.
AtWork(m) == m.pc \in Working =>
    /\ OthersSettled(m.cur)
    /\ att[m.cur].stage \in StageAt(m.pc)
    /\ m.pc \in Conducting => ~ m.recovering
    /\ m.pc # "capture" /\ ~ m.recovering => ~ report[m.cur].known
    /\ m.recovering => m.clean.known /\ Quiescent(m.clean)

\* Before the terminal is there, at most a setup command and what it forked are.
SettingUp(m) ==
    /\ m.pc \in Setting \cup {"launch", "spawned"} =>
         /\ ~ att[m.cur].launch /\ att[m.cur].owned \subseteq {"setup", "helper"}
         /\ (att[m.cur].tried <=> m.pc \in {"launch", "spawned"})
    /\ m.pc \in {"prepare", "setup"} => att[m.cur].owned = {} /\ alive[m.cur] = {}
    /\ m.pc = "claim" => att[m.cur].owned = {}
    /\ m.pc = "setting" => att[m.cur].owned \subseteq m.seen
    /\ m.pc \in {"prepare", "setup", "plan", "launch", "spawned"} => m.seen = {}
    /\ m.pc \in {"claim", "setting", "setup_own"} =>
         "setup" \in m.seen /\ m.seen \subseteq {"setup", "helper"}

\* What an executor is about to report of its attempt is true.
Reporting(m) ==
    /\ m.pc \in Conducting \ {"prepare", "setup", "setup_own", "own"} /\ m.clean.stopped =>
         alive[m.cur] \cap Recorded(m.cur) \subseteq m.seen
    /\ m.pc = "setup_own" /\ m.clean.stopped =>
         alive[m.cur] \cap (Recorded(m.cur) \cup m.seen) = {}
    /\ m.pc \in Launching \cup {"plan", "interact", "stop", "close"} /\ m.clean.stopped =>
         "setup" \notin alive[m.cur]
    /\ m.pc = "own" /\ Quiescent(m.clean) =>
         /\ {"setup", "daemon"} \cap alive[m.cur] = {}
         /\ alive[m.cur] \cap (Recorded(m.cur) \cup m.seen) = {}
    /\ m.pc = "evidence" /\ Quiescent(m.clean) => Gone(m.cur)
    /\ m.pc \in {"own", "evidence"} =>
         m.clean.known /\ (m.clean.closed => "daemon" \notin alive[m.cur])
    /\ m.pc = "capture" => m.clean.known /\ report[m.cur] = m.clean /\ m.cur \notin unrec

\* No trial is attempted while a capture of the run has failed.
Unfailed(m) ==
    /\ m.pc = "trials" => ~ Failed(m.run)
    /\ m.pc \in Working /\ ~ m.recovering => ~ Failed(m.run) /\ att[m.cur].run = m.run

Executor(m) == Reconciling(m) /\ AtWork(m) /\ SettingUp(m) /\ Reporting(m) /\ Unfailed(m)

Journal == Fresh /\ Truthful /\ NoOverlap /\ ~ refused

Kept == Exclusive /\ Journal /\ \A e \in Procs : Executor(x[e])

IInv == TypeOK /\ Placed /\ Kept

-----------------------------------------------------------------------------
(* What a step leaves alone. *)

USE DEF Holding, Working, Conducting, Setting, Launching

\* An executor that waits for the native lock owes nothing.
LEMMA IdleExecutor ==
  ASSUME NEW f \in Procs, x'[f].pc \in {"idle", "locked"}
  PROVE  Executor(x[f])'
  BY DEF Executor, Reconciling, AtWork, SettingUp, Reporting, Unfailed

\* While one executor works, all others wait.
LEMMA OthersWait ==
  ASSUME IInv, NEW e \in Procs, x[e].pc \notin {"idle", "locked"}
  PROVE  native = e /\ \A f \in Procs \ {e} : x[f].pc \in {"idle", "locked"}
  BY DEF IInv, Kept, Exclusive

\* The executor at work goes on.
LEMMA GoesOn ==
  ASSUME IInv, NEW e \in Procs, x[e].pc \notin {"idle", "locked"},
         NEW new, Become(e, new), native' = native, Executor(x[e])'
  PROVE  Exclusive' /\ \A f \in Procs : Executor(x[f])'
<1>1. native = e /\ \A f \in Procs \ {e} : x[f].pc \in {"idle", "locked"}
  BY OthersWait
<1>2. \A f \in Procs \ {e} : x'[f] = x[f]
  BY DEF IInv, Kept, TypeOK, Become
<1>3. \A f \in Procs \ {e} : Executor(x[f])'
  BY <1>1, <1>2, IdleExecutor
<1> QED BY <1>1, <1>2, <1>3 DEF Exclusive

\* The executor at work unwinds.
LEMMA Unwinds ==
  ASSUME IInv, NEW e \in Procs, x[e].pc \notin {"idle", "locked"}, Leave(e)
  PROVE  Exclusive' /\ \A f \in Procs : Executor(x[f])'
<1>1. native = e /\ \A f \in Procs \ {e} : x[f].pc \in {"idle", "locked"}
  BY OthersWait
<1>2. \A f \in Procs \ {e} : x'[f] = x[f]
  BY DEF IInv, Kept, TypeOK, Become, Leave
<1>3. x'[e].pc = "idle"
  BY DEF IInv, Kept, TypeOK, Become, Leave, Rest
<1>4. \A f \in Procs : x'[f].pc \in {"idle", "locked"}
  BY <1>1, <1>2, <1>3
<1> QED BY <1>4, IdleExecutor DEF Exclusive

\* What is true of the journals and the processes stays true while they stay.
LEMMA Quiet ==
  ASSUME IInv, UNCHANGED <<att, report, unrec, alive, refused>>
  PROVE  Journal'
<1> USE DEF IInv, Kept, Journal
<1>1. Fresh'
  BY DEF Fresh
<1>2. Truthful'
  BY DEF Truthful, Settled, Gone, Recorded
<1>3. NoOverlap'
  BY DEF NoOverlap, Recorded
<1> QED BY <1>1, <1>2, <1>3

\* So does what is true of an executor that does nothing.
LEMMA Stays ==
  ASSUME UNCHANGED <<att, report, unrec, alive>>, NEW f \in Procs, x'[f] = x[f], Executor(x[f])
  PROVE  Executor(x[f])'
<1>1. \A i \in Ids : Settled(i)' = Settled(i) /\ Gone(i)' = Gone(i) /\ Recorded(i)' = Recorded(i)
  BY DEF Settled, Gone, Recorded
<1> USE DEF Executor
<1>2. Reconciling(x[f])'
  BY DEF Reconciling, Settled, Gone, Recorded, AllSettled
<1>3. AtWork(x[f])'
  BY DEF AtWork, OthersSettled, Settled
<1>4. SettingUp(x[f])'
  BY DEF SettingUp
<1>5. Reporting(x[f])'
  BY DEF Reporting, Gone, Recorded
<1>6. Unfailed(x[f])'
  BY DEF Unfailed, Failed, Used
<1> QED BY <1>2, <1>3, <1>4, <1>5, <1>6

\* What the executor that acts holds next.
LEMMA Became ==
  ASSUME IInv, NEW e \in Procs, NEW new, Become(e, new)
  PROVE  x'[e] = new /\ \A f \in Procs \ {e} : x'[f] = x[f]
  BY DEF IInv, TypeOK, Become

\* Attempts that were reserved are attempts of runs.
LEMMA Reserved ==
  ASSUME IInv, NEW j \in Ids
  PROVE  att[j].stage # "none" <=> att[j].run \in Runs
  BY Names DEF IInv, Kept, Journal, Fresh, NoAttempt

-----------------------------------------------------------------------------
(* The steps that change only what an executor holds, and locks. *)

\* Start: an executor takes the lock of its run.
LEMMA StartKeeps ==
  ASSUME IInv, NEW e \in Procs, NEW r \in Runs, NEW ts \in SUBSET Trials, Start(e, r, ts)
  PROVE  Kept'
<1>1. UNCHANGED <<att, report, unrec, alive, refused, native>>
  BY DEF Start
<1>2. x'[e].pc = "locked" /\ \A f \in Procs \ {e} : x'[f] = x[f]
  <2>1. x'[e] = [Rest EXCEPT !.pc = "locked", !.run = r, !.retry = ts]
        /\ \A f \in Procs \ {e} : x'[f] = x[f]
    BY Became DEF Start
  <2> QED BY <2>1, ConstantTypes DEF Memory
<1>3. \A f \in Procs : Executor(x[f])'
  BY <1>1, <1>2, IdleExecutor, Stays DEF IInv, Kept
<1>4. Exclusive'
  BY <1>1, <1>2 DEF IInv, Kept, Exclusive
<1> QED BY <1>1, <1>3, <1>4, Quiet DEF Kept

\* TakeNative: it takes the native lock when nobody works, or unwinds.
LEMMA TakeNativeKeeps ==
  ASSUME IInv, NEW e \in Procs, TakeNative(e)
  PROVE  Kept'
<1>1. UNCHANGED <<att, report, unrec, alive, refused>> /\ x[e].pc = "locked"
  BY DEF TakeNative
<1>2. CASE native = NoProc
  <2>1. \A f \in Procs : x[f].pc \in {"idle", "locked"}
    BY <1>2, Names DEF IInv, Kept, Exclusive
  <2>2. /\ native' = e /\ \A f \in Procs \ {e} : x'[f] = x[f]
        /\ x'[e] = [x[e] EXCEPT !.pc = "reconcile", !.visit = x[e].run,
                                !.others = Runs \ {x[e].run}, !.todo = Used(x[e].run)]
    BY <1>2, Became DEF TakeNative
  <2>3. x[e] \in Memory
    BY DEF IInv, TypeOK
  <2>4. /\ x'[e].pc = "reconcile" /\ x'[e].visit = x[e].run
        /\ x'[e].others = Runs \ {x[e].run} /\ x'[e].todo = Used(x[e].run)
    BY <2>2, <2>3 DEF Memory
  <2>5. x[e].run \in Runs /\ \A j \in Ids : att[j].stage # "none" <=> att[j].run \in Runs
    BY <1>1, Reserved DEF IInv, Placed, PlacedAt
  <2>6. Reconciling(x[e])'
    BY <1>1, <2>4, <2>5 DEF Reconciling, Used
  <2>9. Executor(x[e])'
    BY <2>4, <2>6 DEF Executor, AtWork, SettingUp, Reporting, Unfailed
  <2>7. \A f \in Procs : Executor(x[f])'
    BY <2>1, <2>2, <2>9, IdleExecutor
  <2>8. Exclusive'
    BY <2>1, <2>2 DEF Exclusive
  <2> QED BY <1>1, <2>7, <2>8, Quiet DEF Kept
<1>3. CASE native # NoProc
  <2>1. Leave(e) /\ x'[e].pc = "idle" /\ \A f \in Procs \ {e} : x'[f] = x[f]
    BY <1>3, Became DEF TakeNative, Leave, Rest
  <2>2. \A f \in Procs : Executor(x[f])'
    BY <1>1, <2>1, IdleExecutor, Stays DEF IInv, Kept
  <2>3. Exclusive'
    BY <1>1, <2>1 DEF IInv, Kept, Exclusive, Leave
  <2> QED BY <1>1, <2>2, <2>3, Quiet DEF Kept
<1> QED BY <1>2, <1>3

\* ReconcileTrusted: what it takes over from the journal is what the journal says.
LEMMA ReconcileTrustedKeeps ==
  ASSUME IInv, NEW e \in Procs, NEW i \in Ids, ReconcileTrusted(e, i)
  PROVE  Kept'
<1>1. /\ UNCHANGED <<att, report, unrec, alive, refused, native>>
      /\ x[e].pc = "reconcile" /\ i \in x[e].todo /\ Trusted(i)
  BY DEF ReconcileTrusted
<1>2. x[e] \in Memory /\ report[i] \in Report
  BY DEF IInv, TypeOK
<1>3. PICK pc \in {"restage", "record"}, clean \in Report :
        /\ Become(e, [x[e] EXCEPT !.pc = pc, !.cur = i, !.clean = clean])
        /\ pc = "restage" => clean = report[i]
  BY <1>2 DEF ReconcileTrusted, Report
<1>4. /\ x'[e].pc = pc /\ x'[e].cur = i /\ x'[e].clean = clean /\ x'[e].todo = x[e].todo
      /\ x'[e].visit = x[e].visit /\ x'[e].others = x[e].others /\ x'[e].bad = x[e].bad
  <2>1. x'[e] = [x[e] EXCEPT !.pc = pc, !.cur = i, !.clean = clean]
    BY <1>3, Became
  <2> QED BY <1>2, <2>1 DEF Memory
<1>5. Gone(i) /\ i \notin unrec
  BY <1>1 DEF IInv, Kept, Journal, Truthful, Trusted, Settled, Quiescent, cleanup_resolved
<1>6. Gone(i)' 
  BY <1>1, <1>5 DEF Gone, Recorded
<1>7. Reconciling(x[e])
  BY DEF IInv, Kept, Executor
<1>8. Reconciling(x[e])'
  BY <1>1, <1>3, <1>4, <1>5, <1>6, <1>7 DEF Reconciling, Settled
<1>9. Executor(x[e])'
  BY <1>3, <1>4, <1>8 DEF Executor, AtWork, SettingUp, Reporting, Unfailed
<1> QED BY <1>1, <1>3, <1>9, GoesOn, Quiet DEF Kept

\* ReconcileNext: it leaves behind a run all of whose attempts are settled.
LEMMA ReconcileNextKeeps ==
  ASSUME IInv, NEW e \in Procs, ReconcileNext(e)
  PROVE  Kept'
<1>1. /\ UNCHANGED <<att, report, unrec, alive, refused>>
      /\ x[e].pc = "reconcile" /\ x[e].todo = {} /\ ~ x[e].bad
  BY DEF ReconcileNext
<1>2. CASE Leave(e)
  BY <1>1, <1>2, Unwinds, Quiet DEF Kept
<1>3. CASE ~ Leave(e)
  <2>1. PICK r \in x[e].others :
          /\ Become(e, [x[e] EXCEPT !.visit = r, !.others = @ \ {r}, !.todo = Used(r)])
          /\ native' = native
    BY <1>3 DEF ReconcileNext
  <2>2. x[e] \in Memory
    BY DEF IInv, TypeOK
  <2>3. /\ x'[e].pc = "reconcile" /\ x'[e].visit = r /\ x'[e].bad = x[e].bad
        /\ x'[e].others = x[e].others \ {r} /\ x'[e].todo = Used(r)
    <3>1. x'[e] = [x[e] EXCEPT !.visit = r, !.others = @ \ {r}, !.todo = Used(r)]
      BY <2>1, Became
    <3> QED BY <1>1, <2>2, <3>1 DEF Memory
  <2>4. Reconciling(x[e]) /\ r \in Runs /\ \A j \in Ids : Settled(j)' = Settled(j)
    BY <1>1, <2>1, <2>2, MemoryFields DEF IInv, Kept, Executor, Settled
  <2>7. \A j \in Ids : att[j].stage # "none" <=> att[j].run \in Runs
    BY Reserved
  <2>5. Reconciling(x[e])'
    BY <1>1, <2>1, <2>3, <2>4, <2>7 DEF Reconciling, Used
  <2>6. Executor(x[e])'
    BY <2>3, <2>5 DEF Executor, AtWork, SettingUp, Reporting, Unfailed
  <2> QED BY <1>1, <2>1, <2>6, GoesOn, Quiet DEF Kept
<1> QED BY <1>2, <1>3

\* ReconcileDone: after the last run, all attempts of the store are.
LEMMA ReconcileDoneKeeps ==
  ASSUME IInv, NEW e \in Procs, ReconcileDone(e)
  PROVE  Kept'
<1>1. UNCHANGED <<att, report, unrec, alive, refused>> /\ x[e].pc = "reconcile" /\ x[e].todo = {}
  BY DEF ReconcileDone
<1>2. CASE Leave(e)
  BY <1>1, <1>2, Unwinds, Quiet DEF Kept
<1>3. CASE ~ Leave(e)
  <2>1. PICK pc \in {"gate", "invalid"} :
          /\ Become(e, [x[e] EXCEPT !.pc = pc, !.visit = NoRun, !.todo = Used(x[e].run)])
          /\ native' = native /\ ~ x[e].bad /\ x[e].others = {}
    BY <1>3 DEF ReconcileDone
  <2>2. x[e] \in Memory
    BY DEF IInv, TypeOK
  <2>3. x'[e].pc = pc
    <3>1. x'[e] = [x[e] EXCEPT !.pc = pc, !.visit = NoRun, !.todo = Used(x[e].run)]
      BY <2>1, Became
    <3> QED BY <2>2, <3>1 DEF Memory
  <2>4. Reconciling(x[e])
    BY DEF IInv, Kept, Executor
  <2>5. AllSettled'
    BY <1>1, <2>1, <2>4 DEF Reconciling, AllSettled, Settled
  <2>6. Executor(x[e])'
    BY <2>1, <2>3, <2>5 DEF Executor, Reconciling, AtWork, SettingUp, Reporting, Unfailed
  <2> QED BY <1>1, <2>1, <2>6, GoesOn, Quiet DEF Kept
<1> QED BY <1>2, <1>3

\* Gate: no capture of the run has failed.
LEMMA GateKeeps ==
  ASSUME IInv, NEW e \in Procs, Gate(e)
  PROVE  Kept'
<1>1. UNCHANGED <<att, report, unrec, alive, refused>> /\ x[e].pc = "gate"
  BY DEF Gate
<1>2. CASE Leave(e)
  BY <1>1, <1>2, Unwinds, Quiet DEF Kept
<1>3. CASE ~ Leave(e)
  <2>1. /\ Become(e, [x[e] EXCEPT !.pc = "recover",
                                  !.plan = (Trials \ Tried(x[e].run)) \cup x[e].retry])
        /\ native' = native
    BY <1>3 DEF Gate
  <2>2. x'[e].pc = "recover"
    <3>1. x[e] \in Memory
      BY DEF IInv, TypeOK
    <3> QED BY <2>1, <3>1, Became DEF Memory
  <2>3. AllSettled'
    BY <1>1 DEF IInv, Kept, Executor, Reconciling, AllSettled, Settled
  <2>4. Executor(x[e])'
    BY <2>2, <2>3 DEF Executor, Reconciling, AtWork, SettingUp, Reporting, Unfailed
  <2> QED BY <1>1, <2>1, <2>4, GoesOn, Quiet DEF Kept
<1> QED BY <1>2, <1>3

\* Recovered: nor after its interrupted attempts were recovered.
LEMMA RecoveredKeeps ==
  ASSUME IInv, NEW e \in Procs, Recovered(e)
  PROVE  Kept'
<1>1. UNCHANGED <<att, report, unrec, alive, refused>> /\ x[e].pc = "recover"
  BY DEF Recovered
<1>2. CASE Leave(e)
  BY <1>1, <1>2, Unwinds, Quiet DEF Kept
<1>3. CASE ~ Leave(e)
  <2>1. /\ Become(e, [x[e] EXCEPT !.pc = "trials", !.todo = {}])
        /\ native' = native /\ ~ Failed(x[e].run)
    BY <1>3 DEF Recovered
  <2>2. x'[e].pc = "trials" /\ x'[e].run = x[e].run
    <3>1. x[e] \in Memory
      BY DEF IInv, TypeOK
    <3>2. x'[e] = [x[e] EXCEPT !.pc = "trials", !.todo = {}]
      BY <2>1, Became
    <3> QED BY <3>1, <3>2 DEF Memory
  <2>3. AllSettled'
    BY <1>1 DEF IInv, Kept, Executor, Reconciling, AllSettled, Settled
  <2>4. Unfailed(x[e])'
    BY <1>1, <2>1, <2>2 DEF Unfailed, Failed, Used
  <2>5. Executor(x[e])'
    BY <2>2, <2>3, <2>4 DEF Executor, Reconciling, AtWork, SettingUp, Reporting
  <2> QED BY <1>1, <2>1, <2>5, GoesOn, Quiet DEF Kept
<1> QED BY <1>2, <1>3

\* Finish, Crash: an executor that ends owes nothing.
LEMMA LeavingKeeps ==
  ASSUME IInv, NEW e \in Procs, Finish(e) \/ Crash(e)
  PROVE  Kept'
<1>1. UNCHANGED <<att, report, unrec, alive, refused>> /\ Leave(e)
  BY DEF Finish, Crash
<1>2. CASE x[e].pc \notin {"idle", "locked"}
  BY <1>1, <1>2, Unwinds, Quiet DEF Kept
<1>3. CASE x[e].pc \in {"idle", "locked"}
  <2>1. x'[e].pc = "idle" /\ \A f \in Procs \ {e} : x'[f] = x[f]
    BY <1>1, Became DEF Leave, Rest
  <2>2. \A f \in Procs : Executor(x[f])'
    BY <1>1, <2>1, IdleExecutor, Stays DEF IInv, Kept
  <2>3. Exclusive'
    BY <1>1, <2>1 DEF IInv, Kept, Exclusive, Leave
  <2> QED BY <1>1, <2>2, <2>3, Quiet DEF Kept
<1> QED BY <1>2, <1>3

-----------------------------------------------------------------------------
(* What keeps the journals true. *)

\* An executor moves on with all that it holds.
LEMMA Went ==
  ASSUME IInv, NEW e \in Procs, NEW pc, Goto(e, pc)
  PROVE  /\ x'[e].pc = pc /\ x'[e].run = x[e].run /\ x'[e].cur = x[e].cur
         /\ x'[e].seen = x[e].seen /\ x'[e].clean = x[e].clean /\ x'[e].visit = x[e].visit
         /\ x'[e].others = x[e].others /\ x'[e].todo = x[e].todo /\ x'[e].bad = x[e].bad
         /\ x'[e].recovering = x[e].recovering /\ x'[e].plan = x[e].plan
         /\ x'[e].retry = x[e].retry
<1>1. x'[e] = [x[e] EXCEPT !.pc = pc] /\ x[e] \in Memory
  BY Became DEF IInv, TypeOK
<1> QED BY <1>1 DEF Memory

\* Setup commands fork helpers, terminals fork children.
LEMMA ForkedIs ==
  ASSUME IInv, NEW i \in Ids, NEW known
  PROVE  Forked(i, known) =
           {k \in alive[i] : \/ k = "helper" /\ "setup" \in known \cap alive[i]
                             \/ k = "child" /\ "daemon" \in known \cap alive[i]}
<1>1. alive[i] \subseteq Kinds
  BY DEF IInv, TypeOK
<1> QED BY <1>1, KindsAssumption DEF Forked, Parent

\* The attempt of an executor at work.
LEMMA InHand ==
  ASSUME IInv, NEW e \in Procs, x[e].pc \in Holding
  PROVE  /\ x[e].cur \in Ids /\ x[e].run \in Runs /\ x[e].seen \subseteq Kinds
         /\ x[e].clean \in Report /\ att[x[e].cur] \in Attempt /\ alive[x[e].cur] \subseteq Kinds
<1>1. x[e] \in Memory
  BY DEF IInv, TypeOK
<1>2. x[e].cur \in Ids /\ x[e].run \in Runs
  BY DEF IInv, Placed, PlacedAt
<1> QED BY <1>1, <1>2, MemoryFields DEF IInv, TypeOK

\* Around an executor at work there is nothing left of other attempts.
LEMMA WorksAlone ==
  ASSUME IInv, NEW e \in Procs, x[e].pc \in Working
  PROVE  \A j \in Ids \ {x[e].cur} : Gone(j) /\ "daemon" \notin alive[j]
<1>1. OthersSettled(x[e].cur)
  BY DEF IInv, Kept, Executor, AtWork
<1>2. \A j \in Ids : (att[j].stage = "none" => alive[j] = {}) /\ (Settled(j) => Gone(j))
  BY DEF IInv, Kept, Journal, Fresh, Truthful
<1> QED BY <1>1, <1>2 DEF OthersSettled, Gone

\* The stages that may follow one another.
LEMMA Follows ==
  /\ Transitions["none"] = {"reserved"}
  /\ Transitions["reserved"] = {"preparing", "stopping"}
  /\ Transitions["preparing"] = {"launching", "stopping"}
  /\ Transitions["launching"] = {"interacting", "stopping"}
  /\ Transitions["interacting"] = {"stopping"}
  /\ Transitions["stopping"] = {"captured"}
  BY DEF Transitions

\* A save that the lifecycle allows keeps the journal true, if it forgets no process.
LEMMA SaveKeeps ==
  ASSUME IInv, NEW i \in Ids, NEW new \in Attempt, Save(i, new), Valid(att[i], new),
         UNCHANGED <<report, unrec, alive>>,
         new.owned = att[i].owned, new.stage # "none", new.run \in Runs,
         new.stage = "captured" \/ new.capture = "none"
  PROVE  /\ Journal' /\ att'[i] = new /\ att' \in [Ids -> Attempt]
         /\ \A j \in Ids \ {i} : att'[j] = att[j]
<1>1. att' = [att EXCEPT ![i] = new] /\ UNCHANGED refused
  BY DEF Save
<1>2. att \in [Ids -> Attempt]
  BY DEF IInv, TypeOK
<1>3. att' \in [Ids -> Attempt] /\ att'[i] = new /\ \A j \in Ids \ {i} : att'[j] = att[j]
  BY <1>1, <1>2
<1> USE DEF IInv, Kept, Journal
<1>4. Fresh'
  BY <1>3 DEF Fresh
<1>5. \A j \in Ids : Gone(j)' = Gone(j)
  BY <1>3 DEF Gone, Recorded
<1>6. \A j \in Ids : att[j].tried => att'[j].tried
  BY <1>3 DEF Valid
<1>7. Truthful'
  BY <1>5, <1>6 DEF Truthful, Settled
<1>8. NoOverlap'
  BY <1>3 DEF NoOverlap, Recorded
<1> QED BY <1>1, <1>3, <1>4, <1>7, <1>8

\* So does the publication of identities, if none of them runs while another subject does.
LEMMA OwnKeeps ==
  ASSUME IInv, NEW i \in Ids, NEW kinds \in SUBSET Kinds, Own(i, kinds), UNCHANGED alive,
         att[i].stage # "none",
         (\E j \in Ids \ {i} : "daemon" \in alive[j]) => alive[i] \cap kinds = {}
  PROVE  /\ Journal' /\ \A j \in Ids \ {i} : att'[j] = att[j]
         /\ att'[i] = [att[i] EXCEPT !.owned = @ \cup kinds]
         /\ att'[i].owned = att[i].owned \cup kinds /\ att'[i].launch = att[i].launch
         /\ att'[i].stage = att[i].stage /\ att'[i].tried = att[i].tried
         /\ att'[i].run = att[i].run /\ att'[i].failed = att[i].failed
<1>1. att \in [Ids -> Attempt] /\ att' = [att EXCEPT ![i].owned = @ \cup kinds]
  BY DEF IInv, TypeOK, Own
<1>2. att'[i] = [att[i] EXCEPT !.owned = @ \cup kinds] /\ \A j \in Ids \ {i} : att'[j] = att[j]
  BY <1>1
<1>3. /\ att'[i].owned = att[i].owned \cup kinds /\ att'[i].launch = att[i].launch
      /\ att'[i].stage = att[i].stage /\ att'[i].tried = att[i].tried
      /\ att'[i].run = att[i].run /\ att'[i].failed = att[i].failed
      /\ att'[i].capture = att[i].capture
  BY <1>1, <1>2 DEF Attempt
<1>4. UNCHANGED <<report, refused>> /\ unrec \subseteq unrec'
      /\ (i \in unrec' \/ kinds \subseteq att[i].owned)
  BY DEF Own
<1> USE DEF IInv, Kept, Journal
<1>5. Fresh'
  <2>1. \A j \in Ids : /\ att'[j].stage = att[j].stage /\ att'[j].run = att[j].run
                       /\ att'[j].capture = att[j].capture
                       /\ att[j].stage = "none" => att'[j] = att[j]
    BY <1>2, <1>3
  <2> QED BY <1>4, <2>1 DEF Fresh
<1>6. \A j \in Ids : Settled(j)' => Settled(j) /\ (Gone(j) => Gone(j)')
  BY <1>2, <1>3, <1>4 DEF Settled, Gone, Recorded
<1>7. Truthful'
  BY <1>2, <1>3, <1>4, <1>6 DEF Truthful
<1>8. NoOverlap'
  BY <1>2, <1>3 DEF NoOverlap, Recorded
<1> QED BY <1>2, <1>3, <1>4, <1>5, <1>7, <1>8

\* So does a report, if it is true.
LEMMA EvidenceKeeps ==
  ASSUME IInv, NEW i \in Ids, NEW r \in Report, Evidence(i, r), UNCHANGED alive,
         att[i].stage # "none",
         Quiescent(r) => Gone(i), r.closed => "daemon" \notin alive[i]
  PROVE  /\ Journal' /\ report'[i] = r /\ \A j \in Ids \ {i} : report'[j] = report[j]
<1>1. /\ UNCHANGED <<att, refused>> /\ i \notin unrec' /\ unrec' = unrec \ {i}
      /\ report'[i] = r /\ \A j \in Ids \ {i} : report'[j] = report[j]
  BY DEF IInv, TypeOK, Evidence
<1> USE DEF IInv, Kept, Journal
<1>2. Fresh'
  BY <1>1 DEF Fresh
<1>3. Truthful'
  BY <1>1 DEF Truthful, Settled, Gone, Recorded
<1>4. NoOverlap'
  BY <1>1 DEF NoOverlap, Recorded
<1> QED BY <1>1, <1>2, <1>3, <1>4

\* Processes that end make nothing untrue.
LEMMA EndingKeeps ==
  ASSUME IInv, NEW i \in Ids, NEW left, left \subseteq alive[i], alive' = [alive EXCEPT ![i] = left],
         UNCHANGED <<att, report, unrec, refused>>
  PROVE  Journal' /\ \A j \in Ids : alive'[j] \subseteq alive[j]
<1>1. \A j \in Ids : alive'[j] \subseteq alive[j]
  BY DEF IInv, TypeOK
<1> USE DEF IInv, Kept, Journal
<1>2. Fresh'
  BY <1>1 DEF Fresh
<1>3. Truthful'
  BY <1>1 DEF Truthful, Settled, Gone, Recorded
<1>4. NoOverlap'
  BY <1>1 DEF NoOverlap, Recorded
<1> QED BY <1>1, <1>2, <1>3, <1>4

-----------------------------------------------------------------------------
(* The steps of a reconciliation. *)

\* ReconcileKill: what it finds and cannot stop is in its report.
LEMMA ReconcileKillKeeps ==
  ASSUME IInv, NEW e \in Procs, NEW i \in Ids, ReconcileKill(e, i)
  PROVE  Kept'
<1> DEFINE rec == Recorded(i)
           found == Found(i, rec)
           known == IdentityKnown(i)
<1>1. PICK survivors \in SUBSET found :
        /\ alive' = [alive EXCEPT ![i] = @ \ (found \ survivors)]
        /\ Become(e, [x[e] EXCEPT !.pc = "publish", !.cur = i, !.seen = found,
                                  !.clean = [known |-> TRUE, closed |-> known /\ survivors = {},
                                             stopped |-> known /\ survivors = {},
                                             errors |-> ~ known]])
  BY DEF ReconcileKill
<1>2. /\ x[e].pc = "reconcile" /\ i \in x[e].todo /\ ~ Trusted(i)
      /\ UNCHANGED <<att, report, unrec, refused, native>>
  BY DEF ReconcileKill
<1>3. x[e] \in Memory /\ att \in [Ids -> Attempt] /\ report \in [Ids -> Report]
      /\ alive \in [Ids -> SUBSET Kinds]
  BY DEF IInv, TypeOK
<1>4. /\ x'[e].pc = "publish" /\ x'[e].cur = i /\ x'[e].seen = found
      /\ x'[e].todo = x[e].todo /\ x'[e].bad = x[e].bad
      /\ x'[e].visit = x[e].visit /\ x'[e].others = x[e].others
      /\ x'[e].clean.closed <=> known /\ survivors = {}
  <2>1. x'[e] = [x[e] EXCEPT !.pc = "publish", !.cur = i, !.seen = found,
                             !.clean = [known |-> TRUE, closed |-> known /\ survivors = {},
                                        stopped |-> known /\ survivors = {},
                                        errors |-> ~ known]]
    BY <1>1, Became
  <2> DEFINE clean == [known |-> TRUE, closed |-> known /\ survivors = {},
                       stopped |-> known /\ survivors = {}, errors |-> ~ known]
  <2>2. x'[e] = [x[e] EXCEPT !.pc = "publish", !.cur = i, !.seen = found, !.clean = clean]
    BY <2>1
  <2>3. clean.closed <=> known /\ survivors = {}
    OBVIOUS
  <2> HIDE DEF known, found, clean
  <2> QED BY <1>3, <2>2, <2>3 DEF Memory
<1>5. found = (rec \cap alive[i]) \cup
              {k \in alive[i] : \/ k = "helper" /\ "setup" \in rec \cap alive[i]
                                \/ k = "child" /\ "daemon" \in rec \cap alive[i]}
  BY ForkedIs DEF Found
<1>6. alive'[i] = alive[i] \ (found \ survivors) /\ \A j \in Ids \ {i} : alive'[j] = alive[j]
  BY <1>1, <1>3
<1>7. Journal'
  BY <1>1, <1>2, EndingKeeps
<1> USE DEF IInv, Kept, Journal
<1>8. /\ Executor(x[e])
      /\ NoOverlap /\ Truthful /\ Fresh
  OBVIOUS
<1>9. (\E j \in Ids : j # i /\ "daemon" \in alive'[j]) => found = {}
  <2>1. SUFFICES ASSUME NEW j \in Ids, j # i, "daemon" \in alive[j] PROVE found = {}
    BY <1>6
  <2>2. rec \cap alive[i] = {} /\ "daemon" \notin alive[i]
    BY <1>8, <2>1 DEF NoOverlap
  <2> QED BY <1>5, <2>2
<1>10. ASSUME known, survivors = {}
       PROVE  Gone(i)' /\ alive'[i] \cap found = {}
              /\ \A k \in found \cap DOMAIN Parent :
                   k \in att[i].owned \/ Parent[k] \notin alive'[i]
  <2>1. alive'[i] = alive[i] \ found
    BY <1>6, <1>10
  <2>2. rec \cap alive'[i] = {}
    BY <1>5, <2>1
  <2>3. "daemon" \notin alive'[i]
    BY <1>8, <1>10, <2>1, <2>2 DEF IdentityKnown, Truthful, Recorded
  <2>4. \A k \in found \cap DOMAIN Parent : k \in att[i].owned \/ Parent[k] \notin alive'[i]
    <3>1. SUFFICES ASSUME NEW k \in found \cap DOMAIN Parent, k \notin att[i].owned
                   PROVE  Parent[k] \notin alive'[i]
      OBVIOUS
    <3>2. \/ k = "helper" /\ Parent[k] = "setup"
          \/ k = "child" /\ Parent[k] = "daemon"
      BY <3>1, KindsAssumption DEF Parent
    <3>3. k \notin rec
      BY <3>1, <3>2 DEF Recorded
    <3>4. k \in Forked(i, rec)
      BY <3>1, <3>3 DEF Found
    <3>5. Parent[k] \in rec
      BY <3>4 DEF Forked
    <3> QED BY <2>2, <3>5
  <2>5. Gone(i)'
    BY <1>2, <2>2, <2>3 DEF Gone, Recorded
  <2> QED BY <2>1, <2>4, <2>5
<1>11. Reconciling(x[e])'
  <2> HIDE DEF known, found
  <2>1. Reconciling(x[e])
    BY <1>8 DEF Executor
  <2>2. \A j \in Ids : Settled(j)' = Settled(j)
    BY <1>2 DEF Settled
  <2> QED BY <1>2, <1>4, <1>9, <1>10, <2>1, <2>2 DEF Reconciling
<1>12. Executor(x[e])'
  BY <1>4, <1>11 DEF Executor, AtWork, SettingUp, Reporting, Unfailed
<1> QED BY <1>1, <1>2, <1>7, <1>12, GoesOn

\* ReconcilePublish: the attempt stays unsettled until the report.
LEMMA ReconcilePublishKeeps ==
  ASSUME IInv, NEW e \in Procs, ReconcilePublish(e)
  PROVE  Kept'
<1> DEFINE i == x[e].cur
<1>1. /\ x[e].pc = "publish" /\ Own(i, x[e].seen) /\ Goto(e, "record")
      /\ UNCHANGED <<alive, native>>
  BY DEF ReconcilePublish
<1>2. i \in Ids /\ x[e].seen \in SUBSET Kinds /\ x[e].todo \subseteq Ids
  BY <1>1, InHand, MemoryFields DEF IInv, TypeOK
<1>3. Executor(x[e]) /\ Reconciling(x[e])
  BY DEF IInv, Kept, Executor
<1>4. /\ i \in x[e].todo /\ att[i].stage # "none"
      /\ (\E j \in Ids \ {i} : "daemon" \in alive[j]) => alive[i] \cap x[e].seen = {}
  <2>1. i \in x[e].todo /\ att[i].stage # "none"
    BY <1>1, <1>2, <1>3 DEF Reconciling
  <2>2. ASSUME NEW j \in Ids \ {i}, "daemon" \in alive[j] PROVE x[e].seen = {}
    BY <1>1, <1>3, <2>2 DEF Reconciling
  <2> QED BY <2>1, <2>2
<1>5. /\ Journal' /\ \A j \in Ids \ {i} : att'[j] = att[j]
      /\ att'[i].owned = att[i].owned \cup x[e].seen /\ att'[i].launch = att[i].launch
      /\ att'[i].stage = att[i].stage /\ att'[i].run = att[i].run
  BY <1>1, <1>2, <1>4, OwnKeeps
<1>6. /\ x'[e].pc = "record" /\ x'[e].cur = i /\ x'[e].clean = x[e].clean
      /\ x'[e].visit = x[e].visit /\ x'[e].others = x[e].others
      /\ x'[e].todo = x[e].todo /\ x'[e].bad = x[e].bad
  BY <1>1, Went
<1>7. \A j \in Ids \ {i} : Settled(j)' = Settled(j)
  BY <1>1 DEF Settled, Own
<1>8. x[e].clean.closed => Gone(i)'
  <2>1. x[e].clean.closed => Gone(i) /\ alive[i] \cap x[e].seen = {}
    BY <1>1, <1>3 DEF Reconciling
  <2> QED BY <1>1, <1>5, <1>6, <2>1 DEF Gone, Recorded
<1>9. Reconciling(x[e])'
  <2>1. \A j \in Ids : att'[j].stage = att[j].stage /\ att'[j].run = att[j].run
    BY <1>5
  <2> QED BY <1>1, <1>2, <1>3, <1>4, <1>6, <1>7, <1>8, <2>1 DEF Reconciling
<1>10. Executor(x[e])'
  BY <1>6, <1>9 DEF Executor, AtWork, SettingUp, Reporting, Unfailed
<1> QED BY <1>1, <1>5, <1>10, GoesOn DEF Goto, Kept

\* ReconcileRecord: its report is true.
LEMMA ReconcileRecordKeeps ==
  ASSUME IInv, NEW e \in Procs, ReconcileRecord(e)
  PROVE  Kept'
<1> DEFINE i == x[e].cur
<1>1. /\ x[e].pc = "record" /\ Evidence(i, x[e].clean) /\ Goto(e, "restage")
      /\ UNCHANGED <<alive, native>>
  BY DEF ReconcileRecord
<1>2. i \in Ids /\ x[e].clean \in Report
  BY <1>1, InHand
<1>3. Executor(x[e]) /\ Reconciling(x[e])
  BY DEF IInv, Kept, Executor
<1>4. i \in x[e].todo /\ att[i].stage # "none" /\ (x[e].clean.closed => Gone(i))
  BY <1>1, <1>2, <1>3 DEF Reconciling
<1>5. /\ Journal' /\ report'[i] = x[e].clean /\ \A j \in Ids \ {i} : report'[j] = report[j]
  BY <1>1, <1>2, <1>4, EvidenceKeeps DEF Quiescent, Gone
<1>6. /\ x'[e].pc = "restage" /\ x'[e].cur = i /\ x'[e].clean = x[e].clean
      /\ x'[e].visit = x[e].visit /\ x'[e].others = x[e].others
      /\ x'[e].todo = x[e].todo /\ x'[e].bad = x[e].bad
  BY <1>1, Went
<1>7. att' = att /\ i \notin unrec' /\ \A j \in Ids \ {i} : Settled(j)' = Settled(j)
  BY <1>1, <1>5 DEF Settled, Evidence
<1>8. Reconciling(x[e])'
  BY <1>1, <1>2, <1>3, <1>4, <1>5, <1>6, <1>7 DEF Reconciling
<1>9. Executor(x[e])'
  BY <1>6, <1>8 DEF Executor, AtWork, SettingUp, Reporting, Unfailed
<1> QED BY <1>1, <1>5, <1>9, GoesOn DEF Goto, Kept

\* Restage: the attempt is settled, or the executor has noted that it is not.
LEMMA RestageKeeps ==
  ASSUME IInv, NEW e \in Procs, Restage(e)
  PROVE  Kept'
<1> DEFINE i == x[e].cur
           new == [att[i] EXCEPT !.stage = "stopping"]
<1>1. /\ x[e].pc = "restage" /\ UNCHANGED <<report, unrec, alive, native>>
      /\ IF att[i].stage \in Active THEN Save(i, new) ELSE UNCHANGED <<att, refused>>
  BY DEF Restage
<1>2. PICK bad \in BOOLEAN :
        /\ bad <=> x[e].bad \/ ~ cleanup_resolved(x[e].clean)
        /\ Become(e, [x[e] EXCEPT !.pc = "reconcile", !.cur = NoId, !.todo = @ \ {i}, !.seen = {},
                                  !.bad = bad, !.clean = CleanReport])
  BY DEF Restage
<1>3. i \in Ids /\ att[i] \in Attempt /\ x[e] \in Memory
  BY <1>1, InHand DEF IInv, TypeOK
<1>4. /\ x'[e].pc = "reconcile" /\ x'[e].todo = x[e].todo \ {i} /\ x'[e].bad = bad
      /\ x'[e].visit = x[e].visit /\ x'[e].others = x[e].others
  <2>1. x'[e] = [x[e] EXCEPT !.pc = "reconcile", !.cur = NoId, !.todo = @ \ {i}, !.seen = {},
                             !.bad = bad, !.clean = CleanReport]
    BY <1>2, Became
  <2> QED BY <1>3, <2>1 DEF Memory
<1>5. /\ Journal' /\ (\A j \in Ids \ {i} : att'[j] = att[j])
      /\ att'[i].stage # "none" /\ att'[i].run = att[i].run
  <2>1. CASE att[i].stage \in Active
    <3>1. new \in Attempt /\ new.stage = "stopping" /\ new.run = att[i].run
          /\ new.owned = att[i].owned /\ new.capture = att[i].capture /\ new.tried = att[i].tried
      BY <1>3 DEF Attempt, Stages, Active
    <3>2. att[i].run \in Runs /\ att[i].capture = "none"
      BY <1>3, <2>1 DEF IInv, Kept, Journal, Fresh, Active
    <3>3. Valid(att[i], new)
      BY <2>1, <3>1, Follows DEF Valid, Active
    <3> QED BY <1>1, <1>3, <2>1, <3>1, <3>2, <3>3, SaveKeeps
  <2>2. CASE att[i].stage \notin Active
    <3>1. i \in x[e].todo /\ att[i].stage # "none"
      BY <1>1, <1>3 DEF IInv, Kept, Executor, Reconciling
    <3> QED BY <1>1, <2>2, <3>1, Quiet
  <2> QED BY <2>1, <2>2
<1>6. Reconciling(x[e]) /\ \A j \in Ids : Settled(j)' = Settled(j)
  BY <1>1 DEF IInv, Kept, Executor, Settled
<1>7. ~ bad => Settled(i)
  BY <1>1, <1>2, <1>6 DEF Reconciling, Settled, cleanup_resolved, Quiescent
<1>8. Reconciling(x[e])'
  BY <1>1, <1>2, <1>3, <1>4, <1>5, <1>6, <1>7 DEF Reconciling
<1>9. Executor(x[e])'
  BY <1>4, <1>8 DEF Executor, AtWork, SettingUp, Reporting, Unfailed
<1> QED BY <1>1, <1>2, <1>5, <1>9, GoesOn DEF Kept

\* MarkInvalid: only attempts that are stopping are marked.
LEMMA MarkInvalidKeeps ==
  ASSUME IInv, NEW e \in Procs, MarkInvalid(e)
  PROVE  Kept'
<1>1. x[e].pc = "invalid" /\ UNCHANGED <<report, unrec, alive>>
  BY DEF MarkInvalid
<1>2. CASE x[e].todo = {}
  BY <1>1, <1>2, Unwinds, Quiet DEF MarkInvalid, Kept
<1>3. CASE x[e].todo # {}
  <2>1. PICK i \in x[e].todo :
          /\ IF att[i].stage = "stopping" /\ att[i].capture = "none"
             THEN Save(i, [att[i] EXCEPT !.failed = TRUE]) ELSE UNCHANGED <<att, refused>>
          /\ Become(e, [x[e] EXCEPT !.todo = @ \ {i}]) /\ native' = native
    BY <1>3 DEF MarkInvalid
  <2>2. x[e] \in Memory /\ i \in Ids /\ att[i] \in Attempt
    <3>1. x[e] \in Memory /\ att \in [Ids -> Attempt]
      BY DEF IInv, TypeOK
    <3> QED BY <2>1, <3>1, MemoryFields
  <2>3. x'[e].pc = "invalid"
    <3>1. x'[e] = [x[e] EXCEPT !.todo = @ \ {i}]
      BY <2>1, Became
    <3> QED BY <1>1, <2>2, <3>1 DEF Memory
  <2>4. Executor(x[e])'
    BY <2>3 DEF Executor, Reconciling, AtWork, SettingUp, Reporting, Unfailed
  <2>5. Journal'
    <3> DEFINE new == [att[i] EXCEPT !.failed = TRUE]
    <3>1. CASE att[i].stage = "stopping" /\ att[i].capture = "none"
      <4>1. /\ new \in Attempt /\ new.stage = "stopping" /\ new.run = att[i].run
            /\ new.owned = att[i].owned /\ new.capture = "none" /\ new.tried = att[i].tried
        BY <2>2, <3>1 DEF Attempt
      <4>2. att[i].run \in Runs
        BY <2>2, <3>1 DEF IInv, Kept, Journal, Fresh
      <4>3. Valid(att[i], new)
        BY <3>1, <4>1 DEF Valid
      <4> QED BY <1>1, <2>1, <2>2, <3>1, <4>1, <4>2, <4>3, SaveKeeps
    <3>2. CASE ~ (att[i].stage = "stopping" /\ att[i].capture = "none")
      BY <1>1, <2>1, <3>2, Quiet
    <3> QED BY <3>1, <3>2
  <2> QED BY <1>1, <2>1, <2>4, <2>5, GoesOn DEF Kept
<1> QED BY <1>2, <1>3

-----------------------------------------------------------------------------
(* The steps of the trials: saves. *)

\* An executor at work on attempt x[e].cur, and its journal.
LEMMA AtHand ==
  ASSUME IInv, NEW e \in Procs, x[e].pc \in Working
  PROVE  /\ att[x[e].cur].stage \in StageAt(x[e].pc) /\ OthersSettled(x[e].cur)
         /\ x[e].pc \in Conducting => ~ x[e].recovering
         /\ x[e].pc # "capture" /\ ~ x[e].recovering => ~ report[x[e].cur].known
         /\ x[e].recovering => x[e].clean.known /\ Quiescent(x[e].clean)
         /\ ~ x[e].recovering => ~ Failed(x[e].run) /\ att[x[e].cur].run = x[e].run
         /\ SettingUp(x[e]) /\ Reporting(x[e])
  BY DEF IInv, Kept, Executor, AtWork, Unfailed

\* A save of the attempt in hand that moves it on keeps what the journals say.
LEMMA Advances ==
  ASSUME IInv, NEW e \in Procs, x[e].pc \in Conducting,
         NEW new \in Attempt, Save(x[e].cur, new), UNCHANGED <<report, unrec, alive>>,
         att[x[e].cur].stage \in Active, new.stage \in Active,
         new.stage = att[x[e].cur].stage \/ new.stage \in Transitions[att[x[e].cur].stage],
         att[x[e].cur].tried => new.tried,
         new.run = att[x[e].cur].run, new.owned = att[x[e].cur].owned,
         new.failed = att[x[e].cur].failed, new.capture = att[x[e].cur].capture
  PROVE  /\ Journal' /\ att'[x[e].cur] = new
         /\ \A j \in Ids \ {x[e].cur} : att'[j] = att[j]
         /\ \A j \in Ids : (Settled(j)' <=> Settled(j)) /\ (Gone(j)' <=> Gone(j))
         /\ \A r \in Runs : Failed(r)' <=> Failed(r)
<1> DEFINE i == x[e].cur
<1>1. i \in Ids /\ x[e].run \in Runs /\ att[i] \in Attempt
  BY InHand
<1>2. att[i].run \in Runs /\ att[i].capture = "none"
  BY <1>1 DEF IInv, Kept, Journal, Fresh, Active
<1>3. Valid(att[i], new)
  BY DEF Valid
<1>4. /\ Journal' /\ att'[i] = new /\ att' \in [Ids -> Attempt]
      /\ \A j \in Ids \ {i} : att'[j] = att[j]
  BY <1>1, <1>2, <1>3, SaveKeeps DEF Active
<1>5. \A j \in Ids : (Settled(j)' <=> Settled(j)) /\ (Gone(j)' <=> Gone(j))
  BY <1>4 DEF Settled, Gone, Recorded
<1>6. \A r \in Runs : Failed(r)' <=> Failed(r)
  BY <1>4 DEF Failed, Used
<1> QED BY <1>4, <1>5, <1>6

\* An executor at work that stays at the same attempt works alone on.
LEMMA MovesOn ==
  ASSUME IInv, NEW e \in Procs, x[e].pc \in Conducting,
         x'[e].pc \in Conducting \cup {"evidence"},
         x'[e].cur = x[e].cur, x'[e].run = x[e].run, x'[e].recovering = x[e].recovering,
         att'[x[e].cur].stage \in StageAt(x'[e].pc), att'[x[e].cur].run = att[x[e].cur].run,
         report'[x[e].cur] = report[x[e].cur],
         \A j \in Ids \ {x[e].cur} : att'[j] = att[j] /\ (Settled(j)' <=> Settled(j)),
         Failed(x[e].run)' <=> Failed(x[e].run)
  PROVE  Reconciling(x[e])' /\ AtWork(x[e])' /\ Unfailed(x[e])'
<1>1. /\ OthersSettled(x[e].cur) /\ ~ x[e].recovering /\ ~ report[x[e].cur].known
      /\ ~ Failed(x[e].run) /\ att[x[e].cur].run = x[e].run
  BY AtHand
<1>2. OthersSettled(x[e].cur)'
  BY <1>1 DEF OthersSettled
<1>3. ~ Failed(x[e].run)'
  BY <1>1
<1>4. AtWork(x[e])'
  BY <1>1, <1>2 DEF AtWork
<1>5. Unfailed(x[e])'
  BY <1>1, <1>3 DEF Unfailed
<1> QED BY <1>4, <1>5 DEF Reconciling

\* Prepare: a reserved attempt may be prepared.
LEMMA PrepareKeeps ==
  ASSUME IInv, NEW e \in Procs, Prepare(e)
  PROVE  Kept'
<1> DEFINE i == x[e].cur
           new == [att[i] EXCEPT !.stage = "preparing"]
<1>1. /\ x[e].pc = "prepare" /\ Save(i, new)
      /\ Goto(e, "setup")
      /\ UNCHANGED <<report, unrec, alive, native>>
  BY DEF Prepare
<1>2. /\ i \in Ids /\ att[i] \in Attempt /\ x[e].run \in Runs
      /\ att[i].stage \in {"reserved"}
  BY <1>1, InHand, AtHand DEF StageAt
<1>3. SettingUp(x[e]) /\ Reporting(x[e])
  BY <1>1, AtHand
<1>4. /\ new \in Attempt /\ new.stage = "preparing" /\ new.run = att[i].run
      /\ new.owned = att[i].owned /\ new.capture = att[i].capture /\ new.tried = att[i].tried
      /\ new.launch = att[i].launch /\ new.failed = att[i].failed
  BY <1>2 DEF Attempt, Stages, Active
<1>5. /\ att[i].stage \in Active /\ "preparing" \in Active
      /\ "preparing" = att[i].stage \/ "preparing" \in Transitions[att[i].stage]
  BY <1>2, Follows DEF Active
<1> HIDE DEF new
<1>6. /\ Journal' /\ att'[i] = new /\ \A j \in Ids \ {i} : att'[j] = att[j]
      /\ \A j \in Ids : (Settled(j)' <=> Settled(j)) /\ (Gone(j)' <=> Gone(j))
      /\ \A r \in Runs : Failed(r)' <=> Failed(r)
  BY <1>1, <1>4, <1>5, Advances
<1>7. /\ x'[e].pc = "setup" /\ x'[e].run = x[e].run /\ x'[e].cur = x[e].cur
      /\ x'[e].clean = x[e].clean /\ x'[e].recovering = x[e].recovering
      /\ x'[e].seen = x[e].seen
  BY <1>1, Went
<1>8. Reconciling(x[e])' /\ AtWork(x[e])' /\ Unfailed(x[e])'
  BY <1>1, <1>2, <1>4, <1>6, <1>7, MovesOn DEF StageAt
<1>9. SettingUp(x[e])'
  BY <1>1, <1>3, <1>4, <1>6, <1>7 DEF SettingUp
<1>11. Reporting(x[e])'
  BY <1>7 DEF Reporting
<1> QED BY <1>1, <1>6, <1>8, <1>9, <1>11, GoesOn DEF Executor, Kept, Goto

\* LaunchIntent: the intent is saved before anything is launched.
LEMMA LaunchIntentKeeps ==
  ASSUME IInv, NEW e \in Procs, LaunchIntent(e)
  PROVE  Kept'
<1> DEFINE i == x[e].cur
           new == [att[i] EXCEPT !.stage = "launching", !.tried = TRUE]
<1>1. /\ x[e].pc = "plan" /\ Save(i, new)
      /\ Goto(e, "launch")
      /\ UNCHANGED <<report, unrec, alive, native>>
  BY DEF LaunchIntent
<1>2. /\ i \in Ids /\ att[i] \in Attempt /\ x[e].run \in Runs
      /\ att[i].stage \in {"preparing"}
  BY <1>1, InHand, AtHand DEF StageAt
<1>3. SettingUp(x[e]) /\ Reporting(x[e])
  BY <1>1, AtHand
<1>4. /\ new \in Attempt /\ new.stage = "launching" /\ new.run = att[i].run
      /\ new.owned = att[i].owned /\ new.capture = att[i].capture /\ new.tried
      /\ new.launch = att[i].launch /\ new.failed = att[i].failed
  BY <1>2 DEF Attempt, Stages, Active
<1>5. /\ att[i].stage \in Active /\ "launching" \in Active
      /\ "launching" = att[i].stage \/ "launching" \in Transitions[att[i].stage]
  BY <1>2, Follows DEF Active
<1> HIDE DEF new
<1>6. /\ Journal' /\ att'[i] = new /\ \A j \in Ids \ {i} : att'[j] = att[j]
      /\ \A j \in Ids : (Settled(j)' <=> Settled(j)) /\ (Gone(j)' <=> Gone(j))
      /\ \A r \in Runs : Failed(r)' <=> Failed(r)
  BY <1>1, <1>4, <1>5, Advances
<1>7. /\ x'[e].pc = "launch" /\ x'[e].run = x[e].run /\ x'[e].cur = x[e].cur
      /\ x'[e].clean = x[e].clean /\ x'[e].recovering = x[e].recovering
      /\ x'[e].seen = x[e].seen
  BY <1>1, Went
<1>8. Reconciling(x[e])' /\ AtWork(x[e])' /\ Unfailed(x[e])'
  BY <1>1, <1>2, <1>4, <1>6, <1>7, MovesOn DEF StageAt
<1>9. SettingUp(x[e])'
  BY <1>1, <1>3, <1>4, <1>6, <1>7 DEF SettingUp
<1>11. Reporting(x[e])'
  BY <1>1, <1>3, <1>4, <1>6, <1>7 DEF Reporting, Recorded
<1> QED BY <1>1, <1>6, <1>8, <1>9, <1>11, GoesOn DEF Executor, Kept, Goto

\* ObserveLaunch: the executor knows the terminal that it launched.
LEMMA ObserveLaunchKeeps ==
  ASSUME IInv, NEW e \in Procs, ObserveLaunch(e)
  PROVE  Kept'
<1> DEFINE i == x[e].cur
           new == [att[i] EXCEPT !.launch = TRUE]
           seen == {"daemon"} \cup Forked(i, {"daemon"})
<1>1. /\ x[e].pc = "spawned" /\ Save(i, new)
      /\ Become(e, [x[e] EXCEPT !.pc = "observed", !.seen = seen])
      /\ UNCHANGED <<report, unrec, alive, native>>
  BY DEF ObserveLaunch
<1>2. /\ i \in Ids /\ att[i] \in Attempt /\ x[e].run \in Runs
      /\ att[i].stage \in {"launching"}
  BY <1>1, InHand, AtHand DEF StageAt
<1>3. SettingUp(x[e]) /\ Reporting(x[e])
  BY <1>1, AtHand
<1>4. /\ new \in Attempt /\ new.stage = "launching" /\ new.run = att[i].run
      /\ new.owned = att[i].owned /\ new.capture = att[i].capture /\ new.tried = att[i].tried
      /\ new.launch /\ new.failed = att[i].failed
  BY <1>2 DEF Attempt, Stages, Active
<1>5. /\ att[i].stage \in Active /\ "launching" \in Active
      /\ "launching" = att[i].stage \/ "launching" \in Transitions[att[i].stage]
  BY <1>2, Follows DEF Active
<1> HIDE DEF new
<1>6. /\ Journal' /\ att'[i] = new /\ \A j \in Ids \ {i} : att'[j] = att[j]
      /\ \A j \in Ids : (Settled(j)' <=> Settled(j)) /\ (Gone(j)' <=> Gone(j))
      /\ \A r \in Runs : Failed(r)' <=> Failed(r)
  BY <1>1, <1>4, <1>5, Advances
<1>7. /\ x'[e].pc = "observed" /\ x'[e].run = x[e].run /\ x'[e].cur = x[e].cur
      /\ x'[e].clean = x[e].clean /\ x'[e].recovering = x[e].recovering
      /\ x'[e].seen = seen
  <2>1. x'[e] = [x[e] EXCEPT !.pc = "observed", !.seen = seen] /\ x[e] \in Memory
    BY <1>1, Became DEF IInv, TypeOK
  <2> HIDE DEF seen
  <2> QED BY <2>1 DEF Memory
<1>8. Reconciling(x[e])' /\ AtWork(x[e])' /\ Unfailed(x[e])'
  BY <1>1, <1>2, <1>4, <1>6, <1>7, MovesOn DEF StageAt
<1>9. SettingUp(x[e])'
  BY <1>7 DEF SettingUp
<1>10. x[e].clean.stopped => /\ alive[i] \cap (att[i].owned \cup {"daemon"}) \subseteq seen
                             /\ "setup" \notin alive[i]
  BY <1>1, <1>3 DEF Reporting, SettingUp, Recorded
<1>11. Reporting(x[e])'
  <2> HIDE DEF seen
  <2> QED BY <1>1, <1>4, <1>6, <1>7, <1>10 DEF Reporting, Recorded
<1> QED BY <1>1, <1>6, <1>8, <1>9, <1>11, GoesOn DEF Executor, Kept

\* BeginInteraction: a launched attempt may be interacted with.
LEMMA BeginInteractionKeeps ==
  ASSUME IInv, NEW e \in Procs, BeginInteraction(e)
  PROVE  Kept'
<1> DEFINE i == x[e].cur
           new == [att[i] EXCEPT !.stage = "interacting"]
<1>1. /\ x[e].pc = "started" /\ Save(i, new)
      /\ Goto(e, "interact")
      /\ UNCHANGED <<report, unrec, alive, native>>
  BY DEF BeginInteraction
<1>2. /\ i \in Ids /\ att[i] \in Attempt /\ x[e].run \in Runs
      /\ att[i].stage \in {"launching"}
  BY <1>1, InHand, AtHand DEF StageAt
<1>3. SettingUp(x[e]) /\ Reporting(x[e])
  BY <1>1, AtHand
<1>4. /\ new \in Attempt /\ new.stage = "interacting" /\ new.run = att[i].run
      /\ new.owned = att[i].owned /\ new.capture = att[i].capture /\ new.tried = att[i].tried
      /\ new.launch = att[i].launch /\ new.failed = att[i].failed
  BY <1>2 DEF Attempt, Stages, Active
<1>5. /\ att[i].stage \in Active /\ "interacting" \in Active
      /\ "interacting" = att[i].stage \/ "interacting" \in Transitions[att[i].stage]
  BY <1>2, Follows DEF Active
<1> HIDE DEF new
<1>6. /\ Journal' /\ att'[i] = new /\ \A j \in Ids \ {i} : att'[j] = att[j]
      /\ \A j \in Ids : (Settled(j)' <=> Settled(j)) /\ (Gone(j)' <=> Gone(j))
      /\ \A r \in Runs : Failed(r)' <=> Failed(r)
  BY <1>1, <1>4, <1>5, Advances
<1>7. /\ x'[e].pc = "interact" /\ x'[e].run = x[e].run /\ x'[e].cur = x[e].cur
      /\ x'[e].clean = x[e].clean /\ x'[e].recovering = x[e].recovering
      /\ x'[e].seen = x[e].seen
  BY <1>1, Went
<1>8. Reconciling(x[e])' /\ AtWork(x[e])' /\ Unfailed(x[e])'
  BY <1>1, <1>2, <1>4, <1>6, <1>7, MovesOn DEF StageAt
<1>9. SettingUp(x[e])'
  BY <1>7 DEF SettingUp
<1>11. Reporting(x[e])'
  BY <1>1, <1>3, <1>4, <1>6, <1>7 DEF Reporting, Recorded
<1> QED BY <1>1, <1>6, <1>8, <1>9, <1>11, GoesOn DEF Executor, Kept, Goto

\* BeginStop: an active attempt may be stopped.
LEMMA BeginStopKeeps ==
  ASSUME IInv, NEW e \in Procs, BeginStop(e)
  PROVE  Kept'
<1> DEFINE i == x[e].cur
           new == [att[i] EXCEPT !.stage = "stopping"]
<1>1. /\ x[e].pc = "stop" /\ Save(i, new)
      /\ Goto(e, "close")
      /\ UNCHANGED <<report, unrec, alive, native>>
  BY DEF BeginStop
<1>2. /\ i \in Ids /\ att[i] \in Attempt /\ x[e].run \in Runs
      /\ att[i].stage \in {"preparing", "launching", "interacting"}
  BY <1>1, InHand, AtHand DEF StageAt
<1>3. SettingUp(x[e]) /\ Reporting(x[e])
  BY <1>1, AtHand
<1>4. /\ new \in Attempt /\ new.stage = "stopping" /\ new.run = att[i].run
      /\ new.owned = att[i].owned /\ new.capture = att[i].capture /\ new.tried = att[i].tried
      /\ new.launch = att[i].launch /\ new.failed = att[i].failed
  BY <1>2 DEF Attempt, Stages, Active
<1>5. /\ att[i].stage \in Active /\ "stopping" \in Active
      /\ "stopping" = att[i].stage \/ "stopping" \in Transitions[att[i].stage]
  BY <1>2, Follows DEF Active
<1> HIDE DEF new
<1>6. /\ Journal' /\ att'[i] = new /\ \A j \in Ids \ {i} : att'[j] = att[j]
      /\ \A j \in Ids : (Settled(j)' <=> Settled(j)) /\ (Gone(j)' <=> Gone(j))
      /\ \A r \in Runs : Failed(r)' <=> Failed(r)
  BY <1>1, <1>4, <1>5, Advances
<1>7. /\ x'[e].pc = "close" /\ x'[e].run = x[e].run /\ x'[e].cur = x[e].cur
      /\ x'[e].clean = x[e].clean /\ x'[e].recovering = x[e].recovering
      /\ x'[e].seen = x[e].seen
  BY <1>1, Went
<1>8. Reconciling(x[e])' /\ AtWork(x[e])' /\ Unfailed(x[e])'
  BY <1>1, <1>2, <1>4, <1>6, <1>7, MovesOn DEF StageAt
<1>9. SettingUp(x[e])'
  BY <1>7 DEF SettingUp
<1>11. Reporting(x[e])'
  BY <1>1, <1>3, <1>4, <1>6, <1>7 DEF Reporting, Recorded
<1> QED BY <1>1, <1>6, <1>8, <1>9, <1>11, GoesOn DEF Executor, Kept, Goto

\* An attempt that its executor recovers was stopped, and is about to be captured.
LEMMA RecoverKeeps ==
  ASSUME IInv, NEW e \in Procs, NEW i \in Ids, Recover(e, i)
  PROVE  Kept'
<1> DEFINE new == [att[i] EXCEPT !.stage = "stopping"]
<1>1. /\ x[e].pc = "recover" /\ att[i].stage \in Active /\ Save(i, new)
      /\ UNCHANGED <<report, unrec, alive, native>>
  BY DEF Recover
<1>2. att[i] \in Attempt /\ report[i] \in Report /\ x[e] \in Memory
  BY DEF IInv, TypeOK
<1>3. PICK errors \in BOOLEAN :
        Become(e, [x[e] EXCEPT !.pc = "evidence", !.cur = i, !.recovering = TRUE,
                               !.todo = @ \ {i}, !.clean = [report[i] EXCEPT !.errors = errors]])
  BY <1>2 DEF Recover, Report
<1> DEFINE clean == [report[i] EXCEPT !.errors = errors]
<1>4. /\ clean.known = report[i].known /\ clean.closed = report[i].closed
      /\ clean.stopped = report[i].stopped
  BY <1>2 DEF Report
<1>5. /\ new \in Attempt /\ new.stage = "stopping" /\ new.run = att[i].run
      /\ new.owned = att[i].owned /\ new.capture = att[i].capture /\ new.tried = att[i].tried
      /\ new.launch = att[i].launch
  BY <1>2 DEF Attempt, Stages, Active
<1>6. att[i].run \in Runs /\ att[i].capture = "none"
  BY <1>1 DEF IInv, Kept, Journal, Fresh, Active
<1>7. Valid(att[i], new)
  BY <1>1, <1>5, Follows DEF Valid, Active
<1>8. x'[e] = [x[e] EXCEPT !.pc = "evidence", !.cur = i, !.recovering = TRUE,
                           !.todo = @ \ {i}, !.clean = clean]
  BY <1>3, Became
<1> HIDE DEF new, clean
<1>9. /\ Journal' /\ att'[i] = new /\ \A j \in Ids \ {i} : att'[j] = att[j]
  BY <1>1, <1>5, <1>6, <1>7, SaveKeeps
<1>10. x'[e].pc = "evidence" /\ x'[e].cur = i /\ x'[e].recovering /\ x'[e].clean = clean
  BY <1>2, <1>8 DEF Memory
<1>11. AllSettled /\ Settled(i) /\ Gone(i)
  <2>1. AllSettled
    BY <1>1 DEF IInv, Kept, Executor, Reconciling
  <2> QED BY <1>1, <2>1 DEF AllSettled, Active, IInv, Kept, Journal, Truthful
<1>12. /\ OthersSettled(i)' /\ Gone(i)' /\ "daemon" \notin alive[i]
  BY <1>1, <1>5, <1>9, <1>11 DEF AllSettled, OthersSettled, Settled, Gone, Recorded
<1>13. clean.known /\ Quiescent(clean)
  BY <1>4, <1>11 DEF Settled, Quiescent
<1>14. AtWork(x[e])'
  BY <1>5, <1>9, <1>10, <1>12, <1>13 DEF AtWork, StageAt
<1>15. Reporting(x[e])'
  BY <1>1, <1>10, <1>12, <1>13 DEF Reporting
<1> QED BY <1>1, <1>3, <1>9, <1>10, <1>14, <1>15, GoesOn
        DEF Kept, Executor, Reconciling, SettingUp, Unfailed

\* A new attempt starts from nothing.
LEMMA ReserveKeeps ==
  ASSUME IInv, NEW e \in Procs, NEW t \in Trials, Reserve(e, t)
  PROVE  Kept'
<1>1. /\ x[e].pc = "trials" /\ UNCHANGED <<report, unrec, alive, native>>
  BY DEF Reserve
<1>2. PICK i \in Ids \ Exists :
        /\ Save(i, [NoAttempt EXCEPT !.run = x[e].run, !.trial = {t}, !.stage = "reserved"])
        /\ Become(e, [x[e] EXCEPT !.pc = "prepare", !.cur = i, !.plan = @ \ {t}, !.seen = {},
                                  !.clean = CleanReport, !.recovering = FALSE])
  BY DEF Reserve
<1> DEFINE new == [NoAttempt EXCEPT !.run = x[e].run, !.trial = {t}, !.stage = "reserved"]
<1>3. x[e] \in Memory /\ x[e].run \in Runs
  BY <1>1 DEF IInv, TypeOK, Placed, PlacedAt
<1>4. att[i] = NoAttempt /\ att[i].stage = "none" /\ report[i] = NoReport /\ alive[i] = {}
  BY <1>2 DEF Exists, IInv, Kept, Journal, Fresh
<1>5. /\ new \in Attempt /\ new.stage = "reserved" /\ new.run = x[e].run /\ new.owned = {}
      /\ new.capture = "none" /\ ~ new.tried /\ ~ new.launch /\ ~ new.failed
  BY <1>3, ConstantTypes DEF Attempt, Stages, Active, NoAttempt
<1>6. /\ Valid(att[i], new) /\ att[i].owned = {}
  BY <1>4, <1>5, Follows DEF Valid, NoAttempt
<1>7. x'[e] = [x[e] EXCEPT !.pc = "prepare", !.cur = i, !.plan = @ \ {t}, !.seen = {},
                           !.clean = CleanReport, !.recovering = FALSE]
  BY <1>2, Became
<1> HIDE DEF new
<1>8. Save(i, new)
  BY <1>2 DEF new
<1>9. Journal' /\ att'[i] = new /\ \A j \in Ids \ {i} : att'[j] = att[j]
  BY <1>1, <1>3, <1>5, <1>6, <1>8, SaveKeeps
<1>10. /\ x'[e].pc = "prepare" /\ x'[e].cur = i /\ ~ x'[e].recovering /\ x'[e].seen = {}
       /\ x'[e].run = x[e].run
  BY <1>3, <1>7 DEF Memory
<1>11. AllSettled /\ ~ Failed(x[e].run)
  BY <1>1 DEF IInv, Kept, Executor, Reconciling, Unfailed
<1>12. OthersSettled(i)' /\ ~ Failed(x[e].run)'
  <2>1. OthersSettled(i)'
    BY <1>1, <1>9, <1>11 DEF AllSettled, OthersSettled, Settled
  <2>2. \A j \in Ids : att'[j].failed => att[j].failed /\ att'[j].run = att[j].run
    BY <1>5, <1>9
  <2> QED BY <1>10, <1>11, <2>1, <2>2 DEF Failed, Used
<1>13. AtWork(x[e])'
  BY <1>1, <1>4, <1>5, <1>9, <1>10, <1>12 DEF AtWork, StageAt, NoReport
<1>14. SettingUp(x[e])'
  BY <1>1, <1>4, <1>5, <1>9, <1>10 DEF SettingUp
<1>15. Unfailed(x[e])'
  BY <1>5, <1>9, <1>10, <1>12 DEF Unfailed
<1> QED BY <1>1, <1>2, <1>9, <1>10, <1>13, <1>14, <1>15, GoesOn
        DEF Kept, Executor, Reconciling, Reporting

\* Once an attempt is captured everything is settled, or the executor ends.
LEMMA CaptureKeeps ==
  ASSUME IInv, NEW e \in Procs, Capture(e)
  PROVE  Kept'
<1> DEFINE i == x[e].cur
           on(pc) == [x[e] EXCEPT !.pc = pc, !.cur = NoId, !.seen = {}, !.clean = CleanReport,
                                  !.recovering = FALSE]
<1>1. /\ x[e].pc = "capture" /\ UNCHANGED <<report, unrec, alive>>
  BY DEF Capture
<1>2. /\ i \in Ids /\ att[i] \in Attempt /\ x[e] \in Memory
  BY <1>1, InHand DEF IInv, TypeOK
<1>3. /\ att[i].stage = "stopping" /\ OthersSettled(i)
      /\ x[e].recovering => Quiescent(x[e].clean)
      /\ ~ x[e].recovering => ~ Failed(x[e].run)
      /\ Reporting(x[e])
  BY <1>1, AtHand DEF StageAt
<1>4. att[i].run \in Runs /\ att[i].capture = "none"
  BY <1>2, <1>3 DEF IInv, Kept, Journal, Fresh
<1>5. PICK how \in {"none", "full", "partial"}, failed \in BOOLEAN, pc \in {"recover", "trials"} :
        /\ Save(i, [att[i] EXCEPT !.stage = "captured", !.capture = how, !.failed = failed])
        /\ pc = "recover" <=> x[e].recovering
        /\ \/ Leave(e)
           \/ Become(e, on(pc)) /\ native' = native /\ (x[e].recovering \/ Quiescent(x[e].clean))
              /\ (pc = "trials" => failed = att[i].failed)
  <2>1. CASE \E how \in IF Quiescent(x[e].clean) THEN {"full", "partial"} ELSE {"partial"} :
               /\ Save(i, [att[i] EXCEPT !.stage = "captured", !.capture = how])
               /\ IF x[e].recovering \/ Quiescent(x[e].clean)
                  THEN Become(e, on(IF x[e].recovering THEN "recover" ELSE "trials"))
                       /\ UNCHANGED locks
                  ELSE Leave(e)
    <3>1. \A how : [att[i] EXCEPT !.stage = "captured", !.capture = how] =
                   [att[i] EXCEPT !.stage = "captured", !.capture = how, !.failed = att[i].failed]
      BY <1>2 DEF Attempt
    <3>2. att[i].failed \in BOOLEAN
      BY <1>2 DEF Attempt
    <3>3. PICK how \in {"full", "partial"} :
               /\ Save(i, [att[i] EXCEPT !.stage = "captured", !.capture = how])
               /\ IF x[e].recovering \/ Quiescent(x[e].clean)
                  THEN Become(e, on(IF x[e].recovering THEN "recover" ELSE "trials"))
                       /\ UNCHANGED locks
                  ELSE Leave(e)
      BY <2>1
    <3>4. Save(i, [att[i] EXCEPT !.stage = "captured", !.capture = how, !.failed = att[i].failed])
      BY <3>1, <3>3
    <3> QED BY <3>2, <3>3, <3>4
  <2>2. CASE /\ Save(i, [att[i] EXCEPT !.stage = "captured", !.failed = TRUE])
             /\ IF x[e].recovering
                THEN Become(e, on(IF x[e].recovering THEN "recover" ELSE "trials"))
                     /\ UNCHANGED locks
                ELSE Leave(e)
    <3>1. [att[i] EXCEPT !.stage = "captured", !.failed = TRUE] =
          [att[i] EXCEPT !.stage = "captured", !.capture = "none", !.failed = TRUE]
      BY <1>2, <1>4 DEF Attempt
    <3> QED BY <2>2, <3>1
  <2> QED BY <2>1, <2>2 DEF Capture
<1> DEFINE new == [att[i] EXCEPT !.stage = "captured", !.capture = how, !.failed = failed]
<1>6. /\ new \in Attempt /\ new.stage = "captured" /\ new.run = att[i].run
      /\ new.owned = att[i].owned /\ new.tried = att[i].tried /\ new.failed = failed
  BY <1>2 DEF Attempt, Stages, Active
<1>7. Valid(att[i], new)
  BY <1>3, <1>4, <1>6, Follows DEF Valid
<1> HIDE DEF new
<1>8. Save(i, new)
  BY <1>5 DEF new
<1>9. Journal' /\ att'[i] = new /\ \A j \in Ids \ {i} : att'[j] = att[j]
  BY <1>1, <1>2, <1>4, <1>6, <1>7, <1>8, SaveKeeps
<1>10. CASE Leave(e)
  BY <1>1, <1>9, <1>10, Unwinds DEF Kept
<1>11. CASE ~ Leave(e)
  <2>1. /\ Become(e, on(pc)) /\ native' = native
        /\ x[e].recovering \/ Quiescent(x[e].clean)
        /\ pc = "trials" => failed = att[i].failed
    BY <1>5, <1>11
  <2>2. x'[e].pc = pc /\ x'[e].run = x[e].run
    <3>1. x'[e] = on(pc)
      BY <2>1, Became
    <3> QED BY <1>2, <3>1 DEF Memory
  <2>3. Settled(i)
    BY <1>1, <1>3, <2>1 DEF Reporting, Settled
  <2>4. AllSettled'
    BY <1>1, <1>3, <1>9, <2>3 DEF AllSettled, OthersSettled, Settled
  <2>5. Reconciling(x[e])'
    BY <2>2, <2>4 DEF Reconciling
  <2>6. pc = "trials" => ~ Failed(x[e].run)'
    <3>1. SUFFICES ASSUME pc = "trials" PROVE ~ Failed(x[e].run)'
      OBVIOUS
    <3>2. ~ Failed(x[e].run) /\ x'[e].run = x[e].run
      BY <1>3, <1>5, <2>2, <3>1
    <3>3. \A j \in Ids : att'[j].run = att[j].run /\ att'[j].failed = att[j].failed
      BY <1>6, <1>9, <2>1, <3>1
    <3> QED BY <3>2, <3>3 DEF Failed, Used
  <2>7. Executor(x[e])'
    BY <2>2, <2>5, <2>6 DEF Executor, AtWork, SettingUp, Reporting, Unfailed
  <2> QED BY <1>1, <1>9, <2>1, <2>7, GoesOn DEF Kept
<1> QED BY <1>10, <1>11

-----------------------------------------------------------------------------
(* The steps of the trials: what executors publish and report. *)

\* What the executor at work publishes of its attempt keeps what the journals say.
LEMMA Publishes ==
  ASSUME IInv, NEW e \in Procs, x[e].pc \in Conducting,
         NEW kinds \in SUBSET Kinds, Own(x[e].cur, kinds), UNCHANGED alive
  PROVE  /\ Journal' /\ UNCHANGED report
         /\ \A j \in Ids \ {x[e].cur} : att'[j] = att[j] /\ (Settled(j)' <=> Settled(j))
         /\ att'[x[e].cur].owned = att[x[e].cur].owned \cup kinds
         /\ att'[x[e].cur].launch = att[x[e].cur].launch
         /\ att'[x[e].cur].stage = att[x[e].cur].stage
         /\ att'[x[e].cur].tried = att[x[e].cur].tried
         /\ att'[x[e].cur].run = att[x[e].cur].run
         /\ \A r \in Runs : Failed(r)' <=> Failed(r)
<1> DEFINE i == x[e].cur
<1>1. i \in Ids
  BY InHand
<1>2. att[i].stage # "none" /\ \A j \in Ids \ {i} : "daemon" \notin alive[j]
  BY WorksAlone, AtHand DEF StageAt
<1>3. /\ Journal' /\ \A j \in Ids \ {i} : att'[j] = att[j]
      /\ att'[i].owned = att[i].owned \cup kinds /\ att'[i].launch = att[i].launch
      /\ att'[i].stage = att[i].stage /\ att'[i].tried = att[i].tried
      /\ att'[i].run = att[i].run /\ att'[i].failed = att[i].failed
  BY <1>1, <1>2, OwnKeeps
<1>4. UNCHANGED report /\ \A j \in Ids \ {i} : Settled(j)' <=> Settled(j)
  BY <1>1 DEF Own, Settled
<1>5. \A r \in Runs : Failed(r)' <=> Failed(r)
  <2>1. \A j \in Ids : att'[j].run = att[j].run /\ att'[j].failed = att[j].failed
    BY <1>3
  <2> QED BY <2>1 DEF Failed, Used
<1> QED BY <1>3, <1>4, <1>5

\* The setup command that was started is published.
LEMMA ClaimSetupKeeps ==
  ASSUME IInv, NEW e \in Procs, ClaimSetup(e)
  PROVE  Kept'
<1> DEFINE i == x[e].cur
<1>1. /\ x[e].pc = "claim" /\ Own(i, x[e].seen) /\ Goto(e, "setting")
      /\ UNCHANGED <<alive, native>>
  BY DEF ClaimSetup
<1>2. x[e].seen \in SUBSET Kinds /\ i \in Ids /\ x[e].run \in Runs
  BY <1>1, InHand
<1>3. att[i].stage \in StageAt("setting") /\ SettingUp(x[e])
  BY <1>1, AtHand DEF StageAt
<1>4. /\ Journal' /\ UNCHANGED report
      /\ \A j \in Ids \ {i} : att'[j] = att[j] /\ (Settled(j)' <=> Settled(j))
      /\ att'[i].owned = att[i].owned \cup x[e].seen /\ att'[i].launch = att[i].launch
      /\ att'[i].stage = att[i].stage /\ att'[i].tried = att[i].tried
      /\ att'[i].run = att[i].run /\ \A r \in Runs : Failed(r)' <=> Failed(r)
  BY <1>1, <1>2, Publishes
<1>5. /\ x'[e].pc = "setting" /\ x'[e].run = x[e].run /\ x'[e].cur = x[e].cur
      /\ x'[e].clean = x[e].clean /\ x'[e].recovering = x[e].recovering
      /\ x'[e].seen = x[e].seen
  BY <1>1, Went
<1>6. Reconciling(x[e])' /\ AtWork(x[e])' /\ Unfailed(x[e])'
  BY <1>1, <1>2, <1>3, <1>4, <1>5, MovesOn
<1>7. SettingUp(x[e])'
  BY <1>1, <1>3, <1>4, <1>5 DEF SettingUp
<1>8. Reporting(x[e])'
  BY <1>1, <1>3, <1>4, <1>5 DEF SettingUp, Reporting, Recorded
<1> QED BY <1>1, <1>4, <1>6, <1>7, <1>8, GoesOn DEF Executor, Kept, Goto

\* What the setup command left is published before the trial goes on.
LEMMA OwnSetupKeeps ==
  ASSUME IInv, NEW e \in Procs, OwnSetup(e)
  PROVE  Kept'
<1> DEFINE i == x[e].cur
<1>1. /\ x[e].pc = "setup_own" /\ Own(i, x[e].seen) /\ UNCHANGED <<alive, native>>
  BY DEF OwnSetup
<1>2. PICK pc \in {"plan", "stop"} :
        /\ Become(e, [x[e] EXCEPT !.pc = pc, !.seen = {}])
        /\ pc = "plan" <=> x[e].clean.stopped
  BY DEF OwnSetup
<1>3. x[e].seen \in SUBSET Kinds /\ i \in Ids /\ x[e].run \in Runs
  BY <1>1, InHand
<1>4. att[i].stage \in StageAt(pc) /\ SettingUp(x[e]) /\ Reporting(x[e])
  BY <1>1, AtHand DEF StageAt
<1>5. /\ Journal' /\ UNCHANGED report
      /\ \A j \in Ids \ {i} : att'[j] = att[j] /\ (Settled(j)' <=> Settled(j))
      /\ att'[i].owned = att[i].owned \cup x[e].seen /\ att'[i].launch = att[i].launch
      /\ att'[i].stage = att[i].stage /\ att'[i].tried = att[i].tried
      /\ att'[i].run = att[i].run /\ \A r \in Runs : Failed(r)' <=> Failed(r)
  BY <1>1, <1>3, Publishes
<1>6. /\ x'[e].pc = pc /\ x'[e].run = x[e].run /\ x'[e].cur = x[e].cur
      /\ x'[e].clean = x[e].clean /\ x'[e].recovering = x[e].recovering /\ x'[e].seen = {}
  <2>1. x'[e] = [x[e] EXCEPT !.pc = pc, !.seen = {}] /\ x[e] \in Memory
    BY <1>2, Became DEF IInv, TypeOK
  <2> QED BY <2>1 DEF Memory
<1>7. Reconciling(x[e])' /\ AtWork(x[e])' /\ Unfailed(x[e])'
  BY <1>1, <1>3, <1>4, <1>5, <1>6, MovesOn
<1>8. SettingUp(x[e])'
  BY <1>1, <1>4, <1>5, <1>6 DEF SettingUp
<1>9. Reporting(x[e])'
  BY <1>1, <1>2, <1>4, <1>5, <1>6 DEF SettingUp, Reporting, Recorded
<1> QED BY <1>1, <1>2, <1>5, <1>7, <1>8, <1>9, GoesOn DEF Executor, Kept

\* The terminal is published once it is known.
LEMMA PublishLaunchKeeps ==
  ASSUME IInv, NEW e \in Procs, PublishLaunch(e)
  PROVE  Kept'
<1> DEFINE i == x[e].cur
<1>1. /\ x[e].pc = "observed" /\ Own(i, x[e].seen) /\ Goto(e, "started")
      /\ UNCHANGED <<alive, native>>
  BY DEF PublishLaunch
<1>2. x[e].seen \in SUBSET Kinds /\ i \in Ids /\ x[e].run \in Runs
  BY <1>1, InHand
<1>3. att[i].stage \in StageAt("started") /\ Reporting(x[e])
  BY <1>1, AtHand DEF StageAt
<1>4. /\ Journal' /\ UNCHANGED report
      /\ \A j \in Ids \ {i} : att'[j] = att[j] /\ (Settled(j)' <=> Settled(j))
      /\ att'[i].owned = att[i].owned \cup x[e].seen /\ att'[i].launch = att[i].launch
      /\ att'[i].stage = att[i].stage /\ att'[i].tried = att[i].tried
      /\ att'[i].run = att[i].run /\ \A r \in Runs : Failed(r)' <=> Failed(r)
  BY <1>1, <1>2, Publishes
<1>5. /\ x'[e].pc = "started" /\ x'[e].run = x[e].run /\ x'[e].cur = x[e].cur
      /\ x'[e].clean = x[e].clean /\ x'[e].recovering = x[e].recovering
      /\ x'[e].seen = x[e].seen
  BY <1>1, Went
<1>6. Reconciling(x[e])' /\ AtWork(x[e])' /\ Unfailed(x[e])'
  BY <1>1, <1>2, <1>3, <1>4, <1>5, MovesOn
<1>7. SettingUp(x[e])'
  BY <1>5 DEF SettingUp
<1>8. Reporting(x[e])'
  BY <1>1, <1>3, <1>4, <1>5 DEF Reporting, Recorded
<1> QED BY <1>1, <1>4, <1>6, <1>7, <1>8, GoesOn DEF Executor, Kept, Goto

\* What the monitor has noticed is published while the subject runs.
LEMMA PollKeeps ==
  ASSUME IInv, NEW e \in Procs, Poll(e)
  PROVE  Kept'
<1> DEFINE i == x[e].cur
<1>1. /\ x[e].pc \in {"setting", "started", "interact"} /\ Own(i, x[e].seen)
      /\ UNCHANGED <<x, alive, native>>
  BY DEF Poll
<1>2. x[e].seen \in SUBSET Kinds /\ i \in Ids /\ x[e].run \in Runs
  BY <1>1, InHand
<1>3. att[i].stage \in StageAt(x[e].pc) /\ SettingUp(x[e]) /\ Reporting(x[e])
  BY <1>1, AtHand
<1>4. /\ Journal' /\ UNCHANGED report
      /\ \A j \in Ids \ {i} : att'[j] = att[j] /\ (Settled(j)' <=> Settled(j))
      /\ att'[i].owned = att[i].owned \cup x[e].seen /\ att'[i].launch = att[i].launch
      /\ att'[i].stage = att[i].stage /\ att'[i].tried = att[i].tried
      /\ att'[i].run = att[i].run /\ \A r \in Runs : Failed(r)' <=> Failed(r)
  BY <1>1, <1>2, Publishes
<1>5. Reconciling(x[e])' /\ AtWork(x[e])' /\ Unfailed(x[e])'
  BY <1>1, <1>2, <1>3, <1>4, MovesOn
<1>6. SettingUp(x[e])'
  BY <1>1, <1>3, <1>4 DEF SettingUp
<1>7. Reporting(x[e])'
  BY <1>1, <1>3, <1>4 DEF Reporting, Recorded
<1>8. Become(e, x[e])
  BY <1>1 DEF Become, IInv, TypeOK
<1> QED BY <1>1, <1>4, <1>5, <1>6, <1>7, <1>8, GoesOn DEF Executor, Kept

\* Whatever a stop turned up is published before the report of it.
LEMMA OwnCleanupKeeps ==
  ASSUME IInv, NEW e \in Procs, OwnCleanup(e)
  PROVE  Kept'
<1> DEFINE i == x[e].cur
<1>1. /\ x[e].pc = "own" /\ Own(i, x[e].seen) /\ Goto(e, "evidence")
      /\ UNCHANGED <<alive, native>>
  BY DEF OwnCleanup
<1>2. x[e].seen \in SUBSET Kinds /\ i \in Ids /\ x[e].run \in Runs
  BY <1>1, InHand
<1>3. att[i].stage \in StageAt("evidence") /\ Reporting(x[e])
  BY <1>1, AtHand DEF StageAt
<1>4. /\ Journal' /\ UNCHANGED report
      /\ \A j \in Ids \ {i} : att'[j] = att[j] /\ (Settled(j)' <=> Settled(j))
      /\ att'[i].owned = att[i].owned \cup x[e].seen /\ att'[i].launch = att[i].launch
      /\ att'[i].stage = att[i].stage /\ att'[i].tried = att[i].tried
      /\ att'[i].run = att[i].run /\ \A r \in Runs : Failed(r)' <=> Failed(r)
  BY <1>1, <1>2, Publishes
<1>5. /\ x'[e].pc = "evidence" /\ x'[e].run = x[e].run /\ x'[e].cur = x[e].cur
      /\ x'[e].clean = x[e].clean /\ x'[e].recovering = x[e].recovering
      /\ x'[e].seen = x[e].seen
  BY <1>1, Went
<1>6. Reconciling(x[e])' /\ AtWork(x[e])' /\ Unfailed(x[e])'
  BY <1>1, <1>2, <1>3, <1>4, <1>5, MovesOn
<1>7. SettingUp(x[e])'
  BY <1>5 DEF SettingUp
<1>8. Reporting(x[e])'
  BY <1>1, <1>3, <1>4, <1>5 DEF Reporting, Recorded, Gone
<1> QED BY <1>1, <1>4, <1>6, <1>7, <1>8, GoesOn DEF Executor, Kept, Goto

\* The report of a stop is what was found.
LEMMA RecordCleanupKeeps ==
  ASSUME IInv, NEW e \in Procs, RecordCleanup(e)
  PROVE  Kept'
<1> DEFINE i == x[e].cur
<1>1. /\ x[e].pc = "evidence" /\ Evidence(i, x[e].clean) /\ Goto(e, "capture")
      /\ UNCHANGED <<alive, native>>
  BY DEF RecordCleanup
<1>2. x[e].clean \in Report /\ i \in Ids /\ x[e].run \in Runs
  BY <1>1, InHand
<1>3. /\ att[i].stage = "stopping" /\ OthersSettled(i)
      /\ x[e].recovering => x[e].clean.known /\ Quiescent(x[e].clean)
      /\ ~ x[e].recovering => ~ Failed(x[e].run) /\ att[i].run = x[e].run
      /\ Reporting(x[e])
  BY <1>1, AtHand DEF StageAt
<1>4. /\ Quiescent(x[e].clean) => Gone(i)
      /\ x[e].clean.known /\ (x[e].clean.closed => "daemon" \notin alive[i])
  BY <1>1, <1>3 DEF Reporting
<1>5. Journal' /\ report'[i] = x[e].clean /\ \A j \in Ids \ {i} : report'[j] = report[j]
  BY <1>1, <1>2, <1>3, <1>4, EvidenceKeeps
<1>6. /\ x'[e].pc = "capture" /\ x'[e].run = x[e].run /\ x'[e].cur = x[e].cur
      /\ x'[e].clean = x[e].clean /\ x'[e].recovering = x[e].recovering
  BY <1>1, Went
<1>7. UNCHANGED att /\ i \notin unrec' /\ \A j \in Ids \ {i} : Settled(j)' <=> Settled(j)
  BY <1>1, <1>5 DEF Evidence, Settled
<1>8. AtWork(x[e])'
  BY <1>3, <1>6, <1>7 DEF AtWork, StageAt, OthersSettled
<1>9. Reporting(x[e])'
  BY <1>4, <1>5, <1>6, <1>7 DEF Reporting
<1>10. Unfailed(x[e])'
  BY <1>3, <1>6, <1>7 DEF Unfailed, Failed, Used
<1> QED BY <1>1, <1>5, <1>6, <1>8, <1>9, <1>10, GoesOn
        DEF Executor, Reconciling, SettingUp, Kept, Goto

-----------------------------------------------------------------------------
(* The steps of the trials: processes that start and end. *)

\* A setup command starts where nothing runs.
LEMMA SpawnSetupKeeps ==
  ASSUME IInv, NEW e \in Procs, SpawnSetup(e)
  PROVE  Kept'
<1> DEFINE i == x[e].cur
<1>1. /\ x[e].pc = "setup" /\ alive' = [alive EXCEPT ![i] = @ \cup {"setup"}]
      /\ Become(e, [x[e] EXCEPT !.pc = "claim", !.seen = {"setup"}])
      /\ UNCHANGED <<att, report, unrec, refused, native>>
  BY DEF SpawnSetup
<1>2. i \in Ids /\ x[e].run \in Runs
  BY <1>1, InHand
<1>3. /\ att[i].stage \in StageAt("claim") /\ att[i].stage # "none" /\ SettingUp(x[e])
      /\ ~ report[i].known /\ alive[i] = {} /\ att[i].owned = {} /\ ~ att[i].launch
  BY <1>1, AtHand DEF StageAt, SettingUp
<1>4. alive'[i] = {"setup"} /\ \A j \in Ids \ {i} : alive'[j] = alive[j]
  BY <1>1, <1>2, <1>3 DEF IInv, TypeOK
<1>5. \A j \in Ids : "daemon" \notin alive'[j]
  BY <1>1, <1>4, WorksAlone
<1>6. Journal'
  <2>1. Fresh'
    BY <1>1, <1>3, <1>4 DEF Fresh, IInv, Kept, Journal
  <2>2. Truthful'
    BY <1>1, <1>3, <1>4, <1>5 DEF Truthful, Settled, Gone, Recorded, IInv, Kept, Journal
  <2>3. NoOverlap'
    BY <1>5 DEF NoOverlap
  <2> QED BY <1>1, <2>1, <2>2, <2>3 DEF Journal, IInv, Kept
<1>7. /\ x'[e].pc = "claim" /\ x'[e].run = x[e].run /\ x'[e].cur = x[e].cur
      /\ x'[e].recovering = x[e].recovering /\ x'[e].seen = {"setup"}
  <2>1. x'[e] = [x[e] EXCEPT !.pc = "claim", !.seen = {"setup"}] /\ x[e] \in Memory
    BY <1>1, Became DEF IInv, TypeOK
  <2> QED BY <2>1 DEF Memory
<1>8. /\ \A j \in Ids : Settled(j)' <=> Settled(j)
      /\ \A r \in Runs : Failed(r)' <=> Failed(r)
  BY <1>1 DEF Settled, Failed, Used
<1>9. Reconciling(x[e])' /\ AtWork(x[e])' /\ Unfailed(x[e])'
  BY <1>1, <1>2, <1>3, <1>7, <1>8, MovesOn
<1>10. SettingUp(x[e])'
  BY <1>1, <1>3, <1>7 DEF SettingUp
<1>11. Reporting(x[e])'
  BY <1>1, <1>3, <1>7 DEF Reporting, Recorded
<1> QED BY <1>1, <1>6, <1>9, <1>10, <1>11, GoesOn DEF Executor, Kept

\* What ends with the setup command is known to have ended.
LEMMA EndSetupKeeps ==
  ASSUME IInv, NEW e \in Procs, EndSetup(e)
  PROVE  Kept'
<1> DEFINE i == x[e].cur
           found == Found(i, x[e].seen)
<1>1. PICK survivors \in SUBSET found :
        /\ alive' = [alive EXCEPT ![i] = @ \ (found \ survivors)]
        /\ Become(e, [x[e] EXCEPT !.pc = "setup_own", !.seen = @ \cup found,
                                  !.clean = [CleanReport EXCEPT !.stopped = (survivors = {})]])
  BY DEF EndSetup
<1>2. x[e].pc = "setting" /\ UNCHANGED <<att, report, unrec, refused, native>>
  BY DEF EndSetup
<1>3. /\ i \in Ids /\ x[e].run \in Runs /\ x[e].seen \subseteq Kinds
      /\ x[e] \in Memory /\ alive \in [Ids -> SUBSET Kinds]
  BY <1>2, InHand DEF IInv, TypeOK
<1>4. /\ att[i].stage \in StageAt("setup_own") /\ ~ att[i].launch /\ ~ att[i].tried
      /\ att[i].owned \subseteq {"setup", "helper"} \cap x[e].seen
      /\ "setup" \in x[e].seen /\ x[e].seen \subseteq {"setup", "helper"}
  BY <1>2, AtHand DEF StageAt, SettingUp
<1>5. x[e].seen \cap alive[i] \subseteq found /\ found \subseteq {"setup", "helper"}
  BY <1>3, <1>4, ForkedIs DEF Found
<1> DEFINE clean == [CleanReport EXCEPT !.stopped = (survivors = {})]
           seen == x[e].seen \cup found
<1>6. clean.stopped <=> survivors = {}
  BY DEF CleanReport
<1>7. /\ x'[e].pc = "setup_own" /\ x'[e].run = x[e].run /\ x'[e].cur = x[e].cur
      /\ x'[e].recovering = x[e].recovering /\ x'[e].seen = seen /\ x'[e].clean = clean
  <2>1. x'[e] = [x[e] EXCEPT !.pc = "setup_own", !.seen = seen, !.clean = clean]
    BY <1>1, Became
  <2> HIDE DEF seen, clean
  <2> QED BY <1>3, <2>1 DEF Memory
<1> HIDE DEF clean, found
<1>8. alive'[i] = alive[i] \ (found \ survivors)
  BY <1>1, <1>3
<1>9. Journal'
  <2> DEFINE left == alive[i] \ (found \ survivors)
  <2>1. left \subseteq alive[i] /\ alive' = [alive EXCEPT ![i] = left]
    BY <1>1
  <2> HIDE DEF left
  <2> QED BY <1>2, <1>3, <2>1, EndingKeeps
<1>10. /\ \A j \in Ids : Settled(j)' <=> Settled(j)
       /\ \A r \in Runs : Failed(r)' <=> Failed(r)
  BY <1>2 DEF Settled, Failed, Used
<1>11. Reconciling(x[e])' /\ AtWork(x[e])' /\ Unfailed(x[e])'
  BY <1>2, <1>3, <1>4, <1>7, <1>10, MovesOn
<1>12. SettingUp(x[e])'
  BY <1>2, <1>4, <1>5, <1>7 DEF SettingUp
<1>13. Reporting(x[e])'
  BY <1>2, <1>4, <1>5, <1>6, <1>7, <1>8 DEF Reporting, Recorded
<1> QED BY <1>1, <1>2, <1>9, <1>11, <1>12, <1>13, GoesOn DEF Executor, Kept

\* The terminal starts when no other terminal runs, nor anything the journals name.
LEMMA SpawnDaemonKeeps ==
  ASSUME IInv, NEW e \in Procs, SpawnDaemon(e)
  PROVE  Kept'
<1> DEFINE i == x[e].cur
<1>1. /\ x[e].pc = "launch" /\ alive' = [alive EXCEPT ![i] = @ \cup {"daemon"}]
      /\ Goto(e, "spawned") /\ UNCHANGED <<att, report, unrec, refused, native>>
  BY DEF SpawnDaemon
<1>2. i \in Ids /\ x[e].run \in Runs
  BY <1>1, InHand
<1>3. /\ att[i].stage \in StageAt("spawned") /\ att[i].stage # "none" /\ SettingUp(x[e])
      /\ ~ report[i].known /\ att[i].tried /\ ~ att[i].launch
      /\ att[i].owned \subseteq {"setup", "helper"} /\ Reporting(x[e])
  BY <1>1, AtHand DEF StageAt, SettingUp
<1>4. alive'[i] = alive[i] \cup {"daemon"} /\ \A j \in Ids \ {i} : alive'[j] = alive[j]
  BY <1>1, <1>2 DEF IInv, TypeOK
<1>5. \A j \in Ids \ {i} : Gone(j) /\ "daemon" \notin alive[j]
  BY <1>1, WorksAlone
<1>6. Journal'
  <2>1. Fresh'
    BY <1>1, <1>3, <1>4 DEF Fresh, IInv, Kept, Journal
  <2>2. Truthful'
    BY <1>1, <1>3, <1>4 DEF Truthful, Settled, Gone, Recorded, IInv, Kept, Journal
  <2>3. NoOverlap'
    BY <1>1, <1>4, <1>5 DEF NoOverlap, Gone, Recorded
  <2> QED BY <1>1, <2>1, <2>2, <2>3 DEF Journal, IInv, Kept
<1>7. /\ x'[e].pc = "spawned" /\ x'[e].run = x[e].run /\ x'[e].cur = x[e].cur
      /\ x'[e].clean = x[e].clean /\ x'[e].recovering = x[e].recovering
      /\ x'[e].seen = x[e].seen
  BY <1>1, Went
<1>8. /\ \A j \in Ids : Settled(j)' <=> Settled(j)
      /\ \A r \in Runs : Failed(r)' <=> Failed(r)
  BY <1>1 DEF Settled, Failed, Used
<1>9. Reconciling(x[e])' /\ AtWork(x[e])' /\ Unfailed(x[e])'
  BY <1>1, <1>2, <1>3, <1>7, <1>8, MovesOn
<1>10. SettingUp(x[e])'
  BY <1>1, <1>3, <1>7 DEF SettingUp
<1>11. Reporting(x[e])'
  BY <1>1, <1>3, <1>4, <1>7 DEF Reporting, Recorded
<1> QED BY <1>1, <1>6, <1>9, <1>10, <1>11, GoesOn DEF Executor, Kept, Goto

\* A stop that reports the terminal closed and its processes stopped is right.
LEMMA CloseKeeps ==
  ASSUME IInv, NEW e \in Procs, Close(e)
  PROVE  Kept'
<1> DEFINE i == x[e].cur
           found == Found(i, x[e].seen)
<1>1. PICK survivors \in SUBSET found, quiet \in BOOLEAN, left \in SUBSET Kinds, closed \in BOOLEAN :
        /\ left = alive[i] \ (found \ survivors)
        /\ closed <=> quiet /\ (att[i].tried => "daemon" \notin left)
        /\ alive' = [alive EXCEPT ![i] = left]
        /\ Become(e, [x[e] EXCEPT
               !.pc = "own", !.seen = @ \cup found,
               !.clean = Combine(@, [known |-> TRUE, closed |-> closed, errors |-> ~ closed,
                                     stopped |-> quiet /\ survivors = {}])])
  <2>1. x[e].pc = "close"
    BY DEF Close
  <2>2. alive[i] \subseteq Kinds
    BY <2>1, InHand
  <2> HIDE DEF found
  <2> QED BY <2>2 DEF Close, found
<1>2. x[e].pc = "close" /\ UNCHANGED <<att, report, unrec, refused, native>>
  BY DEF Close
<1>3. /\ i \in Ids /\ x[e].run \in Runs /\ x[e] \in Memory /\ alive \in [Ids -> SUBSET Kinds]
  BY <1>2, InHand DEF IInv, TypeOK
<1>4. /\ att[i].stage \in StageAt("own") /\ Reporting(x[e])
  BY <1>2, AtHand DEF StageAt
<1>5. x[e].seen \cap alive[i] \subseteq found
  BY DEF Found
<1> DEFINE clean == Combine(x[e].clean, [known |-> TRUE, closed |-> closed, errors |-> ~ closed,
                                         stopped |-> quiet /\ survivors = {}])
           seen == x[e].seen \cup found
<1>6. /\ clean.known /\ (clean.closed => closed)
      /\ clean.stopped => x[e].clean.stopped /\ survivors = {}
  BY DEF Combine
<1>7. /\ x'[e].pc = "own" /\ x'[e].run = x[e].run /\ x'[e].cur = x[e].cur
      /\ x'[e].recovering = x[e].recovering /\ x'[e].seen = seen /\ x'[e].clean = clean
  <2>1. x'[e] = [x[e] EXCEPT !.pc = "own", !.seen = seen, !.clean = clean]
    BY <1>1, Became
  <2> HIDE DEF seen, clean
  <2> QED BY <1>3, <2>1 DEF Memory
<1> HIDE DEF clean, found
<1>8. alive'[i] = left /\ left \subseteq alive[i]
  BY <1>1, <1>3
<1>9. Journal'
  BY <1>1, <1>2, <1>3, <1>8, EndingKeeps
<1>10. closed => "daemon" \notin left
  BY <1>1, <1>3, <1>8 DEF IInv, Kept, Journal, Truthful
<1>11. /\ \A j \in Ids : Settled(j)' <=> Settled(j)
       /\ \A r \in Runs : Failed(r)' <=> Failed(r)
  BY <1>2 DEF Settled, Failed, Used
<1>12. Reconciling(x[e])' /\ AtWork(x[e])' /\ Unfailed(x[e])'
  BY <1>2, <1>3, <1>4, <1>7, <1>11, MovesOn
<1>13. Reporting(x[e])'
  <2>1. Quiescent(clean) => /\ {"setup", "daemon"} \cap left = {}
                            /\ left \cap (Recorded(i) \cup seen) = {}
    BY <1>1, <1>2, <1>4, <1>5, <1>6, <1>8, <1>10 DEF Quiescent, Reporting
  <2>2. Recorded(i)' = Recorded(i)
    BY <1>2, <1>7 DEF Recorded
  <2>3. x'[e].pc = "own" /\ x'[e].cur = i /\ alive'[i] = left
    BY <1>7, <1>8
  <2> HIDE DEF seen
  <2> QED BY <1>6, <1>7, <1>10, <2>1, <2>2, <2>3 DEF Reporting
<1>14. SettingUp(x[e])'
  BY <1>7 DEF SettingUp
<1> QED BY <1>1, <1>2, <1>9, <1>12, <1>13, <1>14, GoesOn DEF Executor, Kept

-----------------------------------------------------------------------------
(* The steps of the trials: what only the executor knows. *)

\* A step of the executor at work that changes only what it holds.
LEMMA Knows ==
  ASSUME IInv, NEW e \in Procs, x[e].pc \in Conducting, NEW new, Become(e, new),
         UNCHANGED <<att, report, unrec, alive, refused, native>>,
         x'[e].pc \in Conducting, x'[e].cur = x[e].cur, x'[e].run = x[e].run,
         x'[e].recovering = x[e].recovering, att[x[e].cur].stage \in StageAt(x'[e].pc),
         SettingUp(x[e])', Reporting(x[e])'
  PROVE  Kept'
<1>1. x[e].cur \in Ids /\ x[e].run \in Runs
  BY InHand
<1>2. /\ \A j \in Ids : Settled(j)' <=> Settled(j)
      /\ \A r \in Runs : Failed(r)' <=> Failed(r)
  BY DEF Settled, Failed, Used
<1>3. Reconciling(x[e])' /\ AtWork(x[e])' /\ Unfailed(x[e])'
  BY <1>1, <1>2, MovesOn
<1> QED BY <1>3, GoesOn, Quiet DEF Executor, Kept

\* There is no setup command: the launch is next.
LEMMA NoSetupKeeps ==
  ASSUME IInv, NEW e \in Procs, NoSetup(e)
  PROVE  Kept'
<1>1. /\ x[e].pc = "setup" /\ Goto(e, "plan")
      /\ UNCHANGED <<att, report, unrec, alive, refused, native>>
  BY DEF NoSetup
<1>2. att[x[e].cur].stage \in StageAt("plan") /\ SettingUp(x[e])
  BY <1>1, AtHand DEF StageAt
<1>3. /\ x'[e].pc = "plan" /\ x'[e].run = x[e].run /\ x'[e].cur = x[e].cur
      /\ x'[e].recovering = x[e].recovering /\ x'[e].seen = x[e].seen
  BY <1>1, Went
<1>4. SettingUp(x[e])' /\ Reporting(x[e])'
  BY <1>1, <1>2, <1>3 DEF SettingUp, Reporting
<1> QED BY <1>1, <1>2, <1>3, <1>4, Knows DEF Goto

\* What the monitor notices is of the attempt.
LEMMA NoticeKeeps ==
  ASSUME IInv, NEW e \in Procs, Notice(e)
  PROVE  Kept'
<1> DEFINE i == x[e].cur
           seen == x[e].seen \cup Forked(i, x[e].seen)
<1>1. /\ x[e].pc \in Watching /\ Become(e, [x[e] EXCEPT !.seen = seen])
      /\ UNCHANGED <<att, report, unrec, alive, refused, native>>
  BY DEF Notice
<1>2. x[e].pc \in Conducting
  BY <1>1 DEF Watching
<1>3. /\ att[i].stage \in StageAt(x[e].pc) /\ SettingUp(x[e]) /\ Reporting(x[e])
      /\ i \in Ids
  BY <1>2, AtHand, InHand
<1>4. "daemon" \notin x[e].seen => Forked(i, x[e].seen) \subseteq {"helper"}
  BY <1>3, ForkedIs
<1>5. /\ x'[e].pc = x[e].pc /\ x'[e].run = x[e].run /\ x'[e].cur = x[e].cur
      /\ x'[e].recovering = x[e].recovering /\ x'[e].clean = x[e].clean /\ x'[e].seen = seen
  <2>1. x'[e] = [x[e] EXCEPT !.seen = seen] /\ x[e] \in Memory
    BY <1>1, Became DEF IInv, TypeOK
  <2> HIDE DEF seen
  <2> QED BY <2>1 DEF Memory
<1>6. SettingUp(x[e])'
  BY <1>1, <1>3, <1>4, <1>5 DEF SettingUp, Watching
<1>7. Reporting(x[e])'
  BY <1>1, <1>3, <1>5 DEF Reporting, Recorded, Watching
<1> QED BY <1>1, <1>2, <1>3, <1>5, <1>6, <1>7, Knows

\* The conversation ends; the attempt is stopped next.
LEMMA EndInteractionKeeps ==
  ASSUME IInv, NEW e \in Procs, EndInteraction(e)
  PROVE  Kept'
<1>1. /\ x[e].pc = "interact" /\ Goto(e, "stop")
      /\ UNCHANGED <<att, report, unrec, alive, refused, native>>
  BY DEF EndInteraction
<1>2. att[x[e].cur].stage \in StageAt("stop") /\ Reporting(x[e])
  BY <1>1, AtHand DEF StageAt
<1>3. /\ x'[e].pc = "stop" /\ x'[e].run = x[e].run /\ x'[e].cur = x[e].cur
      /\ x'[e].recovering = x[e].recovering /\ x'[e].clean = x[e].clean
      /\ x'[e].seen = x[e].seen
  BY <1>1, Went
<1>4. SettingUp(x[e])' /\ Reporting(x[e])'
  BY <1>1, <1>2, <1>3 DEF SettingUp, Reporting, Recorded
<1> QED BY <1>1, <1>2, <1>3, <1>4, Knows DEF Goto

\* So it is when a step on the way raises.
LEMMA RaiseKeeps ==
  ASSUME IInv, NEW e \in Procs, Raise(e)
  PROVE  Kept'
<1>1. /\ x[e].pc \in {"setup", "plan", "launch", "spawned", "observed", "started"}
      /\ Goto(e, "stop") /\ UNCHANGED <<att, report, unrec, alive, refused, native>>
  BY DEF Raise
<1>2. att[x[e].cur].stage \in StageAt("stop") /\ SettingUp(x[e]) /\ Reporting(x[e])
  BY <1>1, AtHand DEF StageAt
<1>3. /\ x'[e].pc = "stop" /\ x'[e].run = x[e].run /\ x'[e].cur = x[e].cur
      /\ x'[e].recovering = x[e].recovering /\ x'[e].clean = x[e].clean
      /\ x'[e].seen = x[e].seen
  BY <1>1, Went
<1>4. SettingUp(x[e])'
  BY <1>3 DEF SettingUp
<1>5. Reporting(x[e])'
  BY <1>1, <1>2, <1>3 DEF SettingUp, Reporting, Recorded
<1> QED BY <1>1, <1>2, <1>3, <1>4, <1>5, Knows DEF Goto

-----------------------------------------------------------------------------
(* What the processes do themselves. *)

\* A fork is of nothing that the journal names, and not of a terminal.
LEMMA ForkKeeps ==
  ASSUME IInv, NEW i \in Ids, NEW k \in Kinds, Fork(i, k)
  PROVE  Kept'
<1>1. /\ \/ k = "helper" /\ Parent[k] = "setup"
         \/ k = "child" /\ Parent[k] = "daemon"
      /\ k \in DOMAIN Parent /\ Parent[k] \in alive[i] /\ k \notin alive[i] /\ k \notin att[i].owned
  BY KindsAssumption DEF Fork, Parent
<1>2. /\ alive' = [alive EXCEPT ![i] = @ \cup {k}]
      /\ UNCHANGED <<att, report, unrec, refused, native, x>>
  BY DEF Fork
<1>3. alive'[i] = alive[i] \cup {k} /\ \A j \in Ids \ {i} : alive'[j] = alive[j]
  BY <1>2 DEF IInv, TypeOK
<1>4. k # "daemon" /\ k # "setup" /\ k \notin Recorded(i)
  BY <1>1 DEF Recorded
<1>5. \A j \in Ids : /\ alive'[j] \cap (Recorded(j) \cup {"daemon", "setup"}) =
                        alive[j] \cap (Recorded(j) \cup {"daemon", "setup"})
                     /\ Recorded(j)' = Recorded(j) /\ Gone(j)' = Gone(j) /\ Settled(j)' = Settled(j)
  BY <1>2, <1>3, <1>4 DEF Recorded, Gone, Settled
<1>6. \A j \in Ids : ("daemon" \in alive'[j] <=> "daemon" \in alive[j])
                     /\ ("setup" \in alive'[j] <=> "setup" \in alive[j])
  BY <1>3, <1>4
<1>7. Journal'
  <2>1. Fresh'
    BY <1>1, <1>2, <1>3 DEF Fresh, IInv, Kept, Journal
  <2>2. Truthful'
    BY <1>2, <1>5, <1>6 DEF Truthful, IInv, Kept, Journal
  <2>3. NoOverlap'
    BY <1>5, <1>6 DEF NoOverlap, IInv, Kept, Journal
  <2> QED BY <1>2, <2>1, <2>2, <2>3 DEF Journal, IInv, Kept
<1>8. ASSUME NEW f \in Procs PROVE Executor(x[f])'
  <2>1. x'[f] = x[f] /\ Executor(x[f]) /\ x[f] \in Memory
    BY <1>2 DEF IInv, Kept, TypeOK
  <2>2. x[f].pc \in Holding => x[f].cur \in Ids
    BY DEF IInv, Placed, PlacedAt
  <2>3. Reconciling(x[f])'
    <3>1. Reconciling(x[f])
      BY <2>1 DEF Executor
    <3>2. CASE x[f].pc = "publish"
      <4> DEFINE c == x[f].cur
      <4>1. c \in Ids /\ x'[f].cur = c
        BY <2>1, <2>2, <3>2
      <4>2. ASSUME x[f].clean.closed
            PROVE  /\ alive'[c] \cap x[f].seen = {}
                   /\ \A q \in x[f].seen \cap DOMAIN Parent :
                        q \in att[c].owned \/ Parent[q] \notin alive'[c]
        <5>1. /\ Gone(c) /\ alive[c] \cap x[f].seen = {}
              /\ \A q \in x[f].seen \cap DOMAIN Parent :
                   q \in att[c].owned \/ Parent[q] \notin alive[c]
          BY <3>1, <3>2, <4>2 DEF Reconciling
        <5>2. c = i => k \notin x[f].seen
          BY <1>1, <5>1
        <5>3. \A q \in DOMAIN Parent : Parent[q] \in {"setup", "daemon"}
          BY DEF Parent
        <5> QED BY <1>3, <1>6, <4>1, <5>1, <5>2, <5>3
      <4> QED BY <1>2, <1>5, <1>6, <2>1, <3>1, <3>2, <4>1, <4>2 DEF Reconciling
    <3>3. CASE x[f].pc # "publish"
      BY <1>2, <1>5, <2>1, <2>2, <3>1, <3>3 DEF Reconciling, AllSettled
    <3> QED BY <3>2, <3>3
  <2>4. AtWork(x[f])'
    BY <1>2, <1>5, <2>1 DEF Executor, AtWork, OthersSettled
  <2>5. SettingUp(x[f])'
    <3>1. SettingUp(x[f])
      BY <2>1 DEF Executor
    <3>2. x[f].pc \in {"prepare", "setup"} => x[f].cur # i
      BY <1>1, <3>1 DEF SettingUp
    <3> QED BY <1>2, <1>3, <2>1, <2>2, <3>1, <3>2 DEF SettingUp
  <2>6. Reporting(x[f])'
    <3> DEFINE c == x[f].cur
    <3>1. Reporting(x[f]) /\ SettingUp(x[f])
      BY <2>1 DEF Executor
    <3>2. CASE x[f].pc = "setup_own"
      <4>1. x[f].clean.stopped => alive[c] \cap (Recorded(c) \cup x[f].seen) = {}
        BY <3>1, <3>2 DEF Reporting
      <4>2. "setup" \in x[f].seen /\ x[f].seen \subseteq {"setup", "helper"}
        BY <3>1, <3>2 DEF SettingUp
      <4>3. x[f].clean.stopped /\ c = i => k \notin x[f].seen
        BY <1>1, <4>1, <4>2
      <4>4. x[f].clean.stopped => alive'[c] \cap (Recorded(c) \cup x[f].seen) = {}
        BY <1>3, <1>4, <2>2, <3>2, <4>1, <4>3
      <4> QED BY <1>5, <2>1, <2>2, <3>2, <4>4 DEF Reporting
    <3>3. CASE x[f].pc = "own"
      <4>1. Quiescent(x[f].clean) => c # i
        BY <1>1, <3>1, <3>3 DEF Reporting
      <4> QED BY <1>3, <1>5, <1>6, <2>1, <2>2, <3>1, <3>3, <4>1 DEF Reporting
    <3>4. CASE x[f].pc \notin {"setup_own", "own"}
      BY <1>2, <1>5, <1>6, <2>1, <2>2, <3>1, <3>4 DEF Reporting
    <3> QED BY <3>2, <3>3, <3>4
  <2>7. Unfailed(x[f])'
    BY <1>2, <2>1 DEF Executor, Unfailed, Failed, Used
  <2> QED BY <2>3, <2>4, <2>5, <2>6, <2>7 DEF Executor
<1>9. Exclusive'
  BY <1>2 DEF Exclusive, IInv, Kept
<1> QED BY <1>7, <1>8, <1>9 DEF Kept

\* A process that exits leaves less.
LEMMA ExitKeeps ==
  ASSUME IInv, NEW i \in Ids, NEW k \in Kinds, Exit(i, k)
  PROVE  Kept'
<1> DEFINE left == alive[i] \ {k}
<1>1. /\ alive' = [alive EXCEPT ![i] = left] /\ left \subseteq alive[i]
      /\ UNCHANGED <<att, report, unrec, refused, native, x>>
  BY DEF Exit
<1> HIDE DEF left
<1>2. Journal' /\ \A j \in Ids : alive'[j] \subseteq alive[j]
  BY <1>1, EndingKeeps
<1>3. \A j \in Ids : /\ Recorded(j)' = Recorded(j) /\ Settled(j)' = Settled(j)
                     /\ Gone(j) => Gone(j)'
  BY <1>1, <1>2 DEF Recorded, Settled, Gone
<1>4. ASSUME NEW f \in Procs PROVE Executor(x[f])'
  <2>1. x'[f] = x[f] /\ Executor(x[f])
    BY <1>1 DEF IInv, Kept
  <2>2. x[f].pc \in Holding => x[f].cur \in Ids
    BY DEF IInv, Placed, PlacedAt
  <2>3. Reconciling(x[f])'
    BY <1>1, <1>2, <1>3, <2>1, <2>2 DEF Executor, Reconciling, AllSettled
  <2>4. AtWork(x[f])'
    BY <1>1, <1>3, <2>1 DEF Executor, AtWork, OthersSettled
  <2>5. SettingUp(x[f])'
    <3>1. SettingUp(x[f])
      BY <2>1 DEF Executor
    <3>2. x[f].pc \in {"prepare", "setup"} => alive'[x[f].cur] = {}
      BY <1>2, <2>2, <3>1 DEF SettingUp
    <3> QED BY <1>1, <2>1, <3>1, <3>2 DEF SettingUp
  <2>6. Reporting(x[f])'
    BY <1>1, <1>2, <1>3, <2>1, <2>2 DEF Executor, Reporting
  <2>7. Unfailed(x[f])'
    BY <1>1, <2>1 DEF Executor, Unfailed, Failed, Used
  <2> QED BY <2>3, <2>4, <2>5, <2>6, <2>7 DEF Executor
<1>5. Exclusive'
  BY <1>1 DEF Exclusive, IInv, Kept
<1> QED BY <1>2, <1>4, <1>5 DEF Kept

\* Frozen inputs that are altered alter no journal.
LEMMA TamperKeeps ==
  ASSUME IInv, NEW r \in Runs, Tamper(r)
  PROVE  Kept'
<1>1. UNCHANGED <<att, report, unrec, alive, refused, native, x>>
  BY DEF Tamper
<1>2. \A f \in Procs : Executor(x[f])'
  BY <1>1, Stays DEF IInv, Kept
<1> QED BY <1>1, <1>2, Quiet DEF Kept, Exclusive, IInv

-----------------------------------------------------------------------------
(* The invariant, and what it says of the steps. *)

\* The invariant holds of a store that nothing has happened to.
LEMMA InitInvariant == Init => IInv
<1> SUFFICES ASSUME Init PROVE IInv
  OBVIOUS
<1>1. TypeOK /\ Placed
  BY InitTypeOK
<1>2. \A i \in Ids : /\ att[i] = NoAttempt /\ att[i].stage = "none" /\ att[i].capture = "none"
                     /\ alive[i] = {} /\ report[i] = NoReport /\ ~ report[i].known
  BY DEF Init, NoAttempt, NoReport
<1>3. Journal
  <2>1. Fresh
    BY <1>2 DEF Fresh
  <2>2. Truthful
    BY <1>2 DEF Truthful, Settled
  <2>3. NoOverlap
    BY <1>2 DEF NoOverlap
  <2> QED BY <2>1, <2>2, <2>3 DEF Journal, Init
<1>4. \A e \in Procs : x[e].pc = "idle"
  BY DEF Init, Rest
<1>5. \A e \in Procs : Executor(x[e])
  BY <1>4 DEF Executor, Reconciling, AtWork, SettingUp, Reporting, Unfailed
<1> QED BY <1>1, <1>3, <1>4, <1>5 DEF IInv, Kept, Exclusive

\* Every step keeps it.
LEMMA NextInvariant == IInv /\ [Next]_vars => IInv'
<1> SUFFICES ASSUME IInv, [Next]_vars PROVE IInv'
  OBVIOUS
<1>1. TypeOK' /\ Placed'
  BY NextTypeOK DEF IInv
<1>2. Kept'
  <2>1. CASE UNCHANGED vars
    <3>1. UNCHANGED <<att, report, unrec, alive, refused, native, x>>
      BY <2>1 DEF vars
    <3>2. \A f \in Procs : Executor(x[f])'
      BY <3>1, Stays DEF IInv, Kept
    <3> QED BY <3>1, <3>2, Quiet DEF Kept, Exclusive, IInv
  <2>2. ASSUME NEW e \in Procs, Resume(e) PROVE Kept'
    BY <2>2, StartKeeps DEF Resume
  <2>3. ASSUME NEW e \in Procs, Reconcile(e) PROVE Kept'
    BY <2>3, TakeNativeKeeps, ReconcileTrustedKeeps, ReconcileKillKeeps, ReconcilePublishKeeps,
       ReconcileRecordKeeps, RestageKeeps, ReconcileNextKeeps, ReconcileDoneKeeps,
       MarkInvalidKeeps DEF Reconcile
  <2>4. ASSUME NEW e \in Procs, Execute(e) PROVE Kept'
    <3>1. CASE Gate(e) \/ Recovered(e) \/ Finish(e) \/ (\E i \in Ids : Recover(e, i))
               \/ (\E t \in Trials : Reserve(e, t)) \/ Prepare(e) \/ SpawnSetup(e) \/ NoSetup(e)
      BY <3>1, GateKeeps, RecoveredKeeps, LeavingKeeps, RecoverKeeps, ReserveKeeps, PrepareKeeps,
         SpawnSetupKeeps, NoSetupKeeps
    <3>2. CASE ClaimSetup(e) \/ EndSetup(e) \/ OwnSetup(e) \/ LaunchIntent(e) \/ SpawnDaemon(e)
               \/ ObserveLaunch(e) \/ PublishLaunch(e) \/ BeginInteraction(e)
      BY <3>2, ClaimSetupKeeps, EndSetupKeeps, OwnSetupKeeps, LaunchIntentKeeps, SpawnDaemonKeeps,
         ObserveLaunchKeeps, PublishLaunchKeeps, BeginInteractionKeeps
    <3>3. CASE Notice(e) \/ Poll(e) \/ EndInteraction(e) \/ Raise(e) \/ BeginStop(e) \/ Close(e)
               \/ OwnCleanup(e) \/ RecordCleanup(e) \/ Capture(e)
      BY <3>3, NoticeKeeps, PollKeeps, EndInteractionKeeps, RaiseKeeps, BeginStopKeeps, CloseKeeps,
         OwnCleanupKeeps, RecordCleanupKeeps, CaptureKeeps
    <3> QED BY <2>4, <3>1, <3>2, <3>3 DEF Execute
  <2>5. ASSUME NEW e \in Procs, Crash(e) PROVE Kept'
    BY <2>5, LeavingKeeps
  <2>6. ASSUME NEW i \in Ids, NEW k \in Kinds, Fork(i, k) \/ Exit(i, k) PROVE Kept'
    BY <2>6, ForkKeeps, ExitKeeps
  <2>7. ASSUME NEW r \in Runs, Tamper(r) PROVE Kept'
    BY <2>7, TamperKeeps
  <2> QED BY <2>1, <2>2, <2>3, <2>4, <2>5, <2>6, <2>7 DEF Next
<1> QED BY <1>1, <1>2 DEF IInv

\* The inductive invariant holds throughout.
THEOREM Invariant == Spec => []IInv
<1> QED BY InitInvariant, NextInvariant, PTL DEF Spec

-----------------------------------------------------------------------------
(* The invariant behind RetryOnRequest. *)

\* The attempts of a trial.
Attempts(r, t) == {i \in Used(r) : t \in att[i].trial}

\* The trials that an executor may still attempt.
Planning == {"locked", "reconcile", "publish", "record", "restage", "invalid", "gate"}
Owed(m) == IF m.pc \in Planning THEN m.retry ELSE m.plan

\* An executor has the lock of its run, and of the run that it reconciles.
Visiting == {"reconcile", "publish", "record", "restage"}
Locked == \A e \in Procs :
    /\ x[e].pc # "idle" => runLock[x[e].run] = e
    /\ x[e].pc \in Visiting => x[e].visit \in Runs /\ runLock[x[e].visit] = e

\* A trial that an executor may still attempt has been attempted less often than it may be.
Requested ==
    /\ \A r \in Runs : \A t \in Trials :
         IsFiniteSet(Attempts(r, t)) /\ Cardinality(Attempts(r, t)) <= 1 + asked[r][t]
    /\ \A e \in Procs : x[e].pc # "idle" =>
         \A t \in Owed(x[e]) : Cardinality(Attempts(x[e].run, t)) <= asked[x[e].run][t]

RInv == Locked /\ Requested

\* A step that leaves the runs and the trials of the attempts alone.
SameTrials == \A j \in Ids : att'[j].run = att[j].run /\ att'[j].trial = att[j].trial

\* Nor does it capture any.
Alike == SameTrials /\ \A j \in Ids : att'[j].capture = att[j].capture

\* A step of e that asks for no more than e did.
Asks(e) ==
    /\ x[e].pc # "idle" /\ x'[e].run = x[e].run /\ Owed(x'[e]) \subseteq Owed(x[e])
    /\ \A f \in Procs \ {e} : x'[f] = x[f]

\* And that reconciles the same run still.
Routine(e) ==
    Asks(e) /\ (x'[e].pc \in Visiting => x[e].pc \in Visiting /\ x'[e].visit = x[e].visit)

\* The same attempts are attempts of the same trials.
LEMMA SameAttempts ==
  ASSUME SameTrials
  PROVE  \A r \in Runs : \A t \in Trials : Attempts(r, t)' = Attempts(r, t)
  BY DEF SameTrials, Attempts, Used

\* A trial that may be attempted again is a trial of the run.
LEMMA OwedTrials ==
  ASSUME IInv, NEW e \in Procs
  PROVE  Owed(x[e]) \subseteq Trials /\ (x[e].pc # "idle" => x[e].run \in Runs)
<1>1. x[e] \in Memory /\ PlacedAt(x[e])
  BY DEF IInv, TypeOK, Placed
<1> QED BY <1>1, MemoryFields DEF Owed, PlacedAt

\* An executor that keeps its lock and asks for no more keeps to what was asked.
LEMMA KeepsAsked ==
  ASSUME IInv, RInv, NEW e \in Procs, Asks(e), SameTrials, UNCHANGED asked,
         runLock'[x[e].run] = e,
         x'[e].pc \in Visiting => x'[e].visit \in Runs /\ runLock'[x'[e].visit] = e,
         \A f \in Procs \ {e} : \A q \in Runs : runLock[q] = f => runLock'[q] = f
  PROVE  RInv'
<1>1. \A r \in Runs : \A t \in Trials : Attempts(r, t)' = Attempts(r, t)
  BY SameAttempts
<1>2. \A f \in Procs : Owed(x[f]) \subseteq Trials /\ (x[f].pc # "idle" => x[f].run \in Runs)
  BY OwedTrials
<1>3. Locked'
  BY <1>2 DEF RInv, Locked, Asks
<1>4. \A f \in Procs : x'[f].pc # "idle" =>
        /\ x[f].pc # "idle" /\ x'[f].run = x[f].run /\ Owed(x'[f]) \subseteq Owed(x[f])
  BY DEF Asks
<1>5. Requested'
  <2>1. ASSUME NEW r \in Runs, NEW t \in Trials
        PROVE  IsFiniteSet(Attempts(r, t)') /\ Cardinality(Attempts(r, t)') <= 1 + asked'[r][t]
    BY <1>1 DEF RInv, Requested
  <2>2. ASSUME NEW f \in Procs, x'[f].pc # "idle", NEW t \in Owed(x'[f])
        PROVE  Cardinality(Attempts(x[f].run, t))' <= asked'[x'[f].run][t]
    <3>1. /\ x[f].pc # "idle" /\ x'[f].run = x[f].run /\ t \in Owed(x[f])
          /\ x[f].run \in Runs /\ t \in Trials
      BY <1>2, <1>4, <2>2
    <3>2. Cardinality(Attempts(x[f].run, t)) <= asked[x[f].run][t]
      BY <3>1 DEF RInv, Requested
    <3>3. Attempts(x[f].run, t)' = Attempts(x[f].run, t)
      BY <3>1, SameTrials DEF SameTrials, Attempts, Used
    <3> QED BY <3>1, <3>2, <3>3
  <2> QED BY <2>1, <2>2 DEF Requested
<1> QED BY <1>3, <1>5 DEF RInv

\* So does one that ends.
LEMMA LeavesAsked ==
  ASSUME IInv, RInv, NEW e \in Procs, Leave(e), SameTrials, UNCHANGED asked
  PROVE  RInv'
<1>1. \A r \in Runs : \A t \in Trials : Attempts(r, t)' = Attempts(r, t)
  BY SameAttempts
<1>2. \A f \in Procs : Owed(x[f]) \subseteq Trials /\ (x[f].pc # "idle" => x[f].run \in Runs)
  BY OwedTrials
<1>3. x'[e].pc = "idle" /\ \A f \in Procs \ {e} : x'[f] = x[f]
  BY Became DEF Leave, Rest
<1>4. \A q \in Runs : runLock[q] # e => runLock'[q] = runLock[q]
  BY DEF Leave
<1>5. Locked'
  BY <1>2, <1>3, <1>4 DEF RInv, Locked, Visiting
<1>6. Requested'
  <2>1. ASSUME NEW r \in Runs, NEW t \in Trials
        PROVE  IsFiniteSet(Attempts(r, t)') /\ Cardinality(Attempts(r, t)') <= 1 + asked'[r][t]
    BY <1>1 DEF RInv, Requested
  <2>2. ASSUME NEW f \in Procs, x'[f].pc # "idle", NEW t \in Owed(x'[f])
        PROVE  Cardinality(Attempts(x[f].run, t))' <= asked'[x'[f].run][t]
    <3>1. x'[f] = x[f] /\ x[f].run \in Runs /\ t \in Trials
      BY <1>2, <1>3, <2>2
    <3>2. Cardinality(Attempts(x[f].run, t)) <= asked[x[f].run][t]
      BY <2>2, <3>1 DEF RInv, Requested
    <3>3. Attempts(x[f].run, t)' = Attempts(x[f].run, t)
      BY <3>1, SameTrials DEF SameTrials, Attempts, Used
    <3> QED BY <3>1, <3>2, <3>3
  <2> QED BY <2>1, <2>2 DEF Requested
<1> QED BY <1>5, <1>6 DEF RInv

\* A save of an attempt that is of the same run and trial, and a publication.
LEMMA SameSaved ==
  ASSUME IInv, NEW i \in Ids, NEW new, Save(i, new), new.run = att[i].run, new.trial = att[i].trial
  PROVE  SameTrials
  BY DEF IInv, TypeOK, Save, SameTrials

\* A save that keeps run, trial and capture leaves the attempts alike.
LEMMA AlikeSaved ==
  ASSUME IInv, NEW i \in Ids, NEW new, Save(i, new), new.run = att[i].run,
         new.trial = att[i].trial, new.capture = att[i].capture
  PROVE  Alike
  BY SameSaved DEF IInv, TypeOK, Save, Alike

\* So does the publication of identities.
LEMMA AlikeOwned ==
  ASSUME IInv, NEW i \in Ids, NEW kinds, Own(i, kinds)
  PROVE  Alike
<1>1. att \in [Ids -> Attempt] /\ att' = [att EXCEPT ![i].owned = @ \cup kinds]
  BY DEF IInv, TypeOK, Own
<1>2. \A j \in Ids \ {i} : att'[j] = att[j]
  BY <1>1
<1>3. /\ att'[i].run = att[i].run /\ att'[i].trial = att[i].trial
      /\ att'[i].capture = att[i].capture
  BY <1>1 DEF Attempt
<1> QED BY <1>2, <1>3 DEF Alike, SameTrials

\* A routine step with the locks that it has keeps to what was asked.
LEMMA RoutineAsked ==
  ASSUME IInv, RInv, NEW e \in Procs, Routine(e), SameTrials, UNCHANGED <<asked, runLock>>
  PROVE  RInv'
<1>1. runLock'[x[e].run] = e
  BY DEF RInv, Locked, Routine, Asks
<1>2. x'[e].pc \in Visiting => x'[e].visit \in Runs /\ runLock'[x'[e].visit] = e
  BY DEF RInv, Locked, Routine
<1>3. Asks(e)
  BY DEF Routine
<1> QED BY <1>1, <1>2, <1>3, KeepsAsked

\* An executor that goes on to another step of the same phase owes the same.
LEMMA GotoRoutine ==
  ASSUME IInv, NEW e \in Procs, NEW pc, Goto(e, pc), x[e].pc # "idle",
         x[e].pc \in Planning <=> pc \in Planning, pc \in Visiting => x[e].pc \in Visiting
  PROVE  Routine(e)
<1>1. /\ x'[e].pc = pc /\ x'[e].visit = x[e].visit /\ x'[e].run = x[e].run
      /\ x'[e].plan = x[e].plan /\ x'[e].retry = x[e].retry
  BY Went
<1>2. \A f \in Procs \ {e} : x'[f] = x[f]
  BY Became
<1> QED BY <1>1, <1>2 DEF Routine, Asks, Owed

\* So does one that changes nothing of what it owes.
LEMMA HeldAsks ==
  ASSUME IInv, NEW e \in Procs, NEW new, Become(e, new), x[e].pc # "idle",
         new.run = x[e].run, new.plan = x[e].plan, new.retry = x[e].retry,
         x[e].pc \in Planning <=> new.pc \in Planning
  PROVE  x'[e] = new /\ Asks(e)
<1>1. x'[e] = new /\ \A f \in Procs \ {e} : x'[f] = x[f]
  BY Became
<1> QED BY <1>1 DEF Asks, Owed

\* And that reconciles the same run still.
LEMMA HeldRoutine ==
  ASSUME IInv, NEW e \in Procs, NEW new, Become(e, new), x[e].pc # "idle",
         new.run = x[e].run, new.plan = x[e].plan, new.retry = x[e].retry,
         x[e].pc \in Planning <=> new.pc \in Planning,
         new.pc \in Visiting => x[e].pc \in Visiting /\ new.visit = x[e].visit
  PROVE  Routine(e)
<1>1. x'[e] = new /\ Asks(e)
  BY HeldAsks
<1> QED BY <1>1 DEF Routine

\* The attempt in hand is saved, or what it owns is published.
LEMMA AlikeInHand ==
  ASSUME IInv, NEW e \in Procs, x[e].pc \in Holding
  PROVE  /\ x[e].cur \in Ids /\ x[e] \in Memory /\ att[x[e].cur] \in Attempt
         /\ \A kinds : Own(x[e].cur, kinds) => Alike
         /\ \A new : Save(x[e].cur, new) /\ new.run = att[x[e].cur].run
                       /\ new.trial = att[x[e].cur].trial
                       /\ new.capture = att[x[e].cur].capture => Alike
  BY InHand, AlikeSaved, AlikeOwned DEF IInv, TypeOK

\* The steps that save the attempt in hand.
LEMMA SavesRoutine ==
  ASSUME IInv, NEW e \in Procs,
         Prepare(e) \/ LaunchIntent(e) \/ BeginInteraction(e) \/ BeginStop(e)
  PROVE  Routine(e) /\ Alike /\ UNCHANGED <<asked, runLock>>
<1>1. CASE Prepare(e)
  <2> DEFINE new == [att[x[e].cur] EXCEPT !.stage = "preparing"]
  <2>1. x[e].pc = "prepare" /\ Save(x[e].cur, new) /\ Goto(e, "setup") /\ UNCHANGED <<asked, runLock>>
    BY <1>1 DEF Prepare
  <2>2. att[x[e].cur] \in Attempt
    BY <2>1, AlikeInHand
  <2>3. /\ new.run = att[x[e].cur].run /\ new.trial = att[x[e].cur].trial
        /\ new.capture = att[x[e].cur].capture
    BY <2>2 DEF Attempt
  <2> HIDE DEF new
  <2>4. Alike
    BY <2>1, <2>3, AlikeInHand
  <2> QED BY <2>1, <2>4, GotoRoutine DEF Planning, Visiting
<1>2. CASE LaunchIntent(e)
  <2> DEFINE new == [att[x[e].cur] EXCEPT !.stage = "launching", !.tried = TRUE]
  <2>1. x[e].pc = "plan" /\ Save(x[e].cur, new) /\ Goto(e, "launch") /\ UNCHANGED <<asked, runLock>>
    BY <1>2 DEF LaunchIntent
  <2>2. att[x[e].cur] \in Attempt
    BY <2>1, AlikeInHand
  <2>3. /\ new.run = att[x[e].cur].run /\ new.trial = att[x[e].cur].trial
        /\ new.capture = att[x[e].cur].capture
    BY <2>2 DEF Attempt
  <2> HIDE DEF new
  <2>4. Alike
    BY <2>1, <2>3, AlikeInHand
  <2> QED BY <2>1, <2>4, GotoRoutine DEF Planning, Visiting
<1>3. CASE BeginInteraction(e)
  <2> DEFINE new == [att[x[e].cur] EXCEPT !.stage = "interacting"]
  <2>1. x[e].pc = "started" /\ Save(x[e].cur, new) /\ Goto(e, "interact") /\ UNCHANGED <<asked, runLock>>
    BY <1>3 DEF BeginInteraction
  <2>2. att[x[e].cur] \in Attempt
    BY <2>1, AlikeInHand
  <2>3. /\ new.run = att[x[e].cur].run /\ new.trial = att[x[e].cur].trial
        /\ new.capture = att[x[e].cur].capture
    BY <2>2 DEF Attempt
  <2> HIDE DEF new
  <2>4. Alike
    BY <2>1, <2>3, AlikeInHand
  <2> QED BY <2>1, <2>4, GotoRoutine DEF Planning, Visiting
<1>4. CASE BeginStop(e)
  <2> DEFINE new == [att[x[e].cur] EXCEPT !.stage = "stopping"]
  <2>1. x[e].pc = "stop" /\ Save(x[e].cur, new) /\ Goto(e, "close") /\ UNCHANGED <<asked, runLock>>
    BY <1>4 DEF BeginStop
  <2>2. att[x[e].cur] \in Attempt
    BY <2>1, AlikeInHand
  <2>3. /\ new.run = att[x[e].cur].run /\ new.trial = att[x[e].cur].trial
        /\ new.capture = att[x[e].cur].capture
    BY <2>2 DEF Attempt
  <2> HIDE DEF new
  <2>4. Alike
    BY <2>1, <2>3, AlikeInHand
  <2> QED BY <2>1, <2>4, GotoRoutine DEF Planning, Visiting
<1> QED BY <1>1, <1>2, <1>3, <1>4

\* The steps that publish, and the report.
LEMMA OwnsRoutine ==
  ASSUME IInv, NEW e \in Procs,
         ReconcilePublish(e) \/ ReconcileRecord(e) \/ ClaimSetup(e) \/ PublishLaunch(e)
          \/ OwnCleanup(e) \/ RecordCleanup(e)
  PROVE  Routine(e) /\ Alike /\ UNCHANGED <<asked, runLock>>
<1>1. CASE ReconcilePublish(e)
  <2>1. x[e].pc = "publish" /\ Own(x[e].cur, x[e].seen) /\ Goto(e, "record") /\ UNCHANGED <<asked, runLock>>
    BY <1>1 DEF ReconcilePublish
  <2>2. Alike
    BY <2>1, AlikeInHand
  <2> QED BY <2>1, <2>2, GotoRoutine DEF Planning, Visiting
<1>2. CASE ReconcileRecord(e)
  <2>1. x[e].pc = "record" /\ Goto(e, "restage") /\ UNCHANGED <<att, asked, runLock>>
    BY <1>2 DEF ReconcileRecord, Evidence
  <2> QED BY <2>1, GotoRoutine DEF Planning, Visiting, Alike, SameTrials
<1>3. CASE ClaimSetup(e)
  <2>1. x[e].pc = "claim" /\ Own(x[e].cur, x[e].seen) /\ Goto(e, "setting") /\ UNCHANGED <<asked, runLock>>
    BY <1>3 DEF ClaimSetup
  <2>2. Alike
    BY <2>1, AlikeInHand
  <2> QED BY <2>1, <2>2, GotoRoutine DEF Planning, Visiting
<1>4. CASE PublishLaunch(e)
  <2>1. x[e].pc = "observed" /\ Own(x[e].cur, x[e].seen) /\ Goto(e, "started") /\ UNCHANGED <<asked, runLock>>
    BY <1>4 DEF PublishLaunch
  <2>2. Alike
    BY <2>1, AlikeInHand
  <2> QED BY <2>1, <2>2, GotoRoutine DEF Planning, Visiting
<1>5. CASE OwnCleanup(e)
  <2>1. x[e].pc = "own" /\ Own(x[e].cur, x[e].seen) /\ Goto(e, "evidence") /\ UNCHANGED <<asked, runLock>>
    BY <1>5 DEF OwnCleanup
  <2>2. Alike
    BY <2>1, AlikeInHand
  <2> QED BY <2>1, <2>2, GotoRoutine DEF Planning, Visiting
<1>6. CASE RecordCleanup(e)
  <2>1. x[e].pc = "evidence" /\ Goto(e, "capture") /\ UNCHANGED <<att, asked, runLock>>
    BY <1>6 DEF RecordCleanup, Evidence
  <2> QED BY <2>1, GotoRoutine DEF Planning, Visiting, Alike, SameTrials
<1> QED BY <1>1, <1>2, <1>3, <1>4, <1>5, <1>6

\* The steps that change no attempt, and go on.
LEMMA GoesRoutine ==
  ASSUME IInv, NEW e \in Procs,
         NoSetup(e) \/ SpawnDaemon(e) \/ EndInteraction(e) \/ Raise(e)
  PROVE  Routine(e) /\ Alike /\ UNCHANGED <<asked, runLock>>
<1>1. CASE NoSetup(e)
  <2>1. x[e].pc = "setup" /\ Goto(e, "plan") /\ UNCHANGED <<att, asked, runLock>>
    BY <1>1 DEF NoSetup, Evidence
  <2> QED BY <2>1, GotoRoutine DEF Planning, Visiting, Alike, SameTrials
<1>2. CASE SpawnDaemon(e)
  <2>1. x[e].pc = "launch" /\ Goto(e, "spawned") /\ UNCHANGED <<att, asked, runLock>>
    BY <1>2 DEF SpawnDaemon, Evidence
  <2> QED BY <2>1, GotoRoutine DEF Planning, Visiting, Alike, SameTrials
<1>3. CASE EndInteraction(e)
  <2>1. x[e].pc = "interact" /\ Goto(e, "stop") /\ UNCHANGED <<att, asked, runLock>>
    BY <1>3 DEF EndInteraction, Evidence
  <2> QED BY <2>1, GotoRoutine DEF Planning, Visiting, Alike, SameTrials
<1>4. CASE Raise(e)
  <2>1. x[e].pc \in {"setup", "plan", "launch", "spawned", "observed", "started"} /\ Goto(e, "stop") /\ UNCHANGED <<att, asked, runLock>>
    BY <1>4 DEF Raise, Evidence
  <2> QED BY <2>1, GotoRoutine DEF Planning, Visiting, Alike, SameTrials
<1> QED BY <1>1, <1>2, <1>3, <1>4

\* The steps that change what an executor at work holds.
LEMMA HeldSteps ==
  ASSUME IInv, NEW e \in Procs,
         SpawnSetup(e) \/ EndSetup(e) \/ OwnSetup(e) \/ ObserveLaunch(e) \/ Notice(e)
          \/ Poll(e) \/ Close(e)
  PROVE  Routine(e) /\ Alike /\ UNCHANGED <<asked, runLock>>
<1>1. CASE SpawnSetup(e)
  <2>1. x[e].pc = "setup" /\ UNCHANGED <<att, asked, runLock>>
    BY <1>1 DEF SpawnSetup
  <2>2. Become(e, [x[e] EXCEPT !.pc = "claim", !.seen = {"setup"}])
    BY <1>1 DEF SpawnSetup
  <2> DEFINE new == [x[e] EXCEPT !.pc = "claim", !.seen = {"setup"}]
  <2>3. x[e] \in Memory
    BY DEF IInv, TypeOK
  <2>4. /\ new.run = x[e].run /\ new.plan = x[e].plan /\ new.retry = x[e].retry
        /\ new.pc = "claim"
    BY <2>1, <2>3 DEF Memory
  <2>5. Routine(e)
    <3> HIDE DEF new
    <3> QED BY <2>1, <2>2, <2>4, HeldRoutine DEF Planning, Visiting, new
  <2> QED BY <2>1, <2>5 DEF Alike, SameTrials
<1>2. CASE EndSetup(e)
  <2>1. x[e].pc = "setting" /\ UNCHANGED <<att, asked, runLock>>
    BY <1>2 DEF EndSetup
  <2>2. PICK seen, clean : Become(e, [x[e] EXCEPT !.pc = "setup_own", !.seen = seen, !.clean = clean])
    BY <1>2 DEF EndSetup
  <2> DEFINE new == [x[e] EXCEPT !.pc = "setup_own", !.seen = seen, !.clean = clean]
  <2>3. x[e] \in Memory
    BY DEF IInv, TypeOK
  <2>4. /\ new.run = x[e].run /\ new.plan = x[e].plan /\ new.retry = x[e].retry
        /\ new.pc = "setup_own"
    BY <2>1, <2>3 DEF Memory
  <2>5. Routine(e)
    <3> HIDE DEF new
    <3> QED BY <2>1, <2>2, <2>4, HeldRoutine DEF Planning, Visiting, new
  <2> QED BY <2>1, <2>5 DEF Alike, SameTrials
<1>3. CASE OwnSetup(e)
  <2>1. x[e].pc = "setup_own" /\ UNCHANGED <<asked, runLock>>
    BY <1>3 DEF OwnSetup
  <2>2. PICK pc \in {"plan", "stop"} : Become(e, [x[e] EXCEPT !.pc = pc, !.seen = {}])
    BY <1>3 DEF OwnSetup
  <2> DEFINE new == [x[e] EXCEPT !.pc = pc, !.seen = {}]
  <2>3. x[e] \in Memory
    BY DEF IInv, TypeOK
  <2>4. /\ new.run = x[e].run /\ new.plan = x[e].plan /\ new.retry = x[e].retry
        /\ new.pc = pc
    BY <2>1, <2>3 DEF Memory
  <2>5. Routine(e)
    <3> HIDE DEF new
    <3> QED BY <2>1, <2>2, <2>4, HeldRoutine DEF Planning, Visiting, new
  <2>6. Own(x[e].cur, x[e].seen)
    BY <1>3 DEF OwnSetup
  <2> QED BY <2>1, <2>5, <2>6, AlikeInHand
<1>4. CASE ObserveLaunch(e)
  <2>1. x[e].pc = "spawned" /\ UNCHANGED <<asked, runLock>>
    BY <1>4 DEF ObserveLaunch
  <2>2. PICK seen : Become(e, [x[e] EXCEPT !.pc = "observed", !.seen = seen])
    BY <1>4 DEF ObserveLaunch
  <2> DEFINE new == [x[e] EXCEPT !.pc = "observed", !.seen = seen]
  <2>3. x[e] \in Memory
    BY DEF IInv, TypeOK
  <2>4. /\ new.run = x[e].run /\ new.plan = x[e].plan /\ new.retry = x[e].retry
        /\ new.pc = "observed"
    BY <2>1, <2>3 DEF Memory
  <2>5. Routine(e)
    <3> HIDE DEF new
    <3> QED BY <2>1, <2>2, <2>4, HeldRoutine DEF Planning, Visiting, new
  <2>6. Save(x[e].cur, [att[x[e].cur] EXCEPT !.launch = TRUE])
    BY <1>4 DEF ObserveLaunch
  <2>7. Alike
    <3>1. att[x[e].cur] \in Attempt
      BY <2>1, AlikeInHand
    <3>2. /\ [att[x[e].cur] EXCEPT !.launch = TRUE].run = att[x[e].cur].run
          /\ [att[x[e].cur] EXCEPT !.launch = TRUE].trial = att[x[e].cur].trial
          /\ [att[x[e].cur] EXCEPT !.launch = TRUE].capture = att[x[e].cur].capture
      BY <3>1 DEF Attempt
    <3> QED BY <2>1, <2>6, <3>2, AlikeInHand
  <2> QED BY <2>1, <2>5, <2>7
<1>5. CASE Notice(e)
  <2>1. x[e].pc \in {"claim", "setting", "observed", "started", "interact"} /\ UNCHANGED <<att, asked, runLock>>
    BY <1>5 DEF Notice, Watching
  <2>2. PICK seen : Become(e, [x[e] EXCEPT !.seen = seen])
    BY <1>5 DEF Notice
  <2> DEFINE new == [x[e] EXCEPT !.seen = seen]
  <2>3. x[e] \in Memory
    BY DEF IInv, TypeOK
  <2>4. /\ new.run = x[e].run /\ new.plan = x[e].plan /\ new.retry = x[e].retry
        /\ new.pc = x[e].pc
    BY <2>1, <2>3 DEF Memory
  <2>5. Routine(e)
    <3> HIDE DEF new
    <3> QED BY <2>1, <2>2, <2>4, HeldRoutine DEF Planning, Visiting, new
  <2> QED BY <2>1, <2>5 DEF Alike, SameTrials
<1>6. CASE Poll(e)
  <2>1. /\ x[e].pc \in {"setting", "started", "interact"} /\ Own(x[e].cur, x[e].seen)
        /\ UNCHANGED <<x, asked, runLock>>
    BY <1>6 DEF Poll
  <2> QED BY <2>1, AlikeInHand DEF Routine, Asks
<1>7. CASE Close(e)
  <2>1. x[e].pc = "close" /\ UNCHANGED <<att, asked, runLock>>
    BY <1>7 DEF Close
  <2>2. PICK seen, clean : Become(e, [x[e] EXCEPT !.pc = "own", !.seen = seen, !.clean = clean])
    BY <1>7 DEF Close
  <2> DEFINE new == [x[e] EXCEPT !.pc = "own", !.seen = seen, !.clean = clean]
  <2>3. x[e] \in Memory
    BY DEF IInv, TypeOK
  <2>4. /\ new.run = x[e].run /\ new.plan = x[e].plan /\ new.retry = x[e].retry
        /\ new.pc = "own"
    BY <2>1, <2>3 DEF Memory
  <2>5. Routine(e)
    <3> HIDE DEF new
    <3> QED BY <2>1, <2>2, <2>4, HeldRoutine DEF Planning, Visiting, new
  <2> QED BY <2>1, <2>5 DEF Alike, SameTrials
<1> QED BY <1>1, <1>2, <1>3, <1>4, <1>5, <1>6, <1>7

\* Reconciliation asks for nothing, and what it saves is of the same trials.
LEMMA ReconcilesRoutine ==
  ASSUME IInv, NEW e \in Procs, NEW i \in Ids,
         ReconcileTrusted(e, i) \/ ReconcileKill(e, i)
  PROVE  Routine(e) /\ Alike /\ UNCHANGED <<asked, runLock>>
<1>1. x[e] \in Memory
  BY DEF IInv, TypeOK
<1>2. CASE ReconcileTrusted(e, i)
  <2>1. x[e].pc = "reconcile" /\ UNCHANGED <<att, asked, runLock>>
    BY <1>2 DEF ReconcileTrusted
  <2>2. PICK pc \in {"restage", "record"}, clean \in {report[i], [report[i] EXCEPT !.errors = TRUE]} :
          Become(e, [x[e] EXCEPT !.pc = pc, !.cur = i, !.clean = clean])
    BY <1>2 DEF ReconcileTrusted
  <2> DEFINE new == [x[e] EXCEPT !.pc = pc, !.cur = i, !.clean = clean]
  <2>3. /\ new.run = x[e].run /\ new.plan = x[e].plan /\ new.retry = x[e].retry /\ new.pc = pc
        /\ new.visit = x[e].visit
    BY <1>1 DEF Memory
  <2> HIDE DEF new
  <2>4. Routine(e)
    BY <2>1, <2>2, <2>3, HeldRoutine DEF Planning, Visiting, new
  <2> QED BY <2>1, <2>4 DEF Alike, SameTrials
<1>3. CASE ReconcileKill(e, i)
  <2>1. x[e].pc = "reconcile" /\ UNCHANGED <<att, asked, runLock>>
    BY <1>3 DEF ReconcileKill
  <2>2. PICK seen, clean :
          Become(e, [x[e] EXCEPT !.pc = "publish", !.cur = i, !.seen = seen, !.clean = clean])
    BY <1>3 DEF ReconcileKill
  <2> DEFINE new == [x[e] EXCEPT !.pc = "publish", !.cur = i, !.seen = seen, !.clean = clean]
  <2>3. /\ new.run = x[e].run /\ new.plan = x[e].plan /\ new.retry = x[e].retry
        /\ new.pc = "publish" /\ new.visit = x[e].visit
    BY <1>1 DEF Memory
  <2> HIDE DEF new
  <2>4. Routine(e)
    BY <2>1, <2>2, <2>3, HeldRoutine DEF Planning, Visiting, new
  <2> QED BY <2>1, <2>4 DEF Alike, SameTrials
<1> QED BY <1>2, <1>3

\* So is what is moved back to stopping.
LEMMA RestageRoutine ==
  ASSUME IInv, NEW e \in Procs, Restage(e)
  PROVE  Routine(e) /\ Alike /\ UNCHANGED <<asked, runLock>>
<1>1. x[e] \in Memory
  BY DEF IInv, TypeOK
<1>2. /\ x[e].pc = "restage" /\ UNCHANGED <<asked, runLock>>
      /\ \/ Save(x[e].cur, [att[x[e].cur] EXCEPT !.stage = "stopping"])
         \/ UNCHANGED att
  BY DEF Restage
<1>3. PICK todo, bad : Become(e, [x[e] EXCEPT !.pc = "reconcile", !.cur = NoId, !.todo = todo,
                                              !.seen = {}, !.bad = bad, !.clean = CleanReport])
  BY DEF Restage
<1> DEFINE new == [x[e] EXCEPT !.pc = "reconcile", !.cur = NoId, !.todo = todo,
                               !.seen = {}, !.bad = bad, !.clean = CleanReport]
           saved == [att[x[e].cur] EXCEPT !.stage = "stopping"]
<1>4. /\ new.run = x[e].run /\ new.plan = x[e].plan /\ new.retry = x[e].retry
      /\ new.pc = "reconcile" /\ new.visit = x[e].visit
  BY <1>1 DEF Memory
<1>5. att[x[e].cur] \in Attempt
  BY <1>2, AlikeInHand
<1>6. /\ saved.run = att[x[e].cur].run /\ saved.trial = att[x[e].cur].trial
      /\ saved.capture = att[x[e].cur].capture
  BY <1>5 DEF Attempt
<1> HIDE DEF new, saved
<1>7. Routine(e)
  BY <1>2, <1>3, <1>4, HeldRoutine DEF Planning, Visiting, new
<1>8. Save(x[e].cur, saved) \/ UNCHANGED att
  BY <1>2 DEF saved
<1>9. Alike
  BY <1>2, <1>6, <1>8, AlikeInHand DEF Alike, SameTrials
<1> QED BY <1>2, <1>7, <1>9

\* A recovery asks for nothing new.
LEMMA RecoverRoutine ==
  ASSUME IInv, NEW e \in Procs, NEW i \in Ids, Recover(e, i)
  PROVE  Routine(e) /\ Alike /\ UNCHANGED <<asked, runLock>>
<1>1. x[e] \in Memory /\ att[i] \in Attempt
  BY DEF IInv, TypeOK
<1>2. /\ x[e].pc = "recover" /\ UNCHANGED <<asked, runLock>>
      /\ Save(i, [att[i] EXCEPT !.stage = "stopping"])
  BY DEF Recover
<1>3. PICK todo, clean : Become(e, [x[e] EXCEPT !.pc = "evidence", !.cur = i, !.recovering = TRUE,
                                                !.todo = todo, !.clean = clean])
  BY DEF Recover
<1> DEFINE new == [x[e] EXCEPT !.pc = "evidence", !.cur = i, !.recovering = TRUE,
                               !.todo = todo, !.clean = clean]
           saved == [att[i] EXCEPT !.stage = "stopping"]
<1>4. /\ new.run = x[e].run /\ new.plan = x[e].plan /\ new.retry = x[e].retry
      /\ new.pc = "evidence"
  BY <1>1 DEF Memory
<1>5. saved.run = att[i].run /\ saved.trial = att[i].trial /\ saved.capture = att[i].capture
  BY <1>1 DEF Attempt
<1> HIDE DEF new, saved
<1>6. Routine(e)
  BY <1>2, <1>3, <1>4, HeldRoutine DEF Planning, Visiting, new
<1>7. Alike
  BY <1>2, <1>5, AlikeSaved DEF saved
<1> QED BY <1>2, <1>6, <1>7

\* What is captured is of the same trial, and the batch goes on or ends.
LEMMA CaptureAsked ==
  ASSUME IInv, RInv, NEW e \in Procs, Capture(e)
  PROVE  RInv'
<1>1. x[e].pc = "capture" /\ UNCHANGED asked
  BY DEF Capture
<1>2. x[e] \in Memory /\ x[e].cur \in Ids /\ att[x[e].cur] \in Attempt /\ x[e].run \in Runs
  BY <1>1, InHand DEF IInv, TypeOK
<1>3. SameTrials
  <2>1. \/ \E how : Save(x[e].cur, [att[x[e].cur] EXCEPT !.stage = "captured", !.capture = how])
        \/ Save(x[e].cur, [att[x[e].cur] EXCEPT !.stage = "captured", !.failed = TRUE])
    BY DEF Capture
  <2>2. PICK saved : /\ Save(x[e].cur, saved) /\ saved.run = att[x[e].cur].run
                     /\ saved.trial = att[x[e].cur].trial
    <3>1. ASSUME NEW how,
                 Save(x[e].cur, [att[x[e].cur] EXCEPT !.stage = "captured", !.capture = how])
          PROVE  \E saved : /\ Save(x[e].cur, saved) /\ saved.run = att[x[e].cur].run
                            /\ saved.trial = att[x[e].cur].trial
      <4> DEFINE new == [att[x[e].cur] EXCEPT !.stage = "captured", !.capture = how]
      <4>1. new.run = att[x[e].cur].run /\ new.trial = att[x[e].cur].trial
        BY <1>2 DEF Attempt
      <4> QED BY <3>1, <4>1
    <3>2. ASSUME Save(x[e].cur, [att[x[e].cur] EXCEPT !.stage = "captured", !.failed = TRUE])
          PROVE  \E saved : /\ Save(x[e].cur, saved) /\ saved.run = att[x[e].cur].run
                            /\ saved.trial = att[x[e].cur].trial
      <4> DEFINE new == [att[x[e].cur] EXCEPT !.stage = "captured", !.failed = TRUE]
      <4>1. new.run = att[x[e].cur].run /\ new.trial = att[x[e].cur].trial
        BY <1>2 DEF Attempt
      <4> QED BY <3>2, <4>1
    <3> QED BY <2>1, <3>1, <3>2
  <2> QED BY <1>2, <2>2, SameSaved
<1>4. CASE Leave(e)
  BY <1>1, <1>3, <1>4, LeavesAsked
<1>5. CASE ~ Leave(e)
  <2>1. UNCHANGED runLock
    BY <1>5 DEF Capture
  <2>2. PICK pc \in {"recover", "trials"} :
          Become(e, [x[e] EXCEPT !.pc = pc, !.cur = NoId, !.seen = {}, !.clean = CleanReport,
                                 !.recovering = FALSE])
    BY <1>5 DEF Capture
  <2> DEFINE new == [x[e] EXCEPT !.pc = pc, !.cur = NoId, !.seen = {}, !.clean = CleanReport,
                                 !.recovering = FALSE]
  <2>3. /\ new.run = x[e].run /\ new.plan = x[e].plan /\ new.retry = x[e].retry /\ new.pc = pc
    BY <1>2 DEF Memory
  <2> HIDE DEF new
  <2>4. Routine(e)
    BY <1>1, <2>2, <2>3, HeldRoutine DEF Planning, Visiting, new
  <2> QED BY <1>1, <1>3, <2>1, <2>4, RoutineAsked
<1> QED BY <1>4, <1>5

\* Locks are passed on from run to run, but the run's own is kept.
LEMMA LocksAsked ==
  ASSUME IInv, RInv, NEW e \in Procs,
         TakeNative(e) \/ ReconcileNext(e) \/ ReconcileDone(e) \/ MarkInvalid(e)
          \/ Recovered(e) \/ Finish(e) \/ Crash(e)
  PROVE  RInv'
<1>1. UNCHANGED asked /\ x[e].pc # "idle"
  BY DEF TakeNative, ReconcileNext, ReconcileDone, MarkInvalid, Recovered, Finish, Crash
<1>2. x[e] \in Memory /\ x[e].run \in Runs /\ runLock[x[e].run] = e
      /\ runLock \in [Runs -> Procs \cup {NoProc}]
  BY <1>1, OwedTrials DEF IInv, TypeOK, RInv, Locked
<1>3. SameTrials
  <2>1. CASE MarkInvalid(e)
    <3>1. CASE UNCHANGED att
      BY <3>1 DEF SameTrials
    <3>2. CASE ~ UNCHANGED att
      <4>1. PICK i \in x[e].todo : Save(i, [att[i] EXCEPT !.failed = TRUE])
        BY <2>1, <3>2 DEF MarkInvalid
      <4>2. i \in Ids /\ att[i] \in Attempt
        <5>1. i \in Ids
          BY <1>2, MemoryFields
        <5> QED BY <5>1 DEF IInv, TypeOK
      <4> DEFINE new == [att[i] EXCEPT !.failed = TRUE]
      <4>3. new.run = att[i].run /\ new.trial = att[i].trial
        BY <4>2 DEF Attempt
      <4> HIDE DEF new
      <4> QED BY <4>1, <4>2, <4>3, SameSaved DEF new
    <3> QED BY <3>1, <3>2
  <2>2. CASE ~ MarkInvalid(e)
    <3>1. UNCHANGED att
      BY <2>2 DEF TakeNative, ReconcileNext, ReconcileDone, Recovered, Finish, Crash
    <3> QED BY <3>1 DEF SameTrials
  <2> QED BY <2>1, <2>2
<1>4. CASE Leave(e)
  BY <1>1, <1>3, <1>4, LeavesAsked
<1>5. CASE ~ Leave(e) /\ TakeNative(e)
  <2>1. x[e].pc = "locked" /\ UNCHANGED runLock
    BY <1>5 DEF TakeNative
  <2>2. PICK others, todo :
          Become(e, [x[e] EXCEPT !.pc = "reconcile", !.visit = x[e].run, !.others = others,
                                 !.todo = todo])
    BY <1>5 DEF TakeNative
  <2> DEFINE new == [x[e] EXCEPT !.pc = "reconcile", !.visit = x[e].run, !.others = others,
                                 !.todo = todo]
  <2>3. /\ new.run = x[e].run /\ new.plan = x[e].plan /\ new.retry = x[e].retry
        /\ new.pc = "reconcile" /\ new.visit = x[e].run
    BY <1>2 DEF Memory
  <2>4. Become(e, new)
    BY <2>2
  <2> HIDE DEF new
  <2>5. x'[e] = new /\ Asks(e)
    BY <2>1, <2>3, <2>4, HeldAsks DEF Planning
  <2> QED BY <1>1, <1>2, <1>3, <2>1, <2>3, <2>5, KeepsAsked
<1>6. CASE ~ Leave(e) /\ ReconcileNext(e)
  <2>1. PICK r \in x[e].others :
          /\ runLock[r] = NoProc
          /\ runLock' = [q \in Runs |-> CASE q = r -> e
                                          [] q = x[e].visit /\ q # x[e].run -> NoProc
                                          [] OTHER -> runLock[q]]
          /\ Become(e, [x[e] EXCEPT !.visit = r, !.others = @ \ {r}, !.todo = Used(r)])
    BY <1>6 DEF ReconcileNext
  <2> DEFINE new == [x[e] EXCEPT !.visit = r, !.others = @ \ {r}, !.todo = Used(r)]
  <2>2. x[e].pc = "reconcile" /\ r \in Runs
    BY <1>2, <1>6, <2>1, MemoryFields DEF ReconcileNext
  <2>3. /\ new.run = x[e].run /\ new.plan = x[e].plan /\ new.retry = x[e].retry
        /\ new.pc = "reconcile" /\ new.visit = r
    BY <1>2, <2>2 DEF Memory
  <2>4. Become(e, new)
    BY <2>1
  <2> HIDE DEF new
  <2>5. x'[e] = new /\ Asks(e)
    BY <2>2, <2>3, <2>4, HeldAsks DEF Planning
  <2>6. x[e].visit \in Runs /\ runLock[x[e].visit] = e /\ r # x[e].visit /\ r # x[e].run
    BY <1>2, <2>1, <2>2, Names DEF RInv, Locked, Visiting
  <2>7. /\ runLock'[r] = e
        /\ \A q \in Runs \ {r, x[e].visit} : runLock'[q] = runLock[q]
        /\ x[e].visit = x[e].run => runLock'[x[e].visit] = e
    BY <2>1, <2>2, <2>6
  <2>8. \A f \in Procs \ {e} : \A q \in Runs : runLock[q] = f => runLock'[q] = f
    BY <2>1, <2>6, <2>7, Names
  <2>9. runLock'[x[e].run] = e
    BY <1>2, <2>6, <2>7
  <2> QED BY <1>1, <1>3, <2>2, <2>3, <2>5, <2>7, <2>8, <2>9, KeepsAsked
<1>7. CASE ~ Leave(e) /\ ReconcileDone(e)
  <2>1. PICK pc \in {"gate", "invalid"}, todo \in {Used(x[e].run)} :
          /\ runLock' = [q \in Runs |-> IF q = x[e].visit /\ q # x[e].run THEN NoProc
                                                                         ELSE runLock[q]]
          /\ Become(e, [x[e] EXCEPT !.pc = pc, !.visit = NoRun, !.todo = todo])
          /\ x[e].pc = "reconcile"
    BY <1>7 DEF ReconcileDone
  <2> DEFINE new == [x[e] EXCEPT !.pc = pc, !.visit = NoRun, !.todo = todo]
  <2>2. /\ new.run = x[e].run /\ new.plan = x[e].plan /\ new.retry = x[e].retry /\ new.pc = pc
    BY <1>2 DEF Memory
  <2>3. Become(e, new)
    BY <2>1
  <2> HIDE DEF new
  <2>4. x'[e] = new /\ Asks(e)
    BY <2>1, <2>2, <2>3, HeldAsks DEF Planning
  <2>5. runLock'[x[e].run] = e
    BY <1>2, <2>1
  <2>6. x[e].visit \in Runs /\ runLock[x[e].visit] = e
    BY <2>1 DEF RInv, Locked, Visiting
  <2>7. \A f \in Procs \ {e} : \A q \in Runs : runLock[q] = f => runLock'[q] = f
    BY <1>2, <2>1, <2>6
  <2> QED BY <1>1, <1>3, <2>2, <2>4, <2>5, <2>7, KeepsAsked DEF Visiting
<1>8. CASE ~ Leave(e) /\ MarkInvalid(e)
  <2>1. PICK todo : x[e].pc = "invalid" /\ UNCHANGED runLock /\ Become(e, [x[e] EXCEPT !.todo = todo])
    BY <1>8 DEF MarkInvalid
  <2> DEFINE new == [x[e] EXCEPT !.todo = todo]
  <2>2. /\ new.run = x[e].run /\ new.plan = x[e].plan /\ new.retry = x[e].retry
        /\ new.pc = "invalid"
    BY <1>2, <2>1 DEF Memory
  <2>3. Become(e, new)
    BY <2>1
  <2> HIDE DEF new
  <2>4. Routine(e)
    BY <2>1, <2>2, <2>3, HeldRoutine DEF Planning, Visiting
  <2> QED BY <1>1, <1>3, <2>1, <2>4, RoutineAsked
<1>9. CASE ~ Leave(e) /\ Recovered(e)
  <2>1. /\ x[e].pc = "recover" /\ UNCHANGED runLock
        /\ Become(e, [x[e] EXCEPT !.pc = "trials", !.todo = {}])
    BY <1>9 DEF Recovered
  <2> DEFINE new == [x[e] EXCEPT !.pc = "trials", !.todo = {}]
  <2>2. /\ new.run = x[e].run /\ new.plan = x[e].plan /\ new.retry = x[e].retry
        /\ new.pc = "trials"
    BY <1>2, <2>1 DEF Memory
  <2>3. Become(e, new)
    BY <2>1
  <2> HIDE DEF new
  <2>4. Routine(e)
    BY <2>1, <2>2, <2>3, HeldRoutine DEF Planning, Visiting
  <2> QED BY <1>1, <1>3, <2>1, <2>4, RoutineAsked
<1> QED BY <1>4, <1>5, <1>6, <1>7, <1>8, <1>9 DEF Finish, Crash

\* A request is for one attempt more of each trial that it names.
LEMMA StartAsked ==
  ASSUME IInv, RInv, NEW e \in Procs, NEW r \in Runs, NEW ts \in SUBSET Trials, Start(e, r, ts)
  PROVE  RInv'
<1>1. /\ x[e].pc = "idle" /\ runLock[r] = NoProc /\ UNCHANGED att
      /\ runLock' = [runLock EXCEPT ![r] = e]
      /\ asked' = [asked EXCEPT ![r] = [t \in Trials |-> @[t] + IF t \in ts THEN 1 ELSE 0]]
      /\ Become(e, [Rest EXCEPT !.pc = "locked", !.run = r, !.retry = ts])
  BY DEF Start
<1>2. /\ runLock \in [Runs -> Procs \cup {NoProc}] /\ asked \in [Runs -> [Trials -> Nat]]
  BY DEF IInv, TypeOK
<1>3. /\ x'[e].pc = "locked" /\ x'[e].run = r /\ x'[e].retry = ts
      /\ \A f \in Procs \ {e} : x'[f] = x[f]
  <2>1. x'[e] = [Rest EXCEPT !.pc = "locked", !.run = r, !.retry = ts]
        /\ \A f \in Procs \ {e} : x'[f] = x[f]
    BY <1>1, Became
  <2> QED BY <2>1, ConstantTypes DEF Memory
<1>4. /\ runLock'[r] = e /\ \A q \in Runs \ {r} : runLock'[q] = runLock[q]
      /\ \A q \in Runs \ {r} : \A t \in Trials : asked'[q][t] = asked[q][t]
      /\ \A t \in Trials : asked'[r][t] \in Nat /\ asked'[r][t] >= asked[r][t]
      /\ \A t \in ts : asked'[r][t] = asked[r][t] + 1
  <2>1. asked'[r] = [t \in Trials |-> asked[r][t] + IF t \in ts THEN 1 ELSE 0]
        /\ \A q \in Runs \ {r} : asked'[q] = asked[q]
    BY <1>1, <1>2
  <2>2. \A t \in Trials : asked[r][t] \in Nat
    BY <1>2
  <2> QED BY <1>1, <1>2, <2>1, <2>2
<1>5. \A f \in Procs \ {e} : x[f].pc # "idle" => x[f].run \in Runs \ {r}
  BY <1>1, OwedTrials, Names DEF RInv, Locked
<1>6. Locked'
  <2>1. \A f \in Procs \ {e} : x[f].pc \in Visiting => x[f].visit \in Runs \ {r}
    BY <1>1, Names DEF RInv, Locked
  <2> QED BY <1>3, <1>4, <1>5, <2>1 DEF RInv, Locked, Visiting
<1>7. Requested'
  <2>1. ASSUME NEW q \in Runs, NEW t \in Trials
        PROVE  IsFiniteSet(Attempts(q, t))' /\ (Cardinality(Attempts(q, t)) <= 1 + asked[q][t])'
    <3>1. Attempts(q, t)' = Attempts(q, t)
      BY <1>1 DEF Attempts, Used
    <3>2. /\ IsFiniteSet(Attempts(q, t)) /\ Cardinality(Attempts(q, t)) <= 1 + asked[q][t]
          /\ Cardinality(Attempts(q, t)) \in Nat
      BY FS_CardinalityType DEF RInv, Requested
    <3>3. asked[q][t] \in Nat /\ asked'[q][t] \in Nat /\ asked'[q][t] >= asked[q][t]
      BY <1>2, <1>4
    <3> QED BY <3>1, <3>2, <3>3
  <2>2. ASSUME NEW f \in Procs \ {e}, x'[f].pc # "idle", NEW t \in Owed(x'[f])
        PROVE  (Cardinality(Attempts(x[f].run, t)) <= asked[x[f].run][t])'
    <3>1. x'[f] = x[f] /\ x[f].pc # "idle" /\ x[f].run \in Runs \ {r} /\ t \in Trials
      BY <1>3, <1>5, <2>2, OwedTrials
    <3>2. Cardinality(Attempts(x[f].run, t)) <= asked[x[f].run][t]
      BY <2>2, <3>1 DEF RInv, Requested
    <3>3. Attempts(x[f].run, t)' = Attempts(x[f].run, t)
      BY <1>1, <3>1 DEF Attempts, Used
    <3> QED BY <1>4, <3>1, <3>2, <3>3
  <2>3. ASSUME NEW t \in Owed(x'[e])
        PROVE  (Cardinality(Attempts(x[e].run, t)) <= asked[x[e].run][t])'
    <3>1. t \in ts /\ t \in Trials
      BY <1>3, <2>3 DEF Owed, Planning
    <3>2. /\ Cardinality(Attempts(r, t)) <= 1 + asked[r][t] /\ asked[r][t] \in Nat
          /\ Cardinality(Attempts(r, t)) \in Nat
      BY <1>2, <3>1, FS_CardinalityType DEF RInv, Requested
    <3>3. Attempts(x[e].run, t)' = Attempts(r, t)
      BY <1>1, <1>3 DEF Attempts, Used
    <3> QED BY <1>3, <1>4, <3>1, <3>2, <3>3
  <2> QED BY <2>1, <2>2, <2>3 DEF Requested
<1> QED BY <1>6, <1>7 DEF RInv

\* The plan is for the trials that were never attempted, and for those that were asked for.
LEMMA GateAsked ==
  ASSUME IInv, RInv, NEW e \in Procs, Gate(e)
  PROVE  RInv'
<1>1. x[e].pc = "gate" /\ UNCHANGED <<att, asked>>
  BY DEF Gate
<1>2. x[e] \in Memory /\ x[e].run \in Runs /\ Owed(x[e]) \subseteq Trials
      /\ asked \in [Runs -> [Trials -> Nat]]
  BY <1>1, OwedTrials DEF IInv, TypeOK
<1>3. CASE Leave(e)
  BY <1>1, <1>3, LeavesAsked DEF SameTrials
<1>4. CASE ~ Leave(e)
  <2>1. /\ UNCHANGED runLock
        /\ Become(e, [x[e] EXCEPT !.pc = "recover",
                                  !.plan = (Trials \ Tried(x[e].run)) \cup x[e].retry])
    BY <1>4 DEF Gate
  <2> DEFINE plan == (Trials \ Tried(x[e].run)) \cup x[e].retry
             new == [x[e] EXCEPT !.pc = "recover", !.plan = plan]
  <2>2. x'[e] = new /\ \A f \in Procs \ {e} : x'[f] = x[f]
    BY <2>1, Became
  <2>3. new.pc = "recover" /\ new.run = x[e].run /\ new.plan = plan
    <3> HIDE DEF plan
    <3> QED BY <1>2 DEF Memory
  <2> HIDE DEF new
  <2>4. x'[e].pc = "recover" /\ x'[e].run = x[e].run /\ Owed(x'[e]) = plan
    BY <2>2, <2>3 DEF Owed, Planning
  <2>5. Locked'
    BY <1>1, <2>1, <2>2, <2>4 DEF RInv, Locked, Visiting
  <2>6. \A q \in Runs : \A t : Attempts(q, t)' = Attempts(q, t)
    BY <1>1 DEF Attempts, Used
  <2>7. ASSUME NEW t \in plan
        PROVE  Cardinality(Attempts(x[e].run, t)) <= asked[x[e].run][t]
    <3>1. CASE t \in x[e].retry
      BY <1>1, <3>1 DEF RInv, Requested, Owed, Planning
    <3>2. CASE t \in Trials \ Tried(x[e].run)
      <4>1. Attempts(x[e].run, t) = {}
        BY <3>2 DEF Attempts, Tried
      <4>2. asked[x[e].run][t] \in Nat
        BY <1>2, <3>2
      <4> QED BY <4>1, <4>2, FS_EmptySet
    <3> QED BY <2>7, <3>1, <3>2
  <2>8. Requested'
    <3>1. ASSUME NEW q \in Runs, NEW t \in Trials
          PROVE  (IsFiniteSet(Attempts(q, t)) /\ Cardinality(Attempts(q, t)) <= 1 + asked[q][t])'
      BY <1>1, <2>6 DEF RInv, Requested
    <3>2. ASSUME NEW f \in Procs, x'[f].pc # "idle", NEW t \in Owed(x'[f])
          PROVE  (Cardinality(Attempts(x[f].run, t)) <= asked[x[f].run][t])'
      <4>1. /\ x'[f].run = x[f].run /\ x[f].pc # "idle"
            /\ Cardinality(Attempts(x[f].run, t)) <= asked[x[f].run][t]
        BY <1>1, <2>2, <2>4, <2>7, <3>2 DEF RInv, Requested
      <4>2. Attempts(x[f].run, t)' = Attempts(x[f].run, t)
        BY <1>1, <4>1 DEF Attempts, Used
      <4> QED BY <1>1, <4>1, <4>2
    <3> QED BY <3>1, <3>2 DEF Requested
  <2> QED BY <2>5, <2>8 DEF RInv
<1> QED BY <1>3, <1>4

\* A reservation uses up what its trial had left.
LEMMA ReserveAsked ==
  ASSUME IInv, RInv, NEW e \in Procs, NEW t \in Trials, Reserve(e, t)
  PROVE  RInv'
<1>1. x[e].pc = "trials" /\ t \in x[e].plan /\ UNCHANGED <<asked, runLock>>
  BY DEF Reserve
<1>2. PICK i \in Ids \ Exists :
        /\ Save(i, [NoAttempt EXCEPT !.run = x[e].run, !.trial = {t}, !.stage = "reserved"])
        /\ Become(e, [x[e] EXCEPT !.pc = "prepare", !.cur = i, !.plan = @ \ {t}, !.seen = {},
                                  !.clean = CleanReport, !.recovering = FALSE])
  BY DEF Reserve
<1> DEFINE saved == [NoAttempt EXCEPT !.run = x[e].run, !.trial = {t}, !.stage = "reserved"]
           new == [x[e] EXCEPT !.pc = "prepare", !.cur = i, !.plan = @ \ {t}, !.seen = {},
                               !.clean = CleanReport, !.recovering = FALSE]
<1> PICK r \in Runs : r = x[e].run
  BY <1>1, OwedTrials
<1>3. x[e] \in Memory /\ att \in [Ids -> Attempt] /\ runLock[r] = e
      /\ asked \in [Runs -> [Trials -> Nat]]
  BY <1>1, OwedTrials DEF IInv, TypeOK, RInv, Locked
<1>4. saved.run = r /\ saved.trial = {t}
  BY DEF NoAttempt
<1>5. /\ new.pc = "prepare" /\ new.run = r /\ new.plan = x[e].plan \ {t}
  BY <1>3 DEF Memory
<1> HIDE DEF saved, new
<1>6. att'[i] \in {saved, att[i]} /\ \A j \in Ids \ {i} : att'[j] = att[j]
  BY <1>2, <1>3 DEF Save, saved
<1>7. att[i].run = NoRun
  BY <1>2, Names DEF Exists, IInv, Kept, Journal, Fresh, NoAttempt
<1>8. x'[e] = new /\ \A f \in Procs \ {e} : x'[f] = x[f]
  BY <1>2, Became DEF new
<1>9. x'[e].pc = "prepare" /\ x'[e].run = r /\ Owed(x'[e]) = x[e].plan \ {t}
      /\ Owed(x[e]) = x[e].plan
  BY <1>1, <1>5, <1>8 DEF Owed, Planning
<1>10. Locked'
  BY <1>1, <1>3, <1>8, <1>9 DEF RInv, Locked, Visiting
<1>11. /\ Attempts(r, t)' \in {Attempts(r, t), Attempts(r, t) \cup {i}}
       /\ \A q \in Runs : \A u \in Trials : q # r \/ u # t => Attempts(q, u)' = Attempts(q, u)
  <2>1. ASSUME NEW q \in Runs, NEW u \in Trials
        PROVE  /\ i \notin Attempts(q, u)
               /\ Attempts(q, u)' = Attempts(q, u) \/ Attempts(q, u)' = Attempts(q, u) \cup {i}
               /\ i \in Attempts(q, u)' => q = r /\ u = t
    <3>1. i \notin Attempts(q, u)
      BY <1>7, Names DEF Attempts, Used
    <3>2. \A j \in Ids \ {i} : j \in Attempts(q, u)' <=> j \in Attempts(q, u)
      BY <1>6 DEF Attempts, Used
    <3>3. i \in Attempts(q, u)' => q = r /\ u = t
      BY <1>4, <1>6, <1>7, Names DEF Attempts, Used
    <3>4. Attempts(q, u) \subseteq Ids /\ Attempts(q, u)' \subseteq Ids
      BY DEF Attempts, Used
    <3> QED BY <1>2, <3>1, <3>2, <3>3, <3>4
  <2>2. ASSUME NEW q \in Runs, NEW u \in Trials, q # r \/ u # t
        PROVE  Attempts(q, u)' = Attempts(q, u)
    BY <2>1, <2>2
  <2> QED BY <1>3, <2>1, <2>2
<1>12. /\ IsFiniteSet(Attempts(r, t)) /\ Cardinality(Attempts(r, t)) \in Nat
       /\ Cardinality(Attempts(r, t)) <= asked[r][t] /\ asked[r][t] \in Nat
  <2>1. IsFiniteSet(Attempts(r, t)) /\ Cardinality(Attempts(r, t)) <= asked[r][t]
    BY <1>1, <1>3, <1>9 DEF RInv, Requested
  <2> QED BY <1>3, <2>1, FS_CardinalityType
<1>13. IsFiniteSet(Attempts(r, t)') /\ Cardinality(Attempts(r, t)') <= 1 + asked[r][t]
  <2> DEFINE S == Attempts(r, t)
  <2>1. /\ IsFiniteSet(S \cup {i})
        /\ Cardinality(S \cup {i}) = IF i \in S THEN Cardinality(S) ELSE Cardinality(S) + 1
    <3>1. IsFiniteSet(S)
      BY <1>12
    <3> HIDE DEF S
    <3> QED BY <3>1, FS_AddElement
  <2>2. Cardinality(S \cup {i}) <= 1 + asked[r][t] /\ Cardinality(S) <= 1 + asked[r][t]
    BY <1>12, <2>1
  <2> QED BY <1>11, <1>12, <2>1, <2>2
<1>14. Requested'
  <2>1. ASSUME NEW q \in Runs, NEW u \in Trials
        PROVE  (IsFiniteSet(Attempts(q, u)) /\ Cardinality(Attempts(q, u)) <= 1 + asked[q][u])'
    <3>1. CASE q = r /\ u = t
      <4>1. Attempts(q, u)' = Attempts(r, t)'
        BY <3>1 DEF Attempts, Used
      <4> QED BY <1>1, <1>13, <3>1
    <3>2. CASE q # r \/ u # t
      BY <1>1, <1>11, <3>2 DEF RInv, Requested
    <3> QED BY <3>1, <3>2
  <2>2. ASSUME NEW f \in Procs, x'[f].pc # "idle", NEW u \in Owed(x'[f])
        PROVE  (Cardinality(Attempts(x[f].run, u)) <= asked[x[f].run][u])'
    <3>1. /\ x'[f].run = x[f].run /\ x[f].pc # "idle" /\ u \in Owed(x[f]) /\ u \in Trials
          /\ x[f].run \in Runs /\ (x[f].run # r \/ u # t)
      <4>1. CASE f = e
        BY <1>1, <1>3, <1>9, <2>2, <4>1, OwedTrials
      <4>2. CASE f # e
        <5>1. x'[f] = x[f] /\ x[f].pc # "idle"
          BY <1>8, <2>2, <4>2
        <5>2. x[f].run \in Runs /\ runLock[x[f].run] = f /\ u \in Trials
          BY <2>2, <5>1, OwedTrials DEF RInv, Locked
        <5> QED BY <1>3, <2>2, <4>2, <5>1, <5>2
      <4> QED BY <4>1, <4>2
    <3>2. Cardinality(Attempts(x[f].run, u)) <= asked[x[f].run][u]
      BY <3>1 DEF RInv, Requested
    <3>3. Attempts(x[f].run, u)' = Attempts(x[f].run, u)
      <4> DEFINE q == x[f].run
      <4>1. {j \in Ids : att'[j].run = q /\ u \in att'[j].trial} =
            {j \in Ids : att[j].run = q /\ u \in att[j].trial}
        BY <1>11, <3>1 DEF Attempts, Used
      <4> QED BY <3>1, <4>1 DEF Attempts, Used
    <3> QED BY <1>1, <3>1, <3>2, <3>3
  <2> QED BY <2>1, <2>2 DEF Requested
<1> QED BY <1>10, <1>14 DEF RInv

\* What changes neither attempts, locks, executors nor requests keeps to them.
LEMMA QuietAsked ==
  ASSUME RInv, UNCHANGED <<att, asked, runLock, x>>
  PROVE  RInv'
  BY DEF RInv, Locked, Requested, Attempts, Used

\* At first nobody has a lock and nothing was attempted.
LEMMA InitAsked == Init => RInv
<1> SUFFICES ASSUME Init PROVE RInv
  OBVIOUS
<1>1. \A e \in Procs : x[e].pc = "idle"
  BY DEF Init, Rest
<1>2. Locked
  BY <1>1 DEF Locked, Visiting
<1>3. ASSUME NEW r \in Runs, NEW t \in Trials
      PROVE  IsFiniteSet(Attempts(r, t)) /\ Cardinality(Attempts(r, t)) <= 1 + asked[r][t]
  <2>1. Attempts(r, t) = {}
    BY Names DEF Init, Attempts, Used, NoAttempt
  <2>2. asked[r][t] = 0
    BY DEF Init
  <2> QED BY <2>1, <2>2, FS_EmptySet
<1> QED BY <1>1, <1>2, <1>3 DEF RInv, Requested

\* Every step keeps the second invariant, given the first.
LEMMA NextAsked == IInv /\ RInv /\ [Next]_vars => RInv'
<1> SUFFICES ASSUME IInv, RInv, [Next]_vars PROVE RInv'
  OBVIOUS
<1>1. CASE UNCHANGED vars
  BY <1>1, QuietAsked DEF vars
<1>2. ASSUME NEW e \in Procs, Resume(e) PROVE RInv'
  BY <1>2, StartAsked DEF Resume
<1>3. ASSUME NEW e \in Procs, Reconcile(e) PROVE RInv'
  <2>1. CASE TakeNative(e) \/ ReconcileNext(e) \/ ReconcileDone(e) \/ MarkInvalid(e)
    BY <2>1, LocksAsked
  <2>2. CASE ReconcilePublish(e) \/ ReconcileRecord(e)
    BY <2>2, OwnsRoutine, RoutineAsked DEF Alike
  <2>3. ASSUME NEW i \in Ids, ReconcileTrusted(e, i) \/ ReconcileKill(e, i) PROVE RInv'
    BY <2>3, ReconcilesRoutine, RoutineAsked DEF Alike
  <2>4. CASE Restage(e)
    BY <2>4, RestageRoutine, RoutineAsked DEF Alike
  <2> QED BY <1>3, <2>1, <2>2, <2>3, <2>4 DEF Reconcile
<1>4. ASSUME NEW e \in Procs, Execute(e) PROVE RInv'
  <2>1. CASE Prepare(e) \/ LaunchIntent(e) \/ BeginInteraction(e) \/ BeginStop(e)
    BY <2>1, SavesRoutine, RoutineAsked DEF Alike
  <2>2. CASE ClaimSetup(e) \/ PublishLaunch(e) \/ OwnCleanup(e) \/ RecordCleanup(e)
    BY <2>2, OwnsRoutine, RoutineAsked DEF Alike
  <2>3. CASE NoSetup(e) \/ SpawnDaemon(e) \/ EndInteraction(e) \/ Raise(e)
    BY <2>3, GoesRoutine, RoutineAsked DEF Alike
  <2>4. CASE SpawnSetup(e) \/ EndSetup(e) \/ OwnSetup(e) \/ ObserveLaunch(e) \/ Notice(e)
             \/ Poll(e) \/ Close(e)
    BY <2>4, HeldSteps, RoutineAsked DEF Alike
  <2>5. CASE Gate(e) \/ Recovered(e) \/ Finish(e) \/ Capture(e)
    BY <2>5, GateAsked, LocksAsked, CaptureAsked
  <2>6. ASSUME NEW i \in Ids, Recover(e, i) PROVE RInv'
    BY <2>6, RecoverRoutine, RoutineAsked DEF Alike
  <2>7. ASSUME NEW t \in Trials, Reserve(e, t) PROVE RInv'
    BY <2>7, ReserveAsked
  <2> QED BY <1>4, <2>1, <2>2, <2>3, <2>4, <2>5, <2>6, <2>7 DEF Execute
<1>5. ASSUME NEW e \in Procs, Crash(e) PROVE RInv'
  BY <1>5, LocksAsked
<1>6. ASSUME NEW i \in Ids, NEW k \in Kinds, Fork(i, k) \/ Exit(i, k) PROVE RInv'
  BY <1>6, QuietAsked DEF Fork, Exit
<1>7. ASSUME NEW r \in Runs, Tamper(r) PROVE RInv'
  BY <1>7, QuietAsked DEF Tamper
<1> QED BY <1>1, <1>2, <1>3, <1>4, <1>5, <1>6, <1>7 DEF Next

-----------------------------------------------------------------------------
(* What the invariant says of the steps. *)

\* A terminal starts when, and only when, it is launched.
LEMMA OnlyLaunch ==
  ASSUME IInv, [Next]_vars, NEW i \in Ids, "daemon" \notin alive[i], "daemon" \in alive'[i]
  PROVE  \E e \in Procs : SpawnDaemon(e) /\ x[e].cur = i
<1>1. alive \in [Ids -> SUBSET Kinds] /\ alive' # alive
  BY DEF IInv, TypeOK
<1>2. ASSUME NEW e \in Procs, Resume(e) PROVE FALSE
  BY <1>1, <1>2 DEF Resume, Start
<1>3. ASSUME NEW e \in Procs, Reconcile(e) PROVE FALSE
  <2>1. PICK j \in Ids : ReconcileKill(e, j)
    BY <1>1, <1>3 DEF Reconcile, TakeNative, ReconcilePublish, ReconcileRecord, Restage,
                      ReconcileNext, ReconcileDone, MarkInvalid, ReconcileTrusted
  <2> QED BY <1>1, <2>1 DEF ReconcileKill
<1>4. ASSUME NEW e \in Procs, Execute(e) PROVE SpawnDaemon(e) /\ x[e].cur = i
  <2>1. SpawnSetup(e) \/ EndSetup(e) \/ SpawnDaemon(e) \/ Close(e)
    BY <1>1, <1>4 DEF Execute, Gate, Recovered, Finish, Recover, Reserve, Prepare, NoSetup,
                      ClaimSetup, OwnSetup, LaunchIntent, ObserveLaunch, PublishLaunch,
                      BeginInteraction, Notice, Poll, EndInteraction, Raise, BeginStop, OwnCleanup,
                      RecordCleanup, Capture
  <2>2. CASE SpawnSetup(e)
    BY <1>1, <2>2 DEF SpawnSetup
  <2>3. CASE EndSetup(e)
    BY <1>1, <2>3 DEF EndSetup
  <2>4. CASE SpawnDaemon(e)
    BY <1>1, <2>4 DEF SpawnDaemon
  <2>5. CASE Close(e)
    BY <1>1, <2>5 DEF Close
  <2> QED BY <2>1, <2>2, <2>3, <2>4, <2>5
<1>5. ASSUME NEW e \in Procs, Crash(e) PROVE FALSE
  BY <1>1, <1>5 DEF Crash
<1>6. ASSUME NEW j \in Ids, NEW k \in Kinds, Fork(j, k) PROVE FALSE
  BY <1>1, <1>6 DEF Fork, Parent
<1>7. ASSUME NEW j \in Ids, NEW k \in Kinds, Exit(j, k) PROVE FALSE
  BY <1>1, <1>7 DEF Exit
<1>8. ASSUME NEW r \in Runs, Tamper(r) PROVE FALSE
  BY <1>1, <1>8 DEF Tamper
<1> QED BY <1>1, <1>2, <1>3, <1>4, <1>5, <1>6, <1>7, <1>8 DEF Next, vars

\* An attempt gets its capture when, and only when, it is captured.
LEMMA OnlyCapture ==
  ASSUME IInv, [Next]_vars, NEW i \in Ids, att'[i].capture # att[i].capture
  PROVE  \E e \in Procs : Capture(e) /\ x[e].cur = i
<1>1. att \in [Ids -> Attempt] /\ att' # att /\ ~ Alike
  BY DEF IInv, TypeOK, Alike
<1>2. ASSUME NEW e \in Procs, Resume(e) PROVE FALSE
  BY <1>1, <1>2 DEF Resume, Start
<1>3. ASSUME NEW e \in Procs, Reconcile(e) PROVE FALSE
  <2>1. CASE MarkInvalid(e)
    <3>1. PICK j \in x[e].todo : Save(j, [att[j] EXCEPT !.failed = TRUE])
      BY <1>1, <2>1 DEF MarkInvalid
    <3>2. x[e] \in Memory
      BY DEF IInv, TypeOK
    <3>3. j \in Ids /\ att[j] \in Attempt
      BY <1>1, <3>1, <3>2, MemoryFields
    <3> DEFINE new == [att[j] EXCEPT !.failed = TRUE]
    <3>4. new.run = att[j].run /\ new.trial = att[j].trial /\ new.capture = att[j].capture
      BY <3>3 DEF Attempt
    <3>5. Save(j, new)
      BY <3>1
    <3> HIDE DEF new
    <3> QED BY <1>1, <3>3, <3>4, <3>5, AlikeSaved
  <2>2. CASE TakeNative(e) \/ ReconcileNext(e) \/ ReconcileDone(e)
    BY <1>1, <2>2 DEF TakeNative, ReconcileNext, ReconcileDone
  <2>3. CASE ReconcilePublish(e) \/ ReconcileRecord(e)
    BY <1>1, <2>3, OwnsRoutine
  <2>4. CASE Restage(e)
    BY <1>1, <2>4, RestageRoutine
  <2>5. ASSUME NEW j \in Ids, ReconcileTrusted(e, j) \/ ReconcileKill(e, j) PROVE FALSE
    BY <1>1, <2>5, ReconcilesRoutine
  <2> QED BY <1>3, <2>1, <2>2, <2>3, <2>4, <2>5 DEF Reconcile
<1>4. ASSUME NEW e \in Procs, Execute(e) PROVE Capture(e) /\ x[e].cur = i
  <2>1. CASE Capture(e)
    BY <1>1, <2>1 DEF Capture, Save
  <2>2. CASE Gate(e) \/ Recovered(e) \/ Finish(e)
    BY <1>1, <2>2 DEF Gate, Recovered, Finish
  <2>3. CASE Prepare(e) \/ LaunchIntent(e) \/ BeginInteraction(e) \/ BeginStop(e)
    BY <1>1, <2>3, SavesRoutine
  <2>4. CASE ClaimSetup(e) \/ PublishLaunch(e) \/ OwnCleanup(e) \/ RecordCleanup(e)
    BY <1>1, <2>4, OwnsRoutine
  <2>5. CASE NoSetup(e) \/ SpawnDaemon(e) \/ EndInteraction(e) \/ Raise(e)
    BY <1>1, <2>5, GoesRoutine
  <2>6. CASE SpawnSetup(e) \/ EndSetup(e) \/ OwnSetup(e) \/ ObserveLaunch(e) \/ Notice(e)
             \/ Poll(e) \/ Close(e)
    BY <1>1, <2>6, HeldSteps
  <2>7. ASSUME NEW j \in Ids, Recover(e, j) PROVE FALSE
    BY <1>1, <2>7, RecoverRoutine
  <2>8. ASSUME NEW t \in Trials, Reserve(e, t) PROVE FALSE
    <3>1. PICK j \in Ids \ Exists :
            Save(j, [NoAttempt EXCEPT !.run = x[e].run, !.trial = {t}, !.stage = "reserved"])
      BY <2>8 DEF Reserve
    <3>2. att[j] = NoAttempt
      BY <3>1 DEF Exists, IInv, Kept, Journal, Fresh
    <3> DEFINE new == [NoAttempt EXCEPT !.run = x[e].run, !.trial = {t}, !.stage = "reserved"]
    <3>3. new.capture = "none" /\ NoAttempt.capture = "none"
      BY DEF NoAttempt
    <3>4. Save(j, new)
      BY <3>1
    <3> HIDE DEF new
    <3> QED BY <1>1, <3>1, <3>2, <3>3, <3>4 DEF Save
  <2> QED BY <1>4, <2>1, <2>2, <2>3, <2>4, <2>5, <2>6, <2>7, <2>8 DEF Execute
<1>5. ASSUME NEW e \in Procs, Crash(e) PROVE FALSE
  BY <1>1, <1>5 DEF Crash
<1>6. ASSUME NEW j \in Ids, NEW k \in Kinds, Fork(j, k) \/ Exit(j, k) PROVE FALSE
  BY <1>1, <1>6 DEF Fork, Exit
<1>7. ASSUME NEW r \in Runs, Tamper(r) PROVE FALSE
  BY <1>1, <1>7 DEF Tamper
<1> QED BY <1>1, <1>2, <1>3, <1>4, <1>5, <1>6, <1>7 DEF Next, vars

\* A subject is launched in a run of which no capture failed, when all other attempts are settled.
LEMMA LaunchSettled ==
  ASSUME IInv, [Next]_vars, NEW i \in Ids, "daemon" \notin alive[i], "daemon" \in alive'[i]
  PROVE  OthersSettled(i) /\ ~ Failed(att[i].run)
<1>1. PICK e \in Procs : SpawnDaemon(e) /\ x[e].cur = i
  BY OnlyLaunch
<1>2. x[e].pc = "launch"
  BY <1>1 DEF SpawnDaemon
<1> QED BY <1>1, <1>2, AtHand

\* A capture that claims a settled workspace is of an attempt of which nothing is left.
LEMMA CaptureGone ==
  ASSUME IInv, [Next]_vars, NEW i \in Ids, att[i].capture = "none", att'[i].capture = "full"
  PROVE  Gone(i)
<1>1. PICK e \in Procs : Capture(e) /\ x[e].cur = i
  BY OnlyCapture
<1>2. x[e].pc = "capture" /\ att[i] \in Attempt /\ att \in [Ids -> Attempt]
  BY <1>1 DEF Capture, IInv, TypeOK
<1>3. Quiescent(x[e].clean)
  <2>1. CASE Save(i, [att[i] EXCEPT !.stage = "captured", !.failed = TRUE])
    <3> DEFINE new == [att[i] EXCEPT !.stage = "captured", !.failed = TRUE]
    <3>1. new.capture = "none"
      BY <1>2 DEF Attempt
    <3>2. Save(i, new)
      BY <2>1
    <3> HIDE DEF new
    <3> QED BY <1>2, <3>1, <3>2 DEF Save
  <2>2. CASE ~ Quiescent(x[e].clean)
             /\ Save(i, [att[i] EXCEPT !.stage = "captured", !.capture = "partial"])
    <3> DEFINE new == [att[i] EXCEPT !.stage = "captured", !.capture = "partial"]
    <3>1. new.capture = "partial"
      BY <1>2 DEF Attempt
    <3>2. Save(i, new)
      BY <2>2
    <3> HIDE DEF new
    <3> QED BY <1>2, <3>1, <3>2 DEF Save
  <2> QED BY <1>1, <2>1, <2>2 DEF Capture
<1>4. Reporting(x[e])
  BY <1>2, AtHand
<1>5. Settled(i)
  BY <1>1, <1>2, <1>3, <1>4 DEF Reporting, Settled
<1> QED BY <1>5 DEF IInv, Kept, Journal, Truthful

-----------------------------------------------------------------------------
(* The theorems. *)

\* NeverRefused: whatever crashes and resumes interleave, no save is refused.
THEOREM SavesNeverRefused == Spec => []NeverRefused
<1>1. IInv => NeverRefused
  BY DEF IInv, Kept, Journal, NeverRefused
<1> QED BY <1>1, Invariant, PTL

\* SubjectsApart: no two subjects run at once, nor a subject and a leftover that is recorded; and
\* a trial is attempted again only on request.
THEOREM SubjectsStayApart == Spec => []SubjectsApart
<1>1. IInv /\ RInv => SubjectsApart
  BY DEF IInv, Kept, Journal, RInv, Requested, Attempts, SubjectsApart, RetryOnRequest
<1>2. Spec => []RInv
  BY Invariant, InitAsked, NextAsked, PTL DEF Spec
<1> QED BY <1>1, <1>2, Invariant, PTL

\* NoLaunchAfterFailure: once a capture of a run failed, the run launches nothing.
THEOREM FailureBlocksRun == Spec => NoLaunchAfterFailure
<1>1. IInv /\ [Next]_vars =>
        [\A i \in Ids : "daemon" \notin alive[i] /\ "daemon" \in alive'[i] => ~ Failed(att[i].run)]_vars
  BY LaunchSettled
<1> QED BY <1>1, Invariant, PTL DEF Spec, NoLaunchAfterFailure

\* LaunchedAndCapturedQuiet: a subject is launched, and a settled workspace captured, only when
\* every process that could still write is accounted for.
THEOREM QuietLaunchAndCapture == Spec => LaunchedAndCapturedQuiet
<1>1. IInv /\ [Next]_vars => LaunchStep
  BY LaunchSettled DEF LaunchStep, OthersSettled, Settled
<1>2. IInv /\ [Next]_vars => CaptureStep
  BY CaptureGone DEF CaptureStep, Gone
<1>3. IInv /\ [Next]_vars => [LaunchStep /\ CaptureStep]_vars
  BY <1>1, <1>2
<1> QED BY <1>3, Invariant, PTL DEF Spec, LaunchedAndCapturedQuiet
=============================================================================
