---------------------------- MODULE AssessmentProofs ----------------------------
(***************************************************************************)
(* What grading keeps, however often its sessions die: for any attempts,   *)
(* case, passes, budgets and number of faults.                             *)
(*                                                                         *)
(* A session reads back what its predecessors recorded, and none of the    *)
(* promises holds of that by itself: a check is not run again because its  *)
(* intent was recorded first, a suite is not split because the session     *)
(* looked at the suite when it began, a grade accounts for everything      *)
(* because the loop over the checks passed every one of them.  IInv says   *)
(* what is recorded (History), which pass a session works on (InPass),     *)
(* what it knows of the attempt in hand (InHand), and how far it is with   *)
(* it (AtWork).  Coverage and Quiet add whom a pass has graded and what may    *)
(* still run.                                                              *)
(***************************************************************************)
EXTENDS Assessment, SequenceTheorems, FiniteSetTheorems, TLAPS

\* A session that has an attempt in hand is at one of the steps of Grading; at
\* these it has looked at it, it runs its checks, it judges it.
Checking == {"checks", "launch", "running", "result"}
Judging  == {"facts", "judging_facts"}
Rating   == {"rubrics", "ask_rubrics", "judging_rubrics"}
Underway == Checking \cup Judging \cup Rating \cup {"finish"}
Loaded   == Underway \cup {"stage"}

-----------------------------------------------------------------------------
(* The inductive invariant. *)

\* Every check of a pass was run at most once, and those of a suite by one session.
RanOnce(w) ==
    \A c \in Checks : w.ran[c] # {} => c \in w.intents /\ \A m, n \in w.ran[c] : m = n
RanTogether(w) ==
    \A c, d \in Suited : \A m \in w.ran[c], n \in w.ran[d] : m = n

\* The judge was called within its budget, for facts first.
Called(w) ==
    /\ w.calls <= MaxCalls
    /\ w.calls > 0 => w.factsAsked \/ w.rubricsAsked
    /\ w.rubricsAsked => w.facts # "none"

Bounded(w) == RanOnce(w) /\ RanTogether(w) /\ Called(w)

\* Everything that a grade accounts for has a result.
ChecksComplete(w) == \A c \in Checks : w.results[c] # "none"
Complete(w) ==
    ChecksComplete(w) /\ w.facts # "none" /\ \A r \in Rubrics : w.rubrics[r] # "none"

Ran(w) == {c \in Checks : w.results[c] = "ran"}

\* What an assessment at position i of the chain of a says.
Sound(a, i) ==
    LET e == chain[a][i] IN
    /\ e.previous = i - 1
    /\ e.scope <= Len(regrades)
    /\ e.kind = "graded" =>
         /\ att[a].stage = "finished"
         /\ e.scope <= Current(a).scope
         /\ \A j \in DOMAIN chain[a] : chain[a][j].kind = "graded" /\ chain[a][j].scope = e.scope => j = i
         /\ e.ok => Complete(work[a][e.scope])
         /\ e.ok /\ e.scope = 0 => Ran(work[a][0]) \subseteq e.evidence
    /\ att[a].stage # "finished" => e.reviews = {}

\* An attempt has assessments once it is audited, and evidence of what its first
\* grading ran until it is graded.
Assessable(a) ==
    /\ chain[a] = << >> <=> att[a].stage \in {"none", "captured"} \cup Active
    /\ att[a].stage \notin {"grading", "finished"} => Ran(work[a][0]) = {}
    /\ att[a].stage # "finished" => Ran(work[a][0]) \subseteq work[a][0].files

History ==
    /\ \A a \in Attempts : Assessable(a) /\ \A i \in DOMAIN chain[a] : Sound(a, i)
    /\ \A a \in Attempts : \A s \in Scopes : Bounded(work[a][s])
    /\ Len(regrades) <= MaxRegrades

\* A session works on the pass that is open, or on the first assessment when none is.
InPass ==
    /\ x.pc = "idle" <=> x.kind = "none"
    /\ x.kind = "assess" => Open = 0 /\ x.scope = 0 /\ x.case = NoCase /\ x.pc # "mark"
    /\ x.kind = "regrade" /\ (x.pc # "reconcile" \/ Open # 0) =>
         Open # 0 /\ x.scope = Open /\ x.case = regrades[Open].case
    /\ x.kind = "regrade" /\ x.pc = "reconcile" /\ Open = 0 => x.scope = Len(regrades) + 1
    /\ x.pc \in {"reconcile", "next", "load", "stage"} => x.made = 0 /\ x.round = 0
    /\ x.kind = "assess" /\ x.pc # "reconcile" => \A a \in x.todo : att[a].stage # "finished"

\* The attempt in hand has no grade of the pass yet.
InHand ==
    /\ x.pc \in Grading \cup {"mark"} => Cur \in Attempts
    /\ x.pc \in Grading =>
         /\ Cur \in x.todo
         /\ \A i \in DOMAIN chain[Cur] : chain[Cur][i].kind = "graded" => chain[Cur][i].scope # x.scope
    /\ x.pc \in Loaded =>
         /\ x.previous = Len(chain[Cur])
         /\ IF chain[Cur] = << >> THEN x.reviews = {}
                                  ELSE Current(Cur).reviews \cap x.findings \subseteq x.reviews
    /\ x.pc \in Underway => att[Cur].stage \in {"grading", "finished"}

\* The checks before the next one have results, and those of the suite are run
\* by this session or not at all.
AtChecks(m, w) == m.pc \in Checking =>
    /\ m.next > 0 /\ m.made = 0 /\ m.round = 0 /\ w.calls = m.saved
    /\ \A c \in Checks : c < m.next => w.results[c] # "none"
    /\ ~ m.torn => \A c \in Suited : w.ran[c] \subseteq {w.sessions}
    /\ m.pc # "checks" => m.next \in Checks \cap w.intents /\ (m.next \in Suited => ~ m.torn)
    /\ m.pc = "launch" => w.ran[m.next] = {}
    /\ m.pc = "result" => m.next \in w.files

\* The calls of this session and of those before it are within the budget.
AtJudge(m, w) ==
    /\ m.pc \in Judging \cup Rating => ChecksComplete(w)
    /\ m.pc \in Judging => m.saved = 0 /\ w.factsAsked
    /\ m.pc \in Rating => w.facts # "none"
    /\ m.pc \in {"facts", "rubrics", "ask_rubrics"} => w.calls = m.saved + m.made
    /\ m.pc \in {"judging_facts", "judging_rubrics"} =>
         w.calls = m.saved + m.made + 1 /\ m.saved + m.made < MaxCalls
    /\ m.pc = "judging_facts" => m.round < 3
    /\ m.pc = "ask_rubrics" => w.rubricsAsked /\ m.saved + m.made < MaxCalls
    /\ m.pc = "finish" /\ m.ok => Complete(w)

AtWork == x.pc \in Underway => AtChecks(x, Work) /\ AtJudge(x, Work)

IInv == TypeOK /\ History /\ InPass /\ InHand /\ AtWork
-----------------------------------------------------------------------------
(* Types. *)

USE DEF At, Goto, Cur, events, procs, Grading, Checking, Judging, Rating, Underway, Loaded

\* The bounds are numbers, and suites are made of verifiers.
LEMMA Sizes ==
  /\ Verifiers \in Nat /\ Metrics \in Nat /\ MaxCalls \in Nat /\ MaxRegrades \in Nat
  /\ MaxFaults \in Nat /\ Suited \subseteq Checks /\ NoAttempt \notin Attempts
  /\ 0 \in Scopes
  BY SizesAssumption, InputsAssumption, NamesAssumption DEF Checks, Scopes

\* No event yet, and no command.
LEMMA Nothing ==
  NoWork \in WorkRecord /\ Rest \in Memory
  BY Sizes DEF NoWork, WorkRecord, Rest, Memory, Scopes

\* The fields of a session's memory.
LEMMA MemoryFields ==
  ASSUME NEW m \in Memory
  PROVE  /\ m.scope \in Scopes /\ m.case \in Cases \cup {NoCase} /\ m.todo \subseteq Attempts
         /\ m.cur \in Attempts \cup {NoAttempt} /\ m.ok \in BOOLEAN /\ m.torn \in BOOLEAN
         /\ m.findings \subseteq Findings /\ m.reviews \subseteq Findings /\ m.previous \in Nat
         /\ m.next \in Nat /\ m.saved \in Nat /\ m.made \in 0 .. MaxCalls /\ m.round \in 0 .. 3
         /\ m.judged \subseteq Rubrics /\ m.kind \in {"none", "assess", "regrade"}
         /\ m.pc \in {"idle", "reconcile", "next", "mark"} \cup Grading /\ m.bad \in BOOLEAN
  BY DEF Memory

\* The fields of what was recorded of a pass.
LEMMA WorkFields ==
  ASSUME NEW w \in WorkRecord
  PROVE  /\ w.intents \subseteq Checks /\ w.files \subseteq Checks /\ w.calls \in Nat
         /\ w.results \in [Checks -> {"none", "ran", "interrupted"}]
         /\ w.factsAsked \in BOOLEAN /\ w.rubricsAsked \in BOOLEAN
         /\ w.facts \in {"none", "empty", "judged"} /\ w.sessions \in Nat
         /\ w.rubrics \in [Rubrics -> {"none", "judged", "interrupted", "no_prompt", "budget",
                                       "no_judge"}]
         /\ w.ran \in [Checks -> SUBSET Nat]
  BY DEF WorkRecord

\* A record of the pass in hand changes nothing else.
LEMMA RecordFacts ==
  ASSUME TypeOK, Cur \in Attempts, NEW new, Record(new)
  PROVE  /\ work'[Cur][x.scope] = new
         /\ \A a \in Attempts, s \in Scopes : a # Cur \/ s # x.scope => work'[a][s] = work[a][s]
         /\ new \in WorkRecord => work' \in [Attempts -> [Scopes -> WorkRecord]]
<1>1. x.scope \in Scopes /\ work \in [Attempts -> [Scopes -> WorkRecord]]
  BY MemoryFields DEF TypeOK
<1>2. work' = [work EXCEPT ![Cur] = [work[Cur] EXCEPT ![x.scope] = new]]
  BY <1>1 DEF Record
<1> QED BY <1>1, <1>2

\* What may happen to the processes of an attempt, and to the budget of faults.
ProcsOK ==
    /\ left \in [Attempts -> {"none", "own", "orphan"}] /\ trusted \in [Attempts -> BOOLEAN]
    /\ faults \in Nat

\* A reconciliation keeps the types of the processes,
LEMMA StopType ==
  ASSUME TypeOK, NEW a \in Attempts, NEW survives \in BOOLEAN, Stop(a, survives)
  PROVE  /\ left' \in [Attempts -> {"none", "own", "orphan"}] /\ trusted' \in [Attempts -> BOOLEAN]
  BY DEF TypeOK, Stop

\* so does a fault of their budget,
LEMMA FaultType ==
  ASSUME TypeOK, Fault \/ (\E b \in BOOLEAN : FaultIf(b)) \/ UNCHANGED faults
  PROVE  faults' \in Nat
  BY DEF TypeOK, Fault, FaultIf

\* a launch,
LEMMA LaunchType ==
  ASSUME TypeOK, Launched, UNCHANGED faults
  PROVE  ProcsOK'
  BY DEF TypeOK, Launched, ProcsOK

\* an end,
LEMMA EndType ==
  ASSUME TypeOK, NEW survives \in BOOLEAN, FaultIf(survives), Ended(survives), UNCHANGED trusted
  PROVE  ProcsOK'
<1>1. faults' \in Nat
  BY FaultType
<1> QED BY <1>1 DEF TypeOK, Ended, ProcsOK

\* and a step that leaves them alone.
LEMMA SameProcs ==
  ASSUME TypeOK, UNCHANGED procs, Fault \/ (\E b \in BOOLEAN : FaultIf(b)) \/ UNCHANGED faults
  PROVE  ProcsOK'
<1>1. faults' \in Nat
  BY FaultType
<1> QED BY <1>1 DEF TypeOK, ProcsOK

\* Types, taken together.
LEMMA TypesTogether ==
  ASSUME TypeOK, ProcsOK', x' \in Memory, UNCHANGED <<att, heard, chain, regrades>>,
         work' \in [Attempts -> [Scopes -> WorkRecord]]
  PROVE  TypeOK'
  BY DEF TypeOK, ProcsOK

\* The current assessment of an attempt is an assessment.
LEMMA ChainFacts ==
  ASSUME TypeOK, NEW a \in Attempts
  PROVE  /\ Len(chain[a]) \in Nat /\ DOMAIN chain[a] = 1 .. Len(chain[a])
         /\ \A i \in DOMAIN chain[a] : chain[a][i] \in AssessmentObject
         /\ chain[a] # << >> => Len(chain[a]) \in DOMAIN chain[a] /\ Current(a) \in AssessmentObject
<1>1. chain[a] \in Seq(AssessmentObject)
  BY DEF TypeOK
<1> QED BY <1>1, LenProperties, EmptySeq, ElementOfSeq DEF Current

\* The fields of an assessment.
LEMMA ObjectFields ==
  ASSUME NEW e \in AssessmentObject
  PROVE  /\ e.scope \in Scopes /\ e.case \in Cases \cup {NoCase} /\ e.ok \in BOOLEAN
         /\ e.findings \subseteq Findings /\ e.reviews \subseteq Findings /\ e.previous \in Nat
         /\ e.evidence \subseteq Checks
  BY DEF AssessmentObject

\* The open pass is the last one.
LEMMA OpenFacts ==
  ASSUME TypeOK
  PROVE  /\ Len(regrades) \in Nat /\ Open \in 0 .. Len(regrades)
         /\ Open # 0 => Open = Len(regrades) /\ Open \in DOMAIN regrades
                        /\ ~ regrades[Open].finished /\ regrades[Open].case \in Cases \cup {NoCase}
                        /\ regrades[Open].done \subseteq Attempts
<1> DEFINE S == [case : Cases \cup {NoCase}, done : SUBSET Attempts, finished : BOOLEAN]
<1>1. regrades \in Seq(S)
  BY DEF TypeOK
<1>2. Len(regrades) \in Nat /\ DOMAIN regrades = 1 .. Len(regrades)
      /\ (regrades # << >> => Len(regrades) \in Nat \ {0})
  BY <1>1, LenProperties, EmptySeq
<1>3. \A i \in 1 .. Len(regrades) : regrades[i] \in S
  BY <1>1, ElementOfSeq
<1> QED BY <1>2, <1>3 DEF Open

-----------------------------------------------------------------------------
(* What a step leaves alone. *)

\* Events that stay tell the same.
LEMMA HistoryStays ==
  ASSUME History, UNCHANGED events
  PROVE  History'
  BY DEF History, Assessable, Sound, Current

\* A record that has run nothing more keeps to its bounds.
LEMMA BoundedKept ==
  ASSUME NEW v, NEW w, Bounded(v), w.ran = v.ran, v.intents \subseteq w.intents,
         w.calls = v.calls, v.factsAsked => w.factsAsked, w.rubricsAsked => v.rubricsAsked,
         v.rubricsAsked => w.rubricsAsked, v.facts # "none" => w.facts # "none"
  PROVE  Bounded(w)
  BY DEF Bounded, RanOnce, RanTogether, Called

\* One result is set.
LEMMA ResultSet ==
  ASSUME NEW v \in WorkRecord, NEW w, NEW c \in Checks, NEW r,
         w.results = [v.results EXCEPT ![c] = r]
  PROVE  /\ w.results[c] = r /\ \A d \in Checks \ {c} : w.results[d] = v.results[d]
         /\ Ran(w) \subseteq Ran(v) \cup {c} /\ (r # "ran" => Ran(w) \subseteq Ran(v))
<1>1. v.results \in [Checks -> {"none", "ran", "interrupted"}]
  BY WorkFields
<1>2. w.results[c] = r /\ \A d \in Checks \ {c} : w.results[d] = v.results[d]
  BY <1>1
<1> QED BY <1>2 DEF Ran

\* What a session that has an attempt in hand knows.
LEMMA Hand ==
  ASSUME IInv, x.pc \in Grading
  PROVE  /\ Cur \in Attempts /\ x.scope \in Scopes /\ x \in Memory /\ Work \in WorkRecord
         /\ Bounded(Work) /\ Cur \in x.todo
         /\ x.pc \in Underway => AtChecks(x, Work) /\ AtJudge(x, Work)
         /\ x.kind = "assess" => att[Cur].stage # "finished"
         /\ x.scope = 0 => x.kind = "assess" /\ Ran(Work) \subseteq Work.files
<1>1. x \in Memory /\ Cur \in Attempts /\ x.scope \in Scopes /\ Cur \in x.todo
  BY MemoryFields DEF IInv, TypeOK, InHand
<1>2. Work \in WorkRecord /\ Bounded(Work)
  BY <1>1 DEF IInv, TypeOK, History, Work
<1>3. x.pc # "reconcile" /\ x.kind \in {"assess", "regrade"} /\ x.pc # "mark"
  BY <1>1, MemoryFields DEF IInv, InPass
<1>4. x.kind = "assess" => att[Cur].stage # "finished"
  BY <1>1, <1>3 DEF IInv, InPass
<1>5. x.scope = 0 => x.kind = "assess"
  BY <1>3 DEF IInv, InPass
<1>6. att[Cur].stage # "finished" => Ran(work[Cur][0]) \subseteq work[Cur][0].files
  BY <1>1 DEF IInv, History, Assessable
<1> QED BY <1>1, <1>2, <1>4, <1>5, <1>6 DEF IInv, AtWork, Work

\* A command that ends leaves nothing in hand.
LEMMA Ends ==
  ASSUME IInv, x' = Rest, ProcsOK', UNCHANGED <<events, heard>>
  PROVE  IInv'
<1>1. TypeOK'
  BY Nothing, TypesTogether DEF IInv, TypeOK
<1>2. History'
  BY HistoryStays DEF IInv
<1>3. x'.pc = "idle" /\ x'.kind = "none"
  BY DEF Rest
<1> QED BY <1>1, <1>2, <1>3 DEF IInv, InPass, InHand, AtWork

\* The same attempt, in the same pass.
SameHand ==
    /\ x'.kind = x.kind /\ x'.scope = x.scope /\ x'.case = x.case /\ x'.todo = x.todo
    /\ x'.cur = x.cur /\ x'.previous = x.previous /\ x'.findings = x.findings
    /\ x'.reviews = x.reviews

\* It stays in hand.
LEMMA HandStays ==
  ASSUME IInv, x.pc \in Loaded, x'.pc \in Underway, SameHand,
         UNCHANGED <<att, chain, regrades>>, att[Cur].stage \in {"grading", "finished"}
  PROVE  InPass' /\ InHand'
<1> USE DEF IInv, SameHand
<1>1. InPass'
  BY DEF InPass, Open
<1>2. InHand'
  BY DEF InHand, Current
<1> QED BY <1>1, <1>2

\* A step that records nothing.
LEMMA Goes ==
  ASSUME IInv, x.pc \in Underway, x'.pc \in Underway, x' \in Memory, SameHand,
         UNCHANGED <<events, heard>>, ProcsOK', AtChecks(x', Work), AtJudge(x', Work)
  PROVE  IInv'
<1>1. TypeOK'
  BY TypesTogether DEF IInv, TypeOK
<1>2. History'
  BY HistoryStays DEF IInv
<1>3. InPass' /\ InHand'
  BY HandStays DEF IInv, InHand
<1>4. AtWork'
  BY DEF AtWork, SameHand, Work
<1> QED BY <1>1, <1>2, <1>3, <1>4 DEF IInv

\* A step that records something of the pass.
LEMMA Records ==
  ASSUME IInv, x.pc \in Loaded, x'.pc \in Underway, x' \in Memory, SameHand,
         NEW new \in WorkRecord, Record(new), UNCHANGED <<att, heard, chain, regrades>>, ProcsOK',
         att[Cur].stage \in {"grading", "finished"}, Bounded(new),
         x.scope = 0 => Ran(new) \subseteq new.files,
         AtChecks(x', new), AtJudge(x', new)
  PROVE  IInv'
<1>1. Cur \in Attempts /\ x.scope \in Scopes /\ TypeOK
  BY Hand DEF IInv
<1>2. /\ work'[Cur][x.scope] = new /\ work' \in [Attempts -> [Scopes -> WorkRecord]]
      /\ \A a \in Attempts, s \in Scopes : a # Cur \/ s # x.scope => work'[a][s] = work[a][s]
  BY <1>1, RecordFacts
<1>3. TypeOK'
  BY <1>1, <1>2, TypesTogether
<1>4. ASSUME NEW a \in Attempts PROVE Assessable(a)'
  <2>1. Assessable(a) /\ 0 \in Scopes
    BY Sizes DEF IInv, History
  <2>2. CASE a = Cur /\ x.scope = 0
    BY <1>2, <2>1, <2>2 DEF Assessable
  <2>3. CASE ~ (a = Cur /\ x.scope = 0)
    <3>1. work'[a][0] = work[a][0]
      BY <1>2, <2>1, <2>3
    <3> QED BY <2>1, <3>1 DEF Assessable
  <2> QED BY <2>2, <2>3
<1>5. ASSUME NEW a \in Attempts, NEW i \in DOMAIN chain[a] PROVE Sound(a, i)'
  <2>1. Sound(a, i) /\ chain[a][i] \in AssessmentObject
    BY <1>1, ChainFacts DEF IInv, History
  <2>2. chain[a][i].scope \in Scopes /\ 0 \in Scopes
    BY <2>1, ObjectFields, Sizes
  <2>3. chain[a][i].kind = "graded" => work'[a][chain[a][i].scope] = work[a][chain[a][i].scope]
    BY <1>2, <2>2 DEF IInv, InHand
  <2>4. CASE chain[a][i].kind # "graded"
    BY <2>1, <2>4 DEF Sound
  <2>5. CASE chain[a][i].kind = "graded"
    BY <2>1, <2>3, <2>5 DEF Sound, Current
  <2> QED BY <2>4, <2>5
<1>6. \A a \in Attempts : \A s \in Scopes : Bounded(work'[a][s])
  BY <1>2 DEF IInv, History
<1>7. History'
  BY <1>4, <1>5, <1>6 DEF IInv, History
<1>8. InPass' /\ InHand'
  BY HandStays
<1>9. AtWork'
  BY <1>2 DEF AtWork, SameHand, Work
<1> QED BY <1>3, <1>7, <1>8, <1>9 DEF IInv

\* When there is no next check, all have results.
LEMMA ChecksPassed ==
  ASSUME x \in Memory, x.pc = "checks", AtChecks(x, Work), x.next \notin Checks
  PROVE  ChecksComplete(Work) /\ Work.calls = x.saved /\ x.made = 0
  BY Sizes, MemoryFields DEF AtChecks, Checks, ChecksComplete

-----------------------------------------------------------------------------
(* The checks. *)

\* CheckSaved: the check before the next one has a result.
LEMMA CheckSavedKeeps ==
  ASSUME IInv, CheckSaved
  PROVE  IInv'
<1>1. x.pc = "checks" /\ x \in Memory /\ AtChecks(x, Work)
  BY Hand DEF CheckSaved
<1>2. /\ x' \in Memory /\ SameHand /\ x'.pc = "checks" /\ x'.next = x.next + 1
      /\ x'.made = x.made /\ x'.round = x.round /\ x'.saved = x.saved /\ x'.torn = x.torn
  BY <1>1 DEF CheckSaved, Memory, SameHand
<1>3. AtChecks(x', Work) /\ AtJudge(x', Work)
  BY <1>1, <1>2, MemoryFields DEF AtChecks, AtJudge, CheckSaved, Checks
<1> QED BY <1>1, <1>2, <1>3, Goes, SameProcs DEF CheckSaved, IInv

\* CheckInterrupted: what an earlier session began has a result, and is not run.
LEMMA CheckInterruptedKeeps ==
  ASSUME IInv, CheckInterrupted
  PROVE  IInv'
<1> DEFINE new == [Work EXCEPT !.results[x.next] = "interrupted"]
<1>1. /\ x.pc = "checks" /\ x \in Memory /\ AtChecks(x, Work) /\ Work \in WorkRecord
      /\ Bounded(Work) /\ x.next \in Checks /\ (x.scope = 0 => Ran(Work) \subseteq Work.files)
  BY Hand DEF CheckInterrupted
<1>2. /\ x' \in Memory /\ SameHand /\ x'.pc = "checks" /\ x'.next = x.next + 1
      /\ x'.made = x.made /\ x'.round = x.round /\ x'.saved = x.saved /\ x'.torn = x.torn
  BY <1>1 DEF CheckInterrupted, Memory, SameHand
<1>3. /\ new \in WorkRecord /\ new.intents = Work.intents /\ new.ran = Work.ran
      /\ new.calls = Work.calls /\ new.factsAsked = Work.factsAsked /\ new.facts = Work.facts
      /\ new.rubricsAsked = Work.rubricsAsked /\ new.files = Work.files
      /\ new.sessions = Work.sessions
      /\ new.results = [Work.results EXCEPT ![x.next] = "interrupted"]
  BY <1>1 DEF WorkRecord
<1> HIDE DEF new
<1>4. /\ \A c \in Checks \ {x.next} : new.results[c] = Work.results[c]
      /\ new.results[x.next] = "interrupted"
  BY <1>1, <1>3, ResultSet
<1>5. Bounded(new) /\ Ran(new) \subseteq Ran(Work)
  BY <1>1, <1>3, BoundedKept, ResultSet
<1>6. AtChecks(x', new) /\ AtJudge(x', new)
  BY <1>1, <1>2, <1>3, <1>4, MemoryFields DEF AtChecks, AtJudge, Checks
<1>7. Record(new) /\ UNCHANGED <<att, heard, chain, regrades, procs, faults>>
  BY DEF CheckInterrupted, new
<1>8. att[Cur].stage \in {"grading", "finished"} /\ ProcsOK'
  BY <1>1, <1>7, SameProcs DEF IInv, InHand
<1> QED BY <1>1, <1>2, <1>3, <1>5, <1>6, <1>7, <1>8, Records

\* CheckIntent: the intent of a check is recorded before it is run, once.
LEMMA CheckIntentKeeps ==
  ASSUME IInv, CheckIntent
  PROVE  IInv'
<1> DEFINE new == [Work EXCEPT !.intents = @ \cup {x.next}]
<1>1. /\ x.pc = "checks" /\ x \in Memory /\ AtChecks(x, Work) /\ Work \in WorkRecord
      /\ Bounded(Work) /\ x.next \in Checks /\ (x.scope = 0 => Ran(Work) \subseteq Work.files)
      /\ ~ Interrupted(x.next)
  BY Hand DEF CheckIntent
<1>2. /\ x' \in Memory /\ SameHand /\ x'.pc = "launch" /\ x'.next = x.next
      /\ x'.made = x.made /\ x'.round = x.round /\ x'.saved = x.saved /\ x'.torn = x.torn
  BY <1>1 DEF CheckIntent, Memory, SameHand
<1>3. /\ new \in WorkRecord /\ new.intents = Work.intents \cup {x.next} /\ new.ran = Work.ran
      /\ new.calls = Work.calls /\ new.factsAsked = Work.factsAsked /\ new.facts = Work.facts
      /\ new.rubricsAsked = Work.rubricsAsked /\ new.files = Work.files
      /\ new.sessions = Work.sessions /\ new.results = Work.results
  BY <1>1 DEF WorkRecord
<1> HIDE DEF new
<1>4. Bounded(new) /\ Ran(new) = Ran(Work)
  BY <1>1, <1>3, BoundedKept DEF Ran
<1>5. Work.ran[x.next] = {} /\ (x.next \in Suited => ~ x.torn)
  BY <1>1 DEF Interrupted, Bounded, RanOnce
<1>6. AtChecks(x', new) /\ AtJudge(x', new)
  BY <1>1, <1>2, <1>3, <1>5 DEF AtChecks, AtJudge
<1>7. Record(new) /\ UNCHANGED <<att, heard, chain, regrades, procs, faults>>
  BY DEF CheckIntent, new
<1>8. att[Cur].stage \in {"grading", "finished"} /\ ProcsOK'
  BY <1>1, <1>7, SameProcs DEF IInv, InHand
<1> QED BY <1>1, <1>2, <1>3, <1>4, <1>6, <1>7, <1>8, Records

\* CheckLaunch: a check that was never run is run, and its suite by this session.
LEMMA CheckLaunchKeeps ==
  ASSUME IInv, CheckLaunch
  PROVE  IInv'
<1> DEFINE new == [Work EXCEPT !.ran[x.next] = @ \cup {Work.sessions}]
<1>1. /\ x.pc = "launch" /\ x \in Memory /\ AtChecks(x, Work) /\ Work \in WorkRecord
      /\ Bounded(Work) /\ (x.scope = 0 => Ran(Work) \subseteq Work.files)
  BY Hand DEF CheckLaunch
<1>2. x.next \in Checks \cap Work.intents /\ Work.ran[x.next] = {} /\ (x.next \in Suited => ~ x.torn)
  BY <1>1 DEF AtChecks
<1>3. /\ x' \in Memory /\ SameHand /\ x'.pc = "running" /\ x'.next = x.next
      /\ x'.made = x.made /\ x'.round = x.round /\ x'.saved = x.saved /\ x'.torn = x.torn
  BY <1>1 DEF CheckLaunch, Memory, SameHand
<1>4. /\ new \in WorkRecord /\ new.intents = Work.intents
      /\ new.ran = [Work.ran EXCEPT ![x.next] = @ \cup {Work.sessions}]
      /\ new.calls = Work.calls /\ new.factsAsked = Work.factsAsked /\ new.facts = Work.facts
      /\ new.rubricsAsked = Work.rubricsAsked /\ new.files = Work.files
      /\ new.sessions = Work.sessions /\ new.results = Work.results
  BY <1>1, <1>2 DEF WorkRecord
<1> HIDE DEF new
<1>5. /\ \A c \in Checks \ {x.next} : new.ran[c] = Work.ran[c]
      /\ new.ran[x.next] = {new.sessions}
  BY <1>1, <1>2, <1>4, WorkFields
<1>6. Called(new) /\ Ran(new) = Ran(Work) /\ RanOnce(new)
  BY <1>1, <1>2, <1>4, <1>5 DEF Bounded, RanOnce, Called, Ran
<1>7. RanTogether(new)
  BY <1>1, <1>2, <1>4, <1>5, Sizes DEF AtChecks, Bounded, RanTogether
<1>8. AtChecks(x', new) /\ AtJudge(x', new)
  BY <1>1, <1>2, <1>3, <1>4, <1>5, Sizes DEF AtChecks, AtJudge
<1>9. Record(new) /\ UNCHANGED <<att, heard, chain, regrades>>
  BY DEF CheckLaunch, new
<1>10. att[Cur].stage \in {"grading", "finished"} /\ ProcsOK'
  BY <1>1, LaunchType DEF IInv, InHand, CheckLaunch
<1> QED BY <1>1, <1>3, <1>4, <1>6, <1>7, <1>8, <1>9, <1>10, Records DEF Bounded

\* CheckEnd: its evidence is there before its result.
LEMMA CheckEndKeeps ==
  ASSUME IInv, CheckEnd
  PROVE  IInv'
<1> DEFINE new == [Work EXCEPT !.files = @ \cup {x.next}]
<1>1. /\ x.pc = "running" /\ x \in Memory /\ AtChecks(x, Work) /\ Work \in WorkRecord
      /\ Bounded(Work) /\ (x.scope = 0 => Ran(Work) \subseteq Work.files)
  BY Hand DEF CheckEnd
<1>2. x.next \in Checks
  BY <1>1 DEF AtChecks
<1>3. /\ x' \in Memory /\ SameHand /\ x'.pc = "result" /\ x'.next = x.next
      /\ x'.made = x.made /\ x'.round = x.round /\ x'.saved = x.saved /\ x'.torn = x.torn
  BY <1>1 DEF CheckEnd, Memory, SameHand
<1>4. /\ new \in WorkRecord /\ new.intents = Work.intents /\ new.ran = Work.ran
      /\ new.calls = Work.calls /\ new.factsAsked = Work.factsAsked /\ new.facts = Work.facts
      /\ new.rubricsAsked = Work.rubricsAsked /\ new.files = Work.files \cup {x.next}
      /\ new.sessions = Work.sessions /\ new.results = Work.results
  BY <1>1, <1>2 DEF WorkRecord
<1> HIDE DEF new
<1>5. Bounded(new) /\ Ran(new) = Ran(Work)
  BY <1>1, <1>4, BoundedKept DEF Ran
<1>6. AtChecks(x', new) /\ AtJudge(x', new)
  BY <1>1, <1>2, <1>3, <1>4 DEF AtChecks, AtJudge
<1>7. Record(new) /\ UNCHANGED <<att, heard, chain, regrades>>
  BY DEF CheckEnd, new
<1>8. att[Cur].stage \in {"grading", "finished"} /\ ProcsOK'
  BY <1>1, EndType DEF IInv, InHand, CheckEnd
<1> QED BY <1>1, <1>3, <1>4, <1>5, <1>6, <1>7, <1>8, Records

\* CheckResult: the check has run, and there is evidence of it.
LEMMA CheckResultKeeps ==
  ASSUME IInv, CheckResult
  PROVE  IInv'
<1> DEFINE new == [Work EXCEPT !.results[x.next] = "ran"]
<1>1. /\ x.pc = "result" /\ x \in Memory /\ AtChecks(x, Work) /\ Work \in WorkRecord
      /\ Bounded(Work) /\ (x.scope = 0 => Ran(Work) \subseteq Work.files)
  BY Hand DEF CheckResult
<1>2. x.next \in Checks /\ x.next \in Work.files
  BY <1>1 DEF AtChecks
<1>3. /\ x' \in Memory /\ SameHand /\ x'.pc = "checks" /\ x'.next = x.next + 1
      /\ x'.made = x.made /\ x'.round = x.round /\ x'.saved = x.saved /\ x'.torn = x.torn
  <2>1. x' = [x EXCEPT !.pc = "checks", !.next = x.next + 1] /\ x.next \in Nat
    BY <1>1, MemoryFields DEF CheckResult
  <2>2. x' \in Memory
    <3>1. x.next + 1 \in Nat
      BY <2>1
    <3> QED BY <1>1, <2>1, <3>1 DEF Memory
  <2> QED BY <1>1, <2>1, <2>2, MemoryFields DEF SameHand
<1>4. /\ new \in WorkRecord /\ new.intents = Work.intents /\ new.ran = Work.ran
      /\ new.calls = Work.calls /\ new.factsAsked = Work.factsAsked /\ new.facts = Work.facts
      /\ new.rubricsAsked = Work.rubricsAsked /\ new.files = Work.files
      /\ new.sessions = Work.sessions
      /\ new.results = [Work.results EXCEPT ![x.next] = "ran"]
  BY <1>1, <1>2 DEF WorkRecord
<1> HIDE DEF new
<1>5. /\ \A c \in Checks \ {x.next} : new.results[c] = Work.results[c]
      /\ new.results[x.next] = "ran"
  BY <1>1, <1>2, <1>4, ResultSet
<1>6. Bounded(new) /\ Ran(new) \subseteq Ran(Work) \cup {x.next}
  BY <1>1, <1>2, <1>4, BoundedKept, ResultSet
<1>7. AtChecks(x', new) /\ AtJudge(x', new)
  BY <1>1, <1>2, <1>3, <1>4, <1>5, MemoryFields DEF AtChecks, AtJudge, Checks
<1>8. Record(new) /\ UNCHANGED <<att, heard, chain, regrades, procs, faults>>
  BY DEF CheckResult, new
<1>9. att[Cur].stage \in {"grading", "finished"} /\ ProcsOK'
  BY <1>1, <1>8, SameProcs DEF IInv, InHand
<1> QED BY <1>1, <1>2, <1>3, <1>4, <1>6, <1>7, <1>8, <1>9, Records

-----------------------------------------------------------------------------
(* The judge. *)

\* FactsSaved: an earlier session has recorded what the judge says of the facts.
LEMMA FactsSavedKeeps ==
  ASSUME IInv, FactsSaved
  PROVE  IInv'
<1>1. x.pc = "checks" /\ x \in Memory /\ AtChecks(x, Work) /\ Work.facts # "none"
      /\ x.next \notin Checks /\ Work \in WorkRecord
  BY Hand DEF FactsSaved, ChecksDone
<1>2. /\ x' \in Memory /\ SameHand /\ x'.pc = "rubrics" /\ x'.made = x.made /\ x'.saved = x.saved
  BY <1>1 DEF FactsSaved, Memory, SameHand
<1>3. AtChecks(x', Work) /\ AtJudge(x', Work)
  BY <1>1, <1>2, ChecksPassed, MemoryFields, WorkFields DEF AtChecks, AtJudge
<1> QED BY <1>1, <1>2, <1>3, Goes, SameProcs DEF FactsSaved, IInv

\* FactsEmpty: or there is nothing to say, or an earlier session was cut off.
LEMMA FactsEmptyKeeps ==
  ASSUME IInv, FactsEmpty
  PROVE  IInv'
<1> DEFINE new == [Work EXCEPT !.facts = "empty"]
<1>1. /\ x.pc = "checks" /\ x \in Memory /\ AtChecks(x, Work) /\ Work \in WorkRecord
      /\ Bounded(Work) /\ (x.scope = 0 => Ran(Work) \subseteq Work.files)
      /\ x.next \notin Checks
  BY Hand DEF FactsEmpty, ChecksDone
<1>2. /\ x' \in Memory /\ SameHand /\ x'.pc = "rubrics" /\ x'.made = x.made /\ x'.saved = x.saved
  BY <1>1 DEF FactsEmpty, Memory, SameHand
<1>3. /\ new \in WorkRecord /\ new.intents = Work.intents /\ new.ran = Work.ran
      /\ new.calls = Work.calls /\ new.factsAsked = Work.factsAsked /\ new.facts = "empty"
      /\ new.rubricsAsked = Work.rubricsAsked /\ new.files = Work.files
      /\ new.results = Work.results
  BY <1>1 DEF WorkRecord
<1> HIDE DEF new
<1>4. Bounded(new) /\ Ran(new) = Ran(Work)
  BY <1>1, <1>3, BoundedKept DEF Ran
<1>5. AtChecks(x', new) /\ AtJudge(x', new)
  BY <1>1, <1>2, <1>3, ChecksPassed, MemoryFields, WorkFields DEF AtChecks, AtJudge, ChecksComplete
<1>6. Record(new) /\ UNCHANGED <<att, heard, chain, regrades, procs, faults>>
  BY DEF FactsEmpty, new
<1>7. att[Cur].stage \in {"grading", "finished"} /\ ProcsOK'
  BY <1>1, <1>6, SameProcs DEF IInv, InHand
<1> QED BY <1>1, <1>2, <1>3, <1>4, <1>5, <1>6, <1>7, Records

\* FactsIntent: the judge is asked once, when nothing was asked before.
LEMMA FactsIntentKeeps ==
  ASSUME IInv, FactsIntent
  PROVE  IInv'
<1> DEFINE new == [Work EXCEPT !.factsAsked = TRUE]
<1>1. /\ x.pc = "checks" /\ x \in Memory /\ AtChecks(x, Work) /\ Work \in WorkRecord
      /\ Bounded(Work) /\ (x.scope = 0 => Ran(Work) \subseteq Work.files)
      /\ x.next \notin Checks /\ Work.facts = "none" /\ ~ Work.factsAsked
  BY Hand DEF FactsIntent, ChecksDone, Judgeable
<1>2. /\ x' \in Memory /\ SameHand /\ x'.pc = "facts" /\ x'.made = x.made /\ x'.saved = x.saved
  BY <1>1 DEF FactsIntent, Memory, SameHand
<1>3. /\ new \in WorkRecord /\ new.intents = Work.intents /\ new.ran = Work.ran
      /\ new.calls = Work.calls /\ new.factsAsked = TRUE /\ new.facts = Work.facts
      /\ new.rubricsAsked = Work.rubricsAsked /\ new.files = Work.files
      /\ new.results = Work.results
  BY <1>1 DEF WorkRecord
<1> HIDE DEF new
<1>4. Bounded(new) /\ Ran(new) = Ran(Work)
  BY <1>1, <1>3, BoundedKept DEF Ran
<1>5. Work.calls = 0 /\ x.saved = 0 /\ x.made = 0
  BY <1>1, WorkFields DEF Bounded, Called, AtChecks
<1>6. AtChecks(x', new) /\ AtJudge(x', new)
  BY <1>1, <1>2, <1>3, <1>5, ChecksPassed DEF AtChecks, AtJudge, ChecksComplete
<1>7. Record(new) /\ UNCHANGED <<att, heard, chain, regrades, procs, faults>>
  BY DEF FactsIntent, new
<1>8. att[Cur].stage \in {"grading", "finished"} /\ ProcsOK'
  BY <1>1, <1>7, SameProcs DEF IInv, InHand
<1> QED BY <1>1, <1>2, <1>3, <1>4, <1>6, <1>7, <1>8, Records

\* AskFacts: a call for facts is within the budget of the pass.
LEMMA AskFactsKeeps ==
  ASSUME IInv, AskFacts
  PROVE  IInv'
<1> DEFINE new == [Work EXCEPT !.calls = @ + 1]
<1>1. /\ x.pc = "facts" /\ x \in Memory /\ AtJudge(x, Work) /\ Work \in WorkRecord
      /\ Bounded(Work) /\ (x.scope = 0 => Ran(Work) \subseteq Work.files)
      /\ x.round < 3 /\ x.made < MaxCalls
  BY Hand DEF AskFacts
<1>2. /\ x' \in Memory /\ SameHand /\ x'.pc = "judging_facts" /\ x'.made = x.made
      /\ x'.saved = x.saved /\ x'.round = x.round
  BY <1>1 DEF AskFacts, JudgeIntent, Memory, SameHand
<1>3. x.saved = 0 /\ Work.factsAsked /\ Work.calls = x.made /\ ChecksComplete(Work)
      /\ x.made \in Nat
  BY <1>1, MemoryFields DEF AtJudge
<1>4. /\ new \in WorkRecord /\ new.intents = Work.intents /\ new.ran = Work.ran
      /\ new.calls = Work.calls + 1 /\ new.factsAsked = Work.factsAsked /\ new.facts = Work.facts
      /\ new.rubricsAsked = Work.rubricsAsked /\ new.files = Work.files
      /\ new.results = Work.results
  BY <1>1 DEF WorkRecord
<1> HIDE DEF new
<1>5. Bounded(new) /\ Ran(new) = Ran(Work)
  BY <1>1, <1>3, <1>4, Sizes DEF Bounded, RanOnce, RanTogether, Called, Ran
<1>6. AtChecks(x', new) /\ AtJudge(x', new)
  BY <1>1, <1>2, <1>3, <1>4 DEF AtChecks, AtJudge, ChecksComplete
<1>7. Record(new) /\ UNCHANGED <<att, heard, chain, regrades>>
  BY DEF AskFacts, JudgeIntent, new
<1>8. att[Cur].stage \in {"grading", "finished"} /\ ProcsOK'
  BY <1>1, LaunchType DEF IInv, InHand, AskFacts, JudgeIntent
<1> QED BY <1>1, <1>2, <1>4, <1>5, <1>6, <1>7, <1>8, Records

\* FactsAnswered: the call counts for the session, too.
LEMMA FactsAnsweredKeeps ==
  ASSUME IInv, FactsAnswered
  PROVE  IInv'
<1>1. /\ x.pc = "judging_facts" /\ x \in Memory /\ AtJudge(x, Work) /\ Work \in WorkRecord
      /\ UNCHANGED <<events, heard>>
  BY Hand DEF FactsAnswered
<1>2. /\ x.saved = 0 /\ Work.factsAsked /\ Work.calls = x.made + 1 /\ x.made < MaxCalls
      /\ x.round < 3 /\ ChecksComplete(Work) /\ x.made \in Nat /\ x.round \in Nat
  BY <1>1, MemoryFields DEF AtJudge
<1>3. /\ x' \in Memory /\ SameHand /\ x'.pc = "facts" /\ x'.made = x.made + 1
      /\ x'.saved = x.saved
  <2>1. x' = [x EXCEPT !.pc = "facts", !.made = x.made + 1, !.round = x.round + 1]
    BY DEF FactsAnswered
  <2>2. x.made + 1 \in 0 .. MaxCalls /\ x.round + 1 \in 0 .. 3
    BY <1>2, Sizes
  <2> QED BY <1>1, <2>1, <2>2 DEF Memory, SameHand
<1>4. AtChecks(x', Work) /\ AtJudge(x', Work)
  BY <1>2, <1>3 DEF AtChecks, AtJudge
<1>5. ProcsOK'
  BY EndType DEF FactsAnswered, IInv
<1> QED BY <1>1, <1>3, <1>4, <1>5, Goes

\* FactsDone: the facts are judged.
LEMMA FactsDoneKeeps ==
  ASSUME IInv, FactsDone
  PROVE  IInv'
<1> DEFINE new == [Work EXCEPT !.facts = "judged"]
<1>1. /\ x.pc = "facts" /\ x \in Memory /\ AtJudge(x, Work) /\ Work \in WorkRecord
      /\ Bounded(Work) /\ (x.scope = 0 => Ran(Work) \subseteq Work.files)
  BY Hand DEF FactsDone
<1>2. /\ x' \in Memory /\ SameHand /\ x'.pc = "rubrics" /\ x'.made = x.made /\ x'.saved = x.saved
  BY <1>1 DEF FactsDone, Memory, SameHand
<1>3. /\ new \in WorkRecord /\ new.intents = Work.intents /\ new.ran = Work.ran
      /\ new.calls = Work.calls /\ new.factsAsked = Work.factsAsked /\ new.facts = "judged"
      /\ new.rubricsAsked = Work.rubricsAsked /\ new.files = Work.files
      /\ new.results = Work.results
  BY <1>1 DEF WorkRecord
<1> HIDE DEF new
<1>4. Bounded(new) /\ Ran(new) = Ran(Work)
  BY <1>1, <1>3, BoundedKept DEF Ran
<1>5. AtChecks(x', new) /\ AtJudge(x', new)
  BY <1>1, <1>2, <1>3 DEF AtChecks, AtJudge, ChecksComplete
<1>6. Record(new) /\ UNCHANGED <<att, heard, chain, regrades, procs, faults>>
  BY DEF FactsDone, new
<1>7. att[Cur].stage \in {"grading", "finished"} /\ ProcsOK'
  BY <1>1, <1>6, SameProcs DEF IInv, InHand
<1> QED BY <1>1, <1>2, <1>3, <1>4, <1>5, <1>6, <1>7, Records

-----------------------------------------------------------------------------
(* The rubrics. *)

\* RubricsIntent: the rubrics are asked for within what the pass has left.
LEMMA RubricsIntentKeeps ==
  ASSUME IInv, RubricsIntent
  PROVE  IInv'
<1> DEFINE new == [Work EXCEPT !.rubricsAsked = TRUE]
<1>1. /\ x.pc = "rubrics" /\ x \in Memory /\ AtJudge(x, Work) /\ Work \in WorkRecord
      /\ Bounded(Work) /\ (x.scope = 0 => Ran(Work) \subseteq Work.files) /\ WithinBudget
  BY Hand DEF RubricsIntent, RubricsAskable
<1>2. /\ x' \in Memory /\ SameHand /\ x'.pc = "ask_rubrics" /\ x'.made = x.made
      /\ x'.saved = x.saved
  BY <1>1 DEF RubricsIntent, Memory, SameHand
<1>3. /\ new \in WorkRecord /\ new.intents = Work.intents /\ new.ran = Work.ran
      /\ new.calls = Work.calls /\ new.factsAsked = Work.factsAsked /\ new.facts = Work.facts
      /\ new.rubricsAsked = TRUE /\ new.files = Work.files /\ new.results = Work.results
  BY <1>1 DEF WorkRecord
<1> HIDE DEF new
<1>4. Bounded(new) /\ Ran(new) = Ran(Work)
  BY <1>1, <1>3 DEF Bounded, RanOnce, RanTogether, Called, Ran, AtJudge
<1>5. AtChecks(x', new) /\ AtJudge(x', new)
  BY <1>1, <1>2, <1>3 DEF AtChecks, AtJudge, ChecksComplete, WithinBudget
<1>6. Record(new) /\ UNCHANGED <<att, heard, chain, regrades, procs, faults>>
  BY DEF RubricsIntent, new
<1>7. att[Cur].stage \in {"grading", "finished"} /\ ProcsOK'
  BY <1>1, <1>6, SameProcs DEF IInv, InHand
<1> QED BY <1>1, <1>2, <1>3, <1>4, <1>5, <1>6, <1>7, Records

\* AskRubrics: the call for them is the last one the budget need allow.
LEMMA AskRubricsKeeps ==
  ASSUME IInv, AskRubrics
  PROVE  IInv'
<1> DEFINE new == [Work EXCEPT !.calls = @ + 1]
<1>1. /\ x.pc = "ask_rubrics" /\ x \in Memory /\ AtJudge(x, Work) /\ Work \in WorkRecord
      /\ Bounded(Work) /\ (x.scope = 0 => Ran(Work) \subseteq Work.files)
  BY Hand DEF AskRubrics
<1>2. /\ x' \in Memory /\ SameHand /\ x'.pc = "judging_rubrics" /\ x'.made = x.made
      /\ x'.saved = x.saved
  BY <1>1 DEF AskRubrics, JudgeIntent, Memory, SameHand
<1>3. /\ Work.rubricsAsked /\ Work.calls = x.saved + x.made /\ x.saved + x.made < MaxCalls
      /\ Work.facts # "none" /\ ChecksComplete(Work) /\ x.made \in Nat /\ x.saved \in Nat
  BY <1>1, MemoryFields DEF AtJudge
<1>4. /\ new \in WorkRecord /\ new.intents = Work.intents /\ new.ran = Work.ran
      /\ new.calls = Work.calls + 1 /\ new.factsAsked = Work.factsAsked /\ new.facts = Work.facts
      /\ new.rubricsAsked = Work.rubricsAsked /\ new.files = Work.files
      /\ new.results = Work.results
  BY <1>1 DEF WorkRecord
<1> HIDE DEF new
<1>5. Bounded(new) /\ Ran(new) = Ran(Work)
  BY <1>1, <1>3, <1>4, Sizes DEF Bounded, RanOnce, RanTogether, Called, Ran
<1>6. AtChecks(x', new) /\ AtJudge(x', new)
  BY <1>1, <1>2, <1>3, <1>4 DEF AtChecks, AtJudge, ChecksComplete
<1>7. Record(new) /\ UNCHANGED <<att, heard, chain, regrades>>
  BY DEF AskRubrics, JudgeIntent, new
<1>8. att[Cur].stage \in {"grading", "finished"} /\ ProcsOK'
  BY <1>1, LaunchType DEF IInv, InHand, AskRubrics, JudgeIntent
<1> QED BY <1>1, <1>2, <1>4, <1>5, <1>6, <1>7, <1>8, Records

\* RubricsAnswered: the call counts for the session, too.
LEMMA RubricsAnsweredKeeps ==
  ASSUME IInv, RubricsAnswered
  PROVE  IInv'
<1>1. /\ x.pc = "judging_rubrics" /\ x \in Memory /\ AtJudge(x, Work) /\ Work \in WorkRecord
      /\ UNCHANGED <<events, heard>>
  BY Hand DEF RubricsAnswered
<1>2. /\ Work.calls = x.saved + x.made + 1 /\ x.saved + x.made < MaxCalls
      /\ Work.facts # "none" /\ ChecksComplete(Work) /\ x.made \in Nat /\ x.saved \in Nat
  BY <1>1, MemoryFields DEF AtJudge
<1>3. /\ x' \in Memory /\ SameHand /\ x'.pc = "rubrics" /\ x'.made = x.made + 1
      /\ x'.saved = x.saved
  <2>1. PICK judged \in SUBSET Unsaved :
           x' = [x EXCEPT !.pc = "rubrics", !.made = x.made + 1, !.judged = judged]
    BY DEF RubricsAnswered
  <2>2. x.made + 1 \in 0 .. MaxCalls /\ judged \subseteq Rubrics
    BY <1>2, Sizes DEF Unsaved
  <2>3. x' \in Memory
    BY <1>1, <2>1, <2>2 DEF Memory
  <2> QED BY <1>1, <2>1, <2>2, <2>3, MemoryFields DEF SameHand
<1>4. AtChecks(x', Work) /\ AtJudge(x', Work)
  BY <1>2, <1>3 DEF AtChecks, AtJudge
<1>5. ProcsOK'
  BY EndType DEF RubricsAnswered, IInv
<1> QED BY <1>1, <1>3, <1>4, <1>5, Goes

\* The result of one rubric is recorded.
LEMMA RubricRecorded ==
  ASSUME IInv, x.pc = "rubrics", NEW r \in Rubrics,
         NEW s \in {"judged", "interrupted", "no_prompt", "budget", "no_judge"},
         Record([Work EXCEPT !.rubrics[r] = s]),
         UNCHANGED <<att, heard, chain, regrades, procs, x, faults>>
  PROVE  IInv'
<1> DEFINE new == [Work EXCEPT !.rubrics[r] = s]
<1>1. /\ x \in Memory /\ AtJudge(x, Work) /\ Work \in WorkRecord
      /\ Bounded(Work) /\ (x.scope = 0 => Ran(Work) \subseteq Work.files)
  BY Hand
<1>2. x' \in Memory /\ SameHand /\ x'.pc = "rubrics" /\ x' = x
  BY <1>1 DEF SameHand
<1>3. /\ new \in WorkRecord /\ new.intents = Work.intents /\ new.ran = Work.ran
      /\ new.calls = Work.calls /\ new.factsAsked = Work.factsAsked /\ new.facts = Work.facts
      /\ new.rubricsAsked = Work.rubricsAsked /\ new.files = Work.files
      /\ new.results = Work.results
  BY <1>1 DEF WorkRecord
<1>4. Record(new)
  OBVIOUS
<1> HIDE DEF new
<1>5. Bounded(new) /\ Ran(new) = Ran(Work)
  BY <1>1, <1>3, BoundedKept DEF Ran
<1>6. AtChecks(x', new) /\ AtJudge(x', new)
  BY <1>1, <1>2, <1>3 DEF AtChecks, AtJudge, ChecksComplete
<1>7. att[Cur].stage \in {"grading", "finished"} /\ ProcsOK'
  BY <1>1, SameProcs DEF IInv, InHand
<1> QED BY <1>1, <1>2, <1>3, <1>4, <1>5, <1>6, <1>7, Records

\* RubricJudged: what the judge answered, and RubricRest: or why it did not.
LEMMA RubricKeeps ==
  ASSUME IInv, NEW r \in Rubrics, RubricJudged(r) \/ RubricRest(r)
  PROVE  IInv'
<1>1. CASE RubricJudged(r)
  BY <1>1, RubricRecorded DEF RubricJudged
<1>2. CASE RubricRest(r)
  <2>1. Reason \in {"judged", "interrupted", "no_prompt", "budget", "no_judge"}
    BY DEF Reason
  <2> QED BY <1>2, <2>1, RubricRecorded DEF RubricRest
<1> QED BY <1>1, <1>2

\* RubricsDone: nothing is left without a result.
LEMMA RubricsDoneKeeps ==
  ASSUME IInv, RubricsDone
  PROVE  IInv'
<1>1. /\ x.pc = "rubrics" /\ x \in Memory /\ AtJudge(x, Work)
      /\ \A r \in Rubrics : Work.rubrics[r] # "none"
  BY Hand DEF RubricsDone, Unsaved
<1>2. x' \in Memory /\ SameHand /\ x'.pc = "finish"
  BY <1>1 DEF RubricsDone, Memory, SameHand
<1>3. AtChecks(x', Work) /\ AtJudge(x', Work)
  BY <1>1, <1>2 DEF AtChecks, AtJudge, Complete
<1> QED BY <1>1, <1>2, <1>3, Goes, SameProcs DEF RubricsDone, IInv

\* Grade: a new session of the pass knows what the earlier ones have called.
LEMMA GradeKeeps ==
  ASSUME IInv, Grade
  PROVE  IInv'
<1>1. /\ x.pc = "stage" /\ x \in Memory /\ Work \in WorkRecord /\ Bounded(Work)
      /\ (x.scope = 0 => Ran(Work) \subseteq Work.files) /\ x.made = 0 /\ x.round = 0
      /\ att[Cur].stage \in {"grading", "finished"} /\ Cur \in Attempts /\ x.scope \in Scopes
  BY Hand DEF Grade, IInv, InPass
<1>2. CASE x.ok
  <2> DEFINE new == [Work EXCEPT !.sessions = @ + 1]
  <2>1. x' = [x EXCEPT !.pc = "checks", !.next = 1, !.torn = Torn, !.saved = Work.calls]
    BY <1>2 DEF Grade
  <2>2. Torn \in BOOLEAN /\ Work.calls \in Nat
    BY <1>1, WorkFields DEF Torn
  <2>3. x' \in Memory
    BY <1>1, <2>1, <2>2 DEF Memory
  <2>4. /\ SameHand /\ x'.pc = "checks" /\ x'.next = 1 /\ x'.made = 0 /\ x'.round = 0
        /\ x'.saved = Work.calls /\ x'.torn = Torn
    BY <1>1, <2>1, MemoryFields DEF SameHand, Memory
  <2>5. /\ new \in WorkRecord /\ new.intents = Work.intents /\ new.ran = Work.ran
        /\ new.calls = Work.calls /\ new.factsAsked = Work.factsAsked /\ new.facts = Work.facts
        /\ new.rubricsAsked = Work.rubricsAsked /\ new.files = Work.files
        /\ new.results = Work.results
    BY <1>1 DEF WorkRecord
  <2>6. Record(new)
    BY <1>2 DEF Grade
  <2> HIDE DEF new
  <2>7. Bounded(new) /\ Ran(new) = Ran(Work)
    BY <1>1, <2>5, BoundedKept DEF Ran
  <2>8. ~ Torn => \A c \in Suited : new.ran[c] = {}
    BY <1>1, <2>5, Sizes DEF Torn, Bounded, RanOnce
  <2>9. AtChecks(x', new) /\ AtJudge(x', new)
    BY <1>1, <2>4, <2>5, <2>8 DEF AtChecks, AtJudge, Checks
  <2>10. UNCHANGED <<att, heard, chain, regrades, procs, faults>>
    BY DEF Grade
  <2>11. ProcsOK'
    BY <2>10, SameProcs DEF IInv
  <2> QED BY <1>1, <2>3, <2>4, <2>5, <2>6, <2>7, <2>9, <2>10, <2>11, Records
<1>3. CASE ~ x.ok
  <2>1. /\ x' = [x EXCEPT !.pc = "finish"] /\ UNCHANGED <<events, heard, procs, faults>>
    BY <1>3 DEF Grade
  <2>2. x' \in Memory /\ SameHand /\ x'.pc = "finish" /\ ~ x'.ok
    BY <1>1, <1>3, <2>1 DEF Memory, SameHand
  <2>3. TypeOK'
    BY <2>1, <2>2, SameProcs, TypesTogether DEF IInv, TypeOK
  <2>4. History' /\ InPass' /\ InHand'
    BY <1>1, <2>1, <2>2, HistoryStays, HandStays DEF IInv
  <2>5. AtWork'
    BY <2>2 DEF AtWork, AtChecks, AtJudge
  <2> QED BY <2>3, <2>4, <2>5 DEF IInv
<1> QED BY <1>2, <1>3
-----------------------------------------------------------------------------
(* An attempt from its capture to its grade. *)

\* A command that ends while an attempt is in hand.
LEMMA UnwindKeeps ==
  ASSUME IInv, Unwind
  PROVE  IInv'
<1>1. PICK survives \in BOOLEAN :
         IF att[Cur].stage = "grading" \/ x.kind = "regrade" THEN Stop(Cur, survives)
                                                             ELSE UNCHANGED procs
  BY DEF Unwind
<1>2. Cur \in Attempts /\ TypeOK /\ faults' \in Nat
  BY FaultType DEF Unwind, IInv, InHand
<1>3. ProcsOK'
  BY <1>1, <1>2, StopType DEF ProcsOK, TypeOK
<1> QED BY <1>3, Ends DEF Unwind

\* The process that dies keeps nothing in hand.
LEMMA CrashKeeps ==
  ASSUME IInv, Crash
  PROVE  IInv'
<1>1. ProcsOK'
  BY FaultType DEF Crash, ProcsOK, IInv, TypeOK
<1> QED BY <1>1, Ends DEF Crash

\* Load: the session knows the last assessment, and what it carries over.
LEMMA LoadKeeps ==
  ASSUME IInv, Load
  PROVE  IInv'
<1>1. /\ x.pc = "load" /\ x \in Memory /\ Cur \in Attempts /\ TypeOK /\ InPass /\ InHand
      /\ x.pc \in Grading
  BY Hand DEF Load, IInv, Grading
<1>2. PICK ok \in BOOLEAN, found \in SUBSET Findings :
         x' = [x EXCEPT !.pc = "stage", !.ok = ok, !.findings = found,
                        !.previous = Len(chain[Cur]),
                        !.reviews = IF x.kind = "regrade" /\ chain[Cur] # << >>
                                    THEN Current(Cur).reviews \cap found ELSE {}]
  BY DEF Load
<1>3. /\ Len(chain[Cur]) \in Nat /\ (chain[Cur] # << >> => Current(Cur).reviews \subseteq Findings)
      /\ (chain[Cur] # << >> => Len(chain[Cur]) \in DOMAIN chain[Cur])
  BY <1>1, ChainFacts, ObjectFields
<1>4. x' \in Memory
  <2> DEFINE carried == IF x.kind = "regrade" /\ chain[Cur] # << >>
                        THEN Current(Cur).reviews \cap found ELSE {}
             m == [x EXCEPT !.pc = "stage", !.ok = ok]
  <2>1. carried \in SUBSET Findings
    BY <1>3
  <2>2. m \in Memory
    BY <1>1 DEF Memory
  <2>3. x' = [m EXCEPT !.findings = found, !.previous = Len(chain[Cur]), !.reviews = carried]
    BY <1>2
  <2> HIDE DEF carried, m
  <2> QED BY <1>3, <2>1, <2>2, <2>3 DEF Memory
<1>5. /\ x'.pc = "stage" /\ x'.kind = x.kind /\ x'.scope = x.scope /\ x'.case = x.case
      /\ x'.todo = x.todo /\ x'.cur = Cur /\ x'.made = x.made /\ x'.round = x.round
      /\ x'.findings = found /\ x'.previous = Len(chain[Cur])
      /\ x'.reviews = IF x.kind = "regrade" /\ chain[Cur] # << >>
                      THEN Current(Cur).reviews \cap found ELSE {}
  BY <1>1, <1>2 DEF Memory
<1>6. TypeOK' /\ UNCHANGED <<events, heard>>
  BY <1>1, <1>4, SameProcs, TypesTogether DEF Load, TypeOK
<1>7. History'
  BY <1>6, HistoryStays DEF IInv
<1>8. InPass'
  BY <1>1, <1>5, <1>6 DEF InPass, Open
<1>9. x.kind = "assess" /\ chain[Cur] # << >> => Current(Cur).reviews = {}
  <2>1. x.kind = "assess" => att[Cur].stage # "finished"
    BY <1>1, Hand
  <2>2. chain[Cur] # << >> => Sound(Cur, Len(chain[Cur]))
    BY <1>1, <1>3 DEF IInv, History
  <2> QED BY <2>1, <2>2 DEF Sound, Current
<1>10. x.kind # "none"
  BY <1>1 DEF InPass
<1>11. IF chain[Cur] = << >> THEN x'.reviews = {}
                             ELSE Current(Cur).reviews \cap x'.findings \subseteq x'.reviews
  BY <1>1, <1>5, <1>9, <1>10, MemoryFields
<1>12. InHand'
  BY <1>1, <1>5, <1>6, <1>11 DEF InHand, Current
<1> QED BY <1>5, <1>6, <1>7, <1>8, <1>12 DEF IInv, AtWork

\* What has happened to one attempt: its stage, and assessments that are added.
LEMMA Restaged ==
  ASSUME TypeOK, Cur \in Attempts, NEW stage, Staged(stage)
  PROVE  /\ att'[Cur].stage = stage /\ att'[Cur].captured = att[Cur].captured
         /\ \A a \in Attempts \ {Cur} : att'[a] = att[a]
         /\ stage \in Stages => att' \in [Attempts -> [stage : Stages, captured : BOOLEAN]]
  BY DEF TypeOK, Staged

\* It stays in hand, until it is finished.
LEMMA HandRestaged ==
  ASSUME IInv, x.pc = "stage", UNCHANGED <<chain, regrades, x>>, Cur \in Attempts,
         \A a \in Attempts \ {Cur} : att'[a] = att[a], att'[Cur].stage # "finished"
  PROVE  InPass' /\ InHand'
<1>1. x.todo \subseteq Attempts /\ InPass /\ InHand
  BY MemoryFields DEF IInv, TypeOK
<1>2. InPass'
  BY <1>1 DEF InPass, Open
<1>3. InHand'
  BY <1>1 DEF InHand, Current
<1> QED BY <1>2, <1>3

\* StageCaptured: a stopped attempt counts as captured.
LEMMA StageCapturedKeeps ==
  ASSUME IInv, StageCaptured
  PROVE  IInv'
<1>1. /\ x.pc = "stage" /\ Cur \in Attempts /\ TypeOK /\ InPass /\ InHand
      /\ att[Cur].stage = "stopping"
  BY DEF StageCaptured, IInv, InHand, Grading
<1>2. /\ att'[Cur].stage = "captured" /\ \A a \in Attempts \ {Cur} : att'[a] = att[a]
      /\ att' \in [Attempts -> [stage : Stages, captured : BOOLEAN]]
  BY <1>1, Restaged DEF StageCaptured, Stages, Regradable
<1>3. TypeOK'
  BY <1>1, <1>2 DEF TypeOK, StageCaptured
<1>4. \A a \in Attempts : Assessable(a)'
  BY <1>1, <1>2 DEF IInv, History, Assessable, StageCaptured, Active
<1>5. \A a \in Attempts : \A i \in DOMAIN chain[a] : Sound(a, i)'
  BY <1>1, <1>2 DEF IInv, History, Sound, StageCaptured, Current
<1>6. History'
  BY <1>4, <1>5 DEF IInv, History, StageCaptured
<1>7. InPass' /\ InHand'
  BY <1>1, <1>2, HandRestaged DEF StageCaptured
<1> QED BY <1>1, <1>3, <1>6, <1>7 DEF IInv, AtWork, StageCaptured

\* StageGrading: an audited attempt is being graded.
LEMMA StageGradingKeeps ==
  ASSUME IInv, StageGrading
  PROVE  IInv'
<1>1. /\ x.pc = "stage" /\ Cur \in Attempts /\ TypeOK /\ InPass /\ InHand
      /\ att[Cur].stage = "audited"
  BY DEF StageGrading, IInv, InHand, Grading
<1>2. /\ att'[Cur].stage = "grading" /\ \A a \in Attempts \ {Cur} : att'[a] = att[a]
      /\ att' \in [Attempts -> [stage : Stages, captured : BOOLEAN]]
  BY <1>1, Restaged DEF StageGrading, Stages, Regradable
<1>3. TypeOK'
  BY <1>1, <1>2 DEF TypeOK, StageGrading
<1>4. \A a \in Attempts : Assessable(a)'
  BY <1>1, <1>2 DEF IInv, History, Assessable, StageGrading, Active
<1>5. \A a \in Attempts : \A i \in DOMAIN chain[a] : Sound(a, i)'
  BY <1>1, <1>2 DEF IInv, History, Sound, StageGrading, Current
<1>6. History'
  BY <1>4, <1>5 DEF IInv, History, StageGrading
<1>7. InPass' /\ InHand'
  BY <1>1, <1>2, HandRestaged DEF StageGrading
<1> QED BY <1>1, <1>3, <1>6, <1>7 DEF IInv, AtWork, StageGrading
-----------------------------------------------------------------------------
(* A new assessment. *)

\* It comes after those that were there.
LEMMA Appended ==
  ASSUME TypeOK, NEW a \in Attempts, NEW e \in AssessmentObject,
         chain' = [chain EXCEPT ![a] = Append(@, e)]
  PROVE  /\ chain' \in [Attempts -> Seq(AssessmentObject)]
         /\ \A b \in Attempts \ {a} : chain'[b] = chain[b]
         /\ chain'[a] # << >> /\ Len(chain'[a]) = Len(chain[a]) + 1
         /\ DOMAIN chain'[a] = DOMAIN chain[a] \cup {Len(chain[a]) + 1}
         /\ chain'[a][Len(chain[a]) + 1] = e
         /\ \A i \in DOMAIN chain[a] : chain'[a][i] = chain[a][i] /\ i < Len(chain[a]) + 1
<1>1. chain \in [Attempts -> Seq(AssessmentObject)] /\ chain[a] \in Seq(AssessmentObject)
  BY DEF TypeOK
<1>2. chain'[a] = Append(chain[a], e) /\ \A b \in Attempts \ {a} : chain'[b] = chain[b]
  BY <1>1
<1>3. /\ chain'[a] \in Seq(AssessmentObject) /\ chain'[a] # << >>
      /\ Len(chain'[a]) = Len(chain[a]) + 1 /\ chain'[a][Len(chain[a]) + 1] = e
      /\ \A i \in 1 .. Len(chain[a]) : chain'[a][i] = chain[a][i]
  BY <1>1, <1>2, AppendProperties
<1>4. /\ Len(chain[a]) \in Nat /\ DOMAIN chain[a] = 1 .. Len(chain[a])
      /\ DOMAIN chain'[a] = 1 .. Len(chain'[a])
  BY <1>1, <1>3, LenProperties
<1>5. chain' \in [Attempts -> Seq(AssessmentObject)]
  BY <1>1, <1>3
<1> QED BY <1>2, <1>3, <1>4, <1>5

\* What it must say to tell the truth with them.
LEMMA SoundAppended ==
  ASSUME IInv, NEW a \in Attempts, NEW e \in AssessmentObject,
         chain' = [chain EXCEPT ![a] = Append(@, e)], UNCHANGED <<work, regrades>>,
         \A b \in Attempts \ {a} : att'[b] = att[b],
         att[a].stage = "finished" => att'[a].stage = "finished",
         e.previous = Len(chain[a]), e.scope <= Len(regrades),
         \A i \in DOMAIN chain[a] : chain[a][i].kind = "graded" => chain[a][i].scope <= e.scope,
         e.kind = "graded" =>
           /\ att'[a].stage = "finished"
           /\ \A i \in DOMAIN chain[a] : chain[a][i].kind = "graded" => chain[a][i].scope # e.scope
           /\ e.ok => Complete(work[a][e.scope])
           /\ e.ok /\ e.scope = 0 => Ran(work[a][0]) \subseteq e.evidence,
         att'[a].stage # "finished" => e.reviews = {}
  PROVE  \A b \in Attempts : \A i \in DOMAIN chain'[b] : Sound(b, i)'
<1> DEFINE n == Len(chain[a]) + 1
<1>1. TypeOK /\ \A b \in Attempts : \A i \in DOMAIN chain[b] : Sound(b, i)
  BY DEF IInv, History
<1>2. /\ \A b \in Attempts \ {a} : chain'[b] = chain[b]
      /\ Len(chain'[a]) = n /\ DOMAIN chain'[a] = DOMAIN chain[a] \cup {n} /\ chain'[a][n] = e
      /\ \A i \in DOMAIN chain[a] : chain'[a][i] = chain[a][i] /\ i < n
      /\ Len(chain[a]) \in Nat /\ DOMAIN chain[a] = 1 .. Len(chain[a])
  BY <1>1, Appended, ChainFacts
<1>3. ASSUME NEW b \in Attempts \ {a}, NEW i \in DOMAIN chain'[b] PROVE Sound(b, i)'
  BY <1>1, <1>2, <1>3 DEF Sound, Current
<1>4. e.scope \in Nat
  BY ObjectFields, Sizes DEF Scopes
<1> HIDE DEF n
<1>5. ASSUME NEW i \in DOMAIN chain[a] PROVE Sound(a, i)'
  <2>1. chain'[a][i] = chain[a][i] /\ Sound(a, i)
    BY <1>1, <1>2, <1>5
  <2>2. \A j \in DOMAIN chain'[a] :
           chain'[a][j].kind = "graded" /\ chain'[a][j].scope = chain[a][i].scope
             /\ chain[a][i].kind = "graded" => j = i
    BY <1>2, <2>1 DEF Sound
  <2> QED BY <1>2, <2>1, <2>2 DEF Sound, Current
<1>6. ASSUME NEW i \in Nat, i = n PROVE Sound(a, i)'
  <2>1. e.previous = i - 1
    BY <1>2, <1>6 DEF n
  <2>2. \A j \in DOMAIN chain'[a] :
           chain'[a][j].kind = "graded" /\ chain'[a][j].scope = e.scope /\ e.kind = "graded" => j = i
    BY <1>2, <1>6
  <2>3. /\ chain'[a][i] = e /\ chain'[a][Len(chain'[a])] = e
        /\ work' = work /\ regrades' = regrades
    BY <1>2, <1>6
  <2>4. CASE e.kind # "graded"
    BY <2>1, <2>3, <2>4 DEF Sound
  <2>5. CASE e.kind = "graded"
    <3>1. /\ att'[a].stage = "finished" /\ e.scope <= e.scope /\ e.scope <= Len(regrades')
          /\ (e.ok => Complete(work'[a][e.scope]))
          /\ (e.ok /\ e.scope = 0 => Ran(work'[a][0]) \subseteq e.evidence)
      BY <1>4, <2>3, <2>5
    <3> QED BY <2>1, <2>2, <2>3, <2>5, <3>1 DEF Sound, Current
  <2> QED BY <2>4, <2>5
<1>7. \A i \in DOMAIN chain'[a] : Sound(a, i)'
  <2>1. n \in Nat
    BY <1>2 DEF n
  <2> QED BY <1>2, <1>5, <1>6, <2>1
<1> QED BY <1>3, <1>7

\* What a session puts in the store.
LEMMA AssessedType ==
  ASSUME x \in Memory, NEW kind \in {"audit", "graded"}, NEW evidence \in SUBSET Checks
  PROVE  Assessed(kind, evidence) \in AssessmentObject
  BY MemoryFields, Sizes DEF Assessed, AssessmentObject

\* StageAudited: the audit is the first assessment.
LEMMA StageAuditedKeeps ==
  ASSUME IInv, StageAudited
  PROVE  IInv'
<1> DEFINE e == Assessed("audit", {})
<1>1. /\ x.pc = "stage" /\ Cur \in Attempts /\ TypeOK /\ InPass /\ InHand /\ x \in Memory
      /\ att[Cur].stage = "captured" /\ Cur \in x.todo
  BY DEF StageAudited, IInv, InHand, Grading, TypeOK
<1>2. /\ att'[Cur].stage = "audited" /\ \A a \in Attempts \ {Cur} : att'[a] = att[a]
      /\ att' \in [Attempts -> [stage : Stages, captured : BOOLEAN]]
  BY <1>1, Restaged DEF StageAudited, Stages, Regradable
<1>3. /\ e \in AssessmentObject /\ e.kind = "audit" /\ e.scope = 0 /\ e.previous = x.previous
      /\ e.reviews = x.reviews
  BY <1>1, AssessedType DEF Assessed
<1> HIDE DEF e
<1>4. chain' = [chain EXCEPT ![Cur] = Append(@, e)] /\ UNCHANGED <<heard, work, regrades, procs, faults>>
  BY DEF StageAudited, e
<1>5. /\ chain' \in [Attempts -> Seq(AssessmentObject)]
      /\ \A b \in Attempts \ {Cur} : chain'[b] = chain[b]
      /\ chain'[Cur] # << >> /\ Len(chain'[Cur]) = Len(chain[Cur]) + 1
      /\ DOMAIN chain'[Cur] = DOMAIN chain[Cur] \cup {Len(chain[Cur]) + 1}
      /\ chain'[Cur][Len(chain[Cur]) + 1] = e
  BY <1>1, <1>3, <1>4, Appended
<1>6. chain[Cur] = << >> /\ Len(chain[Cur]) = 0 /\ DOMAIN chain[Cur] = {} /\ x.reviews = {}
      /\ x.previous = 0
  <2>1. chain[Cur] = << >>
    BY <1>1 DEF IInv, History, Assessable
  <2> QED BY <1>1, <2>1 DEF InHand
<1>7. /\ x' = [x EXCEPT !.previous = Len(chain[Cur]) + 1] /\ x' \in Memory
  <2>1. x' = [x EXCEPT !.previous = Len(chain[Cur]) + 1] /\ Len(chain[Cur]) + 1 \in Nat
    BY <1>6 DEF StageAudited
  <2> QED BY <1>1, <2>1 DEF Memory
<1>8. TypeOK'
  BY <1>1, <1>2, <1>4, <1>5, <1>7 DEF TypeOK
<1>9. Len(regrades) \in Nat
  BY <1>1, OpenFacts
<1>10. \A b \in Attempts : \A i \in DOMAIN chain'[b] : Sound(b, i)'
  <2>1. UNCHANGED <<work, regrades>> /\ e.scope <= Len(regrades) /\ e.previous = Len(chain[Cur])
        /\ e.reviews = {} /\ e.kind # "graded" /\ att[Cur].stage # "finished"
    BY <1>1, <1>3, <1>4, <1>6, <1>9
  <2>2. \A i \in DOMAIN chain[Cur] : chain[Cur][i].kind = "graded" => chain[Cur][i].scope <= e.scope
    BY <1>6
  <2> QED BY <1>1, <1>2, <1>3, <1>4, <2>1, <2>2, SoundAppended
<1>11. \A a \in Attempts : Assessable(a)'
  BY <1>1, <1>2, <1>4, <1>5 DEF IInv, History, Assessable, Active
<1>12. History'
  BY <1>4, <1>10, <1>11 DEF IInv, History
<1>13. /\ x'.pc = "stage" /\ x'.kind = x.kind /\ x'.scope = x.scope /\ x'.case = x.case
       /\ x'.todo = x.todo /\ x'.cur = Cur /\ x'.made = x.made /\ x'.round = x.round
       /\ x'.findings = x.findings /\ x'.reviews = x.reviews /\ x'.previous = Len(chain'[Cur])
  BY <1>1, <1>5, <1>7 DEF Memory
<1>14. InPass'
  <2>1. \A a \in x.todo : a \in Attempts
    BY <1>1, MemoryFields
  <2> QED BY <1>1, <1>2, <1>4, <1>13, <2>1 DEF InPass, Open
<1>15. InHand'
  <2>1. DOMAIN chain'[Cur] = {1} /\ chain'[Cur][1] = e /\ chain'[Cur][Len(chain'[Cur])] = e
    BY <1>5, <1>6
  <2>2. Cur' \in Attempts /\ Cur' \in x'.todo /\ x'.pc \notin Underway
    BY <1>1, <1>13 DEF Grading
  <2>3. /\ \A i \in DOMAIN chain'[Cur] : chain'[Cur][i].kind # "graded"
        /\ chain'[Cur] # << >> /\ chain'[Cur][Len(chain'[Cur])].reviews \subseteq x'.reviews
    BY <1>3, <1>5, <1>13, <2>1
  <2> QED BY <1>13, <2>2, <2>3 DEF InHand, Current
<1> QED BY <1>8, <1>12, <1>13, <1>14, <1>15 DEF IInv, AtWork

\* Review: a decision about a finding is added to the current assessment.
LEMMA ReviewKeeps ==
  ASSUME IInv, NEW a \in Attempts, NEW f \in Findings, Review(a, f)
  PROVE  IInv'
<1> DEFINE c == Current(a)
           e == [c EXCEPT !.kind = "review", !.reviews = @ \cup {f}, !.previous = Len(chain[a])]
<1>1. /\ x.pc = "idle" /\ x \in Memory /\ TypeOK /\ InPass /\ att[a].stage = "finished"
      /\ chain' = [chain EXCEPT ![a] = Append(@, e)]
      /\ UNCHANGED <<att, heard, work, regrades, procs, x, faults>>
  BY DEF Review, IInv, TypeOK
<1>2. Assessable(a)
  BY DEF IInv, History
<1>3. chain[a] # << >>
  BY <1>1, <1>2 DEF Assessable, Active
<1>4. /\ Len(chain[a]) \in DOMAIN chain[a] /\ c \in AssessmentObject /\ Len(chain[a]) \in Nat
      /\ \A i \in DOMAIN chain[a] : Sound(a, i)
  BY <1>1, <1>3, ChainFacts DEF IInv, History
<1>5. /\ e \in AssessmentObject /\ e.kind = "review" /\ e.scope = c.scope
      /\ e.previous = Len(chain[a])
  BY <1>4 DEF AssessmentObject
<1> HIDE DEF e
<1>6. /\ chain' \in [Attempts -> Seq(AssessmentObject)] /\ chain'[a] # << >>
      /\ \A b \in Attempts \ {a} : chain'[b] = chain[b]
  BY <1>1, <1>5, Appended
<1>7. TypeOK'
  BY <1>1, <1>6 DEF TypeOK
<1>8. c.scope <= Len(regrades) /\ \A i \in DOMAIN chain[a] :
         chain[a][i].kind = "graded" => chain[a][i].scope <= c.scope
  BY <1>4 DEF Sound, Current
<1> HIDE DEF c
<1>9. \A b \in Attempts : \A i \in DOMAIN chain'[b] : Sound(b, i)'
  BY <1>1, <1>5, <1>8, SoundAppended
<1>10. \A b \in Attempts : Assessable(b)'
  BY <1>1, <1>3, <1>6 DEF IInv, History, Assessable
<1>11. History'
  BY <1>1, <1>9, <1>10 DEF IInv, History
<1>12. InPass' /\ InHand' /\ AtWork'
  BY <1>1 DEF InPass, InHand, AtWork, Open, Grading
<1> QED BY <1>7, <1>11, <1>12 DEF IInv

\* Finish: the grade is the last thing that is said of the attempt in this pass.
LEMMA FinishKeeps ==
  ASSUME IInv, Finish
  PROVE  IInv'
<1>1. /\ x.pc = "finish" /\ Cur \in Attempts /\ TypeOK /\ InPass /\ InHand /\ x \in Memory
      /\ Cur \in x.todo /\ Work \in WorkRecord /\ AtJudge(x, Work) /\ x.scope \in Scopes
      /\ (x.kind = "assess" => att[Cur].stage # "finished")
      /\ (x.scope = 0 => x.kind = "assess" /\ Ran(Work) \subseteq Work.files)
      /\ UNCHANGED <<heard, work, regrades>>
  BY Hand DEF Finish, IInv, Grading
<1>2. CASE Fault /\ Stop(Cur, TRUE) /\ x' = Rest /\ UNCHANGED <<att, chain>>
  BY <1>1, <1>2, StopType, FaultType, Ends DEF ProcsOK
<1>3. ASSUME NEW ok \in IF x.ok THEN BOOLEAN ELSE {FALSE}, FaultIf(x.ok /\ ~ ok), Stop(Cur, FALSE),
             chain' = [chain EXCEPT ![Cur] =
                         Append(@, [Assessed("graded", Work.files) EXCEPT !.ok = ok])],
             Staged("finished"),
             x' = IF x.kind = "regrade" THEN [x EXCEPT !.pc = "mark"]
                  ELSE [Rest EXCEPT !.pc = "next", !.kind = x.kind, !.todo = x.todo \ {Cur}]
      PROVE  IInv'
  <2> DEFINE e == [Assessed("graded", Work.files) EXCEPT !.ok = ok]
  <2>1. /\ att'[Cur].stage = "finished" /\ \A a \in Attempts \ {Cur} : att'[a] = att[a]
        /\ att' \in [Attempts -> [stage : Stages, captured : BOOLEAN]]
    BY <1>1, <1>3, Restaged DEF Stages, Regradable
  <2>2. Assessed("graded", Work.files) \in AssessmentObject
    BY <1>1, WorkFields, AssessedType
  <2>3. /\ e \in AssessmentObject /\ e.kind = "graded" /\ e.scope = x.scope
        /\ e.previous = x.previous /\ e.reviews = x.reviews /\ e.evidence = Work.files
        /\ (e.ok => x.ok)
    BY <1>1, <1>3, <2>2, MemoryFields DEF Assessed, AssessmentObject
  <2>4. chain' = [chain EXCEPT ![Cur] = Append(@, e)]
    BY <1>3
  <2> HIDE DEF e
  <2>5. /\ chain' \in [Attempts -> Seq(AssessmentObject)] /\ chain'[Cur] # << >>
        /\ \A b \in Attempts \ {Cur} : chain'[b] = chain[b]
    BY <1>1, <2>3, <2>4, Appended
  <2>6. x' \in Memory
    <3>1. CASE x.kind = "regrade"
      BY <1>1, <1>3, <3>1 DEF Memory
    <3>2. CASE x.kind # "regrade"
      <4>1. /\ x' = [Rest EXCEPT !.pc = "next", !.kind = x.kind, !.todo = x.todo \ {Cur}]
            /\ Rest \in Memory /\ x.todo \ {Cur} \subseteq Attempts
        BY <1>1, <1>3, <3>2, Nothing, MemoryFields
      <4>2. x.kind \in {"none", "assess", "regrade"}
        BY <1>1, MemoryFields
      <4> QED BY <4>1, <4>2 DEF Memory
    <3> QED BY <3>1, <3>2
  <2>7. ProcsOK'
    BY <1>1, <1>3, StopType, FaultType DEF ProcsOK
  <2>8. TypeOK'
    BY <1>1, <2>1, <2>5, <2>6, <2>7 DEF TypeOK, ProcsOK
  <2>9. Len(regrades) \in Nat /\ Open \in 0 .. Len(regrades) /\ (Open # 0 => Open = Len(regrades))
    BY <1>1, OpenFacts
  <2>10. x.kind \in {"assess", "regrade"} /\ x.scope = Open /\ x.previous = Len(chain[Cur])
    BY <1>1, MemoryFields DEF InPass, InHand
  <2>11. \A i \in DOMAIN chain[Cur] : chain[Cur][i].kind = "graded" =>
            chain[Cur][i].scope # x.scope /\ chain[Cur][i].scope <= x.scope
    <3> SUFFICES ASSUME NEW i \in DOMAIN chain[Cur], chain[Cur][i].kind = "graded"
                 PROVE  chain[Cur][i].scope # x.scope /\ chain[Cur][i].scope <= x.scope
      OBVIOUS
    <3>1. Sound(Cur, i)
      BY <1>1 DEF IInv, History
    <3>2. x.kind = "regrade" /\ chain[Cur][i].scope <= Len(regrades)
      BY <1>1, <2>10, <3>1 DEF Sound
    <3>3. x.scope = Len(regrades)
      BY <1>1, <2>9, <2>10, <3>2 DEF InPass
    <3> QED BY <1>1, <3>2, <3>3 DEF InHand
  <2>12. x.ok => Complete(Work)
    BY <1>1 DEF AtJudge
  <2>13. \A b \in Attempts : \A i \in DOMAIN chain'[b] : Sound(b, i)'
    <3>1. UNCHANGED <<work, regrades>> /\ e.scope <= Len(regrades) /\ e.previous = Len(chain[Cur])
      BY <1>1, <2>3, <2>9, <2>10
    <3>2. \A i \in DOMAIN chain[Cur] : chain[Cur][i].kind = "graded" =>
             chain[Cur][i].scope # e.scope /\ chain[Cur][i].scope <= e.scope
      BY <2>3, <2>11
    <3>3. /\ e.ok => Complete(work[Cur][e.scope])
          /\ e.ok /\ e.scope = 0 => Ran(work[Cur][0]) \subseteq e.evidence
      BY <1>1, <2>3, <2>12 DEF Work
    <3> QED BY <1>1, <2>1, <2>3, <2>4, <3>1, <3>2, <3>3, SoundAppended
  <2>14. \A a \in Attempts : Assessable(a)'
    BY <1>1, <2>1, <2>5 DEF IInv, History, Assessable, Active
  <2>15. History'
    BY <1>1, <2>13, <2>14 DEF IInv, History
  <2>16. CASE x.kind = "regrade"
    <3>1. x' = [x EXCEPT !.pc = "mark"]
      BY <1>3, <2>16
    <3>2. /\ x'.pc = "mark" /\ x'.kind = x.kind /\ x'.scope = x.scope /\ x'.case = x.case
          /\ x'.cur = Cur
      BY <1>1, <3>1 DEF Memory
    <3>3. InPass' /\ InHand' /\ AtWork'
      BY <1>1, <2>16, <3>2 DEF InPass, InHand, AtWork, Open, Grading
    <3> QED BY <2>8, <2>15, <3>3 DEF IInv
  <2>17. CASE x.kind = "assess"
    <3>1. x' = [Rest EXCEPT !.pc = "next", !.kind = x.kind, !.todo = x.todo \ {Cur}]
      BY <1>3, <2>17
    <3>2. /\ x'.pc = "next" /\ x'.kind = "assess" /\ x'.scope = 0 /\ x'.case = NoCase
          /\ x'.todo = x.todo \ {Cur} /\ x'.made = 0 /\ x'.round = 0
      BY <2>17, <3>1 DEF Rest
    <3>3. x.todo \subseteq Attempts /\ \A a \in x.todo : att[a].stage # "finished"
      BY <1>1, <2>17, MemoryFields DEF InPass
    <3>4. InPass' /\ InHand' /\ AtWork'
      BY <1>1, <2>1, <2>17, <3>2, <3>3 DEF InPass, InHand, AtWork, Open, Grading
    <3> QED BY <2>8, <2>15, <3>4 DEF IInv
  <2> QED BY <2>10, <2>16, <2>17
<1> QED BY <1>2, <1>3 DEF Finish
-----------------------------------------------------------------------------
(* Passes, and the loop over the attempts. *)

\* No attempt in hand: what there is to know of the session.
LEMMA NoneInHand ==
  ASSUME x.pc \in {"idle", "reconcile", "next", "mark"}
  PROVE  x.pc \notin Grading /\ x.pc \notin Loaded /\ x.pc \notin Underway
  BY DEF Grading

\* The passes that are recorded.
Pass == [case : Cases \cup {NoCase}, done : SUBSET Attempts, finished : BOOLEAN]

\* A pass that is added, or one of which more is known, unsays no assessment.
LEMMA HistoryGoesOn ==
  ASSUME IInv, UNCHANGED <<att, chain, work>>, Len(regrades') \in Nat,
         Len(regrades) <= Len(regrades'), Len(regrades') <= MaxRegrades
  PROVE  History'
<1>1. TypeOK /\ Len(regrades) \in Nat
  BY OpenFacts DEF IInv
<1>2. ASSUME NEW a \in Attempts, NEW i \in DOMAIN chain[a] PROVE Sound(a, i)'
  <2>1. Sound(a, i) /\ chain[a][i] \in AssessmentObject
    BY <1>1, ChainFacts DEF IInv, History
  <2>2. chain[a][i].scope \in Nat
    BY <2>1, ObjectFields, Sizes DEF Scopes
  <2>3. chain[a][i].scope <= Len(regrades')
    BY <1>1, <2>1, <2>2 DEF Sound
  <2> QED BY <2>1, <2>3 DEF Sound, Current
<1> QED BY <1>2 DEF IInv, History, Assessable

\* One field of a recorded pass is changed.
LEMMA PassChanged ==
  ASSUME TypeOK, NEW n \in DOMAIN regrades, NEW p \in Pass, regrades' = [regrades EXCEPT ![n] = p]
  PROVE  /\ regrades' \in Seq(Pass) /\ Len(regrades') = Len(regrades) /\ regrades'[n] = p
         /\ regrades # << >> /\ regrades' # << >>
         /\ \A i \in DOMAIN regrades : i # n => regrades'[i] = regrades[i]
<1>1. regrades \in Seq(Pass)
  BY DEF TypeOK, Pass
<1>2. Len(regrades) \in Nat /\ DOMAIN regrades = 1 .. Len(regrades)
  BY <1>1, LenProperties
<1>3. regrades' \in Seq(Pass) /\ Len(regrades') = Len(regrades)
  BY <1>1, <1>2, ExceptSeq
<1>4. regrades' # << >> /\ regrades # << >>
  BY <1>1, <1>2, <1>3, EmptySeq
<1> QED BY <1>2, <1>3, <1>4

\* The pass a session works on is recorded.
LEMMA OpenPass ==
  ASSUME IInv, x.kind = "regrade", x.pc # "reconcile"
  PROVE  /\ x.scope = Open /\ Open # 0 /\ x.scope = Len(regrades) /\ x.scope \in DOMAIN regrades
         /\ regrades[x.scope] \in Pass /\ ~ regrades[x.scope].finished
         /\ x.case = regrades[x.scope].case
<1>1. TypeOK /\ x.scope = Open /\ Open # 0 /\ x.case = regrades[Open].case
  BY DEF IInv, InPass
<1>2. /\ Open = Len(regrades) /\ Open \in DOMAIN regrades /\ ~ regrades[Open].finished
  BY <1>1, OpenFacts
<1>3. regrades[Open] \in Pass
  <2>1. regrades \in Seq(Pass)
    BY <1>1 DEF TypeOK, Pass
  <2> QED BY <1>2, <2>1, LenProperties, ElementOfSeq
<1> QED BY <1>1, <1>2, <1>3

\* Assess and Regrade: a session starts.
LEMMA StartKeeps ==
  ASSUME IInv, Assess \/ \E case \in Cases \cup {NoCase} : Regrade(case)
  PROVE  IInv'
<1>1. Exists \subseteq Attempts /\ TypeOK /\ UNCHANGED <<events, heard, procs, faults>>
      /\ Len(regrades) \in Nat /\ Open \in 0 .. Len(regrades) /\ Len(regrades) <= MaxRegrades
  BY OpenFacts DEF Exists, IInv, History, Assess, Regrade
<1>2. CASE Assess
  <2>1. Open = 0 /\ x' = [Rest EXCEPT !.pc = "reconcile", !.kind = "assess", !.todo = Exists]
    BY <1>2 DEF Assess
  <2>2. x' \in Memory
    BY <1>1, <2>1, Nothing DEF Memory
  <2>3. /\ x'.pc = "reconcile" /\ x'.kind = "assess" /\ x'.scope = 0 /\ x'.case = NoCase
        /\ x'.made = 0 /\ x'.round = 0
    BY <2>1 DEF Rest
  <2>4. TypeOK' /\ History'
    BY <1>1, <2>2, SameProcs, TypesTogether, HistoryStays DEF IInv, TypeOK
  <2>5. InPass' /\ InHand' /\ AtWork'
    BY <1>1, <2>1, <2>3 DEF InPass, InHand, AtWork, Open, Grading
  <2> QED BY <2>4, <2>5 DEF IInv
<1>3. ASSUME NEW case \in Cases \cup {NoCase}, Regrade(case) PROVE IInv'
  <2> DEFINE scope == IF Open # 0 THEN Open ELSE Len(regrades) + 1
  <2>1. /\ IF Open # 0 THEN regrades[Open].case = case ELSE Len(regrades) < MaxRegrades
        /\ x' = [Rest EXCEPT !.pc = "reconcile", !.kind = "regrade", !.case = case,
                             !.todo = Exists, !.scope = scope]
    BY <1>3 DEF Regrade
  <2>2. scope \in Scopes
    BY <1>1, <2>1, Sizes DEF Scopes
  <2>3. x' \in Memory
    <3> DEFINE m == [Rest EXCEPT !.pc = "reconcile", !.kind = "regrade"]
    <3>1. m \in Memory
      BY Nothing DEF Memory
    <3>2. x' = [m EXCEPT !.case = case, !.todo = Exists, !.scope = scope]
      BY <2>1
    <3> HIDE DEF m, scope
    <3> QED BY <1>1, <2>2, <3>1, <3>2 DEF Memory
  <2>4. /\ x'.pc = "reconcile" /\ x'.kind = "regrade" /\ x'.scope = scope /\ x'.case = case
        /\ x'.made = 0 /\ x'.round = 0
    BY <2>1 DEF Rest
  <2>5. TypeOK' /\ History'
    BY <1>1, <2>3, SameProcs, TypesTogether, HistoryStays DEF IInv, TypeOK
  <2>6. InPass' /\ InHand' /\ AtWork'
    BY <1>1, <2>1, <2>4 DEF InPass, InHand, AtWork, Open, Grading
  <2> QED BY <2>5, <2>6 DEF IInv
<1> QED BY <1>2, <1>3

\* Reconcile: an attempt that was left running is stopped.
LEMMA ReconcileKeeps ==
  ASSUME IInv, NEW a \in Attempts, Reconcile(a)
  PROVE  IInv'
<1>1. /\ x.pc = "reconcile" /\ x \in Memory /\ TypeOK /\ InPass
      /\ att' = [att EXCEPT ![a].stage = IF @ \in Active THEN "stopping" ELSE @]
      /\ UNCHANGED <<heard, chain, work, regrades>>
  BY DEF Reconcile, IInv, TypeOK
<1>2. PICK survives \in IF trusted[a] THEN {FALSE} ELSE BOOLEAN :
         /\ FaultIf(survives)
         /\ IF trusted[a] THEN UNCHANGED procs ELSE Stop(a, survives)
         /\ x' = [x EXCEPT !.todo = x.todo \ {a}, !.bad = x.bad \/ survives]
  BY DEF Reconcile
<1>3. ProcsOK'
  <2>1. survives \in BOOLEAN /\ faults' \in Nat
    BY <1>1, <1>2, FaultType
  <2>2. left' \in [Attempts -> {"none", "own", "orphan"}] /\ trusted' \in [Attempts -> BOOLEAN]
    BY <1>1, <1>2, <2>1, StopType DEF TypeOK
  <2> QED BY <2>1, <2>2 DEF ProcsOK
<1>4. x' \in Memory
  <2>1. x.todo \ {a} \subseteq Attempts /\ (x.bad \/ survives) \in BOOLEAN
    BY <1>1, MemoryFields
  <2> QED BY <1>1, <1>2, <2>1 DEF Memory
<1>5. /\ x'.pc = "reconcile" /\ x'.kind = x.kind /\ x'.scope = x.scope /\ x'.case = x.case
      /\ x'.made = x.made /\ x'.round = x.round
  BY <1>1, <1>2 DEF Memory
<1>6. /\ att' \in [Attempts -> [stage : Stages, captured : BOOLEAN]]
      /\ \A b \in Attempts : \/ att'[b].stage = att[b].stage
                             \/ att[b].stage \in Active /\ att'[b].stage \in Active
  BY <1>1 DEF TypeOK, Stages, Active
<1>7. TypeOK'
  BY <1>1, <1>3, <1>4, <1>6 DEF TypeOK, ProcsOK
<1>8. \A b \in Attempts : Assessable(b)'
  BY <1>1, <1>6 DEF IInv, History, Assessable, Active
<1>9. \A b \in Attempts : \A i \in DOMAIN chain[b] : Sound(b, i)'
  BY <1>1, <1>6 DEF IInv, History, Sound, Current, Active
<1>10. History'
  BY <1>1, <1>8, <1>9 DEF IInv, History
<1>11. InPass'
  BY <1>1, <1>5 DEF InPass, Open
<1> QED BY <1>5, <1>7, <1>10, <1>11 DEF IInv, InHand, AtWork, Grading

\* Begin: a command that is not refused has a pass to work on.
LEMMA BeginKeeps ==
  ASSUME IInv, Begin
  PROVE  IInv'
<1>1. /\ x.pc = "reconcile" /\ x \in Memory /\ TypeOK /\ InPass
      /\ UNCHANGED <<att, heard, chain, work, procs, faults>> /\ ProcsOK'
      /\ x.kind \in {"assess", "regrade"} /\ Todo \subseteq Attempts
  BY SameProcs, MemoryFields DEF Begin, IInv, TypeOK, InPass, Todo, Captured, Exists
<1>2. CASE Refuses
  BY <1>1, <1>2, Ends DEF Begin
<1>3. CASE ~ Refuses
  <2>1. /\ x' = [x EXCEPT !.pc = "next", !.todo = Todo]
        /\ regrades' = IF x.kind = "regrade" /\ Open = 0
                       THEN Append(regrades, [case |-> x.case, done |-> {}, finished |-> FALSE])
                       ELSE regrades
    BY <1>3 DEF Begin
  <2>2. x' \in Memory
    BY <1>1, <2>1 DEF Memory
  <2>3. /\ x'.pc = "next" /\ x'.kind = x.kind /\ x'.scope = x.scope /\ x'.case = x.case
        /\ x'.made = x.made /\ x'.round = x.round /\ x'.todo = Todo
    BY <1>1, <2>1 DEF Memory
  <2>4. InHand' /\ AtWork'
    BY <2>3 DEF InHand, AtWork, Grading
  <2>5. x.kind = "assess" => \A a \in Todo : att[a].stage # "finished"
    BY DEF Todo
  <2>6. CASE x.kind = "regrade" /\ Open = 0
    <3> DEFINE p == [case |-> x.case, done |-> {}, finished |-> FALSE]
    <3>1. regrades \in Seq(Pass) /\ p \in Pass /\ regrades' = Append(regrades, p)
      BY <1>1, <2>1, <2>6, MemoryFields DEF TypeOK, Pass
    <3>2. /\ regrades' \in Seq(Pass) /\ regrades' # << >> /\ Len(regrades') = Len(regrades) + 1
          /\ regrades'[Len(regrades) + 1] = p /\ Len(regrades) \in Nat
      BY <3>1, AppendProperties, LenProperties
    <3>3. x.scope = Len(regrades) + 1 /\ x.scope \in 0 .. MaxRegrades
      BY <1>1, <2>6, MemoryFields DEF InPass, Scopes
    <3>4. History'
      BY <1>1, <3>2, <3>3, HistoryGoesOn, Sizes
    <3>5. Open' = Len(regrades) + 1 /\ regrades'[Open'].case = x.case
      BY <3>2 DEF Open
    <3>6. InPass'
      BY <1>1, <2>3, <2>6, <3>2, <3>3, <3>5 DEF InPass
    <3>7. TypeOK'
      BY <1>1, <2>2, <3>2 DEF TypeOK, ProcsOK, Pass
    <3> QED BY <2>4, <3>4, <3>6, <3>7 DEF IInv
  <2>7. CASE ~ (x.kind = "regrade" /\ Open = 0)
    <3>1. regrades' = regrades /\ TypeOK'
      BY <1>1, <2>1, <2>2, <2>7, TypesTogether DEF TypeOK
    <3>2. History'
      BY <1>1, <3>1, HistoryStays DEF IInv
    <3>3. InPass'
      BY <1>1, <2>3, <2>5, <2>7, <3>1 DEF InPass, Open
    <3> QED BY <2>4, <3>1, <3>2, <3>3 DEF IInv
  <2> QED BY <2>6, <2>7
<1> QED BY <1>2, <1>3
\* SkipMarked and MarkGraded: a pass that graded an attempt does not do so again.
LEMMA SkipKeeps ==
  ASSUME IInv, NEW a \in Attempts, SkipMarked(a) \/ MarkGraded(a)
  PROVE  IInv'
<1>1. /\ x.pc = "next" /\ x \in Memory /\ TypeOK /\ InPass /\ x.kind = "regrade"
      /\ UNCHANGED <<events, heard, procs, faults>>
  BY DEF SkipMarked, MarkGraded, IInv, TypeOK
<1>2. /\ x' \in Memory /\ x'.pc \in {"next", "mark"} /\ x'.kind = x.kind /\ x'.scope = x.scope
      /\ x'.case = x.case /\ x'.made = x.made /\ x'.round = x.round
      /\ (x'.pc = "mark" => x'.cur = a)
  <2>1. CASE SkipMarked(a)
    <3>1. x' = [x EXCEPT !.todo = x.todo \ {a}] /\ x.todo \ {a} \subseteq Attempts
      BY <1>1, <2>1, MemoryFields DEF SkipMarked
    <3> QED BY <1>1, <3>1 DEF Memory
  <2>2. CASE MarkGraded(a)
    BY <1>1, <2>2 DEF MarkGraded, Memory
  <2> QED BY <2>1, <2>2
<1>3. TypeOK' /\ History'
  BY <1>1, <1>2, SameProcs, TypesTogether, HistoryStays DEF IInv, TypeOK
<1>4. InPass' /\ InHand' /\ AtWork'
  BY <1>1, <1>2 DEF InPass, InHand, AtWork, Open, Grading
<1> QED BY <1>3, <1>4 DEF IInv

\* Visit: the attempt that is taken in hand has no grade of the pass.
LEMMA VisitKeeps ==
  ASSUME IInv, NEW a \in Attempts, Visit(a)
  PROVE  IInv'
<1>1. /\ x.pc = "next" /\ x \in Memory /\ TypeOK /\ InPass /\ a \in x.todo
      /\ UNCHANGED <<events, heard>> /\ x.kind \in {"assess", "regrade"}
  BY MemoryFields DEF Visit, IInv, TypeOK, InPass
<1>2. PICK survives \in IF att[a].stage = "grading" THEN BOOLEAN ELSE {FALSE} :
         /\ FaultIf(survives)
         /\ IF att[a].stage = "grading" THEN Stop(a, survives) ELSE UNCHANGED procs
         /\ x' = IF survives THEN Rest ELSE [x EXCEPT !.pc = "load", !.cur = a]
  BY DEF Visit
<1>3. ProcsOK'
  <2>1. survives \in BOOLEAN /\ faults' \in Nat
    BY <1>1, <1>2, FaultType
  <2>2. left' \in [Attempts -> {"none", "own", "orphan"}] /\ trusted' \in [Attempts -> BOOLEAN]
    BY <1>1, <1>2, <2>1, StopType DEF TypeOK
  <2> QED BY <2>1, <2>2 DEF ProcsOK
<1>4. CASE survives
  BY <1>1, <1>2, <1>3, <1>4, Ends
<1>5. CASE ~ survives
  <2>1. x' = [x EXCEPT !.pc = "load", !.cur = a]
    BY <1>2, <1>5
  <2>2. /\ x' \in Memory /\ x'.pc = "load" /\ x'.kind = x.kind /\ x'.scope = x.scope
        /\ x'.case = x.case /\ x'.made = x.made /\ x'.round = x.round /\ x'.cur = a
        /\ x'.todo = x.todo
    BY <1>1, <2>1, MemoryFields DEF Memory, Grading
  <2>3. TypeOK' /\ History'
    BY <1>1, <1>3, <2>2, TypesTogether, HistoryStays DEF IInv, TypeOK
  <2>4. InPass' /\ AtWork'
    BY <1>1, <2>2 DEF InPass, AtWork, Open
  <2>5. ASSUME NEW i \in DOMAIN chain[a], chain[a][i].kind = "graded"
        PROVE  chain[a][i].scope # x.scope
    <3>1. Sound(a, i) /\ chain[a] # << >> /\ Current(a) \in AssessmentObject
          /\ Sound(a, Len(chain[a])) /\ chain[a][i] \in AssessmentObject
      BY <1>1, <2>5, ChainFacts, EmptySeq DEF IInv, History
    <3>2. /\ att[a].stage = "finished" /\ chain[a][i].scope <= Current(a).scope
          /\ Current(a).scope <= Len(regrades)
      BY <2>5, <3>1 DEF Sound, Current
    <3>3. x.kind = "regrade"
      BY <1>1, <3>2 DEF InPass
    <3>4. Current(a).scope # x.scope
      BY <3>1, <3>3 DEF Visit, AlreadyGraded
    <3>5. x.scope = Len(regrades)
      BY <1>1, <3>3, OpenPass
    <3>6. Len(regrades) \in Nat /\ Current(a).scope \in Nat /\ chain[a][i].scope \in Nat
      BY <1>1, <3>1, OpenFacts, ObjectFields, Sizes DEF Scopes
    <3> QED BY <3>2, <3>4, <3>5, <3>6
  <2>6. InHand'
    BY <1>1, <2>2, <2>5 DEF InHand, Grading
  <2> QED BY <2>3, <2>4, <2>6 DEF IInv
<1> QED BY <1>4, <1>5

\* Close: a command, and its pass, are at an end.
LEMMA CloseKeeps ==
  ASSUME IInv, Close
  PROVE  IInv'
<1>1. /\ x.pc = "next" /\ TypeOK /\ x' = Rest /\ ProcsOK'
      /\ UNCHANGED <<att, heard, chain, work, procs, faults>>
  BY SameProcs DEF Close, IInv
<1>2. CASE x.kind = "regrade"
  <2> DEFINE p == [regrades[x.scope] EXCEPT !.finished = TRUE]
  <2>1. x.scope \in DOMAIN regrades /\ p \in Pass
    BY <1>1, <1>2, OpenPass DEF Pass
  <2>2. regrades' = [regrades EXCEPT ![x.scope] = p]
    BY <1>2 DEF Close
  <2>3. regrades' \in Seq(Pass) /\ Len(regrades') = Len(regrades)
    BY <1>1, <2>1, <2>2, PassChanged
  <2>4. TypeOK'
    BY <1>1, <2>3, Nothing DEF TypeOK, ProcsOK, Pass
  <2>5. Len(regrades) \in Nat /\ Len(regrades) <= MaxRegrades
    BY <1>1, OpenFacts DEF IInv, History
  <2>6. History'
    BY <1>1, <2>3, <2>5, HistoryGoesOn
  <2>7. InPass' /\ InHand' /\ AtWork'
    BY <1>1 DEF InPass, InHand, AtWork, Grading, Rest
  <2> QED BY <2>4, <2>6, <2>7 DEF IInv
<1>3. CASE x.kind # "regrade"
  BY <1>1, <1>3, Ends DEF Close
<1> QED BY <1>2, <1>3

\* Mark: the pass remembers whom it has graded, and goes on.
LEMMA MarkKeeps ==
  ASSUME IInv, Mark
  PROVE  IInv'
<1>1. /\ x.pc = "mark" /\ TypeOK /\ InPass /\ ProcsOK' /\ Cur \in Attempts /\ x \in Memory
      /\ UNCHANGED <<att, heard, chain, work, procs, faults>>
  BY SameProcs DEF Mark, IInv, InHand, TypeOK
<1>2. x.kind = "regrade"
  BY <1>1, MemoryFields DEF InPass
<1> DEFINE p == [regrades[x.scope] EXCEPT !.done = @ \cup {Cur}]
<1>3. /\ x.scope \in DOMAIN regrades /\ p \in Pass /\ x.scope = Len(regrades) /\ ~ p.finished
      /\ p.case = x.case /\ x.scope = Open /\ x.scope # 0
  BY <1>1, <1>2, OpenPass DEF Pass
<1>4. regrades' = [regrades EXCEPT ![x.scope] = p]
  BY DEF Mark
<1> HIDE DEF p
<1>5. /\ regrades' \in Seq(Pass) /\ Len(regrades') = Len(regrades) /\ regrades' # << >>
      /\ regrades'[x.scope] = p
  BY <1>1, <1>3, <1>4, PassChanged
<1>6. /\ x' = [Rest EXCEPT !.pc = "next", !.kind = x.kind, !.scope = x.scope, !.case = x.case,
                           !.todo = x.todo \ {Cur}]
      /\ x.scope \in Scopes /\ x.case \in Cases \cup {NoCase} /\ x.todo \ {Cur} \subseteq Attempts
  BY <1>1, MemoryFields DEF Mark
<1>7. x' \in Memory
  BY <1>2, <1>6, Nothing DEF Memory
<1>8. /\ x'.pc = "next" /\ x'.kind = "regrade" /\ x'.scope = x.scope /\ x'.case = x.case
      /\ x'.made = 0 /\ x'.round = 0
  BY <1>2, <1>6 DEF Rest
<1>9. TypeOK'
  BY <1>1, <1>5, <1>7 DEF TypeOK, ProcsOK, Pass
<1>10. Len(regrades) \in Nat /\ Len(regrades) <= MaxRegrades
  BY <1>1, OpenFacts DEF IInv, History
<1>11. History'
  BY <1>1, <1>5, <1>10, HistoryGoesOn
<1>12. Open' = x.scope
  BY <1>3, <1>5 DEF Open
<1>13. InPass' /\ InHand' /\ AtWork'
  BY <1>3, <1>5, <1>8, <1>12 DEF InPass, InHand, AtWork, Grading
<1> QED BY <1>9, <1>11, <1>13 DEF IInv

-----------------------------------------------------------------------------
(* The other commands. *)

\* Compact: what was graded needs its working directory no more.
LEMMA CompactKeeps ==
  ASSUME IInv, Compact
  PROVE  IInv'
<1>1. /\ x.pc = "idle" /\ TypeOK /\ UNCHANGED <<att, heard, chain, regrades, procs, x, faults>>
      /\ work' = [a \in Attempts |-> [s \in Scopes |-> [work[a][s] EXCEPT !.files = {}]]]
  BY DEF Compact, IInv
<1>2. ASSUME NEW a \in Attempts, NEW s \in Scopes
      PROVE  /\ work'[a][s] \in WorkRecord /\ Bounded(work'[a][s])
             /\ Ran(work'[a][s]) = Ran(work[a][s])
             /\ (Complete(work[a][s]) <=> Complete(work'[a][s]))
  <2> DEFINE v == work[a][s]
             w == [v EXCEPT !.files = {}]
  <2>1. v \in WorkRecord /\ Bounded(v) /\ work'[a][s] = w
    BY <1>1 DEF IInv, History, TypeOK
  <2>2. /\ w \in WorkRecord /\ w.intents = v.intents /\ w.ran = v.ran /\ w.calls = v.calls
        /\ w.factsAsked = v.factsAsked /\ w.facts = v.facts /\ w.rubricsAsked = v.rubricsAsked
        /\ w.results = v.results /\ w.rubrics = v.rubrics
    BY <2>1 DEF WorkRecord
  <2> HIDE DEF v, w
  <2>3. Bounded(w)
    BY <2>1, <2>2, BoundedKept
  <2>4. Ran(w) = Ran(v) /\ (Complete(v) <=> Complete(w))
    BY <2>2 DEF Ran, Complete, ChecksComplete
  <2> QED BY <2>1, <2>2, <2>3, <2>4 DEF v
<1>3. TypeOK'
  BY <1>1, <1>2 DEF TypeOK
<1>4. ASSUME NEW a \in Attempts PROVE Assessable(a)'
  <2>1. Assessable(a) /\ 0 \in Scopes /\ (att[a].stage # "none" => att[a].stage = "finished")
    BY <1>1, Sizes DEF IInv, History, Compact, Exists
  <2>2. Ran(work'[a][0]) = Ran(work[a][0])
    BY <1>2, <2>1
  <2> QED BY <1>1, <2>1, <2>2 DEF Assessable
<1>5. ASSUME NEW a \in Attempts, NEW i \in DOMAIN chain[a] PROVE Sound(a, i)'
  <2>1. Sound(a, i) /\ chain[a][i].scope \in Scopes /\ 0 \in Scopes
    BY <1>1, ChainFacts, ObjectFields, Sizes DEF IInv, History
  <2>2. /\ Complete(work[a][chain[a][i].scope]) <=> Complete(work'[a][chain[a][i].scope])
        /\ Ran(work'[a][0]) = Ran(work[a][0])
    BY <1>2, <2>1
  <2> QED BY <1>1, <2>1, <2>2 DEF Sound, Current
<1>6. History'
  BY <1>1, <1>2, <1>4, <1>5 DEF IInv, History
<1>7. InPass' /\ InHand' /\ AtWork'
  BY <1>1 DEF IInv, InPass, InHand, AtWork, Open, Grading
<1> QED BY <1>3, <1>6, <1>7 DEF IInv

\* Execute: an attempt that was running is captured, and nothing is said of it yet.
LEMMA ExecuteKeeps ==
  ASSUME IInv, NEW a \in Attempts, Execute(a)
  PROVE  IInv'
<1>1. /\ x.pc = "idle" /\ TypeOK /\ UNCHANGED <<heard, chain, work, regrades, x, faults>>
      /\ att[a].stage \in {"none"} \cup Active
      /\ left' = [b \in Attempts |-> "none"] /\ trusted' = [b \in Attempts |-> TRUE]
  BY DEF Execute, IInv
<1>2. PICK captured \in BOOLEAN : att' = [att EXCEPT ![a] = [stage |-> "captured", captured |-> captured]]
  BY DEF Execute
<1>3. /\ att' \in [Attempts -> [stage : Stages, captured : BOOLEAN]]
      /\ att'[a].stage = "captured" /\ \A b \in Attempts \ {a} : att'[b] = att[b]
  BY <1>1, <1>2 DEF TypeOK, Stages, Regradable
<1>4. TypeOK'
  BY <1>1, <1>3 DEF TypeOK
<1>5. \A b \in Attempts : Assessable(b)'
  BY <1>1, <1>3 DEF IInv, History, Assessable, Active
<1>6. \A b \in Attempts : \A i \in DOMAIN chain[b] : Sound(b, i)'
  BY <1>1, <1>3 DEF IInv, History, Sound, Current, Active
<1>7. History'
  BY <1>1, <1>5, <1>6 DEF IInv, History
<1>8. InPass' /\ InHand' /\ AtWork'
  BY <1>1 DEF IInv, InPass, InHand, AtWork, Open, Grading
<1> QED BY <1>4, <1>7, <1>8 DEF IInv

-----------------------------------------------------------------------------
(* The invariant. *)

\* Nothing is graded at first.
LEMMA InitIInv == Init => IInv
<1> SUFFICES ASSUME Init PROVE IInv
  OBVIOUS
<1>1. /\ \A a \in Attempts : chain[a] = << >> /\ att[a].stage \in {"none", "active", "captured"}
      /\ \A a \in Attempts : \A s \in Scopes : work[a][s] = NoWork
      /\ x = Rest /\ regrades = << >> /\ 0 \in Scopes
  BY Sizes DEF Init
<1>2. att \in [Attempts -> [stage : Stages, captured : BOOLEAN]]
      /\ left \in [Attempts -> {"none", "own", "orphan"}] /\ trusted \in [Attempts -> BOOLEAN]
  BY DEF Init, Stages, Active, Regradable
<1>3. TypeOK
  BY <1>2, Nothing DEF Init, TypeOK
<1>4. Bounded(NoWork) /\ Ran(NoWork) = {}
  BY Sizes DEF NoWork, Bounded, RanOnce, RanTogether, Called, Ran
<1>5. History
  BY <1>1, <1>4, Sizes DEF History, Assessable, Active
<1>6. InPass /\ InHand /\ AtWork
  BY <1>1 DEF InPass, InHand, AtWork, Rest, Grading
<1> QED BY <1>3, <1>5, <1>6 DEF IInv

\* Every step keeps the invariant.
LEMMA NextIInv == IInv /\ [Next]_vars => IInv'
<1> SUFFICES ASSUME IInv, [Next]_vars PROVE IInv'
  OBVIOUS
<1>1. CASE Begins
  BY <1>1, BeginKeeps, ReconcileKeeps DEF Begins
<1>2. CASE Loop
  BY <1>2, CloseKeeps, MarkKeeps, SkipKeeps, VisitKeeps DEF Loop
<1>3. CASE AssessOne
  BY <1>3, LoadKeeps, StageCapturedKeeps, StageAuditedKeeps, StageGradingKeeps, GradeKeeps,
     FinishKeeps, CheckSavedKeeps, CheckInterruptedKeeps, CheckIntentKeeps, CheckLaunchKeeps,
     CheckEndKeeps, CheckResultKeeps, FactsSavedKeeps, FactsEmptyKeeps, FactsIntentKeeps,
     AskFactsKeeps, FactsAnsweredKeeps, FactsDoneKeeps, RubricsIntentKeeps, AskRubricsKeeps,
     RubricsAnsweredKeeps, RubricsDoneKeeps, RubricKeeps DEF AssessOne
<1>4. CASE Unwind \/ Crash
  BY <1>4, UnwindKeeps, CrashKeeps
<1>5. CASE Assess \/ (\E case \in Cases \cup {NoCase} : Regrade(case))
  BY <1>5, StartKeeps
<1>6. CASE Compact
  BY <1>6, CompactKeeps
<1>7. CASE \E a \in Attempts : Execute(a) \/ \E f \in Findings : Review(a, f)
  BY <1>7, ExecuteKeeps, ReviewKeeps
<1>8. CASE UNCHANGED vars
  <2>1. UNCHANGED <<att, heard, chain, work, regrades, left, trusted, x, faults>>
    BY <1>8 DEF vars
  <2>2. TypeOK'
    BY <2>1 DEF IInv, TypeOK
  <2>3. History'
    BY <2>1, HistoryStays DEF IInv
  <2>4. InPass' /\ InHand'
    BY <2>1 DEF IInv, InPass, InHand, Open, Current
  <2>5. AtWork'
    BY <2>1 DEF IInv, AtWork, Work, AtChecks, AtJudge
  <2> QED BY <2>2, <2>3, <2>4, <2>5 DEF IInv
<1> QED BY <1>1, <1>2, <1>3, <1>4, <1>5, <1>6, <1>7, <1>8 DEF Next, Session

\* What a session knows of its pass and of the attempt in hand is so, whatever
\* its predecessors were cut off at, and what was said of an attempt stays true.
THEOREM Invariant == Spec => []IInv
<1> QED BY InitIInv, NextIInv, PTL DEF Spec
-----------------------------------------------------------------------------
(* The properties. *)

\* A set without two elements.
LEMMA AtMostOne ==
  ASSUME NEW S, \A m, n \in S : m = n
  PROVE  Cardinality(S) <= 1
<1>1. CASE S = {}
  BY <1>1, FS_EmptySet
<1>2. CASE S # {}
  <2>1. PICK m : S = {m}
    BY <1>2
  <2>2. Cardinality({m}) = 1
    BY FS_Singleton
  <2> QED BY <2>1, <2>2
<1> QED BY <1>1, <1>2

\* Within a pass every check is run at most once, the checks of a suite together
\* or not at all, and the judge is called within its budget.
LEMMA Bounds == IInv => TypeOK /\ CheckedOnce /\ SuiteTogether /\ JudgeBudget
<1> SUFFICES ASSUME IInv PROVE TypeOK /\ CheckedOnce /\ SuiteTogether /\ JudgeBudget
  OBVIOUS
<1>1. ASSUME NEW a \in Attempts, NEW s \in Scopes
      PROVE  Bounded(work[a][s]) /\ work[a][s] \in WorkRecord
  BY DEF IInv, History, TypeOK
<1>2. ASSUME NEW a \in Attempts, NEW s \in Scopes, NEW c \in Checks
      PROVE  Cardinality(work[a][s].ran[c]) <= 1
  BY <1>1, AtMostOne DEF Bounded, RanOnce
<1>3. ASSUME NEW a \in Attempts, NEW s \in Scopes
      PROVE  Cardinality(UNION {work[a][s].ran[c] : c \in Suited}) <= 1
  BY <1>1, AtMostOne DEF Bounded, RanTogether
<1>4. \A a \in Attempts : \A s \in Scopes : work[a][s].calls <= MaxCalls
  BY <1>1 DEF Bounded, Called
<1> QED BY <1>2, <1>3, <1>4 DEF IInv, CheckedOnce, SuiteTogether, JudgeBudget

\* The assessments of an attempt form a chain, a pass grades it once, and its
\* grades account for everything, with the evidence of what the first one ran.
THEOREM GradesTellTruth == Spec => []GradesSound
<1> SUFFICES ASSUME IInv PROVE GradesSound
  BY Invariant, PTL
<1>1. /\ \A a \in Attempts : \A i \in DOMAIN chain[a] : Sound(a, i)
      /\ \A a \in Attempts : \A i \in DOMAIN chain[a] : chain[a][i].scope \in Scopes
  BY ChainFacts, ObjectFields DEF IInv, History
<1>2. ChainIntact
  BY <1>1 DEF ChainIntact, Sound
<1>3. ASSUME NEW a \in Attempts, NEW s \in Scopes
      PROVE  Cardinality({i \in DOMAIN chain[a] :
                            chain[a][i].kind = "graded" /\ chain[a][i].scope = s}) <= 1
  <2> DEFINE S == {i \in DOMAIN chain[a] : chain[a][i].kind = "graded" /\ chain[a][i].scope = s}
  <2>1. \A m, n \in S : m = n
    BY <1>1 DEF Sound
  <2> QED BY <2>1, AtMostOne
<1>4. GradeComplete
  BY <1>1 DEF GradeComplete, Sound, Complete, ChecksComplete
<1>5. FirstEvidenceKept
  BY <1>1 DEF FirstEvidenceKept, HasEvidence, Sound, Ran
<1> QED BY <1>2, <1>3, <1>4, <1>5 DEF GradesSound, GradedOncePerPass

\* Three steps add an assessment.
LEMMA Assessing ==
  ASSUME [Next]_vars, chain' # chain
  PROVE  StageAudited \/ Finish \/ \E a \in Attempts : \E f \in Findings : Review(a, f)
<1>1. ~ UNCHANGED vars
  BY DEF vars
<1>2. CASE Begins
  BY <1>2 DEF Begins, Begin, Reconcile
<1>3. CASE Loop
  BY <1>3 DEF Loop, Close, Mark, SkipMarked, MarkGraded, Visit
<1>4. CASE AssessOne
  BY <1>4 DEF AssessOne, Load, StageCaptured, StageGrading, Grade, CheckSaved, CheckInterrupted,
     CheckIntent, CheckLaunch, CheckEnd, CheckResult, FactsSaved, FactsEmpty, FactsIntent, AskFacts,
     FactsAnswered, FactsDone, RubricsIntent, AskRubrics, RubricsAnswered, RubricsDone,
     RubricJudged, RubricRest, JudgeIntent
<1>5. CASE Assess \/ Unwind \/ Crash \/ Compact \/ (\E case \in Cases \cup {NoCase} : Regrade(case))
           \/ (\E a \in Attempts : Execute(a))
  BY <1>5 DEF Assess, Unwind, Crash, Compact, Regrade, Execute
<1> QED BY <1>1, <1>2, <1>3, <1>4, <1>5 DEF Next, Session

\* An assessment is of the open pass, keeps the reviews that still apply, and,
\* when it is a grade, nothing of its attempt runs any more.
LEMMA Follows == IInv /\ [Next]_vars => [ReviewStep /\ PassStep /\ QuietStep]_vars
<1>1. ASSUME IInv, Next, NEW a \in Attempts, Changed(a)
      PROVE  /\ chain[a] # << >> => Current(a).reviews \cap New(a).findings \subseteq New(a).reviews
             /\ New(a).kind = "graded" =>
                  /\ New(a).scope = Open
                  /\ New(a).case = IF Open = 0 THEN NoCase ELSE regrades[Open].case
                  /\ left'[a] = "none"
  <2>1. TypeOK /\ chain' # chain
    BY <1>1 DEF Changed, IInv
  <2>2. CASE StageAudited
    <3> DEFINE e == Assessed("audit", {})
    <3>1. /\ Cur \in Attempts /\ x \in Memory /\ att[Cur].stage = "captured"
          /\ chain' = [chain EXCEPT ![Cur] = Append(@, e)]
      BY <1>1, <2>1, <2>2 DEF StageAudited, IInv, InHand, Grading, TypeOK
    <3>2. e \in AssessmentObject /\ e.kind = "audit"
      BY <3>1, AssessedType DEF Assessed
    <3> HIDE DEF e
    <3>3. a = Cur /\ New(a) = e
      BY <1>1, <2>1, <3>1, <3>2, Appended DEF Changed, New
    <3>4. chain[a] = << >>
      BY <1>1, <3>1, <3>3 DEF IInv, History, Assessable
    <3> QED BY <3>2, <3>3, <3>4
  <2>3. CASE Finish
    <3>1. PICK ok \in IF x.ok THEN BOOLEAN ELSE {FALSE} :
             /\ Stop(Cur, FALSE)
             /\ chain' = [chain EXCEPT ![Cur] =
                            Append(@, [Assessed("graded", Work.files) EXCEPT !.ok = ok])]
      BY <2>1, <2>3 DEF Finish
    <3> DEFINE e == [Assessed("graded", Work.files) EXCEPT !.ok = ok]
    <3>2. /\ x.pc = "finish" /\ Cur \in Attempts /\ x \in Memory /\ Work \in WorkRecord
          /\ InPass /\ InHand
      BY <1>1, <2>3, Hand DEF Finish, Grading, IInv
    <3>3. Assessed("graded", Work.files) \in AssessmentObject
      BY <3>2, WorkFields, AssessedType
    <3>4. /\ e \in AssessmentObject /\ e.scope = x.scope /\ e.case = x.case
          /\ e.findings = x.findings /\ e.reviews = x.reviews
      BY <3>1, <3>2, <3>3, MemoryFields DEF Assessed, AssessmentObject
    <3>5. chain' = [chain EXCEPT ![Cur] = Append(@, e)]
      BY <3>1
    <3> HIDE DEF e
    <3>6. a = Cur /\ New(a) = e
      BY <1>1, <2>1, <3>2, <3>4, <3>5, Appended DEF Changed, New
    <3>7. left'[a] = "none"
      BY <2>1, <3>1, <3>2, <3>6 DEF Stop, TypeOK
    <3>8. x.scope = Open /\ x.case = IF Open = 0 THEN NoCase ELSE regrades[Open].case
      BY <3>2, MemoryFields DEF InPass
    <3>9. chain[a] # << >> => Current(a).reviews \cap x.findings \subseteq x.reviews
      BY <3>2, <3>6 DEF InHand
    <3> QED BY <3>4, <3>6, <3>7, <3>8, <3>9
  <2>4. ASSUME NEW b \in Attempts, NEW f \in Findings, Review(b, f)
        PROVE  /\ New(a).kind = "review" /\ a = b /\ Current(a).reviews \subseteq New(a).reviews
    <3> DEFINE e == [Current(b) EXCEPT !.kind = "review", !.reviews = @ \cup {f},
                                       !.previous = Len(chain[b])]
    <3>1. chain' = [chain EXCEPT ![b] = Append(@, e)] /\ att[b].stage = "finished" /\ Assessable(b)
      BY <1>1, <2>4 DEF Review, IInv, History
    <3>2. Current(b) \in AssessmentObject /\ Len(chain[b]) \in Nat
      BY <2>1, <3>1, ChainFacts DEF Assessable, Active
    <3>3. e \in AssessmentObject /\ e.kind = "review" /\ Current(b).reviews \subseteq e.reviews
      BY <3>2 DEF AssessmentObject
    <3> HIDE DEF e
    <3> QED BY <1>1, <2>1, <3>1, <3>3, Appended DEF Changed, New
  <2> QED BY <1>1, <2>1, <2>2, <2>3, <2>4, Assessing
<1> QED BY <1>1 DEF ReviewStep, PassStep, QuietStep
-----------------------------------------------------------------------------
(* The second invariant, which takes the first for granted. *)

\* The current assessment of a graded attempt is one of pass r.
Covered(a, r) == att[a].stage = "finished" /\ chain[a] # << >> /\ Current(a).scope = r

\* A pass has graded, or has yet to visit, every captured attempt.
Coverage ==
    /\ \A a \in Attempts : \A i \in DOMAIN chain[a] : chain[a][i].scope # 0 => att[a].stage = "finished"
    /\ Open # 0 => \A a \in regrades[Open].done : Covered(a, Open)
    /\ x.kind = "regrade" /\ x.pc # "reconcile" => \A a \in Captured : a \in x.todo \/ Covered(a, x.scope)
    /\ x.pc = "mark" => Covered(Cur, x.scope)

\* What is trusted is quiet, and a session begins its work when what earlier
\* ones left behind is stopped.
Quiet ==
    /\ \A a \in Attempts : trusted[a] \/ att[a].stage = "none" => left[a] = "none"
    /\ x.pc = "reconcile" /\ ~ x.bad => \A a \in Attempts \ x.todo : left[a] # "orphan"
    /\ x.pc \notin {"idle", "reconcile"} => \A a \in Attempts : left[a] # "orphan"
-----------------------------------------------------------------------------
(* What the steps do to it. *)

\* The steps of an attempt in hand, as the second invariant sees them: nothing of
\* the attempt is recorded that it speaks of; a process starts, or ends.
Working ==
    \/ Load \/ Grade \/ CheckSaved \/ CheckInterrupted \/ CheckIntent \/ CheckResult
    \/ FactsSaved \/ FactsEmpty \/ FactsIntent \/ FactsDone \/ RubricsIntent \/ RubricsDone
    \/ \E r \in Rubrics : RubricJudged(r) \/ RubricRest(r)
Starting == CheckLaunch \/ AskFacts \/ AskRubrics
Ending   == CheckEnd \/ FactsAnswered \/ RubricsAnswered

\* All of them keep the attempt in hand.
LEMMA WorkInHand ==
  ASSUME IInv, Working \/ Starting \/ Ending
  PROVE  /\ x.pc \in Grading /\ x'.pc \in Grading /\ UNCHANGED <<att, chain, regrades>>
         /\ x'.kind = x.kind /\ x'.scope = x.scope /\ x'.todo = x.todo /\ x'.cur = x.cur
<1>1. x \in Memory
  BY DEF IInv, TypeOK
<1>2. CASE Load \/ Grade \/ CheckSaved \/ CheckInterrupted
  <2>1. CASE Load
    BY <1>1, <2>1 DEF Load, Memory, Grading
  <2>2. CASE Grade
    BY <1>1, <2>2 DEF Grade, Memory, Grading
  <2>3. CASE CheckSaved \/ CheckInterrupted
    BY <1>1, <2>3 DEF CheckSaved, CheckInterrupted, Memory, Grading
  <2> QED BY <1>2, <2>1, <2>2, <2>3
<1>3. CASE CheckIntent \/ CheckResult \/ CheckLaunch \/ CheckEnd
  <2>1. CASE CheckIntent \/ CheckResult
    BY <1>1, <2>1 DEF CheckIntent, CheckResult, Memory, Grading
  <2>2. CASE CheckLaunch \/ CheckEnd
    BY <1>1, <2>2 DEF CheckLaunch, CheckEnd, Memory, Grading
  <2> QED BY <1>3, <2>1, <2>2
<1>4. CASE FactsSaved \/ FactsEmpty \/ FactsIntent \/ FactsDone
  BY <1>1, <1>4 DEF FactsSaved, FactsEmpty, FactsIntent, FactsDone, ChecksDone, Memory, Grading
<1>5. CASE AskFacts \/ FactsAnswered \/ AskRubrics \/ RubricsAnswered
  BY <1>1, <1>5 DEF AskFacts, FactsAnswered, AskRubrics, RubricsAnswered, JudgeIntent, Memory, Grading
<1>6. CASE RubricsIntent \/ RubricsDone \/ \E r \in Rubrics : RubricJudged(r) \/ RubricRest(r)
  BY <1>1, <1>6 DEF RubricsIntent, RubricsDone, RubricJudged, RubricRest, Memory, Grading
<1> QED BY <1>2, <1>3, <1>4, <1>5, <1>6 DEF Working, Starting, Ending

\* What they do to the processes.
LEMMA WorkProcs ==
  ASSUME IInv, Working \/ Starting \/ Ending
  PROVE  \/ UNCHANGED procs
         \/ /\ att[Cur].stage # "none" /\ Cur \in Attempts
            /\ Launched \/ (UNCHANGED trusted /\ \E survives \in BOOLEAN : Ended(survives))
<1>1. CASE Working
  BY <1>1 DEF Working, Load, Grade, CheckSaved, CheckInterrupted, CheckIntent, CheckResult,
     FactsSaved, FactsEmpty, FactsIntent, FactsDone, RubricsIntent, RubricsDone, RubricJudged,
     RubricRest
<1>2. CASE Starting
  <2>1. Launched
    BY <1>2 DEF Starting, CheckLaunch, AskFacts, AskRubrics, JudgeIntent
  <2>2. x.pc \in Underway
    BY <1>2 DEF Starting, CheckLaunch, AskFacts, AskRubrics
  <2> QED BY <2>1, <2>2 DEF IInv, InHand, Grading
<1>3. CASE Ending
  <2>1. UNCHANGED trusted /\ \E survives \in BOOLEAN : Ended(survives)
    BY <1>3 DEF Ending, CheckEnd, FactsAnswered, RubricsAnswered
  <2>2. x.pc \in Underway
    BY <1>3 DEF Ending, CheckEnd, FactsAnswered, RubricsAnswered
  <2> QED BY <2>1, <2>2 DEF IInv, InHand, Grading
<1> QED BY <1>1, <1>2, <1>3

\* So they keep the second invariant.
LEMMA WorkKeeps ==
  ASSUME IInv, Coverage, Quiet, Working \/ Starting \/ Ending
  PROVE  Coverage' /\ Quiet'
<1>1. /\ x.pc \in Grading /\ x'.pc \in Grading /\ UNCHANGED <<att, chain, regrades>>
      /\ x'.kind = x.kind /\ x'.scope = x.scope /\ x'.todo = x.todo /\ x'.cur = x.cur
  BY WorkInHand
<1>2. Coverage'
  BY <1>1 DEF Coverage, Covered, Captured, Exists, Open, Current, Grading
<1>3. \A a \in Attempts : trusted'[a] \/ att[a].stage = "none" => left'[a] = "none"
  BY <1>1, WorkProcs DEF Quiet, Launched, Ended, IInv, TypeOK
<1>4. \A a \in Attempts : left'[a] = "orphan" => left[a] = "orphan"
  BY <1>1, WorkProcs DEF Launched, Ended, IInv, TypeOK
<1>5. Quiet'
  BY <1>1, <1>3, <1>4 DEF Quiet, Grading
<1> QED BY <1>2, <1>5

\* A command that ends, or does not begin, leaves no pass that says too much.
LEMMA EndsCovered ==
  ASSUME Coverage, x'.pc = "reconcile" \/ x' = Rest, UNCHANGED <<att, chain, regrades>>
  PROVE  Coverage'
  BY DEF Coverage, Covered, Open, Current, Rest

\* What is stopped is quiet, or not trusted.
LEMMA StopQuiet ==
  ASSUME TypeOK, Quiet, NEW a \in Attempts, NEW survives \in BOOLEAN, Stop(a, survives)
  PROVE  /\ \A b \in Attempts : trusted'[b] \/ att[b].stage = "none" => left'[b] = "none"
         /\ \A b \in Attempts : b # a \/ ~ survives => (left'[b] = "orphan" => left[b] = "orphan" /\ b # a)
  BY DEF TypeOK, Quiet, Stop

\* Reconcile: what was not trusted is stopped, or the command refused.
LEMMA ReconcileKeepsToo ==
  ASSUME IInv, Coverage, Quiet, NEW a \in Attempts, Reconcile(a)
  PROVE  Coverage' /\ Quiet'
<1>1. /\ x.pc = "reconcile" /\ x \in Memory /\ TypeOK
      /\ att' = [att EXCEPT ![a].stage = IF @ \in Active THEN "stopping" ELSE @]
      /\ UNCHANGED <<heard, chain, work, regrades>>
  BY DEF Reconcile, IInv, TypeOK
<1>2. PICK survives \in IF trusted[a] THEN {FALSE} ELSE BOOLEAN :
         /\ IF trusted[a] THEN UNCHANGED procs ELSE Stop(a, survives)
         /\ x' = [x EXCEPT !.todo = x.todo \ {a}, !.bad = x.bad \/ survives]
  BY DEF Reconcile
<1>3. /\ x'.pc = "reconcile" /\ x'.todo = x.todo \ {a} /\ x'.bad = (x.bad \/ survives)
  BY <1>1, <1>2 DEF Memory
<1>4. \A b \in Attempts : (att'[b].stage = "none" <=> att[b].stage = "none")
                          /\ (att[b].stage = "finished" => att'[b].stage = "finished")
  BY <1>1 DEF TypeOK, Active
<1>5. Coverage'
  BY <1>1, <1>3, <1>4 DEF Coverage, Covered, Open, Current
<1>6. /\ \A b \in Attempts : trusted'[b] \/ att[b].stage = "none" => left'[b] = "none"
      /\ \A b \in Attempts : b # a => (left'[b] = "orphan" => left[b] = "orphan")
      /\ ~ survives => left'[a] # "orphan"
  <2>1. CASE trusted[a]
    BY <1>2, <2>1 DEF Quiet
  <2>2. CASE ~ trusted[a]
    BY <1>1, <1>2, <2>2, StopQuiet
  <2> QED BY <2>1, <2>2
<1>7. survives \in BOOLEAN /\ x.bad \in BOOLEAN
  BY <1>1, <1>2, MemoryFields
<1>8. Quiet'
  BY <1>1, <1>3, <1>4, <1>6, <1>7 DEF Quiet
<1> QED BY <1>5, <1>8

\* Begin: all captured attempts are still to be visited.
LEMMA BeginKeepsToo ==
  ASSUME IInv, Coverage, Quiet, Begin
  PROVE  Coverage' /\ Quiet'
<1>1. /\ x.pc = "reconcile" /\ x.todo = {} /\ x \in Memory /\ TypeOK
      /\ UNCHANGED <<att, heard, chain, work, procs, faults>>
  BY DEF Begin, IInv, TypeOK
<1>2. CASE Refuses
  <2>1. x' = Rest /\ UNCHANGED regrades /\ Rest.pc = "idle"
    BY <1>2 DEF Begin, Rest
  <2> QED BY <1>1, <2>1, EndsCovered DEF Quiet
<1>3. CASE ~ Refuses
  <2>1. /\ x' = [x EXCEPT !.pc = "next", !.todo = Todo] /\ ~ x.bad
        /\ regrades' = IF x.kind = "regrade" /\ Open = 0
                       THEN Append(regrades, [case |-> x.case, done |-> {}, finished |-> FALSE])
                       ELSE regrades
    BY <1>3 DEF Begin, Refuses
  <2>2. x'.pc = "next" /\ x'.kind = x.kind /\ x'.todo = Todo
    BY <1>1, <2>1 DEF Memory
  <2>3. Quiet'
    BY <1>1, <2>1, <2>2 DEF Quiet
  <2>4. x.kind = "regrade" => Captured \subseteq Todo
    BY DEF Todo
  <2>5. Open' # 0 => \A a \in regrades'[Open'].done : Covered(a, Open')
    <3>1. CASE x.kind = "regrade" /\ Open = 0
      <4> DEFINE p == [case |-> x.case, done |-> {}, finished |-> FALSE]
      <4>1. regrades \in Seq(Pass) /\ p \in Pass /\ regrades' = Append(regrades, p)
        BY <1>1, <2>1, <3>1, MemoryFields DEF TypeOK, Pass
      <4>2. Len(regrades') = Len(regrades) + 1 /\ regrades'[Len(regrades) + 1] = p
        BY <4>1, AppendProperties
      <4>3. Open' # 0 => regrades'[Open'].done = {}
        BY <4>2 DEF Open
      <4> QED BY <4>3
    <3>2. CASE ~ (x.kind = "regrade" /\ Open = 0)
      BY <2>1, <3>2 DEF Coverage, Open
    <3> QED BY <3>1, <3>2
  <2>6. Coverage'
    BY <1>1, <2>2, <2>4, <2>5 DEF Coverage, Covered, Captured, Exists, Current
  <2> QED BY <2>3, <2>6
<1> QED BY <1>2, <1>3

\* SkipMarked and MarkGraded: what the pass has graded is covered.
LEMMA SkipKeepsToo ==
  ASSUME IInv, Coverage, Quiet, NEW a \in Attempts, SkipMarked(a) \/ MarkGraded(a)
  PROVE  Coverage' /\ Quiet'
<1>1. /\ x.pc = "next" /\ x \in Memory /\ TypeOK /\ x.kind = "regrade"
      /\ UNCHANGED <<events, heard, procs, faults>>
  BY DEF SkipMarked, MarkGraded, IInv, TypeOK
<1>2. x.scope = Open /\ Open # 0
  BY <1>1, OpenPass
<1>3. Covered(a, x.scope)
  <2>1. CASE SkipMarked(a)
    BY <1>2, <2>1 DEF SkipMarked, Coverage
  <2>2. CASE MarkGraded(a)
    <3>1. chain[a] # << >> /\ Current(a).scope = x.scope /\ Len(chain[a]) \in DOMAIN chain[a]
      BY <1>1, <2>2, ChainFacts DEF MarkGraded, AlreadyGraded
    <3> QED BY <1>2, <3>1 DEF Coverage, Covered, Current
  <2> QED BY <2>1, <2>2
<1>4. /\ x'.pc \in {"next", "mark"} /\ x'.kind = x.kind /\ x'.scope = x.scope
      /\ x'.todo \in {x.todo, x.todo \ {a}} /\ (x'.pc = "mark" => x'.cur = a)
  BY <1>1 DEF SkipMarked, MarkGraded, Memory
<1>5. Coverage'
  BY <1>1, <1>3, <1>4 DEF Coverage, Covered, Captured, Exists, Open, Current
<1>6. Quiet'
  BY <1>1, <1>4 DEF Quiet
<1> QED BY <1>5, <1>6

\* Visit: an attempt that was being graded is stopped once more.
LEMMA VisitKeepsToo ==
  ASSUME IInv, Coverage, Quiet, NEW a \in Attempts, Visit(a)
  PROVE  Coverage' /\ Quiet'
<1>1. /\ x.pc = "next" /\ x \in Memory /\ TypeOK /\ UNCHANGED <<events, heard>>
  BY DEF Visit, IInv, TypeOK
<1>2. PICK survives \in IF att[a].stage = "grading" THEN BOOLEAN ELSE {FALSE} :
         /\ IF att[a].stage = "grading" THEN Stop(a, survives) ELSE UNCHANGED procs
         /\ x' = IF survives THEN Rest ELSE [x EXCEPT !.pc = "load", !.cur = a]
  BY DEF Visit
<1>3. /\ \A b \in Attempts : trusted'[b] \/ att[b].stage = "none" => left'[b] = "none"
      /\ ~ survives => \A b \in Attempts : left'[b] = "orphan" => left[b] = "orphan"
  <2>1. CASE att[a].stage = "grading"
    BY <1>1, <1>2, <2>1, StopQuiet
  <2>2. CASE att[a].stage # "grading"
    BY <1>2, <2>2 DEF Quiet
  <2> QED BY <2>1, <2>2
<1>4. CASE survives
  <2>1. x' = Rest /\ x'.pc = "idle"
    BY <1>2, <1>4 DEF Rest
  <2> QED BY <1>1, <1>3, <2>1, EndsCovered DEF Quiet
<1>5. CASE ~ survives
  <2>1. x'.pc = "load" /\ x'.kind = x.kind /\ x'.scope = x.scope /\ x'.todo = x.todo
    BY <1>1, <1>2, <1>5 DEF Memory
  <2>2. Coverage'
    BY <1>1, <2>1 DEF Coverage, Covered, Captured, Exists, Open, Current
  <2>3. Quiet'
    BY <1>1, <1>3, <1>5, <2>1 DEF Quiet
  <2> QED BY <2>2, <2>3
<1> QED BY <1>4, <1>5

\* Close: a pass that is finished has no marks that matter.
LEMMA CloseKeepsToo ==
  ASSUME IInv, Coverage, Quiet, Close
  PROVE  Coverage' /\ Quiet'
<1>1. /\ x.pc = "next" /\ TypeOK /\ x' = Rest /\ x'.pc = "idle" /\ x'.kind = "none"
      /\ UNCHANGED <<att, heard, chain, work, procs, faults>>
  BY DEF Close, IInv, Rest
<1>2. CASE x.kind = "regrade"
  <2> DEFINE p == [regrades[x.scope] EXCEPT !.finished = TRUE]
  <2>1. x.scope \in DOMAIN regrades /\ p \in Pass /\ p.finished /\ x.scope = Len(regrades)
    BY <1>1, <1>2, OpenPass DEF Pass
  <2>2. regrades' = [regrades EXCEPT ![x.scope] = p]
    BY <1>2 DEF Close
  <2> HIDE DEF p
  <2>3. Len(regrades') = Len(regrades) /\ regrades'[x.scope] = p
    BY <1>1, <2>1, <2>2, PassChanged
  <2>4. Open' = 0
    BY <2>1, <2>3 DEF Open
  <2> QED BY <1>1, <2>4 DEF Coverage, Covered, Current, Quiet
<1>3. CASE x.kind # "regrade"
  BY <1>1, <1>3, EndsCovered DEF Close, Quiet
<1> QED BY <1>2, <1>3

\* Mark: whom the pass marks, it covers.
LEMMA MarkKeepsToo ==
  ASSUME IInv, Coverage, Quiet, Mark
  PROVE  Coverage' /\ Quiet'
<1>1. /\ x.pc = "mark" /\ TypeOK /\ InPass /\ Cur \in Attempts /\ x \in Memory
      /\ UNCHANGED <<att, heard, chain, work, procs, faults>>
  BY DEF Mark, IInv, InHand, TypeOK
<1>2. x.kind = "regrade" /\ Covered(Cur, x.scope)
  BY <1>1, MemoryFields DEF InPass, Coverage
<1> DEFINE p == [regrades[x.scope] EXCEPT !.done = @ \cup {Cur}]
<1>3. /\ x.scope \in DOMAIN regrades /\ p \in Pass /\ x.scope = Len(regrades) /\ ~ p.finished
      /\ x.scope = Open /\ x.scope # 0 /\ p.done = regrades[Open].done \cup {Cur}
  BY <1>1, <1>2, OpenPass DEF Pass
<1>4. regrades' = [regrades EXCEPT ![x.scope] = p]
  BY DEF Mark
<1> HIDE DEF p
<1>5. Len(regrades') = Len(regrades) /\ regrades' # << >> /\ regrades'[x.scope] = p
  BY <1>1, <1>3, <1>4, PassChanged
<1>6. Open' = x.scope
  BY <1>3, <1>5 DEF Open
<1>7. /\ x'.pc = "next" /\ x'.kind = x.kind /\ x'.scope = x.scope /\ x'.todo = x.todo \ {Cur}
  BY DEF Mark, Rest
<1>8. \A a \in Attempts : \A r \in Scopes : Covered(a, r)' <=> Covered(a, r)
  BY <1>1 DEF Covered, Current
<1>9. \A a \in regrades'[x.scope].done : Covered(a, x.scope)
  BY <1>2, <1>3, <1>5 DEF Coverage
<1>10. Coverage'
  BY <1>1, <1>2, <1>6, <1>7, <1>9 DEF Coverage, Covered, Captured, Exists, Current
<1>11. Quiet'
  BY <1>1, <1>7 DEF Quiet
<1> QED BY <1>10, <1>11
\* StageCaptured, StageAudited and StageGrading: an attempt in hand is not
\* forgotten while its stage changes.
LEMMA StageKeepsToo ==
  ASSUME IInv, Coverage, Quiet, StageCaptured \/ StageAudited \/ StageGrading
  PROVE  Coverage' /\ Quiet'
<1>1. /\ x.pc = "stage" /\ x \in Memory /\ TypeOK /\ Cur \in Attempts /\ Cur \in x.todo
      /\ UNCHANGED <<heard, work, regrades, procs, faults>>
      /\ att[Cur].stage \in {"stopping", "captured", "audited"}
      /\ \E stage \in Stages \ {"none"} : Staged(stage)
  BY DEF StageCaptured, StageAudited, StageGrading, IInv, InHand, Grading, TypeOK, Stages, Regradable
<1>2. /\ \A a \in Attempts \ {Cur} : att'[a] = att[a]
      /\ att'[Cur].stage # "none" /\ att'[Cur].captured = att[Cur].captured
  BY <1>1 DEF Staged, TypeOK
<1>3. /\ x'.pc = "stage" /\ x'.kind = x.kind /\ x'.scope = x.scope /\ x'.todo = x.todo
      /\ x'.cur = x.cur
  BY <1>1 DEF StageCaptured, StageAudited, StageGrading, Memory
<1>4. /\ \A a \in Attempts \ {Cur} : chain'[a] = chain[a]
      /\ \A i \in DOMAIN chain'[Cur] : chain'[Cur][i].scope = 0
  <2>1. \A i \in DOMAIN chain[Cur] : chain[Cur][i].scope = 0
    BY <1>1 DEF Coverage
  <2>2. CASE StageAudited
    <3> DEFINE e == Assessed("audit", {})
    <3>1. e \in AssessmentObject /\ e.scope = 0 /\ chain' = [chain EXCEPT ![Cur] = Append(@, e)]
      BY <1>1, <2>2, AssessedType DEF Assessed, StageAudited
    <3> HIDE DEF e
    <3> QED BY <1>1, <2>1, <3>1, Appended
  <2>3. CASE StageCaptured \/ StageGrading
    BY <2>1, <2>3 DEF StageCaptured, StageGrading
  <2> QED BY <2>2, <2>3
<1>5. ASSUME NEW a \in Attempts, NEW r, Covered(a, r)
      PROVE  a # Cur /\ Covered(a, r)'
  BY <1>1, <1>2, <1>4, <1>5 DEF Covered, Current
<1>6. Open' = Open /\ (Open # 0 => regrades[Open].done \subseteq Attempts)
  BY <1>1, OpenFacts DEF Open
<1>7. Coverage'
  <2>1. \A a \in Attempts : \A i \in DOMAIN chain'[a] : chain'[a][i].scope # 0 => att'[a].stage = "finished"
    BY <1>2, <1>4 DEF Coverage
  <2>2. Open # 0 => \A a \in regrades[Open].done : Covered(a, Open)'
    BY <1>1, <1>5, <1>6 DEF Coverage
  <2>3. x.kind = "regrade" => \A a \in Captured' : a \in x.todo \/ Covered(a, x.scope)'
    <3>1. ASSUME NEW a \in Captured', a # Cur PROVE a \in Captured
      BY <1>2, <3>1 DEF Captured, Exists
    <3>2. Captured \subseteq Attempts
      BY DEF Captured, Exists
    <3> QED BY <1>1, <1>3, <1>5, <3>1, <3>2 DEF Coverage
  <2> QED BY <1>1, <1>3, <1>6, <2>1, <2>2, <2>3 DEF Coverage, Covered, Current
<1>8. Quiet'
  BY <1>1, <1>2, <1>3 DEF Quiet
<1> QED BY <1>7, <1>8

\* Finish: the attempt's current assessment is one of this pass.
LEMMA FinishKeepsToo ==
  ASSUME IInv, Coverage, Quiet, Finish
  PROVE  Coverage' /\ Quiet'
<1>1. /\ x.pc = "finish" /\ Cur \in Attempts /\ TypeOK /\ InPass /\ InHand /\ x \in Memory
      /\ Work \in WorkRecord /\ UNCHANGED <<heard, work, regrades>> /\ x.scope \in Scopes
      /\ att[Cur].stage \in {"grading", "finished"} /\ x.kind \in {"assess", "regrade"}
      /\ (x.kind = "assess" => att[Cur].stage # "finished" /\ Open = 0)
  BY Hand, MemoryFields DEF Finish, IInv, Grading, InHand, InPass
<1>2. CASE Stop(Cur, TRUE) /\ x' = Rest /\ UNCHANGED <<att, chain>>
  <2>1. Coverage'
    BY <1>1, <1>2, EndsCovered
  <2>2. Quiet'
    BY <1>1, <1>2, StopQuiet DEF Quiet, Rest
  <2> QED BY <2>1, <2>2
<1>3. ASSUME NEW ok \in BOOLEAN, Stop(Cur, FALSE),
             chain' = [chain EXCEPT ![Cur] =
                         Append(@, [Assessed("graded", Work.files) EXCEPT !.ok = ok])],
             Staged("finished"),
             x' = IF x.kind = "regrade" THEN [x EXCEPT !.pc = "mark"]
                  ELSE [Rest EXCEPT !.pc = "next", !.kind = x.kind, !.todo = x.todo \ {Cur}]
      PROVE  Coverage' /\ Quiet'
  <2> DEFINE e == [Assessed("graded", Work.files) EXCEPT !.ok = ok]
  <2>1. /\ att'[Cur].stage = "finished" /\ att'[Cur].captured = att[Cur].captured
        /\ \A a \in Attempts \ {Cur} : att'[a] = att[a]
    BY <1>1, <1>3, Restaged
  <2>2. Assessed("graded", Work.files) \in AssessmentObject
    BY <1>1, WorkFields, AssessedType
  <2>3. e \in AssessmentObject /\ e.scope = x.scope
    BY <1>1, <2>2 DEF Assessed, AssessmentObject
  <2>4. chain' = [chain EXCEPT ![Cur] = Append(@, e)]
    BY <1>3
  <2> HIDE DEF e
  <2>5. /\ \A a \in Attempts \ {Cur} : chain'[a] = chain[a]
        /\ chain'[Cur] # << >> /\ chain'[Cur][Len(chain'[Cur])].scope = x.scope
    <3>1. /\ \A a \in Attempts \ {Cur} : chain'[a] = chain[a]
          /\ chain'[Cur] # << >> /\ Len(chain'[Cur]) = Len(chain[Cur]) + 1
          /\ chain'[Cur][Len(chain[Cur]) + 1] = e
      BY <1>1, <2>3, <2>4, Appended
    <3> QED BY <2>3, <3>1
  <2>6. ASSUME NEW a \in Attempts, NEW r, Covered(a, r), a # Cur \/ r = x.scope
        PROVE  Covered(a, r)'
    BY <2>1, <2>5, <2>6 DEF Covered, Current
  <2>7. ASSUME NEW a \in Attempts, NEW r, a = Cur, r = x.scope
        PROVE  Covered(a, r)'
    BY <2>1, <2>5, <2>7 DEF Covered, Current
  <2>8. /\ x.kind = "regrade" => x'.pc = "mark" /\ x'.kind = "regrade" /\ x'.scope = x.scope
                                /\ x'.todo = x.todo /\ x'.cur = x.cur
        /\ x.kind = "assess" => x'.pc = "next" /\ x'.kind = "assess"
    BY <1>1, <1>3 DEF Memory, Rest
  <2>9. /\ Open' = Open /\ (Open # 0 => regrades[Open].done \subseteq Attempts /\ x.scope = Open)
    BY <1>1, OpenFacts DEF Open, InPass
  <2>10. \A a \in Attempts : \A i \in DOMAIN chain'[a] : chain'[a][i].scope # 0 => att'[a].stage = "finished"
    BY <2>1, <2>5 DEF Coverage
  <2>11. Open # 0 => \A a \in regrades[Open].done : Covered(a, Open)'
    BY <1>1, <2>6, <2>7, <2>9 DEF Coverage
  <2>12. x.kind = "regrade" => \A a \in Captured' : a \in x.todo \/ Covered(a, x.scope)'
    <3>1. ASSUME NEW a \in Captured', a # Cur PROVE a \in Captured
      BY <2>1, <3>1 DEF Captured, Exists
    <3>2. Captured' \subseteq Attempts
      BY DEF Captured, Exists
    <3> QED BY <1>1, <2>6, <2>7, <2>8, <3>1, <3>2 DEF Coverage
  <2>13. Coverage'
    BY <1>1, <2>7, <2>8, <2>9, <2>10, <2>11, <2>12 DEF Coverage
  <2>14. Quiet'
    <3>1. /\ \A b \in Attempts : trusted'[b] \/ att[b].stage = "none" => left'[b] = "none"
          /\ \A b \in Attempts : left'[b] = "orphan" => left[b] = "orphan"
      BY <1>1, <1>3, StopQuiet
    <3>2. \A b \in Attempts : att'[b].stage = "none" => att[b].stage = "none"
      BY <2>1
    <3>3. x'.pc \in {"mark", "next"}
      BY <1>1, <2>8
    <3> QED BY <1>1, <3>1, <3>2, <3>3 DEF Quiet
  <2> QED BY <2>13, <2>14
<1> QED BY <1>2, <1>3 DEF Finish

\* The end of an attempt that is cut off, or of the process.
LEMMA CutKeepsToo ==
  ASSUME IInv, Coverage, Quiet, Unwind \/ Crash
  PROVE  Coverage' /\ Quiet'
<1>1. TypeOK /\ x' = Rest /\ x'.pc = "idle" /\ UNCHANGED <<events, heard>>
  BY DEF IInv, Unwind, Crash, Rest
<1>2. Coverage'
  BY <1>1, EndsCovered
<1>3. \A a \in Attempts : trusted'[a] \/ att[a].stage = "none" => left'[a] = "none"
  <2>1. CASE Unwind
    <3>1. Cur \in Attempts
      BY <2>1 DEF Unwind, IInv, InHand
    <3>2. \/ UNCHANGED procs
          \/ \E survives \in BOOLEAN : Stop(Cur, survives)
      BY <2>1 DEF Unwind
    <3> QED BY <1>1, <3>1, <3>2, StopQuiet DEF Quiet
  <2>2. CASE Crash
    BY <2>2 DEF Crash, Quiet
  <2> QED BY <2>1, <2>2
<1>4. Quiet'
  BY <1>1, <1>3 DEF Quiet
<1> QED BY <1>2, <1>4

\* A session that starts has every attempt to reconcile.
LEMMA StartKeepsToo ==
  ASSUME IInv, Coverage, Quiet, Assess \/ \E case \in Cases \cup {NoCase} : Regrade(case)
  PROVE  Coverage' /\ Quiet'
<1>1. x'.pc = "reconcile" /\ x'.todo = Exists /\ UNCHANGED <<events, heard, procs, faults>>
  <2>1. CASE Assess
    BY <2>1 DEF Assess, Rest
  <2>2. CASE \E case \in Cases \cup {NoCase} : Regrade(case)
    <3>1. UNCHANGED <<events, heard, procs, faults>>
      BY <2>2 DEF Regrade
    <3>2. \E case, s : x' = [Rest EXCEPT !.pc = "reconcile", !.kind = "regrade", !.case = case,
                                         !.todo = Exists, !.scope = s]
      BY <2>2 DEF Regrade
    <3>3. x'.pc = "reconcile" /\ x'.todo = Exists
      BY <3>2 DEF Rest
    <3> QED BY <3>1, <3>3
  <2> QED BY <2>1, <2>2
<1>2. Coverage'
  BY <1>1, EndsCovered
<1>3. Quiet'
  BY <1>1 DEF Quiet, Exists
<1> QED BY <1>2, <1>3

\* Review: it is an assessment of the same pass.
LEMMA ReviewKeepsToo ==
  ASSUME IInv, Coverage, Quiet, NEW a \in Attempts, NEW f \in Findings, Review(a, f)
  PROVE  Coverage' /\ Quiet'
<1> DEFINE e == [Current(a) EXCEPT !.kind = "review", !.reviews = @ \cup {f}, !.previous = Len(chain[a])]
<1>1. /\ x.pc = "idle" /\ TypeOK /\ att[a].stage = "finished" /\ x.kind = "none"
      /\ chain' = [chain EXCEPT ![a] = Append(@, e)] /\ Assessable(a)
      /\ UNCHANGED <<att, heard, work, regrades, procs, x, faults>>
  BY DEF Review, IInv, InPass, History
<1>2. Current(a) \in AssessmentObject /\ Len(chain[a]) \in Nat
  BY <1>1, ChainFacts DEF Assessable, Active
<1>3. e \in AssessmentObject /\ e.scope = Current(a).scope
  BY <1>2 DEF AssessmentObject
<1> HIDE DEF e
<1>4. /\ \A b \in Attempts \ {a} : chain'[b] = chain[b]
      /\ chain'[a] # << >> /\ chain'[a][Len(chain'[a])] = e
  <2>1. /\ \A b \in Attempts \ {a} : chain'[b] = chain[b]
        /\ chain'[a] # << >> /\ Len(chain'[a]) = Len(chain[a]) + 1
        /\ chain'[a][Len(chain[a]) + 1] = e
    BY <1>1, <1>3, Appended
  <2> QED BY <2>1
<1>5. ASSUME NEW b \in Attempts, NEW r, Covered(b, r) PROVE Covered(b, r)'
  BY <1>1, <1>3, <1>4, <1>5 DEF Covered, Current
<1>6. Open' = Open /\ (Open # 0 => regrades[Open].done \subseteq Attempts)
  BY <1>1, OpenFacts DEF Open
<1>7. Open # 0 => \A b \in regrades[Open].done : Covered(b, Open)'
  BY <1>5, <1>6 DEF Coverage
<1>8. Coverage'
  BY <1>1, <1>4, <1>6, <1>7 DEF Coverage
<1>9. Quiet'
  BY <1>1 DEF Quiet
<1> QED BY <1>8, <1>9

\* Execute: nothing of the run goes on when the attempt is captured.
LEMMA ExecuteKeepsToo ==
  ASSUME IInv, Coverage, Quiet, NEW a \in Attempts, Execute(a)
  PROVE  Coverage' /\ Quiet'
<1>1. /\ x.pc = "idle" /\ x.kind = "none" /\ TypeOK /\ UNCHANGED <<heard, chain, work, regrades, x, faults>>
      /\ att[a].stage # "finished" /\ left' = [b \in Attempts |-> "none"]
      /\ \A b \in Attempts \ {a} : att'[b] = att[b]
  BY DEF Execute, IInv, InPass, Active, TypeOK
<1>2. ASSUME NEW b \in Attempts, NEW r, Covered(b, r) PROVE Covered(b, r)'
  BY <1>1, <1>2 DEF Covered, Current
<1>3. Open' = Open /\ (Open # 0 => regrades[Open].done \subseteq Attempts)
  BY <1>1, OpenFacts DEF Open
<1>4. Open # 0 => \A b \in regrades[Open].done : Covered(b, Open)'
  BY <1>2, <1>3 DEF Coverage
<1>5. Coverage'
  BY <1>1, <1>3, <1>4 DEF Coverage
<1>6. Quiet'
  BY <1>1 DEF Quiet
<1> QED BY <1>5, <1>6

\* The second invariant holds at first,
LEMMA InitToo == Init => Coverage /\ Quiet
<1> SUFFICES ASSUME Init PROVE Coverage /\ Quiet
  OBVIOUS
<1>1. /\ \A a \in Attempts : chain[a] = << >> /\ (trusted[a] \/ att[a].stage = "none" => left[a] = "none")
      /\ x.pc = "idle" /\ x.kind = "none" /\ Open = 0
  <2>1. x.pc = "idle" /\ x.kind = "none" /\ Open = 0 /\ \A a \in Attempts : chain[a] = << >>
    BY DEF Init, Rest, Open
  <2>2. PICK stage \in [Attempts -> {"none", "active", "captured"}] :
           /\ att = [a \in Attempts |-> [stage |-> stage[a], captured |-> stage[a] = "captured"]]
           /\ left = [a \in Attempts |-> IF stage[a] = "active" THEN "orphan" ELSE "none"]
           /\ trusted = [a \in Attempts |-> stage[a] # "active"]
    BY DEF Init
  <2>3. ASSUME NEW a \in Attempts, trusted[a] \/ att[a].stage = "none" PROVE left[a] = "none"
    BY <2>2, <2>3
  <2> QED BY <2>1, <2>3
<1> QED BY <1>1 DEF Coverage, Quiet

\* and every step keeps it, given the first.
LEMMA NextToo == IInv /\ Coverage /\ Quiet /\ [Next]_vars => Coverage' /\ Quiet'
<1> SUFFICES ASSUME IInv, Coverage, Quiet, [Next]_vars PROVE Coverage' /\ Quiet'
  OBVIOUS
<1>1. CASE Begins
  BY <1>1, BeginKeepsToo, ReconcileKeepsToo DEF Begins
<1>2. CASE Loop
  BY <1>2, CloseKeepsToo, MarkKeepsToo, SkipKeepsToo, VisitKeepsToo DEF Loop
<1>3. CASE AssessOne
  BY <1>3, WorkKeeps, StageKeepsToo, FinishKeepsToo DEF AssessOne, Working, Starting, Ending
<1>4. CASE Unwind \/ Crash
  BY <1>4, CutKeepsToo
<1>5. CASE Assess \/ (\E case \in Cases \cup {NoCase} : Regrade(case))
  BY <1>5, StartKeepsToo
<1>6. CASE \E a \in Attempts : Execute(a) \/ \E f \in Findings : Review(a, f)
  BY <1>6, ExecuteKeepsToo, ReviewKeepsToo
<1>7. CASE Compact \/ UNCHANGED vars
  <2>1. UNCHANGED <<att, chain, regrades, x, left, trusted>>
    BY <1>7 DEF Compact, vars
  <2> QED BY <2>1 DEF Coverage, Covered, Captured, Exists, Open, Current, Quiet
<1> QED BY <1>1, <1>2, <1>3, <1>4, <1>5, <1>6, <1>7 DEF Next, Session

\* Both invariants hold throughout.
THEOREM InvariantToo == Spec => [](IInv /\ Coverage /\ Quiet)
<1> QED BY InitIInv, NextIInv, InitToo, NextToo, PTL DEF Spec

\* A pass runs no check twice, splits no suite between its sessions, calls the
\* judge within its budget, and launches nothing beside a process that an
\* earlier session left.
THEOREM PassesStayBounded == Spec => []WorkBounded
<1>1. Quiet => NoOrphanBeside
  BY DEF Quiet, NoOrphanBeside
<1>2. IInv /\ Quiet => WorkBounded
  BY <1>1, Bounds DEF WorkBounded
<1> QED BY <1>2, InvariantToo, PTL

\* A pass is recorded as finished by Close alone,
LEMMA Closing ==
  ASSUME IInv, [Next]_vars, NEW r \in DOMAIN regrades,
         ~ regrades[r].finished, regrades'[r].finished
  PROVE  Close
<1>1. regrades' # regrades
  OBVIOUS
<1>2. regrades \in Seq(Pass) /\ Len(regrades) \in Nat /\ r \in 1 .. Len(regrades)
  BY LenProperties DEF IInv, TypeOK, Pass
<1>3. ~ Begin
  <2> SUFFICES ASSUME Begin PROVE FALSE
    OBVIOUS
  <2> DEFINE p == [case |-> x.case, done |-> {}, finished |-> FALSE]
  <2>1. regrades' = Append(regrades, p) /\ p \in Pass
    BY <1>1, MemoryFields DEF Begin, IInv, TypeOK, Pass
  <2>2. regrades'[r] = regrades[r]
    BY <1>2, <2>1, AppendProperties
  <2> QED BY <2>2
<1>4. ~ Mark
  <2> SUFFICES ASSUME Mark PROVE FALSE
    OBVIOUS
  <2>1. x.kind = "regrade" /\ x.pc # "reconcile"
    BY MemoryFields DEF Mark, IInv, InPass, TypeOK
  <2> DEFINE p == [regrades[x.scope] EXCEPT !.done = @ \cup {Cur}]
  <2>2. x.scope \in DOMAIN regrades /\ Cur \in Attempts /\ p \in Pass
        /\ p.finished = regrades[x.scope].finished /\ regrades' = [regrades EXCEPT ![x.scope] = p]
    BY <2>1, OpenPass DEF Mark, IInv, InHand, Pass
  <2> HIDE DEF p
  <2>3. regrades'[r].finished = regrades[r].finished
    BY <2>2, PassChanged DEF IInv
  <2> QED BY <2>3
<1>5. CASE Begins
  BY <1>1, <1>3, <1>5 DEF Begins, Reconcile
<1>6. CASE Loop
  BY <1>1, <1>4, <1>6 DEF Loop, SkipMarked, MarkGraded, Visit
<1>7. CASE AssessOne
  BY <1>1, <1>7, WorkInHand DEF AssessOne, Working, Starting, Ending, StageCaptured, StageAudited,
     StageGrading, Finish
<1>8. CASE Assess \/ Unwind \/ Crash \/ Compact \/ (\E case \in Cases \cup {NoCase} : Regrade(case))
           \/ (\E a \in Attempts : Execute(a) \/ \E f \in Findings : Review(a, f))
  BY <1>1, <1>8 DEF Assess, Unwind, Crash, Compact, Regrade, Execute, Review
<1> QED BY <1>1, <1>5, <1>6, <1>7, <1>8 DEF Next, Session, vars

\* and only when it has graded every captured attempt: the current assessment of
\* each is its own.
LEMMA Covers == IInv /\ Coverage /\ [Next]_vars => [CoverStep]_vars
<1>1. ASSUME IInv, Coverage, Next, NEW r \in DOMAIN regrades,
             ~ regrades[r].finished, regrades'[r].finished
      PROVE  \A a \in Captured : att[a].stage = "finished" /\ Current(a).scope = r
  <2>1. Close /\ x.pc = "next" /\ x.todo = {} /\ regrades' # regrades
    BY <1>1, Closing DEF Close
  <2>2. x.kind = "regrade" /\ regrades' = [regrades EXCEPT ![x.scope].finished = TRUE]
    BY <2>1 DEF Close
  <2>3. x.scope \in DOMAIN regrades
    BY <1>1, <2>1, <2>2, OpenPass
  <2>4. r = x.scope
    BY <1>1, <2>2, <2>3
  <2> QED BY <1>1, <2>1, <2>2, <2>4 DEF Coverage, Covered
<1> QED BY <1>1 DEF CoverStep

\* An assessment is of the open pass, keeps the reviews that still apply, and,
\* when it is a grade, nothing of its attempt runs any more; and a pass is over
\* when it has graded them all.
THEOREM AssessmentsFollow == Spec => NewAssessment
<1>1. IInv /\ Coverage /\ [Next]_vars => [ReviewStep /\ PassStep /\ QuietStep /\ CoverStep]_vars
  BY Follows, Covers
<1> QED BY <1>1, InvariantToo, PTL DEF Spec, NewAssessment
=============================================================================
