----------------------------- MODULE AttemptProofs -----------------------------
(* Proofs about the parts of an attempt that AttemptParts puts together: the       *)
(* judging of facts, live configurations, inspections, turns, verifier checks,     *)
(* metrics commands and calibrations.  Each has an inductive invariant, the        *)
(* lemmas that each of its actions keeps it, and its theorems; before              *)
(* calibrations, what follows of a behaviour that is one of one of the others.     *)
EXTENDS AttemptParts, Integers, FiniteSetTheorems, SequenceTheorems, TLAPS

-----------------------------------------------------------------------------
(* The judging of facts (FactJudging). *)

Given == Judging!Verdicts \cup {Judging!None}

\* Each answer is one that was given. What is contested is what the last inspection contradicts, and
\* is not yet a grade; a grade is given once, at the end.
JudgeInv ==
    /\ Judging!ConstantsFit
    /\ inspected \in [JudgedFacts -> Given] /\ calls \in Nat /\ calls <= MaxCalls
    /\ judged \in [JudgedFacts -> Given] /\ again \in [JudgedFacts -> Given]
    /\ asked \subseteq JudgedFacts
    /\ \A f \in JudgedFacts :
         /\ judged[f] # Judging!None => <<f, judged[f]>> \in replied
         /\ again[f] # Judging!None => <<f, again[f]>> \in replied
    /\ at \in {"again", "grade"} => contested = Judging!Disagreements(judged)
    /\ at \in {"asking", "missing", "again", "grade"} => "graded" \notin begun
    /\ at = "none" => begun = {}
    /\ "graded" \notin begun => grade = Judging!Unanswered
    /\ Judging!GradeAgrees

LEMMA JudgeInit == Judging!Init /\ Judging!ConstantsFit => JudgeInv
BY DEF Judging!Init, JudgeInv, Judging!GradeAgrees, Judging!ConstantsFit, Given, Judging!Unanswered

LEMMA JudgeStep == JudgeInv /\ [Judging!Next]_(Judging!vars) => JudgeInv'
<1> SUFFICES ASSUME JudgeInv, [Judging!Next]_(Judging!vars) PROVE JudgeInv'
  OBVIOUS
<1> USE DEF Given, Judging!Verdicts, Judging!Settled, Judging!None
<1>1. CASE \E delivered \in BOOLEAN : Judging!Begin(delivered)
  BY <1>1 DEF Judging!Begin, JudgeInv, Judging!GradeAgrees, Judging!ConstantsFit, Judging!Disagreements,
     Judging!Decides, Judging!Missing, Judging!Answers, Judging!Unanswered
<1>2. ASSUME NEW answer \in [asked -> Given], Judging!Ask(answer) PROVE JudgeInv'
  <2>1. UNCHANGED <<inspected, begun, grade, again>> /\ calls' = calls + 1 /\ calls < MaxCalls
        /\ replied' = replied \cup {<<f, answer[f]>> : f \in {g \in asked : answer[g] # Judging!None}}
        /\ judged' = [f \in JudgedFacts |-> IF f \in asked /\ answer[f] # Judging!None THEN answer[f] ELSE judged[f]]
        /\ at \in {"asking", "missing"}
    BY <1>2 DEF Judging!Ask, Judging!Call, Judging!Answers
  <2>2. judged' \in [JudgedFacts -> Given] /\ \A f \in JudgedFacts : judged'[f] # Judging!None
        => <<f, judged'[f]>> \in replied'
    BY <2>1 DEF JudgeInv
  <2>3. /\ at' \in {"missing", "again"} /\ asked' \subseteq JudgedFacts
        /\ at' = "again" => contested' = Judging!Disagreements(judged')
    BY <1>2 DEF Judging!Ask, Judging!After, Judging!Disagreements, Judging!Missing
  <2>4. Judging!Disagreements(judged') = Judging!Disagreements(judged)'
    BY <2>1 DEF Judging!Disagreements, Judging!Decides
  <2>5. Judging!GradeAgrees'
    BY <2>1 DEF JudgeInv, Judging!GradeAgrees, Judging!ConstantsFit
  <2>6. again' \in [JudgedFacts -> Given] /\ \A f \in JudgedFacts : again'[f] # Judging!None
        => <<f, again'[f]>> \in replied'
    BY <2>1 DEF JudgeInv
  <2>7. inspected' \in [JudgedFacts -> Given] /\ calls' \in Nat /\ calls' <= MaxCalls
    BY <2>1 DEF JudgeInv, Judging!ConstantsFit
  <2>8. "graded" \notin begun' /\ grade' = Judging!Unanswered
    BY <2>1 DEF JudgeInv
  <2> QED
    BY <2>2, <2>3, <2>4, <2>5, <2>6, <2>7, <2>8 DEF JudgeInv, Judging!ConstantsFit
<1>3. ASSUME NEW answer \in [asked -> Given], Judging!AskAgain(answer) PROVE JudgeInv'
  <2>1. UNCHANGED <<inspected, begun, grade, judged, contested>> /\ calls' = calls + 1 /\ calls < MaxCalls
        /\ replied' = replied \cup {<<f, answer[f]>> : f \in {g \in asked : answer[g] # Judging!None}}
        /\ again' = [f \in JudgedFacts |-> IF f \in asked THEN answer[f] ELSE Judging!None]
        /\ at = "again" /\ at' = "grade" /\ asked' = {}
    BY <1>3 DEF Judging!AskAgain, Judging!Call
  <2>2. again' \in [JudgedFacts -> Given] /\ \A f \in JudgedFacts : again'[f] # Judging!None
        => <<f, again'[f]>> \in replied'
    BY <2>1 DEF JudgeInv
  <2>3. Judging!Disagreements(judged)' = Judging!Disagreements(judged)
    BY <2>1 DEF Judging!Disagreements, Judging!Decides
  <2>4. Judging!GradeAgrees'
    BY <2>1 DEF JudgeInv, Judging!GradeAgrees, Judging!ConstantsFit
  <2>5. judged' \in [JudgedFacts -> Given] /\ \A f \in JudgedFacts : judged'[f] # Judging!None
        => <<f, judged'[f]>> \in replied'
    BY <2>1 DEF JudgeInv
  <2>6. inspected' \in [JudgedFacts -> Given] /\ calls' \in Nat /\ calls' <= MaxCalls
    BY <2>1 DEF JudgeInv, Judging!ConstantsFit
  <2>7. "graded" \notin begun' /\ grade' = Judging!Unanswered' /\ contested' = Judging!Disagreements(judged)'
    BY <2>1, <2>3 DEF JudgeInv, Judging!Unanswered
  <2> QED
    BY <2>1, <2>2, <2>4, <2>5, <2>6, <2>7 DEF JudgeInv, Judging!ConstantsFit
<1>4. CASE Judging!Unasked
  BY <1>4 DEF Judging!Unasked, Judging!After, JudgeInv, Judging!GradeAgrees, Judging!ConstantsFit,
     Judging!Disagreements, Judging!Decides, Judging!Missing, Judging!Answers, Judging!Unanswered
<1>5. CASE Judging!NotAgain
  BY <1>5 DEF Judging!NotAgain, JudgeInv, Judging!GradeAgrees, Judging!ConstantsFit, Judging!Disagreements,
     Judging!Decides, Judging!Missing, Judging!Answers, Judging!Unanswered
<1>6. CASE Judging!Grade
  BY <1>6 DEF Judging!Grade, Judging!Agrees, JudgeInv, Judging!GradeAgrees, Judging!ConstantsFit,
     Judging!Disagreements, Judging!Decides, Judging!Missing, Judging!Answers, Judging!Unanswered
<1>7. CASE Judging!Rubrics
  BY <1>7 DEF Judging!Rubrics, JudgeInv, Judging!GradeAgrees, Judging!ConstantsFit, Judging!Disagreements,
     Judging!Decides, Judging!Missing, Judging!Answers, Judging!Unanswered
<1>8. CASE Judging!Kill
  BY <1>8 DEF Judging!Kill, JudgeInv, Judging!GradeAgrees, Judging!ConstantsFit, Judging!Disagreements,
     Judging!Decides, Judging!Missing, Judging!Answers, Judging!Unanswered
<1>9. CASE Judging!Resume
  BY <1>9 DEF Judging!Resume, JudgeInv, Judging!GradeAgrees, Judging!ConstantsFit, Judging!Disagreements,
     Judging!Decides, Judging!Missing, Judging!Answers, Judging!Unanswered
<1>10. CASE UNCHANGED Judging!vars
  BY <1>10 DEF Judging!vars, JudgeInv, Judging!GradeAgrees, Judging!ConstantsFit, Judging!Disagreements,
     Judging!Decides
<1> QED
  BY <1>1, <1>2, <1>3, <1>4, <1>5, <1>6, <1>7, <1>8, <1>9, <1>10 DEF Judging!Next

\* Whatever the judge leaves out, fails at or changes its mind on, a fact's grade is a judgment that it gave, does not
\* contradict the run's last inspection, and is made within the budget (_judge_facts).
THEOREM GradesAgree == ASSUME Judging!ConstantsFit PROVE Judging!Spec => []Judging!GradeAgrees
<1>1. Judging!Init => JudgeInv
  BY JudgeInit
<1>2. JudgeInv => Judging!GradeAgrees
  BY DEF JudgeInv
<1> QED
  BY <1>1, <1>2, JudgeStep, PTL DEF Judging!Spec

-----------------------------------------------------------------------------
(* Live configurations (LiveConfig). *)

Texts == {node.text : node \in Nodes} \cup {"absent", "counted", "other"}
TheWalk == [listed : SUBSET Config!Paths, at : Nat \ {0}, found : Nodes \cup {NoTree},
            records : [Config!Paths -> Texts]]
Trees == [Config!Paths -> Texts]
Unscreened(t) == \A f \in Config!Paths : t[f] \notin Screened

\* The walk is within the files. The digests of a copy are of what it has copied: nothing screened
\* from the live files, and for an attempt what its configuration has.
Walk ==
    /\ live \in [Config!Paths -> Nodes]
    /\ w \in TheWalk
    /\ pc = "copy" => staged \in Trees
    /\ pc \in {"count", "copy"} => Unscreened(w.records)
    /\ pc = "materialize" => config = w.records

\* There is a snapshot once it was published, of which nothing is screened, and an attempt is only
\* made when the journal has it.
Taken ==
    /\ journal \in Seq(Trees)
    /\ pc \in {"verify", "ready", "materialize"} => journal # <<>>
    /\ snapshot # NoTree \/ journal # <<>> \/ pc \in {"append", "adopt"} =>
         snapshot \in [tree : Trees, manifest : Trees] /\ Unscreened(snapshot.manifest)

ConfigInv == Config!ConstantsFit /\ Walk /\ Taken /\ Config!OneConfig /\ Config!NothingScreened

LEMMA NoneScreened == ASSUME Config!ConstantsFit PROVE Config!Empty \in Trees /\ Unscreened(Config!Empty)
<1>1. Config!Empty \in Trees
  BY DEF Config!Empty, Trees, Texts
<1>2. \A f \in Config!Paths : Config!Empty[f] = "absent"
  BY DEF Config!Empty
<1>3. "absent" \notin Screened
  BY DEF Config!ConstantsFit
<1> QED
  BY <1>1, <1>2, <1>3 DEF Unscreened

LEMMA Kept ==
    ASSUME ConfigInv, Config!File \in Config!Paths, NEW text \in Texts, Config!Keep(text)
    PROVE  /\ w' \in TheWalk /\ w'.records = [w.records EXCEPT ![Config!File] = text]
           /\ text \notin Screened /\ Unscreened(w.records) => Unscreened(w'.records)
<1>1. w' = [w EXCEPT !.at = @ + 1, !.found = NoTree, !.records = [w.records EXCEPT ![Config!File] = text]]
  BY DEF Config!Keep
<1>2. w \in TheWalk
  BY DEF ConfigInv, Walk
<1>3. [w.records EXCEPT ![Config!File] = text] \in [Config!Paths -> Texts]
  BY <1>2 DEF TheWalk
<1>4. w' \in TheWalk
  <2>1. w' = [listed |-> w.listed, at |-> w.at + 1, found |-> NoTree,
              records |-> [w.records EXCEPT ![Config!File] = text]]
    BY <1>1, <1>2 DEF TheWalk
  <2>2. w.listed \in SUBSET Config!Paths /\ w.at + 1 \in Nat \ {0} /\ NoTree \in Nodes \cup {NoTree}
    BY <1>2 DEF TheWalk
  <2> QED
    BY <2>1, <2>2, <1>3 DEF TheWalk
<1>5. w'.records = [w.records EXCEPT ![Config!File] = text] /\ w.records \in [Config!Paths -> Texts]
  BY <1>1, <1>2 DEF TheWalk
<1> QED
  BY <1>4, <1>5 DEF Unscreened

LEMMA ConfigInit == Config!Init /\ Config!ConstantsFit => ConfigInv
BY NoneScreened DEF Config!Init, ConfigInv, Walk, Taken, Config!OneConfig, Config!NothingScreened,
   Config!Start, Trees, TheWalk, Unscreened

LEMMA ConfigStep == ConfigInv /\ [Config!Next]_(Config!vars) => ConfigInv'
<1> SUFFICES ASSUME ConfigInv, [Config!Next]_(Config!vars) PROVE ConfigInv'
  OBVIOUS
<1>0. ASSUME ~Config!AtEnd PROVE Config!File \in Config!Paths
  BY <1>0 DEF ConfigInv, Walk, TheWalk, Config!ConstantsFit, Config!AtEnd, Config!File, Config!Paths
<1>00. Config!Empty \in Trees /\ Unscreened(Config!Empty)
  BY NoneScreened DEF ConfigInv
<1>1. CASE Config!Edit
  <2>1. Walk'
    BY <1>1, <1>0, <1>00 DEF Config!Edit, ConfigInv, Walk, Taken, Config!ConstantsFit, Trees, TheWalk,
       Unscreened, Config!Listed, Config!Start, Config!Fail, Config!Walking, Config!AtEnd, Config!Keep,
       Config!Changed, Config!Refused, Config!Dangling, Config!Moved, Config!Screen
  <2>2. Taken'
    BY <1>1, <1>0, <1>00 DEF Config!Edit, ConfigInv, Walk, Taken, Config!ConstantsFit, Trees, TheWalk,
       Unscreened, Config!Listed, Config!Start, Config!Fail, Config!Walking, Config!AtEnd, Config!Keep,
       Config!Changed, Config!Refused, Config!Dangling, Config!Moved, Config!Screen, Config!Manifest
  <2>3. Config!OneConfig' /\ Config!NothingScreened'
    BY <1>1 DEF Config!Edit, ConfigInv, Walk, Taken, Config!ConstantsFit, Config!OneConfig,
       Config!NothingScreened, Unscreened, Config!Walked, Config!Manifest
  <2> QED
    BY <2>1, <2>2, <2>3 DEF ConfigInv, Config!ConstantsFit
<1>2. CASE Config!Tamper
  <2>1. PICK f \in Config!Paths, text \in {"other", "absent"} :
          \/ snapshot' = [snapshot EXCEPT !.tree[f] = text]
          \/ snapshot' = [snapshot EXCEPT !.manifest[f] = text]
    BY <1>2 DEF Config!Tamper
  <2>2. text \in Texts /\ text \notin Screened
    BY DEF ConfigInv, Config!ConstantsFit, Texts
  <2>3. snapshot \in [tree : Trees, manifest : Trees] /\ Unscreened(snapshot.manifest)
    BY <1>2 DEF Config!Tamper, ConfigInv, Taken
  <2>4. snapshot' \in [tree : Trees, manifest : Trees] /\ Unscreened(snapshot.manifest)'
    BY <2>1, <2>2, <2>3 DEF Trees, Unscreened
  <2> QED
    BY <1>2, <2>4 DEF Config!Tamper, ConfigInv, Walk, Taken, Config!ConstantsFit, Config!OneConfig,
       Config!NothingScreened
<1>3. CASE Config!Visit
  <2>1. Walk'
    BY <1>3, <1>0, <1>00 DEF Config!Visit, ConfigInv, Walk, Taken, Config!ConstantsFit, Trees, TheWalk,
       Unscreened, Config!Listed, Config!Start, Config!Fail, Config!Walking, Config!AtEnd, Config!Keep,
       Config!Changed, Config!Refused, Config!Dangling, Config!Moved, Config!Screen
  <2>2. Taken'
    BY <1>3, <1>0, <1>00 DEF Config!Visit, ConfigInv, Walk, Taken, Config!ConstantsFit, Trees, TheWalk,
       Unscreened, Config!Listed, Config!Start, Config!Fail, Config!Walking, Config!AtEnd, Config!Keep,
       Config!Changed, Config!Refused, Config!Dangling, Config!Moved, Config!Screen, Config!Manifest
  <2>3. Config!OneConfig' /\ Config!NothingScreened'
    BY <1>3 DEF Config!Visit, ConfigInv, Walk, Taken, Config!ConstantsFit, Config!OneConfig,
       Config!NothingScreened, Unscreened, Config!Walked, Config!Manifest
  <2> QED
    BY <2>1, <2>2, <2>3 DEF ConfigInv, Config!ConstantsFit
<1>4. CASE Config!Open
  <2>1. live[Config!File].text \in Texts /\ "counted" \in Texts /\ Config!File \in Config!Paths
    BY <1>4, <1>0 DEF Config!Open, ConfigInv, Walk, Config!ConstantsFit, Texts
  <2>2. Config!OneConfig' /\ Config!NothingScreened'
    BY <1>4 DEF Config!Open, ConfigInv, Config!OneConfig, Config!NothingScreened
  <2>3. CASE Config!Fail
    <3>1. w' \in TheWalk /\ pc' = "down"
      BY <2>3, <1>00 DEF Config!Fail, Config!Start, TheWalk, Trees
    <3> QED
      BY <1>4, <2>2, <3>1 DEF Config!Open, ConfigInv, Walk, Taken, Config!ConstantsFit
  <2>4. CASE w' = [w EXCEPT !.at = @ + 1, !.found = NoTree] /\ UNCHANGED <<pc, staged>>
    <3>1. w \in TheWalk
      BY DEF ConfigInv, Walk
    <3>2. w' = [listed |-> w.listed, at |-> w.at + 1, found |-> NoTree, records |-> w.records]
      BY <2>4, <3>1 DEF TheWalk
    <3>3. w.listed \in SUBSET Config!Paths /\ w.at + 1 \in Nat \ {0} /\ NoTree \in Nodes \cup {NoTree}
      BY <3>1 DEF TheWalk
    <3>4. w' \in TheWalk /\ w'.records = w.records
      BY <3>1, <3>2, <3>3 DEF TheWalk
    <3> QED
      BY <1>4, <2>2, <2>4, <3>4 DEF Config!Open, Config!Walking, ConfigInv, Walk, Taken, Config!ConstantsFit
  <2>5. CASE pc = "count" /\ Config!Keep("counted") /\ UNCHANGED <<pc, staged>>
    <3>1. w' \in TheWalk /\ (Unscreened(w.records) => Unscreened(w'.records))
      <4>1. "counted" \notin Screened
        BY DEF ConfigInv, Config!ConstantsFit
      <4> QED
        BY <2>1, <2>5, <4>1, Kept
    <3> QED
      BY <1>4, <2>2, <2>5, <3>1 DEF Config!Open, ConfigInv, Walk, Taken, Config!ConstantsFit
  <2>6. CASE pc = "copy" /\ staged' = [staged EXCEPT ![Config!File] = live[Config!File].text] /\ UNCHANGED pc
             /\ ~Config!Screen(live[Config!File].text) /\ Config!Keep(live[Config!File].text)
    <3>1. staged' \in Trees
      BY <2>1, <2>6, <1>4 DEF ConfigInv, Walk, Trees
    <3>2. w' \in TheWalk /\ (Unscreened(w.records) => Unscreened(w'.records))
      BY <2>1, <2>6, Kept DEF Config!Screen
    <3> QED
      BY <1>4, <2>2, <2>6, <3>1, <3>2 DEF Config!Open, ConfigInv, Walk, Taken, Config!ConstantsFit
  <2> QED
    BY <1>4, <2>3, <2>4, <2>5, <2>6 DEF Config!Open, Config!Walking
<1>5. CASE Config!Prepare
  <2>1. Walk'
    BY <1>5, <1>0, <1>00 DEF Config!Prepare, ConfigInv, Walk, Taken, Config!ConstantsFit, Trees, TheWalk,
       Unscreened, Config!Listed, Config!Start, Config!Fail, Config!Walking, Config!AtEnd, Config!Keep,
       Config!Changed, Config!Refused, Config!Dangling, Config!Moved, Config!Screen
  <2>2. Taken'
    BY <1>5, <1>0, <1>00 DEF Config!Prepare, ConfigInv, Walk, Taken, Config!ConstantsFit, Trees, TheWalk,
       Unscreened, Config!Listed, Config!Start, Config!Fail, Config!Walking, Config!AtEnd, Config!Keep,
       Config!Changed, Config!Refused, Config!Dangling, Config!Moved, Config!Screen, Config!Manifest
  <2>3. Config!OneConfig' /\ Config!NothingScreened'
    BY <1>5 DEF Config!Prepare, ConfigInv, Walk, Taken, Config!ConstantsFit, Config!OneConfig,
       Config!NothingScreened, Unscreened, Config!Walked, Config!Manifest
  <2> QED
    BY <2>1, <2>2, <2>3 DEF ConfigInv, Config!ConstantsFit
<1>6. CASE Config!Counted
  <2>1. Walk'
    BY <1>6, <1>0, <1>00 DEF Config!Counted, ConfigInv, Walk, Taken, Config!ConstantsFit, Trees, TheWalk,
       Unscreened, Config!Listed, Config!Start, Config!Fail, Config!Walking, Config!AtEnd, Config!Keep,
       Config!Changed, Config!Refused, Config!Dangling, Config!Moved, Config!Screen
  <2>2. Taken'
    BY <1>6, <1>0, <1>00 DEF Config!Counted, ConfigInv, Walk, Taken, Config!ConstantsFit, Trees, TheWalk,
       Unscreened, Config!Listed, Config!Start, Config!Fail, Config!Walking, Config!AtEnd, Config!Keep,
       Config!Changed, Config!Refused, Config!Dangling, Config!Moved, Config!Screen, Config!Manifest
  <2>3. Config!OneConfig' /\ Config!NothingScreened'
    BY <1>6 DEF Config!Counted, ConfigInv, Walk, Taken, Config!ConstantsFit, Config!OneConfig,
       Config!NothingScreened, Unscreened, Config!Walked, Config!Manifest
  <2> QED
    BY <2>1, <2>2, <2>3 DEF ConfigInv, Config!ConstantsFit
<1>7. CASE Config!Unstage
  <2>1. Walk'
    BY <1>7, <1>0, <1>00 DEF Config!Unstage, ConfigInv, Walk, Taken, Config!ConstantsFit, Trees, TheWalk,
       Unscreened, Config!Listed, Config!Start, Config!Fail, Config!Walking, Config!AtEnd, Config!Keep,
       Config!Changed, Config!Refused, Config!Dangling, Config!Moved, Config!Screen
  <2>2. Taken'
    BY <1>7, <1>0, <1>00 DEF Config!Unstage, ConfigInv, Walk, Taken, Config!ConstantsFit, Trees, TheWalk,
       Unscreened, Config!Listed, Config!Start, Config!Fail, Config!Walking, Config!AtEnd, Config!Keep,
       Config!Changed, Config!Refused, Config!Dangling, Config!Moved, Config!Screen, Config!Manifest
  <2>3. Config!OneConfig' /\ Config!NothingScreened'
    BY <1>7 DEF Config!Unstage, ConfigInv, Walk, Taken, Config!ConstantsFit, Config!OneConfig,
       Config!NothingScreened, Unscreened, Config!Walked, Config!Manifest
  <2> QED
    BY <2>1, <2>2, <2>3 DEF ConfigInv, Config!ConstantsFit
<1>8. CASE Config!Publish
  <2>1. Walk'
    BY <1>8, <1>0, <1>00 DEF Config!Publish, ConfigInv, Walk, Taken, Config!ConstantsFit, Trees, TheWalk,
       Unscreened, Config!Listed, Config!Start, Config!Fail, Config!Walking, Config!AtEnd, Config!Keep,
       Config!Changed, Config!Refused, Config!Dangling, Config!Moved, Config!Screen
  <2>2. Taken'
    BY <1>8, <1>0, <1>00 DEF Config!Publish, ConfigInv, Walk, Taken, Config!ConstantsFit, Trees, TheWalk,
       Unscreened, Config!Listed, Config!Start, Config!Fail, Config!Walking, Config!AtEnd, Config!Keep,
       Config!Changed, Config!Refused, Config!Dangling, Config!Moved, Config!Screen, Config!Manifest
  <2>3. Config!OneConfig' /\ Config!NothingScreened'
    BY <1>8 DEF Config!Publish, ConfigInv, Walk, Taken, Config!ConstantsFit, Config!OneConfig,
       Config!NothingScreened, Unscreened, Config!Walked, Config!Manifest
  <2> QED
    BY <2>1, <2>2, <2>3 DEF ConfigInv, Config!ConstantsFit
<1>9. CASE Config!AppendEvent
  <2>1. snapshot \in [tree : Trees, manifest : Trees] /\ Unscreened(snapshot.manifest) /\ journal \in Seq(Trees)
    BY <1>9 DEF Config!AppendEvent, ConfigInv, Taken
  <2>2. journal' \in Seq(Trees) /\ journal' # <<>>
        /\ Head(journal') = IF journal = <<>> THEN snapshot.manifest ELSE Head(journal)
    BY <1>9, <2>1 DEF Config!AppendEvent
  <2>3. Config!OneConfig' /\ Config!NothingScreened'
    BY <1>9, <2>1, <2>2 DEF Config!AppendEvent, ConfigInv, Config!OneConfig, Config!NothingScreened,
       Unscreened
  <2> QED
    BY <1>9, <2>1, <2>2, <2>3 DEF Config!AppendEvent, ConfigInv, Walk, Taken, Config!ConstantsFit
<1>10. CASE Config!Verify
  <2>1. Walk'
    BY <1>10, <1>0, <1>00 DEF Config!Verify, ConfigInv, Walk, Taken, Config!ConstantsFit, Trees, TheWalk,
       Unscreened, Config!Listed, Config!Start, Config!Fail, Config!Walking, Config!AtEnd, Config!Keep,
       Config!Changed, Config!Refused, Config!Dangling, Config!Moved, Config!Screen
  <2>2. Taken'
    BY <1>10, <1>0, <1>00 DEF Config!Verify, ConfigInv, Walk, Taken, Config!ConstantsFit, Trees, TheWalk,
       Unscreened, Config!Listed, Config!Start, Config!Fail, Config!Walking, Config!AtEnd, Config!Keep,
       Config!Changed, Config!Refused, Config!Dangling, Config!Moved, Config!Screen, Config!Manifest
  <2>3. Config!OneConfig' /\ Config!NothingScreened'
    BY <1>10 DEF Config!Verify, ConfigInv, Walk, Taken, Config!ConstantsFit, Config!OneConfig,
       Config!NothingScreened, Unscreened, Config!Walked, Config!Manifest
  <2> QED
    BY <2>1, <2>2, <2>3 DEF ConfigInv, Config!ConstantsFit
<1>11. CASE Config!BeginAttempt
  <2>1. Walk'
    BY <1>11, <1>0, <1>00 DEF Config!BeginAttempt, ConfigInv, Walk, Taken, Config!ConstantsFit, Trees,
       TheWalk, Unscreened, Config!Listed, Config!Start, Config!Fail, Config!Walking, Config!AtEnd,
       Config!Keep, Config!Changed, Config!Refused, Config!Dangling, Config!Moved, Config!Screen
  <2>2. Taken'
    BY <1>11, <1>0, <1>00 DEF Config!BeginAttempt, ConfigInv, Walk, Taken, Config!ConstantsFit, Trees,
       TheWalk, Unscreened, Config!Listed, Config!Start, Config!Fail, Config!Walking, Config!AtEnd,
       Config!Keep, Config!Changed, Config!Refused, Config!Dangling, Config!Moved, Config!Screen,
       Config!Manifest
  <2>3. Config!OneConfig' /\ Config!NothingScreened'
    BY <1>11 DEF Config!BeginAttempt, ConfigInv, Walk, Taken, Config!ConstantsFit, Config!OneConfig,
       Config!NothingScreened, Unscreened, Config!Walked, Config!Manifest
  <2> QED
    BY <2>1, <2>2, <2>3 DEF ConfigInv, Config!ConstantsFit
<1>12. CASE Config!CopyNext
  <2>1. Config!File \in Config!Paths /\ snapshot.tree[Config!File] \in Texts
    BY <1>12, <1>0 DEF Config!CopyNext, ConfigInv, Taken, Trees
  <2>2. config' = w'.records /\ w' \in TheWalk
    BY <1>12, <2>1, Kept DEF Config!CopyNext, ConfigInv, Walk
  <2> QED
    BY <1>12, <2>2 DEF Config!CopyNext, ConfigInv, Walk, Taken, Config!ConstantsFit, Config!OneConfig,
       Config!NothingScreened
<1>13. CASE Config!Materialized
  <2>1. Walk'
    BY <1>13, <1>0, <1>00 DEF Config!Materialized, ConfigInv, Walk, Taken, Config!ConstantsFit, Trees,
       TheWalk, Unscreened, Config!Listed, Config!Start, Config!Fail, Config!Walking, Config!AtEnd,
       Config!Keep, Config!Changed, Config!Refused, Config!Dangling, Config!Moved, Config!Screen
  <2>2. Taken'
    BY <1>13, <1>0, <1>00 DEF Config!Materialized, ConfigInv, Walk, Taken, Config!ConstantsFit, Trees,
       TheWalk, Unscreened, Config!Listed, Config!Start, Config!Fail, Config!Walking, Config!AtEnd,
       Config!Keep, Config!Changed, Config!Refused, Config!Dangling, Config!Moved, Config!Screen,
       Config!Manifest
  <2>3. Config!OneConfig' /\ Config!NothingScreened'
    BY <1>13 DEF Config!Materialized, ConfigInv, Walk, Taken, Config!ConstantsFit, Config!OneConfig,
       Config!NothingScreened, Unscreened, Config!Walked, Config!Manifest
  <2> QED
    BY <2>1, <2>2, <2>3 DEF ConfigInv, Config!ConstantsFit
<1>14. CASE Config!Crash
  <2>1. Walk'
    BY <1>14, <1>0, <1>00 DEF Config!Crash, ConfigInv, Walk, Taken, Config!ConstantsFit, Trees, TheWalk,
       Unscreened, Config!Listed, Config!Start, Config!Fail, Config!Walking, Config!AtEnd, Config!Keep,
       Config!Changed, Config!Refused, Config!Dangling, Config!Moved, Config!Screen
  <2>2. Taken'
    BY <1>14, <1>0, <1>00 DEF Config!Crash, ConfigInv, Walk, Taken, Config!ConstantsFit, Trees, TheWalk,
       Unscreened, Config!Listed, Config!Start, Config!Fail, Config!Walking, Config!AtEnd, Config!Keep,
       Config!Changed, Config!Refused, Config!Dangling, Config!Moved, Config!Screen, Config!Manifest
  <2>3. Config!OneConfig' /\ Config!NothingScreened'
    BY <1>14 DEF Config!Crash, ConfigInv, Walk, Taken, Config!ConstantsFit, Config!OneConfig,
       Config!NothingScreened, Unscreened, Config!Walked, Config!Manifest
  <2> QED
    BY <2>1, <2>2, <2>3 DEF ConfigInv, Config!ConstantsFit
<1>15. CASE UNCHANGED Config!vars
  BY <1>15 DEF Config!vars, ConfigInv, Walk, Taken, Config!ConstantsFit, Config!OneConfig,
     Config!NothingScreened, Unscreened, Trees
<1> QED
  BY <1>1, <1>2, <1>3, <1>4, <1>5, <1>6, <1>7, <1>8, <1>9, <1>10, <1>11, <1>12, <1>13, <1>14, <1>15
     DEF Config!Next

\* However the user edits the live files or the snapshot, and wherever the run dies: every attempt is launched with the
\* configuration that the journal names, and nothing screened gets into it (snapshot_live_config, verify_snapshot).
THEOREM ConfigStaysSound == ASSUME Config!ConstantsFit PROVE Config!Spec => []Config!ConfigSound
<1>1. Config!Init => ConfigInv
  BY ConfigInit
<1>2. ConfigInv => Config!ConfigSound
  BY DEF ConfigInv, Config!ConfigSound
<1> QED
  BY <1>1, <1>2, ConfigStep, PTL DEF Config!Spec

-----------------------------------------------------------------------------
(* Inspections (Inspection). *)

Stamp == Nat \X Nat
Outcome == CallVerdicts \cup {"none"}
Answers == [Inspected!Facts -> Outcome]
InspectPlaces == {"idle", "observe", "snapshot", "capture", "reuse", "next", "own", "calling", "retain", "abort",
                  "clean", "after"}
InspectStages == {"verify", "judge", "rejudge"}
InspectErrors == {"none", "cancelled", "deadline_exhausted", "snapshot_unavailable", "judge_unavailable", "OSError",
           "verifier_cleanup_failed", "judge_cleanup_failed", "harness_error", "inspection_cleanup_failed"}
TheInspection ==
    [pc : InspectPlaces, dir : Stamp, seen : Nat, files : Nat, input : Stamp, tries : Nat, calls : Nat,
     stage : InspectStages,
     asked : SUBSET Inspected!Facts, answer : Answers, survives : BOOLEAN, verdicts : Answers, error : InspectErrors]

InspectTyped ==
    /\ files \in Nat /\ log \in Nat /\ read \in Nat /\ inspections \in Nat
    /\ stop \in {"none", "cancelled", "deadline_exhausted"} /\ working \in BOOLEAN /\ resolved \in BOOLEAN
    /\ inspection \in TheInspection
    /\ owned \subseteq Stamp \X Nat
    /\ \A r \in records : r.of \in Stamp \X Nat
    /\ \A old \in concluded : old.input \in Stamp /\ old.verdicts \in Answers

Complete(verdicts) == \A f \in Inspected!Facts : verdicts[f] # "none"
InCalls == {"next", "own", "calling", "retain"}

\* What a completed inspection would say is of the last input and agrees with those before; while calls
\* are made, no inspection had the same input.
Fresh ==
    /\ inspection.pc \in InCalls \cup {"snapshot", "capture", "reuse", "clean", "after"}
       => read = inspection.seen
    /\ inspection.pc \in InCalls =>
         /\ inspection.input = <<inspection.files, read>>
         /\ \A old \in concluded : old.input # inspection.input
         /\ inspection.error = "none"
    /\ inspection.pc \in InCalls /\ inspection.stage = "judge" => Inspected!Unsettled(Verified) = {}
    /\ inspection.pc \in InCalls \ {"next"} /\ inspection.stage = "judge"
       => inspection.asked = Inspected!Unsettled(Judged)
    /\ inspection.pc \in InCalls /\ inspection.stage = "rejudge" => Complete(inspection.verdicts)
    /\ inspection.pc \in {"clean", "after"} /\ inspection.error = "none" =>
         /\ inspection.input = <<inspection.files, read>> /\ Complete(inspection.verdicts)
         /\ \A old \in concluded : old.input = inspection.input => old.verdicts = inspection.verdicts
    /\ inspection.pc \in {"idle", "observe", "snapshot", "capture", "reuse"} => inspection.error = "none"
       /\ inspection.stage = "verify"
    /\ \A old \in concluded :
         Complete(old.verdicts) /\ \A also \in concluded : old.input = also.input
            => old.verdicts = also.verdicts

\* The processes that the journal names are of directories and calls up to the present ones.
InspectNumbered ==
    /\ \A p \in owned : p[1][1] <= inspections
    /\ working /\ inspection.pc # "idle" =>
         /\ inspection.dir[1] = inspections
         /\ \A p \in owned : p[1][1] = inspections =>
              /\ p[1][2] <= inspection.dir[2]
              /\ p[1][2] = inspection.dir[2] => p[2] <= inspection.calls
                 /\ (inspection.pc = "own" => p[2] < inspection.calls)

\* Of a process that is named and alive there is a report that it was not stopped, once its call is
\* over; when the owned processes are resolved there is none.
Watched ==
    /\ working => \A p \in owned \cap running :
         (inspection.pc = "calling" /\ p = Inspected!Writer) \/ \E r \in records : r.of = p /\ ~ r.stopped
    /\ resolved => ~ working /\ owned \cap running = {}

InspectInv == InspectTyped /\ Fresh /\ InspectNumbered /\ Watched

LEMMA InspectInit == Inspected!Init => InspectInv
<1> SUFFICES ASSUME Inspected!Init PROVE InspectInv
  OBVIOUS
<1>1. InspectTyped
  BY DEF Inspected!Init, Inspected!Idle, Inspected!NoVerdicts, InspectTyped, TheInspection, Stamp, Outcome,
     Answers, InspectPlaces, InspectStages, InspectErrors
<1>2. Fresh /\ InspectNumbered /\ Watched
  BY DEF Inspected!Init, Inspected!Idle, Fresh, InspectNumbered, Watched, InCalls
<1> QED
  BY <1>1, <1>2 DEF InspectInv

\* The names that the steps use.
LEMMA Named ==
    /\ \A p \in {"idle", "observe", "snapshot", "capture", "reuse", "next", "own", "calling", "retain", "abort",
                 "clean", "after"} :
         p \in InspectPlaces
    /\ \A stage \in {"verify", "judge", "rejudge"} : stage \in InspectStages
    /\ stop \in {"none", "cancelled", "deadline_exhausted"} => stop \in InspectErrors
    /\ \A e \in {"none", "snapshot_unavailable", "judge_unavailable", "OSError", "verifier_cleanup_failed",
                 "judge_cleanup_failed", "harness_error", "inspection_cleanup_failed"} : e \in InspectErrors
    /\ Inspected!NoVerdicts \in Answers /\ Inspected!Idle \in TheInspection
BY DEF InspectPlaces, InspectStages, InspectErrors, Inspected!Idle, Inspected!NoVerdicts, TheInspection,
   Stamp, Outcome, Answers

LEMMA Failed ==
    ASSUME InspectInv, NEW error \in InspectErrors \ {"none"}, working,
           inspection.pc \in {"snapshot", "capture", "next", "retain"},
           inspection' = Inspected!Fails(error),
           UNCHANGED <<files, log, read, stop, working, inspections, running, owned, resolved, records,
                       concluded>>
    PROVE  InspectInv'
<1>1. inspection \in TheInspection /\ "clean" \in InspectPlaces
  BY Named DEF InspectInv, InspectTyped
<1>2. inspection' \in TheInspection /\ inspection'.pc = "clean" /\ inspection'.error = error
      /\ inspection'.dir = inspection.dir /\ inspection'.calls = inspection.calls
      /\ inspection'.seen = inspection.seen
  BY <1>1 DEF Inspected!Fails, TheInspection
<1>3. InspectTyped'
  BY <1>2 DEF InspectInv, InspectTyped
<1>4. Fresh'
  BY <1>2 DEF InspectInv, Fresh, InCalls
<1>5. InspectNumbered' /\ Watched'
  BY <1>2 DEF InspectInv, InspectNumbered, Watched
<1> QED
  BY <1>3, <1>4, <1>5 DEF InspectInv

LEMMA InspectStep == InspectInv /\ [Inspected!Next]_(Inspected!vars) => InspectInv'
<1> SUFFICES ASSUME InspectInv, [Inspected!Next]_(Inspected!vars) PROVE InspectInv'
  OBVIOUS
<1>0. inspection \in TheInspection /\ stop \in {"none", "cancelled", "deadline_exhausted"} /\ read \in Nat
      /\ files \in Nat
      /\ log \in Nat /\ inspections \in Nat
  BY DEF InspectInv, InspectTyped
<1>1. CASE Inspected!Write
  <2>1. InspectTyped'
    BY <1>1, Named DEF InspectInv, Inspected!Write, Inspected!At, InspectTyped, Inspected!subject,
       Inspected!scratch, Inspected!procs, TheInspection
  <2>2. Fresh'
    BY <1>1 DEF InspectInv, Inspected!Write, Inspected!At, InspectTyped, TheInspection, Fresh,
       Inspected!subject, Inspected!scratch, Inspected!procs, InCalls, Inspected!Unsettled, Complete,
       Inspected!Facts, Inspected!Idle
  <2>3. InspectNumbered'
    BY <1>1 DEF InspectInv, Inspected!Write, Inspected!At, InspectTyped, TheInspection, Stamp,
       InspectNumbered, Inspected!subject, Inspected!scratch, Inspected!procs, Inspected!Idle,
       Inspected!Writer
  <2>4. Watched'
    BY <1>1 DEF InspectInv, Inspected!Write, Inspected!At, InspectTyped, TheInspection, Stamp,
       InspectNumbered, Watched, Inspected!subject, Inspected!scratch, Inspected!procs, Inspected!Idle,
       Inspected!Writer
  <2> QED
    BY <2>1, <2>2, <2>3, <2>4 DEF InspectInv
<1>2. CASE Inspected!Logged
  <2>1. InspectTyped'
    BY <1>2, Named DEF InspectInv, Inspected!Logged, Inspected!At, InspectTyped, Inspected!subject,
       Inspected!scratch, Inspected!procs, TheInspection
  <2>2. Fresh'
    BY <1>2 DEF InspectInv, Inspected!Logged, Inspected!At, InspectTyped, TheInspection, Fresh,
       Inspected!subject, Inspected!scratch, Inspected!procs, InCalls, Inspected!Unsettled, Complete,
       Inspected!Facts, Inspected!Idle
  <2>3. InspectNumbered'
    BY <1>2 DEF InspectInv, Inspected!Logged, Inspected!At, InspectTyped, TheInspection, Stamp,
       InspectNumbered, Inspected!subject, Inspected!scratch, Inspected!procs, Inspected!Idle,
       Inspected!Writer
  <2>4. Watched'
    BY <1>2 DEF InspectInv, Inspected!Logged, Inspected!At, InspectTyped, TheInspection, Stamp,
       InspectNumbered, Watched, Inspected!subject, Inspected!scratch, Inspected!procs, Inspected!Idle,
       Inspected!Writer
  <2> QED
    BY <2>1, <2>2, <2>3, <2>4 DEF InspectInv
<1>3. CASE Inspected!Interrupt
  <2>1. InspectTyped'
    BY <1>3, Named DEF InspectInv, Inspected!Interrupt, Inspected!At, InspectTyped, Inspected!subject,
       Inspected!scratch, Inspected!procs, TheInspection
  <2>2. Fresh'
    BY <1>3 DEF InspectInv, Inspected!Interrupt, Inspected!At, InspectTyped, TheInspection, Fresh,
       Inspected!subject, Inspected!scratch, Inspected!procs, InCalls, Inspected!Unsettled, Complete,
       Inspected!Facts, Inspected!Idle
  <2>3. InspectNumbered'
    BY <1>3 DEF InspectInv, Inspected!Interrupt, Inspected!At, InspectTyped, TheInspection, Stamp,
       InspectNumbered, Inspected!subject, Inspected!scratch, Inspected!procs, Inspected!Idle,
       Inspected!Writer
  <2>4. Watched'
    BY <1>3 DEF InspectInv, Inspected!Interrupt, Inspected!At, InspectTyped, TheInspection, Stamp,
       InspectNumbered, Watched, Inspected!subject, Inspected!scratch, Inspected!procs, Inspected!Idle,
       Inspected!Writer
  <2> QED
    BY <2>1, <2>2, <2>3, <2>4 DEF InspectInv
<1>4. CASE \E p \in running : Inspected!Exits(p)
  <2>1. InspectTyped'
    BY <1>4, Named DEF InspectInv, Inspected!Exits, Inspected!At, InspectTyped, Inspected!subject,
       Inspected!scratch, Inspected!procs, TheInspection
  <2>2. Fresh'
    BY <1>4 DEF InspectInv, Inspected!Exits, Inspected!At, InspectTyped, TheInspection, Fresh,
       Inspected!subject, Inspected!scratch, Inspected!procs, InCalls, Inspected!Unsettled, Complete,
       Inspected!Facts, Inspected!Idle
  <2>3. InspectNumbered'
    BY <1>4 DEF InspectInv, Inspected!Exits, Inspected!At, InspectTyped, TheInspection, Stamp,
       InspectNumbered, Inspected!subject, Inspected!scratch, Inspected!procs, Inspected!Idle,
       Inspected!Writer
  <2>4. Watched'
    BY <1>4 DEF InspectInv, Inspected!Exits, Inspected!At, InspectTyped, TheInspection, Stamp,
       InspectNumbered, Watched, Inspected!subject, Inspected!scratch, Inspected!procs, Inspected!Idle,
       Inspected!Writer
  <2> QED
    BY <2>1, <2>2, <2>3, <2>4 DEF InspectInv
<1>5. CASE Inspected!Begin
  <2>1. inspection' = [Inspected!Idle EXCEPT !.pc = "observe", !.dir = <<inspections + 1, 1>>]
        /\ inspections' = inspections + 1 /\ working /\ inspection.pc = "idle"
        /\ UNCHANGED <<files, log, read, stop, working, running, owned, resolved, records, concluded>>
    BY <1>5 DEF Inspected!Begin, Inspected!At, Inspected!subject, Inspected!procs
  <2>2. Inspected!Idle \in TheInspection /\ "observe" \in InspectPlaces /\ <<inspections + 1, 1>> \in Stamp
        /\ inspections + 1 \in Nat
    BY <1>0, Named DEF Stamp
  <2>3. inspection' \in TheInspection /\ inspection'.pc = "observe" /\ inspection'.dir = <<inspections + 1, 1>>
        /\ inspection'.error = "none" /\ inspection'.stage = "verify" /\ inspection'.calls = 0
    BY <2>1, <2>2 DEF TheInspection, Inspected!Idle
  <2>4. InspectTyped'
    BY <2>1, <2>2, <2>3 DEF InspectInv, InspectTyped
  <2>5. Fresh'
    BY <2>1, <2>3 DEF InspectInv, Fresh, InCalls
  <2>6. InspectNumbered' /\ Watched'
    BY <1>0, <2>1, <2>3 DEF InspectInv, InspectNumbered, Watched, InspectTyped, Stamp
  <2> QED
    BY <2>4, <2>5, <2>6 DEF InspectInv
<1>6. CASE Inspected!Observe
  <2>1. InspectTyped'
    BY <1>6, Named DEF InspectInv, Inspected!Observe, Inspected!At, InspectTyped, Inspected!subject,
       Inspected!scratch, Inspected!procs, TheInspection
  <2>2. Fresh'
    BY <1>6 DEF InspectInv, Inspected!Observe, Inspected!At, InspectTyped, TheInspection, Fresh,
       Inspected!subject, Inspected!scratch, Inspected!procs, InCalls, Inspected!Unsettled, Complete,
       Inspected!Facts, Inspected!Idle
  <2>3. InspectNumbered'
    BY <1>6 DEF InspectInv, Inspected!Observe, Inspected!At, InspectTyped, TheInspection, Stamp,
       InspectNumbered, Inspected!subject, Inspected!scratch, Inspected!procs, Inspected!Idle,
       Inspected!Writer
  <2>4. Watched'
    BY <1>6 DEF InspectInv, Inspected!Observe, Inspected!At, InspectTyped, TheInspection, Stamp,
       InspectNumbered, Watched, Inspected!subject, Inspected!scratch, Inspected!procs, Inspected!Idle,
       Inspected!Writer
  <2> QED
    BY <2>1, <2>2, <2>3, <2>4 DEF InspectInv
<1>7. CASE Inspected!Snapshot
  <2>1. working /\ inspection.pc = "snapshot"
        /\ UNCHANGED <<files, log, read, stop, working, inspections, running, owned, resolved, records, concluded>>
    BY <1>7 DEF Inspected!Snapshot, Inspected!At, Inspected!subject, Inspected!procs, Inspected!scratch
  <2>2. CASE stop # "none"
    BY <1>0, <1>7, <2>1, <2>2, Named, Failed DEF Inspected!Snapshot
  <2>3. CASE stop = "none"
    <3>1. inspection' = [inspection EXCEPT !.pc = "capture", !.files = files, !.tries = @ + 1]
          /\ "capture" \in InspectPlaces /\ inspection.tries + 1 \in Nat
      BY <1>0, <1>7, <2>3, Named DEF Inspected!Snapshot, TheInspection
    <3>2. inspection' \in TheInspection /\ inspection'.pc = "capture" /\ inspection'.error = inspection.error
          /\ inspection'.stage = inspection.stage /\ inspection'.dir = inspection.dir
          /\ inspection'.seen = inspection.seen /\ inspection'.calls = inspection.calls
      BY <1>0, <3>1 DEF TheInspection
    <3>3. InspectTyped'
      BY <2>1, <3>2 DEF InspectInv, InspectTyped
    <3>4. Fresh'
      BY <2>1, <3>2 DEF InspectInv, Fresh, InCalls
    <3>5. InspectNumbered' /\ Watched'
      BY <2>1, <3>2 DEF InspectInv, InspectNumbered, Watched
    <3> QED
      BY <3>3, <3>4, <3>5 DEF InspectInv
  <2> QED
    BY <2>2, <2>3
<1>8. CASE Inspected!Capture
  <2>1. working /\ inspection.pc = "capture"
        /\ UNCHANGED <<files, log, read, stop, working, inspections, running, owned, resolved, records, concluded>>
    BY <1>8 DEF Inspected!Capture, Inspected!At, Inspected!subject, Inspected!procs, Inspected!scratch
  <2>2. \/ inspection' = Inspected!Fails("snapshot_unavailable")
        \/ stop # "none" /\ inspection' = Inspected!Fails(stop)
        \/ inspection' = [inspection EXCEPT !.pc = "snapshot"]
        \/ \E v \in inspection.files..files :
             inspection' = [inspection EXCEPT !.pc = "reuse", !.files = v, !.tries = 0]
    BY <1>8 DEF Inspected!Capture
  <2>3. CASE \/ inspection' = Inspected!Fails("snapshot_unavailable")
             \/ stop # "none" /\ inspection' = Inspected!Fails(stop)
    BY <1>0, <2>1, <2>3, Named, Failed
  <2>4. CASE ~ (\/ inspection' = Inspected!Fails("snapshot_unavailable")
                \/ stop # "none" /\ inspection' = Inspected!Fails(stop))
    <3>1. "snapshot" \in InspectPlaces /\ "reuse" \in InspectPlaces /\ inspection.files \in Nat
      BY <1>0, Named DEF TheInspection
    <3> DEFINE Unmoved == inspection' \in TheInspection /\ inspection'.pc \in {"snapshot", "reuse"}
                       /\ inspection'.error = inspection.error /\ inspection'.stage = inspection.stage
                       /\ inspection'.dir = inspection.dir /\ inspection'.seen = inspection.seen
                          /\ inspection'.calls = inspection.calls
    <3>2. Unmoved
      <4>1. CASE inspection' = [inspection EXCEPT !.pc = "snapshot"]
        BY <1>0, <3>1, <4>1 DEF TheInspection
      <4>2. ASSUME NEW v \in inspection.files..files, inspection' = [inspection EXCEPT !.pc = "reuse",
                   !.files = v, !.tries = 0]
            PROVE  Unmoved
        <5>1. v \in Nat
          BY <1>0, <3>1
        <5> QED
          BY <1>0, <3>1, <4>2, <5>1 DEF TheInspection
      <4> QED
        BY <2>2, <2>4, <4>1, <4>2
    <3>3. InspectTyped'
      BY <2>1, <3>2 DEF InspectInv, InspectTyped
    <3>4. Fresh'
      BY <2>1, <3>2 DEF InspectInv, Fresh, InCalls
    <3>5. InspectNumbered' /\ Watched'
      BY <2>1, <3>2 DEF InspectInv, InspectNumbered, Watched
    <3> QED
      BY <3>3, <3>4, <3>5 DEF InspectInv
  <2> QED
    BY <2>3, <2>4
<1>9. CASE Inspected!Reuse
  <2>1. working /\ inspection.pc = "reuse"
        /\ UNCHANGED <<files, log, read, stop, working, inspections, running, owned, resolved, records, concluded>>
    BY <1>9 DEF Inspected!Reuse, Inspected!At, Inspected!subject, Inspected!procs, Inspected!scratch
  <2>2. inspection.error = "none" /\ inspection.stage = "verify" /\ read = inspection.seen
    BY <2>1 DEF InspectInv, Fresh
  <2>3. CASE \E old \in concluded : Inspected!SameInput(old)
    <3>1. PICK old \in concluded : Inspected!SameInput(old)
          /\ inspection' = [inspection EXCEPT !.pc = "clean", !.input = old.input, !.verdicts = old.verdicts]
      BY <1>9, <2>3 DEF Inspected!Reuse
    <3>2. "clean" \in InspectPlaces /\ old.input \in Stamp /\ old.verdicts \in Answers /\ Complete(old.verdicts)
          /\ \A also \in concluded : old.input = also.input => old.verdicts = also.verdicts
      BY Named DEF InspectInv, InspectTyped, Fresh
    <3>3. inspection' \in TheInspection /\ inspection'.pc = "clean" /\ inspection'.input = old.input
          /\ inspection'.verdicts = old.verdicts /\ inspection'.dir = inspection.dir
          /\ inspection'.seen = inspection.seen /\ inspection'.calls = inspection.calls
             /\ inspection'.files = inspection.files
      BY <1>0, <3>1, <3>2 DEF TheInspection
    <3>4. InspectTyped'
      BY <2>1, <3>3 DEF InspectInv, InspectTyped
    <3>5. Fresh'
      BY <2>1, <2>2, <3>1, <3>2, <3>3 DEF InspectInv, Fresh, InCalls, Inspected!SameInput
    <3>6. InspectNumbered' /\ Watched'
      BY <2>1, <3>3 DEF InspectInv, InspectNumbered, Watched
    <3> QED
      BY <3>4, <3>5, <3>6 DEF InspectInv
  <2>4. CASE ~ \E old \in concluded : Inspected!SameInput(old)
    <3>1. inspection' = [inspection EXCEPT !.pc = "next", !.input = <<inspection.files, read>>]
      BY <1>9, <2>4 DEF Inspected!Reuse
    <3>2. "next" \in InspectPlaces /\ <<inspection.files, read>> \in Stamp
      BY <1>0, Named DEF Stamp, TheInspection
    <3>3. inspection' \in TheInspection /\ inspection'.pc = "next"
          /\ inspection'.input = <<inspection.files, read>> /\ inspection'.dir = inspection.dir
          /\ inspection'.stage = inspection.stage
          /\ inspection'.seen = inspection.seen /\ inspection'.calls = inspection.calls
             /\ inspection'.files = inspection.files /\ inspection'.error = inspection.error
      BY <1>0, <3>1, <3>2 DEF TheInspection
    <3>4. InspectTyped'
      BY <2>1, <3>3 DEF InspectInv, InspectTyped
    <3>5. Fresh'
      BY <2>1, <2>2, <2>4, <3>3 DEF InspectInv, Fresh, InCalls, Inspected!SameInput
    <3>6. InspectNumbered' /\ Watched'
      BY <2>1, <3>3 DEF InspectInv, InspectNumbered, Watched
    <3> QED
      BY <3>4, <3>5, <3>6 DEF InspectInv
  <2> QED
    BY <2>3, <2>4
<1>10. CASE Inspected!Launch
  <2>1. working /\ inspection.pc = "next"
        /\ UNCHANGED <<files, log, read, stop, working, inspections, owned, resolved, records, concluded>>
    BY <1>10 DEF Inspected!Launch, Inspected!At, Inspected!subject, Inspected!scratch
  <2>2. /\ inspection.input = <<inspection.files, read>> /\ inspection.error = "none" /\ read = inspection.seen
        /\ \A old \in concluded : old.input # inspection.input
        /\ inspection.stage = "judge" => Inspected!Unsettled(Verified) = {}
        /\ inspection.stage = "rejudge" => Complete(inspection.verdicts)
    BY <2>1 DEF InspectInv, Fresh, InCalls
  <2>3. PICK asks \in Inspected!Questions :
          \/ asks = {} /\ inspection' = [inspection EXCEPT !.pc = "clean"] /\ UNCHANGED running
          \/ stop # "none" /\ inspection' = Inspected!Fails(stop) /\ UNCHANGED running
          \/ inspection' = Inspected!Fails("judge_unavailable") /\ UNCHANGED running
          \/ /\ asks # {}
             /\ inspection' = [inspection EXCEPT !.pc = "own", !.stage = Inspected!Stage, !.asked = asks,
                               !.calls = @ + 1,
                               !.tries = IF Inspected!Stage = "judge" THEN @ + 1 ELSE @]
             /\ running' = running \cup {<<inspection.dir, inspection.calls + 1>>}
    BY <1>10 DEF Inspected!Launch
  <2>4. inspection.stage \in {"verify", "judge", "rejudge"} /\ inspection.stage \in InspectStages
    BY <1>0 DEF TheInspection, InspectStages
  <2>5. CASE /\ \/ stop # "none" /\ inspection' = Inspected!Fails(stop)
                \/ inspection' = Inspected!Fails("judge_unavailable")
             /\ UNCHANGED running
    BY <1>0, <2>1, <2>5, Named, Failed
  <2>6. CASE asks = {} /\ inspection' = [inspection EXCEPT !.pc = "clean"] /\ UNCHANGED running
    <3>1. Complete(inspection.verdicts)
      <4>1. CASE inspection.stage = "verify"
        <5>1. Inspected!Unsettled(Verified) = {}
          BY <2>6, <4>1 DEF Inspected!Questions
        <5>2. Inspected!Unsettled(Judged) = {}
          BY <2>6, <4>1, <5>1 DEF Inspected!Questions
        <5> QED
          BY <5>1, <5>2 DEF Complete, Inspected!Facts, Inspected!Unsettled
      <4>2. CASE inspection.stage = "judge"
        <5>1. Inspected!Unsettled(Judged) = {}
          BY <2>6, <4>2 DEF Inspected!Questions
        <5> QED
          BY <2>2, <4>2, <5>1 DEF Complete, Inspected!Facts, Inspected!Unsettled
      <4> QED
        BY <2>2, <2>4, <4>1, <4>2
    <3>2. "clean" \in InspectPlaces
      BY Named
    <3>3. inspection' \in TheInspection /\ inspection'.pc = "clean" /\ inspection'.input = inspection.input
          /\ inspection'.verdicts = inspection.verdicts /\ inspection'.dir = inspection.dir
          /\ inspection'.seen = inspection.seen /\ inspection'.calls = inspection.calls
             /\ inspection'.files = inspection.files
      BY <1>0, <2>6, <3>2 DEF TheInspection
    <3>4. InspectTyped'
      BY <2>1, <3>3 DEF InspectInv, InspectTyped
    <3>5. Fresh'
      BY <2>1, <2>2, <3>1, <3>3 DEF InspectInv, Fresh, InCalls
    <3>6. InspectNumbered' /\ Watched'
      BY <2>1, <2>6, <3>3 DEF InspectInv, InspectNumbered, Watched
    <3> QED
      BY <3>4, <3>5, <3>6 DEF InspectInv
  <2>7. CASE /\ asks # {}
             /\ inspection' = [inspection EXCEPT !.pc = "own", !.stage = Inspected!Stage, !.asked = asks,
                               !.calls = @ + 1,
                               !.tries = IF Inspected!Stage = "judge" THEN @ + 1 ELSE @]
             /\ running' = running \cup {<<inspection.dir, inspection.calls + 1>>}
    <3>1. Inspected!Stage \in InspectStages /\ asks \in SUBSET Inspected!Facts /\ "own" \in InspectPlaces
      BY <2>4, Named DEF Inspected!Stage, Inspected!Questions, Inspected!Facts, Inspected!Unsettled,
         Inspected!Unclear
    <3>2. (IF Inspected!Stage = "judge" THEN inspection.tries + 1 ELSE inspection.tries) \in Nat
          /\ inspection.calls + 1 \in Nat /\ inspection.calls \in Nat /\ inspection.dir \in Stamp
      BY <1>0 DEF TheInspection
    <3>3. inspection' \in TheInspection /\ inspection'.pc = "own" /\ inspection'.input = inspection.input
          /\ inspection'.verdicts = inspection.verdicts /\ inspection'.dir = inspection.dir
          /\ inspection'.seen = inspection.seen /\ inspection'.calls = inspection.calls + 1
             /\ inspection'.files = inspection.files /\ inspection'.stage = Inspected!Stage
             /\ inspection'.asked = asks
          /\ inspection'.error = inspection.error
      BY <1>0, <2>7, <3>1, <3>2 DEF TheInspection
    <3>4. Inspected!Stage = "judge" => Inspected!Unsettled(Verified) = {} /\ asks = Inspected!Unsettled(Judged)
      BY <2>2, <2>4 DEF Inspected!Stage, Inspected!Questions
    <3>5. Inspected!Stage = "rejudge" => inspection.stage = "rejudge"
      BY DEF Inspected!Stage
    <3>6. InspectTyped'
      BY <2>1, <3>3 DEF InspectInv, InspectTyped
    <3>7. Inspected!Unsettled(Verified)' = Inspected!Unsettled(Verified)
          /\ Inspected!Unsettled(Judged)' = Inspected!Unsettled(Judged)
      BY <3>3 DEF Inspected!Unsettled
    <3>8. Fresh'
      BY <2>1, <2>2, <3>3, <3>4, <3>5, <3>7 DEF InspectInv, Fresh, InCalls
    <3>9. \A p \in owned : p # <<inspection.dir, inspection.calls + 1>>
      BY <2>1, <3>2 DEF InspectInv, InspectNumbered, InspectTyped, Stamp
    <3>10. InspectNumbered'
      BY <2>1, <3>2, <3>3 DEF InspectInv, InspectNumbered, InspectTyped, Stamp
    <3>11. Watched'
      BY <2>1, <2>7, <3>3, <3>9 DEF InspectInv, Watched
    <3> QED
      BY <3>6, <3>8, <3>10, <3>11 DEF InspectInv
  <2> QED
    BY <2>3, <2>5, <2>6, <2>7
<1>11. CASE Inspected!Own
  <2>1. working /\ inspection.pc = "own"
        /\ UNCHANGED <<files, log, read, stop, working, inspections, running, records, concluded>>
        /\ owned' = owned \cup {Inspected!Writer} /\ resolved' = FALSE
           /\ inspection' = [inspection EXCEPT !.pc = "calling"]
    BY <1>11 DEF Inspected!Own, Inspected!At, Inspected!subject, Inspected!scratch
  <2>2. inspection.calls \in Nat /\ inspection.dir \in Stamp /\ inspection.dir[1] \in Nat
        /\ inspection.dir[2] \in Nat /\ "calling" \in InspectPlaces
    BY <1>0, Named DEF TheInspection, Stamp
  <2>3. inspection' \in TheInspection /\ inspection'.pc = "calling" /\ inspection'.input = inspection.input
        /\ inspection'.verdicts = inspection.verdicts /\ inspection'.dir = inspection.dir
        /\ inspection'.seen = inspection.seen /\ inspection'.calls = inspection.calls
           /\ inspection'.files = inspection.files /\ inspection'.stage = inspection.stage
           /\ inspection'.asked = inspection.asked
        /\ inspection'.error = inspection.error
    BY <1>0, <2>1, <2>2 DEF TheInspection
  <2>4. Inspected!Writer \in Stamp \X Nat /\ Inspected!Writer' = Inspected!Writer
        /\ Inspected!Writer[1] = inspection.dir /\ Inspected!Writer[2] = inspection.calls
    BY <2>2, <2>3 DEF Inspected!Writer
  <2>5. InspectTyped'
    BY <2>1, <2>3, <2>4 DEF InspectInv, InspectTyped
  <2>6. Fresh'
    BY <2>1, <2>3 DEF InspectInv, Fresh, InCalls, Inspected!Unsettled
  <2>7. InspectNumbered'
    BY <2>1, <2>2, <2>3, <2>4 DEF InspectInv, InspectNumbered, InspectTyped, Stamp
  <2>8. Watched'
    BY <2>1, <2>3, <2>4 DEF InspectInv, Watched
  <2> QED
    BY <2>5, <2>6, <2>7, <2>8 DEF InspectInv
<1>12. CASE Inspected!CallEnds
  <2>1. working /\ inspection.pc = "calling"
        /\ UNCHANGED <<files, log, read, stop, working, inspections, owned, resolved, concluded>>
    BY <1>12 DEF Inspected!CallEnds, Inspected!At, Inspected!subject
  <2>2. PICK answer \in {Inspected!NoVerdicts} \cup [inspection.asked -> CallVerdicts], survives \in BOOLEAN :
          /\ running' = IF survives THEN running ELSE running \ {Inspected!Writer}
          /\ records' = records \cup {[of |-> Inspected!Writer, stopped |-> ~ survives]}
          /\ inspection' = [inspection EXCEPT !.pc = IF inspection.stage = "verify"
             /\ stop = "cancelled" THEN "abort" ELSE "retain",
                            !.answer = [f \in Inspected!Facts |-> IF f \in DOMAIN answer THEN answer[f] ELSE "none"],
                            !.survives = survives]
    BY <1>12 DEF Inspected!CallEnds
  <2>3. /\ inspection.calls \in Nat /\ inspection.dir \in Stamp /\ "abort" \in InspectPlaces
        /\ "retain" \in InspectPlaces
        /\ [f \in Inspected!Facts |-> IF f \in DOMAIN answer THEN answer[f] ELSE "none"] \in Answers
    <3>1. inspection.calls \in Nat /\ inspection.dir \in Stamp /\ "abort" \in InspectPlaces
          /\ "retain" \in InspectPlaces
      BY <1>0, Named DEF TheInspection
    <3>2. CASE answer = Inspected!NoVerdicts
      BY <3>1, <3>2 DEF Inspected!NoVerdicts, Answers, Outcome
    <3>3. CASE answer \in [inspection.asked -> CallVerdicts]
      BY <3>1, <3>3 DEF Answers, Outcome
    <3> QED
      BY <3>2, <3>3
  <2>4. inspection' \in TheInspection /\ inspection'.pc \in {"abort", "retain"}
        /\ inspection'.input = inspection.input /\ inspection'.verdicts = inspection.verdicts
        /\ inspection'.dir = inspection.dir
        /\ inspection'.seen = inspection.seen /\ inspection'.calls = inspection.calls
           /\ inspection'.files = inspection.files /\ inspection'.stage = inspection.stage
           /\ inspection'.asked = inspection.asked
        /\ inspection'.error = inspection.error
    BY <1>0, <2>2, <2>3 DEF TheInspection
  <2>5. Inspected!Writer \in Stamp \X Nat
    BY <2>3 DEF Inspected!Writer
  <2>6. InspectTyped'
    BY <2>1, <2>2, <2>4, <2>5 DEF InspectInv, InspectTyped
  <2>7. Fresh'
    BY <2>1, <2>4 DEF InspectInv, Fresh, InCalls, Inspected!Unsettled
  <2>8. InspectNumbered'
    BY <2>1, <2>4 DEF InspectInv, InspectNumbered
  <2>9. Watched'
    <3> SUFFICES ASSUME NEW p \in (owned \cap running)' PROVE \E r \in records' : r.of = p /\ ~ r.stopped
      BY <2>1, <2>2 DEF InspectInv, Watched
    <3>1. p \in owned \cap running /\ (p = Inspected!Writer => survives)
      BY <2>1, <2>2
    <3>2. CASE p = Inspected!Writer
      <4>1. [of |-> Inspected!Writer, stopped |-> ~ survives] \in records'
        BY <2>2
      <4> QED
        BY <3>1, <3>2, <4>1
    <3>3. CASE p # Inspected!Writer
      BY <2>1, <2>2, <3>1, <3>3 DEF InspectInv, Watched
    <3> QED
      BY <3>2, <3>3
  <2> QED
    BY <2>6, <2>7, <2>8, <2>9 DEF InspectInv
<1>13. CASE Inspected!Retain
  <2>1. working /\ inspection.pc = "retain"
        /\ UNCHANGED <<files, log, read, stop, working, inspections, running, owned, resolved, records, concluded>>
    BY <1>13 DEF Inspected!Retain, Inspected!At, Inspected!subject, Inspected!scratch, Inspected!procs
  <2>2. \/ inspection' = Inspected!Fails("OSError")
        \/ inspection' = Inspected!Fails("verifier_cleanup_failed")
        \/ inspection' = Inspected!Fails("judge_cleanup_failed")
        \/ inspection' = Inspected!Fails("harness_error") \/ inspection' = Inspected!Settled
    BY <1>13 DEF Inspected!Retain
  <2>3. CASE inspection' # Inspected!Settled
    BY <2>1, <2>2, <2>3, Named, Failed
  <2>4. CASE inspection' = Inspected!Settled
    <3> DEFINE answered == {f \in inspection.asked : inspection.answer[f] # "none"}
               merged == [f \in Inspected!Facts |->
                             IF f \in answered THEN inspection.answer[f] ELSE inspection.verdicts[f]]
    <3>1. /\ inspection.input = <<inspection.files, read>> /\ inspection.error = "none"
          /\ read = inspection.seen
          /\ \A old \in concluded : old.input # inspection.input
          /\ inspection.stage = "judge" => Inspected!Unsettled(Verified) = {}
             /\ inspection.asked = Inspected!Unsettled(Judged)
          /\ inspection.stage = "rejudge" => Complete(inspection.verdicts)
      BY <2>1 DEF InspectInv, Fresh, InCalls
    <3>2. inspection.stage \in {"verify", "judge", "rejudge"} /\ inspection.answer \in Answers
          /\ inspection.verdicts \in Answers /\ inspection.asked \subseteq Inspected!Facts
      BY <1>0 DEF TheInspection, InspectStages
    <3>3. merged \in Answers /\ Inspected!NoVerdicts \in Answers /\ {} \in SUBSET Inspected!Facts
      BY <3>2, Named DEF Answers
    <3>4. "next" \in InspectPlaces /\ "clean" \in InspectPlaces /\ "rejudge" \in InspectStages
      BY Named
    <3> DEFINE after == [inspection EXCEPT !.pc = "next", !.answer = Inspected!NoVerdicts, !.asked = {},
                         !.verdicts = merged]
    <3>5. after \in TheInspection /\ after.pc = "next" /\ after.verdicts = merged
          /\ after.input = inspection.input /\ after.dir = inspection.dir
          /\ after.seen = inspection.seen /\ after.calls = inspection.calls /\ after.files = inspection.files
             /\ after.stage = inspection.stage /\ after.error = inspection.error
      <4> HIDE DEF merged
      <4> QED
        BY <1>0, <3>3, <3>4 DEF TheInspection
    <3>6. inspection' = CASE inspection.stage = "verify"  -> after
                 [] inspection.stage = "judge"   -> IF answered = inspection.asked THEN [after EXCEPT !.stage = "rejudge"]
                                           ELSE [after EXCEPT !.verdicts = inspection.verdicts]
                 [] inspection.stage = "rejudge" -> [after EXCEPT !.pc = "clean"]
      BY <2>4 DEF Inspected!Settled
    <3> HIDE DEF after, merged, answered
    <3>7. inspection' \in TheInspection /\ inspection'.input = inspection.input
          /\ inspection'.dir = inspection.dir /\ inspection'.error = inspection.error
          /\ inspection'.seen = inspection.seen /\ inspection'.calls = inspection.calls
             /\ inspection'.files = inspection.files
          /\ \/ inspection.stage = "verify" /\ inspection'.pc = "next" /\ inspection'.stage = "verify"
             \/ inspection.stage = "judge" /\ inspection'.pc = "next" /\ answered = inspection.asked
                /\ inspection'.stage = "rejudge" /\ inspection'.verdicts = merged
             \/ inspection.stage = "judge" /\ inspection'.pc = "next" /\ inspection'.stage = "judge"
                /\ inspection'.verdicts = inspection.verdicts
             \/ inspection.stage = "rejudge" /\ inspection'.pc = "clean" /\ inspection'.stage = "rejudge"
                /\ inspection'.verdicts = merged
      <4>1. CASE inspection.stage = "verify"
        BY <3>5, <3>6, <4>1
      <4>2. CASE inspection.stage = "judge" /\ answered = inspection.asked
        <5>1. inspection' = [after EXCEPT !.stage = "rejudge"]
          BY <3>6, <4>2
        <5> QED
          BY <3>4, <3>5, <4>2, <5>1 DEF TheInspection
      <4>3. CASE inspection.stage = "judge" /\ answered # inspection.asked
        <5>1. inspection' = [after EXCEPT !.verdicts = inspection.verdicts]
          BY <3>6, <4>3
        <5> QED
          BY <3>2, <3>5, <4>3, <5>1 DEF TheInspection
      <4>4. CASE inspection.stage = "rejudge"
        <5>1. inspection' = [after EXCEPT !.pc = "clean"]
          BY <3>6, <4>4
        <5> QED
          BY <3>4, <3>5, <4>4, <5>1 DEF TheInspection
      <4> QED
        BY <3>2, <4>1, <4>2, <4>3, <4>4
    <3>8. inspection.stage = "rejudge" \/ (inspection.stage = "judge" /\ answered = inspection.asked)
          => Complete(merged)
      BY <3>1 DEF Complete, Inspected!Unsettled, Inspected!Facts, merged, answered
    <3>9. inspection'.verdicts = inspection.verdicts
          => Inspected!Unsettled(Verified)' = Inspected!Unsettled(Verified)
      BY DEF Inspected!Unsettled
    <3>10. InspectTyped'
      BY <2>1, <3>7 DEF InspectInv, InspectTyped
    <3>11. Fresh'
      <4>1. CASE inspection'.pc = "next" /\ inspection'.stage = "verify"
        BY <2>1, <3>1, <3>7, <4>1 DEF InspectInv, Fresh, InCalls
      <4>2. CASE inspection'.pc = "next" /\ inspection'.stage = "rejudge"
        <5>1. Complete(inspection'.verdicts)
          BY <3>7, <3>8, <4>2
        <5> QED
          BY <2>1, <3>1, <3>7, <4>2, <5>1 DEF InspectInv, Fresh, InCalls
      <4>3. CASE inspection'.pc = "next" /\ inspection'.stage = "judge"
        BY <2>1, <3>1, <3>7, <3>9, <4>3 DEF InspectInv, Fresh, InCalls
      <4>4. CASE inspection'.pc = "clean"
        <5>1. inspection.stage = "rejudge" /\ inspection'.verdicts = merged
          BY <3>7, <4>4
        <5>2. Complete(inspection'.verdicts)
          BY <3>8, <5>1 DEF Complete
        <5> QED
          BY <2>1, <3>1, <3>7, <4>4, <5>2 DEF InspectInv, Fresh, InCalls
      <4> QED
        BY <3>7, <4>1, <4>2, <4>3, <4>4
    <3>12. InspectNumbered' /\ Watched'
      BY <2>1, <3>7 DEF InspectInv, InspectNumbered, Watched
    <3> QED
      BY <3>10, <3>11, <3>12 DEF InspectInv
  <2> QED
    BY <2>3, <2>4
<1>14. CASE Inspected!Abort
  <2>1. InspectTyped'
    BY <1>14, Named DEF InspectInv, Inspected!Abort, Inspected!Leaves, Inspected!At, InspectTyped,
       Inspected!subject, Inspected!scratch, Inspected!procs, TheInspection
  <2>2. Fresh'
    BY <1>14 DEF InspectInv, Inspected!Abort, Inspected!Leaves, Inspected!At, InspectTyped, TheInspection,
       Fresh, Inspected!subject, Inspected!scratch, Inspected!procs, InCalls, Inspected!Unsettled, Complete,
       Inspected!Facts, Inspected!Idle
  <2>3. InspectNumbered'
    BY <1>14 DEF InspectInv, Inspected!Abort, Inspected!Leaves, Inspected!At, InspectTyped, TheInspection,
       Stamp, InspectNumbered, Inspected!subject, Inspected!scratch, Inspected!procs, Inspected!Idle,
       Inspected!Writer
  <2>4. Watched'
    BY <1>14 DEF InspectInv, Inspected!Abort, Inspected!Leaves, Inspected!At, InspectTyped, TheInspection,
       Stamp, InspectNumbered, Watched, Inspected!subject, Inspected!scratch, Inspected!procs, Inspected!Idle,
       Inspected!Writer
  <2> QED
    BY <2>1, <2>2, <2>3, <2>4 DEF InspectInv
<1>15. CASE Inspected!Clean
  <2>1. working /\ inspection.pc = "clean"
        /\ UNCHANGED <<files, log, read, stop, working, inspections, running, owned, resolved, records, concluded>>
        /\ \/ inspection' = [inspection EXCEPT !.pc = "after"]
           \/ inspection' = [inspection EXCEPT !.pc = "after",
                             !.error = IF @ = "none" THEN "inspection_cleanup_failed" ELSE @]
    BY <1>15 DEF Inspected!Clean, Inspected!At, Inspected!subject, Inspected!procs
  <2>2. "after" \in InspectPlaces /\ "inspection_cleanup_failed" \in InspectErrors
    BY Named
  <2>3. inspection' \in TheInspection /\ inspection'.pc = "after" /\ inspection'.input = inspection.input
        /\ inspection'.verdicts = inspection.verdicts /\ inspection'.dir = inspection.dir
        /\ inspection'.seen = inspection.seen /\ inspection'.calls = inspection.calls
           /\ inspection'.files = inspection.files
        /\ (inspection'.error = "none" => inspection.error = "none")
    BY <1>0, <2>1, <2>2 DEF TheInspection
  <2>4. InspectTyped'
    BY <2>1, <2>3 DEF InspectInv, InspectTyped
  <2>5. Fresh'
    BY <2>1, <2>3 DEF InspectInv, Fresh, InCalls
  <2>6. InspectNumbered' /\ Watched'
    BY <2>1, <2>3 DEF InspectInv, InspectNumbered, Watched
  <2> QED
    BY <2>4, <2>5, <2>6 DEF InspectInv
<1>16. CASE Inspected!After
  <2>1. working /\ inspection.pc = "after" /\ read' = log
        /\ UNCHANGED <<files, log, stop, inspections, running, owned, resolved, records>>
    BY <1>16 DEF Inspected!After, Inspected!At, Inspected!subject, Inspected!procs, Inspected!scratch
  <2>2. read = inspection.seen /\ inspection.dir \in Stamp /\ inspection.dir[1] = inspections
        /\ inspection.dir[2] + 1 \in Nat /\ inspection.dir[2] \in Nat
    BY <1>0, <2>1 DEF InspectInv, Fresh, InspectNumbered, TheInspection, Stamp
  <2>3. CASE /\ log = inspection.seen /\ inspection.error = "none"
             /\ concluded' = concluded \cup {[number |-> inspections, input |-> inspection.input,
                                              verdicts |-> inspection.verdicts]}
             /\ inspection' = Inspected!Idle /\ UNCHANGED working
    <3>1. inspection.input \in Stamp /\ inspection.verdicts \in Answers /\ Complete(inspection.verdicts)
          /\ \A old \in concluded : old.input = inspection.input => old.verdicts = inspection.verdicts
      BY <1>0, <2>1, <2>3 DEF InspectInv, Fresh, TheInspection
    <3>2. inspection' \in TheInspection /\ inspection'.pc = "idle" /\ inspection'.error = "none"
          /\ inspection'.stage = "verify"
      BY <2>3, Named DEF Inspected!Idle
    <3>3. InspectTyped'
      BY <1>0, <2>1, <2>3, <3>1, <3>2 DEF InspectInv, InspectTyped
    <3>4. Fresh'
      BY <2>1, <2>3, <3>1, <3>2 DEF InspectInv, Fresh, InCalls
    <3>5. InspectNumbered' /\ Watched'
      BY <2>1, <2>3, <3>2 DEF InspectInv, InspectNumbered, Watched
    <3> QED
      BY <3>3, <3>4, <3>5 DEF InspectInv
  <2>4. CASE /\ inspection' = [Inspected!Idle EXCEPT !.pc = "observe",
                               !.dir = <<inspections, inspection.dir[2] + 1>>]
             /\ UNCHANGED <<working, concluded>>
    <3>1. <<inspections, inspection.dir[2] + 1>> \in Stamp /\ "observe" \in InspectPlaces
          /\ Inspected!Idle \in TheInspection
      BY <1>0, <2>2, Named DEF Stamp
    <3>2. inspection' \in TheInspection /\ inspection'.pc = "observe" /\ inspection'.error = "none"
          /\ inspection'.stage = "verify" /\ inspection'.dir = <<inspections, inspection.dir[2] + 1>>
      BY <2>4, <3>1 DEF TheInspection, Inspected!Idle
    <3>3. InspectTyped'
      BY <1>0, <2>1, <2>4, <3>2 DEF InspectInv, InspectTyped
    <3>4. Fresh'
      BY <2>1, <2>4, <3>2 DEF InspectInv, Fresh, InCalls
    <3>5. InspectNumbered'
      BY <1>0, <2>1, <2>2, <2>4, <3>2 DEF InspectInv, InspectNumbered, InspectTyped, Stamp
    <3>6. Watched'
      BY <2>1, <2>4, <3>2 DEF InspectInv, Watched
    <3> QED
      BY <3>3, <3>4, <3>5, <3>6 DEF InspectInv
  <2>5. CASE working' = FALSE /\ inspection' = Inspected!Idle /\ UNCHANGED concluded
    <3>1. inspection' \in TheInspection /\ inspection'.pc = "idle" /\ inspection'.error = "none"
          /\ inspection'.stage = "verify"
      BY <2>5, Named DEF Inspected!Idle
    <3>2. InspectTyped'
      BY <1>0, <2>1, <2>5, <3>1 DEF InspectInv, InspectTyped
    <3>3. Fresh'
      BY <2>1, <2>5, <3>1 DEF InspectInv, Fresh, InCalls
    <3>4. InspectNumbered' /\ Watched'
      BY <2>1, <2>5, <3>1 DEF InspectInv, InspectNumbered, Watched
    <3> QED
      BY <3>2, <3>3, <3>4 DEF InspectInv
  <2> QED
    BY <1>16, <2>3, <2>4, <2>5 DEF Inspected!After, Inspected!Leaves
<1>17. CASE Inspected!Crash
  <2>1. InspectTyped'
    BY <1>17, Named DEF InspectInv, Inspected!Crash, Inspected!Leaves, Inspected!Fault, Inspected!At,
       InspectTyped, Inspected!subject, Inspected!scratch, Inspected!procs, TheInspection
  <2>2. Fresh'
    BY <1>17 DEF InspectInv, Inspected!Crash, Inspected!Leaves, Inspected!Fault, Inspected!At, InspectTyped,
       TheInspection, Fresh, Inspected!subject, Inspected!scratch, Inspected!procs, InCalls,
       Inspected!Unsettled, Complete, Inspected!Facts, Inspected!Idle
  <2>3. InspectNumbered'
    BY <1>17 DEF InspectInv, Inspected!Crash, Inspected!Leaves, Inspected!Fault, Inspected!At, InspectTyped,
       TheInspection, Stamp, InspectNumbered, Inspected!subject, Inspected!scratch, Inspected!procs,
       Inspected!Idle, Inspected!Writer
  <2>4. Watched'
    BY <1>17 DEF InspectInv, Inspected!Crash, Inspected!Leaves, Inspected!Fault, Inspected!At, InspectTyped,
       TheInspection, Stamp, InspectNumbered, Watched, Inspected!subject, Inspected!scratch, Inspected!procs,
       Inspected!Idle, Inspected!Writer
  <2> QED
    BY <2>1, <2>2, <2>3, <2>4 DEF InspectInv
<1>18. CASE Inspected!StopOwned
  <2>1. InspectTyped'
    BY <1>18, Named DEF InspectInv, Inspected!StopOwned, Inspected!At, InspectTyped, Inspected!subject,
       Inspected!scratch, Inspected!procs, TheInspection
  <2>2. Fresh'
    BY <1>18 DEF InspectInv, Inspected!StopOwned, Inspected!At, InspectTyped, TheInspection, Fresh,
       Inspected!subject, Inspected!scratch, Inspected!procs, InCalls, Inspected!Unsettled, Complete,
       Inspected!Facts, Inspected!Idle
  <2>3. InspectNumbered'
    BY <1>18 DEF InspectInv, Inspected!StopOwned, Inspected!At, InspectTyped, TheInspection, Stamp,
       InspectNumbered, Inspected!subject, Inspected!scratch, Inspected!procs, Inspected!Idle,
       Inspected!Writer
  <2>4. Watched'
    BY <1>18 DEF InspectInv, Inspected!StopOwned, Inspected!At, InspectTyped, TheInspection, Stamp,
       InspectNumbered, Watched, Inspected!subject, Inspected!scratch, Inspected!procs, Inspected!Idle,
       Inspected!Writer
  <2> QED
    BY <2>1, <2>2, <2>3, <2>4 DEF InspectInv
<1>19. CASE \E dir \in dirs : Inspected!Sweep(dir)
  <2>1. InspectTyped'
    BY <1>19, Named DEF InspectInv, Inspected!Sweep, Inspected!At, InspectTyped, Inspected!subject,
       Inspected!scratch, Inspected!procs, TheInspection
  <2>2. Fresh'
    BY <1>19 DEF InspectInv, Inspected!Sweep, Inspected!At, InspectTyped, TheInspection, Fresh,
       Inspected!subject, Inspected!scratch, Inspected!procs, InCalls, Inspected!Unsettled, Complete,
       Inspected!Facts, Inspected!Idle
  <2>3. InspectNumbered'
    BY <1>19 DEF InspectInv, Inspected!Sweep, Inspected!At, InspectTyped, TheInspection, Stamp,
       InspectNumbered, Inspected!subject, Inspected!scratch, Inspected!procs, Inspected!Idle,
       Inspected!Writer
  <2>4. Watched'
    BY <1>19 DEF InspectInv, Inspected!Sweep, Inspected!At, InspectTyped, TheInspection, Stamp,
       InspectNumbered, Watched, Inspected!subject, Inspected!scratch, Inspected!procs, Inspected!Idle,
       Inspected!Writer
  <2> QED
    BY <2>1, <2>2, <2>3, <2>4 DEF InspectInv
<1>20. CASE UNCHANGED Inspected!vars
  BY <1>20 DEF Inspected!vars, Inspected!scratch, Inspected!procs, InspectInv, InspectTyped, Fresh,
     InspectNumbered, Watched, Inspected!Unsettled, Inspected!Writer
<1> QED
  BY <1>1, <1>2, <1>3, <1>4, <1>5, <1>6, <1>7, <1>8, <1>9, <1>10, <1>11, <1>12, <1>13, <1>14, <1>15, <1>16,
     <1>17, <1>18, <1>19, <1>20 DEF Inspected!Next

\* However the subject, cancellations, crashes and recoveries come between the steps of an inspection: its verdicts are of
\* the files and the log as they are then, equal inputs get equal verdicts, and neither an abort nor the recovery of the run
\* removes a private directory beside a process that the journal names (inspect_workspace).
THEOREM InspectionsStaySound == Inspected!Spec => Inspected!InspectionSound
<1>1. InspectInv /\ [Inspected!Next]_(Inspected!vars)
      => [Inspected!FreshStep /\ Inspected!QuietStep]_(Inspected!vars)
  <2> SUFFICES ASSUME InspectInv, Inspected!Next PROVE Inspected!FreshStep /\ Inspected!QuietStep
    OBVIOUS
  <2>1. Inspected!FreshStep
    <3> SUFFICES ASSUME NEW new \in concluded' \ concluded
                 PROVE  /\ new.input = <<inspection.files, log>> /\ Complete(new.verdicts)
                        /\ \A old \in concluded : old.input = new.input => old.verdicts = new.verdicts
      BY DEF Inspected!FreshStep, Complete
    <3>1. Inspected!After
      BY DEF Inspected!Next, Inspected!Write, Inspected!Logged, Inspected!Interrupt, Inspected!Exits,
         Inspected!Begin, Inspected!Observe, Inspected!Snapshot, Inspected!Capture, Inspected!Reuse,
         Inspected!Launch, Inspected!Own, Inspected!CallEnds,
             Inspected!Retain, Inspected!Abort, Inspected!Clean, Inspected!Crash, Inspected!StopOwned,
             Inspected!Sweep
    <3>2. inspection.pc = "after" /\ log = inspection.seen /\ inspection.error = "none"
          /\ new = [number |-> inspections, input |-> inspection.input, verdicts |-> inspection.verdicts]
      BY <3>1 DEF Inspected!After, Inspected!At
    <3> QED
      BY <3>2 DEF InspectInv, Fresh
  <2>2. Inspected!QuietStep
    <3> SUFFICES ASSUME Inspected!At("abort") \/ ~ working, NEW dir \in dirs \ dirs',
                        NEW p \in owned \cap running, p[1] = dir
                 PROVE  FALSE
      BY DEF Inspected!QuietStep
    <3>1. (Inspected!Abort /\ dir = inspection.dir
          /\ Inspected!StoppedIn(inspection.dir)) \/ Inspected!Sweep(dir)
      BY DEF Inspected!Next, Inspected!Write, Inspected!Logged, Inspected!Interrupt, Inspected!Exits,
         Inspected!Begin, Inspected!Observe, Inspected!Snapshot, Inspected!Capture, Inspected!Reuse,
         Inspected!Launch, Inspected!Own, Inspected!CallEnds,
             Inspected!Retain, Inspected!Abort, Inspected!Clean, Inspected!After, Inspected!Crash,
             Inspected!StopOwned, Inspected!Sweep, Inspected!At, Inspected!scratch
    <3>2. CASE Inspected!Abort /\ dir = inspection.dir /\ Inspected!StoppedIn(inspection.dir)
      <4>1. PICK r \in records : r.of = p /\ ~ r.stopped
        BY <3>2 DEF Inspected!Abort, Inspected!At, InspectInv, Watched
      <4> QED
        BY <3>2, <4>1 DEF Inspected!StoppedIn
    <3>3. CASE Inspected!Sweep(dir)
      BY <3>3 DEF Inspected!Sweep, InspectInv, Watched
    <3> QED
      BY <3>1, <3>2, <3>3
  <2> QED
    BY <2>1, <2>2
<1>2. Inspected!Spec => [][Inspected!FreshStep /\ Inspected!QuietStep]_(Inspected!vars)
  BY <1>1, InspectInit, InspectStep, PTL DEF Inspected!Spec
<1> QED
  BY <1>2 DEF Inspected!InspectionSound

-----------------------------------------------------------------------------
(* The turns of an agent (ClaudeTurns). *)

Turned == 1..MaxTurns
TurnsStages == {"idle", "local", "busy", "ended"}
Doings == {"none", "running", "finished", "silent", "handed", "reported"}
TheAdapter == [pending : Nat, held : Nat, count : Int, background : [Turns!Tasks -> Nat]]

TurnsTyped ==
    /\ turn \in Nat /\ turn <= MaxTurns
    /\ phase \in TurnsStages /\ (phase # "idle" => turn # Turns!None)
    /\ task \in [Turns!Tasks -> Doings] /\ by \in [Turns!Tasks -> Nat]
    /\ adapter \in TheAdapter
    /\ final \in [Turned -> {"none", "completed", "aborted"}]

\* The adapter waits for the turn that Claude is in, or for none.
OfThisTurn == adapter.pending \in {Turns!None, turn} /\ adapter.held \in {Turns!None, turn}

\* It tracks every agent of the turn that would make Claude go on.
GoesOn(k) == by[k] = turn /\ task[k] \in {"running", "finished"}
AllTracked == \A k \in Agents : GoesOn(k) => adapter.background[k] # Turns!None

\* Nothing has been launched before the first turn, by a later turn or by a slash command.
Launched == \A k \in Turns!Tasks : /\ turn = Turns!None => task[k] = "none"
                            /\ by[k] <= turn /\ (phase = "local" => by[k] # turn)

TurnsInv == Turns!ConstantsFit /\ TurnsTyped /\ OfThisTurn /\ AllTracked /\ Launched

\* Counting here is counting there.
LEMMA CountTurns ==
    (\A S : Turns!Cardinality(S) = Cardinality(S))
       /\ (Turns!ConstantsFit => IsFiniteSet(Agents) /\ MaxTurns \in Nat)
  BY DEF Turns!ConstantsFit, Turns!Cardinality, Cardinality, Turns!IsFiniteSet, IsFiniteSet

LEMMA NoneUnreported ==
    ASSUME Turns!ConstantsFit, Cardinality(Turns!Unreported) = 0
    PROVE  \A k \in Agents : task[k] \notin {"running", "finished"}
<1>1. IsFiniteSet(Turns!Unreported)
  BY CountTurns, FS_Subset DEF Turns!Unreported
<1>2. Turns!Unreported = {}
  BY <1>1, FS_EmptySet
<1> QED
  BY <1>2 DEF Turns!Unreported

LEMMA Released ==
    ASSUME NEW a \in TheAdapter, NEW b, b = [a EXCEPT !.held = Turns!None, !.count = -1]
    PROVE  b \in TheAdapter /\ b.pending = a.pending /\ b.held = Turns!None /\ b.background = a.background
<1>1. b = [pending |-> a.pending, held |-> 0, count |-> -1, background |-> a.background]
  BY DEF TheAdapter, Turns!None
<1>2. -1 \in Int
  OBVIOUS
<1> QED
  BY <1>1, <1>2 DEF TheAdapter, Turns!None

LEMMA CountLeft ==
    ASSUME NEW a \in TheAdapter, NEW c \in Int
    PROVE  LET b == [[a EXCEPT !.count = c] EXCEPT !.pending = Turns!None] IN
           b \in TheAdapter /\ b.pending = Turns!None /\ b.held = a.held /\ b.background = a.background
BY DEF TheAdapter, Turns!None

LEMMA TurnsInit == Turns!ConstantsFit /\ Turns!Init => TurnsInv
<1> SUFFICES ASSUME Turns!ConstantsFit, Turns!Init PROVE TurnsInv
  OBVIOUS
<1> USE DEF Turns!Init, Turns!NewAdapter, Turns!None
<1>1. TurnsTyped
  BY DEF TurnsTyped, TheAdapter, Turned, TurnsStages, Doings, Turns!ConstantsFit
<1>2. OfThisTurn /\ AllTracked /\ Launched
  BY DEF OfThisTurn, AllTracked, GoesOn, Launched, Turns!Tasks
<1> QED
  BY <1>1, <1>2 DEF TurnsInv

LEMMA TurnsStep == TurnsInv /\ [Turns!Next]_(Turns!vars) => TurnsInv'
<1> SUFFICES ASSUME TurnsInv, [Turns!Next]_(Turns!vars) PROVE TurnsInv'
  OBVIOUS
<1> USE DEF TurnsInv, TurnsTyped, OfThisTurn, AllTracked, GoesOn, Launched, TheAdapter, Turned, TurnsStages,
       Doings, Turns!None,
            Turns!ConstantsFit
<1>0. Turns!Unreported \subseteq Agents /\ IsFiniteSet(Turns!Unreported)
      /\ Cardinality(Turns!Unreported) \in Nat /\ Turns!Reported \in Int
  <2>1. Turns!Unreported \subseteq Agents BY DEF Turns!Unreported
  <2>2. IsFiniteSet(Turns!Unreported) BY <2>1, CountTurns, FS_Subset
  <2>3. Cardinality(Turns!Unreported) \in Nat BY <2>2, FS_CardinalityType
  <2> QED BY <2>1, <2>2, <2>3, CountTurns DEF Turns!Reported
<1>1. CASE Turns!Submit
  <2>1. turn' = turn + 1 /\ phase' \in {"busy", "local"} /\ UNCHANGED <<by, task, final>>
        /\ adapter' = Turns!NewAdapter /\ turn < MaxTurns
    BY <1>1 DEF Turns!Submit
  <2>2. TurnsTyped'
    BY <2>1 DEF Turns!NewAdapter
  <2>3. \A k \in Turns!Tasks : by'[k] # turn' /\ by'[k] <= turn'
    BY <2>1
  <2>4. AllTracked'
    BY <2>3 DEF Turns!Tasks
  <2>5. Launched'
    BY <2>1, <2>3
  <2> QED
    BY <2>1, <2>2, <2>4, <2>5 DEF Turns!NewAdapter
<1>2. CASE Turns!LocalOutput
  BY <1>2 DEF Turns!LocalOutput, Turns!Observed
<1>3. ASSUME NEW k \in Turns!Tasks, Turns!Launch(k) PROVE TurnsInv'
  <2>1. /\ phase = "busy" /\ task' = [task EXCEPT ![k] = "running"] /\ by' = [by EXCEPT ![k] = turn]
        /\ adapter' = [adapter EXCEPT !.pending = Turns!None, !.background[k] = turn]
        /\ UNCHANGED <<turn, phase, excused, final>>
    BY <1>3 DEF Turns!Launch
  <2>2. TurnsTyped'
    BY <2>1
  <2>3. adapter'.background = [adapter.background EXCEPT ![k] = turn]
    BY <2>1
  <2>4. AllTracked'
    BY <2>1, <2>3 DEF Turns!Tasks
  <2>5. OfThisTurn' /\ Launched'
    BY <2>1
  <2> QED
    BY <2>2, <2>4, <2>5
<1>4. ASSUME NEW k \in Turns!Tasks, Turns!TaskStop(k) PROVE TurnsInv'
  BY <1>4 DEF Turns!TaskStop, Turns!Forget, Turns!Tasks
<1>5. CASE Turns!EndTurn
  BY <1>5 DEF Turns!EndTurn
<1>6. ASSUME NEW prevented \in BOOLEAN, Turns!Hook(prevented) PROVE TurnsInv'
  BY <1>6 DEF Turns!Hook
<1>7. CASE Turns!Duration
  <2>1. phase = "ended" /\ phase' = "idle" /\ UNCHANGED <<by, turn, task, excused>>
    BY <1>7 DEF Turns!Duration
  <2>2. /\ final' \in [Turned -> {"none", "completed", "aborted"}]
        /\ adapter' \in TheAdapter /\ adapter'.background = adapter.background
        /\ adapter'.pending \in {Turns!None, turn} /\ adapter'.held \in {Turns!None, turn}
    <3>1. CASE adapter.pending = Turns!None
      BY <1>7, <3>1 DEF Turns!Duration
    <3>2. CASE adapter.pending # Turns!None /\ Turns!AgentsPending(Turns!Reported)
      <4>1. /\ adapter' = [adapter EXCEPT !.pending = Turns!None, !.held = adapter.pending, !.count = Turns!Reported]
            /\ UNCHANGED final
        BY <1>7, <3>2 DEF Turns!Duration
      <4>2. adapter'.background = adapter.background /\ adapter'.pending = Turns!None /\ adapter'.held = turn
        BY <4>1, <3>2
      <4>3. adapter' \in TheAdapter
        BY <4>1, <1>0
      <4> QED
        BY <4>1, <4>2, <4>3
    <3>3. CASE adapter.pending # Turns!None /\ ~Turns!AgentsPending(Turns!Reported)
      <4>1. /\ adapter' = [adapter EXCEPT !.held = Turns!None, !.count = -1]
            /\ Turns!Observed(adapter.pending, "completed")
        BY <1>7, <3>3 DEF Turns!Duration
      <4>2. final' \in [Turned -> {"none", "completed", "aborted"}]
        BY <4>1 DEF Turns!Observed
      <4> HIDE DEF TheAdapter
      <4>3. /\ adapter' \in TheAdapter /\ adapter'.background = adapter.background
            /\ adapter'.pending = adapter.pending /\ adapter'.held = Turns!None
        BY <4>1, Released
      <4> QED
        BY <4>2, <4>3
    <3> QED
      BY <3>1, <3>2, <3>3
  <2> QED
    BY <2>1, <2>2
<1>8. CASE Turns!Interrupt
  BY <1>8 DEF Turns!Interrupt, Turns!Observed
<1>9. ASSUME NEW k \in Turns!Tasks, Turns!Finish(k) PROVE TurnsInv'
  BY <1>9 DEF Turns!Finish
<1>10. ASSUME NEW k \in Turns!Tasks, Turns!FinishSilently(k) PROVE TurnsInv'
  BY <1>10 DEF Turns!FinishSilently
<1>11. ASSUME NEW k \in Turns!Tasks, Turns!Queued(k) PROVE TurnsInv'
  BY <1>11 DEF Turns!Queued, Turns!Forget, Turns!Tasks
<1>12. ASSUME NEW k \in Turns!Tasks, Turns!Notification(k) PROVE TurnsInv'
  <2>1. /\ phase = "idle" /\ phase' = "busy" /\ task' = [task EXCEPT ![k] = "reported"] /\ task[k] = "finished"
        /\ adapter' = [Turns!Forget(k) EXCEPT !.pending = Turns!None] /\ UNCHANGED <<by, turn, excused, final>>
    BY <1>12 DEF Turns!Notification
  <2>2. /\ adapter' \in TheAdapter /\ adapter'.pending = Turns!None /\ adapter'.held = adapter.held
        /\ adapter'.background = [adapter.background EXCEPT ![k] = Turns!None]
    BY <2>1 DEF Turns!Forget
  <2>3. turn # Turns!None
    BY <2>1
  <2>4. TurnsTyped'
    BY <2>1, <2>2, <2>3
  <2>5. AllTracked'
    BY <2>1, <2>2 DEF Turns!Tasks
  <2> QED
    BY <2>1, <2>2, <2>4, <2>5
<1>13. ASSUME NEW k \in Turns!Tasks, Turns!HandBack(k) PROVE TurnsInv'
  BY <1>13 DEF Turns!HandBack, Turns!Tasks
<1>14. ASSUME NEW k \in Turns!Tasks, Turns!TranscriptOnly(k) PROVE TurnsInv'
  <2> DEFINE left == [Turns!Finished(k) EXCEPT !.pending = Turns!None]
  <2>1. /\ phase = "idle" /\ task[k] = "handed" /\ task' = [task EXCEPT ![k] = "reported"]
        /\ UNCHANGED <<by, turn, phase, excused>> /\ turn # Turns!None
    BY <1>14 DEF Turns!TranscriptOnly
  <2>2. /\ left \in TheAdapter /\ left.pending = Turns!None /\ left.held = adapter.held
        /\ left.background = [adapter.background EXCEPT ![k] = Turns!None]
    <3>1. /\ Turns!Forget(k) \in TheAdapter /\ Turns!Forget(k).held = adapter.held
          /\ Turns!Forget(k).background = [adapter.background EXCEPT ![k] = Turns!None]
      BY DEF Turns!Forget
    <3> HIDE DEF TheAdapter
    <3> DEFINE was == Turns!Forget(k).count
               n == IF was >= 0 /\ k \in Agents /\ adapter.background[k] # Turns!None THEN was - 1 ELSE was
    <3>2. Turns!Finished(k) = [Turns!Forget(k) EXCEPT !.count = n]
      BY DEF Turns!Finished
    <3>3. n \in Int
      BY <3>1 DEF TheAdapter
    <3> HIDE DEF n
    <3>4. left = [[Turns!Forget(k) EXCEPT !.count = n] EXCEPT !.pending = Turns!None]
      BY <3>2
    <3> QED
      BY <3>1, <3>3, <3>4, CountLeft
  <2>3. /\ final' \in [Turned -> {"none", "completed", "aborted"}]
        /\ adapter' \in TheAdapter /\ adapter'.background = [adapter.background EXCEPT ![k] = Turns!None]
        /\ adapter'.pending = Turns!None /\ adapter'.held \in {Turns!None, turn}
    <3>1. CASE adapter' = [Turns!Forget(k) EXCEPT !.pending = Turns!None] /\ UNCHANGED final
      BY <3>1 DEF Turns!Forget
    <3>2. CASE adapter' = left /\ UNCHANGED final
      BY <2>2, <3>2
    <3>3. CASE adapter' = [left EXCEPT !.held = Turns!None, !.count = -1] /\ Turns!Observed(adapter.held,
                                                                                            "completed")
      <4> HIDE DEF left
      <4>1. final' \in [Turned -> {"none", "completed", "aborted"}]
        BY <3>3 DEF Turns!Observed
      <4>2. /\ adapter' \in TheAdapter /\ adapter'.background = left.background
            /\ adapter'.pending = left.pending /\ adapter'.held = Turns!None
        <5> HIDE DEF TheAdapter
        <5> QED BY <2>2, <3>3, Released
      <4> QED
        BY <2>2, <4>1, <4>2
    <3> QED
      BY <1>14, <3>1, <3>2, <3>3 DEF Turns!TranscriptOnly
  <2> QED
    BY <2>1, <2>3 DEF Turns!Tasks
<1>15. CASE UNCHANGED Turns!vars
  BY <1>15 DEF Turns!vars, Turns!claude
<1> QED
  BY <1>1, <1>2, <1>3, <1>4, <1>5, <1>6, <1>7, <1>8, <1>9, <1>10, <1>11, <1>12, <1>13, <1>14, <1>15
     DEF Turns!Next

\* However the agents and shells of a turn go on, finish, are handed back and are notified of: no turn
\* is taken for completed that is not over or that has agents still going on (drivers/claude.py).
THEOREM TurnsAreOver == ASSUME Turns!ConstantsFit PROVE Turns!Spec => [][Turns!OverStep]_(Turns!vars)
<1>1. TurnsInv /\ [Turns!Next]_(Turns!vars) => [Turns!OverStep]_(Turns!vars)
  <2> SUFFICES ASSUME TurnsInv, [Turns!Next]_(Turns!vars), NEW t \in 1..MaxTurns, final[t] = "none",
                      final'[t] = "completed"
               PROVE  /\ t = turn /\ phase' = "idle"
                      /\ \A k \in Agents : by[k] = t => task'[k] \notin {"running", "finished"}
    BY DEF Turns!OverStep
  <2> USE DEF TurnsInv, TurnsTyped, OfThisTurn, AllTracked, GoesOn, Launched, TheAdapter, Turned, TurnsStages,
         Doings, Turns!None
  <2>1. CASE Turns!LocalOutput
    BY <2>1 DEF Turns!LocalOutput, Turns!Observed, Turns!Tasks
  <2>2. CASE Turns!Duration
    <3>1. /\ phase' = "idle" /\ UNCHANGED <<by, turn, task>> /\ ~Turns!AgentsPending(Turns!Reported)
          /\ adapter.pending # Turns!None /\ Turns!Observed(adapter.pending, "completed")
      BY <2>2 DEF Turns!Duration
    <3>2. t = turn
      BY <3>1 DEF Turns!Observed
    <3>3. CASE Counts
      <4>1. Cardinality(Turns!Unreported) \in Nat
        BY CountTurns, FS_Subset, FS_CardinalityType DEF Turns!Unreported
      <4>2. Cardinality(Turns!Unreported) = 0
        BY <3>1, <3>3, <4>1, CountTurns DEF Turns!AgentsPending, Turns!Reported
      <4> QED
        BY <3>1, <3>2, <4>2, NoneUnreported
    <3>4. CASE ~Counts
      <4>1. Turns!Tracked(adapter.background) = {}
        BY <3>1, <3>4 DEF Turns!AgentsPending, Turns!Reported
      <4> QED
        BY <3>1, <3>2, <4>1 DEF Turns!Tracked
    <3> QED
      BY <3>3, <3>4
  <2>3. ASSUME NEW k \in Turns!Tasks, Turns!TranscriptOnly(k)
        PROVE  /\ t = turn /\ phase' = "idle"
               /\ \A j \in Agents : by[j] = t => task'[j] \notin {"running", "finished"}
    <3> DEFINE left == [Turns!Finished(k) EXCEPT !.pending = Turns!None]
    <3>1. /\ phase' = "idle" /\ UNCHANGED <<by, turn>> /\ task' = [task EXCEPT ![k] = "reported"]
          /\ adapter.held # Turns!None /\ Turns!Tracked(left.background) = {}
             /\ Turns!Observed(adapter.held, "completed")
      BY <2>3 DEF Turns!TranscriptOnly
    <3>2. t = turn
      BY <3>1 DEF Turns!Observed
    <3>3. left.background = [adapter.background EXCEPT ![k] = Turns!None]
      BY DEF Turns!Finished, Turns!Forget
    <3>4. \A j \in Agents : j # k => adapter.background[j] = Turns!None
      BY <3>1, <3>3 DEF Turns!Tracked, Turns!Tasks
    <3> QED
      BY <3>1, <3>2, <3>4 DEF Turns!Tasks
  <2>4. ~Turns!Submit /\ ~Turns!EndTurn /\ ~UNCHANGED Turns!vars
    BY DEF Turns!Submit, Turns!EndTurn, Turns!vars
  <2>5. ~Turns!Interrupt
    BY DEF Turns!Interrupt, Turns!Observed
  <2>6. \A prevented \in BOOLEAN : ~Turns!Hook(prevented)
    BY DEF Turns!Hook
  <2>7. \A k \in Turns!Tasks : /\ ~Turns!Launch(k) /\ ~Turns!TaskStop(k) /\ ~Turns!Finish(k)
                              /\ ~Turns!FinishSilently(k) /\ ~Turns!Queued(k)
                            /\ ~Turns!Notification(k) /\ ~Turns!HandBack(k)
    BY DEF Turns!Launch, Turns!TaskStop, Turns!Finish, Turns!FinishSilently, Turns!Queued, Turns!Notification,
       Turns!HandBack
  <2> QED
    BY <2>1, <2>2, <2>3, <2>4, <2>5, <2>6, <2>7 DEF Turns!Next
<1>2. Turns!Init /\ Turns!ConstantsFit => TurnsInv
  BY TurnsInit
<1> QED
  BY <1>1, <1>2, TurnsStep, PTL DEF Turns!Spec

-----------------------------------------------------------------------------
(* Verifier checks and their evidence (CheckEvidence). *)

TwoSides == {"baseline", "reference"}
EvidErrors == {"none", "unchecked", "failed", "unobserved", "verifier_cleanup_failed", "hidden_verifier_changed"}
Executions == [outcome : {"error", "fail", "pass"}, ending : {"none", "exited", "timeout"}, code : {0, 1, 2},
               said : {"nothing", "yes", "no"}, digests : BOOLEAN, error : EvidErrors, whole : BOOLEAN,
               intact : BOOLEAN]
EvidEvidence == [Checked!Files -> {"none", "part", "whole", "stopped", "unresolved"}]
EvidChecked == [exec : Executions, kept : EvidEvidence]

ChecksTyped ==
    /\ fact \in 1..CheckedFacts /\ side \in {1, 2}
    /\ copy \in [Checked!AllSides -> {"none", "partial", "whole"}]
    /\ exec \in Executions /\ kept \in EvidEvidence
    /\ checks \in [1..CheckedFacts -> [Checked!AllSides -> EvidChecked]]

\* What an execution that concluded has for it, the cleanup aside.
Concluded(e, k) ==
    /\ e.digests => k.stdout = "whole" /\ k.stderr = "whole"
    /\ e.outcome # "error" =>
         /\ k.command = "whole" /\ e.digests /\ e.ending = "exited" /\ e.error = "none" /\ e.intact
         /\ \/ e.outcome = "pass" /\ e.code = 0 /\ e.said = "yes"
            \/ e.outcome = "fail" /\ e.code = 1 /\ e.said = "no"
Borne(e, k) == Concluded(e, k) /\ (e.outcome # "error" => k.cleanup = "stopped")

\* The execution in the making, from step to step.
NoneYet == exec.outcome = "error" /\ ~exec.digests
InTheMaking ==
    /\ step \in {"copy", "hidden", "command", "run", "stdout", "stderr", "settle", "capture"} => NoneYet
    /\ step \in {"run", "stdout", "stderr", "settle"} => kept.command = "whole"
    /\ step \in {"stdout", "stderr", "settle"} => exec.error = "none" /\ exec.intact
    /\ step \in {"stderr", "settle"} => kept.stdout = "whole"
    /\ step = "settle" => kept.stderr = "whole"
    /\ step = "cleanup" => Concluded(exec, kept)
    /\ step \in {"recheck", "save"} => Borne(exec, kept)

\* It ran in a whole copy, or in what an earlier check has left of one.
Ran == /\ step \in {"hidden", "command", "run"} => copy[Checked!Side] # "none"
       /\ \/ step \in {"stdout", "stderr", "settle"}
          \/ step \in {"cleanup", "recheck", "save"} /\ exec.outcome # "error"
          => exec.whole \/ copy[Checked!Side] = "partial"

\* The checks before the one under way.
Settled(f, version) == f < fact \/ step \in {"capture", "over"} \/ (f = fact /\ side = 2
   /\ version = "baseline")

BorneOut == \A f \in 1..CheckedFacts, version \in TwoSides : Borne(checks[f][version].exec, checks[f][version].kept)
ResultsKept == step # "over" => \A f \in 1..CheckedFacts, version \in TwoSides : Settled(f, version)
   => checks[f][version].kept.result = "whole"
RanWhole == \A f \in 1..CheckedFacts, version \in TwoSides :
    checks[f][version].exec.outcome # "error" => checks[f][version].exec.whole \/ copy[version] = "partial"

\* What cannot be copied fails one check, at least, of its side.
PartlyCopied == step # "over" => \A version \in TwoSides : copy[version] = "partial" =>
    \/ \E f \in 1..CheckedFacts : Settled(f, version) /\ checks[f][version].exec.outcome = "error"
    \/ version = Checked!Side /\ step \in {"recheck", "save"} /\ exec.outcome = "error"

Steps == {"copy", "hidden", "command", "run", "stdout", "stderr", "settle", "cleanup", "recheck", "save",
          "capture", "over"}
Calibrating ==
    /\ ChecksTyped /\ step \in Steps /\ InTheMaking /\ Ran
    /\ BorneOut /\ ResultsKept /\ RanWhole /\ PartlyCopied
    /\ record = Checked!NoRecord \/ (step = "over" /\ Checked!CheckSound)

Graded == step # "capture" /\ record = Checked!NoRecord
EvidInv == Checked!ConstantsFit /\ IF mode = "calibrate" THEN Calibrating ELSE Graded

LEMMA TheSide == ASSUME mode = "calibrate", side \in {1, 2}
                 PROVE Checked!Side = (IF side = 1 THEN "baseline" ELSE "reference")
                    /\ Checked!Side \in TwoSides /\ Len(Checked!SidesOf) = 2
BY DEF Checked!Side, Checked!SidesOf, TwoSides

LEMMA ErrorBorne == ASSUME NEW k, NEW e \in EvidErrors
                    PROVE /\ Checked!Error(e) \in Executions /\ Checked!Error(e).outcome = "error"
                          /\ ~Checked!Error(e).digests
                          /\ Borne(Checked!Error(e), k) /\ Concluded(Checked!Error(e), k)
<1>1. Checked!Error(e) \in Executions
  BY DEF Checked!Error, Executions, EvidErrors
<1>2. Checked!Error(e).outcome = "error" /\ ~Checked!Error(e).digests
  BY DEF Checked!Error
<1> QED
  BY <1>1, <1>2 DEF Borne, Concluded

LEMMA UncheckedTyped == Checked!NothingKept \in EvidEvidence /\ Checked!Unchecked \in EvidChecked
<1>1. Checked!NothingKept \in EvidEvidence
  BY DEF Checked!NothingKept, EvidEvidence
<1> QED
  BY <1>1, ErrorBorne DEF Checked!Unchecked, EvidChecked, EvidErrors

LEMMA CheckInit == Checked!ConstantsFit /\ Checked!Init => EvidInv
<1> SUFFICES ASSUME Checked!ConstantsFit, Checked!Init PROVE EvidInv
  OBVIOUS
<1>1. CASE mode # "calibrate"
  BY <1>1 DEF Checked!Init, EvidInv, Graded
<1>2. CASE mode = "calibrate"
  <2>1. ChecksTyped
    BY UncheckedTyped, ErrorBorne DEF Checked!Init, ChecksTyped, Checked!ConstantsFit, EvidErrors
  <2>2. InTheMaking /\ Ran
    BY DEF Checked!Init, InTheMaking, NoneYet, Ran, Checked!Error
  <2>3. \A f \in 1..CheckedFacts, version \in TwoSides : checks[f][version] = Checked!Unchecked
    BY DEF Checked!Init, TwoSides, Checked!AllSides
  <2>4. BorneOut /\ RanWhole
    BY <2>3, ErrorBorne DEF BorneOut, RanWhole, Checked!Unchecked, EvidErrors
  <2>5. ResultsKept /\ PartlyCopied
    BY DEF Checked!Init, ResultsKept, PartlyCopied, Settled, TwoSides, Checked!AllSides
  <2> QED
    BY <1>2, <2>1, <2>2, <2>4, <2>5 DEF Checked!Init, EvidInv, Calibrating, Steps
<1> QED
  BY <1>1, <1>2

LEMMA CheckGraded == ASSUME EvidInv, mode # "calibrate", [Checked!Next]_(Checked!vars) PROVE EvidInv'
<1> USE DEF EvidInv, Graded
<1>1. mode' = mode
  BY DEF Checked!Next, Checked!Copy, Checked!Hide, Checked!HiddenInputs, Checked!Command, Checked!Run,
     Checked!Stream, Checked!Settle, Checked!Cleanup, Checked!Recheck, Checked!Save, Checked!Cancel,
     Checked!Capture, Checked!vars
<1>2. step' # "capture" /\ record' = record
  <2>1. CASE \/ Checked!Copy \/ Checked!Hide \/ Checked!Command \/ Checked!Run
             \/ Checked!Settle \/ Checked!Cleanup \/ Checked!Recheck
    BY <2>1 DEF Checked!Copy, Checked!Hide, Checked!HiddenInputs, Checked!Command, Checked!Run,
       Checked!Settle, Checked!Cleanup, Checked!Recheck
  <2>2. CASE Checked!Stream("stdout", "stderr") \/ Checked!Stream("stderr", "settle")
    BY <2>2 DEF Checked!Stream
  <2>3. CASE Checked!Save
    BY <2>3 DEF Checked!Save, Checked!Onward, Checked!Stop
  <2>4. CASE Checked!Cancel \/ Checked!Capture \/ UNCHANGED Checked!vars
    BY <2>4 DEF Checked!Cancel, Checked!Capture, Checked!Stop, Checked!vars
  <2> QED
    BY <2>1, <2>2, <2>3, <2>4 DEF Checked!Next
<1> QED
  BY <1>1, <1>2 DEF Checked!ConstantsFit

\* A step within a check leaves the checks before it alone.
LEMMA ChecksKept ==
    ASSUME Calibrating, mode = "calibrate", UNCHANGED <<mode, fact, side, copy, checks, record>>,
           step \notin {"capture", "over"}, step' \notin {"capture", "over"},
           step \in {"recheck", "save"} /\ exec.outcome = "error" => step' \in {"recheck", "save"}
              /\ exec'.outcome = "error"
    PROVE  /\ BorneOut' /\ ResultsKept' /\ RanWhole' /\ PartlyCopied'
           /\ (record = Checked!NoRecord \/ (step = "over" /\ Checked!CheckSound))'
           /\ Checked!Side' = Checked!Side
<1>1. Checked!Side' = Checked!Side
  BY DEF Checked!Side, Checked!SidesOf
<1>2. \A version, f : Settled(f, version)' <=> Settled(f, version)
  BY DEF Settled
<1>3. BorneOut' /\ RanWhole'
  BY DEF Calibrating, BorneOut, RanWhole
<1>4. ResultsKept' /\ PartlyCopied'
  BY <1>1, <1>2 DEF Calibrating, ResultsKept, PartlyCopied
<1> QED
  BY <1>1, <1>3, <1>4 DEF Calibrating, Checked!NoRecord

LEMMA CheckCopy == ASSUME EvidInv, mode = "calibrate", Checked!Copy PROVE EvidInv'
<1> USE DEF EvidInv, Calibrating, ChecksTyped, InTheMaking, Ran, NoneYet, Checked!ConstantsFit
<1>1. /\ step = "copy" /\ UNCHANGED <<mode, fact, side, hidden, kept, checks, record>>
      /\ Checked!Side' = Checked!Side /\ Checked!Side \in TwoSides /\ Checked!Side \in Checked!AllSides
  BY TheSide DEF Checked!Copy, Checked!Side, Checked!SidesOf, TwoSides, Checked!AllSides
<1>2. CASE UNCHANGED <<copy, exec>> /\ step' = "hidden" /\ copy[Checked!Side] # "none"
  <2>1. ResultsKept' /\ PartlyCopied'
    BY <1>1, <1>2 DEF ResultsKept, PartlyCopied, Settled
  <2> QED
    BY <1>1, <1>2, <2>1 DEF BorneOut, RanWhole, Steps
<1>3. CASE /\ step' = "hidden" /\ copy' = [copy EXCEPT ![Checked!Side] = "whole"] /\ UNCHANGED exec
           /\ copy[Checked!Side] = "none"
  <2>1. ResultsKept' /\ PartlyCopied' /\ RanWhole'
    BY <1>1, <1>3 DEF ResultsKept, PartlyCopied, Settled, RanWhole
  <2> QED
    BY <1>1, <1>3, <2>1 DEF BorneOut, Steps
<1>4. CASE /\ step' = "recheck" /\ exec' = Checked!Error("failed") /\ copy[Checked!Side] = "none"
           /\ \E left \in Checked!Left : copy' = [copy EXCEPT ![Checked!Side] = left]
  <2>1. PICK left \in {"none", "partial"} : copy' = [copy EXCEPT ![Checked!Side] = left]
    BY <1>4 DEF Checked!Left
  <2>2. exec' \in Executions /\ exec'.outcome = "error" /\ Borne(exec', kept')
    BY <1>4, ErrorBorne DEF EvidErrors
  <2>3. ResultsKept'
    BY <1>1, <1>4 DEF ResultsKept, Settled
  <2>4. PartlyCopied'
    BY <1>1, <1>4, <2>1, <2>2 DEF PartlyCopied, Settled, TwoSides, Checked!AllSides
  <2>5. RanWhole'
    BY <1>1, <1>4, <2>1 DEF RanWhole, TwoSides, Checked!AllSides
  <2> QED
    BY <1>1, <1>4, <2>1, <2>2, <2>3, <2>4, <2>5 DEF BorneOut, Steps
<1> QED
  BY <1>1, <1>2, <1>3, <1>4 DEF Checked!Copy, Checked!Materializes

LEMMA CheckInputs == ASSUME EvidInv, mode = "calibrate", Checked!Hide \/ Checked!Recheck PROVE EvidInv'
<1> USE DEF EvidInv, Calibrating, ChecksTyped, InTheMaking, Ran, NoneYet, Checked!ConstantsFit
<1>1. /\ UNCHANGED <<mode, fact, side, copy, kept, checks, record>> /\ step \in {"hidden", "recheck"}
      /\ step' \in {"command", "recheck", "save"}
  BY DEF Checked!Hide, Checked!HiddenInputs, Checked!Recheck
<1>2. CASE Checked!Hide
  <2>1. /\ step = "hidden"
        /\ (step' = "command" /\ UNCHANGED exec) \/ (step' = "recheck" /\ exec' = Checked!Error("failed"))
    BY <1>2 DEF Checked!Hide, Checked!HiddenInputs
  <2>2. exec' \in Executions /\ exec'.outcome = "error" /\ ~exec'.digests
        /\ (step' = "recheck" => Borne(exec', kept'))
    BY <2>1, ErrorBorne DEF EvidErrors
  <2> QED
    BY <1>1, <2>1, <2>2, ChecksKept DEF Steps
<1>3. CASE Checked!Recheck
  <2>1. /\ step = "recheck" /\ step' = "save"
        /\ UNCHANGED exec \/ exec' = [Checked!Tampered(exec) EXCEPT !.intact = FALSE]
    BY <1>3 DEF Checked!Recheck, Checked!HiddenInputs
  <2>2. CASE UNCHANGED exec
    BY <1>1, <2>1, <2>2, ChecksKept DEF Steps
  <2>3. CASE exec' = [Checked!Tampered(exec) EXCEPT !.intact = FALSE]
    <3>1. exec' \in Executions /\ exec'.outcome = "error" /\ exec'.digests = exec.digests
      BY <2>1, <2>3 DEF Checked!Tampered, Executions, EvidErrors, Borne, Concluded
    <3>2. Borne(exec', kept')
      BY <1>1, <2>1, <3>1 DEF Borne, Concluded
    <3> QED
      BY <1>1, <2>1, <3>1, <3>2, ChecksKept DEF Steps
  <2> QED
    BY <2>1, <2>2, <2>3
<1> QED
  BY <1>2, <1>3

LEMMA CheckRun == ASSUME EvidInv, mode = "calibrate", Checked!Command \/ Checked!Run PROVE EvidInv'
<1> USE DEF EvidInv, Calibrating, ChecksTyped, InTheMaking, Ran, NoneYet, Checked!ConstantsFit
<1>1. CASE Checked!Command
  <2>1. /\ UNCHANGED <<mode, fact, side, copy, checks, record>> /\ step = "command"
        /\ kept' \in {kept, [kept EXCEPT !.command = "whole"]}
        /\ \/ step' = "run" /\ kept' = [kept EXCEPT !.command = "whole"] /\ UNCHANGED exec
           \/ step' = "cleanup" /\ exec' = Checked!Error("failed")
    BY <1>1 DEF Checked!Command
  <2>2. exec' \in Executions /\ exec'.outcome = "error" /\ ~exec'.digests /\ Concluded(exec', kept')
        /\ kept' \in EvidEvidence
        /\ (step' = "run" => kept'.command = "whole")
    BY <2>1, ErrorBorne DEF EvidErrors, EvidEvidence, Checked!Files, Concluded
  <2> QED
    BY <2>1, <2>2, ChecksKept DEF Steps
<1>2. CASE Checked!Run
  <2>1. /\ UNCHANGED <<mode, fact, side, copy, kept, checks, record>> /\ step = "run" /\ step' = "stdout"
    BY <1>2 DEF Checked!Run
  <2>2. PICK r \in Checked!Results :
          exec' = [Checked!Error("none") EXCEPT !.ending = r.ending, !.code = r.code, !.said = r.said,
                   !.whole = copy[Checked!Side] = "whole"]
    BY <1>2 DEF Checked!Run
  <2>3. r.ending \in {"exited", "timeout"} /\ r.code \in {0, 1, 2} /\ r.said \in {"yes", "no", "nothing"}
    BY DEF Checked!Results
  <2>4. exec' \in Executions /\ exec'.outcome = "error" /\ ~exec'.digests /\ exec'.error = "none"
        /\ exec'.intact
        /\ exec'.whole = (copy[Checked!Side] = "whole")
    BY <2>2, <2>3 DEF Checked!Error, Executions, EvidErrors
  <2>5. copy[Checked!Side] \in {"partial", "whole"}
    BY <2>1, TheSide DEF TwoSides, Checked!AllSides
  <2> QED
    BY <2>1, <2>4, <2>5, ChecksKept DEF Steps
<1> QED
  BY <1>1, <1>2

LEMMA CheckStreams ==
    ASSUME EvidInv, mode = "calibrate", Checked!Stream("stdout", "stderr") \/ Checked!Stream("stderr", "settle")
    PROVE  EvidInv'
<1> USE DEF EvidInv, Calibrating, ChecksTyped, InTheMaking, Ran, NoneYet, Checked!ConstantsFit
<1>1. PICK name \in {"stdout", "stderr"} :
        /\ UNCHANGED <<mode, fact, side, copy, checks, record>> /\ step = name
        /\ \/ /\ step' = (IF name = "stdout" THEN "stderr" ELSE "settle")
              /\ kept' = [kept EXCEPT ![name] = "whole"] /\ UNCHANGED exec
           \/ /\ step' = "cleanup" /\ exec' = Checked!Error("failed")
              /\ \E left \in {"none", "part"} : kept' = [kept EXCEPT ![name] = left]
  BY DEF Checked!Stream
<1>2. CASE /\ step' = (IF name = "stdout" THEN "stderr" ELSE "settle")
           /\ kept' = [kept EXCEPT ![name] = "whole"] /\ UNCHANGED exec
  <2>1. kept' \in EvidEvidence /\ kept'.command = kept.command
        /\ (name = "stderr" => kept'.stdout = kept.stdout)
        /\ kept'[name] = "whole"
    BY <1>2 DEF EvidEvidence, Checked!Files
  <2> QED
    BY <1>1, <1>2, <2>1, ChecksKept DEF Steps
<1>3. CASE /\ step' = "cleanup" /\ exec' = Checked!Error("failed")
           /\ \E left \in {"none", "part"} : kept' = [kept EXCEPT ![name] = left]
  <2>1. kept' \in EvidEvidence
    BY <1>3 DEF EvidEvidence, Checked!Files
  <2>2. exec' \in Executions /\ exec'.outcome = "error" /\ Concluded(exec', kept')
    BY <1>3, ErrorBorne DEF EvidErrors
  <2> QED
    BY <1>1, <1>3, <2>1, <2>2, ChecksKept DEF Steps
<1> QED
  BY <1>1, <1>2, <1>3

LEMMA CheckSettle == ASSUME EvidInv, mode = "calibrate", Checked!Settle \/ Checked!Cleanup PROVE EvidInv'
<1> USE DEF EvidInv, Calibrating, ChecksTyped, InTheMaking, Ran, NoneYet, Checked!ConstantsFit
<1>1. CASE Checked!Settle
  <2>1. /\ UNCHANGED <<mode, fact, side, copy, kept, checks, record>> /\ step = "settle" /\ step' = "cleanup"
        /\ exec' = [exec EXCEPT !.outcome = Checked!Outcome(exec), !.digests = TRUE,
                                !.error = IF exec.said = Checked!Expected(exec) THEN "none" ELSE "unobserved"]
    BY <1>1 DEF Checked!Settle
  <2>2. /\ exec' \in Executions /\ exec'.outcome = Checked!Outcome(exec) /\ exec'.digests
        /\ exec'.error = (IF exec.said = Checked!Expected(exec) THEN "none" ELSE "unobserved")
        /\ exec'.ending = exec.ending /\ exec'.code = exec.code /\ exec'.said = exec.said
        /\ exec'.whole = exec.whole /\ exec'.intact = exec.intact
    BY <2>1 DEF Executions, EvidErrors, Checked!Outcome
  <2>3. Concluded(exec', kept')
    BY <2>1, <2>2 DEF Concluded, Checked!Outcome, Checked!Expected, Executions
  <2> QED
    BY <2>1, <2>2, <2>3, ChecksKept DEF Steps
<1>2. CASE Checked!Cleanup
  <2>1. /\ UNCHANGED <<mode, fact, side, copy, checks, record>> /\ step = "cleanup" /\ step' = "recheck"
        /\ \/ kept' = [kept EXCEPT !.cleanup = "stopped"] /\ UNCHANGED exec
           \/ kept' = [kept EXCEPT !.cleanup = "unresolved"]
              /\ exec' = [exec EXCEPT !.outcome = "error", !.error = "verifier_cleanup_failed"]
           \/ kept' \in {kept, [kept EXCEPT !.cleanup = "stopped"]} /\ exec' = Checked!Error("failed")
    BY <1>2 DEF Checked!Cleanup
  <2>2. /\ kept' \in EvidEvidence /\ kept'.command = kept.command /\ kept'.stdout = kept.stdout
        /\ kept'.stderr = kept.stderr
        /\ kept' = [kept EXCEPT !.cleanup = "stopped"] => kept'.cleanup = "stopped"
    BY <2>1 DEF EvidEvidence, Checked!Files
  <2>3. exec' \in Executions /\ Borne(exec', kept') /\ (exec'.outcome # "error" => exec' = exec)
    <3>1. CASE kept' = [kept EXCEPT !.cleanup = "stopped"] /\ UNCHANGED exec
      BY <2>1, <2>2, <3>1 DEF Borne, Concluded
    <3>2. CASE exec' = [exec EXCEPT !.outcome = "error", !.error = "verifier_cleanup_failed"]
      <4>1. exec' \in Executions /\ exec'.outcome = "error" /\ exec'.digests = exec.digests
        BY <3>2 DEF Executions, EvidErrors
      <4> QED
        BY <2>1, <2>2, <4>1 DEF Borne, Concluded
    <3>3. CASE exec' = Checked!Error("failed")
      BY <3>3, ErrorBorne DEF EvidErrors
    <3> QED
      BY <2>1, <3>1, <3>2, <3>3
  <2> QED
    BY <2>1, <2>2, <2>3, ChecksKept DEF Steps
<1> QED
  BY <1>1, <1>2

LEMMA CheckSave == ASSUME EvidInv, mode = "calibrate", Checked!Save PROVE EvidInv'
<1> USE DEF EvidInv, Calibrating, ChecksTyped, InTheMaking, Ran, NoneYet, Checked!ConstantsFit
<1>1. /\ step = "save" /\ UNCHANGED <<mode, copy, hidden, record>> /\ Checked!Side \in TwoSides
      /\ Checked!Side \in Checked!AllSides
      /\ Checked!Side = (IF side = 1 THEN "baseline" ELSE "reference")
  BY TheSide DEF Checked!Save, TwoSides, Checked!AllSides
<1>2. PICK e \in Executions, k \in EvidEvidence :
        /\ checks' = [checks EXCEPT ![fact][Checked!Side] = [exec |-> e, kept |-> k]]
        /\ Borne(e, k) /\ (e.outcome # "error" => e = exec) /\ (exec.outcome = "error" => e.outcome = "error")
        /\ step' # "over" => k.result = "whole"
  <2>1. CASE /\ checks' = [checks EXCEPT ![fact][Checked!Side] = [exec |-> exec,
                                                                  kept |-> [kept EXCEPT !.result = "whole"]]]
    <3> DEFINE k == [kept EXCEPT !.result = "whole"]
    <3>1. /\ k \in EvidEvidence /\ k.result = "whole" /\ k.command = kept.command /\ k.stdout = kept.stdout
          /\ k.stderr = kept.stderr /\ k.cleanup = kept.cleanup
      BY DEF EvidEvidence, Checked!Files
    <3>2. Borne(exec, k)
      BY <1>1, <3>1 DEF Borne, Concluded
    <3> QED
      BY <2>1, <3>1, <3>2
  <2>2. CASE checks' = [checks EXCEPT ![fact][Checked!Side] = [exec |-> Checked!Error("failed"),
                                                               kept |-> kept]] /\ Checked!Stop
    BY <2>2, ErrorBorne DEF EvidErrors, Checked!Stop
  <2> QED
    BY <2>1, <2>2 DEF Checked!Save
<1>3. /\ checks' \in [1..CheckedFacts -> [Checked!AllSides -> EvidChecked]]
      /\ checks'[fact][Checked!Side] = [exec |-> e, kept |-> k]
      /\ \A f \in 1..CheckedFacts, version \in TwoSides : f # fact \/ version # Checked!Side
         => checks'[f][version] = checks[f][version]
  <2>1. [exec |-> e, kept |-> k] \in EvidChecked
    BY DEF EvidChecked
  <2> QED
    BY <1>1, <1>2, <2>1 DEF TwoSides, Checked!AllSides
<1>4. BorneOut'
  BY <1>2, <1>3 DEF BorneOut
<1>5. RanWhole'
  BY <1>1, <1>2, <1>3 DEF RanWhole
<1>6. CASE step' = "over"
  <2>1. exec' \in Executions /\ kept' \in EvidEvidence /\ fact' \in 1..CheckedFacts /\ side' \in {1, 2}
    BY <1>6, UncheckedTyped, ErrorBorne, TheSide DEF Checked!Save, Checked!Onward, Checked!Stop, EvidErrors
  <2> QED
    BY <1>1, <1>3, <1>4, <1>5, <1>6, <2>1 DEF ResultsKept, PartlyCopied, Steps, Checked!NoRecord
<1>7. CASE step' # "over"
  <2>1. /\ exec' = Checked!Error("unchecked") /\ kept' = Checked!NothingKept /\ step' \in {"copy", "capture"}
        /\ \/ side = 1 /\ side' = 2 /\ step' = "copy" /\ fact' = fact
           \/ side = 2 /\ side' = 1 /\ step' = "copy" /\ fact < CheckedFacts /\ fact' = fact + 1
           \/ side = 2 /\ side' = 1 /\ step' = "capture" /\ fact = CheckedFacts /\ fact' = fact
    <3>1. Checked!Onward(FALSE)
      BY <1>7 DEF Checked!Save, Checked!Stop
    <3>2. Len(Checked!SidesOf) = 2
      BY TheSide
    <3> QED
      BY <3>1, <3>2 DEF Checked!Onward
  <2>2. ChecksTyped'
    BY <1>1, <1>3, <2>1, UncheckedTyped, ErrorBorne DEF EvidErrors
  <2>2a. InTheMaking' /\ Ran'
    BY <2>1, ErrorBorne DEF EvidErrors
  <2>3. \A f \in 1..CheckedFacts,
        version \in TwoSides : Settled(f, version)' <=> Settled(f,
                                                                version) \/ (f = fact /\ version = Checked!Side)
    BY <1>1, <2>1 DEF Settled, TwoSides
  <2>4. ResultsKept'
    BY <1>1, <1>2, <1>3, <1>7, <2>3 DEF ResultsKept
  <2>5. PartlyCopied'
    <3>1. \A version \in TwoSides, f \in 1..CheckedFacts :
            Settled(f, version) /\ checks[f][version].exec.outcome = "error" => Settled(f, version)'
               /\ checks'[f][version].exec.outcome = "error"
      <4>1. ~Settled(fact, Checked!Side)
        BY <1>1 DEF Settled, TwoSides
      <4> QED
        BY <1>3, <2>3, <4>1
    <3>2. \A version \in TwoSides, f \in 1..CheckedFacts :
            version = Checked!Side /\ f = fact /\ exec.outcome = "error" => Settled(f, version)'
               /\ checks'[f][version].exec.outcome = "error"
      BY <1>2, <1>3, <2>3
    <3> QED
      BY <1>1, <3>1, <3>2 DEF PartlyCopied
  <2> QED
    BY <1>1, <1>4, <1>5, <2>1, <2>2, <2>2a, <2>4, <2>5 DEF Steps, Checked!NoRecord
<1> QED
  BY <1>6, <1>7

LEMMA CheckCancel == ASSUME EvidInv, mode = "calibrate", Checked!Cancel PROVE EvidInv'
<1> USE DEF EvidInv, Calibrating, ChecksTyped, InTheMaking, Ran, NoneYet, Checked!ConstantsFit
<1>1. step' = "over" /\ UNCHANGED <<mode, fact, side, exec, kept, copy, hidden, checks, record>>
      /\ step # "over"
  BY DEF Checked!Cancel, Checked!Stop
<1>2. BorneOut' /\ RanWhole' /\ ResultsKept' /\ PartlyCopied'
  BY <1>1 DEF BorneOut, RanWhole, ResultsKept, PartlyCopied
<1> QED
  BY <1>1, <1>2 DEF Steps, Checked!NoRecord

\* What validates a check: its streams were kept, and what is omitted is said to be.
LEMMA BearsOut ==
    ASSUME NEW e \in Executions, NEW k \in EvidEvidence, NEW omitted, NEW complete \in BOOLEAN, Borne(e, k),
           k.result = "whole", e.digests \/ (k.stdout = "none" /\ k.stderr = "none"), complete => omitted = {}
    PROVE  Checked!EvidenceHolds(e, Checked!Retained(k, omitted), complete)
<1> DEFINE r == Checked!Retained(k, omitted)
<1>1. /\ \A file \in Checked!Files : r[file] = k[file] \/ (r[file] = "none" /\ ~complete)
      /\ {"command", "stdout", "stderr", "cleanup", "result"} = Checked!Files
  BY DEF Checked!Retained, Checked!Files
<1>2. /\ r.result = k.result \/ (r.result = "none" /\ ~complete)
      /\ r.stdout = k.stdout \/ (r.stdout = "none" /\ ~complete)
      /\ r.stderr = k.stderr \/ (r.stderr = "none" /\ ~complete)
      /\ r.command = k.command \/ ~complete
      /\ r.cleanup = k.cleanup \/ (r.cleanup = "none" /\ ~complete)
  BY <1>1
<1> HIDE DEF r
<1>3. Checked!StreamAgrees(r.stdout, e, complete) /\ Checked!StreamAgrees(r.stderr, e, complete)
  BY <1>2 DEF Checked!StreamAgrees, Borne, Concluded
<1>4. e.outcome \in {"pass", "fail"} =>
        /\ complete => r.command # "none" /\ r.cleanup # "none"
        /\ r.cleanup # "unresolved"
        /\ e.digests /\ e.ending = "exited" /\ e.error = "none"
        /\ e.code = IF e.outcome = "pass" THEN 0 ELSE 1
  BY <1>2 DEF Borne, Concluded
<1> QED
  BY <1>2, <1>3, <1>4 DEF Checked!EvidenceHolds, r

LEMMA CheckCapture == ASSUME EvidInv, mode = "calibrate", Checked!Capture PROVE EvidInv'
<1> USE DEF EvidInv, Calibrating, ChecksTyped, InTheMaking, Ran, NoneYet, Checked!ConstantsFit
<1>1. /\ step = "capture" /\ step' = "over"
      /\ UNCHANGED <<mode, fact, side, copy, hidden, exec, kept, checks, checkFaults>>
  BY DEF Checked!Capture
<1>2. PICK f \in 1..CheckedFacts, version \in TwoSides, omitted \in SUBSET Checked!Files :
        record' = [made |-> TRUE, complete |-> omitted = {}, status |-> Checked!CalibrationStatus(omitted = {}),
                   valid |-> Checked!Valid(f, version, omitted)]
  <2>1. PICK f \in 1..CheckedFacts, version \in TwoSides :
          \E omitted \in SUBSET {file \in Checked!Files : checks[f][version].kept[file] # "none"} :
            record' = [made |-> TRUE, complete |-> omitted = {}, status |-> Checked!CalibrationStatus(omitted = {}),
                       valid |-> Checked!Valid(f, version, omitted)]
    BY DEF Checked!Capture, TwoSides
  <2>2. SUBSET {file \in Checked!Files : checks[f][version].kept[file] # "none"} \subseteq SUBSET Checked!Files
    OBVIOUS
  <2> QED
    BY <2>1, <2>2
<1>3. \A g \in 1..CheckedFacts, t \in TwoSides :
        /\ checks[g][t].exec \in Executions /\ checks[g][t].kept \in EvidEvidence
        /\ Borne(checks[g][t].exec, checks[g][t].kept) /\ checks[g][t].kept.result = "whole"
  BY <1>1 DEF BorneOut, ResultsKept, Settled, EvidChecked, TwoSides, Checked!AllSides
<1>4. Checked!Valid(f, version, omitted) \/ \E g \in 1..CheckedFacts, t \in TwoSides : Checked!Unkept(checks[g][t])
  <2> SUFFICES ASSUME \A g \in 1..CheckedFacts, t \in TwoSides : ~Checked!Unkept(checks[g][t]),
                      NEW g \in 1..CheckedFacts, NEW t \in TwoSides
               PROVE Checked!EvidenceHolds(Checked!Execution(g, t),
                                           IF g = f /\ t = version
                                           THEN Checked!Retained(checks[g][t].kept, omitted)
                                           ELSE checks[g][t].kept,
                                           omitted = {})
    BY DEF Checked!Valid, TwoSides
  <2> DEFINE gone == IF g = f /\ t = version THEN omitted ELSE {}
             complete == omitted = {}
  <2>1. complete \in BOOLEAN /\ (complete => gone = {})
    OBVIOUS
  <2>2. checks[g][t].exec.digests \/ (checks[g][t].kept.stdout = "none" /\ checks[g][t].kept.stderr = "none")
    BY DEF Checked!Unkept
  <2>3. checks[g][t].kept = Checked!Retained(checks[g][t].kept, {})
    BY <1>3 DEF Checked!Retained, EvidEvidence
  <2>4. Checked!Retained(checks[g][t].kept, gone)
          = IF g = f /\ t = version THEN Checked!Retained(checks[g][t].kept, omitted) ELSE checks[g][t].kept
    BY <2>3
  <2> HIDE DEF gone, complete
  <2>5. Checked!EvidenceHolds(checks[g][t].exec, Checked!Retained(checks[g][t].kept, gone), complete)
    BY <1>3, <2>1, <2>2, BearsOut
  <2> QED
    BY <2>4, <2>5 DEF Checked!Execution, complete
<1>5. ASSUME Checked!CalibrationStatus(omitted = {}) = "demonstrated"
      PROVE  /\ omitted = {}
             /\ \A g \in 1..CheckedFacts : Checked!Seen(checks[g]["baseline"], 1)
                /\ Checked!Seen(checks[g]["reference"], 0)
  <2>1. omitted = {} /\ {Checked!FactStatus(g) : g \in 1..CheckedFacts} = {"demonstrated"}
    BY <1>5 DEF Checked!CalibrationStatus
  <2>2. \A g \in 1..CheckedFacts : Checked!FactStatus(g) = "demonstrated"
    BY <2>1
  <2>3. \A g \in 1..CheckedFacts : checks[g]["baseline"].exec.outcome = "fail"
        /\ checks[g]["reference"].exec.outcome = "pass"
    BY <2>2 DEF Checked!FactStatus, Checked!Verdict, Checked!Execution
  <2>4. \A t \in TwoSides : copy[t] # "partial"
    BY <1>1, <2>3 DEF PartlyCopied, TwoSides
  <2>5. \A g \in 1..CheckedFacts, t \in TwoSides : checks[g][t].exec.whole
    BY <2>3, <2>4 DEF RanWhole, TwoSides
  <2>6. ASSUME NEW g \in 1..CheckedFacts PROVE Checked!Seen(checks[g]["baseline"], 1)
    <3>1. Borne(checks[g]["baseline"].exec, checks[g]["baseline"].kept) /\ checks[g]["baseline"].exec.whole
      BY <1>3, <2>5 DEF TwoSides
    <3> QED
      BY <2>3, <3>1 DEF Checked!Seen, Borne, Concluded
  <2>7. \A g \in 1..CheckedFacts : Checked!Seen(checks[g]["reference"], 0)
    BY <1>3, <2>3, <2>5 DEF Checked!Seen, Borne, Concluded, TwoSides
  <2> QED
    BY <2>1, <2>6, <2>7
<1>6. record'.made /\ record'.complete = (omitted = {})
      /\ record'.status = Checked!CalibrationStatus(omitted = {})
      /\ record'.valid = Checked!Valid(f, version, omitted)
  BY <1>2
<1>7. Checked!CheckSound'
  <2>1. record'.valid \/ \E g \in 1..CheckedFacts, t \in {"baseline", "reference"} : Checked!Unkept(checks'[g][t])
    BY <1>1, <1>4, <1>6 DEF TwoSides
  <2>2. record'.status = "demonstrated" =>
          record'.complete /\ \A g \in 1..CheckedFacts : Checked!Seen(checks'[g]["baseline"], 1)
             /\ Checked!Seen(checks'[g]["reference"], 0)
    BY <1>1, <1>5, <1>6
  <2> QED
    BY <2>1, <2>2 DEF Checked!CheckSound, Checked!Unkept, Checked!Seen
<1>8. BorneOut' /\ RanWhole' /\ ResultsKept' /\ PartlyCopied'
  BY <1>1 DEF BorneOut, RanWhole, ResultsKept, PartlyCopied
<1> QED
  BY <1>1, <1>7, <1>8 DEF Steps

LEMMA CheckStep == EvidInv /\ [Checked!Next]_(Checked!vars) => EvidInv'
<1> SUFFICES ASSUME EvidInv, [Checked!Next]_(Checked!vars) PROVE EvidInv'
  OBVIOUS
<1>1. CASE mode # "calibrate"
  BY <1>1, CheckGraded
<1>2. CASE mode = "calibrate" /\ Checked!Next
  BY <1>2, CheckCopy, CheckInputs, CheckRun, CheckStreams, CheckSettle, CheckSave, CheckCancel, CheckCapture
     DEF Checked!Next
<1>3. CASE mode = "calibrate" /\ UNCHANGED Checked!vars
  <2>1. UNCHANGED <<mode, fact, side, step, copy, hidden, exec, kept, checks, record, checkFaults>>
    BY <1>3 DEF Checked!vars
  <2>2. Checked!Side' = Checked!Side /\ Checked!CheckSound' = Checked!CheckSound
        /\ \A version, f : Settled(f, version)' = Settled(f, version)
    BY <2>1 DEF Checked!Side, Checked!SidesOf, Checked!CheckSound, Checked!Unkept, Checked!Seen, Settled
  <2>3. Calibrating'
    BY <1>3, <2>1, <2>2 DEF EvidInv, Calibrating, ChecksTyped, InTheMaking, NoneYet, Ran, BorneOut,
       ResultsKept,
                            RanWhole, PartlyCopied
  <2> QED
    BY <1>3, <2>1, <2>3 DEF EvidInv
<1> QED
  BY <1>1, <1>2, <1>3

\* Whichever read, copy, command or write of a check fails: a demonstrated fact has executions in whole
\* copies behind it, and what is kept bears out what is concluded (calibrations.py, grading.py).
THEOREM ChecksStaySound == ASSUME Checked!ConstantsFit PROVE Checked!Spec => []Checked!CheckSound
<1>1. Checked!Init /\ Checked!ConstantsFit => EvidInv
  BY CheckInit
<1>2. EvidInv => Checked!CheckSound
  BY DEF EvidInv, Calibrating, Graded, Checked!NoRecord, Checked!CheckSound
<1> QED
  BY <1>1, <1>2, CheckStep, PTL DEF Checked!Spec

-----------------------------------------------------------------------------
(* Metrics commands (CaseMetrics). *)

Work == [ran : BOOLEAN, ending : {"none", "exited", "stopped"}, code : {0, 1, 2},
         output : {"none", "absent", "good", "bad", "over"}, failure : {"none", "failed"},
         cleanup : {"none", "stopped", "unresolved"}, watch : {"none", "limit"},
         error : {"none", "interrupted_metrics", "failed", "process", "no_output", "violates", "limits",
                  "metrics_cleanup_failed", "metrics_baseline_changed", "hidden_metrics_input_changed"},
         values : BOOLEAN]

MetricsTyped ==
    /\ measuring \in {"next", "prepare", "lock", "hide", "run", "running", "cleanup", "read", "restore", "recheck",
               "record", "stopped"}
    /\ work \in Work
    /\ there \in [Measured!Paths -> {"own", "other", "gone"}] /\ writable \in [Measured!Paths -> BOOLEAN]
       /\ locked \subseteq Measured!Paths
    /\ secret \in {"none", "intact", "partial", "changed"} /\ cancelled \in BOOLEAN

\* What is journaled of the commands before.
Journaled == /\ \A c \in DOMAIN saved : c \in intents /\ (saved[c].values <=> saved[c].error = "none")
             /\ measuring \notin {"next", "stopped"} => number \in intents

\* Nothing has values before its output is read, and what ended was run.
Unread == measuring \in {"next", "prepare", "lock", "hide", "run", "running", "cleanup", "read"} =>
              work.error = "none" /\ ~work.values
Reached ==
    /\ work.ending # "none" => work.ran /\ work.output # "none"
    /\ measuring \in {"next", "prepare", "lock", "hide", "run"} => ~work.ran
    /\ measuring = "running" => work.ran
    /\ measuring \in {"next", "prepare", "lock", "hide", "run", "running", "cleanup"} => work.cleanup = "none"
    /\ measuring = "read" => work.cleanup # "none"

\* A result says why there are no values, unless the session is to stop.
SaysWhy == /\ measuring \in {"recheck", "record"} => (work.values <=> work.error = "none")
           /\ measuring = "restore" => (work.values <=> work.error = "none") \/ Measured!Stops

\* Values were earned, with every entry of the baseline locked.
ValuesEarned ==
    /\ work.values => Measured!Earned(work)
    /\ measuring \in {"next", "prepare", "lock"} => locked = {}
    /\ measuring \in {"hide", "run", "running", "cleanup", "read"} => locked = Measured!Paths
    /\ work.values => locked = Measured!Paths

\* A result that does not say otherwise has the baseline restored.
Excepted == {"metrics_baseline_changed", "hidden_metrics_input_changed"}
Restored ==
    /\ measuring \in {"recheck", "record", "stopped"} /\ work.cleanup # "unresolved"
       /\ work.error \notin Excepted =>
         \A p \in locked : there[p] = "own" /\ writable[p]
    /\ measuring = "record" /\ work.values => secret = "intact"

MetricsInv == MetricsTyped /\ Journaled /\ Unread /\ Reached /\ SaysWhy /\ ValuesEarned /\ Restored

LEMMA MetricsInit == Measured!Init => MetricsInv
<1> SUFFICES ASSUME Measured!Init PROVE MetricsInv
  OBVIOUS
<1> USE DEF Measured!Init
<1>1. MetricsTyped
  BY DEF MetricsTyped, Measured!NotRun, Work, Measured!Whole, Measured!Open
<1>2. work.error = "none" /\ ~work.values /\ work.ending = "none" /\ ~work.ran /\ work.cleanup = "none"
  BY DEF Measured!NotRun
<1> QED
  BY <1>1, <1>2 DEF MetricsInv, Journaled, Unread, Reached, SaysWhy, ValuesEarned, Restored

LEMMA MetricsFailed ==
    ASSUME NEW worked \in Work, NEW v, v = Measured!Failed(worked)
    PROVE  /\ v \in Work /\ v.error = "failed" /\ ~v.values
           /\ v.ran = worked.ran /\ v.ending = worked.ending /\ v.output = worked.output
              /\ v.cleanup = worked.cleanup
BY DEF Measured!Failed, Work

LEMMA MetricsChanged ==
    ASSUME NEW worked \in Work, NEW e \in Excepted, NEW v, v = Measured!Changed(worked, e)
    PROVE  /\ v \in Work /\ v.error = e /\ ~v.values
           /\ v.ran = worked.ran /\ v.ending = worked.ending /\ v.output = worked.output
              /\ v.cleanup = worked.cleanup
BY DEF Measured!Changed, Work, Excepted

LEMMA MetricsNext ==
    ASSUME MetricsInv, Measured!Known \/ Measured!Spent \/ Measured!Intend \/ Measured!Prepare \/ Measured!Session
    PROVE  MetricsInv'
<1> USE DEF MetricsInv, Journaled, Unread, Reached, SaysWhy, ValuesEarned, Restored
<1>0. Measured!NotRun \in Work /\ Measured!Whole \in [Measured!Paths -> {"own"}]
      /\ Measured!Open \in [Measured!Paths -> BOOLEAN]
      /\ Measured!NotRun.error = "none" /\ ~Measured!NotRun.values /\ Measured!NotRun.ending = "none"
         /\ ~Measured!NotRun.ran /\ Measured!NotRun.cleanup = "none"
  BY DEF Measured!NotRun, Work, Measured!Whole, Measured!Open
<1>1. CASE Measured!Known \/ Measured!Intend
  <2>1. MetricsTyped'
    BY <1>1 DEF Measured!Known, Measured!Intend, Measured!Onward, Measured!Baseline, MetricsTyped
  <2> QED
    BY <1>1, <2>1 DEF Measured!Known, Measured!Intend, Measured!Onward, Measured!Baseline, Measured!Bounds
<1>2. CASE Measured!Spent
  <2>1. /\ measuring = "next" /\ number \in intents /\ measuring' = "record" /\ work' = Measured!Interrupted
        /\ UNCHANGED <<number, intents, saved, there, writable, locked, secret, cancelled>>
    BY <1>2 DEF Measured!Spent, Measured!Journal, Measured!Baseline
  <2>2. work' \in Work /\ work'.error = "interrupted_metrics" /\ ~work'.values /\ work'.ending = "none"
        /\ ~work'.ran
    BY <2>1 DEF Measured!Interrupted, Measured!NotRun, Work
  <2>3. MetricsTyped'
    BY <2>1, <2>2 DEF MetricsTyped
  <2> QED
    BY <2>1, <2>2, <2>3
<1>3. CASE Measured!Prepare
  <2>1. /\ measuring = "prepare"
        /\ UNCHANGED <<number, intents, saved, there, writable, locked, secret, cancelled>>
        /\ (measuring' = "lock" /\ UNCHANGED work) \/ (measuring' = "restore" /\ work' = Measured!Failed(work))
    BY <1>3 DEF Measured!Prepare, Measured!Journal, Measured!Baseline
  <2>2. CASE measuring' = "lock" /\ UNCHANGED work
    BY <2>1, <2>2 DEF MetricsTyped
  <2>3. CASE measuring' = "restore" /\ work' = Measured!Failed(work)
    BY <2>1, <2>3, MetricsFailed DEF MetricsTyped
  <2> QED
    BY <2>1, <2>2, <2>3
<1>4. CASE Measured!Session
  <2>1. /\ measuring' = "next" /\ UNCHANGED <<intents, saved>> /\ work' = Measured!NotRun
        /\ there' = Measured!Whole /\ writable' = Measured!Open
        /\ locked' = {} /\ secret' = "none" /\ cancelled' = FALSE
    BY <1>4 DEF Measured!Session, Measured!Fresh
  <2> QED
    BY <1>0, <2>1 DEF MetricsTyped
<1> QED
  BY <1>1, <1>2, <1>3, <1>4

LEMMA MetricsLock ==
    ASSUME MetricsInv, Measured!Lock \/ Measured!Hide \/ Measured!Refrain \/ Measured!Start
    PROVE  MetricsInv'
<1> USE DEF MetricsInv, Journaled, Unread, Reached, SaysWhy, ValuesEarned, Restored
<1>1. CASE Measured!Lock
  <2>1. /\ measuring = "lock" /\ locked' = Measured!Paths
        /\ UNCHANGED <<number, intents, saved, there, secret, cancelled>>
        /\ (measuring' = "hide" /\ UNCHANGED work) \/ (measuring' = "restore" /\ work' = Measured!Failed(work))
        /\ \E unable \in SUBSET Measured!Paths : Measured!SetWritable(Measured!Paths, unable, FALSE)
    BY <1>1 DEF Measured!Lock, Measured!Journal
  <2>2. writable' \in [Measured!Paths -> BOOLEAN]
    BY <2>1 DEF Measured!SetWritable, MetricsTyped
  <2>3. CASE measuring' = "hide" /\ UNCHANGED work
    BY <2>1, <2>2, <2>3 DEF MetricsTyped
  <2>4. CASE measuring' = "restore" /\ work' = Measured!Failed(work)
    BY <2>1, <2>2, <2>4, MetricsFailed DEF MetricsTyped
  <2> QED
    BY <2>1, <2>3, <2>4
<1>2. CASE Measured!Hide
  <2>1. /\ measuring = "hide" /\ UNCHANGED <<number, intents, saved, there, writable, locked, cancelled>>
        /\ \/ measuring' = "run" /\ UNCHANGED work /\ secret' = "intact"
           \/ measuring' = "restore" /\ work' = Measured!Failed(work) /\ secret' \in {"none", "partial"}
    BY <1>2 DEF Measured!Hide, Measured!Journal, Measured!Baseline
  <2>2. CASE measuring' = "run" /\ UNCHANGED work /\ secret' = "intact"
    BY <2>1, <2>2 DEF MetricsTyped
  <2>3. CASE measuring' = "restore" /\ work' = Measured!Failed(work) /\ secret' \in {"none", "partial"}
    BY <2>1, <2>3, MetricsFailed DEF MetricsTyped
  <2> QED
    BY <2>1, <2>2, <2>3
<1>3. CASE Measured!Refrain
  BY <1>3 DEF Measured!Refrain, Measured!Journal, Measured!Baseline, MetricsTyped
<1>4. CASE Measured!Start
  <2>1. /\ measuring = "run" /\ UNCHANGED <<number, intents, saved, there, writable, locked, secret, cancelled>>
        /\ \/ measuring' = "running" /\ work' = [work EXCEPT !.ran = TRUE]
           \/ measuring' = "cleanup" /\ work' = [work EXCEPT !.failure = "failed"]
    BY <1>4 DEF Measured!Start, Measured!Journal, Measured!Baseline
  <2>2. /\ work' \in Work /\ work'.error = work.error /\ work'.values = work.values
        /\ work'.ending = work.ending
        /\ work'.cleanup = work.cleanup /\ work'.output = work.output
        /\ (measuring' = "running" => work'.ran) /\ (measuring' = "cleanup" => work'.ran = work.ran)
    <3>1. CASE measuring' = "running" /\ work' = [work EXCEPT !.ran = TRUE]
      BY <3>1 DEF MetricsTyped, Work
    <3>2. CASE measuring' = "cleanup" /\ work' = [work EXCEPT !.failure = "failed"]
      BY <3>2 DEF MetricsTyped, Work
    <3> QED
      BY <2>1, <3>1, <3>2
  <2> QED
    BY <2>1, <2>2 DEF MetricsTyped
<1> QED
  BY <1>1, <1>2, <1>3, <1>4

LEMMA MetricsRun == ASSUME MetricsInv, Measured!Watch \/ Measured!End \/ Measured!Cleanup PROVE MetricsInv'
<1> USE DEF MetricsInv, Journaled, Unread, Reached, SaysWhy, ValuesEarned, Restored
<1>1. CASE Measured!Watch
  <2>1. /\ measuring \in {"running", "cleanup"} /\ work.ran /\ work' = [work EXCEPT !.watch = "limit"]
        /\ UNCHANGED <<measuring, number, intents, saved, there, writable, locked, secret, cancelled>>
    BY <1>1 DEF Measured!Watch, Measured!Journal, Measured!Baseline
  <2>2. /\ work' \in Work /\ work'.error = work.error /\ work'.values = work.values
        /\ work'.ending = work.ending
        /\ work'.cleanup = work.cleanup /\ work'.output = work.output /\ work'.ran = work.ran
    BY <2>1 DEF MetricsTyped, Work
  <2> QED
    BY <2>1, <2>2 DEF MetricsTyped
<1>2. CASE Measured!End
  <2>1. /\ measuring = "running" /\ measuring' = "cleanup"
        /\ UNCHANGED <<number, intents, saved, there, writable, locked, secret, cancelled>>
    BY <1>2 DEF Measured!End, Measured!Journal, Measured!Baseline
  <2>2. PICK ending \in Measured!Endings, output \in Measured!Outputs :
          LET ended == [work EXCEPT !.ending = ending[1], !.code = ending[2], !.output = output] IN
          work' = ended \/ work' = [ended EXCEPT !.failure = "failed"]
    BY <1>2 DEF Measured!End
  <2>3. ending[1] \in {"exited", "stopped"} /\ ending[2] \in {0, 1, 2}
        /\ output \in {"absent", "good", "bad", "over"}
    BY DEF Measured!Endings, Measured!Outputs
  <2>4. /\ work' \in Work /\ work'.error = work.error /\ work'.values = work.values
        /\ work'.cleanup = work.cleanup /\ work'.output = output /\ work'.ran = work.ran
    <3> DEFINE a == ending[1]
               b == ending[2]
               ended == [work EXCEPT !.ending = a, !.code = b, !.output = output]
    <3>1. a \in {"exited", "stopped"} /\ b \in {0, 1, 2} /\ work \in Work
      BY <2>3 DEF MetricsTyped
    <3>2. work' = ended \/ work' = [ended EXCEPT !.failure = "failed"]
      BY <2>2
    <3> HIDE DEF a, b
    <3>3. /\ ended \in Work /\ ended.error = work.error /\ ended.values = work.values
          /\ ended.cleanup = work.cleanup /\ ended.output = output /\ ended.ran = work.ran
      BY <2>3, <3>1 DEF Work
    <3> HIDE DEF ended
    <3> QED
      BY <3>2, <3>3 DEF Work
  <2> QED
    BY <2>1, <2>3, <2>4 DEF MetricsTyped
<1>3. CASE Measured!Cleanup
  <2>1. /\ measuring = "cleanup"
        /\ UNCHANGED <<number, intents, saved, there, writable, locked, secret, cancelled>>
        /\ \/ measuring' = "read"
              /\ \E how \in {"stopped", "unresolved"} : work' = [work EXCEPT !.cleanup = how]
           \/ measuring' = "restore"
              /\ \E how \in {"stopped", "unresolved"} : work' = [Measured!Failed(work) EXCEPT !.cleanup = how]
    BY <1>3 DEF Measured!Cleanup, Measured!Journal, Measured!Baseline
  <2>2. PICK v \in {work, Measured!Failed(work)}, how \in {"stopped", "unresolved"} :
          /\ work' = [v EXCEPT !.cleanup = how]
          /\ (measuring' = "read" /\ v = work) \/ (measuring' = "restore" /\ v = Measured!Failed(work))
    BY <2>1
  <2>3. /\ v \in Work /\ ~v.values /\ v.ending = work.ending /\ v.output = work.output /\ v.ran = work.ran
        /\ (measuring' = "read" => v.error = "none") /\ (measuring' = "restore" => v.error = "failed")
    BY <2>1, <2>2, MetricsFailed DEF MetricsTyped
  <2>4. /\ work' \in Work /\ work'.error = v.error /\ work'.values = v.values /\ work'.ending = v.ending
        /\ work'.cleanup = how /\ work'.output = v.output /\ work'.ran = v.ran
    BY <2>2, <2>3 DEF Work
  <2> QED
    BY <2>1, <2>2, <2>3, <2>4 DEF MetricsTyped
<1> QED
  BY <1>1, <1>2, <1>3

\* What is concluded of a command: it has values if all went well, and otherwise an error.
LEMMA MetricsConcluded ==
    ASSUME NEW worked \in Work, worked.ending # "none" => worked.ran /\ worked.output # "none",
           worked.cleanup # "none",
           worked.output = "over" => worked.failure # "none"
    PROVE  /\ Measured!Result(worked) \in {"none", "failed", "process", "no_output", "violates", "limits",
                                           "metrics_cleanup_failed"}
           /\ Measured!Result(worked) = "none" => /\ worked.cleanup = "stopped" /\ worked.watch = "none" /\ worked.failure = "none"
                                    /\ worked.ending = "exited" /\ worked.code = 0 /\ worked.output = "good"
                                       /\ worked.ran
BY DEF Measured!Result, Measured!Outcome, Work

LEMMA MetricsRead == ASSUME MetricsInv, Measured!Read PROVE MetricsInv'
<1> USE DEF MetricsInv, Journaled, Unread, Reached, SaysWhy, ValuesEarned, Restored
<1>1. /\ measuring = "read" /\ measuring' = "restore"
      /\ UNCHANGED <<number, intents, saved, there, writable, locked, secret, cancelled>>
  BY DEF Measured!Read, Measured!Journal, Measured!Baseline
<1>2. CASE cancelled /\ UNCHANGED work
  <2>1. Measured!Stops'
    BY <1>1, <1>2 DEF Measured!Stops
  <2> QED
    BY <1>1, <1>2, <2>1 DEF MetricsTyped
<1>3. CASE \E f \in {work.failure, IF work.failure = "none" THEN "failed" ELSE work.failure} :
             LET worked == [work EXCEPT !.failure = f] IN
             /\ worked.output = "over" => worked.failure # "none"
             /\ work' = [worked EXCEPT !.error = Measured!Result(worked),
                         !.values = Measured!Result(worked) = "none"]
  <2>1. PICK f \in {work.failure, IF work.failure = "none" THEN "failed" ELSE work.failure} :
             LET worked == [work EXCEPT !.failure = f] IN
             /\ worked.output = "over" => worked.failure # "none"
             /\ work' = [worked EXCEPT !.error = Measured!Result(worked),
                         !.values = Measured!Result(worked) = "none"]
    BY <1>3
  <2> DEFINE worked == [work EXCEPT !.failure = f]
  <2>2. /\ worked \in Work /\ worked.ran = work.ran /\ worked.ending = work.ending
        /\ worked.output = work.output /\ worked.cleanup = work.cleanup
    BY DEF MetricsTyped, Work
  <2>3. /\ worked.output = "over" => worked.failure # "none"
        /\ work' = [worked EXCEPT !.error = Measured!Result(worked), !.values = Measured!Result(worked) = "none"]
    BY <2>1
  <2> HIDE DEF worked
  <2>4. (worked.ending # "none" => worked.ran /\ worked.output # "none") /\ worked.cleanup # "none"
    BY <1>1, <2>2
  <2> DEFINE r == Measured!Result(worked)
  <2>5. /\ r \in {"none", "failed", "process", "no_output", "violates", "limits", "metrics_cleanup_failed"}
        /\ r = "none" => /\ worked.cleanup = "stopped" /\ worked.watch = "none" /\ worked.failure = "none"
                         /\ worked.ending = "exited" /\ worked.code = 0 /\ worked.output = "good" /\ worked.ran
    BY <2>2, <2>3, <2>4, MetricsConcluded
  <2>6. work' = [worked EXCEPT !.error = r, !.values = r = "none"]
    BY <2>3
  <2> HIDE DEF r
  <2>7. /\ work' \in Work /\ work'.error = r /\ work'.values = (r = "none") /\ work'.ran = worked.ran
        /\ work'.ending = worked.ending /\ work'.output = worked.output /\ work'.cleanup = worked.cleanup
        /\ work'.watch = worked.watch /\ work'.failure = worked.failure /\ work'.code = worked.code
    BY <2>2, <2>5, <2>6 DEF Work
  <2>8. (work'.values <=> work'.error = "none") /\ (work'.values => Measured!Earned(work'))
    BY <2>5, <2>7 DEF Measured!Earned
  <2> QED
    BY <1>1, <2>2, <2>7, <2>8 DEF MetricsTyped
<1>4. \/ cancelled /\ UNCHANGED work
      \/ \E f \in {work.failure, IF work.failure = "none" THEN "failed" ELSE work.failure} :
             LET worked == [work EXCEPT !.failure = f] IN
             /\ worked.output = "over" => worked.failure # "none"
             /\ work' = [worked EXCEPT !.error = Measured!Result(worked),
                         !.values = Measured!Result(worked) = "none"]
  <2>1. [work EXCEPT !.failure = work.failure] = work
    BY DEF MetricsTyped, Work
  <2>2. [work EXCEPT !.failure = IF work.failure = "none" THEN "failed" ELSE work.failure].failure # "none"
    BY DEF MetricsTyped, Work
  <2> QED
    BY <2>1, <2>2 DEF Measured!Read
<1> QED
  BY <1>2, <1>3, <1>4

LEMMA MetricsRestore == ASSUME MetricsInv, Measured!Restore PROVE MetricsInv'
<1> USE DEF MetricsInv, Journaled, Unread, Reached, SaysWhy, ValuesEarned, Restored
<1>1. /\ measuring = "restore" /\ UNCHANGED <<number, intents, saved, there, locked, secret, cancelled>>
      /\ measuring' = IF Measured!Stops THEN "stopped" ELSE "recheck"
  BY DEF Measured!Restore, Measured!Journal
<1>2. PICK unable \in SUBSET locked :
        /\ Measured!SetWritable(locked, unable, TRUE)
        /\ work' = IF Measured!Skipped(locked, unable) = {} THEN work
                   ELSE Measured!Changed(work, "metrics_baseline_changed")
  BY DEF Measured!Restore
<1>3. writable' \in [Measured!Paths -> BOOLEAN]
  BY <1>2 DEF Measured!SetWritable, MetricsTyped
<1>4. CASE Measured!Skipped(locked, unable) = {}
  <2>1. \A p \in locked : there[p] = "own" /\ writable'[p]
    BY <1>2, <1>4 DEF Measured!SetWritable, Measured!Skipped, Measured!Settable, Measured!OfTheInode,
       MetricsTyped
  <2> QED
    BY <1>1, <1>2, <1>3, <1>4, <2>1 DEF MetricsTyped, Measured!Stops
<1>5. CASE Measured!Skipped(locked, unable) # {}
  <2>1. /\ work' \in Work /\ work'.error = "metrics_baseline_changed" /\ ~work'.values
        /\ work'.ran = work.ran /\ work'.ending = work.ending /\ work'.output = work.output
           /\ work'.cleanup = work.cleanup
    BY <1>2, <1>5, MetricsChanged DEF MetricsTyped, Excepted
  <2> QED
    BY <1>1, <1>3, <2>1 DEF MetricsTyped, Excepted
<1> QED
  BY <1>4, <1>5

LEMMA MetricsRecheck == ASSUME MetricsInv, Measured!Recheck \/ Measured!Record PROVE MetricsInv'
<1> USE DEF MetricsInv, Journaled, Unread, Reached, SaysWhy, ValuesEarned, Restored
<1>1. CASE Measured!Recheck
  <2>1. /\ measuring = "recheck" /\ measuring' = "record"
        /\ UNCHANGED <<number, intents, saved, there, writable, locked, cancelled>>
        /\ secret' \in {"none", "intact", "partial", "changed"}
        /\ (secret' = "intact"
           /\ UNCHANGED work) \/ work' = Measured!Changed(work, "hidden_metrics_input_changed")
    BY <1>1 DEF Measured!Recheck, Measured!Journal, Measured!Baseline, MetricsTyped
  <2>2. CASE secret' = "intact" /\ UNCHANGED work
    BY <2>1, <2>2 DEF MetricsTyped
  <2>3. CASE work' = Measured!Changed(work, "hidden_metrics_input_changed")
    <3>1. /\ work' \in Work /\ work'.error = "hidden_metrics_input_changed" /\ ~work'.values
          /\ work'.ran = work.ran /\ work'.ending = work.ending /\ work'.output = work.output
             /\ work'.cleanup = work.cleanup
      BY <2>3, MetricsChanged DEF MetricsTyped, Excepted
    <3> QED
      BY <2>1, <3>1 DEF MetricsTyped, Excepted
  <2> QED
    BY <2>1, <2>2, <2>3
<1>2. CASE Measured!Record
  <2>1. /\ measuring = "record" /\ measuring' = "next" /\ UNCHANGED <<intents, cancelled>>
        /\ saved' = [c \in DOMAIN saved \cup {number} |->
                       IF c = number THEN [values |-> work.values, error |-> work.error] ELSE saved[c]]
        /\ work' = Measured!NotRun /\ there' = Measured!Whole /\ writable' = Measured!Open /\ locked' = {}
           /\ secret' = "none"
    BY <1>2 DEF Measured!Record, Measured!Onward, Measured!Fresh
  <2>2. /\ Measured!NotRun \in Work /\ Measured!NotRun.error = "none" /\ ~Measured!NotRun.values
        /\ Measured!NotRun.ending = "none" /\ ~Measured!NotRun.ran
        /\ Measured!NotRun.cleanup = "none"
    BY DEF Measured!NotRun, Work
  <2>3. MetricsTyped'
    BY <2>1, <2>2 DEF MetricsTyped, Measured!Whole, Measured!Open
  <2>4. \A c \in DOMAIN saved' : c \in intents' /\ (saved'[c].values <=> saved'[c].error = "none")
    BY <2>1
  <2> QED
    BY <2>1, <2>2, <2>3, <2>4
<1> QED
  BY <1>1, <1>2

LEMMA MetricsTouch ==
    ASSUME MetricsInv, Measured!Touch \/ Measured!Cancel \/ UNCHANGED Measured!vars
    PROVE  MetricsInv'
<1> USE DEF MetricsInv, Journaled, Unread, Reached, SaysWhy, ValuesEarned, Restored
<1>1. CASE Measured!Touch
  <2>1. /\ UNCHANGED <<measuring, number, intents, saved, work, locked, cancelled>>
        /\ measuring = "running" \/ (measuring \in {"read", "restore", "recheck"}
           /\ work.cleanup = "unresolved")
    BY <1>1 DEF Measured!Touch, Measured!Alive, Measured!Journal
  <2>2. /\ there' \in [Measured!Paths -> {"own", "other", "gone"}] /\ writable' \in [Measured!Paths -> BOOLEAN]
        /\ secret' \in {"none", "intact", "partial", "changed"}
    <3>1. CASE /\ UNCHANGED <<writable, secret>>
               /\ \E p \in Measured!Paths, what \in {"other", "gone"} :
                    there' = [q \in Measured!Paths |-> IF q < p THEN there[q] ELSE IF q = p THEN what ELSE "gone"]
      BY <3>1 DEF MetricsTyped
    <3>2. CASE /\ UNCHANGED <<there, secret>>
               /\ \E p \in Measured!Paths : writable' = [writable EXCEPT ![p] = ~@]
      <4>1. PICK p \in Measured!Paths : writable' = [writable EXCEPT ![p] = ~writable[p]]
        BY <3>2
      <4>2. (~writable[p]) \in BOOLEAN
        OBVIOUS
      <4> QED
        BY <3>2, <4>1, <4>2, ZenonT(20) DEF MetricsTyped
    <3>3. CASE secret' = "changed" /\ UNCHANGED <<there, writable>>
      BY <3>3 DEF MetricsTyped
    <3> QED
      BY <1>1, <3>1, <3>2, <3>3 DEF Measured!Touch
  <2> QED
    BY <2>1, <2>2 DEF MetricsTyped, Measured!Stops, Measured!Earned
<1>2. CASE Measured!Cancel
  <2>1. /\ UNCHANGED <<measuring, number, intents, saved, work, there, writable, locked, secret>>
        /\ cancelled' = TRUE
    BY <1>2 DEF Measured!Cancel, Measured!Journal, Measured!Baseline
  <2> QED
    BY <2>1 DEF MetricsTyped, Measured!Stops, Measured!Earned
<1>3. CASE UNCHANGED Measured!vars
  BY <1>3 DEF Measured!vars, MetricsTyped, Measured!Stops, Measured!Earned
<1> QED
  BY <1>1, <1>2, <1>3

\* However a metrics command ends and whatever is done to what it was given: its values are accepted
\* only of a run that earned them, with the protected paths locked and put back (case_metrics.py).
THEOREM MetricsStaySound == Measured!Spec => []Measured!MetricsSound
<1>1. MetricsInv /\ [Measured!Next]_(Measured!vars) => MetricsInv'
  BY MetricsNext, MetricsLock, MetricsRun, MetricsRead, MetricsRestore, MetricsRecheck, MetricsTouch
     DEF Measured!Next
<1>2. MetricsInv => Measured!MetricsSound
  <2> SUFFICES ASSUME MetricsInv PROVE Measured!MetricsSound
    OBVIOUS
  <2> USE DEF MetricsInv, Journaled, ValuesEarned, Restored
  <2>1. ASSUME measuring = "record", work.values
        PROVE  Measured!Earned(work) /\ locked = Measured!Paths /\ there = Measured!Whole /\ secret = "intact"
    <3>1. Measured!Earned(work) /\ locked = Measured!Paths /\ secret = "intact" /\ work.cleanup # "unresolved"
          /\ work.error \notin Excepted
      BY <2>1 DEF Measured!Earned, Excepted
    <3>2. \A p \in Measured!Paths : there[p] = "own"
      BY <2>1, <3>1
    <3> QED
      BY <3>1, <3>2 DEF Measured!Whole, MetricsTyped
  <2> QED
    BY <2>1 DEF Measured!MetricsSound, Excepted
<1> QED
  BY <1>1, <1>2, MetricsInit, PTL DEF Measured!Spec

-----------------------------------------------------------------------------
(* What follows of attempts: a behaviour of PartsSpec with part = "config" is one  *)
(* of the module of live configurations, and likewise for the others.               *)

LEMMA JudgingPlayed ==
    /\ PartsInit /\ part = "judging" => Judging!Init
    /\ part = "judging" /\ [PartsNext]_partvars => (part = "judging")' /\ [Judging!Next]_(Judging!vars)
    /\ ~(part = "judging") /\ [PartsNext]_partvars => (~(part = "judging"))'
  BY DEF PartsInit, PartsNext, partvars, othervars, judgingvars, Judging!vars

LEMMA ConfigPlayed ==
    /\ PartsInit /\ part = "config" => Config!Init
    /\ part = "config" /\ [PartsNext]_partvars => (part = "config")' /\ [Config!Next]_(Config!vars)
    /\ ~(part = "config") /\ [PartsNext]_partvars => (~(part = "config"))'
  BY DEF PartsInit, PartsNext, partvars, othervars, configvars, Config!vars

LEMMA InspectedPlayed ==
    /\ PartsInit /\ part = "inspection" => Inspected!Init
    /\ part = "inspection" /\ [PartsNext]_partvars => (part = "inspection")'
       /\ [Inspected!Next]_(Inspected!vars)
    /\ ~(part = "inspection") /\ [PartsNext]_partvars => (~(part = "inspection"))'
  BY DEF PartsInit, PartsNext, partvars, othervars, inspectedvars, Inspected!vars, Inspected!scratch,
     Inspected!procs

\* Whatever the judge says or leaves out, the grade of a fact in an attempt agrees with what the run
\* concluded and with the calls made (assessments.py, _judge_facts).
THEOREM GradesInAttempts == PartsSpec => []GradeAgrees
<1>1. Judging!Spec => []Judging!GradeAgrees
  BY PartsFit, GradesAgree
<1>2. (part = "judging" => Judging!GradeAgrees) => GradeAgrees
  BY DEF GradeAgrees
<1> QED
  BY <1>1, <1>2, JudgingPlayed, PTL DEF PartsSpec, Judging!Spec

\* Attempts start from the one live configuration that the journal names, and nothing screened is in
\* it (live_config.py).
THEOREM ConfigInAttempts == PartsSpec => []ConfigSound
<1>1. Config!Spec => []Config!ConfigSound
  BY PartsFit, ConfigStaysSound
<1>2. (part = "config" => Config!ConfigSound) => ConfigSound
  BY DEF ConfigSound
<1> QED
  BY <1>1, <1>2, ConfigPlayed, PTL DEF PartsSpec, Config!Spec

\* Inspections of an attempt are of what is there then, and neither an abort nor the recovery of the run
\* removes a private directory beside a process that the journal names (inspection.py). The ordinary
\* cleanup may: run inspection_scratch.
THEOREM InspectionsInAttempts == PartsSpec => InspectionSound
<1> DEFINE Keeps ==
         part = "inspection" => Inspected!FreshStep /\ Inspected!QuietStep
<1>1. Inspected!Spec => [][Inspected!FreshStep /\ Inspected!QuietStep]_(Inspected!vars)
  BY InspectionsStaySound DEF Inspected!InspectionSound
<1>2. part = "inspection" /\ [PartsNext]_partvars
      /\ [Inspected!FreshStep /\ Inspected!QuietStep]_(Inspected!vars) => [Keeps]_partvars
  BY DEF PartsNext, partvars, othervars, inspectedvars, Inspected!vars, Inspected!scratch, Inspected!procs
<1>3. ~(part = "inspection") => [Keeps]_partvars
  OBVIOUS
<1>4. PartsSpec => [][Keeps]_partvars
  BY <1>1, <1>2, <1>3, InspectedPlayed, PTL DEF PartsSpec, Inspected!Spec
<1> QED
  BY <1>4 DEF InspectionSound

LEMMA TurnsPlayed ==
    /\ PartsInit /\ part = "turns" => Turns!Init
    /\ part = "turns" /\ [PartsNext]_partvars => (part = "turns")' /\ [Turns!Next]_(Turns!vars)
    /\ ~(part = "turns") /\ [PartsNext]_partvars => (~(part = "turns"))'
  BY DEF PartsInit, PartsNext, partvars, othervars, turnvars, Turns!vars, Turns!claude

LEMMA CheckedPlayed ==
    /\ PartsInit /\ part = "checks" => Checked!Init
    /\ part = "checks" /\ [PartsNext]_partvars => (part = "checks")' /\ [Checked!Next]_(Checked!vars)
    /\ ~(part = "checks") /\ [PartsNext]_partvars => (~(part = "checks"))'
  BY DEF PartsInit, PartsNext, partvars, othervars, checkvars, Checked!vars

LEMMA MeasuredPlayed ==
    /\ PartsInit /\ part = "metrics" => Measured!Init
    /\ part = "metrics" /\ [PartsNext]_partvars => (part = "metrics")' /\ [Measured!Next]_(Measured!vars)
    /\ ~(part = "metrics") /\ [PartsNext]_partvars => (~(part = "metrics"))'
  BY DEF PartsInit, PartsNext, partvars, othervars, metricvars, Measured!vars

\* However agents, shells, notifications and interruptions come: no turn of an attempt is taken for
\* completed that is not over, or with an agent of its own still going on (drivers/claude.py).
THEOREM TurnsInAttempts == PartsSpec => TurnsOver
<1> DEFINE Keeps ==
         part = "turns" => Turns!OverStep
<1>1. Turns!Spec => [][Turns!OverStep]_(Turns!vars)
  BY PartsFit, TurnsAreOver
<1>2. part = "turns" /\ [PartsNext]_partvars /\ [Turns!OverStep]_(Turns!vars) => [Keeps]_partvars
  BY DEF PartsNext, partvars, othervars, turnvars, Turns!vars, Turns!claude
<1>3. ~(part = "turns") => [Keeps]_partvars
  OBVIOUS
<1>4. PartsSpec => [][Keeps]_partvars
  BY <1>1, <1>2, <1>3, TurnsPlayed, PTL DEF PartsSpec, Turns!Spec
<1> QED
  BY <1>4 DEF TurnsOver

\* Whichever reads, copies and commands fail and wherever an attempt is cut: what is concluded of its
\* checks and of its metrics is borne out by what was run and kept (grading.py, case_metrics.py).
THEOREM ChecksInAttempts == PartsSpec => []ChecksSound
<1>1. Checked!Spec => []Checked!CheckSound
  BY PartsFit, ChecksStaySound
<1>2. Measured!Spec => []Measured!MetricsSound
  BY PartsFit, MetricsStaySound
<1>3. (part = "checks" => Checked!CheckSound) /\ (part = "metrics" => Measured!MetricsSound) => ChecksSound
  BY DEF ChecksSound
<1> QED
  BY <1>1, <1>2, <1>3, CheckedPlayed, MeasuredPlayed, PTL DEF PartsSpec, Checked!Spec, Measured!Spec

-----------------------------------------------------------------------------
(* Calibrations (Calibration). *)

(* The inductive invariant.                                                *)

CalPlaces == {"idle", "recover", "other", "checks", "owning", "running", "reconcile", "stop", "evidence", "put",
           "name", "raise"}

\* A session has an operation of its own, and the operation has no evidence yet.
Checking == {"checks", "owning", "running", "reconcile", "stop", "evidence"}
Working  == Checking \cup {"put", "name"}

Process   == Nat \X Nat
Operation == [owned : SUBSET Process, cleanup : {"none", "ok", "bad"}, calls : Nat, result : BOOLEAN]
Step      == {"verify", "judge"} \X (STRING \cup {"facts"}) \X {"baseline", "reference"}
Session   == [pc : CalPlaces, own : Nat, left : Seq(Step), proc : Process, cut : BOOLEAN, seen : Nat]

\* (No property depends on the number of faults.)
Types ==
    /\ native \in Sessions \cup {Nobody}
    /\ s \in [Sessions -> Session]
    /\ op \in Seq(Operation)
    /\ alive \subseteq Process
    /\ published \subseteq evidence /\ evidence \subseteq DOMAIN op

\* Who is at work holds the native lock, and nobody else does.
Exclusive == \A x \in Sessions : s[x].pc # "idle" <=> native = x

\* Processes are numbered in the order of their launches, recorded or not.
CalNumbered ==
    /\ \A q \in alive : q[1] \in DOMAIN op /\ q[2] <= op[q[1]].calls
    /\ \A o \in DOMAIN op : \A q \in op[o].owned : q[1] = o /\ q[2] <= op[o].calls

\* A report of a clean cleanup is true, and evidence is taken only after one.
Truthful ==
    /\ \A o \in DOMAIN op : Clean(op[o].cleanup) => op[o].owned \cap alive = {}
    /\ \A o \in evidence : Clean(op[o].cleanup)

\* Where a session is, and what it has made sure of.
Sure(m) ==
    /\ m.seen <= Len(op)
    /\ m.pc = "recover" => \A o \in DOMAIN op : o <= m.seen => Clean(op[o].cleanup)
    /\ m.pc \in Working \cup {"other"} => \A o \in DOMAIN op : o # m.own => Clean(op[o].cleanup)
    /\ m.pc \in Working => m.own \in DOMAIN op
    /\ m.pc \in Checking => m.own \notin evidence
    /\ m.pc = "put" => m.own \in evidence
    /\ m.pc \in {"owning", "running", "reconcile"} => m.left # << >>
    /\ m.pc = "owning" => m.proc[1] = m.own /\ m.proc[2] <= op[m.own].calls

Placed == \A x \in Sessions : Sure(s[x])

CalibrationInv == Types /\ Exclusive /\ CalNumbered /\ Truthful /\ Placed
-----------------------------------------------------------------------------
(* Operators. *)

USE DEF At, Goto, Own, Check, Cancelled, Clean, Raises, Recorded, Process

LEMMA Listed == ASSUME NEW S, NEW n \in Nat, NEW f \in [1..n -> S] PROVE f \in Seq(S)
  OBVIOUS

LEMMA Replaced ==
    ASSUME NEW S, NEW f \in Seq(S), NEW i \in DOMAIN f, NEW v \in S, NEW g, g = [f EXCEPT ![i] = v]
    PROVE  /\ g \in Seq(S) /\ Len(g) = Len(f) /\ DOMAIN g = DOMAIN f
           /\ g[i] = v /\ \A k \in DOMAIN f : k # i => g[k] = f[k]
<1>1. g \in [1..Len(f) -> S]
  OBVIOUS
<1>2. g \in Seq(S)
  BY <1>1, Listed
<1>3. DOMAIN g = 1..Len(g) /\ DOMAIN g = 1..Len(f) /\ Len(g) \in Nat /\ Len(f) \in Nat
  BY <1>1, <1>2
<1>4. Len(g) = Len(f)
  BY <1>3
<1> QED BY <1>1, <1>2, <1>3, <1>4

\* The checks of a calibration are a sequence of verifications and judgments.
LEMMA Division ==
    ASSUME NEW v \in Nat, NEW n \in Nat, NEW k \in 1..(v * n)
    PROVE  /\ ((k - 1) \div n) + 1 \in 1..v
           /\ ((k - 1) % n) + 1 \in 1..n
<1>1. n > 0
  <2>1. CASE n = 0 BY <2>1
  <2> QED BY <2>1
<1> DEFINE d == (k - 1) \div n
           r == (k - 1) % n
<1>2. d \in Int /\ r \in 0..(n - 1) /\ k - 1 = n * d + r
  BY <1>1
<1>3. d >= 0
  BY <1>1, <1>2
<1>4. d < v
  BY <1>1, <1>2
<1> QED BY <1>1, <1>2, <1>3, <1>4

LEMMA ChecksType == Checks \in Seq(Step)
<1> DEFINE V == [k \in 1..(Len(Verifiers) * Len(Sides)) |->
        <<"verify", Verifiers[((k - 1) \div Len(Sides)) + 1], Sides[((k - 1) % Len(Sides)) + 1]>>]
           J == [k \in 1..Len(Sides) |-> <<"judge", "facts", Sides[k]>>]
<1>1. V \in Seq(Step)
  <2>1. Len(Verifiers) * Len(Sides) \in Nat
    BY InputsAssumption
  <2>2. ASSUME NEW k \in 1..(Len(Verifiers) * Len(Sides)) PROVE V[k] \in Step
    <3>1. /\ ((k - 1) \div Len(Sides)) + 1 \in 1..Len(Verifiers)
          /\ ((k - 1) % Len(Sides)) + 1 \in 1..Len(Sides)
      BY InputsAssumption, Division
    <3>2. /\ Verifiers[((k - 1) \div Len(Sides)) + 1] \in STRING
          /\ Sides[((k - 1) % Len(Sides)) + 1] \in {"baseline", "reference"}
      BY <3>1, InputsAssumption
    <3> QED BY <3>2 DEF Step
  <2> QED BY <2>1, <2>2, Listed
<1>2. J \in Seq(Step)
  <2>1. ASSUME NEW k \in 1..Len(Sides) PROVE J[k] \in Step
    <3>1. Sides[k] \in {"baseline", "reference"}
      BY InputsAssumption
    <3>2. J[k] = <<"judge", "facts", Sides[k]>>
      OBVIOUS
    <3> HIDE DEF J
    <3> QED BY <3>1, <3>2 DEF Step
  <2>2. Len(Sides) \in Nat
    BY InputsAssumption
  <2> QED BY <2>1, <2>2, Listed
<1> HIDE DEF V, J
<1>3. V \o (IF JudgesFacts THEN J ELSE << >>) \in Seq(Step)
  BY <1>1, <1>2
<1> QED BY <1>3 DEF Checks, V, J

-----------------------------------------------------------------------------
(* What is common to the actions. *)

\* What is recorded, and what of it lives, is as it should be.
Records ==
    /\ op \in Seq(Operation) /\ alive \subseteq Process
    /\ published \subseteq evidence /\ evidence \subseteq DOMAIN op
    /\ CalNumbered /\ Truthful

\* Operation o is recorded anew, the others are as they were.
Only(o) == /\ Len(op') = Len(op) /\ DOMAIN op' = DOMAIN op /\ evidence' = evidence
           /\ \A k \in DOMAIN op : k # o => op'[k] = op[k]

LEMMA Untouched == ASSUME CalibrationInv, UNCHANGED <<op, alive, evidence, published>> PROVE Records'
  BY DEF CalibrationInv, Types, Records, CalNumbered, Truthful

\* What is known of a session and of its operation.
LEMMA Situation ==
    ASSUME CalibrationInv, NEW x \in Sessions
    PROVE  /\ s[x] \in Session /\ Sure(s[x]) /\ (s[x].pc # "idle" <=> native = x)
           /\ s[x].own \in Nat /\ s[x].seen \in Nat /\ s[x].left \in Seq(Step) /\ s[x].proc \in Process
           /\ Len(op) \in Nat /\ DOMAIN op = 1..Len(op) /\ Records
           /\ s[x].pc \in Working => s[x].own \in DOMAIN op /\ op[s[x].own] \in Operation
  BY DEF CalibrationInv, Types, Placed, Exclusive, Session, Records, Sure

\* The step of one session preserves the invariant if the records are as they
\* should be and the session is sure of what its new place demands: the others
\* are idle.
LEMMA Preserved ==
    ASSUME CalibrationInv, NEW x \in Sessions, s[x].pc # "idle" \/ native = Nobody,
           NEW new \in Session, s' = [s EXCEPT ![x] = new],
           native' \in {x, Nobody}, new.pc # "idle" <=> native' = x,
           Len(op) <= Len(op'), Records', s'[x] = new => Sure(s[x])'
    PROVE  CalibrationInv'
<1>1. s' \in [Sessions -> Session] /\ s'[x] = new /\ \A y \in Sessions : y # x => s'[y] = s[y]
  BY DEF CalibrationInv, Types
<1>2. Len(op) \in Nat /\ Len(op') \in Nat
  BY DEF CalibrationInv, Types, Records
<1>3. ASSUME NEW y \in Sessions, y # x PROVE s'[y].pc = "idle" /\ Sure(s[y])'
  <2>1. s[y].pc = "idle"
    BY <1>3, NamesAssumption DEF CalibrationInv, Exclusive
  <2>2. s[y].seen \in Nat /\ s[y].seen <= Len(op)
    BY DEF CalibrationInv, Types, Session, Placed, Sure
  <2> QED BY <1>1, <1>2, <1>3, <2>1, <2>2 DEF Sure, Working, Checking
<1>4. Placed'
  BY <1>1, <1>3 DEF Placed
<1>5. Exclusive'
  BY <1>1, <1>3, NamesAssumption DEF Exclusive
<1>6. Types'
  BY <1>1 DEF Records, Types
<1> QED BY <1>4, <1>5, <1>6 DEF CalibrationInv, Records

\* A session goes on with its operation, or gives it up.
LEMMA Onward ==
    ASSUME CalibrationInv, NEW x \in Sessions, s[x].pc \in Working,
           NEW new \in Session, s' = [s EXCEPT ![x] = new], UNCHANGED native,
           new.own = s[x].own, new.seen = s[x].seen, new.pc \notin {"idle", "recover", "other", "put"},
           new.pc \in Checking => s[x].pc \in Checking,
           new.pc \in {"owning", "running", "reconcile"} => new.left # << >>,
           new.pc = "owning" => new.proc[1] = new.own /\ new.proc[2] <= op'[new.own].calls,
           Only(s[x].own), Records'
    PROVE  CalibrationInv'
<1>1. ASSUME s'[x] = new PROVE Sure(s[x])'
  BY <1>1, Situation DEF Sure, Working, Checking, Only
<1>2. s[x].pc # "idle" /\ Len(op) <= Len(op') /\ new.pc # "idle" /\ native' = x
  BY Situation DEF Only, Working, Checking
<1> QED BY <1>1, <1>2, NamesAssumption, Preserved

\* One operation is recorded anew, and at most its next process appears.
LEMMA Amended ==
    ASSUME CalibrationInv, NEW o \in DOMAIN op, NEW made \in Operation, op' = [op EXCEPT ![o] = made],
           \A q \in made.owned : q[1] = o /\ q[2] <= made.calls,
           op[o].calls <= made.calls,
           alive' \subseteq Process,
           \A q \in alive' : q \in alive \/ (q[1] = o /\ q[2] <= made.calls /\ q \notin op[o].owned),
           Clean(made.cleanup) => made.owned \cap alive' = {},
           o \in evidence => Clean(made.cleanup),
           UNCHANGED <<evidence, published>>
    PROVE  Records' /\ Only(o) /\ op'[o] = made
<1> USE DEF CalibrationInv, Types
<1>1. /\ op' \in Seq(Operation) /\ Len(op') = Len(op) /\ DOMAIN op' = DOMAIN op
      /\ op'[o] = made /\ \A k \in DOMAIN op : k # o => op'[k] = op[k]
  BY Replaced
<1>2. \A k \in DOMAIN op : op[k].calls \in Nat /\ op[k].owned \subseteq Process
  <2> TAKE k \in DOMAIN op
  <2>1. op[k] \in Operation
    OBVIOUS
  <2> QED BY <2>1 DEF Operation
<1>3. \A q \in alive' : q[1] \in DOMAIN op' /\ q[2] <= op'[q[1]].calls
  <2> TAKE q \in alive'
  <2>1. CASE q \in alive
    <3>1. q[1] \in DOMAIN op /\ q[2] <= op[q[1]].calls /\ q[2] \in Nat
      BY <2>1 DEF CalNumbered
    <3>2. op[q[1]].calls <= op'[q[1]].calls /\ op'[q[1]].calls \in Nat
      BY <1>1, <1>2, <3>1 DEF Operation
    <3> QED BY <1>1, <1>2, <3>1, <3>2
  <2>2. CASE q \notin alive
    BY <1>1, <2>2
  <2> QED BY <2>1, <2>2
<1>4. \A k \in DOMAIN op' : \A q \in op'[k].owned : q[1] = k /\ q[2] <= op'[k].calls
  BY <1>1 DEF CalNumbered
<1>5. ASSUME NEW k \in DOMAIN op', Clean(op'[k].cleanup) PROVE op'[k].owned \cap alive' = {}
  <2>1. CASE k = o
    BY <1>1, <1>5, <2>1
  <2>2. CASE k # o
    <3>1. op[k].owned \cap alive = {} /\ \A q \in op[k].owned : q[1] = k
      BY <1>1, <1>5, <2>2 DEF Truthful, CalNumbered
    <3> QED BY <1>1, <2>2, <3>1
  <2> QED BY <2>1, <2>2
<1>6. \A k \in evidence' : Clean(op'[k].cleanup)
  BY <1>1 DEF Truthful
<1> QED BY <1>1, <1>3, <1>4, <1>5, <1>6 DEF CalNumbered, Truthful, Records, Only

\* What a reconciliation of an operation does.
LEMMA Cleaned ==
    ASSUME CalibrationInv, NEW o \in DOMAIN op, Reconciled(o), UNCHANGED <<evidence, published>>, o \notin evidence
    PROVE  Records' /\ Only(o)
<1>1. op[o] \in Operation
  BY DEF CalibrationInv, Types
<1> PICK surviving \in SUBSET (op[o].owned \cap alive) :
      /\ alive' = alive \ (op[o].owned \ surviving)
      /\ op' = [op EXCEPT ![o].cleanup = IF surviving = {} THEN "ok" ELSE "bad"]
  BY <1>1 DEF Reconciled, Operation
<1> DEFINE made == [op[o] EXCEPT !.cleanup = IF surviving = {} THEN "ok" ELSE "bad"]
<1>2. /\ made \in Operation /\ made.owned = op[o].owned /\ made.calls = op[o].calls /\ op[o].calls \in Nat
      /\ made.cleanup = IF surviving = {} THEN "ok" ELSE "bad"
  BY <1>1 DEF Operation
<1>3. op' = [op EXCEPT ![o] = made]
  BY <1>1 DEF Operation
<1> HIDE DEF made
<1>4. alive' \subseteq Process /\ \A q \in alive' : q \in alive
  BY DEF CalibrationInv, Types
<1>5. \A q \in made.owned : q[1] = o /\ q[2] <= made.calls
  BY <1>2 DEF CalibrationInv, CalNumbered
<1>6. Clean(made.cleanup) => made.owned \cap alive' = {}
  BY <1>2
<1>7. op[o].calls <= made.calls
  BY <1>2
<1> QED BY <1>2, <1>3, <1>4, <1>5, <1>6, <1>7, Amended
-----------------------------------------------------------------------------
(* The steps of a session without an operation. *)

LEMMA IdleType == Idle \in Session
  BY DEF Idle, Session, CalPlaces

LEMMA EnterStep == ASSUME CalibrationInv, NEW x \in Sessions, Enter(x) PROVE CalibrationInv'
<1> DEFINE new == [Idle EXCEPT !.pc = "recover"]
<1>1. native = Nobody /\ Records'
  BY Situation, Untouched DEF Enter, Exclusive, CalibrationInv
<1>2. new \in Session /\ s' = [s EXCEPT ![x] = new] /\ new.pc = "recover" /\ new.seen = 0
  BY Situation, IdleType DEF Enter, Session, CalPlaces, Idle
<1>3. native' \in {x, Nobody} /\ (new.pc # "idle" <=> native' = x)
  BY <1>1, <1>2, Situation, NamesAssumption DEF Enter
<1>4. UNCHANGED <<op, evidence>> /\ Len(op) <= Len(op')
  BY Situation DEF Enter
<1> HIDE DEF new
<1>5. ASSUME s'[x] = new PROVE Sure(s[x])'
  BY <1>1, <1>2, <1>4, <1>5, Situation DEF Sure, Working, Checking
<1>6. s[x].pc # "idle" \/ native = Nobody
  BY <1>1, Situation
<1> QED BY <1>1, <1>2, <1>3, <1>4, <1>5, <1>6, Preserved

LEMMA OthersStep == ASSUME CalibrationInv, NEW x \in Sessions, Others(x) PROVE CalibrationInv'
<1> DEFINE new == [s[x] EXCEPT !.pc = "other"]
<1>1. s[x].pc = "recover" /\ s[x].seen = Len(op) /\ Records'
  BY Situation, Untouched DEF Others, Exclusive, CalibrationInv
<1>2. new \in Session /\ s' = [s EXCEPT ![x] = new] /\ new.pc = "other" /\ new.seen = s[x].seen
  BY Situation, IdleType DEF Others, Session, CalPlaces, Idle
<1>3. native' \in {x, Nobody} /\ (new.pc # "idle" <=> native' = x)
  BY <1>1, <1>2, Situation, NamesAssumption DEF Others
<1>4. UNCHANGED <<op, evidence>> /\ Len(op) <= Len(op')
  BY Situation DEF Others
<1> HIDE DEF new
<1>5. ASSUME s'[x] = new PROVE Sure(s[x])'
  BY <1>1, <1>2, <1>4, <1>5, Situation DEF Sure, Working, Checking
<1>6. s[x].pc # "idle" \/ native = Nobody
  BY <1>1, Situation
<1> QED BY <1>1, <1>2, <1>3, <1>4, <1>5, <1>6, Preserved

LEMMA SignalStep == ASSUME CalibrationInv, NEW x \in Sessions, Signal(x) PROVE CalibrationInv'
<1> DEFINE new == [s[x] EXCEPT !.cut = TRUE]
<1>1. s[x].pc # "idle" /\ Records'
  BY Situation, Untouched DEF Signal, Exclusive, CalibrationInv
<1>2. new \in Session /\ s' = [s EXCEPT ![x] = new] /\ new.pc = s[x].pc /\ new.seen = s[x].seen
      /\ new.own = s[x].own
      /\ new.left = s[x].left /\ new.proc = s[x].proc
  BY Situation, IdleType DEF Signal, Session, CalPlaces, Idle
<1>3. native' \in {x, Nobody} /\ (new.pc # "idle" <=> native' = x)
  BY <1>1, <1>2, Situation, NamesAssumption DEF Signal
<1>4. UNCHANGED <<op, evidence>> /\ Len(op) <= Len(op')
  BY Situation DEF Signal
<1> HIDE DEF new
<1>5. ASSUME s'[x] = new PROVE Sure(s[x])'
  BY <1>1, <1>2, <1>4, <1>5, Situation DEF Sure, Working, Checking
<1>6. s[x].pc # "idle" \/ native = Nobody
  BY <1>1, Situation
<1> QED BY <1>1, <1>2, <1>3, <1>4, <1>5, <1>6, Preserved

LEMMA LeaveStep == ASSUME CalibrationInv, NEW x \in Sessions, Leave(x) PROVE CalibrationInv'
<1> DEFINE new == Idle
<1>1. s[x].pc # "idle" /\ Records'
  BY Situation, Untouched DEF Leave, Exclusive, CalibrationInv
<1>2. new \in Session /\ s' = [s EXCEPT ![x] = new] /\ new.pc = "idle" /\ new.seen = 0
  BY Situation, IdleType DEF Leave, Session, CalPlaces, Idle
<1>3. native' \in {x, Nobody} /\ (new.pc # "idle" <=> native' = x)
  BY <1>1, <1>2, Situation, NamesAssumption DEF Leave
<1>4. UNCHANGED <<op, evidence>> /\ Len(op) <= Len(op')
  BY Situation DEF Leave
<1> HIDE DEF new
<1>5. ASSUME s'[x] = new PROVE Sure(s[x])'
  BY <1>1, <1>2, <1>4, <1>5, Situation DEF Sure, Working, Checking
<1>6. s[x].pc # "idle" \/ native = Nobody
  BY <1>1, Situation
<1> QED BY <1>1, <1>2, <1>3, <1>4, <1>5, <1>6, Preserved

LEMMA CrashStep == ASSUME CalibrationInv, NEW x \in Sessions, Crash(x) PROVE CalibrationInv'
<1> DEFINE new == Idle
<1>1. s[x].pc # "idle" /\ Records'
  BY Situation, Untouched DEF Crash, Exclusive, CalibrationInv
<1>2. new \in Session /\ s' = [s EXCEPT ![x] = new] /\ new.pc = "idle" /\ new.seen = 0
  BY Situation, IdleType DEF Crash, Session, CalPlaces, Idle
<1>3. native' \in {x, Nobody} /\ (new.pc # "idle" <=> native' = x)
  BY <1>1, <1>2, Situation, NamesAssumption DEF Crash
<1>4. UNCHANGED <<op, evidence>> /\ Len(op) <= Len(op')
  BY Situation DEF Crash
<1> HIDE DEF new
<1>5. ASSUME s'[x] = new PROVE Sure(s[x])'
  BY <1>1, <1>2, <1>4, <1>5, Situation DEF Sure, Working, Checking
<1>6. s[x].pc # "idle" \/ native = Nobody
  BY <1>1, Situation
<1> QED BY <1>1, <1>2, <1>3, <1>4, <1>5, <1>6, Preserved

-----------------------------------------------------------------------------
(* The steps of a session with its operation. *)

LEMMA LaunchNone == ASSUME CalibrationInv, NEW x \in Sessions, Launch(x), s[x].cut PROVE CalibrationInv'
<1> DEFINE new == [s[x] EXCEPT !.pc = "stop"]
<1>1. s[x].pc = "checks"
  BY Situation DEF Launch, Working, Checking, Sure
<1>2. new \in Session /\ s' = [s EXCEPT ![x] = new] /\ new.seen = s[x].seen /\ new.own = s[x].own
      /\ new.pc = "stop"
  <2>1. s[x] \in Session
    BY Situation
  <2> QED BY <1>1, <2>1 DEF Launch, Session, CalPlaces
<1>3. Records' /\ Only(s[x].own) /\ UNCHANGED native
  BY Untouched DEF Launch, Only
<1> HIDE DEF new
<1> QED BY <1>1, <1>2, <1>3, Onward DEF Working, Checking

LEMMA CheckEndsReconcile ==
    ASSUME CalibrationInv, NEW x \in Sessions, CheckEnds(x), Goto(x, "reconcile")
    PROVE  CalibrationInv'
<1> DEFINE new == [s[x] EXCEPT !.pc = "reconcile"]
<1>1. s[x].pc = "running" /\ s[x].left # << >>
  BY Situation DEF CheckEnds, Working, Checking, Sure
<1>2. new \in Session /\ s' = [s EXCEPT ![x] = new] /\ new.seen = s[x].seen /\ new.own = s[x].own
      /\ new.pc = "reconcile" /\ new.left = s[x].left
  <2>1. s[x] \in Session
    BY Situation
  <2> QED BY <1>1, <2>1 DEF CheckEnds, Session, CalPlaces
<1>3. Records' /\ Only(s[x].own) /\ UNCHANGED native
  <2>1. alive' \subseteq alive /\ UNCHANGED <<native, op, evidence, published>>
    BY DEF CheckEnds
  <2> QED BY <2>1, Situation DEF Records, CalNumbered, Truthful, Only
<1> HIDE DEF new
<1> QED BY <1>1, <1>2, <1>3, Onward DEF Working, Checking

LEMMA CheckEndsStop ==
    ASSUME CalibrationInv, NEW x \in Sessions, CheckEnds(x), Goto(x, "stop")
    PROVE  CalibrationInv'
<1> DEFINE new == [s[x] EXCEPT !.pc = "stop"]
<1>1. s[x].pc = "running" /\ s[x].left # << >>
  BY Situation DEF CheckEnds, Working, Checking, Sure
<1>2. new \in Session /\ s' = [s EXCEPT ![x] = new] /\ new.seen = s[x].seen /\ new.own = s[x].own
      /\ new.pc = "stop"
  <2>1. s[x] \in Session
    BY Situation
  <2> QED BY <1>1, <2>1 DEF CheckEnds, Session, CalPlaces
<1>3. Records' /\ Only(s[x].own) /\ UNCHANGED native
  <2>1. alive' \subseteq alive /\ UNCHANGED <<native, op, evidence, published>>
    BY DEF CheckEnds
  <2> QED BY <2>1, Situation DEF Records, CalNumbered, Truthful, Only
<1> HIDE DEF new
<1> QED BY <1>1, <1>2, <1>3, Onward DEF Working, Checking

LEMMA CheckEndsNext ==
    ASSUME CalibrationInv, NEW x \in Sessions, CheckEnds(x), s' = [s EXCEPT ![x].pc = "checks", ![x].left = Tail(@)]
    PROVE  CalibrationInv'
<1> DEFINE new == [s[x] EXCEPT !.pc = "checks", !.left = Tail(s[x].left)]
<1>1. s[x].pc = "running" /\ s[x].left # << >>
  BY Situation DEF CheckEnds, Working, Checking, Sure
<1>a. Tail(s[x].left) \in Seq(Step)
  BY <1>1, Situation
<1>2. new \in Session /\ s' = [s EXCEPT ![x] = new] /\ new.seen = s[x].seen /\ new.own = s[x].own
      /\ new.pc = "checks"
  <2>1. s[x] \in Session
    BY Situation
  <2> QED BY <1>1, <1>a, <2>1 DEF CheckEnds, Session, CalPlaces
<1>3. Records' /\ Only(s[x].own) /\ UNCHANGED native
  <2>1. alive' \subseteq alive /\ UNCHANGED <<native, op, evidence, published>>
    BY DEF CheckEnds
  <2> QED BY <2>1, Situation DEF Records, CalNumbered, Truthful, Only
<1> HIDE DEF new
<1> QED BY <1>1, <1>2, <1>3, Onward DEF Working, Checking

LEMMA ReconcileStop ==
    ASSUME CalibrationInv, NEW x \in Sessions, Reconcile(x), Goto(x, "stop")
    PROVE  CalibrationInv'
<1> DEFINE new == [s[x] EXCEPT !.pc = "stop"]
<1>1. s[x].pc = "reconcile" /\ s[x].left # << >>
  BY Situation DEF Reconcile, Working, Checking, Sure
<1>2. new \in Session /\ s' = [s EXCEPT ![x] = new] /\ new.seen = s[x].seen /\ new.own = s[x].own
      /\ new.pc = "stop"
  <2>1. s[x] \in Session
    BY Situation
  <2> QED BY <1>1, <2>1 DEF Reconcile, Session, CalPlaces
<1>3. Records' /\ Only(s[x].own) /\ UNCHANGED native
  <2>1. Reconciled(s[x].own) /\ UNCHANGED <<native, evidence, published>>
    BY DEF Reconcile
  <2>2. s[x].own \in DOMAIN op /\ s[x].own \notin evidence
    BY <1>1, Situation DEF Working, Checking, Sure
  <2> QED BY <2>1, <2>2, Cleaned
<1> HIDE DEF new
<1> QED BY <1>1, <1>2, <1>3, Onward DEF Working, Checking

LEMMA ReconcileNext ==
    ASSUME CalibrationInv, NEW x \in Sessions, Reconcile(x), s' = [s EXCEPT ![x].pc = "checks", ![x].left = Tail(@)]
    PROVE  CalibrationInv'
<1> DEFINE new == [s[x] EXCEPT !.pc = "checks", !.left = Tail(s[x].left)]
<1>1. s[x].pc = "reconcile" /\ s[x].left # << >>
  BY Situation DEF Reconcile, Working, Checking, Sure
<1>a. Tail(s[x].left) \in Seq(Step)
  BY <1>1, Situation
<1>2. new \in Session /\ s' = [s EXCEPT ![x] = new] /\ new.seen = s[x].seen /\ new.own = s[x].own
      /\ new.pc = "checks"
  <2>1. s[x] \in Session
    BY Situation
  <2> QED BY <1>1, <1>a, <2>1 DEF Reconcile, Session, CalPlaces
<1>3. Records' /\ Only(s[x].own) /\ UNCHANGED native
  <2>1. Reconciled(s[x].own) /\ UNCHANGED <<native, evidence, published>>
    BY DEF Reconcile
  <2>2. s[x].own \in DOMAIN op /\ s[x].own \notin evidence
    BY <1>1, Situation DEF Working, Checking, Sure
  <2> QED BY <2>1, <2>2, Cleaned
<1> HIDE DEF new
<1> QED BY <1>1, <1>2, <1>3, Onward DEF Working, Checking

LEMMA StopRaise == ASSUME CalibrationInv, NEW x \in Sessions, Stop(x), Goto(x, "raise") PROVE CalibrationInv'
<1> DEFINE new == [s[x] EXCEPT !.pc = "raise"]
<1>1. s[x].pc \in {"stop", "checks"}
  BY Situation DEF Stop, Working, Checking, Sure
<1>2. new \in Session /\ s' = [s EXCEPT ![x] = new] /\ new.seen = s[x].seen /\ new.own = s[x].own
      /\ new.pc = "raise"
  <2>1. s[x] \in Session
    BY Situation
  <2> QED BY <1>1, <2>1 DEF Stop, Session, CalPlaces
<1>3. Records' /\ Only(s[x].own) /\ UNCHANGED native
  <2>1. Reconciled(s[x].own) /\ UNCHANGED <<native, evidence, published>>
    BY DEF Stop
  <2>2. s[x].own \in DOMAIN op /\ s[x].own \notin evidence
    BY <1>1, Situation DEF Working, Checking, Sure
  <2> QED BY <2>1, <2>2, Cleaned
<1> HIDE DEF new
<1> QED BY <1>1, <1>2, <1>3, Onward DEF Working, Checking

LEMMA StopEvidence ==
    ASSUME CalibrationInv, NEW x \in Sessions, Stop(x), Cancelled(x, "evidence")
    PROVE  CalibrationInv'
<1> DEFINE new == [s[x] EXCEPT !.pc = IF s[x].cut THEN "raise" ELSE "evidence"]
<1>1. s[x].pc \in {"stop", "checks"}
  BY Situation DEF Stop, Working, Checking, Sure
<1>2. new \in Session /\ s' = [s EXCEPT ![x] = new] /\ new.seen = s[x].seen /\ new.own = s[x].own
      /\ new.pc \in {"raise", "evidence"}
  <2>1. s[x] \in Session
    BY Situation
  <2> QED BY <1>1, <2>1 DEF Stop, Session, CalPlaces
<1>3. Records' /\ Only(s[x].own) /\ UNCHANGED native
  <2>1. Reconciled(s[x].own) /\ UNCHANGED <<native, evidence, published>>
    BY DEF Stop
  <2>2. s[x].own \in DOMAIN op /\ s[x].own \notin evidence
    BY <1>1, Situation DEF Working, Checking, Sure
  <2> QED BY <2>1, <2>2, Cleaned
<1> HIDE DEF new
<1> QED BY <1>1, <1>2, <1>3, Onward DEF Working, Checking

LEMMA EvidenceRefused ==
    ASSUME CalibrationInv, NEW x \in Sessions, Evidence(x), ~ Clean(op[Own(x)].cleanup)
    PROVE  CalibrationInv'
<1> DEFINE new == [s[x] EXCEPT !.pc = "raise"]
<1>1. s[x].pc = "evidence"
  BY Situation DEF Evidence, Working, Checking, Sure
<1>2. new \in Session /\ s' = [s EXCEPT ![x] = new] /\ new.seen = s[x].seen /\ new.own = s[x].own
      /\ new.pc = "raise"
  <2>1. s[x] \in Session
    BY Situation
  <2> QED BY <1>1, <2>1 DEF Evidence, Session, CalPlaces
<1>3. Records' /\ Only(s[x].own) /\ UNCHANGED native
  BY Untouched DEF Evidence, Only
<1> HIDE DEF new
<1> QED BY <1>1, <1>2, <1>3, Onward DEF Working, Checking

LEMMA LaunchStep == ASSUME CalibrationInv, NEW x \in Sessions, Launch(x), ~ s[x].cut PROVE CalibrationInv'
<1> DEFINE o == s[x].own
           made == [op[o] EXCEPT !.calls = @ + 1]
           new == [s[x] EXCEPT !.pc = "owning", !.proc = <<o, op[o].calls + 1>>]
<1>1. s[x].pc = "checks" /\ s[x].left # << >>
  BY Situation DEF Launch, Working, Checking, Sure
<1>2. op[o] \in Operation /\ o \in DOMAIN op
  BY <1>1, Situation DEF Working, Checking
<1>3. op[o].calls \in Nat /\ op[o].calls + 1 \in Nat /\ op[o].owned \subseteq Process
  BY <1>2 DEF Operation
<1>4. made \in Operation /\ made.owned = op[o].owned /\ made.calls = op[o].calls + 1
      /\ made.cleanup = op[o].cleanup
  BY <1>1, <1>2, <1>3, Situation DEF Operation
<1>5. op' = [op EXCEPT ![o] = made] /\ UNCHANGED <<native, evidence, published>>
  BY <1>1, <1>2 DEF Launch, Operation
<1>6. new \in Session /\ s' = [s EXCEPT ![x] = new] /\ new.seen = s[x].seen /\ new.own = s[x].own
      /\ new.pc = "owning" /\ new.left = s[x].left /\ new.proc = <<o, op[o].calls + 1>>
  <2>1. s[x] \in Session
    BY Situation
  <2> QED BY <1>1, <1>3, <2>1 DEF Launch, Session, CalPlaces
<1>7. /\ \A q \in op[o].owned : q[1] = o /\ q[2] <= op[o].calls
      /\ Clean(op[o].cleanup) => op[o].owned \cap alive = {}
      /\ o \in evidence => Clean(op[o].cleanup)
  BY <1>2 DEF CalibrationInv, CalNumbered, Truthful
<1> HIDE DEF made, new
<1>8. Records' /\ Only(o) /\ op'[o] = made
  <2>1. /\ \A q \in made.owned : q[1] = o /\ q[2] <= made.calls
        /\ op[o].calls <= made.calls
    BY <1>1, <1>3, <1>4, <1>7
  <2>2. /\ alive' \subseteq Process
        /\ \A q \in alive' : q \in alive \/ (q[1] = o /\ q[2] <= made.calls /\ q \notin op[o].owned)
    BY <1>1, <1>2, <1>3, <1>4, <1>7 DEF Launch, CalibrationInv, Types
  <2>3. /\ Clean(made.cleanup) => made.owned \cap alive' = {}
        /\ o \in evidence => Clean(made.cleanup)
    BY <1>1, <1>2, <1>3, <1>4, <1>7 DEF Launch
  <2> HIDE DEF o
  <2> QED BY <1>2, <1>4, <1>5, <2>1, <2>2, <2>3, Amended
<1>9. new.pc = "owning" => new.proc[1] = new.own /\ new.proc[2] <= op'[new.own].calls
  BY <1>3, <1>4, <1>6, <1>8
<1> QED BY <1>1, <1>5, <1>6, <1>8, <1>9, Onward DEF Working, Checking

LEMMA RecordStep == ASSUME CalibrationInv, NEW x \in Sessions, Record(x) PROVE CalibrationInv'
<1> DEFINE o == s[x].own
           made == [op[o] EXCEPT !.owned = @ \cup {s[x].proc}, !.cleanup = "none"]
           new == [s[x] EXCEPT !.pc = "running"]
<1>1. s[x].pc = "owning" /\ s[x].left # << >> /\ o \notin evidence
      /\ s[x].proc \in Process /\ s[x].proc[1] = o /\ s[x].proc[2] <= op[o].calls
  BY Situation DEF Record, Working, Checking, Sure
<1>2. op[o] \in Operation /\ o \in DOMAIN op
  BY <1>1, Situation DEF Working, Checking
<1>3. op[o].calls \in Nat /\ op[o].calls + 1 \in Nat /\ op[o].owned \subseteq Process
  BY <1>2 DEF Operation
<1>4. made \in Operation /\ made.owned = op[o].owned \cup {s[x].proc} /\ made.calls = op[o].calls
      /\ made.cleanup = "none"
  BY <1>1, <1>2, <1>3, Situation DEF Operation
<1>5. op' = [op EXCEPT ![o] = made] /\ UNCHANGED <<native, evidence, published>>
  BY <1>1, <1>2 DEF Record, Operation
<1>6. new \in Session /\ s' = [s EXCEPT ![x] = new] /\ new.seen = s[x].seen /\ new.own = s[x].own
      /\ new.pc = "running" /\ new.left = s[x].left
  <2>1. s[x] \in Session
    BY Situation
  <2> QED BY <1>1, <1>3, <2>1 DEF Record, Session, CalPlaces
<1>7. /\ \A q \in op[o].owned : q[1] = o /\ q[2] <= op[o].calls
      /\ Clean(op[o].cleanup) => op[o].owned \cap alive = {}
      /\ o \in evidence => Clean(op[o].cleanup)
  BY <1>2 DEF CalibrationInv, CalNumbered, Truthful
<1> HIDE DEF made, new
<1>8. Records' /\ Only(o) /\ op'[o] = made
  <2>1. /\ \A q \in made.owned : q[1] = o /\ q[2] <= made.calls
        /\ op[o].calls <= made.calls
    BY <1>1, <1>3, <1>4, <1>7
  <2>2. /\ alive' \subseteq Process
        /\ \A q \in alive' : q \in alive \/ (q[1] = o /\ q[2] <= made.calls /\ q \notin op[o].owned)
    BY <1>1, <1>2, <1>3, <1>4, <1>7 DEF Record, CalibrationInv, Types
  <2>3. /\ Clean(made.cleanup) => made.owned \cap alive' = {}
        /\ o \in evidence => Clean(made.cleanup)
    BY <1>1, <1>2, <1>3, <1>4, <1>7 DEF Record
  <2> HIDE DEF o
  <2> QED BY <1>2, <1>4, <1>5, <2>1, <2>2, <2>3, Amended
<1>9. new.pc = "owning" => new.proc[1] = new.own /\ new.proc[2] <= op'[new.own].calls
  BY <1>3, <1>4, <1>6, <1>8
<1> QED BY <1>1, <1>5, <1>6, <1>8, <1>9, Onward DEF Working, Checking

LEMMA NameStep == ASSUME CalibrationInv, NEW x \in Sessions, Name(x) PROVE CalibrationInv'
<1> DEFINE o == s[x].own
           made == [op[o] EXCEPT !.result = TRUE]
           new == [s[x] EXCEPT !.pc = "raise"]
<1>1. s[x].pc = "name"
  BY Situation DEF Name, Working, Checking, Sure
<1>2. op[o] \in Operation /\ o \in DOMAIN op
  BY <1>1, Situation DEF Working, Checking
<1>3. op[o].calls \in Nat /\ op[o].calls + 1 \in Nat /\ op[o].owned \subseteq Process
  BY <1>2 DEF Operation
<1>4. made \in Operation /\ made.owned = op[o].owned /\ made.calls = op[o].calls /\ made.cleanup = op[o].cleanup
  BY <1>1, <1>2, <1>3, Situation DEF Operation
<1>5. op' = [op EXCEPT ![o] = made] /\ UNCHANGED <<native, evidence, published>>
  BY <1>1, <1>2 DEF Name, Operation
<1>6. new \in Session /\ s' = [s EXCEPT ![x] = new] /\ new.seen = s[x].seen /\ new.own = s[x].own
      /\ new.pc = "raise"
  <2>1. s[x] \in Session
    BY Situation
  <2> QED BY <1>1, <1>3, <2>1 DEF Name, Session, CalPlaces
<1>7. /\ \A q \in op[o].owned : q[1] = o /\ q[2] <= op[o].calls
      /\ Clean(op[o].cleanup) => op[o].owned \cap alive = {}
      /\ o \in evidence => Clean(op[o].cleanup)
  BY <1>2 DEF CalibrationInv, CalNumbered, Truthful
<1> HIDE DEF made, new
<1>8. Records' /\ Only(o) /\ op'[o] = made
  <2>1. /\ \A q \in made.owned : q[1] = o /\ q[2] <= made.calls
        /\ op[o].calls <= made.calls
    BY <1>1, <1>3, <1>4, <1>7
  <2>2. /\ alive' \subseteq Process
        /\ \A q \in alive' : q \in alive \/ (q[1] = o /\ q[2] <= made.calls /\ q \notin op[o].owned)
    BY <1>1, <1>2, <1>3, <1>4, <1>7 DEF Name, CalibrationInv, Types
  <2>3. /\ Clean(made.cleanup) => made.owned \cap alive' = {}
        /\ o \in evidence => Clean(made.cleanup)
    BY <1>1, <1>2, <1>3, <1>4, <1>7 DEF Name
  <2> HIDE DEF o
  <2> QED BY <1>2, <1>4, <1>5, <2>1, <2>2, <2>3, Amended
<1>9. new.pc = "owning" => new.proc[1] = new.own /\ new.proc[2] <= op'[new.own].calls
  BY <1>3, <1>4, <1>6, <1>8
<1> QED BY <1>1, <1>5, <1>6, <1>8, <1>9, Onward DEF Working, Checking

-----------------------------------------------------------------------------
(* The steps that lead to an operation, and to its evidence. *)

LEMMA EvidenceTaken ==
    ASSUME CalibrationInv, NEW x \in Sessions, Evidence(x), Clean(op[Own(x)].cleanup)
    PROVE  CalibrationInv'
<1> DEFINE new == [s[x] EXCEPT !.pc = IF s[x].cut THEN "raise" ELSE "put"]
<1>1. s[x].pc = "evidence" /\ s[x].own \in DOMAIN op
  BY Situation DEF Evidence, Working, Checking, Sure
<1>2. new \in Session /\ s' = [s EXCEPT ![x] = new]
      /\ new.pc \in {"raise", "put"} /\ new.seen = s[x].seen /\ new.own = s[x].own
  <2>1. s[x] \in Session
    BY Situation
  <2> QED BY <1>1, <2>1, ChecksType DEF Evidence, Session, CalPlaces
<1>3. Records' /\ Len(op) <= Len(op') /\ op' = op /\ evidence' = evidence \cup {s[x].own}
  BY <1>1, Situation DEF Evidence, Records, CalNumbered, Truthful
<1>4. s[x].pc # "idle" /\ native = x /\ native' = x
  BY <1>1, Situation DEF Evidence
<1> HIDE DEF new
<1>5. ASSUME s'[x] = new PROVE Sure(s[x])'
  BY <1>1, <1>2, <1>3, <1>5, Situation DEF Sure, Working, Checking
<1>6. new.pc # "idle"
  BY <1>1, <1>2
<1> QED BY <1>2, <1>3, <1>4, <1>5, <1>6, NamesAssumption, Preserved

LEMMA PutStep == ASSUME CalibrationInv, NEW x \in Sessions, Put(x) PROVE CalibrationInv'
<1> DEFINE new == [s[x] EXCEPT !.pc = "name"]
<1>1. s[x].pc = "put" /\ s[x].own \in DOMAIN op /\ s[x].own \in evidence
  BY Situation DEF Put, Working, Checking, Sure
<1>2. new \in Session /\ s' = [s EXCEPT ![x] = new] /\ new.pc = "name" /\ new.seen = s[x].seen
      /\ new.own = s[x].own
  <2>1. s[x] \in Session
    BY Situation
  <2> QED BY <1>1, <2>1, ChecksType DEF Put, Session, CalPlaces
<1>3. Records' /\ Len(op) <= Len(op') /\ op' = op /\ evidence' = evidence
  BY <1>1, Situation DEF Put, Records, CalNumbered, Truthful
<1>4. s[x].pc # "idle" /\ native = x /\ native' = x
  BY <1>1, Situation DEF Put
<1> HIDE DEF new
<1>5. ASSUME s'[x] = new PROVE Sure(s[x])'
  BY <1>1, <1>2, <1>3, <1>5, Situation DEF Sure, Working, Checking
<1>6. new.pc # "idle"
  BY <1>1, <1>2
<1> QED BY <1>2, <1>3, <1>4, <1>5, <1>6, NamesAssumption, Preserved

LEMMA RecoverClean ==
    ASSUME CalibrationInv, NEW x \in Sessions, Recover(x), Clean(op[s[x].seen + 1].cleanup)
    PROVE  CalibrationInv'
<1> DEFINE new == [s[x] EXCEPT !.seen = s[x].seen + 1]
<1>1. s[x].pc = "recover" /\ s[x].seen < Len(op) /\ s[x].seen \in Nat /\ s[x].seen + 1 \in Nat
  BY Situation DEF Recover, Working, Checking, Sure
<1>2. new \in Session /\ s' = [s EXCEPT ![x] = new] /\ new.pc = "recover" /\ new.seen = s[x].seen + 1
  <2>1. s[x] \in Session
    BY Situation
  <2> QED BY <1>1, <2>1, ChecksType DEF Recover, Session, CalPlaces
<1>3. Records' /\ Len(op) <= Len(op') /\ UNCHANGED <<op, evidence>>
  BY Situation, Untouched DEF Recover
<1>4. s[x].pc # "idle" /\ native = x /\ native' = x
  BY <1>1, Situation DEF Recover
<1> HIDE DEF new
<1>5. ASSUME s'[x] = new PROVE Sure(s[x])'
  BY <1>1, <1>2, <1>3, <1>5, Situation DEF Sure, Working, Checking
<1>6. new.pc # "idle"
  BY <1>1, <1>2
<1> QED BY <1>2, <1>3, <1>4, <1>5, <1>6, NamesAssumption, Preserved

LEMMA RecoverDirty ==
    ASSUME CalibrationInv, NEW x \in Sessions, Recover(x), ~ Clean(op[s[x].seen + 1].cleanup)
    PROVE  CalibrationInv'
<1> DEFINE new == [s[x] EXCEPT !.seen = s[x].seen + 1, !.pc = IF Raises(s[x].seen + 1) THEN "raise" ELSE @]
<1>1. s[x].pc = "recover" /\ s[x].seen < Len(op) /\ s[x].seen \in Nat /\ s[x].seen + 1 \in Nat
  BY Situation DEF Recover, Working, Checking, Sure
<1>2. new \in Session /\ s' = [s EXCEPT ![x] = new] /\ new.seen = s[x].seen + 1
      /\ new.pc = IF Raises(s[x].seen + 1) THEN "raise" ELSE "recover"
  <2>1. s[x] \in Session
    BY Situation
  <2> QED BY <1>1, <2>1, ChecksType DEF Recover, Session, CalPlaces
<1>3. Records' /\ Len(op) <= Len(op') /\ Only(s[x].seen + 1)
  <2>1. Reconciled(s[x].seen + 1) /\ UNCHANGED <<evidence, published>>
    BY DEF Recover
  <2>2. s[x].seen + 1 \in DOMAIN op /\ s[x].seen + 1 \notin evidence
    BY <1>1, Situation DEF Records, Truthful
  <2>3. Len(op') = Len(op) /\ Records' /\ Only(s[x].seen + 1)
    BY <2>1, <2>2, Cleaned DEF Only
  <2> QED BY <2>3, Situation
<1>4. s[x].pc # "idle" /\ native = x /\ native' = x
  BY <1>1, Situation DEF Recover
<1> HIDE DEF new
<1>5. ASSUME s'[x] = new PROVE Sure(s[x])'
  BY <1>1, <1>2, <1>3, <1>5, Situation DEF Sure, Working, Checking, Only
<1>6. new.pc # "idle"
  BY <1>1, <1>2
<1> QED BY <1>2, <1>3, <1>4, <1>5, <1>6, NamesAssumption, Preserved

LEMMA CreateStep == ASSUME CalibrationInv, NEW x \in Sessions, Create(x) PROVE CalibrationInv'
<1> DEFINE new == [s[x] EXCEPT !.pc = "checks", !.own = Len(op) + 1, !.left = Checks]
<1>1. s[x].pc = "recover" /\ s[x].seen = Len(op) /\ Len(op) + 1 \in Nat
  BY Situation DEF Create, Working, Checking, Sure
<1>2. new \in Session /\ s' = [s EXCEPT ![x] = new] /\ new.pc = "checks" /\ new.own = Len(op) + 1
      /\ new.seen = s[x].seen
  <2>1. s[x] \in Session
    BY Situation
  <2> QED BY <1>1, <2>1, ChecksType DEF Create, Session, CalPlaces
<1>3. Records' /\ Len(op) <= Len(op') /\ Len(op') = Len(op) + 1
      /\ evidence' = evidence /\ Len(op) + 1 \notin evidence /\ DOMAIN op' = 1..(Len(op) + 1)
      /\ \A k \in DOMAIN op : op'[k] = op[k]
  <2>1. op' = Append(op, NewOp) /\ UNCHANGED <<alive, evidence, published>>
    BY DEF Create
  <2>2. NewOp \in Operation /\ NewOp.owned = {} /\ NewOp.calls = 0
    BY DEF NewOp, Operation
  <2>3. /\ op' \in Seq(Operation) /\ Len(op') = Len(op) + 1 /\ DOMAIN op' = 1..(Len(op) + 1)
        /\ op'[Len(op) + 1] = NewOp /\ \A k \in DOMAIN op : op'[k] = op[k]
    BY <2>1, <2>2, Situation DEF Records
  <2>4. CalNumbered'
    BY <2>1, <2>2, <2>3, Situation DEF Records, CalNumbered
  <2>5. Truthful'
    BY <2>1, <2>2, <2>3, Situation DEF Records, Truthful
  <2> QED BY <2>1, <2>3, <2>4, <2>5, Situation DEF Records
<1>4. s[x].pc # "idle" /\ native = x /\ native' = x
  BY <1>1, Situation DEF Create
<1> HIDE DEF new
<1>5. ASSUME s'[x] = new PROVE Sure(s[x])'
  BY <1>1, <1>2, <1>3, <1>5, Situation DEF Sure, Working, Checking
<1>6. new.pc # "idle"
  BY <1>1, <1>2
<1> QED BY <1>2, <1>3, <1>4, <1>5, <1>6, NamesAssumption, Preserved

-----------------------------------------------------------------------------
(* The theorems. *)

LEMMA CalibrationBegins == Init => CalibrationInv
<1> SUFFICES ASSUME Init PROVE CalibrationInv
  OBVIOUS
<1>1. op = << >> /\ DOMAIN op = {} /\ Len(op) = 0 /\ alive = {} /\ evidence = {} /\ published = {}
      /\ native = Nobody
  BY DEF Init
<1>2. s \in [Sessions -> Session] /\ \A x \in Sessions : s[x].pc = "idle" /\ s[x].seen = 0
  BY IdleType DEF Init, Idle
<1>3. Types
  BY <1>1, <1>2 DEF Types
<1>4. Exclusive
  BY <1>1, <1>2, NamesAssumption DEF Exclusive
<1>5. CalNumbered /\ Truthful
  BY <1>1 DEF CalNumbered, Truthful
<1>6. Placed
  BY <1>1, <1>2 DEF Placed, Sure, Working, Checking
<1> QED BY <1>3, <1>4, <1>5, <1>6 DEF CalibrationInv

LEMMA CalibrationSteps == CalibrationInv /\ [Next]_vars => CalibrationInv'
<1> SUFFICES ASSUME CalibrationInv, [Next]_vars PROVE CalibrationInv'
  OBVIOUS
<1>1. ASSUME NEW x \in Sessions, Recover(x) PROVE CalibrationInv'
  <2>1. op[s[x].seen + 1].cleanup = "ok" \/ op[s[x].seen + 1].cleanup # "ok"
    OBVIOUS
  <2> QED BY <1>1, <2>1, RecoverClean, RecoverDirty
<1>2. ASSUME NEW x \in Sessions, Launch(x) PROVE CalibrationInv'
  <2>1. s[x].cut \/ ~ s[x].cut
    OBVIOUS
  <2> QED BY <1>2, <2>1, LaunchStep, LaunchNone
<1>3. ASSUME NEW x \in Sessions, CheckEnds(x) PROVE CalibrationInv'
  <2>1. \/ Goto(x, "reconcile") \/ Goto(x, "stop")
        \/ s' = [s EXCEPT ![x].pc = "checks", ![x].left = Tail(@)]
    BY <1>3 DEF CheckEnds
  <2> QED BY <1>3, <2>1, CheckEndsReconcile, CheckEndsStop, CheckEndsNext
<1>4. ASSUME NEW x \in Sessions, Reconcile(x) PROVE CalibrationInv'
  <2>1. Goto(x, "stop") \/ s' = [s EXCEPT ![x].pc = "checks", ![x].left = Tail(@)]
    BY <1>4 DEF Reconcile
  <2> QED BY <1>4, <2>1, ReconcileStop, ReconcileNext
<1>5. ASSUME NEW x \in Sessions, Stop(x) PROVE CalibrationInv'
  <2>1. Goto(x, "raise") \/ Cancelled(x, "evidence")
    BY <1>5 DEF Stop
  <2> QED BY <1>5, <2>1, StopRaise, StopEvidence
<1>6. ASSUME NEW x \in Sessions, Evidence(x) PROVE CalibrationInv'
  BY <1>6, EvidenceRefused, EvidenceTaken
<1>7. CASE UNCHANGED vars
  BY <1>7 DEF vars, CalibrationInv, Types, Exclusive, CalNumbered, Truthful, Placed, Sure
<1> QED
  BY <1>1, <1>2, <1>3, <1>4, <1>5, <1>6, <1>7, EnterStep, CreateStep, OthersStep, SignalStep, RecordStep,
     PutStep, NameStep, LeaveStep, CrashStep DEF Next

\* The inductive invariant holds throughout: reports of a clean cleanup are true,
\* and whoever launches has made sure of all earlier operations
\* (calibration_recovery.reconcile_calibrations, CalibrationOwnership).
THEOREM CalibrationInvariant == Spec => []CalibrationInv
  BY CalibrationBegins, CalibrationSteps, PTL DEF Spec

LEMMA Sound == CalibrationInv => CalibrationSound
<1> SUFFICES ASSUME CalibrationInv PROVE CalibrationSound
  OBVIOUS
<1>1. QuietResult
  BY DEF CalibrationInv, Types, Truthful, QuietResult
<1>2. NoneBeside
  <2> SUFFICES ASSUME NEW x \in Sessions, s[x].pc \in {"other", "checks", "owning", "running"},
                      NEW o \in 1..Len(op), o # Own(x)
               PROVE  op[o].owned \cap alive = {}
    BY DEF NoneBeside
  <2>1. o \in DOMAIN op
    BY DEF CalibrationInv, Types
  <2>2. Clean(op[o].cleanup)
    BY <2>1 DEF CalibrationInv, Placed, Sure, Working, Checking
  <2> QED BY <2>1, <2>2 DEF CalibrationInv, Truthful
<1> QED BY <1>1, <1>2 DEF CalibrationSound

\* Evidence is taken and published only when no process recorded for it runs,
\* and no session launches anything beside a recorded process of another
\* calibration, wherever earlier sessions died (calibrations.calibrate_case).
THEOREM CalibrationsQuiet == Spec => []CalibrationSound
  BY CalibrationInvariant, Sound, PTL
=============================================================================
