------------------------------- MODULE RunReports -------------------------------
(* Reports of runs and their comparison (reports.py): a report is made of one    *)
(* reading of a run that goes on meanwhile, of what its frozen inputs and        *)
(* captures still are, and may be exported; a comparison takes two of them, one  *)
(* after the other, and pairs the latest attempts of what was the same trial.    *)
EXTENDS Naturals, Sequences, FiniteSets, Functions

CONSTANTS
    Runs, Signature,      \* runs, and what identifies their experiment but for the variants
    Trials,               \* of each run
    Variant, Identity,    \* of a trial: its variant; its case, repetition and seed
    Results,              \* what an assessment says: eligible, outcome, criteria
    Begun,                \* the attempts that a run may have had when this begins
    MaxEvents,            \* bound on what happens to the runs
    None

VARIABLES
    attempts,             \* of each run, in their order: trial, result, capture
    frozen,               \* of each run's experiment: "whole", "invalid", "lost"
    exported,             \* a portable report
    at, left, right,      \* the comparison: its step, and the reports it has read
    chosen, comparison,   \* the two variants that were selected; what it says
    events

vars == <<attempts, frozen, exported, at, left, right, chosen, comparison, events>>

VariantNames == {Variant[t] : t \in Trials}

Init ==
    /\ attempts \in [Runs -> Begun] /\ frozen = [r \in Runs |-> "whole"] /\ exported = None
    /\ at = "left" /\ left = None /\ right = None /\ comparison = None /\ events = 0
    /\ chosen \in {None} \cup (VariantNames \X VariantNames)

-----------------------------------------------------------------------------
(* The runs. *)

Event == events < MaxEvents /\ events' = events + 1 /\ UNCHANGED <<at, left, right, chosen, comparison>>

\* A trial is attempted, or attempted again.
Attempt(r, t) ==
    /\ Event /\ attempts' = [attempts EXCEPT ![r] = Append(@, [trial |-> t, result |-> None, capture |-> "none"])]
    /\ UNCHANGED <<frozen, exported>>

\* It is assessed, at first or once more.
Assess(r, i, result) ==
    /\ Event
    /\ attempts' = [attempts EXCEPT ![r][i] = [@ EXCEPT !.result = result, !.capture = IF @ = "none" THEN "kept" ELSE @]]
    /\ UNCHANGED <<frozen, exported>>

Damage(r, i) ==
    /\ Event /\ attempts[r][i].capture = "kept" /\ attempts' = [attempts EXCEPT ![r][i].capture = "damaged"]
    /\ UNCHANGED <<frozen, exported>>

\* Objects that the experiment refers to are damaged, or its own.
Spoil(r, status) ==
    /\ Event /\ frozen[r] # "lost" /\ status # frozen[r] /\ frozen' = [frozen EXCEPT ![r] = status]
    /\ UNCHANGED <<attempts, exported>>

-----------------------------------------------------------------------------
(* A report. *)

\* Without the experiment, an attempt is what its result says it was.
Known(r, a) == frozen[r] # "lost" \/ a.result # None

Exclusions(r, a) ==
    (IF frozen[r] # "whole" THEN {"current_inputs_invalid"} ELSE {})
      \cup (IF a.capture = "damaged" THEN {"current_capture_invalid"} ELSE {})

Row(r, i) ==
    LET a == attempts[r][i]
    IN  [trial |-> a.trial, attempt |-> i, result |-> a.result, exclusions |-> Exclusions(r, a),
         variant |-> IF Known(r, a) THEN Variant[a.trial] ELSE "unknown",
         pairing |-> IF Known(r, a) THEN Identity[a.trial] ELSE None]

Rows(r) == [i \in 1..Len(attempts[r]) |-> Row(r, i)]
Unstarted(r) == Trials \ {attempts[r][i].trial : i \in 1..Len(attempts[r])}

Eligible(row) == row.result # None /\ row.result.eligible /\ row.exclusions = {}

AllOfThem(rows) == DOMAIN rows         \* retries beside what they replace

\* The latest attempt of each of the trials.
Latest(rows) == {i \in DOMAIN rows : \A j \in DOMAIN rows : rows[j].trial = rows[i].trial => j <= i}

Passes(rows, over) == Cardinality({i \in over : rows[i].result.outcome = "pass"})

Counted(rows, over) ==
    LET eligible == {i \in over : Eligible(rows[i])}
    IN  [attempts |-> Cardinality(over), eligible |-> Cardinality(eligible), passes |-> Passes(rows, eligible)]

\* All attempts of a variant count for its rates, the latest of each trial for its line of the table.
Group(rows, scheduled, variant) ==
    LET members == {i \in DOMAIN rows : rows[i].variant = variant}
    IN  [all |-> Counted(rows, members), table |-> Counted(rows, members \cap Latest(rows)),
         excluded |-> Cardinality({i \in members : rows[i].exclusions # {}}),
         scheduled |-> Cardinality({t \in scheduled : Variant[t] = variant})]

\* A variant without an attempt has a group as well, while the experiment is there to name it.
Groups(rows, scheduled) ==
    LET named == {rows[i].variant : i \in DOMAIN rows} \cup {Variant[t] : t \in scheduled}
    IN  [v \in named |-> Group(rows, scheduled, v)]

Scheduled(r) == IF frozen[r] = "lost" THEN {} ELSE Trials

Report(r) ==
    [run |-> r, rows |-> Rows(r), unstarted |-> IF frozen[r] = "lost" THEN {} ELSE Unstarted(r), scheduled |-> Scheduled(r),
     groups |-> Groups(Rows(r), Scheduled(r)), signature |-> IF frozen[r] = "lost" THEN None ELSE Signature[r]]

Export(r) ==
    /\ Event /\ exported = None /\ exported' = Report(r)
    /\ UNCHANGED <<attempts, frozen>>

-----------------------------------------------------------------------------
(* A comparison. *)

Reports == {Report(r) : r \in Runs} \cup ({exported} \ {None})
Run == <<attempts, frozen, exported, events, chosen>>

ReadLeft ==
    /\ at = "left" /\ at' = "right" /\ left' \in Reports /\ UNCHANGED <<right, comparison, Run>>
ReadRight ==
    /\ at = "right" /\ at' = "pair" /\ right' \in Reports /\ UNCHANGED <<left, comparison, Run>>

\* _pairs: the latest attempts, by what identifies their trial, and by their variant unless one was selected. Of two
\* with one key the later trial's stays.
Of(rows, i) == IF rows[i].pairing # None THEN rows[i].pairing ELSE rows[i].trial
Key(rows, i, variant) == <<Of(rows, i), IF variant = None THEN rows[i].variant ELSE None>>
Taken(rows, variant) == {i \in Latest(rows) : variant # None => rows[i].variant = variant}
Pairs(rows, variant) ==
    LET taken == Taken(rows, variant)
        by(k) == {i \in taken : Key(rows, i, variant) = k}
    IN  [k \in {Key(rows, i, variant) : i \in taken} |-> CHOOSE i \in by(k) : \A j \in by(k) : j <= i]

Side(n) == IF chosen = None THEN None ELSE chosen[n]

Incompatible(earlier, later) ==
    IF left.signature # None /\ right.signature # None THEN left.signature # right.signature
    ELSE DOMAIN earlier # DOMAIN later

Compare ==
    /\ at = "pair" /\ at' = "over"
    /\ LET earlier == Pairs(left.rows, Side(1))
           later == Pairs(right.rows, Side(2))
           both == {k \in DOMAIN earlier \cap DOMAIN later :
                      LET a == left.rows[earlier[k]] b == right.rows[later[k]]
                      IN  Eligible(a) /\ Eligible(b) /\ a.result.criteria = b.result.criteria}
       IN  comparison' =
             IF DOMAIN earlier = {} \/ DOMAIN later = {} \/ Incompatible(earlier, later) THEN [made |-> FALSE]
             ELSE [made |-> TRUE, pairs |-> {<<earlier[k], later[k]>> : k \in both},
                   excluded |-> <<Cardinality({k \in DOMAIN earlier : ~Eligible(left.rows[earlier[k]])}),
                                  Cardinality({k \in DOMAIN later : ~Eligible(right.rows[later[k]])})>>]
    /\ UNCHANGED <<left, right, Run>>

Next ==
    \/ \E r \in Runs, t \in Trials : Attempt(r, t)
    \/ \E r \in Runs : \E i \in 1..Len(attempts[r]) : Damage(r, i) \/ \E result \in Results : Assess(r, i, result)
    \/ \E r \in Runs : Export(r) \/ \E status \in {"invalid", "lost"} : Spoil(r, status)
    \/ ReadLeft \/ ReadRight \/ Compare

Spec == Init /\ [][Next]_vars
-----------------------------------------------------------------------------
Total(of) == FoldFunction(+, 0, of)

\* A report accounts for every attempt and for every trial once: each attempt is in one group, each trial is in the
\* table once or listed as not started, and nothing counts as a pass that is not eligible.
Accounted(rep) ==
    /\ Total([v \in DOMAIN rep.groups |-> rep.groups[v].all.attempts]) = Len(rep.rows)
    /\ rep.scheduled # {} => Total([v \in DOMAIN rep.groups |-> rep.groups[v].table.attempts]) + Cardinality(rep.unstarted) = Cardinality(Trials)
    /\ \A v \in DOMAIN rep.groups :
         LET g == rep.groups[v]
         IN  /\ g.table.passes <= g.table.eligible /\ g.table.eligible <= g.all.eligible /\ g.all.passes <= g.all.eligible
             /\ g.all.eligible + g.excluded <= g.all.attempts
             /\ rep.scheduled # {} => g.table.attempts <= g.scheduled

Superseded(rows, i) == \E j \in DOMAIN rows : j > i /\ rows[j].trial = rows[i].trial

\* Two attempts are paired when they are the latest ones, as reported, of what was the same trial but for the variants
\* that were selected, both count and answer to the same criteria; none that is, is left out or paired twice; and
\* experiments that are known to differ are not compared.
Fair(a, b) ==
    /\ Identity[left.rows[a].trial] = Identity[right.rows[b].trial]
    /\ IF chosen = None THEN Variant[left.rows[a].trial] = Variant[right.rows[b].trial]
       ELSE Variant[left.rows[a].trial] = chosen[1] /\ Variant[right.rows[b].trial] = chosen[2]
    /\ ~Superseded(left.rows, a) /\ ~Superseded(right.rows, b) /\ Eligible(left.rows[a]) /\ Eligible(right.rows[b])
    /\ left.rows[a].result.criteria = right.rows[b].result.criteria

ReportsSound ==
    /\ left # None => Accounted(left)
    /\ at = "over" /\ comparison.made =>
         /\ comparison.pairs = {p \in (DOMAIN left.rows) \X (DOMAIN right.rows) : Fair(p[1], p[2])}
         /\ \A p, q \in comparison.pairs : p[1] = q[1] <=> p[2] = q[2]
         /\ Signature[left.run] # Signature[right.run] => comparison.pairs = {}
         /\ \A n \in 1..2 : Cardinality(comparison.pairs) + comparison.excluded[n] <= Cardinality(Trials)
=============================================================================
