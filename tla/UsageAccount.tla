------------------------------ MODULE UsageAccount ------------------------------
(* What a subject's use of its model is said to have been, and to have cost      *)
(* (drivers/usage.py, metrics.py). The agent logs its requests one by one, in    *)
(* snapshots that replace each other, or a running total of its own, which       *)
(* starts again when the agent does, or both; what a log leaves out is unknown.  *)
EXTENDS Naturals, Sequences, FiniteSetsExt, SequencesExt

CONSTANTS
    MaxRequests, MaxRecords, MaxOutput,
    Unknown,          \* a token count that a record leaves out
    Long, LongRates   \* an input above Long costs twice the rates, if the table has such rates

Fields == {"input", "output"}
Rate == [input |-> 1, output |-> 2]

VARIABLES
    requests,   \* history: the tokens of each request, so far
    segments,   \* history: requests before each start of the agent
    ledger,     \* UsageLedger.records, in order: [id, accounting, usage]
    totals,     \* history: of each cumulative record, the requests it counts and the tokens there were
    over        \* the log is read to its end

vars == <<requests, segments, ledger, totals, over>>

Init ==
    /\ requests = <<>> /\ segments = <<0>>
    /\ ledger = <<>> /\ totals = <<>> /\ over = FALSE

Sum(S, count(_)) == FoldSet(LAMBDA x, n : count(x) + n, 0, S)
UsedIn(f, from, to) == Sum((from + 1)..to, LAMBDA i : requests[i][f])

\* add: a record replaces the one of its identity, where that one was.
Noted(record) ==
    IF \E i \in DOMAIN ledger : ledger[i].id = record.id
    THEN [i \in DOMAIN ledger |-> IF ledger[i].id = record.id THEN record ELSE ledger[i]]
    ELSE Append(ledger, record)

-----------------------------------------------------------------------------
(* The agent and its log. A log that has responses has all of them.        *)

Response(logged) ==
    ledger' = IF ~ logged THEN ledger
              ELSE Noted([id |-> <<"response", Len(requests')>>, accounting |-> "response",
                          usage |-> requests'[Len(requests')]])

Logged == \A i \in DOMAIN requests : \E r \in ToSet(ledger) : r.id = <<"response", i>>
LoggedNone == \A r \in ToSet(ledger) : r.accounting # "response"

Request ==
    /\ ~ over /\ Len(requests) < MaxRequests
    /\ \E input \in {1, Long + 1}, logged \in {Logged, ~ LoggedNone} :
         /\ requests' = Append(requests, [input |-> input, output |-> 0])
         /\ Response(logged)
    /\ UNCHANGED <<segments, totals, over>>

\* The answer goes on, and a snapshot of it replaces the last.
Stream ==
    /\ ~ over /\ requests # <<>> /\ requests[Len(requests)].output < MaxOutput
    /\ Len(requests) > segments[Len(segments)]
    /\ requests' = [requests EXCEPT ![Len(requests)].output = @ + 1]
    /\ Response(~ LoggedNone)
    /\ UNCHANGED <<segments, totals, over>>

\* The agent's own total, as far as it says.
Total ==
    /\ ~ over /\ Len(totals) < MaxRecords
    /\ LET used == [f \in Fields |-> UsedIn(f, segments[Len(segments)], Len(requests))] IN
       \E missing \in {{}} \cup {{f} : f \in Fields} :
         /\ totals' = Append(totals, [segment |-> Len(segments), used |-> used])
         /\ ledger' = Noted([id |-> <<"line", Len(totals')>>, accounting |-> "cumulative",
                             usage |-> [f \in Fields |-> IF f \in missing THEN Unknown ELSE used[f]]])
    /\ UNCHANGED <<requests, segments, over>>

Restart ==
    /\ ~ over /\ Len(segments) < 2 /\ Len(requests) > 0
    /\ segments' = Append(segments, Len(requests))
    /\ UNCHANGED <<requests, ledger, totals, over>>

End == ~ over /\ over' = TRUE /\ UNCHANGED <<requests, segments, ledger, totals>>

Next == Request \/ Stream \/ Total \/ Restart \/ End \/ (over /\ UNCHANGED vars)

Spec == Init /\ [][Next]_vars

-----------------------------------------------------------------------------
(* The account.                                                            *)

Known(n) == n # Unknown
OfKind(accounting) == SelectSeq(ledger, LAMBDA r : r.accounting = accounting)

Decreased(before, now) ==
    \E f \in Fields : Known(before[f]) /\ Known(now[f]) /\ now[f] < before[f]

\* _cumulative: what each total adds to the one before; all of it at the start and after a restart.
Delta(records, i) ==
    LET now == records[i].usage IN
    [f \in Fields |->
       IF i = 1 \/ Decreased(records[i - 1].usage, now) THEN now[f]
       ELSE LET before == records[i - 1].usage[f] IN
            IF Known(now[f]) /\ Known(before) THEN now[f] - before ELSE Unknown]

\* _native_records: the responses, or what the totals add.
Records ==
    IF OfKind("response") # <<>> THEN [i \in DOMAIN OfKind("response") |-> OfKind("response")[i].usage]
    ELSE [i \in DOMAIN OfKind("cumulative") |-> Delta(OfKind("cumulative"), i)]

PerRequest == OfKind("response") # <<>>

TokenSum(f) ==
    LET known == {i \in DOMAIN Records : Known(Records[i][f])} IN
    IF known = {} THEN Unknown ELSE Sum(known, LAMBDA i : Records[i][f])

Price(usage, factor) == factor * (usage["input"] * Rate["input"] + usage["output"] * Rate["output"])
Factor(usage) == IF LongRates /\ usage["input"] > Long THEN 2 ELSE 1

\* _charge, _tier: no cost unless every count is known, and which rates apply.
Charged(usage) == (\A f \in Fields : Known(usage[f])) /\ (LongRates => PerRequest)

Cost == Sum({i \in DOMAIN Records : Charged(Records[i])}, LAMBDA i : Price(Records[i], Factor(Records[i])))

-----------------------------------------------------------------------------
TrueCost == Sum(DOMAIN requests, LAMBDA i : Price(requests[i], Factor(requests[i])))
LastOf(segment) == {i \in DOMAIN totals : totals[i].segment = segment
                       /\ \A j \in DOMAIN totals : totals[j].segment = segment => j <= i}
Lasts == UNION {LastOf(s) : s \in DOMAIN segments}
\* Every total says everything, and those after a restart are less than the last before it.
Plain ==
    /\ \A r \in ToSet(OfKind("cumulative")) : \A f \in Fields : Known(r.usage[f])
    /\ \A i \in DOMAIN totals : i > 1 /\ totals[i].segment # totals[i - 1].segment =>
         Decreased(totals[i - 1].used, totals[i].used)

\* No token is counted twice, nor a cost made of what was not known to be one request's. What was
\* logged by response is counted exactly; what was logged by totals alone, as far as the last of each start.
UsageExact ==
    over =>
      /\ \A f \in Fields : Known(TokenSum(f)) => TokenSum(f) <= UsedIn(f, 0, Len(requests))
      /\ Cost <= TrueCost
      /\ PerRequest => Cost = TrueCost /\ \A f \in Fields : TokenSum(f) = UsedIn(f, 0, Len(requests))
      /\ ~ PerRequest /\ Plain /\ totals # <<>> =>
           \A f \in Fields : TokenSum(f) = Sum(Lasts, LAMBDA i : totals[i].used[f])
=============================================================================
