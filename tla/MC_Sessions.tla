---------------------------- MODULE MC_Sessions ----------------------------
(* What must come to an end: a controller call with its process owner, and  *)
(* an assessment over several sessions.  A behaviour is one of either.      *)
EXTENDS RoleCall

VARIABLES part, att, heard, chain, work, regrades, left, trusted, x, spent

Others == <<att, heard, chain, work, regrades, left, trusted, x, spent>>
MCvars == <<part, vars, Others>>

Passes == INSTANCE Assessment WITH
    faults <- spent,
    Attempts <- {"a1", "a2"}, Verifiers <- 0, Metrics <- 1, Suited <- {}, HasFacts <- FALSE, Rubrics <- {},
    MaxCalls <- 1, Cases <- {}, Misfits <- {}, Findings <- {}, NoAttempt <- NoProc, NoCase <- NoProc,
    MaxRegrades <- 1, MaxReviews <- 0, MaxFaults <- 1
-----------------------------------------------------------------------------
\* The other part's variables stay as they are: those of the call at their
\* beginning, those of the passes at nothing.
MCInit ==
    /\ Init
    /\ \/ part = "call" /\ att = 0 /\ heard = 0 /\ chain = 0 /\ work = 0 /\ regrades = 0
                         /\ left = 0 /\ trusted = 0 /\ x = 0 /\ spent = 0
       \/ part = "passes" /\ Passes!Init

OfCall(A) == part = "call" /\ A /\ UNCHANGED <<part, Others>>
OfPass(A) == part = "passes" /\ A /\ UNCHANGED <<part, vars>>

MCNext == OfCall(Next) \/ OfPass(Passes!Next)

\* The fairness of both: a caller and a session are not suspended for ever,
\* every wait of a call has a deadline, and a user repeats the command that was
\* cut off.
MCFairSpec ==
    /\ MCInit /\ [][MCNext]_MCvars
    /\ WF_MCvars(OfCall(Caller) \/ OfPass(Passes!Session))
    /\ SF_MCvars(OfCall(CommandCut))
    /\ SF_MCvars(OfPass(Passes!Assess))
    /\ SF_MCvars(OfPass(Passes!Resume))
-----------------------------------------------------------------------------
\* Every call that is made returns, unless its caller dies (RoleCall).
CallReturns == part = "call" /\ At("mkdir") ~> part = "call" /\ Through

\* Whoever repeats the command that was cut off gets every attempt graded and
\* every regrade that was started finished (Assessment); the two attempts are
\* interchangeable.
PassesEnd ==
    /\ part = "passes" /\ Passes!Known("a1") ~> part = "passes" /\ Passes!Graded("a1")
    /\ part = "passes" /\ Passes!Open # 0 ~> part = "passes" /\ Passes!Open = 0
=============================================================================
