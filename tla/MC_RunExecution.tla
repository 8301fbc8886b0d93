-------------------------- MODULE MC_RunExecution --------------------------
(* Two questions, each asked of two instances; a behaviour is one of one of   *)
(* them.  Safety: one run whose attempts have setup commands and may be       *)
(* retried, and a store of two runs that two processes compete for.           *)
(* Liveness: one process that keeps resuming what was cut off, two runs of    *)
(* two trials, or one run whose attempts have setup commands.                 *)
EXTENDS RunExecution, TLC

CONSTANTS r2, e1, e2

VARIABLE part

MCvars == <<part, vars>>
-----------------------------------------------------------------------------
(* Safety.  Attempts and the two processes are interchangeable; so are the   *)
(* two runs, hence it is enough that what is said of each run is checked of  *)
(* r1, the one run of the first instance.                                    *)

Store == INSTANCE RunExecution WITH
    Runs <- Runs \cup {r2}, Procs <- {e1, e2}, Kinds <- {"daemon", "child"},
    MaxRetries <- 0, MaxFaults <- 3

MCInit ==
    \/ part = "retried" /\ Init
    \/ part = "store" /\ Store!Init

MCNext ==
    \/ part = "retried" /\ Next /\ UNCHANGED part
    \/ part = "store" /\ Store!Next /\ UNCHANGED part

MCSpec == MCInit /\ [][MCNext]_MCvars

Symmetry == Permutations(Ids) \cup Permutations({e1, e2})
-----------------------------------------------------------------------------
(* Liveness. *)

Only == {CHOOSE r \in Runs : TRUE}
Setup == INSTANCE RunExecution WITH
    Runs <- Only, Kinds <- {"setup", "helper", "daemon"}, MaxFaults <- 1

LiveInit ==
    \/ part = "trials" /\ Init
    \/ part = "setup" /\ Setup!Init

LiveNext ==
    \/ part = "trials" /\ Next /\ UNCHANGED part
    \/ part = "setup" /\ Setup!Next /\ UNCHANGED part

\* The fairness of both, see RunExecution.
Goes(e) ==
    \/ part = "trials" /\ (Reconcile(e) \/ Execute(e)) /\ UNCHANGED part
    \/ part = "setup" /\ (Setup!Reconcile(e) \/ Setup!Execute(e)) /\ UNCHANGED part

Begins(e, r) ==
    \/ part = "trials" /\ Start(e, r, {}) /\ UNCHANGED part
    \/ part = "setup" /\ r \in Only /\ Setup!Start(e, r, {}) /\ UNCHANGED part

LiveSpec ==
    /\ LiveInit /\ [][LiveNext]_MCvars
    /\ \A e \in Procs : WF_MCvars(Goes(e)) /\ \A r \in Runs : SF_MCvars(Begins(e, r))
=============================================================================
