---------------------------- MODULE CaseWorkflow ----------------------------
(***************************************************************************)
(* What the interaction promises about a case's workflow, whatever the     *)
(* subject, the stand-in and the terminal do: one message is in flight at  *)
(* a time; a prompt step moves the position, and a request to fix counts   *)
(* as raised, once, and only after the subject accepted the message; and   *)
(* the workflow is complete only with every step delivered and a verdict,  *)
(* reached after the last message, that no requirement is unmet.           *)
(***************************************************************************)
EXTENDS Naturals

CONSTANT NSteps     \* the prompt steps of the case

VARIABLES
    inflight,   \* the message that the subject was last sent
    taken,      \* whether the subject accepted it
    position,   \* prompt steps noted as delivered
    raises,     \* requests to fix noted as raised
    outcome     \* running, complete or ended

vars == <<inflight, taken, position, raises, outcome>>

Messages == {"reply", "step", "fix"}

TypeOK ==
    /\ inflight \in Messages \cup {"none", "noted"}
    /\ taken \in BOOLEAN
    /\ position \in 0..NSteps
    /\ raises \in Nat
    /\ outcome \in {"running", "complete", "ended"}

Init ==
    /\ inflight = "none"
    /\ taken = FALSE
    /\ position = 0
    /\ raises = 0
    /\ outcome = "running"

\* A further message goes out only when the last one was accepted and noted.
Send(message) ==
    /\ outcome = "running"
    /\ inflight \in {"none", "noted"} \/ (inflight = "reply" /\ taken)
    /\ message = "step" => position < NSteps
    /\ inflight' = message
    /\ taken' = FALSE
    /\ UNCHANGED <<position, raises, outcome>>

Take ==
    /\ inflight \in Messages
    /\ ~ taken
    /\ taken' = TRUE
    /\ UNCHANGED <<inflight, position, raises, outcome>>

NoteStep ==
    /\ outcome = "running"
    /\ inflight = "step"
    /\ taken
    /\ position' = position + 1
    /\ inflight' = "noted"
    /\ UNCHANGED <<taken, raises, outcome>>

NoteFix ==
    /\ outcome = "running"
    /\ inflight = "fix"
    /\ taken
    /\ raises' = raises + 1
    /\ inflight' = "noted"
    /\ UNCHANGED <<taken, position, outcome>>

Complete ==
    /\ outcome = "running"
    /\ position = NSteps
    /\ taken
    /\ inflight \in {"reply", "noted"}
    /\ outcome' = "complete"
    /\ UNCHANGED <<inflight, taken, position, raises>>

\* A budget, an interruption, a failure or a crash ends it at any point.
End ==
    /\ outcome = "running"
    /\ outcome' = "ended"
    /\ UNCHANGED <<inflight, taken, position, raises>>

Next ==
    \/ \E message \in Messages : Send(message)
    \/ Take
    \/ NoteStep
    \/ NoteFix
    \/ Complete
    \/ End

Spec == Init /\ [][Next]_vars
=============================================================================
