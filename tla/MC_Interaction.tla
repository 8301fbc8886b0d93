--------------------------- MODULE MC_Interaction ---------------------------
(* Dialogs: one requirement and one step, two screens and a question.        *)
(* Liveness: a case of two phases, three facts (one of them optional) and    *)
(* two steps, conducted without screens; and a trial without a workflow,     *)
(* with a question, a screen and a subject that may exit.  A behaviour is    *)
(* one of one of them.                                                       *)
EXTENDS Interaction, TLC

VARIABLE part

MCVars == <<part, vars>>
-----------------------------------------------------------------------------
(* Dialogs. *)

OnePhaseOf  == ("build" :> 1)
OneStep     == <<1>>

DialogsSpec == (part = "dialogs" /\ Init) /\ [][Next /\ UNCHANGED part]_MCVars

Symmetry == Permutations(Screens)
-----------------------------------------------------------------------------
(* Liveness. *)

PhasedPhaseOf == ("build" :> 1) @@ ("review" :> 2) @@ ("tidy" :> 2)
PhasedSteps   == <<1, 2>>

Asking == INSTANCE Interaction WITH
    Workflow <- FALSE,
    Screens <- {"s1"}, Signals <- {"cancelled"}, Dialogs <- {"question", "exited"},
    MaxTurns <- 2, StandInReplies <- 2, MaxInspections <- 1, MaxCalls <- 2,
    ScreenActions <- 1, ScreenWaits <- 1, ScreenSteps <- 2

LiveInit ==
    \/ part = "phased" /\ Init
    \/ part = "asking" /\ Asking!Init

LiveNext ==
    \/ part = "phased" /\ Next /\ UNCHANGED part
    \/ part = "asking" /\ Asking!Next /\ UNCHANGED part

\* The runner's thread of either case.
LiveRunner ==
    \/ part = "phased" /\ Runner /\ UNCHANGED part
    \/ part = "asking" /\ Asking!Runner /\ UNCHANGED part

LiveSpec == LiveInit /\ [][LiveNext]_MCVars /\ WF_MCVars(LiveRunner)
=============================================================================
