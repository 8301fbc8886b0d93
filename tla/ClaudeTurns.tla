---------------------------- MODULE ClaudeTurns ----------------------------
(***************************************************************************)
(* When a turn of Claude Code is over (drivers/claude, observe_turn).      *)
(* Claude goes on by itself after a turn ended, when a background agent or *)
(* shell has finished; the adapter knows its turns from the records of the *)
(* session's log only, which it reads one by one.  What Claude does and    *)
(* writes is modelled from the adapter, its tests and docs/tech/drivers.md *)
(* and is external; an action is one record with what the adapter makes of *)
(* it.                                                                     *)
(***************************************************************************)
EXTENDS Integers, FiniteSets

CONSTANTS
    Agents, Shells,   \* background tasks that may be launched
    Counts,           \* turn_duration has pendingBackgroundAgentCount (Claude 2.1.300)
    MaxTurns          \* bound

Tasks == Agents \cup Shells
None  == 0            \* no turn; turns are numbered from 1

VARIABLES
    turn,     \* the human turn that Claude is in
    phase,    \* idle; local: a slash command; busy; ended: its last response is written, its hooks run
    task,     \* none, running, finished, handed (its report was sent back), reported
    by,       \* the turn that launched it
    excused,  \* what may hold the turn for ever: a hook that stopped it, an agent that
              \* is never reported, one that an earlier turn left behind
    adapter,  \* ClaudeAdapter
    final     \* for each turn: the first event that ends it, as observe_turn looks for it

claude == <<turn, phase, task, by, excused>>
vars == <<claude, adapter, final>>

\* What the proofs ask of the constants.
ConstantsFit == IsFiniteSet(Agents) /\ MaxTurns \in Nat

\* held: a turn that ended with agents pending; count: held_agents, or -1;
\* background: the turn of each tracked task.
NewAdapter == [pending |-> None, held |-> None, count |-> -1, background |-> [k \in Tasks |-> None]]

Init ==
    /\ turn = None /\ phase = "idle" /\ task = [k \in Tasks |-> "none"]
    /\ by = [k \in Tasks |-> None] /\ excused = {}
    /\ adapter = NewAdapter
    /\ final = [t \in 1..MaxTurns |-> "none"]

Observed(t, kind) == final' = IF final[t] = "none" THEN [final EXCEPT ![t] = kind] ELSE final

Tracked(b) == {k \in Agents : b[k] # None}

\* pendingBackgroundAgentCount: an agent counts until a record says that it finished.
Unreported == {k \in Agents : task[k] \in {"running", "finished", "handed"}}

Forget(k) == [adapter EXCEPT !.background[k] = None]
----------------------------------------------------------------------------
\* Records of a turn.

\* _handle_human: the next input, once the turn before is seen to be over.
Submit ==
    /\ phase = "idle" /\ turn < MaxTurns
    /\ turn # None => final[turn] = "completed"
    /\ turn' = turn + 1 /\ phase' \in {"busy", "local"}
    /\ excused' = IF Unreported = {} THEN {} ELSE {"left"}
    /\ adapter' = NewAdapter
    /\ UNCHANGED <<by, task, final>>

\* _handle_local_output: a slash command that Claude runs itself ends at once.
LocalOutput ==
    /\ phase = "local" /\ Observed(turn, "completed") /\ phase' = "idle"
    /\ UNCHANGED <<by, turn, task, excused, adapter>>

\* A tool's result names the task that it launched, or an agent that it resumed.
Launch(k) ==
    /\ phase = "busy" /\ task[k] \in {"none", "reported"}
    /\ task' = [task EXCEPT ![k] = "running"] /\ by' = [by EXCEPT ![k] = turn]
    /\ adapter' = [adapter EXCEPT !.pending = None, !.background[k] = turn]
    /\ UNCHANGED <<turn, phase, excused, final>>

TaskStop(k) ==
    /\ phase = "busy" /\ task[k] = "running"
    /\ task' = [task EXCEPT ![k] = "reported"]
    /\ adapter' = [Forget(k) EXCEPT !.pending = None]
    /\ UNCHANGED <<by, turn, phase, excused, final>>

\* An assistant's message with stop_reason end_turn.
EndTurn ==
    /\ phase = "busy" /\ phase' = "ended"
    /\ adapter' = [adapter EXCEPT !.pending = turn]
    /\ excused' = excused \ {"hook"}
    /\ UNCHANGED <<by, turn, task, final>>

\* A stop hook makes Claude go on, or stops it for good (preventedContinuation).
Hook(prevented) ==
    /\ phase = "ended"
    /\ IF prevented
       THEN adapter' = [adapter EXCEPT !.pending = None] /\ UNCHANGED phase
            /\ excused' = excused \cup {"hook"}
       ELSE phase' = "busy" /\ UNCHANGED <<adapter, excused>>
    /\ UNCHANGED <<by, turn, task, final>>

NonePending(count) == FALSE              \* turn_duration is taken at its word
AgentsPending(count) == IF count >= 0 THEN count > 0 ELSE Tracked(adapter.background) # {}

Reported == IF Counts THEN Cardinality(Unreported) ELSE -1

\* _system, of turn_duration.
Duration ==
    /\ phase = "ended" /\ phase' = "idle"
    /\ IF adapter.pending = None THEN UNCHANGED <<adapter, final>>
       ELSE IF AgentsPending(Reported)
            THEN /\ adapter' = [adapter EXCEPT !.pending = None, !.held = adapter.pending,
                                               !.count = Reported]
                 /\ UNCHANGED final
            ELSE /\ adapter' = [adapter EXCEPT !.held = None, !.count = -1]
                 /\ Observed(adapter.pending, "completed")
    /\ UNCHANGED <<by, turn, task, excused>>

\* An interrupted turn ends the attempt.
Interrupt ==
    /\ phase # "idle" /\ final[turn] = "none" /\ phase' = "idle"
    /\ adapter' = [adapter EXCEPT !.pending = None]
    /\ Observed(turn, "aborted")
    /\ UNCHANGED <<by, turn, task, excused>>
----------------------------------------------------------------------------
\* Background tasks.

Finish(k) ==
    /\ task[k] = "running" /\ task' = [task EXCEPT ![k] = "finished"]
    /\ UNCHANGED <<by, turn, phase, excused, adapter, final>>

\* An agent of which no record says that it finished; Claude does not count it.
FinishSilently(k) ==
    /\ Counts /\ k \in Agents /\ task[k] = "running"
    /\ task' = [task EXCEPT ![k] = "silent"]
    /\ excused' = excused \cup {"silent"}
    /\ UNCHANGED <<by, turn, phase, adapter, final>>

\* An attachment in the middle of a turn.
Queued(k) ==
    /\ phase = "busy" /\ task[k] = "finished"
    /\ task' = [task EXCEPT ![k] = "reported"]
    /\ adapter' = Forget(k)
    /\ UNCHANGED <<by, turn, phase, excused, final>>

\* _handle_notification: a message that makes Claude go on in the same turn.
Notification(k) ==
    /\ phase = "idle" /\ task[k] = "finished" /\ final[turn] # "aborted"
    /\ task' = [task EXCEPT ![k] = "reported"] /\ phase' = "busy"
    /\ adapter' = [Forget(k) EXCEPT !.pending = None]
    /\ UNCHANGED <<by, turn, excused, final>>

\* An agent's report comes back as a peer's message; Claude answers it.
HandBack(k) ==
    /\ Counts /\ k \in Agents /\ task[k] = "finished" /\ phase # "ended"
    /\ final[turn] # "aborted"
    /\ task' = [task EXCEPT ![k] = "handed"] /\ phase' = "busy"
    /\ UNCHANGED <<by, turn, excused, adapter, final>>

\* What is left of the agents of a held turn.
Finished(k) ==
    [Forget(k) EXCEPT !.count = IF @ >= 0 /\ k \in Agents /\ adapter.background[k] # None
                                THEN @ - 1 ELSE @]

\* queueTranscriptOnly: nobody answers this notification, and no turn_duration
\* follows it.
TranscriptOnly(k) ==
    /\ phase = "idle" /\ task[k] = "handed"
    /\ task' = [task EXCEPT ![k] = "reported"]
    /\ LET left == [Finished(k) EXCEPT !.pending = None] IN
       IF adapter.held = None \/ left.count > 0 \/ Tracked(left.background) # {}
       THEN /\ adapter' = IF adapter.held = None THEN [Forget(k) EXCEPT !.pending = None] ELSE left
            /\ UNCHANGED final
       ELSE /\ adapter' = [left EXCEPT !.held = None, !.count = -1]
            /\ Observed(adapter.held, "completed")
    /\ UNCHANGED <<by, turn, phase, excused>>

Next ==
    \/ Submit \/ LocalOutput \/ EndTurn \/ Duration \/ Interrupt
    \/ \E prevented \in BOOLEAN : Hook(prevented)
    \/ \E k \in Tasks :
         \/ Launch(k) \/ TaskStop(k) \/ Finish(k) \/ FinishSilently(k)
         \/ Queued(k) \/ Notification(k) \/ HandBack(k) \/ TranscriptOnly(k)

Spec == Init /\ [][Next]_vars
----------------------------------------------------------------------------
\* A turn that the driver takes for completed is over: Claude is idle, and no
\* agent that the turn launched is left whose end would make it go on.
OverStep == \A t \in 1..MaxTurns :
    final[t] = "none" /\ final'[t] = "completed" =>
        /\ t = turn /\ phase' = "idle"
        /\ \A k \in Agents : by[k] = t => task'[k] \notin {"running", "finished"}

\* When Claude is idle and everything is reported, the turn is seen to be over:
\* nothing would ever end it later.  A turn that may be held for ever is left to
\* the driver's timeout.
Quiet == phase = "idle" /\ turn # None /\ \A k \in Agents : task[k] \in {"none", "reported"}
NeverHeldForEver == Quiet /\ excused = {} => final[turn] # "none"

=============================================================================
