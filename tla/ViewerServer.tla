---------------------------- MODULE ViewerServer ----------------------------
(***************************************************************************)
(* The viewer's HTTP server (viewer_http): one thread accepts connections, *)
(* each connection gets a thread of its own, which waits for a slot and    *)
(* serves one request; and the server stops while all this goes on.        *)
(***************************************************************************)
EXTENDS Naturals, FiniteSets

CONSTANTS
    Clients,          \* connections
    MaxConnections, MaxConcurrent

VARIABLES
    conn,      \* away, queued, counted, refused (by the accepting thread), started, waiting,
               \* serving, turned (refused by its own thread), leaving, closed
    loop,      \* the accepting thread: polling, busy, ended
    accepted, handlers, slots,   \* _accepted, _handlers and what is left of _slots
    server     \* running, shutdown, joining, stopped, conflict

vars == <<conn, loop, accepted, handlers, slots, server>>

\* What the theorems ask of the constants.
ConstantsFit == IsFiniteSet(Clients) /\ MaxConnections \in Nat /\ MaxConcurrent \in Nat

Init ==
    /\ conn = [c \in Clients |-> "away"] /\ loop = "polling"
    /\ accepted = 0 /\ handlers = {} /\ slots = MaxConcurrent
    /\ server = "running"

In(stages) == {c \in Clients : conn[c] \in stages}
Moves(c, from, to) == conn[c] = from /\ conn' = [conn EXCEPT ![c] = to]

\* A connection waits in the listening socket, as long as there is one.
Connect(c) ==
    /\ server \in {"running", "shutdown"} /\ Moves(c, "away", "queued")
    /\ UNCHANGED <<loop, accepted, handlers, slots, server>>
----------------------------------------------------------------------------
\* serve_forever, process_request.

Saturated == accepted >= MaxConnections

\* One more connection is counted before its thread exists.
Accept(c) ==
    /\ loop = "polling" /\ Moves(c, "queued", IF Saturated THEN "refused" ELSE "counted")
    /\ loop' = "busy"
    /\ accepted' = IF Saturated THEN accepted ELSE accepted + 1
    /\ UNCHANGED <<handlers, slots, server>>

\* _refuse: the answer, and what the client still sends for a while.
Refuse(c) ==
    /\ Moves(c, "refused", "closed") /\ loop' = "polling"
    /\ UNCHANGED <<accepted, handlers, slots, server>>

StartThread(c) ==
    /\ Moves(c, "counted", "started") /\ loop' = "polling"
    /\ UNCHANGED <<accepted, handlers, slots, server>>

\* Mutant of NoThread: the connection is still counted.
StillCounted(c) ==
    /\ Moves(c, "counted", "closed") /\ loop' = "polling"
    /\ UNCHANGED <<accepted, handlers, slots, server>>

\* No thread can be started.
NoThread(c) ==
    /\ Moves(c, "counted", "closed") /\ loop' = "polling"
    /\ accepted' = accepted - 1
    /\ UNCHANGED <<handlers, slots, server>>

EndLoop ==
    /\ loop = "polling" /\ server = "shutdown" /\ loop' = "ended"
    /\ UNCHANGED <<conn, accepted, handlers, slots, server>>
----------------------------------------------------------------------------
\* process_request_thread.

Register(c) ==
    /\ Moves(c, "started", "waiting") /\ handlers' = handlers \cup {c}
    /\ UNCHANGED <<loop, accepted, slots, server>>

Acquire(c) ==
    /\ slots > 0 /\ Moves(c, "waiting", "serving") /\ slots' = slots - 1
    /\ UNCHANGED <<loop, accepted, handlers, server>>

\* No slot in slot_seconds: the same answer as of a full server.
TurnAway(c) ==
    /\ slots = 0 /\ Moves(c, "waiting", "turned")
    /\ UNCHANGED <<loop, accepted, handlers, slots, server>>

TurnedAway(c) ==
    /\ Moves(c, "turned", "leaving")
    /\ UNCHANGED <<loop, accepted, handlers, slots, server>>

\* The request is answered, or its client was too slow (socket_timeout).
Answer(c) ==
    /\ Moves(c, "serving", "leaving") /\ slots' = slots + 1
    /\ UNCHANGED <<loop, accepted, handlers, server>>

Leave(c) ==
    /\ Moves(c, "leaving", "closed")
    /\ handlers' = handlers \ {c} /\ accepted' = accepted - 1
    /\ UNCHANGED <<loop, slots, server>>
----------------------------------------------------------------------------
\* stop, and serve after an interrupt that finds the accepting thread polling.

Shutdown ==
    /\ server = "running" /\ server' = "shutdown"
    /\ UNCHANGED <<conn, loop, accepted, handlers, slots>>

\* The listening socket is closed, and those who wait there are cut off.
CloseListener ==
    /\ server = "shutdown" /\ loop = "ended" /\ server' = "joining"
    /\ conn' = [c \in Clients |-> IF conn[c] = "queued" THEN "closed" ELSE conn[c]]
    /\ UNCHANGED <<loop, accepted, handlers, slots>>

NobodyLeft == handlers = {} /\ accepted = 0

\* join_handlers.
Join ==
    /\ server = "joining" /\ NobodyLeft /\ server' = "stopped"
    /\ UNCHANGED <<conn, loop, accepted, handlers, slots>>

GiveUp ==
    /\ server = "joining" /\ ~ NobodyLeft /\ server' = "conflict"
    /\ UNCHANGED <<conn, loop, accepted, handlers, slots>>

Next ==
    \/ \E c \in Clients :
         \/ Connect(c) \/ Accept(c) \/ Refuse(c) \/ StartThread(c) \/ NoThread(c) \/ Register(c)
         \/ Acquire(c) \/ TurnAway(c) \/ TurnedAway(c) \/ Answer(c) \/ Leave(c)
    \/ EndLoop \/ Shutdown \/ CloseListener \/ Join \/ GiveUp

Spec == Init /\ [][Next]_vars
----------------------------------------------------------------------------
\* Every thread and every slot is accounted for, whatever fails and in whatever
\* order threads start and end: a failure never makes the server refuse the
\* connections that follow, and no more threads run than it allows.
Accounted ==
    /\ accepted = Cardinality(In({"counted", "started", "waiting", "serving", "turned", "leaving"}))
    /\ accepted <= MaxConnections
    /\ handlers = In({"waiting", "serving", "turned", "leaving"})
    /\ slots + Cardinality(In({"serving"})) = MaxConcurrent

\* A server that says that it stopped serves nobody any more and will not: not
\* even a connection whose thread was about to start.
StopHonest == server = "stopped" => loop = "ended" /\ \A c \in Clients : conn[c] \in {"away", "closed"}

\* The two together, of a server at any moment.
ServerSound == Accounted /\ StopHonest
=============================================================================
