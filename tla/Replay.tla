--------------------------------- MODULE Replay ---------------------------------
(* Replaying calls of an attempt (replay.py): the requests are read from its    *)
(* capture, or from the run directory while there is none, without any lock,    *)
(* from an attempt that may still be under way; all of them before any is sent. *)
(* They are sent while no run is, into a directory of their own, and reported   *)
(* when every one has been. Of a call one knows its role, and which file of it  *)
(* is there; of a request, whose call's it is.                                  *)
EXTENDS Naturals, Sequences, FiniteSets, SequencesExt

CONSTANTS
    Calls, Role,      \* of the attempt, in the order it makes them; "stand_in" or "inspector"
    Asked,            \* what may be asked for: calls, or None for every stand-in call
    Procs, Outs,      \* replays, and the directories that they may be told to write to
    Lacks,            \* calls that hand over a fact which the replacement case lacks
    MaxFaults, None

VARIABLES
    status,      \* of each call in the run's journal: none, intent, completed, failed
    run, capture,     \* of each call its files, in the run directory and in the capture; None if there is none
    at,          \* the runner: running, captured, gone
    lock,        \* the store's native lock: None, "runner", or a replay
    place,       \* of each directory: None, or [by, made: the calls sent into it, report]
    cmd,         \* of each replay: pc, call (None for every stand-in call), replaced (the case is), out, seen, captured, todo, ready, sent
    cancelled, faults

vars == <<status, run, capture, at, lock, place, cmd, cancelled, faults>>
attempt == <<status, run, capture, at>>

Made(s) == SelectSeq(Calls, LAMBDA c : s[c] # "none")
StandIns(s) == SelectSeq(Made(s), LAMBDA c : Role[c] = "stand_in")
Fresh(call, replaced, out) ==
    [pc |-> "inspect", call |-> call, replaced |-> replaced, out |-> out, seen |-> None, captured |-> FALSE, todo |-> <<>>, ready |-> <<>>, sent |-> <<>>]
Theirs == [by |-> "somebody else", made |-> <<>>, report |-> None]

Init ==
    /\ status = [c \in Range(Calls) |-> "none"] /\ run = [c \in Range(Calls) |-> {}] /\ capture = None
    /\ at = "running" /\ lock = "runner" /\ place \in [Outs -> {None, Theirs}]
    /\ cmd \in [Procs -> {Fresh(c, r, o) : c \in Asked, r \in BOOLEAN, o \in Outs}]
    /\ cancelled = {} /\ faults = 0

-----------------------------------------------------------------------------
\* The attempt goes on: an intent, the request, the answer or the error, the result; then its capture,
\* which may leave files out; and the run ends, or is killed before it has captured anything.
Current == IF Made(status) = <<>> THEN None ELSE Last(Made(status))
Runs == at = "running" /\ lock = "runner" /\ UNCHANGED <<place, cmd, cancelled>>
Intend ==
    /\ Runs
    /\ Current # None => status[Current] \in {"completed", "failed"}
    /\ Len(Made(status)) < Len(Calls)
    /\ status' = [status EXCEPT ![Calls[Len(Made(status)) + 1]] = "intent"]
    /\ UNCHANGED <<run, capture, at, lock, faults>>
Record(file, before) ==
    /\ Runs /\ Current # None /\ status[Current] = "intent" /\ run[Current] = before
    /\ run' = [run EXCEPT ![Current] = @ \cup {file}] /\ UNCHANGED <<status, capture, at, lock, faults>>
Conclude ==
    /\ Runs /\ Current # None /\ status[Current] = "intent" /\ Cardinality(run[Current]) = 2
    /\ \E ending \in {"failed"} \cup (IF "response" \in run[Current] THEN {"completed"} ELSE {}) :     \* an answer may be rejected
        status' = [status EXCEPT ![Current] = ending]
    /\ UNCHANGED <<run, capture, at, lock, faults>>
Capture ==
    /\ Runs
    /\ Current # None => status[Current] \in {"completed", "failed"}
    /\ at' = "captured" /\ lock' = None
    /\ \/ capture' = run /\ UNCHANGED faults
       \/ /\ faults < MaxFaults /\ faults' = faults + 1
          /\ \E c \in Range(Calls), file \in {"request", "response"} : capture' = [run EXCEPT ![c] = @ \ {file}]
    /\ UNCHANGED <<status, run>>
Die ==
    /\ Runs /\ faults < MaxFaults /\ faults' = faults + 1 /\ at' = "gone" /\ lock' = None
    /\ UNCHANGED <<status, run, capture>>

-----------------------------------------------------------------------------
Becomes(p, with) == cmd' = [cmd EXCEPT ![p] = with]
Goto(p, to) == [cmd[p] EXCEPT !.pc = to]
At(p, pc) == cmd[p].pc = pc /\ UNCHANGED attempt

Selected(call) == IF call = None THEN StandIns(status) ELSE SelectSeq(Made(status), LAMBDA c : c = call)

\* The run is read once: what it then knows of its calls, and whether there is a capture.
Inspect(p) ==
    /\ At(p, "inspect")
    /\ Becomes(p, IF Selected(cmd[p].call) = <<>> THEN Goto(p, "refused")
                  ELSE [cmd[p] EXCEPT !.pc = "prepare", !.seen = status, !.captured = capture # None, !.todo = Selected(cmd[p].call)])
    /\ UNCHANGED <<lock, place, cancelled, faults>>

\* The request, and nothing less, decides where a call's files are taken from.
FromStore(p, c) == cmd[p].captured /\ "request" \in capture[c]
FromRun(p, c) == ~FromStore(p, c) /\ "request" \in run[c]
Files(p, c) == IF FromStore(p, c) THEN capture[c] ELSE run[c]
Position(p, c) == IF Role[c] = "stand_in" THEN IndexFirstSubSeq(<<c>>, StandIns(cmd[p].seen)) - 1 ELSE 0
Old(p, c) == [status |-> cmd[p].seen[c], answered |-> Role[c] = "inspector" /\ "response" \in Files(p, c)]
Prepared(p, c) == [call |-> c, source |-> IF FromStore(p, c) THEN "store" ELSE "run", index |-> Position(p, c), old |-> Old(p, c)]

\* What the call hands over is in the replacement case too.
Replaceable(p, c) == cmd[p].replaced => c \notin Lacks

Damaged == faults < MaxFaults /\ faults' = faults + 1
Prepare(p) ==
    LET c == Head(cmd[p].todo) IN
    /\ At(p, "prepare") /\ cmd[p].todo # <<>>
    /\ \/ /\ Becomes(p, IF (FromStore(p, c) \/ FromRun(p, c)) /\ Replaceable(p, c)
                        THEN [cmd[p] EXCEPT !.todo = Tail(@), !.ready = Append(@, Prepared(p, c))]
                        ELSE Goto(p, "refused"))
          /\ UNCHANGED faults
       \/ Damaged /\ cmd[p].captured /\ Becomes(p, Goto(p, "refused"))     \* a blob that fails its check
    /\ UNCHANGED <<lock, place, cancelled>>

\* Nothing is written before the lock is held; a directory that is there is refused.
AllReady(p) == cmd[p].todo = <<>>
Locked(p) ==
    /\ At(p, "prepare") /\ AllReady(p)
    /\ IF lock = None THEN lock' = p /\ Becomes(p, Goto(p, "directory")) ELSE UNCHANGED lock /\ Becomes(p, Goto(p, "refused"))
    /\ UNCHANGED <<place, cancelled, faults>>
Unlocked(p) == lock' = IF lock = p THEN None ELSE lock
Vacant(o) == place[o] = None
MakeDirectory(p) ==
    /\ At(p, "directory")
    /\ \/ Vacant(cmd[p].out) /\ place' = [place EXCEPT ![cmd[p].out] = [by |-> p, made |-> <<>>, report |-> None]]
          /\ Becomes(p, Goto(p, "send")) /\ UNCHANGED lock
       \/ ~Vacant(cmd[p].out) /\ Becomes(p, Goto(p, "refused")) /\ Unlocked(p) /\ UNCHANGED place
    /\ UNCHANGED <<cancelled, faults>>

\* A call is sent, and succeeds or fails; when it was cancelled, that is the end.
Sent(c, outcome) == [call |-> c.call, source |-> c.source, index |-> c.index, old |-> c.old, new |-> outcome]
Send(p, outcome) ==
    LET c == cmd[p].ready[Len(cmd[p].sent) + 1] IN
    /\ At(p, "send") /\ Len(cmd[p].sent) < Len(cmd[p].ready)
    /\ place' = [place EXCEPT ![cmd[p].out].made = Append(@, c.call)]
    /\ IF p \in cancelled THEN Becomes(p, Goto(p, "cancelled")) /\ Unlocked(p)
       ELSE Becomes(p, [cmd[p] EXCEPT !.sent = Append(@, Sent(c, outcome))]) /\ UNCHANGED lock
    /\ UNCHANGED <<cancelled, faults>>
Unlock(p) ==
    /\ At(p, "send") /\ Len(cmd[p].sent) = Len(cmd[p].ready)
    /\ Becomes(p, Goto(p, "report")) /\ Unlocked(p) /\ UNCHANGED <<place, cancelled, faults>>
Report(p) ==
    /\ At(p, "report") /\ Becomes(p, Goto(p, "done"))
    /\ place' = [place EXCEPT ![cmd[p].out].report = cmd[p].sent] /\ UNCHANGED <<lock, cancelled, faults>>

\* SIGINT and SIGTERM are noted while the lock is held; a kill leaves the directory behind.
Cancel(p) ==
    /\ At(p, "send") /\ cancelled' = cancelled \cup {p} /\ UNCHANGED <<lock, place, cmd, faults>>
Kill(p) ==
    /\ cmd[p].pc \in {"prepare", "directory", "send", "report"} /\ faults < MaxFaults /\ faults' = faults + 1
    /\ Becomes(p, Goto(p, "killed")) /\ Unlocked(p) /\ UNCHANGED <<status, run, capture, at, place, cancelled>>

Next ==
    \/ Intend \/ Record("request", {}) \/ Record("response", {"request"}) \/ Record("error", {"request"})
    \/ Conclude \/ Capture \/ Die
    \/ \E p \in Procs :
        \/ Inspect(p) \/ Prepare(p) \/ Locked(p) \/ MakeDirectory(p)
        \/ \E outcome \in {"completed", "failed"} : Send(p, outcome)
        \/ Unlock(p) \/ Report(p) \/ Cancel(p) \/ Kill(p)

Spec == Init /\ [][Next]_vars
-----------------------------------------------------------------------------
\* A report names every call that was selected when the run was read, in order and once, each of them
\* sent into the directory by this replay alone, at the place it has among all of the attempt's calls,
\* with the source its request came from; nothing is sent while a run is under way, and nothing at all
\* is left by a replay that was refused.
CallOrder == [c \in Range(Calls) |-> IndexFirstSubSeq(<<c>>, Calls)]
ReplayWhole ==
    /\ \A o \in Outs : place[o] \in {None, Theirs} \/
        LET p == place[o].by IN
        /\ cmd[p].out = o /\ cmd[p].pc # "refused"
        /\ place[o].report # None =>
            LET calls == [i \in DOMAIN place[o].report |-> place[o].report[i].call] IN
            /\ calls = place[o].made
            /\ calls = IF cmd[p].call = None THEN StandIns(cmd[p].seen) ELSE <<cmd[p].call>>
            /\ \A i \in DOMAIN calls :
                /\ place[o].report[i].source = "store" => capture # None /\ "request" \in capture[calls[i]]
                /\ place[o].report[i].index =
                     IF Role[calls[i]] = "inspector" THEN 0
                     ELSE Cardinality({c \in Range(Calls) : Role[c] = "stand_in" /\ CallOrder[c] < CallOrder[calls[i]]})
                /\ place[o].report[i].old.status = "completed" => status[calls[i]] = "completed"
    /\ \A p \in Procs : cmd[p].pc = "send" => lock = p
=============================================================================
