---------------------------- MODULE WorkspaceInit ----------------------------
(* dryheave init (workspaces.py): the ownership record, the data directories,  *)
(* the store's format and the configuration are written in that order by       *)
(* commands that may run at once, be killed between any two writes, and find   *)
(* what the user has made, edited or removed.                                  *)
EXTENDS Naturals, FiniteSets

CONSTANTS
    Inits,            \* init commands
    Roles,            \* of the data directories; "store" is one
    Layouts,          \* the configured paths: what --runtime-root may change
    Settings,         \* what a user may edit: [git] commit, tui_test
    DefaultLayout, DefaultSettings,
    MaxUser,          \* bound on what the user does
    None

Keep == "keep"        \* an option that is not given

VARIABLES
    owner,      \* .dryheave-workspace.json: id, layout, settings
    directory,  \* of each role: None, "foreign", or the workspace it says it is of
    format,     \* the store has its format file
    config,     \* dryheave.toml: layout, settings
    lock,       \* the init that holds it
    init,       \* of each: at, layout, settings (asked for), existing (read), planned, missing
    meddled,    \* the user made, edited or removed what init does not expect
    racing,     \* the running inits during which the user changed something
    done        \* by the user

disk == <<owner, directory, format, config>>
vars == <<disk, lock, init, meddled, racing, done>>

Configs == [layout : Layouts, settings : Settings]
Owners == [id : Inits, layout : Layouts, settings : Settings]

\* What the theorems ask of the constants.
ConstantsFit ==
    /\ "foreign" \notin Inits /\ None \notin Inits \cup {"foreign"} \cup Configs \cup Owners
    /\ Keep \notin Layouts /\ DefaultLayout \in Layouts /\ DefaultSettings \in Settings /\ "store" \in Roles

Idle == [at |-> "idle", layout |-> Keep, settings |-> Keep, existing |-> None,
         planned |-> None, id |-> None, missing |-> {}]

Init ==
    /\ owner = None /\ directory = [r \in Roles |-> None] /\ format = FALSE /\ config = None
    /\ lock = None /\ init = [i \in Inits |-> Idle] /\ meddled = FALSE /\ racing = {} /\ done = 0

Running == {i \in Inits : init[i].at \notin {"idle", "done", "conflict", "busy", "killed"}}

-----------------------------------------------------------------------------
(* The user. *)

User == done < MaxUser /\ done' = done + 1 /\ racing' = racing \cup Running /\ UNCHANGED <<lock, init, owner>>

\* Settings may be edited; another layout is refused by init.
EditConfig(layout, settings) ==
    /\ User /\ config # None /\ config # [layout |-> layout, settings |-> settings]
    /\ config' = [layout |-> layout, settings |-> settings]
    /\ meddled' = (meddled \/ layout # config.layout)
    /\ UNCHANGED <<directory, format>>

MakeDirectory(r) ==
    /\ User /\ directory[r] = None /\ directory' = [directory EXCEPT ![r] = "foreign"]
    /\ meddled' = TRUE /\ UNCHANGED <<format, config>>

RemoveDirectory(r) ==
    /\ User /\ directory[r] # None /\ directory' = [directory EXCEPT ![r] = None]
    /\ format' = (format /\ r # "store")
    /\ meddled' = TRUE /\ UNCHANGED config

-----------------------------------------------------------------------------
Becomes(i, from, to) == init[i].at = from /\ init' = [init EXCEPT ![i] = to]
Goto(i, at) == [init[i] EXCEPT !.at = at]

\* The workspace's directory is locked; another init is told to come again.
Start(i, layout, settings) ==
    /\ IF lock = None
       THEN Becomes(i, "idle", [Idle EXCEPT !.at = "plan", !.layout = layout, !.settings = settings]) /\ lock' = i
       ELSE Becomes(i, "idle", Goto(i, "busy")) /\ UNCHANGED lock
    /\ UNCHANGED <<disk, meddled, racing, done>>

\* Ends the command and gives up the lock.
Ends(i, from, at) ==
    /\ Becomes(i, from, [Idle EXCEPT !.at = at, !.layout = init[i].layout])
    /\ lock' = None /\ racing' = racing \ {i} /\ UNCHANGED <<meddled, done>>
Continues(i, from, to) == Becomes(i, from, to) /\ UNCHANGED <<lock, meddled, racing, done>>

\* A layout that is not the owner's: the configuration was edited, or an option asks for another.
Foreign == config # None /\ (owner = None \/ config.layout # owner.layout)
Base == IF owner # None THEN [layout |-> owner.layout, settings |-> owner.settings]
                        ELSE [layout |-> DefaultLayout, settings |-> DefaultSettings]
Planned(i) ==
    LET settings == IF config # None THEN config.settings ELSE Base.settings
    IN  [layout |-> IF init[i].layout # Keep THEN init[i].layout ELSE Base.layout,
         settings |-> IF init[i].settings # Keep THEN init[i].settings ELSE settings]
Differs(i) == owner # None /\ Planned(i).layout # owner.layout

Plan(i) ==
    /\ IF Foreign \/ Differs(i)
       THEN Ends(i, "plan", "conflict")
       ELSE Continues(i, "plan",
              [init[i] EXCEPT !.at = "check", !.existing = config, !.planned = Planned(i),
                              !.id = IF owner # None THEN owner.id ELSE i])
    /\ UNCHANGED disk

\* Every directory is checked before anything is written.
Check(i) ==
    /\ IF \E r \in Roles : directory[r] \notin {None, init[i].id}
       THEN Ends(i, "check", "conflict")
       ELSE Continues(i, "check", [init[i] EXCEPT !.at = "own", !.missing = {r \in Roles : directory[r] = None}])
    /\ UNCHANGED disk

\* The record is written first, unless it says all this already.
Record(i) == [id |-> init[i].id, layout |-> init[i].planned.layout, settings |-> init[i].planned.settings]

WriteOwner(i) ==
    /\ Continues(i, "own", Goto(i, "create"))
    /\ owner' = Record(i)
    /\ UNCHANGED <<directory, format, config>>

Vacant(i, r) == directory[r] = None

\* A directory is made beside its place, with its record, and renamed; never over another.
Create(i, r) ==
    /\ r \in init[i].missing
    /\ IF Vacant(i, r)
       THEN /\ Continues(i, "create", [init[i] EXCEPT !.missing = @ \ {r}])
            /\ directory' = [directory EXCEPT ![r] = init[i].id]
       ELSE Ends(i, "create", "conflict") /\ UNCHANGED directory
    /\ UNCHANGED <<owner, format, config>>

AnyTime(i) == TRUE           \* the format and the configuration before the directories are there
Complete(i) == init[i].missing = {}

\* Writing the format makes the directory again when it is gone by now, without its record.
EnsureFormat(i) ==
    /\ Complete(i)
    /\ Continues(i, "create", Goto(i, "config"))
    /\ format' = TRUE
    /\ directory' = [directory EXCEPT !["store"] = IF @ = None THEN "foreign" ELSE @]
    /\ UNCHANGED <<owner, config>>

\* Last, so that a workspace that commands discover is complete. What is already so is left alone,
\* and a configuration is replaced only when one was read.
WriteConfig(i) ==
    /\ IF init[i].existing = None /\ config # None
       THEN Ends(i, "config", "conflict") /\ UNCHANGED config
       ELSE /\ Ends(i, "config", "done")
            /\ config' = IF init[i].existing = init[i].planned THEN config ELSE init[i].planned
    /\ UNCHANGED <<owner, directory, format>>

\* Killed between two writes; the lock goes with the process.
Kill(i) ==
    /\ i \in Running /\ Ends(i, init[i].at, "killed")
    /\ UNCHANGED disk

Next ==
    \/ \E i \in Inits :
         \/ \E layout \in Layouts \cup {Keep}, settings \in Settings \cup {Keep} : Start(i, layout, settings)
         \/ Plan(i) \/ Check(i) \/ WriteOwner(i) \/ \E r \in Roles : Create(i, r)
         \/ EnsureFormat(i) \/ WriteConfig(i) \/ Kill(i)
    \/ \E layout \in Layouts, settings \in Settings : EditConfig(layout, settings)
    \/ \E r \in Roles : MakeDirectory(r) \/ RemoveDirectory(r)

Spec == Init /\ [][Next]_vars
-----------------------------------------------------------------------------
\* A workspace that can be discovered is whole, and whatever init is killed in, the next one goes on
\* from the record it left: it does not take the other's work for somebody else's.
WholeAndResumable ==
    ~meddled =>
        /\ config # None =>
             /\ owner # None /\ owner.layout = config.layout /\ format
             /\ \A r \in Roles : directory[r] = owner.id
        /\ \A i \in Inits : init[i].at = "conflict" => init[i].layout \notin {Keep, owner.layout}

\* What is not dryheave's is not touched: a directory of the user's stays, and a configuration
\* whose layout was edited is not written over, except one edited while init was at work.
ForeignStep ==
    /\ \A r \in Roles : directory[r] = "foreign" /\ done' = done => directory'[r] = "foreign"
    /\ config # None /\ config' # config /\ done' = done =>
         config.layout = owner.layout \/ racing # {}

\* Every step of an init and of the user is so.
ForeignKept == [][ForeignStep]_vars
=============================================================================
