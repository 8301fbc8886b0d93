------------------------------ MODULE SkillFiles ------------------------------
(* The operator skills of a folder (skills.py): each a directory with SKILL.md *)
(* and a manifest that says whose bytes these are. Install, update, uninstall  *)
(* and the refresh of init and update write and remove file by file, may be    *)
(* killed between two files, and find what users have written.                 *)
EXTENDS Naturals, FiniteSets

CONSTANTS
    Commands, Names,
    Versions,        \* of the package, in order: 1..n
    MaxUser          \* bound on what the user does

NoVersion == 0
NoOne == "none"
Users == 99          \* bytes of the user's

VARIABLES
    present,    \* the skill directories
    skill,      \* SKILL.md: NoVersion, Users, or the version it is of
    manifest,   \* NoVersion, Users (foreign or malformed), or the version whose bytes it vouches for
    version,    \* the package that is installed
    lock,       \* the command that holds the folder
    cmd,        \* of each: at, action, names, present (as it listed them), todo
    racing,     \* the running commands during which the user changed something
    done        \* by the user

disk == <<present, skill, manifest>>
vars == <<disk, version, lock, cmd, racing, done>>

\* What the theorem asks of the constants.
ConstantsFit == NoOne \notin Commands

Idle == [at |-> "idle", action |-> "none", present |-> {}, todo |-> {}, name |-> NoOne]
Running == {c \in Commands : cmd[c].at \in {"check", "next", "skill", "manifest", "unlink", "rmdir"}}

Init ==
    /\ present = {} /\ skill = [n \in Names |-> NoVersion] /\ manifest = [n \in Names |-> NoVersion]
    /\ version = 1 /\ lock = NoOne /\ cmd = [c \in Commands |-> Idle] /\ racing = {} /\ done = 0

\* A skill that is dryheave's: its files are there, no others, and the bytes are those that the manifest names.
Owned(n) == manifest[n] \in Versions /\ skill[n] = manifest[n]
Status(n) ==
    IF n \notin present THEN "missing"
    ELSE IF ~Owned(n) THEN "conflict"
    ELSE IF manifest[n] = version THEN "current" ELSE "outdated"

-----------------------------------------------------------------------------
(* The user writes files, and installs another version of the package. *)

User == done < MaxUser /\ done' = done + 1 /\ racing' = racing \cup Running /\ UNCHANGED <<lock, cmd>>

EditSkill(n) ==
    /\ User /\ present' = present \cup {n} /\ skill' = [skill EXCEPT ![n] = Users]
    /\ UNCHANGED <<manifest, version>>

EditManifest(n) ==
    /\ User /\ n \in present /\ manifest' = [manifest EXCEPT ![n] = Users]
    /\ UNCHANGED <<present, skill, version>>

Upgrade ==
    /\ User /\ version + 1 \in Versions /\ version' = version + 1
    /\ Running = {}
    /\ UNCHANGED disk

-----------------------------------------------------------------------------
Becomes(c, from, to) == cmd[c].at = from /\ cmd' = [cmd EXCEPT ![c] = to]
Goto(c, at) == [cmd[c] EXCEPT !.at = at]
Continues(c, from, to) == Becomes(c, from, to) /\ UNCHANGED <<version, lock, racing, done>>
Ends(c, from, at) ==
    Becomes(c, from, [Idle EXCEPT !.at = at]) /\ lock' = NoOne /\ racing' = racing \ {c} /\ UNCHANGED <<version, done>>

\* The folder is locked, and listed. 
Start(c, action, names) ==
    /\ IF lock = NoOne
       THEN /\ Becomes(c, "idle", [Idle EXCEPT !.at = "check", !.action = action, !.present = present, !.todo = names])
            /\ lock' = c
       ELSE Becomes(c, "idle", Goto(c, "busy")) /\ UNCHANGED lock
    /\ UNCHANGED <<disk, version, racing, done>>

\* init and update read each skill's status first, without the lock, and ask for what is missing or outdated.
Refresh(c) ==
    \E names \in {{n \in Names : Status(n) \in {"missing", "outdated"}}} :
        names # {} /\ Start(c, "update", names)

Trusting(c) == {}            \* nothing is looked at before it is written
Refused(c) ==
    {n \in cmd[c].todo :
        /\ cmd[c].action = "uninstall" \/ n \in cmd[c].present
        /\ ~Owned(n) \/ (cmd[c].action = "install" /\ manifest[n] # version)}

\* Every selected directory is checked before any changes. Uninstalling what is not there fails as well.
Check(c) ==
    /\ IF Refused(c) # {} THEN Ends(c, "check", "conflict")
       ELSE Continues(c, "check",
              [cmd[c] EXCEPT !.at = "next",
                 !.todo = IF cmd[c].action = "install" THEN @ \ cmd[c].present ELSE @])
    /\ UNCHANGED disk

\* The next of the names; its directory is made unless it was listed. A directory made since is an error.
Select(c, n) ==
    /\ n \in cmd[c].todo
    /\ IF cmd[c].action = "uninstall"
       THEN Continues(c, "next", [cmd[c] EXCEPT !.at = "unlink", !.name = n]) /\ UNCHANGED disk
       ELSE IF n \notin cmd[c].present /\ n \in present
            THEN Ends(c, "next", "failed") /\ UNCHANGED disk
            ELSE /\ Continues(c, "next", [cmd[c] EXCEPT !.at = "skill", !.name = n])
                 /\ present' = present \cup {n} /\ UNCHANGED <<skill, manifest>>

\* Install links into place, which fails over a file that is there by now; update replaces.
CanWrite(c, file) == cmd[c].action = "update" \/ file[cmd[c].name] = NoVersion

WriteSkill(c) ==
    /\ cmd[c].at = "skill"
    /\ IF CanWrite(c, skill)
       THEN /\ Continues(c, "skill", Goto(c, "manifest"))
            /\ skill' = [skill EXCEPT ![cmd[c].name] = version]
       ELSE Ends(c, "skill", "failed") /\ UNCHANGED skill
    /\ UNCHANGED <<present, manifest>>

WriteManifest(c) ==
    /\ cmd[c].at = "manifest"
    /\ IF CanWrite(c, manifest)
       THEN /\ Continues(c, "manifest", [cmd[c] EXCEPT !.at = "next", !.todo = @ \ {cmd[c].name}, !.name = NoOne])
            /\ manifest' = [manifest EXCEPT ![cmd[c].name] = version]
       ELSE Ends(c, "manifest", "failed") /\ UNCHANGED manifest
    /\ UNCHANGED <<present, skill>>

UnlinkSkill(c) ==
    /\ Continues(c, "unlink", Goto(c, "rmdir"))
    /\ skill' = [skill EXCEPT ![cmd[c].name] = NoVersion]
    /\ UNCHANGED <<present, manifest>>

\* The manifest goes last, and then the directory, if nothing has come into it.
Remove(c) ==
    /\ cmd[c].at = "rmdir"
    /\ manifest' = [manifest EXCEPT ![cmd[c].name] = NoVersion]
    /\ IF skill[cmd[c].name] = NoVersion
       THEN /\ Continues(c, "rmdir", [cmd[c] EXCEPT !.at = "next", !.todo = @ \ {cmd[c].name}, !.name = NoOne])
            /\ present' = present \ {cmd[c].name}
       ELSE Ends(c, "rmdir", "failed") /\ UNCHANGED present
    /\ UNCHANGED skill

Finish(c) ==
    /\ cmd[c].todo = {} /\ Ends(c, "next", "done")
    /\ UNCHANGED disk

\* Killed, between two files; the lock goes with the process.
Kill(c) ==
    /\ c \in Running /\ Ends(c, cmd[c].at, "killed")
    /\ UNCHANGED disk

Next ==
    \/ \E n \in Names : EditSkill(n) \/ EditManifest(n)
    \/ Upgrade
    \/ \E c \in Commands :
         \/ \E action \in {"install", "update", "uninstall"}, names \in SUBSET Names \ {{}} : Start(c, action, names)
         \/ Refresh(c) \/ Check(c) \/ \E n \in Names : Select(c, n)
         \/ WriteSkill(c) \/ WriteManifest(c) \/ UnlinkSkill(c) \/ Remove(c) \/ Finish(c) \/ Kill(c)

Spec == Init /\ [][Next]_vars
-----------------------------------------------------------------------------
\* Bytes that the manifest beside them does not vouch for, the user's or those of a command that
\* was killed, are neither replaced nor removed, except such as come while a command is at work.
ReviewStep ==
    \A n \in Names :
        skill'[n] # skill[n] /\ done' = done /\ racing = {} => Owned(n) \/ (skill[n] = NoVersion /\ manifest[n] = NoVersion)

\* Every step of a command and of the user is so.
SkillsReviewed == [][ReviewStep]_vars
=============================================================================
