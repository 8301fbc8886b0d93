----------------------------- MODULE ViewerDetails -----------------------------
(* What the viewer serves of an attempt (viewer.py): its dialogue and patch,   *)
(* from the capture or the quarantined one, its verifier evidence, and the     *)
(* judge's reasoning, from its assessment. A request reads one object after    *)
(* another of a store that may be damaged, and that a regrade may write to,    *)
(* in between.                                                                 *)
EXTENDS Naturals, Sequences, FiniteSetsExt

CONSTANTS
    Calls,        \* judge calls of an assessment, in order: 1..n
    MaxDamage     \* bound

Own == "a1"       \* the attempt asked for; objects may say they are of another
Attempts == {Own, "a2"}
Captures == {"capture", "quarantine"}
Results == {"first", "regraded"}
EvidenceOf == [r \in Results |-> IF r = "first" THEN "evidence1" ELSE "evidence2"]
Ids == Captures \cup Results \cup {"evidence1", "evidence2"}
Kind(i) == IF i \in Captures THEN i ELSE IF i \in Results THEN "result" ELSE "evidence"
None == "none"
Whats == {"dialogue", "patch", "evidence", "file", "reasoning"}

VARIABLES
    objects,    \* of each ID: kind (as stored), of (the attempt it names), health, blob (its patch or
                \* verifier file), evidence (a result's), responses (evidence's judge responses)
    attempt,    \* in the journal: capture, quarantine, assessment
    request,    \* what, at, identity, answer
    damages

vars == <<objects, attempt, request, damages>>

NoAnswer == [status |-> None, of |-> None, call |-> 0, read |-> None]
Idle == [what |-> None, at |-> "idle", identity |-> None, answer |-> NoAnswer, left |-> 0]

\* A journal may name an object of another attempt or kind; at most one of them is.
Init ==
    /\ \E other \in {None, "capture", "quarantine", "first", "evidence1"}, wrong \in {None, "capture", "first"}, blob \in {"ok", "big", "none"}, evidence \in {"kept", None} :
         /\ other = None \/ wrong = None
         /\ objects = [i \in Ids |->
            [kind |-> IF i = wrong THEN "other" ELSE Kind(i), of |-> IF i = other THEN "a2" ELSE Own,
             health |-> "ok", blob |-> blob, evidence |-> evidence, responses |-> [c \in Calls |-> "ok"]]]
    /\ attempt \in [capture : {None, "capture"}, quarantine : {None, "quarantine"}, assessment : {None, "first"}]
    /\ request = Idle /\ damages = 0

-----------------------------------------------------------------------------
(* The store. *)

Damage(i) ==
    /\ damages < MaxDamage /\ damages' = damages + 1
    /\ \/ \E h \in {"missing", "corrupt"} : objects' = [objects EXCEPT ![i].health = h]
       \/ \E b \in {"missing", "damaged"} : objects' = [objects EXCEPT ![i].blob = b]
       \/ \E c \in Calls : objects' = [objects EXCEPT ![i].responses[c] = "damaged"]
    /\ UNCHANGED <<attempt, request>>

Regrade ==
    /\ attempt.assessment = "first" /\ attempt' = [attempt EXCEPT !.assessment = "regraded"]
    /\ UNCHANGED <<objects, request, damages>>

-----------------------------------------------------------------------------
(* A request. *)

At(stage) == request.at = stage
Goes(to) == request' = to /\ UNCHANGED <<objects, attempt, damages>>
Goto(at) == [request EXCEPT !.at = at]
Answered(status) == [request EXCEPT !.at = "answered", !.answer = [NoAnswer EXCEPT !.status = status]]

\* What reading an object as a kind of object comes to, and one that names another attempt.
Stored(i) == IF objects[i].health = "missing" THEN "unavailable" ELSE IF objects[i].health = "corrupt" THEN "invalid" ELSE "ok"
OfAttempt(i) == objects[i].of = Own
ReadAs(i, kind) ==
    IF Stored(i) # "ok" THEN Stored(i) ELSE IF objects[i].kind = kind /\ OfAttempt(i) THEN "ok" ELSE "invalid"

\* The attempt's identity is taken once, from the journal or the report.
Identify(what) ==
    At("idle") /\ Goes([Idle EXCEPT !.what = what, !.identity = attempt,
                      !.at = IF what \in {"dialogue", "patch"} THEN "capture" ELSE "assessment"])

\* Either kind of capture is read by the kind that it is stored as.
Retained == IF request.identity.capture # None THEN request.identity.capture ELSE request.identity.quarantine

CaptureStatus == ReadAs(Retained, IF objects[Retained].kind \in Captures THEN objects[Retained].kind ELSE None)

ReadCapture ==
    /\ At("capture")
    /\ Goes(
          IF Retained = None THEN Answered("unavailable")
          ELSE IF CaptureStatus # "ok" THEN Answered(CaptureStatus)
          ELSE IF request.what = "dialogue"
               THEN [Answered("ok") EXCEPT !.answer.of = objects[Retained].of, !.answer.read = Retained]
          ELSE Goto("blob"))

\* A blob is read within the limit of a response; what was not retained may be named as omitted.
Detail(i) ==
    CASE Stored(i) # "ok"                -> [NoAnswer EXCEPT !.status = Stored(i)]
      [] objects[i].blob = "big"     -> [NoAnswer EXCEPT !.status = "refused"]
      [] objects[i].blob = "missing" -> [NoAnswer EXCEPT !.status = "unavailable"]
      [] objects[i].blob = "damaged" -> [NoAnswer EXCEPT !.status = "invalid"]
      [] OTHER                       -> [NoAnswer EXCEPT !.status = "ok", !.of = objects[i].of, !.read = i]

ReadPatch ==
    /\ At("blob")
    /\ IF objects[Retained].blob = "none"
       THEN \E status \in {"omitted", "unavailable"} : Goes(Answered(status))
       ELSE Goes([request EXCEPT !.at = "answered", !.answer = Detail(Retained)])

ReadAssessment ==
    LET id == request.identity.assessment
    IN  At("assessment") /\ Goes(
          IF id = None THEN Answered("unavailable")
          ELSE IF ReadAs(id, Kind(id)) # "ok" THEN Answered(ReadAs(id, Kind(id)))
          ELSE IF objects[id].evidence = None THEN Answered("unavailable")
          ELSE Goto("evidence"))

Evidence == EvidenceOf[request.identity.assessment]

ReadEvidence ==
    LET status == ReadAs(Evidence, "evidence")
    IN  At("evidence") /\ Goes(
          CASE status # "ok"             -> Answered(status)
            [] request.what = "evidence" -> [Answered("ok") EXCEPT !.answer.of = objects[Evidence].of, !.answer.read = Evidence]
            [] request.what = "file"     -> IF objects[Evidence].blob = "none" THEN Answered("notfound") ELSE Goto("file")
            [] OTHER                     -> [Goto("responses") EXCEPT !.left = Max(Calls)])

ReadFile == At("file") /\ Goes([request EXCEPT !.at = "answered", !.answer = Detail(Evidence)])

\* The responses of the assessment's own judge calls, the latest first, until one can be read.
ReadResponse ==
    At("responses") /\ Goes(
      IF request.left = 0 THEN Answered("unavailable")
      ELSE IF Stored(Evidence) = "ok" /\ objects[Evidence].responses[request.left] = "ok"
           THEN [Answered("ok") EXCEPT !.answer.of = objects[Evidence].of, !.answer.read = Evidence, !.answer.call = request.left]
           ELSE [request EXCEPT !.left = @ - 1])

Next ==
    \/ \E i \in Ids : Damage(i)
    \/ \E what \in Whats : Identify(what)
    \/ Regrade \/ ReadCapture \/ ReadPatch \/ ReadAssessment \/ ReadEvidence \/ ReadFile \/ ReadResponse

Spec == Init /\ [][Next]_vars
-----------------------------------------------------------------------------
\* The objects that an answer takes.
Needed ==
    IF request.what \in {"dialogue", "patch"} THEN {Retained} \ {None}
    ELSE IF request.identity.assessment = None THEN {} ELSE {request.identity.assessment, Evidence}
Sound(i) == objects[i].kind = Kind(i) /\ objects[i].of = Own /\ objects[i].health = "ok"
Retains(i) == i # None /\ (i \in Results => objects[i].evidence # None)

\* What is served as the attempt's is the attempt's: its capture's, or of the evidence of the assessment
\* that was current when it was looked up, whatever regrades; and the reasoning is the last judge
\* call's unless that cannot be read. What is whole, the attempt's and small enough is served.
ServedIsOwn ==
    request.at = "answered" =>
        /\ request.answer.status = "ok" =>
             /\ request.answer.of = Own /\ request.answer.read \in Needed
             /\ \A c \in Calls : request.what = "reasoning" /\ c > request.answer.call => objects[Evidence].responses[c] # "ok"
        /\ (/\ Needed # {}
            /\ \A i \in Needed : Sound(i) /\ Retains(i) /\ objects[i].blob = "ok" /\ objects[i].responses = [c \in Calls |-> "ok"])
           => request.answer.status = "ok"
=============================================================================
