----------------------------- MODULE CheckEvidence -----------------------------
(* Verifier checks and what is kept of them (grading.py, calibrations.py): the  *)
(* facts of a suite are checked in order, on one copy of each side. Making the  *)
(* copy, the hidden inputs, the command, its streams and its cleanup may each   *)
(* fail, and each leaves evidence; a calibration captures the evidence,         *)
(* concludes, and is validated against it, at once and whenever it is loaded.   *)
EXTENDS Naturals, Sequences, FiniteSets

CONSTANTS
    Facts,       \* how many share the suite
    Modes,       \* {"calibrate", "grade"}
    MaxFaults    \* bound on failing steps

VARIABLES
    mode, fact, side,   \* the check under way: the fact's number, the side's number
    at, copy, hidden,   \* of each side: its copy, its hidden inputs
    exec,               \* the execution in the making
    kept,               \* its evidence
    checks,             \* of each fact and side: execution and evidence
    record,             \* the calibration
    faults

vars == <<mode, fact, side, at, copy, hidden, exec, kept, checks, record, faults>>

\* What the proofs ask of the constants.
ConstantsFit == Facts \in Nat \ {0}

SidesOf == IF mode = "grade" THEN <<"final", "baseline", "reference">> ELSE <<"baseline", "reference">>
AllSides == {"final", "baseline", "reference"}
Side == SidesOf[side]

Error(error) == [outcome |-> "error", ending |-> "none", code |-> 0, said |-> "nothing", digests |-> FALSE,
                 error |-> error, whole |-> FALSE, intact |-> TRUE]
Files == {"command", "stdout", "stderr", "cleanup", "result"}
NothingKept == [file \in Files |-> "none"]
Unchecked == [exec |-> Error("unchecked"), kept |-> NothingKept]
NoRecord == [made |-> FALSE]

Init ==
    /\ mode \in Modes /\ fact = 1 /\ side = 1 /\ at = "copy"
    /\ copy = [s \in AllSides |-> "none"] /\ hidden = [s \in AllSides |-> "none"]
    /\ exec = Error("unchecked") /\ kept = NothingKept
    /\ checks = [f \in 1..Facts |-> [s \in AllSides |-> Unchecked]]
    /\ record = NoRecord /\ faults = 0

Fault == faults < MaxFaults /\ faults' = faults + 1
NoFault == UNCHANGED faults

-----------------------------------------------------------------------------
(* One check. *)

\* The copy is made unless it is there. A repository that cannot be materialized is removed again; a patch that
\* cannot be applied, or a file of a capture that cannot be written, leaves what there is.
Materializes == copy[Side] = "none"          \* workspace.exists()

Left == IF Side = "baseline" THEN {"none"} ELSE IF Side = "reference" THEN {"none", "partial"} ELSE {"partial"}

Copy ==
    /\ at = "copy"
    /\ \/ ~Materializes /\ NoFault /\ at' = "hidden" /\ UNCHANGED <<copy, exec>>
       \/ Materializes /\ NoFault /\ at' = "hidden" /\ copy' = [copy EXCEPT ![Side] = "whole"] /\ UNCHANGED exec
       \/ Materializes /\ Fault /\ at' = "recheck" /\ exec' = Error("failed")
          /\ \E left \in Left : copy' = [copy EXCEPT ![Side] = left]
    /\ UNCHANGED <<mode, fact, side, hidden, kept, checks, record>>

\* The hidden inputs are written once for a side, and compared before and after each check.
HiddenInputs(ok, changed) ==
    \/ hidden[Side] = "none" /\ NoFault /\ hidden' = [hidden EXCEPT ![Side] = "intact"] /\ ok
    \/ hidden[Side] = "none" /\ Fault /\ hidden' = [hidden EXCEPT ![Side] = "changed"] /\ changed
    \/ hidden[Side] = "intact" /\ NoFault /\ UNCHANGED hidden /\ ok
    \/ hidden[Side] = "changed" /\ NoFault /\ UNCHANGED hidden /\ changed

Hide ==
    /\ at = "hidden"
    /\ HiddenInputs(at' = "command" /\ UNCHANGED exec, at' = "recheck" /\ exec' = Error("failed"))
    /\ UNCHANGED <<mode, fact, side, copy, kept, checks, record>>

Command ==
    /\ at = "command"
    /\ \/ NoFault /\ at' = "run" /\ kept' = [kept EXCEPT !.command = "whole"] /\ UNCHANGED exec
       \/ Fault /\ at' = "cleanup" /\ kept' \in {kept, [kept EXCEPT !.command = "whole"]} /\ exec' = Error("failed")
    /\ UNCHANGED <<mode, fact, side, copy, hidden, checks, record>>

\* How a verifier may end (code 2 is a signal), and which marker it left.
Results ==
    {[ending |-> "exited", code |-> 0, said |-> "yes"], [ending |-> "exited", code |-> 0, said |-> "nothing"],
     [ending |-> "exited", code |-> 1, said |-> "no"], [ending |-> "exited", code |-> 1, said |-> "yes"],
     [ending |-> "timeout", code |-> 2, said |-> "no"]}

\* The verifier runs subject code, which may write to the hidden inputs.
Run ==
    /\ at = "run" /\ at' = "stdout"
    /\ \E r \in Results :
         exec' = [Error("none") EXCEPT !.ending = r.ending, !.code = r.code, !.said = r.said, !.whole = copy[Side] = "whole"]
    /\ \/ NoFault /\ UNCHANGED hidden
       \/ Fault /\ hidden' = [hidden EXCEPT ![Side] = "changed"]
    /\ UNCHANGED <<mode, fact, side, copy, kept, checks, record>>

\* A stream that cannot be kept makes an execution without digests.
Stream(name, next) ==
    /\ at = name
    /\ \/ NoFault /\ at' = next /\ kept' = [kept EXCEPT ![name] = "whole"] /\ UNCHANGED exec
       \/ Fault /\ at' = "cleanup" /\ exec' = Error("failed")
          /\ \E left \in {"none", "part"} : kept' = [kept EXCEPT ![name] = left]
    /\ UNCHANGED <<mode, fact, side, copy, hidden, checks, record>>

Expected(e) == IF e.code = 1 THEN "no" ELSE "yes"
Outcome(e) ==
    IF e.ending # "exited" \/ e.code = 2 \/ e.said # Expected(e) THEN "error"
    ELSE IF e.code = 1 THEN "fail" ELSE "pass"

Settle ==
    /\ at = "settle" /\ at' = "cleanup"
    /\ exec' = [exec EXCEPT !.outcome = Outcome(exec), !.digests = TRUE,
                            !.error = IF exec.said = Expected(exec) THEN "none" ELSE "unobserved"]
    /\ UNCHANGED <<mode, fact, side, copy, hidden, kept, checks, record, faults>>

Cleanup ==
    /\ at = "cleanup" /\ at' = "recheck"
    /\ \/ NoFault /\ kept' = [kept EXCEPT !.cleanup = "stopped"] /\ UNCHANGED exec
       \/ Fault /\ kept' = [kept EXCEPT !.cleanup = "unresolved"]
          /\ exec' = [exec EXCEPT !.outcome = "error", !.error = "verifier_cleanup_failed"]
       \/ Fault /\ kept' \in {kept, [kept EXCEPT !.cleanup = "stopped"]} /\ exec' = Error("failed")
    /\ UNCHANGED <<mode, fact, side, copy, hidden, checks, record>>

Tampered(e) == IF e.error = "verifier_cleanup_failed" THEN e
               ELSE [e EXCEPT !.outcome = "error", !.error = "hidden_verifier_changed"]
Recheck ==
    /\ at = "recheck" /\ at' = "save"
    /\ HiddenInputs(UNCHANGED exec, exec' = [Tampered(exec) EXCEPT !.intact = FALSE])
    /\ UNCHANGED <<mode, fact, side, copy, kept, checks, record>>

\* The next side, the next fact, or the end.
Onward(last) ==
    /\ exec' = Error("unchecked") /\ kept' = NothingKept
    /\ IF side < Len(SidesOf) /\ ~last THEN side' = side + 1 /\ at' = "copy" /\ UNCHANGED fact
       ELSE side' = 1 /\ IF fact < Facts THEN fact' = fact + 1 /\ at' = "copy"
                         ELSE fact' = fact /\ at' = IF mode = "calibrate" THEN "capture" ELSE "over"

Stop == at' = "over" /\ UNCHANGED <<fact, side, exec, kept>>

\* The result is kept. A calibration then wants the owned processes gone, and gives up with a failing write; grading
\* makes an error of it, and of the reference that it does not check after its baseline.
Save ==
    /\ at = "save"
    /\ \/ /\ NoFault /\ checks' = [checks EXCEPT ![fact][Side] = [exec |-> exec, kept |-> [kept EXCEPT !.result = "whole"]]]
          /\ Onward(FALSE) \/ (mode = "calibrate" /\ kept.cleanup = "unresolved" /\ Stop)
       \/ /\ Fault /\ checks' = [checks EXCEPT ![fact][Side] = [exec |-> Error("failed"), kept |-> kept]]
          /\ IF mode = "calibrate" THEN Stop ELSE Onward(Side = "baseline")
    /\ UNCHANGED <<mode, copy, hidden, record>>

Cancel ==
    /\ at \in {"run", "save", "capture"} /\ Stop
    /\ UNCHANGED <<mode, copy, hidden, checks, record, faults>>

-----------------------------------------------------------------------------
(* The calibration. *)

Execution(f, s) == checks[f][s].exec
Verdict(e) == IF e.outcome = "pass" THEN "met" ELSE IF e.outcome = "fail" THEN "unmet" ELSE "unclear"

FactStatus(f) ==
    LET baseline == Verdict(Execution(f, "baseline")) reference == Verdict(Execution(f, "reference"))
    IN  IF baseline = "met" \/ reference = "unmet" THEN "ineffective"
        ELSE IF baseline = "unmet" /\ reference = "met" THEN "demonstrated" ELSE "unavailable"

CalibrationStatus(complete) ==
    LET statuses == {FactStatus(f) : f \in 1..Facts}
    IN  IF ~complete THEN "unavailable"
        ELSE IF statuses = {"demonstrated"} THEN "demonstrated"
        ELSE IF "ineffective" \in statuses THEN "ineffective" ELSE "unavailable"

Retained(k, omitted) == [file \in Files |-> IF file \in omitted THEN "none" ELSE k[file]]

StreamAgrees(stream, e, complete) ==
    IF stream = "none" THEN complete => ~e.digests ELSE stream = "whole" /\ e.digests

\* _execution_evidence: what is kept bears out what is said.
EvidenceHolds(e, k, complete) ==
    IF k.result = "none" THEN ~complete
    ELSE /\ StreamAgrees(k.stdout, e, complete) /\ StreamAgrees(k.stderr, e, complete)
         /\ e.outcome \in {"pass", "fail"} =>
              /\ complete => k.command # "none" /\ k.cleanup # "none"
              /\ k.cleanup # "unresolved"
              /\ e.digests /\ e.ending = "exited" /\ e.error = "none"
              /\ e.code = IF e.outcome = "pass" THEN 0 ELSE 1

\* _validate_calibration: of all that was retained.
Valid(f, s, omitted) ==
    \A g \in 1..Facts, t \in {"baseline", "reference"} :
        EvidenceHolds(Execution(g, t),
                      IF g = f /\ t = s THEN Retained(checks[g][t].kept, omitted) ELSE checks[g][t].kept,
                      omitted = {})

\* At most one check's evidence is beyond what the capture takes.
Capture ==
    /\ at = "capture" /\ at' = "over"
    /\ \E f \in 1..Facts, s \in {"baseline", "reference"} :
         \E omitted \in SUBSET {file \in Files : checks[f][s].kept[file] # "none"} :
           record' = [made |-> TRUE, complete |-> omitted = {}, status |-> CalibrationStatus(omitted = {}),
                      valid |-> Valid(f, s, omitted)]
    /\ UNCHANGED <<mode, fact, side, copy, hidden, exec, kept, checks, faults>>

Next ==
    \/ Copy \/ Hide \/ Command \/ Run \/ Stream("stdout", "stderr") \/ Stream("stderr", "settle") \/ Settle
    \/ Cleanup \/ Recheck \/ Save \/ Cancel \/ Capture

Spec == Init /\ [][Next]_vars
-----------------------------------------------------------------------------
\* A stream that could not be kept: the one thing that a calibration's own validation holds against it.
Unkept(c) == ~c.exec.digests /\ (c.kept.stdout # "none" \/ c.kept.stderr # "none")

\* What was seen of a check: it ran to its end in a whole copy, said what it was to say, was cleaned up, and its
\* hidden inputs stayed as they are.
Seen(c, code) ==
    /\ c.exec.whole /\ c.exec.intact /\ c.exec.ending = "exited" /\ c.exec.code = code
    /\ c.exec.said = (IF code = 0 THEN "yes" ELSE "no") /\ c.kept.cleanup = "stopped"

\* A calibration is valid by its own evidence, however much of it is omitted, unless a stream could not be kept; and
\* one that demonstrates its facts has seen each of them fail on the baseline and pass on the reference.
CheckSound ==
    record.made =>
      /\ record.valid \/ \E f \in 1..Facts, s \in {"baseline", "reference"} : Unkept(checks[f][s])
      /\ record.status = "demonstrated" =>
           record.complete /\ \A f \in 1..Facts : Seen(checks[f]["baseline"], 1) /\ Seen(checks[f]["reference"], 0)

\* Documented: without its workspace copy restored a verifier gives no result.
RestoredOnly ==
    \A f \in 1..Facts, s \in AllSides : checks[f][s].exec.outcome \in {"pass", "fail"} => checks[f][s].exec.whole
=============================================================================
