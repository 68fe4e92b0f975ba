----------------------------- MODULE FixtureRun -----------------------------
(***************************************************************************)
(* scripts/run_fixtures.py: every fixture is copied, `check` and then      *)
(* `lint-config` are run in the copy, and each receipt is copied out       *)
(* before it is judged.                                                    *)
(***************************************************************************)
EXTENDS Trials

Commands == 2   \* check, lint-config

\* Without a fixture there is nothing to fail.  Bad arguments are a 2; an output
\* directory that cannot be made is an exception.
FixtureStart ==
    /\ phase = "start"
    /\ \/ phase' = (IF Items = 0 THEN "report" ELSE "load") /\ UNCHANGED <<report, exit_code>>
       \/ \E code \in {1, 2} : Finish("none", code)
    /\ UNCHANGED <<trial, launches, kept, results, trouble, passed>>

FixtureSettled(result) ==
    Settle(result) /\ phase' = IF Current = Items THEN "report" ELSE "load"

\* A defective manifest is a failed case; so is a copy that fails.
FixtureLoad ==
    /\ phase = "load"
    /\ \/ FixtureSettled("FAIL") \/ FixtureSettled("SKIP")
       \/ phase' = "launch" /\ UNCHANGED results
    /\ UNCHANGED <<trial, launches, kept, trouble, passed, report, exit_code>>

\* A gate that cannot be started fails the case.
FixtureLaunch ==
    /\ phase = "launch"
    /\ \/ Launch(Current, Outcomes) /\ phase' = "score" /\ UNCHANGED results
       \/ FixtureSettled("FAIL") /\ UNCHANGED launches
    /\ UNCHANGED <<trial, kept, trouble, passed, report, exit_code>>

Fixture == {n \in DOMAIN launches : launches[n].ws = Current}

\* Only a run with nothing wrong with it adds no error.
FixtureVerdict == IF \A n \in Fixture : Good(launches[n].outcome) THEN "PASS" ELSE "FAIL"

FixtureGoesOn ==
    IF Cardinality(Fixture) < Commands THEN phase' = "launch" /\ UNCHANGED results
    ELSE FixtureSettled(FixtureVerdict)

\* What is printed names the receipt; a torn one is an error.
Readable(o) == o.printed /\ o.stored = "whole"

\* Fault: only receipts that are as expected are copied.
FixtureVerifyFirst ==
    /\ phase = "score" /\ Last.code # "timeout"
    /\ kept' = IF Good(Last) THEN kept \union {Len(launches)} ELSE kept
    /\ FixtureGoesOn
    /\ UNCHANGED <<trial, launches, trouble, passed, report, exit_code>>

\* The receipt is copied before it is judged, and the second command runs
\* whatever the first came to.
FixtureVerify ==
    /\ phase = "score" /\ Last.code # "timeout"
    /\ kept' = IF Readable(Last) THEN kept \union {Len(launches)} ELSE kept
    /\ FixtureGoesOn
    /\ UNCHANGED <<trial, launches, trouble, passed, report, exit_code>>

\* A run killed for its time has named no receipt: the case ends.
FixtureTimesOut ==
    /\ phase = "score" /\ Last.code = "timeout"
    /\ FixtureSettled("FAIL")
    /\ UNCHANGED <<trial, launches, kept, trouble, passed, report, exit_code>>

\* So it does when the receipt cannot be copied.
FixtureCopyFails ==
    /\ phase = "score" /\ Last.code # "timeout" /\ Readable(Last)
    /\ trouble' = trouble \union {Len(launches)}
    /\ FixtureSettled("FAIL")
    /\ UNCHANGED <<trial, launches, kept, passed, report, exit_code>>

\* The exceptions that run_case is not guarded against end the runner: a receipt
\* that is no object, before it is copied, and one without a run_id, after.
FixtureAborts ==
    /\ phase = "score" /\ Last.code # "timeout" /\ Last.printed
    /\ \/ Last.stored = "torn" /\ UNCHANGED kept
       \/ Readable(Last) /\ ~Last.rest /\ kept' = kept \union {Len(launches)}
    /\ Finish("none", 1)
    /\ UNCHANGED <<trial, launches, results, trouble, passed>>

\* Exit 1 is also what an exception of the runner's own comes to.
FixtureReport ==
    /\ phase = "report"
    /\ \/ IF \E n \in DOMAIN results : results[n] = "FAIL" THEN Finish("failed", 1)
          ELSE Finish("passed", 0)
       \/ Finish("none", 1)
    /\ UNCHANGED <<trial, launches, kept, results, trouble, passed>>

FixtureSteps ==
    /\ trial = "fixtures"
    /\ FixtureStart \/ FixtureLoad \/ FixtureLaunch \/ FixtureVerify
         \/ FixtureTimesOut \/ FixtureCopyFails \/ FixtureAborts \/ FixtureReport
=============================================================================
