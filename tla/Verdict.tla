------------------------------ MODULE Verdict ------------------------------
(***************************************************************************)
(* How a gate run turns what its checks reported into statuses and an exit *)
(* code: the pure part of core/runner.py.  A check's findings are          *)
(* abstracted to the strongest one: none, warnings only, an error          *)
(* violation, or an execution error (always an error, runner.py:33).       *)
(***************************************************************************)
EXTENDS Naturals

CheckVerdicts == {"clean", "warned", "violated", "broken"}

\* An error finding of either category fails the check, enforced or not.
Fails(v) == v \in {"violated", "broken"}

\* Fault: an advisory check never blocks.
BlocksUnlessAdvisory(v, advisory) == v \in {"broken", "violated"} /\ ~advisory

\* enforcement = "warn" downgrades violations, never execution errors.
Blocks(v, advisory) == v = "broken" \/ (v = "violated" /\ ~advisory)

\* Fault: changed inputs do not taint a receipt.
TaintedByErrorsOnly == {"core.error", "core.hook-input", "core.receipt",
                        "core.index-mismatch"}

\* Findings of core that mark a receipt as no source for reuse.
Tainted == {"core.inputs-changed", "core.error", "core.hook-input",
            "core.receipt", "core.index-mismatch"}

\* Commands that run config linters but never a check.
ConfigCommands == {"lint-config", "doctor"}

\* Complete verification evidence for the checks a requirement maps.
Complete(valid, outcomes) ==
    /\ valid
    /\ outcomes # {}
    /\ outcomes \subseteq {"passed", "reused", "failed"}

\* outcomes is the set of verification outcomes of the mapped checks.
RequirementStatus(command, valid, outcomes) ==
    IF command \in ConfigCommands \/ ~Complete(valid, outcomes) THEN "unverified"
    ELSE IF "failed" \in outcomes THEN "failed" ELSE "checks_passed"

\* findings holds the rules of the error findings only: warnings never count.
Operational(findings) == findings \intersect {"core.error", "core.hook-input"} # {}

ExitCode(findings) ==
    IF Operational(findings) THEN 2 ELSE IF findings = {} THEN 0 ELSE 1
=============================================================================
