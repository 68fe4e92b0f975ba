---------------------------- MODULE ScenarioEval ----------------------------
(***************************************************************************)
(* `exitzero plugin harness-eval` (plugin-harness __init__.py): scripted   *)
(* turns are laid over a copy of a repository and the gate is run in it    *)
(* after each, in the same process.                                        *)
(***************************************************************************)
EXTENDS Trials

VARIABLES
  planted,  (* what a check has left where the next turn will write a file: *)
            (* nothing, a symlink out of the copy, or a directory that      *)
            (* holds one under the name of that file                        *)
  outside   (* history: a turn wrote outside the copy                       *)

evalVars == <<planted, outside>>

EvalInit == planted = "nothing" /\ outside = FALSE

\* run_gate returns its receipt: there is nothing to parse and to compare.
InProcess == {o \in Outcomes : o.code # "timeout" /\ o.stored # "torn" /\ o.printed /\ o.agrees}

Taken == Cardinality({n \in DOMAIN launches : launches[n].ws = Current})

\* An OSError that nothing in the scenario takes for a failure, from the first
\* look at its files to the removal of its copy, makes it an error.
Settled(result) ==
    /\ Settle(result) \/ Settle("ERROR")
    /\ phase' = IF Current = Items THEN "report" ELSE "load"
    /\ planted' = "nothing"

\* A container that is no directory, or has no scenario, is an error.
EvalStart ==
    /\ phase = "start"
    /\ \/ Items # 0 /\ phase' = "load" /\ UNCHANGED <<report, exit_code>>
       \/ Finish("none", 2)
    /\ UNCHANGED <<trial, launches, kept, results, trouble, passed, evalVars>>

\* A scenario without a sound manifest fails; one that explains why is skipped.
EvalLoad ==
    /\ phase = "load"
    /\ \/ Settled("FAIL") \/ Settled("SKIP")
       \/ phase' = "turns" /\ UNCHANGED <<results, planted>>
    /\ UNCHANGED <<trial, launches, kept, trouble, passed, report, exit_code, outside>>

\* So does one without turns, with too many or an unsound one, or with a base
\* that has no policy: all turns are loaded before the first is played.
EvalTurns ==
    /\ phase = "turns"
    /\ \/ Settled("FAIL")
       \/ phase' = "prepare" /\ UNCHANGED <<results, planted>>
    /\ UNCHANGED <<trial, launches, kept, trouble, passed, report, exit_code, outside>>

\* Deletions and overlay of a turn.  A destination that is a symlink, or lies
\* outside the copy, fails the scenario before anything is written there; one
\* that is a directory is not looked into, and copy2 writes to the name in it.
EvalPrepare ==
    /\ phase = "prepare"
    /\ \/ Settled("FAIL") /\ outside' \in {outside, outside \/ planted = "folder"}
       \/ /\ planted # "link"
          /\ phase' = "launch" /\ outside' = (outside \/ planted = "folder")
          /\ UNCHANGED <<results, planted>>
    /\ UNCHANGED <<trial, launches, kept, trouble, passed, report, exit_code>>

\* An exception that is no OSError or ValueError leaves without a report.
EvalLaunch ==
    /\ phase = "launch"
    /\ \/ /\ Launch(Current, InProcess)
          /\ phase' = "score" /\ planted' \in {"nothing", "link", "folder"}
          /\ UNCHANGED <<results, report, exit_code>>
       \/ Settled("FAIL") /\ UNCHANGED <<launches, report, exit_code>>
       \/ Finish("none", 2) /\ UNCHANGED <<launches, results, planted>>
    /\ UNCHANGED <<trial, kept, trouble, passed, outside>>

Matched(n) == launches[n].outcome.code = "expected" /\ launches[n].outcome.rest

\* A receipt that was not stored is an error, never a mismatch or a match.
EvalScore ==
    /\ phase = "score"
    /\ IF Last.stored = "none" THEN Settled("ERROR")
       ELSE IF Taken < Turns THEN phase' = "prepare" /\ UNCHANGED <<results, planted>>
       ELSE Settled(IF \A n \in Receipts(Current) : Matched(n) THEN "PASS" ELSE "FAIL")
    /\ UNCHANGED <<trial, launches, kept, trouble, passed, report, exit_code, outside>>

Some(result) == \E n \in DOMAIN results : results[n] = result

\* The report holds the receipts themselves; one that cannot be written is an
\* error whatever it says.
EvalReport ==
    /\ phase = "report"
    /\ \/ /\ kept' = {n \in DOMAIN launches : launches[n].outcome.stored = "whole"
                                              /\ results[launches[n].ws] # "ERROR"}
          /\ IF Some("ERROR") THEN Finish("error", 2)
             ELSE IF Some("FAIL") THEN Finish("failed", 1) ELSE Finish("passed", 0)
       \/ Finish("none", 2) /\ UNCHANGED kept
    /\ UNCHANGED <<trial, launches, results, trouble, passed, evalVars>>

EvalSteps ==
    /\ trial = "eval"
    /\ EvalStart \/ EvalLoad \/ EvalTurns \/ EvalPrepare \/ EvalLaunch \/ EvalScore \/ EvalReport
=============================================================================
