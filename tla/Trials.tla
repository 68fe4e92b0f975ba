------------------------------- MODULE Trials -------------------------------
(***************************************************************************)
(* What the programs that try the gate out have in common (harness-eval,   *)
(* run_fixtures.py, release_check.py, pilot_policy_pack.py): each prepares *)
(* throwaway workspaces, runs the gate in them, compares code, output and  *)
(* stored receipt with what the trial expects, saves what must outlive the *)
(* workspace and sums up.  The gate is on trial, so it may do anything.    *)
(***************************************************************************)
EXTENDS Naturals, Sequences, FiniteSets

CONSTANTS
  MaxFlaws,  (* bound on what is wrong with one run of the gate             *)
  Items,     (* number of scenarios or fixtures                             *)
  Turns      (* number of turns of a scenario                               *)

ASSUME TrialsAssumption == MaxFlaws \in Nat /\ Items \in Nat /\ Turns \in Nat \ {0}

VARIABLES
  trial,     (* which of the programs is running                            *)
  phase,     (* its step                                                    *)
  launches,  (* history: the runs of the gate, and in which workspace       *)
  kept,      (* the receipts that outlive their workspace, by launch        *)
  results,   (* the scenarios, fixtures or cases settled so far             *)
  trouble,   (* what could not be saved: the workspace, in the release      *)
             (* check, or the run whose receipt it was, in run_fixtures     *)
  passed,    (* no exception so far                                         *)
  report,    (* the saved summary                                           *)
  exit_code  (* 3 until it ends                                             *)

trialVars == <<trial, phase, launches, kept, results, trouble, passed, report, exit_code>>

\* One run of the gate: its exit code, the receipt it left, whether it printed
\* the path of a receipt, whether receipt, output and code agree, and whether
\* everything else looked at (findings, HEAD, hook files) is as it should be.
AllOutcomes == [code: {"expected", "other", "timeout"}, stored: {"whole", "torn", "none"},
                printed: BOOLEAN, agrees: BOOLEAN, rest: BOOLEAN]

Flaws(o) ==
    Cardinality({f \in {"printed", "agrees", "rest"} : ~o[f]})
      + (IF o.code = "expected" THEN 0 ELSE 1) + (IF o.stored = "whole" THEN 0 ELSE 1)

Outcomes == {o \in AllOutcomes : Flaws(o) <= MaxFlaws}

Good(o) == Flaws(o) = 0

Last == launches[Len(launches)].outcome

Launch(ws, outcomes) ==
    \E o \in outcomes : launches' = Append(launches, [ws |-> ws, outcome |-> o])

\* The receipts a workspace holds, and those of them that parse.
Receipts(ws) == {n \in DOMAIN launches : launches[n].ws = ws
                                         /\ launches[n].outcome.stored # "none"}
Whole(ws) == {n \in Receipts(ws) : launches[n].outcome.stored = "whole"}

Settle(result) == results' = Append(results, result)

Current == Len(results) + 1

Finish(summary, code) ==
    /\ phase' = "ended" /\ report' = summary /\ exit_code' = code

TrialsInit ==
    /\ phase = "start" /\ launches = <<>> /\ kept = {} /\ results = <<>> /\ trouble = {}
    /\ passed = TRUE /\ report = "none" /\ exit_code = 3

Phases == {"start", "load", "turns", "prepare", "launch", "score", "report", "archive", "final",
           "rehash", "copy", "save", "ended"}

TrialTypes ==
    /\ trial \in {"none", "eval", "fixtures", "release", "pilot"}
    /\ phase \in Phases
    /\ \A n \in DOMAIN launches : launches[n].outcome \in AllOutcomes
    /\ kept \subseteq {n \in DOMAIN launches : launches[n].outcome.stored = "whole"}
    /\ \A n \in DOMAIN results : results[n] \in {"PASS", "FAIL", "SKIP", "ERROR"}
    /\ passed \in BOOLEAN /\ report \in {"none", "passed", "failed", "error"}
    /\ exit_code \in 0..3 /\ (exit_code = 3) = (phase # "ended")
=============================================================================
