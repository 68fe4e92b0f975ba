---------------------------- MODULE ReleaseCheck ----------------------------
(***************************************************************************)
(* scripts/release_check.py: a wheel is installed in a temporary           *)
(* environment and made to check, lint, hook into commits, guard tests and *)
(* guard its own policy in three temporary repositories.  Receipts are     *)
(* copied to the release ledger along the way, when the second repository  *)
(* is left, and, for the first, when everything is.                        *)
(***************************************************************************)
EXTENDS Trials

CONSTANT Plan   (* the runs of the gate: in which repository, and how *)

ASSUME PlanAssumption ==
    Plan \in Seq([ws: {"main", "node", "pack"}, how: {"cli", "hook"}]) \ {<<>>}

Step == Plan[Len(launches)]

\* A wheel that is no sound wheel is reported before anything is installed.
ValidateWheel ==
    /\ phase = "start"
    /\ \/ phase' = "prepare" /\ UNCHANGED <<report, exit_code>>
       \/ Finish("failed", 1)
    /\ UNCHANGED <<trial, launches, kept, results, trouble, passed>>

Raise(in) ==
    /\ passed' = FALSE
    /\ phase' = IF in = "node" THEN "archive" ELSE "final"

Onward == IF Len(launches) = Len(Plan) THEN "final" ELSE "launch"

\* Environment, installation, init, git: any command that exits otherwise, or
\* in time, raises.
Prepare ==
    /\ phase = "prepare"
    /\ \/ phase' = "launch" /\ UNCHANGED passed
       \/ Raise("main")
    /\ UNCHANGED <<trial, launches, kept, results, trouble, report, exit_code>>

\* What comes before a run (edits, Git, packing the policy, installing the
\* hook) raises like Prepare.
ReleaseLaunch ==
    /\ phase = "launch"
    /\ LET at == Plan[Len(launches) + 1] IN
       \/ Launch(at.ws, Outcomes) /\ phase' = "score" /\ UNCHANGED passed
       \/ Raise(at.ws) /\ UNCHANGED launches
    /\ UNCHANGED <<trial, kept, results, trouble, report, exit_code>>

\* Receipts are copied in the order of their names until one does not parse.
Archive(ws) ==
    IF Receipts(ws) = Whole(ws)
    THEN kept' = kept \union Whole(ws) /\ UNCHANGED trouble
    ELSE /\ \E some \in SUBSET Whole(ws) : kept' = kept \union some
         /\ trouble' = trouble \union {ws}

LeavesNode ==
    /\ Step.ws = "node"
    /\ Len(launches) = Len(Plan) \/ Plan[Len(launches) + 1].ws # "node"

\* The command line's answer: the code, and output and saved receipt alike.
Agreed == Last.code = "expected" /\ Last.printed /\ Last.stored = "whole" /\ Last.agrees

\* That is compared first, then the receipts are archived, then the rest is
\* looked at; in the second repository nothing is archived before it is left.
VerifyCli ==
    /\ phase = "score" /\ Step.how = "cli"
    /\ IF ~Agreed THEN Raise(Step.ws) /\ UNCHANGED <<kept, trouble>>
       ELSE /\ IF Step.ws = "node" THEN UNCHANGED <<kept, trouble>> ELSE Archive(Step.ws)
            /\ IF ~Last.rest THEN Raise(Step.ws)
               ELSE /\ phase' = IF LeavesNode THEN "archive" ELSE Onward
                    /\ UNCHANGED passed
    /\ UNCHANGED <<trial, launches, results, report, exit_code>>

\* Among the receipts there is exactly one new one, of this slot, code and rule.
OneNew == Last.stored = "whole" /\ Last.agrees

\* A commit: the code first, then the receipts are archived, then HEAD.
VerifyHook ==
    /\ phase = "score" /\ Step.how = "hook"
    /\ IF Last.code # "expected" THEN Raise(Step.ws) /\ UNCHANGED <<kept, trouble>>
       ELSE /\ Archive(Step.ws)
            /\ IF ~OneNew \/ ~Last.rest THEN Raise(Step.ws)
               ELSE phase' = Onward /\ UNCHANGED passed
    /\ UNCHANGED <<trial, launches, results, report, exit_code>>

\* The second repository is archived when it is left, by an exception or not.
ArchiveNode ==
    /\ phase = "archive"
    /\ Archive("node")
    /\ passed' = (passed /\ trouble' = trouble)
    /\ phase' = IF passed' THEN Onward ELSE "final"
    /\ UNCHANGED <<trial, launches, results, report, exit_code>>

\* The first is archived before the workspace goes; what cannot be is an error.
ArchiveMain ==
    /\ phase = "final"
    /\ Archive("main")
    /\ phase' = "save"
    /\ UNCHANGED <<trial, launches, results, passed, report, exit_code>>

\* Errors of the workspace fail a run that raised nothing; a summary that
\* cannot be written is a failure without one.
Save ==
    /\ phase = "save"
    /\ \/ IF passed /\ trouble = {} THEN Finish("passed", 0) ELSE Finish("failed", 1)
       \/ Finish("none", 1)
    /\ UNCHANGED <<trial, launches, kept, results, trouble, passed>>

ReleaseSteps ==
    /\ trial = "release"
    /\ ValidateWheel \/ Prepare \/ ReleaseLaunch \/ VerifyCli \/ VerifyHook
         \/ ArchiveNode \/ ArchiveMain \/ Save
=============================================================================
