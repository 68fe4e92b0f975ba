----------------------------- MODULE PolicyPilot -----------------------------
(***************************************************************************)
(* scripts/pilot_policy_pack.py: cases are built from an archived export   *)
(* that others may change at any time; only bytes of the reviewed manifest *)
(* may get into one, and the archive must be what it was at the end.       *)
(* Hashing the whole archive is one step; verifying and copying are one    *)
(* step per file.                                                          *)
(***************************************************************************)
EXTENDS Trials

CONSTANTS
  Archived, Agents,  (* the archived files; the one others may append to     *)
  Cases,             (* the number of cases, the baseline first              *)
  MaxTampers         (* bound on the changes to the archive                  *)

ASSUME PilotAssumption == Cases \in Nat \ {0} /\ MaxTampers \in Nat

VARIABLES
  snapshot,  (* the archive: reviewed, appended to or changed               *)
  tampers,   (* changes so far                                              *)
  before,    (* what the archive hashed to at first                         *)
  checked,   (* the files verified since                                    *)
  template,  (* the bytes copied out of it                                  *)
  preserved  (* the archive hashes to the same at the end                   *)

pilotVars == <<snapshot, tampers, before, checked, template, preserved>>

States == {"reviewed", "appended", "changed"}

PilotInit ==
    /\ snapshot \in [Archived -> States] /\ tampers = 0
    /\ before = snapshot /\ checked = {} /\ template = [f \in Archived |-> "absent"]
    /\ preserved = FALSE

Tamper(f) ==
    /\ phase # "ended" /\ tampers < MaxTampers /\ tampers' = tampers + 1
    /\ \E s \in States \ {snapshot[f]} : snapshot' = [snapshot EXCEPT ![f] = s]
    /\ UNCHANGED <<trialVars, before, checked, template, preserved>>

\* A generated section appended to AGENTS.md can be cut off again; what is left
\* must hash to the manifest's value.
Original(f) == snapshot[f] = "reviewed" \/ (f = Agents /\ snapshot[f] = "appended")

\* Until there is an artifact to save it in, an exception leaves no summary.
Early(failed) ==
    IF failed THEN Finish("none", 1) ELSE UNCHANGED <<phase, report, exit_code>>

\* The manifest, the inventory and the first hash.
HashArchive ==
    /\ phase = "start"
    /\ before' = snapshot
    /\ \/ phase' = "prepare" /\ UNCHANGED <<report, exit_code>>
       \/ Finish("none", 1)
    /\ UNCHANGED <<trial, launches, kept, results, trouble, passed,
                   snapshot, tampers, checked, template, preserved>>

VerifyFile(f) ==
    /\ phase = "prepare" /\ f \notin checked
    /\ checked' = checked \union {f}
    /\ Early(~Original(f))
    /\ UNCHANGED <<trial, launches, kept, results, trouble, passed,
                   snapshot, tampers, before, template, preserved>>

\* The second hash; then the wheel is installed.
RehashArchive ==
    /\ phase = "prepare" /\ checked = Archived
    /\ IF snapshot # before THEN Finish("none", 1) /\ UNCHANGED passed
       ELSE /\ \/ phase' = "copy" /\ UNCHANGED passed
               \/ phase' = "rehash" /\ passed' = FALSE
            /\ UNCHANGED <<report, exit_code>>
    /\ UNCHANGED <<trial, launches, kept, results, trouble, pilotVars>>

\* Fault: files verified once are copied as they are.
CopyFileAsItIs(f) ==
    /\ phase = "copy" /\ template[f] = "absent"
    /\ template' = [template EXCEPT ![f] = snapshot[f]]
    /\ phase' = IF \A g \in Archived : template'[g] # "absent" THEN "launch" ELSE "copy"
    /\ UNCHANGED <<trial, launches, kept, results, trouble, passed, report, exit_code,
                   snapshot, tampers, before, checked, preserved>>

\* Every file is verified again as it is copied, and the copy once more.
CopyFile(f) ==
    /\ phase = "copy" /\ template[f] = "absent"
    /\ IF Original(f)
       THEN /\ template' = [template EXCEPT ![f] = "reviewed"]
            /\ phase' = IF \A g \in Archived : template'[g] # "absent" THEN "launch" ELSE "copy"
            /\ UNCHANGED passed
       ELSE phase' = "rehash" /\ passed' = FALSE /\ UNCHANGED template
    /\ UNCHANGED <<trial, launches, kept, results, trouble, report, exit_code,
                   snapshot, tampers, before, checked, preserved>>

\* Preparing the case, and the gate in it: `check` and what accompanies it
\* (lint-config, doctor, the upstream tests) are one launch.  The component
\* control and the probe are cases like those after the baseline; the timing
\* runs, which raise when anything is wrong with them, are left out.
PilotLaunch ==
    /\ phase = "launch"
    /\ \/ Launch(Current, Outcomes) /\ phase' = "score" /\ UNCHANGED passed
       \/ phase' = "rehash" /\ passed' = FALSE /\ UNCHANGED launches
    /\ UNCHANGED <<trial, kept, results, trouble, report, exit_code, pilotVars>>

\* Output, receipt and code that disagree raise; a code or rules other than
\* expected fail the case, and all of the pilot when it is the baseline.  The
\* code of a run that timed out is no receipt's.
ScoreCase ==
    /\ phase = "score"
    /\ IF ~Last.printed \/ Last.stored # "whole" \/ ~Last.agrees \/ Last.code = "timeout"
       THEN phase' = "rehash" /\ passed' = FALSE /\ UNCHANGED <<results, kept>>
       ELSE LET valid == Last.code = "expected" /\ Last.rest IN
            /\ kept' = kept \union {Len(launches)}
            /\ Settle(IF valid THEN "PASS" ELSE "FAIL")
            /\ passed' = (passed /\ (valid \/ Current # 1))
            /\ phase' = IF ~passed' \/ Current = Cases THEN "rehash" ELSE "launch"
    /\ UNCHANGED <<trial, launches, trouble, report, exit_code, pilotVars>>

\* Whatever happened, the archive is hashed once more.
HashAtLast ==
    /\ phase = "rehash"
    /\ preserved' = (snapshot = before)
    /\ phase' = "save"
    /\ UNCHANGED <<trial, launches, kept, results, trouble, passed, report, exit_code,
                   snapshot, tampers, before, checked, template>>

SavePilot ==
    /\ phase = "save"
    /\ \/ IF passed /\ preserved /\ (\A n \in DOMAIN results : results[n] = "PASS")
          THEN Finish("passed", 0) ELSE Finish("failed", 1)
       \/ Finish("none", 1)
    /\ UNCHANGED <<trial, launches, kept, results, trouble, passed, pilotVars>>

PilotSteps ==
    /\ trial = "pilot"
    /\ \/ HashArchive \/ RehashArchive \/ PilotLaunch \/ ScoreCase \/ HashAtLast \/ SavePilot
       \/ \E f \in Archived : Tamper(f) \/ VerifyFile(f) \/ CopyFile(f)

PilotTypes ==
    /\ snapshot \in [Archived -> States] /\ before \in [Archived -> States]
    /\ tampers \in 0..MaxTampers /\ checked \subseteq Archived
    /\ template \in [Archived -> States \union {"absent"}] /\ preserved \in BOOLEAN
=============================================================================
