----------------------- MODULE PolicyPackProperties ------------------------
(***************************************************************************)
(* What an applied, refused or failed policy pack leaves on disk.          *)
(***************************************************************************)
EXTENDS PolicyPack

\* The types of compile_pack's plan, of _publish and of _rollback.
TypeOK ==
    /\ disk \in [Targets -> File] /\ policy_file \in Policies
    /\ held \in [Targets -> SUBSET File] /\ edits \in Nat
    /\ user \in [Targets -> Texts \union {None}]
    /\ touched \subseteq Targets /\ raced \subseteq Targets
    /\ phase \in {"load", "capture_policy", "capture", "derive", "verify_policy", "verify",
                  "publish", "replace", "chmod", "applied", "rollback", "restore",
                  "restore_mode", "done"}
    /\ cur \in 0..K /\ policy \in Policies \union {None}
    /\ before \in [Targets -> File] /\ want \in [Targets -> File]
    /\ changed \in Seq(Targets) /\ published \subseteq Targets /\ complete \in BOOLEAN
    /\ outcome \in {"none", "refused", "applied", "rolled_back", "incomplete", "killed"}

\* A receipt on disk means that the whole pack was published before it, even if
\* the process was killed a moment later (pack.py:170-180).
ReceiptLast ==
    disk[Receipt].section # None =>
        \A t \in Targets \ {Receipt} : t \in published \/ want[t] = before[t]

\* An applied pack is all there and a rolled back one has left nothing behind,
\* neither text nor mode, but for targets others changed since their capture.
AllOrNothing ==
    \A t \in Targets \ touched :
        /\ outcome = "applied" => disk[t] = want[t]
        /\ outcome = "rolled_back" => disk[t] = before[t]

\* What others write is never lost, neither to publication nor to rollback,
\* unless they wrote between the pack's last look at a file and its rename.
EditsSurvive == \A t \in Targets \ raced : disk[t].user = user[t]
=============================================================================
