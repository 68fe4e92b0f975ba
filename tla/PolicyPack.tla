----------------------------- MODULE PolicyPack -----------------------------
(***************************************************************************)
(* `policy-pack --apply` (core/pack.py `compile_pack`): AGENTS.md, the     *)
(* declared client hooks and the installation manifest are prepared in     *)
(* memory from what is on disk, checked a second time, and published one   *)
(* file after another, the success receipt last.  A failure restores what  *)
(* was published, unless somebody has edited it since.  All the while      *)
(* other actors edit the same files, any write may fail, and the process   *)
(* may be killed.                                                          *)
(*                                                                         *)
(* A file's text has two parts: what others wrote in it and the section    *)
(* exitzero generates from a policy.                                       *)
(***************************************************************************)
EXTENDS Naturals, Sequences, FiniteSets

CONSTANTS
  K,            (* targets in publication order: 1 is AGENTS.md, then the   *)
                (* hooks; K-1 is the manifest and K the receipt             *)
  Owned,        (* Git hooks, which hold nothing but the generated text     *)
  Texts,        (* what others may write in a file                          *)
  Policies,     (* texts of the policy file                                 *)
  None,         (* no such part                                             *)
  Executable,   (* targets published with execute permission                *)
  InitialDisks, (* targets a behaviour may start from                       *)
  MaxEdits      (* bound on the steps of others                             *)

Targets == 1..K
Receipt == K
Manifest == K - 1

Modes == {"private", "shared", "executable"}
Texted == [user: Texts \union {None}, section: Policies \union {None}, mode: Modes]
Missing == [user |-> None, section |-> None, mode |-> "none"]
File == Texted \union {Missing}

ASSUME PackAssumption ==
    /\ K \in Nat /\ K >= 3
    /\ Owned \subseteq Targets /\ Executable \subseteq Targets
    /\ None \notin Texts /\ None \notin Policies
    /\ InitialDisks \subseteq [Targets -> File]
    /\ \A d \in InitialDisks : d[Receipt] = Missing
    /\ MaxEdits \in Nat

VARIABLES
  disk,         (* the targets                                              *)
  policy_file,  (* the policy on disk                                       *)
  held,         (* history: what each target has held                       *)
  edits,        (* steps of others so far                                   *)
  user,         (* history: what others last left in each target            *)
  touched,      (* history: targets others changed since they were captured   *)
  raced,        (* history: targets they changed between a check and the    *)
                (* write it guards                                          *)
  phase, cur,   (* where compile_pack is, and the target at hand            *)
  policy,       (* the policy the command line loaded                       *)
  before,       (* each target's captured state                             *)
  want,         (* the state to publish                                     *)
  changed,      (* targets whose publication has begun, oldest first        *)
  published,    (* those that were replaced                                 *)
  complete,     (* rollback has restored everything so far                  *)
  outcome

othersVars == <<policy_file, held, edits, user, touched, raced>>
planVars == <<policy, before, want>>
publishVars == <<changed, published, complete>>
vars == <<disk, othersVars, phase, cur, planVars, publishVars, outcome>>

Init ==
    /\ disk \in InitialDisks
    /\ policy_file \in Policies
    /\ held = [t \in Targets |-> {disk[t]}] /\ edits = 0
    /\ user = [t \in Targets |-> disk[t].user]
    /\ touched = {} /\ raced = {}
    /\ phase = "load" /\ cur = 0
    /\ policy = None
    /\ before = [t \in Targets |-> Missing] /\ want = [t \in Targets |-> Missing]
    /\ changed = <<>> /\ published = {} /\ complete = TRUE
    /\ outcome = "none"

-----------------------------------------------------------------------------
(* Everybody else.                                                         *)

\* The steps at which a target has been looked at and not yet written.
InWindow(t) == cur = t /\ phase \in {"replace", "restore"}

Leave(t, file) ==
    /\ edits < MaxEdits /\ phase # "done"
    /\ file \notin held[t]
    /\ disk' = [disk EXCEPT ![t] = file]
    /\ held' = [held EXCEPT ![t] = @ \union {file}]
    /\ user' = [user EXCEPT ![t] = file.user]
    /\ edits' = edits + 1
    /\ touched' = touched \union {t}
    /\ raced' = IF InWindow(t) THEN raced \union {t} ELSE raced
    /\ UNCHANGED <<policy_file, phase, cur, planVars, publishVars, outcome>>

\* Somebody rewrites their part of a file, creates it, or deletes it.  Nobody
\* brings back a state the file had before.
Edit(t, text) ==
    Leave(t, IF disk[t] = Missing THEN [user |-> text, section |-> None, mode |-> "shared"]
             ELSE [disk[t] EXCEPT !.user = text])

Delete(t) == disk[t] # Missing /\ Leave(t, Missing)

EditPolicy(p) ==
    /\ edits < MaxEdits /\ phase # "done"
    /\ p # policy_file /\ policy_file' = p
    /\ edits' = edits + 1
    /\ UNCHANGED <<disk, held, user, touched, raced, phase, cur, planVars, publishVars,
                   outcome>>

-----------------------------------------------------------------------------
(* Preparation: nothing is written.                                        *)

LoadPolicy ==
    /\ phase = "load"
    /\ policy' = policy_file
    /\ phase' = "capture_policy"
    /\ UNCHANGED <<disk, othersVars, cur, before, want, publishVars, outcome>>

Stop(how) ==
    /\ outcome' = how /\ phase' = "done"
    /\ UNCHANGED <<disk, othersVars, cur, planVars, publishVars>>

CapturePolicy ==
    /\ phase = "capture_policy" /\ policy_file = policy
    /\ phase' = "capture" /\ cur' = Manifest
    /\ UNCHANGED <<disk, othersVars, planVars, publishVars, outcome>>

\* The manifest is captured first, then AGENTS.md, the hooks and the receipt.
After(t) == CASE t = Manifest -> 1 [] t = K - 2 -> Receipt [] OTHER -> t + 1

Capture ==
    /\ phase = "capture"
    /\ cur = Receipt => disk[Receipt] = Missing
    /\ before' = [before EXCEPT ![cur] = disk[cur]]
    /\ touched' = touched \ {cur}
    /\ phase' = "derive"
    /\ UNCHANGED <<disk, policy_file, held, edits, user, raced, cur, policy, want, publishVars, outcome>>

\* Fault: a new file has no mode to keep.
WantedModeKept(t, file) ==
    CASE t = Receipt -> "private"
      [] t \in Executable -> "executable"
      [] t \notin Executable /\ t # Receipt -> file.mode

\* A new file is shared, a receipt private, and an existing mode is kept; a Git
\* hook is made executable in any case.
WantedMode(t, file) ==
    CASE t = Receipt -> "private"
      [] t \in Executable -> "executable"
      [] t \notin Executable /\ t # Receipt /\ file = Missing -> "shared"
      [] OTHER -> file.mode

\* The generated section is replaced and the rest of the text kept.
Merged(t, text) ==
    [user |-> text.user, section |-> policy, mode |-> WantedMode(t, before[t])]

\* AGENTS.md and the receipt are derived from the captured text; everything
\* else is read a second time.
Source(t) == IF t \in {1, Receipt} THEN before[t] ELSE disk[t]

Derive ==
    /\ phase = "derive"
    /\ cur \in Owned => Source(cur).user = None
    /\ want' = [want EXCEPT ![cur] = Merged(cur, Source(cur))]
    /\ IF cur = Receipt THEN phase' = "verify_policy" /\ cur' = 0
       ELSE phase' = "capture" /\ cur' = After(cur)
    /\ UNCHANGED <<disk, othersVars, policy, before, publishVars, outcome>>

VerifyPolicy ==
    /\ phase = "verify_policy" /\ policy_file = policy
    /\ phase' = "verify" /\ cur' = 1
    /\ UNCHANGED <<disk, othersVars, planVars, publishVars, outcome>>

Verify ==
    /\ phase = "verify" /\ disk[cur] = before[cur]
    /\ IF cur = K THEN phase' = "publish" /\ cur' = 1
       ELSE cur' = cur + 1 /\ UNCHANGED phase
    /\ UNCHANGED <<disk, othersVars, planVars, publishVars, outcome>>

\* A stale policy, a receipt in the way, a foreign Git hook, an edit since the
\* capture, or any error while nothing has been written.
Refuse ==
    /\ phase \in {"load", "capture_policy", "capture", "derive", "verify_policy", "verify"}
    /\ Stop("refused")

-----------------------------------------------------------------------------
(* _publish.                                                               *)

NextTarget == IF cur = K THEN phase' = "applied" /\ UNCHANGED cur
              ELSE phase' = "publish" /\ cur' = cur + 1

SkipUnchanged ==
    /\ phase = "publish" /\ want[cur] = before[cur]
    /\ NextTarget
    /\ UNCHANGED <<disk, othersVars, planVars, publishVars, outcome>>

\* Fault: the target is not looked at again before it is replaced.
CompareNothing ==
    /\ phase = "publish" /\ want[cur] # before[cur]
    /\ changed' = Append(changed, cur)
    /\ phase' = "replace"
    /\ UNCHANGED <<disk, othersVars, cur, planVars, published, complete, outcome>>

Compare ==
    /\ phase = "publish" /\ want[cur] # before[cur]
    /\ disk[cur] = before[cur]
    /\ changed' = Append(changed, cur)
    /\ phase' = "replace"
    /\ UNCHANGED <<disk, othersVars, cur, planVars, published, complete, outcome>>

\* What the exitzero process itself leaves in a file is part of its history.
Write(t, file) ==
    /\ disk' = [disk EXCEPT ![t] = file]
    /\ held' = [held EXCEPT ![t] = @ \union {file}]
    /\ UNCHANGED <<policy_file, edits, user, touched, raced>>

\* write_atomic renames a private temporary over the target.
Replace ==
    /\ phase = "replace"
    /\ Write(cur, [want[cur] EXCEPT !.mode = "private"])
    /\ published' = published \union {cur}
    /\ phase' = "chmod"
    /\ UNCHANGED <<cur, planVars, changed, complete, outcome>>

\* chmod follows whatever file is there by now.
Chmod ==
    /\ phase = "chmod" /\ disk[cur] # Missing
    /\ Write(cur, [disk[cur] EXCEPT !.mode = want[cur].mode])
    /\ NextTarget
    /\ UNCHANGED <<planVars, publishVars, outcome>>

\* Fault: a target that cannot be written is skipped.
PublicationSkips ==
    /\ phase \in {"publish", "replace", "chmod"}
    /\ NextTarget
    /\ UNCHANGED <<disk, othersVars, planVars, publishVars, outcome>>

\* A concurrent edit found by Compare, or an error: any of the three may raise.
PublicationFails ==
    /\ phase \in {"publish", "replace", "chmod"}
    /\ phase' = "rollback"
    /\ UNCHANGED <<disk, othersVars, cur, planVars, publishVars, outcome>>

Applied == phase = "applied" /\ Stop("applied")

-----------------------------------------------------------------------------
(* _rollback, newest publication first.                                    *)

SameText(f, g) == f.user = g.user /\ f.section = g.section /\ (f = Missing <=> g = Missing)

\* Fault: whatever is in the way is restored.
StillOursAlways(t) == TRUE

\* The target holds what the pack put there; its mode may not be set yet.
StillOurs(t) ==
    /\ SameText(disk[t], want[t])
    /\ disk[t].mode = want[t].mode \/ t \in published

Last == changed[Len(changed)]
DropLast == changed' = SubSeq(changed, 1, Len(changed) - 1)

NothingToRestore ==
    /\ phase = "rollback" /\ changed # <<>> /\ disk[Last] = before[Last]
    /\ DropLast
    /\ UNCHANGED <<disk, othersVars, phase, cur, planVars, published, complete, outcome>>

\* Newer edits are left alone and reported.
LeaveAlone ==
    /\ phase = "rollback" /\ changed # <<>>
    /\ disk[Last] # before[Last] /\ ~StillOurs(Last)
    /\ DropLast /\ complete' = FALSE
    /\ UNCHANGED <<disk, othersVars, phase, cur, planVars, published, outcome>>

BeginRestore ==
    /\ phase = "rollback" /\ changed # <<>>
    /\ disk[Last] # before[Last] /\ StillOurs(Last)
    /\ cur' = Last /\ phase' = "restore"
    /\ UNCHANGED <<disk, othersVars, planVars, publishVars, outcome>>

\* A file the pack created is unlinked, any other rewritten.
Restore ==
    /\ phase = "restore"
    /\ \/ /\ before[cur] = Missing /\ disk[cur] # Missing
          /\ Write(cur, Missing)
          /\ phase' = "rollback" /\ DropLast
       \/ /\ before[cur] # Missing
          /\ Write(cur, [before[cur] EXCEPT !.mode = "private"])
          /\ phase' = "restore_mode" /\ UNCHANGED changed
    /\ UNCHANGED <<cur, planVars, published, complete, outcome>>

\* Fault: the captured mode is not put back.
RestoreNoMode ==
    /\ phase = "restore_mode"
    /\ phase' = "rollback" /\ DropLast
    /\ UNCHANGED <<disk, othersVars, cur, planVars, published, complete, outcome>>

RestoreMode ==
    /\ phase = "restore_mode" /\ disk[cur] # Missing
    /\ Write(cur, [disk[cur] EXCEPT !.mode = before[cur].mode])
    /\ phase' = "rollback" /\ DropLast
    /\ UNCHANGED <<cur, planVars, published, complete, outcome>>

\* An error while one target is restored does not keep the others from it.
RestoreFails ==
    /\ phase \in {"rollback", "restore", "restore_mode"} /\ changed # <<>>
    /\ phase' = "rollback" /\ DropLast /\ complete' = FALSE
    /\ UNCHANGED <<disk, othersVars, cur, planVars, published, outcome>>

RolledBack ==
    /\ phase = "rollback" /\ changed = <<>>
    /\ Stop(IF complete THEN "rolled_back" ELSE "incomplete")

\* A kill, or an interrupt no handler of pack.py catches.
Crash == phase # "done" /\ Stop("killed")

-----------------------------------------------------------------------------
Preparation ==
    LoadPolicy \/ CapturePolicy \/ Capture \/ Derive \/ VerifyPolicy \/ Verify \/ Refuse
Publication == SkipUnchanged \/ Compare \/ Replace \/ Chmod \/ PublicationFails \/ Applied
Rollback ==
    \/ NothingToRestore \/ LeaveAlone \/ BeginRestore \/ Restore \/ RestoreMode
    \/ RestoreFails \/ RolledBack

Others ==
    \/ \E t \in Targets : Delete(t) \/ \E text \in Texts : Edit(t, text)
    \/ \E p \in Policies : EditPolicy(p)

Next == Preparation \/ Publication \/ Rollback \/ Crash \/ Others

Spec == Init /\ [][Next]_vars
=============================================================================
