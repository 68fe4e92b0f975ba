-------------------------- MODULE PolicyPackProofs --------------------------
(***************************************************************************)
(* Proofs about the policy pack for any number of targets, every policy    *)
(* and text, and any number of edits by others.                            *)
(*                                                                         *)
(* The argument: nobody brings back a state a target had before, so a      *)
(* target that still is what was captured has not been touched since, and  *)
(* what is to be published was derived from that very state.  From the     *)
(* last check on, each target others leave alone is where the phase says.  *)
(***************************************************************************)
EXTENDS PolicyPackProperties, SequenceTheorems, TLAPS

Preparing == {"load", "capture_policy", "capture", "derive", "verify_policy", "verify"}
Publishing == {"publish", "replace", "chmod"}
Restoring == {"rollback", "restore", "restore_mode"}
AtTarget == {"capture", "derive", "verify", "restore", "restore_mode"} \union Publishing

\* t is derived before u: the manifest first, then 1, 2, ... and the receipt.
Precedes(t, u) == u # Manifest /\ (t = Manifest \/ t < u)

\* Targets whose wanted state stands, and those whose captured state does.
Derived ==
    IF phase \in {"load", "capture_policy", "done"} THEN {}
    ELSE IF phase \in {"capture", "derive"} THEN {t \in Targets : Precedes(t, cur)}
    ELSE Targets
Captured == Derived \union (IF phase = "derive" THEN {cur} ELSE {})

Cursor ==
    /\ phase \in AtTarget => cur \in Targets
    /\ phase \notin {"load", "done"} => policy \in Policies
    /\ phase \in Preparing => published = {} /\ changed = <<>> /\ complete
    /\ phase \in {"restore", "restore_mode"} => changed # <<>> /\ cur = Last
    /\ phase = "restore_mode" => before[cur] # Missing
    /\ phase # "done" => outcome = "none"

\* Every derived target is to get this policy's section.
Plans == \A t \in Derived : want[t] \in Texted /\ want[t].section = policy

TypeInv == TypeOK /\ Cursor /\ Plans

\* A target that is as captured has not been touched since, and conversely
\* while nothing is published.
Captures ==
    /\ \A t \in Targets : disk[t] \in held[t]
    /\ phase \in Preparing =>
         \A t \in Captured :
             /\ before[t] \in held[t]
             /\ disk[t] = before[t] <=> t \notin touched

\* What is published in a target keeps what others wrote in it.
Derivations ==
    /\ phase \in Preparing => \A t \in Derived : disk[t] = before[t]
                                                   => want[t].user = before[t].user
    /\ phase = "verify" => \A t \in Targets : t < cur => want[t].user = before[t].user
    /\ phase \in Publishing \union Restoring =>
         \A t \in Targets : want[t].user = before[t].user

\* The receipt comes last and replaces nothing.
Receipts ==
    /\ before[Receipt] = Missing
    /\ phase \in Preparing => disk[Receipt].section = None
    /\ phase \in Publishing =>
         \A t \in Targets : t < cur => t \in published \/ want[t] = before[t]
    /\ phase = "chmod" => cur \in published

\* What the pack looked at last is what it is about to replace.
Windows ==
    /\ phase = "replace" /\ cur \notin raced => disk[cur] = before[cur]
    /\ phase = "restore" /\ cur \notin raced => disk[cur].user = want[cur].user

Begun == {changed[j] : j \in 1..Len(changed)}
Private(file) == [file EXCEPT !.mode = "private"]

\* Where publication has left the targets others did not touch.
Forward ==
    /\ phase \in Publishing =>
         \A t \in Targets \ touched :
             /\ t < cur => disk[t] = want[t] /\ (want[t] = before[t] \/ t \in Begun)
             /\ t > cur => disk[t] = before[t]
             /\ t = cur => disk[t] = IF phase = "chmod" THEN Private(want[t]) ELSE before[t]
    /\ phase \in {"replace", "chmod"} => cur \in Begun
    /\ phase = "applied" => \A t \in Targets \ touched : disk[t] = want[t]

\* Where rollback has left them, as long as it has restored everything.
Backward ==
    /\ phase \in Restoring /\ complete =>
         \A t \in Targets \ touched : t \in Begun \/ disk[t] = before[t]
    /\ phase = "restore_mode" /\ cur \notin touched => disk[cur] = Private(before[cur])

PackInv ==
    /\ Captures /\ Derivations /\ Receipts /\ Windows /\ Forward /\ Backward
    /\ ReceiptLast /\ AllOrNothing /\ EditsSurvive

-----------------------------------------------------------------------------
(* Types.                                                                  *)

\* The order of the preparation is an order.
LEMMA Order ==
    ASSUME NEW t \in Targets, NEW u \in Targets
    PROVE  /\ ~Precedes(t, Manifest) /\ (Precedes(t, Receipt) <=> t # Receipt)
           /\ u # Receipt => /\ After(u) \in Targets
                             /\ Precedes(t, After(u)) <=> Precedes(t, u) \/ t = u
<1> USE PackAssumption DEF PackAssumption, Targets, Receipt, Manifest, Precedes, After
<1>1. CASE u = Manifest
  BY <1>1
<1>2. CASE u # Manifest /\ u = K - 2
  BY <1>2
<1>3. CASE u # Manifest /\ u # K - 2
  BY <1>3
<1> QED BY <1>1, <1>2, <1>3

\* Setting a mode or a text gives a file.
LEMMA FileParts ==
    /\ Missing \in File /\ Missing \notin Texted
    /\ \A f \in File : f # Missing => f \in Texted
    /\ \A f \in File : /\ f.user \in Texts \union {None}
                       /\ f.section \in Policies \union {None}
    /\ \A f \in Texted, m \in Modes : [f EXCEPT !.mode = m] \in Texted
    /\ \A f \in Texted, u \in Texts : [f EXCEPT !.user = u] \in Texted
    /\ \A f \in Texted : f.mode \in Modes
BY DEF File, Missing, Texted, Modes

\* The types hold at the start, with nothing derived.
LEMMA TypeInit == Init => TypeInv
<1> SUFFICES ASSUME Init PROVE TypeInv
  OBVIOUS
<1>1. disk \in [Targets -> File]
  BY PackAssumption DEF Init, PackAssumption
<1>2. TypeOK
  BY <1>1, FileParts, PackAssumption DEF Init, TypeOK, PackAssumption
<1> QED BY <1>2 DEF Init, TypeInv, Cursor, Plans, Derived, Preparing, AtTarget, Publishing

\* What is merged for a target is a text with this policy's section.
LEMMA MergedTexted ==
    ASSUME TypeInv, NEW t \in Targets, NEW f \in File, policy \in Policies
    PROVE  /\ Merged(t, f) \in Texted /\ Merged(t, f).section = policy
           /\ Merged(t, f).user = f.user
<1>1. WantedMode(t, before[t]) \in Modes
  <2>1. before[t] \in File
    BY DEF TypeInv, TypeOK
  <2>2. before[t] # Missing => before[t].mode \in Modes
    BY <2>1, FileParts
  <2> QED BY <2>2 DEF WantedMode, Modes
<1>2. f.user \in Texts \union {None}
  BY FileParts
<1> QED BY <1>1, <1>2 DEF Merged, Texted

\* Others leave one target in another state, with its section or without any, or
\* touch the policy file alone.
LEMMA WhatOthersDo ==
    ASSUME TypeInv, Others
    PROVE  \/ \E t \in Targets, file \in File :
                 Leave(t, file) /\ file.section \in {None, disk[t].section}
           \/ \E p \in Policies : EditPolicy(p)
<1>1. ASSUME NEW t \in Targets, NEW text \in Texts, Edit(t, text)
      PROVE  \E file \in File : Leave(t, file) /\ file.section \in {None, disk[t].section}
  <2> DEFINE file == IF disk[t] = Missing
                     THEN [user |-> text, section |-> None, mode |-> "shared"]
                     ELSE [disk[t] EXCEPT !.user = text]
  <2>1. disk[t] \in File
    BY DEF TypeInv, TypeOK
  <2>2. CASE disk[t] = Missing
    BY <2>2, <1>1 DEF Edit, File, Texted, Modes
  <2>3. CASE disk[t] # Missing
    <3>1. disk[t] \in Texted
      BY <2>1, <2>3, FileParts
    <3>2. file \in File /\ file.section = disk[t].section
      BY <2>3, <3>1 DEF File, Texted
    <3> QED BY <1>1, <2>3, <3>2 DEF Edit
  <2> QED BY <2>2, <2>3
<1>2. ASSUME NEW t \in Targets, Delete(t)
      PROVE  \E file \in File : Leave(t, file) /\ file.section \in {None, disk[t].section}
  BY <1>2, FileParts DEF Delete, Missing
<1> QED BY <1>1, <1>2 DEF Others

\* Every step preserves the types and the plan.
LEMMA TypeStep == TypeInv /\ [Next]_vars => TypeInv'
<1> SUFFICES ASSUME TypeInv, [Next]_vars PROVE TypeInv'
  OBVIOUS
<1> USE DEF TypeInv, TypeOK, Cursor, Plans, Derived, Preparing, AtTarget, Publishing, othersVars,
            planVars, publishVars
<1>1. CASE UNCHANGED vars
  BY <1>1 DEF vars, Last
<1>2. ASSUME NEW t \in Targets, NEW file \in File, Leave(t, file) PROVE TypeInv'
  BY <1>2, FileParts DEF Leave, Last
<1>3. CASE Others
  <2>1. ASSUME NEW p \in Policies, EditPolicy(p) PROVE TypeInv'
    BY <2>1 DEF EditPolicy, Last
  <2> QED BY <1>2, <1>3, <2>1, WhatOthersDo
<1>4. CASE LoadPolicy
  BY <1>4 DEF LoadPolicy
<1>5. CASE CapturePolicy
  <2>1. Manifest \in Targets
    BY PackAssumption DEF PackAssumption, Targets, Manifest
  <2> QED BY <1>5, <2>1, Order DEF CapturePolicy, Targets
<1>6. CASE Capture
  BY <1>6 DEF Capture
<1>7. CASE Derive
  <2>1. Source(cur) \in File /\ cur \in Targets /\ policy \in Policies
    BY <1>7 DEF Derive, Source
  <2>2. \A t \in Targets : want'[t] = IF t = cur THEN Merged(cur, Source(cur)) ELSE want[t]
    BY <1>7 DEF Derive
  <2>3. Merged(cur, Source(cur)) \in Texted /\ Merged(cur, Source(cur)).section = policy
    BY <2>1, MergedTexted
  <2>4. want' \in [Targets -> File]
    BY <1>7, <2>1, <2>3 DEF Derive, File
  <2>5. \A t \in Targets : Precedes(t, cur) \/ t = cur
                             => want'[t] \in Texted /\ want'[t].section = policy
    BY <1>7, <2>2, <2>3 DEF Derive
  <2>6. CASE cur = Receipt
    <3>1. \A t \in Targets : Precedes(t, cur) \/ t = cur
      BY <2>6, Order
    <3>2. /\ phase = "derive" /\ phase' = "verify_policy" /\ cur' = 0
          /\ UNCHANGED <<disk, othersVars, policy, before, publishVars, outcome>>
      BY <1>7, <2>6 DEF Derive
    <3>3. Plans'
      BY <2>5, <3>1, <3>2
    <3>4. cur' \in 0..K
      BY <3>2, PackAssumption DEF PackAssumption
    <3> QED BY <2>4, <3>2, <3>3, <3>4
  <2>7. CASE cur # Receipt
    <3>1. After(cur) \in Targets
          /\ \A t \in Targets : Precedes(t, After(cur)) <=> Precedes(t, cur) \/ t = cur
      BY <2>1, <2>7, Order
    <3>2. /\ phase = "derive" /\ phase' = "capture" /\ cur' = After(cur)
          /\ UNCHANGED <<disk, othersVars, policy, before, publishVars, outcome>>
      BY <1>7, <2>7 DEF Derive
    <3>3. cur' \in 0..K
      BY <3>1, <3>2 DEF Targets
    <3>4. Plans'
      BY <2>5, <3>1, <3>2
    <3> QED BY <2>4, <3>1, <3>2, <3>3, <3>4
  <2> QED BY <2>6, <2>7
<1>8. CASE VerifyPolicy \/ Verify
  <2>1. /\ phase \in {"verify_policy", "verify"} /\ phase' \in {"verify", "publish"}
        /\ UNCHANGED <<disk, othersVars, planVars, publishVars, outcome>>
    BY <1>8 DEF VerifyPolicy, Verify
  <2>2. cur' \in Targets
    <3>1. CASE VerifyPolicy
      BY <3>1, PackAssumption DEF VerifyPolicy, Targets, PackAssumption
    <3>2. CASE Verify
      BY <3>2, PackAssumption DEF Verify, Targets, PackAssumption
    <3> QED BY <1>8, <3>1, <3>2
  <2>3. cur' \in 0..K
    BY <2>2 DEF Targets
  <2> QED BY <2>1, <2>2, <2>3
<1>9. CASE Refuse \/ Applied \/ RolledBack \/ Crash
  BY <1>9 DEF Refuse, Applied, RolledBack, Crash, Stop
<1>10. CASE SkipUnchanged \/ Compare \/ PublicationFails
  <2>1. /\ phase \in {"publish", "replace", "chmod"}
        /\ phase' \in {"publish", "replace", "applied", "rollback"}
        /\ UNCHANGED <<disk, othersVars, planVars, published, complete, outcome>>
    BY <1>10 DEF SkipUnchanged, Compare, PublicationFails, NextTarget
  <2>2. changed' \in Seq(Targets)
    BY <1>10 DEF SkipUnchanged, Compare, PublicationFails
  <2>3. cur' \in Targets /\ cur' \in 0..K
    BY <1>10, PackAssumption
    DEF SkipUnchanged, Compare, PublicationFails, NextTarget, Targets, PackAssumption
  <2> QED BY <2>1, <2>2, <2>3
<1>11. CASE Replace
  <2>1. cur \in Targets /\ [want[cur] EXCEPT !.mode = "private"] \in File
    BY <1>11, FileParts DEF Replace, File, Modes
  <2> QED BY <1>11, <2>1 DEF Replace, Write
<1>12. CASE Chmod
  <2>1. cur \in Targets /\ want[cur] \in Texted /\ disk[cur] \in Texted
    BY <1>12, FileParts DEF Chmod
  <2>2. [disk[cur] EXCEPT !.mode = want[cur].mode] \in File
    BY <2>1, FileParts DEF File
  <2>3. /\ phase = "chmod" /\ phase' \in {"publish", "applied"}
        /\ disk' = [disk EXCEPT ![cur] = [disk[cur] EXCEPT !.mode = want[cur].mode]]
        /\ held' = [held EXCEPT ![cur] =
                       @ \union {[disk[cur] EXCEPT !.mode = want[cur].mode]}]
        /\ UNCHANGED <<policy_file, edits, user, touched, raced, planVars, publishVars, outcome>>
    BY <1>12 DEF Chmod, Write, NextTarget
  <2>4. cur' \in Targets /\ cur' \in 0..K
    BY <1>12, PackAssumption DEF Chmod, NextTarget, Targets, PackAssumption
  <2> QED BY <2>1, <2>2, <2>3, <2>4
<1>13. CASE NothingToRestore \/ LeaveAlone \/ BeginRestore \/ RestoreFails
  <2>1. changed # <<>> => Len(changed) \in Nat \ {0} /\ Last \in Targets
                          /\ SubSeq(changed, 1, Len(changed) - 1) \in Seq(Targets)
    BY DEF Last
  <2>2. /\ phase \in {"rollback", "restore", "restore_mode"} /\ changed # <<>>
        /\ phase' \in {"rollback", "restore"}
        /\ UNCHANGED <<disk, othersVars, planVars, published, outcome>>
        /\ complete' \in BOOLEAN
    BY <1>13 DEF NothingToRestore, LeaveAlone, BeginRestore, RestoreFails
  <2>3. changed' \in Seq(Targets)
    BY <1>13, <2>1, <2>2 DEF NothingToRestore, LeaveAlone, BeginRestore, RestoreFails, DropLast
  <2>4. cur' \in 0..K
    BY <1>13, <2>1, <2>2 DEF NothingToRestore, LeaveAlone, BeginRestore, RestoreFails, Targets
  <2>5. phase' = "restore" => UNCHANGED changed /\ cur' = Last
    BY <1>13 DEF NothingToRestore, LeaveAlone, BeginRestore, RestoreFails
  <2> QED BY <2>1, <2>2, <2>3, <2>4, <2>5 DEF Last
<1>14. CASE Restore \/ RestoreMode
  <2>1. /\ cur \in Targets /\ changed # <<>>
        /\ SubSeq(changed, 1, Len(changed) - 1) \in Seq(Targets)
    BY <1>14 DEF Restore, RestoreMode
  <2>2. before[cur] # Missing => [before[cur] EXCEPT !.mode = "private"] \in File
    BY <2>1, FileParts DEF File, Modes
  <2>3. disk[cur] # Missing /\ before[cur] # Missing
          => [disk[cur] EXCEPT !.mode = before[cur].mode] \in File
    BY <2>1, FileParts DEF File
  <2>4. PICK file \in File : disk' = [disk EXCEPT ![cur] = file]
                              /\ held' = [held EXCEPT ![cur] = @ \union {file}]
    BY <1>14, <2>2, <2>3, FileParts DEF Restore, RestoreMode, Write
  <2>5. /\ phase \in {"restore", "restore_mode"} /\ phase' \in {"rollback", "restore_mode"}
        /\ UNCHANGED <<policy_file, edits, user, touched, raced, cur, planVars, published,
                       complete, outcome>>
        /\ changed' \in Seq(Targets)
        /\ phase' = "restore_mode" => before[cur] # Missing /\ UNCHANGED changed
    BY <1>14, <2>1 DEF Restore, RestoreMode, Write, DropLast
  <2> QED BY <2>1, <2>4, <2>5 DEF Last
<1> QED
  BY <1>1, <1>3, <1>4, <1>5, <1>6, <1>7, <1>8, <1>9, <1>10, <1>11, <1>12, <1>13, <1>14
  DEF Next, Preparation, Publication, Rollback

\* The plan, the targets and the history keep their types.
THEOREM PackTypesHold == Spec => []TypeOK
<1>1. TypeInv => TypeOK
  BY DEF TypeInv
<1> QED BY <1>1, TypeInit, TypeStep, PTL DEF Spec

-----------------------------------------------------------------------------
(* What has been captured, and what was made of it.                        *)

\* A state others leave a target in is none it had before.
LEMMA LeftAsNew ==
    ASSUME TypeInv, NEW t \in Targets, NEW file \in File, Leave(t, file)
    PROVE  /\ \A u \in Targets : disk'[u] = IF u = t THEN file ELSE disk[u]
           /\ \A u \in Targets : held[u] \subseteq held'[u] /\ (u # t => held'[u] = held[u])
           /\ \A u \in Targets : user'[u] = IF u = t THEN file.user ELSE user[u]
           /\ file \in held'[t] /\ file \notin held[t]
           /\ touched' = touched \union {t}
           /\ raced \subseteq raced' /\ (InWindow(t) => t \in raced')
           /\ UNCHANGED <<phase, cur, policy, before, want, changed, published, complete,
                          outcome>>
BY DEF Leave, TypeInv, TypeOK, planVars, publishVars

\* What the pack itself leaves in a target becomes part of its history.
LEMMA Written ==
    ASSUME TypeInv, NEW file, Write(cur, file), cur \in Targets
    PROVE  /\ \A u \in Targets : disk'[u] = IF u = cur THEN file ELSE disk[u]
           /\ \A u \in Targets : held[u] \subseteq held'[u]
           /\ file \in held'[cur]
           /\ UNCHANGED <<user, touched, raced>>
BY DEF Write, TypeInv, TypeOK

\* Deriving a target adds it to the derived ones; nothing else does.
LEMMA DerivedGrows ==
    ASSUME TypeInv, Derive
    PROVE  /\ cur \in Targets /\ phase = "derive" /\ phase' \in {"capture", "verify_policy"}
           /\ Derived' = Derived \union {cur} /\ Captured' = Captured
<1>1. cur \in Targets /\ phase = "derive" /\ phase' \in {"capture", "verify_policy"}
  BY DEF Derive, TypeInv, Cursor, AtTarget
<1>2. Derived' = Derived \union {cur}
  <2>1. CASE cur = Receipt
    BY <1>1, <2>1, Order DEF Derive, Derived
  <2>2. CASE cur # Receipt
    BY <1>1, <2>2, Order DEF Derive, Derived
  <2> QED BY <2>1, <2>2
<1> QED BY <1>1, <1>2 DEF Captured

\* As long as nothing is published, a captured target is as it was captured if
\* and only if others have not touched it.
LEMMA CapturesStep == TypeInv /\ Captures /\ [Next]_vars => Captures'
<1> SUFFICES ASSUME TypeInv, Captures, [Next]_vars PROVE Captures'
  OBVIOUS
<1> USE DEF Captures, Preparing, planVars, publishVars, othersVars
<1>1. Captured \subseteq Targets
  BY DEF Captured, Derived, TypeInv, Cursor, AtTarget
<1>2. CASE UNCHANGED vars
  BY <1>2 DEF vars, Captured, Derived
<1>3. ASSUME NEW t \in Targets, NEW file \in File, Leave(t, file) PROVE Captures'
  <2>1. Captured' = Captured
    BY <1>3, LeftAsNew DEF Captured, Derived
  <2> QED BY <1>1, <1>3, <2>1, LeftAsNew
<1>4. CASE Others
  <2>1. ASSUME NEW p \in Policies, EditPolicy(p) PROVE Captures'
    BY <2>1 DEF EditPolicy, Captured, Derived
  <2> QED BY <1>3, <1>4, <2>1, WhatOthersDo
<1>5. CASE LoadPolicy \/ CapturePolicy
  <2>1. Captured' = {}
    <3>1. Manifest \in Targets
      BY PackAssumption DEF PackAssumption, Targets, Manifest
    <3> QED BY <1>5, <3>1, Order DEF LoadPolicy, CapturePolicy, Captured, Derived
  <2> QED BY <1>5, <2>1 DEF LoadPolicy, CapturePolicy
<1>6. CASE Capture
  <2>1. /\ phase = "capture" /\ phase' = "derive" /\ cur \in Targets
        /\ \A t \in Targets : before'[t] = IF t = cur THEN disk[cur] ELSE before[t]
        /\ touched' = touched \ {cur}
        /\ UNCHANGED <<disk, held, cur>>
    BY <1>6 DEF Capture, TypeInv, TypeOK, Cursor, AtTarget
  <2>2. Captured' = Captured \union {cur}
    BY <2>1 DEF Captured, Derived
  <2> QED BY <1>1, <2>1, <2>2
<1>7. CASE Derive
  BY <1>7, DerivedGrows DEF Derive
<1>8. CASE VerifyPolicy \/ Verify
  <2>1. phase' \in Preparing => Captured' = Captured
    BY <1>8 DEF VerifyPolicy, Verify, Captured, Derived
  <2> QED BY <1>8, <2>1 DEF VerifyPolicy, Verify
<1>9. CASE Refuse \/ Applied \/ RolledBack \/ Crash
  BY <1>9 DEF Refuse, Applied, RolledBack, Crash, Stop
<1>10. CASE SkipUnchanged \/ Compare \/ PublicationFails
  BY <1>10 DEF SkipUnchanged, Compare, PublicationFails, NextTarget
<1>11. CASE NothingToRestore \/ LeaveAlone \/ BeginRestore \/ RestoreFails
  BY <1>11 DEF NothingToRestore, LeaveAlone, BeginRestore, RestoreFails
<1>12. CASE Replace \/ Chmod \/ Restore \/ RestoreMode
  <2>1. PICK file : Write(cur, file)
    BY <1>12 DEF Replace, Chmod, Restore, RestoreMode
  <2>2. cur \in Targets /\ phase' \notin Preparing
    BY <1>12 DEF Replace, Chmod, Restore, RestoreMode, NextTarget, TypeInv, Cursor, AtTarget,
                 Publishing
  <2> QED BY <2>1, <2>2, Written
<1> QED
  BY <1>2, <1>4, <1>5, <1>6, <1>7, <1>8, <1>9, <1>10, <1>11, <1>12
  DEF Next, Preparation, Publication, Rollback

\* What is to be published keeps what others wrote in the target that was
\* captured.
LEMMA DerivationsStep == TypeInv /\ Captures /\ Derivations /\ [Next]_vars => Derivations'
<1> SUFFICES ASSUME TypeInv, Captures, Derivations, [Next]_vars PROVE Derivations'
  OBVIOUS
<1> USE DEF Derivations, Preparing, Publishing, Restoring, planVars, publishVars, othersVars
<1>1. CASE UNCHANGED vars
  BY <1>1 DEF vars, Derived
<1>2. ASSUME NEW t \in Targets, NEW file \in File, Leave(t, file) PROVE Derivations'
  <2>1. Derived' = Derived /\ Derived \subseteq Targets /\ Derived \subseteq Captured
    <3>1. UNCHANGED <<phase, cur>>
      BY <1>2, LeftAsNew
    <3> QED BY <3>1 DEF Derived, Captured
  <2>2. phase \in Preparing /\ t \in Derived => disk'[t] # before[t]
    BY <1>2, <2>1, LeftAsNew DEF Captures
  <2> QED BY <1>2, <2>1, <2>2, LeftAsNew
<1>3. CASE Others
  <2>1. ASSUME NEW p \in Policies, EditPolicy(p) PROVE Derivations'
    BY <2>1 DEF EditPolicy, Derived
  <2> QED BY <1>2, <1>3, <2>1, WhatOthersDo
<1>4. CASE LoadPolicy \/ CapturePolicy
  <2>1. Derived' = {}
    <3>1. Manifest \in Targets
      BY PackAssumption DEF PackAssumption, Targets, Manifest
    <3> QED BY <1>4, <3>1, Order DEF LoadPolicy, CapturePolicy, Derived
  <2> QED BY <1>4, <2>1 DEF LoadPolicy, CapturePolicy
<1>5. CASE Capture
  <2>1. /\ phase = "capture" /\ phase' = "derive" /\ cur \in Targets
        /\ \A t \in Targets : t # cur => before'[t] = before[t]
        /\ UNCHANGED <<disk, want, cur>>
    BY <1>5 DEF Capture, TypeInv, TypeOK, Cursor, AtTarget
  <2>2. Derived' = Derived /\ cur \notin Derived /\ Derived \subseteq Targets
    BY <2>1 DEF Derived, Precedes, Targets
  <2> QED BY <2>1, <2>2
<1>6. CASE Derive
  <2>1. \A t \in Targets : want'[t] = IF t = cur THEN Merged(cur, Source(cur)) ELSE want[t]
    BY <1>6 DEF Derive, TypeInv, TypeOK
  <2>2. disk[cur] = before[cur] => Merged(cur, Source(cur)).user = before[cur].user
    BY DEF Merged, Source
  <2>3. UNCHANGED <<disk, before>>
    BY <1>6 DEF Derive
  <2>4. Derived \subseteq Targets
    BY DEF Derived
  <2> QED BY <1>6, <2>1, <2>2, <2>3, <2>4, DerivedGrows
<1>7. CASE VerifyPolicy
  BY <1>7 DEF VerifyPolicy, Derived, Targets
<1>8. CASE Verify
  <2>1. /\ phase = "verify" /\ cur \in Targets /\ disk[cur] = before[cur]
        /\ \/ phase' = "verify" /\ cur' = cur + 1
           \/ phase' = "publish" /\ cur = K
        /\ UNCHANGED <<disk, want, before>>
    BY <1>8 DEF Verify, TypeInv, Cursor, AtTarget
  <2>2. Derived = Targets /\ (phase' = "verify" => Derived' = Targets)
    BY <2>1 DEF Derived
  <2>3. \A t \in Targets : t < cur + 1 => want[t].user = before[t].user
    BY <2>1, <2>2 DEF Targets
  <2>4. cur = K => \A t \in Targets : want[t].user = before[t].user
    BY <2>3, PackAssumption DEF Targets, PackAssumption
  <2> QED BY <2>1, <2>2, <2>3, <2>4
<1>9. CASE Refuse \/ Applied \/ RolledBack \/ Crash
  BY <1>9 DEF Refuse, Applied, RolledBack, Crash, Stop
<1>10. CASE Publication /\ ~Applied
  BY <1>10 DEF Publication, SkipUnchanged, Compare, Replace, Chmod, PublicationFails, NextTarget
<1>11. CASE Rollback /\ ~RolledBack
  BY <1>11 DEF Rollback, NothingToRestore, LeaveAlone, BeginRestore, Restore, RestoreMode,
               RestoreFails
<1> QED
  BY <1>1, <1>3, <1>4, <1>5, <1>6, <1>7, <1>8, <1>9, <1>10, <1>11
  DEF Next, Preparation, Publication, Rollback

-----------------------------------------------------------------------------
(* The receipt.                                                            *)

\* The receipt replaces nothing, and appears after every target that changes.
LEMMA ReceiptsStep == TypeInv /\ Receipts /\ ReceiptLast /\ [Next]_vars
                        => Receipts' /\ ReceiptLast'
<1> SUFFICES ASSUME TypeInv, Receipts, ReceiptLast, [Next]_vars PROVE Receipts' /\ ReceiptLast'
  OBVIOUS
<1> USE DEF Receipts, ReceiptLast, Preparing, Publishing, planVars, publishVars, othersVars
<1>1. Receipt \in Targets /\ 1 \in Targets /\ \A t \in Targets \ {Receipt} : t < Receipt
  BY PackAssumption DEF PackAssumption, Targets, Receipt
<1>2. CASE UNCHANGED vars
  BY <1>2 DEF vars
<1>3. ASSUME NEW t \in Targets, NEW file \in File, Leave(t, file),
             file.section \in {None, disk[t].section}
      PROVE  Receipts' /\ ReceiptLast'
  <2>1. disk'[Receipt].section \in {None, disk[Receipt].section}
    BY <1>1, <1>3, LeftAsNew
  <2> QED BY <1>3, <2>1, LeftAsNew
<1>4. CASE Others
  <2>1. ASSUME NEW p \in Policies, EditPolicy(p) PROVE Receipts' /\ ReceiptLast'
    BY <2>1 DEF EditPolicy
  <2> QED BY <1>3, <1>4, <2>1, WhatOthersDo
<1>5. CASE LoadPolicy \/ CapturePolicy \/ VerifyPolicy \/ Verify
  <2>1. phase' = "publish" => \A t \in Targets : ~(t < cur')
    BY <1>5 DEF LoadPolicy, CapturePolicy, VerifyPolicy, Verify, Targets
  <2> QED BY <1>5, <2>1 DEF LoadPolicy, CapturePolicy, VerifyPolicy, Verify
<1>6. CASE Capture
  <2>1. before'[Receipt] = Missing
    BY <1>1, <1>6 DEF Capture, TypeInv, TypeOK, Cursor, AtTarget
  <2> QED BY <1>6, <2>1 DEF Capture
<1>7. CASE Derive
  BY <1>7 DEF Derive
<1>8. CASE Refuse \/ Applied \/ RolledBack \/ Crash
  BY <1>8 DEF Refuse, Applied, RolledBack, Crash, Stop
<1>9. CASE SkipUnchanged \/ Compare \/ PublicationFails
  <2>1. /\ phase' \in {"publish", "replace", "applied", "rollback"}
        /\ UNCHANGED <<disk, want, before, published>>
    BY <1>9 DEF SkipUnchanged, Compare, PublicationFails, NextTarget
  <2>2. phase' \in Publishing =>
          \A t \in Targets : t < cur' => t \in published \/ want[t] = before[t]
    BY <1>9 DEF SkipUnchanged, Compare, PublicationFails, NextTarget, TypeInv, TypeOK, Cursor,
                AtTarget, Targets
  <2> QED BY <2>1, <2>2
<1>10. CASE Replace
  <2>1. /\ phase = "replace" /\ phase' = "chmod" /\ cur \in Targets
        /\ published' = published \union {cur}
        /\ UNCHANGED <<cur, want, before>>
    BY <1>10 DEF Replace, TypeInv, Cursor, AtTarget
  <2>2. \A t \in Targets : t # cur => disk'[t] = disk[t]
    BY <1>10, <2>1, Written DEF Replace
  <2>3. cur = Receipt => \A t \in Targets \ {Receipt} : t \in published \/ want[t] = before[t]
    BY <1>1, <2>1
  <2> QED BY <1>1, <2>1, <2>2, <2>3
<1>11. CASE Chmod
  <2>1. /\ phase = "chmod" /\ phase' \in {"publish", "applied"} /\ cur \in Targets
        /\ phase' = "publish" => cur' = cur + 1
        /\ UNCHANGED <<want, before, published>>
    BY <1>11 DEF Chmod, NextTarget, TypeInv, Cursor, AtTarget
  <2>2. \A t \in Targets : disk'[t].section = disk[t].section
    <3>1. disk[cur] \in Texted
      BY <1>11, <2>1, FileParts DEF Chmod, TypeInv, TypeOK
    <3>2. [disk[cur] EXCEPT !.mode = want[cur].mode].section = disk[cur].section
      BY <3>1 DEF Texted
    <3> QED BY <1>11, <2>1, <3>2, Written DEF Chmod
  <2>3. \A t \in Targets : t < cur + 1 => t < cur \/ t = cur
    BY <2>1 DEF Targets
  <2> QED BY <1>1, <2>1, <2>2, <2>3
<1>12. CASE NothingToRestore \/ LeaveAlone \/ BeginRestore \/ RestoreFails
  BY <1>12 DEF NothingToRestore, LeaveAlone, BeginRestore, RestoreFails
<1>13. CASE Restore \/ RestoreMode
  <2>1. /\ phase' \in {"rollback", "restore_mode"} /\ cur \in Targets
        /\ UNCHANGED <<want, before, published>>
    BY <1>13 DEF Restore, RestoreMode, TypeInv, Cursor, AtTarget
  <2>2. disk'[Receipt].section \in {None, disk[Receipt].section}
    <3>1. CASE cur # Receipt
      <4>1. PICK file : Write(cur, file)
        BY <1>13 DEF Restore, RestoreMode
      <4> QED BY <1>1, <2>1, <3>1, <4>1, Written
    <3>2. CASE cur = Receipt
      <4>1. Write(cur, Missing)
        BY <1>13, <3>2 DEF Restore, RestoreMode, TypeInv, Cursor
      <4> QED BY <1>1, <2>1, <3>2, <4>1, Written DEF Missing
    <3> QED BY <3>1, <3>2
  <2> QED BY <2>1, <2>2
<1> QED
  BY <1>2, <1>4, <1>5, <1>6, <1>7, <1>8, <1>9, <1>10, <1>11, <1>12, <1>13
  DEF Next, Preparation, Publication, Rollback

-----------------------------------------------------------------------------
(* The edits of others.                                                    *)

\* A target about to be replaced is as it was last looked at, or somebody wrote it
\* in between; no other text of theirs is lost.
LEMMA SurviveStep ==
    TypeInv /\ Captures /\ Derivations /\ Windows /\ EditsSurvive /\ [Next]_vars
      => Windows' /\ EditsSurvive'
<1> SUFFICES ASSUME TypeInv, Captures, Derivations, Windows, EditsSurvive, [Next]_vars
             PROVE  Windows' /\ EditsSurvive'
  OBVIOUS
<1> USE DEF Windows, EditsSurvive, planVars, publishVars, othersVars
<1>1. CASE UNCHANGED vars
  BY <1>1 DEF vars
<1>2. ASSUME NEW t \in Targets, NEW file \in File, Leave(t, file)
      PROVE  Windows' /\ EditsSurvive'
  <2>1. cur \in Targets \/ phase \notin {"replace", "restore"}
    BY DEF TypeInv, Cursor, AtTarget, Publishing
  <2> QED BY <1>2, <2>1, LeftAsNew DEF InWindow
<1>3. CASE Others
  <2>1. ASSUME NEW p \in Policies, EditPolicy(p) PROVE Windows' /\ EditsSurvive'
    BY <2>1 DEF EditPolicy
  <2> QED BY <1>2, <1>3, <2>1, WhatOthersDo
<1>4. CASE Preparation
  BY <1>4 DEF Preparation, LoadPolicy, CapturePolicy, Capture, Derive, VerifyPolicy, Verify,
              Refuse, Stop
<1>5. CASE Applied \/ RolledBack \/ Crash
  BY <1>5 DEF Applied, RolledBack, Crash, Stop
<1>6. CASE SkipUnchanged \/ Compare \/ PublicationFails
  BY <1>6 DEF SkipUnchanged, Compare, PublicationFails, NextTarget
<1>7. CASE Replace
  <2>1. /\ phase = "replace" /\ phase' = "chmod" /\ cur \in Targets
        /\ Write(cur, Private(want[cur]))
    BY <1>7 DEF Replace, Private, TypeInv, Cursor, AtTarget, Publishing
  <2>2. want[cur] \in Texted /\ want[cur].user = before[cur].user
    BY <2>1 DEF TypeInv, Plans, Derived, Derivations, Publishing
  <2>3. Private(want[cur]).user = before[cur].user
    BY <2>2 DEF Private, Texted
  <2>4. cur \notin raced => user[cur] = before[cur].user
    BY <2>1
  <2> QED BY <2>1, <2>3, <2>4, Written
<1>8. CASE Chmod \/ RestoreMode
  <2>1. /\ phase' \notin {"replace", "restore"} /\ cur \in Targets /\ disk[cur] \in Texted
    BY <1>8, FileParts DEF Chmod, RestoreMode, NextTarget, TypeInv, TypeOK, Cursor, AtTarget,
                           Publishing
  <2>2. PICK m : Write(cur, [disk[cur] EXCEPT !.mode = m])
    BY <1>8 DEF Chmod, RestoreMode
  <2>3. [disk[cur] EXCEPT !.mode = m].user = disk[cur].user
    BY <2>1 DEF Texted
  <2> QED BY <2>1, <2>2, <2>3, Written
<1>9. CASE NothingToRestore \/ LeaveAlone \/ RestoreFails
  BY <1>9 DEF NothingToRestore, LeaveAlone, RestoreFails
<1>10. CASE BeginRestore
  BY <1>10 DEF BeginRestore, StillOurs, SameText
<1>11. CASE Restore
  <2>1. phase = "restore" /\ phase' \in {"rollback", "restore_mode"} /\ cur \in Targets
    BY <1>11 DEF Restore, TypeInv, Cursor, AtTarget
  <2>2. PICK file : Write(cur, file) /\ file.user = before[cur].user
    <3>1. before[cur] # Missing => Private(before[cur]).user = before[cur].user
      BY <2>1, FileParts DEF TypeInv, TypeOK, Texted, Private
    <3> QED BY <1>11, <3>1 DEF Restore, Private
  <2>3. cur \notin raced => user[cur] = before[cur].user
    BY <2>1 DEF Derivations, Restoring
  <2> QED BY <2>1, <2>2, <2>3, Written
<1> QED
  BY <1>1, <1>3, <1>4, <1>5, <1>6, <1>7, <1>8, <1>9, <1>10, <1>11
  DEF Next, Publication, Rollback

-----------------------------------------------------------------------------
(* All or nothing.                                                         *)

\* A sequence without its last element.
LEMMA Dropped ==
    ASSUME NEW S, NEW seq \in Seq(S), seq # <<>>
    PROVE  LET rest == SubSeq(seq, 1, Len(seq) - 1) IN
           /\ Len(rest) = Len(seq) - 1
           /\ \A i \in 1..(Len(seq) - 1) : rest[i] = seq[i]
<1>1. Len(seq) \in Nat /\ Len(seq) # 0 /\ \A i \in 1..Len(seq) : seq[i] \in S
  OBVIOUS
<1>2. PICK n \in Nat : n = Len(seq) - 1
  BY <1>1
<1>3. /\ Len(SubSeq(seq, 1, n)) = IF 1 <= n THEN n - 1 + 1 ELSE 0
      /\ \A i \in 1..(n - 1 + 1) : SubSeq(seq, 1, n)[i] = seq[1 + i - 1]
  <2>1. \A i \in 1..n : seq[i] \in S
    BY <1>1, <1>2
  <2> QED BY <1>2, <2>1, SubSeqProperties
<1> QED BY <1>2, <1>3

\* What is begun grows by what is appended and loses only what is dropped.
LEMMA BegunSteps ==
    ASSUME TypeInv
    PROVE  /\ \A t \in Targets : changed' = Append(changed, t) => Begun' = Begun \union {t}
           /\ changed # <<>> /\ DropLast => \A t \in Begun : t \in Begun' \/ t = Last
           /\ changed # <<>> => Last \in Begun
<1>1. changed \in Seq(Targets) /\ Len(changed) \in Nat
  BY DEF TypeInv, TypeOK
<1>2. ASSUME NEW t \in Targets, changed' = Append(changed, t)
      PROVE  Begun' = Begun \union {t}
  <2>1. /\ Len(changed') = Len(changed) + 1 /\ changed'[Len(changed) + 1] = t
        /\ \A j \in 1..Len(changed) : changed'[j] = changed[j]
    BY <1>1, <1>2
  <2>2. 1..Len(changed') = 1..Len(changed) \union {Len(changed) + 1}
    BY <1>1, <2>1
  <2> QED BY <2>1, <2>2 DEF Begun
<1>3. ASSUME changed # <<>>, DropLast, NEW t \in Begun PROVE t \in Begun' \/ t = Last
  <2>1. PICK j \in 1..Len(changed) : t = changed[j]
    BY DEF Begun
  <2>2. /\ Len(changed') = Len(changed) - 1
        /\ \A i \in 1..(Len(changed) - 1) : changed'[i] = changed[i]
    BY <1>1, <1>3, Dropped DEF DropLast
  <2>3. j = Len(changed) \/ j \in 1..Len(changed')
    BY <1>1, <2>2
  <2> QED BY <2>1, <2>2, <2>3 DEF Begun, Last
<1>4. changed # <<>> => Last \in Begun
  BY <1>1 DEF Last, Begun
<1> QED BY <1>2, <1>3, <1>4

\* Where publication leaves the targets others did not touch: as wanted up to the
\* cursor, as captured after it.
LEMMA ForwardStep == TypeInv /\ Captures /\ Forward /\ [Next]_vars => Forward'
<1> SUFFICES ASSUME TypeInv, Captures, Forward, [Next]_vars PROVE Forward'
  OBVIOUS
<1> USE DEF Forward, Publishing, planVars, publishVars, othersVars
<1>1. phase \in Publishing => cur \in Targets
  BY DEF TypeInv, Cursor, AtTarget
<1>2. CASE UNCHANGED vars
  BY <1>2 DEF vars, Begun
<1>3. ASSUME NEW t \in Targets, NEW file \in File, Leave(t, file) PROVE Forward'
  <2>1. /\ \A u \in Targets \ touched' : u \notin touched /\ disk'[u] = disk[u]
        /\ UNCHANGED <<phase, cur, want, before>> /\ Begun' = Begun
    BY <1>3, LeftAsNew DEF Begun
  <2> QED BY <2>1
<1>4. CASE Others
  <2>1. ASSUME NEW p \in Policies, EditPolicy(p) PROVE Forward'
    BY <2>1 DEF EditPolicy, Begun
  <2> QED BY <1>3, <1>4, <2>1, WhatOthersDo
<1>5. CASE LoadPolicy \/ CapturePolicy \/ Capture \/ Derive \/ VerifyPolicy
  BY <1>5 DEF LoadPolicy, CapturePolicy, Capture, Derive, VerifyPolicy
<1>6. CASE Verify
  <2>1. CASE cur # K
    BY <1>6, <2>1 DEF Verify
  <2>2. CASE cur = K
    <3>1. phase = "verify" /\ phase' = "publish" /\ cur' = 1
          /\ UNCHANGED <<disk, before, touched>>
      BY <1>6, <2>2 DEF Verify
    <3>2. \A t \in Targets \ touched : disk[t] = before[t]
      BY <3>1 DEF Captures, Captured, Derived, Preparing
    <3> QED BY <3>1, <3>2 DEF Targets
  <2> QED BY <2>1, <2>2
<1>7. CASE Refuse \/ Applied \/ RolledBack \/ Crash
  BY <1>7 DEF Refuse, Applied, RolledBack, Crash, Stop
<1>8. CASE SkipUnchanged
  <2>1. /\ phase = "publish" /\ want[cur] = before[cur]
        /\ \/ phase' = "applied" /\ cur = K
           \/ phase' = "publish" /\ cur' = cur + 1
        /\ UNCHANGED <<disk, touched, want, before, changed>>
    BY <1>8 DEF SkipUnchanged, NextTarget
  <2>2. \A t \in Targets \ touched :
           t <= cur => disk[t] = want[t] /\ (want[t] = before[t] \/ t \in Begun)
    BY <1>1, <2>1 DEF Targets
  <2>3. CASE phase' = "applied"
    BY <2>1, <2>2, <2>3, PackAssumption DEF Targets, PackAssumption
  <2>4. CASE phase' = "publish"
    <3>1. \A t \in Targets : /\ t < cur + 1 => t <= cur
                             /\ t > cur + 1 \/ t = cur + 1 => t > cur
      BY <1>1, <2>1 DEF Targets
    <3> QED BY <2>1, <2>2, <2>4, <3>1 DEF Begun
  <2> QED BY <2>1, <2>3, <2>4
<1>9. CASE Compare
  <2>1. /\ phase = "publish" /\ phase' = "replace" /\ changed' = Append(changed, cur)
        /\ UNCHANGED <<disk, touched, want, before, cur>>
    BY <1>9 DEF Compare
  <2>2. Begun' = Begun \union {cur}
    BY <1>1, <2>1, BegunSteps
  <2> QED BY <2>1, <2>2
<1>10. CASE Replace
  <2>1. /\ phase = "replace" /\ phase' = "chmod" /\ Write(cur, Private(want[cur]))
        /\ UNCHANGED <<want, before, cur, changed>>
    BY <1>10 DEF Replace, Private
  <2>2. /\ \A t \in Targets : disk'[t] = IF t = cur THEN Private(want[cur]) ELSE disk[t]
        /\ UNCHANGED touched
    BY <1>1, <2>1, Written
  <2>3. \A t \in Targets : t < cur \/ t > cur => t # cur
    BY <1>1, <2>1 DEF Targets
  <2> QED BY <2>1, <2>2, <2>3 DEF Begun
<1>11. CASE Chmod
  <2>1. /\ phase = "chmod" /\ Write(cur, [disk[cur] EXCEPT !.mode = want[cur].mode])
        /\ \/ phase' = "applied" /\ cur = K
           \/ phase' = "publish" /\ cur' = cur + 1
        /\ UNCHANGED <<want, before, changed>>
    BY <1>11 DEF Chmod, NextTarget
  <2>2. /\ \A t \in Targets : disk'[t] = IF t = cur
                                         THEN [disk[cur] EXCEPT !.mode = want[cur].mode]
                                         ELSE disk[t]
        /\ UNCHANGED touched
    BY <1>1, <2>1, Written
  <2>3. want[cur] \in Texted
    BY <1>1, <2>1 DEF TypeInv, Plans, Derived
  <2>4. cur \notin touched => disk'[cur] = want[cur]
    <3>1. [Private(want[cur]) EXCEPT !.mode = want[cur].mode] = want[cur]
      BY <2>3 DEF Private, Texted
    <3> QED BY <1>1, <2>1, <2>2, <3>1
  <2>5. \A t \in Targets \ touched :
           t <= cur => disk'[t] = want[t] /\ (want[t] = before[t] \/ t \in Begun)
    BY <1>1, <2>1, <2>2, <2>4 DEF Targets
  <2>6. CASE phase' = "applied"
    BY <2>1, <2>2, <2>5, <2>6, PackAssumption DEF Targets, PackAssumption
  <2>7. CASE phase' = "publish"
    <3>1. \A t \in Targets : /\ t < cur + 1 => t <= cur
                             /\ t > cur + 1 \/ t = cur + 1 => t > cur /\ t # cur
      BY <1>1, <2>1 DEF Targets
    <3> QED BY <2>1, <2>2, <2>5, <2>7, <3>1 DEF Begun
  <2> QED BY <2>1, <2>6, <2>7
<1>12. CASE PublicationFails
  BY <1>12 DEF PublicationFails
<1>13. CASE Rollback /\ ~RolledBack
  BY <1>13 DEF Rollback, NothingToRestore, LeaveAlone, BeginRestore, Restore, RestoreMode,
               RestoreFails
<1> QED
  BY <1>2, <1>4, <1>5, <1>6, <1>7, <1>8, <1>9, <1>10, <1>11, <1>12, <1>13
  DEF Next, Preparation, Publication

\* Where rollback leaves them: as captured, but for those it has yet to restore,
\* unless it has failed to restore one.
LEMMA BackwardStep == TypeInv /\ Forward /\ Backward /\ [Next]_vars => Backward'
<1> SUFFICES ASSUME TypeInv, Forward, Backward, [Next]_vars PROVE Backward'
  OBVIOUS
<1> USE DEF Backward, Restoring, planVars, publishVars, othersVars
<1>1. phase \in {"restore", "restore_mode"} => cur \in Targets
  BY DEF TypeInv, Cursor, AtTarget
<1>2. CASE UNCHANGED vars
  BY <1>2 DEF vars, Begun
<1>3. ASSUME NEW t \in Targets, NEW file \in File, Leave(t, file) PROVE Backward'
  <2>1. /\ \A u \in Targets \ touched' : u \notin touched /\ disk'[u] = disk[u]
        /\ UNCHANGED <<phase, cur, before, complete>> /\ Begun' = Begun
    BY <1>3, LeftAsNew DEF Begun
  <2> QED BY <1>1, <2>1
<1>4. CASE Others
  <2>1. ASSUME NEW p \in Policies, EditPolicy(p) PROVE Backward'
    BY <2>1 DEF EditPolicy, Begun
  <2> QED BY <1>3, <1>4, <2>1, WhatOthersDo
<1>5. CASE Preparation
  BY <1>5 DEF Preparation, LoadPolicy, CapturePolicy, Capture, Derive, VerifyPolicy, Verify,
              Refuse, Stop
<1>6. CASE Applied \/ RolledBack \/ Crash
  BY <1>6 DEF Applied, RolledBack, Crash, Stop
<1>7. CASE SkipUnchanged \/ Compare \/ Replace \/ Chmod
  BY <1>7 DEF SkipUnchanged, Compare, Replace, Chmod, NextTarget
<1>8. CASE PublicationFails
  <2>1. /\ phase \in Publishing /\ phase' = "rollback"
        /\ UNCHANGED <<disk, touched, before, changed>>
    BY <1>8 DEF PublicationFails, Publishing
  <2>2. ASSUME NEW t \in Targets \ touched PROVE t \in Begun \/ disk[t] = before[t]
    <3>1. cur \in Targets
      BY <2>1 DEF TypeInv, Cursor, AtTarget
    <3>2. t < cur \/ t = cur \/ t > cur
      BY <3>1 DEF Targets
    <3> QED BY <2>1, <3>2 DEF Forward, Publishing
  <2> QED BY <2>1, <2>2 DEF Begun
<1>9. CASE NothingToRestore
  <2>1. /\ phase = "rollback" /\ phase' = "rollback" /\ changed # <<>> /\ DropLast
        /\ disk[Last] = before[Last]
        /\ UNCHANGED <<disk, touched, before, complete>>
    BY <1>9 DEF NothingToRestore
  <2> QED BY <2>1, BegunSteps
<1>10. CASE LeaveAlone \/ RestoreFails
  BY <1>10 DEF LeaveAlone, RestoreFails
<1>11. CASE BeginRestore
  BY <1>11 DEF BeginRestore, Begun
<1>12. CASE Restore
  <2>1. /\ phase = "restore" /\ changed # <<>> /\ cur = Last
        /\ UNCHANGED <<cur, before, complete>>
    BY <1>12 DEF Restore, TypeInv, Cursor
  <2>2. CASE before[cur] = Missing
    <3>1. Write(cur, Missing) /\ phase' = "rollback" /\ DropLast
      BY <1>12, <2>2 DEF Restore
    <3> QED BY <1>1, <2>1, <2>2, <3>1, Written, BegunSteps
  <2>3. CASE before[cur] # Missing
    <3>1. Write(cur, Private(before[cur])) /\ phase' = "restore_mode" /\ UNCHANGED changed
      BY <1>12, <2>3 DEF Restore, Private
    <3>2. Begun' = Begun /\ cur \in Begun
      BY <2>1, <3>1, BegunSteps DEF Begun
    <3> QED BY <1>1, <2>1, <3>1, <3>2, Written
  <2> QED BY <2>2, <2>3
<1>13. CASE RestoreMode
  <2>1. /\ phase = "restore_mode" /\ phase' = "rollback" /\ changed # <<>> /\ cur = Last
        /\ DropLast /\ Write(cur, [disk[cur] EXCEPT !.mode = before[cur].mode])
        /\ UNCHANGED <<cur, before, complete>>
    BY <1>13 DEF RestoreMode, TypeInv, Cursor
  <2>2. cur \notin touched => [disk[cur] EXCEPT !.mode = before[cur].mode] = before[cur]
    <3>1. before[cur] \in Texted
      BY <1>1, <2>1, FileParts DEF TypeInv, TypeOK, Cursor
    <3>2. [Private(before[cur]) EXCEPT !.mode = before[cur].mode] = before[cur]
      BY <3>1 DEF Private, Texted
    <3> QED BY <2>1, <3>2
  <2> QED BY <1>1, <2>1, <2>2, Written, BegunSteps
<1> QED
  BY <1>2, <1>4, <1>5, <1>6, <1>7, <1>8, <1>9, <1>10, <1>11, <1>12, <1>13
  DEF Next, Publication, Rollback

\* The outcome is written in a step that leaves the targets as they are, and
\* after it nothing happens.
LEMMA OutcomeStep ==
    TypeInv /\ Forward /\ Backward /\ AllOrNothing /\ [Next]_vars => AllOrNothing'
<1> SUFFICES ASSUME TypeInv, Forward, Backward, AllOrNothing, [Next]_vars PROVE AllOrNothing'
  OBVIOUS
<1> USE DEF AllOrNothing
<1>1. CASE UNCHANGED vars
  BY <1>1 DEF vars, othersVars, planVars
<1>2. CASE Refuse \/ Crash
  BY <1>2 DEF Refuse, Crash, Stop
<1>3. CASE Applied
  BY <1>3 DEF Applied, Stop, Forward, othersVars, planVars
<1>4. CASE RolledBack
  <2>1. Begun = {}
    BY <1>4 DEF RolledBack, Begun
  <2> QED BY <1>4, <2>1 DEF RolledBack, Stop, Backward, Restoring, othersVars, planVars
<1>5. ASSUME phase # "done", UNCHANGED outcome PROVE AllOrNothing'
  BY <1>5 DEF TypeInv, Cursor
<1>6. CASE Others
  BY <1>6, <1>5 DEF Others, Edit, Delete, Leave, EditPolicy
<1>7. CASE Preparation /\ ~Refuse
  BY <1>7, <1>5 DEF Preparation, LoadPolicy, CapturePolicy, Capture, Derive, VerifyPolicy, Verify
<1>8. CASE Publication /\ ~Applied
  BY <1>8, <1>5 DEF Publication, SkipUnchanged, Compare, Replace, Chmod, PublicationFails
<1>9. CASE Rollback /\ ~RolledBack
  BY <1>9, <1>5 DEF Rollback, NothingToRestore, LeaveAlone, BeginRestore, Restore, RestoreMode,
                    RestoreFails
<1> QED
  BY <1>1, <1>2, <1>3, <1>4, <1>6, <1>7, <1>8, <1>9 DEF Next, Preparation, Publication, Rollback

-----------------------------------------------------------------------------
\* The invariant holds at the start.
LEMMA PackInit == Init => PackInv
<1> SUFFICES ASSUME Init PROVE PackInv
  OBVIOUS
<1>1. \A t \in Targets : disk[t] \in held[t] /\ disk[t].user = user[t]
  BY DEF Init
<1>2. before[Receipt] = Missing /\ disk[Receipt] = Missing
  BY PackAssumption DEF Init, PackAssumption, Targets, Receipt
<1>3. Captures /\ Derivations /\ Windows /\ Forward /\ Backward /\ AllOrNothing
  BY <1>1 DEF Init, Captures, Captured, Derivations, Derived, Windows, Forward, Backward,
              AllOrNothing, Publishing, Restoring
<1>4. Receipts /\ ReceiptLast
  BY <1>2 DEF Init, Receipts, ReceiptLast, Missing, Publishing
<1> QED BY <1>1, <1>3, <1>4 DEF PackInv, EditsSurvive

\* Every step of the pack and of the others preserves all of it.
LEMMA PackStep == TypeInv /\ PackInv /\ [Next]_vars => PackInv'
BY CapturesStep, DerivationsStep, ReceiptsStep, SurviveStep, ForwardStep, BackwardStep,
   OutcomeStep
DEF PackInv

\* The receipt is published last (pack.py:170-180).
THEOREM ReceiptIsLast == Spec => []ReceiptLast
<1>1. PackInv => ReceiptLast
  BY DEF PackInv
<1> QED BY <1>1, TypeInit, TypeStep, PackInit, PackStep, PTL DEF Spec

\* An applied pack is there as a whole, and a rolled back one not at all, in
\* every target that others left alone (pack.py:183-244).
THEOREM PackIsAtomic == Spec => []AllOrNothing
<1>1. PackInv => AllOrNothing
  BY DEF PackInv
<1> QED BY <1>1, TypeInit, TypeStep, PackInit, PackStep, PTL DEF Spec

\* Neither publication nor rollback loses what others wrote, but for a write
\* between the last look at a target and its rename.
THEOREM EditsAreKept == Spec => []EditsSurvive
<1>1. PackInv => EditsSurvive
  BY DEF PackInv
<1> QED BY <1>1, TypeInit, TypeStep, PackInit, PackStep, PTL DEF Spec
=============================================================================
