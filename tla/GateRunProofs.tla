--------------------------- MODULE GateRunProofs ---------------------------
(***************************************************************************)
(* Proofs about GateRun for every set of files, texts, policies, checks    *)
(* and invocations, and any number of runs and edits.                      *)
(***************************************************************************)
EXTENDS GateProperties, TLAPS

\* Phases in which a policy has been loaded.
Loaded == {"index", "narrow", "select", "hash", "doctor", "reuse", "check", "reading",
           "regather", "rehash", "relist", "reread"}

\* What the phases promise one another and the types alone do not say.
Progress ==
    /\ phase \in Loaded => policy \in Policies
    /\ phase = "reading" => cur \in Checks
    /\ phase \in {"persist", "rename", "unlink"} => draft \in Receipts

TypeInv == TypeOK /\ Progress

\* What a policy declares has the shape PolicyDocs gives it.
LEMMA DocTypes ==
    ASSUME NEW q \in Policies
    PROVE  /\ Doc[q].paths \in [Checks -> SUBSET Paths]
           /\ Doc[q].extra \in [Checks -> SUBSET Paths]
           /\ Doc[q].config \in SUBSET Paths
           /\ Doc[q].needs \in [Reqs -> SUBSET Checks]
BY ConstantsAssumption DEF ConstantsAssumption, PolicyDocs

\* A fresh gate has the right types.
LEMMA TypeInit == Init => TypeInv
<1> SUFFICES ASSUME Init PROVE TypeInv
  OBVIOUS
<1> USE ConstantsAssumption DEF ConstantsAssumption
<1>1. TypeOK
  BY DEF Init, TypeOK, Snapshot, Contents, NoInvocation, Invocations, NoEntry, Entries,
         NothingRead, NothingSeen, NoExit, PermissionStates, Checks, ConfigCommands,
         GitSlots, CheckVerdicts
<1>2. Progress
  BY DEF Init, Progress, Loaded
<1> QED BY <1>1, <1>2 DEF TypeInv

\* What the memory of a run is reset to has the right types.
LEMMA BlankTypes ==
    /\ NothingRead \in Snapshot
    /\ NothingSeen \in [Checks -> [Paths -> Contents \union {Unread}]]
    /\ [i \in Checks |-> NoEntry] \in [Checks -> Entries]
    /\ NoInvocation \in Invocations
BY DEF NothingRead, NothingSeen, NoEntry, NoInvocation, Snapshot, Contents, Entries,
       Invocations, CheckVerdicts, ConfigCommands, GitSlots

\* The end of the process, reported or not, preserves the types.
LEMMA ForgetTypes ==
    ASSUME TypeOK, Forget, UNCHANGED <<disk, ref, edits, runs, receipts>>,
           exit_code' \in 0..3, stored' \in 0..Len(receipts)
    PROVE  TypeInv'
<1>1. 1 \in 1..(N + 1)
  BY ConstantsAssumption DEF ConstantsAssumption
<1>2. /\ disk' \in Snapshot /\ ref' \in Commits /\ edits' \in Nat /\ runs' \in Nat
      /\ receipts' \in Seq(Receipts) /\ stored' \in 0..Len(receipts')
  BY DEF TypeOK
<1>3. /\ held' \in [Paths -> SUBSET Contents]
      /\ scope' \in [Checks -> SUBSET Paths] /\ lists' \in [Checks -> SUBSET Paths]
      /\ source' \in [Checks -> Nat]
  BY DEF Forget
<1>4. /\ phase' = "idle" /\ opt' \in Invocations
      /\ policy_sha256' \in Contents /\ policy' \in Policies \union {Absent}
      /\ base' \in Commits \union {Absent} /\ permissions' \in PermissionStates
      /\ todo' \in SUBSET Paths /\ cur' \in 1..(N + 1) /\ findings' \in SUBSET Rules
      /\ diagnostics' = "none" /\ draft' = NoDraft
  BY <1>1, BlankTypes DEF Forget, Contents, PermissionStates
<1>5. /\ worktree' \in Snapshot /\ inputs' \in Snapshot /\ again' \in Snapshot
      /\ seen' \in [Checks -> [Paths -> Contents \union {Unread}]]
      /\ checks' \in [Checks -> Entries]
  BY BlankTypes DEF Forget
<1>6. TypeOK'
  BY <1>2, <1>3, <1>4, <1>5 DEF TypeOK
<1>7. Progress'
  BY DEF Forget, Progress, Loaded
<1> QED BY <1>6, <1>7 DEF TypeInv

\* The files a run selects are paths.
LEMMA SelectionTypes ==
    ASSUME TypeOK, policy \in Policies
    PROVE  /\ Inspected \in SUBSET Paths
           /\ \A i \in Checks : Matched(i) \in SUBSET Paths
<1>1. \A i \in Checks : Matched(i) \in SUBSET Paths
  BY DocTypes DEF TypeOK, Matched
<1>2. Doc[policy].config \in SUBSET Paths
  BY DocTypes
<1>3. Pol \in Paths
  BY DEF Paths
<1>4. Inspected \subseteq {Pol} \union (UNION {Matched(i) : i \in Checks}) \union Doc[policy].config
  BY DEF Inspected, Existing
<1>5. UNION {Matched(i) : i \in Checks} \subseteq Paths
  BY <1>1
<1>6. Inspected \in SUBSET Paths
  BY <1>2, <1>3, <1>4, <1>5
<1> QED BY <1>1, <1>6

\* Every step preserves the types and the progress of the phases.
LEMMA TypeStep == TypeInv /\ [Next]_vars => TypeInv'
<1> SUFFICES ASSUME TypeInv, [Next]_vars PROVE TypeInv'
  OBVIOUS
<1> USE ConstantsAssumption DEF ConstantsAssumption, TypeInv, TypeOK, Progress, Loaded,
        InsideTry, envVars, authorityVars, policyVars, snapshotVars, checkVars,
        ledgerVars, memoryVars, Snapshot, Contents
<1>1. CASE UNCHANGED vars
  BY <1>1 DEF vars
<1>2. ASSUME NEW o \in Options, Start(o) PROVE TypeInv'
  BY <1>2 DEF Start, Rules, NoExit
<1>3. ASSUME NEW p \in Paths, NEW t \in May[p], Edit(p, t) PROVE TypeInv'
  BY <1>3 DEF Edit
<1>4. ASSUME NEW c \in Commits, MoveRef(c) PROVE TypeInv'
  BY <1>4 DEF MoveRef
<1>5. CASE ResolveBase
  BY <1>5 DEF ResolveBase, Listed
<1>6. ASSUME NEW p \in Paths, ReadWorktree(p) PROVE TypeInv'
  BY <1>6 DEF ReadWorktree
<1>7. CASE DecideAuthority
  BY <1>7 DEF DecideAuthority, PermissionStates, Rules
<1>8. CASE HashPolicy
  BY <1>8 DEF HashPolicy, Paths
<1>9. CASE LoadPolicy
  BY <1>9 DEF LoadPolicy, Loadable
<1>10. CASE CheckIndex
  BY <1>10 DEF CheckIndex, Rules
<1>11. CASE NarrowScope
  BY <1>11, DocTypes DEF NarrowScope, Narrowed
<1>12. CASE SelectForCheck
  <2>1. Existing(Matched(cur)) \in SUBSET Paths
    BY <1>12, SelectionTypes DEF SelectForCheck, Existing
  <2>2. cur + 1 \in 1..(N + 1)
    BY <1>12 DEF SelectForCheck, Checks
  <2> QED BY <1>12, <2>1, <2>2 DEF SelectForCheck
<1>13. CASE Gather
  BY <1>13, SelectionTypes DEF Gather
<1>14. ASSUME NEW p \in Paths, HashFile(p) PROVE TypeInv'
  BY <1>14 DEF HashFile
<1>15. ASSUME NEW bad \in BOOLEAN, Lint(bad) PROVE TypeInv'
  BY <1>15 DEF Lint, Rules, Invocations, ConfigCommands
<1>16. ASSUME NEW bad \in BOOLEAN, Diagnose(bad) PROVE TypeInv'
  BY <1>16 DEF Diagnose, Rules
<1>17. CASE FindReusable
  BY <1>17 DEF FindReusable
<1>18. CASE Reuse
  <2>1. cur \in Checks /\ cur + 1 \in 1..(N + 1)
    BY <1>18 DEF Reuse, Checks
  <2>2. checks' \in [Checks -> Entries]
    BY <1>18, <2>1 DEF Reuse, Record, Entries, CheckVerdicts
  <2> QED BY <1>18, <2>1, <2>2 DEF Reuse
<1>19. CASE PassVacuously
  <2>1. cur \in Checks /\ cur + 1 \in 1..(N + 1)
    BY <1>19 DEF PassVacuously, Checks
  <2>2. checks' \in [Checks -> Entries]
    BY <1>19, <2>1 DEF PassVacuously, Record, Entries, CheckVerdicts
  <2> QED BY <1>19, <2>1, <2>2 DEF PassVacuously
<1>20. CASE BeginCheck
  BY <1>20, SelectionTypes DEF BeginCheck
<1>21. ASSUME NEW p \in Paths, ReadInput(p) PROVE TypeInv'
  BY <1>21 DEF ReadInput
<1>22. ASSUME NEW v \in CheckVerdicts, EndCheck(v) PROVE TypeInv'
  <2>1. cur \in Checks /\ cur + 1 \in 1..(N + 1)
    BY <1>22 DEF EndCheck, Checks
  <2> DEFINE outcome == IF Fails(v) THEN "failed" ELSE "passed"
             blocking == Blocks(v, cur \in Doc[policy].warn)
             entry == [status |-> outcome, outcome |-> outcome, blocking |-> blocking,
                       worst |-> v, files |-> lists[cur], from |-> 0]
  <2>2. outcome \in {"passed", "failed"} /\ blocking \in BOOLEAN
    BY DEF Blocks
  <2>3. entry \in Entries
    BY <2>1, <2>2 DEF Entries
  <2>4. checks' = [checks EXCEPT ![cur] = entry]
    BY <1>22 DEF EndCheck, Record
  <2>5. checks' \in [Checks -> Entries]
    <3> HIDE DEF entry
    <3> QED BY <2>3, <2>4
  <2>6. findings' \in SUBSET Rules
    BY <1>22 DEF EndCheck, Rules
  <2> QED BY <1>22, <2>1, <2>5, <2>6 DEF EndCheck
<1>23. ASSUME NEW bad \in BOOLEAN, RunHooks(bad) PROVE TypeInv'
  BY <1>23 DEF RunHooks, Rules
<1>24. CASE Regather
  BY <1>24, SelectionTypes DEF Regather
<1>25. ASSUME NEW p \in Paths, RehashFile(p) PROVE TypeInv'
  BY <1>25 DEF RehashFile
<1>26. CASE CompareInputs
  BY <1>26 DEF CompareInputs, Rules
<1>27. CASE Relist
  <2>1. /\ phase' \in {"reread", "conclude"} /\ again' = NothingRead /\ todo' \in SUBSET Paths
        /\ findings' \in SUBSET Rules /\ permissions' \in PermissionStates
    BY <1>27 DEF Relist, AuthorityChanged, Listed, Rules, PermissionStates
  <2> QED BY <1>27, <2>1 DEF Relist, NothingRead
<1>28. ASSUME NEW p \in Paths, RereadWorktree(p) PROVE TypeInv'
  BY <1>28 DEF RereadWorktree
<1>29. CASE CompareWorktree
  <2>1. phase' = "conclude" /\ findings' \in SUBSET Rules /\ permissions' \in PermissionStates
    BY <1>29 DEF CompareWorktree, AuthorityChanged, Rules, PermissionStates
  <2> QED BY <1>29, <2>1 DEF CompareWorktree
<1>30. ASSUME Fail PROVE TypeInv'
  BY <1>30, BlankTypes DEF Fail, Rules, PermissionStates
<1>31. CASE Refuse \/ Raise
  BY <1>31, <1>30 DEF Refuse, Raise
<1>32. CASE Conclude
  <2> DEFINE rules == findings \union (IF opt.input_error THEN {"core.hook-input"} ELSE {})
             valid == ~Operational(rules) /\ ~Unstable(rules)
             statuses == Requirements(valid)
             all == rules \union RequirementFindings(statuses)
  <2>1. statuses \in [Reqs -> {"none", "unverified", "failed", "checks_passed"}]
    BY DEF Requirements, RequirementStatus
  <2>2. all \in SUBSET Rules
    BY DEF RequirementFindings, Rules
  <2>3. ExitCode(all) \in {0, 1, 2}
    BY DEF ExitCode
  <2>4. [policy |-> policy, scope |-> scope, seen |-> seen, base |-> base,
         slot |-> opt.slot] \in Truths
    BY DEF Truths, Invocations
  <2>5. (IF diagnostics # "none" /\ ~valid THEN "unknown" ELSE diagnostics)
           \in {"none", "observed", "unknown"}
    OBVIOUS
  <2>6. opt.command \in {"check"} \union ConfigCommands
    BY DEF Invocations
  <2> HIDE DEF statuses, all, valid
  <2>7. draft' \in Receipts
    <3>1. draft' = [command |-> opt.command, policy_sha256 |-> policy_sha256,
                    inputs |-> inputs, checks |-> checks, findings |-> all,
                    requirements |-> statuses, permissions |-> permissions,
                    diagnostics |-> IF diagnostics # "none" /\ ~valid
                                    THEN "unknown" ELSE diagnostics,
                    exit_code |-> ExitCode(all),
                    truth |-> [policy |-> policy, scope |-> scope, seen |-> seen,
                               base |-> base, slot |-> opt.slot]]
      BY <1>32 DEF Conclude, rules, valid, statuses, all
    <3> QED BY <3>1, <2>1, <2>2, <2>3, <2>4, <2>5, <2>6 DEF Receipts
  <2>8. findings' = all
    BY <1>32 DEF Conclude, rules, valid, statuses, all
  <2> QED BY <1>32, <2>2, <2>7, <2>8 DEF Conclude
<1>33. CASE WriteTemporary
  BY <1>33 DEF WriteTemporary
<1>34. CASE Rename
  BY <1>34 DEF Rename
<1>35. CASE Report
  <2>1. draft.exit_code \in 0..3
    BY <1>35 DEF Report, Receipts
  <2>2. Len(receipts) \in 0..Len(receipts)
    OBVIOUS
  <2>3. exit_code' \in 0..3 /\ stored' \in 0..Len(receipts)
    BY <1>35, <2>1, <2>2 DEF Report
  <2> QED BY <1>35, <2>3, ForgetTypes DEF Report
<1>36. CASE PersistFails
  <2>1. exit_code' \in 0..3 /\ stored' \in 0..Len(receipts)
    BY <1>36 DEF PersistFails
  <2> QED BY <1>36, <2>1, ForgetTypes DEF PersistFails
<1>37. CASE Crash
  BY <1>37, ForgetTypes DEF Crash
<1> QED
  BY <1>1, <1>2, <1>3, <1>4, <1>5, <1>6, <1>7, <1>8, <1>9, <1>10, <1>11,
     <1>12, <1>13, <1>14, <1>15, <1>16, <1>17, <1>18, <1>19, <1>20, <1>21, <1>22, <1>23,
     <1>24, <1>25, <1>26, <1>27, <1>28, <1>29, <1>30, <1>31, <1>32, <1>33, <1>34, <1>35,
     <1>36, <1>37
  DEF Next, RunStep, Authority, LoadAndNarrow, FirstSnapshot, Inspection, Verification,
      SecondSnapshot, Ending, Failure, Environment

\* The types of runner.py's run hold in every reachable state.
THEOREM TypeCorrect == Spec => []TypeOK
<1>1. TypeInv => TypeOK
  BY DEF TypeInv
<1> QED BY <1>1, TypeInit, TypeStep, PTL DEF Spec
=============================================================================
