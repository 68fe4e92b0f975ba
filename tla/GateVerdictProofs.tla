------------------------- MODULE GateVerdictProofs -------------------------
(***************************************************************************)
(* What a receipt's verdict and its permission status are worth, and that  *)
(* the runner keeps the contract of GateContract, for every set of files,  *)
(* policies, checks and invocations, and any number of runs and edits.     *)
(***************************************************************************)
EXTENDS GateEvidenceProofs

(* Exit 0 is earned.                                                       *)

\* Phases between the authority's decision and its second look.
Governed == {"policy", "load"} \union Loaded

\* The zones of the policy at hand were verified, unless it declares none.
Licensed ==
    Doc[policy].permits /\ opt.command = "check" => permissions = "passed"

\* The check has an entry that may stand in a passing receipt, or has left a
\* finding that keeps the receipt from passing.
Accounted(i) ==
    \/ checks[i].status \in {"passed", "reused"}
    \/ checks[i].worst = "violated" /\ i \in Doc[policy].warn
    \/ "check" \in findings

\* An authority that let the run go on stays satisfied until it looks again.
Governance ==
    /\ phase \in Governed /\ opt.trust => permissions = "passed"
    /\ phase \in Loaded => Licensed

\* The checks are settled in their order, and only then followed by anything.
Settlement ==
    /\ phase = "doctor" => opt.command # "check"
    /\ phase \in {"check", "reading"} => \A i \in Checks : i < cur => Accounted(i)
    /\ phase \in {"regather", "rehash", "relist", "reread"} /\ opt.command = "check"
         => \A i \in Checks : Accounted(i)

\* A run that concludes without a finding has come all the way.
Completion ==
    phase = "conclude" /\ findings = {} =>
        /\ policy \in Policies
        /\ opt.command = "check" => Licensed /\ \A i \in Checks : Accounted(i)

EarnedInv ==
    /\ Governance /\ Settlement /\ Completion
    /\ phase \in {"persist", "rename", "unlink"} => EarnedBy(draft)
    /\ PassIsEarned

\* Before the first run nothing has to be earned.
LEMMA EarnedInit == Init => EarnedInv
BY DEF Init, EarnedInv, Governance, Settlement, Completion, PassIsEarned, Ledger, Governed,
       Loaded

\* A run whose receipt passes has no requirement left unverified.
LEMMA NoRequirementOpen ==
    ASSUME policy \in Policies, opt.command = "check", NEW statuses,
           RequirementFindings(statuses) = {}
    PROVE  \A q \in Reqs : statuses[q] # "unverified"
BY ConstantsAssumption DEF ConstantsAssumption, RequirementFindings, ConfigCommands

\* Every phase leaves the account of the checks and of the policy's requirements
\* to the next one.
LEMMA EarnedStep == TypeInv /\ EarnedInv /\ [Next]_vars => EarnedInv'
<1> SUFFICES ASSUME TypeInv, EarnedInv, [Next]_vars PROVE EarnedInv'
  OBVIOUS
<1> USE DEF EarnedInv, Governance, Settlement, Completion, PassIsEarned, Ledger, Governed,
            Loaded, Licensed, Accounted, envVars, authorityVars, policyVars, snapshotVars,
            checkVars, ledgerVars, memoryVars
<1>1. CASE UNCHANGED vars
  BY <1>1 DEF vars, EarnedBy
<1>2. ASSUME NEW o \in Options, Start(o) PROVE EarnedInv'
  BY <1>2 DEF Start, EarnedBy
<1>3. CASE Environment
  BY <1>3 DEF Environment, Edit, MoveRef, EarnedBy
<1>4. CASE Authority
  BY <1>4 DEF Authority, ResolveBase, ReadWorktree, DecideAuthority, EarnedBy
<1>5. CASE LoadAndNarrow
  BY <1>5 DEF LoadAndNarrow, HashPolicy, LoadPolicy, Loadable, ConfigCommands, CheckIndex,
              NarrowScope, EarnedBy
<1>6. CASE FirstSnapshot
  BY <1>6 DEF FirstSnapshot, SelectForCheck, Gather, HashFile, EarnedBy
<1>7. CASE Inspection
  <2>1. ASSUME NEW bad \in BOOLEAN, Lint(bad) PROVE EarnedInv'
    BY <2>1 DEF Lint, TypeInv, TypeOK, Invocations, ConfigCommands, EarnedBy
  <2>2. ASSUME NEW bad \in BOOLEAN, Diagnose(bad) PROVE EarnedInv'
    BY <2>2 DEF Diagnose, EarnedBy
  <2>3. ASSUME NEW bad \in BOOLEAN, RunHooks(bad) PROVE EarnedInv'
    <3>1. \A i \in Checks : i < cur
      BY <2>3, ConstantsAssumption DEF RunHooks, Checks, ConstantsAssumption
    <3> QED BY <2>3, <3>1 DEF RunHooks, EarnedBy
  <2> QED BY <1>7, <2>1, <2>2, <2>3 DEF Inspection
<1>8. CASE Verification
  <2>1. CASE FindReusable \/ BeginCheck \/ \E p \in Paths : ReadInput(p)
    BY <2>1 DEF FindReusable, BeginCheck, ReadInput, EarnedBy, Checks
  <2>2. CASE Reuse \/ PassVacuously
    <3>1. /\ phase = "check" /\ phase' = "check" /\ cur' = cur + 1
          /\ checks'[cur].status \in {"passed", "reused"}
          /\ \A i \in Checks : i # cur => checks'[i] = checks[i]
          /\ UNCHANGED <<opt, policy, permissions, findings, draft, receipts>>
      BY <2>2 DEF Reuse, PassVacuously, Record, TypeInv, TypeOK
    <3>2. \A i \in Checks : i < cur' => i < cur \/ i = cur
      BY <3>1 DEF TypeInv, TypeOK, Checks
    <3> QED BY <3>1, <3>2 DEF EarnedBy
  <2>3. ASSUME NEW v \in CheckVerdicts, EndCheck(v) PROVE EarnedInv'
    BY <2>3 DEF EndCheck, Record, EarnedBy, TypeInv, TypeOK, Progress, Checks, Fails, Blocks,
                CheckVerdicts
  <2> QED BY <1>8, <2>1, <2>2, <2>3 DEF Verification
<1>9. CASE SecondSnapshot
  BY <1>9 DEF SecondSnapshot, Regather, CompareInputs, Relist, CompareWorktree, RehashFile,
              RereadWorktree, AuthorityChanged, EarnedBy, TypeInv, Progress
<1>10. CASE Refuse \/ Raise
  BY <1>10 DEF Refuse, Raise, Fail, Refused, InsideTry, EarnedBy
<1>11. CASE Conclude
  <2> DEFINE rules == findings \union (IF opt.input_error THEN {"core.hook-input"} ELSE {})
             valid == ~Operational(rules) /\ ~Unstable(rules)
             statuses == Requirements(valid)
             all == rules \union RequirementFindings(statuses)
  <2>1. /\ draft'.exit_code = ExitCode(all) /\ draft'.command = opt.command
        /\ draft'.checks = checks /\ draft'.requirements = statuses
        /\ draft'.permissions = permissions /\ draft'.truth.policy = policy
    BY <1>11 DEF Conclude
  <2>2. /\ phase = "conclude" /\ phase' = "persist" /\ UNCHANGED receipts
    BY <1>11 DEF Conclude
  <2>3. ExitCode(all) = 0 => findings = {} /\ RequirementFindings(statuses) = {}
    BY DEF ExitCode, Operational
  <2> HIDE DEF statuses, all
  <2>4. EarnedBy(draft')
    BY <2>1, <2>2, <2>3, NoRequirementOpen DEF EarnedBy
  <2> QED BY <2>2, <2>4 DEF EarnedBy
<1>12. CASE WriteTemporary
  BY <1>12 DEF WriteTemporary, EarnedBy
<1>13. CASE Rename
  <2>1. receipts \in Seq(Receipts) /\ draft \in Receipts
    BY <1>13 DEF Rename, TypeInv, TypeOK, Progress
  <2>2. receipts' = Append(receipts, draft) /\ draft' = draft /\ phase' = "unlink"
        /\ phase = "rename"
    BY <1>13 DEF Rename
  <2>3. EarnedBy(draft)
    BY <2>2
  <2>4. \A k \in DOMAIN receipts' : receipts'[k] = draft \/
            (k \in DOMAIN receipts /\ receipts'[k] = receipts[k])
    BY <2>1, <2>2
  <2> QED BY <2>2, <2>3, <2>4 DEF EarnedBy
<1>14. CASE Report \/ PersistFails \/ Crash
  BY <1>14 DEF Report, PersistFails, Crash, Forget, EarnedBy
<1> QED
  BY <1>1, <1>2, <1>3, <1>4, <1>5, <1>6, <1>7, <1>8, <1>9, <1>10, <1>11, <1>12, <1>13, <1>14
  DEF Next, RunStep, Ending, Failure

\* Exit 0 of a check means what _requirements_status, the enforcement of checks
\* and the authority together promise (runner.py:154-174, 389-421).
THEOREM ZeroIsEarned == Spec => []PassIsEarned
<1>1. TypeInv /\ EarnedInv => PassIsEarned
  BY DEF EarnedInv
<1> QED BY <1>1, TypeInit, TypeStep, EarnedInit, EarnedStep, PTL DEF Spec

-----------------------------------------------------------------------------
(* What the permission zones rest on.  As with the inputs, a file that     *)
(* still shows the text of the authority's first look has not been touched *)
(* since, so a second look that agrees with the first vouches for all that *)
(* was read in between.                                                    *)

\* What has been read of p is what the authority saw of it at first.
Vouched(p) ==
    /\ \A i \in Checks : seen[i][p] \in {Unread, worktree[p]}
    /\ p = Pol /\ phase # "policy" => policy_sha256 = worktree[p]

\* A run under an authority executes the trusted commit's policy.
TrustedPolicy ==
    /\ phase \in {"idle", "resolve"} => base = Absent /\ worktree = NothingRead
    /\ phase \in {"idle", "resolve", "inspect", "policy", "load"} => policy = Absent
    /\ phase \in {"resolve", "inspect", "relist", "reread"} => opt.trust
    /\ base # Absent => opt.trust /\ base \in Commits /\ policy \in {Absent, Tree[base][Pol]}
    /\ base # Absent => Inspectable(base, Pol)
    /\ phase \in {"inspect"} \union Governed /\ opt.trust => base # Absent
    /\ phase \in Loaded /\ opt.trust => policy = Tree[base][Pol]

\* Every text of the first look was there during the run.
FirstLook ==
    phase = "inspect" =>
        \A p \in Paths \ todo : Inspectable(base, p) => worktree[p] \in held[p]

\* The first look found nothing amiss, and holds for what is still the same.
BetweenLooks ==
    phase \in Governed /\ opt.trust =>
        /\ OutsideAuthority(base, worktree) = {}
        /\ \A p \in Paths : Inspectable(base, p) =>
              worktree[p] \in held[p] /\ (disk[p] = worktree[p] => Vouched(p))

SecondLook ==
    phase = "reread" =>
        \A p \in Paths \ todo :
            Inspectable(base, p) /\ again[p] = worktree[p] => Vouched(p)

\* Only two looks that agree leave the permissions passed.
BothLooks ==
    phase = "conclude" /\ base # Absent /\ permissions = "passed" =>
        /\ policy = Tree[base][Pol] /\ OutsideAuthority(base, worktree) = {}
        /\ \A p \in Paths : Inspectable(base, p) => Vouched(p)

AuthorityInv ==
    /\ TrustedPolicy /\ FirstLook /\ BetweenLooks /\ SecondLook /\ BothLooks
    /\ phase \in {"persist", "rename", "unlink"} => Authorised(draft)
    /\ AuthorityHolds

\* Before the first run the authority has decided nothing.
LEMMA AuthorityInit == Init => AuthorityInv
BY DEF Init, AuthorityInv, TrustedPolicy, FirstLook, BetweenLooks, SecondLook, BothLooks,
       AuthorityHolds, Ledger, Governed, Loaded

\* A step that reads nothing, once the policy has been hashed, changes nothing
\* about what is vouched for.
LEMMA VouchedKept ==
    ASSUME UNCHANGED <<seen, worktree, policy_sha256>>, phase # "policy", phase' # "policy"
    PROVE  \A p \in Paths : Vouched(p)' <=> Vouched(p)
<1>1. seen' = seen /\ worktree' = worktree /\ policy_sha256' = policy_sha256
  OBVIOUS
<1> QED  BY <1>1 DEF Vouched

\* Receipts stay what they were.
LEMMA AuthorityKept == ASSUME AuthorityHolds, UNCHANGED receipts PROVE AuthorityHolds'
BY DEF AuthorityHolds, Authorised, Ledger

\* Every step preserves what the authority has established so far.
LEMMA AuthorityStep == TypeInv /\ EvidenceInv /\ AuthorityInv /\ [Next]_vars => AuthorityInv'
<1> SUFFICES ASSUME TypeInv, EvidenceInv, AuthorityInv, [Next]_vars PROVE AuthorityInv'
  OBVIOUS
<1> USE DEF AuthorityInv, TrustedPolicy, FirstLook, BetweenLooks, SecondLook, BothLooks,
            AuthorityHolds, Ledger, Governed, Loaded, envVars, authorityVars, policyVars,
            snapshotVars, checkVars, ledgerVars, memoryVars
<1>1. CASE UNCHANGED vars
  <2>1. UNCHANGED <<disk, held, phase, opt, base, worktree, permissions, policy_sha256, policy,
                    again, todo, seen, draft, receipts>>
    BY <1>1 DEF vars
  <2>2. \A p \in Paths : Vouched(p)' <=> Vouched(p)
    BY <2>1 DEF Vouched
  <2>3. OutsideAuthority(base, worktree)' = OutsideAuthority(base, worktree)
    BY <2>1 DEF OutsideAuthority
  <2>4. AuthorityHolds'
    BY <2>1, AuthorityKept
  <2>5. BetweenLooks' /\ SecondLook' /\ BothLooks'
    BY <2>1, <2>2, <2>3
  <2>6. phase' \in {"persist", "rename", "unlink"} => Authorised(draft)'
    BY <2>1 DEF Authorised
  <2> QED BY <2>1, <2>4, <2>5, <2>6
<1>2. ASSUME NEW o \in Options, Start(o) PROVE AuthorityInv'
  <2>1. /\ phase = "idle" /\ phase' \in {"conclude", "resolve", "policy"}
        /\ phase' = "resolve" => opt'.trust
        /\ phase' = "policy" => ~opt'.trust
        /\ UNCHANGED <<disk, base, worktree, permissions, policy, policy_sha256, again, todo, seen,
                       draft, receipts>>
    BY <1>2 DEF Start
  <2>2. AuthorityHolds'
    BY <2>1, AuthorityKept
  <2>3. BetweenLooks' /\ FirstLook' /\ SecondLook'
    BY <2>1
  <2>4. BothLooks' /\ TrustedPolicy'
    BY <2>1
  <2>5. ~(phase' \in {"persist", "rename", "unlink"})
    BY <2>1
  <2> HIDE DEF TrustedPolicy, FirstLook, BetweenLooks, SecondLook, BothLooks, AuthorityHolds
  <2> QED BY <2>2, <2>3, <2>4, <2>5
<1>3. CASE Environment
  <2>1. ASSUME NEW p \in Paths, NEW t \in May[p], Edit(p, t) PROVE AuthorityInv'
    <3>1. /\ t \notin held[p]
          /\ \A q \in Paths : q # p => disk'[q] = disk[q]
          /\ disk'[p] = t
          /\ \A q \in Paths : held[q] \subseteq held'[q]
          /\ UNCHANGED <<phase, opt, base, worktree, permissions, policy, policy_sha256, again,
                         todo, seen, draft, receipts>>
      BY <2>1 DEF Edit, TypeInv, TypeOK, Snapshot
    <3>2. BetweenLooks'
      BY <3>1 DEF Vouched, OutsideAuthority
    <3>3. (\A q \in Paths : Vouched(q)' <=> Vouched(q))
          /\ OutsideAuthority(base, worktree)' = OutsideAuthority(base, worktree)
          /\ \A r : Authorised(r)' <=> Authorised(r)
      BY <3>1 DEF Vouched, OutsideAuthority, Authorised
    <3>4. FirstLook'
      BY <3>1
    <3>5. SecondLook' /\ BothLooks'
      BY <3>1, <3>3
    <3> QED BY <3>1, <3>2, <3>3, <3>4, <3>5
  <2>2. ASSUME NEW c \in Commits, MoveRef(c) PROVE AuthorityInv'
    <3>1. UNCHANGED <<disk, held, phase, opt, base, worktree, permissions, policy, policy_sha256,
                      again, todo, seen, draft, receipts>>
      BY <2>2 DEF MoveRef
    <3>2. AuthorityHolds'
      BY <3>1, AuthorityKept
    <3>3. \A p \in Paths : Vouched(p)' <=> Vouched(p)
      BY <3>1 DEF Vouched
    <3>4. BetweenLooks' /\ SecondLook' /\ BothLooks'
      BY <3>1, <3>3 DEF OutsideAuthority
    <3>5. phase' \in {"persist", "rename", "unlink"} => Authorised(draft)'
      BY <3>1 DEF Authorised
    <3> QED BY <3>1, <3>2, <3>4, <3>5
  <2> QED BY <1>3, <2>1, <2>2 DEF Environment
<1>4. CASE ResolveBase
  <2>1. \A p \in Paths \ todo' : Inspectable(base', p) =>
            disk[p] = Absent /\ worktree'[p] = Absent
    BY <1>4 DEF ResolveBase, Listed, Untracked, Inspectable, NothingRead
  <2>2. FirstLook'
    BY <1>4, <2>1 DEF ResolveBase, EvidenceInv, Tracked
  <2>3. base' \in Commits /\ base' # Absent /\ policy' \in {Absent, Tree[base'][Pol]}
    BY <1>4, ConstantsAssumption DEF ResolveBase, TypeInv, TypeOK, ConstantsAssumption
  <2>4. Inspectable(base', Pol)
    BY <1>4, ConstantsAssumption DEF ResolveBase, Trustworthy, Inspectable, ConstantsAssumption
  <2> QED BY <1>4, <2>2, <2>3, <2>4 DEF ResolveBase, Authorised
<1>5. ASSUME NEW p \in Paths, ReadWorktree(p) PROVE AuthorityInv'
  <2>1. /\ phase = "inspect" /\ phase' = "inspect"
        /\ worktree' = [worktree EXCEPT ![p] = disk[p]] /\ todo' = todo \ {p}
        /\ UNCHANGED <<disk, held, opt, base, permissions, policy, draft, receipts>>
    BY <1>5 DEF ReadWorktree
  <2>2. \A q \in Paths : worktree'[q] = IF q = p THEN disk[p] ELSE worktree[q]
    BY <2>1 DEF TypeInv, TypeOK, Snapshot
  <2>3. FirstLook'
    BY <2>1, <2>2 DEF EvidenceInv, Tracked
  <2> QED BY <2>1, <2>3 DEF Authorised
<1>6. CASE DecideAuthority
  <2>1. CASE OutsideAuthority(base, worktree) = {}
    <3>1. /\ phase = "inspect" /\ todo = {} /\ phase' = "policy"
          /\ UNCHANGED <<disk, held, opt, base, worktree, seen, policy, draft, receipts>>
      BY <1>6, <2>1 DEF DecideAuthority
    <3>2. seen' = NothingSeen
      BY <3>1 DEF EvidenceInv, NothingYet, BeforeChecks, Fresh
    <3>3. BetweenLooks'
      BY <2>1, <3>1, <3>2 DEF Vouched, NothingSeen, OutsideAuthority
    <3> QED BY <3>1, <3>3 DEF Authorised
  <2>2. CASE OutsideAuthority(base, worktree) # {}
    BY <1>6, <2>2 DEF DecideAuthority, Authorised
  <2> QED BY <2>1, <2>2
<1>7. CASE HashPolicy
  <2>1. /\ phase = "policy" /\ phase' = "load" /\ policy_sha256' = disk[Pol]
        /\ UNCHANGED <<disk, held, opt, base, worktree, permissions, seen, policy, draft,
                       receipts>>
    BY <1>7 DEF HashPolicy
  <2>2. BetweenLooks'
    BY <2>1 DEF Vouched, OutsideAuthority
  <2> QED BY <2>1, <2>2 DEF Authorised
<1>8. CASE LoadPolicy
  <2>1. /\ phase = "load" /\ phase' \in {"index", "narrow"} /\ policy' = PolicyText
        /\ UNCHANGED <<disk, held, opt, base, worktree, permissions, policy_sha256, seen, draft,
                       receipts>>
    BY <1>8 DEF LoadPolicy
  <2>2. opt.trust => policy' = Tree[base][Pol]
    BY <2>1 DEF PolicyText
  <2>3. BetweenLooks'
    BY <2>1 DEF Vouched, OutsideAuthority
  <2> QED BY <2>1, <2>2, <2>3 DEF Authorised
<1>9. CASE CheckIndex \/ NarrowScope \/ FirstSnapshot
  <2>1. /\ phase \in {"index", "narrow", "select", "hash"}
        /\ phase' \in {"narrow", "select", "hash"}
        /\ UNCHANGED <<disk, held, opt, base, worktree, permissions, policy_sha256, policy, seen,
                       draft, receipts>>
    BY <1>9 DEF CheckIndex, NarrowScope, FirstSnapshot, SelectForCheck, Gather, HashFile
  <2>2. BetweenLooks'
    BY <2>1 DEF Vouched, OutsideAuthority
  <2> QED BY <2>1, <2>2 DEF Authorised
<1>10. CASE Inspection
  <2>1. /\ phase \in {"hash", "doctor", "check"}
        /\ phase' \in {"reuse", "doctor", "regather"}
        /\ UNCHANGED <<disk, held, opt, base, worktree, permissions, policy_sha256, policy, seen,
                       draft, receipts>>
    BY <1>10 DEF Inspection, Lint, Diagnose, RunHooks, TypeInv, TypeOK, Invocations,
                 ConfigCommands
  <2>2. BetweenLooks'
    BY <2>1 DEF Vouched, OutsideAuthority
  <2> QED BY <2>1, <2>2 DEF Authorised
<1>11. CASE Verification
  <2>1. ASSUME NEW p \in Paths, ReadInput(p) PROVE AuthorityInv'
    <3>1. /\ phase = "reading" /\ phase' = "reading"
          /\ seen' = [seen EXCEPT ![cur][p] = disk[p]]
          /\ UNCHANGED <<disk, held, opt, base, worktree, permissions, policy_sha256, policy,
                         draft, receipts>>
      BY <2>1 DEF ReadInput
    <3>2. \A i \in Checks, q \in Paths :
             seen'[i][q] = seen[i][q] \/ (q = p /\ seen'[i][q] = disk[p])
      BY <3>1 DEF TypeInv, TypeOK
    <3>3. ASSUME NEW q \in Paths, disk[q] = worktree[q], Vouched(q) PROVE Vouched(q)'
      BY <3>1, <3>2, <3>3 DEF Vouched
    <3>4. BetweenLooks'
      BY <3>1, <3>3 DEF OutsideAuthority
    <3> QED BY <3>1, <3>4 DEF Authorised
  <2>2. ASSUME Verification, \A p \in Paths : ~ReadInput(p) PROVE AuthorityInv'
    <3>1. /\ phase \in {"reuse", "check", "reading"} /\ phase' \in {"check", "reading"}
          /\ UNCHANGED <<disk, held, opt, base, worktree, permissions, policy_sha256, policy,
                         seen, draft, receipts>>
      BY <2>2 DEF Verification, FindReusable, Reuse, PassVacuously, BeginCheck, EndCheck
    <3>2. BetweenLooks'
      BY <3>1 DEF Vouched, OutsideAuthority
    <3> QED BY <3>1, <3>2 DEF Authorised
  <2> QED BY <1>11, <2>1, <2>2
<1>12. CASE Regather \/ CompareInputs \/ \E p \in Paths : RehashFile(p)
  <2>1. /\ phase \in {"regather", "rehash"} /\ phase' \in {"rehash", "relist", "conclude"}
        /\ (phase' = "conclude" => ~opt.trust) /\ (phase' = "relist" => opt.trust)
        /\ UNCHANGED <<disk, held, opt, base, worktree, permissions, policy_sha256, policy, seen,
                       draft, receipts>>
    BY <1>12 DEF Regather, CompareInputs, RehashFile
  <2>2. \A p \in Paths : Vouched(p)' <=> Vouched(p)
    BY <2>1, VouchedKept
  <2>3. OutsideAuthority(base, worktree)' = OutsideAuthority(base, worktree)
    BY <2>1 DEF OutsideAuthority
  <2>4. BetweenLooks'
    BY <2>1, <2>2, <2>3
  <2>5. AuthorityHolds'
    BY <2>1, AuthorityKept
  <2>6. TrustedPolicy' /\ FirstLook' /\ SecondLook' /\ BothLooks'
    BY <2>1
  <2>7. ~(phase' \in {"persist", "rename", "unlink"})
    BY <2>1
  <2> HIDE DEF TrustedPolicy, FirstLook, BetweenLooks, SecondLook, BothLooks, AuthorityHolds
  <2> QED BY <2>4, <2>5, <2>6, <2>7
<1>13. CASE Relist
  <2>1. CASE ref = base
    <3>1. /\ phase = "relist" /\ phase' \in {"reread", "conclude"}
          /\ UNCHANGED <<disk, held, opt, base, worktree, policy_sha256, policy, seen, draft,
                         receipts>>
          /\ phase' = "conclude" => permissions' = "unverified"
          /\ phase' = "reread" => UNCHANGED permissions
          /\ phase' = "reread" => again' = NothingRead /\ todo' = Listed(base)
      BY <1>13, <2>1 DEF Relist, AuthorityChanged
    <3>2. BetweenLooks'
      BY <3>1 DEF Vouched, OutsideAuthority
    <3>3. SecondLook'
      BY <3>1 DEF Listed, Untracked, Inspectable, NothingRead, Vouched
    <3> QED BY <3>1, <3>2, <3>3 DEF Authorised
  <2>2. CASE ref # base
    BY <1>13, <2>2 DEF Relist, AuthorityChanged, Authorised
  <2> QED BY <2>1, <2>2
<1>14. ASSUME NEW p \in Paths, RereadWorktree(p) PROVE AuthorityInv'
  <2>1. /\ phase = "reread" /\ phase' = "reread"
        /\ again' = [again EXCEPT ![p] = disk[p]] /\ todo' = todo \ {p}
        /\ UNCHANGED <<disk, held, opt, base, worktree, permissions, policy_sha256, policy, seen,
                       draft, receipts>>
    BY <1>14 DEF RereadWorktree
  <2>2. \A q \in Paths : again'[q] = IF q = p THEN disk[p] ELSE again[q]
    BY <2>1 DEF TypeInv, TypeOK, Snapshot
  <2>3. SecondLook' /\ BetweenLooks'
    BY <2>1, <2>2 DEF Vouched, OutsideAuthority
  <2> QED BY <2>1, <2>3 DEF Authorised
<1>15. CASE CompareWorktree
  <2>1. /\ phase = "reread" /\ todo = {} /\ phase' = "conclude"
        /\ permissions' = "passed" => again = worktree
        /\ UNCHANGED <<opt, base, worktree, policy_sha256, policy, seen, draft, receipts>>
    BY <1>15 DEF CompareWorktree, AuthorityChanged
  <2>2. permissions' = "passed" => \A p \in Paths : Inspectable(base, p) => Vouched(p)'
    BY <2>1 DEF Vouched
  <2> QED BY <2>1, <2>2 DEF OutsideAuthority, Authorised
<1>16. ASSUME Fail, phase # "idle" PROVE AuthorityInv'
  <2>1. /\ phase' = "conclude" /\ permissions' # "passed"
        /\ UNCHANGED <<opt, base, policy, draft, receipts>>
    BY <1>16 DEF Fail
  <2> QED BY <2>1 DEF Authorised
<1>17. CASE Refuse \/ Raise
  BY <1>17, <1>16 DEF Refuse, Raise, Refused, InsideTry
<1>18. CASE Conclude
  <2>1. /\ phase = "conclude" /\ phase' = "persist"
        /\ draft'.truth.base = base /\ draft'.truth.policy = policy
        /\ draft'.truth.seen = seen /\ draft'.permissions = permissions
        /\ draft'.policy_sha256 = policy_sha256
        /\ UNCHANGED <<opt, base, policy, receipts>>
    BY <1>18 DEF Conclude
  <2>2. ASSUME base # Absent, permissions = "passed"
        PROVE  /\ policy_sha256 = Tree[base][Pol]
               /\ \A p \in Paths :
                     Inspectable(base, p) /\ Zone(Doc[Tree[base][Pol]], p) # "editable" =>
                       \A i \in Checks : seen[i][p] \in {Unread, Tree[base][p]}
    <3>1. \A p \in Paths : Inspectable(base, p) => Vouched(p)
      BY <2>1, <2>2
    <3>2. \A p \in Paths : Zone(Doc[Tree[base][Pol]], p) # "editable"
                             => worktree[p] = Tree[base][p]
      BY <2>1, <2>2 DEF OutsideAuthority
    <3>3. Pol \in Paths /\ Zone(Doc[Tree[base][Pol]], Pol) # "editable"
          /\ Inspectable(base, Pol)
      BY <2>1, <2>2 DEF Paths, Zone
    <3> QED BY <2>1, <3>1, <3>2, <3>3 DEF Vouched
  <2>3. Authorised(draft')
    BY <2>1, <2>2 DEF Authorised
  <2>4. AuthorityHolds'
    BY <2>1, AuthorityKept
  <2> QED BY <2>1, <2>3, <2>4
<1>19. CASE WriteTemporary
  BY <1>19 DEF WriteTemporary, Authorised
<1>20. CASE Rename
  <2>1. receipts \in Seq(Receipts) /\ draft \in Receipts
    BY <1>20 DEF Rename, TypeInv, TypeOK, Progress
  <2>2. /\ receipts' = Append(receipts, draft) /\ phase = "rename" /\ phase' = "unlink"
        /\ UNCHANGED <<opt, base, policy, draft>>
    BY <1>20 DEF Rename
  <2>3. Authorised(draft)
    BY <2>2
  <2>4. \A k \in DOMAIN receipts' : receipts'[k] = draft \/
            (k \in DOMAIN receipts /\ receipts'[k] = receipts[k])
    BY <2>1, <2>2
  <2>5. \A k \in DOMAIN receipts' : Authorised(receipts'[k])
    BY <2>3, <2>4
  <2> QED BY <2>2, <2>3, <2>5 DEF Authorised
<1>21. CASE Report \/ PersistFails \/ Crash
  <2>1. /\ phase' = "idle" /\ base' = Absent /\ worktree' = NothingRead /\ policy' = Absent
        /\ permissions' = "none" /\ UNCHANGED receipts
    BY <1>21 DEF Report, PersistFails, Crash, Forget
  <2> QED BY <2>1 DEF Authorised
<1> QED
  BY <1>1, <1>2, <1>3, <1>4, <1>5, <1>6, <1>7, <1>8, <1>9, <1>10, <1>11, <1>12, <1>13, <1>14,
     <1>15, <1>17, <1>18, <1>19, <1>20, <1>21
  DEF Next, RunStep, Authority, LoadAndNarrow, SecondSnapshot, Ending, Failure

\* "permissions": "passed" in a receipt means that the policy it hashes and the
\* protected texts its checks read are the trusted commit's, of the files the
\* inspection looks at (authority.py:64-68, 99-165).
THEOREM AuthorityIsHeld == Spec => []AuthorityHolds
<1>1. TypeInv /\ AuthorityInv => AuthorityHolds
  BY DEF AuthorityInv
<1> QED
  BY <1>1, TypeInit, TypeStep, EvidenceInit, EvidenceStep, AuthorityInit, AuthorityStep, PTL
  DEF Spec

-----------------------------------------------------------------------------
(* The runner implements GateContract: every step of a run is a step of    *)
(* the contract or leaves all three of its variables alone.  The one fact  *)
(* the types do not give is that a run about to report has its own receipt *)
(* at the end of the ledger.                                               *)

\* Between the rename and the report the newest receipt is the run's own.
OwnReceipt ==
    phase = "unlink" => receipts # <<>> /\ receipts[Len(receipts)] = draft

\* The ledger as the contract sees it.
Codes == [k \in Ledger |-> receipts[k].exit_code]

\* A fresh gate has no receipt to report.
LEMMA OwnInit == Init => OwnReceipt
BY DEF Init, OwnReceipt

\* Nothing but the run's end touches the ledger after the rename.
LEMMA OwnStep == TypeInv /\ OwnReceipt /\ [Next]_vars => OwnReceipt'
<1> SUFFICES ASSUME TypeInv, OwnReceipt, [Next]_vars PROVE OwnReceipt'
  OBVIOUS
<1> USE DEF OwnReceipt, envVars, ledgerVars
<1>1. CASE UNCHANGED vars
  BY <1>1 DEF vars
<1>2. ASSUME NEW o \in Options, Start(o) PROVE OwnReceipt'
  BY <1>2 DEF Start
<1>3. CASE Environment
  BY <1>3 DEF Environment, Edit, MoveRef
<1>4. CASE Authority \/ LoadAndNarrow \/ FirstSnapshot
  BY <1>4 DEF Authority, ResolveBase, ReadWorktree, DecideAuthority, LoadAndNarrow, HashPolicy,
              LoadPolicy, CheckIndex, NarrowScope, FirstSnapshot, SelectForCheck, Gather,
              HashFile
<1>5. CASE Inspection
  BY <1>5 DEF Inspection, Lint, Diagnose, RunHooks, TypeInv, TypeOK, Invocations,
              ConfigCommands
<1>6. CASE Verification
  BY <1>6 DEF Verification, FindReusable, Reuse, PassVacuously, BeginCheck, ReadInput,
              EndCheck
<1>7. CASE SecondSnapshot
  BY <1>7 DEF SecondSnapshot, Regather, CompareInputs, Relist, CompareWorktree, RehashFile,
              RereadWorktree
<1>8. CASE Refuse \/ Raise
  BY <1>8 DEF Refuse, Raise, Fail
<1>9. CASE Conclude \/ WriteTemporary
  BY <1>9 DEF Conclude, WriteTemporary
<1>10. CASE Rename
  <2>1. receipts \in Seq(Receipts) /\ draft \in Receipts
    BY <1>10 DEF Rename, TypeInv, TypeOK, Progress
  <2>2. receipts' = Append(receipts, draft) /\ draft' = draft
    BY <1>10 DEF Rename
  <2> QED BY <2>1, <2>2
<1>11. CASE Report \/ PersistFails \/ Crash
  BY <1>11 DEF Report, PersistFails, Crash, Forget
<1> QED
  BY <1>1, <1>2, <1>3, <1>4, <1>5, <1>6, <1>7, <1>8, <1>9, <1>10, <1>11
  DEF Next, RunStep, Ending, Failure

-----------------------------------------------------------------------------
\* Storing a receipt adds its code to the contract's ledger.
LEMMA StoredCode ==
    ASSUME NEW s \in Seq(Receipts), NEW r \in Receipts
    PROVE  [k \in DOMAIN Append(s, r) |-> Append(s, r)[k].exit_code]
             = Append([k \in DOMAIN s |-> s[k].exit_code], r.exit_code)
<1> DEFINE codes == [k \in DOMAIN s |-> s[k].exit_code]
<1>1. DOMAIN s = 1..Len(s) /\ Len(s) \in Nat
  OBVIOUS
<1>2. \A k \in 1..Len(s) : s[k].exit_code \in {0, 1, 2}
  <2>1. \A k \in 1..Len(s) : s[k] \in Receipts
    OBVIOUS
  <2>2. \A e \in Receipts : e.exit_code \in {0, 1, 2}
    BY DEF Receipts
  <2> QED BY <2>1, <2>2
<1>3. codes \in [1..Len(s) -> {0, 1, 2}]
  BY <1>1, <1>2
<1>4. codes \in Seq({0, 1, 2}) /\ Len(codes) = Len(s)
  BY <1>1, <1>3
<1>5. r.exit_code \in {0, 1, 2}
  BY DEF Receipts
<1>6. /\ Append(codes, r.exit_code) \in Seq({0, 1, 2})
      /\ Len(Append(codes, r.exit_code)) = Len(s) + 1
      /\ \A k \in 1..(Len(s) + 1) :
            Append(codes, r.exit_code)[k] = IF k = Len(s) + 1 THEN r.exit_code ELSE codes[k]
  BY <1>4, <1>5
<1>7. /\ DOMAIN Append(s, r) = 1..(Len(s) + 1)
      /\ \A k \in 1..(Len(s) + 1) : Append(s, r)[k] = IF k = Len(s) + 1 THEN r ELSE s[k]
  OBVIOUS
<1> QED BY <1>1, <1>6, <1>7

\* A fresh gate keeps the contract.
LEMMA ContractInit == Init => Contract!Init
BY DEF Init, Contract!Init, Stage, Ledger, NoExit

\* A step that keeps the stage and touches neither ledger nor exit code is
\* invisible to the contract.
LEMMA Invisible ==
    ASSUME UNCHANGED <<receipts, exit_code>>, Stage' = Stage
    PROVE  UNCHANGED Contract!contractVars
BY DEF Contract!contractVars, Ledger

\* Every step of a run is allowed by the contract.
LEMMA ContractStep ==
    TypeInv /\ OwnReceipt /\ [Next]_vars => [Contract!Next]_(Contract!contractVars)
<1> SUFFICES ASSUME TypeInv, OwnReceipt, [Next]_vars
             PROVE  [Contract!Next]_(Contract!contractVars)
  OBVIOUS
<1> USE DEF envVars, ledgerVars
<1>1. CASE UNCHANGED vars
  BY <1>1, Invisible DEF vars, Stage
<1>2. ASSUME NEW o \in Options, Start(o) PROVE Contract!Begin
  BY <1>2 DEF Start, Contract!Begin, Stage, Ledger, NoExit
<1>3. CASE Environment
  BY <1>3, Invisible DEF Environment, Edit, MoveRef, Stage
<1>4. CASE Authority \/ LoadAndNarrow \/ FirstSnapshot
  BY <1>4, Invisible
  DEF Authority, ResolveBase, ReadWorktree, DecideAuthority, LoadAndNarrow, HashPolicy,
      LoadPolicy, CheckIndex, NarrowScope, FirstSnapshot, SelectForCheck, Gather, HashFile,
      Stage
<1>5. CASE Inspection
  BY <1>5, Invisible
  DEF Inspection, Lint, Diagnose, RunHooks, Stage, TypeInv, TypeOK, Invocations,
      ConfigCommands
<1>6. CASE Verification
  BY <1>6, Invisible
  DEF Verification, FindReusable, Reuse, PassVacuously, BeginCheck, ReadInput, EndCheck,
      Stage
<1>7. CASE SecondSnapshot
  BY <1>7, Invisible
  DEF SecondSnapshot, Regather, CompareInputs, Relist, CompareWorktree, RehashFile,
      RereadWorktree, Stage
<1>8. CASE Refuse \/ Raise
  BY <1>8, Invisible DEF Refuse, Raise, Refused, InsideTry, Fail, Stage
<1>9. CASE Conclude \/ WriteTemporary
  BY <1>9, Invisible DEF Conclude, WriteTemporary, Stage
<1>10. CASE Rename
  <2>1. receipts \in Seq(Receipts) /\ draft \in Receipts
    BY <1>10 DEF Rename, TypeInv, TypeOK, Progress
  <2>2. Codes' = Append(Codes, draft.exit_code)
    BY <1>10, <2>1, StoredCode DEF Rename, Codes, Ledger
  <2>3. draft.exit_code \in Contract!Codes
    BY <2>1 DEF Receipts, Contract!Codes
  <2>4. Stage = "running" /\ Stage' = "stored" /\ exit_code' = exit_code
    BY <1>10 DEF Rename, Stage
  <2>5. Contract!Store
    BY <2>2, <2>3, <2>4 DEF Contract!Store, Codes
  <2> QED BY <2>5 DEF Contract!Next
<1>11. CASE Report
  <2>1. receipts \in Seq(Receipts) /\ receipts # <<>> /\ receipts[Len(receipts)] = draft
    BY <1>11 DEF Report, TypeInv, TypeOK, OwnReceipt
  <2>2. Len(receipts) \in DOMAIN receipts /\ DOMAIN Codes = 1..Len(receipts)
    BY <2>1 DEF Codes, Ledger
  <2>3. Len(Codes) = Len(receipts) /\ Codes[Len(Codes)] = draft.exit_code
    BY <2>1, <2>2 DEF Codes, Ledger
  <2>4. Stage = "stored" /\ Stage' = "ready" /\ Codes' = Codes
    BY <1>11 DEF Report, Forget, Stage, Codes, Ledger
  <2>5. Contract!Answer
    BY <1>11, <2>3, <2>4 DEF Report, Contract!Answer, Codes
  <2> QED BY <2>5 DEF Contract!Next
<1>12. CASE PersistFails
  BY <1>12 DEF PersistFails, Forget, Stage, Ledger, Contract!Fail, Contract!Next
<1>13. CASE Crash
  BY <1>13 DEF Crash, Forget, Stage, Ledger, Contract!Die, Contract!Next
<1> QED
  BY <1>1, <1>2, <1>3, <1>4, <1>5, <1>6, <1>7, <1>8, <1>9, <1>10, <1>11, <1>12, <1>13
  DEF Next, RunStep, Ending, Failure, Contract!Next

\* Whatever is edited, raised or killed, a run reports 0 or 1 only over a stored
\* receipt with that very code (runner.py run, ledger.py persist).
THEOREM ContractIsKept == Spec => ContractHolds
<1> QED BY TypeInit, TypeStep, OwnInit, OwnStep, ContractInit, ContractStep, PTL
        DEF Spec, ContractHolds, Contract!Spec
=============================================================================
