------------------------- MODULE GateEvidenceProofs -------------------------
(***************************************************************************)
(* Why hashing the inputs once before and once after the checks is enough, *)
(* although neither pass is atomic and the worktree is edited meanwhile.   *)
(*                                                                         *)
(* The argument: a file some check reads was hashed with a text it held    *)
(* during this run.  No edit restores such a text, so as long as the disk  *)
(* still shows the hashed text nobody has touched the file since, and      *)
(* every check that read it read that text.  The second pass establishes   *)
(* just that, file by file, at some moment after the last check.           *)
(***************************************************************************)
EXTENDS GateRunProofs

Fresh == {"idle", "resolve", "inspect", "policy", "load", "index", "narrow", "select"}
BeforeChecks == Fresh \union {"hash", "doctor", "reuse"}
BeforeRehash == BeforeChecks \union {"check", "reading", "regather"}

\* Phases in which the first snapshot is complete and the second is not.
Checking == {"doctor", "reuse", "check", "reading", "regather", "rehash"}

\* Some check of the run reads p.
ReadBySome(p) == \E i \in Checks : p \in Matched(i)

\* What the checks have read of p so far is what the first snapshot lists.
Agrees(p) == \A i \in Checks : seen[i][p] \in {Unread, inputs[p]}

\* The first snapshot's text of p is one the file held during the run.
Hashed(p) == ReadBySome(p) => inputs[p] \in held[p]

\* A file still showing the hashed text was read as such by every check.
Undisturbed(p) ==
    /\ Hashed(p)
    /\ disk[p] = inputs[p] => Agrees(p)
    /\ ~ReadBySome(p) => \A i \in Checks : seen[i][p] = Unread

Tracked == phase # "idle" => \A p \in Paths : disk[p] \in held[p]

NothingYet ==
    /\ phase \in Fresh => inputs = NothingRead
    /\ phase \in BeforeChecks => seen = NothingSeen
    /\ phase \in BeforeRehash => again = NothingRead

FirstPass == phase = "hash" => \A p \in Paths \ todo : Hashed(p)

DuringChecks ==
    /\ phase \in Checking => \A p \in Paths : Undisturbed(p)
    /\ phase = "reading" => todo \subseteq Matched(cur)

SecondPass ==
    phase = "rehash" => \A p \in Paths \ todo : again[p] = inputs[p] => Agrees(p)

Compared ==
    /\ phase \in {"relist", "reread", "conclude"}
    /\ findings \intersect {"core.inputs-changed", "core.error"} = {}
    => \A p \in Paths : Agrees(p)

Persisting == phase \in {"persist", "rename", "unlink"} => Supported(draft)

\* The strengthening of StableEvidence that every step preserves.
EvidenceInv ==
    /\ Tracked /\ NothingYet /\ FirstPass /\ DuringChecks /\ SecondPass /\ Compared
    /\ Persisting /\ StableEvidence

\* A fresh gate has gathered no evidence.
LEMMA EvidenceInit == Init => EvidenceInv
BY DEF Init, EvidenceInv, Tracked, NothingYet, FirstPass, DuringChecks, SecondPass,
       Compared, Persisting, StableEvidence, Ledger, Fresh, BeforeChecks, BeforeRehash,
       Checking

\* Every step preserves the evidence a run has gathered so far.
LEMMA EvidenceStep == TypeInv /\ EvidenceInv /\ [Next]_vars => EvidenceInv'
<1> SUFFICES ASSUME TypeInv, EvidenceInv, [Next]_vars PROVE EvidenceInv'
  OBVIOUS
<1> USE ConstantsAssumption DEF ConstantsAssumption, EvidenceInv, Tracked, NothingYet, FirstPass,
        DuringChecks, SecondPass, Compared, Persisting, StableEvidence, Ledger, Fresh,
        BeforeChecks, BeforeRehash, Checking, ReadBySome, Agrees, Hashed, Undisturbed, Matched,
        envVars, authorityVars, policyVars, snapshotVars, checkVars, ledgerVars, memoryVars
<1>1. CASE UNCHANGED vars
  BY <1>1 DEF vars
<1>2. ASSUME NEW o \in Options, Start(o) PROVE EvidenceInv'
  BY <1>2 DEF Start, NothingSeen, TypeInv, TypeOK
<1>3. ASSUME NEW p \in Paths, NEW t \in May[p], Edit(p, t) PROVE EvidenceInv'
  <2>1. disk' = [disk EXCEPT ![p] = t] /\ t \notin held[p]
    BY <1>3 DEF Edit
  <2>2. held' = held \/ held' = [held EXCEPT ![p] = held[p] \union {t}]
    BY <1>3 DEF Edit
  <2>3. UNCHANGED <<phase, policy, scope, inputs, again, todo, cur, seen, findings, draft,
                    receipts>>
    BY <1>3 DEF Edit
  <2>4. \A q \in Paths : held[q] \subseteq held'[q]
    <3>1. held \in [Paths -> SUBSET Contents]
      BY DEF TypeInv, TypeOK
    <3>2. \A q \in Paths : held'[q] = held[q] \/ (q = p /\ held'[q] = held[p] \union {t})
      BY <2>2, <3>1
    <3> QED BY <3>2
  <2>5. \A q \in Paths : q # p => disk'[q] = disk[q] /\ held'[q] = held[q]
    BY <2>1, <2>2 DEF TypeInv, TypeOK, Snapshot
  <2>6. disk'[p] = t
    BY <2>1 DEF TypeInv, TypeOK, Snapshot
  <2>7. Tracked'
    <3> SUFFICES ASSUME phase # "idle", NEW q \in Paths PROVE disk'[q] \in held'[q]
      BY <2>3
    <3>1. t \in held'[p]
      BY <1>3 DEF Edit, TypeInv, TypeOK
    <3> QED BY <2>5, <2>6, <3>1
  <2>8. \A q \in Paths : Hashed(q) => Hashed(q)'
    BY <2>3, <2>4
  <2>9. \A q \in Paths : Undisturbed(q) => Undisturbed(q)'
    <3> SUFFICES ASSUME NEW q \in Paths, Undisturbed(q) PROVE Undisturbed(q)'
      OBVIOUS
    <3>1. CASE q # p
      BY <3>1, <2>3, <2>5, <2>8
    <3>2. CASE q = p /\ ReadBySome(q)
      BY <3>2, <2>1, <2>3, <2>6, <2>8
    <3>3. CASE q = p /\ ~ReadBySome(q)
      BY <3>3, <2>3, <2>8
    <3> QED BY <3>1, <3>2, <3>3
  <2>10. FirstPass' /\ DuringChecks'
    BY <2>3, <2>8, <2>9
  <2>11. NothingYet' /\ SecondPass' /\ Compared' /\ Persisting' /\ StableEvidence'
    BY <2>3 DEF Supported
  <2> QED BY <2>7, <2>10, <2>11
<1>4. ASSUME NEW c \in Commits, MoveRef(c) PROVE EvidenceInv'
  BY <1>4 DEF MoveRef
<1>5. CASE ResolveBase
  BY <1>5 DEF ResolveBase
<1>6. ASSUME NEW p \in Paths, ReadWorktree(p) PROVE EvidenceInv'
  BY <1>6 DEF ReadWorktree
<1>7. CASE DecideAuthority
  BY <1>7 DEF DecideAuthority, NothingSeen
<1>8. CASE HashPolicy
  BY <1>8 DEF HashPolicy
<1>9. CASE LoadPolicy
  BY <1>9 DEF LoadPolicy
<1>10. CASE CheckIndex
  BY <1>10 DEF CheckIndex
<1>11. CASE NarrowScope
  BY <1>11 DEF NarrowScope
<1>12. CASE SelectForCheck
  BY <1>12 DEF SelectForCheck
<1>13. CASE Gather
  BY <1>13 DEF Gather, Inspected, Existing, NothingRead
<1>14. ASSUME NEW p \in Paths, HashFile(p) PROVE EvidenceInv'
  <2>1. /\ phase = "hash" /\ phase' = "hash"
        /\ inputs' = [inputs EXCEPT ![p] = disk[p]] /\ todo' = todo \ {p}
        /\ UNCHANGED <<disk, held, policy, scope, again, seen, draft, receipts>>
    BY <1>14 DEF HashFile
  <2>2. \A q \in Paths : q # p => inputs'[q] = inputs[q]
    BY <2>1 DEF TypeInv, TypeOK, Snapshot
  <2>3. inputs'[p] \in held[p]
    BY <2>1 DEF TypeInv, TypeOK, Snapshot
  <2>4. FirstPass'
    BY <2>1, <2>2, <2>3
  <2> QED BY <2>1, <2>4
<1>15. ASSUME NEW bad \in BOOLEAN, Lint(bad) PROVE EvidenceInv'
  BY <1>15 DEF Lint, NothingSeen, TypeInv, TypeOK, Invocations, ConfigCommands
<1>16. ASSUME NEW bad \in BOOLEAN, Diagnose(bad) PROVE EvidenceInv'
  BY <1>16 DEF Diagnose, NothingSeen
<1>17. CASE FindReusable
  BY <1>17 DEF FindReusable, NothingSeen
<1>18. CASE Reuse
  BY <1>18 DEF Reuse, Record
<1>19. CASE PassVacuously
  BY <1>19 DEF PassVacuously, Record
<1>20. CASE BeginCheck
  BY <1>20 DEF BeginCheck
<1>21. ASSUME NEW p \in Paths, ReadInput(p) PROVE EvidenceInv'
  <2>1. /\ phase = "reading" /\ phase' = "reading" /\ p \in todo /\ cur \in Checks
        /\ seen' = [seen EXCEPT ![cur][p] = disk[p]] /\ todo' = todo \ {p}
        /\ UNCHANGED <<disk, held, policy, scope, inputs, again, cur, draft, receipts>>
    BY <1>21 DEF ReadInput, TypeInv, Progress
  <2>2. \A i \in Checks, q \in Paths :
           seen'[i][q] = IF i = cur /\ q = p THEN disk[p] ELSE seen[i][q]
    BY <2>1 DEF TypeInv, TypeOK
  <2>3. ReadBySome(p)
    BY <2>1
  <2>4. ASSUME NEW q \in Paths PROVE Undisturbed(q)'
    BY <2>1, <2>2, <2>3
  <2> QED BY <2>1, <2>4
<1>22. ASSUME NEW v \in CheckVerdicts, EndCheck(v) PROVE EvidenceInv'
  BY <1>22 DEF EndCheck, Record
<1>23. ASSUME NEW bad \in BOOLEAN, RunHooks(bad) PROVE EvidenceInv'
  BY <1>23 DEF RunHooks
<1>24. CASE Regather
  BY <1>24 DEF Regather, Inspected, Existing, NothingRead
<1>25. ASSUME NEW p \in Paths, RehashFile(p) PROVE EvidenceInv'
  <2>1. /\ phase = "rehash" /\ phase' = "rehash"
        /\ again' = [again EXCEPT ![p] = disk[p]] /\ todo' = todo \ {p}
        /\ UNCHANGED <<disk, held, policy, scope, inputs, seen, draft, receipts>>
    BY <1>25 DEF RehashFile
  <2>2. \A q \in Paths : again'[q] = IF q = p THEN disk[p] ELSE again[q]
    BY <2>1 DEF TypeInv, TypeOK, Snapshot
  <2>3. SecondPass'
    BY <2>1, <2>2
  <2> QED BY <2>1, <2>3
<1>26. CASE CompareInputs
  BY <1>26 DEF CompareInputs, TypeInv, TypeOK, Snapshot
<1>27. CASE Relist
  BY <1>27 DEF Relist, AuthorityChanged
<1>28. ASSUME NEW p \in Paths, RereadWorktree(p) PROVE EvidenceInv'
  BY <1>28 DEF RereadWorktree
<1>29. CASE CompareWorktree
  BY <1>29 DEF CompareWorktree, AuthorityChanged
<1>30. ASSUME Fail, phase # "idle" PROVE EvidenceInv'
  <2>1. "core.error" \in findings' /\ phase' = "conclude"
    BY <1>30 DEF Fail
  <2>2. UNCHANGED <<disk, held, again, seen, draft, receipts>>
    BY <1>30 DEF Fail
  <2>3. Compared' /\ Persisting' /\ NothingYet'
    BY <2>1
  <2>4. Tracked' /\ FirstPass' /\ DuringChecks' /\ SecondPass' /\ StableEvidence'
    BY <1>30, <2>1, <2>2 DEF Supported
  <2> QED BY <2>3, <2>4
<1>31. CASE Refuse \/ Raise
  BY <1>31, <1>30 DEF Refuse, Raise, Refused, InsideTry
<1>32. CASE Conclude
  BY <1>32 DEF Conclude, Supported
<1>33. CASE WriteTemporary
  BY <1>33 DEF WriteTemporary
<1>34. CASE Rename
  BY <1>34 DEF Rename
<1>35. CASE Report
  BY <1>35 DEF Report, Forget
<1>36. CASE PersistFails
  BY <1>36 DEF PersistFails, Forget
<1>37. CASE Crash
  BY <1>37 DEF Crash, Forget
<1> QED
  BY <1>1, <1>2, <1>3, <1>4, <1>5, <1>6, <1>7, <1>8, <1>9, <1>10, <1>11, <1>12, <1>13,
     <1>14, <1>15, <1>16, <1>17, <1>18, <1>19, <1>20, <1>21, <1>22, <1>23, <1>24, <1>25,
     <1>26, <1>27, <1>28, <1>29, <1>30, <1>31, <1>32, <1>33, <1>34, <1>35, <1>36, <1>37
  DEF Next, RunStep, Authority, LoadAndNarrow, FirstSnapshot, Inspection, Verification,
      SecondSnapshot, Ending, Failure, Environment

\* Whatever is edited, raised or killed during the runs, a receipt that reports
\* neither an error nor changed inputs lists the very texts its checks read
\* (runner.py's two _snapshot calls and their comparison).
THEOREM EvidenceIsStable == Spec => []StableEvidence
<1>1. TypeInv /\ EvidenceInv => StableEvidence
  BY DEF EvidenceInv
<1> QED BY <1>1, TypeInit, TypeStep, EvidenceInit, EvidenceStep, PTL DEF Spec

-----------------------------------------------------------------------------
(* What a passed check, a reused check and a passed requirement stand on.  *)

\* An entry that passed on inputs read them, all those the check's patterns
\* match and all those it lists; a vacuous pass lists none.
Genuine(entry, reads, patterns, declared) ==
    /\ entry.outcome = "passed" =>
         /\ \A p \in patterns : reads[p] # Unread
         /\ declared # {} => \E p \in Paths : reads[p] # Unread
    /\ entry.status = "passed" /\ entry.files # {} =>
         entry.outcome = "passed" /\ \A p \in entry.files : reads[p] # Unread
    /\ entry.outcome = "reused" => entry.status = "reused"

\* Receipt k shows that check i passed on the texts that now lists for files.
Vouches(ledger, k, i, files, now) ==
    /\ k \in DOMAIN ledger
    /\ ledger[k].checks[i].outcome = "passed" /\ ledger[k].checks[i].worst = "clean"
    /\ files # {}
    /\ \A p \in files : ledger[k].truth.seen[i][p] = now[p]

\* A receipt's entries, with what the run that wrote them had read.
Backed(r, ledger) ==
    \A i \in Checks :
        /\ Genuine(r.checks[i], r.truth.seen[i], r.truth.scope[i],
                   Doc[r.truth.policy].paths[i])
        /\ r.checks[i].status = "reused" =>
             Vouches(ledger, r.checks[i].from, i, r.checks[i].files, r.inputs)

\* checks_passed is the verdict of a stable run over mapped checks.
Substantiated(r) ==
    \A q \in Reqs : r.requirements[q] = "checks_passed" =>
        /\ r.findings \intersect {"core.inputs-changed", "core.error"} = {}
        /\ r.truth.policy \in Policies /\ Doc[r.truth.policy].needs[q] # {}
        /\ \A i \in Doc[r.truth.policy].needs[q] :
               r.checks[i].outcome \in {"passed", "reused"}

\* No check has an entry before the first of them begins.
NoneRecorded == phase \in BeforeChecks => checks = [i \in Checks |-> NoEntry]

\* What is listed for a check is among what it will read.
ListedIsMatched ==
    /\ phase = "select" => \A i \in Checks : i < cur => lists[i] \subseteq Matched(i)
    /\ phase \in {"hash", "doctor", "reuse", "check", "reading"} =>
         \A i \in Checks : lists[i] \subseteq Matched(i)

\* Without --diff a check keeps every file its policy declares.
FullScope ==
    /\ phase \in {"select", "hash", "doctor", "reuse", "check", "reading"} /\ ~opt.diff =>
         \A i \in Checks : scope[i] = Doc[policy].paths[i]
    /\ phase = "reading" /\ Doc[policy].paths[cur] # {} => Matched(cur) # {}

\* What a check has done with its files is read.
ReadSoFar ==
    phase = "reading" => \A p \in Matched(cur) \ todo : seen[cur][p] # Unread

\* A source chosen for a check shows it passed on this run's inputs.
SourcesVouch ==
    phase \in {"check", "reading"} =>
        \A i \in Checks : source[i] # 0 => Vouches(receipts, source[i], i, lists[i], inputs)

\* The entries recorded so far.
EntriesBacked ==
    phase # "idle" =>
        \A i \in Checks :
            /\ Genuine(checks[i], seen[i], scope[i], Doc[policy].paths[i])
            /\ checks[i].status = "reused" =>
                 Vouches(receipts, checks[i].from, i, checks[i].files, inputs)

\* A receipt names older receipts only.
OlderSources ==
    \A k \in Ledger, i \in Checks :
        receipts[k].checks[i].status = "reused" => receipts[k].checks[i].from < k

\* The strengthening of ReuseEvidence and RequirementEvidence.
ReuseInv ==
    /\ NoneRecorded /\ ListedIsMatched /\ FullScope /\ ReadSoFar /\ SourcesVouch
    /\ EntriesBacked /\ OlderSources
    /\ phase \in {"persist", "rename", "unlink"} =>
         Backed(draft, receipts) /\ Substantiated(draft)
    /\ \A k \in Ledger : Backed(receipts[k], receipts) /\ Substantiated(receipts[k])

\* A fresh gate has nothing that rests on anything.
LEMMA ReuseInit == Init => ReuseInv
BY DEF Init, ReuseInv, NoneRecorded, ListedIsMatched, FullScope, ReadSoFar, SourcesVouch,
       EntriesBacked, OlderSources, Ledger

\* A receipt that the code takes as a source is one that vouches.
LEMMA ReusableVouches ==
    ASSUME TypeInv, StableEvidence, NEW k \in DOMAIN receipts, Backed(receipts[k], receipts),
           NEW i \in Checks, Reusable(receipts[k], i), lists[i] # {}
    PROVE  Vouches(receipts, k, i, lists[i], inputs)
<1>1. Supported(receipts[k])
  BY DEF StableEvidence, Ledger
<1>2. receipts[k].findings \intersect {"core.inputs-changed", "core.error"} = {}
  BY DEF Reusable, Tainted
<1>3. /\ receipts[k].checks[i].outcome = "passed" /\ receipts[k].checks[i].worst = "clean"
      /\ \A p \in lists[i] : receipts[k].truth.seen[i][p] # Unread
  BY DEF Reusable, Backed, Genuine
<1>4. lists[i] \subseteq Paths
  BY DEF TypeInv, TypeOK
<1>5. \A p \in lists[i] : receipts[k].truth.seen[i][p] = inputs[p]
  BY <1>1, <1>2, <1>3, <1>4 DEF Supported, Reusable
<1> QED BY <1>3, <1>5 DEF Vouches

\* The reads and the list a check's entry stands on are all there when it ends.
LEMMA EndedGenuine ==
    ASSUME TypeInv, ReuseInv, NEW v \in CheckVerdicts, EndCheck(v)
    PROVE  /\ cur \in Checks /\ checks' = [checks EXCEPT ![cur] = checks'[cur]]
           /\ checks'[cur].status # "reused"
           /\ Genuine(checks'[cur], seen[cur], scope[cur], Doc[policy].paths[cur])
<1>1. cur \in Checks /\ todo = {} /\ phase = "reading" /\ policy \in Policies
  BY DEF EndCheck, TypeInv, Progress, Loaded
<1>2. /\ checks' = [checks EXCEPT ![cur] = checks'[cur]]
      /\ checks'[cur].status = checks'[cur].outcome
      /\ checks'[cur].outcome \in {"passed", "failed"} /\ checks'[cur].files = lists[cur]
  BY <1>1 DEF EndCheck, Record, TypeInv, TypeOK
<1>3. /\ \A p \in Matched(cur) : seen[cur][p] # Unread
      /\ lists[cur] \subseteq Matched(cur) /\ scope[cur] \subseteq Matched(cur)
      /\ Doc[policy].paths[cur] # {} => Matched(cur) # {}
  BY <1>1 DEF ReuseInv, ReadSoFar, ListedIsMatched, FullScope, Matched
<1>4. Matched(cur) \subseteq Paths
  BY <1>1, DocTypes DEF Matched, TypeInv, TypeOK
<1> QED BY <1>1, <1>2, <1>3, <1>4 DEF Genuine

\* The receipt of a run is backed by what the run has recorded, and its
\* requirements by its entries.
LEMMA ConcludedBacked ==
    ASSUME TypeInv, ReuseInv, Conclude
    PROVE  Backed(draft', receipts) /\ Substantiated(draft')
<1>1. /\ phase = "conclude" /\ UNCHANGED receipts
      /\ draft'.checks = checks /\ draft'.inputs = inputs /\ draft'.truth.seen = seen
      /\ draft'.truth.scope = scope /\ draft'.truth.policy = policy
  BY DEF Conclude
<1>2. Backed(draft', receipts)
  BY <1>1 DEF ReuseInv, EntriesBacked, Backed, Vouches
<1> DEFINE rules == findings \union (IF opt.input_error THEN {"core.hook-input"} ELSE {})
           valid == ~Operational(rules) /\ ~Unstable(rules)
           statuses == Requirements(valid)
<1>3. draft'.requirements = statuses
      /\ draft'.findings = rules \union RequirementFindings(statuses)
  BY DEF Conclude
<1>4. ASSUME NEW q \in Reqs, statuses[q] = "checks_passed"
      PROVE  /\ valid /\ policy \in Policies /\ Doc[policy].needs[q] # {}
             /\ \A i \in Doc[policy].needs[q] : checks[i].outcome \in {"passed", "reused"}
  <2> DEFINE outcomes == {checks[i].outcome : i \in Doc[policy].needs[q]}
  <2>1. /\ RequirementStatus(opt.command, valid, outcomes) = "checks_passed"
        /\ policy \in Policies
    BY <1>4 DEF Requirements, TypeInv, TypeOK
  <2> HIDE DEF outcomes, valid
  <2>2. valid /\ outcomes # {} /\ outcomes \subseteq {"passed", "reused"}
    BY <2>1 DEF RequirementStatus, Complete
  <2> USE DEF outcomes
  <2> QED BY <2>1, <2>2
<1>5. valid => rules \intersect {"core.inputs-changed", "core.error"} = {}
  BY DEF Operational, Unstable
<1>6. RequirementFindings(statuses) \intersect {"core.inputs-changed", "core.error"} = {}
  BY DEF RequirementFindings
<1> HIDE DEF rules, valid, statuses
<1>7. Substantiated(draft')
  BY <1>1, <1>3, <1>4, <1>5, <1>6 DEF Substantiated
<1> QED BY <1>2, <1>7

\* A check without an entry has nothing to account for.
LEMMA NothingRecorded ==
    /\ NoEntry.status # "reused"
    /\ \A reads, patterns, declared : Genuine(NoEntry, reads, patterns, declared)
BY DEF NoEntry, Genuine

\* What the ledger shows, it still shows after another receipt.
LEMMA LedgerGrows ==
    ASSUME NEW ledger \in Seq(Receipts), NEW d \in Receipts
    PROVE  /\ \A k, i, files, now : Vouches(ledger, k, i, files, now)
                                      => Vouches(Append(ledger, d), k, i, files, now)
           /\ \A r : Backed(r, ledger) => Backed(r, Append(ledger, d))
<1>1. \A k \in DOMAIN ledger : k \in DOMAIN Append(ledger, d)
                                /\ Append(ledger, d)[k] = ledger[k]
  OBVIOUS
<1>2. \A k, i, files, now : Vouches(ledger, k, i, files, now)
                              => Vouches(Append(ledger, d), k, i, files, now)
  BY <1>1 DEF Vouches
<1> QED BY <1>2 DEF Backed

\* Every step preserves what the entries of the run and the receipts stand on.
LEMMA ReuseStep == TypeInv /\ EvidenceInv /\ ReuseInv /\ [Next]_vars => ReuseInv'
<1> SUFFICES ASSUME TypeInv, EvidenceInv, ReuseInv, [Next]_vars PROVE ReuseInv'
  OBVIOUS
<1> USE DEF ReuseInv, NoneRecorded, ListedIsMatched, FullScope, ReadSoFar, SourcesVouch,
            EntriesBacked, OlderSources, Ledger, Fresh, BeforeChecks, Matched, envVars,
            authorityVars, policyVars, snapshotVars, checkVars, ledgerVars, memoryVars
<1>1. CASE UNCHANGED vars
  BY <1>1 DEF vars
<1>2. ASSUME NEW o \in Options, Start(o) PROVE ReuseInv'
  <2>1. /\ phase = "idle" /\ phase' \in {"conclude", "resolve", "policy"}
        /\ UNCHANGED <<policy, scope, inputs, checks, seen, draft, receipts>>
    BY <1>2 DEF Start
  <2> QED BY <2>1, NothingRecorded
<1>3. CASE Environment
  BY <1>3 DEF Environment, Edit, MoveRef
<1>4. CASE Authority \/ LoadAndNarrow
  <2>1. /\ phase \in BeforeChecks \ {"select", "hash", "doctor", "reuse"}
        /\ phase' \in (BeforeChecks \ {"hash", "doctor", "reuse"}) \union {"conclude"}
        /\ UNCHANGED <<opt, lists, inputs, checks, seen, draft, receipts>>
    BY <1>4 DEF Authority, ResolveBase, ReadWorktree, DecideAuthority, LoadAndNarrow,
                HashPolicy, LoadPolicy, CheckIndex, NarrowScope
  <2>2. phase' = "select" =>
           /\ cur' = 1 /\ UNCHANGED policy
           /\ ~opt.diff => \A i \in Checks : scope'[i] = Doc[policy].paths[i]
    BY <1>4 DEF Authority, ResolveBase, ReadWorktree, DecideAuthority, LoadAndNarrow,
                HashPolicy, LoadPolicy, CheckIndex, NarrowScope
  <2>3. ListedIsMatched'
    BY <2>1, <2>2 DEF Checks
  <2>4. FullScope'
    BY <2>1, <2>2
  <2>5. EntriesBacked'
    <3> SUFFICES ASSUME NEW i \in Checks
                 PROVE  /\ checks'[i].status # "reused"
                        /\ Genuine(checks'[i], seen'[i], scope'[i], Doc[policy'].paths[i])
      OBVIOUS
    <3>1. checks'[i] = NoEntry
      BY <2>1
    <3> QED BY <3>1, NothingRecorded
  <2> QED BY <2>1, <2>3, <2>4, <2>5
<1>5. CASE SelectForCheck
  <2>1. /\ phase = "select" /\ phase' = "select" /\ cur \in Checks /\ cur' = cur + 1
        /\ lists' = [lists EXCEPT ![cur] = Existing(Matched(cur))]
        /\ UNCHANGED <<opt, policy, scope, inputs, checks, seen, draft, receipts>>
    BY <1>5 DEF SelectForCheck
  <2>2. \A i \in Checks : lists'[i] = IF i = cur THEN Existing(Matched(cur)) ELSE lists[i]
    BY <2>1 DEF TypeInv, TypeOK
  <2>3. \A i \in Checks : i < cur + 1 => i < cur \/ i = cur
    BY <2>1 DEF Checks
  <2>4. Existing(Matched(cur)) \subseteq Matched(cur)
    BY DEF Existing
  <2> HIDE DEF Matched
  <2>5. \A i \in Checks : i < cur' => lists'[i] \subseteq Matched(i)
    BY <2>1, <2>2, <2>3, <2>4
  <2> USE DEF Matched
  <2>6. ListedIsMatched'
    BY <2>1, <2>5
  <2> QED BY <2>1, <2>6
<1>6. CASE Gather
  <2>1. /\ phase = "select" /\ cur = N + 1 /\ phase' = "hash"
        /\ UNCHANGED <<opt, policy, scope, lists, inputs, checks, seen, draft, receipts>>
    BY <1>6 DEF Gather
  <2>2. \A i \in Checks : i < cur
    BY <2>1, ConstantsAssumption DEF ConstantsAssumption, Checks
  <2> QED BY <2>1, <2>2
<1>7. ASSUME NEW p \in Paths, HashFile(p) PROVE ReuseInv'
  <2>1. /\ phase = "hash" /\ phase' = "hash"
        /\ UNCHANGED <<opt, policy, scope, lists, checks, seen, draft, receipts>>
    BY <1>7 DEF HashFile
  <2>2. EntriesBacked'
    <3> SUFFICES ASSUME NEW i \in Checks
                 PROVE  /\ checks'[i].status # "reused"
                        /\ Genuine(checks'[i], seen'[i], scope'[i], Doc[policy'].paths[i])
      OBVIOUS
    <3>1. checks'[i] = NoEntry
      BY <2>1
    <3> QED BY <3>1, NothingRecorded
  <2> QED BY <2>1, <2>2
<1>8. CASE Inspection
  <2>1. /\ phase \in {"hash", "doctor", "check"} /\ phase' \in {"reuse", "doctor", "regather"}
        /\ phase = "check" => phase' = "regather"
        /\ UNCHANGED <<opt, policy, scope, lists, inputs, checks, seen, draft, receipts>>
    BY <1>8 DEF Inspection, Lint, Diagnose, RunHooks, TypeInv, TypeOK, Invocations,
                ConfigCommands
  <2> QED BY <2>1
<1>9. CASE FindReusable
  <2>1. ASSUME NEW i \in Checks, source'[i] # 0
        PROVE  Vouches(receipts, source'[i], i, lists[i], inputs)
    <3>1. Chosen(i, source'[i])
      BY <1>9 DEF FindReusable
    <3>2. source'[i] \in Candidates(i) /\ lists[i] # {}
      BY <2>1, <3>1 DEF Chosen, Wanted
    <3>3. source'[i] \in DOMAIN receipts /\ Reusable(receipts[source'[i]], i)
      BY <3>2 DEF Candidates, TypeInv, TypeOK
    <3> QED BY <3>2, <3>3, ReusableVouches DEF EvidenceInv
  <2>2. /\ phase = "reuse" /\ phase' = "check"
        /\ UNCHANGED <<opt, policy, scope, lists, inputs, checks, seen, draft, receipts>>
    BY <1>9 DEF FindReusable
  <2> QED BY <2>1, <2>2
<1>10. CASE Reuse
  <2>1. /\ cur \in Checks /\ source[cur] # 0 /\ phase = "check" /\ phase' = "check"
        /\ \A i \in Checks : i # cur => checks'[i] = checks[i]
        /\ checks'[cur].status = "reused" /\ checks'[cur].outcome = "reused"
        /\ checks'[cur].files = lists[cur] /\ checks'[cur].from = source[cur]
        /\ UNCHANGED <<opt, policy, scope, lists, inputs, source, seen, draft, receipts>>
    BY <1>10 DEF Reuse, Record, TypeInv, TypeOK
  <2>2. Genuine(checks'[cur], seen[cur], scope[cur], Doc[policy].paths[cur])
    BY <2>1 DEF Genuine
  <2> QED BY <2>1, <2>2
<1>11. CASE PassVacuously
  <2>1. /\ phase = "check" /\ phase' = "check" /\ cur \in Checks
        /\ \A i \in Checks : i # cur => checks'[i] = checks[i]
        /\ checks'[cur].status = "passed" /\ checks'[cur].outcome = "unverified"
        /\ checks'[cur].files = {}
        /\ UNCHANGED <<opt, policy, scope, lists, inputs, source, seen, draft, receipts>>
    BY <1>11 DEF PassVacuously, Record, TypeInv, TypeOK
  <2>2. Genuine(checks'[cur], seen[cur], scope[cur], Doc[policy].paths[cur])
    BY <2>1 DEF Genuine
  <2> QED BY <2>1, <2>2
<1>12. CASE BeginCheck
  BY <1>12 DEF BeginCheck, NothingInDiff
<1>13. ASSUME NEW p \in Paths, ReadInput(p) PROVE ReuseInv'
  <2>1. /\ phase = "reading" /\ phase' = "reading" /\ cur \in Checks
        /\ seen' = [seen EXCEPT ![cur][p] = disk[p]] /\ todo' = todo \ {p}
        /\ UNCHANGED <<opt, policy, scope, lists, inputs, cur, source, checks, draft, receipts>>
    BY <1>13 DEF ReadInput, TypeInv, Progress
  <2>2. disk[p] # Unread
    BY ConstantsAssumption DEF ConstantsAssumption, TypeInv, TypeOK, Snapshot
  <2>3. /\ \A i \in Checks, q \in Paths : seen[i][q] # Unread => seen'[i][q] # Unread
        /\ seen'[cur][p] # Unread
    BY <2>1, <2>2 DEF TypeInv, TypeOK
  <2>4. /\ \A i \in Checks : checks[i].files \subseteq Paths /\ scope[i] \subseteq Paths
        /\ todo \subseteq Paths
    BY DEF TypeInv, TypeOK, Entries
  <2>5. policy \in Policies
    BY <2>1 DEF TypeInv, Progress, Loaded
  <2>6. Matched(cur) \subseteq Paths
    BY <2>1, <2>4, <2>5, DocTypes DEF Matched
  <2>7. ReadSoFar'
    BY <2>1, <2>3, <2>6
  <2>8. \A i \in Checks : Genuine(checks[i], seen'[i], scope[i], Doc[policy].paths[i])
    BY <2>1, <2>3, <2>4 DEF Genuine
  <2> QED BY <2>1, <2>7, <2>8
<1>14. ASSUME NEW v \in CheckVerdicts, EndCheck(v) PROVE ReuseInv'
  <2>1. /\ phase = "reading" /\ phase' = "check"
        /\ UNCHANGED <<opt, policy, scope, lists, inputs, source, seen, draft, receipts>>
    BY <1>14 DEF EndCheck
  <2>2. \A i \in Checks : i # cur => checks'[i] = checks[i]
    BY <1>14, EndedGenuine DEF TypeInv, TypeOK
  <2>3. /\ checks'[cur].status # "reused"
        /\ Genuine(checks'[cur], seen[cur], scope[cur], Doc[policy].paths[cur])
    BY <1>14, EndedGenuine
  <2> QED BY <2>1, <2>2, <2>3
<1>15. CASE SecondSnapshot
  <2>1. /\ phase \in {"regather", "rehash", "relist", "reread"}
        /\ phase' \in {"rehash", "relist", "reread", "conclude"}
        /\ UNCHANGED <<policy, scope, inputs, checks, seen, draft, receipts>>
    BY <1>15 DEF SecondSnapshot, Regather, CompareInputs, Relist, CompareWorktree, RehashFile,
                 RereadWorktree
  <2> QED BY <2>1
<1>16. CASE Refuse \/ Raise
  <2>1. /\ phase \in InsideTry /\ phase' = "conclude"
        /\ phase # "hash" => inputs' = inputs
        /\ UNCHANGED <<policy, scope, checks, seen, draft, receipts>>
    BY <1>16 DEF Refuse, Raise, Refused, InsideTry, Fail
  <2>2. CASE phase = "hash"
    <3>1. \A i \in Checks : checks[i].status # "reused"
      BY <2>2, NothingRecorded
    <3> QED BY <2>1, <2>2, <3>1 DEF InsideTry
  <2> QED BY <2>1, <2>2 DEF InsideTry
<1>17. CASE Conclude
  <2>1. /\ phase = "conclude" /\ phase' = "persist"
        /\ UNCHANGED <<policy, scope, inputs, checks, seen, receipts>>
    BY <1>17 DEF Conclude
  <2> QED BY <1>17, <2>1, ConcludedBacked
<1>18. CASE WriteTemporary
  BY <1>18 DEF WriteTemporary
<1>19. CASE Rename
  <2>1. receipts \in Seq(Receipts) /\ draft \in Receipts
    BY <1>19 DEF Rename, TypeInv, TypeOK, Progress
  <2>2. /\ receipts' = Append(receipts, draft) /\ phase = "rename" /\ phase' = "unlink"
        /\ UNCHANGED <<policy, scope, inputs, checks, seen, draft>>
    BY <1>19 DEF Rename
  <2>3. \A k \in DOMAIN receipts' :
           \/ k \in DOMAIN receipts /\ receipts'[k] = receipts[k]
           \/ receipts'[k] = draft /\ \A j \in DOMAIN receipts : j < k
    BY <2>1, <2>2
  <2>4. /\ \A k, i, files, now : Vouches(receipts, k, i, files, now)
                                  => Vouches(receipts', k, i, files, now)
        /\ \A r : Backed(r, receipts) => Backed(r, receipts')
    BY <2>1, <2>2, LedgerGrows
  <2>5. EntriesBacked'
    BY <2>2, <2>4
  <2>6. OlderSources'
    <3>1. \A i \in Checks : draft.checks[i].status = "reused"
                             => draft.checks[i].from \in DOMAIN receipts
      BY <2>2 DEF Backed, Vouches
    <3> QED BY <2>3, <3>1
  <2>7. \A k \in Ledger' : Backed(receipts'[k], receipts') /\ Substantiated(receipts'[k])
    BY <2>2, <2>3, <2>4
  <2>8. Backed(draft', receipts') /\ Substantiated(draft')
    BY <2>2, <2>4
  <2> QED BY <2>2, <2>5, <2>6, <2>7, <2>8
<1>20. CASE Report \/ PersistFails \/ Crash
  BY <1>20 DEF Report, PersistFails, Crash, Forget
<1> QED
  BY <1>1, <1>2, <1>3, <1>4, <1>5, <1>6, <1>7, <1>8, <1>9, <1>10, <1>11, <1>12, <1>13, <1>14,
     <1>15, <1>16, <1>17, <1>18, <1>19, <1>20
  DEF Next, RunStep, FirstSnapshot, Verification, Ending, Failure

\* What the invariant says of a stored entry that was reused.
LEMMA ReusedEntry ==
    ASSUME TypeInv, ReuseInv, NEW k \in Ledger, NEW i \in Checks,
           receipts[k].checks[i].status = "reused"
    PROVE  LET entry == receipts[k].checks[i] IN
           /\ entry.from \in 1..(k - 1)
           /\ Vouches(receipts, entry.from, i, entry.files, receipts[k].inputs)
<1>1. Vouches(receipts, receipts[k].checks[i].from, i, receipts[k].checks[i].files,
              receipts[k].inputs)
  BY DEF ReuseInv, Backed
<1>2. receipts[k].checks[i].from < k
  BY DEF ReuseInv, OlderSources
<1>3. DOMAIN receipts = 1..Len(receipts) /\ Len(receipts) \in Nat
  BY DEF TypeInv, TypeOK
<1>4. receipts[k].checks[i].from \in DOMAIN receipts
  BY <1>1 DEF Vouches
<1> QED BY <1>1, <1>2, <1>3, <1>4 DEF Ledger

\* A reused entry rests on an older run that passed on the same texts
\* (runner.py:95-151).
THEOREM ReuseIsJustified == Spec => []ReuseEvidence
<1>1. TypeInv /\ ReuseInv => ReuseEvidence
  <2> SUFFICES ASSUME TypeInv, ReuseInv, NEW k \in Ledger, NEW i \in Checks,
                      receipts[k].checks[i].status = "reused"
               PROVE  LET entry == receipts[k].checks[i]
                          prior == receipts[entry.from]
                      IN /\ entry.from \in 1..(k - 1)
                         /\ prior.checks[i].outcome = "passed"
                         /\ prior.checks[i].worst = "clean"
                         /\ entry.files # {}
                         /\ \A p \in entry.files : ReadAs(entry.from, i, p, receipts[k])
    BY DEF ReuseEvidence
  <2> QED BY ReusedEntry DEF Vouches, ReadAs
<1> QED
  BY <1>1, TypeInit, TypeStep, EvidenceInit, EvidenceStep, ReuseInit, ReuseStep, PTL DEF Spec

\* checks_passed rests on checks that passed on the listed inputs, in this run
\* or in the one they were reused from (runner.py:154-174).
THEOREM RequirementsAreEvidenced == Spec => []RequirementEvidence
<1>1. TypeInv /\ EvidenceInv /\ ReuseInv => RequirementEvidence
  <2> SUFFICES ASSUME TypeInv, EvidenceInv, ReuseInv, NEW k \in Ledger, NEW q \in Reqs,
                      receipts[k].requirements[q] = "checks_passed"
               PROVE  /\ Doc[receipts[k].truth.policy].needs[q] # {}
                      /\ \A i \in Doc[receipts[k].truth.policy].needs[q] : PassedOn(k, i)
    BY DEF RequirementEvidence
  <2> DEFINE r == receipts[k]
             needed == Doc[r.truth.policy].needs[q]
  <2>1. Substantiated(r) /\ Backed(r, receipts) /\ Supported(r)
    BY DEF ReuseInv, EvidenceInv, StableEvidence
  <2>2. /\ r.findings \intersect {"core.inputs-changed", "core.error"} = {}
        /\ r.truth.policy \in Policies /\ needed # {}
        /\ \A i \in needed : r.checks[i].outcome \in {"passed", "reused"}
    BY <2>1 DEF Substantiated
  <2>3. needed \subseteq Checks
    BY <2>2, DocTypes
  <2>4. ASSUME NEW i \in needed PROVE PassedOn(k, i)
    <3>1. i \in Checks
      BY <2>3
    <3>2. Genuine(r.checks[i], r.truth.seen[i], r.truth.scope[i],
                  Doc[r.truth.policy].paths[i])
      BY <2>1, <3>1 DEF Backed
    <3>3. r.truth.scope[i] \subseteq Paths
      <4>1. r \in Receipts
        BY DEF TypeInv, TypeOK, Ledger
      <4>2. r.truth \in Truths
        BY <4>1 DEF Receipts
      <4>3. r.truth.scope \in [Checks -> SUBSET Paths]
        BY <4>2 DEF Truths
      <4> QED BY <3>1, <4>3
    <3>4. CASE r.checks[i].outcome = "passed"
      <4>1. \A p \in r.truth.scope[i] : r.truth.seen[i][p] = r.inputs[p]
        BY <2>1, <2>2, <3>1, <3>2, <3>3, <3>4 DEF Supported, Genuine
      <4> QED BY <3>2, <3>4, <4>1 DEF PassedOn, ReadAs, Genuine
    <3>5. CASE r.checks[i].outcome = "reused"
      <4>1. r.checks[i].status = "reused"
        BY <3>2, <3>5 DEF Genuine
      <4>2. Vouches(receipts, r.checks[i].from, i, r.checks[i].files, r.inputs)
        BY <2>1, <3>1, <4>1 DEF Backed
      <4> QED BY <3>5, <4>2 DEF PassedOn, ReadAs, Vouches
    <3> QED BY <2>2, <3>4, <3>5
  <2> QED BY <2>2, <2>4
<1> QED
  BY <1>1, TypeInit, TypeStep, EvidenceInit, EvidenceStep, ReuseInit, ReuseStep, PTL DEF Spec
=============================================================================
