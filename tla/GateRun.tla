------------------------------ MODULE GateRun ------------------------------
(***************************************************************************)
(* One gate run after another over a worktree that other actors keep       *)
(* editing: core/runner.py `run`, the permission zones of core/authority.py*)
(* and the receipts of core/ledger.py.                                     *)
(*                                                                         *)
(* A run reads the disk many times (the authority snapshot, the hash of    *)
(* the policy, its parse, one selection per check, one hash per file, the  *)
(* checks themselves, and all of it again at the end), so every read is a  *)
(* step of its own and an edit may fall between any two.  Any step may     *)
(* raise, and the process may be killed anywhere.                          *)
(*                                                                         *)
(* A hash is the text it was computed from.  Absent stands for a missing   *)
(* file on disk and for a missing key in a snapshot.                       *)
(***************************************************************************)
EXTENDS Verdict, Sequences, FiniteSets

CONSTANTS
  Files,        (* the regular files of the worktree, the policy apart      *)
  Pol,          (* the policy file                                          *)
  Texts,        (* what a file may hold                                     *)
  Policies,     (* the texts that parse as a policy                         *)
  Doc,          (* what a policy declares, for each of Policies             *)
  May,          (* the texts (or Absent) an edit may leave in a file        *)
  Commits,      (* commits a trust base may name                            *)
  Tree,         (* the files of a commit                                    *)
  Index, HeadCommit, (* Git's index and checked-out commit, fixed during a run   *)
  Ignored,      (* paths the exclude rules match, fixed during a run         *)
  N,            (* the number of checks a policy declares                   *)
  Reqs,         (* requirement ids                                          *)
  Options,      (* the invocations considered                               *)
  InitialDisks, (* worktrees a behaviour may start from                     *)
  Window,       (* newest receipts searched for reuse (64 in the code)      *)
  MaxRuns, MaxEdits,     (* bounds on runs and on steps of the environment  *)
  Absent, Unread         (* sentinels                                       *)

Paths == Files \union {Pol}
Checks == 1..N
Contents == Texts \union {Absent}
Snapshot == [Paths -> Contents]
Zones == {"editable", "protected", "immutable", "unclassified"}
GitSlots == {"pre-commit", "pre-push"}

PolicyDocs ==
    [paths: [Checks -> SUBSET Paths],    \* files the check's patterns match
     extra: [Checks -> SUBSET Paths],    \* inputs the plugin adds to them
     warn: SUBSET Checks,                \* enforcement = "warn"
     fresh: SUBSET Checks,               \* reuse = false
     config: SUBSET Paths,               \* AGENTS.md, hooks, config_files
     permits: BOOLEAN,                   \* declares [permissions]
     zone: [Paths -> Zones],             \* strongest zone matching the file
     needs: [Reqs -> SUBSET Checks]]     \* [[requirements]] mappings

Invocations ==
    [command: {"check"} \union ConfigCommands,
     slot: {"none", "stop"} \union GitSlots,
     reuse: BOOLEAN, diff: BOOLEAN, trust: BOOLEAN,
     input_error: BOOLEAN, authority_error: BOOLEAN]

ASSUME ConstantsAssumption ==
    /\ Pol \notin Files
    /\ Absent \notin Texts /\ Unread \notin Contents
    /\ Policies \subseteq Texts
    /\ Doc \in [Policies -> PolicyDocs]
    /\ May \in [Paths -> SUBSET Contents]
    /\ Tree \in [Commits -> Snapshot]
    /\ Index \in Snapshot /\ HeadCommit \in Commits /\ Ignored \subseteq Paths
    /\ Absent \notin Commits
    /\ Options \subseteq Invocations
    /\ InitialDisks \subseteq Snapshot
    /\ N \in Nat /\ Window \in Nat /\ MaxRuns \in Nat /\ MaxEdits \in Nat

VARIABLES
  disk,          (* the worktree                                            *)
  ref,           (* the commit the trust base resolves to                   *)
  held,          (* history: what each file has held since the run began    *)
  edits,         (* steps of the environment so far                         *)
  phase,         (* where the run is; "idle" between runs                   *)
  opt,           (* the invocation                                          *)
  runs,          (* runs started so far                                     *)
  policy_sha256, (* the hash written in the receipt                         *)
  policy,        (* the policy executed                                     *)
  base,          (* authority: the commit resolved                          *)
  worktree,      (* authority: the first snapshot                           *)
  permissions,   (* authority: the status in the receipt                    *)
  scope,         (* per check, its patterns after --diff narrowing          *)
  lists,         (* per check, the input list recorded for it               *)
  inputs,        (* the first snapshot of the inspected files               *)
  again,         (* the second snapshot of whichever is being compared      *)
  todo,          (* files the current snapshot or check has yet to read     *)
  cur,           (* the check being selected or executed                    *)
  source,        (* per check, the receipt it is reused from, 0 for none    *)
  checks,        (* per check, its receipt entry and verification outcome   *)
  seen,          (* history: per check, what it read                        *)
  findings,      (* rules of the error findings                             *)
  diagnostics,   (* doctor's observations                                   *)
  draft,         (* the receipt being persisted                             *)
  receipts,      (* .exitzero/runs, oldest first                            *)
  exit_code,     (* the last run's exit code, NoExit before it has one      *)
  stored         (* the receipt that run reported, 0 for none               *)

envVars == <<disk, ref, held, edits>>
authorityVars == <<base, worktree, permissions>>
policyVars == <<policy_sha256, policy, scope>>
snapshotVars == <<lists, inputs, again>>
checkVars == <<source, checks, seen, diagnostics>>
ledgerVars == <<draft, receipts, exit_code, stored>>
memoryVars == <<authorityVars, policyVars, snapshotVars, checkVars>>
vars == <<envVars, phase, opt, runs, memoryVars, todo, cur, findings, ledgerVars>>

NoExit == 3
NothingRead == [p \in Paths |-> Absent]
NothingSeen == [i \in Checks |-> [p \in Paths |-> Unread]]
NoEntry == [status |-> "none", outcome |-> "none", blocking |-> FALSE,
            worst |-> "none", files |-> {}, from |-> 0]
NoInvocation == [command |-> "check", slot |-> "none", reuse |-> FALSE, diff |-> FALSE,
                 trust |-> FALSE, input_error |-> FALSE, authority_error |-> FALSE]
NoDraft == [exit_code |-> NoExit]

Init ==
    /\ disk \in InitialDisks /\ ref \in Commits
    /\ held = [p \in Paths |-> {}] /\ edits = 0
    /\ phase = "idle" /\ opt = NoInvocation /\ runs = 0
    /\ policy_sha256 = Absent /\ policy = Absent
    /\ base = Absent /\ worktree = NothingRead /\ permissions = "none"
    /\ scope = [i \in Checks |-> {}] /\ lists = [i \in Checks |-> {}]
    /\ inputs = NothingRead /\ again = NothingRead
    /\ todo = {} /\ cur = 1
    /\ source = [i \in Checks |-> 0]
    /\ checks = [i \in Checks |-> NoEntry]
    /\ seen = NothingSeen
    /\ findings = {} /\ diagnostics = "none"
    /\ draft = NoDraft /\ receipts = <<>> /\ exit_code = NoExit /\ stored = 0

-----------------------------------------------------------------------------
(* The environment: editors, agents, the checks' own subprocesses, Git.    *)

\* Within a run nobody puts back a text the file already held: the docs leave
\* "transient edits restored before the final snapshot" outside the evidence.
Edit(p, t) ==
    /\ edits < MaxEdits
    /\ t \in May[p] /\ t # disk[p] /\ t \notin held[p]
    /\ disk' = [disk EXCEPT ![p] = t]
    /\ held' = IF phase = "idle" THEN held ELSE [held EXCEPT ![p] = @ \union {t}]
    /\ edits' = edits + 1
    /\ UNCHANGED <<ref, phase, opt, runs, memoryVars, todo, cur, findings, ledgerVars>>

MoveRef(c) ==
    /\ edits < MaxEdits
    /\ c # ref
    /\ ref' = c
    /\ edits' = edits + 1
    /\ UNCHANGED <<disk, held, phase, opt, runs, memoryVars, todo, cur, findings,
                   ledgerVars>>

-----------------------------------------------------------------------------
(* The run.                                                                *)

Start(o) ==
    /\ phase = "idle" /\ runs < MaxRuns
    /\ opt' = o /\ runs' = runs + 1
    /\ held' = [p \in Paths |-> {disk[p]}]
    /\ findings' = IF o.authority_error THEN {"core.error"} ELSE {}
    /\ phase' = IF o.authority_error THEN "conclude"
                ELSE IF o.trust THEN "resolve" ELSE "policy"
    /\ exit_code' = NoExit /\ stored' = 0
    /\ UNCHANGED <<disk, ref, edits, memoryVars, todo, cur, draft, receipts>>

\* git ls-files --others --exclude-standard: Git does not track the file and no
\* exclude rule hides it.
Untracked(p) == disk[p] # Absent /\ Index[p] = Absent /\ p \notin Ignored

\* Members of an authority snapshot: baseline files, tracked files and untracked
\* ones.  Neither snapshot reads an ignored file that nothing tracks.
Listed(c) ==
    {p \in Paths : Tree[c][p] # Absent \/ Index[p] # Absent \/ Untracked(p)}

\* The trusted commit must hold a policy that declares permission zones.
Trustworthy(c) == Tree[c][Pol] \in Policies /\ Doc[Tree[c][Pol]].permits

ResolveBase ==
    /\ phase = "resolve" /\ Trustworthy(ref)
    /\ base' = ref
    /\ todo' = Listed(ref)
    /\ phase' = "inspect"
    /\ UNCHANGED <<envVars, opt, runs, worktree, permissions, policyVars, snapshotVars,
                   checkVars, cur, findings, ledgerVars>>

ReadWorktree(p) ==
    /\ phase = "inspect" /\ p \in todo
    /\ worktree' = [worktree EXCEPT ![p] = disk[p]]
    /\ todo' = todo \ {p}
    /\ UNCHANGED <<envVars, phase, opt, runs, base, permissions, policyVars, snapshotVars,
                   checkVars, cur, findings, ledgerVars>>

\* The policy file is immutable whatever pattern matches it.
Zone(doc, p) == IF p = Pol THEN "immutable" ELSE doc.zone[p]

OutsideAuthority(c, tree) ==
    {p \in Paths : tree[p] # Tree[c][p] /\ Zone(Doc[Tree[c][Pol]], p) # "editable"}

\* A finding denies the run before candidate plugins or commands are loaded.
DecideAuthority ==
    /\ phase = "inspect" /\ todo = {}
    /\ LET denied == OutsideAuthority(base, worktree) # {} IN
       /\ permissions' = IF denied THEN "failed" ELSE "passed"
       /\ findings' = findings \union (IF denied THEN {"core.permission"} ELSE {})
       /\ phase' = IF denied THEN "conclude" ELSE "policy"
    /\ UNCHANGED <<envVars, opt, runs, base, worktree, policyVars, snapshotVars,
                   checkVars, todo, cur, ledgerVars>>

HashPolicy ==
    /\ phase = "policy" /\ disk[Pol] # Absent
    /\ policy_sha256' = disk[Pol]
    /\ phase' = "load"
    /\ UNCHANGED <<envVars, opt, runs, authorityVars, policy, scope, snapshotVars,
                   checkVars, todo, cur, findings, ledgerVars>>

\* Fault: the candidate's policy is executed whatever the authority says.
CandidatePolicyText == disk[Pol]

\* A second read of the file, unless an authority supplies the policy.
PolicyText == IF opt.trust THEN Tree[base][Pol] ELSE disk[Pol]

\* Zones need a trust base, except for the commands that only lint.
Loadable(text) ==
    /\ text \in Policies
    /\ Doc[text].permits => (opt.trust \/ opt.command \in ConfigCommands)

LoadPolicy ==
    /\ phase = "load" /\ Loadable(PolicyText)
    /\ policy' = PolicyText
    /\ phase' = IF opt.slot \in GitSlots THEN "index" ELSE "narrow"
    /\ UNCHANGED <<envVars, opt, runs, authorityVars, policy_sha256, scope, snapshotVars,
                   checkVars, todo, cur, findings, ledgerVars>>

\* git diff, git ls-files --others and, before a push, git diff --cached.
CheckIndex ==
    /\ phase = "index"
    /\ LET dirty == \E p \in Paths :
                       Untracked(p) \/ (Index[p] # Absent /\ disk[p] # Index[p])
           staged == opt.slot = "pre-push" /\ Index # Tree[HeadCommit]
       IN findings' = findings \union
              (IF dirty \/ staged THEN {"core.index-mismatch"} ELSE {})
    /\ phase' = "narrow"
    /\ UNCHANGED <<envVars, opt, runs, authorityVars, policyVars, snapshotVars,
                   checkVars, todo, cur, ledgerVars>>

\* Deleted and untracked files count as changed; the diff, of tracked files, is
\* against HeadCommit.
Changed ==
    LET tracked(p) == IF Index[p] # Absent THEN disk[p] ELSE Absent
    IN {p \in Paths : Untracked(p) \/ tracked(p) # Tree[HeadCommit][p]}

\* A change to any input of a check with plugin-declared inputs restores its
\* full scope; every other check keeps the changed files it matches.
Narrowed(doc, i) ==
    LET full == doc.paths[i] \union doc.extra[i] IN
    IF doc.extra[i] # {} /\ full \intersect Changed # {}
    THEN IF doc.paths[i] # {} THEN doc.paths[i] ELSE full
    ELSE doc.paths[i] \intersect Changed

NarrowScope ==
    /\ phase = "narrow"
    /\ scope' = [i \in Checks |-> IF opt.diff THEN Narrowed(Doc[policy], i)
                                  ELSE Doc[policy].paths[i]]
    /\ phase' = "select" /\ cur' = 1
    /\ UNCHANGED <<envVars, opt, runs, authorityVars, policy_sha256, policy, snapshotVars,
                   checkVars, todo, findings, ledgerVars>>

Matched(i) == scope[i] \union Doc[policy].extra[i]
Existing(S) == {p \in S : disk[p] # Absent}

\* _snapshot walks the tree once per check for its input list ...
SelectForCheck ==
    /\ phase = "select" /\ cur \in Checks
    /\ lists' = [lists EXCEPT ![cur] = Existing(Matched(cur))]
    /\ cur' = cur + 1
    /\ UNCHANGED <<envVars, phase, opt, runs, authorityVars, policyVars, inputs, again,
                   checkVars, todo, findings, ledgerVars>>

\* Fault: plugin-declared inputs are listed but never hashed.
InspectedPatternsOnly ==
    {Pol} \union Existing((UNION {scope[i] : i \in Checks}) \union Doc[policy].config)

\* ... and once more, over all the patterns, for the files it hashes.
Inspected == {Pol} \union
             Existing((UNION {Matched(i) : i \in Checks}) \union Doc[policy].config)

Gather ==
    /\ phase = "select" /\ cur = N + 1
    /\ todo' = Inspected
    /\ phase' = "hash"
    /\ UNCHANGED <<envVars, opt, runs, authorityVars, policyVars, snapshotVars,
                   checkVars, cur, findings, ledgerVars>>

\* A file gone between selection and hashing is an operational error.
HashFile(p) ==
    /\ phase = "hash" /\ p \in todo /\ disk[p] # Absent
    /\ inputs' = [inputs EXCEPT ![p] = disk[p]]
    /\ todo' = todo \ {p}
    /\ UNCHANGED <<envVars, phase, opt, runs, authorityVars, policyVars, lists, again,
                   checkVars, cur, findings, ledgerVars>>

\* Config linters run for every command; a lint finding may be an error.
Lint(bad) ==
    /\ phase = "hash" /\ todo = {}
    /\ findings' = findings \union (IF bad THEN {"lint"} ELSE {})
    /\ phase' = CASE opt.command = "check" -> "reuse"
                  [] opt.command = "doctor" -> "doctor"
                  [] opt.command = "lint-config" -> "regather"
    /\ UNCHANGED <<envVars, opt, runs, authorityVars, policyVars, snapshotVars,
                   checkVars, todo, cur, ledgerVars>>

Diagnose(bad) ==
    /\ phase = "doctor"
    /\ diagnostics' = "observed"
    /\ findings' = findings \union (IF bad THEN {"doctor"} ELSE {})
    /\ phase' = "regather"
    /\ UNCHANGED <<envVars, opt, runs, authorityVars, policyVars, snapshotVars,
                   source, checks, seen, todo, cur, ledgerVars>>

-----------------------------------------------------------------------------
(* Reuse of a prior receipt.                                               *)

\* Fault: the same file names are taken for the same files.
ReusableByList(r, i) ==
    /\ r.command = "check" /\ r.exit_code \in {0, 1}
    /\ r.policy_sha256 = policy_sha256
    /\ r.findings \intersect Tainted = {}
    /\ r.checks[i].status = "passed" /\ r.checks[i].worst = "clean"
    /\ r.checks[i].files = lists[i]

\* r may stand for check i of the current run.
Reusable(r, i) ==
    /\ r.command = "check" /\ r.exit_code \in {0, 1}
    /\ r.policy_sha256 = policy_sha256
    /\ r.findings \intersect Tainted = {}
    /\ r.checks[i].status = "passed" /\ r.checks[i].worst = "clean"
    /\ r.checks[i].files = lists[i]
    /\ \A p \in lists[i] : r.inputs[p] = inputs[p]

Candidates(i) ==
    {k \in 1..Len(receipts) : k + Window > Len(receipts) /\ Reusable(receipts[k], i)}

\* Checks that opted out, and checks with no input file, always execute.
Wanted(i) ==
    /\ opt.reuse /\ opt.slot = "none"
    /\ i \notin Doc[policy].fresh /\ lists[i] # {}

\* The newest receipt that may stand for the check.
Chosen(i, k) ==
    IF Wanted(i) /\ Candidates(i) # {}
    THEN k \in Candidates(i) /\ \A j \in Candidates(i) : j <= k
    ELSE k = 0

FindReusable ==
    /\ phase = "reuse"
    /\ \E s \in [Checks -> 0..Len(receipts)] :
         /\ \A i \in Checks : Chosen(i, s[i])
         /\ source' = s
    /\ phase' = "check" /\ cur' = 1
    /\ UNCHANGED <<envVars, opt, runs, authorityVars, policyVars, snapshotVars,
                   checks, seen, diagnostics, todo, findings, ledgerVars>>

Record(entry) == checks' = [checks EXCEPT ![cur] = entry]

Reuse ==
    /\ phase = "check" /\ cur \in Checks /\ source[cur] # 0
    /\ Record([status |-> "reused", outcome |-> "reused", blocking |-> FALSE,
               worst |-> "clean", files |-> lists[cur], from |-> source[cur]])
    /\ cur' = cur + 1
    /\ UNCHANGED <<envVars, phase, opt, runs, authorityVars, policyVars, snapshotVars,
                   source, seen, diagnostics, todo, findings, ledgerVars>>

NothingInDiff(i) == opt.diff /\ scope[i] = {}

\* Fault: an empty diff counts as verification.
PassVacuouslyAsVerified ==
    /\ phase = "check" /\ cur \in Checks /\ source[cur] = 0
    /\ NothingInDiff(cur)
    /\ Record([status |-> "passed", outcome |-> "passed", blocking |-> FALSE,
               worst |-> "clean", files |-> {}, from |-> 0])
    /\ cur' = cur + 1
    /\ UNCHANGED <<envVars, phase, opt, runs, authorityVars, policyVars, snapshotVars,
                   source, seen, diagnostics, todo, findings, ledgerVars>>

\* Nothing in the check's scope changed: a pass that verified nothing.
PassVacuously ==
    /\ phase = "check" /\ cur \in Checks /\ source[cur] = 0
    /\ NothingInDiff(cur)
    /\ Record([status |-> "passed", outcome |-> "unverified", blocking |-> FALSE,
               worst |-> "clean", files |-> {}, from |-> 0])
    /\ cur' = cur + 1
    /\ UNCHANGED <<envVars, phase, opt, runs, authorityVars, policyVars, snapshotVars,
                   source, seen, diagnostics, todo, findings, ledgerVars>>

BeginCheck ==
    /\ phase = "check" /\ cur \in Checks /\ source[cur] = 0
    /\ ~NothingInDiff(cur)
    /\ todo' = Matched(cur)
    /\ phase' = "reading"
    /\ UNCHANGED <<envVars, opt, runs, authorityVars, policyVars, snapshotVars,
                   checkVars, cur, findings, ledgerVars>>

\* The check selects and reads its files again, by itself.
ReadInput(p) ==
    /\ phase = "reading" /\ p \in todo
    /\ seen' = [seen EXCEPT ![cur][p] = disk[p]]
    /\ todo' = todo \ {p}
    /\ UNCHANGED <<envVars, phase, opt, runs, authorityVars, policyVars, snapshotVars,
                   source, checks, diagnostics, cur, findings, ledgerVars>>

EndCheck(v) ==
    /\ phase = "reading" /\ todo = {}
    /\ LET outcome == IF Fails(v) THEN "failed" ELSE "passed"
           blocking == Blocks(v, cur \in Doc[policy].warn)
       IN /\ Record([status |-> outcome, outcome |-> outcome, blocking |-> blocking,
                     worst |-> v, files |-> lists[cur], from |-> 0])
          /\ findings' = findings \union (IF blocking THEN {"check"} ELSE {})
    /\ cur' = cur + 1
    /\ phase' = "check"
    /\ UNCHANGED <<envVars, opt, runs, authorityVars, policyVars, snapshotVars,
                   source, seen, diagnostics, todo, ledgerVars>>

\* Only a run with a slot has hook handlers to call.
RunHooks(bad) ==
    /\ phase = "check" /\ cur = N + 1
    /\ bad => opt.slot # "none"
    /\ findings' = findings \union (IF bad THEN {"hook"} ELSE {})
    /\ phase' = "regather"
    /\ UNCHANGED <<envVars, opt, runs, authorityVars, policyVars, snapshotVars,
                   checkVars, todo, cur, ledgerVars>>

-----------------------------------------------------------------------------
(* The second snapshots.                                                   *)

Regather ==
    /\ phase = "regather"
    /\ todo' = Inspected
    /\ phase' = "rehash"
    /\ UNCHANGED <<envVars, opt, runs, authorityVars, policyVars, snapshotVars,
                   checkVars, cur, findings, ledgerVars>>

RehashFile(p) ==
    /\ phase = "rehash" /\ p \in todo /\ disk[p] # Absent
    /\ again' = [again EXCEPT ![p] = disk[p]]
    /\ todo' = todo \ {p}
    /\ UNCHANGED <<envVars, phase, opt, runs, authorityVars, policyVars, lists, inputs,
                   checkVars, cur, findings, ledgerVars>>

\* Fault: the second snapshot is taken and not compared.
CompareNoInputs ==
    /\ phase = "rehash" /\ todo = {}
    /\ phase' = IF opt.trust THEN "relist" ELSE "conclude"
    /\ UNCHANGED <<envVars, opt, runs, authorityVars, policyVars, snapshotVars,
                   checkVars, todo, cur, findings, ledgerVars>>

CompareInputs ==
    /\ phase = "rehash" /\ todo = {}
    /\ findings' = findings \union
           (IF again # inputs THEN {"core.inputs-changed"} ELSE {})
    /\ phase' = IF opt.trust THEN "relist" ELSE "conclude"
    /\ UNCHANGED <<envVars, opt, runs, authorityVars, policyVars, snapshotVars,
                   checkVars, todo, cur, ledgerVars>>

\* Fault: a status outside the receipt's schema.
AuthorityChangedUnlisted ==
    /\ findings' = findings \union {"core.authority-changed"}
    /\ permissions' = "changed"

AuthorityChanged ==
    /\ findings' = findings \union {"core.authority-changed"}
    /\ permissions' = "unverified"

\* finish resolves the ref first; a moved ref ends the comparison there.
Relist ==
    /\ phase = "relist"
    /\ again' = NothingRead
    /\ \/ /\ ref = base
          /\ todo' = Listed(base) /\ phase' = "reread"
          /\ UNCHANGED <<findings, permissions>>
       \/ /\ ref # base
          /\ AuthorityChanged
          /\ phase' = "conclude" /\ UNCHANGED todo
    /\ UNCHANGED <<envVars, opt, runs, base, worktree, policyVars, lists, inputs,
                   checkVars, cur, ledgerVars>>

RereadWorktree(p) ==
    /\ phase = "reread" /\ p \in todo
    /\ again' = [again EXCEPT ![p] = disk[p]]
    /\ todo' = todo \ {p}
    /\ UNCHANGED <<envVars, phase, opt, runs, authorityVars, policyVars, lists, inputs,
                   checkVars, cur, findings, ledgerVars>>

\* Fault: finish checks the ref alone.
CompareNoWorktree ==
    /\ phase = "reread" /\ todo = {}
    /\ phase' = "conclude"
    /\ UNCHANGED <<envVars, opt, runs, authorityVars, policyVars, snapshotVars,
                   checkVars, todo, cur, findings, ledgerVars>>

CompareWorktree ==
    /\ phase = "reread" /\ todo = {}
    /\ \/ again = worktree /\ UNCHANGED <<findings, permissions>>
       \/ again # worktree /\ AuthorityChanged
    /\ phase' = "conclude"
    /\ UNCHANGED <<envVars, opt, runs, base, worktree, policyVars, snapshotVars,
                   checkVars, todo, cur, ledgerVars>>

-----------------------------------------------------------------------------
(* Errors, the receipt and the end of the process.                         *)

InsideTry == {"resolve", "inspect", "policy", "load", "index", "narrow", "select", "hash",
              "doctor", "reuse", "check", "reading", "regather", "rehash", "relist",
              "reread"}

\* A first snapshot cut short never reaches the receipt.
Fail ==
    /\ findings' = findings \union {"core.error"}
    /\ permissions' = IF permissions = "none" THEN "none" ELSE "unverified"
    /\ inputs' = IF phase = "hash" /\ todo # {} THEN NothingRead ELSE inputs
    /\ phase' = "conclude"
    /\ UNCHANGED <<envVars, opt, runs, base, worktree, policyVars, lists, again,
                   checkVars, todo, cur, ledgerVars>>

\* What the run itself cannot do without.
Refused ==
    \/ phase = "resolve" /\ ~Trustworthy(ref)
    \/ phase = "policy" /\ disk[Pol] = Absent
    \/ phase = "load" /\ ~Loadable(PolicyText)
    \/ phase \in {"hash", "rehash"} /\ \E p \in todo : disk[p] = Absent

Refuse == Refused /\ Fail

\* Any other exception: a plugin's, Git's, an interrupt.
Raise == phase \in InsideTry /\ Fail

\* The receipt lists the requirements once the policy is loaded.
Requirements(valid) ==
    [q \in Reqs |->
        IF policy = Absent THEN "none"
        ELSE RequirementStatus(opt.command, valid,
                               {checks[i].outcome : i \in Doc[policy].needs[q]})]

RequirementFindings(statuses) ==
    IF policy = Absent \/ opt.command \in ConfigCommands THEN {}
    ELSE {"core.requirement-unverified" : q \in {r \in Reqs : statuses[r] = "unverified"}}
         \union {"core.requirement-failed" :
                   q \in {r \in Reqs : /\ statuses[r] = "failed"
                                       /\ \E i \in Doc[policy].needs[r] : checks[i].blocking}}

\* What inspection of this run's inputs and worktree proved nothing about.
Unstable(rules) == rules \intersect {"core.inputs-changed", "core.authority-changed"} # {}

Conclude ==
    /\ phase = "conclude"
    /\ LET rules == findings \union (IF opt.input_error THEN {"core.hook-input"} ELSE {})
           valid == ~Operational(rules) /\ ~Unstable(rules)
           statuses == Requirements(valid)
           all == rules \union RequirementFindings(statuses)
       IN /\ findings' = all
          /\ draft' = [command |-> opt.command, policy_sha256 |-> policy_sha256,
                       inputs |-> inputs, checks |-> checks, findings |-> all,
                       requirements |-> statuses, permissions |-> permissions,
                       diagnostics |-> IF diagnostics # "none" /\ ~valid
                                       THEN "unknown" ELSE diagnostics,
                       exit_code |-> ExitCode(all),
                       truth |-> [policy |-> policy, scope |-> scope, seen |-> seen,
                                  base |-> base, slot |-> opt.slot]]
    /\ phase' = "persist"
    /\ UNCHANGED <<envVars, opt, runs, memoryVars, todo, cur, receipts, exit_code, stored>>

\* The temporary's name never matches the ledger's *.json.
WriteTemporary ==
    /\ phase = "persist"
    /\ phase' = "rename"
    /\ UNCHANGED <<envVars, opt, runs, memoryVars, todo, cur, findings, ledgerVars>>

Rename ==
    /\ phase = "rename"
    /\ receipts' = Append(receipts, draft)
    /\ phase' = "unlink"
    /\ UNCHANGED <<envVars, opt, runs, memoryVars, todo, cur, findings, draft, exit_code,
                   stored>>

\* The process is gone and takes the run's memory with it.
Forget ==
    /\ phase' = "idle" /\ opt' = NoInvocation
    /\ held' = [p \in Paths |-> {}]
    /\ policy_sha256' = Absent /\ policy' = Absent
    /\ base' = Absent /\ worktree' = NothingRead /\ permissions' = "none"
    /\ scope' = [i \in Checks |-> {}] /\ lists' = [i \in Checks |-> {}]
    /\ inputs' = NothingRead /\ again' = NothingRead
    /\ todo' = {} /\ cur' = 1
    /\ source' = [i \in Checks |-> 0]
    /\ checks' = [i \in Checks |-> NoEntry]
    /\ seen' = NothingSeen
    /\ findings' = {} /\ diagnostics' = "none" /\ draft' = NoDraft

Report ==
    /\ phase = "unlink"
    /\ exit_code' = draft.exit_code /\ stored' = Len(receipts)
    /\ Forget
    /\ UNCHANGED <<disk, ref, edits, runs, receipts>>

\* Fault: the run answers with its verdict although the receipt was lost.
PersistFailsQuietly ==
    /\ phase \in {"persist", "rename", "unlink"}
    /\ exit_code' = draft.exit_code /\ stored' = 0
    /\ Forget
    /\ UNCHANGED <<disk, ref, edits, runs, receipts>>

\* Any step of persist may fail, the last one after the receipt was renamed:
\* the run then exits 2 and reports no receipt.
PersistFails ==
    /\ phase \in {"persist", "rename", "unlink"}
    /\ exit_code' = 2 /\ stored' = 0
    /\ Forget
    /\ UNCHANGED <<disk, ref, edits, runs, receipts>>

Crash ==
    /\ phase # "idle"
    /\ Forget
    /\ UNCHANGED <<disk, ref, edits, runs, receipts, exit_code, stored>>

-----------------------------------------------------------------------------
Authority == ResolveBase \/ (\E p \in Paths : ReadWorktree(p)) \/ DecideAuthority
LoadAndNarrow == HashPolicy \/ LoadPolicy \/ CheckIndex \/ NarrowScope
FirstSnapshot == SelectForCheck \/ Gather \/ (\E p \in Paths : HashFile(p))
Inspection == \E bad \in BOOLEAN : Lint(bad) \/ Diagnose(bad) \/ RunHooks(bad)
Verification ==
    \/ FindReusable \/ Reuse \/ PassVacuously \/ BeginCheck
    \/ \E p \in Paths : ReadInput(p)
    \/ \E v \in CheckVerdicts : EndCheck(v)
SecondSnapshot ==
    \/ Regather \/ CompareInputs \/ Relist \/ CompareWorktree
    \/ \E p \in Paths : RehashFile(p) \/ RereadWorktree(p)
Ending == Conclude \/ WriteTemporary \/ Rename \/ Report

\* A step of the run when nothing it calls fails.
RunStep ==
    \/ Authority \/ LoadAndNarrow \/ FirstSnapshot \/ Inspection \/ Verification
    \/ SecondSnapshot \/ Refuse \/ Ending

Failure == Raise \/ PersistFails \/ Crash

Environment ==
    \/ \E p \in Paths : \E t \in May[p] : Edit(p, t)
    \/ \E c \in Commits : MoveRef(c)

Next ==
    \/ \E o \in Options : Start(o)
    \/ RunStep
    \/ Failure
    \/ Environment

Spec == Init /\ [][Next]_vars
=============================================================================
