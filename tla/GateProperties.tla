--------------------------- MODULE GateProperties ---------------------------
(***************************************************************************)
(* What must hold of gate runs and of the receipts they leave.  Most of it *)
(* compares a stored receipt with the history the code does not keep: the  *)
(* policy a run executed and the texts its checks really read (truth).     *)
(***************************************************************************)
EXTENDS GateRun

Entries == [status: {"none", "passed", "failed", "reused"},
            outcome: {"none", "passed", "failed", "reused", "unverified"},
            blocking: BOOLEAN, worst: CheckVerdicts \union {"none"}, files: SUBSET Paths, from: Nat]

Rules == {"core.error", "core.hook-input", "core.inputs-changed", "core.index-mismatch",
          "core.authority-changed", "core.permission", "core.requirement-failed",
          "core.requirement-unverified", "lint", "doctor", "check", "hook"}

PermissionStates == {"none", "passed", "failed", "unverified"}

Truths == [policy: Policies \union {Absent}, scope: [Checks -> SUBSET Paths],
           seen: [Checks -> [Paths -> Contents \union {Unread}]],
           base: Commits \union {Absent},
           slot: {"none", "stop"} \union GitSlots]

Receipts == [command: {"check"} \union ConfigCommands, policy_sha256: Contents,
             inputs: Snapshot, checks: [Checks -> Entries], findings: SUBSET Rules,
             requirements: [Reqs -> {"none", "unverified", "failed", "checks_passed"}],
             permissions: PermissionStates,
             diagnostics: {"none", "observed", "unknown"},
             exit_code: {0, 1, 2}, truth: Truths]

\* The types of runner.py's run: its locals, the receipt dict and the ledger.
TypeOK ==
    /\ disk \in Snapshot /\ ref \in Commits
    /\ held \in [Paths -> SUBSET Contents] /\ edits \in Nat
    /\ phase \in InsideTry \union {"idle", "conclude", "persist", "rename", "unlink"}
    /\ opt \in Invocations /\ runs \in Nat
    /\ policy_sha256 \in Contents /\ policy \in Policies \union {Absent}
    /\ base \in Commits \union {Absent} /\ worktree \in Snapshot
    /\ permissions \in PermissionStates
    /\ scope \in [Checks -> SUBSET Paths] /\ lists \in [Checks -> SUBSET Paths]
    /\ inputs \in Snapshot /\ again \in Snapshot
    /\ todo \in SUBSET Paths /\ cur \in 1..(N + 1)
    /\ source \in [Checks -> Nat] /\ checks \in [Checks -> Entries]
    /\ seen \in [Checks -> [Paths -> Contents \union {Unread}]]
    /\ findings \in SUBSET Rules /\ diagnostics \in {"none", "observed", "unknown"}
    /\ draft \in Receipts \union {NoDraft}
    /\ receipts \in Seq(Receipts)
    /\ exit_code \in 0..3 /\ stored \in 0..Len(receipts)

-----------------------------------------------------------------------------
Ledger == DOMAIN receipts

\* The reads of every check agree with the hashes in the receipt.
Supported(r) ==
    r.findings \intersect {"core.inputs-changed", "core.error"} = {}
      => \A i \in Checks, p \in Paths : r.truth.seen[i][p] \in {Unread, r.inputs[p]}

\* A receipt that reports neither an error nor changed inputs lists, for every
\* file a check read, the very text the check read: hashing before and after
\* the checks is enough although neither hashing pass is atomic, as long as
\* nobody restores a text (runner.py:304 and :372).
StableEvidence == \A k \in Ledger : Supported(receipts[k])

\* What check i of receipt k really read is what receipt r lists for p.
ReadAs(k, i, p, r) == receipts[k].truth.seen[i][p] = r.inputs[p]

\* A reused entry names an older receipt whose own run executed the check, saw
\* it pass without findings, and read in every listed file the text the new
\* receipt lists for it (runner.py:95-151, `_reusable_checks`).
ReuseEvidence ==
    \A k \in Ledger, i \in Checks :
        LET entry == receipts[k].checks[i]
            prior == receipts[entry.from]
        IN entry.status = "reused" =>
             /\ entry.from \in 1..(k - 1)
             /\ prior.checks[i].outcome = "passed" /\ prior.checks[i].worst = "clean"
             /\ entry.files # {}
             /\ \A p \in entry.files : ReadAs(entry.from, i, p, receipts[k])

\* Check i of receipt k passed on the inputs the receipt lists, in that run or,
\* for a reused entry, in the run it names.  A check that declares files must
\* have read some.
PassedOn(k, i) ==
    LET r == receipts[k]
        entry == r.checks[i]
        declared == Doc[r.truth.policy].paths[i]
    IN \/ /\ entry.outcome = "passed"
          /\ declared # {} => \E p \in Paths : r.truth.seen[i][p] # Unread
          /\ \A p \in r.truth.scope[i] : ReadAs(k, i, p, r)
       \/ /\ entry.outcome = "reused"
          /\ receipts[entry.from].checks[i].outcome = "passed"
          /\ \A p \in entry.files : ReadAs(entry.from, i, p, r)

\* A requirement is checks_passed only on evidence: it maps some check, and
\* each one passed on the listed inputs.  Vacuous passes under --diff, unstable
\* runs and errors never count (runner.py:154-174).
RequirementEvidence ==
    \A k \in Ledger, q \in Reqs :
        receipts[k].requirements[q] = "checks_passed" =>
            /\ Doc[receipts[k].truth.policy].needs[q] # {}
            /\ \A i \in Doc[receipts[k].truth.policy].needs[q] : PassedOn(k, i)

\* What the permission inspection of commit c looks at: not an ignored file that
\* neither the commit nor the index holds (PERMISSION_ZONES.md:64).
Inspectable(c, p) == Tree[c][p] # Absent \/ Index[p] # Absent \/ p \notin Ignored

\* r is what a run under its trust base may leave: a policy and, if the
\* permissions passed, texts that are the trusted commit's.
Authorised(r) ==
    LET trusted == Tree[r.truth.base] IN
    r.truth.base # Absent =>
        /\ r.truth.policy \in {Absent, trusted[Pol]}
        /\ r.permissions = "passed" =>
             /\ r.truth.policy = trusted[Pol] /\ r.policy_sha256 = trusted[Pol]
             /\ \A p \in Paths :
                  Inspectable(r.truth.base, p) /\ Zone(Doc[trusted[Pol]], p) # "editable" =>
                    \A i \in Checks : r.truth.seen[i][p] \in {Unread, trusted[p]}

\* A run under a trust base executes no policy but the trusted commit's, even
\* when the candidate's is swapped meanwhile (runner.py:259-261).  permissions =
\* "passed" means more: the receipt's policy hash is of that same text, and no
\* check read a text of a non-editable file other than the trusted commit's,
\* unless the file is ignored and tracked nowhere: such a file a check may read
\* and the inspection never sees (authority.py:64-68, 99-165).
AuthorityHolds == \A k \in Ledger : Authorised(receipts[k])

\* What exit 0 of a check run stands for.
EarnedBy(r) ==
    LET doc == Doc[r.truth.policy] IN
    r.exit_code = 0 /\ r.command = "check" =>
        /\ \A i \in Checks :
             \/ r.checks[i].status \in {"passed", "reused"}
             \/ r.checks[i].worst = "violated" /\ i \in doc.warn
        /\ \A q \in Reqs : r.requirements[q] # "unverified"
        /\ doc.permits => r.permissions = "passed"

\* Exit 0 of a check run is earned: every check has an entry, one that failed
\* is advisory and no execution error, no requirement is left unverified, and a
\* policy that declares permission zones had them verified in this run.
PassIsEarned == \A k \in Ledger : EarnedBy(receipts[k])

-----------------------------------------------------------------------------
(* The exit status and the ledger, seen from outside.                      *)

Stage == CASE phase = "idle" -> "ready" [] phase = "unlink" -> "stored"
           [] OTHER -> "running"

Contract == INSTANCE GateContract WITH
    stage <- Stage,
    ledger <- [k \in Ledger |-> receipts[k].exit_code],
    verdict <- exit_code

\* The runner implements the contract: whatever is edited, raised or killed,
\* 0 and 1 are reported only over a stored receipt with that code.
ContractHolds == Contract!Spec

-----------------------------------------------------------------------------
(* What the documentation says and the code does not do.                   *)

\* README.md:369 "receipts flagging input mutation or operational errors are
\* skipped": no reuse from a run whose worktree changed under it.
NoReuseOfMutated ==
    \A k \in Ledger, i \in Checks :
        receipts[k].checks[i].status = "reused" =>
            ~Unstable(receipts[receipts[k].checks[i].from].findings)

\* HOOKS.md:354 "To avoid passing code different from the Git index, pre-commit
\* fails if tracked files have unstaged edits": a passing pre-commit run's
\* checks read what the index holds.
PreCommitCoversIndex ==
    \A k \in Ledger :
        LET r == receipts[k] IN
        r.exit_code = 0 /\ r.truth.slot = "pre-commit" =>
            \A i \in Checks, p \in Paths : r.truth.seen[i][p] \in {Unread, Index[p]}
=============================================================================
