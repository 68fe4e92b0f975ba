# A TLA+ model of exitzero

exitzero is a completion gate for coding agents: `exitzero check` runs the
checks a policy names over a repository, writes a receipt, and exits 0, 1
(violations) or 2 (the gate could not tell). Hooks of agents and of Git run the
same gate; an MCP gateway puts an allowlist and an audit log between an agent
and a tool server. The program is written in Python, in processes and threads
that share a file system with editors, agents, Git and each other, and what it
promises is about exactly that: a receipt must describe what the checks saw, a
0 must have been earned, nobody's edit may be lost, an allowed call must be on
record before it is made.

This directory holds specifications of its parts, the TLC configurations that check
them on small instances, and proofs for every instance. Paths below are relative to
`src/packages/` unless they begin with `scripts/`; line numbers are in `PROJECT.json`
under `map`.

## Inventory

| Component | State it keeps | Operations | What is hard about it |
|---|---|---|---|
| Gate runner, `core/.../runner.py` | a run's findings, snapshots, checks; nothing between runs but the ledger | `run`: authority, policy, index, narrowing, snapshot, lint, reuse, checks, hooks, snapshot, verdict, receipt | the worktree is read a dozen times while others edit it; any call may raise; the process may be killed |
| Permission zones, `authority.py` | the trusted commit, the first worktree snapshot | `inspect` before a run, `finish` after it | the ref and the files move between the two |
| Receipt ledger, `ledger.py` | `.exitzero/runs/*.json` | `persist` | a kill or a failure before, between and after temporary, rename, unlink |
| Policy, `policy.py` | the policy file and the generated section of `AGENTS.md` | load, validate, generate, merge | a validator of text; the merge keeps what is not exitzero's |
| Files, `files.py` | none | select, hash, write atomically | the guards against links, the glob rules |
| Policy pack, `pack.py` | a plan in memory | capture, derive, verify, publish, roll back | several files, one after the other, under concurrent edits and failing writes |
| Hook installation, `hooks.py` | `.exitzero/hooks.json`, the hook files | prepare, install, lint | two files and no lock |
| Command line, `cli.py` | none | dispatch | which arguments reach `run` |
| Doctor, `doctor.py` | none | inspect adapters | an observation of an unstable worktree is worth nothing |
| Plugin API, `api.py`, `loader.py`, `services.py` | a registration table | register, load | none once loaded |
| MCP gateway, `plugin-mcp-gateway` | outstanding requests, the audit log, a child process | two pumps, shutdown, exit code | two threads, a reused id, a dying child, joins with timeouts |
| MCP gate server, `plugin-mcp-gate` | none between requests | read a frame, run the gate for one tool, answer | a client that stops listening; a verdict without its receipt |
| Run-record ledger, `plugin-ledger` | published records | list, read and aggregate receipts, write two files, comment on a pull request | receipts that vanish while they are read, a published file that is replaced before it is posted |
| Incident kit, `plugin-harness/.../incident.py` | `tests/incidents/<id>`, the policy, `AGENTS.md` | check, prepare, then six writes | no lock and no cleanup: a policy that names what is not there, or that another run has extended meanwhile |
| Scenario evaluation, `plugin-harness/.../__init__.py` | a copy of the repository per scenario | replay turns, run the gate after each, compare | what a check leaves in the copy; a receipt that could not be stored |
| Fixture runner, release check, pilot, `scripts/` | throwaway workspaces, evidence directories | build a workspace, run the gate in it, compare, save receipts, sum up | evidence that goes with its workspace; an archive that changes while it is copied |
| Checks that run a program, `plugin-verify/.../agentwarden.py` and `check_command` | a subprocess, two pipes, a deadline | run a command; ask AgentWarden for its version and for a report | a program that floods, lingers, forks or dies; files edited meanwhile |
| Syntax analysis, the rest of `plugin-verify` | none | inspect Python, JavaScript, connections | the data is the algorithm |

They interact in three ways. By *call*: the command line, the hooks, the MCP
gate server and the scenario evaluation all end in `run`. By *file*: the runner
reads the policy, the manifest and the worktree that the pack, the installers
and the editors write, and later runs read the receipts earlier ones stored. By
*pipe*: the gateway's workers share a table and a log and talk to a client and
a child process, each of which may fall silent or die.

What makes each part correct:

* runner, zones, ledger: a receipt's hashes are of what the checks read; a
  requirement is `checks_passed` only on evidence; a reused pass was seen on
  these inputs; a trust base really was in force; 0 and 1 are only reported
  over a stored receipt;
* pack: all or nothing, the receipt last, no edit lost;
* hook installation: foreign hooks survive, a record in the manifest means an
  executable, complete hook, a trust base is not dropped on the way;
* gateway: nothing forbidden is forwarded or listed, every forwarded call is on
  record, no request is answered twice by the gateway or leaks its slot, the session
  ends, 0 is earned;
* checks that run a program: a verdict is drawn from all the program wrote and
  from an exit status that agrees, a pass covers what is selected now, nobody
  else's process is killed and none of its own escapes, the check returns;
* incident kit: nothing existing is overwritten, unfinished work blocks and never
  breaks the gate;
* gate server: a verdict names the receipt of the run it is the verdict of, and
  every request gets one answer, in order;
* run-record ledger: the record accounts for every receipt listed, and what is
  posted is what was aggregated;
* scenarios, fixtures, release, pilot: 0 is earned run by run, and evidence
  outlives its workspace, above all of what failed.

## The modules

    Verdict ---- GateRun ---- GateProperties ---- MCGateRun
                    |              |   GateContract (refined by GateRun)
                    |              +--- GateRunProofs --- GateEvidenceProofs --- GateVerdictProofs
    McpGateway ---- McpGatewayProperties ---- MCMcpGateway, McpGatewayProofs
    PolicyPack ---- PolicyPackProperties ---- MCPolicyPack, PolicyPackProofs
    HookInstall ---- HookInstallProperties ---- MCHookInstall, HookInstallProofs
    CheckProcess ---- CheckProcessProperties ---- MCCheckProcess, CheckProcessProofs
    Checkout ---- IncidentKit ----+
             ---- GateServer -----+
             ---- RunLedger ------+---- Programs ---- ProgramProperties ---- MCPrograms, ProgramProofs
    Trials ------ ScenarioEval ---+
             ---- FixtureRun -----+
             ---- ReleaseCheck ---+
             ---- PolicyPilot ----+

**Verdict** has the pure parts of the verdict: when a finding blocks, which
rules are operational errors, the exit code, a requirement's status.

**GateRun** is `run` with all it calls in `authority.py` and `ledger.py`. The
worktree `disk` is one function from paths to texts; a hash is the text it was
computed from. The code's control flow is the variable `phase`; each read of
the disk is an action of its own, so `_snapshot` is `SelectForCheck` per check,
`Gather`, and `HashFile` per file, in any order of files. A check is a handler
that reads its files a third time (`ReadInput`) and then returns any verdict
(`EndCheck`); a linter, a hook and doctor may find anything. `Raise` is an
exception anywhere inside the code's `try`, `Refuse` what the run itself
cannot do without, `Crash` a kill anywhere. `Edit` and `MoveRef` are everybody
else. `Ignored` are the paths the exclude rules match: `ls-files --others
--exclude-standard` leaves them out of the index comparison, the changed files and
the authority snapshots (`Untracked`, `Listed`), while a check reads them like any
other. The rules are taken to stay as they are during a run; `.gitignore` is itself a
listed file, `.git/info/exclude` is not. Two things are kept that the code does not
keep: `seen`, what the checks read, and the `truth` of a receipt, which hands it on to
the properties.

One assumption is built into `Edit`: within a run nobody restores a text a file
held before in that run. `docs/PERMISSION_ZONES.md` says "transient edits
restored before the final snapshot are outside this evidence", and without it
no comparison of two snapshots shows anything. Between runs texts do return.

**GateContract** is the promise to whoever reads the exit status, with three
variables: a run stores at most one receipt, and 0 or 1 is the code of the
receipt it stored last. `GateRun` implements it under the mapping in
`GateProperties` (`ContractHolds`).

**McpGateway** is `_serve` and `_pump`: the client's worker, the server's worker
and the main thread as program counters, the pipes as sequences, the server and
the client as environment. A frame's class stands for what the JSON parses to,
its `args` for whether the argument rules accept it. The server answers each request
it has read at most once (`ServerAnswers`), late or never, and may send anything else
as well (`ServerSpeaks`, at most `MaxSpoken` times): a request of its own under an id
of the client's, noise, an array, or a response it does not owe, whose id the history
variable `unowed` keeps. A write completes (`Forward`, `AnswerError`, `Deliver`), fails
or blocks for good, which is why fairness leaves it out.

**PolicyPack** is `compile_pack --apply` with `prepare_install` and
`updated_agents`. A file is what others wrote in it, the section exitzero
generates, and its mode; targets are numbered in publication order.

**HookInstall** is `install` and `prepare_install` of `hooks.py`, several at a
time. A hook file is what others wrote in it, the exitzero commands it holds and
its execute bit; a digest is what it was computed from. An install reads the
manifest up to four times (`ResolveBase`, `CopyManifest`, `ResolveAgain`,
`Command`) and the hook file twice (`Capture`, `ReadText`) before it renames the
new file into place (`Publish`), sets its mode (`Chmod`) and only then writes
the manifest (`Record`); `Stop` is a refusal, an exception or a kill between any
two of these. There is no lock, so another install or an editor may act between
them too. A Git hook is compared before its text is merged and shared settings
after, which is why `Command` and `ReadText` come in either order. `Diagnosis` and
`Drift` say what doctor and lint-config make of the result; whether a client then
runs the hook is not known to either, nor to the model. The history variables (`user`,
`raced`, `patched`, `lost`, `writer`, `installed`, `overtaken`) and the fields `id`,
`saw` and `by` record who wrote what; no guard reads them. Three properties need them
to be stated truthfully. `PinKept` and `NoDowngrade` do not hold when the manifest was
deleted, or when an install wrote back a manifest that another had changed since it
was read, so they exclude exactly these, and the model shows that nothing else breaks
them. `ForeignSurvives` does not hold of what is written after the last look at a file
(`raced`, from `InWindow`), nor of an edit in exitzero's own Git hook between the two
looks at it (`patched`, from `BetweenLooks`); *Findings* has the latter.

**CheckProcess** is `check_command`, and `check_agentwarden` with `_run`. The
supervisor is a program counter over `_run`'s statements: `ReadChunk`,
`EndOfStream`, `PumpTimeout` and `LeavePump` are the selector loop, `Finish`,
`Poll`, `Wait`, `WaitKilled` and `Close` its `finally` block and what follows.
`round` tells the start that asks for a version from the one that asks for a
report; `Judge` holds the report against the selection or the lock, read again
at that moment. The program is free: it writes, closes an end, leaves a helper
that inherits the pipes, exits with any code, is killed by others, or does none
of it. What SIGKILL was sent to (`doomed`) and what died of it are two things,
and so are a program that is gone and one whose status was collected (`reaped`),
because only the latter frees its id. Abstracted: a pipe holds one chunk;
what is written once nobody reads any more is left out; the helper of the
version round is not followed into the next; the selection is edited
only after the version round, since nothing looks at it between its validation
and the second start; the clock strikes only where it is looked at; the
sequences of reports that do not parse are one `garbled`. That every check
returns (`CheckReturns`) is what a run of `GateRun` waits for.

**Checkout** is what several programs share in one repository: the incidents the
policy lists, those the section of `AGENTS.md` was rendered from, who wrote each file
of an incident directory, and the stored receipts. A gate run is cut down to what the
others can observe of it, in three steps: it reads, it checks, it stores; `Verdicts`
says what the checks of a kit make of missing, unfinished and real tests. A missing
test is the operational error of the Python profile; in the Node profile it is a
violation, so the model is the stricter of the two. `Replace` is the user who writes
the tests, `SyncLoads` and `SyncWrites` are `init --sync`, `Prune` is whoever deletes
receipts.

**IncidentKit** is `incident_kit`, any number of them at a time. The texts it
will write are locals (`kit[k].policy`, `kit[k].section`), prepared from what it
read before its first write; `Order` is the order of the writes and each is an
action. `Stops` is an exception or a kill between any two. Two kits that overlap
may lose each other's checks although both exit with 0: the history variable `raced`
holds the kits whose copy of the policy is older than one written since, and `KitsKept`
excepts a kit whose checks such another may have overwritten (`Overwritten`). A user
who edits `exitzero.toml` or `AGENTS.md` while a kit has its copy loses the edit too;
the model has no such edits.

**GateServer** is `_serve` with `_handle` and `_tool_result`: one frame at a
time, by its class. A check starts a run of `Checkout` and waits. `Write` may
meet a closed pipe, which ends the server with 2.

**RunLedger** is `ledger_publish`, one step per receipt read. A receipt is its
number in the order they were stored and `--since` a number to start from; a
receipt that is gone by the time it is read is the corrupt one.

**Trials** has what four programs that try the gate out share: workspaces, runs of the
gate (`Launch`), the receipts of a workspace, results, the report. The gate is on
trial, so a launch may come to anything: another exit code, a timeout, no receipt or a
torn one, output without a path, output and receipt that disagree, or the wrong
findings. **ScenarioEval** is `harness-eval`, **FixtureRun**
`scripts/run_fixtures.py`, **ReleaseCheck** `scripts/release_check.py` and
**PolicyPilot** `scripts/pilot_policy_pack.py`; each has an action per step and says
in its comments which steps of the code were taken together. In a scenario a check may
leave a link where the next turn writes, which `_apply_turn` refuses, or a directory
with a link in it, which it does not look into (`planted`). A fixture ends in one of
four ways: both commands were judged (`FixtureVerify`), one was killed for its time
(`FixtureTimesOut`), a receipt could not be copied (`FixtureCopyFails`), or the
receipt raised what nobody catches and the runner is gone (`FixtureAborts`). `Items`
may be 0: the fixture runner then ends with 0, the scenario evaluation with an error.
In the pilot the archive is written by others all the time (`Tamper`), file by file.

**Programs** composes all nine: in the checkout the incident kits, the gate
server with its runs, a ledger and everybody else interleave freely; a trial
runs in workspaces of its own.

## The runs

Each bound is a constant in the `.cfg`. With two workers no run takes more than a
few minutes.

| Run | Checks | Instance |
|---|---|---|
| GateAll | TypeOK, RequirementEvidence, PassIsEarned, ContractHolds | one run, eleven kinds of invocation, two checks over two files and the policy, one edit or ref move; 2.5 M states |
| GateWorktree | StableEvidence, AuthorityHolds, ReuseEvidence, RequirementEvidence | one check over two files and an ignored one, two edits or moves: one run with a trust base or of doctor, or two runs with `--reuse`; 3.6 M states |
| GateReuseMutated, GatePreCommit | one statement of the docs each | see *Findings* |
| GatewayAll | TypeOK, ListsFiltered, NoExtraAnswer, SlotsAreOwed, CleanExit | two frames out of five fighting for one id, one unasked message of the server; 6.9 M states |
| GatewayLive | EndsWithServer, EndsWithClient, NothingLost, CallsRecorded | two frames out of nine under two ids, a table for one, with fairness; 0.8 M states |
| GatewayLog | NoWriteIntoClosedLog | see *Findings* |
| PackAll | TypeOK, ReceiptLast, AllOrNothing, EditsSurvive | AGENTS.md, one Git hook, the manifest, the receipt; two edits; 1.3 M states |
| HooksAll | TypeOK, ForeignSurvives, DriftIsReal, PinKept, InstallRepairs, NoDowngrade | a Git hook, Cursor's file and Claude Code's settings; two installs at a time, two edits, three repositories to start from; slots are symmetric; 0.9 M states |
| ChecksAll | TypeOK, VerdictIsWhole, KillsOwn, NothingEscapes, PassIsCurrent, CheckReturns | one check of each kind over two items, one chunk accepted per pipe, one edit of the selection; 1.5 M states |
| ProgramsAll | TypeOK, KitsKept, UnfinishedBlocks, VerdictBacked, RecordFaithful, Earned, EvidenceKept | two incidents; casts of programs over one checkout with two steps of others, or one trial with two items, two turns and one flaw per run; 1.3 M states |
| ProgramsInside | TurnsStayInside | the instance of ProgramsAll; see *Findings* |

Why the bounds are enough. A stale read needs one edit between two reads; a wrong
comparison that survives a later one needs two, hence GateWorktree. It has two casts,
which is what `CastStarts` and `CastEdits` say: a run of its own, with a third file
that is ignored and tracked nowhere and that the check reads, and two runs for reuse
without it. Reuse relates two runs, so two are the least; with two at most one receipt
is searched, so the order of the search and the limit of `Window` receipts are not
exercised by TLC (the proof of `ReuseIsJustified` covers any number of runs). Two
files make "some but not all" possible, two checks make an advisory one and a blocking
one, one with a plugin-declared input and one without. In the gateway a race over an
id takes two frames, a full table takes as many requests as it has slots, and the
server's side of each race is a free choice at every state. A pack needs a target
before and after the one that fails, which four give. Two installs are enough for
every lost update between two of them; a third that came before is what the repository
with everything installed stands for. The three hook files are the three ways the code
treats one: owned as a whole, merged and recorded as a whole, merged and recorded by
its entry. The slots of the two installs are interchangeable (no definition tells them
apart and nothing temporal but a step property is checked), so they are a symmetry
set. One chunk accepted is the least at which a program can be within the limit and
over it, two items the least at which a report covers some but not all; the selections
to start from are all there are up to a renaming of the items.

ProgramsAll starts from casts instead of from `Init`, each a reachable state:
programs that are not in a cast have stopped before they did anything. Two kits
with one check, a published kit with two checks and a ledger, an agent with two
frames of any class, and each trial by itself: every pair of programs that write
something the other reads is in one of them. `Init` with everything running has
the same interleavings many times over. Two kits are enough for a lost update
and for a race over one directory; two checks let one receipt be pruned and
another be stored while the ledger reads. Trials treat their items alike and in
order, and two make a later one follow a failure. One flaw per run of the gate
says which comparison misses which flaw; two flaws in one run are checked as two
runs with one each, and the run was also made with `MaxFlaws = 2` (3.3 M states).
The plan of the release check has every kind of run, twice where the code looks
at the one before.

Deadlock is not checked: every component here stops on purpose, when its bound
is used up or its process has exited.

`TypeOK` is not decoration in `GateRun`: it bounds what a receipt may say
(`permissions`, `diagnostics`, `status`), as the receipt's schema does.

## Fairness

GateRun has none: every loop of `run` is over a list made before it starts, and what a
run waits for is its checks, which is what `CheckReturns` is about.

`FairSpec` of McpGateway is weak fairness of the main thread, and of what the client's
worker does without writing into a pipe (`ClientWorkerMoves`). No write is fair:
`_write_upstream` and `_write_client` have no timeout, and a living server that does
not read, or a client that does not, may keep the worker in one for good. The server,
the client and the server's worker owe nothing. `EndsWithServer` (the session ends
once the server has ended or a worker has failed) must hold with a client that never
closes its end and with a worker stuck in a write, because the joins time out.
`EndsWithClient` (it ends once the client has hung up) holds only of behaviours in
which no write of the client's worker blocks for good, and says so; without that
premise it is what the docs say, and it fails. The join may time out at any moment;
`outlasted` remembers that it did with a worker still at work, and `NothingLost` is
about the sessions in which it did not.

`FairSpec` of CheckProcess is weak fairness of the supervisor and of the clock.
The program owes nothing, not even to die: an AgentWarden check returns one
second after its last SIGKILL whether or not the kernel has delivered it. A
command check waits for its program after the kill without a limit, so there, and
only there, SIGKILL is assumed to take effect.

## Findings

Four statements of the docs or comments are not what the code does; each has a
run in which TLC finds the counterexample.

* `README.md:368` says receipts that flag input mutation are not reused;
  `_reusable_checks` (`runner.py:124`) looks for `core.inputs-changed` and not for
  `core.authority-changed` (GateReuseMutated).
* `docs/HOOKS.md:354` says pre-commit does not pass code different from the
  index; the index is compared once, before the first snapshot, and never again
  (GatePreCommit).
* The comment at `plugin-mcp-gateway/.../__init__.py:408` says no worker writes
  into a closing log; a worker whose join timed out may (GatewayLog).
* The comment at `plugin-harness/.../__init__.py:243` says every write of a turn
  resolves inside the copy; `shutil.copy2` onto a directory that a check left there
  follows a link inside it (ProgramsInside).

Seven more were met while modelling and have no run of their own; where a property
would not hold for one of them, it excludes it by name.
`docs/PLUGIN_API.md:244` says lists drop denied tools before they reach the client; a
response whose id is not outstanding any more, or never was, and an array of messages
are passed on as they are, which is why `ListsFiltered` excepts them.
`docs/PLUGIN_API.md:247` says the session ends when the client closes stdin; while the
client's worker is in a write that blocks, it does not (the premise of `EndsWithClient`).
`docs/HOOKS.md:348` says installation fails instead of overwriting existing hooks; an
edit in exitzero's own Git hook is replaced when it is made after its digest was taken
and before its text is looked at again (`patched` in `ForeignSurvives`).
`docs/PLUGIN_API.md:173` says a requirement is `failed` when any mapped check
failed; under `--diff` it is `unverified` when another mapped check had nothing in
the diff, as `RequirementStatus` has it. `scripts/release_check.py:5` says receipts
are copied to the release ledger before cleanup; a run with an unexpected result in
the policy-authority repository raises before its receipt is archived, and nothing
archives that repository at the end, which is why `EvidenceKept` speaks of the first
two repositories only. Two incident kits at once may both exit with 0 and leave one's
checks out of the policy (`raced` and `Overwritten`). And a section of `AGENTS.md` that
an `init --sync` changes and another changes back between the two snapshots of a
run is not seen by it, which is why `UnfinishedBlocks` speaks of tests only.

## Proofs

`GateRunProofs` proves `TypeCorrect`: `Spec => []TypeOK`. `TypeOK` is not
inductive by itself, because a step after the policy was loaded looks up `Doc[policy]`;
`Progress` adds that the policy, and the trusted commit, are there in the
phases that use them.

`GateEvidenceProofs` proves `EvidenceIsStable`: `Spec => []StableEvidence`, for
any files, checks and number of edits. The argument is the one the code relies
on without stating it. Let a file hold a sequence of texts during a run, none
of them twice. If the first hashing pass read `x`, and the second read `x`, then
the file held `x` all the time between them, and that is when the checks read
it. The invariant `EvidenceInv` says so phase by phase: `Tracked` (what is on
disk now is in the history of the run), `NothingYet` (before the first pass nothing was
read), `FirstPass` (a file hashed has its hash in its history), `DuringChecks` (a
check that read something other than the hash proves that the file no longer
holds the hash), `SecondPass` (and then the second pass does not read it
again), `Compared` and `Persisting` (the receipt inherits it), and
`StableEvidence` itself for the receipts stored. The assumption is
`ConstantsAssumption` of `GateRun` and nothing else.

The same module proves `ReuseIsJustified` and `RequirementsAreEvidenced`, for
any number of runs. They relate receipts to each other, so their invariant,
`ReuseInv`, carries through a run what the receipt will have to show: `ListedIsMatched`
(an entry lists files only with the hashes of this run's first pass), `ReadSoFar`
(what a check has read of its files while it runs), `SourcesVouch` (the sources
`_reusable_checks` collected are clean, executed passes on these very hashes),
`EntriesBacked` and `OlderSources` (an entry rests on what this run read or on an
older receipt), and `Backed` and `Substantiated` of every receipt stored. Reuse is
never of a reused entry, so no chain has to be followed.

`GateVerdictProofs` has what a verdict is worth. `ZeroIsEarned` (`PassIsEarned`)
follows a run through its phases: `Governance` and `Licensed` (zones declared are
zones verified), `Settlement` (checks are settled in their order, each with an entry
or a finding), `Completion` (a run without findings has come all the way).
`AuthorityIsHeld` (`AuthorityHolds`) combines the two looks of `authority.py` with
`EvidenceInv`: a file that has the trusted text at both looks had it when the checks
read it. It is about the files the inspection lists (`Inspectable`): an ignored one
that is tracked nowhere is outside, as `docs/PERMISSION_ZONES.md:64` says.
`ContractIsKept` is the refinement of `GateContract`: a step of the runner either
leaves the ledger, the exit status and the stage alone, or is the one step of the
contract it looks like. What the types do not give is that `Report` answers with the
code of the receipt that is last: `OwnReceipt` says that between the rename and the
report the newest receipt is the run's own.

`PolicyPackProofs` proves all four properties of the pack, for any number of targets
and edits, from `PackAssumption`. Nobody brings back a state a target had before
(`held`), so a target that is still as captured is untouched (`Captures`), and what
is to be published was derived from that state (`Derivations`). `Forward` and
`Backward` say where publication and rollback leave a target others did not
touch, cursor by cursor, which is `AllOrNothing` when they end; `Windows` is the
moment between the last look and the rename, which `EditsSurvive` excludes;
`Receipts` keeps the receipt behind everything it names.

`HookInstallProofs` proves the four invariants of hook installation and its two action
properties, for any number of hook files, installs at a time and edits. Two
assumptions: `HookAssumption` on the constants, and `RepoAssumption` on what a
behaviour starts from, which is either what earlier installs left with nobody
interfering, or files and records exitzero knows nothing of. `Numbered` says that an
install's number is in no manifest before it records itself; with it, a
record with the number of a hook's last writer is that writer's (`Spoken`), and it
describes what was written, which is `DriftIsReal`. `Copies` and `Pins` follow
the trust base from the manifest through an install's copy into the command it
writes, `Held` the commands from the file an install read into the one it leaves.
`NoDowngrade` needs `Held`: a settled hook that asks for the authority has that
command in the text an install read, unless the record it read was another.
`InstallRepairs` rests on `Agreed`: the command an install is about to record agrees with
the base it will record, if the manifest is still the one it saw, and by then `Chmod`
has set the mode whatever the file had before.

`McpGatewayProofs` proves the seven invariants of a session, for any ids, tools,
frames and messages, from one inductive invariant, `GatewayInv`. `SlotsInv` is its
core: a request is in the worker's hands, in the pipe, with the server, or answered
and unread, in one of these at most (`Single`, `Apart`), the table says what it asked
for as long as it is in any (`Known`), and holds no slot otherwise (`Owed`). From it
follow the filter on lists (`ShownInv`), whose exceptions are arrays and the ids in
`unowed`, because a response the server does not owe settles a request it has yet to
answer; and the two properties that count: `AnswersInv` adds to the answers given the
ones still due, and bounds the sum by the questions read, for ids not in `unowed`;
`RecordsInv` adds to the calls forwarded the one about to be, and bounds the sum by
the records. `SessionInv` is what exit 0 rests on: who was done before the main thread
judged, and that nothing undoes it.

`CheckProcessProofs` proves its four invariants and the action property, for any
items, limit and number of edits, from the assumption on the constants. `Drained` is
the core of `CheckInv`: as long as nothing was cut off, a pipe that is not watched any
more has no holder and nothing in it, and since only a holder can make another holder,
it stays that way until the verdict. `ReadOut` says that past the loop no pipe is
watched, `Fresh` and `Bounded` that a verdict is only reached when nothing was cut
off, and `Reaping` that the signals come before the status is collected. `EndInv` adds
who has been signalled (`Killed`) and whose status is still owed (`Settled`), which
gives `NothingEscapes` and, with `ReportIsWhole`, `VerdictIsWhole`; `PassIsCurrent` is
read off `Judge` once the types are known. `TypeOK` is taken apart into `Flags` and
`Shapes` because truth values and sets need different provers.

`ProgramProofs` proves the seven invariants of the programs around the gate, for any
number of incidents, kits, frames, receipts, cases, runs and archived files. Tools and
trials share no variable, so there are two inductive invariants and each leaves the
other alone. `ToolsInv` is about the checkout. `AnswersInv` ties the server to the run it
waits for: a run that has finished for it stored its receipt after the frame was taken
(`GateBacked`), an answer is of such a receipt (`AnswersBacked`), and what is answered is
what was taken without the notes and the one in hand (`AnswersInTurn`); it rests on
receipts never changing once stored (`RunsGrow`). `RecordInv` says what was listed is
counted, corrupt or left to read, and what is in memory, in the file and in the comment
is the one record. `Owners` says whoever is past `mkdir` for an incident is the only
one; `Listed` that a copy of the policy no older than the policy has all of it, so that a
kit's checks are only lost to an older one. `UnfinishedBlocks`
needs `TestsFirst`: whatever lists an incident (the policy, a text a kit has yet to write,
a run that has read one) does so after its test file exists, because `Order` writes
that first. `TrialsInv` has a part per program, each only about that program
(`EvalInv`, `FixtureInv`, `ReleaseInv`, `PilotInv`). `InTurn` is shared by scenarios and
fixtures: cases are worked off one by one, none has more runs than it may, and one that
passed had them all and nothing wrong with any (`Sound`). `SoFarSoGood` says that as
long as the release check has raised nothing, every run it has looked at is `Proven`
and, outside the second repository, saved; `Archives` what is in the release ledger
when a repository is left. `Counted` and `Templates` do the same for the pilot: runs and
results go hand in hand, and only reviewed bytes are copied, whoever tampers. From these,
`SuccessIsEarned` (`Earned`) and `EvidenceIsKept` (`EvidenceKept`) are read off. The
latter goes receipt by receipt: of a fixture's two, each is copied or is the very one
whose copying failed, also when the other timed out or ended the runner (`FixtureInv`). The
assumptions are those named in `Checkout`, `GateServer`, `RunLedger`, `Trials`,
`ReleaseCheck` and `PolicyPilot`. The proof needed three that the instance did not
show: the plan of a release has a run and a pilot a case, as the lists the scripts
iterate over have, and a body somebody else wrote is told apart from no file at all.

Every inductive invariant was model-checked on the instances above before it was
proved. Two attempts changed the project: the gateway's `CallsRecorded` was first
stated for calls on record at all, and is now stated by count, because a
client may send the same call twice; and the invariant on failing threads showed that
`Threads` let a worker act after the main thread had left the process, which the daemon
threads of `_serve` cannot.

Every invariant and every action property the passing runs check is stated by a
theorem, and so is the refinement. Model-checked only: liveness (`EndsWithServer`,
`EndsWithClient`, `CheckReturns`), which is out of the prover's reach, as is anything
that needs an induction over data; and the findings, which are counterexamples.

## What is not modelled

Parsing, validation and formatting of text (policies, JSON frames, receipts),
the glob matcher, the syntax analysis of `plugin-verify`, the adapters' output
formats: pure functions of their input, where the data is the algorithm. The
plugin registration tables. The byte budgets of the authority snapshot and the Git
plumbing are a step that may raise. Restored texts within one run (above).
In `scripts/`: what the cases contain, the pilot's timings and its comparison of
installed files, and how the fixture runner kills the process tree of a gate that
timed out. `_transitions` of `harness-eval`, which only describes. Windows.

## Plan

Every property that is in the prover's reach has its theorem. What would say most next:

1. The abstract specification of the manifest of hook installation: what a record in it
   promises about the hook it names, with `HookInstall` shown to implement it.
2. The gate run that `Checkout` cuts down to three steps, as a refinement by `GateRun`
   rather than by its comments; it needs the incidents as paths of the worktree.
3. The pilot's timing runs, which are a second pass over the cases.
