---------------------------- MODULE HookInstall ----------------------------
(***************************************************************************)
(* `hooks install` (core/hooks.py `install`): a hook file is merged or     *)
(* replaced, made executable if it is Git's, and then recorded in the      *)
(* manifest .exitzero/hooks.json together with the operator's trust base.  *)
(* There is no lock: several installs may run at once, others edit the     *)
(* same files, and every install may fail or be killed between two steps.  *)
(*                                                                         *)
(* A hook file is what others wrote in it and the exitzero commands it     *)
(* holds; a digest is what it was computed from.                           *)
(***************************************************************************)
EXTENDS Naturals, FiniteSets

CONSTANTS
  Adapters,     (* the hook files                                           *)
  GitHooks,     (* those of Git: a single command, owned as a whole         *)
  EntryHooks,   (* shared settings, of which only the entry is recorded     *)
  Cursor,       (* keeps older exitzero entries unless there is a trust base *)
  Texts,        (* what others may write in a file                          *)
  Bases,        (* commits an operator may name as trust base               *)
  Slots,        (* installs that may run at the same time                   *)
  InitialRepos, (* hook files and manifests a behaviour may start from      *)
  MaxInstalls, MaxEdits, (* bounds on installs and on the steps of others   *)
  None

Commands == {"plain", "pinned"}   \* pinned: with --use-installed-authority
File == [user: Texts \union {None}, cmds: SUBSET Commands, exec: BOOLEAN]
Missing == [user |-> None, cmds |-> {}, exec |-> FALSE]
Exists(file) == file.user # None \/ file.cmds # {}

NoRecord == [user |-> None, cmds |-> {}, by |-> 0]
Empty == [record |-> [a \in Adapters |-> NoRecord], base |-> None]
Manifests ==
    [record: [Adapters -> [user: Texts \union {None}, cmds: SUBSET Commands,
                           by: 0..MaxInstalls]],
     base: Bases \union {None}]

ASSUME HookAssumption ==
    /\ GitHooks \subseteq Adapters /\ EntryHooks \subseteq Adapters
    /\ GitHooks \intersect EntryHooks = {} /\ Cursor \notin GitHooks
    /\ None \notin Texts /\ None \notin Bases
    /\ InitialRepos \subseteq [disk: [Adapters -> File], manifest: Manifests]
    /\ MaxInstalls \in Nat /\ MaxEdits \in Nat

VARIABLES
  disk,       (* the hook files                                             *)
  manifest,   (* what is recorded of them, and the operator's trust base    *)
  zoned,      (* the policy declares permission zones                       *)
  proc,       (* the installs: per slot, its program counter and locals     *)
  installs,   (* installs begun so far                                      *)
  edits,      (* steps of others so far                                     *)
  user,       (* history: what others last left in each file                *)
  raced,      (* history: files they changed after an install's last look   *)
  patched,    (* history: exitzero's hooks they changed between its two looks *)
  writer,     (* history: the install that last replaced each file          *)
  installed,  (* history: what it replaced it with                          *)
  overtaken,  (* history: an install wrote a manifest read before another's *)
  lost        (* history: others deleted the manifest                       *)

othersVars == <<edits, user, raced, patched, lost>>
historyVars == <<writer, installed, overtaken>>
vars == <<disk, manifest, zoned, proc, installs, othersVars, historyVars>>

\* The locals of install and prepare_install; id and saw are history.
Idle == [pc |-> "idle", adapter |-> None, base |-> None, copy |-> Empty,
         before |-> Missing, text |-> Missing, cmd |-> "plain", id |-> 0, saw |-> Empty]

Init ==
    /\ \E r \in InitialRepos : disk = r.disk /\ manifest = r.manifest
    /\ zoned \in BOOLEAN
    /\ proc = [s \in Slots |-> Idle] /\ installs = 0
    /\ edits = 0 /\ user = [a \in Adapters |-> disk[a].user] /\ raced = {}
    /\ patched = {} /\ lost = FALSE
    /\ writer = [a \in Adapters |-> 0] /\ installed = disk /\ overtaken = FALSE

-----------------------------------------------------------------------------
(* Everybody else.                                                         *)

\* An install that looked at the file for the last time, and one that took the
\* bytes of a Git hook and has yet to look at its text.
InWindow(s, a) ==
    /\ proc[s].adapter = a
    /\ proc[s].pc \in {"publish"} \union (IF a \in GitHooks THEN {} ELSE {"command"})

BetweenLooks(s, a) ==
    a \in GitHooks /\ proc[s].adapter = a /\ proc[s].pc \in {"command", "text"}

Leave(a, file) ==
    /\ edits < MaxEdits /\ file # disk[a]
    /\ disk' = [disk EXCEPT ![a] = file]
    /\ user' = [user EXCEPT ![a] = file.user]
    /\ raced' = IF \E s \in Slots : InWindow(s, a) THEN raced \union {a} ELSE raced
    /\ patched' = IF file.cmds # {} /\ \E s \in Slots : BetweenLooks(s, a)
                  THEN patched \union {a} ELSE patched
    /\ edits' = edits + 1
    /\ UNCHANGED <<manifest, zoned, proc, installs, lost, historyVars>>

\* They write their part of the file, take exitzero's entry out, or delete it.
Edit(a, text) == Leave(a, [disk[a] EXCEPT !.user = text])
TakeOut(a) == disk[a].user # None /\ Leave(a, [disk[a] EXCEPT !.cmds = {}])
Delete(a) == Exists(disk[a]) /\ Leave(a, Missing)

\* .exitzero is ignored by Git and may be cleaned away.
LoseManifest ==
    /\ edits < MaxEdits /\ manifest # Empty
    /\ manifest' = Empty /\ lost' = TRUE /\ edits' = edits + 1
    /\ UNCHANGED <<disk, zoned, proc, installs, user, raced, patched, historyVars>>

-----------------------------------------------------------------------------
(* One install.                                                            *)

At(s, pc) == proc[s].pc = pc
Set(s, locals) == proc' = [proc EXCEPT ![s] = locals]

\* Steps that only read leave everything but the locals alone.
Reads == UNCHANGED <<disk, manifest, zoned, installs, othersVars, historyVars>>

Begin(s, a, b) ==
    /\ At(s, "idle") /\ installs < MaxInstalls
    /\ installs' = installs + 1
    /\ Set(s, [Idle EXCEPT !.pc = "resolve", !.adapter = a, !.base = b, !.id = installs + 1])
    /\ UNCHANGED <<disk, manifest, zoned, othersVars, historyVars>>

\* The operator's argument, or else what the manifest says at this moment.
Effective(s) == IF proc[s].base # None THEN proc[s].base ELSE manifest.base

\* Permission zones need a trust base.
ResolveBase(s) ==
    /\ At(s, "resolve") /\ ~(zoned /\ Effective(s) = None)
    /\ Set(s, [proc[s] EXCEPT !.pc = "copy", !.base = Effective(s)])
    /\ Reads

\* Fault: the trust base is used and not recorded.
CopyWithoutBase(s) ==
    /\ At(s, "copy")
    /\ Set(s, [proc[s] EXCEPT !.pc = IF Effective(s) = None THEN "again" ELSE "capture",
                              !.base = Effective(s), !.saw = manifest, !.copy = manifest])
    /\ Reads

\* prepare_install works on its own copy of the manifest ...
CopyManifest(s) ==
    /\ At(s, "copy")
    /\ Set(s, [proc[s] EXCEPT !.pc = IF Effective(s) = None THEN "again" ELSE "capture",
                              !.base = Effective(s), !.saw = manifest,
                              !.copy = [manifest EXCEPT !.base = Effective(s)]])
    /\ Reads

\* ... and, with no trust base so far, looks into the file once more.
ResolveAgain(s) ==
    /\ At(s, "again")
    /\ Set(s, [proc[s] EXCEPT !.pc = "capture", !.base = manifest.base,
                              !.copy.base = manifest.base])
    /\ Reads

Capture(s) ==
    LET a == proc[s].adapter IN
    /\ At(s, "capture")
    /\ Set(s, [proc[s] EXCEPT !.pc = IF a \in GitHooks THEN "command" ELSE "text",
                              !.before = disk[a]])
    /\ Reads

\* Fault: the command line does not ask for the installed authority.
CommandUnpinned(s) ==
    /\ At(s, "command")
    /\ Set(s, [proc[s] EXCEPT
                 !.pc = IF proc[s].adapter \in GitHooks THEN "text" ELSE "publish",
                 !.cmd = "plain"])
    /\ Reads

\* The command line is made from the manifest, not from the copy.
Command(s) ==
    /\ At(s, "command")
    /\ Set(s, [proc[s] EXCEPT
                 !.pc = IF proc[s].adapter \in GitHooks THEN "text" ELSE "publish",
                 !.cmd = IF Effective(s) = None THEN "plain" ELSE "pinned"])
    /\ Reads

\* What the manifest's digest of a hook covers.
Covered(a, file) ==
    [user |-> IF a \in EntryHooks THEN None ELSE file.user, cmds |-> file.cmds]

Matches(record, covered) == record.user = covered.user /\ record.cmds = covered.cmds

\* Fault: whatever looks like exitzero's hook may be replaced.
ReplaceableByFormat(s, now) == ~Exists(now) \/ now.cmds # {}

\* A Git hook is replaced only if it holds the very command, or is the one
\* recorded; the record is compared with the captured text, the format with now.
Replaceable(s, now) ==
    LET p == proc[s] IN
    \/ ~Exists(now)
    \/ now.user = None /\ now.cmds = {p.cmd}
    \/ Matches(p.copy.record[p.adapter], Covered(p.adapter, p.before)) /\ now.cmds # {}

ReadText(s) ==
    LET a == proc[s].adapter IN
    /\ At(s, "text")
    /\ a \in GitHooks => Replaceable(s, disk[a])
    /\ Set(s, [proc[s] EXCEPT !.pc = IF a \in GitHooks THEN "publish" ELSE "command",
                              !.text = disk[a]])
    /\ Reads

\* Other clients' entries stay; older exitzero entries go, except from a Cursor
\* file without a trust base.
Merged(s) ==
    LET p == proc[s] IN
    IF p.adapter \in GitHooks THEN [user |-> None, cmds |-> {p.cmd}, exec |-> FALSE]
    ELSE [user |-> p.text.user, exec |-> FALSE,
          cmds |-> IF p.adapter = Cursor /\ p.base = None THEN p.text.cmds \union {p.cmd}
                   ELSE {p.cmd}]

\* write_atomic: a new file, private until its mode is set.
Publish(s) ==
    LET a == proc[s].adapter IN
    /\ At(s, "publish")
    /\ disk' = [disk EXCEPT ![a] = Merged(s)]
    /\ writer' = [writer EXCEPT ![a] = proc[s].id]
    /\ installed' = [installed EXCEPT ![a] = Merged(s)]
    /\ Set(s, [proc[s] EXCEPT !.pc = "chmod"])
    /\ UNCHANGED <<manifest, zoned, installs, othersVars, overtaken>>

\* Fault: a hook that exists keeps the mode it has.
ChmodAsFound(s) ==
    LET a == proc[s].adapter
        found == proc[s].before IN
    /\ At(s, "chmod") /\ Exists(disk[a])
    /\ disk' = [disk EXCEPT ![a].exec = IF Exists(found) THEN found.exec ELSE a \in GitHooks]
    /\ Set(s, [proc[s] EXCEPT !.pc = "record"])
    /\ UNCHANGED <<manifest, zoned, installs, othersVars, historyVars>>

Chmod(s) ==
    LET a == proc[s].adapter IN
    /\ At(s, "chmod") /\ Exists(disk[a])
    /\ disk' = [disk EXCEPT ![a].exec = a \in GitHooks \/ proc[s].before.exec]
    /\ Set(s, [proc[s] EXCEPT !.pc = "record"])
    /\ UNCHANGED <<manifest, zoned, installs, othersVars, historyVars>>

\* Fault: the hook is recorded as it was found.
DigestAsFound(s) ==
    LET covered == Covered(proc[s].adapter, proc[s].text)
    IN [user |-> covered.user, cmds |-> covered.cmds, by |-> proc[s].id]

\* Fault: shared settings are recorded as a whole.
DigestOfAll(s) == [user |-> Merged(s).user, cmds |-> Merged(s).cmds, by |-> proc[s].id]

\* The digest recorded for the hook just written.
Digest(s) ==
    LET covered == Covered(proc[s].adapter, Merged(s))
    IN [user |-> covered.user, cmds |-> covered.cmds, by |-> proc[s].id]

Record(s) ==
    /\ At(s, "record")
    /\ manifest' = [proc[s].copy EXCEPT !.record[proc[s].adapter] = Digest(s)]
    /\ overtaken' = (overtaken \/ proc[s].saw # manifest)
    /\ Set(s, Idle)
    /\ UNCHANGED <<disk, zoned, installs, othersVars, writer, installed>>

\* A refusal, an exception or a kill: nothing is undone.
Stop(s) ==
    /\ ~At(s, "idle")
    /\ Set(s, Idle)
    /\ Reads

-----------------------------------------------------------------------------
(* What lint-config and doctor make of the files.                          *)

Recorded(a) == manifest.record[a] # NoRecord

Drift(a) == Recorded(a) /\ ~Matches(manifest.record[a], Covered(a, disk[a]))

\* The command the manifest calls for now.
Expected == IF manifest.base = None THEN "plain" ELSE "pinned"

Runnable(a) ==
    IF a \in GitHooks THEN disk[a].user = None /\ disk[a].cmds = {Expected} /\ disk[a].exec
    ELSE Expected \in disk[a].cmds

\* doctor's state of an adapter.
Diagnosis(a) ==
    CASE Recorded(a) /\ ~Drift(a) /\ Runnable(a) -> "configured"
      [] Recorded(a) /\ (Drift(a) \/ ~Runnable(a)) -> "misconfigured"
      [] ~Recorded(a) /\ Exists(disk[a]) -> "unmanaged"
      [] OTHER -> "missing"

-----------------------------------------------------------------------------
Step(s) ==
    \/ \E a \in Adapters, b \in Bases \union {None} : Begin(s, a, b)
    \/ ResolveBase(s) \/ CopyManifest(s) \/ ResolveAgain(s) \/ Capture(s) \/ Command(s)
    \/ ReadText(s) \/ Publish(s) \/ Chmod(s) \/ Record(s) \/ Stop(s)

Others ==
    \/ LoseManifest
    \/ \E a \in Adapters : TakeOut(a) \/ Delete(a) \/ \E t \in Texts : Edit(a, t)

Next == Others \/ \E s \in Slots : Step(s)

Spec == Init /\ [][Next]_vars
=============================================================================
