----------------------- MODULE HookInstallProperties -----------------------
(***************************************************************************)
(* What installs, whether they overlap, fail or are killed, leave of       *)
(* others' work, of the manifest's word and of the operator's trust base.  *)
(***************************************************************************)
EXTENDS HookInstall

\* Shared settings are recorded by their entry alone.
IsManifest(m) == m \in Manifests /\ \A a \in EntryHooks : m.record[a].user = None

\* A behaviour starts from what earlier installs left that nobody interfered
\* with, or from files and records exitzero knows nothing of.
ASSUME RepoAssumption ==
    \A r \in InitialRepos, a \in Adapters :
        LET record == r.manifest.record[a] IN
        /\ record.by = 0 /\ (a \in GitHooks \union EntryHooks => record.user = None)
        /\ record # NoRecord =>
             /\ Matches(record, Covered(a, r.disk[a]))
             /\ r.disk[a].cmds = {"pinned"} => r.manifest.base # None
             /\ a # Cursor => r.disk[a].cmds # Commands

\* The types of prepare_install's locals and of .exitzero/hooks.json.
TypeOK ==
    /\ disk \in [Adapters -> File] /\ IsManifest(manifest) /\ zoned \in BOOLEAN
    /\ \A s \in Slots :
         /\ proc[s].pc \in {"idle", "resolve", "copy", "again", "capture", "command", "text",
                            "publish", "chmod", "record"}
         /\ proc[s].adapter \in Adapters \union {None}
         /\ proc[s].base \in Bases \union {None}
         /\ IsManifest(proc[s].copy) /\ IsManifest(proc[s].saw)
         /\ proc[s].before \in File /\ proc[s].text \in File /\ proc[s].cmd \in Commands
         /\ proc[s].id \in 0..MaxInstalls
    /\ installs \in 0..MaxInstalls /\ edits \in 0..MaxEdits
    /\ user \in [Adapters -> Texts \union {None}]
    /\ raced \subseteq Adapters /\ patched \subseteq Adapters
    /\ lost \in BOOLEAN /\ overtaken \in BOOLEAN
    /\ writer \in [Adapters -> 0..MaxInstalls] /\ installed \in [Adapters -> File]

\* Foreign hooks and others' entries survive every install, in any number and
\* however they end, but for what was written between an install's last look at
\* the file and its rename, and for what was written into a hook of exitzero's
\* own between its two looks at a Git hook (hooks.py:250-265, 306-429, 457).
ForeignSurvives == \A a \in Adapters \ (raced \union patched) : disk[a].user = user[a]

\* The install that last replaced the hook is the one the manifest speaks of.
Settled(a) == Recorded(a) /\ manifest.record[a].by = writer[a]

\* What exitzero answers for in a hook file.
Ours(a, file) == IF a \in EntryHooks THEN <<file.cmds>> ELSE <<file.user, file.cmds>>

\* Drift is reported when, and only when, others changed what exitzero answers
\* for: the whole of its own files, and only its entry in a shared one
\* (hooks.py:490-509, HOOKS.md:134).
DriftIsReal ==
    \A a \in Adapters : Settled(a) =>
        (Drift(a) <=> Ours(a, disk[a]) # Ours(a, installed[a]))

\* A recorded hook that asks for the installed authority, and for nothing else,
\* finds one, unless the manifest was deleted or one install overwrote what
\* another had recorded meanwhile (hooks.py:300-304, cli.py:290-300).
PinKept ==
    ~lost /\ ~overtaken =>
        \A a \in Adapters :
            Settled(a) /\ installed[a].cmds = {"pinned"} => manifest.base # None

\* An install that ends undisturbed, the manifest and the hook being those it
\* wrote itself, leaves a hook that doctor calls configured: whatever mode, record
\* or command installs stopped before it left, and whatever base others recorded
\* before it (hooks.py:457-460, doctor.py:89-165).
InstallRepairs ==
    [][\A s \in Slots, a \in Adapters :
         ( /\ At(s, "record") /\ proc[s].adapter = a /\ manifest'.record[a].by = proc[s].id
           /\ ~lost /\ proc[s].saw = manifest /\ writer[a] = proc[s].id
           /\ disk[a].user = installed[a].user /\ disk[a].cmds = installed[a].cmds )
         => Diagnosis(a)' = "configured"]_vars

\* No install takes a pin away, unless the manifest that holds its base is gone,
\* was overwritten, was never written, or was written after the install read it.
NoDowngrade ==
    [][\A s \in Slots :
         LET a == proc[s].adapter IN
         ( /\ At(s, "publish") /\ proc'[s].pc = "chmod"
           /\ "pinned" \in disk[a].cmds /\ "pinned" \notin disk'[a].cmds )
         => lost \/ overtaken \/ ~Settled(a) \/ proc[s].saw # manifest]_vars
=============================================================================
