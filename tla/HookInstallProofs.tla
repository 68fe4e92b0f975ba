------------------------- MODULE HookInstallProofs -------------------------
(***************************************************************************)
(* Proofs about hook installation for any number of hook files, installs   *)
(* at a time, installs in all and edits by others.                         *)
(*                                                                         *)
(* The argument: an install's number occurs in no manifest before the      *)
(* install records itself, so a record with the number of the hook's last  *)
(* writer is the one that writer made; and a manifest loses its trust base *)
(* only to an install that had read one without.                           *)
(***************************************************************************)
EXTENDS HookInstallProperties, TLAPS

PCs == {"idle", "resolve", "copy", "again", "capture", "command", "text", "publish", "chmod",
        "record"}
TypedManifests == {m \in Manifests : IsManifest(m)}
Locals == [pc: PCs, adapter: Adapters \union {None}, base: Bases \union {None},
           copy: TypedManifests, before: File, text: File, cmd: Commands,
           id: 0..MaxInstalls, saw: TypedManifests]

\* Program counters past the read of the manifest, past the choice of the
\* command, and past the read of the text that is merged.
Copied(p) == p.pc \notin {"idle", "resolve", "copy"}
Commanded(p) ==
    p.pc \in {"publish", "chmod", "record"} \union (IF p.adapter \in GitHooks THEN {"text"} ELSE {})
TextRead(p) == p.pc \in {"command", "publish"} /\ p.adapter \notin GitHooks

TypeInv ==
    /\ TypeOK /\ proc \in [Slots -> Locals]
    /\ \A s \in Slots : ~At(s, "idle") => proc[s].adapter \in Adapters

-----------------------------------------------------------------------------
\* Of the installs p, n of which were begun, none under way is in manifest m.
Unrecorded(m, n, p) ==
    \A a \in Adapters : /\ m.record[a].by <= n
                        /\ \A s \in Slots : p[s].pc # "idle" => m.record[a].by # p[s].id

\* The installs under way have numbers of their own.
Numbered ==
    /\ \A s \in Slots : ~At(s, "idle") => proc[s].id \in 1..installs
    /\ \A s, t \in Slots : ~At(s, "idle") /\ ~At(t, "idle") /\ proc[s].id = proc[t].id => s = t
    /\ Unrecorded(manifest, installs, proc)
    /\ \A s \in Slots : /\ Unrecorded(proc[s].copy, installs, proc)
                        /\ Unrecorded(proc[s].saw, installs, proc)

\* What the last writer w of a hook recorded in manifest m is what it wrote, f.
\* Git's hooks are recorded without others' text.
Speaks(m, w, f) ==
    \A a \in Adapters :
        /\ a \in GitHooks => m.record[a].user = None
        /\ m.record[a] # NoRecord /\ m.record[a].by = w[a] =>
             /\ Matches(m.record[a], Covered(a, f[a]))
             /\ a # Cursor => f[a].cmds # Commands

Spoken ==
    /\ Speaks(manifest, writer, installed)
    /\ \A s \in Slots : Speaks(proc[s].copy, writer, installed)
    /\ \A s \in Slots : /\ At(s, "chmod") \/ At(s, "record")
                        /\ writer[proc[s].adapter] = proc[s].id
                        => installed[proc[s].adapter] = Merged(s)

\* What an install is about to write keeps what others wrote, unless they wrote
\* it meanwhile.
Keeps(p, r, u, d) ==
    p.adapter \notin r =>
        /\ TextRead(p) => p.text.user = u[p.adapter]
        /\ /\ p.adapter \in GitHooks /\ p.pc \in {"command", "text"}
           /\ p.before.user = None /\ d[p.adapter].cmds # {}
           => u[p.adapter] = None
        /\ p.adapter \in GitHooks /\ p.pc = "publish" => u[p.adapter] = None

Windows == \A s \in Slots : Keeps(proc[s], raced \union patched, user, disk)

\* An install's copy is the manifest it saw, with a base that is no worse, and its
\* command asks for the installed authority if it knows one.
Consistent(p) ==
    /\ Copied(p) => /\ p.copy.record = p.saw.record /\ p.copy.base = p.base
                    /\ p.saw.base # None => p.copy.base # None
    /\ p.pc = "again" => p.saw.base = None
    /\ Commanded(p) /\ p.base # None => p.cmd = "pinned"

Copies == \A s \in Slots : Consistent(proc[s])

\* A command asks for the installed authority only if there is one.
Pinned(p, m) == Commanded(p) /\ p.cmd = "pinned" => p.copy.base # None \/ m.base # None

Pins == ~lost /\ ~overtaken => \A s \in Slots : Pinned(proc[s], manifest)

\* A hook holds no command but those of its last writer, and so does the text an
\* install read after that writer w was recorded.
ReadAll(p, w, d) ==
    TextRead(p) /\ p.saw.record[p.adapter].by = w[p.adapter]
    => d[p.adapter].cmds \subseteq p.text.cmds

Held ==
    /\ \A a \in Adapters : disk[a].cmds \subseteq installed[a].cmds
    /\ \A s \in Slots : ReadAll(proc[s], writer, disk)

\* While the manifest is the one an install saw, its command asks for the
\* installed authority exactly if its copy has a base.
Agrees(p, m) == Commanded(p) /\ p.saw = m => (p.cmd = "pinned" <=> p.copy.base # None)

Agreed == ~lost => \A s \in Slots : Agrees(proc[s], manifest)

\* A Git hook that still holds what an install wrote may be executed once that
\* install has seen to the mode.
Runs(p, w, d) ==
    /\ p.pc = "record" /\ p.adapter \in GitHooks /\ w[p.adapter] = p.id
    /\ d[p.adapter].cmds # {}
    => d[p.adapter].exec

Executable == \A s \in Slots : Runs(proc[s], writer, disk)

HookInv ==
    /\ Numbered /\ Spoken /\ Windows /\ Copies /\ Pins /\ Held /\ Agreed /\ Executable
    /\ ForeignSurvives /\ PinKept

-----------------------------------------------------------------------------
(* Types.                                                                  *)

\* The locals of an install, one by one.
LEMMA LocalsTyped ==
    ASSUME NEW p \in Locals
    PROVE  /\ p.pc \in PCs /\ p.adapter \in Adapters \union {None}
           /\ p.base \in Bases \union {None} /\ p.copy \in TypedManifests
           /\ p.saw \in TypedManifests /\ p.before \in File /\ p.text \in File
           /\ p.cmd \in Commands /\ p.id \in 0..MaxInstalls
  BY DEF Locals

\* A manifest with another base, or with a record as install makes them, is a manifest.
LEMMA ManifestsTyped ==
    /\ Empty \in TypedManifests
    /\ \A m \in TypedManifests : /\ m \in Manifests /\ IsManifest(m)
                                 /\ m.base \in Bases \union {None}
    /\ \A m \in TypedManifests, b \in Bases \union {None} :
         [m EXCEPT !.base = b] \in TypedManifests
    /\ \A m \in TypedManifests, a \in Adapters, u \in Texts \union {None}, c \in SUBSET Commands,
          n \in 0..MaxInstalls :
         (a \in EntryHooks => u = None)
         => [m EXCEPT !.record[a] = [user |-> u, cmds |-> c, by |-> n]] \in TypedManifests
<1>1. Empty \in TypedManifests
  BY HookAssumption DEF Empty, NoRecord, TypedManifests, IsManifest, Manifests
<1>2. \A m \in TypedManifests : m \in Manifests /\ IsManifest(m) /\ m.base \in Bases \union {None}
  BY DEF TypedManifests, IsManifest, Manifests
<1>3. ASSUME NEW m \in TypedManifests, NEW b \in Bases \union {None}
      PROVE  [m EXCEPT !.base = b] \in TypedManifests
  BY DEF TypedManifests, IsManifest, Manifests
<1>4. ASSUME NEW m \in TypedManifests, NEW a \in Adapters, NEW u \in Texts \union {None},
             NEW c \in SUBSET Commands, NEW n \in 0..MaxInstalls, a \in EntryHooks => u = None
      PROVE  [m EXCEPT !.record[a] = [user |-> u, cmds |-> c, by |-> n]] \in TypedManifests
  <2> DEFINE new == [user |-> u, cmds |-> c, by |-> n]
             rec == [m.record EXCEPT ![a] = new]
  <2>1. m.record \in [Adapters -> [user: Texts \union {None}, cmds: SUBSET Commands,
                                   by: 0..MaxInstalls]]
    BY DEF TypedManifests, Manifests
  <2>2. rec \in [Adapters -> [user: Texts \union {None}, cmds: SUBSET Commands,
                              by: 0..MaxInstalls]]
    BY <2>1
  <2>3. \A x \in EntryHooks : rec[x].user = None
    BY <1>4, <2>1, HookAssumption DEF TypedManifests, IsManifest
  <2>4. [m EXCEPT !.record[a] = new] = [record |-> rec, base |-> m.base]
    BY DEF TypedManifests, Manifests
  <2> HIDE DEF rec
  <2>5. [record |-> rec, base |-> m.base] \in TypedManifests
    BY <1>2, <2>2, <2>3 DEF TypedManifests, IsManifest, Manifests
  <2> QED  BY <2>4, <2>5 DEF rec
<1> QED  BY <1>1, <1>2, <1>3, <1>4

\* A step of an install changes its own locals and no others'.
LEMMA SetLocals ==
    ASSUME proc \in [Slots -> Locals], NEW s \in Slots, NEW l, Set(s, l)
    PROVE  /\ proc'[s] = l /\ \A t \in Slots : t # s => proc'[t] = proc[t]
           /\ l \in Locals => proc' \in [Slots -> Locals]
  BY DEF Set

\* A file with another text, other commands or another mode is a file.
LEMMA FilesTyped ==
    /\ Missing \in File
    /\ \A f \in File, t \in Texts \union {None}, c \in SUBSET Commands, e \in BOOLEAN :
         /\ [f EXCEPT !.user = t] \in File /\ [f EXCEPT !.cmds = c] \in File
         /\ [f EXCEPT !.exec = e] \in File /\ [user |-> t, cmds |-> c, exec |-> e] \in File
         /\ f.user \in Texts \union {None} /\ f.cmds \in SUBSET Commands /\ f.exec \in BOOLEAN
  BY DEF Missing, File

\* The locals of a process that runs no install are typed.
LEMMA IdleTyped == Idle \in Locals
  BY ManifestsTyped, FilesTyped, HookAssumption DEF Idle, Locals, PCs, Commands

\* What an install writes, and what it records of it.
LEMMA WrittenTyped ==
    ASSUME proc \in [Slots -> Locals], NEW s \in Slots
    PROVE  /\ Merged(s) \in File
           /\ proc[s].adapter \in Adapters =>
                [proc[s].copy EXCEPT !.record[proc[s].adapter] = Digest(s)] \in TypedManifests
<1>1. proc[s] \in Locals
  OBVIOUS
<1>2. /\ proc[s].text.user \in Texts \union {None} /\ proc[s].text.cmds \in SUBSET Commands
      /\ proc[s].cmd \in Commands /\ proc[s].copy \in TypedManifests
      /\ proc[s].id \in 0..MaxInstalls
  BY <1>1, LocalsTyped, FilesTyped
<1>3. Merged(s) \in File
  BY <1>2 DEF Merged, File
<1>4. ASSUME proc[s].adapter \in Adapters
      PROVE  [proc[s].copy EXCEPT !.record[proc[s].adapter] = Digest(s)] \in TypedManifests
  <2> DEFINE cov == Covered(proc[s].adapter, Merged(s))
  <2>1. /\ cov.user \in Texts \union {None} /\ cov.cmds \in SUBSET Commands
        /\ proc[s].adapter \in EntryHooks => cov.user = None
    BY <1>3, FilesTyped DEF Covered
  <2>2. Digest(s) = [user |-> cov.user, cmds |-> cov.cmds, by |-> proc[s].id]
    BY DEF Digest
  <2> HIDE DEF cov
  <2> QED  BY <1>2, <1>4, <2>1, <2>2, ManifestsTyped
<1> QED  BY <1>3, <1>4

\* The variables other than the locals.
DataTyped ==
    /\ disk \in [Adapters -> File] /\ manifest \in TypedManifests /\ zoned \in BOOLEAN
    /\ installs \in 0..MaxInstalls /\ edits \in 0..MaxEdits
    /\ user \in [Adapters -> Texts \union {None}]
    /\ raced \subseteq Adapters /\ patched \subseteq Adapters
    /\ lost \in BOOLEAN /\ overtaken \in BOOLEAN
    /\ writer \in [Adapters -> 0..MaxInstalls] /\ installed \in [Adapters -> File]

\* The types are those of the files and those of the processes.
LEMMA TypeParts ==
    TypeInv <=> /\ DataTyped /\ proc \in [Slots -> Locals]
                /\ \A s \in Slots : proc[s].pc # "idle" => proc[s].adapter \in Adapters
<1>1. ASSUME proc \in [Slots -> Locals], NEW s \in Slots
      PROVE  /\ proc[s].pc \in PCs /\ proc[s].adapter \in Adapters \union {None}
             /\ proc[s].base \in Bases \union {None}
             /\ IsManifest(proc[s].copy) /\ IsManifest(proc[s].saw)
             /\ proc[s].before \in File /\ proc[s].text \in File /\ proc[s].cmd \in Commands
             /\ proc[s].id \in 0..MaxInstalls
  <2>1. proc[s] \in Locals
    BY <1>1
  <2> QED  BY <2>1, LocalsTyped, ManifestsTyped
<1>2. manifest \in TypedManifests <=> IsManifest(manifest)
  BY DEF TypedManifests, IsManifest
<1> QED  BY <1>1, <1>2 DEF TypeInv, TypeOK, DataTyped, At, PCs

\* The types hold at the start.
LEMMA TypeInit == Init => TypeInv
<1> SUFFICES ASSUME Init PROVE TypeInv
  OBVIOUS
<1>1. PICK r \in InitialRepos : disk = r.disk /\ manifest = r.manifest
  BY DEF Init
<1>2. disk \in [Adapters -> File] /\ manifest \in Manifests
  BY <1>1, HookAssumption
<1>3. manifest \in TypedManifests
  BY <1>1, <1>2, HookAssumption, RepoAssumption DEF TypedManifests, IsManifest
<1>4. [a \in Adapters |-> disk[a].user] \in [Adapters -> Texts \union {None}]
  BY <1>2, FilesTyped
<1>5. DataTyped
  <2>1. 0 \in 0..MaxInstalls /\ 0 \in 0..MaxEdits
    BY HookAssumption
  <2>2. [a \in Adapters |-> 0] \in [Adapters -> 0..MaxInstalls]
    BY <2>1
  <2> QED  BY <1>2, <1>3, <1>4, <2>1, <2>2 DEF Init, DataTyped
<1>6. /\ proc \in [Slots -> Locals]
      /\ \A s \in Slots : proc[s].pc # "idle" => proc[s].adapter \in Adapters
  <2>1. Idle.pc = "idle"
    BY DEF Idle
  <2> QED  BY <2>1, IdleTyped DEF Init
<1> QED  BY <1>5, <1>6, TypeParts

\* Others change the disk, what is remembered of it, and the manifest.
LEMMA OthersTyped == TypeInv /\ Others => DataTyped' /\ UNCHANGED proc
<1> SUFFICES ASSUME TypeInv, Others PROVE DataTyped' /\ UNCHANGED proc
  OBVIOUS
<1>1. DataTyped
  BY TypeParts
<1>2. ASSUME NEW a \in Adapters, NEW f \in File, Leave(a, f)
      PROVE  DataTyped' /\ UNCHANGED proc
  <2>1. edits' \in 0..MaxEdits
    BY <1>1, <1>2, HookAssumption DEF Leave, DataTyped
  <2>2. f.user \in Texts \union {None}
    BY FilesTyped
  <2> QED  BY <1>1, <1>2, <2>1, <2>2 DEF Leave, DataTyped, historyVars
<1>3. CASE LoseManifest
  <2>1. edits' \in 0..MaxEdits
    BY <1>1, <1>3, HookAssumption DEF LoseManifest, DataTyped
  <2> QED  BY <1>1, <1>3, <2>1, ManifestsTyped DEF LoseManifest, DataTyped, historyVars
<1>4. ASSUME NEW a \in Adapters, TakeOut(a) \/ Delete(a) \/ \E t \in Texts : Edit(a, t)
      PROVE  \E f \in File : Leave(a, f)
  <2>1. disk[a] \in File
    BY <1>1 DEF DataTyped
  <2>2. CASE TakeOut(a)
    BY <2>1, <2>2, FilesTyped DEF TakeOut
  <2>3. CASE Delete(a)
    BY <2>3, FilesTyped DEF Delete
  <2>4. CASE \E t \in Texts : Edit(a, t)
    BY <2>1, <2>4, FilesTyped DEF Edit
  <2> QED  BY <1>4, <2>2, <2>3, <2>4
<1> QED  BY <1>2, <1>3, <1>4 DEF Others

\* A step of an install leaves well-typed locals, and is busy with an adapter.
LEMMA LocalsStep ==
    ASSUME TypeInv, NEW s \in Slots, Step(s)
    PROVE  \E l \in Locals : Set(s, l) /\ (l.pc # "idle" => l.adapter \in Adapters)
<1> DEFINE p == proc[s]
<1> USE DEF At
<1>1. /\ DataTyped /\ p \in Locals /\ (p.pc # "idle" => p.adapter \in Adapters)
      /\ manifest \in TypedManifests /\ manifest.base \in Bases \union {None}
      /\ Effective(s) \in Bases \union {None}
  BY TypeParts, ManifestsTyped, LocalsTyped DEF DataTyped, Effective
<1> HIDE DEF p
<1>2. ASSUME NEW a \in Adapters, NEW b \in Bases \union {None}, Begin(s, a, b)
      PROVE  \E l \in Locals : Set(s, l) /\ l.adapter \in Adapters
  <2> DEFINE l == [Idle EXCEPT !.pc = "resolve", !.adapter = a, !.base = b, !.id = installs + 1]
  <2>1. installs + 1 \in 0..MaxInstalls
    BY <1>1, <1>2, HookAssumption DEF Begin, DataTyped
  <2>2. l \in Locals /\ l.adapter \in Adapters
    BY <2>1, IdleTyped DEF Locals, PCs
  <2> QED  BY <1>2, <2>2 DEF Begin
<1>3. CASE ResolveBase(s)
  <2> DEFINE l == [p EXCEPT !.pc = "copy", !.base = Effective(s)]
  <2>1. l \in Locals /\ l.adapter = p.adapter
    BY <1>1 DEF Locals, PCs
  <2> QED  BY <1>1, <1>3, <2>1 DEF ResolveBase, p
<1>4. CASE CopyManifest(s)
  <2> DEFINE m == [manifest EXCEPT !.base = Effective(s)]
             l == [p EXCEPT !.pc = IF Effective(s) = None THEN "again" ELSE "capture",
                            !.base = Effective(s), !.saw = manifest, !.copy = m]
  <2>1. m \in TypedManifests
    BY <1>1, ManifestsTyped
  <2> HIDE DEF m
  <2>2. l \in Locals /\ l.adapter = p.adapter
    BY <1>1, <2>1 DEF Locals, PCs
  <2> QED  BY <1>1, <1>4, <2>2 DEF CopyManifest, p, m
<1>5. CASE ResolveAgain(s)
  <2> DEFINE m == [p.copy EXCEPT !.base = manifest.base]
             l == [p EXCEPT !.pc = "capture", !.base = manifest.base, !.copy = m]
  <2>1. m \in TypedManifests
    BY <1>1, ManifestsTyped, LocalsTyped
  <2>2. l = [p EXCEPT !.pc = "capture", !.base = manifest.base, !.copy.base = manifest.base]
    BY <1>1 DEF Locals
  <2> HIDE DEF m
  <2>3. l \in Locals /\ l.adapter = p.adapter
    BY <1>1, <2>1 DEF Locals, PCs
  <2> QED  BY <1>1, <1>5, <2>2, <2>3 DEF ResolveAgain, p
<1>6. CASE Capture(s)
  <2> DEFINE l == [p EXCEPT !.pc = IF p.adapter \in GitHooks THEN "command" ELSE "text",
                            !.before = disk[p.adapter]]
  <2>1. p.adapter \in Adapters /\ disk[p.adapter] \in File
    BY <1>1, <1>6 DEF Capture, DataTyped, p
  <2>2. l \in Locals /\ l.adapter = p.adapter
    BY <1>1, <2>1 DEF Locals, PCs
  <2> QED  BY <1>6, <2>1, <2>2 DEF Capture, p
<1>7. CASE Command(s)
  <2> DEFINE l == [p EXCEPT !.pc = IF p.adapter \in GitHooks THEN "text" ELSE "publish",
                            !.cmd = IF Effective(s) = None THEN "plain" ELSE "pinned"]
  <2>1. l \in Locals /\ l.adapter = p.adapter
    BY <1>1 DEF Locals, PCs, Commands
  <2> QED  BY <1>1, <1>7, <2>1 DEF Command, p
<1>8. CASE ReadText(s)
  <2> DEFINE l == [p EXCEPT !.pc = IF p.adapter \in GitHooks THEN "publish" ELSE "command",
                            !.text = disk[p.adapter]]
  <2>1. p.adapter \in Adapters /\ disk[p.adapter] \in File
    BY <1>1, <1>8 DEF ReadText, DataTyped, p
  <2>2. l \in Locals /\ l.adapter = p.adapter
    BY <1>1, <2>1 DEF Locals, PCs
  <2> QED  BY <1>8, <2>1, <2>2 DEF ReadText, p
<1>9. CASE Publish(s)
  <2>1. [p EXCEPT !.pc = "chmod"] \in Locals
    BY <1>1 DEF Locals, PCs
  <2>2. [p EXCEPT !.pc = "chmod"].adapter = p.adapter
    BY <1>1 DEF Locals
  <2> QED  BY <1>1, <1>9, <2>1, <2>2 DEF Publish, p
<1>10. CASE Chmod(s)
  <2>1. [p EXCEPT !.pc = "record"] \in Locals
    BY <1>1 DEF Locals, PCs
  <2>2. [p EXCEPT !.pc = "record"].adapter = p.adapter
    BY <1>1 DEF Locals
  <2> QED  BY <1>1, <1>10, <2>1, <2>2 DEF Chmod, p
<1>11. CASE Record(s) \/ Stop(s)
  <2>1. Set(s, Idle) /\ Idle.pc = "idle"
    BY <1>11 DEF Record, Stop, Idle
  <2> QED  BY <2>1, IdleTyped
<1> QED  BY <1>2, <1>3, <1>4, <1>5, <1>6, <1>7, <1>8, <1>9, <1>10, <1>11 DEF Step

\* The files and manifests keep their types.
LEMMA DataStep == ASSUME TypeInv, NEW s \in Slots, Step(s) PROVE DataTyped'
<1> DEFINE a == proc[s].adapter
<1> USE DEF At
<1>1. /\ DataTyped /\ proc \in [Slots -> Locals] /\ (proc[s].pc # "idle" => a \in Adapters)
      /\ proc[s].id \in 0..MaxInstalls
  BY TypeParts, LocalsTyped
<1>2. ASSUME NEW h \in Adapters, NEW b \in Bases \union {None}, Begin(s, h, b) PROVE DataTyped'
  <2>1. installs + 1 \in 0..MaxInstalls
    BY <1>1, <1>2, HookAssumption DEF Begin, DataTyped
  <2> QED  BY <1>1, <1>2, <2>1 DEF Begin, DataTyped, othersVars, historyVars
<1>3. ASSUME Reads PROVE DataTyped'
  BY <1>1, <1>3 DEF Reads, DataTyped, othersVars, historyVars
<1>4. CASE \/ ResolveBase(s) \/ CopyManifest(s) \/ ResolveAgain(s) \/ Capture(s) \/ Command(s)
           \/ ReadText(s) \/ Stop(s)
  BY <1>3, <1>4 DEF ResolveBase, CopyManifest, ResolveAgain, Capture, Command, ReadText, Stop
<1>5. CASE Publish(s)
  BY <1>1, <1>5, WrittenTyped DEF Publish, DataTyped, othersVars
<1>6. CASE Chmod(s)
  <2> DEFINE e == a \in GitHooks \/ proc[s].before.exec
  <2>1. a \in Adapters /\ disk[a] \in File /\ e \in BOOLEAN
    BY <1>1, <1>6, LocalsTyped, FilesTyped DEF Chmod, DataTyped
  <2>2. disk' = [disk EXCEPT ![a] = [disk[a] EXCEPT !.exec = e]]
    BY <1>6 DEF Chmod
  <2>3. [disk[a] EXCEPT !.exec = e] \in File
    BY <2>1, FilesTyped
  <2> QED  BY <1>1, <1>6, <2>2, <2>3 DEF Chmod, DataTyped, othersVars, historyVars
<1>7. CASE Record(s)
  <2>1. manifest' \in TypedManifests /\ overtaken' \in BOOLEAN
    BY <1>1, <1>7, WrittenTyped DEF Record, DataTyped
  <2> QED  BY <1>1, <1>7, <2>1 DEF Record, DataTyped, othersVars
<1> QED  BY <1>2, <1>4, <1>5, <1>6, <1>7 DEF Step

\* Every step keeps the types.
LEMMA TypeStep == TypeInv /\ [Next]_vars => TypeInv'
<1> SUFFICES ASSUME TypeInv, [Next]_vars PROVE TypeInv'
  OBVIOUS
<1>1. /\ DataTyped /\ proc \in [Slots -> Locals]
      /\ \A s \in Slots : proc[s].pc # "idle" => proc[s].adapter \in Adapters
  BY TypeParts
<1>2. /\ DataTyped' /\ proc' \in [Slots -> Locals]
      /\ \A s \in Slots : proc'[s].pc # "idle" => proc'[s].adapter \in Adapters
  <2>1. CASE Others
    BY <1>1, <2>1, OthersTyped
  <2>2. ASSUME NEW s \in Slots, Step(s)
        PROVE  /\ DataTyped' /\ proc' \in [Slots -> Locals]
               /\ \A t \in Slots : proc'[t].pc # "idle" => proc'[t].adapter \in Adapters
    <3>1. PICK l \in Locals : Set(s, l) /\ (l.pc # "idle" => l.adapter \in Adapters)
      BY <2>2, LocalsStep
    <3>2. /\ proc'[s] = l /\ \A t \in Slots : t # s => proc'[t] = proc[t]
          /\ proc' \in [Slots -> Locals]
      BY <1>1, <3>1, SetLocals
    <3> QED  BY <1>1, <2>2, <3>1, <3>2, DataStep
  <2>3. CASE UNCHANGED vars
    BY <1>1, <2>3 DEF vars, othersVars, historyVars, DataTyped
  <2> QED  BY <2>1, <2>2, <2>3 DEF Next
<1>3. TypeInv' <=> ( /\ DataTyped /\ proc \in [Slots -> Locals]
                     /\ \A s \in Slots : proc[s].pc # "idle" => proc[s].adapter \in Adapters )'
  BY TypeParts, PTL
<1> QED  BY <1>2, <1>3

-----------------------------------------------------------------------------
(* The locals after each step, field by field.                             *)

\* The locals of q that a step which only decides something leaves as in p.
SameJob(q, p) == q.adapter = p.adapter /\ q.id = p.id /\ q.pc # "idle"
SameManifests(q, p) == q.copy = p.copy /\ q.saw = p.saw /\ q.base = p.base


\* The locals are what the step says, and the locals before it are well typed.
LEMMA Moved ==
    ASSUME TypeInv, NEW s \in Slots, NEW l, Set(s, l)
    PROVE  proc[s] \in Locals /\ proc'[s] = l
  BY TypeParts, SetLocals

\* Where a process is after it has found the base directory.
LEMMA ResolveBaseMoves ==
    ASSUME TypeInv, NEW s \in Slots, ResolveBase(s)
    PROVE  /\ SameJob(proc'[s], proc[s]) /\ proc'[s].pc = "copy"
           /\ proc'[s].copy = proc[s].copy /\ proc'[s].saw = proc[s].saw
<1>1. /\ proc[s] \in Locals
      /\ proc'[s] = [proc[s] EXCEPT !.pc = "copy", !.base = Effective(s)]
  BY Moved DEF ResolveBase
<1> QED  BY <1>1 DEF Locals, SameJob

\* Where a process is after it has copied the manifest.
LEMMA CopyManifestMoves ==
    ASSUME TypeInv, NEW s \in Slots, CopyManifest(s), NEW q, q = proc'[s]
    PROVE  /\ SameJob(q, proc[s]) /\ q.saw = manifest /\ q.base = Effective(s)
           /\ q.pc = IF Effective(s) = None THEN "again" ELSE "capture"
           /\ q.copy.record = manifest.record /\ q.copy.base = q.base /\ q.cmd = proc[s].cmd
<1> DEFINE m == [manifest EXCEPT !.base = Effective(s)]
<1>1. m.record = manifest.record /\ m.base = Effective(s)
  BY TypeParts DEF DataTyped, TypedManifests, Manifests
<1> HIDE DEF m
<1>2. proc[s] \in Locals /\ q = [proc[s] EXCEPT !.pc = IF Effective(s) = None THEN "again"
                                                       ELSE "capture",
                                                !.base = Effective(s), !.saw = manifest,
                                                !.copy = m]
  BY Moved DEF CopyManifest, m
<1> QED  BY <1>1, <1>2 DEF Locals, SameJob

\* Where a process is after it has found its target again.
LEMMA ResolveAgainMoves ==
    ASSUME TypeInv, NEW s \in Slots, ResolveAgain(s), NEW q, q = proc'[s]
    PROVE  /\ SameJob(q, proc[s]) /\ q.saw = proc[s].saw /\ q.base = manifest.base
           /\ q.pc = "capture" /\ q.copy.record = proc[s].copy.record
           /\ q.copy.base = q.base /\ q.cmd = proc[s].cmd
<1> DEFINE m == [proc[s].copy EXCEPT !.base = manifest.base]
<1>1. /\ proc[s] \in Locals
      /\ q = [proc[s] EXCEPT !.pc = "capture", !.base = manifest.base,
                             !.copy.base = manifest.base]
  BY Moved DEF ResolveAgain
<1>2. m.record = proc[s].copy.record /\ m.base = manifest.base
  BY <1>1, LocalsTyped DEF TypedManifests, Manifests
<1>3. q = [proc[s] EXCEPT !.pc = "capture", !.base = manifest.base, !.copy = m]
  BY <1>1 DEF Locals
<1> HIDE DEF m
<1> QED  BY <1>1, <1>2, <1>3 DEF Locals, SameJob

\* Where a process is after it has captured the hook.
LEMMA CaptureMoves ==
    ASSUME TypeInv, NEW s \in Slots, Capture(s), NEW q, q = proc'[s], NEW p, p = proc[s]
    PROVE  /\ SameJob(q, p) /\ SameManifests(q, p) /\ q.cmd = p.cmd
           /\ q.before = disk[p.adapter]
           /\ q.pc = IF p.adapter \in GitHooks THEN "command" ELSE "text"
<1>1. /\ p \in Locals
      /\ q = [p EXCEPT !.pc = IF p.adapter \in GitHooks THEN "command" ELSE "text",
                       !.before = disk[p.adapter]]
  BY Moved DEF Capture
<1> QED  BY <1>1 DEF Locals, SameJob, SameManifests

\* Where a process is after it has settled its command.
LEMMA CommandMoves ==
    ASSUME TypeInv, NEW s \in Slots, Command(s), NEW q, q = proc'[s], NEW p, p = proc[s]
    PROVE  /\ SameJob(q, p) /\ SameManifests(q, p) /\ q.before = p.before /\ q.text = p.text
           /\ q.pc = IF p.adapter \in GitHooks THEN "text" ELSE "publish"
           /\ q.cmd = IF Effective(s) = None THEN "plain" ELSE "pinned"
<1>1. /\ p \in Locals
      /\ q = [p EXCEPT !.pc = IF p.adapter \in GitHooks THEN "text" ELSE "publish",
                       !.cmd = IF Effective(s) = None THEN "plain" ELSE "pinned"]
  BY Moved DEF Command
<1> QED  BY <1>1 DEF Locals, SameJob, SameManifests

\* Where a process is after it has read the text it will replace.
LEMMA ReadTextMoves ==
    ASSUME TypeInv, NEW s \in Slots, ReadText(s), NEW q, q = proc'[s], NEW p, p = proc[s]
    PROVE  /\ SameJob(q, p) /\ SameManifests(q, p) /\ q.cmd = p.cmd
           /\ q.before = p.before /\ q.text = disk[p.adapter]
           /\ q.pc = IF p.adapter \in GitHooks THEN "publish" ELSE "command"
<1>1. /\ p \in Locals
      /\ q = [p EXCEPT !.pc = IF p.adapter \in GitHooks THEN "publish" ELSE "command",
                       !.text = disk[p.adapter]]
  BY Moved DEF ReadText
<1> QED  BY <1>1 DEF Locals, SameJob, SameManifests

\* Where a process is after it has written the hook.
LEMMA WriteMoves ==
    ASSUME TypeInv, NEW s \in Slots, Publish(s) \/ Chmod(s), NEW q, q = proc'[s],
           NEW p, p = proc[s]
    PROVE  /\ SameJob(q, p) /\ SameManifests(q, p) /\ q.cmd = p.cmd /\ q.text = p.text
           /\ q.pc = IF At(s, "publish") THEN "chmod" ELSE "record"
<1>1. CASE Publish(s)
  <2>1. p \in Locals /\ q = [p EXCEPT !.pc = "chmod"] /\ p.pc = "publish"
    BY <1>1, Moved DEF Publish, At
  <2> QED  BY <2>1 DEF Locals, SameJob, SameManifests, At
<1>2. CASE Chmod(s)
  <2>1. p \in Locals /\ q = [p EXCEPT !.pc = "record"] /\ p.pc = "chmod"
    BY <1>2, Moved DEF Chmod, At
  <2> QED  BY <2>1 DEF Locals, SameJob, SameManifests, At
<1> QED  BY <1>1, <1>2

\* Beginning and ending leave nothing of an earlier install in the locals.
LEMMA EndMoves ==
    ASSUME TypeInv, NEW s \in Slots
    PROVE  /\ Record(s) \/ Stop(s) => proc'[s] = Idle
           /\ \A a \in Adapters, b \in Bases \union {None} : Begin(s, a, b) =>
                /\ proc'[s].pc = "resolve" /\ proc'[s].id = installs + 1
                /\ proc'[s].adapter = a /\ proc'[s].copy = Empty /\ proc'[s].saw = Empty
<1>1. Record(s) \/ Stop(s) => proc'[s] = Idle
  BY Moved DEF Record, Stop
<1>2. ASSUME NEW a \in Adapters, NEW b \in Bases \union {None}, Begin(s, a, b)
      PROVE  /\ proc'[s].pc = "resolve" /\ proc'[s].id = installs + 1
             /\ proc'[s].adapter = a /\ proc'[s].copy = Empty /\ proc'[s].saw = Empty
  <2>1. proc'[s] = [Idle EXCEPT !.pc = "resolve", !.adapter = a, !.base = b, !.id = installs + 1]
    BY <1>2, Moved DEF Begin
  <2> QED  BY <2>1 DEF Idle
<1> QED  BY <1>1, <1>2

\* The other installs' locals are theirs.
LEMMA OthersLocals ==
    ASSUME TypeInv, NEW s \in Slots, Step(s), NEW t \in Slots, t # s
    PROVE  proc'[t] = proc[t]
  BY LocalsStep, TypeParts, SetLocals

\* Every manifest in use has a number for each hook.
LEMMA ByTyped ==
    ASSUME NEW m \in TypedManifests, NEW a \in Adapters
    PROVE  /\ m.record[a].by \in 0..MaxInstalls /\ m.record[a].cmds \in SUBSET Commands
           /\ m.record[a].user \in Texts \union {None}
  BY DEF TypedManifests, Manifests

-----------------------------------------------------------------------------
(* The numbers.                                                            *)

\* No install is under way at the start, and no record bears a number.
LEMMA NumberedInit == Init => Numbered
<1> SUFFICES ASSUME Init PROVE Numbered
  OBVIOUS
<1>1. Idle.pc = "idle" /\ Idle.copy = Empty /\ Idle.saw = Empty
  BY DEF Idle
<1>2. \A a \in Adapters : Empty.record[a].by = 0 /\ manifest.record[a].by = 0
  BY RepoAssumption DEF Init, Empty, NoRecord
<1> QED  BY <1>1, <1>2 DEF Init, Numbered, Unrecorded, At

\* A manifest free of the numbers in use stays so as long as the only new number
\* is larger than all before.
LEMMA StaysUnrecorded ==
    ASSUME NEW m \in TypedManifests, NEW n \in 0..MaxInstalls, NEW k \in 0..MaxInstalls, n <= k,
           NEW p \in [Slots -> Locals], NEW q \in [Slots -> Locals],
           \A s \in Slots : q[s].pc # "idle" => \/ p[s].pc # "idle" /\ q[s].id = p[s].id
                                                \/ q[s].id > n,
           Unrecorded(m, n, p)
    PROVE  Unrecorded(m, k, q)
<1> SUFFICES ASSUME NEW a \in Adapters
             PROVE  /\ m.record[a].by <= k
                    /\ \A s \in Slots : q[s].pc # "idle" => m.record[a].by # q[s].id
  BY DEF Unrecorded
<1>1. m.record[a].by \in 0..MaxInstalls /\ m.record[a].by <= n
  BY ByTyped DEF Unrecorded
<1>2. \A s \in Slots : p[s].id \in 0..MaxInstalls /\ q[s].id \in 0..MaxInstalls
  BY LocalsTyped
<1> QED  BY <1>1, <1>2, HookAssumption DEF Unrecorded

\* The numbers, when a step leaves the manifests it does not make alone.
LEMMA NumberedKept ==
    ASSUME TypeInv, TypeInv', Numbered,
           \A s \in Slots : proc'[s].pc # "idle" =>
               \/ proc[s].pc # "idle" /\ proc'[s].id = proc[s].id
               \/ proc'[s].id > installs /\ proc'[s].id <= installs',
           \A s, t \in Slots : proc'[s].pc # "idle" /\ proc'[t].pc # "idle" /\ s # t =>
               \/ proc'[s].id = proc[s].id /\ proc[s].pc # "idle"
               \/ proc'[t].id = proc[t].id /\ proc[t].pc # "idle",
           installs <= installs'
    PROVE  /\ \A s \in Slots : ~At(s, "idle")' => proc'[s].id \in 1..installs'
           /\ \A s, t \in Slots : /\ ~At(s, "idle")' /\ ~At(t, "idle")'
                                  /\ proc'[s].id = proc'[t].id
                                  => s = t
           /\ \A m \in TypedManifests :
                Unrecorded(m, installs, proc) => Unrecorded(m, installs', proc')
<1>1. /\ proc \in [Slots -> Locals] /\ proc' \in [Slots -> Locals]
      /\ installs \in 0..MaxInstalls /\ installs' \in 0..MaxInstalls
  BY DEF TypeInv, TypeOK
<1>2. \A s \in Slots : proc[s].id \in 0..MaxInstalls /\ proc'[s].id \in 0..MaxInstalls
  BY <1>1, LocalsTyped
<1>3. \A s \in Slots : ~At(s, "idle")' => proc'[s].id \in 1..installs'
  BY <1>1, <1>2, HookAssumption DEF Numbered, At
<1>4. \A s, t \in Slots : /\ ~At(s, "idle")' /\ ~At(t, "idle")'
                          /\ proc'[s].id = proc'[t].id
                          => s = t
  BY <1>1, <1>2, HookAssumption DEF Numbered, At
<1>5. \A m \in TypedManifests :
        Unrecorded(m, installs, proc) => Unrecorded(m, installs', proc')
  BY <1>1, StaysUnrecorded
<1> QED  BY <1>3, <1>4, <1>5

\* Only records count.
LEMMA SameRecords ==
    ASSUME NEW m, NEW w, m.record = w.record, NEW n, NEW p, Unrecorded(w, n, p)
    PROVE  Unrecorded(m, n, p)
  BY DEF Unrecorded

\* The empty manifest bears the number of no install under way.
LEMMA EmptyUnrecorded ==
    ASSUME Numbered, TypeInv PROVE Unrecorded(Empty, installs, proc)
<1>1. \A a \in Adapters : Empty.record[a].by = 0
  BY DEF Empty, NoRecord
<1>2. installs \in 0..MaxInstalls /\ \A s \in Slots : ~At(s, "idle") => proc[s].id \in 1..installs
  BY DEF Numbered, TypeInv, TypeOK
<1> QED  BY <1>1, <1>2 DEF Unrecorded, At

\* Every install begun gets a number of its own, which no manifest bears before
\* that install has recorded itself.
LEMMA NumberedStep == ASSUME TypeInv, TypeInv', Numbered, [Next]_vars PROVE Numbered'
<1> USE DEF At
<1>1. /\ proc \in [Slots -> Locals] /\ manifest \in TypedManifests
      /\ manifest' \in TypedManifests /\ installs \in 0..MaxInstalls
  BY TypeParts DEF TypeInv, TypeOK, TypedManifests, IsManifest
<1>2. \A s \in Slots : proc[s].copy \in TypedManifests /\ proc[s].saw \in TypedManifests
  BY <1>1, LocalsTyped
<1>3. ASSUME UNCHANGED <<proc, installs>>, manifest' = manifest \/ manifest' = Empty
      PROVE  Numbered'
  <2>1. Unrecorded(manifest', installs, proc)
    BY <1>3, EmptyUnrecorded DEF Numbered
  <2> QED  BY <1>3, <2>1 DEF Numbered
<1>4. ASSUME NEW s \in Slots, Step(s) PROVE Numbered'
  <2> DEFINE p == proc[s]  q == proc'[s]
  <2>1. \A t \in Slots : t # s => proc'[t] = proc[t]
    BY <1>4, OthersLocals
  <2>2. ASSUME installs' \in 0..MaxInstalls, installs <= installs',
               q.pc # "idle" => \/ p.pc # "idle" /\ q.id = p.id
                                \/ q.id > installs /\ q.id <= installs',
               \E w \in TypedManifests : /\ q.copy.record = w.record
                                         /\ Unrecorded(w, installs, proc),
               \E w \in TypedManifests : /\ q.saw.record = w.record
                                         /\ Unrecorded(w, installs, proc),
               Unrecorded(manifest', installs', proc')
        PROVE  Numbered'
    <3> HIDE DEF p, q
    <3>1. \A t \in Slots : proc'[t].pc # "idle" =>
               \/ proc[t].pc # "idle" /\ proc'[t].id = proc[t].id
               \/ proc'[t].id > installs /\ proc'[t].id <= installs'
      BY <2>1, <2>2 DEF p, q
    <3>2. \A t, u \in Slots : proc'[t].pc # "idle" /\ proc'[u].pc # "idle" /\ t # u =>
               \/ proc'[t].id = proc[t].id /\ proc[t].pc # "idle"
               \/ proc'[u].id = proc[u].id /\ proc[u].pc # "idle"
      BY <2>1
    <3>3. /\ \A t \in Slots : ~At(t, "idle")' => proc'[t].id \in 1..installs'
          /\ \A t, u \in Slots : /\ ~At(t, "idle")' /\ ~At(u, "idle")'
                                 /\ proc'[t].id = proc'[u].id
                                 => t = u
          /\ \A m \in TypedManifests :
               Unrecorded(m, installs, proc) => Unrecorded(m, installs', proc')
      BY <2>2, <3>1, <3>2, NumberedKept
    <3>4. Unrecorded(q.copy, installs', proc') /\ Unrecorded(q.saw, installs', proc')
      BY <2>2, <3>3, SameRecords
    <3>5. \A t \in Slots : t # s => /\ Unrecorded(proc'[t].copy, installs', proc')
                                    /\ Unrecorded(proc'[t].saw, installs', proc')
      BY <1>2, <2>1, <3>3 DEF Numbered
    <3>6. \A t \in Slots : /\ Unrecorded(proc'[t].copy, installs', proc')
                           /\ Unrecorded(proc'[t].saw, installs', proc')
      BY <3>4, <3>5 DEF q
    <3> QED  BY <2>2, <3>3, <3>6 DEF Numbered
  <2>3. ASSUME UNCHANGED <<installs, manifest>>,
               q.pc # "idle" => p.pc # "idle" /\ q.id = p.id,
               \E w \in TypedManifests : /\ q.copy.record = w.record
                                         /\ Unrecorded(w, installs, proc),
               \E w \in TypedManifests : /\ q.saw.record = w.record
                                         /\ Unrecorded(w, installs, proc)
        PROVE  Numbered'
    <3>1. installs' \in 0..MaxInstalls /\ installs <= installs'
      BY <1>1, <2>3
    <3>2. \A t \in Slots : proc'[t].pc # "idle" => proc[t].pc # "idle" /\ proc'[t].id = proc[t].id
      BY <2>1, <2>3
    <3>3. Unrecorded(manifest', installs', proc')
      BY <2>3, <3>2 DEF Numbered, Unrecorded
    <3> QED  BY <2>2, <2>3, <3>1, <3>3
  <2>4. /\ \E w \in TypedManifests : w = manifest /\ Unrecorded(w, installs, proc)
        /\ \E w \in TypedManifests : w = p.copy /\ Unrecorded(w, installs, proc)
        /\ \E w \in TypedManifests : w = p.saw /\ Unrecorded(w, installs, proc)
        /\ \E w \in TypedManifests : w = Empty /\ Unrecorded(w, installs, proc)
    BY <1>1, <1>2, EmptyUnrecorded, ManifestsTyped DEF Numbered
  <2> HIDE DEF p, q
  <2>5. ASSUME NEW a \in Adapters, NEW b \in Bases \union {None}, Begin(s, a, b) PROVE Numbered'
    <3>1. /\ q.pc = "resolve" /\ q.id = installs + 1 /\ q.copy = Empty /\ q.saw = Empty
      BY <2>5, EndMoves DEF q
    <3>2. installs' = installs + 1 /\ manifest' = manifest /\ installs' \in 0..MaxInstalls
      BY <1>1, <2>5, HookAssumption DEF Begin, TypeInv, TypeOK
    <3>3. installs <= installs' /\ q.id > installs /\ q.id <= installs'
      BY <1>1, <3>1, <3>2
    <3>4. \A x \in Adapters : manifest.record[x].by <= installs'
      BY <1>1, <3>2, ByTyped, HookAssumption DEF Numbered, Unrecorded
    <3>5. \A x \in Adapters : manifest.record[x].by # q.id
      BY <1>1, <3>1, ByTyped, HookAssumption DEF Numbered, Unrecorded
    <3>6. Unrecorded(manifest', installs', proc')
      BY <2>1, <3>2, <3>4, <3>5 DEF Numbered, Unrecorded, q
    <3> QED  BY <2>2, <2>4, <3>1, <3>2, <3>3, <3>6
  <2>6. CASE ResolveBase(s)
    <3>1. p.pc # "idle" /\ UNCHANGED <<installs, manifest>>
      BY <2>6 DEF ResolveBase, Reads, p
    <3>2. SameJob(q, p) /\ q.copy = p.copy /\ q.saw = p.saw
      BY <2>6, ResolveBaseMoves DEF p, q
    <3> QED  BY <2>3, <2>4, <3>1, <3>2 DEF SameJob
  <2>7. CASE CopyManifest(s)
    <3>1. p.pc # "idle" /\ UNCHANGED <<installs, manifest>>
      BY <2>7 DEF CopyManifest, Reads, p
    <3>2. SameJob(q, p) /\ q.copy.record = manifest.record /\ q.saw = manifest
      BY <2>7, CopyManifestMoves DEF p, q
    <3> QED  BY <2>3, <2>4, <3>1, <3>2 DEF SameJob
  <2>8. CASE ResolveAgain(s)
    <3>1. p.pc # "idle" /\ UNCHANGED <<installs, manifest>>
      BY <2>8 DEF ResolveAgain, Reads, p
    <3>2. SameJob(q, p) /\ q.copy.record = p.copy.record /\ q.saw = p.saw
      BY <2>8, ResolveAgainMoves DEF p, q
    <3> QED  BY <2>3, <2>4, <3>1, <3>2 DEF SameJob
  <2>9. CASE \/ Capture(s) \/ Command(s) \/ ReadText(s) \/ Publish(s) \/ Chmod(s)
    <3>1. p.pc # "idle" /\ UNCHANGED <<installs, manifest>>
      BY <2>9 DEF Capture, Command, ReadText, Publish, Chmod, Reads, p
    <3>2. SameJob(q, p) /\ SameManifests(q, p)
      BY <2>9, CaptureMoves, CommandMoves, ReadTextMoves, WriteMoves DEF p, q
    <3> QED  BY <2>3, <2>4, <3>1, <3>2 DEF SameJob, SameManifests
  <2>10. CASE Stop(s)
    <3>1. q.pc = "idle" /\ q.copy = Empty /\ q.saw = Empty /\ UNCHANGED <<installs, manifest>>
      BY <2>10, EndMoves DEF Stop, Reads, q, Idle
    <3> QED  BY <2>3, <2>4, <3>1
  <2>11. CASE Record(s)
    <3>1. q.pc = "idle" /\ q.copy = Empty /\ q.saw = Empty /\ installs' = installs
      BY <2>11, EndMoves DEF Record, q, Idle
    <3>2. /\ p.pc # "idle" /\ p.adapter \in Adapters /\ p.copy \in TypedManifests
          /\ p.id \in 1..installs
      BY <1>2, <2>11 DEF Record, TypeInv, Numbered, p
    <3>3. /\ manifest' = [p.copy EXCEPT !.record[p.adapter] = Digest(s)]
          /\ Digest(s).by = p.id
      BY <2>11 DEF Record, Digest, p
    <3>4. \A x \in Adapters : \/ manifest'.record[x].by = p.id
                              \/ manifest'.record[x].by = p.copy.record[x].by
      BY <3>2, <3>3 DEF TypedManifests, Manifests
    <3>5. \A x \in Adapters : p.copy.record[x].by <= installs
      BY DEF Numbered, Unrecorded, p
    <3>6. \A t \in Slots : proc'[t].pc # "idle" =>
             t # s /\ proc'[t] = proc[t] /\ proc[t].id # p.id
      BY <2>1, <3>1, <3>2 DEF Numbered, p, q
    <3>7. Unrecorded(manifest', installs', proc')
      BY <1>1, <3>1, <3>2, <3>4, <3>5, <3>6 DEF Numbered, Unrecorded, p
    <3> QED  BY <1>1, <2>2, <2>4, <3>1, <3>7
  <2> QED  BY <1>4, <2>5, <2>6, <2>7, <2>8, <2>9, <2>10, <2>11 DEF Step
<1>5. CASE Others
  <2>1. UNCHANGED <<proc, installs>> /\ (manifest' = manifest \/ manifest' = Empty)
    BY <1>5 DEF Others, LoseManifest, TakeOut, Delete, Edit, Leave
  <2> QED  BY <1>3, <2>1
<1>6. CASE UNCHANGED vars
  BY <1>3, <1>6 DEF vars
<1> QED  BY <1>4, <1>5, <1>6 DEF Next

-----------------------------------------------------------------------------
(* What the manifest says of a hook.                                       *)

\* A manifest without records speaks of no hook.
LEMMA EmptySpeaks == \A w, f : Speaks(Empty, w, f)
  BY DEF Empty, NoRecord, Speaks

\* At the start the manifest speaks of what is there.
LEMMA SpokenInit == Init => Spoken
<1> SUFFICES ASSUME Init PROVE Spoken
  OBVIOUS
<1>1. PICK r \in InitialRepos : disk = r.disk /\ manifest = r.manifest
  BY DEF Init
<1>2. Speaks(manifest, writer, installed)
  BY <1>1, RepoAssumption DEF Init, Speaks
<1>3. \A s \in Slots : proc[s].copy = Empty /\ proc[s].pc = "idle"
  BY DEF Init, Idle
<1> QED  BY <1>2, <1>3, EmptySpeaks DEF Spoken, At

\* Writing a hook under a number the manifest does not hold leaves what it says
\* of others'.
LEMMA StaysSpoken ==
    ASSUME NEW m, NEW w, NEW f, NEW a \in Adapters, NEW n, NEW g, m.record[a].by # n,
           w \in [Adapters -> 0..MaxInstalls], f \in [Adapters -> File], Speaks(m, w, f)
    PROVE  Speaks(m, [w EXCEPT ![a] = n], [f EXCEPT ![a] = g])
  BY DEF Speaks

\* The record an install makes of what it wrote speaks of it.
LEMMA RecordSpeaks ==
    ASSUME TypeInv, NEW s \in Slots, NEW a \in Adapters, a = proc[s].adapter, NEW w, NEW f,
           Speaks(proc[s].copy, w, f), w[a] = proc[s].id => f[a] = Merged(s)
    PROVE  Speaks([proc[s].copy EXCEPT !.record[a] = Digest(s)], w, f)
<1> DEFINE p == proc[s]  m == [p.copy EXCEPT !.record[a] = Digest(s)]
<1>1. p.copy \in TypedManifests /\ p.cmd \in Commands
  BY LocalsTyped DEF TypeInv
<1>2. m.record[a] = Digest(s) /\ \A x \in Adapters : x # a => m.record[x] = p.copy.record[x]
  BY <1>1 DEF TypedManifests, Manifests
<1>3. Digest(s).by = p.id /\ Matches(Digest(s), Covered(a, Merged(s)))
  BY DEF Digest, Matches
<1>4. a # Cursor => Merged(s).cmds = {p.cmd}
  BY DEF Merged
<1>5. a # Cursor => Merged(s).cmds # Commands
  BY <1>4 DEF Commands
<1>6. a \in GitHooks => Digest(s).user = None
  BY DEF Digest, Merged, Covered
<1> HIDE DEF m
<1>7. Speaks(m, w, f)
  BY <1>2, <1>3, <1>5, <1>6 DEF Speaks
<1> QED  BY <1>7 DEF m

\* Manifests with the same records say the same of the hooks.
LEMMA SameRecordsSpeak ==
    ASSUME NEW m, NEW v, m.record = v.record, NEW w, NEW f, Speaks(v, w, f)
    PROVE  Speaks(m, w, f)
  BY DEF Speaks

\* A record with the number of a hook's last writer says what that one wrote,
\* in the manifest and in every copy of it.
LEMMA SpokenStep == ASSUME TypeInv, TypeInv', Numbered, Spoken, [Next]_vars PROVE Spoken'
<1> USE DEF At
<1> DEFINE Merger(t) == /\ proc[t].pc \in {"chmod", "record"}
                        /\ writer[proc[t].adapter] = proc[t].id
                        => installed[proc[t].adapter] = Merged(t)
<1>1. /\ writer \in [Adapters -> 0..MaxInstalls] /\ installed \in [Adapters -> File]
      /\ \A t \in Slots : Merger(t) /\ Speaks(proc[t].copy, writer, installed)
      /\ Speaks(manifest, writer, installed)
  BY DEF TypeInv, TypeOK, Spoken
<1>2. ASSUME UNCHANGED <<proc, writer, installed>>, manifest' = manifest \/ manifest' = Empty
      PROVE  Spoken'
  BY <1>1, <1>2, EmptySpeaks DEF Spoken, Merged
<1>3. ASSUME NEW s \in Slots, Step(s) PROVE Spoken'
  <2> DEFINE p == proc[s]  q == proc'[s]  a == proc[s].adapter
  <2>1. \A t \in Slots : t # s => proc'[t] = proc[t] /\ Merged(t)' = Merged(t)
    BY <1>3, OthersLocals DEF Merged
  <2>2. ASSUME UNCHANGED <<writer, installed>>,
               Speaks(manifest', writer, installed), Speaks(q.copy, writer, installed),
               Merger(s)'
        PROVE  Spoken'
    <3>1. \A t \in Slots : Speaks(proc'[t].copy, writer, installed)
      BY <1>1, <2>1, <2>2
    <3>2. \A t \in Slots : t # s => Merger(t)'
      BY <1>1, <2>1, <2>2
    <3> HIDE DEF p, q, a
    <3> QED  BY <2>2, <3>1, <3>2 DEF Spoken
  <2>3. ASSUME NEW h \in Adapters, NEW b \in Bases \union {None}, Begin(s, h, b) PROVE Spoken'
    <3>1. q.pc = "resolve" /\ q.copy = Empty /\ UNCHANGED <<writer, installed, manifest>>
      BY <2>3, EndMoves DEF Begin, historyVars
    <3> QED  BY <1>1, <2>2, <3>1, EmptySpeaks
  <2>4. CASE \/ ResolveBase(s) \/ CopyManifest(s) \/ ResolveAgain(s)
    <3>1. UNCHANGED <<writer, installed, manifest>>
      BY <2>4 DEF ResolveBase, CopyManifest, ResolveAgain, Reads, historyVars
    <3>2. /\ q.copy.record = p.copy.record \/ q.copy.record = manifest.record
          /\ q.pc \in {"copy", "again", "capture"}
      BY <2>4, ResolveBaseMoves, CopyManifestMoves, ResolveAgainMoves
    <3>3. Speaks(q.copy, writer, installed)
      BY <1>1, <3>2, SameRecordsSpeak
    <3> QED  BY <1>1, <2>2, <3>1, <3>2, <3>3
  <2>5. CASE Capture(s) \/ Command(s) \/ ReadText(s)
    <3>1. UNCHANGED <<writer, installed, manifest>>
      BY <2>5 DEF Capture, Command, ReadText, Reads, historyVars
    <3>2. q.copy = p.copy /\ q.pc \in {"command", "text", "publish"}
      BY <2>5, CaptureMoves, CommandMoves, ReadTextMoves DEF SameManifests
    <3> QED  BY <1>1, <2>2, <3>1, <3>2
  <2>6. CASE Publish(s)
    <3>1. /\ writer' = [writer EXCEPT ![a] = p.id] /\ manifest' = manifest
          /\ installed' = [installed EXCEPT ![a] = Merged(s)] /\ p.pc = "publish"
      BY <2>6 DEF Publish
    <3>2. /\ q.copy = p.copy /\ q.base = p.base /\ q.cmd = p.cmd /\ q.text = p.text
          /\ q.adapter = a /\ q.id = p.id
      BY <2>6, WriteMoves DEF SameManifests, SameJob
    <3>3. a \in Adapters
      BY <3>1 DEF TypeInv
    <3>4. Merged(s)' = Merged(s)
      BY <3>2 DEF Merged
    <3>5. Speaks(manifest', writer', installed')
      BY <1>1, <3>1, <3>3, StaysSpoken DEF Numbered, Unrecorded
    <3>6. ASSUME NEW t \in Slots PROVE Speaks(proc'[t].copy, writer', installed')
      <4>1. proc'[t].copy = proc[t].copy
        BY <2>1, <3>2
      <4>2. proc[t].copy.record[a].by # p.id
        BY <3>1, <3>3 DEF Numbered, Unrecorded
      <4> QED  BY <1>1, <3>1, <3>3, <4>1, <4>2, StaysSpoken
    <3>7. ASSUME NEW t \in Slots PROVE Merger(t)'
      <4>1. CASE t = s
        BY <1>1, <3>1, <3>2, <3>3, <3>4, <4>1
      <4>2. CASE t # s
        <5>1. proc'[t] = proc[t] /\ Merged(t)' = Merged(t)
          BY <2>1, <4>2
        <5>2. proc[t].pc # "idle" => proc[t].id # p.id /\ proc[t].adapter \in Adapters
          BY <3>1, <4>2 DEF Numbered, TypeInv
        <5> HIDE DEF p, a
        <5> QED  BY <1>1, <3>1, <3>3, <5>1, <5>2
      <4> QED  BY <4>1, <4>2
    <3> QED  BY <3>5, <3>6, <3>7 DEF Spoken
  <2>7. CASE Chmod(s)
    <3>1. UNCHANGED <<writer, installed, manifest>> /\ p.pc = "chmod"
      BY <2>7 DEF Chmod, historyVars
    <3>2. /\ q.copy = p.copy /\ q.base = p.base /\ q.cmd = p.cmd /\ q.text = p.text
          /\ q.adapter = a /\ q.id = p.id
      BY <2>7, WriteMoves DEF SameManifests, SameJob
    <3>3. Merged(s)' = Merged(s)
      BY <3>2 DEF Merged
    <3> QED  BY <1>1, <2>2, <3>1, <3>2, <3>3
  <2>8. CASE Record(s)
    <3>1. /\ UNCHANGED <<writer, installed>> /\ p.pc = "record"
          /\ manifest' = [p.copy EXCEPT !.record[a] = Digest(s)]
      BY <2>8 DEF Record
    <3>2. q.copy = Empty /\ q.pc = "idle"
      BY <2>8, EndMoves DEF Idle
    <3>3. Speaks(manifest', writer, installed)
      BY <1>1, <3>1, RecordSpeaks DEF TypeInv
    <3> QED  BY <1>1, <2>2, <3>1, <3>2, <3>3, EmptySpeaks
  <2>9. CASE Stop(s)
    <3>1. UNCHANGED <<writer, installed, manifest>>
      BY <2>9 DEF Stop, Reads, historyVars
    <3>2. q.copy = Empty /\ q.pc = "idle"
      BY <2>9, EndMoves DEF Idle
    <3> QED  BY <1>1, <2>2, <3>1, <3>2, EmptySpeaks
  <2> QED  BY <1>3, <2>3, <2>4, <2>5, <2>6, <2>7, <2>8, <2>9 DEF Step
<1>4. CASE Others
  <2>1. UNCHANGED <<proc, writer, installed>> /\ (manifest' = manifest \/ manifest' = Empty)
    BY <1>4 DEF Others, LoseManifest, TakeOut, Delete, Edit, Leave, historyVars
  <2> QED  BY <1>2, <2>1
<1>5. CASE UNCHANGED vars
  BY <1>2, <1>5 DEF vars, historyVars
<1> QED  BY <1>3, <1>4, <1>5 DEF Next

-----------------------------------------------------------------------------
(* What others wrote.                                                      *)

\* At the start no install has looked at a hook, and each is as others left it.
LEMMA WindowsInit == Init => Windows /\ ForeignSurvives
<1> SUFFICES ASSUME Init PROVE Windows /\ ForeignSurvives
  OBVIOUS
<1>1. \A s \in Slots : proc[s].pc = "idle"
  BY DEF Init, Idle
<1>2. \A a \in Adapters : user[a] = disk[a].user
  BY DEF Init
<1> QED  BY <1>1, <1>2 DEF Windows, Keeps, TextRead, ForeignSurvives

\* Others change a file: an install that has looked at it is too late.
LEMMA LeaveKeeps ==
    ASSUME TypeInv, Windows, ForeignSurvives, NEW a \in Adapters, NEW f \in File, Leave(a, f)
    PROVE  Windows' /\ ForeignSurvives'
<1>1. /\ disk' = [disk EXCEPT ![a] = f] /\ user' = [user EXCEPT ![a] = f.user]
      /\ raced \subseteq raced' /\ patched \subseteq patched' /\ UNCHANGED proc
      /\ (\E s \in Slots : InWindow(s, a)) => a \in raced'
      /\ f.cmds # {} /\ (\E s \in Slots : BetweenLooks(s, a)) => a \in patched'
      /\ disk \in [Adapters -> File] /\ user \in [Adapters -> Texts \union {None}]
  BY DEF Leave, TypeInv, TypeOK
<1>2. ForeignSurvives'
  BY <1>1 DEF ForeignSurvives
<1>3. ASSUME NEW s \in Slots PROVE Keeps(proc[s], (raced \union patched)', user', disk')
  <2>1. Keeps(proc[s], raced \union patched, user, disk)
    BY DEF Windows
  <2>2. CASE proc[s].adapter = a
    <3>1. (InWindow(s, a) => a \in raced') /\ (f.cmds # {} /\ BetweenLooks(s, a) => a \in patched')
      BY <1>1
    <3>2. disk'[a] = f
      BY <1>1
    <3> QED  BY <2>2, <3>1, <3>2 DEF Keeps, TextRead, InWindow, BetweenLooks
  <2>3. CASE proc[s].adapter # a
    <3>1. user'[proc[s].adapter] = user[proc[s].adapter]
          /\ disk'[proc[s].adapter] = disk[proc[s].adapter]
      BY <1>1, <2>3
    <3> QED  BY <1>1, <2>1, <3>1 DEF Keeps, TextRead
  <2> QED  BY <2>2, <2>3
<1> QED  BY <1>1, <1>2, <1>3 DEF Windows

\* What an install is about to write keeps what others wrote last, unless they
\* wrote it behind its back; so nothing of theirs is overwritten otherwise.
LEMMA WindowsStep ==
    ASSUME TypeInv, TypeInv', Spoken, Windows, ForeignSurvives, [Next]_vars
    PROVE  Windows' /\ ForeignSurvives'
<1> USE DEF At
<1>1. disk \in [Adapters -> File] /\ user \in [Adapters -> Texts \union {None}]
  BY DEF TypeInv, TypeOK
<1>2. ASSUME UNCHANGED <<disk, proc, user, raced, patched>> PROVE Windows' /\ ForeignSurvives'
  BY <1>2 DEF Windows, ForeignSurvives
<1>3. ASSUME NEW s \in Slots, Step(s) PROVE Windows' /\ ForeignSurvives'
  <2> DEFINE p == proc[s]  q == proc'[s]  a == proc[s].adapter
  <2>1. \A t \in Slots : t # s => proc'[t] = proc[t]
    BY <1>3, OthersLocals
  <2>2. ASSUME UNCHANGED <<disk, user, raced, patched>>,
               Keeps(q, raced \union patched, user, disk)
        PROVE  Windows'
    <3>1. \A t \in Slots : Keeps(proc'[t], raced \union patched, user, disk)
      BY <2>1, <2>2 DEF Windows
    <3> QED  BY <2>2, <3>1 DEF Windows
  <2>3. Keeps(p, raced \union patched, user, disk)
    BY DEF Windows
  <2>4. ASSUME q.pc \notin {"command", "publish", "text"} PROVE Keeps(q, raced \union patched, user, disk)
    BY <2>4 DEF Keeps, TextRead
  <2>16. ASSUME UNCHANGED <<user, raced, patched>>, q.pc \notin {"command", "publish", "text"},
                NEW d, d = disk',
                \A t \in Slots : Keeps(proc[t], raced \union patched, user, d)
         PROVE  Windows'
    <3>1. Keeps(q, raced \union patched, user, d)
      BY <2>16 DEF Keeps, TextRead
    <3>2. \A t \in Slots : Keeps(proc'[t], raced \union patched, user, d)
      BY <2>1, <2>16, <3>1
    <3> QED  BY <2>16, <3>2 DEF Windows
  <2>5. UNCHANGED <<disk, user, raced, patched>> => ForeignSurvives'
    BY DEF ForeignSurvives
  <2>6. p.pc # "idle" => a \in Adapters
    BY DEF TypeInv
  <2>7. a \in Adapters \ (raced \union patched) => disk[a].user = user[a]
    BY DEF ForeignSurvives
  <2> HIDE DEF p, q, a
  <2>8. ASSUME NEW h \in Adapters, NEW b \in Bases \union {None}, Begin(s, h, b)
        PROVE  Windows' /\ ForeignSurvives'
    <3>1. q.pc = "resolve" /\ UNCHANGED <<disk, user, raced, patched>>
      BY <2>8, EndMoves DEF Begin, othersVars, q
    <3> QED  BY <2>2, <2>4, <2>5, <3>1
  <2>9. CASE \/ ResolveBase(s) \/ CopyManifest(s) \/ ResolveAgain(s)
    <3>1. UNCHANGED <<disk, user, raced, patched>>
      BY <2>9 DEF ResolveBase, CopyManifest, ResolveAgain, Reads, othersVars
    <3>2. q.pc \in {"copy", "again", "capture"}
      BY <2>9, ResolveBaseMoves, CopyManifestMoves, ResolveAgainMoves DEF q
    <3> QED  BY <2>2, <2>4, <2>5, <3>1, <3>2
  <2>10. CASE Capture(s)
    <3>1. UNCHANGED <<disk, user, raced, patched>> /\ a \in Adapters
      BY <2>6, <2>10 DEF Capture, Reads, othersVars, p
    <3>2. /\ q.adapter = a /\ q.before = disk[a]
          /\ q.pc = IF a \in GitHooks THEN "command" ELSE "text"
      BY <2>10, CaptureMoves DEF SameJob, p, q, a
    <3>3. Keeps(q, raced \union patched, user, disk)
      BY <2>7, <3>1, <3>2 DEF Keeps, TextRead
    <3> QED  BY <2>2, <2>5, <3>1, <3>3
  <2>11. CASE Command(s)
    <3>1. UNCHANGED <<disk, user, raced, patched>> /\ p.pc = "command"
      BY <2>11 DEF Command, Reads, othersVars, p
    <3>2. /\ q.adapter = a /\ q.before = p.before /\ q.text = p.text /\ p.adapter = a
          /\ q.pc = IF a \in GitHooks THEN "text" ELSE "publish"
      BY <2>11, CommandMoves DEF SameJob, p, q, a
    <3>3. Keeps(q, raced \union patched, user, disk)
      BY <2>3, <3>1, <3>2 DEF Keeps, TextRead
    <3> QED  BY <2>2, <2>5, <3>1, <3>3
  <2>12. CASE ReadText(s)
    <3>1. UNCHANGED <<disk, user, raced, patched>> /\ p.pc = "text" /\ a \in Adapters
      BY <2>6, <2>12 DEF ReadText, Reads, othersVars, p
    <3>2. /\ q.adapter = a /\ q.text = disk[a] /\ p.adapter = a
          /\ q.pc = IF a \in GitHooks THEN "publish" ELSE "command"
      BY <2>12, ReadTextMoves DEF SameJob, p, q, a
    <3>3. CASE a \in GitHooks
      <4>1. Replaceable(s, disk[a])
        BY <2>12, <3>3 DEF ReadText, a
      <4>2. p.copy.record[a].user = None
        BY <3>1, <3>3 DEF Spoken, Speaks, p
      <4>3. Covered(a, p.before).user = p.before.user
        BY <3>3, HookAssumption DEF Covered
      <4>4. a \notin raced \union patched /\ p.before.user = None /\ disk[a].cmds # {}
            => user[a] = None
        BY <2>3, <3>1, <3>2, <3>3 DEF Keeps
      <4>5. a \notin raced \union patched => user[a] = None
        BY <2>7, <3>1, <3>2, <4>1, <4>2, <4>3, <4>4 DEF Replaceable, Exists, Matches, p
      <4>6. Keeps(q, raced \union patched, user, disk)
        BY <3>2, <3>3, <4>5 DEF Keeps, TextRead
      <4> QED  BY <2>2, <2>5, <3>1, <4>6
    <3>4. CASE a \notin GitHooks
      <4>1. Keeps(q, raced \union patched, user, disk)
        BY <2>7, <3>1, <3>2, <3>4 DEF Keeps, TextRead
      <4> QED  BY <2>2, <2>5, <3>1, <4>1
    <3> QED  BY <3>3, <3>4
  <2>13. CASE Publish(s)
    <3>1. /\ UNCHANGED <<user, raced, patched>> /\ p.pc = "publish" /\ a \in Adapters
          /\ disk' = [disk EXCEPT ![a] = Merged(s)]
      BY <2>6, <2>13 DEF Publish, othersVars, p, a
    <3>2. q.pc = "chmod"
      BY <2>13, WriteMoves DEF Publish, q
    <3>3. a \notin raced \union patched => Merged(s).user = user[a]
      BY <2>3, <3>1 DEF Keeps, TextRead, Merged, p, a
    <3>4. ForeignSurvives'
      BY <1>1, <3>1, <3>3 DEF ForeignSurvives
    <3>5. a \in GitHooks /\ a \notin raced \union patched => user[a] = None
      BY <2>3, <3>1 DEF Keeps, p, a
    <3>6. ASSUME NEW t \in Slots, NEW d, d = disk'
          PROVE  Keeps(proc[t], raced \union patched, user, d)
      <4>1. Keeps(proc[t], raced \union patched, user, disk)
        BY DEF Windows
      <4>2. CASE proc[t].adapter = a
        BY <3>5, <4>1, <4>2 DEF Keeps
      <4>3. CASE proc[t].adapter # a
        <5>1. d[proc[t].adapter] = disk[proc[t].adapter]
          BY <1>1, <3>1, <3>6, <4>3
        <5> QED  BY <4>1, <5>1 DEF Keeps
      <4> QED  BY <4>2, <4>3
    <3> QED  BY <2>16, <3>1, <3>2, <3>4, <3>6
  <2>14. CASE Chmod(s)
    <3>1. /\ UNCHANGED <<user, raced, patched>> /\ p.pc = "chmod" /\ a \in Adapters
          /\ \E e \in BOOLEAN : disk' = [disk EXCEPT ![a] = [disk[a] EXCEPT !.exec = e]]
      <4>1. p.before.exec \in BOOLEAN
        BY LocalsTyped, FilesTyped DEF TypeInv, p
      <4> DEFINE e == a \in GitHooks \/ p.before.exec
      <4>2. disk' = [disk EXCEPT ![a] = [disk[a] EXCEPT !.exec = e]]
        BY <2>14 DEF Chmod, p, a
      <4>3. e \in BOOLEAN
        OBVIOUS
      <4>4. UNCHANGED <<user, raced, patched>> /\ p.pc = "chmod" /\ a \in Adapters
        BY <2>6, <2>14 DEF Chmod, othersVars, p
      <4> QED  BY <4>2, <4>3, <4>4
    <3>2. q.pc = "record"
      BY <2>14, WriteMoves DEF Chmod, q
    <3>3. \A b \in Adapters : disk'[b].user = disk[b].user
      BY <1>1, <3>1 DEF File
    <3>4. ForeignSurvives'
      BY <3>1, <3>3 DEF ForeignSurvives
    <3>5. ASSUME NEW t \in Slots, NEW d, d = disk'
          PROVE  Keeps(proc[t], raced \union patched, user, d)
      <4>1. Keeps(proc[t], raced \union patched, user, disk)
        BY DEF Windows
      <4>2. CASE proc[t].pc = "idle" \/ proc[t].adapter \notin Adapters
        BY <4>1, <4>2 DEF Keeps, TextRead, TypeInv
      <4>3. CASE proc[t].adapter \in Adapters
        <5>1. d[proc[t].adapter].cmds = disk[proc[t].adapter].cmds
          BY <1>1, <3>1, <3>5, <4>3 DEF File
        <5> QED  BY <4>1, <5>1 DEF Keeps
      <4> QED  BY <4>2, <4>3
    <3> QED  BY <2>16, <3>1, <3>2, <3>4, <3>5
  <2>15. CASE Record(s) \/ Stop(s)
    <3>1. UNCHANGED <<disk, user, raced, patched>> /\ q.pc = "idle"
      BY <2>15, EndMoves DEF Record, Stop, Reads, othersVars, Idle, q
    <3> QED  BY <2>2, <2>4, <2>5, <3>1
  <2> QED  BY <1>3, <2>8, <2>9, <2>10, <2>11, <2>12, <2>13, <2>14, <2>15 DEF Step
<1>4. CASE Others
  <2>1. CASE LoseManifest
    BY <1>2, <2>1 DEF LoseManifest
  <2>2. ASSUME NEW a \in Adapters, TakeOut(a) \/ Delete(a) \/ \E t \in Texts : Edit(a, t)
        PROVE  Windows' /\ ForeignSurvives'
    <3>1. \E f \in File : Leave(a, f)
      BY <1>1, <2>2, FilesTyped DEF TakeOut, Delete, Edit
    <3> QED  BY <3>1, LeaveKeeps
  <2> QED  BY <1>4, <2>1, <2>2 DEF Others
<1>5. CASE UNCHANGED vars
  BY <1>2, <1>5 DEF vars, othersVars
<1> QED  BY <1>3, <1>4, <1>5 DEF Next

-----------------------------------------------------------------------------
(* The trust base.                                                         *)

\* No install has a copy of the manifest or a command at the start.
LEMMA CopiesInit == Init => Copies /\ Pins
<1> SUFFICES ASSUME Init PROVE Copies /\ Pins
  OBVIOUS
<1>1. \A s \in Slots : proc[s].pc = "idle"
  BY DEF Init, Idle
<1> QED  BY <1>1 DEF Copies, Consistent, Pins, Pinned, Copied, Commanded

\* An install's copy stays the manifest it saw with a base that is no worse, and
\* its command fits the base it settled on.
LEMMA CopiesStep == ASSUME TypeInv, TypeInv', Copies, [Next]_vars PROVE Copies'
<1> USE DEF At
<1>1. ASSUME UNCHANGED proc PROVE Copies'
  BY <1>1 DEF Copies
<1>2. ASSUME NEW s \in Slots, Step(s) PROVE Copies'
  <2> DEFINE p == proc[s]  q == proc'[s]
  <2>1. \A t \in Slots : t # s => proc'[t] = proc[t]
    BY <1>2, OthersLocals
  <2>2. ASSUME Consistent(q) PROVE Copies'
    BY <2>1, <2>2 DEF Copies
  <2>3. Consistent(p)
    BY DEF Copies
  <2> HIDE DEF p, q
  <2>4. ASSUME q.pc \in {"idle", "resolve", "copy"} PROVE Consistent(q)
    BY <2>4 DEF Consistent, Copied, Commanded
  <2>5. ASSUME NEW h \in Adapters, NEW b \in Bases \union {None}, Begin(s, h, b) PROVE Copies'
    <3>1. q.pc = "resolve"
      BY <2>5, EndMoves DEF q
    <3> QED  BY <2>2, <2>4, <3>1
  <2>6. CASE ResolveBase(s)
    <3>1. q.pc = "copy"
      BY <2>6, ResolveBaseMoves DEF q
    <3> QED  BY <2>2, <2>4, <3>1
  <2>7. CASE CopyManifest(s)
    <3>1. /\ q.saw = manifest /\ q.base = Effective(s)
          /\ q.pc = IF Effective(s) = None THEN "again" ELSE "capture"
          /\ q.copy.record = manifest.record /\ q.copy.base = q.base
      BY <2>7, CopyManifestMoves DEF q
    <3>2. manifest.base # None => Effective(s) # None
      BY DEF Effective
    <3>3. Consistent(q)
      BY <3>1, <3>2 DEF Consistent, Copied, Commanded
    <3> QED  BY <2>2, <3>3
  <2>8. CASE ResolveAgain(s)
    <3>1. /\ q.pc = "capture" /\ q.saw = p.saw /\ q.copy.record = p.copy.record
          /\ q.copy.base = q.base /\ p.pc = "again"
      BY <2>8, ResolveAgainMoves DEF ResolveAgain, p, q
    <3>2. Consistent(q)
      BY <2>3, <3>1 DEF Consistent, Copied, Commanded
    <3> QED  BY <2>2, <3>2
  <2>9. CASE \/ Capture(s) \/ Command(s) \/ ReadText(s) \/ Publish(s) \/ Chmod(s)
    <3>1. /\ SameManifests(q, p) /\ q.adapter = p.adapter /\ Copied(p)
          /\ q.pc \in {"command", "text", "publish", "chmod", "record"}
      <4>1. SameManifests(q, p) /\ q.adapter = p.adapter
        BY <2>9, CaptureMoves, CommandMoves, ReadTextMoves, WriteMoves DEF SameJob, p, q
      <4>2. p.pc \in {"capture", "command", "text", "publish", "chmod"}
        BY <2>9 DEF Capture, Command, ReadText, Publish, Chmod, p
      <4>3. q.pc \in {"command", "text", "publish", "chmod", "record"}
        BY <2>9, CaptureMoves, CommandMoves, ReadTextMoves, WriteMoves DEF p, q
      <4> QED  BY <4>1, <4>2, <4>3 DEF Copied
    <3>2. ASSUME Commanded(q), q.base # None PROVE q.cmd = "pinned"
      <4>1. CASE Capture(s)
        <5>1. q.pc = IF p.adapter \in GitHooks THEN "command" ELSE "text"
          BY <4>1, CaptureMoves DEF p, q
        <5> QED  BY <3>1, <3>2, <5>1 DEF Commanded
      <4>2. CASE Command(s)
        <5>1. q.cmd = IF Effective(s) = None THEN "plain" ELSE "pinned"
          BY <4>2, CommandMoves DEF q
        <5>2. p.base # None
          BY <3>1, <3>2 DEF SameManifests
        <5>3. Effective(s) # None
          BY <5>2 DEF Effective, p
        <5> QED  BY <5>1, <5>3
      <4>3. CASE ReadText(s)
        <5>1. /\ q.pc = IF p.adapter \in GitHooks THEN "publish" ELSE "command"
              /\ q.cmd = p.cmd
          BY <4>3, ReadTextMoves DEF p, q
        <5>2. p.pc = "text"
          BY <4>3 DEF ReadText, p
        <5> QED  BY <2>3, <3>1, <3>2, <5>1, <5>2 DEF Commanded, Consistent, SameManifests
      <4>4. CASE Publish(s) \/ Chmod(s)
        <5>1. q.cmd = p.cmd
          BY <4>4, WriteMoves DEF p, q
        <5>2. p.pc \in {"publish", "chmod"}
          BY <4>4 DEF Publish, Chmod, p
        <5> QED  BY <2>3, <3>1, <3>2, <5>1, <5>2 DEF Commanded, Consistent, SameManifests
      <4> QED  BY <2>9, <4>1, <4>2, <4>3, <4>4
    <3>3. Consistent(q)
      BY <2>3, <3>1, <3>2 DEF Consistent, Copied, SameManifests
    <3> QED  BY <2>2, <3>3
  <2>10. CASE Record(s) \/ Stop(s)
    <3>1. q.pc = "idle"
      BY <2>10, EndMoves DEF Idle, q
    <3> QED  BY <2>2, <2>4, <3>1
  <2> QED  BY <1>2, <2>5, <2>6, <2>7, <2>8, <2>9, <2>10 DEF Step
<1>3. CASE Others
  BY <1>1, <1>3 DEF Others, LoseManifest, TakeOut, Delete, Edit, Leave
<1>4. CASE UNCHANGED vars
  BY <1>1, <1>4 DEF vars
<1> QED  BY <1>2, <1>3, <1>4 DEF Next

\* The manifest keeps its base, unless it is lost or overwritten.
LEMMA BaseStays ==
    ASSUME TypeInv, Copies, [Next]_vars, ~lost', ~overtaken', manifest.base # None
    PROVE  manifest'.base # None
<1>1. ASSUME NEW s \in Slots, Record(s) PROVE manifest'.base # None
  <2>1. proc[s].copy \in TypedManifests
    BY LocalsTyped DEF TypeInv
  <2>2. manifest'.base = proc[s].copy.base
    BY <1>1, <2>1 DEF Record, TypedManifests, Manifests
  <2>3. proc[s].saw = manifest /\ Copied(proc[s])
    BY <1>1 DEF Record, Copied, At
  <2> QED  BY <2>2, <2>3 DEF Copies, Consistent
<1>2. CASE Others
  BY <1>2 DEF Others, LoseManifest, TakeOut, Delete, Edit, Leave
<1>3. ASSUME NEW s \in Slots, Step(s), ~Record(s) PROVE manifest' = manifest
  BY <1>3 DEF Step, Begin, ResolveBase, CopyManifest, ResolveAgain, Capture, Command, ReadText,
              Publish, Chmod, Stop, Reads
<1> QED  BY <1>1, <1>2, <1>3 DEF Next, vars

\* A step that loses nothing had lost nothing before.
LEMMA LossIsKept ==
    ASSUME TypeInv, [Next]_vars, ~lost', ~overtaken' PROVE ~lost /\ ~overtaken
<1>1. lost \in BOOLEAN /\ overtaken \in BOOLEAN
  BY DEF TypeInv, TypeOK
<1>2. CASE Others
  BY <1>1, <1>2 DEF Others, LoseManifest, TakeOut, Delete, Edit, Leave, historyVars
<1>3. ASSUME NEW s \in Slots, Step(s) PROVE ~lost /\ ~overtaken
  BY <1>1, <1>3 DEF Step, Begin, ResolveBase, CopyManifest, ResolveAgain, Capture, Command,
              ReadText, Publish, Chmod, Record, Stop, Reads, othersVars, historyVars
<1> QED  BY <1>2, <1>3 DEF Next, vars, othersVars, historyVars

\* A command asks for the installed authority only while the copy or the manifest
\* has a base.
LEMMA PinsStep == ASSUME TypeInv, TypeInv', Copies, Pins, [Next]_vars PROVE Pins'
<1> USE DEF At
<1> SUFFICES ASSUME ~lost', ~overtaken', NEW t \in Slots PROVE Pinned(proc'[t], manifest')
  BY DEF Pins
<1>1. Pinned(proc[t], manifest)
  BY LossIsKept DEF Pins
<1>2. manifest.base # None => manifest'.base # None
  BY BaseStays
<1>3. ASSUME proc'[t] = proc[t] PROVE Pinned(proc'[t], manifest')
  BY <1>1, <1>2, <1>3 DEF Pinned
<1>4. ASSUME Step(t), proc'[t] # proc[t] PROVE Pinned(proc'[t], manifest')
  <2> DEFINE p == proc[t]  q == proc'[t]
  <2>1. ASSUME ~Commanded(q) PROVE Pinned(q, manifest')
    BY <2>1 DEF Pinned
  <2>2. Consistent(p)
    BY DEF Copies
  <2> HIDE DEF p, q
  <2>3. ASSUME NEW h \in Adapters, NEW b \in Bases \union {None}, Begin(t, h, b)
        PROVE  q.pc = "resolve"
    BY <2>3, EndMoves DEF q
  <2>4. \/ ResolveBase(t) \/ CopyManifest(t) \/ ResolveAgain(t) \/ Record(t) \/ Stop(t)
        => q.pc \in {"copy", "again", "capture", "idle"}
    BY ResolveBaseMoves, CopyManifestMoves, ResolveAgainMoves, EndMoves DEF Idle, q
  <2>5. CASE Capture(t)
    <3>1. /\ q.pc = IF p.adapter \in GitHooks THEN "command" ELSE "text"
          /\ q.adapter = p.adapter
      BY <2>5, CaptureMoves DEF SameJob, p, q
    <3> QED  BY <2>1, <3>1 DEF Commanded, q
  <2>6. CASE Command(t)
    <3>1. /\ q.cmd = IF Effective(t) = None THEN "plain" ELSE "pinned"
          /\ q.copy = p.copy
      BY <2>6, CommandMoves DEF SameManifests, p, q
    <3>2. Effective(t) # None => p.base # None \/ manifest.base # None
      BY DEF Effective, p
    <3>3. p.base # None => p.copy.base # None
      BY <2>2, <2>6 DEF Consistent, Copied, Command, p
    <3>4. Pinned(q, manifest')
      BY <1>2, <3>1, <3>2, <3>3 DEF Pinned
    <3> QED  BY <3>4 DEF q
  <2>7. CASE ReadText(t)
    <3>1. /\ q.pc = IF p.adapter \in GitHooks THEN "publish" ELSE "command"
          /\ q.cmd = p.cmd /\ q.copy = p.copy /\ q.adapter = p.adapter
      BY <2>7, ReadTextMoves DEF SameJob, SameManifests, p, q
    <3>2. p.pc = "text"
      BY <2>7 DEF ReadText, p
    <3>3. Pinned(q, manifest')
      BY <1>1, <1>2, <3>1, <3>2 DEF Pinned, Commanded, p
    <3> QED  BY <3>3 DEF q
  <2>8. CASE Publish(t) \/ Chmod(t)
    <3>1. q.cmd = p.cmd /\ q.copy = p.copy
      BY <2>8, WriteMoves DEF SameManifests, p, q
    <3>2. p.pc \in {"publish", "chmod"}
      BY <2>8 DEF Publish, Chmod, p
    <3>3. Pinned(q, manifest')
      BY <1>1, <1>2, <3>1, <3>2 DEF Pinned, Commanded, p
    <3> QED  BY <3>3 DEF q
  <2>9. ASSUME q.pc \in {"resolve", "copy", "again", "capture", "idle"}
        PROVE  Pinned(q, manifest')
    BY <2>1, <2>9 DEF Commanded
  <2>10. Pinned(q, manifest')
    BY <1>4, <2>3, <2>4, <2>5, <2>6, <2>7, <2>8, <2>9 DEF Step, q
  <2> QED  BY <2>10 DEF q
<1>5. ASSUME NEW s \in Slots, Step(s), s # t PROVE proc'[t] = proc[t]
  BY <1>5, OthersLocals
<1>6. Others => proc'[t] = proc[t]
  BY DEF Others, LoseManifest, TakeOut, Delete, Edit, Leave
<1>7. UNCHANGED vars => proc'[t] = proc[t]
  BY DEF vars
<1> QED  BY <1>3, <1>4, <1>5, <1>6, <1>7 DEF Next

\* At the start a hook that asks for the installed authority finds one.
LEMMA PinInit == Init => PinKept
<1> SUFFICES ASSUME Init, NEW a \in Adapters, Settled(a), installed[a].cmds = {"pinned"}
             PROVE  manifest.base # None
  BY DEF PinKept
<1>1. PICK r \in InitialRepos : disk = r.disk /\ manifest = r.manifest
  BY DEF Init
<1> QED  BY <1>1, RepoAssumption DEF Init, Settled, Recorded

\* A recorded hook that asks for the installed authority finds one, whichever
\* install or other process takes a step.
LEMMA PinStep ==
    ASSUME TypeInv, TypeInv', Numbered, Spoken, Copies, Pins, PinKept, [Next]_vars
    PROVE  PinKept'
<1> USE DEF At
<1> SUFFICES ASSUME ~lost', ~overtaken', NEW a \in Adapters, Settled(a)',
                    installed'[a].cmds = {"pinned"}
             PROVE  manifest'.base # None
  BY DEF PinKept
<1>1. ~lost /\ ~overtaken
  BY LossIsKept
<1>2. Settled(a) /\ installed[a].cmds = {"pinned"} => manifest'.base # None
  BY <1>1, BaseStays DEF PinKept
<1>3. ASSUME UNCHANGED <<manifest, writer, installed>> PROVE manifest'.base # None
  BY <1>2, <1>3 DEF Settled, Recorded
<1>4. ASSUME NEW s \in Slots, Step(s) PROVE manifest'.base # None
  <2> DEFINE p == proc[s]
  <2>1. CASE Record(s)
    <3>1. /\ manifest' = [p.copy EXCEPT !.record[p.adapter] = Digest(s)]
          /\ UNCHANGED <<writer, installed>> /\ p.pc = "record" /\ p.saw = manifest
      BY <2>1 DEF Record
    <3>2. p.copy \in TypedManifests /\ p.adapter \in Adapters
      BY <3>1, LocalsTyped DEF TypeInv
    <3>3. /\ manifest'.base = p.copy.base /\ manifest'.record[p.adapter] = Digest(s)
          /\ p.adapter # a => manifest'.record[a] = p.copy.record[a]
      BY <3>1, <3>2 DEF TypedManifests, Manifests
    <3>4. Consistent(p) /\ Copied(p) /\ Commanded(p)
      BY <3>1 DEF Copies, Copied, Commanded
    <3>5. CASE p.adapter = a
      <4>1. writer[a] = p.id
        BY <3>1, <3>3, <3>5 DEF Settled, Digest
      <4>2. installed[a] = Merged(s)
        BY <3>1, <3>5, <4>1 DEF Spoken
      <4>3. p.cmd \in Merged(s).cmds
        BY DEF Merged
      <4>4. p.cmd = "pinned"
        BY <3>1, <4>2, <4>3
      <4>5. p.copy.base # None \/ manifest.base # None
        BY <1>1, <3>4, <4>4 DEF Pins, Pinned
      <4> QED  BY <3>1, <3>3, <3>4, <4>5 DEF Consistent
    <3>6. CASE p.adapter # a
      <4>1. manifest'.record[a] = manifest.record[a]
        BY <3>1, <3>3, <3>4, <3>6 DEF Consistent
      <4> QED  BY <1>2, <3>1, <4>1 DEF Settled, Recorded
    <3> QED  BY <3>5, <3>6
  <2>2. CASE Publish(s)
    <3>1. /\ manifest' = manifest /\ writer' = [writer EXCEPT ![p.adapter] = p.id]
          /\ installed' = [installed EXCEPT ![p.adapter] = Merged(s)] /\ p.pc = "publish"
          /\ writer \in [Adapters -> 0..MaxInstalls] /\ installed \in [Adapters -> File]
      BY <2>2 DEF Publish, TypeInv, TypeOK
    <3>2. manifest.record[a].by # p.id
      BY <3>1 DEF Numbered, Unrecorded
    <3>3. a # p.adapter
      BY <3>1, <3>2 DEF Settled
    <3> QED  BY <1>2, <3>1, <3>3 DEF Settled, Recorded
  <2>3. ASSUME ~Record(s), ~Publish(s) PROVE UNCHANGED <<manifest, writer, installed>>
    BY <1>4, <2>3 DEF Step, Begin, ResolveBase, CopyManifest, ResolveAgain, Capture, Command,
                      ReadText, Chmod, Stop, Reads, historyVars
  <2> QED  BY <1>3, <2>1, <2>2, <2>3
<1>5. CASE Others
  BY <1>3, <1>5 DEF Others, LoseManifest, TakeOut, Delete, Edit, Leave, historyVars
<1>6. CASE UNCHANGED vars
  BY <1>3, <1>6 DEF vars, historyVars
<1> QED  BY <1>4, <1>5, <1>6 DEF Next

-----------------------------------------------------------------------------
(* The commands in the files.                                              *)

\* At the start the hooks are what their last writers left.
LEMMA HeldInit == Init => Held
<1> SUFFICES ASSUME Init PROVE Held
  OBVIOUS
<1>1. \A s \in Slots : proc[s].pc = "idle"
  BY DEF Init, Idle
<1> QED  BY <1>1 DEF Init, Held, ReadAll, TextRead

\* A step that takes commands out of files, and changes what an install has read
\* only by reading, keeps Held.
LEMMA FewerHeld ==
    ASSUME Held, \A a \in Adapters : disk'[a].cmds \subseteq disk[a].cmds,
           UNCHANGED <<writer, installed>>,
           \A s \in Slots : /\ TextRead(proc'[s]) => proc'[s].adapter \in Adapters
                            /\ \/ proc'[s] = proc[s]
                               \/ ReadAll(proc'[s], writer, disk)
    PROVE  Held'
<1>1. \A s \in Slots : ReadAll(proc'[s], writer, disk)
  BY DEF Held
<1>2. \A s \in Slots : ReadAll(proc'[s], writer, disk')
  BY <1>1 DEF ReadAll
<1> QED  BY <1>2 DEF Held

\* A hook keeps no command but its last writer's, and so does a text read after
\* that writer was recorded.
LEMMA HeldStep == ASSUME TypeInv, TypeInv', Numbered, Held, [Next]_vars PROVE Held'
<1> USE DEF At
<1>1. /\ disk \in [Adapters -> File] /\ installed \in [Adapters -> File]
      /\ writer \in [Adapters -> 0..MaxInstalls]
      /\ \A s \in Slots : proc[s].pc # "idle" => proc[s].adapter \in Adapters
      /\ \A s \in Slots : proc'[s].pc # "idle" => proc'[s].adapter \in Adapters
  BY DEF TypeInv, TypeOK
<1>2. \A s \in Slots : TextRead(proc'[s]) => proc'[s].adapter \in Adapters
  BY <1>1 DEF TextRead
<1>3. CASE Others
  <2>1. UNCHANGED <<proc, writer, installed>>
    BY <1>3 DEF Others, LoseManifest, TakeOut, Delete, Edit, Leave, historyVars
  <2>2. \A a \in Adapters : disk'[a].cmds \subseteq disk[a].cmds
    <3>1. CASE LoseManifest
      BY <3>1 DEF LoseManifest
    <3>2. ASSUME NEW a \in Adapters, NEW f, f.cmds \subseteq disk[a].cmds, Leave(a, f)
          PROVE  \A b \in Adapters : disk'[b].cmds \subseteq disk[b].cmds
      BY <1>1, <3>2 DEF Leave
    <3>3. \A a \in Adapters, t \in Texts :
             /\ [disk[a] EXCEPT !.user = t].cmds = disk[a].cmds
             /\ [disk[a] EXCEPT !.cmds = {}].cmds = {} /\ Missing.cmds = {}
      BY <1>1 DEF File, Missing
    <3>4. ASSUME NEW a \in Adapters, TakeOut(a) \/ Delete(a) \/ \E t \in Texts : Edit(a, t)
          PROVE  \E f : f.cmds \subseteq disk[a].cmds /\ Leave(a, f)
      <4>1. CASE TakeOut(a)
        <5>1. Leave(a, [disk[a] EXCEPT !.cmds = {}])
          BY <4>1 DEF TakeOut
        <5>2. [disk[a] EXCEPT !.cmds = {}].cmds \subseteq disk[a].cmds
          BY <1>1 DEF File
        <5> QED  BY <5>1, <5>2
      <4>2. CASE Delete(a)
        <5>1. Leave(a, Missing)
          BY <4>2 DEF Delete
        <5>2. Missing.cmds \subseteq disk[a].cmds
          BY DEF Missing
        <5> QED  BY <5>1, <5>2
      <4>3. CASE \E t \in Texts : Edit(a, t)
        <5>1. PICK t \in Texts : Leave(a, [disk[a] EXCEPT !.user = t])
          BY <4>3 DEF Edit
        <5>2. [disk[a] EXCEPT !.user = t].cmds \subseteq disk[a].cmds
          BY <3>3
        <5> QED  BY <5>1, <5>2
      <4> QED  BY <3>4, <4>1, <4>2, <4>3
    <3> QED  BY <1>3, <3>1, <3>2, <3>4 DEF Others
  <2> QED  BY <1>2, <2>1, <2>2, FewerHeld
<1>4. ASSUME NEW s \in Slots, Step(s) PROVE Held'
  <2> DEFINE p == proc[s]  q == proc'[s]
  <2>1. \A t \in Slots : t # s => proc'[t] = proc[t]
    BY <1>4, OthersLocals
  <2>2. ASSUME \A a \in Adapters : disk'[a].cmds \subseteq disk[a].cmds,
               UNCHANGED <<writer, installed>>, ReadAll(q, writer, disk)
        PROVE  Held'
    BY <1>2, <2>1, <2>2, FewerHeld
  <2>3. ReadAll(p, writer, disk)
    BY DEF Held
  <2> HIDE DEF p, q
  <2>4. ASSUME q.pc \notin {"command", "publish"} PROVE ReadAll(q, writer, disk)
    BY <2>4 DEF ReadAll, TextRead
  <2>5. ASSUME NEW h \in Adapters, NEW b \in Bases \union {None}, Begin(s, h, b) PROVE Held'
    <3>1. q.pc = "resolve"
      BY <2>5, EndMoves DEF q
    <3> QED  BY <2>2, <2>4, <2>5, <3>1 DEF Begin, historyVars
  <2>6. CASE \/ ResolveBase(s) \/ CopyManifest(s) \/ ResolveAgain(s) \/ Stop(s)
    <3>1. q.pc \in {"copy", "again", "capture", "idle"}
      BY <2>6, ResolveBaseMoves, CopyManifestMoves, ResolveAgainMoves, EndMoves DEF Idle, q
    <3>2. UNCHANGED <<disk, writer, installed>>
      BY <2>6 DEF ResolveBase, CopyManifest, ResolveAgain, Stop, Reads, historyVars
    <3> QED  BY <2>2, <2>4, <3>1, <3>2
  <2>7. CASE Record(s)
    <3>1. q.pc = "idle"
      BY <2>7, EndMoves DEF Idle, q
    <3> QED  BY <2>2, <2>4, <2>7, <3>1 DEF Record
  <2>8. CASE Capture(s)
    <3>1. /\ q.adapter = p.adapter
          /\ q.pc = IF p.adapter \in GitHooks THEN "command" ELSE "text"
      BY <2>8, CaptureMoves DEF SameJob, p, q
    <3>2. ReadAll(q, writer, disk)
      BY <3>1 DEF ReadAll, TextRead
    <3> QED  BY <2>2, <2>8, <3>2 DEF Capture, Reads, historyVars
  <2>9. CASE Command(s)
    <3>1. /\ q.adapter = p.adapter /\ q.text = p.text /\ q.saw = p.saw
          /\ q.pc = IF p.adapter \in GitHooks THEN "text" ELSE "publish"
      BY <2>9, CommandMoves DEF SameJob, SameManifests, p, q
    <3>2. p.pc = "command"
      BY <2>9 DEF Command, p
    <3>3. ReadAll(q, writer, disk)
      BY <2>3, <3>1, <3>2 DEF ReadAll, TextRead
    <3> QED  BY <2>2, <2>9, <3>3 DEF Command, Reads, historyVars
  <2>10. CASE ReadText(s)
    <3>1. q.adapter = p.adapter /\ q.text = disk[p.adapter]
      BY <2>10, ReadTextMoves DEF SameJob, p, q
    <3>2. ReadAll(q, writer, disk)
      BY <3>1 DEF ReadAll
    <3> QED  BY <2>2, <2>10, <3>2 DEF ReadText, Reads, historyVars
  <2>11. CASE Chmod(s)
    <3>1. q.pc = "record"
      BY <2>11, WriteMoves DEF Chmod, q
    <3>2. \A a \in Adapters : disk'[a].cmds = disk[a].cmds
      BY <1>1, <2>11 DEF Chmod, File
    <3> QED  BY <2>2, <2>4, <2>11, <3>1, <3>2 DEF Chmod, historyVars
  <2>12. CASE Publish(s)
    <3>1. /\ disk' = [disk EXCEPT ![p.adapter] = Merged(s)]
          /\ installed' = [installed EXCEPT ![p.adapter] = Merged(s)]
          /\ writer' = [writer EXCEPT ![p.adapter] = p.id]
          /\ p.pc = "publish" /\ p.adapter \in Adapters
      BY <1>1, <2>12 DEF Publish, p
    <3>2. q.pc = "chmod"
      BY <2>12, WriteMoves DEF Publish, q
    <3>3. \A a \in Adapters : disk'[a].cmds \subseteq installed'[a].cmds
      BY <1>1, <3>1 DEF Held
    <3>4. ASSUME NEW t \in Slots PROVE ReadAll(proc'[t], writer', disk')
      <4>1. CASE t = s
        BY <3>2, <4>1 DEF ReadAll, TextRead, q
      <4>2. CASE t # s
        <5>1. proc'[t] = proc[t] /\ ReadAll(proc[t], writer, disk)
          BY <2>1, <4>2 DEF Held
        <5>2. TextRead(proc[t]) => proc[t].adapter \in Adapters
          BY <1>1 DEF TextRead
        <5>3. proc[t].saw.record[p.adapter].by # p.id
          BY <3>1 DEF Numbered, Unrecorded, p
        <5>4. CASE proc[t].adapter = p.adapter
          BY <1>1, <3>1, <5>1, <5>3, <5>4 DEF ReadAll
        <5>5. CASE proc[t].adapter # p.adapter
          BY <1>1, <3>1, <5>1, <5>2, <5>5 DEF ReadAll
        <5> QED  BY <5>4, <5>5
      <4> QED  BY <4>1, <4>2
    <3> QED  BY <3>3, <3>4 DEF Held
  <2> QED  BY <1>4, <2>5, <2>6, <2>7, <2>8, <2>9, <2>10, <2>11, <2>12 DEF Step
<1>5. CASE UNCHANGED vars
  BY <1>5 DEF Held, vars, historyVars
<1> QED  BY <1>3, <1>4, <1>5 DEF Next

-----------------------------------------------------------------------------
(* What an install leaves behind.                                          *)

\* At the start no install has a command or a mode to answer for.
LEMMA RepairInit == Init => Agreed /\ Executable
<1> SUFFICES ASSUME Init PROVE Agreed /\ Executable
  OBVIOUS
<1>1. \A s \in Slots : proc[s].pc = "idle"
  BY DEF Init, Idle
<1> QED  BY <1>1 DEF Agreed, Agrees, Commanded, Executable, Runs

\* No step but a deletion brings back a manifest that an install saw before.
LEMMA NoWayBack ==
    ASSUME TypeInv, Numbered, [Next]_vars, ~lost', NEW t \in Slots, proc[t].saw = manifest'
    PROVE  manifest' = manifest
<1> USE DEF At
<1>1. ASSUME NEW s \in Slots, Record(s) PROVE FALSE
  <2> DEFINE p == proc[s]
  <2>1. /\ manifest' = [p.copy EXCEPT !.record[p.adapter] = Digest(s)] /\ p.pc = "record"
        /\ p.copy \in TypedManifests /\ p.adapter \in Adapters
    BY <1>1, LocalsTyped DEF Record, TypeInv
  <2>2. manifest'.record[p.adapter].by = p.id
    BY <2>1 DEF TypedManifests, Manifests, Digest
  <2>3. Unrecorded(proc[t].saw, installs, proc)
    BY DEF Numbered
  <2>4. proc[t].saw.record[p.adapter].by # p.id
    BY <2>1, <2>3 DEF Unrecorded
  <2> QED  BY <2>2, <2>4
<1>2. CASE Others
  BY <1>2 DEF Others, LoseManifest, TakeOut, Delete, Edit, Leave
<1>3. ASSUME NEW s \in Slots, Step(s), ~Record(s) PROVE manifest' = manifest
  BY <1>3 DEF Step, Begin, ResolveBase, CopyManifest, ResolveAgain, Capture, Command, ReadText,
              Publish, Chmod, Stop, Reads
<1> QED  BY <1>1, <1>2, <1>3 DEF Next, vars

\* The command and the copy go on agreeing.
LEMMA AgreedStep ==
    ASSUME TypeInv, TypeInv', Numbered, Copies, Agreed, [Next]_vars
    PROVE  Agreed'
<1> USE DEF At
<1> SUFFICES ASSUME ~lost', NEW t \in Slots PROVE Agrees(proc'[t], manifest')
  BY DEF Agreed
<1>1. Agrees(proc[t], manifest)
  <2>1. lost \in BOOLEAN
    BY DEF TypeInv, TypeOK
  <2>2. CASE Others
    BY <2>1, <2>2 DEF Others, LoseManifest, TakeOut, Delete, Edit, Leave, Agreed
  <2>3. ASSUME NEW s \in Slots, Step(s) PROVE lost' = lost
    BY <2>3 DEF Step, Begin, ResolveBase, CopyManifest, ResolveAgain, Capture, Command,
                ReadText, Publish, Chmod, Record, Stop, Reads, othersVars
  <2> QED  BY <2>1, <2>2, <2>3 DEF Next, vars, othersVars, Agreed
<1> DEFINE p == proc[t]  q == proc'[t]
<1>2. ASSUME q.cmd = p.cmd, q.copy = p.copy, q.saw = p.saw, Commanded(q) => Commanded(p)
      PROVE  Agrees(q, manifest')
  <2>1. p.saw = manifest' => manifest' = manifest
    BY NoWayBack
  <2> QED  BY <1>1, <1>2, <2>1 DEF Agrees
<1>3. Consistent(p)
  BY DEF Copies
<1>4. ASSUME Step(t) PROVE Agrees(q, manifest')
  <2> HIDE DEF p, q
  <2>1. ASSUME q.pc \in {"resolve", "copy", "again", "capture", "idle"}
        PROVE  Agrees(q, manifest')
    BY <2>1 DEF Agrees, Commanded
  <2>2. ASSUME NEW h \in Adapters, NEW b \in Bases \union {None}, Begin(t, h, b)
        PROVE  q.pc = "resolve"
    BY <2>2, EndMoves DEF q
  <2>3. \/ ResolveBase(t) \/ CopyManifest(t) \/ ResolveAgain(t) \/ Record(t) \/ Stop(t)
        => q.pc \in {"copy", "again", "capture", "idle"}
    BY ResolveBaseMoves, CopyManifestMoves, ResolveAgainMoves, EndMoves DEF Idle, q
  <2>4. CASE Capture(t)
    <3>1. /\ q.pc = IF p.adapter \in GitHooks THEN "command" ELSE "text"
          /\ q.adapter = p.adapter
      BY <2>4, CaptureMoves DEF SameJob, p, q
    <3> QED  BY <3>1 DEF Agrees, Commanded
  <2>5. CASE Command(t)
    <3>1. /\ q.cmd = IF Effective(t) = None THEN "plain" ELSE "pinned"
          /\ q.copy = p.copy /\ q.saw = p.saw
      BY <2>5, CommandMoves DEF SameManifests, p, q
    <3>2. Effective(t) = IF p.base # None THEN p.base ELSE manifest.base
      BY DEF Effective, p
    <3>3. p.copy.base = p.base /\ (p.saw.base # None => p.copy.base # None)
      BY <1>3, <2>5 DEF Consistent, Copied, Command, p
    <3>4. manifest' = manifest
      BY <2>5 DEF Command, Reads
    <3> QED  BY <3>1, <3>2, <3>3, <3>4 DEF Agrees
  <2>6. CASE ReadText(t)
    <3>1. /\ q.pc = IF p.adapter \in GitHooks THEN "publish" ELSE "command"
          /\ q.cmd = p.cmd /\ q.copy = p.copy /\ q.saw = p.saw /\ q.adapter = p.adapter
      BY <2>6, ReadTextMoves DEF SameJob, SameManifests, p, q
    <3>2. p.pc = "text"
      BY <2>6 DEF ReadText, p
    <3> QED  BY <1>2, <3>1, <3>2 DEF Commanded
  <2>7. CASE Publish(t) \/ Chmod(t)
    <3>1. q.cmd = p.cmd /\ q.copy = p.copy /\ q.saw = p.saw
      BY <2>7, WriteMoves DEF SameManifests, p, q
    <3>2. p.pc \in {"publish", "chmod"}
      BY <2>7 DEF Publish, Chmod, p
    <3> QED  BY <1>2, <3>1, <3>2 DEF Commanded
  <2> QED  BY <1>4, <2>1, <2>2, <2>3, <2>4, <2>5, <2>6, <2>7 DEF Step
<1>5. ASSUME NEW s \in Slots, Step(s), s # t PROVE q = p
  BY <1>5, OthersLocals
<1>6. Others \/ UNCHANGED vars => q = p
  BY DEF Others, LoseManifest, TakeOut, Delete, Edit, Leave, vars
<1> HIDE DEF p, q
<1>7. Agrees(q, manifest')
  BY <1>2, <1>4, <1>5, <1>6 DEF Next
<1> QED  BY <1>7 DEF q

\* A hook stays executable while it is the one an install wrote.
LEMMA ExecutableStep ==
    ASSUME TypeInv, TypeInv', Numbered, Executable, [Next]_vars
    PROVE  Executable'
<1> USE DEF At
<1>1. /\ disk \in [Adapters -> File] /\ writer \in [Adapters -> 0..MaxInstalls]
      /\ \A s \in Slots : proc[s].pc # "idle" => proc[s].adapter \in Adapters
  BY DEF TypeInv, TypeOK
<1>2. ASSUME NEW t \in Slots, proc'[t] = proc[t] \/ proc'[t].pc # "record", UNCHANGED writer,
             \A b \in GitHooks : disk'[b].cmds # {} =>
                 disk[b].cmds # {} /\ (disk[b].exec => disk'[b].exec)
      PROVE  Runs(proc'[t], writer', disk')
  BY <1>2 DEF Executable, Runs
<1>3. CASE Others
  <2>1. UNCHANGED <<proc, writer>>
    BY <1>3 DEF Others, LoseManifest, TakeOut, Delete, Edit, Leave, historyVars
  <2>2. ASSUME NEW a \in Adapters, NEW f, Leave(a, f),
               f.cmds # {} => f.cmds = disk[a].cmds /\ f.exec = disk[a].exec
        PROVE  \A b \in GitHooks : disk'[b].cmds # {} =>
                   disk[b].cmds # {} /\ (disk[b].exec => disk'[b].exec)
    BY <1>1, <2>2, HookAssumption DEF Leave
  <2>3. ASSUME NEW a \in Adapters, TakeOut(a) \/ Delete(a) \/ \E t \in Texts : Edit(a, t)
        PROVE  \E f : Leave(a, f) /\ (f.cmds # {} => f.cmds = disk[a].cmds /\ f.exec = disk[a].exec)
    <3>1. CASE TakeOut(a)
      <4>1. [disk[a] EXCEPT !.cmds = {}].cmds = {}
        BY <1>1 DEF File
      <4> QED  BY <3>1, <4>1 DEF TakeOut
    <3>2. CASE Delete(a)
      BY <3>2 DEF Delete, Missing
    <3>3. CASE \E t \in Texts : Edit(a, t)
      <4>1. PICK t \in Texts : Leave(a, [disk[a] EXCEPT !.user = t])
        BY <3>3 DEF Edit
      <4> DEFINE f == [disk[a] EXCEPT !.user = t]
      <4>2. f.cmds = disk[a].cmds /\ f.exec = disk[a].exec
        BY <1>1 DEF File
      <4> HIDE DEF f
      <4> QED  BY <4>1, <4>2 DEF f
    <3> QED  BY <2>3, <3>1, <3>2, <3>3
  <2>4. LoseManifest => disk' = disk
    BY DEF LoseManifest
  <2>5. \A b \in GitHooks : disk'[b].cmds # {} =>
            disk[b].cmds # {} /\ (disk[b].exec => disk'[b].exec)
    BY <1>3, <2>2, <2>3, <2>4 DEF Others
  <2> QED  BY <1>2, <2>1, <2>5 DEF Executable
<1>4. ASSUME NEW s \in Slots, Step(s) PROVE Executable'
  <2> DEFINE p == proc[s]  q == proc'[s]
  <2>1. \A t \in Slots : t # s => proc'[t] = proc[t]
    BY <1>4, OthersLocals
  <2> HIDE DEF p, q
  <2>2. ASSUME q.pc # "record", UNCHANGED <<disk, writer>> PROVE Executable'
    BY <1>2, <2>1, <2>2 DEF Executable, q
  <2>3. CASE Publish(s)
    <3>1. /\ disk' = [disk EXCEPT ![p.adapter] = Merged(s)]
          /\ writer' = [writer EXCEPT ![p.adapter] = p.id]
          /\ p.pc = "publish" /\ p.adapter \in Adapters
      BY <1>1, <2>3 DEF Publish, p
    <3>2. q.pc = "chmod"
      BY <2>3, WriteMoves DEF Publish, q
    <3>3. ASSUME NEW t \in Slots PROVE Runs(proc'[t], writer', disk')
      <4>1. CASE t = s
        BY <3>2, <4>1 DEF Runs, q
      <4>2. CASE t # s
        <5>1. proc'[t] = proc[t] /\ Runs(proc[t], writer, disk)
          BY <2>1, <4>2 DEF Executable
        <5>2. proc[t].pc = "record" => proc[t].id # p.id /\ proc[t].adapter \in Adapters
          BY <1>1, <3>1, <4>2 DEF Numbered, p
        <5> QED  BY <1>1, <3>1, <5>1, <5>2 DEF Runs
      <4> QED  BY <4>1, <4>2
    <3> QED  BY <3>3 DEF Executable
  <2>4. CASE Chmod(s)
    <3> DEFINE e == p.adapter \in GitHooks \/ p.before.exec
    <3>1. /\ disk' = [disk EXCEPT ![p.adapter] = [disk[p.adapter] EXCEPT !.exec = e]]
          /\ UNCHANGED writer /\ p.adapter \in Adapters
      BY <1>1, <2>4 DEF Chmod, historyVars, p
    <3>2. p.adapter \in GitHooks => e = TRUE
      OBVIOUS
    <3>3. q.adapter = p.adapter
      BY <2>4, WriteMoves DEF SameJob, p, q
    <3> HIDE DEF e
    <3>4. ASSUME NEW b \in GitHooks
          PROVE  /\ disk'[b].cmds = disk[b].cmds /\ (disk[b].exec => disk'[b].exec)
                 /\ (b = p.adapter => disk'[b].exec)
      <4>1. b \in Adapters /\ disk[b] \in File
        BY <1>1, HookAssumption
      <4>2. CASE b = p.adapter
        BY <1>1, <3>1, <3>2, <4>1, <4>2 DEF File
      <4>3. CASE b # p.adapter
        BY <1>1, <3>1, <4>1, <4>3
      <4> QED  BY <4>2, <4>3
    <3>5. Runs(q, writer', disk')
      BY <3>3, <3>4 DEF Runs
    <3>6. \A t \in Slots : t # s => Runs(proc'[t], writer', disk')
      BY <1>2, <2>1, <3>1, <3>4
    <3> QED  BY <3>5, <3>6 DEF Executable, q
  <2>5. CASE Record(s) \/ Stop(s)
    <3>1. q.pc = "idle" /\ UNCHANGED <<disk, writer>>
      BY <2>5, EndMoves DEF Record, Stop, Reads, historyVars, Idle, q
    <3> QED  BY <2>2, <3>1
  <2>6. ASSUME NEW h \in Adapters, NEW b \in Bases \union {None}, Begin(s, h, b) PROVE Executable'
    <3>1. q.pc = "resolve" /\ UNCHANGED <<disk, writer>>
      BY <2>6, EndMoves DEF Begin, historyVars, q
    <3> QED  BY <2>2, <3>1
  <2>7. CASE \/ ResolveBase(s) \/ CopyManifest(s) \/ ResolveAgain(s) \/ Capture(s) \/ Command(s)
             \/ ReadText(s)
    <3>1. UNCHANGED <<disk, writer>>
      BY <2>7 DEF ResolveBase, CopyManifest, ResolveAgain, Capture, Command, ReadText, Reads,
                  historyVars
    <3>2. q.pc # "record"
      BY <2>7, ResolveBaseMoves, CopyManifestMoves, ResolveAgainMoves, CaptureMoves,
         CommandMoves, ReadTextMoves DEF q
    <3> QED  BY <2>2, <3>1, <3>2
  <2> QED  BY <1>4, <2>3, <2>4, <2>5, <2>6, <2>7 DEF Step
<1>5. CASE UNCHANGED vars
  BY <1>5 DEF vars, historyVars, Executable
<1> QED  BY <1>3, <1>4, <1>5 DEF Next

-----------------------------------------------------------------------------
(* The theorems.                                                           *)

\* Type correctness of the hook files, the manifest and every install.
THEOREM HookTypesHold == Spec => []TypeOK
<1>1. TypeInv => TypeOK
  BY DEF TypeInv
<1> QED  BY <1>1, TypeInit, TypeStep, PTL DEF Spec

\* HookInv is inductive.
LEMMA HookInvariant == Spec => [](TypeInv /\ HookInv)
<1>1. Init => HookInv
  BY NumberedInit, SpokenInit, WindowsInit, CopiesInit, PinInit, HeldInit, RepairInit
     DEF HookInv
<1>2. TypeInv /\ TypeInv' /\ HookInv /\ [Next]_vars => HookInv'
  <2> SUFFICES ASSUME TypeInv, TypeInv', HookInv, [Next]_vars PROVE HookInv'
    OBVIOUS
  <2>1. /\ Numbered /\ Spoken /\ Windows /\ Copies /\ Pins /\ Held /\ Agreed /\ Executable
        /\ ForeignSurvives /\ PinKept
    BY DEF HookInv
  <2>2. Numbered' /\ Spoken' /\ Windows' /\ ForeignSurvives'
    BY <2>1, NumberedStep, SpokenStep, WindowsStep
  <2>3. Copies' /\ Pins' /\ PinKept' /\ Held'
    BY <2>1, CopiesStep, PinsStep, PinStep, HeldStep
  <2>4. Agreed' /\ Executable'
    BY <2>1, AgreedStep, ExecutableStep
  <2> QED  BY <2>2, <2>3, <2>4 DEF HookInv
<1> QED  BY <1>1, <1>2, TypeInit, TypeStep, PTL DEF Spec

\* What others wrote survives every install, unless they wrote it after its last
\* look at the file or into a hook of exitzero's between its two looks.
THEOREM ForeignHooksSurvive == Spec => []ForeignSurvives
<1>1. HookInv => ForeignSurvives
  BY DEF HookInv
<1> QED  BY <1>1, HookInvariant, PTL

\* Drift is reported exactly if what exitzero answers for in a hook is no longer
\* what the recorded install wrote.
THEOREM DriftIsReported == Spec => []DriftIsReal
<1>1. TypeInv /\ HookInv => DriftIsReal
  <2> SUFFICES ASSUME TypeInv, HookInv, NEW a \in Adapters, Settled(a)
               PROVE  Drift(a) <=> Ours(a, disk[a]) # Ours(a, installed[a])
    BY DEF DriftIsReal
  <2>1. Recorded(a) /\ Matches(manifest.record[a], Covered(a, installed[a]))
    BY DEF HookInv, Spoken, Speaks, Settled, Recorded
  <2>2. CASE a \in EntryHooks
    <3>1. Drift(a) <=> disk[a].cmds # installed[a].cmds
      BY <2>1, <2>2 DEF Drift, Matches, Covered
    <3>2. Ours(a, disk[a]) = <<disk[a].cmds>> /\ Ours(a, installed[a]) = <<installed[a].cmds>>
      BY <2>2 DEF Ours
    <3> QED  BY <3>1, <3>2
  <2>3. CASE a \notin EntryHooks
    <3>1. Drift(a) <=> ~(disk[a].user = installed[a].user /\ disk[a].cmds = installed[a].cmds)
      BY <2>1, <2>3 DEF Drift, Matches, Covered
    <3>2. /\ Ours(a, disk[a]) = <<disk[a].user, disk[a].cmds>>
          /\ Ours(a, installed[a]) = <<installed[a].user, installed[a].cmds>>
      BY <2>3 DEF Ours
    <3> QED  BY <3>1, <3>2
  <2> QED  BY <2>2, <2>3
<1> QED  BY <1>1, HookInvariant, PTL

\* A recorded hook that asks for the installed authority alone finds one, as long
\* as no manifest was deleted or overwritten.
THEOREM PinIsKept == Spec => []PinKept
<1>1. HookInv => PinKept
  BY DEF HookInv
<1> QED  BY <1>1, HookInvariant, PTL

\* Whatever it found, an install that ends undisturbed leaves a hook that doctor
\* calls configured.
THEOREM InstallsRepair == Spec => InstallRepairs
<1> DEFINE Unrepaired ==
      \E s \in Slots, a \in Adapters :
        /\ At(s, "record") /\ proc[s].adapter = a /\ manifest'.record[a].by = proc[s].id
        /\ ~lost /\ proc[s].saw = manifest /\ writer[a] = proc[s].id
        /\ disk[a].user = installed[a].user /\ disk[a].cmds = installed[a].cmds
        /\ ~(Diagnosis(a)' = "configured")
<1>1. TypeInv /\ HookInv /\ [Next]_vars => ~Unrepaired
  <2> SUFFICES ASSUME TypeInv, HookInv, [Next]_vars, NEW s \in Slots, NEW a \in Adapters,
                      At(s, "record"), proc[s].adapter = a,
                      manifest'.record[a].by = proc[s].id, ~lost, proc[s].saw = manifest,
                      writer[a] = proc[s].id, disk[a].user = installed[a].user,
                      disk[a].cmds = installed[a].cmds
               PROVE  Diagnosis(a)' = "configured"
    OBVIOUS
  <2> DEFINE p == proc[s]
  <2>1. /\ p \in Locals /\ p.copy \in TypedManifests /\ p.cmd \in Commands
        /\ p.id \in 1..installs /\ installs \in Nat /\ manifest.record[a].by # p.id
    BY LocalsTyped, HookAssumption
       DEF TypeInv, TypeOK, HookInv, Numbered, Unrecorded, At
  <2>2. Record(s)
    <3>1. manifest' # manifest
      BY <2>1
    <3>2. \A t \in Slots : Record(t) => t = s
      <4> SUFFICES ASSUME NEW t \in Slots, Record(t), t # s PROVE FALSE
        OBVIOUS
      <4>1. /\ proc[t].copy \in TypedManifests /\ proc[t].pc = "record"
            /\ manifest' = [proc[t].copy EXCEPT !.record[proc[t].adapter] = Digest(t)]
        BY LocalsTyped DEF Record, TypeInv, At
      <4>2. proc[t].id # p.id /\ proc[t].copy.record[a].by # p.id
        BY <4>1 DEF HookInv, Numbered, Unrecorded, At
      <4>3. \/ manifest'.record[a] = Digest(t)
            \/ manifest'.record[a] = proc[t].copy.record[a]
        BY <4>1 DEF TypedManifests, Manifests
      <4> QED  BY <4>2, <4>3 DEF Digest
    <3>3. CASE Others
      <4>1. manifest' = Empty
        BY <3>1, <3>3 DEF Others, LoseManifest, TakeOut, Delete, Edit, Leave
      <4> QED  BY <2>1, <4>1 DEF Empty, NoRecord
    <3> QED  BY <3>1, <3>2, <3>3
             DEF Next, Step, Begin, ResolveBase, CopyManifest, ResolveAgain, Capture, Command,
                 ReadText, Publish, Chmod, Stop, Reads, vars
  <2>3. /\ manifest'.record[a] = Digest(s) /\ manifest'.base = p.copy.base
        /\ disk' = disk
    BY <2>1, <2>2 DEF Record, TypedManifests, Manifests
  <2>4. installed[a] = Merged(s)
    BY DEF HookInv, Spoken
  <2>5. p.cmd = "pinned" <=> p.copy.base # None
    BY DEF HookInv, Agreed, Agrees, Commanded, At
  <2>6. a \in GitHooks /\ disk[a].cmds # {} => disk[a].exec
    BY DEF HookInv, Executable, Runs, At
  <2>7. Expected' = p.cmd
    BY <2>1, <2>3, <2>5 DEF Expected, Commands
  <2>8. p.cmd \in Merged(s).cmds
    BY DEF Merged
  <2>9. Runnable(a)'
    <3>1. CASE a \in GitHooks
      <4>1. Merged(s).user = None /\ Merged(s).cmds = {p.cmd}
        BY <3>1 DEF Merged
      <4> QED  BY <2>3, <2>4, <2>6, <2>7, <3>1, <4>1 DEF Runnable
    <3>2. CASE a \notin GitHooks
      BY <2>3, <2>4, <2>7, <2>8, <3>2 DEF Runnable
    <3> QED  BY <3>1, <3>2
  <2>10. Recorded(a)'
    <3>1. manifest'.record[a].by # 0
      BY <2>1
    <3> QED  BY <3>1 DEF Recorded, NoRecord
  <2>11. ~Drift(a)'
    <3>1. Covered(a, disk'[a]) = Covered(a, Merged(s))
      BY <2>3, <2>4 DEF Covered
    <3>2. Matches(manifest'.record[a], Covered(a, disk'[a]))
      BY <2>3, <3>1 DEF Matches, Digest
    <3> QED  BY <3>2 DEF Drift
  <2> QED  BY <2>9, <2>10, <2>11 DEF Diagnosis
<1>2. TypeInv /\ HookInv /\ [Next]_vars =>
        [\A s \in Slots, a \in Adapters :
           ( /\ At(s, "record") /\ proc[s].adapter = a /\ manifest'.record[a].by = proc[s].id
             /\ ~lost /\ proc[s].saw = manifest /\ writer[a] = proc[s].id
             /\ disk[a].user = installed[a].user /\ disk[a].cmds = installed[a].cmds )
           => Diagnosis(a)' = "configured"]_vars
  BY <1>1
<1> QED  BY <1>2, HookInvariant, PTL DEF Spec, InstallRepairs

\* No install takes a pin away from a hook whose record it read and whose base is
\* still in the manifest.
THEOREM PinsAreNotDropped == Spec => NoDowngrade
<1> DEFINE Downgrade ==
      \E s \in Slots :
        LET a == proc[s].adapter IN
        /\ At(s, "publish") /\ proc'[s].pc = "chmod"
        /\ "pinned" \in disk[a].cmds /\ "pinned" \notin disk'[a].cmds
        /\ ~(lost \/ overtaken \/ ~Settled(a) \/ proc[s].saw # manifest)
<1>1. TypeInv /\ HookInv /\ [Next]_vars => ~Downgrade
  <2> SUFFICES ASSUME TypeInv, HookInv, [Next]_vars, NEW s \in Slots, NEW a, a = proc[s].adapter,
                      At(s, "publish"), proc'[s].pc = "chmod",
                      "pinned" \in disk[a].cmds, "pinned" \notin disk'[a].cmds,
                      ~lost, ~overtaken, Settled(a), proc[s].saw = manifest
               PROVE  FALSE
    OBVIOUS
  <2> DEFINE p == proc[s]
  <2>1. /\ a \in Adapters /\ disk \in [Adapters -> File] /\ installed \in [Adapters -> File]
        /\ p.cmd \in Commands
    BY LocalsTyped DEF TypeInv, TypeOK, At
  <2>2. Step(s)
    <3>1. ASSUME NEW t \in Slots, Step(t), t # s PROVE FALSE
      BY <3>1, OthersLocals DEF At
    <3>2. Others \/ UNCHANGED vars => proc' = proc
      BY DEF Others, LoseManifest, TakeOut, Delete, Edit, Leave, vars
    <3> QED  BY <3>1, <3>2 DEF Next, At
  <2>3. Publish(s)
    <3>1. ~Stop(s)
      BY EndMoves DEF Idle
    <3> QED  BY <2>2, <3>1 DEF Step, Begin, ResolveBase, CopyManifest, ResolveAgain, Capture,
                                Command, ReadText, Chmod, Record, At
  <2>4. disk'[a] = Merged(s)
    BY <2>1, <2>3 DEF Publish
  <2>5. p.cmd = "plain"
    BY <2>1, <2>4 DEF Merged, Commands
  <2>6. p.base = None /\ manifest.base = None
    BY <2>5 DEF HookInv, Copies, Consistent, Copied, Commanded, At
  <2>7. CASE a = Cursor
    <3>1. TextRead(p) /\ p.saw.record[a].by = writer[a]
      BY <2>7, HookAssumption DEF TextRead, At, Settled
    <3>2. disk[a].cmds \subseteq p.text.cmds
      BY <3>1 DEF HookInv, Held, ReadAll
    <3>3. Merged(s).cmds = p.text.cmds \union {p.cmd}
      BY <2>6, <2>7, HookAssumption DEF Merged
    <3> QED  BY <2>4, <3>2, <3>3
  <2>8. CASE a # Cursor
    <3>1. installed[a].cmds # Commands
      BY <2>1, <2>8 DEF HookInv, Spoken, Speaks, Settled, Recorded
    <3>2. "pinned" \in installed[a].cmds /\ installed[a].cmds \subseteq Commands
      BY <2>1 DEF HookInv, Held, File
    <3>3. installed[a].cmds = {"pinned"}
      BY <3>1, <3>2 DEF Commands
    <3> QED  BY <2>1, <2>6, <3>3 DEF HookInv, PinKept
  <2> QED  BY <2>7, <2>8
<1>2. TypeInv /\ HookInv /\ [Next]_vars =>
        [\A s \in Slots :
           LET a == proc[s].adapter IN
           ( /\ At(s, "publish") /\ proc'[s].pc = "chmod"
             /\ "pinned" \in disk[a].cmds /\ "pinned" \notin disk'[a].cmds )
           => lost \/ overtaken \/ ~Settled(a) \/ proc[s].saw # manifest]_vars
  BY <1>1
<1> QED  BY <1>2, HookInvariant, PTL DEF Spec, NoDowngrade
=============================================================================
