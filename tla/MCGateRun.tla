----------------------------- MODULE MCGateRun -----------------------------
(***************************************************************************)
(* Small instances of GateRun: two files and the policy, two texts, two    *)
(* policies.  "zoned" declares permission zones (a is protected, b         *)
(* editable) and two checks; "plain" declares none and reads less.  The    *)
(* instance about the worktree adds g, a protected file that Git ignores   *)
(* and tracks nowhere, and has two casts: where g exists, one run under a  *)
(* trust base or of doctor; where it does not, two runs with --reuse.      *)
(***************************************************************************)
EXTENDS GateProperties, TLC

CONSTANTS pol, a, b, g, t1, t2, zoned, plain, absent, unread, c1, c2

MCFiles == {a, b}
MCTexts == {t1, t2, zoned, plain}
MCPolicies == {zoned, plain}
MCReqs == {"done"}

\* The second check is advisory and has a plugin-declared input.
TwoChecks ==
    [paths |-> <<{a, b}, {b}>>, extra |-> <<{}, {a}>>, warn |-> {2}, fresh |-> {},
     config |-> {b}, permits |-> FALSE,
     zone |-> (a :> "protected" @@ b :> "editable" @@ pol :> "unclassified"),
     needs |-> [q \in MCReqs |-> {1, 2}]]

MCDoc == (zoned :> [TwoChecks EXCEPT !.permits = TRUE] @@
          plain :> [TwoChecks EXCEPT !.paths = <<{a}, {b}>>, !.extra = <<{}, {}>>,
                                     !.warn = {}])

\* One check over both files: what the runs about reuse need.
OneCheck == [TwoChecks EXCEPT !.paths = <<{a, b}>>, !.extra = <<{}>>, !.warn = {},
                              !.config = {}, !.needs = [q \in MCReqs |-> {1}]]

MCDoc1 == (zoned :> [OneCheck EXCEPT !.permits = TRUE] @@
           plain :> [OneCheck EXCEPT !.paths = <<{a}>>])

\* The plain policy's check reads both files too.
MCDoc2 == (zoned :> [OneCheck EXCEPT !.permits = TRUE] @@ plain :> OneCheck)

Disk(p, x, y) == (pol :> p @@ a :> x @@ b :> y)

NoneIgnored == {}

\* With g, absent from every commit and from the index.
TrustFiles == {a, b, g}
AndG(f, x) == f @@ (g :> x)
TrustDoc ==
    LET doc == [MCDoc1[zoned] EXCEPT !.paths = <<{a, b, g}>>,
                                     !.zone = AndG(@, "protected")]
    IN (zoned :> doc @@ plain :> [doc EXCEPT !.permits = FALSE, !.paths = <<{a, b}>>])
TrustIgnored == {g}

MCCommits == {c1, c2}
MCTree == (c1 :> Disk(zoned, t1, t1) @@ c2 :> Disk(zoned, t1, t2))
OneCommit == {c1}
OneTree == (c1 :> Disk(zoned, t1, t1))
MCIndex == Disk(zoned, t1, t1)
PlainIndex == Disk(plain, t1, t1)

TrustTree == (c1 :> AndG(MCTree[c1], absent) @@ c2 :> AndG(MCTree[c2], absent))
TrustIndex == AndG(MCIndex, absent)

\* What an edit may leave: any text, another policy, or nothing.
MCMay == Disk({zoned, plain, absent}, {t1, t2, absent}, {t1, t2, absent})
FilesOnly == Disk({}, {t1, t2, absent}, {t1, t2, absent})

MCDisks == {Disk(zoned, t1, t1), Disk(zoned, t1, t2), Disk(zoned, absent, t1),
            Disk(plain, t1, t1)}
OneDisk == {Disk(plain, t1, t1)}
ZonedDisk == {Disk(zoned, t1, t1)}
TrustMay == AndG(Disk({plain, absent}, {t1, t2, absent}, {t1, t2}), {})
TrustDisks == {AndG(Disk(zoned, t1, t1), t1), AndG(Disk(plain, t1, t1), absent)}

Check == NoInvocation
Reusing == [Check EXCEPT !.reuse = TRUE]
Trusting == [Check EXCEPT !.trust = TRUE]

\* Every kind of invocation the command line and the hooks make.
AllOptions ==
    {Check, Trusting,
     [Check EXCEPT !.diff = TRUE],
     [Trusting EXCEPT !.diff = TRUE],
     [Trusting EXCEPT !.slot = "stop"],
     [Trusting EXCEPT !.slot = "pre-push", !.input_error = TRUE],
     [Check EXCEPT !.slot = "pre-commit"],
     [Check EXCEPT !.slot = "stop", !.authority_error = TRUE, !.input_error = TRUE],
     [Check EXCEPT !.command = "lint-config"],
     [Trusting EXCEPT !.command = "doctor"],
     [Check EXCEPT !.command = "doctor"]}

TrustOptions == {Trusting, [Check EXCEPT !.command = "doctor"]}
ReuseOptions == {Reusing}
WorktreeOptions == TrustOptions \union ReuseOptions
ReuseTrusting == {[Reusing EXCEPT !.trust = TRUE]}
CommitOptions == {[Check EXCEPT !.slot = "pre-commit"]}

\* Nobody edits g, so it tells the casts apart.  In one run no edit goes back to
\* the first text; with --reuse alone neither the policy nor the trust base
\* matters, and both stay.
Trusts == disk[g] # absent

CastStarts ==
    \/ Trusts /\ runs = 0 /\ \E o \in TrustOptions : Start(o)
    \/ ~Trusts /\ \E o \in ReuseOptions : Start(o)

CastEdits ==
    /\ Environment
    /\ IF Trusts THEN \A p \in {a, b} : disk'[p] # disk[p] => disk'[p] # t1
                 ELSE disk'[pol] = disk[pol] /\ ref' = ref

CastInit == Init /\ (Trusts \/ ref = c1)
CastNext == CastStarts \/ RunStep \/ Failure \/ CastEdits

WorktreeSpec == CastInit /\ [][CastNext]_vars
=============================================================================
