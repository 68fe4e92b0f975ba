--------------------------- MODULE MCHookInstall ---------------------------
(***************************************************************************)
(* A small instance of hook installation: a Git hook, Cursor's hook file   *)
(* and Claude Code's shared settings, and two installs at a time.          *)
(***************************************************************************)
EXTENDS HookInstallProperties, TLC

CONSTANTS pre_commit, cursor, claude, t1, c1, s1, s2, none

MCAdapters == {pre_commit, cursor, claude}
MCGitHooks == {pre_commit}
MCEntryHooks == {claude}
MCTexts == {t1}
MCBases == {c1}
MCSlots == {s1, s2}
SlotSymmetry == Permutations(MCSlots)

Foreign == [Missing EXCEPT !.user = t1]
Ready(a) == [user |-> IF a = pre_commit THEN none ELSE t1, cmds |-> {"pinned"},
             exec |-> a = pre_commit]

\* Nothing there yet, everywhere something of others', and everything installed
\* with a trust base.
MCRepos ==
    {[disk |-> [a \in MCAdapters |-> Missing], manifest |-> Empty],
     [disk |-> [a \in MCAdapters |-> Foreign], manifest |-> Empty],
     [disk |-> [a \in MCAdapters |-> Ready(a)],
      manifest |-> [base |-> c1,
                    record |-> [a \in MCAdapters |->
                                  [user |-> IF a = cursor THEN t1 ELSE none, cmds |-> {"pinned"},
                                   by |-> 0]]]]}
=============================================================================
