---------------------------- MODULE MCPolicyPack ----------------------------
(***************************************************************************)
(* A small instance of the policy pack: AGENTS.md, a Git hook, the         *)
(* manifest and the receipt.                                               *)
(***************************************************************************)
EXTENDS PolicyPackProperties

CONSTANTS u1, u2, p1, p2, none

MCTexts == {u1, u2}
MCPolicies == {p1, p2}
GitHook == {2}

Shared(text, part) == [user |-> text, section |-> part, mode |-> "shared"]

\* A fresh repository, one with its own AGENTS.md, and one where an older pack
\* was applied and its hook has lost its execute permission.
MCDisks ==
    {[t \in Targets |-> Missing],
     [t \in Targets |-> IF t = 1 THEN Shared(u1, none) ELSE Missing],
     [t \in Targets |-> CASE t = 1 -> Shared(u1, p1)
                          [] t = 2 -> Shared(none, p1)
                          [] t = 3 -> Shared(u1, p1)
                          [] t = 4 -> Missing]}
=============================================================================
