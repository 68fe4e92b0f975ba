----------------------------- MODULE IncidentKit -----------------------------
(***************************************************************************)
(* `exitzero plugin incident-kit` (plugin-harness incident.py): every      *)
(* destination is looked at and every text is prepared before the first    *)
(* write; then the directory, the tests, the policy and AGENTS.md, each    *)
(* file by a rename.  Any write may fail and the process may be killed; it *)
(* cleans up nothing.                                                      *)
(***************************************************************************)
EXTENDS Checkout

VARIABLES
  kit,      (* per run: its step, the texts it prepared, its exit code      *)
  incident, (* the --id it was given                                        *)
  raced     (* history: runs that read the policy before another wrote it   *)

kitVars == <<kit, incident, raced>>
elsewhere == <<runs, pruned, gate, sync, edits>>

\* 3 is a run that has not ended; a killed one counts as failed.
Fresh == [step |-> "validate", policy |-> {}, section |-> {}, exit |-> 3]

KitInit ==
    /\ kit = [k \in Kits |-> Fresh]
    /\ incident \in [Kits -> Ids]
    /\ raced = {}

Go(k, step) == kit' = [kit EXCEPT ![k].step = step]
End(k, code) == kit' = [kit EXCEPT ![k].step = "ended", ![k].exit = code]

\* The arguments, the plugin, the globs; and the directory must not exist.
Validate(k) ==
    /\ kit[k].step = "validate"
    /\ IF kits_dir[incident[k]].made THEN End(k, 2) ELSE Go(k, "policy_text")
    /\ UNCHANGED <<sourceVars, elsewhere, incident, raced>>

\* The policy plus the kit's checks and requirement; its ids must be new.
PolicyText(k) ==
    /\ kit[k].step = "policy_text"
    /\ IF incident[k] \in policy THEN End(k, 2)
       ELSE kit' = [kit EXCEPT ![k].step = "agents_text",
                               ![k].policy = policy \union {incident[k]}]
    /\ UNCHANGED <<sourceVars, elsewhere, incident, raced>>

\* AGENTS.md with the section of that policy (one that cannot take a section
\* is refused: Stops).
AgentsText(k) ==
    /\ kit[k].step = "agents_text"
    /\ kit' = [kit EXCEPT ![k].step = "mkdir", ![k].section = kit[k].policy]
    /\ UNCHANGED <<sourceVars, elsewhere, incident, raced>>

\* Fault: the policy is published before the tests it names.
OrderPolicyFirst == <<"mkdir", "policy", "test", "manifest", "readme", "agents">>

\* Tests first: a partial write never adds a passing placeholder.
Order == <<"mkdir", "test", "manifest", "readme", "policy", "agents">>

After(step) == Order[1 + CHOOSE n \in 1..5 : Order[n] = step]

\* Fault: an existing directory is taken over.
MakeDirectoryOrReuse(k) ==
    /\ kit[k].step = "mkdir"
    /\ kits_dir' = [kits_dir EXCEPT ![incident[k]].made = TRUE]
    /\ Go(k, After("mkdir"))
    /\ UNCHANGED <<policy, agents, elsewhere, incident, raced>>

\* mkdir(exist_ok=False) decides between two runs for one incident.
MakeDirectory(k) ==
    /\ kit[k].step = "mkdir"
    /\ IF kits_dir[incident[k]].made
       THEN End(k, 2) /\ UNCHANGED kits_dir
       ELSE /\ kits_dir' = [kits_dir EXCEPT ![incident[k]].made = TRUE]
            /\ Go(k, After("mkdir"))
    /\ UNCHANGED <<policy, agents, elsewhere, incident, raced>>

WriteFile(k) ==
    /\ kit[k].step \in Written
    /\ kits_dir' = [kits_dir EXCEPT ![incident[k]].by[kit[k].step] = k]
    /\ Go(k, After(kit[k].step))
    /\ UNCHANGED <<policy, agents, elsewhere, incident, raced>>

\* The runs that have read a policy they have yet to write.
Stale(k) == {j \in Kits \ {k} : kit[j].step \in {"agents_text", "mkdir", "policy"} \union Written}

WritePolicy(k) ==
    /\ kit[k].step = "policy"
    /\ policy' = kit[k].policy
    /\ raced' = raced \union Stale(k)
    /\ Go(k, After("policy"))
    /\ UNCHANGED <<agents, kits_dir, elsewhere, incident>>

WriteAgents(k) ==
    /\ kit[k].step = "agents"
    /\ agents' = kit[k].section
    /\ End(k, 0)
    /\ UNCHANGED <<policy, kits_dir, elsewhere, incident, raced>>

\* An OSError anywhere ends the run with what it has written left in place,
\* and so does a kill.
Stops(k) ==
    /\ kit[k].step # "ended"
    /\ End(k, 2)
    /\ UNCHANGED <<sourceVars, elsewhere, incident, raced>>

KitSteps ==
    \E k \in Kits :
        \/ Validate(k) \/ PolicyText(k) \/ AgentsText(k) \/ MakeDirectory(k)
        \/ WriteFile(k) \/ WritePolicy(k) \/ WriteAgents(k)
        \/ Stops(k)

KitTypes ==
    /\ \A k \in Kits :
          /\ kit[k].step \in Written \union {"validate", "policy_text", "agents_text", "mkdir",
                                             "policy", "agents", "ended"}
          /\ kit[k].policy \subseteq Ids /\ kit[k].section \subseteq Ids
          /\ kit[k].exit \in {0, 2, 3}
          /\ (kit[k].exit = 3) = (kit[k].step # "ended")
    /\ incident \in [Kits -> Ids] /\ raced \subseteq Kits
=============================================================================
