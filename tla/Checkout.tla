------------------------------ MODULE Checkout ------------------------------
(***************************************************************************)
(* One checkout that several of the bundled programs work in at once: what *)
(* they share (the policy, AGENTS.md, the incident tests, the receipts)    *)
(* and a gate run as they meet it.  GateRun has the run in full; here it   *)
(* is three steps: it reads, it checks, it stores a receipt.               *)
(***************************************************************************)
EXTENDS Naturals, Sequences, FiniteSets

CONSTANTS
  Ids,      (* incident names                                               *)
  Kits,     (* runs of incident-kit                                         *)
  User,     (* whoever replaces a placeholder by a real test                *)
  None,     (* nobody, nothing                                              *)
  MaxEdits  (* bound on the steps of others                                 *)

ASSUME CheckoutAssumption ==
    /\ None \notin Kits \union {User} /\ User \notin Kits
    /\ MaxEdits \in Nat

VARIABLES
  policy,   (* the incidents exitzero.toml lists checks for                 *)
  agents,   (* those the managed section of AGENTS.md was rendered from     *)
  kits_dir, (* per incident: is tests/incidents/<id> there, and who wrote   *)
            (* each of its files                                            *)
  runs,     (* the stored receipts, oldest first                            *)
  pruned,   (* those somebody has deleted since                             *)
  gate,     (* the run under way                                            *)
  sync,     (* `init --sync`: the policy it has loaded, None when it is not *)
            (* under way                                                    *)
  edits     (* steps of others so far                                       *)

sourceVars == <<policy, agents, kits_dir>>
checkoutVars == <<sourceVars, runs, pruned, gate, sync, edits>>

Written == {"test", "manifest", "readme"}
NoKit == [made |-> FALSE, by |-> [f \in Written |-> None]]

\* What a run looks at: the tests by their author, absent ones by None.
Tests == [i \in Ids |-> kits_dir[i].by["test"]]
Sources == [listed |-> policy, section |-> agents, tests |-> Tests]

NoRun == [stage |-> "idle", read |-> [listed |-> {}, section |-> {}, tests |-> [i \in Ids |-> None]],
          code |-> 0, ref |-> 0]

CheckoutInit ==
    /\ policy = {} /\ agents = {} /\ kits_dir = [i \in Ids |-> NoKit]
    /\ runs = <<>> /\ pruned = {} /\ gate = NoRun
    /\ sync = None /\ edits = 0

-----------------------------------------------------------------------------
(* A gate run.                                                             *)

\* The policy is loaded and everything the run depends on is hashed.
GateReads ==
    /\ gate.stage = "called"
    /\ gate' = [gate EXCEPT !.stage = "read", !.read = Sources]
    /\ UNCHANGED <<sourceVars, runs, pruned, sync, edits>>

\* A check whose test file is not there is an operational error, a
\* placeholder or a section of another policy is a violation, and real tests
\* pass or fail with the production code.
Verdicts(listed, section, tests) ==
    IF \E i \in listed : tests[i] = None THEN {2}
    ELSE IF section # listed \/ \E i \in listed : tests[i] # User THEN {1}
    ELSE IF listed = {} THEN {0} ELSE {0, 1}

GateChecks ==
    /\ gate.stage = "read"
    /\ \E v \in Verdicts(gate.read.listed, agents, Tests) :
          gate' = [gate EXCEPT !.stage = "checked", !.code = v]
    /\ UNCHANGED <<sourceVars, runs, pruned, sync, edits>>

\* The second snapshot and the receipt; changed inputs fail the run.
GateStores ==
    /\ gate.stage = "checked"
    /\ LET code == IF Sources # gate.read /\ gate.code = 0 THEN 1 ELSE gate.code
       IN /\ runs' = Append(runs, [code |-> code, read |-> gate.read])
          /\ gate' = [gate EXCEPT !.stage = "done", !.code = code, !.ref = Len(runs')]
    /\ UNCHANGED <<sourceVars, pruned, sync, edits>>

\* A receipt that cannot be stored makes the run an operational error.
GateStoresNothing ==
    /\ gate.stage = "checked"
    /\ gate' = [gate EXCEPT !.stage = "done", !.code = 2, !.ref = 0]
    /\ UNCHANGED <<sourceVars, runs, pruned, sync, edits>>

GateRuns == GateReads \/ GateChecks \/ GateStores \/ GateStoresNothing

-----------------------------------------------------------------------------
(* Everybody else.                                                         *)

Edit == edits < MaxEdits /\ edits' = edits + 1

\* The placeholders are replaced by assertions against production code.
Replace(i) ==
    /\ Edit
    /\ kits_dir[i].by["test"] \in Kits
    /\ kits_dir' = [kits_dir EXCEPT ![i].by["test"] = User]
    /\ UNCHANGED <<policy, agents, runs, pruned, gate, sync>>

\* `init --sync` renders the section from the policy it loaded before.
SyncLoads ==
    /\ Edit /\ sync = None
    /\ sync' = policy
    /\ UNCHANGED <<sourceVars, runs, pruned, gate>>

SyncWrites ==
    /\ sync # None
    /\ agents' = sync /\ sync' = None
    /\ UNCHANGED <<policy, kits_dir, runs, pruned, gate, edits>>

Prune(n) ==
    /\ Edit /\ n \notin pruned
    /\ pruned' = pruned \union {n}
    /\ UNCHANGED <<sourceVars, runs, gate, sync>>

Others == (\E i \in Ids : Replace(i)) \/ SyncLoads \/ SyncWrites
          \/ (\E n \in DOMAIN runs : Prune(n))

CheckoutTypes ==
    /\ policy \subseteq Ids /\ agents \subseteq Ids
    /\ kits_dir \in [Ids -> [made: BOOLEAN, by: [Written -> Kits \union {User, None}]]]
    /\ \A n \in DOMAIN runs : runs[n].code \in 0..2 /\ runs[n].read.listed \subseteq Ids
    /\ pruned \subseteq DOMAIN runs
    /\ gate.stage \in {"idle", "called", "read", "checked", "done"}
    /\ gate.code \in 0..2 /\ gate.ref \in 0..Len(runs)
    /\ sync = None \/ sync \subseteq Ids
    /\ edits \in 0..MaxEdits
=============================================================================
