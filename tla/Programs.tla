------------------------------ MODULE Programs ------------------------------
(***************************************************************************)
(* The programs that live off the gate.  In one checkout: runs of          *)
(* incident-kit, the MCP gate server with the runs it starts, and one      *)
(* ledger-publish, beside whoever edits the same files, which are all they *)
(* share.  Beside it, in workspaces of its own, one program that tries the *)
(* gate out.                                                               *)
(***************************************************************************)
EXTENDS IncidentKit, GateServer, RunLedger, ScenarioEval, FixtureRun, ReleaseCheck, PolicyPilot

toolVars == <<checkoutVars, kitVars, serverVars, ledgerVars>>
vars == <<toolVars, trialVars, evalVars, pilotVars>>

Init ==
    /\ CheckoutInit /\ KitInit /\ ServerInit /\ LedgerInit
    /\ trial \in {"none", "eval", "fixtures", "release", "pilot"}
    /\ TrialsInit /\ EvalInit /\ PilotInit

ToolsNext ==
    \/ (GateRuns \/ Others) /\ UNCHANGED <<kitVars, serverVars, ledgerVars>>
    \/ KitSteps /\ UNCHANGED <<serverVars, ledgerVars>>
    \/ (ServerSteps \/ ClientSteps) /\ UNCHANGED <<kitVars, ledgerVars>>
    \/ (PublisherSteps \/ Swap) /\ UNCHANGED <<kitVars, serverVars>>

TrialsNext ==
    \/ EvalSteps /\ UNCHANGED pilotVars
    \/ (FixtureSteps \/ ReleaseSteps) /\ UNCHANGED <<evalVars, pilotVars>>
    \/ PilotSteps /\ UNCHANGED evalVars

Next ==
    \/ ToolsNext /\ UNCHANGED <<trialVars, evalVars, pilotVars>>
    \/ TrialsNext /\ UNCHANGED toolVars

Spec == Init /\ [][Next]_vars
=============================================================================
