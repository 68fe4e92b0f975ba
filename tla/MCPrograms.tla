----------------------------- MODULE MCPrograms -----------------------------
(***************************************************************************)
(* Casts.  In the checkout, over two incident names and at most two steps  *)
(* of others: two runs of incident-kit and one check of the agent's; a     *)
(* finished kit, two checks and a ledger-publish; an agent with frames of  *)
(* every class.  Outside it: one trial at a time.  Programs that are not   *)
(* in the cast have stopped before they did anything, and the frames of    *)
(* the first two casts are already sent: reachable states of the           *)
(* specification, from which everybody else starts.                        *)
(***************************************************************************)
EXTENDS ProgramProperties, TLC

CONSTANTS i1, i2, k1, k2, source, agentsmd
MCIds == {i1, i2}
MCKits == {k1, k2}
MCArchived == {source, agentsmd}
Cli(ws) == [ws |-> ws, how |-> "cli"]
MCPlan == <<Cli("main"), [ws |-> "main", how |-> "hook"], Cli("main"),
            Cli("node"), Cli("node"), Cli("pack"), Cli("pack")>>

Agent(frames, open) ==
    /\ sent = frames /\ closed = ~open
    /\ taken = 0 /\ asked = 0 /\ answers = <<>>
    /\ server = IF frames = <<>> /\ ~open THEN "exit0" ELSE "reading"

NoPublisher ==
    /\ options = [since |-> 0, pr |-> FALSE]
    /\ listing = {} /\ counted = {} /\ corrupt = {} /\ hints = "none"
    /\ json = None /\ body = None /\ comment = None /\ publisher = "killed"

TwoKits == CheckoutInit /\ KitInit /\ Agent(<<"check">>, FALSE) /\ NoPublisher

\* k1 has published its kit for i1.
Published(spent) ==
    /\ policy = {i1} /\ agents = {i1}
    /\ kits_dir = [i \in Ids |-> IF i = i1 THEN [made |-> TRUE, by |-> [f \in Written |-> k1]]
                                 ELSE NoKit]
    /\ runs = <<>> /\ pruned = {} /\ gate = NoRun /\ sync = None /\ edits = spent
    /\ kit = [k \in Kits |->
                IF k = k1 THEN [step |-> "ended", policy |-> {i1}, section |-> {i1}, exit |-> 0]
                ELSE [Fresh EXCEPT !.step = "ended", !.exit = 2]]
    /\ incident = [k \in Kits |-> i1] /\ raced = {}

Ledger == Published(0) /\ Agent(<<"check", "check">>, FALSE) /\ LedgerInit

AnyAgent == Published(0) /\ Agent(<<>>, TRUE) /\ NoPublisher

OneTrial == Published(MaxEdits) /\ Agent(<<>>, FALSE) /\ NoPublisher

MCInit ==
    /\ TrialsInit /\ EvalInit /\ PilotInit
    /\ \/ (TwoKits \/ Ledger \/ AnyAgent) /\ trial = "none"
                                         /\ snapshot = [f \in Archived |-> "reviewed"]
       \/ OneTrial /\ trial \in {"eval", "fixtures", "release"}
                   /\ snapshot = [f \in Archived |-> "reviewed"]
       \/ OneTrial /\ trial = "pilot"

MCSpec == MCInit /\ [][Next]_vars
=============================================================================
