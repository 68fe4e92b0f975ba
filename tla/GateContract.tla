---------------------------- MODULE GateContract ----------------------------
(***************************************************************************)
(* What a gate run promises whoever reads its exit status: 0 or 1 is only  *)
(* reported by a run that has put a receipt with that very code in the     *)
(* ledger, a run stores at most one receipt, and the ledger only grows.    *)
(* Exit 2 promises nothing about the ledger, and a killed run reports      *)
(* nothing.                                                                *)
(***************************************************************************)
EXTENDS Naturals, Sequences

VARIABLES
  stage,    (* of the current run: "ready", "running" or "stored"           *)
  ledger,   (* the exit codes of the stored receipts, oldest first          *)
  verdict   (* the exit code last reported, 3 before there is one           *)

contractVars == <<stage, ledger, verdict>>

Codes == 0..2

Init == stage = "ready" /\ ledger = <<>> /\ verdict = 3

Begin ==
    /\ stage = "ready" /\ stage' = "running"
    /\ verdict' = 3 /\ UNCHANGED ledger

Store ==
    /\ stage = "running" /\ stage' = "stored"
    /\ \E v \in Codes : ledger' = Append(ledger, v)
    /\ UNCHANGED verdict

Answer ==
    /\ stage = "stored" /\ stage' = "ready"
    /\ verdict' = ledger[Len(ledger)]
    /\ UNCHANGED ledger

Fail ==
    /\ stage # "ready" /\ stage' = "ready"
    /\ verdict' = 2 /\ UNCHANGED ledger

Die ==
    /\ stage # "ready" /\ stage' = "ready"
    /\ UNCHANGED <<ledger, verdict>>

Next == Begin \/ Store \/ Answer \/ Fail \/ Die

Spec == Init /\ [][Next]_contractVars
=============================================================================
