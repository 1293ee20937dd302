--------------------------- MODULE X402Refinement ---------------------------
(***************************************************************************)
(* X402EscrowManager, with the registries it calls, implements             *)
(* EscrowPromise when no client locks the same id twice in one block.      *)
(***************************************************************************)
EXTENDS X402EscrowManager

OutcomeOf(id) ==
  CASE escrows[id].status = "NONE" -> "none"
    [] escrows[id].status = "REFUNDED" -> "refunded"
    [] escrows[id].status = "RESOLVED" -> "split"
    [] /\ escrows[id].status \in {"LOCKED", "CLAIMED", "DISPUTED"}
       /\ pendingWithdrawals[id].withdrawn -> "paid"
    [] OTHER -> "held"

Promise == INSTANCE EscrowPromise WITH
  Escrows <- EscrowIds,
  Amounts <- RequestValues,
  Fee <- [amount \in RequestValues |-> FeeOn(amount)],
  Parties <- Recipients,
  outcome <- [id \in EscrowIds |-> OutcomeOf(id)],
  deposit <- [id \in EscrowIds |-> escrows[id].amount],
  vault <- managerBalance

(***************************************************************************)
(* Every escrow's money leaves the contract at most once and in full, to   *)
(* whom it is due: the amount to the agent on a refund, the amount less    *)
(* its fee to the provider on a withdrawal, with the fee to the treasury   *)
(* of that moment and kept when there is none, and both shares of a        *)
(* resolution; the deposit of a live escrow is not replaced.               *)
(***************************************************************************)
KeepsPromise == Promise!Spec
=============================================================================
