--------------------------- MODULE X402Accounting ---------------------------
(***************************************************************************)
(* What the escrow manager, the bond registry and the nonce registry must  *)
(* keep true together.                                                     *)
(***************************************************************************)
EXTENDS X402EscrowManager, SetSums

AmountOf == [id \in EscrowIds |-> escrows[id].amount]
ValueOf(ids) == SumOver(AmountOf, ids)

\* The contract still owes the escrow's amount to somebody.
Owed(id) ==
  \/ escrows[id].status \in {"LOCKED", "DISPUTED"}
  \/ escrows[id].status = "CLAIMED" /\ ~pendingWithdrawals[id].withdrawn

(***************************************************************************)
(* The contract can always pay everyone it owes, through claims, disputes, *)
(* refunds, withdrawals and resolutions in any order: no amount is paid    *)
(* out twice, and the fee is not paid on top of the amount.                *)
(***************************************************************************)
Solvent ==
  managerBalance >= ValueOf({id \in EscrowIds : Owed(id)})

(***************************************************************************)
(* totalEscrowed counts what is in flight, neither less after a dispute    *)
(* nor more after a claim (its checked subtraction would block refunds).   *)
(***************************************************************************)
TotalEscrowedIsInFlight ==
  totalEscrowed = ValueOf({id \in EscrowIds : InFlight(id)})

(***************************************************************************)
(* A provider's pendingSettlements and activeRequests are the sum and the  *)
(* number of its escrows in flight (IProviderBondRegistry.sol:29-30), and  *)
(* stay within its bond and what was slashed from it, while the provider   *)
(* withdraws, is slashed or is paused.                                     *)
(***************************************************************************)
BondMatchesEscrows ==
  \A p \in Providers :
    LET mine == {id \in EscrowIds : id.provider = p /\ InFlight(id)}
    IN  /\ bonds[p].pendingSettlements = ValueOf(mine)
        /\ bonds[p].activeRequests = Cardinality(mine)
        /\ bonds[p].pendingSettlements <= bonds[p].bondedAmount + bonds[p].totalSlashed

-----------------------------------------------------------------------------
(***************************************************************************)
(* What the repository says and the code does not keep.                    *)
(***************************************************************************)

(***************************************************************************)
(* "escrowId Unique escrow identifier" (IX402EscrowManager.sol:288): every *)
(* lock made an escrow of its own.                                         *)
(***************************************************************************)
EveryLockHasItsOwnId ==
  escrowCount = Cardinality({id \in EscrowIds : escrows[id].status # "NONE"})
=============================================================================
