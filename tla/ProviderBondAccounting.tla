----------------------- MODULE ProviderBondAccounting -----------------------
(***************************************************************************)
(* What ProviderBondRegistry must keep true of its sums and of the bonds   *)
(* it lets providers hold.                                                 *)
(***************************************************************************)
EXTENDS ProviderBondRegistry, SetSums

\* Keys are bytes32, providers are addresses.
ASSUME EscrowIdsFinite == IsFiniteSet(EscrowIds)
ASSUME ProvidersFinite == IsFiniteSet(Providers)

AllBonds == SumOver([p \in Providers |-> bonds[p].bondedAmount], Providers)

RequestsOf(p) ==
  {id \in EscrowIds : activeRequests[id].live /\ activeRequests[id].provider = p}

ValueRequested(p) ==
  SumOver([id \in RequestsOf(p) |-> activeRequests[id].value], RequestsOf(p))

(***************************************************************************)
(* The tokens the registry holds back every bond: totalBonded is the sum   *)
(* of the bonds through registrations, top-ups, withdrawals and slashes,   *)
(* and the balance never falls below it (executeWithdrawal and             *)
(* slashProvider each pay out of the same balance).                        *)
(***************************************************************************)
BondsAreFunded ==
  /\ totalBonded = AllBonds
  /\ registryBalance >= totalBonded

(***************************************************************************)
(* pendingSettlements and activeRequests are the sum and the number of the *)
(* live requests, so completeRequest never underflows and an idle provider *)
(* owes nothing (IProviderBondRegistry.sol:29-30).  Assumes the escrow     *)
(* contract never reuses the id of a live request.                         *)
(***************************************************************************)
PendingMatchesRequests ==
  \A p \in Providers :
    /\ bonds[p].pendingSettlements = ValueRequested(p)
    /\ bonds[p].activeRequests = Cardinality(RequestsOf(p))

(***************************************************************************)
(* Requests in flight are covered by the bond, up to what was slashed from *)
(* it: no order of withdrawal request, new request and withdrawal takes    *)
(* the stake away from under a request (executeWithdrawal:366).            *)
(***************************************************************************)
RequestsStayCovered ==
  \A p \in Providers :
    bonds[p].pendingSettlements <= bonds[p].bondedAmount + bonds[p].totalSlashed

(***************************************************************************)
(* A bond shrinks without a slash only when no request is in flight and    *)
(* the delay since the owner last asked is over, whatever was requested,   *)
(* cancelled or topped up in between.                                      *)
(***************************************************************************)
DelayServed ==
  [][\A p \in Providers :
       bonds'[p].bondedAmount + bonds'[p].totalSlashed
         < bonds[p].bondedAmount + bonds[p].totalSlashed
         => /\ now >= bonds[p].withdrawalUnlockTime
            /\ RequestsOf(p) = {}]_vars

-----------------------------------------------------------------------------
(***************************************************************************)
(* What the repository says of the registry and the code does not keep.    *)
(***************************************************************************)

(***************************************************************************)
(* "Withdrawal cuts into locked hardware collateral"                       *)
(* (ProviderBondRegistry.sol:330): without a slash, a withdrawal leaves    *)
(* the collateral locked by HardwareCommitment in the bond.                *)
(***************************************************************************)
CollateralStaysBonded ==
  \A p \in Providers :
    bonds[p].totalSlashed = 0
      => bonds[p].hardwareCollateralLocked <= bonds[p].bondedAmount
=============================================================================
