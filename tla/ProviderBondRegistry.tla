------------------------ MODULE ProviderBondRegistry ------------------------
(***************************************************************************)
(* contracts/src/economic/ProviderBondRegistry.sol: providers post a bond, *)
(* the escrow manager counts the requests in flight against it, slashers   *)
(* cut it, and the provider takes it back after a delay.                   *)
(*                                                                         *)
(* A transaction is one step: a revert is an action that is not enabled,   *)
(* and Solidity's checked subtraction is a guard.  The token itself is     *)
(* external: a transfer in always succeeds, a transfer out needs the       *)
(* balance.  Roles are not modelled as state: each action is available to  *)
(* whoever holds the role its function asks for.                           *)
(***************************************************************************)
EXTENDS Naturals

CONSTANTS
  Providers,              \* addresses that may register
  EscrowIds,              \* keys of _activeRequests
  BondAmounts,            \* amounts a provider deposits or asks to withdraw
  RequestValues,          \* values of a request, and of a provider's maximum
  SlashAmounts,           \* amounts a slasher asks for
  CollateralAmounts,      \* amounts HardwareCommitment locks or unlocks
  MIN_BOND,
  BOND_COVERAGE_RATIO,
  WITHDRAWAL_DELAY,
  SLASH_TO_INSURANCE_BPS,
  BPS_DENOMINATOR,
  MaxTime,                \* bound: the clock stops here
  MaxDeposits,            \* bound: no deposit takes bonds + slashes beyond it
  EarnedCap               \* bound: totalEarned is exact up to here, then stays

ASSUME BondConstants ==
  /\ BondAmounts \subseteq Nat
  /\ RequestValues \subseteq Nat
  /\ SlashAmounts \subseteq Nat
  /\ CollateralAmounts \subseteq Nat
  /\ MIN_BOND \in Nat \ {0}
  /\ BOND_COVERAGE_RATIO \in Nat
  /\ WITHDRAWAL_DELAY \in Nat
  /\ BPS_DENOMINATOR \in Nat \ {0}
  /\ SLASH_TO_INSURANCE_BPS \in 0 .. BPS_DENOMINATOR
  /\ MaxTime \in Nat
  /\ MaxDeposits \in Nat
  /\ EarnedCap \in Nat

VARIABLES
  now,                \* block.timestamp
  bonds,              \* _bonds
  activeRequests,     \* _activeRequests
  totalBonded,
  totalSlashed,
  registryBalance,    \* vamsToken.balanceOf(address(this))
  hasInsuranceFund,   \* insuranceFund != address(0)
  bondPaused          \* PausableUpgradeable

requestVars == <<bonds, activeRequests>>
treasuryVars == <<totalBonded, totalSlashed, registryBalance>>
adminVars == <<hasInsuranceFund, bondPaused>>
bondVars == <<bonds, activeRequests, totalBonded, totalSlashed,
              registryBalance, hasInsuranceFund, bondPaused>>
vars == <<now, bondVars>>

(***************************************************************************)
(* registered stands for registeredAt > 0.  A request is remembered by its *)
(* provider and value; request.provider = address(0) is NoRequest.         *)
(***************************************************************************)
Bond ==
  [registered : BOOLEAN, isActive : BOOLEAN, bondedAmount : Nat,
   maxRequestValue : Nat, pendingSettlements : Nat, activeRequests : Nat,
   totalEarned : Nat, totalSlashed : Nat, withdrawalUnlockTime : Nat,
   pendingWithdrawal : Nat, hardwareCollateralLocked : Nat]

NewBond(amount, maxValue) ==
  [registered |-> TRUE, isActive |-> TRUE, bondedAmount |-> amount,
   maxRequestValue |-> maxValue, pendingSettlements |-> 0,
   activeRequests |-> 0, totalEarned |-> 0, totalSlashed |-> 0,
   withdrawalUnlockTime |-> 0, pendingWithdrawal |-> 0,
   hardwareCollateralLocked |-> 0]

NoBond == [NewBond(0, 0) EXCEPT !.registered = FALSE, !.isActive = FALSE]

NoRequest == [live |-> FALSE]
Request == [live : {TRUE}, provider : Providers, value : Nat]

TypeOK ==
  /\ now \in Nat
  /\ bonds \in [Providers -> Bond]
  /\ activeRequests \in [EscrowIds -> Request \cup {NoRequest}]
  /\ totalBonded \in Nat
  /\ totalSlashed \in Nat
  /\ registryBalance \in Nat
  /\ hasInsuranceFund \in BOOLEAN
  /\ bondPaused \in BOOLEAN

BondInit ==
  /\ bonds = [p \in Providers |-> NoBond]
  /\ activeRequests = [id \in EscrowIds |-> NoRequest]
  /\ totalBonded = 0
  /\ totalSlashed = 0
  /\ registryBalance = 0
  /\ hasInsuranceFund = TRUE
  /\ bondPaused = FALSE

Init == now = 1 /\ BondInit

-----------------------------------------------------------------------------
(***************************************************************************)
(* Called by the provider itself.                                          *)
(***************************************************************************)
\* Mutant: the transfer into the registry is forgotten.
DepositUnpaid(amount) ==
  /\ totalBonded' = totalBonded + amount
  /\ UNCHANGED <<registryBalance, totalSlashed>>

Deposit(amount) ==
  /\ totalBonded' = totalBonded + amount
  /\ registryBalance' = registryBalance + amount
  /\ UNCHANGED totalSlashed

RegisterProvider(p, amount, maxValue) ==
  /\ ~bondPaused
  /\ ~bonds[p].registered
  /\ amount >= MIN_BOND
  /\ amount >= maxValue * BOND_COVERAGE_RATIO
  /\ bonds' = [bonds EXCEPT ![p] = NewBond(amount, maxValue)]
  /\ Deposit(amount)
  /\ UNCHANGED <<activeRequests, adminVars>>

IncreaseBond(p, amount) ==
  /\ ~bondPaused
  /\ bonds[p].registered
  /\ amount > 0
  /\ bonds' = [bonds EXCEPT ![p].bondedAmount = @ + amount]
  /\ Deposit(amount)
  /\ UNCHANGED <<activeRequests, adminVars>>

UpdateMaxRequestValue(p, maxValue) ==
  /\ ~bondPaused
  /\ bonds[p].registered
  /\ bonds[p].bondedAmount >= maxValue * BOND_COVERAGE_RATIO
  /\ bonds' = [bonds EXCEPT ![p].maxRequestValue = maxValue]
  /\ UNCHANGED <<activeRequests, treasuryVars, adminVars>>

\* What requestWithdrawal demands of the bond that would remain.
RemainderAcceptable(bond, remaining) ==
  /\ remaining > 0 => /\ remaining >= MIN_BOND
                      /\ remaining >= bond.maxRequestValue * BOND_COVERAGE_RATIO
  /\ remaining >= bond.hardwareCollateralLocked

RequestWithdrawal(p, amount) ==
  /\ ~bondPaused
  /\ bonds[p].registered
  /\ amount > 0
  /\ bonds[p].activeRequests = 0
  /\ amount <= bonds[p].bondedAmount
  /\ RemainderAcceptable(bonds[p], bonds[p].bondedAmount - amount)
  /\ bonds' = [bonds EXCEPT ![p].pendingWithdrawal = amount,
                            ![p].withdrawalUnlockTime = now + WITHDRAWAL_DELAY]
  /\ UNCHANGED <<activeRequests, treasuryVars, adminVars>>

CancelWithdrawal(p) ==
  /\ bonds[p].pendingWithdrawal > 0
  /\ bonds' = [bonds EXCEPT ![p].pendingWithdrawal = 0,
                            ![p].withdrawalUnlockTime = 0]
  /\ UNCHANGED <<activeRequests, treasuryVars, adminVars>>

\* Mutant: only requestWithdrawal looks at the requests in flight.
WithdrawableDuringRequests(p) ==
  /\ bonds[p].pendingWithdrawal > 0
  /\ now >= bonds[p].withdrawalUnlockTime

\* Mutant: the delay is forgotten.
WithdrawableAtOnce(p) ==
  /\ bonds[p].pendingWithdrawal > 0
  /\ bonds[p].activeRequests = 0

\* Not pausable: a provider can leave a paused registry.
Withdrawable(p) ==
  /\ bonds[p].pendingWithdrawal > 0
  /\ now >= bonds[p].withdrawalUnlockTime
  /\ bonds[p].activeRequests = 0

ExecuteWithdrawal(p) ==
  LET amount == bonds[p].pendingWithdrawal
  IN  /\ Withdrawable(p)
      /\ amount <= bonds[p].bondedAmount
      /\ amount <= totalBonded
      /\ amount <= registryBalance
      /\ bonds' = [bonds EXCEPT
                     ![p].bondedAmount = @ - amount,
                     ![p].pendingWithdrawal = 0,
                     ![p].withdrawalUnlockTime = 0,
                     ![p].isActive = @ /\ bonds[p].bondedAmount # amount]
      /\ totalBonded' = totalBonded - amount
      /\ registryBalance' = registryBalance - amount
      /\ UNCHANGED <<totalSlashed, activeRequests, adminVars>>

\* deactivate by the provider and forceDeactivate by an admin.
Deactivate(p) ==
  /\ bonds[p].registered
  /\ bonds' = [bonds EXCEPT ![p].isActive = FALSE]
  /\ UNCHANGED <<activeRequests, treasuryVars, adminVars>>

Reactivate(p) ==
  /\ ~bondPaused
  /\ bonds[p].registered
  /\ bonds[p].bondedAmount >= MIN_BOND
  /\ bonds' = [bonds EXCEPT ![p].isActive = TRUE]
  /\ UNCHANGED <<activeRequests, treasuryVars, adminVars>>

-----------------------------------------------------------------------------
(***************************************************************************)
(* Called by contracts holding ESCROW_ROLE, SLASHER_ROLE or                *)
(* HARDWARE_COMMITMENT_ROLE.                                               *)
(***************************************************************************)
CanAcceptRequest(p, value) ==
  /\ bonds[p].registered
  /\ bonds[p].isActive
  /\ value <= bonds[p].maxRequestValue
  /\ bonds[p].pendingSettlements + value <= bonds[p].bondedAmount

\* The entry under id is overwritten whether or not it is live.
AcceptRequest(p, id, value) ==
  /\ ~bondPaused
  /\ CanAcceptRequest(p, value)
  /\ activeRequests' = [activeRequests EXCEPT
                          ![id] = [live |-> TRUE, provider |-> p, value |-> value]]
  /\ bonds' = [bonds EXCEPT ![p].pendingSettlements = @ + value,
                            ![p].activeRequests = @ + 1]
  /\ UNCHANGED <<treasuryVars, adminVars>>

Earn(earned, value) ==
  IF earned + value > EarnedCap THEN EarnedCap ELSE earned + value

\* Mutant: any provider may complete any live request.
MayCompleteForOthers(p, id) == activeRequests[id].live

\* Mutant: completion is pausable.
MayCompleteUnpaused(p, id) ==
  ~bondPaused /\ activeRequests[id].live /\ activeRequests[id].provider = p

MayComplete(p, id) ==
  activeRequests[id].live /\ activeRequests[id].provider = p

\* Not pausable.  Also credits totalEarned, for whatever reason it is called.
CompleteRequest(p, id) ==
  LET request == activeRequests[id]
  IN  /\ MayComplete(p, id)
      /\ bonds[p].pendingSettlements >= request.value
      /\ bonds[p].activeRequests > 0
      /\ bonds' = [bonds EXCEPT ![p].pendingSettlements = @ - request.value,
                                ![p].activeRequests = @ - 1,
                                ![p].totalEarned = Earn(@, request.value)]
      /\ activeRequests' = [activeRequests EXCEPT ![id] = NoRequest]
      /\ UNCHANGED <<treasuryVars, adminVars>>

InsuranceShare(amount) == (amount * SLASH_TO_INSURANCE_BPS) \div BPS_DENOMINATOR

\* Without an insurance fund its share stays in the registry.
SlashProvider(p, requested) ==
  LET amount == IF requested > bonds[p].bondedAmount
                THEN bonds[p].bondedAmount ELSE requested
      kept   == IF hasInsuranceFund THEN 0 ELSE InsuranceShare(amount)
  IN  /\ bonds[p].registered
      /\ amount <= totalBonded
      /\ amount - kept <= registryBalance
      /\ bonds' = [bonds EXCEPT
                     ![p].bondedAmount = @ - amount,
                     ![p].totalSlashed = @ + amount,
                     ![p].isActive = @ /\ bonds[p].bondedAmount - amount >= MIN_BOND]
      /\ totalBonded' = totalBonded - amount
      /\ totalSlashed' = totalSlashed + amount
      /\ registryBalance' = registryBalance - (amount - kept)
      /\ UNCHANGED <<activeRequests, adminVars>>

CompensateProvider(p, amount) ==
  /\ bonds[p].registered
  /\ bonds' = [bonds EXCEPT ![p].totalEarned = Earn(@, amount)]
  /\ UNCHANGED <<activeRequests, treasuryVars, adminVars>>

LockHardwareCollateral(p, amount) ==
  /\ bonds[p].registered
  /\ bonds[p].hardwareCollateralLocked + amount <= bonds[p].bondedAmount
  /\ bonds' = [bonds EXCEPT ![p].hardwareCollateralLocked = @ + amount]
  /\ UNCHANGED <<activeRequests, treasuryVars, adminVars>>

\* Mutant: more can be unlocked than was locked.
UnlockUnchecked(p, amount) ==
  /\ bonds[p].registered
  /\ bonds' = [bonds EXCEPT ![p].hardwareCollateralLocked = @ - amount]
  /\ UNCHANGED <<activeRequests, treasuryVars, adminVars>>

UnlockHardwareCollateral(p, amount) ==
  /\ bonds[p].registered
  /\ amount <= bonds[p].hardwareCollateralLocked
  /\ bonds' = [bonds EXCEPT ![p].hardwareCollateralLocked = @ - amount]
  /\ UNCHANGED <<activeRequests, treasuryVars, adminVars>>

-----------------------------------------------------------------------------
(***************************************************************************)
(* Administration, the clock, and the next-state relation.                 *)
(***************************************************************************)
SetInsuranceFund(present) ==
  /\ hasInsuranceFund' = present
  /\ UNCHANGED <<requestVars, treasuryVars, bondPaused>>

\* pause and emergencyPause; unpause.
Pause ==
  /\ ~bondPaused
  /\ bondPaused' = TRUE
  /\ UNCHANGED <<requestVars, treasuryVars, hasInsuranceFund>>

Unpause ==
  /\ bondPaused
  /\ bondPaused' = FALSE
  /\ UNCHANGED <<requestVars, treasuryVars, hasInsuranceFund>>

WithinDeposits(amount) == totalBonded + totalSlashed + amount <= MaxDeposits

ProviderStep(p) ==
  \/ \E amount \in BondAmounts, maxValue \in RequestValues :
       WithinDeposits(amount) /\ RegisterProvider(p, amount, maxValue)
  \/ \E amount \in BondAmounts :
       \/ WithinDeposits(amount) /\ IncreaseBond(p, amount)
       \/ RequestWithdrawal(p, amount)
  \/ \E maxValue \in RequestValues : UpdateMaxRequestValue(p, maxValue)
  \/ CancelWithdrawal(p)
  \/ ExecuteWithdrawal(p)
  \/ Deactivate(p)
  \/ Reactivate(p)

OverseerStep(p) ==
  \/ \E amount \in SlashAmounts : SlashProvider(p, amount)
  \/ \E amount \in CollateralAmounts : \/ LockHardwareCollateral(p, amount)
                                       \/ UnlockHardwareCollateral(p, amount)

AdminStep ==
  \/ \E present \in BOOLEAN : SetInsuranceFund(present)
  \/ Pause
  \/ Unpause

Tick ==
  /\ now < MaxTime
  /\ now' = now + 1

\* An escrow contract that names every request afresh.
EscrowStep(p) ==
  \/ \E id \in EscrowIds, value \in RequestValues :
       ~activeRequests[id].live /\ AcceptRequest(p, id, value)
  \/ \E id \in EscrowIds : CompleteRequest(p, id)
  \/ \E value \in RequestValues : CompensateProvider(p, value)

Next ==
  \/ \E p \in Providers :
       (ProviderStep(p) \/ OverseerStep(p) \/ EscrowStep(p)) /\ UNCHANGED now
  \/ AdminStep /\ UNCHANGED now
  \/ Tick /\ UNCHANGED bondVars

Spec == Init /\ [][Next]_vars
=============================================================================
