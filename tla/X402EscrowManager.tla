-------------------------- MODULE X402EscrowManager --------------------------
(***************************************************************************)
(* contracts/src/economic/X402EscrowManager.sol: an agent locks a payment, *)
(* the provider claims it with an approved proof of service, and the money *)
(* leaves by a refund, by a withdrawal after the dispute window, or by the *)
(* resolution of a dispute.                                                *)
(*                                                                         *)
(* Composes ProviderBondRegistry and X402NonceRegistry: a call to either   *)
(* is a conjunct of the step, so a revert there reverts the whole step.    *)
(* setNonceRegistry and setBondRegistry are not modelled: both pointers    *)
(* stay what initialize made them.                                         *)
(***************************************************************************)
EXTENDS Naturals, Sequences, FiniteSets

CONSTANTS
  \* of ProviderBondRegistry
  Providers, BondAmounts, RequestValues, SlashAmounts, CollateralAmounts,
  MIN_BOND, BOND_COVERAGE_RATIO, WITHDRAWAL_DELAY, SLASH_TO_INSURANCE_BPS,
  BPS_DENOMINATOR, MaxTime, MaxDeposits, EarnedCap,
  \* of X402NonceRegistry
  Agents, MaxNonce, NoReceipt, NoEscrow,
  \* of this contract
  MIN_VALIDITY,
  MAX_VALIDITY,
  DISPUTE_WINDOW,
  SETTLEMENT_FEE_BPS,
  Treasury,           \* the address that takes the fees while one is set
  Preimages,          \* secrets a hashlock may be made of
  ReuseIdInBlock,     \* may a client lock one id twice in one block?
  MaxEscrows,         \* bound: escrows ever locked
  AdminScope          \* bound: which administrators act

ASSUME EscrowConstants ==
  /\ IsFiniteSet(Agents) /\ IsFiniteSet(Providers)      \* addresses
  /\ BondAmounts \subseteq Nat
  /\ RequestValues \subseteq Nat
  /\ SlashAmounts \subseteq Nat
  /\ CollateralAmounts \subseteq Nat
  /\ MIN_BOND \in Nat \ {0}
  /\ BOND_COVERAGE_RATIO \in Nat
  /\ WITHDRAWAL_DELAY \in Nat
  /\ BPS_DENOMINATOR \in Nat \ {0}
  /\ SLASH_TO_INSURANCE_BPS \in 0 .. BPS_DENOMINATOR
  /\ MaxTime \in Nat \ {0}
  /\ MaxDeposits \in Nat
  /\ EarnedCap \in Nat
  /\ MaxNonce \in Nat
  /\ MIN_VALIDITY \in Nat \ {0}
  /\ MAX_VALIDITY \in Nat
  /\ DISPUTE_WINDOW \in Nat
  /\ SETTLEMENT_FEE_BPS \in 0 .. BPS_DENOMINATOR
  /\ Preimages # {}
  /\ ReuseIdInBlock \in BOOLEAN
  /\ MaxEscrows \in Nat
  /\ AdminScope \subseteq {"pauses", "settlers", "insurance", "treasury"}

VARIABLES
  \* ProviderBondRegistry
  now, bonds, activeRequests, totalBonded, totalSlashed, registryBalance,
  hasInsuranceFund, bondPaused,
  \* X402NonceRegistry
  nonces, claimedReceipts, highestNonce, totalNoncesConsumed, settlers,
  noncePaused,
  \* this contract
  escrows,              \* _escrows
  disputes,             \* _disputes
  claimTimestamps,      \* _claimTimestamps
  pendingWithdrawals,   \* _pendingWithdrawals
  verifiedProofs,
  totalEscrowed,
  totalFeesCollected,
  escrowCount,
  managerBalance,       \* vamsToken.balanceOf(address(this))
  received,             \* tokens this contract transferred to each address
  hasTreasury,          \* treasury != address(0)
  paused                \* PausableUpgradeable

Times == 0 .. MaxTime

(***************************************************************************)
(* _computeEscrowId hashes exactly these four; the escrow's agent,         *)
(* provider, nonce and createdAt are read back from its id.                *)
(***************************************************************************)
EscrowIds == [agent : Agents, provider : Providers, nonce : 0 .. MaxNonce,
              createdAt : Times]

Manager == "X402EscrowManager"
OtherSettler == "BatchSettlement"
Settlers == {Manager, OtherSettler}

Receipts == [settler : Settlers, agent : Agents, nonce : 0 .. MaxNonce,
             amount : RequestValues, provider : Providers, at : Times]
ReceiptFor(s, a, n, amount, p) ==
  [settler |-> s, agent |-> a, nonce |-> n, amount |-> amount,
   provider |-> p, at |-> now]

\* bytes32(0) is the hash of nothing.
ASSUME NullsAreNoHash == NoReceipt \notin Receipts /\ NoEscrow \notin EscrowIds

Bonds == INSTANCE ProviderBondRegistry
NonceRegistry == INSTANCE X402NonceRegistry WITH MaxBatch <- 0

bondVars == <<bonds, activeRequests, totalBonded, totalSlashed,
              registryBalance, hasInsuranceFund, bondPaused>>
nonceVars == <<nonces, claimedReceipts, highestNonce, totalNoncesConsumed,
               settlers, noncePaused>>
claimVars == <<claimTimestamps, pendingWithdrawals, totalFeesCollected>>
managerAdminVars == <<hasTreasury, paused>>
escrowVars == <<escrows, disputes, claimTimestamps, pendingWithdrawals,
                verifiedProofs, totalEscrowed, totalFeesCollected,
                escrowCount, managerBalance, received, hasTreasury, paused>>
vars == <<now, bondVars, nonceVars, escrowVars>>

NoHashlock == [locked |-> FALSE]
HashlockOf(preimage) == [locked |-> TRUE, preimage |-> preimage]
Hashlocks == {NoHashlock} \cup {HashlockOf(s) : s \in Preimages}

\* Any two of these may be one address.
Recipients == Agents \cup Providers \cup {Treasury}

\* agent = address(0) is status "NONE".
Escrow ==
  [status : {"NONE", "LOCKED", "CLAIMED", "REFUNDED", "DISPUTED", "RESOLVED"},
   amount : Nat, expiresAt : Nat, hashlock : Hashlocks]
NoEscrowYet ==
  [status |-> "NONE", amount |-> 0, expiresAt |-> 0, hashlock |-> NoHashlock]

PendingWithdrawal ==
  [providerPayout : Nat, fee : Nat, claimTimestamp : Nat, withdrawn : BOOLEAN]
NoWithdrawal ==
  [providerPayout |-> 0, fee |-> 0, claimTimestamp |-> 0, withdrawn |-> FALSE]

TypeOK ==
  /\ Bonds!TypeOK
  /\ NonceRegistry!TypeOK
  /\ escrows \in [EscrowIds -> Escrow]
  /\ disputes \in [EscrowIds -> {"NONE", "OPEN", "RESOLVED"}]
  /\ claimTimestamps \in [EscrowIds -> Nat]
  /\ pendingWithdrawals \in [EscrowIds -> PendingWithdrawal]
  /\ verifiedProofs \subseteq EscrowIds
  /\ totalEscrowed \in Nat
  /\ totalFeesCollected \in Nat
  /\ escrowCount \in Nat
  /\ managerBalance \in Nat
  /\ received \in [Recipients -> Nat]
  /\ hasTreasury \in BOOLEAN
  /\ paused \in BOOLEAN

EscrowInit ==
  /\ escrows = [id \in EscrowIds |-> NoEscrowYet]
  /\ disputes = [id \in EscrowIds |-> "NONE"]
  /\ claimTimestamps = [id \in EscrowIds |-> 0]
  /\ pendingWithdrawals = [id \in EscrowIds |-> NoWithdrawal]
  /\ verifiedProofs = {}
  /\ totalEscrowed = 0
  /\ totalFeesCollected = 0
  /\ escrowCount = 0
  /\ managerBalance = 0
  /\ received = [x \in Recipients |-> 0]
  /\ hasTreasury = TRUE
  /\ paused = FALSE

Init ==
  /\ Bonds!Init
  /\ NonceRegistry!Init
  /\ EscrowInit

-----------------------------------------------------------------------------
(***************************************************************************)
(* The agent.                                                              *)
(***************************************************************************)
IdFor(a, p, n) == [agent |-> a, provider |-> p, nonce |-> n, createdAt |-> now]

\* The entry under the id is overwritten whether or not it is live.
LockEscrow(a, p, amount, n, validFor, hashlock) ==
  LET id == IdFor(a, p, n)
  IN  /\ ~paused
      /\ amount > 0
      /\ validFor \in MIN_VALIDITY .. MAX_VALIDITY
      /\ NonceRegistry!IsNonceValid(a, n)
      /\ escrows' = [escrows EXCEPT ![id] =
                       [status |-> "LOCKED", amount |-> amount,
                        expiresAt |-> now + validFor, hashlock |-> hashlock]]
      /\ Bonds!AcceptRequest(p, id, amount)
      /\ managerBalance' = managerBalance + amount
      /\ totalEscrowed' = totalEscrowed + amount
      /\ escrowCount' = escrowCount + 1
      /\ UNCHANGED <<now, nonceVars, disputes, claimVars, verifiedProofs,
                     received, managerAdminVars>>

\* Mutant: the total is left as it was.
ReleaseUncounted(id) == UNCHANGED totalEscrowed

\* The escrow's amount leaves totalEscrowed, whose subtraction is checked.
Release(id) ==
  /\ totalEscrowed >= escrows[id].amount
  /\ totalEscrowed' = totalEscrowed - escrows[id].amount

\* Not pausable: an agent can always take an expired payment back.
RefundExpiredEscrow(id) ==
  LET escrow == escrows[id]
  IN  /\ escrow.status = "LOCKED"
      /\ now > escrow.expiresAt
      /\ managerBalance >= escrow.amount
      /\ escrows' = [escrows EXCEPT ![id].status = "REFUNDED"]
      /\ Release(id)
      /\ Bonds!CompleteRequest(id.provider, id)
      /\ managerBalance' = managerBalance - escrow.amount
      /\ received' = [received EXCEPT ![id.agent] = @ + escrow.amount]
      /\ UNCHANGED <<now, nonceVars, disputes, claimVars, verifiedProofs,
                     escrowCount, managerAdminVars>>

\* Mutant: the extension counts from now.
ExtendedFromNow(id, additional) == now + additional

ExtendedExpiry(id, additional) ==
  LET wanted == escrows[id].expiresAt + additional
  IN  IF wanted > now + MAX_VALIDITY THEN now + MAX_VALIDITY ELSE wanted

ExtendEscrow(id, additional) ==
  /\ escrows[id].status = "LOCKED"
  /\ now <= escrows[id].expiresAt
  /\ escrows' = [escrows EXCEPT ![id].expiresAt = ExtendedExpiry(id, additional)]
  /\ UNCHANGED <<now, bondVars, nonceVars, disputes, claimVars, verifiedProofs,
                 totalEscrowed, escrowCount, managerBalance, received,
                 managerAdminVars>>

-----------------------------------------------------------------------------
(***************************************************************************)
(* The verifier and the provider.                                          *)
(***************************************************************************)
ApproveServiceProof(id) ==
  /\ escrows[id].status = "LOCKED"
  /\ verifiedProofs' = verifiedProofs \cup {id}
  /\ UNCHANGED <<now, bondVars, nonceVars, escrows, disputes, claimVars,
                 totalEscrowed, escrowCount, managerBalance, received,
                 managerAdminVars>>

\* Mutant: the fraction upside down.
FeeInverted(amount) == (amount * BPS_DENOMINATOR) \div SETTLEMENT_FEE_BPS

FeeOn(amount) == (amount * SETTLEMENT_FEE_BPS) \div BPS_DENOMINATOR

\* The payment moves to the pending withdrawals; no token leaves yet.
ClaimEscrow(id, preimage) ==
  LET escrow == escrows[id]
      fee    == FeeOn(escrow.amount)
  IN  /\ ~paused
      /\ escrow.status = "LOCKED"
      /\ now <= escrow.expiresAt
      /\ escrow.hashlock.locked => escrow.hashlock = HashlockOf(preimage)
      /\ id \in verifiedProofs
      /\ escrows' = [escrows EXCEPT ![id].status = "CLAIMED"]
      /\ claimTimestamps' = [claimTimestamps EXCEPT ![id] = now]
      /\ Release(id)
      /\ totalFeesCollected' = totalFeesCollected + fee
      /\ pendingWithdrawals' = [pendingWithdrawals EXCEPT ![id] =
                                  [providerPayout |-> escrow.amount - fee,
                                   fee |-> fee, claimTimestamp |-> now,
                                   withdrawn |-> FALSE]]
      /\ NonceRegistry!ConsumeNonce(Manager, id.agent, id.nonce,
           ReceiptFor(Manager, id.agent, id.nonce, escrow.amount, id.provider),
           id)
      /\ Bonds!CompleteRequest(id.provider, id)
      /\ UNCHANGED <<now, disputes, verifiedProofs, escrowCount,
                     managerBalance, received, managerAdminVars>>

\* Without a treasury the fee stays in the contract.
FeePaid(id) == IF hasTreasury THEN pendingWithdrawals[id].fee ELSE 0

\* Mutant: the fee is taken off again at the withdrawal.
PayoutLessFee(id) ==
  pendingWithdrawals[id].providerPayout - pendingWithdrawals[id].fee

PayoutOf(id) == pendingWithdrawals[id].providerPayout

\* Mutant: the fee is paid on top of the amount.
WithdrawalOnTop(id) == escrows[id].amount + pendingWithdrawals[id].fee

WithdrawalOf(id) == PayoutOf(id) + FeePaid(id)

WithdrawClaimed(id) ==
  LET pw == pendingWithdrawals[id]
  IN  /\ pw.providerPayout > 0
      /\ ~pw.withdrawn
      /\ escrows[id].status = "CLAIMED"
      /\ now > pw.claimTimestamp + DISPUTE_WINDOW
      /\ managerBalance >= WithdrawalOf(id)
      /\ pendingWithdrawals' = [pendingWithdrawals EXCEPT ![id].withdrawn = TRUE]
      /\ managerBalance' = managerBalance - WithdrawalOf(id)
      /\ received' = [received EXCEPT ![Treasury] = @ + FeePaid(id),
                                      ![id.provider] = @ + PayoutOf(id)]
      /\ UNCHANGED <<now, bondVars, nonceVars, escrows, disputes,
                     claimTimestamps, totalFeesCollected, verifiedProofs,
                     totalEscrowed, escrowCount, managerAdminVars>>

-----------------------------------------------------------------------------
(***************************************************************************)
(* Disputes: filed by the agent or the provider, settled by a resolver.    *)
(***************************************************************************)
\* Mutant: the windows of disputeEscrow and withdrawClaimed overlap.
DisputableOnceMore(id) ==
  \/ escrows[id].status = "LOCKED"
  \/ /\ escrows[id].status = "CLAIMED"
     /\ now <= claimTimestamps[id] + DISPUTE_WINDOW + 1

\* Mutant: an escrow that ended can be disputed.
DisputableAfterRefund(id) == escrows[id].status \in {"LOCKED", "REFUNDED"}

Disputable(id) ==
  \/ escrows[id].status = "LOCKED"
  \/ /\ escrows[id].status = "CLAIMED"
     /\ now <= claimTimestamps[id] + DISPUTE_WINDOW

DisputeEscrow(id) ==
  /\ Disputable(id)
  /\ disputes[id] = "NONE"
  /\ disputes' = [disputes EXCEPT ![id] = "OPEN"]
  /\ escrows' = [escrows EXCEPT ![id].status = "DISPUTED"]
  /\ UNCHANGED <<now, bondVars, nonceVars, claimVars, verifiedProofs,
                 totalEscrowed, escrowCount, managerBalance, received,
                 managerAdminVars>>

ResolveDispute(id, agentRefund, providerPayout) ==
  LET escrow == escrows[id]
  IN  /\ escrow.status = "DISPUTED"
      /\ disputes[id] # "RESOLVED"
      /\ agentRefund + providerPayout = escrow.amount
      /\ managerBalance >= escrow.amount
      /\ disputes' = [disputes EXCEPT ![id] = "RESOLVED"]
      /\ escrows' = [escrows EXCEPT ![id].status = "RESOLVED"]
      /\ Release(id)
      /\ Bonds!CompleteRequest(id.provider, id)
      /\ managerBalance' = managerBalance - escrow.amount
      /\ received' = [received EXCEPT ![id.agent] = @ + agentRefund,
                                      ![id.provider] = @ + providerPayout]
      /\ UNCHANGED <<now, nonceVars, claimVars, verifiedProofs, escrowCount,
                     managerAdminVars>>

-----------------------------------------------------------------------------
(***************************************************************************)
(* Administration.                                                         *)
(***************************************************************************)
SetTreasury(present) ==
  /\ hasTreasury' = present
  /\ UNCHANGED <<now, bondVars, nonceVars, escrows, disputes, claimVars,
                 verifiedProofs, totalEscrowed, escrowCount, managerBalance,
                 received, paused>>

\* pause and emergencyPause; unpause.
SetPaused(value) ==
  /\ paused # value
  /\ paused' = value
  /\ UNCHANGED <<now, bondVars, nonceVars, escrows, disputes, claimVars,
                 verifiedProofs, totalEscrowed, escrowCount, managerBalance,
                 received, hasTreasury>>

-----------------------------------------------------------------------------
(***************************************************************************)
(* Bounds: MaxEscrows, and no expiry so late that the clock would stop     *)
(* before the refund or the withdrawal it leads to.                        *)
(***************************************************************************)
WithinHorizon(expiry) == expiry + DISPUTE_WINDOW < MaxTime

AgentStep(a) ==
  \/ \E p \in Providers, amount \in RequestValues, n \in 0 .. MaxNonce,
        validFor \in MIN_VALIDITY .. MAX_VALIDITY, hashlock \in Hashlocks :
       /\ escrowCount < MaxEscrows
       /\ WithinHorizon(now + validFor)
       /\ ReuseIdInBlock \/ escrows[IdFor(a, p, n)].status = "NONE"
       /\ LockEscrow(a, p, amount, n, validFor, hashlock)
  \/ \E id \in EscrowIds :
       /\ id.agent = a
       /\ \/ RefundExpiredEscrow(id)
          \/ \E additional \in 0 .. MAX_VALIDITY :
               /\ WithinHorizon(ExtendedExpiry(id, additional))
               /\ ExtendEscrow(id, additional)

PartyStep(id) ==
  \/ ApproveServiceProof(id)
  \/ \E preimage \in Preimages : ClaimEscrow(id, preimage)
  \/ WithdrawClaimed(id)
  \/ DisputeEscrow(id)
  \/ \E agentRefund \in 0 .. escrows[id].amount :
       ResolveDispute(id, agentRefund, escrows[id].amount - agentRefund)

\* What the other contracts and their users do meanwhile.
BondStep ==
  /\ \E p \in Providers : Bonds!ProviderStep(p) \/ Bonds!OverseerStep(p)
  /\ UNCHANGED <<now, nonceVars, escrowVars>>

\* BatchSettlement consumes a nonce of its own; its batch id is no escrow id.
OtherSettlement ==
  /\ \E a \in Agents, n \in 0 .. MaxNonce, amount \in RequestValues,
        p \in Providers :
       NonceRegistry!ConsumeNonce(OtherSettler, a, n,
         ReceiptFor(OtherSettler, a, n, amount, p), NoEscrow)
  /\ UNCHANGED <<now, bondVars, escrowVars>>

\* Deployment authorizes the manager; everything else is in AdminScope.
NonceAdminStep ==
  /\ \/ NonceRegistry!AuthorizeSettler(Manager)
     \/ /\ "settlers" \in AdminScope
        /\ \E s \in Settlers : \/ NonceRegistry!AuthorizeSettler(s)
                               \/ NonceRegistry!DeauthorizeSettler(s)
     \/ /\ "pauses" \in AdminScope
        /\ NonceRegistry!PauseNonces \/ NonceRegistry!UnpauseNonces
  /\ UNCHANGED <<now, bondVars, escrowVars>>

BondAdminStep ==
  /\ \/ /\ "insurance" \in AdminScope
        /\ \E present \in BOOLEAN : Bonds!SetInsuranceFund(present)
     \/ "pauses" \in AdminScope /\ (Bonds!Pause \/ Bonds!Unpause)
  /\ UNCHANGED <<now, nonceVars, escrowVars>>

ManagerAdminStep ==
  \/ "treasury" \in AdminScope /\ \E present \in BOOLEAN : SetTreasury(present)
  \/ "pauses" \in AdminScope /\ \E value \in BOOLEAN : SetPaused(value)

Tick ==
  /\ Bonds!Tick
  /\ UNCHANGED <<bondVars, nonceVars, escrowVars>>

Next ==
  \/ \E a \in Agents : AgentStep(a)
  \/ \E id \in EscrowIds : PartyStep(id)
  \/ BondStep
  \/ OtherSettlement
  \/ NonceAdminStep \/ BondAdminStep \/ ManagerAdminStep
  \/ Tick

Spec == Init /\ [][Next]_vars

(***************************************************************************)
(* The clock runs, agents take expired payments back and providers take    *)
(* what they claimed: nothing else is assumed to happen.                   *)
(***************************************************************************)
FairSpec ==
  /\ Spec
  /\ WF_vars(Tick)
  /\ \A id \in EscrowIds : WF_vars(RefundExpiredEscrow(id))
                           /\ WF_vars(WithdrawClaimed(id))

\* And resolvers decide every dispute they can.
ResolverSpec ==
  /\ FairSpec
  /\ \A id \in EscrowIds : WF_vars(ResolveDispute(id, escrows[id].amount, 0))

-----------------------------------------------------------------------------
(***************************************************************************)
(* An escrow in flight: locked, or disputed without having been claimed.   *)
(***************************************************************************)
InFlight(id) ==
  \/ escrows[id].status = "LOCKED"
  \/ escrows[id].status = "DISPUTED" /\ claimTimestamps[id] = 0

(***************************************************************************)
(* The bond registry holds a request for exactly the escrows in flight,    *)
(* with their provider and amount: claims, refunds, disputes and           *)
(* resolutions never leave a request behind nor complete one twice.        *)
(***************************************************************************)
RequestsMirrorEscrows ==
  \A id \in EscrowIds :
    /\ activeRequests[id].live <=> InFlight(id)
    /\ InFlight(id) => /\ activeRequests[id].provider = id.provider
                       /\ activeRequests[id].value = escrows[id].amount

(***************************************************************************)
(* An agent's nonce settles at most one escrow, and then no batch: locks   *)
(* only look at the nonce, several may share it, and the first claim wins. *)
(***************************************************************************)
OneSettlementPerNonce ==
  \A id \in EscrowIds :
    claimTimestamps[id] # 0
      => /\ nonces[id.agent][id.nonce].used
         /\ nonces[id.agent][id.nonce].escrowId = id

(***************************************************************************)
(* Money withdrawn by the provider is out of reach of disputes: at every   *)
(* instant of the block clock an escrow can be withdrawn or disputed, not  *)
(* both, and no resolution pays it a second time.                          *)
(***************************************************************************)
WithdrawnIsFinal ==
  \A id \in EscrowIds :
    pendingWithdrawals[id].withdrawn
      => escrows[id].status = "CLAIMED" /\ disputes[id] = "NONE"

(***************************************************************************)
(* An agent cannot shorten the time a provider was promised: no step but a *)
(* new lock moves an expiry, and extendEscrow's cap never moves it back.   *)
(***************************************************************************)
ExtendNeverShortens ==
  [][escrowCount' = escrowCount =>
       \A id \in EscrowIds : escrows'[id].expiresAt >= escrows[id].expiresAt]_vars

(***************************************************************************)
(* An agent is never locked in: a locked payment is claimed, refunded or   *)
(* disputed, whatever is paused, whoever lost the settler role, and        *)
(* whatever the provider does with its bond.                               *)
(***************************************************************************)
LockedIsReleased ==
  \A id \in EscrowIds :
    escrows[id].status = "LOCKED" ~> escrows[id].status # "LOCKED"

(***************************************************************************)
(* A claimed payment reaches the provider unless it is disputed in time.   *)
(***************************************************************************)
ClaimedIsPaid ==
  \A id \in EscrowIds :
    escrows[id].status = "CLAIMED"
      ~> pendingWithdrawals[id].withdrawn \/ escrows[id].status = "DISPUTED"

(***************************************************************************)
(* "Guardian dispute resolution with 72h window"                           *)
(* (X402EscrowManager.sol:30): with resolvers at work, every dispute is    *)
(* resolved.                                                               *)
(***************************************************************************)
DisputedIsResolved ==
  \A id \in EscrowIds :
    escrows[id].status = "DISPUTED" ~> escrows[id].status = "RESOLVED"
=============================================================================
