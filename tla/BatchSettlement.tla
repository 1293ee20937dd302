--------------------------- MODULE BatchSettlement ---------------------------
(***************************************************************************)
(* contracts/src/economic/BatchSettlement.sol: a gateway deposits for a    *)
(* batch of payments, whose providers claim them one by one once the       *)
(* dispute window is over; agents dispute payments, anybody a batch.       *)
(*                                                                         *)
(* Composes X402NonceRegistry, which other settlement contracts use too.   *)
(* A batch is the set of payments in its Merkle tree, and its totalValue   *)
(* their sum: gateways state it, and the signers they find confirm it.     *)
(* batchId, paymentHash and claimedAt of a claim and finalizedAt are left  *)
(* out, as nothing reads them, and so is who holds which role.             *)
(***************************************************************************)
EXTENDS Naturals, Sequences, FiniteSets, SetSums

CONSTANTS
  \* of X402NonceRegistry
  Agents, MaxNonce, NoReceipt, NoEscrow,
  OtherSettlers,        \* other contracts that settle with the registry
  OtherReceipts,        \* what they settle
  MaxBatch,             \* bound: nonces consumed at once
  \* of this contract
  Providers,
  Amounts,
  Payers, PaidNonces,   \* bound: agents and nonces of the payments
  DISPUTE_WINDOW,
  BATCH_EXPIRY,
  SETTLEMENT_FEE_BPS,
  BPS_DENOMINATOR,
  Resolvers,            \* accounts holding RESOLVER_ROLE
  MaxBatches,           \* bound: batches submitted
  MaxTime               \* bound: the clock stops here

ASSUME BatchConstants ==
  /\ IsFiniteSet(Agents) /\ IsFiniteSet(Providers)      \* addresses
  /\ MaxNonce \in Nat
  /\ Payers \subseteq Agents /\ PaidNonces \subseteq 0 .. MaxNonce
  /\ Amounts \subseteq Nat /\ IsFiniteSet(Amounts)       \* uint256
  /\ DISPUTE_WINDOW \in Nat /\ BATCH_EXPIRY \in Nat
  /\ BPS_DENOMINATOR \in Nat \ {0}
  /\ SETTLEMENT_FEE_BPS \in 0 .. BPS_DENOMINATOR
  /\ MaxBatch \in Nat \ {0} /\ MaxBatches \in Nat
  /\ MaxTime \in Nat

VARIABLES
  now,
  batches,              \* _batches: batch b is batches[b]
  claims,               \* _claims: the status of each payment
  totalSettled, totalFees,
  held,                 \* vamsToken.balanceOf(address(this))
  earned,               \* what each provider was paid
  paused,
  \* X402NonceRegistry
  nonces, claimedReceipts, highestNonce, totalNoncesConsumed, settlers,
  noncePaused

Self     == "BatchSettlement"
Settlers == {Self} \cup OtherSettlers
BatchIds == 1 .. MaxBatches

\* Payments that differ in amount or provider only have the same nonce.
Payments ==
  [agent : Payers, provider : Providers, amount : Amounts, nonce : PaidNonces]

\* receiptHash is the hash of these.
OwnReceipts == [payment : Payments, at : 0 .. MaxTime]
Receipts    == OwnReceipts \cup OtherReceipts

ASSUME HashesDiffer ==
  /\ NoReceipt \notin Receipts /\ NoEscrow \notin BatchIds
  /\ OtherReceipts \cap OwnReceipts = {}
  /\ Self \notin OtherSettlers

NonceRegistry == INSTANCE X402NonceRegistry WITH EscrowIds <- BatchIds

consumedVars == <<nonces, claimedReceipts, highestNonce, totalNoncesConsumed>>
nonceVars == <<consumedVars, settlers, noncePaused>>
totals == <<totalSettled, totalFees, earned>>
batchVars == <<batches, claims, totals, held, paused>>
vars == <<now, batchVars, nonceVars>>

Batch ==
  [payments : SUBSET Payments, submittedAt : Nat,
   status : {"SUBMITTED", "FINALIZED", "DISPUTED", "CANCELLED"}]

TypeOK ==
  /\ now \in 0 .. MaxTime
  /\ batches \in Seq(Batch)
  /\ Len(batches) <= MaxBatches
  /\ claims \in [Payments -> {"PENDING", "CLAIMED", "DISPUTED", "REFUNDED"}]
  /\ totalSettled \in Nat /\ totalFees \in Nat /\ held \in Nat
  /\ earned \in [Providers -> Nat]
  /\ paused \in BOOLEAN
  /\ NonceRegistry!TypeOK

Init ==
  /\ now = 0
  /\ batches = <<>>
  /\ claims = [p \in Payments |-> "PENDING"]
  /\ totalSettled = 0 /\ totalFees = 0 /\ held = 0
  /\ earned = [p \in Providers |-> 0]
  /\ paused = FALSE
  /\ NonceRegistry!NonceInit

AmountOf == [p \in Payments |-> p.amount]

Value(payments) == SumOver(AmountOf, payments)

-----------------------------------------------------------------------------
submitBatch(payments) ==
  /\ ~paused
  /\ Value(payments) > 0
  /\ Len(batches) < MaxBatches
  /\ batches' = Append(batches, [payments    |-> payments,
                                 submittedAt |-> now,
                                 status      |-> "SUBMITTED"])
  /\ held' = held + Value(payments)
  /\ UNCHANGED <<now, claims, totals, paused, nonceVars>>

SetStatus(b, status) ==
  /\ batches' = [batches EXCEPT ![b].status = status]
  /\ UNCHANGED <<now, claims, totals, held, paused, nonceVars>>

Expiry(b) == batches[b].submittedAt + DISPUTE_WINDOW

\* Mutant: a disputed batch may be finalised too.
FinalizableDisputed(b) ==
  batches[b].status \in {"SUBMITTED", "DISPUTED"} /\ now >= Expiry(b)

Finalizable(b) == batches[b].status = "SUBMITTED" /\ now >= Expiry(b)

finalizeBatch(b) == Finalizable(b) /\ SetStatus(b, "FINALIZED")

\* In the block of the expiry a batch may be finalised and disputed.
InWindow(b) == batches[b].status = "SUBMITTED" /\ now <= Expiry(b)

disputeBatch(b) == InWindow(b) /\ SetStatus(b, "DISPUTED")

cancelBatch(b) ==
  /\ Resolvers # {}
  /\ batches[b].status = "DISPUTED"
  /\ SetStatus(b, "CANCELLED")

\* By the agent of p, whatever the claim record says.
disputePayment(b, p) ==
  /\ InWindow(b)
  /\ p \in batches[b].payments
  /\ claims' = [claims EXCEPT ![p] = "DISPUTED"]
  /\ UNCHANGED <<now, batches, totals, held, paused, nonceVars>>

resolvePaymentDispute(p, refundAgent) ==
  /\ Resolvers # {}
  /\ claims[p] = "DISPUTED"
  /\ IF refundAgent
     THEN /\ held >= p.amount
          /\ claims' = [claims EXCEPT ![p] = "REFUNDED"]
          /\ held' = held - p.amount
     ELSE /\ claims' = [claims EXCEPT ![p] = "CLAIMED"]
          /\ UNCHANGED held
  /\ UNCHANGED <<now, batches, totals, paused, nonceVars>>

-----------------------------------------------------------------------------
\* Mutant: the quotient upside down.
FeeInverted(amount) == (amount * BPS_DENOMINATOR) \div SETTLEMENT_FEE_BPS

Fee(amount) == (amount * SETTLEMENT_FEE_BPS) \div BPS_DENOMINATOR

FeeOf == [p \in Payments |-> Fee(p.amount)]

Consumption(b, p) ==
  [agent |-> p.agent, nonce |-> p.nonce, escrow |-> b,
   receipt |-> [payment |-> p, at |-> now]]

\* Mutant: several claims at once consume the first nonce only.
ConsumptionOfFirst(b, ps) == <<Consumption(b, ps[1])>>

Consumptions(b, ps) == [i \in DOMAIN ps |-> Consumption(b, ps[i])]

Claimable(b, p) ==
  /\ batches[b].status = "FINALIZED"
  /\ p \in batches[b].payments
  /\ claims[p] # "CLAIMED"

(***************************************************************************)
(* _claimPayment, of each of ps in turn, by their provider: the whole      *)
(* transaction reverts where one does, the consumption of a nonce by an    *)
(* earlier one included.                                                   *)
(***************************************************************************)
Claim(b, provider, ps) ==
  LET claimed == {ps[i] : i \in DOMAIN ps}
      fees    == SumOver(FeeOf, claimed)
  IN  /\ ~paused
      /\ \A p \in claimed : p.provider = provider /\ Claimable(b, p)
      /\ NonceRegistry!BatchConsumeNonces(Self, Consumptions(b, ps))
      /\ claims' = [p \in Payments |->
                      IF p \in claimed THEN "CLAIMED" ELSE claims[p]]
      /\ totalSettled' = totalSettled + Value(claimed)
      /\ totalFees' = totalFees + fees
      /\ Value(claimed) <= held
      /\ held' = held - Value(claimed)
      /\ earned' = [earned EXCEPT ![provider] = @ + (Value(claimed) - fees)]
      /\ UNCHANGED <<now, batches, paused>>

claimPayment(b, p) == Claim(b, p.provider, <<p>>)

batchClaimPayments(b, provider) ==
  \E k \in 2 .. MaxBatch :
    \E ps \in [1 .. k -> batches[b].payments] : Claim(b, provider, ps)

-----------------------------------------------------------------------------
\* The submitter of b gets all that the contract holds.
reclaimExpiredBatch(b) ==
  /\ batches[b].status \in {"FINALIZED", "CANCELLED"}
  /\ now > batches[b].submittedAt + BATCH_EXPIRY
  /\ held > 0
  /\ held' = 0
  /\ UNCHANGED <<now, batches, claims, totals, paused, nonceVars>>

SetPaused(value) ==
  /\ paused # value
  /\ paused' = value
  /\ UNCHANGED <<now, batches, claims, totals, held, nonceVars>>

\* Another contract settles, with nonces of the same agents.
OtherSettlement(s) ==
  /\ \E a \in Agents, n \in 0 .. MaxNonce, r \in OtherReceipts, id \in BatchIds :
       NonceRegistry!ConsumeNonce(s, a, n, r, id)
  /\ UNCHANGED <<now, batchVars>>

OtherSettlements(s) ==
  /\ \E k \in 0 .. MaxBatch :
       \E entries \in [1 .. k -> [agent : Agents, nonce : 0 .. MaxNonce,
                                  receipt : OtherReceipts, escrow : BatchIds]] :
         NonceRegistry!BatchConsumeNonces(s, entries)
  /\ UNCHANGED <<now, batchVars>>

NonceAdminStep == NonceRegistry!AdminStep /\ UNCHANGED <<now, batchVars>>

Tick ==
  /\ now < MaxTime
  /\ now' = now + 1
  /\ UNCHANGED <<batchVars, nonceVars>>

GatewayStep ==
  \/ \E payments \in SUBSET Payments : submitBatch(payments)
  \/ \E b \in DOMAIN batches : finalizeBatch(b) \/ reclaimExpiredBatch(b)

DisputeStep ==
  \/ \E b \in DOMAIN batches :
       \/ disputeBatch(b)
       \/ cancelBatch(b)
       \/ \E p \in Payments : disputePayment(b, p)
  \/ \E p \in Payments, refundAgent \in BOOLEAN :
       resolvePaymentDispute(p, refundAgent)

ProviderStep ==
  \E b \in DOMAIN batches :
    \/ \E p \in batches[b].payments : claimPayment(b, p)
    \/ \E provider \in Providers : batchClaimPayments(b, provider)

BatchStep ==
  \/ GatewayStep
  \/ DisputeStep
  \/ ProviderStep
  \/ \E value \in BOOLEAN : SetPaused(value)

Next ==
  \/ BatchStep
  \/ \E s \in OtherSettlers : OtherSettlement(s) \/ OtherSettlements(s)
  \/ NonceAdminStep
  \/ Tick

Spec == Init /\ [][Next]_vars
=============================================================================
