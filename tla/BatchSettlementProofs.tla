------------------------ MODULE BatchSettlementProofs ------------------------
(***************************************************************************)
(* BatchSettlement for any agents, payments, batches and other settlers.   *)
(* Whatever it does with the nonce registry is what a settler may do, so   *)
(* the promises proved of the registry alone hold between the settlement   *)
(* contracts that share it.                                                *)
(***************************************************************************)
EXTENDS BatchAccounting, SetSumsProofs

NP == INSTANCE X402NonceRegistryProofs WITH EscrowIds <- BatchIds

LEMMA RegistryAssumptions == NP!NonceConstants
BY BatchConstants, HashesDiffer DEF NP!NonceConstants

(***************************************************************************)
(* The inductive invariant: the registry's own, and what receipts and      *)
(* batch ids are made of.                                                  *)
(***************************************************************************)
BatchesTyped ==
  /\ now \in 0 .. MaxTime
  /\ batches \in Seq(Batch)
  /\ Len(batches) <= MaxBatches

IInv == BatchesTyped /\ NP!IInv

\* The steps after which batches is not what it was.
LEMMA StatusKeepsBatches ==
  ASSUME BatchesTyped, NEW b \in DOMAIN batches, NEW status, SetStatus(b, status),
         status \in {"FINALIZED", "DISPUTED", "CANCELLED"}
  PROVE  /\ BatchesTyped'
         /\ DOMAIN batches' = DOMAIN batches
         /\ \A c \in DOMAIN batches : c # b => batches'[c] = batches[c]
         /\ batches'[b].status = status
         /\ UNCHANGED nonceVars
<1>1. batches[b] \in Batch
  BY DEF BatchesTyped
<1>2. [batches[b] EXCEPT !.status = status] \in Batch
  BY <1>1 DEF Batch
<1>3. batches' = [batches EXCEPT ![b] = [batches[b] EXCEPT !.status = status]]
  BY DEF SetStatus
<1>4. batches' \in Seq(Batch)
  BY <1>2, <1>3 DEF BatchesTyped
<1>5. DOMAIN batches' = DOMAIN batches /\ Len(batches') = Len(batches)
  BY <1>3, <1>4 DEF BatchesTyped
<1>6. UNCHANGED <<now, nonceVars>>
  BY DEF SetStatus
<1> QED BY <1>1, <1>3, <1>4, <1>5, <1>6 DEF BatchesTyped, Batch

LEMMA SubmitKeepsBatches ==
  ASSUME BatchesTyped, NEW payments \in SUBSET Payments, submitBatch(payments)
  PROVE  /\ BatchesTyped'
         /\ DOMAIN batches \subseteq DOMAIN batches'
         /\ \A b \in DOMAIN batches : batches'[b] = batches[b]
         /\ UNCHANGED nonceVars
<1> DEFINE new == [payments |-> payments, submittedAt |-> now,
                   status |-> "SUBMITTED"]
<1>1. new \in Batch
  BY BatchConstants DEF Batch, BatchesTyped
<1>2. batches' = Append(batches, new) /\ now' = now
  BY DEF submitBatch
<1> HIDE DEF new
<1>3. /\ batches' \in Seq(Batch)
      /\ Len(batches') = Len(batches) + 1 /\ Len(batches) \in Nat
      /\ \A b \in DOMAIN batches : b \in DOMAIN batches' /\ batches'[b] = batches[b]
  BY <1>1, <1>2 DEF BatchesTyped
<1>4. Len(batches') <= MaxBatches
  BY <1>3, BatchConstants DEF submitBatch
<1>5. UNCHANGED <<now, nonceVars>>
  BY DEF submitBatch
<1> QED BY <1>3, <1>4, <1>5 DEF BatchesTyped

-----------------------------------------------------------------------------
(***************************************************************************)
(* What a settler writes: an entry that was unused, with the receipt and   *)
(* the escrow id of one it reports.                                        *)
(***************************************************************************)
LEMMA NewEntriesAreOfTheBatch ==
  ASSUME NEW s, NEW entries \in NP!Batches, NP!BatchConsumeNonces(s, entries),
         NEW a \in Agents, NEW n \in 0 .. MaxNonce
  PROVE  \/ nonces'[a][n] = nonces[a][n]
         \/ /\ ~nonces[a][n].used
            /\ \E i \in DOMAIN entries :
                 /\ nonces'[a][n].receiptHash = entries[i].receipt
                 /\ nonces'[a][n].escrowId = entries[i].escrow
<1> DEFINE ForNonce == {i \in DOMAIN entries : entries[i].agent = a
                                              /\ entries[i].nonce = n}
           entered == CHOOSE i \in ForNonce : TRUE
<1>1. nonces'[a][n] = IF ForNonce = {} THEN nonces[a][n]
                      ELSE NP!Consumed(entries[entered].receipt,
                                       entries[entered].escrow)
  BY DEF NP!BatchConsumeNonces, NP!Nonces
<1>2. CASE ForNonce = {}
  BY <1>1, <1>2
<1>3. CASE ForNonce # {}
  <2>1. entered \in ForNonce
    BY <1>3
  <2>2. ~nonces[a][n].used
    BY <2>1 DEF NP!BatchConsumeNonces, NP!BatchConsumable, NP!IsNonceValid
  <2>3. /\ nonces'[a][n].receiptHash = entries[entered].receipt
        /\ nonces'[a][n].escrowId = entries[entered].escrow
    BY <1>1, <1>3 DEF NP!Consumed
  <2>4. entered \in DOMAIN entries
    BY <2>1
  <2> HIDE DEF entered, ForNonce
  <2> QED BY <2>2, <2>3, <2>4
<1> QED BY <1>2, <1>3

(***************************************************************************)
(* A claim is a call of a settler: the receipts are those of payments of   *)
(* the batch, and so of the registry's type.                               *)
(***************************************************************************)
LEMMA ClaimConsumes ==
  ASSUME BatchesTyped, NEW b \in DOMAIN batches, NEW provider, NEW k \in 1 .. MaxBatch,
         NEW ps \in [1 .. k -> batches[b].payments], Claim(b, provider, ps)
  PROVE  /\ b \in BatchIds
         /\ \A i \in 1 .. k : ps[i] \in Payments
         /\ Consumptions(b, ps) \in NP!Batches
         /\ NP!BatchConsumeNonces(Self, Consumptions(b, ps))
<1> DEFINE entries == Consumptions(b, ps)
<1>1. batches[b] \in Batch /\ b \in BatchIds
  <2>1. DOMAIN batches = 1 .. Len(batches) /\ Len(batches) \in Nat
    BY DEF BatchesTyped
  <2> QED BY <2>1, BatchConstants DEF BatchesTyped, BatchIds
<1>2. \A i \in 1 .. k : ps[i] \in Payments
  BY <1>1 DEF Batch
<1>3. \A i \in 1 .. k : Consumption(b, ps[i]) \in NP!Entry
  BY <1>1, <1>2, BatchConstants
     DEF BatchesTyped, Consumption, NP!Entry, NP!Nonces, Receipts, OwnReceipts, Payments
<1>4. entries \in [1 .. k -> NP!Entry]
  BY <1>3 DEF Consumptions
<1>5. entries \in NP!Batches
  BY <1>4, BatchConstants DEF NP!Batches
<1>6. NP!BatchConsumeNonces(Self, entries)
  BY DEF Claim, NonceRegistry!BatchConsumeNonces, NP!BatchConsumeNonces,
         NonceRegistry!MaySettle, NP!MaySettle,
         NonceRegistry!BatchConsumable, NP!BatchConsumable,
         NonceRegistry!IsNonceValid, NP!IsNonceValid,
         NonceRegistry!Consumed, NP!Consumed,
         NonceRegistry!Nonces, NP!Nonces
<1> QED BY <1>1, <1>2, <1>5, <1>6

LEMMA ClaimIsSettlement ==
  ASSUME BatchesTyped, NEW b \in DOMAIN batches, NEW provider, NEW k \in 1 .. MaxBatch,
         NEW ps \in [1 .. k -> batches[b].payments], Claim(b, provider, ps)
  PROVE  /\ NP!SettlerStep(Self)
         /\ batches[b].status = "FINALIZED"
         /\ \A id \in DOMAIN batches \ {b} : SettledFor(id)' = SettledFor(id)
         /\ UNCHANGED <<now, batches>>
<1> DEFINE entries == Consumptions(b, ps)
<1>1. entries \in NP!Batches /\ NP!BatchConsumeNonces(Self, entries)
  BY ClaimConsumes
<1>2. batches[b].status = "FINALIZED"
  BY DEF Claim, Claimable
<1>3. ASSUME NEW id \in DOMAIN batches \ {b}
      PROVE  SettledFor(id)' = SettledFor(id)
  <2>1. \A i \in DOMAIN entries : entries[i].escrow # id
    BY <1>3 DEF Consumptions, Consumption
  <2> QED BY <2>1, <1>1, NewEntriesAreOfTheBatch
             DEF SettledFor, Settled
<1> QED BY <1>1, <1>2, <1>3 DEF NP!SettlerStep, Claim

\* One claim is several claims, of one payment.
LEMMA ClaimsAreClaims ==
  ASSUME BatchesTyped, ProviderStep
  PROVE  \E b \in DOMAIN batches, provider \in Providers, k \in 1 .. MaxBatch :
           \E ps \in [1 .. k -> batches[b].payments] : Claim(b, provider, ps)
<1>1. PICK b \in DOMAIN batches :
             \/ \E p \in batches[b].payments : claimPayment(b, p)
             \/ \E provider \in Providers : batchClaimPayments(b, provider)
  BY DEF ProviderStep
<1>2. ASSUME NEW p \in batches[b].payments, claimPayment(b, p)
      PROVE  /\ <<p>> \in [1 .. 1 -> batches[b].payments]
             /\ Claim(b, p.provider, <<p>>)
             /\ p.provider \in Providers
  <2>1. batches[b] \in Batch
    BY DEF BatchesTyped
  <2>2. p \in Payments
    BY <2>1 DEF Batch
  <2>3. <<p>> \in [1 .. 1 -> batches[b].payments]
    OBVIOUS
  <2> QED BY <1>2, <2>2, <2>3 DEF claimPayment, Payments
<1>3. ASSUME NEW provider \in Providers, batchClaimPayments(b, provider)
      PROVE  \E k \in 1 .. MaxBatch :
               \E ps \in [1 .. k -> batches[b].payments] : Claim(b, provider, ps)
  <2>1. PICK k \in 2 .. MaxBatch :
               \E ps \in [1 .. k -> batches[b].payments] : Claim(b, provider, ps)
    BY <1>3 DEF batchClaimPayments
  <2>2. k \in 1 .. MaxBatch
    OBVIOUS
  <2> QED BY <2>1, <2>2
<1>4. 1 \in 1 .. MaxBatch
  BY BatchConstants
<1> QED BY <1>1, <1>2, <1>3, <1>4

-----------------------------------------------------------------------------
\* Nonces that are spent on receipts of others settle nothing for this contract.
OthersSpend ==
  \A a \in Agents, n \in 0 .. MaxNonce :
    \/ nonces'[a][n] = nonces[a][n]
    \/ ~nonces[a][n].used /\ nonces'[a][n].receiptHash \notin OwnReceipts

LEMMA ReceiptsOfOthers ==
  ASSUME OthersSpend
  PROVE  \A b \in DOMAIN batches : SettledFor(b)' = SettledFor(b)
BY DEF OthersSpend, SettledFor, Settled

(***************************************************************************)
(* What the other settlers and the administrators of the registry do is a  *)
(* step of the registry too, and settles nothing for this contract.        *)
(***************************************************************************)
LEMMA OthersAreSettlers ==
  ASSUME NP!IInv, NEW s \in OtherSettlers, OtherSettlement(s) \/ OtherSettlements(s)
  PROVE  /\ NP!SettlerStep(s)
         /\ OthersSpend
         /\ UNCHANGED <<now, batchVars>>
<1>1. ASSUME NEW a \in Agents, NEW n \in 0 .. MaxNonce, NEW r \in OtherReceipts,
             NEW id \in BatchIds, NonceRegistry!ConsumeNonce(s, a, n, r, id)
      PROVE  NP!SettlerStep(s) /\ OthersSpend
  <2>1. NP!ConsumeNonce(s, a, n, r, id)
    BY <1>1 DEF NonceRegistry!ConsumeNonce, NonceRegistry!MaySettle,
         NonceRegistry!IsNonceValid, NonceRegistry!Consumed,
         NP!ConsumeNonce, NP!MaySettle, NP!IsNonceValid, NP!Consumed
  <2>2. n \in NP!Nonces /\ r \in Receipts
    BY DEF NP!Nonces, Receipts
  <2>3. /\ nonces' = [nonces EXCEPT ![a][n] = NP!Consumed(r, id)]
        /\ ~nonces[a][n].used
    BY <2>1 DEF NP!ConsumeNonce, NP!IsNonceValid
  <2>4. r \notin OwnReceipts
    BY HashesDiffer
  <2>5. OthersSpend
    <3> SUFFICES ASSUME NEW c \in Agents, NEW m \in 0 .. MaxNonce
                 PROVE  \/ nonces'[c][m] = nonces[c][m]
                        \/ /\ ~nonces[c][m].used
                           /\ nonces'[c][m].receiptHash \notin OwnReceipts
      BY DEF OthersSpend
    <3>1. CASE c = a /\ m = n
      BY <2>3, <2>4, <3>1 DEF NP!IInv, NP!TypeOK, NP!Nonces, NP!Consumed
    <3>2. CASE ~(c = a /\ m = n)
      BY <2>3, <3>2 DEF NP!IInv, NP!TypeOK, NP!Nonces
    <3> QED BY <3>1, <3>2
  <2> QED BY <2>1, <2>2, <2>5 DEF NP!SettlerStep
<1>2. ASSUME NEW k \in 0 .. MaxBatch,
             NEW entries \in [1 .. k -> [agent : Agents, nonce : 0 .. MaxNonce,
                                        receipt : OtherReceipts, escrow : BatchIds]],
             NonceRegistry!BatchConsumeNonces(s, entries)
      PROVE  NP!SettlerStep(s) /\ OthersSpend
  <2>1. NP!BatchConsumeNonces(s, entries)
    BY <1>2 DEF NonceRegistry!BatchConsumeNonces, NP!BatchConsumeNonces,
         NonceRegistry!MaySettle, NP!MaySettle,
         NonceRegistry!BatchConsumable, NP!BatchConsumable,
         NonceRegistry!IsNonceValid, NP!IsNonceValid,
         NonceRegistry!Consumed, NP!Consumed,
         NonceRegistry!Nonces, NP!Nonces
  <2>2. entries \in [1 .. k -> NP!Entry]
    BY DEF NP!Entry, NP!Nonces, Receipts
  <2>3. entries \in NP!Batches
    BY <2>2, BatchConstants DEF NP!Batches
  <2>4. \A i \in DOMAIN entries : entries[i].receipt \notin OwnReceipts
    BY HashesDiffer
  <2>5. OthersSpend
    BY <2>1, <2>3, <2>4, NewEntriesAreOfTheBatch, ZenonT(60) DEF OthersSpend
  <2> QED BY <2>1, <2>3, <2>5 DEF NP!SettlerStep
<1>3. UNCHANGED <<now, batchVars>>
  BY DEF OtherSettlement, OtherSettlements
<1> QED BY <1>1, <1>2, <1>3 DEF OtherSettlement, OtherSettlements

LEMMA AdminsAreAdmins ==
  ASSUME NonceAdminStep
  PROVE  NP!AdminStep /\ UNCHANGED <<now, batchVars, nonces>>
BY DEF NonceAdminStep, NonceRegistry!AdminStep,
     NonceRegistry!AuthorizeSettler, NonceRegistry!DeauthorizeSettler,
     NonceRegistry!PauseNonces, NonceRegistry!UnpauseNonces,
     NonceRegistry!consumedVars,
     NP!AdminStep, NP!AuthorizeSettler, NP!DeauthorizeSettler,
     NP!PauseNonces, NP!UnpauseNonces, NP!consumedVars

-----------------------------------------------------------------------------
(***************************************************************************)
(* Each step keeps the types and is a step of the registry or leaves it    *)
(* alone.                                                                  *)
(***************************************************************************)
RegistryStep == [NP!Next]_(NP!nonceVars)

LEMMA QuietStep ==
  ASSUME UNCHANGED nonceVars
  PROVE  RegistryStep
BY DEF RegistryStep, nonceVars, consumedVars, NP!nonceVars

LEMMA SettlerStepsAreSteps ==
  ASSUME NEW s \in Settlers, NP!SettlerStep(s)
  PROVE  RegistryStep
BY DEF RegistryStep, NP!Next

LEMMA StepRefinesRegistry ==
  ASSUME IInv, [Next]_vars
  PROVE  BatchesTyped' /\ RegistryStep
<1> USE DEF IInv
<1>1. CASE GatewayStep
  <2>1. ASSUME NEW payments \in SUBSET Payments, submitBatch(payments)
        PROVE  BatchesTyped' /\ RegistryStep
    BY <2>1, SubmitKeepsBatches, QuietStep
  <2>2. ASSUME NEW b \in DOMAIN batches, finalizeBatch(b)
        PROVE  BatchesTyped' /\ RegistryStep
    BY <2>2, StatusKeepsBatches, QuietStep DEF finalizeBatch
  <2>3. ASSUME NEW b \in DOMAIN batches, reclaimExpiredBatch(b)
        PROVE  BatchesTyped' /\ RegistryStep
    BY <2>3, QuietStep DEF reclaimExpiredBatch, BatchesTyped
  <2> QED BY <1>1, <2>1, <2>2, <2>3 DEF GatewayStep
<1>2. CASE DisputeStep
  <2>1. ASSUME NEW b \in DOMAIN batches, disputeBatch(b) \/ cancelBatch(b)
        PROVE  BatchesTyped' /\ RegistryStep
    BY <2>1, StatusKeepsBatches, QuietStep DEF disputeBatch, cancelBatch
  <2>2. ASSUME NEW b \in DOMAIN batches, NEW p \in Payments, disputePayment(b, p)
        PROVE  BatchesTyped' /\ RegistryStep
    BY <2>2, QuietStep DEF disputePayment, BatchesTyped
  <2>3. ASSUME NEW p \in Payments, NEW refundAgent \in BOOLEAN,
               resolvePaymentDispute(p, refundAgent)
        PROVE  BatchesTyped' /\ RegistryStep
    BY <2>3, QuietStep DEF resolvePaymentDispute, BatchesTyped
  <2> QED BY <1>2, <2>1, <2>2, <2>3 DEF DisputeStep
<1>3. CASE ProviderStep
  <2>1. PICK b \in DOMAIN batches, provider \in Providers, k \in 1 .. MaxBatch :
          \E ps \in [1 .. k -> batches[b].payments] : Claim(b, provider, ps)
    BY <1>3, ClaimsAreClaims
  <2>2. NP!SettlerStep(Self) /\ UNCHANGED <<now, batches>>
    BY <2>1, ClaimIsSettlement
  <2>3. Self \in Settlers
    BY DEF Settlers
  <2> QED BY <2>2, <2>3, SettlerStepsAreSteps DEF BatchesTyped
<1>4. ASSUME NEW value \in BOOLEAN, SetPaused(value)
      PROVE  BatchesTyped' /\ RegistryStep
  BY <1>4, QuietStep DEF SetPaused, BatchesTyped
<1>5. ASSUME NEW s \in OtherSettlers, OtherSettlement(s) \/ OtherSettlements(s)
      PROVE  BatchesTyped' /\ RegistryStep
  <2>1. NP!SettlerStep(s) /\ UNCHANGED <<now, batches>>
    BY <1>5, OthersAreSettlers DEF batchVars
  <2>2. s \in Settlers
    BY DEF Settlers
  <2> QED BY <2>1, <2>2, SettlerStepsAreSteps DEF BatchesTyped
<1>6. CASE NonceAdminStep
  BY <1>6, AdminsAreAdmins DEF RegistryStep, NP!Next, BatchesTyped, batchVars
<1>7. CASE Tick
  <2>1. now' \in 0 .. MaxTime /\ UNCHANGED batches /\ UNCHANGED nonceVars
    BY <1>7, BatchConstants DEF Tick, BatchesTyped, batchVars
  <2> QED BY <2>1, QuietStep DEF BatchesTyped
<1>8. CASE UNCHANGED vars
  BY <1>8, QuietStep DEF vars, batchVars, BatchesTyped
<1> QED BY <1>1, <1>2, <1>3, <1>4, <1>5, <1>6, <1>7, <1>8 DEF Next, BatchStep

(***************************************************************************)
(* The settlement contract and those it shares the registry with use it as *)
(* its specification says, whatever the payments and the batches are.      *)
(***************************************************************************)
THEOREM BatchInvariant == Spec => []IInv
<1>1. Init => IInv
  <2> SUFFICES ASSUME Init PROVE IInv
    OBVIOUS
  <2>1. NP!Init
    BY DEF Init, NonceRegistry!NonceInit, NonceRegistry!Unused,
           NonceRegistry!Nonces, NP!Init, NP!NonceInit, NP!Unused, NP!Nonces
  <2>2. NP!IInv
    BY <2>1, RegistryAssumptions, NP!InitEstablishesIInv
  <2>3. BatchesTyped
    BY BatchConstants DEF Init, BatchesTyped
  <2> QED BY <2>2, <2>3 DEF IInv
<1>2. IInv /\ [Next]_vars => IInv'
  <2> SUFFICES ASSUME IInv, [Next]_vars PROVE IInv'
    OBVIOUS
  <2>1. BatchesTyped' /\ RegistryStep
    BY StepRefinesRegistry
  <2>2. NP!IInv'
    BY <2>1, RegistryAssumptions, NP!StepPreservesIInv DEF IInv, RegistryStep
  <2> QED BY <2>1, <2>2 DEF IInv
<1> QED BY <1>1, <1>2, PTL DEF Spec

THEOREM UsesTheRegistry == Spec => NP!Spec
<1>1. Init => NP!Init
  BY DEF Init, NonceRegistry!NonceInit, NonceRegistry!Unused,
         NonceRegistry!Nonces, NP!Init, NP!NonceInit, NP!Unused, NP!Nonces
<1>2. IInv /\ [Next]_vars => [NP!Next]_(NP!nonceVars)
  BY StepRefinesRegistry DEF RegistryStep
<1> QED BY <1>1, <1>2, BatchInvariant, PTL DEF Spec, NP!Spec

(***************************************************************************)
(* The promises of the registry, between the contracts that share it:      *)
(* a receipt settles one nonce, the nonce offered is free, and a consumed  *)
(* nonce keeps its receipt.                                                *)
(***************************************************************************)
THEOREM ReceiptsStayUnique == Spec => []ReceiptSettlesOneNonce
<1>1. NP!ReceiptSettlesOneNonce => ReceiptSettlesOneNonce
  BY DEF ReceiptSettlesOneNonce, NonceRegistry!ReceiptSettlesOneNonce,
         NP!ReceiptSettlesOneNonce, NonceRegistry!Nonces, NP!Nonces
<1>2. NP!Spec => []NP!ReceiptSettlesOneNonce
  BY RegistryAssumptions, NP!NonceReceiptsAreUnique
<1> QED BY <1>1, <1>2, UsesTheRegistry, PTL

THEOREM OfferedNonceIsFree == Spec => []NextNonceIsFree
<1>1. NP!NextNonceIsFree => NextNonceIsFree
  BY DEF NextNonceIsFree, NonceRegistry!NextNonceIsFree, NP!NextNonceIsFree,
         NonceRegistry!GetNextNonce, NP!GetNextNonce,
         NonceRegistry!IsUsed, NP!IsUsed, NonceRegistry!Nonces, NP!Nonces
<1>2. NP!Spec => []NP!NextNonceIsFree
  BY RegistryAssumptions, NP!NonceOfferedIsFree
<1> QED BY <1>1, <1>2, UsesTheRegistry, PTL

THEOREM ConsumptionStaysFinal == Spec => ConsumptionIsFinal
<1>1. NP!Spec => NP!ConsumptionIsFinal
  BY RegistryAssumptions, NP!NonceConsumptionIsFinal
<1> QED BY <1>1, UsesTheRegistry
        DEF ConsumptionIsFinal, NonceRegistry!ConsumptionIsFinal,
            NP!ConsumptionIsFinal, NonceRegistry!nonceVars, NP!nonceVars,
            NonceRegistry!Nonces, NP!Nonces

-----------------------------------------------------------------------------
(***************************************************************************)
(* Finalisation and dispute exclude each other for good, and what was      *)
(* disputed pays nothing any more.                                         *)
(***************************************************************************)
VerdictKept ==
  \A b \in DOMAIN batches :
    LET before == batches[b].status
        after  == batches'[b].status
    IN  /\ before = "FINALIZED" => after = "FINALIZED"
        /\ before \in {"DISPUTED", "CANCELLED"} =>
             /\ after \in {"DISPUTED", "CANCELLED"}
             /\ SettledFor(b)' = SettledFor(b)

LEMMA QuietNonces ==
  ASSUME UNCHANGED nonceVars
  PROVE  \A b \in DOMAIN batches : SettledFor(b)' = SettledFor(b)
BY DEF nonceVars, consumedVars, SettledFor, Settled

LEMMA SameBatches ==
  ASSUME UNCHANGED batches,
         \A b \in DOMAIN batches : SettledFor(b)' = SettledFor(b)
  PROVE  VerdictKept
BY DEF VerdictKept

LEMMA StatusChange ==
  ASSUME IInv, NEW b \in DOMAIN batches, NEW status,
         SetStatus(b, status),
         \/ batches[b].status = "SUBMITTED" /\ status \in {"FINALIZED", "DISPUTED"}
         \/ batches[b].status = "DISPUTED" /\ status = "CANCELLED"
  PROVE  VerdictKept
<1>1. /\ \A c \in DOMAIN batches : c # b => batches'[c] = batches[c]
      /\ batches'[b].status = status
      /\ UNCHANGED nonceVars
  BY StatusKeepsBatches DEF IInv
<1>2. \A c \in DOMAIN batches : SettledFor(c)' = SettledFor(c)
  BY <1>1, QuietNonces
<1> QED BY <1>1, <1>2 DEF VerdictKept

THEOREM VerdictStays == Spec => VerdictIsFinal
<1>1. IInv /\ [Next]_vars => [VerdictKept]_vars
  <2> SUFFICES ASSUME IInv, Next PROVE VerdictKept
    OBVIOUS
  <2>1. CASE GatewayStep
    <3>1. ASSUME NEW payments \in SUBSET Payments, submitBatch(payments)
          PROVE  VerdictKept
      <4>1. /\ \A b \in DOMAIN batches : batches'[b] = batches[b]
            /\ \A b \in DOMAIN batches : SettledFor(b)' = SettledFor(b)
        BY <3>1, SubmitKeepsBatches, QuietNonces DEF IInv
      <4> QED BY <4>1 DEF VerdictKept
    <3>2. ASSUME NEW b \in DOMAIN batches, finalizeBatch(b) PROVE VerdictKept
      BY <3>2, StatusChange DEF finalizeBatch, Finalizable
    <3>3. ASSUME NEW b \in DOMAIN batches, reclaimExpiredBatch(b)
          PROVE  VerdictKept
      BY <3>3, QuietNonces, SameBatches DEF reclaimExpiredBatch
    <3> QED BY <2>1, <3>1, <3>2, <3>3 DEF GatewayStep
  <2>2. CASE DisputeStep
    <3>1. ASSUME NEW b \in DOMAIN batches, disputeBatch(b) PROVE VerdictKept
      BY <3>1, StatusChange DEF disputeBatch, InWindow
    <3>2. ASSUME NEW b \in DOMAIN batches, cancelBatch(b) PROVE VerdictKept
      BY <3>2, StatusChange DEF cancelBatch
    <3>3. ASSUME NEW b \in DOMAIN batches, NEW p \in Payments, disputePayment(b, p)
          PROVE  VerdictKept
      BY <3>3, QuietNonces, SameBatches DEF disputePayment
    <3>4. ASSUME NEW p \in Payments, NEW refundAgent \in BOOLEAN,
                 resolvePaymentDispute(p, refundAgent)
          PROVE  VerdictKept
      BY <3>4, QuietNonces, SameBatches DEF resolvePaymentDispute
    <3> QED BY <2>2, <3>1, <3>2, <3>3, <3>4 DEF DisputeStep
  <2>3. CASE ProviderStep
    <3>1. PICK b \in DOMAIN batches, provider \in Providers, k \in 1 .. MaxBatch :
            \E ps \in [1 .. k -> batches[b].payments] : Claim(b, provider, ps)
      BY <2>3, ClaimsAreClaims DEF IInv
    <3>2. /\ batches[b].status = "FINALIZED"
          /\ \A c \in DOMAIN batches \ {b} : SettledFor(c)' = SettledFor(c)
          /\ UNCHANGED batches
      BY <3>1, ClaimIsSettlement DEF IInv
    <3> QED BY <3>2 DEF VerdictKept
  <2>4. ASSUME NEW value \in BOOLEAN, SetPaused(value) PROVE VerdictKept
    BY <2>4, QuietNonces, SameBatches DEF SetPaused
  <2>5. ASSUME NEW s \in OtherSettlers, OtherSettlement(s) \/ OtherSettlements(s)
        PROVE  VerdictKept
    BY <2>5, OthersAreSettlers, ReceiptsOfOthers, SameBatches DEF IInv, batchVars
  <2>6. CASE NonceAdminStep
    <3>1. UNCHANGED batches /\ \A b \in DOMAIN batches : SettledFor(b)' = SettledFor(b)
      BY <2>6, AdminsAreAdmins DEF SettledFor, Settled, batchVars
    <3> QED BY <3>1, SameBatches
  <2>7. CASE Tick
    BY <2>7, QuietNonces, SameBatches DEF Tick, batchVars
  <2> QED BY <2>1, <2>2, <2>3, <2>4, <2>5, <2>6, <2>7 DEF Next, BatchStep
<1> QED BY <1>1, BatchInvariant, PTL DEF Spec, VerdictIsFinal, VerdictKept

-----------------------------------------------------------------------------
(***************************************************************************)
(* The types of the contract's own state: what is paid out is never more   *)
(* than what is held, and a fee never more than the amount it is taken of. *)
(***************************************************************************)
MoneysTyped ==
  /\ claims \in [Payments -> {"PENDING", "CLAIMED", "DISPUTED", "REFUNDED"}]
  /\ totalSettled \in Nat /\ totalFees \in Nat /\ held \in Nat
  /\ earned \in [Providers -> Nat]
  /\ paused \in BOOLEAN

\* Addresses, amounts and nonces are of bounded width.
LEMMA PaymentsAreFinite == IsFiniteSet(Payments)
<1> DEFINE parts == (Payers \X Providers) \X (Amounts \X PaidNonces)
           pay   == [x \in parts |-> [agent |-> x[1][1], provider |-> x[1][2],
                                      amount |-> x[2][1], nonce |-> x[2][2]]]
<1>1. IsFiniteSet(Payers) /\ IsFiniteSet(PaidNonces)
  <2>1. IsFiniteSet(0 .. MaxNonce)
    BY BatchConstants, FS_Interval
  <2>2. Payers \subseteq Agents /\ IsFiniteSet(Agents) /\ PaidNonces \subseteq 0 .. MaxNonce
    BY BatchConstants
  <2> QED BY <2>1, <2>2, FS_Subset
<1>2. IsFiniteSet(Payers \X Providers) /\ IsFiniteSet(Amounts \X PaidNonces)
  BY <1>1, BatchConstants, FS_Product
<1>3. IsFiniteSet(parts)
  BY <1>2, FS_Product
<1>4. IsFiniteSet({pay[x] : x \in parts})
  <2> HIDE DEF parts, pay
  <2> QED BY <1>3, ImageIsFinite
<1>5. Payments \subseteq {pay[x] : x \in parts}
  <2> SUFFICES ASSUME NEW p \in Payments PROVE p \in {pay[x] : x \in parts}
    OBVIOUS
  <2> DEFINE x == <<<<p.agent, p.provider>>, <<p.amount, p.nonce>>>>
  <2>1. x \in parts
    BY DEF Payments
  <2>2. pay[x] = [agent |-> p.agent, provider |-> p.provider,
                  amount |-> p.amount, nonce |-> p.nonce]
    BY <2>1
  <2>3. p = [agent |-> p.agent, provider |-> p.provider,
             amount |-> p.amount, nonce |-> p.nonce]
    BY DEF Payments
  <2> HIDE DEF x, pay, parts
  <2> QED BY <2>1, <2>2, <2>3
<1> QED BY <1>4, <1>5, FS_Subset

(***************************************************************************)
(* The fee of a payment is part of its amount, and what is left of several *)
(* payments is what is left of their sum.                                  *)
(***************************************************************************)
LEMMA FeeIsBounded ==
  ASSUME NEW amount \in Nat
  PROVE  Fee(amount) \in 0 .. amount
<1>1. amount * SETTLEMENT_FEE_BPS <= amount * BPS_DENOMINATOR
  BY BatchConstants
<1>2. /\ amount * SETTLEMENT_FEE_BPS \in Nat
      /\ BPS_DENOMINATOR \in Nat \ {0}
  BY BatchConstants
<1>3. \A x \in Nat : x <= amount * BPS_DENOMINATOR => x \div BPS_DENOMINATOR \in 0 .. amount
  BY <1>2
<1> QED BY <1>1, <1>2, <1>3 DEF Fee

NetOf == [p \in Payments |-> AmountOf[p] - FeeOf[p]]

LEMMA NetOfPayments ==
  ASSUME NEW ps \in SUBSET Payments
  PROVE  /\ IsFiniteSet(ps)
         /\ Natural(AmountOf, ps) /\ Natural(FeeOf, ps) /\ Natural(NetOf, ps)
         /\ Value(ps) \in Nat /\ SumOver(FeeOf, ps) \in Nat
         /\ SumOver(NetOf, ps) \in Nat
         /\ Value(ps) = SumOver(FeeOf, ps) + SumOver(NetOf, ps)
<1>1. IsFiniteSet(ps)
  BY PaymentsAreFinite, FS_Subset
<1>2. \A p \in ps : /\ AmountOf[p] \in Nat /\ FeeOf[p] \in Nat /\ NetOf[p] \in Nat
                    /\ AmountOf[p] = FeeOf[p] + NetOf[p]
  <2> SUFFICES ASSUME NEW p \in ps
               PROVE  /\ AmountOf[p] \in Nat /\ FeeOf[p] \in Nat /\ NetOf[p] \in Nat
                      /\ AmountOf[p] = FeeOf[p] + NetOf[p]
    OBVIOUS
  <2>1. p.amount \in Nat /\ AmountOf[p] = p.amount
    BY BatchConstants DEF Payments, AmountOf
  <2>2. Fee(p.amount) \in 0 .. p.amount
    BY <2>1, FeeIsBounded
  <2>3. FeeOf[p] = Fee(p.amount) /\ NetOf[p] = AmountOf[p] - FeeOf[p]
    BY DEF FeeOf, NetOf
  <2> QED BY <2>1, <2>2, <2>3
<1>3. Natural(AmountOf, ps) /\ Natural(FeeOf, ps) /\ Natural(NetOf, ps)
  BY <1>2 DEF Natural
<1>4. SumOver(AmountOf, ps) = SumOver(FeeOf, ps) + SumOver(NetOf, ps)
  BY <1>1, <1>2, <1>3, SumSplit
<1>5. /\ SumOver(AmountOf, ps) \in Nat /\ SumOver(FeeOf, ps) \in Nat
      /\ SumOver(NetOf, ps) \in Nat
  BY <1>1, <1>3, SumIsNatural
<1> QED BY <1>1, <1>3, <1>4, <1>5 DEF Value

\* What a claim does to the contract's own state, without its nonces.
Pays(provider, claimed) ==
  /\ claimed \in SUBSET Payments
  /\ \A p \in claimed : p.provider = provider
  /\ totalSettled' = totalSettled + Value(claimed)
  /\ totalFees' = totalFees + SumOver(FeeOf, claimed)
  /\ earned'[provider] = earned[provider] + SumOver(NetOf, claimed)
  /\ \A q \in Providers \ {provider} : earned'[q] = earned[q]

LEMMA ClaimMovesMoney ==
  ASSUME BatchesTyped, MoneysTyped, NEW b \in DOMAIN batches, NEW provider \in Providers,
         NEW k \in 1 .. MaxBatch, NEW ps \in [1 .. k -> batches[b].payments],
         Claim(b, provider, ps)
  PROVE  MoneysTyped' /\ Pays(provider, {ps[i] : i \in 1 .. k})
<1> DEFINE claimed == {ps[i] : i \in 1 .. k}
<1>1. claimed \in SUBSET Payments
  BY ClaimConsumes
<1>2. /\ \A p \in claimed : p.provider = provider
      /\ claims' = [p \in Payments |-> IF p \in claimed THEN "CLAIMED" ELSE claims[p]]
      /\ totalSettled' = totalSettled + Value(claimed)
      /\ totalFees' = totalFees + SumOver(FeeOf, claimed)
      /\ Value(claimed) <= held
      /\ held' = held - Value(claimed)
      /\ earned' = [earned EXCEPT ![provider] =
                      @ + (Value(claimed) - SumOver(FeeOf, claimed))]
      /\ paused' = paused
  BY DEF Claim
<1> HIDE DEF claimed
<1>3. /\ Value(claimed) \in Nat /\ SumOver(FeeOf, claimed) \in Nat
      /\ SumOver(NetOf, claimed) \in Nat
      /\ Value(claimed) = SumOver(FeeOf, claimed) + SumOver(NetOf, claimed)
  BY <1>1, NetOfPayments
<1>4. Value(claimed) - SumOver(FeeOf, claimed) = SumOver(NetOf, claimed)
  BY <1>3
<1>5. earned' = [earned EXCEPT ![provider] = @ + SumOver(NetOf, claimed)]
  BY <1>2, <1>4
<1>6. /\ earned' \in [Providers -> Nat]
      /\ earned'[provider] = earned[provider] + SumOver(NetOf, claimed)
      /\ \A q \in Providers \ {provider} : earned'[q] = earned[q]
  BY <1>3, <1>5 DEF MoneysTyped
<1>7. totalSettled' \in Nat /\ totalFees' \in Nat /\ held' \in Nat
  <2>1. totalSettled \in Nat /\ totalFees \in Nat /\ held \in Nat
    BY DEF MoneysTyped
  <2>2. \A v \in Nat : v <= held => held - v \in Nat
    BY <2>1
  <2> QED BY <1>2, <1>3, <2>1, <2>2, SMTT(40)
<1>8. claims' \in [Payments -> {"PENDING", "CLAIMED", "DISPUTED", "REFUNDED"}]
  BY <1>2 DEF MoneysTyped
<1>9. MoneysTyped'
  <2>1. paused' \in BOOLEAN
    BY <1>2 DEF MoneysTyped
  <2> QED BY <1>6, <1>7, <1>8, <2>1 DEF MoneysTyped
<1> QED BY <1>1, <1>2, <1>6, <1>9 DEF claimed, Pays

LEMMA MoneysStand ==
  ASSUME MoneysTyped, UNCHANGED <<claims, totals, held, paused>>
  PROVE  MoneysTyped'
BY DEF MoneysTyped, totals

LEMMA InitTypesMoneys == Init => MoneysTyped
<1> SUFFICES ASSUME Init PROVE MoneysTyped
  OBVIOUS
<1>1. 0 \in Nat /\ "PENDING" \in {"PENDING", "CLAIMED", "DISPUTED", "REFUNDED"}
  OBVIOUS
<1> QED BY <1>1 DEF Init, MoneysTyped

LEMMA StepKeepsMoneys ==
  ASSUME IInv, MoneysTyped, [Next]_vars
  PROVE  MoneysTyped'
<1>1. CASE GatewayStep
  <2>1. ASSUME NEW payments \in SUBSET Payments, submitBatch(payments)
        PROVE  MoneysTyped'
    <3>1. held' = held + Value(payments) /\ Value(payments) \in Nat
      BY <2>1, NetOfPayments DEF submitBatch
    <3>2. held' \in Nat
      BY <3>1 DEF MoneysTyped
    <3> QED BY <2>1, <3>2 DEF submitBatch, MoneysTyped, totals
  <2>2. ASSUME NEW b \in DOMAIN batches, finalizeBatch(b)
        PROVE  MoneysTyped'
    BY <2>2, MoneysStand DEF finalizeBatch, SetStatus
  <2>3. ASSUME NEW b \in DOMAIN batches, reclaimExpiredBatch(b)
        PROVE  MoneysTyped'
    BY <2>3 DEF reclaimExpiredBatch, MoneysTyped, totals
  <2> QED BY <1>1, <2>1, <2>2, <2>3 DEF GatewayStep
<1>2. CASE DisputeStep
  <2>1. ASSUME NEW b \in DOMAIN batches, disputeBatch(b) \/ cancelBatch(b)
        PROVE  MoneysTyped'
    BY <2>1, MoneysStand DEF disputeBatch, cancelBatch, SetStatus
  <2>2. ASSUME NEW b \in DOMAIN batches, NEW p \in Payments, disputePayment(b, p)
        PROVE  MoneysTyped'
    BY <2>2 DEF disputePayment, MoneysTyped, totals
  <2>3. ASSUME NEW p \in Payments, NEW refundAgent \in BOOLEAN,
               resolvePaymentDispute(p, refundAgent)
        PROVE  MoneysTyped'
    <3>1. p.amount \in Nat
      BY BatchConstants DEF Payments
    <3>2. held' \in Nat
      BY <2>3, <3>1 DEF resolvePaymentDispute, MoneysTyped
    <3>3. claims' \in [Payments -> {"PENDING", "CLAIMED", "DISPUTED", "REFUNDED"}]
      BY <2>3 DEF resolvePaymentDispute, MoneysTyped
    <3> QED BY <2>3, <3>2, <3>3 DEF resolvePaymentDispute, MoneysTyped, totals
  <2> QED BY <1>2, <2>1, <2>2, <2>3 DEF DisputeStep
<1>3. CASE ProviderStep
  BY <1>3, ClaimsAreClaims, ClaimMovesMoney DEF IInv
<1>4. ASSUME NEW value \in BOOLEAN, SetPaused(value)
      PROVE  MoneysTyped'
  BY <1>4 DEF SetPaused, MoneysTyped, totals
<1>5. ASSUME NEW s \in OtherSettlers, OtherSettlement(s) \/ OtherSettlements(s)
      PROVE  MoneysTyped'
  BY <1>5, MoneysStand DEF OtherSettlement, OtherSettlements, batchVars
<1>6. CASE NonceAdminStep
  BY <1>6, MoneysStand DEF NonceAdminStep, batchVars
<1>7. CASE Tick
  BY <1>7, MoneysStand DEF Tick, batchVars
<1>8. CASE UNCHANGED vars
  BY <1>8, MoneysStand DEF vars, batchVars
<1> QED BY <1>1, <1>2, <1>3, <1>4, <1>5, <1>6, <1>7, <1>8 DEF Next, BatchStep

(***************************************************************************)
(* The types of the contract, its batches and the registry hold in every   *)
(* reachable state, for every fee: what a provider is paid is never less   *)
(* than nothing, as the fees of the payments claimed together are part of  *)
(* their sum, which the contract must hold.                                *)
(***************************************************************************)
THEOREM BatchTypeCorrect == Spec => []TypeOK
<1>1. Init => MoneysTyped
  BY InitTypesMoneys
<1>2. IInv /\ MoneysTyped /\ [Next]_vars => MoneysTyped'
  BY StepKeepsMoneys
<1>3. IInv /\ MoneysTyped => TypeOK
  <2> SUFFICES ASSUME IInv, MoneysTyped PROVE TypeOK
    OBVIOUS
  <2>1. NonceRegistry!TypeOK
    BY DEF IInv, NP!IInv, NP!TypeOK, NP!NonceInfo, NP!Nonces,
           NonceRegistry!TypeOK, NonceRegistry!NonceInfo, NonceRegistry!Nonces
  <2> QED BY <2>1 DEF IInv, BatchesTyped, MoneysTyped, TypeOK
<1> QED BY <1>1, <1>2, <1>3, BatchInvariant, PTL DEF Spec

-----------------------------------------------------------------------------
(***************************************************************************)
(* What claims pay for.  A claim consumes one unused nonce for each of the *)
(* payments claimed, and no two of them have the same: its own duplicates  *)
(* would have reverted.                                                    *)
(***************************************************************************)
NonceOf == [p \in Payments |-> <<p.agent, p.nonce>>]

Spends(k, ps) ==
  /\ \A i \in 1 .. k :
       LET a == ps[i].agent
           n == ps[i].nonce
       IN  /\ a \in Agents /\ n \in 0 .. MaxNonce
           /\ ~nonces[a][n].used
           /\ nonces'[a][n].used
           /\ nonces'[a][n].receiptHash = [payment |-> ps[i], at |-> now]
  /\ \A i, j \in 1 .. k :
       ps[i].agent = ps[j].agent /\ ps[i].nonce = ps[j].nonce => i = j
  /\ \A a \in Agents, n \in 0 .. MaxNonce :
       \/ nonces'[a][n] = nonces[a][n]
       \/ \E i \in 1 .. k : ps[i].agent = a /\ ps[i].nonce = n

LEMMA ClaimSpends ==
  ASSUME BatchesTyped, NEW b \in DOMAIN batches, NEW provider, NEW k \in 1 .. MaxBatch,
         NEW ps \in [1 .. k -> batches[b].payments], Claim(b, provider, ps)
  PROVE  Spends(k, ps)
<1> DEFINE entries == Consumptions(b, ps)
           ForNonce(a, n) == {i \in DOMAIN entries : entries[i].agent = a
                                                    /\ entries[i].nonce = n}
           entered(a, n) == CHOOSE i \in ForNonce(a, n) : TRUE
<1>1. /\ DOMAIN entries = 1 .. k
      /\ \A i \in 1 .. k : /\ entries[i].agent = ps[i].agent
                           /\ entries[i].nonce = ps[i].nonce
                           /\ entries[i].receipt = [payment |-> ps[i], at |-> now]
  BY DEF Consumptions, Consumption
<1>2. /\ \A i \in 1 .. k : ps[i] \in Payments
      /\ NP!BatchConsumeNonces(Self, entries)
  BY ClaimConsumes
<1>3. \A i \in 1 .. k : ps[i].agent \in Agents /\ ps[i].nonce \in 0 .. MaxNonce
  BY <1>2, BatchConstants DEF Payments
<1>4. /\ \A i \in DOMAIN entries : ~nonces[entries[i].agent][entries[i].nonce].used
      /\ \A i, j \in DOMAIN entries :
           i # j => entries[i].agent # entries[j].agent \/ entries[i].nonce # entries[j].nonce
  BY <1>2 DEF NP!BatchConsumeNonces, NP!BatchConsumable, NP!IsNonceValid
<1>5. \A a \in Agents, n \in 0 .. MaxNonce :
        nonces'[a][n] = IF ForNonce(a, n) = {} THEN nonces[a][n]
                        ELSE NP!Consumed(entries[entered(a, n)].receipt,
                                         entries[entered(a, n)].escrow)
  BY <1>2 DEF NP!BatchConsumeNonces, NP!Nonces
<1> HIDE DEF entries
<1>6. ASSUME NEW i \in 1 .. k
      PROVE  LET a == ps[i].agent
                 n == ps[i].nonce
             IN  /\ a \in Agents /\ n \in 0 .. MaxNonce
                 /\ ~nonces[a][n].used
                 /\ nonces'[a][n].used
                 /\ nonces'[a][n].receiptHash = [payment |-> ps[i], at |-> now]
  <2> DEFINE a == ps[i].agent
             n == ps[i].nonce
  <2>1. i \in ForNonce(a, n)
    BY <1>1
  <2>2. entered(a, n) \in ForNonce(a, n)
    BY <2>1
  <2>3. entered(a, n) = i
    BY <1>4, <2>1, <2>2
  <2>4. nonces'[a][n] = NP!Consumed(entries[i].receipt, entries[i].escrow)
    BY <1>3, <1>5, <2>1, <2>3
  <2>5. nonces'[a][n].used /\ nonces'[a][n].receiptHash = entries[i].receipt
    BY <2>4 DEF NP!Consumed
  <2> QED BY <1>1, <1>3, <1>4, <2>5
<1>7. ASSUME NEW a \in Agents, NEW n \in 0 .. MaxNonce, nonces'[a][n] # nonces[a][n]
      PROVE  \E i \in 1 .. k : ps[i].agent = a /\ ps[i].nonce = n
  <2>1. ForNonce(a, n) # {}
    BY <1>5, <1>7
  <2> QED BY <1>1, <2>1, ZenonT(60)
<1>8. \A i, j \in 1 .. k :
        ps[i].agent = ps[j].agent /\ ps[i].nonce = ps[j].nonce => i = j
  BY <1>1, <1>4, ZenonT(60)
<1> QED BY <1>6, <1>7, <1>8 DEF Spends

\* The nonces settled grow by those of the payments claimed.
PaysFor(claimed) ==
  LET spent == {NonceOf[p] : p \in claimed}
  IN  /\ Settled' = Settled \cup spent /\ Settled \cap spent = {}
      /\ \A an \in Settled : PaymentOf(an)' = PaymentOf(an)
      /\ \A p \in claimed :
           nonces'[NonceOf[p][1]][NonceOf[p][2]].receiptHash.payment = p
      /\ \A p, q \in claimed : NonceOf[p] = NonceOf[q] => p = q

LEMMA ClaimSettles ==
  ASSUME BatchesTyped, NEW b \in DOMAIN batches, NEW provider, NEW k \in 1 .. MaxBatch,
         NEW ps \in [1 .. k -> batches[b].payments], Claim(b, provider, ps)
  PROVE  PaysFor({ps[i] : i \in 1 .. k})
<1> DEFINE claimed == {ps[i] : i \in 1 .. k}
           spent   == {NonceOf[p] : p \in claimed}
<1>0. Spends(k, ps)
  BY ClaimSpends
<1>1. \A i \in 1 .. k : /\ ps[i] \in Payments
                         /\ NonceOf[ps[i]] = <<ps[i].agent, ps[i].nonce>>
                         /\ NonceOf[ps[i]][1] = ps[i].agent
                         /\ NonceOf[ps[i]][2] = ps[i].nonce
  BY ClaimConsumes DEF NonceOf
<1>2. ASSUME NEW i \in 1 .. k
      PROVE  LET an == NonceOf[ps[i]]
             IN  /\ an \in Agents \X (0 .. MaxNonce)
                 /\ ~nonces[an[1]][an[2]].used
                 /\ nonces'[an[1]][an[2]].used
                 /\ nonces'[an[1]][an[2]].receiptHash = [payment |-> ps[i], at |-> now]
  <2> DEFINE a == ps[i].agent
             n == ps[i].nonce
  <2>1. /\ a \in Agents /\ n \in 0 .. MaxNonce
        /\ ~nonces[a][n].used
        /\ nonces'[a][n].used
        /\ nonces'[a][n].receiptHash = [payment |-> ps[i], at |-> now]
    BY <1>0 DEF Spends
  <2>2. NonceOf[ps[i]] = <<a, n>> /\ NonceOf[ps[i]][1] = a /\ NonceOf[ps[i]][2] = n
    BY <1>1
  <2> HIDE DEF a, n
  <2> QED BY <2>1, <2>2
<1>3. \A i, j \in 1 .. k : NonceOf[ps[i]] = NonceOf[ps[j]] => i = j
  <2>1. \A i, j \in 1 .. k :
          ps[i].agent = ps[j].agent /\ ps[i].nonce = ps[j].nonce => i = j
    BY <1>0 DEF Spends
  <2> QED BY <1>1, <2>1
<1>4. ASSUME NEW an \in Agents \X (0 .. MaxNonce), an \notin spent
      PROVE  nonces'[an[1]][an[2]] = nonces[an[1]][an[2]]
  <2>1. \A i \in 1 .. k : an # NonceOf[ps[i]]
    BY <1>4
  <2>2. \A i \in 1 .. k : ~(ps[i].agent = an[1] /\ ps[i].nonce = an[2])
    <3> SUFFICES ASSUME NEW i \in 1 .. k, ps[i].agent = an[1], ps[i].nonce = an[2]
                 PROVE  FALSE
      OBVIOUS
    <3>1. an = <<an[1], an[2]>>
      OBVIOUS
    <3> QED BY <1>1, <2>1, <3>1
  <2>3. \A a \in Agents, n \in 0 .. MaxNonce :
          \/ nonces'[a][n] = nonces[a][n]
          \/ \E i \in 1 .. k : ps[i].agent = a /\ ps[i].nonce = n
    BY <1>0 DEF Spends
  <2> QED BY <2>2, <2>3
<1>5. \A i \in 1 .. k : [payment |-> ps[i], at |-> now] \in OwnReceipts
  BY <1>1 DEF OwnReceipts, BatchesTyped
<1>6. \A an \in spent : /\ an \in Agents \X (0 .. MaxNonce)
                        /\ ~nonces[an[1]][an[2]].used
                        /\ nonces'[an[1]][an[2]].used
                        /\ nonces'[an[1]][an[2]].receiptHash \in OwnReceipts
  <2> SUFFICES ASSUME NEW i \in 1 .. k
               PROVE  LET an == NonceOf[ps[i]]
                      IN  /\ an \in Agents \X (0 .. MaxNonce)
                          /\ ~nonces[an[1]][an[2]].used
                          /\ nonces'[an[1]][an[2]].used
                          /\ nonces'[an[1]][an[2]].receiptHash \in OwnReceipts
    OBVIOUS
  <2> QED BY <1>2, <1>5
<1>7. ASSUME NEW p \in claimed
      PROVE  nonces'[NonceOf[p][1]][NonceOf[p][2]].receiptHash.payment = p
  <2>1. PICK i \in 1 .. k : p = ps[i]
    OBVIOUS
  <2>2. nonces'[NonceOf[p][1]][NonceOf[p][2]].receiptHash = [payment |-> p, at |-> now]
    BY <1>2, <2>1
  <2> QED BY <2>2
<1>8. \A p, q \in claimed : NonceOf[p] = NonceOf[q] => p = q
  BY <1>3
<1> HIDE DEF spent
<1>9. Settled' = Settled \cup spent /\ Settled \cap spent = {}
  BY <1>4, <1>6 DEF Settled
<1>10. \A an \in Settled : PaymentOf(an)' = PaymentOf(an)
  BY <1>4, <1>9 DEF PaymentOf, Settled
<1> QED BY <1>7, <1>8, <1>9, <1>10 DEF spent, PaysFor

LEMMA SettledIsFinite == \A S \in SUBSET (Agents \X (0 .. MaxNonce)) : IsFiniteSet(S)
<1>1. IsFiniteSet(Agents) /\ IsFiniteSet(0 .. MaxNonce)
  BY BatchConstants, FS_Interval
<1>2. IsFiniteSet(Agents \X (0 .. MaxNonce))
  BY <1>1, FS_Product
<1> QED BY <1>2, FS_Subset

(***************************************************************************)
(* A function of the nonces settled that is, for each of them, a function  *)
(* of its payment grows by the payments claimed.                           *)
(***************************************************************************)
LEMMA SumGrows ==
  ASSUME NEW f, NEW g, NEW of, NEW old, NEW claimed \in SUBSET Payments,
         IsFiniteSet(old), Natural(f, old), Natural(of, claimed),
         old \cap {NonceOf[p] : p \in claimed} = {},
         \A an \in old : g[an] = f[an],
         \A p \in claimed : g[NonceOf[p]] = of[p],
         \A p, q \in claimed : NonceOf[p] = NonceOf[q] => p = q
  PROVE  SumOver(g, old \cup {NonceOf[p] : p \in claimed})
           = SumOver(f, old) + SumOver(of, claimed)
<1> DEFINE spent == {NonceOf[p] : p \in claimed}
<1>1. IsFiniteSet(claimed)
  BY NetOfPayments
<1>2. IsFiniteSet(spent)
  BY <1>1, ImageIsFinite
<1>3. SumOver(g, spent) = SumOver(of, claimed)
  BY <1>1, SumRenamed
<1>4. SumOver(f, old) = SumOver(g, old)
  BY SumSame
<1>5. Natural(g, old) /\ Natural(g, spent)
  BY DEF Natural
<1>6. old \cap spent = {}
  OBVIOUS
<1> HIDE DEF spent
<1>7. SumOver(g, old \cup spent) = SumOver(g, old) + SumOver(g, spent)
  BY <1>2, <1>5, <1>6, SumUnion
<1> QED BY <1>3, <1>4, <1>7 DEF spent

LEMMA SettledAmounts ==
  /\ \A an \in Settled : /\ an \in Agents \X (0 .. MaxNonce)
                         /\ PaymentOf(an) \in Payments
  /\ Natural(Paid, Settled) /\ Natural(Net, Settled)
<1>1. \A an \in Settled : PaymentOf(an) \in Payments
  BY DEF Settled, PaymentOf, OwnReceipts
<1>2. \A p \in Payments : /\ AmountOf[p] \in Nat
                          /\ NetOf[p] = AmountOf[p] - FeeOf[p] /\ NetOf[p] \in Nat
  BY NetOfPayments DEF Natural, NetOf
<1>3. Natural(Paid, Settled) /\ Natural(Net, Settled)
  BY <1>1, <1>2 DEF Natural, Paid, Net
<1> QED BY <1>1, <1>3 DEF Settled

\* Of the nonces settled after a claim, the old are worth what they were, and
\* the new what was claimed.
LEMMA SettledWorth ==
  ASSUME NEW claimed \in SUBSET Payments, PaysFor(claimed)
  PROVE  /\ \A an \in Settled : an \in Settled' /\ Paid'[an] = Paid[an] /\ Net'[an] = Net[an]
         /\ \A p \in claimed : /\ NonceOf[p] \in Settled'
                               /\ Paid'[NonceOf[p]] = AmountOf[p]
                               /\ Net'[NonceOf[p]] = NetOf[p]
<1>1. ASSUME NEW an \in Settled
      PROVE  an \in Settled' /\ Paid'[an] = Paid[an] /\ Net'[an] = Net[an]
  <2>1. an \in Settled' /\ PaymentOf(an)' = PaymentOf(an)
    BY DEF PaysFor
  <2> QED BY <2>1 DEF Paid, Net
<1>2. ASSUME NEW p \in claimed
      PROVE  /\ NonceOf[p] \in Settled'
             /\ Paid'[NonceOf[p]] = AmountOf[p]
             /\ Net'[NonceOf[p]] = NetOf[p]
  <2> DEFINE an == NonceOf[p]
  <2>1. an \in Settled' /\ nonces'[an[1]][an[2]].receiptHash.payment = p
    BY DEF PaysFor
  <2> HIDE DEF an
  <2>2. PaymentOf(an)' = p
    BY <2>1 DEF PaymentOf
  <2>3. Paid'[an] = AmountOf[p] /\ Net'[an] = AmountOf[p] - FeeOf[p]
    BY <2>1, <2>2 DEF Paid, Net
  <2>4. NetOf[p] = AmountOf[p] - FeeOf[p]
    BY DEF NetOf
  <2> QED BY <2>1, <2>3, <2>4 DEF an
<1> QED BY <1>1, <1>2

LEMMA ClaimKeepsBooks ==
  ASSUME BatchesTyped, MoneysTyped, NoncePaysOnce,
         NEW b \in DOMAIN batches, NEW provider \in Providers,
         NEW k \in 1 .. MaxBatch, NEW ps \in [1 .. k -> batches[b].payments],
         Claim(b, provider, ps)
  PROVE  NoncePaysOnce'
<1> DEFINE claimed == {ps[i] : i \in 1 .. k}
           spent   == {NonceOf[p] : p \in claimed}
           paid  == Paid'
           net   == Net'
<1>1. PaysFor(claimed)
  BY ClaimSettles
<1>0. Pays(provider, claimed) /\ MoneysTyped'
  BY ClaimMovesMoney
<1> HIDE DEF claimed
<1>2. /\ claimed \in SUBSET Payments
      /\ \A p \in claimed : p.provider = provider
      /\ totalSettled' = totalSettled + Value(claimed)
      /\ totalFees' = totalFees + SumOver(FeeOf, claimed)
      /\ earned'[provider] = earned[provider] + SumOver(NetOf, claimed)
      /\ \A q \in Providers \ {provider} : earned'[q] = earned[q]
      /\ earned \in [Providers -> Nat] /\ earned' \in [Providers -> Nat]
  BY <1>0 DEF MoneysTyped, Pays
<1>3. /\ \A an \in Settled : paid[an] = Paid[an] /\ net[an] = Net[an]
      /\ \A p \in claimed : /\ paid[NonceOf[p]] = AmountOf[p]
                            /\ net[NonceOf[p]] = NetOf[p]
  BY <1>1, <1>2, SettledWorth
<1>4. /\ Settled' = Settled \cup spent /\ Settled \cap spent = {}
      /\ \A an \in Settled : PaymentOf(an)' = PaymentOf(an)
      /\ \A an \in spent : PaymentOf(an)' \in claimed
      /\ \A p, q \in claimed : NonceOf[p] = NonceOf[q] => p = q
  BY <1>1 DEF PaysFor, PaymentOf
<1>5. \A S \in SUBSET Settled : /\ IsFiniteSet(S) /\ S \cap spent = {}
                                /\ Natural(Paid, S) /\ Natural(Net, S)
  <2>1. Settled \subseteq Agents \X (0 .. MaxNonce)
    BY DEF Settled
  <2> QED BY <1>4, <2>1, SettledIsFinite, SettledAmounts DEF Natural
<1>6. /\ Natural(AmountOf, claimed) /\ Natural(FeeOf, claimed)
      /\ Natural(NetOf, claimed)
      /\ Value(claimed) \in Nat /\ SumOver(FeeOf, claimed) \in Nat
      /\ SumOver(NetOf, claimed) \in Nat
      /\ Value(claimed) = SumOver(FeeOf, claimed) + SumOver(NetOf, claimed)
  BY <1>2, NetOfPayments
<1>7. totalSettled' = SumOver(paid, Settled')
  <2>1. SumOver(paid, Settled \cup spent) = SumOver(Paid, Settled) + SumOver(AmountOf, claimed)
    <3> DEFINE old == Settled
    <3>1. /\ IsFiniteSet(old) /\ Natural(Paid, old) /\ old \cap spent = {}
          /\ \A an \in old : paid[an] = Paid[an]
      BY <1>3, <1>5
    <3>2. /\ claimed \in SUBSET Payments /\ Natural(AmountOf, claimed)
          /\ \A p \in claimed : paid[NonceOf[p]] = AmountOf[p]
          /\ \A p, q \in claimed : NonceOf[p] = NonceOf[q] => p = q
      BY <1>2, <1>3, <1>4, <1>6
    <3> HIDE DEF paid, old
    <3>3. SumOver(paid, old \cup spent) = SumOver(Paid, old) + SumOver(AmountOf, claimed)
      BY <3>1, <3>2, SumGrows
    <3> QED BY <3>3 DEF old
  <2>2. totalSettled = SumOver(Paid, Settled)
    BY DEF NoncePaysOnce
  <2> HIDE DEF spent, paid
  <2> QED BY <1>2, <1>4, <2>1, <2>2 DEF Value
<1>8. ASSUME NEW q \in Providers
      PROVE  earned'[q] = SumOver(net, OwedTo(q)')
  <2>1. OwedTo(q) \in SUBSET Settled /\ earned[q] = SumOver(Net, OwedTo(q))
    BY DEF OwedTo, NoncePaysOnce
  <2>2. CASE q = provider
    <3>1. OwedTo(q)' = OwedTo(q) \cup spent
      BY <1>2, <1>4, <2>2 DEF OwedTo
    <3>2. SumOver(net, OwedTo(q) \cup spent) = SumOver(Net, OwedTo(q)) + SumOver(NetOf, claimed)
      <4> DEFINE old == OwedTo(q)
      <4>1. /\ IsFiniteSet(old) /\ Natural(Net, old) /\ old \cap spent = {}
            /\ \A an \in old : net[an] = Net[an]
        BY <1>3, <1>5, <2>1
      <4>2. /\ claimed \in SUBSET Payments /\ Natural(NetOf, claimed)
            /\ \A p \in claimed : net[NonceOf[p]] = NetOf[p]
            /\ \A p, r \in claimed : NonceOf[p] = NonceOf[r] => p = r
        BY <1>2, <1>3, <1>4, <1>6
      <4> HIDE DEF net, old
      <4>3. SumOver(net, old \cup spent) = SumOver(Net, old) + SumOver(NetOf, claimed)
        BY <4>1, <4>2, SumGrows
      <4> QED BY <4>3 DEF old
    <3> HIDE DEF spent, net
    <3> QED BY <1>2, <2>1, <2>2, <3>1, <3>2
  <2>3. CASE q # provider
    <3>1. OwedTo(q)' = OwedTo(q)
      BY <1>2, <1>4, <2>3 DEF OwedTo
    <3>2. SumOver(net, OwedTo(q)) = SumOver(Net, OwedTo(q))
      <4> HIDE DEF net
      <4> QED BY <1>3, <1>5, <2>1, SumSame
    <3> HIDE DEF net
    <3> QED BY <1>2, <2>1, <2>3, <3>1, <3>2
  <2> QED BY <2>2, <2>3
<1>9. totalSettled' = totalFees' + SumOver(earned', Providers)
  <2>1. Natural(earned, Providers) /\ Natural(earned', Providers) /\ IsFiniteSet(Providers)
    BY <1>2, BatchConstants DEF Natural
  <2>2. SumOver(earned', Providers) + earned[provider]
          = SumOver(earned, Providers) + earned'[provider]
    BY <1>2, <2>1, SumUpdate
  <2>3. SumOver(earned, Providers) \in Nat /\ SumOver(earned', Providers) \in Nat
    BY <2>1, SumIsNatural
  <2>4. /\ earned[provider] \in Nat /\ totalFees \in Nat
        /\ totalSettled = totalFees + SumOver(earned, Providers)
    BY <1>2 DEF MoneysTyped, NoncePaysOnce
  <2> DEFINE before == SumOver(earned, Providers)
             after  == SumOver(earned', Providers)
             fees   == SumOver(FeeOf, claimed)
             nets   == SumOver(NetOf, claimed)
  <2>5. /\ after + earned[provider] = before + earned'[provider]
        /\ earned'[provider] = earned[provider] + nets
        /\ totalSettled' = totalFees + before + (fees + nets)
        /\ totalFees' = totalFees + fees
    BY <1>2, <1>6, <2>2, <2>4
  <2>6. before \in Nat /\ after \in Nat /\ fees \in Nat /\ nets \in Nat
    BY <1>6, <2>3
  <2> HIDE DEF before, after, fees, nets
  <2>7. after = before + nets
    BY <2>4, <2>5, <2>6
  <2>8. totalSettled' = totalFees' + after
    BY <2>4, <2>5, <2>6, <2>7
  <2> QED BY <2>8 DEF after
<1> QED BY <1>7, <1>8, <1>9 DEF NoncePaysOnce

(***************************************************************************)
(* All other steps leave the totals alone and settle no nonce with a       *)
(* receipt of this contract.                                               *)
(***************************************************************************)
LEMMA OthersKeepBooks ==
  ASSUME NoncePaysOnce, OthersSpend, UNCHANGED totals
  PROVE  NoncePaysOnce'
<1>1. Settled' = Settled
  BY DEF OthersSpend, Settled
<1>2. \A an \in Settled : PaymentOf(an)' = PaymentOf(an)
  BY DEF OthersSpend, Settled, PaymentOf
<1>3. Paid' = Paid /\ Net' = Net
  BY <1>1, <1>2 DEF Paid, Net
<1>4. \A p \in Providers : OwedTo(p)' = OwedTo(p)
  BY <1>1, <1>2 DEF OwedTo
<1> QED BY <1>1, <1>3, <1>4 DEF NoncePaysOnce, totals

LEMMA QuietKeepsBooks ==
  ASSUME NoncePaysOnce, UNCHANGED nonces, UNCHANGED totals
  PROVE  NoncePaysOnce'
BY OthersKeepBooks DEF OthersSpend

LEMMA StepKeepsBooks ==
  ASSUME IInv, MoneysTyped, NoncePaysOnce, [Next]_vars
  PROVE  NoncePaysOnce'
<1>1. CASE GatewayStep
  BY <1>1, QuietKeepsBooks
     DEF GatewayStep, submitBatch, finalizeBatch, SetStatus, reclaimExpiredBatch,
         nonceVars, consumedVars
<1>2. CASE DisputeStep
  BY <1>2, QuietKeepsBooks
     DEF DisputeStep, disputeBatch, cancelBatch, SetStatus, disputePayment,
         resolvePaymentDispute, nonceVars, consumedVars
<1>3. CASE ProviderStep
  BY <1>3, ClaimsAreClaims, ClaimKeepsBooks DEF IInv
<1>4. ASSUME NEW value \in BOOLEAN, SetPaused(value)
      PROVE  NoncePaysOnce'
  BY <1>4, QuietKeepsBooks DEF SetPaused, nonceVars, consumedVars
<1>5. ASSUME NEW s \in OtherSettlers, OtherSettlement(s) \/ OtherSettlements(s)
      PROVE  NoncePaysOnce'
  BY <1>5, OthersAreSettlers, OthersKeepBooks DEF IInv, batchVars
<1>6. CASE NonceAdminStep
  BY <1>6, AdminsAreAdmins, QuietKeepsBooks DEF batchVars
<1>7. CASE Tick
  BY <1>7, QuietKeepsBooks DEF Tick, batchVars, nonceVars, consumedVars
<1>8. CASE UNCHANGED vars
  BY <1>8, QuietKeepsBooks DEF vars, batchVars, nonceVars, consumedVars
<1> QED BY <1>1, <1>2, <1>3, <1>4, <1>5, <1>6, <1>7, <1>8 DEF Next, BatchStep

(***************************************************************************)
(* What the contract ever paid is the sum of the payments whose nonces it  *)
(* consumed, each once: for any batches, of any size, that may share       *)
(* payments, claimed one by one or together, with disputes that reset      *)
(* claim records in between and others settling with the same registry.    *)
(***************************************************************************)
THEOREM NoncePaid == Spec => []NoncePaysOnce
<1>1. Init => MoneysTyped /\ NoncePaysOnce
  <2> SUFFICES ASSUME Init PROVE MoneysTyped /\ NoncePaysOnce
    OBVIOUS
  <2>1. MoneysTyped
    BY InitTypesMoneys
  <2>3. Settled = {}
    BY DEF Settled, Init, NonceRegistry!NonceInit, NonceRegistry!Unused,
           NonceRegistry!Nonces
  <2>4. \A p \in Providers : OwedTo(p) = {} /\ earned[p] = 0
    BY <2>3 DEF OwedTo, Init
  <2>5. SumOver(earned, Providers) = 0
    BY <2>4, BatchConstants, SumOfZeros
  <2>6. totalSettled = 0 /\ totalFees = 0
    BY DEF Init
  <2> QED BY <2>1, <2>3, <2>4, <2>5, <2>6, SumEmpty DEF NoncePaysOnce
<1>2. IInv /\ (MoneysTyped /\ NoncePaysOnce) /\ [Next]_vars
        => MoneysTyped' /\ NoncePaysOnce'
  BY StepKeepsMoneys, StepKeepsBooks
<1> QED BY <1>1, <1>2, BatchInvariant, PTL DEF Spec
=============================================================================
