--------------------------- MODULE BatchAccounting ---------------------------
(***************************************************************************)
(* What BatchSettlement and the nonce registry must keep true together,    *)
(* while other contracts settle with the same registry.                    *)
(***************************************************************************)
EXTENDS BatchSettlement

\* The nonces this contract consumed, and those it consumed for batch b.
Settled ==
  {an \in Agents \X (0 .. MaxNonce) :
     /\ nonces[an[1]][an[2]].used
     /\ nonces[an[1]][an[2]].receiptHash \in OwnReceipts}
SettledFor(b) == {an \in Settled : nonces[an[1]][an[2]].escrowId = b}

PaymentOf(an) == nonces[an[1]][an[2]].receiptHash.payment

\* What the payment of each of these nonces costs, and what its provider gets.
Paid      == [an \in Settled |-> AmountOf[PaymentOf(an)]]
Net       == [an \in Settled |-> AmountOf[PaymentOf(an)] - FeeOf[PaymentOf(an)]]
OwedTo(p) == {an \in Settled : PaymentOf(an).provider = p}

(***************************************************************************)
(* The registry's own promises hold between this contract and the others.  *)
(* Nonces and receipts are spent one for one; see X402NonceRegistry.       *)
(***************************************************************************)
ReceiptSettlesOneNonce == NonceRegistry!ReceiptSettlesOneNonce

(***************************************************************************)
(* getNextNonce offers a nonce no settler has used; see X402NonceRegistry. *)
(***************************************************************************)
NextNonceIsFree == NonceRegistry!NextNonceIsFree

(***************************************************************************)
(* A consumed nonce keeps its receipt; see X402NonceRegistry.              *)
(***************************************************************************)
ConsumptionIsFinal == NonceRegistry!ConsumptionIsFinal

(***************************************************************************)
(* Each nonce this contract consumed paid for one payment, once: what the  *)
(* providers and the treasury got is the sum of those payments.  The claim *)
(* record alone does not ensure it: the payment may be in two batches, and *)
(* a dispute in one resets the record of a claim from the other.           *)
(***************************************************************************)
NoncePaysOnce ==
  /\ \A p \in Providers : earned[p] = SumOver(Net, OwedTo(p))
  /\ totalSettled = SumOver(Paid, Settled)
  /\ totalSettled = totalFees + SumOver(earned, Providers)

(***************************************************************************)
(* Finalisation and dispute exclude each other for good, also in the block *)
(* of the expiry where both are open: a finalised batch is never disputed, *)
(* and a disputed one is never finalised and pays nothing any more, by one *)
(* claim or several at once.                                               *)
(***************************************************************************)
VerdictIsFinal ==
  [][\A b \in DOMAIN batches :
       LET before == batches[b].status
           after  == batches'[b].status
       IN  /\ before = "FINALIZED" => after = "FINALIZED"
           /\ before \in {"DISPUTED", "CANCELLED"} =>
                /\ after \in {"DISPUTED", "CANCELLED"}
                /\ SettledFor(b)' = SettledFor(b)]_vars

(***************************************************************************)
(* BatchSettlement.sol:534: "Reclaim unclaimed funds from expired          *)
(* batches".  What a batch that has not expired still has to pay stays in  *)
(* the contract.                                                           *)
(***************************************************************************)
Expired(b) == now > batches[b].submittedAt + BATCH_EXPIRY

Unclaimed ==
  {p \in Payments :
     /\ claims[p] = "PENDING" /\ ~nonces[p.agent][p.nonce].used
     /\ \E b \in DOMAIN batches : /\ p \in batches[b].payments
                                  /\ batches[b].status \in {"SUBMITTED", "FINALIZED"}
                                  /\ ~Expired(b)}

UnclaimedStaysFunded == held >= Value(Unclaimed)
=============================================================================
