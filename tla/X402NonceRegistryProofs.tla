----------------------- MODULE X402NonceRegistryProofs -----------------------
(***************************************************************************)
(* X402NonceRegistry for every set of agents, receipts and settlers, and   *)
(* every length of batch.                                                  *)
(***************************************************************************)
EXTENDS X402NonceRegistry, TLAPS

(***************************************************************************)
(* The inductive invariant.  getNextNonce is safe because highestNonce     *)
(* bounds the used nonces, so that is what the induction carries.          *)
(***************************************************************************)
HighestIsHighest ==
  \A a \in Agents, n \in Nonces : nonces[a][n].used => n <= highestNonce[a]

IInv == TypeOK /\ ReceiptSettlesOneNonce /\ HighestIsHighest

LEMMA InitEstablishesIInv ==
  ASSUME NonceConstants, Init
  PROVE  IInv
<1>1. 0 \in Nonces
  BY DEF NonceConstants, Nonces
<1>2. Unused \in NonceInfo
  BY DEF Unused, NonceInfo
<1>3. TypeOK
  BY <1>1, <1>2 DEF Init, NonceInit, TypeOK
<1>4. \A a \in Agents, n \in Nonces : ~nonces[a][n].used
  BY DEF Init, NonceInit, Unused
<1> QED BY <1>3, <1>4 DEF IInv, ReceiptSettlesOneNonce, HighestIsHighest

(***************************************************************************)
(* Consuming one nonce, whoever calls: the composed system cites it too.   *)
(***************************************************************************)
LEMMA ConsumeNoncePreservesIInv ==
  ASSUME NonceConstants, IInv, NEW s, NEW a \in Agents, NEW n \in Nonces, NEW r \in Receipts,
         NEW id \in EscrowIds \cup {NoEscrow}, ConsumeNonce(s, a, n, r, id)
  PROVE  IInv'
<1> USE DEF IInv, TypeOK, ConsumeNonce, Consumed, NonceInfo, Nonces
<1>1. TypeOK'
  BY DEF NonceConstants
<1>2. ReceiptSettlesOneNonce'
  BY DEF ReceiptSettlesOneNonce, IsNonceValid
<1>3. HighestIsHighest'
  BY DEF NonceConstants, HighestIsHighest
<1> QED BY <1>1, <1>2, <1>3

LEMMA BatchPreservesIInv ==
  ASSUME NonceConstants, IInv, NEW s, NEW batch \in Batches, BatchConsumeNonces(s, batch)
  PROVE  IInv'
<1> DEFINE ForNonce(a, n) ==
             {i \in DOMAIN batch : batch[i].agent = a /\ batch[i].nonce = n}
           Entered(a, n) == CHOOSE i \in ForNonce(a, n) : TRUE
<1>1. /\ Len(batch) \in Nat
      /\ \A i \in DOMAIN batch : batch[i] \in Entry
  BY DEF Batches
<1>2. \A a \in Agents, n \in Nonces :
        ForNonce(a, n) # {} => Entered(a, n) \in ForNonce(a, n)
  OBVIOUS
<1>3. nonces' = [a \in Agents |-> [n \in Nonces |->
                   IF ForNonce(a, n) = {} THEN nonces[a][n]
                   ELSE Consumed(batch[Entered(a, n)].receipt,
                                 batch[Entered(a, n)].escrow)]]
  BY DEF BatchConsumeNonces
<1>4. \A a \in Agents, n \in Nonces : \A i \in ForNonce(a, n) :
        i \in DOMAIN batch /\ batch[i].agent = a /\ batch[i].nonce = n
  OBVIOUS
<1> HIDE DEF ForNonce, Entered
\* Each entry of the map is untouched or the work of one entry of the batch.
<1> DEFINE Untouched(a, n) == nonces'[a][n] = nonces[a][n]
           WorkOf(i, a, n) ==
             /\ batch[i].agent = a
             /\ batch[i].nonce = n
             /\ nonces'[a][n].used
             /\ nonces'[a][n].receiptHash = batch[i].receipt
<1>5. \A a \in Agents, n \in Nonces :
        Untouched(a, n) \/ \E i \in DOMAIN batch : WorkOf(i, a, n)
  <2> SUFFICES ASSUME NEW a \in Agents, NEW n \in Nonces, ForNonce(a, n) # {}
               PROVE  WorkOf(Entered(a, n), a, n) /\ Entered(a, n) \in DOMAIN batch
    BY <1>3
  <2>1. nonces'[a][n] = Consumed(batch[Entered(a, n)].receipt,
                                 batch[Entered(a, n)].escrow)
    BY <1>3
  <2> QED BY <2>1, <1>2, <1>4 DEF Consumed
<1>a. TypeOK'
  <2>1. ASSUME NEW a \in Agents, NEW n \in Nonces, ForNonce(a, n) # {}
        PROVE  Consumed(batch[Entered(a, n)].receipt,
                        batch[Entered(a, n)].escrow) \in NonceInfo
    BY <1>1, <1>2, <1>4, <2>1 DEF Consumed, Entry, NonceInfo
  <2>2. \A a \in Agents : \A n \in Nonces : nonces[a][n] \in NonceInfo
    BY DEF IInv, TypeOK
  <2>3. nonces' \in [Agents -> [Nonces -> NonceInfo]]
    BY <1>3, <2>1, <2>2
  <2>4. claimedReceipts' \subseteq Receipts
    BY <1>1 DEF BatchConsumeNonces, Entry, IInv, TypeOK
  <2> QED BY <2>3, <2>4, <1>1 DEF BatchConsumeNonces, IInv, TypeOK
<1>b. ReceiptSettlesOneNonce'
  <2>1. /\ BatchConsumable(batch)
        /\ claimedReceipts' =
             claimedReceipts \cup {batch[i].receipt : i \in DOMAIN batch}
    BY DEF BatchConsumeNonces
  <2>2. ASSUME NEW a \in Agents, NEW n \in Nonces, nonces'[a][n].used
        PROVE  nonces'[a][n].receiptHash \in claimedReceipts'
    BY <1>5, <2>1, <2>2 DEF IInv, ReceiptSettlesOneNonce
  <2>3. ASSUME NEW a \in Agents, NEW b \in Agents, NEW m \in Nonces,
               NEW n \in Nonces, nonces'[a][m].used, nonces'[b][n].used,
               nonces'[a][m].receiptHash = nonces'[b][n].receiptHash
        PROVE  a = b /\ m = n
    <3>1. CASE Untouched(a, m) /\ Untouched(b, n)
      BY <3>1, <2>3 DEF IInv, ReceiptSettlesOneNonce
    <3>2. ASSUME NEW i \in DOMAIN batch, WorkOf(i, a, m), Untouched(b, n)
          PROVE  FALSE
      <4>1. nonces[b][n].receiptHash \in claimedReceipts
        BY <3>2, <2>3 DEF IInv, ReceiptSettlesOneNonce
      <4>2. batch[i].receipt \notin claimedReceipts
        BY <2>1 DEF BatchConsumable
      <4> QED BY <4>1, <4>2, <3>2, <2>3
    <3>3. ASSUME NEW i \in DOMAIN batch, WorkOf(i, b, n), Untouched(a, m)
          PROVE  FALSE
      <4>1. nonces[a][m].receiptHash \in claimedReceipts
        BY <3>3, <2>3 DEF IInv, ReceiptSettlesOneNonce
      <4>2. batch[i].receipt \notin claimedReceipts
        BY <2>1 DEF BatchConsumable
      <4> QED BY <4>1, <4>2, <3>3, <2>3
    <3>4. ASSUME NEW i \in DOMAIN batch, WorkOf(i, a, m),
                 NEW j \in DOMAIN batch, WorkOf(j, b, n)
          PROVE  a = b /\ m = n
      <4>1. batch[i].receipt = batch[j].receipt
        BY <3>4, <2>3
      <4>2. i = j
        BY <4>1, <2>1 DEF BatchConsumable
      <4> QED BY <4>2, <3>4
    <3> QED BY <3>1, <3>2, <3>3, <3>4, <1>5
  <2> QED BY <2>2, <2>3 DEF ReceiptSettlesOneNonce
<1>c. HighestIsHighest'
  <2> SUFFICES ASSUME NEW a \in Agents, NEW n \in Nonces, nonces'[a][n].used
               PROVE  n <= highestNonce'[a]
    BY DEF HighestIsHighest
  <2>1. \A i \in DOMAIN batch : batch[i].agent = a => batch[i].nonce <= highestNonce'[a]
    BY DEF BatchConsumeNonces
  <2>2. highestNonce[a] <= highestNonce'[a]
    BY DEF BatchConsumeNonces
  <2>3. CASE Untouched(a, n)
    <3>1. n <= highestNonce[a]
      BY <2>3 DEF IInv, HighestIsHighest
    <3>2. {n, highestNonce[a], highestNonce'[a]} \subseteq Nat
      BY <1>a DEF NonceConstants, IInv, TypeOK, Nonces
    <3> QED BY <2>2, <3>1, <3>2
  <2> QED BY <2>1, <2>3, <1>5
<1> QED BY <1>a, <1>b, <1>c DEF IInv

LEMMA StepPreservesIInv ==
  ASSUME NonceConstants, IInv, [Next]_nonceVars
  PROVE  IInv'
<1>1. ASSUME NEW s \in Settlers, SettlerStep(s) PROVE IInv'
  BY <1>1, ConsumeNoncePreservesIInv, BatchPreservesIInv DEF SettlerStep
<1>2. CASE AdminStep
  BY <1>2 DEF AdminStep, AuthorizeSettler, DeauthorizeSettler, PauseNonces,
       UnpauseNonces, consumedVars, IInv, TypeOK, ReceiptSettlesOneNonce,
       HighestIsHighest
<1>3. CASE UNCHANGED nonceVars
  BY <1>3 DEF nonceVars, IInv, TypeOK, ReceiptSettlesOneNonce, HighestIsHighest
<1> QED BY <1>1, <1>2, <1>3 DEF Next

THEOREM IInvIsInvariant ==
  ASSUME NonceConstants
  PROVE  Spec => []IInv
<1>1. Init => IInv
  BY InitEstablishesIInv
<1>2. IInv /\ [Next]_nonceVars => IInv'
  BY StepPreservesIInv
<1> QED BY <1>1, <1>2, PTL DEF Spec

(***************************************************************************)
(* No receipt settles two nonces, for any number of agents and settlers    *)
(* and any batches.                                                        *)
(***************************************************************************)
THEOREM NonceReceiptsAreUnique ==
  ASSUME NonceConstants
  PROVE  Spec => []ReceiptSettlesOneNonce
<1>1. IInv => ReceiptSettlesOneNonce
  BY DEF IInv
<1> QED BY <1>1, IInvIsInvariant, PTL

(***************************************************************************)
(* The state is always of its type.                                        *)
(***************************************************************************)
THEOREM NonceTypeCorrect ==
  ASSUME NonceConstants
  PROVE  Spec => []TypeOK
<1>1. IInv => TypeOK
  BY DEF IInv
<1> QED BY <1>1, IInvIsInvariant, PTL

(***************************************************************************)
(* The nonce that getNextNonce offers is one that consumeNonce accepts:    *)
(* the search finds it at the highest used nonce or right after it.        *)
(***************************************************************************)
LEMMA SearchFindsFreeNonce ==
  ASSUME NonceConstants, TypeOK, HighestIsHighest, NEW a \in Agents
  PROVE  ~IsUsed(a, GetNextNonce(a))
<1> DEFINE top == highestNonce[a]
           window == top .. top + 1000
           First(n) == ~IsUsed(a, n) /\ \A m \in top .. n : m < n => IsUsed(a, m)
<1>1. top \in Nat
  BY DEF NonceConstants, TypeOK, Nonces
<1>2. ~IsUsed(a, top + 1)
  BY <1>1 DEF NonceConstants, HighestIsHighest, IsUsed, Nonces
<1>3. \E n \in window : First(n)
  <2>1. CASE IsUsed(a, top)
    BY <2>1, <1>1, <1>2
  <2>2. CASE ~IsUsed(a, top)
    BY <2>2, <1>1
  <2> QED BY <2>1, <2>2
<1>4. GetNextNonce(a) = CHOOSE n \in window : First(n)
  BY DEF GetNextNonce
<1> QED BY <1>3, <1>4

THEOREM NonceOfferedIsFree ==
  ASSUME NonceConstants
  PROVE  Spec => []NextNonceIsFree
<1>1. IInv => NextNonceIsFree
  BY SearchFindsFreeNonce DEF IInv, HighestIsHighest, NextNonceIsFree
<1> QED BY <1>1, IInvIsInvariant, PTL

(***************************************************************************)
(* A consumed nonce never changes again.                                   *)
(***************************************************************************)
THEOREM NonceConsumptionIsFinal ==
  ASSUME NonceConstants
  PROVE  Spec => ConsumptionIsFinal
<1> DEFINE Kept == \A a \in Agents, n \in Nonces :
                     nonces[a][n].used => nonces'[a][n] = nonces[a][n]
<1>1. TypeOK /\ [Next]_nonceVars => [Kept]_nonceVars
  <2> SUFFICES ASSUME TypeOK, Next PROVE Kept
    OBVIOUS
  <2>1. ASSUME NEW s \in Settlers, NEW a \in Agents, NEW n \in Nonces,
               NEW r \in Receipts, NEW id \in EscrowIds,
               ConsumeNonce(s, a, n, r, id)
        PROVE  Kept
    BY <2>1 DEF TypeOK, ConsumeNonce, IsNonceValid
  <2>2. ASSUME NEW s \in Settlers, NEW batch \in Batches,
               BatchConsumeNonces(s, batch)
        PROVE  Kept
    BY <2>2 DEF TypeOK, BatchConsumeNonces, BatchConsumable, IsNonceValid
  <2>3. CASE AdminStep
    BY <2>3 DEF AdminStep, AuthorizeSettler, DeauthorizeSettler, PauseNonces,
         UnpauseNonces, consumedVars
  <2> QED BY <2>1, <2>2, <2>3 DEF Next, SettlerStep
<1> QED BY <1>1, NonceTypeCorrect, PTL DEF Spec, ConsumptionIsFinal
=============================================================================
