-------------------------- MODULE X402NonceRegistry --------------------------
(***************************************************************************)
(* contracts/src/economic/X402NonceRegistry.sol: settlement contracts      *)
(* consume an agent's nonce together with the receipt it settles, so that  *)
(* neither is settled twice.                                               *)
(*                                                                         *)
(* A transaction is one step and a revert an action that is not enabled.   *)
(* consumedAt is left out: nothing reads it.                               *)
(***************************************************************************)
EXTENDS Naturals, Sequences

CONSTANTS
  Agents,
  MaxNonce,       \* nonces are 0 .. MaxNonce
  Receipts,       \* receipt hashes
  EscrowIds,      \* escrow ids a settler reports
  Settlers,       \* contracts that may be given SETTLER_ROLE
  MaxBatch,       \* bound: length of a batch
  NoReceipt,      \* bytes32(0)
  NoEscrow

\* Assumed of the constants; the contracts that settle here ensure it of theirs.
NonceConstants ==
  /\ MaxNonce \in Nat
  /\ MaxBatch \in Nat
  /\ NoReceipt \notin Receipts
  /\ NoEscrow \notin EscrowIds

VARIABLES
  nonces,               \* _nonces
  claimedReceipts,      \* _claimedReceipts
  highestNonce,         \* _highestNonce
  totalNoncesConsumed,
  settlers,             \* holders of SETTLER_ROLE
  noncePaused           \* PausableUpgradeable

consumedVars == <<nonces, claimedReceipts, highestNonce, totalNoncesConsumed>>
nonceVars == <<nonces, claimedReceipts, highestNonce, totalNoncesConsumed,
               settlers, noncePaused>>

Nonces == 0 .. MaxNonce

NonceInfo ==
  [used : BOOLEAN, receiptHash : Receipts \cup {NoReceipt},
   escrowId : EscrowIds \cup {NoEscrow}]

Unused == [used |-> FALSE, receiptHash |-> NoReceipt, escrowId |-> NoEscrow]

TypeOK ==
  /\ nonces \in [Agents -> [Nonces -> NonceInfo]]
  /\ claimedReceipts \subseteq Receipts
  /\ highestNonce \in [Agents -> Nonces]
  /\ totalNoncesConsumed \in Nat
  /\ settlers \subseteq Settlers
  /\ noncePaused \in BOOLEAN

NonceInit ==
  /\ nonces = [a \in Agents |-> [n \in Nonces |-> Unused]]
  /\ claimedReceipts = {}
  /\ highestNonce = [a \in Agents |-> 0]
  /\ totalNoncesConsumed = 0
  /\ settlers = {}
  /\ noncePaused = FALSE

-----------------------------------------------------------------------------
\* Mutant: every nonce is good.
AnyNonceIsValid(a, n) == n \in Nonces

IsNonceValid(a, n) == ~nonces[a][n].used

\* The caller holds SETTLER_ROLE and the registry is not paused.
MaySettle(s) == s \in settlers /\ ~noncePaused

\* Mutant: the receipt and the escrow id are swapped.
ConsumedSwapped(r, id) == [used |-> TRUE, receiptHash |-> id, escrowId |-> r]

\* The entry that _consumeNonce writes for one (agent, nonce).
Consumed(r, id) == [used |-> TRUE, receiptHash |-> r, escrowId |-> id]

ConsumeNonce(s, a, n, r, id) ==
  /\ MaySettle(s)
  /\ IsNonceValid(a, n)
  /\ r \notin claimedReceipts
  /\ nonces' = [nonces EXCEPT ![a][n] = Consumed(r, id)]
  /\ claimedReceipts' = claimedReceipts \cup {r}
  /\ highestNonce' = [highestNonce EXCEPT ![a] = IF n > @ THEN n ELSE @]
  /\ totalNoncesConsumed' = totalNoncesConsumed + 1
  /\ UNCHANGED <<settlers, noncePaused>>

(***************************************************************************)
(* batchConsumeNonces consumes its entries in order and reverts as a whole *)
(* when one of them meets a nonce or a receipt consumed before it, by an   *)
(* earlier entry of the batch included.                                    *)
(***************************************************************************)
Entry == [agent : Agents, nonce : Nonces, receipt : Receipts, escrow : EscrowIds]

\* Mutant: entries are checked against storage only, not against each other.
BatchConsumableOnce(batch) ==
  \A i \in DOMAIN batch : /\ IsNonceValid(batch[i].agent, batch[i].nonce)
                          /\ batch[i].receipt \notin claimedReceipts

BatchConsumable(batch) ==
  /\ \A i \in DOMAIN batch :
       /\ IsNonceValid(batch[i].agent, batch[i].nonce)
       /\ batch[i].receipt \notin claimedReceipts
  /\ \A i, j \in DOMAIN batch :
       i # j => /\ batch[i].receipt # batch[j].receipt
                /\ \/ batch[i].agent # batch[j].agent
                   \/ batch[i].nonce # batch[j].nonce

BatchConsumeNonces(s, batch) ==
  LET ForNonce(a, n) ==
        {i \in DOMAIN batch : batch[i].agent = a /\ batch[i].nonce = n}
      Top(a) == {batch[i].nonce : i \in {j \in DOMAIN batch : batch[j].agent = a}}
                  \cup {highestNonce[a]}
  IN  /\ MaySettle(s)
      /\ BatchConsumable(batch)
      /\ nonces' = [a \in Agents |-> [n \in Nonces |->
                      IF ForNonce(a, n) = {} THEN nonces[a][n]
                      ELSE LET i == CHOOSE j \in ForNonce(a, n) : TRUE
                           IN  Consumed(batch[i].receipt, batch[i].escrow)]]
      /\ claimedReceipts' =
           claimedReceipts \cup {batch[i].receipt : i \in DOMAIN batch}
      /\ highestNonce' \in [Agents -> Nonces]
      /\ \A a \in Agents : /\ highestNonce'[a] \in Top(a)
                           /\ \A n \in Top(a) : n <= highestNonce'[a]
      /\ totalNoncesConsumed' = totalNoncesConsumed + Len(batch)
      /\ UNCHANGED <<settlers, noncePaused>>

AuthorizeSettler(s) ==
  /\ settlers' = settlers \cup {s}
  /\ UNCHANGED <<consumedVars, noncePaused>>

DeauthorizeSettler(s) ==
  /\ settlers' = settlers \ {s}
  /\ UNCHANGED <<consumedVars, noncePaused>>

PauseNonces ==
  /\ ~noncePaused
  /\ noncePaused' = TRUE
  /\ UNCHANGED <<consumedVars, settlers>>

UnpauseNonces ==
  /\ noncePaused
  /\ noncePaused' = FALSE
  /\ UNCHANGED <<consumedVars, settlers>>

\* Mutant: the search is skipped.
HighestAsNext(a) == highestNonce[a]

(***************************************************************************)
(* getNextNonce searches upwards from the highest nonce used.  The search  *)
(* window of the code, 1000, is never exhausted: nothing above the highest *)
(* is used, so the first or the second candidate is free.                  *)
(***************************************************************************)
IsUsed(a, n) == n \in Nonces /\ nonces[a][n].used

GetNextNonce(a) ==
  LET window == highestNonce[a] .. highestNonce[a] + 1000
  IN  CHOOSE n \in window :
        /\ ~IsUsed(a, n)
        /\ \A m \in highestNonce[a] .. n : m < n => IsUsed(a, m)

-----------------------------------------------------------------------------
AdminStep ==
  \/ \E s \in Settlers : AuthorizeSettler(s) \/ DeauthorizeSettler(s)
  \/ PauseNonces
  \/ UnpauseNonces

Batches == UNION {[1 .. k -> Entry] : k \in 0 .. MaxBatch}

SettlerStep(s) ==
  \/ \E a \in Agents, n \in Nonces, r \in Receipts, id \in EscrowIds :
       ConsumeNonce(s, a, n, r, id)
  \/ \E batch \in Batches : BatchConsumeNonces(s, batch)

Init == NonceInit

Next ==
  \/ \E s \in Settlers : SettlerStep(s)
  \/ AdminStep

Spec == Init /\ [][Next]_nonceVars

-----------------------------------------------------------------------------
(***************************************************************************)
(* Nonces and receipts are spent together and one for one: a claimed       *)
(* receipt settled exactly one nonce of one agent, whichever settlers and  *)
(* batches consumed them, in whatever order.                               *)
(***************************************************************************)
ReceiptSettlesOneNonce ==
  /\ \A a \in Agents, n \in Nonces :
       nonces[a][n].used => nonces[a][n].receiptHash \in claimedReceipts
  /\ \A a, b \in Agents, m, n \in Nonces :
       /\ nonces[a][m].used
       /\ nonces[b][n].used
       /\ nonces[a][m].receiptHash = nonces[b][n].receiptHash
       => a = b /\ m = n

(***************************************************************************)
(* getNextNonce never offers a nonce that consumeNonce would refuse: the   *)
(* highest nonce is an upper bound of the used ones, also after a batch    *)
(* whose nonces are out of order.                                          *)
(***************************************************************************)
NextNonceIsFree ==
  \A a \in Agents :
    /\ \A n \in Nonces : nonces[a][n].used => n <= highestNonce[a]
    /\ ~IsUsed(a, GetNextNonce(a))

(***************************************************************************)
(* A consumed nonce is consumed for good, with the receipt and the escrow  *)
(* it was consumed for; pausing, settler changes and later batches do not  *)
(* touch it.                                                               *)
(***************************************************************************)
ConsumptionIsFinal ==
  [][\A a \in Agents, n \in Nonces :
       nonces[a][n].used => nonces'[a][n] = nonces[a][n]]_nonceVars
=============================================================================
