------------------------ MODULE X402RefinementProofs ------------------------
(***************************************************************************)
(* The escrow manager implements EscrowPromise: its initial state maps to  *)
(* one of the promise's and each of its steps to a step of the promise or  *)
(* to none.                                                                *)
(***************************************************************************)
EXTENDS X402EscrowManagerProofs

\* The step moves no money and ends no escrow.
KeepsStill ==
  /\ UNCHANGED <<managerBalance, received, hasTreasury>>
  /\ \A id \in EscrowIds : /\ OutcomeOf(id)' = OutcomeOf(id)
                           /\ escrows'[id].amount = escrows[id].amount

\* The step moves the money of one escrow from outcome to outcome.
Moves(id, from, to) ==
  /\ OutcomeOf(id) = from
  /\ OutcomeOf(id)' = to
  /\ hasTreasury' = hasTreasury
  /\ \A other \in EscrowIds \ {id} :
       /\ OutcomeOf(other)' = OutcomeOf(other)
       /\ escrows'[other].amount = escrows[other].amount

\* What EscrowPromise sees of the escrows.
OutcomeMap == [e \in EscrowIds |-> OutcomeOf(e)]
DepositMap == [e \in EscrowIds |-> escrows[e].amount]
FeeMap == [amount \in RequestValues |-> FeeOn(amount)]

LEMMA StillIsStutter == KeepsStill => UNCHANGED Promise!vars
BY DEF KeepsStill, Promise!vars

LEMMA MoveIsMapped ==
  ASSUME NEW id \in EscrowIds, NEW from, NEW to, Moves(id, from, to)
  PROVE  /\ OutcomeMap[id] = from
         /\ OutcomeMap' = [OutcomeMap EXCEPT ![id] = to]
         /\ DepositMap' = [DepositMap EXCEPT ![id] = escrows'[id].amount]
         /\ DepositMap[id] = escrows[id].amount
         /\ escrows'[id].amount = escrows[id].amount => DepositMap' = DepositMap
BY DEF Moves, OutcomeMap, DepositMap

LEMMA DepositIsPromised ==
  ASSUME NEW id \in EscrowIds, NEW amount \in RequestValues, amount > 0,
         Moves(id, "none", "held"), escrows'[id].amount = amount,
         managerBalance' = managerBalance + amount, received' = received
  PROVE  Promise!Next
<1>1. Promise!Deposit(id, amount)
  BY MoveIsMapped DEF Promise!Deposit, Moves, OutcomeMap, DepositMap
<1> QED BY <1>1 DEF Promise!Next

LEMMA PaymentIsPromised ==
  ASSUME NEW id \in EscrowIds, NEW amount \in RequestValues, NEW fee, NEW kept,
         escrows[id].amount = amount, escrows'[id].amount = amount,
         fee = FeeOn(amount), kept = IF hasTreasury THEN 0 ELSE fee,
         Moves(id, "held", "paid"),
         managerBalance' + amount = managerBalance + kept,
         received' = [received EXCEPT ![Treasury] = @ + (fee - kept),
                                      ![id.provider] = @ + (amount - fee)]
  PROVE  Promise!Next
<1>1. FeeMap[DepositMap[id]] = fee /\ DepositMap[id] = amount
  BY DEF FeeMap, DepositMap
<1>2. /\ OutcomeMap[id] = "held" /\ DepositMap' = DepositMap
      /\ OutcomeMap' = [OutcomeMap EXCEPT ![id] = "paid"]
      /\ hasTreasury' = hasTreasury
  BY MoveIsMapped DEF Moves
<1>3. Promise!Pay(id)
  BY <1>1, <1>2 DEF Promise!Pay, OutcomeMap, DepositMap, FeeMap
<1> QED BY <1>3 DEF Promise!Next

LEMMA RefundIsPromised ==
  ASSUME NEW id \in EscrowIds, escrows'[id].amount = escrows[id].amount,
         Moves(id, "held", "refunded"),
         managerBalance' + escrows[id].amount = managerBalance,
         received' = [received EXCEPT ![id.agent] = @ + escrows[id].amount]
  PROVE  Promise!Next
<1>1. Promise!Refund(id)
  BY MoveIsMapped DEF Promise!Refund, Moves, OutcomeMap, DepositMap
<1> QED BY <1>1 DEF Promise!Next

LEMMA SplitIsPromised ==
  ASSUME NEW id \in EscrowIds, escrows'[id].amount = escrows[id].amount,
         NEW share \in 0 .. escrows[id].amount,
         Moves(id, "held", "split"),
         managerBalance' + escrows[id].amount = managerBalance,
         received' = [received EXCEPT ![id.agent] = @ + share,
                                      ![id.provider] = @ + (escrows[id].amount - share)]
  PROVE  Promise!Next
<1>1. Promise!Split(id, share)
  BY MoveIsMapped DEF Promise!Split, Moves, OutcomeMap, DepositMap
<1> QED BY <1>1 DEF Promise!Next

LEMMA TreasuryIsPromised ==
  ASSUME NEW present \in BOOLEAN, SetTreasury(present)
  PROVE  Promise!Next
<1>1. UNCHANGED <<escrows, pendingWithdrawals, managerBalance, received>>
  BY DEF SetTreasury, claimVars
<1>2. OutcomeMap' = OutcomeMap /\ DepositMap' = DepositMap
  BY <1>1 DEF OutcomeMap, OutcomeOf, DepositMap
<1>3. Promise!SetTreasury(present)
  BY <1>1, <1>2 DEF SetTreasury, Promise!SetTreasury, OutcomeMap, DepositMap
<1> QED BY <1>3 DEF Promise!Next

\* An escrow whose tables do not change keeps its outcome.
LEMMA SameTablesSameOutcome ==
  ASSUME NEW id \in EscrowIds, escrows'[id] = escrows[id],
         pendingWithdrawals'[id] = pendingWithdrawals[id]
  PROVE  OutcomeOf(id)' = OutcomeOf(id) /\ escrows'[id].amount = escrows[id].amount
BY DEF OutcomeOf

-----------------------------------------------------------------------------
LEMMA LockIsDeposit ==
  ASSUME IInv, NEW a \in Agents, NEW p \in Providers,
         NEW amount \in RequestValues, NEW n \in 0 .. MaxNonce,
         NEW validFor \in MIN_VALIDITY .. MAX_VALIDITY, NEW hashlock \in Hashlocks,
         escrows[IdFor(a, p, n)].status = "NONE",
         LockEscrow(a, p, amount, n, validFor, hashlock)
  PROVE  Promise!Next
<1>1. PICK id \in EscrowIds : id = IdFor(a, p, n)
  BY EscrowConstants DEF IdFor, EscrowIds, IInv, Times
<1>2. /\ amount > 0
      /\ escrows' = [escrows EXCEPT ![id] =
                       [status |-> "LOCKED", amount |-> amount,
                        expiresAt |-> now + validFor, hashlock |-> hashlock]]
      /\ managerBalance' = managerBalance + amount
      /\ UNCHANGED <<pendingWithdrawals, received, hasTreasury>>
  BY <1>1 DEF LockEscrow, claimVars, managerAdminVars
<1>3. /\ escrows \in [EscrowIds -> Escrow]
      /\ escrows[id].status = "NONE"
      /\ ~pendingWithdrawals[id].withdrawn
  BY <1>1 DEF IInv, OwnTypeOK, Lifecycle
<1>4. escrows'[id].status = "LOCKED" /\ escrows'[id].amount = amount
  BY <1>2, <1>3
<1>5. OutcomeOf(id) = "none" /\ OutcomeOf(id)' = "held"
  BY <1>2, <1>3, <1>4 DEF OutcomeOf
<1>6. \A other \in EscrowIds \ {id} :
        /\ escrows'[other] = escrows[other]
        /\ pendingWithdrawals'[other] = pendingWithdrawals[other]
  BY <1>2, <1>3
<1>7. Moves(id, "none", "held")
  BY <1>2, <1>5, <1>6, SameTablesSameOutcome DEF Moves
<1> QED BY <1>2, <1>4, <1>7, DepositIsPromised

LEMMA RefundIsRefund ==
  ASSUME IInv, NEW id \in EscrowIds, RefundExpiredEscrow(id)
  PROVE  Promise!Next
<1>1. /\ escrows[id].status = "LOCKED"
      /\ managerBalance >= escrows[id].amount
      /\ escrows' = [escrows EXCEPT ![id].status = "REFUNDED"]
      /\ managerBalance' = managerBalance - escrows[id].amount
      /\ received' = [received EXCEPT ![id.agent] = @ + escrows[id].amount]
      /\ UNCHANGED <<pendingWithdrawals, hasTreasury>>
  BY DEF RefundExpiredEscrow, Release, claimVars, managerAdminVars
<1>2. /\ escrows \in [EscrowIds -> Escrow] /\ escrows[id].amount \in Nat
      /\ managerBalance \in Nat
      /\ ~pendingWithdrawals[id].withdrawn
  BY <1>1 DEF IInv, OwnTypeOK, Escrow, Lifecycle
<1>3. escrows'[id] = [escrows[id] EXCEPT !.status = "REFUNDED"]
  BY <1>1, <1>2
<1>4. /\ escrows'[id].status = "REFUNDED"
      /\ escrows'[id].amount = escrows[id].amount
  BY <1>2, <1>3 DEF Escrow
<1>5. OutcomeOf(id) = "held" /\ OutcomeOf(id)' = "refunded"
  BY <1>1, <1>2, <1>4 DEF OutcomeOf
<1>6. \A other \in EscrowIds \ {id} :
        /\ escrows'[other] = escrows[other]
        /\ pendingWithdrawals'[other] = pendingWithdrawals[other]
  BY <1>1, <1>2
<1>7. Moves(id, "held", "refunded")
  BY <1>1, <1>5, <1>6, SameTablesSameOutcome DEF Moves
<1>8. managerBalance' + escrows[id].amount = managerBalance
  BY <1>1, <1>2
<1> QED BY <1>1, <1>4, <1>7, <1>8, RefundIsPromised

LEMMA ResolveIsSplit ==
  ASSUME IInv, NEW id \in EscrowIds, NEW share \in 0 .. escrows[id].amount,
         ResolveDispute(id, share, escrows[id].amount - share)
  PROVE  Promise!Next
<1>1. /\ escrows[id].status = "DISPUTED"
      /\ managerBalance >= escrows[id].amount
      /\ escrows' = [escrows EXCEPT ![id].status = "RESOLVED"]
      /\ managerBalance' = managerBalance - escrows[id].amount
      /\ received' = [received EXCEPT
                         ![id.agent] = @ + share,
                         ![id.provider] = @ + (escrows[id].amount - share)]
      /\ UNCHANGED <<pendingWithdrawals, hasTreasury>>
  BY DEF ResolveDispute, Release, claimVars, managerAdminVars
<1>2. /\ escrows \in [EscrowIds -> Escrow] /\ escrows[id].amount \in Nat
      /\ managerBalance \in Nat
      /\ ~pendingWithdrawals[id].withdrawn
  BY SharesAreNatural, ResolveKeepsIInv DEF IInv, OwnTypeOK, Escrow
<1>3. escrows'[id] = [escrows[id] EXCEPT !.status = "RESOLVED"]
  BY <1>1, <1>2
<1>4. /\ escrows'[id].status = "RESOLVED"
      /\ escrows'[id].amount = escrows[id].amount
  BY <1>2, <1>3 DEF Escrow
<1>5. OutcomeOf(id) = "held" /\ OutcomeOf(id)' = "split"
  BY <1>1, <1>2, <1>4 DEF OutcomeOf
<1>6. \A other \in EscrowIds \ {id} :
        /\ escrows'[other] = escrows[other]
        /\ pendingWithdrawals'[other] = pendingWithdrawals[other]
  BY <1>1, <1>2
<1>7. Moves(id, "held", "split")
  BY <1>1, <1>5, <1>6, SameTablesSameOutcome DEF Moves
<1>8. managerBalance' + escrows[id].amount = managerBalance
  BY <1>1, <1>2
<1> QED BY <1>1, <1>4, <1>7, <1>8, SplitIsPromised

\* What was recorded at the claim is the fee of the amount and the rest.
LEMMA WithdrawIsPay ==
  ASSUME IInv, NEW id \in EscrowIds, WithdrawClaimed(id)
  PROVE  Promise!Next
<1> DEFINE pw == pendingWithdrawals[id]
           amount == escrows[id].amount
           kept == IF hasTreasury THEN 0 ELSE pw.fee
<1>1. /\ escrows[id].status = "CLAIMED"
      /\ ~pw.withdrawn
      /\ pendingWithdrawals' = [pendingWithdrawals EXCEPT ![id].withdrawn = TRUE]
      /\ managerBalance' = managerBalance - (PayoutOf(id) + FeePaid(id))
      /\ received' = [received EXCEPT ![Treasury] = @ + FeePaid(id),
                                      ![id.provider] = @ + PayoutOf(id)]
      /\ UNCHANGED <<escrows, hasTreasury>>
  BY DEF WithdrawClaimed, WithdrawalOf, managerAdminVars
<1>2. /\ pendingWithdrawals \in [EscrowIds -> PendingWithdrawal]
      /\ pw.providerPayout \in Nat /\ pw.fee \in Nat
      /\ managerBalance \in Nat
      /\ escrows[id] \in Escrow /\ amount \in Nat
  BY DEF IInv, OwnTypeOK, PendingWithdrawal, Escrow
<1>3. /\ amount \in RequestValues
      /\ pw.fee = FeeOn(amount) /\ pw.providerPayout + pw.fee = amount
  BY <1>1 DEF IInv, Lifecycle
<1>4. PayoutOf(id) = amount - pw.fee /\ FeePaid(id) = pw.fee - kept
  BY <1>2, <1>3 DEF PayoutOf, FeePaid
<1>5. managerBalance' + amount = managerBalance + kept
  <2>1. kept \in Nat /\ pw.fee - kept \in Nat
    BY <1>2
  <2> HIDE DEF kept, amount, pw
  <2> QED BY <1>1, <1>2, <1>3, <1>4, <2>1
<1>6. pendingWithdrawals'[id].withdrawn
  BY <1>1, <1>2 DEF PendingWithdrawal
<1>7. OutcomeOf(id) = "held" /\ OutcomeOf(id)' = "paid"
  BY <1>1, <1>6 DEF OutcomeOf
<1>8. \A other \in EscrowIds \ {id} :
        /\ escrows'[other] = escrows[other]
        /\ pendingWithdrawals'[other] = pendingWithdrawals[other]
  BY <1>1, <1>2
<1>9. Moves(id, "held", "paid")
  BY <1>1, <1>7, <1>8, SameTablesSameOutcome DEF Moves
<1>10. received' = [received EXCEPT ![Treasury] = @ + (pw.fee - kept),
                                    ![id.provider] = @ + (amount - pw.fee)]
  BY <1>1, <1>4
<1>11. escrows'[id].amount = amount /\ kept = IF hasTreasury THEN 0 ELSE pw.fee
  BY <1>1
<1> HIDE DEF kept
<1> QED BY <1>3, <1>5, <1>9, <1>10, <1>11, PaymentIsPromised

-----------------------------------------------------------------------------
(***************************************************************************)
(* Extensions, claims and disputes leave the money where it is.            *)
(***************************************************************************)
LEMMA StillSteps ==
  ASSUME IInv, NEW id \in EscrowIds,
         \/ \E additional \in 0 .. MAX_VALIDITY : ExtendEscrow(id, additional)
         \/ \E preimage \in Preimages : ClaimEscrow(id, preimage)
         \/ DisputeEscrow(id)
  PROVE  KeepsStill
<1>1. /\ escrows \in [EscrowIds -> Escrow]
      /\ pendingWithdrawals \in [EscrowIds -> PendingWithdrawal]
      /\ Lifecycle(id)
  BY DEF IInv, OwnTypeOK
<1>2. ASSUME UNCHANGED <<managerBalance, received, hasTreasury>>,
             \A other \in EscrowIds \ {id} :
               /\ escrows'[other] = escrows[other]
               /\ pendingWithdrawals'[other] = pendingWithdrawals[other],
             escrows'[id].amount = escrows[id].amount,
             OutcomeOf(id) = "held", OutcomeOf(id)' = "held"
      PROVE  KeepsStill
  BY <1>2, SameTablesSameOutcome DEF KeepsStill
<1>3. ASSUME NEW additional \in 0 .. MAX_VALIDITY, ExtendEscrow(id, additional)
      PROVE  KeepsStill
  <2>1. /\ escrows[id].status = "LOCKED"
        /\ UNCHANGED <<managerBalance, received, hasTreasury>>
        /\ escrows' = [escrows EXCEPT
                         ![id].expiresAt = ExtendedExpiry(id, additional)]
        /\ UNCHANGED pendingWithdrawals
    BY <1>3 DEF ExtendEscrow, claimVars, managerAdminVars
  <2>2. /\ escrows'[id].status = "LOCKED"
        /\ escrows'[id].amount = escrows[id].amount
    BY <1>1, <2>1 DEF Escrow
  <2>3. ~pendingWithdrawals[id].withdrawn
    BY <1>1, <2>1 DEF Lifecycle
  <2>4. OutcomeOf(id) = "held" /\ OutcomeOf(id)' = "held"
    BY <2>1, <2>2, <2>3 DEF OutcomeOf
  <2> QED BY <1>1, <1>2, <2>1, <2>2, <2>4
<1>4. ASSUME NEW preimage \in Preimages, ClaimEscrow(id, preimage)
      PROVE  KeepsStill
  <2> DEFINE entry == [providerPayout |-> escrows[id].amount - FeeOn(escrows[id].amount),
                       fee |-> FeeOn(escrows[id].amount),
                       claimTimestamp |-> now, withdrawn |-> FALSE]
  <2>1. /\ escrows[id].status = "LOCKED"
        /\ UNCHANGED <<managerBalance, received, hasTreasury>>
        /\ escrows' = [escrows EXCEPT ![id].status = "CLAIMED"]
        /\ pendingWithdrawals' = [pendingWithdrawals EXCEPT ![id] = entry]
    BY <1>4 DEF ClaimEscrow, Release, managerAdminVars
  <2>2. /\ escrows'[id].status = "CLAIMED"
        /\ escrows'[id].amount = escrows[id].amount
    BY <1>1, <2>1 DEF Escrow
  <2>3. ~pendingWithdrawals[id].withdrawn /\ ~pendingWithdrawals'[id].withdrawn
    BY <1>1, <2>1 DEF Lifecycle
  <2>4. OutcomeOf(id) = "held" /\ OutcomeOf(id)' = "held"
    BY <2>1, <2>2, <2>3 DEF OutcomeOf
  <2> HIDE DEF entry
  <2> QED BY <1>1, <1>2, <2>1, <2>2, <2>4
<1>5. ASSUME DisputeEscrow(id) PROVE KeepsStill
  <2>1. /\ escrows[id].status \in {"LOCKED", "CLAIMED"}
        /\ UNCHANGED <<managerBalance, received, hasTreasury>>
        /\ escrows' = [escrows EXCEPT ![id].status = "DISPUTED"]
        /\ UNCHANGED pendingWithdrawals
    BY <1>5 DEF DisputeEscrow, Disputable, claimVars, managerAdminVars
  <2>2. /\ escrows'[id].status = "DISPUTED"
        /\ escrows'[id].amount = escrows[id].amount
    BY <1>1, <2>1 DEF Escrow
  <2>3. ~pendingWithdrawals[id].withdrawn
    BY <1>5, DisputeKeepsIInv
  <2>4. OutcomeOf(id) = "held" /\ OutcomeOf(id)' = "held"
    BY <2>1, <2>2, <2>3 DEF OutcomeOf
  <2> QED BY <1>1, <1>2, <2>1, <2>2, <2>4
<1> QED BY <1>3, <1>4, <1>5

LEMMA UntouchedTablesAreStill ==
  ASSUME UNCHANGED <<escrows, pendingWithdrawals, managerBalance, received,
                     hasTreasury>>
  PROVE  KeepsStill
BY SameTablesSameOutcome DEF KeepsStill

-----------------------------------------------------------------------------
LEMMA InitIsPromised == Init => Promise!Init
BY DEF Init, EscrowInit, Promise!Init, OutcomeOf, NoEscrowYet

LEMMA StepIsPromised ==
  ASSUME ~ReuseIdInBlock, IInv, [Next]_vars
  PROVE  [Promise!Next]_Promise!vars
<1>1. ASSUME NEW a \in Agents, AgentStep(a) PROVE [Promise!Next]_Promise!vars
  BY <1>1, LockIsDeposit, RefundIsRefund, StillSteps, StillIsStutter DEF AgentStep
<1>2. ASSUME NEW id \in EscrowIds, PartyStep(id)
      PROVE  [Promise!Next]_Promise!vars
  <2>1. ApproveServiceProof(id) => KeepsStill
    BY UntouchedTablesAreStill DEF ApproveServiceProof, claimVars, managerAdminVars
  <2> QED BY <1>2, <2>1, StillSteps, StillIsStutter, WithdrawIsPay, ResolveIsSplit
          DEF PartyStep
<1>3. CASE BondStep \/ OtherSettlement \/ NonceAdminStep \/ BondAdminStep
  BY <1>3, OtherContractsKeepIInv, UntouchedTablesAreStill, StillIsStutter
     DEF escrowVars
<1>4. ASSUME ManagerAdminStep PROVE [Promise!Next]_Promise!vars
  <2>1. ASSUME NEW value, SetPaused(value) PROVE KeepsStill
    BY <2>1, UntouchedTablesAreStill DEF SetPaused, claimVars
  <2> QED BY <1>4, <2>1, TreasuryIsPromised, StillIsStutter DEF ManagerAdminStep
<1>5. CASE Tick \/ UNCHANGED vars
  BY <1>5, UntouchedTablesAreStill, StillIsStutter DEF Tick, vars, escrowVars
<1> QED BY <1>1, <1>2, <1>3, <1>4, <1>5 DEF Next

(***************************************************************************)
(* Every escrow's deposit leaves the contract at most once and in full, to *)
(* the agent, or to the provider less exactly its fee, or to both, for any *)
(* number of agents, providers, escrows and amounts, whatever is slashed,  *)
(* paused, extended or disputed in between.                                *)
(***************************************************************************)
THEOREM EscrowKeepsPromise ==
  ASSUME ~ReuseIdInBlock
  PROVE  Spec => KeepsPromise
<1>1. IInv /\ [Next]_vars => [Promise!Next]_Promise!vars
  BY StepIsPromised
<1> QED BY <1>1, InitIsPromised, EscrowIInvIsInvariant, PTL
        DEF Spec, KeepsPromise, Promise!Spec

-----------------------------------------------------------------------------
(***************************************************************************)
(* Solvency follows from the refinement: what the contract owes is what it *)
(* promised to hold, and every step of the promise moves the money of one  *)
(* escrow together with its outcome.                                       *)
(***************************************************************************)
LEMMA OwedIsHeld ==
  ASSUME IInv, IInv', NEW id \in EscrowIds
  PROVE  /\ Owed(id) <=> OutcomeOf(id) = "held"
         /\ Owed(id)' <=> OutcomeOf(id)' = "held"
<1>1. /\ escrows[id] \in Escrow
      /\ pendingWithdrawals[id].withdrawn => escrows[id].status = "CLAIMED"
  BY DEF IInv, OwnTypeOK, Lifecycle
<1>2. /\ escrows'[id] \in Escrow
      /\ pendingWithdrawals'[id].withdrawn => escrows'[id].status = "CLAIMED"
  BY DEF IInv, OwnTypeOK, Lifecycle
<1>3. Owed(id) <=> OutcomeOf(id) = "held"
  BY <1>1 DEF Owed, OutcomeOf, Escrow
<1>4. Owed(id)' <=> OutcomeOf(id)' = "held"
  BY <1>2 DEF Owed, OutcomeOf, Escrow
<1> QED BY <1>3, <1>4

LEMMA OneMoveKeepsSolvent ==
  ASSUME IInv, IInv', Solvent, NEW id \in EscrowIds,
         \A other \in EscrowIds \ {id} :
           /\ OutcomeOf(other)' = OutcomeOf(other)
           /\ escrows'[other].amount = escrows[other].amount,
         managerBalance' + (IF Owed(id) THEN escrows[id].amount ELSE 0)
           >= managerBalance + (IF Owed(id)' THEN escrows'[id].amount ELSE 0)
  PROVE  Solvent'
<1> DEFINE f == AmountOf
           g == AmountOf'
           T == {x \in EscrowIds : Owed(x)}
           U == {x \in EscrowIds : Owed(x)'}
<1>1. Natural(f, T) /\ SumOver(f, T) \in Nat
  BY AmountsAreNatural DEF IInv, ValueOf
<1>2. Natural(g, U) /\ SumOver(g, U) \in Nat
  <2>1. OwnTypeOK'
    BY DEF IInv
  <2>2. Natural(g, U)
    BY <2>1 DEF OwnTypeOK, Escrow, Natural, AmountOf
  <2> QED BY <2>2, EscrowSetsAreFinite, SumIsNatural
<1>3. \A x \in EscrowIds : Owed(x)' <=> OutcomeOf(x)' = "held"
  BY OwedIsHeld
<1>4. \A other \in EscrowIds \ {id} : (Owed(other)' <=> Owed(other)) /\ f[other] = g[other]
  BY <1>3, OwedIsHeld DEF AmountOf
<1>5. T \ {id} = U \ {id} /\ \A other \in T \ {id} : f[other] = g[other]
  BY <1>4
<1>6. /\ id \in T <=> Owed(id)
      /\ id \in U <=> Owed(id)'
      /\ f[id] = escrows[id].amount /\ g[id] = escrows'[id].amount
  BY DEF AmountOf
<1>7. managerBalance' + (IF id \in T THEN f[id] ELSE 0)
        >= managerBalance + (IF id \in U THEN g[id] ELSE 0)
  BY <1>6
<1>8. /\ Solvent => managerBalance >= SumOver(f, T)
      /\ Solvent' <=> managerBalance' >= SumOver(g, U)
  BY DEF Solvent, ValueOf
<1>9. IsFiniteSet(T)
  BY EscrowSetsAreFinite
<1>10. managerBalance \in Nat /\ managerBalance' \in Nat
  BY DEF IInv, OwnTypeOK
<1> HIDE DEF f, g, T, U
<1>11. SumOver(g, U) + (IF id \in T THEN f[id] ELSE 0)
         = SumOver(f, T) + (IF id \in U THEN g[id] ELSE 0)
  BY <1>1, <1>2, <1>5, <1>9, SumChange
<1>12. (id \in T => f[id] \in Nat) /\ (id \in U => g[id] \in Nat)
  BY <1>1, <1>2 DEF Natural
<1> QED BY <1>1, <1>2, <1>7, <1>8, <1>10, <1>11, <1>12

LEMMA PromisedStepKeepsSolvent ==
  ASSUME IInv, IInv', Solvent, [Promise!Next]_Promise!vars
  PROVE  Solvent'
<1> DEFINE outcome == [e \in EscrowIds |-> OutcomeOf(e)]
           deposit == [e \in EscrowIds |-> escrows[e].amount]
<1>1. \A e \in EscrowIds : /\ (Owed(e) <=> outcome[e] = "held")
                           /\ (Owed(e)' <=> outcome'[e] = "held")
  <2>1. \A e \in EscrowIds : Owed(e)' <=> OutcomeOf(e)' = "held"
    BY OwedIsHeld
  <2> QED BY <2>1, OwedIsHeld
<1>2. ASSUME NEW e \in EscrowIds,
             \A x \in EscrowIds \ {e} : outcome'[x] = outcome[x]
                                        /\ deposit'[x] = deposit[x],
             managerBalance' + (IF outcome[e] = "held" THEN deposit[e] ELSE 0)
               >= managerBalance + (IF outcome'[e] = "held" THEN deposit'[e] ELSE 0)
      PROVE  Solvent'
  <2>1. \A x \in EscrowIds \ {e} : /\ OutcomeOf(x)' = OutcomeOf(x)
                                   /\ escrows'[x].amount = escrows[x].amount
    BY <1>2
  <2>2. deposit[e] = escrows[e].amount /\ deposit'[e] = escrows'[e].amount
    OBVIOUS
  <2> HIDE DEF outcome, deposit
  <2>3. managerBalance' + (IF Owed(e) THEN escrows[e].amount ELSE 0)
          >= managerBalance + (IF Owed(e)' THEN escrows'[e].amount ELSE 0)
    BY <1>1, <1>2, <2>2
  <2> QED BY <2>1, <2>3, OneMoveKeepsSolvent
<1>3. /\ managerBalance \in Nat /\ managerBalance' \in Nat
      /\ \A e \in EscrowIds : deposit[e] \in Nat
  BY DEF IInv, OwnTypeOK, Escrow
<1>4. ASSUME outcome' = outcome, deposit' = deposit,
             managerBalance' = managerBalance
      PROVE  Solvent'
  <2>1. outcome' = outcome /\ deposit' = deposit /\ managerBalance' = managerBalance
    BY <1>4
  <2>2. \A e \in EscrowIds : /\ OutcomeOf(e)' = OutcomeOf(e)
                             /\ escrows'[e].amount = escrows[e].amount
    <3> SUFFICES ASSUME NEW e \in EscrowIds
                 PROVE  /\ OutcomeOf(e)' = OutcomeOf(e)
                        /\ escrows'[e].amount = escrows[e].amount
      OBVIOUS
    <3>1. outcome[e] = OutcomeOf(e) /\ outcome'[e] = OutcomeOf(e)'
      OBVIOUS
    <3>2. deposit[e] = escrows[e].amount /\ deposit'[e] = escrows'[e].amount
      OBVIOUS
    <3> QED BY <2>1, <3>1, <3>2
  <2>3. {e \in EscrowIds : Owed(e)}' = {e \in EscrowIds : Owed(e)}
    <3>1. \A e \in EscrowIds : Owed(e)' <=> OutcomeOf(e)' = "held"
      BY OwedIsHeld
    <3> QED BY <2>2, <3>1, OwedIsHeld
  <2>4. AmountOf' = AmountOf
    BY <2>2 DEF AmountOf
  <2> QED BY <2>1, <2>3, <2>4 DEF Solvent, ValueOf
<1>5. ASSUME NEW e \in EscrowIds, NEW amount \in RequestValues,
             Promise!Deposit(e, amount)
      PROVE  Solvent'
  <2>1. /\ outcome[e] = "none" /\ managerBalance' = managerBalance + amount
        /\ outcome' = [outcome EXCEPT ![e] = "held"]
        /\ deposit' = [deposit EXCEPT ![e] = amount]
    BY <1>5 DEF Promise!Deposit
  <2>2. /\ \A x \in EscrowIds \ {e} : outcome'[x] = outcome[x]
                                      /\ deposit'[x] = deposit[x]
        /\ outcome'[e] = "held" /\ deposit'[e] = amount
    BY <2>1
  <2>3. amount \in Nat
    BY EscrowConstants
  <2> HIDE DEF outcome, deposit
  <2> QED BY <1>2, <1>3, <2>1, <2>2, <2>3
<1>6. ASSUME NEW e \in EscrowIds, NEW kept \in Nat, NEW to, to # "held",
             outcome[e] = "held", managerBalance' + deposit[e] = managerBalance + kept,
             outcome' = [outcome EXCEPT ![e] = to], deposit' = deposit
      PROVE  Solvent'
  <2>1. /\ \A x \in EscrowIds \ {e} : outcome'[x] = outcome[x]
                                      /\ deposit'[x] = deposit[x]
        /\ outcome'[e] = to
    BY <1>6
  <2> HIDE DEF outcome, deposit
  <2> QED BY <1>2, <1>3, <1>6, <2>1
<1>7. ASSUME NEW e \in EscrowIds, Promise!Pay(e) PROVE Solvent'
  <2> DEFINE fee == FeeMap[deposit[e]]
             kept == IF hasTreasury THEN 0 ELSE fee
  <2>1. /\ outcome[e] = "held" /\ managerBalance' + deposit[e] = managerBalance + kept
        /\ outcome' = [outcome EXCEPT ![e] = "paid"] /\ deposit' = deposit
    BY <1>7 DEF Promise!Pay, FeeMap
  <2>2. OutcomeOf(e) = "held" /\ deposit[e] = escrows[e].amount
    BY <2>1
  <2>3. escrows[e].amount \in RequestValues
    BY <2>2 DEF IInv, Lifecycle, OutcomeOf
  <2>4. FeeOn(escrows[e].amount) \in Nat
    <3>1. escrows[e].amount \in Nat
      BY <2>3, EscrowConstants
    <3>2. FeeOn(escrows[e].amount) \in 0 .. escrows[e].amount
      BY <3>1, FeeIsBounded
    <3> QED BY <3>1, <3>2
  <2>5. fee = FeeOn(escrows[e].amount)
    BY <2>2, <2>3 DEF FeeMap
  <2>6. kept \in Nat
    BY <2>4, <2>5
  <2> HIDE DEF outcome, deposit, kept
  <2> QED BY <1>6, <2>1, <2>6
<1>8. ASSUME NEW e \in EscrowIds, NEW to, to # "held", outcome[e] = "held",
             managerBalance' + deposit[e] = managerBalance,
             outcome' = [outcome EXCEPT ![e] = to], deposit' = deposit
      PROVE  Solvent'
  <2>1. managerBalance' + deposit[e] = managerBalance + 0
    BY <1>3, <1>8
  <2> HIDE DEF outcome, deposit
  <2> QED BY <1>6, <1>8, <2>1
<1>9. ASSUME NEW e \in EscrowIds, Promise!Refund(e) PROVE Solvent'
  <2>1. /\ outcome[e] = "held" /\ managerBalance' + deposit[e] = managerBalance
        /\ outcome' = [outcome EXCEPT ![e] = "refunded"] /\ deposit' = deposit
    BY <1>9 DEF Promise!Refund
  <2> HIDE DEF outcome, deposit
  <2> QED BY <1>8, <2>1
<1>10. ASSUME NEW e \in EscrowIds, NEW share, Promise!Split(e, share)
       PROVE  Solvent'
  <2>1. /\ outcome[e] = "held" /\ managerBalance' + deposit[e] = managerBalance
        /\ outcome' = [outcome EXCEPT ![e] = "split"] /\ deposit' = deposit
    BY <1>10 DEF Promise!Split
  <2> HIDE DEF outcome, deposit
  <2> QED BY <1>8, <2>1
<1>11. ASSUME NEW present, Promise!SetTreasury(present) PROVE Solvent'
  <2>1. outcome' = outcome /\ deposit' = deposit /\ managerBalance' = managerBalance
    BY <1>11 DEF Promise!SetTreasury
  <2> HIDE DEF outcome, deposit
  <2> QED BY <1>4, <2>1
<1>12. CASE UNCHANGED Promise!vars
  BY <1>4, <1>12 DEF Promise!vars
<1> QED BY <1>5, <1>7, <1>9, <1>10, <1>11, <1>12 DEF Promise!Next

(***************************************************************************)
(* The contract can pay everyone it owes, whatever the order of claims,    *)
(* disputes, refunds, withdrawals and resolutions.                         *)
(***************************************************************************)
THEOREM EscrowSolvent ==
  ASSUME ~ReuseIdInBlock
  PROVE  Spec => []Solvent
<1>1. Init => Solvent
  <2> SUFFICES ASSUME Init PROVE Solvent
    OBVIOUS
  <2>1. {id \in EscrowIds : Owed(id)} = {}
    BY DEF Init, EscrowInit, NoEscrowYet, Owed
  <2> QED BY <2>1, SumEmpty DEF Solvent, ValueOf, Init, EscrowInit
<1>2. (IInv /\ Solvent) /\ [Next]_vars => (IInv /\ Solvent)'
  BY StepPreservesIInv, StepIsPromised, PromisedStepKeepsSolvent
<1> QED BY <1>1, <1>2, InitEstablishesIInv, PTL DEF Spec

(***************************************************************************)
(* Neither a transfer nor a checked subtraction can refuse a payout: the   *)
(* contract has the tokens of everyone it owes, and every escrow in flight *)
(* is in totalEscrowed and in the books of the bond registry, whose        *)
(* completeRequest its refund, claim or resolution calls.  What is left to *)
(* refuse one is its status, its time and, for a claim, a pause or a spent *)
(* nonce.                                                                  *)
(***************************************************************************)
PayoutsCovered ==
  \A id \in EscrowIds :
    /\ Owed(id) => escrows[id].amount <= managerBalance
    /\ Owed(id) /\ escrows[id].status = "CLAIMED" => WithdrawalOf(id) <= managerBalance
    /\ InFlight(id) =>
         /\ escrows[id].amount <= totalEscrowed
         /\ Bonds!MayComplete(id.provider, id)
         /\ activeRequests[id].value <= bonds[id.provider].pendingSettlements
         /\ bonds[id.provider].activeRequests > 0

LEMMA BooksCoverPayouts ==
  ASSUME IInv, Solvent, TotalEscrowedIsInFlight
  PROVE  PayoutsCovered
<1> SUFFICES ASSUME NEW id \in EscrowIds
             PROVE
    /\ Owed(id) => escrows[id].amount <= managerBalance
    /\ Owed(id) /\ escrows[id].status = "CLAIMED" => WithdrawalOf(id) <= managerBalance
    /\ InFlight(id) =>
         /\ escrows[id].amount <= totalEscrowed
         /\ Bonds!MayComplete(id.provider, id)
         /\ activeRequests[id].value <= bonds[id.provider].pendingSettlements
         /\ bonds[id.provider].activeRequests > 0
  BY DEF PayoutsCovered
<1>1. /\ escrows[id].amount \in Nat /\ managerBalance \in Nat
      /\ pendingWithdrawals[id] \in PendingWithdrawal
      /\ AmountOf[id] = escrows[id].amount
  BY DEF IInv, OwnTypeOK, Escrow, AmountOf
<1>2. ASSUME NEW ids \in SUBSET EscrowIds, id \in ids
      PROVE  escrows[id].amount <= ValueOf(ids) /\ ValueOf(ids) \in Nat
  <2>1. Natural(AmountOf, ids) /\ IsFiniteSet(ids) /\ ValueOf(ids) \in Nat
    BY AmountsAreNatural, EscrowSetsAreFinite DEF IInv
  <2> QED BY <1>1, <1>2, <2>1, SumAtLeast DEF ValueOf
<1>3. Owed(id) => escrows[id].amount <= managerBalance
  <2> DEFINE owed == {x \in EscrowIds : Owed(x)}
  <2>1. managerBalance >= ValueOf(owed)
    BY DEF Solvent
  <2>2. Owed(id) => id \in owed
    OBVIOUS
  <2> HIDE DEF owed
  <2>3. owed \in SUBSET EscrowIds
    BY DEF owed
  <2> QED BY <1>1, <1>2, <2>1, <2>2, <2>3
<1>4. InFlight(id) => escrows[id].amount <= totalEscrowed
  <2> DEFINE flying == {x \in EscrowIds : InFlight(x)}
  <2>1. totalEscrowed = ValueOf(flying)
    BY DEF TotalEscrowedIsInFlight
  <2>2. InFlight(id) => id \in flying
    OBVIOUS
  <2> HIDE DEF flying
  <2>3. flying \in SUBSET EscrowIds
    BY DEF flying
  <2> QED BY <1>1, <1>2, <2>1, <2>2, <2>3
<1>5. Owed(id) /\ escrows[id].status = "CLAIMED" => WithdrawalOf(id) <= managerBalance
  <2> SUFFICES ASSUME Owed(id), escrows[id].status = "CLAIMED"
               PROVE  WithdrawalOf(id) <= managerBalance
    OBVIOUS
  <2>1. /\ pendingWithdrawals[id].providerPayout + pendingWithdrawals[id].fee
             = escrows[id].amount
        /\ pendingWithdrawals[id].providerPayout \in Nat
        /\ pendingWithdrawals[id].fee \in Nat
    BY <1>1 DEF IInv, Lifecycle, PendingWithdrawal
  <2> QED BY <1>1, <1>3, <2>1 DEF WithdrawalOf, PayoutOf, FeePaid
<1>6. ASSUME InFlight(id)
      PROVE  /\ Bonds!MayComplete(id.provider, id)
             /\ activeRequests[id].value <= bonds[id.provider].pendingSettlements
             /\ bonds[id.provider].activeRequests > 0
  <2>1. activeRequests[id].live /\ activeRequests[id].provider = id.provider
    BY <1>6 DEF IInv, RequestsMirrorEscrows
  <2>2. BP!CompletionCovered
    BY RegistryAssumptions, BP!IInvCoversCompletion DEF IInv
  <2> QED BY <2>1, <2>2 DEF BP!CompletionCovered, Bonds!MayComplete
<1> QED BY <1>3, <1>4, <1>5, <1>6

(***************************************************************************)
(* Whatever a claim, a refund, a withdrawal or a resolution subtracts and  *)
(* transfers is there to be subtracted and transferred.                    *)
(***************************************************************************)
THEOREM PayoutsAreCovered ==
  ASSUME ~ReuseIdInBlock
  PROVE  Spec => []PayoutsCovered
<1>1. IInv /\ TotalEscrowedIsInFlight /\ Solvent => PayoutsCovered
  BY BooksCoverPayouts
<1> QED BY <1>1, BooksAreInvariant, EscrowSolvent, PTL
=============================================================================
