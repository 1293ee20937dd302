----------------------- MODULE X402EscrowManagerProofs -----------------------
(***************************************************************************)
(* The x402 settlement for every set of agents and providers, every amount *)
(* and every parameter, provided no client locks one id twice in one       *)
(* block: what the registries keep by themselves is cited from their own   *)
(* proofs, instantiated here.                                              *)
(***************************************************************************)
EXTENDS X402Refinement, X402Accounting, SetSumsProofs

BP == INSTANCE ProviderBondRegistryProofs
NP == INSTANCE X402NonceRegistryProofs WITH MaxBatch <- 0

(***************************************************************************)
(* What the stages of one escrow leave behind in the four tables.          *)
(***************************************************************************)
Lifecycle(id) ==
  LET escrow  == escrows[id]
      pw      == pendingWithdrawals[id]
      claimed == claimTimestamps[id]
  IN  /\ escrow.status # "NONE" => escrow.amount \in RequestValues
      /\ escrow.status = "LOCKED" => escrow.expiresAt <= now + MAX_VALIDITY
      /\ pw.claimTimestamp = claimed
      /\ claimed <= now
      /\ escrow.status = "CLAIMED" => claimed # 0
      /\ escrow.status \in {"NONE", "LOCKED", "REFUNDED", "RESOLVED"} => claimed = 0
      /\ claimed = 0 => ~pw.withdrawn
      /\ claimed # 0 => /\ pw.fee = FeeOn(escrow.amount)
                        /\ pw.providerPayout + pw.fee = escrow.amount
      /\ disputes[id] = "OPEN" <=> escrow.status = "DISPUTED"
      /\ disputes[id] = "RESOLVED" <=> escrow.status = "RESOLVED"
      /\ pw.withdrawn => /\ escrow.status = "CLAIMED"
                         /\ now > claimed + DISPUTE_WINDOW

OwnTypeOK ==
  /\ escrows \in [EscrowIds -> Escrow]
  /\ disputes \in [EscrowIds -> {"NONE", "OPEN", "RESOLVED"}]
  /\ claimTimestamps \in [EscrowIds -> Nat]
  /\ pendingWithdrawals \in [EscrowIds -> PendingWithdrawal]
  /\ verifiedProofs \subseteq EscrowIds
  /\ totalEscrowed \in Nat
  /\ totalFeesCollected \in Nat
  /\ escrowCount \in Nat
  /\ managerBalance \in Nat
  /\ received \in [Recipients -> Nat]
  /\ hasTreasury \in BOOLEAN
  /\ paused \in BOOLEAN

IInv ==
  /\ now \in 1 .. MaxTime
  /\ BP!IInv
  /\ NP!IInv
  /\ OwnTypeOK
  /\ RequestsMirrorEscrows
  /\ OneSettlementPerNonce
  /\ \A id \in EscrowIds : Lifecycle(id)

-----------------------------------------------------------------------------
(***************************************************************************)
(* The assumptions of the registries' proofs hold here.                    *)
(***************************************************************************)
LEMMA EscrowIdsAreFinite == IsFiniteSet(EscrowIds)
<1> DEFINE Tuples == ((Agents \X Providers) \X (0 .. MaxNonce)) \X Times
           IdOf == [t \in Tuples |-> [agent |-> t[1][1][1], provider |-> t[1][1][2],
                                      nonce |-> t[1][2], createdAt |-> t[2]]]
<1>1. IsFiniteSet(0 .. MaxNonce) /\ IsFiniteSet(Times)
  BY EscrowConstants, FS_Interval DEF Times
<1>2. IsFiniteSet(Tuples)
  BY <1>1, EscrowConstants, FS_Product
<1>3. \A t \in Tuples : IdOf[t] \in EscrowIds
  BY DEF EscrowIds
<1>4. \A id \in EscrowIds : \E t \in Tuples : IdOf[t] = id
  <2> SUFFICES ASSUME NEW id \in EscrowIds PROVE \E t \in Tuples : IdOf[t] = id
    OBVIOUS
  <2>1. <<<<<<id.agent, id.provider>>, id.nonce>>, id.createdAt>> \in Tuples
    BY DEF EscrowIds
  <2>2. IdOf[<<<<<<id.agent, id.provider>>, id.nonce>>, id.createdAt>>] = id
    BY <2>1 DEF EscrowIds
  <2> QED BY <2>1, <2>2
<1>5. IdOf \in Surjection(Tuples, EscrowIds)
  BY <1>3, <1>4 DEF Surjection
<1> QED BY <1>2, <1>5, FS_Surjection

\* Whoever is party to an escrow, and the treasury, may receive tokens.
LEMMA PartiesReceive ==
  ASSUME NEW id \in EscrowIds
  PROVE  {id.agent, id.provider, Treasury} \subseteq Recipients
BY DEF EscrowIds, Recipients

LEMMA TransfersAreTyped ==
  ASSUME OwnTypeOK, NEW a \in Recipients, NEW b \in Recipients,
         NEW x \in Nat, NEW y \in Nat
  PROVE  /\ [received EXCEPT ![a] = @ + x] \in [Recipients -> Nat]
         /\ [received EXCEPT ![a] = @ + x, ![b] = @ + y] \in [Recipients -> Nat]
BY DEF OwnTypeOK

LEMMA RegistryAssumptions ==
  /\ BP!BondConstants
  /\ BP!EscrowIdsFinite
  /\ BP!ProvidersFinite
  /\ NP!NonceConstants
<1>1. BP!BondConstants
  BY EscrowConstants DEF BP!BondConstants
<1>2. BP!EscrowIdsFinite /\ BP!ProvidersFinite
  BY EscrowIdsAreFinite, EscrowConstants
     DEF BP!EscrowIdsFinite, BP!ProvidersFinite, BP!IsFiniteSet, IsFiniteSet
<1>3. NP!NonceConstants
  BY EscrowConstants, NullsAreNoHash DEF NP!NonceConstants
<1> QED BY <1>1, <1>2, <1>3

-----------------------------------------------------------------------------
(***************************************************************************)
(* Calls into the registries keep what the registries' proofs establish.   *)
(***************************************************************************)
LEMMA AcceptKeepsBonds ==
  ASSUME BP!IInv, NEW p \in Providers, NEW id \in EscrowIds,
         NEW value \in RequestValues, ~activeRequests[id].live,
         Bonds!AcceptRequest(p, id, value), UNCHANGED now
  PROVE  BP!IInv'
<1>1. BP!AcceptRequest(p, id, value)
  BY DEF Bonds!AcceptRequest, Bonds!CanAcceptRequest, Bonds!treasuryVars,
         Bonds!adminVars, BP!AcceptRequest, BP!CanAcceptRequest,
         BP!treasuryVars, BP!adminVars
<1>2. BP!EscrowStep(p)
  BY <1>1 DEF BP!EscrowStep
<1> QED BY <1>2, RegistryAssumptions, BP!EscrowStepPreservesIInv

LEMMA CompleteKeepsBonds ==
  ASSUME BP!IInv, NEW p \in Providers, NEW id \in EscrowIds,
         Bonds!CompleteRequest(p, id), UNCHANGED now
  PROVE  BP!IInv'
<1>1. BP!CompleteRequest(p, id)
  BY DEF Bonds!CompleteRequest, Bonds!MayComplete, Bonds!Earn, Bonds!NoRequest,
         Bonds!treasuryVars, Bonds!adminVars,
         BP!CompleteRequest, BP!MayComplete, BP!Earn, BP!NoRequest,
         BP!treasuryVars, BP!adminVars
<1>2. BP!EscrowStep(p)
  BY <1>1 DEF BP!EscrowStep
<1> QED BY <1>2, RegistryAssumptions, BP!EscrowStepPreservesIInv

LEMMA ProvidersKeepBonds ==
  ASSUME BP!IInv, NEW p \in Providers,
         Bonds!ProviderStep(p) \/ Bonds!OverseerStep(p), UNCHANGED now
  PROVE  BP!IInv' /\ UNCHANGED activeRequests
<1> USE DEF Bonds!WithinDeposits, Bonds!RegisterProvider,
        Bonds!IncreaseBond, Bonds!RequestWithdrawal, Bonds!UpdateMaxRequestValue,
        Bonds!CancelWithdrawal, Bonds!ExecuteWithdrawal, Bonds!Withdrawable, Bonds!Deactivate,
        Bonds!Reactivate, Bonds!SlashProvider, Bonds!LockHardwareCollateral,
        Bonds!UnlockHardwareCollateral, Bonds!Deposit, Bonds!NewBond,
        Bonds!RemainderAcceptable, Bonds!InsuranceShare, Bonds!treasuryVars,
        Bonds!adminVars,
        BP!WithinDeposits, BP!RegisterProvider,
        BP!IncreaseBond, BP!RequestWithdrawal, BP!UpdateMaxRequestValue,
        BP!CancelWithdrawal, BP!ExecuteWithdrawal, BP!Withdrawable, BP!Deactivate,
        BP!Reactivate, BP!SlashProvider, BP!LockHardwareCollateral,
        BP!UnlockHardwareCollateral, BP!Deposit, BP!NewBond,
        BP!RemainderAcceptable, BP!InsuranceShare, BP!treasuryVars,
        BP!adminVars
<1>1. CASE Bonds!ProviderStep(p)
  <2>1. BP!ProviderStep(p)
    BY <1>1, ZenonT(60) DEF Bonds!ProviderStep, BP!ProviderStep
  <2>2. UNCHANGED activeRequests
    BY <1>1 DEF Bonds!ProviderStep
  <2> QED BY <2>1, <2>2, RegistryAssumptions, BP!ProviderStepPreservesIInv
<1>2. CASE Bonds!OverseerStep(p)
  <2>1. BP!OverseerStep(p)
    BY <1>2, ZenonT(60) DEF Bonds!OverseerStep, BP!OverseerStep
  <2>2. UNCHANGED activeRequests
    BY <1>2 DEF Bonds!OverseerStep
  <2> QED BY <2>1, <2>2, RegistryAssumptions, BP!OverseerStepPreservesIInv
<1> QED BY <1>1, <1>2

(***************************************************************************)
(* The bond registry's invariant reads nothing but its own variables.      *)
(***************************************************************************)
LEMMA OthersKeepBonds ==
  ASSUME BP!IInv, UNCHANGED <<bonds, activeRequests, totalBonded, totalSlashed,
                              registryBalance>>,
         now' \in Nat, hasInsuranceFund' \in BOOLEAN, bondPaused' \in BOOLEAN
  PROVE  BP!IInv'
BY RegistryAssumptions, BP!UntouchedKeepsIInv

\* What a step may do to the nonces: a spent one stays as it is.
NoncesOnlySpent ==
  \A a \in Agents, n \in 0 .. MaxNonce :
    nonces[a][n].used => nonces'[a][n] = nonces[a][n]

LEMMA ConsumeKeepsNonces ==
  ASSUME NP!IInv, NEW s, NEW a \in Agents, NEW n \in 0 .. MaxNonce,
         NEW r \in Receipts, NEW id \in EscrowIds \cup {NoEscrow},
         NonceRegistry!ConsumeNonce(s, a, n, r, id)
  PROVE  /\ NP!IInv'
         /\ NoncesOnlySpent
         /\ ~nonces[a][n].used
         /\ nonces'[a][n].used
         /\ nonces'[a][n].escrowId = id
<1>1. NP!ConsumeNonce(s, a, n, r, id)
  BY DEF NonceRegistry!ConsumeNonce, NonceRegistry!MaySettle,
         NonceRegistry!IsNonceValid, NonceRegistry!Consumed,
         NP!ConsumeNonce, NP!MaySettle, NP!IsNonceValid, NP!Consumed
<1>2. n \in NP!Nonces
  BY DEF NP!Nonces
<1>3. NP!IInv'
  BY <1>1, <1>2, RegistryAssumptions, NP!ConsumeNoncePreservesIInv
<1>4. nonces \in [Agents -> [0 .. MaxNonce -> NP!NonceInfo]]
  BY DEF NP!IInv, NP!TypeOK, NP!Nonces
<1>5. /\ ~nonces[a][n].used
      /\ nonces' = [nonces EXCEPT ![a][n] =
                      [used |-> TRUE, receiptHash |-> r, escrowId |-> id]]
  BY DEF NonceRegistry!ConsumeNonce, NonceRegistry!IsNonceValid,
         NonceRegistry!Consumed
<1>6. NoncesOnlySpent
  BY <1>4, <1>5 DEF NoncesOnlySpent
<1>7. nonces'[a][n] = [used |-> TRUE, receiptHash |-> r, escrowId |-> id]
  BY <1>4, <1>5
<1> QED BY <1>3, <1>5, <1>6, <1>7

LEMMA AdminsKeepNonces ==
  ASSUME NP!IInv, NonceAdminStep
  PROVE  NP!IInv' /\ UNCHANGED nonces
<1>1. NP!AdminStep
  BY DEF NonceAdminStep, Settlers,
         NonceRegistry!AuthorizeSettler, NonceRegistry!DeauthorizeSettler,
         NonceRegistry!PauseNonces, NonceRegistry!UnpauseNonces,
         NonceRegistry!consumedVars,
         NP!AdminStep, NP!AuthorizeSettler, NP!DeauthorizeSettler,
         NP!PauseNonces, NP!UnpauseNonces, NP!consumedVars
<1>2. NP!IInv'
  BY <1>1, RegistryAssumptions, NP!StepPreservesIInv DEF NP!Next
<1> QED BY <1>2
        DEF NonceAdminStep, NonceRegistry!AuthorizeSettler,
            NonceRegistry!DeauthorizeSettler, NonceRegistry!PauseNonces,
            NonceRegistry!UnpauseNonces, NonceRegistry!consumedVars

LEMMA OthersKeepNonces ==
  ASSUME NP!IInv, UNCHANGED nonceVars
  PROVE  NP!IInv' /\ NoncesOnlySpent
<1>1. NP!IInv'
  BY RegistryAssumptions, NP!StepPreservesIInv DEF nonceVars, NP!nonceVars
<1> QED BY <1>1 DEF nonceVars, NoncesOnlySpent

-----------------------------------------------------------------------------
(***************************************************************************)
(* The three parts of the invariant that are about one escrow.             *)
(***************************************************************************)
Mirrored(id) ==
  /\ activeRequests[id].live <=> InFlight(id)
  /\ InFlight(id) => /\ activeRequests[id].provider = id.provider
                     /\ activeRequests[id].value = escrows[id].amount

Settled(id) ==
  claimTimestamps[id] # 0
    => /\ nonces[id.agent][id.nonce].used
       /\ nonces[id.agent][id.nonce].escrowId = id

Untouched(id) ==
  /\ escrows'[id] = escrows[id]
  /\ disputes'[id] = disputes[id]
  /\ claimTimestamps'[id] = claimTimestamps[id]
  /\ pendingWithdrawals'[id] = pendingWithdrawals[id]
  /\ activeRequests'[id] = activeRequests[id]

\* What every step does to the clock and the registries.
RegistriesKept ==
  /\ now' \in 1 .. MaxTime /\ now' >= now
  /\ BP!IInv'
  /\ NP!IInv'
  /\ NoncesOnlySpent

LEMMA UntouchedEscrows ==
  ASSUME IInv, RegistriesKept, NEW id \in EscrowIds, Untouched(id)
  PROVE  Lifecycle(id)' /\ Mirrored(id)' /\ Settled(id)'
<1>1. /\ now \in Nat /\ now' \in Nat /\ now' >= now
      /\ escrows[id] \in Escrow /\ claimTimestamps[id] \in Nat
      /\ MAX_VALIDITY \in Nat /\ DISPUTE_WINDOW \in Nat
  BY EscrowConstants DEF IInv, OwnTypeOK, RegistriesKept
<1>2. Lifecycle(id)'
  BY <1>1 DEF IInv, Untouched, Lifecycle, Escrow
<1>3. Mirrored(id)'
  BY DEF IInv, Untouched, Mirrored, RequestsMirrorEscrows, InFlight
<1>4. Settled(id)'
  <2>1. id.agent \in Agents /\ id.nonce \in 0 .. MaxNonce
    BY DEF EscrowIds
  <2> QED BY <2>1 DEF IInv, Untouched, Settled, OneSettlementPerNonce,
                      RegistriesKept, NoncesOnlySpent
<1> QED BY <1>2, <1>3, <1>4

(***************************************************************************)
(* A step that touches one escrow keeps the invariant if it does for it.   *)
(***************************************************************************)
LEMMA OneEscrowTouched ==
  ASSUME IInv, RegistriesKept, OwnTypeOK', NEW id \in EscrowIds,
         \A other \in EscrowIds \ {id} : Untouched(other),
         Lifecycle(id)', Mirrored(id)', Settled(id)'
  PROVE  IInv'
<1>1. \A other \in EscrowIds :
        Lifecycle(other)' /\ Mirrored(other)' /\ Settled(other)'
  BY UntouchedEscrows
<1>2. RequestsMirrorEscrows' /\ OneSettlementPerNonce'
  BY <1>1 DEF RequestsMirrorEscrows, OneSettlementPerNonce, Mirrored, Settled
<1> QED BY <1>1, <1>2 DEF IInv, RegistriesKept

LEMMA NoEscrowTouched ==
  ASSUME IInv, RegistriesKept, OwnTypeOK',
         \A id \in EscrowIds : Untouched(id)
  PROVE  IInv'
<1>1. \A id \in EscrowIds : Lifecycle(id)' /\ Mirrored(id)' /\ Settled(id)'
  BY UntouchedEscrows
<1>2. RequestsMirrorEscrows' /\ OneSettlementPerNonce'
  BY <1>1 DEF RequestsMirrorEscrows, OneSettlementPerNonce, Mirrored, Settled
<1> QED BY <1>1, <1>2 DEF IInv, RegistriesKept

LEMMA FeeIsBounded ==
  ASSUME NEW amount \in Nat
  PROVE  FeeOn(amount) \in 0 .. amount
<1>1. amount * SETTLEMENT_FEE_BPS <= amount * BPS_DENOMINATOR
  BY EscrowConstants
<1>2. /\ amount * SETTLEMENT_FEE_BPS \in Nat
      /\ BPS_DENOMINATOR \in Nat \ {0}
  BY EscrowConstants
<1>3. \A x \in Nat : x <= amount * BPS_DENOMINATOR => x \div BPS_DENOMINATOR \in 0 .. amount
  BY <1>2
<1> QED BY <1>1, <1>2, <1>3 DEF FeeOn

LEMMA InitEstablishesIInv == Init => IInv
<1> SUFFICES ASSUME Init PROVE IInv
  OBVIOUS
<1>1. now = 1 /\ now \in 1 .. MaxTime
  BY EscrowConstants DEF Init, Bonds!Init
<1>2. BP!IInv
  <2>1. BP!Init
    BY DEF Init, Bonds!Init, Bonds!BondInit, Bonds!NoBond, Bonds!NewBond,
           Bonds!NoRequest, BP!Init, BP!BondInit, BP!NoBond, BP!NewBond,
           BP!NoRequest
  <2> QED BY <2>1, RegistryAssumptions, BP!InitEstablishesIInv
<1>3. NP!IInv
  <2>1. NP!Init
    BY DEF Init, NonceRegistry!Init, NonceRegistry!NonceInit,
           NonceRegistry!Unused, NonceRegistry!Nonces,
           NP!Init, NP!NonceInit, NP!Unused, NP!Nonces
  <2> QED BY <2>1, RegistryAssumptions, NP!InitEstablishesIInv
<1>4. OwnTypeOK
  <2>1. NoEscrowYet \in Escrow
    BY DEF NoEscrowYet, Escrow, Hashlocks
  <2>2. NoWithdrawal \in PendingWithdrawal
    BY DEF NoWithdrawal, PendingWithdrawal
  <2> QED BY <2>1, <2>2 DEF Init, EscrowInit, OwnTypeOK
<1>5. \A id \in EscrowIds : Lifecycle(id) /\ Mirrored(id) /\ Settled(id)
  BY <1>1 DEF Init, EscrowInit, Lifecycle, Mirrored, Settled, InFlight,
              NoEscrowYet, NoWithdrawal, Bonds!Init, Bonds!BondInit,
              Bonds!NoRequest
<1> QED BY <1>1, <1>2, <1>3, <1>4, <1>5
        DEF IInv, RequestsMirrorEscrows, OneSettlementPerNonce, Mirrored, Settled

-----------------------------------------------------------------------------
(***************************************************************************)
(* The agent's calls.  A lock is of an id nobody locked before.            *)
(***************************************************************************)
LEMMA LockKeepsIInv ==
  ASSUME IInv, NEW a \in Agents, NEW p \in Providers,
         NEW amount \in RequestValues, NEW n \in 0 .. MaxNonce,
         NEW validFor \in MIN_VALIDITY .. MAX_VALIDITY, NEW hashlock \in Hashlocks,
         escrows[IdFor(a, p, n)].status = "NONE",
         LockEscrow(a, p, amount, n, validFor, hashlock)
  PROVE  IInv'
<1>a. PICK id \in EscrowIds : id = IdFor(a, p, n)
  BY EscrowConstants DEF IdFor, EscrowIds, IInv, Times
<1>1. id.agent = a /\ id.provider = p /\ id.nonce = n
  BY <1>a DEF IdFor
<1>2. /\ amount \in Nat /\ validFor \in Nat /\ validFor <= MAX_VALIDITY
      /\ now \in Nat /\ MAX_VALIDITY \in Nat
  BY EscrowConstants DEF IInv
<1>3. /\ Lifecycle(id) /\ Mirrored(id) /\ Settled(id)
      /\ escrows[id].status = "NONE"
  BY <1>a DEF IInv, RequestsMirrorEscrows, OneSettlementPerNonce, Mirrored, Settled
<1>4. /\ ~nonces[a][n].used
      /\ escrows' = [escrows EXCEPT ![id] =
                       [status |-> "LOCKED", amount |-> amount,
                        expiresAt |-> now + validFor, hashlock |-> hashlock]]
      /\ Bonds!AcceptRequest(p, id, amount)
      /\ managerBalance' = managerBalance + amount
      /\ totalEscrowed' = totalEscrowed + amount
      /\ escrowCount' = escrowCount + 1
      /\ UNCHANGED <<now, nonceVars, disputes, claimVars, verifiedProofs,
                     received, managerAdminVars>>
  BY <1>a, Zenon DEF LockEscrow, NonceRegistry!IsNonceValid
<1>5. claimTimestamps[id] = 0 /\ ~InFlight(id) /\ ~activeRequests[id].live
  BY <1>3 DEF Lifecycle, Mirrored, InFlight
<1>6. RegistriesKept
  BY <1>1, <1>4, <1>5, AcceptKeepsBonds, OthersKeepNonces DEF IInv, RegistriesKept
<1>7. activeRequests' = [activeRequests EXCEPT
                           ![id] = [live |-> TRUE, provider |-> p, value |-> amount]]
  BY <1>4 DEF Bonds!AcceptRequest
<1>8. activeRequests'[id] = [live |-> TRUE, provider |-> p, value |-> amount]
  BY <1>1, <1>7 DEF IInv, BP!IInv, BP!Shape, BP!TypeOK
<1>9. OwnTypeOK'
  BY <1>1, <1>2, <1>4 DEF IInv, OwnTypeOK, Escrow, claimVars, managerAdminVars
<1>10. escrows'[id] = [status |-> "LOCKED", amount |-> amount,
                       expiresAt |-> now + validFor, hashlock |-> hashlock]
  BY <1>1, <1>4 DEF IInv, OwnTypeOK
<1>11. \A other \in EscrowIds \ {id} : Untouched(other)
  BY <1>1, <1>4, <1>7 DEF Untouched, claimVars, IInv, OwnTypeOK, BP!IInv, BP!Shape, BP!TypeOK
<1>12. Lifecycle(id)'
  BY <1>2, <1>3, <1>4, <1>5, <1>10 DEF Lifecycle, claimVars
<1>13. Mirrored(id)'
  BY <1>1, <1>8, <1>10 DEF Mirrored, InFlight
<1>14. Settled(id)'
  BY <1>4, <1>5 DEF Settled, claimVars
<1> QED BY <1>1, <1>6, <1>9, <1>11, <1>12, <1>13, <1>14, OneEscrowTouched

LEMMA RefundKeepsIInv ==
  ASSUME IInv, NEW id \in EscrowIds, RefundExpiredEscrow(id)
  PROVE  IInv'
<1>1. /\ id.provider \in Providers
      /\ escrows[id] \in Escrow
      /\ Lifecycle(id) /\ Mirrored(id) /\ Settled(id)
  BY DEF IInv, OwnTypeOK, EscrowIds, RequestsMirrorEscrows,
         OneSettlementPerNonce, Mirrored, Settled
<1>2. /\ escrows[id].status = "LOCKED"
      /\ totalEscrowed >= escrows[id].amount
      /\ managerBalance >= escrows[id].amount
      /\ escrows' = [escrows EXCEPT ![id].status = "REFUNDED"]
      /\ totalEscrowed' = totalEscrowed - escrows[id].amount
      /\ Bonds!CompleteRequest(id.provider, id)
      /\ managerBalance' = managerBalance - escrows[id].amount
      /\ received' = [received EXCEPT ![id.agent] = @ + escrows[id].amount]
      /\ UNCHANGED <<now, nonceVars, disputes, claimVars, verifiedProofs,
                     escrowCount, managerAdminVars>>
  BY DEF RefundExpiredEscrow, Release
<1>3. RegistriesKept
  BY <1>1, <1>2, CompleteKeepsBonds, OthersKeepNonces DEF IInv, RegistriesKept
<1>4. /\ activeRequests' = [activeRequests EXCEPT ![id] = Bonds!NoRequest]
      /\ ~activeRequests'[id].live
  BY <1>2 DEF Bonds!CompleteRequest, Bonds!MayComplete, Bonds!NoRequest, IInv, BP!IInv, BP!Shape, BP!TypeOK
<1>5. OwnTypeOK'
  <2>1. received' \in [Recipients -> Nat]
    BY <1>1, <1>2, PartiesReceive, TransfersAreTyped DEF IInv, Escrow
  <2> QED BY <1>1, <1>2, <2>1 DEF IInv, OwnTypeOK, Escrow, claimVars, managerAdminVars
<1>6. /\ escrows'[id].status = "REFUNDED"
      /\ escrows'[id].amount = escrows[id].amount
  BY <1>1, <1>2 DEF IInv, OwnTypeOK, Escrow
<1>7. \A other \in EscrowIds \ {id} : Untouched(other)
  BY <1>2, <1>4 DEF Untouched, claimVars, IInv, OwnTypeOK, BP!IInv, BP!Shape, BP!TypeOK
<1>8. Lifecycle(id)'
  BY <1>1, <1>2, <1>6 DEF Lifecycle, claimVars
<1>9. Mirrored(id)'
  BY <1>4, <1>6 DEF Mirrored, InFlight
<1>10. Settled(id)'
  BY <1>1, <1>2, <1>6 DEF Settled, Lifecycle, claimVars
<1> QED BY <1>3, <1>5, <1>7, <1>8, <1>9, <1>10, OneEscrowTouched

(***************************************************************************)
(* extendEscrow's cap: the new expiry is between the old one and the cap.  *)
(***************************************************************************)
LEMMA ExtensionIsForward ==
  ASSUME IInv, NEW id \in EscrowIds, NEW additional \in Nat,
         escrows[id].status = "LOCKED"
  PROVE  /\ ExtendedExpiry(id, additional) \in Nat
         /\ ExtendedExpiry(id, additional) >= escrows[id].expiresAt
         /\ ExtendedExpiry(id, additional) <= now + MAX_VALIDITY
<1>1. /\ escrows[id].expiresAt \in Nat /\ now \in Nat /\ MAX_VALIDITY \in Nat
      /\ escrows[id].expiresAt <= now + MAX_VALIDITY
  BY EscrowConstants DEF IInv, OwnTypeOK, Escrow, Lifecycle
<1> QED BY <1>1 DEF ExtendedExpiry

LEMMA ExtendKeepsIInv ==
  ASSUME IInv, NEW id \in EscrowIds, NEW additional \in Nat,
         ExtendEscrow(id, additional)
  PROVE  IInv'
<1>1. escrows[id] \in Escrow /\ Lifecycle(id) /\ Mirrored(id) /\ Settled(id)
  BY DEF IInv, OwnTypeOK, RequestsMirrorEscrows, OneSettlementPerNonce,
         Mirrored, Settled
<1> DEFINE expiry == ExtendedExpiry(id, additional)
<1>2. /\ escrows[id].status = "LOCKED"
      /\ escrows' = [escrows EXCEPT ![id].expiresAt = expiry]
      /\ UNCHANGED <<now, bondVars, nonceVars, disputes, claimVars,
                     verifiedProofs, totalEscrowed, escrowCount,
                     managerBalance, received, managerAdminVars>>
  BY DEF ExtendEscrow
<1>3. expiry \in Nat /\ expiry <= now + MAX_VALIDITY
  BY <1>2, ExtensionIsForward
<1> HIDE DEF expiry
<1>4. RegistriesKept
  BY <1>2, OthersKeepBonds, OthersKeepNonces
     DEF IInv, RegistriesKept, bondVars, BP!IInv, BP!Shape, BP!TypeOK
<1>5. OwnTypeOK'
  BY <1>1, <1>2, <1>3 DEF IInv, OwnTypeOK, Escrow, claimVars, managerAdminVars
<1>6. escrows'[id] = [escrows[id] EXCEPT !.expiresAt = expiry]
  BY <1>2 DEF IInv, OwnTypeOK
<1>7. \A other \in EscrowIds \ {id} : Untouched(other)
  BY <1>2 DEF Untouched, claimVars, bondVars, IInv, OwnTypeOK
<1>8. Lifecycle(id)'
  BY <1>1, <1>2, <1>3, <1>6 DEF Lifecycle, claimVars, Escrow
<1>9. Mirrored(id)' /\ Settled(id)'
  BY <1>1, <1>2, <1>6
     DEF Mirrored, Settled, InFlight, claimVars, bondVars, nonceVars, Escrow
<1> QED BY <1>4, <1>5, <1>7, <1>8, <1>9, OneEscrowTouched

-----------------------------------------------------------------------------
(***************************************************************************)
(* The provider's calls and disputes.                                      *)
(***************************************************************************)
LEMMA ClaimKeepsIInv ==
  ASSUME IInv, NEW id \in EscrowIds, NEW preimage, ClaimEscrow(id, preimage)
  PROVE  IInv'
<1> DEFINE amount == escrows[id].amount
           fee == FeeOn(escrows[id].amount)
           receipt == ReceiptFor(Manager, id.agent, id.nonce, amount, id.provider)
<1>1. /\ id.provider \in Providers /\ id.agent \in Agents
      /\ id.nonce \in 0 .. MaxNonce
      /\ escrows[id] \in Escrow
      /\ Lifecycle(id) /\ Mirrored(id)
      /\ now \in Nat /\ now # 0 /\ now \in Times
  <2>1. /\ id.provider \in Providers /\ id.agent \in Agents
        /\ id.nonce \in 0 .. MaxNonce
    BY DEF EscrowIds
  <2>2. now \in Nat /\ now # 0 /\ now \in Times
    BY EscrowConstants DEF IInv, Times
  <2> QED BY <2>1, <2>2 DEF IInv, OwnTypeOK, RequestsMirrorEscrows, Mirrored
<1>2. /\ escrows[id].status = "LOCKED"
      /\ totalEscrowed >= escrows[id].amount
      /\ escrows' = [escrows EXCEPT ![id].status = "CLAIMED"]
      /\ claimTimestamps' = [claimTimestamps EXCEPT ![id] = now]
      /\ totalEscrowed' = totalEscrowed - amount
      /\ totalFeesCollected' = totalFeesCollected + fee
      /\ pendingWithdrawals' = [pendingWithdrawals EXCEPT ![id] =
                                  [providerPayout |-> amount - fee,
                                   fee |-> fee, claimTimestamp |-> now,
                                   withdrawn |-> FALSE]]
      /\ NonceRegistry!ConsumeNonce(Manager, id.agent, id.nonce, receipt, id)
      /\ Bonds!CompleteRequest(id.provider, id)
      /\ UNCHANGED <<now, disputes, verifiedProofs, escrowCount,
                     managerBalance, received, managerAdminVars>>
  BY Zenon DEF ClaimEscrow, Release
<1>3. amount \in RequestValues /\ amount \in Nat
  BY <1>1, <1>2, EscrowConstants DEF Lifecycle
<1>4. fee \in 0 .. amount
  BY <1>3, FeeIsBounded
<1>5. receipt \in Receipts
  BY <1>1, <1>3 DEF ReceiptFor, Receipts, Settlers
<1>0. fee = FeeOn(amount)
  OBVIOUS
<1> HIDE DEF amount, fee, receipt
<1>6. /\ NP!IInv' /\ NoncesOnlySpent
      /\ nonces'[id.agent][id.nonce].used
      /\ nonces'[id.agent][id.nonce].escrowId = id
  BY <1>1, <1>2, <1>5, ConsumeKeepsNonces DEF IInv
<1>7. RegistriesKept
  BY <1>1, <1>2, <1>6, CompleteKeepsBonds DEF IInv, RegistriesKept
<1>8. /\ activeRequests' = [activeRequests EXCEPT ![id] = Bonds!NoRequest]
      /\ ~activeRequests'[id].live
  BY <1>2 DEF Bonds!CompleteRequest, Bonds!MayComplete, Bonds!NoRequest, IInv, BP!IInv, BP!Shape, BP!TypeOK
<1>9. OwnTypeOK'
  <2>1. escrows' \in [EscrowIds -> Escrow]
    BY <1>1, <1>2 DEF IInv, OwnTypeOK, Escrow
  <2>2. pendingWithdrawals' \in [EscrowIds -> PendingWithdrawal]
    BY <1>1, <1>2, <1>3, <1>4 DEF IInv, OwnTypeOK, PendingWithdrawal
  <2>3. /\ totalEscrowed' \in Nat /\ totalFeesCollected' \in Nat
        /\ claimTimestamps' \in [EscrowIds -> Nat]
    BY <1>1, <1>2, <1>3, <1>4 DEF IInv, OwnTypeOK, amount
  <2> QED BY <2>1, <2>2, <2>3, <1>2 DEF IInv, OwnTypeOK, managerAdminVars
<1>10. /\ escrows'[id].status = "CLAIMED" /\ escrows'[id].amount = amount
       /\ claimTimestamps'[id] = now
       /\ pendingWithdrawals'[id] =
            [providerPayout |-> amount - fee, fee |-> fee,
             claimTimestamp |-> now, withdrawn |-> FALSE]
  BY <1>1, <1>2 DEF IInv, OwnTypeOK, Escrow, amount
<1>11. \A other \in EscrowIds \ {id} : Untouched(other)
  BY <1>2, <1>8 DEF Untouched, IInv, OwnTypeOK, BP!IInv, BP!Shape, BP!TypeOK
<1>12. Lifecycle(id)'
  BY <1>0, <1>1, <1>2, <1>3, <1>4, <1>10 DEF Lifecycle
<1>13. Mirrored(id)'
  BY <1>8, <1>10 DEF Mirrored, InFlight
<1>14. Settled(id)'
  BY <1>6 DEF Settled
<1> QED BY <1>7, <1>9, <1>11, <1>12, <1>13, <1>14, OneEscrowTouched

\* Without a treasury only the payout leaves.
LEMMA WithdrawKeepsIInv ==
  ASSUME IInv, NEW id \in EscrowIds, WithdrawClaimed(id)
  PROVE  IInv'
<1> DEFINE pw == pendingWithdrawals[id]
           fee == IF hasTreasury THEN pw.fee ELSE 0
           out == pw.providerPayout + fee
<1>1. /\ escrows[id] \in Escrow /\ pw \in PendingWithdrawal
      /\ Lifecycle(id) /\ Mirrored(id) /\ Settled(id)
      /\ now \in Nat /\ DISPUTE_WINDOW \in Nat
  BY EscrowConstants DEF IInv, OwnTypeOK, RequestsMirrorEscrows,
     OneSettlementPerNonce, Mirrored, Settled
<1>2. /\ escrows[id].status = "CLAIMED"
      /\ now > pw.claimTimestamp + DISPUTE_WINDOW
      /\ managerBalance >= out
      /\ pendingWithdrawals' = [pendingWithdrawals EXCEPT ![id].withdrawn = TRUE]
      /\ managerBalance' = managerBalance - out
      /\ received' = [received EXCEPT ![Treasury] = @ + fee,
                                      ![id.provider] = @ + pw.providerPayout]
      /\ UNCHANGED <<now, bondVars, nonceVars, escrows, disputes,
                     claimTimestamps, totalFeesCollected, verifiedProofs,
                     totalEscrowed, escrowCount, managerAdminVars>>
  BY DEF WithdrawClaimed, WithdrawalOf, PayoutOf, FeePaid
<1>3. out \in Nat /\ fee \in Nat /\ pw.providerPayout \in Nat
  BY <1>1 DEF PendingWithdrawal
<1>4. RegistriesKept
  BY <1>1, <1>2, OthersKeepBonds, OthersKeepNonces
     DEF IInv, RegistriesKept, bondVars, BP!IInv, BP!Shape, BP!TypeOK
<1>5. OwnTypeOK'
  <2>1. pendingWithdrawals' \in [EscrowIds -> PendingWithdrawal]
    BY <1>1, <1>2 DEF IInv, OwnTypeOK, PendingWithdrawal
  <2>2. managerBalance' \in Nat
    BY <1>2, <1>3 DEF IInv, OwnTypeOK
  <2>3. received' \in [Recipients -> Nat]
    <3>1. Treasury \in Recipients /\ id.provider \in Recipients
      BY PartiesReceive
    <3>2. received' = [received EXCEPT ![Treasury] = @ + fee,
                                       ![id.provider] = @ + pw.providerPayout]
      BY <1>2
    <3> HIDE DEF fee, pw
    <3> QED BY <1>3, <3>1, <3>2, TransfersAreTyped DEF IInv
  <2> QED BY <2>1, <2>2, <2>3, <1>2 DEF IInv, OwnTypeOK, managerAdminVars
<1>6. pendingWithdrawals'[id] = [pw EXCEPT !.withdrawn = TRUE]
  BY <1>2 DEF IInv, OwnTypeOK
<1>7. \A other \in EscrowIds \ {id} : Untouched(other)
  BY <1>2 DEF Untouched, bondVars, IInv, OwnTypeOK
<1>8. Lifecycle(id)'
  BY <1>1, <1>2, <1>6 DEF Lifecycle, PendingWithdrawal
<1>9. Mirrored(id)' /\ Settled(id)'
  BY <1>1, <1>2 DEF Mirrored, Settled, InFlight, bondVars, nonceVars
<1> QED BY <1>4, <1>5, <1>7, <1>8, <1>9, OneEscrowTouched

LEMMA DisputeKeepsIInv ==
  ASSUME IInv, NEW id \in EscrowIds, DisputeEscrow(id)
  PROVE  IInv' /\ ~pendingWithdrawals[id].withdrawn
<1>1. /\ escrows[id] \in Escrow /\ claimTimestamps[id] \in Nat
      /\ Lifecycle(id) /\ Mirrored(id) /\ Settled(id)
      /\ now \in Nat /\ DISPUTE_WINDOW \in Nat
  BY EscrowConstants DEF IInv, OwnTypeOK, RequestsMirrorEscrows,
     OneSettlementPerNonce, Mirrored, Settled
<1>2. /\ \/ escrows[id].status = "LOCKED"
         \/ /\ escrows[id].status = "CLAIMED"
            /\ now <= claimTimestamps[id] + DISPUTE_WINDOW
      /\ disputes' = [disputes EXCEPT ![id] = "OPEN"]
      /\ escrows' = [escrows EXCEPT ![id].status = "DISPUTED"]
      /\ UNCHANGED <<now, bondVars, nonceVars, claimVars, verifiedProofs,
                     totalEscrowed, escrowCount, managerBalance,
                     received, managerAdminVars>>
  BY DEF DisputeEscrow, Disputable
<1>3. RegistriesKept
  BY <1>1, <1>2, OthersKeepBonds, OthersKeepNonces
     DEF IInv, RegistriesKept, bondVars, BP!IInv, BP!Shape, BP!TypeOK
<1>4. OwnTypeOK'
  BY <1>1, <1>2 DEF IInv, OwnTypeOK, Escrow, claimVars, managerAdminVars
<1>5. /\ escrows'[id] = [escrows[id] EXCEPT !.status = "DISPUTED"]
      /\ disputes'[id] = "OPEN"
  BY <1>2 DEF IInv, OwnTypeOK
<1>6. \A other \in EscrowIds \ {id} : Untouched(other)
  BY <1>2 DEF Untouched, bondVars, claimVars, IInv, OwnTypeOK
<1>7. ~pendingWithdrawals[id].withdrawn
  BY <1>1, <1>2 DEF Lifecycle
<1>8. Lifecycle(id)'
  BY <1>1, <1>2, <1>5, <1>7 DEF Lifecycle, Escrow, claimVars
<1>9. Mirrored(id)' /\ Settled(id)'
  BY <1>1, <1>2, <1>5
     DEF Mirrored, Settled, InFlight, Lifecycle, Escrow, bondVars, nonceVars,
         claimVars
<1> QED BY <1>3, <1>4, <1>6, <1>7, <1>8, <1>9, OneEscrowTouched

LEMMA SharesAreNatural ==
  ASSUME IInv, NEW id \in EscrowIds, NEW share \in 0 .. escrows[id].amount
  PROVE  share \in Nat /\ escrows[id].amount - share \in Nat
<1>1. escrows[id].amount \in Nat
  BY DEF IInv, OwnTypeOK, Escrow
<1> QED BY <1>1

\* The request of a claimed escrow is gone, so its dispute has no resolution.
LEMMA ResolveKeepsIInv ==
  ASSUME IInv, NEW id \in EscrowIds, NEW agentRefund \in Nat, NEW providerPayout \in Nat,
         ResolveDispute(id, agentRefund, providerPayout)
  PROVE  IInv' /\ ~pendingWithdrawals[id].withdrawn
<1>1. /\ id.provider \in Providers
      /\ escrows[id] \in Escrow
      /\ Lifecycle(id) /\ Mirrored(id) /\ Settled(id)
  BY DEF IInv, OwnTypeOK, EscrowIds, RequestsMirrorEscrows,
         OneSettlementPerNonce, Mirrored, Settled
<1>2. /\ escrows[id].status = "DISPUTED"
      /\ totalEscrowed >= escrows[id].amount
      /\ managerBalance >= escrows[id].amount
      /\ disputes' = [disputes EXCEPT ![id] = "RESOLVED"]
      /\ escrows' = [escrows EXCEPT ![id].status = "RESOLVED"]
      /\ totalEscrowed' = totalEscrowed - escrows[id].amount
      /\ Bonds!CompleteRequest(id.provider, id)
      /\ managerBalance' = managerBalance - escrows[id].amount
      /\ received' = [received EXCEPT ![id.agent] = @ + agentRefund,
                                      ![id.provider] = @ + providerPayout]
      /\ UNCHANGED <<now, nonceVars, claimVars, verifiedProofs, escrowCount,
                     managerAdminVars>>
  BY DEF ResolveDispute, Release
<1>3. RegistriesKept
  BY <1>1, <1>2, CompleteKeepsBonds, OthersKeepNonces DEF IInv, RegistriesKept
<1>4. /\ activeRequests[id].live
      /\ activeRequests' = [activeRequests EXCEPT ![id] = Bonds!NoRequest]
      /\ ~activeRequests'[id].live
  BY <1>2 DEF Bonds!CompleteRequest, Bonds!MayComplete, Bonds!NoRequest, IInv, BP!IInv, BP!Shape, BP!TypeOK
<1>5. claimTimestamps[id] = 0
  BY <1>1, <1>2, <1>4 DEF Mirrored, InFlight
<1>6. OwnTypeOK'
  <2>1. received' \in [Recipients -> Nat]
    BY <1>2, PartiesReceive, TransfersAreTyped DEF IInv
  <2> QED BY <1>1, <1>2, <2>1 DEF IInv, OwnTypeOK, Escrow, claimVars, managerAdminVars
<1>7. /\ escrows'[id] = [escrows[id] EXCEPT !.status = "RESOLVED"]
      /\ disputes'[id] = "RESOLVED"
  BY <1>2 DEF IInv, OwnTypeOK
<1>8. \A other \in EscrowIds \ {id} : Untouched(other)
  BY <1>2, <1>4 DEF Untouched, claimVars, IInv, OwnTypeOK, BP!IInv, BP!Shape, BP!TypeOK
<1>9. Lifecycle(id)'
  BY <1>1, <1>2, <1>5, <1>7 DEF Lifecycle, claimVars, Escrow
<1>10. Mirrored(id)'
  BY <1>4, <1>7 DEF Mirrored, InFlight, Escrow
<1>11. Settled(id)'
  BY <1>2, <1>5 DEF Settled, claimVars
<1>12. ~pendingWithdrawals[id].withdrawn
  BY <1>1, <1>5 DEF Lifecycle
<1> QED BY <1>3, <1>6, <1>8, <1>9, <1>10, <1>11, <1>12, OneEscrowTouched

-----------------------------------------------------------------------------
(***************************************************************************)
(* Steps that touch no escrow.                                             *)
(***************************************************************************)
LEMMA OtherContractsKeepIInv ==
  ASSUME IInv, BondStep \/ OtherSettlement \/ NonceAdminStep \/ BondAdminStep
  PROVE  IInv' /\ UNCHANGED <<now, escrowVars>>
<1>1. UNCHANGED <<now, escrowVars>>
  BY DEF BondStep, OtherSettlement, NonceAdminStep, BondAdminStep
<1>2. now' \in 1 .. MaxTime /\ now' >= now
  BY <1>1 DEF IInv
<1>3. OwnTypeOK'
  BY <1>1 DEF escrowVars, IInv, OwnTypeOK
<1>4. ASSUME BP!IInv', NP!IInv', NoncesOnlySpent, UNCHANGED activeRequests
      PROVE  IInv'
  <2>1. \A id \in EscrowIds : Untouched(id)
    BY <1>1, <1>4 DEF Untouched, escrowVars
  <2> QED BY <1>2, <1>3, <1>4, <2>1, NoEscrowTouched DEF RegistriesKept
<1>5. CASE BondStep
  <2>1. NP!IInv' /\ NoncesOnlySpent
    BY <1>5, OthersKeepNonces DEF BondStep, IInv
  <2>2. BP!IInv' /\ UNCHANGED activeRequests
    BY <1>5, ProvidersKeepBonds DEF BondStep, IInv
  <2> QED BY <1>1, <1>4, <2>1, <2>2
<1>6. CASE OtherSettlement
  <2>1. PICK a \in Agents, n \in 0 .. MaxNonce, amount \in RequestValues,
             p \in Providers :
               NonceRegistry!ConsumeNonce(OtherSettler, a, n,
                 ReceiptFor(OtherSettler, a, n, amount, p), NoEscrow)
    BY <1>6 DEF OtherSettlement
  <2>2. ReceiptFor(OtherSettler, a, n, amount, p) \in Receipts
    BY DEF ReceiptFor, Receipts, Settlers, IInv, Times
  <2>3. NP!IInv' /\ NoncesOnlySpent
    BY <2>1, <2>2, ConsumeKeepsNonces DEF IInv
  <2>4. BP!IInv' /\ UNCHANGED activeRequests
    BY <1>1, <1>6, OthersKeepBonds
       DEF OtherSettlement, bondVars, IInv, BP!IInv, BP!Shape, BP!TypeOK
  <2> QED BY <1>1, <1>4, <2>3, <2>4
<1>7. CASE NonceAdminStep
  <2>1. NP!IInv' /\ NoncesOnlySpent
    BY <1>7, AdminsKeepNonces DEF IInv, NoncesOnlySpent
  <2>2. BP!IInv' /\ UNCHANGED activeRequests
    BY <1>1, <1>7, OthersKeepBonds
       DEF NonceAdminStep, bondVars, IInv, BP!IInv, BP!Shape, BP!TypeOK
  <2> QED BY <1>1, <1>4, <2>1, <2>2
<1>8. CASE BondAdminStep
  <2>1. NP!IInv' /\ NoncesOnlySpent
    BY <1>8, OthersKeepNonces DEF BondAdminStep, IInv
  <2>2. /\ UNCHANGED <<bonds, activeRequests, totalBonded, totalSlashed,
                       registryBalance>>
        /\ hasInsuranceFund' \in BOOLEAN /\ bondPaused' \in BOOLEAN
    BY <1>8 DEF BondAdminStep, Bonds!SetInsuranceFund, Bonds!Pause,
                Bonds!Unpause, Bonds!requestVars, Bonds!treasuryVars,
                IInv, BP!IInv, BP!Shape, BP!TypeOK
  <2>3. BP!IInv'
    BY <1>1, <2>2, OthersKeepBonds DEF IInv
  <2> QED BY <1>1, <1>4, <2>1, <2>2, <2>3
<1> QED BY <1>5, <1>6, <1>7, <1>8

LEMMA ManagerAndClockKeepIInv ==
  ASSUME IInv,
         \/ \E id \in EscrowIds : ApproveServiceProof(id)
         \/ ManagerAdminStep
         \/ Tick
         \/ UNCHANGED vars
  PROVE  /\ IInv'
         /\ UNCHANGED <<escrows, disputes, pendingWithdrawals, managerBalance,
                        received>>
<1>1. /\ UNCHANGED <<bondVars, nonceVars, escrows, disputes, claimVars,
                     totalEscrowed, escrowCount, managerBalance, received>>
      /\ now' \in 1 .. MaxTime /\ now' >= now
  <2>1. CASE \E id \in EscrowIds : ApproveServiceProof(id)
    BY <2>1 DEF ApproveServiceProof, IInv
  <2>2. CASE ManagerAdminStep
    BY <2>2 DEF ManagerAdminStep, SetTreasury, SetPaused, IInv
  <2>3. CASE Tick
    BY <2>3, EscrowConstants DEF Tick, Bonds!Tick, escrowVars, claimVars, IInv
  <2>4. CASE UNCHANGED vars
    BY <2>4 DEF vars, escrowVars, claimVars, IInv
  <2> QED BY <2>1, <2>2, <2>3, <2>4
<1>2. OwnTypeOK'
  <2>1. /\ verifiedProofs' \subseteq EscrowIds
        /\ hasTreasury' \in BOOLEAN /\ paused' \in BOOLEAN
    BY DEF ApproveServiceProof, ManagerAdminStep, SetTreasury, SetPaused, Tick,
           vars, escrowVars, managerAdminVars, IInv, OwnTypeOK
  <2> QED BY <1>1, <2>1 DEF IInv, OwnTypeOK, claimVars
<1>3. RegistriesKept
  BY <1>1, OthersKeepBonds, OthersKeepNonces
     DEF IInv, RegistriesKept, bondVars, BP!IInv, BP!Shape, BP!TypeOK
<1>4. \A id \in EscrowIds : Untouched(id)
  BY <1>1 DEF Untouched, bondVars, claimVars
<1> QED BY <1>1, <1>2, <1>3, <1>4, NoEscrowTouched DEF claimVars

-----------------------------------------------------------------------------
(***************************************************************************)
(* Every step keeps the invariant.                                         *)
(***************************************************************************)
LEMMA StepPreservesIInv ==
  ASSUME ~ReuseIdInBlock, IInv, [Next]_vars
  PROVE  IInv'
<1>1. ASSUME NEW a \in Agents, AgentStep(a) PROVE IInv'
  BY <1>1, LockKeepsIInv, RefundKeepsIInv, ExtendKeepsIInv, EscrowConstants
     DEF AgentStep
<1>2. ASSUME NEW id \in EscrowIds, PartyStep(id) PROVE IInv'
  <2>1. ASSUME NEW share \in 0 .. escrows[id].amount,
               ResolveDispute(id, share, escrows[id].amount - share)
        PROVE  IInv'
    BY <2>1, SharesAreNatural, ResolveKeepsIInv
  <2> QED BY <1>2, <2>1, ManagerAndClockKeepIInv, ClaimKeepsIInv,
             WithdrawKeepsIInv, DisputeKeepsIInv DEF PartyStep
<1>3. CASE BondStep \/ OtherSettlement \/ NonceAdminStep \/ BondAdminStep
  BY <1>3, OtherContractsKeepIInv
<1>4. CASE ManagerAdminStep \/ Tick \/ UNCHANGED vars
  BY <1>4, ManagerAndClockKeepIInv
<1> QED BY <1>1, <1>2, <1>3, <1>4 DEF Next

THEOREM EscrowIInvIsInvariant ==
  ASSUME ~ReuseIdInBlock
  PROVE  Spec => []IInv
<1>1. IInv /\ [Next]_vars => IInv'
  BY StepPreservesIInv
<1> QED BY <1>1, InitEstablishesIInv, PTL DEF Spec

(***************************************************************************)
(* The state of the three contracts is well typed: no checked subtraction  *)
(* of one of them goes below zero.                                         *)
(***************************************************************************)
THEOREM EscrowTypeCorrect ==
  ASSUME ~ReuseIdInBlock
  PROVE  Spec => []TypeOK
<1>1. IInv => TypeOK
  <2> SUFFICES ASSUME IInv PROVE TypeOK
    OBVIOUS
  <2>1. Bonds!TypeOK
    BY DEF IInv, BP!IInv, BP!Shape, BP!TypeOK, BP!Bond, BP!Request, BP!NoRequest,
           Bonds!TypeOK, Bonds!Bond, Bonds!Request, Bonds!NoRequest
  <2>2. NonceRegistry!TypeOK
    BY DEF IInv, NP!IInv, NP!TypeOK, NP!NonceInfo, NP!Nonces,
           NonceRegistry!TypeOK, NonceRegistry!NonceInfo, NonceRegistry!Nonces
  <2> QED BY <2>1, <2>2 DEF IInv, OwnTypeOK, TypeOK
<1> QED BY <1>1, EscrowIInvIsInvariant, PTL

(***************************************************************************)
(* A nonce settles at most one escrow, for any number of agents, escrows   *)
(* that share it and contracts that consume it.                            *)
(***************************************************************************)
THEOREM NonceSettlesOnce ==
  ASSUME ~ReuseIdInBlock
  PROVE  Spec => []OneSettlementPerNonce
<1>1. IInv => OneSettlementPerNonce
  BY DEF IInv
<1> QED BY <1>1, EscrowIInvIsInvariant, PTL

(***************************************************************************)
(* The bond registry and the escrow manager agree on what is in flight.    *)
(***************************************************************************)
THEOREM RequestsMirror ==
  ASSUME ~ReuseIdInBlock
  PROVE  Spec => []RequestsMirrorEscrows
<1>1. IInv => RequestsMirrorEscrows
  BY DEF IInv
<1> QED BY <1>1, EscrowIInvIsInvariant, PTL

(***************************************************************************)
(* What the provider withdrew cannot be disputed or paid again.            *)
(***************************************************************************)
THEOREM WithdrawalIsFinal ==
  ASSUME ~ReuseIdInBlock
  PROVE  Spec => []WithdrawnIsFinal
<1>1. IInv => WithdrawnIsFinal
  BY DEF IInv, OwnTypeOK, Lifecycle, WithdrawnIsFinal
<1> QED BY <1>1, EscrowIInvIsInvariant, PTL

(***************************************************************************)
(* extendEscrow never takes back the time a provider was promised.         *)
(***************************************************************************)
THEOREM ExpiryOnlyExtends ==
  ASSUME ~ReuseIdInBlock
  PROVE  Spec => ExtendNeverShortens
<1>1. ASSUME IInv, [Next]_vars, escrowCount' = escrowCount, NEW id \in EscrowIds
      PROVE  escrows'[id].expiresAt >= escrows[id].expiresAt
  <2>1. /\ escrows \in [EscrowIds -> Escrow]
        /\ escrows[id].expiresAt \in Nat /\ escrowCount \in Nat
    <3>1. escrows \in [EscrowIds -> Escrow] /\ escrowCount \in Nat
      BY <1>1 DEF IInv, OwnTypeOK
    <3>2. escrows[id] \in Escrow
      BY <3>1
    <3> QED BY <3>1, <3>2 DEF Escrow
  <2>2. ASSUME escrows'[id].expiresAt = escrows[id].expiresAt
        PROVE  escrows'[id].expiresAt >= escrows[id].expiresAt
    BY <2>1, <2>2
  <2>3. ASSUME NEW a \in Agents, AgentStep(a)
        PROVE  escrows'[id].expiresAt >= escrows[id].expiresAt
    <3>1. ASSUME NEW p, NEW amount, NEW n, NEW validFor, NEW hashlock,
                 LockEscrow(a, p, amount, n, validFor, hashlock)
          PROVE  FALSE
      BY <1>1, <2>1, <3>1 DEF LockEscrow
    <3>2. ASSUME NEW x \in EscrowIds, RefundExpiredEscrow(x)
          PROVE  escrows'[id].expiresAt = escrows[id].expiresAt
      BY <2>1, <3>2 DEF RefundExpiredEscrow, Escrow
    <3>3. ASSUME NEW x \in EscrowIds, NEW additional \in 0 .. MAX_VALIDITY,
                 ExtendEscrow(x, additional)
          PROVE  escrows'[id].expiresAt >= escrows[id].expiresAt
      <4>1. /\ escrows[x].status = "LOCKED"
            /\ escrows' = [escrows EXCEPT
                             ![x].expiresAt = ExtendedExpiry(x, additional)]
        BY <3>3 DEF ExtendEscrow
      <4>2. ExtendedExpiry(x, additional) >= escrows[x].expiresAt
        BY <1>1, <4>1, EscrowConstants, ExtensionIsForward
      <4>3. CASE x = id
        BY <2>1, <4>1, <4>2, <4>3 DEF Escrow
      <4>4. CASE x # id
        BY <2>1, <4>1, <4>4
      <4> QED BY <4>3, <4>4
    <3> QED BY <2>2, <2>3, <3>1, <3>2, <3>3 DEF AgentStep
  <2>4. ASSUME NEW x \in EscrowIds, PartyStep(x)
        PROVE  escrows'[id].expiresAt = escrows[id].expiresAt
    BY <2>1, <2>4 DEF PartyStep, ApproveServiceProof, ClaimEscrow,
       WithdrawClaimed, DisputeEscrow, ResolveDispute, Escrow
  <2>5. CASE BondStep \/ OtherSettlement \/ NonceAdminStep \/ BondAdminStep
    BY <1>1, <2>2, <2>5, OtherContractsKeepIInv DEF escrowVars
  <2>6. CASE ManagerAdminStep \/ Tick \/ UNCHANGED vars
    BY <1>1, <2>2, <2>6, ManagerAndClockKeepIInv
  <2> QED BY <1>1, <2>2, <2>3, <2>4, <2>5, <2>6 DEF Next
<1>2. IInv /\ [Next]_vars =>
        [escrowCount' = escrowCount =>
           \A id \in EscrowIds : escrows'[id].expiresAt >= escrows[id].expiresAt]_vars
  BY <1>1
<1> QED BY <1>2, EscrowIInvIsInvariant, PTL DEF Spec, ExtendNeverShortens

-----------------------------------------------------------------------------
(***************************************************************************)
(* The books of the contract: how each step changes the value in flight.   *)
(***************************************************************************)
OthersStand(id) ==
  \A other \in EscrowIds \ {id} :
    /\ escrows'[other] = escrows[other]
    /\ claimTimestamps'[other] = claimTimestamps[other]

\* totalEscrowed follows what the step does to the one escrow it touches.
FlightStep(id) ==
  /\ OthersStand(id)
  /\ totalEscrowed' + (IF InFlight(id) THEN escrows[id].amount ELSE 0)
       = totalEscrowed + (IF InFlight(id)' THEN escrows'[id].amount ELSE 0)

LEMMA EscrowSetsAreFinite ==
  ASSUME NEW ids \in SUBSET EscrowIds
  PROVE  IsFiniteSet(ids)
BY EscrowIdsAreFinite, FS_Subset

LEMMA AmountsAreNatural ==
  ASSUME OwnTypeOK, NEW ids \in SUBSET EscrowIds
  PROVE  Natural(AmountOf, ids) /\ ValueOf(ids) \in Nat
<1>1. Natural(AmountOf, ids)
  BY DEF OwnTypeOK, Escrow, Natural, AmountOf
<1> QED BY <1>1, EscrowSetsAreFinite, SumIsNatural DEF ValueOf

LEMMA FlightStepKeepsTotal ==
  ASSUME IInv, IInv', NEW id \in EscrowIds, TotalEscrowedIsInFlight, FlightStep(id)
  PROVE  TotalEscrowedIsInFlight'
<1> DEFINE f == AmountOf
           g == AmountOf'
           T == {x \in EscrowIds : InFlight(x)}
           U == {x \in EscrowIds : InFlight(x)'}
<1>1. Natural(f, T) /\ SumOver(f, T) \in Nat
  BY AmountsAreNatural DEF IInv, ValueOf
<1>2. Natural(g, U) /\ SumOver(g, U) \in Nat
  <2>1. OwnTypeOK'
    BY DEF IInv
  <2>2. Natural(g, U)
    BY <2>1 DEF OwnTypeOK, Escrow, Natural, AmountOf
  <2> QED BY <2>2, EscrowSetsAreFinite, SumIsNatural
<1>3. \A other \in EscrowIds \ {id} : /\ InFlight(other)' <=> InFlight(other)
                                      /\ g[other] = f[other]
  BY DEF FlightStep, OthersStand, InFlight, AmountOf
<1>4. /\ f[id] = escrows[id].amount /\ g[id] = escrows'[id].amount
      /\ id \in T <=> InFlight(id)
      /\ id \in U <=> InFlight(id)'
  BY DEF AmountOf
<1>5. T \ {id} = U \ {id} /\ \A other \in T \ {id} : f[other] = g[other]
  BY <1>3
<1>6. totalEscrowed = SumOver(f, T)
  BY DEF TotalEscrowedIsInFlight, ValueOf
<1>7. TotalEscrowedIsInFlight' <=> totalEscrowed' = SumOver(g, U)
  BY DEF TotalEscrowedIsInFlight, ValueOf
<1>8. IsFiniteSet(T)
  BY EscrowSetsAreFinite
<1>9. totalEscrowed' \in Nat
  BY DEF IInv, OwnTypeOK
<1>10. totalEscrowed' + (IF id \in T THEN f[id] ELSE 0)
         = SumOver(f, T) + (IF id \in U THEN g[id] ELSE 0)
  BY <1>4, <1>6 DEF FlightStep
<1> HIDE DEF f, g, T, U
<1>11. SumOver(g, U) + (IF id \in T THEN f[id] ELSE 0)
         = SumOver(f, T) + (IF id \in U THEN g[id] ELSE 0)
  BY <1>1, <1>2, <1>5, <1>8, SumChange
<1>12. (id \in T => f[id] \in Nat) /\ (id \in U => g[id] \in Nat)
  BY <1>1, <1>2 DEF Natural
<1> QED BY <1>1, <1>2, <1>7, <1>9, <1>10, <1>11, <1>12

LEMMA LockIsFlightStep ==
  ASSUME IInv, NEW a \in Agents, NEW p \in Providers,
         NEW amount \in RequestValues, NEW n \in 0 .. MaxNonce,
         NEW validFor, NEW hashlock, escrows[IdFor(a, p, n)].status = "NONE",
         LockEscrow(a, p, amount, n, validFor, hashlock)
  PROVE  \E id \in EscrowIds : FlightStep(id)
<1>1. PICK id \in EscrowIds : id = IdFor(a, p, n)
  BY EscrowConstants DEF IdFor, EscrowIds, IInv, Times
<1>2. /\ escrows' = [escrows EXCEPT ![id] =
                       [status |-> "LOCKED", amount |-> amount,
                        expiresAt |-> now + validFor, hashlock |-> hashlock]]
      /\ totalEscrowed' = totalEscrowed + amount
      /\ UNCHANGED claimTimestamps
  BY <1>1 DEF LockEscrow, claimVars
<1>3. escrows \in [EscrowIds -> Escrow] /\ escrows[id].status = "NONE"
  BY <1>1 DEF IInv, OwnTypeOK
<1>4. totalEscrowed \in Nat /\ amount \in Nat
  BY EscrowConstants DEF IInv, OwnTypeOK
<1>5. OthersStand(id)
  BY <1>2, <1>3 DEF OthersStand
<1>6. escrows'[id].status = "LOCKED" /\ escrows'[id].amount = amount
  BY <1>2, <1>3
<1>7. ~InFlight(id) /\ InFlight(id)'
  BY <1>3, <1>6 DEF InFlight
<1> QED BY <1>2, <1>4, <1>5, <1>6, <1>7 DEF FlightStep

\* Refund, claim and resolution end a flight.
LEMMA ReleaseIsFlightStep ==
  ASSUME IInv, NEW id \in EscrowIds,
         \/ RefundExpiredEscrow(id)
         \/ \E preimage \in Preimages : ClaimEscrow(id, preimage)
         \/ \E agentRefund, providerPayout :
              ResolveDispute(id, agentRefund, providerPayout)
  PROVE  InFlight(id) /\ FlightStep(id)
<1>1. PICK status \in {"REFUNDED", "CLAIMED", "RESOLVED"} :
             escrows' = [escrows EXCEPT ![id].status = status]
  BY SMTT(40) DEF RefundExpiredEscrow, ClaimEscrow, ResolveDispute
<1>2. /\ totalEscrowed >= escrows[id].amount
      /\ totalEscrowed' = totalEscrowed - escrows[id].amount
      /\ activeRequests[id].live
  BY DEF RefundExpiredEscrow, ClaimEscrow, ResolveDispute, Release,
         Bonds!CompleteRequest, Bonds!MayComplete
<1>3. /\ escrows \in [EscrowIds -> Escrow] /\ escrows[id].amount \in Nat
      /\ claimTimestamps \in [EscrowIds -> Nat]
      /\ totalEscrowed \in Nat
  BY DEF IInv, OwnTypeOK, Escrow
<1>4. \A other \in EscrowIds \ {id} : claimTimestamps'[other] = claimTimestamps[other]
  BY <1>3 DEF RefundExpiredEscrow, ClaimEscrow, ResolveDispute, claimVars
<1>5. OthersStand(id)
  BY <1>1, <1>3, <1>4 DEF OthersStand
<1>6. InFlight(id)
  BY <1>2 DEF IInv, RequestsMirrorEscrows
<1>7. escrows'[id].status = status
  BY <1>1, <1>3 DEF Escrow
<1>8. ~InFlight(id)'
  BY <1>1, <1>7 DEF InFlight
<1> QED BY <1>2, <1>3, <1>5, <1>6, <1>8 DEF FlightStep

\* A dispute keeps the escrow in flight, or on the ground if it was claimed.
LEMMA DisputeIsFlightStep ==
  ASSUME IInv, NEW id \in EscrowIds,
         \/ DisputeEscrow(id)
         \/ \E additional \in 0 .. MAX_VALIDITY : ExtendEscrow(id, additional)
  PROVE  FlightStep(id)
<1>1. /\ UNCHANGED <<claimTimestamps, totalEscrowed>>
      /\ \/ /\ escrows' = [escrows EXCEPT ![id].status = "DISPUTED"]
            /\ escrows[id].status \in {"LOCKED", "CLAIMED"}
         \/ /\ \E expiry : escrows' = [escrows EXCEPT ![id].expiresAt = expiry]
            /\ escrows[id].status = "LOCKED"
  BY DEF DisputeEscrow, Disputable, ExtendEscrow, claimVars
<1>2. /\ escrows \in [EscrowIds -> Escrow] /\ escrows[id] \in Escrow
      /\ Lifecycle(id) /\ totalEscrowed \in Nat
  BY DEF IInv, OwnTypeOK
<1>3. OthersStand(id)
  BY <1>1, <1>2 DEF OthersStand
<1>4. escrows'[id].amount = escrows[id].amount
  BY <1>1, <1>2 DEF Escrow
<1>5. InFlight(id)' <=> InFlight(id)
  <2>1. CASE escrows' = [escrows EXCEPT ![id].status = "DISPUTED"]
    <3>1. escrows'[id].status = "DISPUTED"
      BY <1>2, <2>1 DEF Escrow
    <3>2. escrows[id].status = "LOCKED" <=> claimTimestamps[id] = 0
      BY <1>1, <1>2, <2>1 DEF Lifecycle, Escrow
    <3>3. escrows[id].status # "DISPUTED"
      BY <1>1
    <3> QED BY <1>1, <3>1, <3>2, <3>3 DEF InFlight
  <2>2. CASE \E expiry : escrows' = [escrows EXCEPT ![id].expiresAt = expiry]
    <3>1. escrows'[id].status = escrows[id].status
      BY <1>2, <2>2 DEF Escrow
    <3> QED BY <1>1, <3>1 DEF InFlight
  <2> QED BY <1>1, <2>1, <2>2
<1> QED BY <1>1, <1>2, <1>3, <1>4, <1>5 DEF FlightStep

(***************************************************************************)
(* Every step keeps totalEscrowed the value in flight.                     *)
(***************************************************************************)
LEMMA StepKeepsTotal ==
  ASSUME ~ReuseIdInBlock, IInv, TotalEscrowedIsInFlight, [Next]_vars
  PROVE  TotalEscrowedIsInFlight'
<1>1. IInv'
  BY StepPreservesIInv
<1>2. ASSUME UNCHANGED <<escrows, claimTimestamps, totalEscrowed>>
      PROVE  TotalEscrowedIsInFlight'
  <2>1. ValueOf({id \in EscrowIds : InFlight(id)})'
          = ValueOf({id \in EscrowIds : InFlight(id)})
    BY <1>2 DEF ValueOf, AmountOf, InFlight
  <2> QED BY <1>2, <2>1 DEF TotalEscrowedIsInFlight
<1>3. ASSUME NEW a \in Agents, AgentStep(a) PROVE TotalEscrowedIsInFlight'
  <2>1. \E id \in EscrowIds : FlightStep(id)
    BY <1>3, LockIsFlightStep, ReleaseIsFlightStep, DisputeIsFlightStep DEF AgentStep
  <2> QED BY <1>1, <2>1, FlightStepKeepsTotal
<1>4. ASSUME NEW id \in EscrowIds, PartyStep(id) PROVE TotalEscrowedIsInFlight'
  <2>1. CASE ApproveServiceProof(id) \/ WithdrawClaimed(id)
    BY <1>2, <2>1 DEF ApproveServiceProof, WithdrawClaimed, claimVars
  <2>2. CASE ~(ApproveServiceProof(id) \/ WithdrawClaimed(id))
    <3>1. FlightStep(id)
      BY <1>4, <2>2, ReleaseIsFlightStep, DisputeIsFlightStep DEF PartyStep
    <3> QED BY <1>1, <3>1, FlightStepKeepsTotal
  <2> QED BY <2>1, <2>2
<1>5. CASE BondStep \/ OtherSettlement \/ NonceAdminStep \/ BondAdminStep
  BY <1>2, <1>5, OtherContractsKeepIInv DEF escrowVars
<1>6. CASE ManagerAdminStep \/ Tick \/ UNCHANGED vars
  BY <1>2, <1>6 DEF ManagerAdminStep, SetTreasury, SetPaused, Tick, vars,
                    escrowVars, claimVars
<1> QED BY <1>3, <1>4, <1>5, <1>6 DEF Next

LEMMA NothingIsInFlightAtFirst == Init => TotalEscrowedIsInFlight
<1> SUFFICES ASSUME Init PROVE TotalEscrowedIsInFlight
  OBVIOUS
<1>1. {id \in EscrowIds : InFlight(id)} = {}
  BY DEF Init, EscrowInit, NoEscrowYet, InFlight
<1> QED BY <1>1, SumEmpty DEF TotalEscrowedIsInFlight, ValueOf, Init, EscrowInit

LEMMA BooksAreInvariant ==
  ASSUME ~ReuseIdInBlock
  PROVE  Spec => [](IInv /\ TotalEscrowedIsInFlight)
<1>1. IInv /\ TotalEscrowedIsInFlight /\ [Next]_vars => (IInv /\ TotalEscrowedIsInFlight)'
  BY StepPreservesIInv, StepKeepsTotal
<1> QED BY <1>1, InitEstablishesIInv, NothingIsInFlightAtFirst, PTL DEF Spec

(***************************************************************************)
(* totalEscrowed is the value of the escrows in flight, through claims,    *)
(* refunds, disputes and resolutions in any order.                         *)
(***************************************************************************)
THEOREM TotalEscrowed ==
  ASSUME ~ReuseIdInBlock
  PROVE  Spec => []TotalEscrowedIsInFlight
<1> QED BY BooksAreInvariant, PTL

-----------------------------------------------------------------------------
(***************************************************************************)
(* The registry's sums, taken over its requests, are the sums over the     *)
(* escrows in flight.                                                      *)
(***************************************************************************)
LEMMA IInvMatchesBonds == IInv => BondMatchesEscrows
<1> SUFFICES ASSUME IInv, NEW p \in Providers
             PROVE  LET mine == {id \in EscrowIds : id.provider = p /\ InFlight(id)}
                    IN  /\ bonds[p].pendingSettlements = ValueOf(mine)
                        /\ bonds[p].activeRequests = Cardinality(mine)
                        /\ bonds[p].pendingSettlements
                             <= bonds[p].bondedAmount + bonds[p].totalSlashed
  BY DEF BondMatchesEscrows
<1> DEFINE mine == {id \in EscrowIds : id.provider = p /\ InFlight(id)}
           f == [id \in mine |-> activeRequests[id].value]
<1>1. BP!RequestsOf(p) = mine
  BY DEF BP!RequestsOf, IInv, RequestsMirrorEscrows
<1>2. /\ bonds[p].pendingSettlements = BP!ValueRequested(p)
      /\ bonds[p].activeRequests = BP!Cardinality(BP!RequestsOf(p))
      /\ bonds[p].pendingSettlements <= bonds[p].bondedAmount + bonds[p].totalSlashed
  BY DEF IInv, BP!IInv, BP!Accounts, BP!PendingMatchesRequests, BP!RequestsStayCovered
<1>3. BP!Cardinality(BP!RequestsOf(p)) = Cardinality(mine)
  BY <1>1 DEF BP!Cardinality, Cardinality
<1>4. BP!ValueRequested(p) = SumOver(f, mine)
  BY <1>1 DEF BP!ValueRequested, BP!SumOver, SumOver, BP!MapThenSumSet,
              MapThenSumSet, BP!MapThenFoldSet, MapThenFoldSet
<1>5. SumOver(f, mine) = ValueOf(mine)
  <2>1. \A id \in mine : AmountOf[id] = f[id]
    BY DEF IInv, RequestsMirrorEscrows, AmountOf
  <2>2. Natural(AmountOf, mine) /\ IsFiniteSet(mine)
    BY AmountsAreNatural, EscrowSetsAreFinite DEF IInv
  <2> HIDE DEF f, mine
  <2> QED BY <2>1, <2>2, SumSame DEF ValueOf
<1> QED BY <1>2, <1>3, <1>4, <1>5

(***************************************************************************)
(* The bond registry accounts for the escrows in flight and they stay      *)
(* within the bond, for any number of providers and escrows.               *)
(***************************************************************************)
THEOREM BondsMatchEscrows ==
  ASSUME ~ReuseIdInBlock
  PROVE  Spec => []BondMatchesEscrows
<1> QED BY IInvMatchesBonds, EscrowIInvIsInvariant, PTL
=============================================================================
