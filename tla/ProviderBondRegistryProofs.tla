---------------------- MODULE ProviderBondRegistryProofs ----------------------
(***************************************************************************)
(* ProviderBondRegistry for every set of providers and every amount: its   *)
(* type invariant, that its totals are the sums of the bonds and of the    *)
(* live requests, and that no bond leaves before its delay nor from under  *)
(* a request.  First the shape of the tables, then the books on them.      *)
(***************************************************************************)
EXTENDS ProviderBondAccounting, SetSumsProofs

\* activeRequests of a bond counts its live requests.
RequestsCounted ==
  \A p \in Providers : bonds[p].activeRequests = Cardinality(RequestsOf(p))

\* A provider that never registered has nothing in the registry.
UnregisteredIsEmpty ==
  \A p \in Providers : bonds[p].registered \/ bonds[p] = NoBond

\* What each table looks like by itself.
Shape == TypeOK /\ RequestsCounted /\ UnregisteredIsEmpty

\* A call that touches the bond of one registered provider, and no request.
TouchesOneBond(p) ==
  /\ bonds' = [bonds EXCEPT ![p] = bonds'[p]]
  /\ bonds'[p] \in Bond
  /\ bonds'[p].registered
  /\ bonds'[p].activeRequests = bonds[p].activeRequests
  /\ UNCHANGED activeRequests

(***************************************************************************)
(* slashProvider never sends the insurance fund more than was slashed.     *)
(***************************************************************************)
LEMMA InsuranceShareBounded ==
  ASSUME NEW amount \in Nat
  PROVE  InsuranceShare(amount) \in 0 .. amount
<1>1. amount * SLASH_TO_INSURANCE_BPS <= amount * BPS_DENOMINATOR
  BY BondConstants
<1>2. /\ amount * SLASH_TO_INSURANCE_BPS \in Nat
      /\ BPS_DENOMINATOR \in Nat \ {0}
  BY BondConstants
<1>3. \A x \in Nat : x <= amount * BPS_DENOMINATOR => x \div BPS_DENOMINATOR \in 0 .. amount
  BY <1>2
<1> QED BY <1>1, <1>2, <1>3 DEF InsuranceShare

(***************************************************************************)
(* A provider that never registered has no bond, no request, no withdrawal.*)
(***************************************************************************)
LEMMA NoBondIsEmpty ==
  /\ NoBond \in Bond
  /\ ~NoBond.registered
  /\ NoBond.bondedAmount = 0 /\ NoBond.totalSlashed = 0
  /\ NoBond.activeRequests = 0 /\ NoBond.pendingWithdrawal = 0
<1>1. NewBond(0, 0) \in Bond
  BY DEF NewBond, Bond
<1> QED BY <1>1 DEF NoBond, NewBond, Bond

(***************************************************************************)
(* The live requests of a provider are finitely many.                      *)
(***************************************************************************)
LEMMA RequestsOfFinite ==
  ASSUME NEW p \in Providers
  PROVE  /\ IsFiniteSet(RequestsOf(p))
         /\ Cardinality(RequestsOf(p)) \in Nat
         /\ Cardinality(RequestsOf(p)) = 0 <=> RequestsOf(p) = {}
<1>1. RequestsOf(p) \subseteq EscrowIds
  BY DEF RequestsOf
<1>2. IsFiniteSet(RequestsOf(p))
  BY <1>1, EscrowIdsFinite, FS_Subset
<1> QED BY <1>2, FS_CardinalityType, FS_EmptySet

(***************************************************************************)
(* A call on one bond keeps the shape of the bonds and the requests.        *)
(***************************************************************************)
LEMMA TouchingOneBondIsSafe ==
  ASSUME Shape, NEW p \in Providers, TouchesOneBond(p)
  PROVE  /\ bonds' \in [Providers -> Bond]
         /\ activeRequests' \in [EscrowIds -> Request \cup {NoRequest}]
         /\ RequestsCounted'
         /\ UnregisteredIsEmpty'
<1>1. bonds' \in [Providers -> Bond]
  BY DEF Shape, TypeOK, TouchesOneBond
<1>2. \A q \in Providers : q # p => bonds'[q] = bonds[q]
  BY DEF Shape, TypeOK, TouchesOneBond
<1>3. \A q \in Providers : RequestsOf(q)' = RequestsOf(q)
  BY DEF RequestsOf, TouchesOneBond
<1>4. RequestsCounted'
  BY <1>2, <1>3 DEF Shape, RequestsCounted, TouchesOneBond
<1>5. UnregisteredIsEmpty'
  BY <1>2 DEF Shape, UnregisteredIsEmpty, TouchesOneBond
<1> QED BY <1>1, <1>4, <1>5 DEF Shape, TypeOK, TouchesOneBond

(***************************************************************************)
(* The initial states have this shape.                                     *)
(***************************************************************************)
LEMMA InitEstablishesShape == Init => Shape
<1> SUFFICES ASSUME Init PROVE Shape
  OBVIOUS
<1>1. TypeOK
  BY DEF Init, BondInit, TypeOK, Bond, NoBond, NewBond
<1>2. \A p \in Providers : RequestsOf(p) = {}
  BY DEF Init, BondInit, RequestsOf, NoRequest
<1>3. RequestsCounted
  BY <1>2, FS_EmptySet DEF Init, BondInit, RequestsCounted, NoBond, NewBond
<1>4. UnregisteredIsEmpty
  BY DEF Init, BondInit, UnregisteredIsEmpty
<1> QED BY <1>1, <1>3, <1>4 DEF Shape

-----------------------------------------------------------------------------
(***************************************************************************)
(* The provider's own calls keep the shape.                                *)
(***************************************************************************)
LEMMA ProviderStepPreservesShape ==
  ASSUME Shape, NEW p \in Providers, ProviderStep(p), UNCHANGED now
  PROVE  Shape'
<1> DEFINE b == bonds[p]
           Sums == /\ totalBonded' \in Nat /\ totalSlashed' \in Nat
                   /\ registryBalance' \in Nat
                   /\ UNCHANGED <<hasInsuranceFund, bondPaused>>
<1>1. /\ b \in Bond /\ bonds \in [Providers -> Bond]
      /\ totalBonded \in Nat /\ totalSlashed \in Nat /\ registryBalance \in Nat
  BY DEF Shape, TypeOK
<1>2. ASSUME TouchesOneBond(p), Sums PROVE Shape'
  BY <1>2, TouchingOneBondIsSafe DEF Shape, TypeOK
<1>3. ASSUME NEW amount \in BondAmounts, NEW maxValue \in RequestValues,
             RegisterProvider(p, amount, maxValue)
      PROVE  Shape'
  <2>1. amount \in Nat /\ maxValue \in Nat
    BY BondConstants
  <2>2. bonds[p] = NoBond
    BY <1>3 DEF RegisterProvider, Shape, UnregisteredIsEmpty
  <2>3. NewBond(amount, maxValue) \in Bond
    BY <2>1 DEF NewBond, Bond
  <2>4. /\ NewBond(amount, maxValue).registered
        /\ NewBond(amount, maxValue).activeRequests = 0
    BY DEF NewBond
  <2>5. TouchesOneBond(p)
    BY <1>1, <1>3, <2>2, <2>3, <2>4, NoBondIsEmpty
    DEF RegisterProvider, TouchesOneBond
  <2>6. Sums
    BY <1>1, <1>3, <2>1 DEF RegisterProvider, Deposit, adminVars
  <2> QED BY <1>2, <2>5, <2>6
<1>4. ASSUME NEW amount \in BondAmounts, IncreaseBond(p, amount) PROVE Shape'
  <2>1. amount \in Nat
    BY BondConstants
  <2>2. TouchesOneBond(p)
    BY <1>1, <1>4, <2>1 DEF IncreaseBond, TouchesOneBond, Bond
  <2>3. Sums
    BY <1>1, <1>4, <2>1 DEF IncreaseBond, Deposit, adminVars
  <2> QED BY <1>2, <2>2, <2>3
<1>5. ASSUME NEW amount \in BondAmounts, RequestWithdrawal(p, amount) PROVE Shape'
  <2>1. amount \in Nat /\ now + WITHDRAWAL_DELAY \in Nat
    BY BondConstants DEF Shape, TypeOK
  <2>2. TouchesOneBond(p)
    BY <1>1, <1>5, <2>1 DEF RequestWithdrawal, TouchesOneBond, Bond
  <2> QED BY <1>1, <1>2, <1>5, <2>2 DEF RequestWithdrawal, treasuryVars, adminVars
<1>6. ASSUME NEW maxValue \in RequestValues, UpdateMaxRequestValue(p, maxValue)
      PROVE  Shape'
  <2>1. maxValue \in Nat
    BY BondConstants
  <2>2. TouchesOneBond(p)
    BY <1>1, <1>6, <2>1 DEF UpdateMaxRequestValue, TouchesOneBond, Bond
  <2> QED BY <1>1, <1>2, <1>6, <2>2
          DEF UpdateMaxRequestValue, treasuryVars, adminVars
<1>7. ASSUME CancelWithdrawal(p) PROVE Shape'
  <2>1. b.registered
    BY <1>7, NoBondIsEmpty DEF CancelWithdrawal, Shape, UnregisteredIsEmpty
  <2>2. TouchesOneBond(p)
    BY <1>1, <1>7, <2>1 DEF CancelWithdrawal, TouchesOneBond, Bond
  <2> QED BY <1>1, <1>2, <1>7, <2>2 DEF CancelWithdrawal, treasuryVars, adminVars
<1>8. ASSUME ExecuteWithdrawal(p) PROVE Shape'
  <2>1. b.registered
    BY <1>8, NoBondIsEmpty DEF ExecuteWithdrawal, Withdrawable, Shape, UnregisteredIsEmpty
  <2>2. TouchesOneBond(p)
    BY <1>1, <1>8, <2>1 DEF ExecuteWithdrawal, Withdrawable, TouchesOneBond, Bond
  <2>3. Sums
    BY <1>1, <1>8 DEF ExecuteWithdrawal, Withdrawable, adminVars, Bond
  <2> QED BY <1>2, <2>2, <2>3
<1>9. ASSUME Deactivate(p) PROVE Shape'
  <2>1. TouchesOneBond(p)
    BY <1>1, <1>9 DEF Deactivate, TouchesOneBond, Bond
  <2> QED BY <1>1, <1>2, <1>9, <2>1 DEF Deactivate, treasuryVars, adminVars
<1>10. ASSUME Reactivate(p) PROVE Shape'
  <2>1. TouchesOneBond(p)
    BY <1>1, <1>10 DEF Reactivate, TouchesOneBond, Bond
  <2> QED BY <1>1, <1>2, <1>10, <2>1 DEF Reactivate, treasuryVars, adminVars
<1> QED BY <1>3, <1>4, <1>5, <1>6, <1>7, <1>8, <1>9, <1>10 DEF ProviderStep

(***************************************************************************)
(* Slashes and hardware collateral keep the shape.                         *)
(***************************************************************************)
LEMMA OverseerStepPreservesShape ==
  ASSUME Shape, NEW p \in Providers, OverseerStep(p), UNCHANGED now
  PROVE  Shape'
<1> DEFINE b == bonds[p]
           Sums == /\ totalBonded' \in Nat /\ totalSlashed' \in Nat
                   /\ registryBalance' \in Nat
                   /\ UNCHANGED <<hasInsuranceFund, bondPaused>>
<1>1. /\ b \in Bond /\ bonds \in [Providers -> Bond]
      /\ totalBonded \in Nat /\ totalSlashed \in Nat /\ registryBalance \in Nat
  BY DEF Shape, TypeOK
<1>2. ASSUME TouchesOneBond(p), Sums PROVE Shape'
  BY <1>2, TouchingOneBondIsSafe DEF Shape, TypeOK
<1>3. ASSUME NEW requested \in SlashAmounts, SlashProvider(p, requested) PROVE Shape'
  <2> DEFINE amount == IF requested > b.bondedAmount THEN b.bondedAmount ELSE requested
             kept == IF hasInsuranceFund THEN 0 ELSE InsuranceShare(amount)
  <2>1. amount \in Nat /\ amount <= b.bondedAmount
    BY <1>1, BondConstants DEF Bond
  <2>2. kept \in 0 .. amount
    BY <2>1, InsuranceShareBounded
  <2>3. /\ b.registered
        /\ amount <= totalBonded
        /\ amount - kept <= registryBalance
        /\ bonds' = [bonds EXCEPT
                     ![p].bondedAmount = @ - amount,
                     ![p].totalSlashed = @ + amount,
                     ![p].isActive = @ /\ bonds[p].bondedAmount - amount >= MIN_BOND]
        /\ totalBonded' = totalBonded - amount
        /\ totalSlashed' = totalSlashed + amount
        /\ registryBalance' = registryBalance - (amount - kept)
        /\ UNCHANGED <<activeRequests, hasInsuranceFund, bondPaused>>
    BY <1>3 DEF SlashProvider, adminVars
  <2> HIDE DEF amount, kept
  <2> DEFINE active == b.isActive /\ b.bondedAmount - amount >= MIN_BOND
             cut == b.bondedAmount - amount
             slashed == b.totalSlashed + amount
  <2>4. TouchesOneBond(p)
    <3>1. cut \in Nat /\ slashed \in Nat /\ active \in BOOLEAN
      BY <1>1, <2>1 DEF Bond
    <3>2. bonds' = [bonds EXCEPT ![p] = [b EXCEPT !.bondedAmount = cut,
                                                  !.totalSlashed = slashed,
                                                  !.isActive = active]]
      BY <1>1, <2>3
    <3> HIDE DEF cut, slashed, active
    <3>3. [b EXCEPT !.bondedAmount = cut, !.totalSlashed = slashed,
                    !.isActive = active] \in Bond
      BY <1>1, <3>1 DEF Bond
    <3>4. bonds'[p] = [b EXCEPT !.bondedAmount = cut, !.totalSlashed = slashed,
                                !.isActive = active]
      BY <1>1, <3>2
    <3>5. /\ bonds'[p].registered
          /\ bonds'[p].activeRequests = b.activeRequests
      BY <1>1, <2>3, <3>4 DEF Bond
    <3> QED BY <2>3, <3>2, <3>3, <3>4, <3>5 DEF TouchesOneBond
  <2>5. Sums
    BY <1>1, <2>1, <2>2, <2>3
  <2> QED BY <1>2, <2>4, <2>5
<1>4. ASSUME NEW amount \in CollateralAmounts, LockHardwareCollateral(p, amount)
      PROVE  Shape'
  <2>1. amount \in Nat
    BY BondConstants
  <2>2. TouchesOneBond(p)
    BY <1>1, <1>4, <2>1 DEF LockHardwareCollateral, TouchesOneBond, Bond
  <2> QED BY <1>1, <1>2, <1>4, <2>2
          DEF LockHardwareCollateral, treasuryVars, adminVars
<1>5. ASSUME NEW amount \in CollateralAmounts, UnlockHardwareCollateral(p, amount)
      PROVE  Shape'
  <2>1. amount \in Nat
    BY BondConstants
  <2>2. TouchesOneBond(p)
    BY <1>1, <1>5, <2>1 DEF UnlockHardwareCollateral, TouchesOneBond, Bond
  <2> QED BY <1>1, <1>2, <1>5, <2>2
          DEF UnlockHardwareCollateral, treasuryVars, adminVars
<1> QED BY <1>3, <1>4, <1>5 DEF OverseerStep

(***************************************************************************)
(* The escrow contract's calls keep the counter equal to the number of     *)
(* live requests.                                                          *)
(***************************************************************************)
LEMMA EscrowStepPreservesShape ==
  ASSUME Shape, NEW p \in Providers, EscrowStep(p), UNCHANGED now
  PROVE  Shape'
<1> DEFINE b == bonds[p]
<1>1. /\ b \in Bond /\ bonds \in [Providers -> Bond]
      /\ activeRequests \in [EscrowIds -> Request \cup {NoRequest}]
      /\ b.activeRequests = Cardinality(RequestsOf(p))
  BY DEF Shape, TypeOK, RequestsCounted
<1>2. ASSUME bonds' \in [Providers -> Bond], bonds'[p].registered,
             \A q \in Providers : q # p => /\ bonds'[q] = bonds[q]
                                           /\ RequestsOf(q)' = RequestsOf(q),
             activeRequests' \in [EscrowIds -> Request \cup {NoRequest}],
             bonds'[p].activeRequests = Cardinality(RequestsOf(p)'),
             UNCHANGED <<treasuryVars, adminVars>>
      PROVE  Shape'
  <2>1. TypeOK'
    BY <1>2 DEF Shape, TypeOK, treasuryVars, adminVars
  <2>2. RequestsCounted'
    BY <1>2 DEF Shape, RequestsCounted
  <2>3. UnregisteredIsEmpty'
    BY <1>2 DEF Shape, UnregisteredIsEmpty
  <2> QED BY <2>1, <2>2, <2>3 DEF Shape
<1>3. ASSUME NEW id \in EscrowIds, NEW value \in RequestValues,
             ~activeRequests[id].live, AcceptRequest(p, id, value)
      PROVE  Shape'
  <2>1. value \in Nat
    BY BondConstants
  <2>2. /\ bonds' \in [Providers -> Bond]
        /\ bonds'[p].registered
        /\ bonds'[p].activeRequests = b.activeRequests + 1
        /\ \A q \in Providers : q # p => bonds'[q] = bonds[q]
    BY <1>1, <1>3, <2>1 DEF AcceptRequest, CanAcceptRequest, Bond
  <2>3. activeRequests' \in [EscrowIds -> Request \cup {NoRequest}]
    BY <1>1, <1>3, <2>1 DEF AcceptRequest, Request
  <2>4. RequestsOf(p)' = RequestsOf(p) \cup {id} /\ id \notin RequestsOf(p)
    BY <1>1, <1>3 DEF AcceptRequest, RequestsOf
  <2>5. \A q \in Providers : q # p => RequestsOf(q)' = RequestsOf(q)
    BY <1>1, <1>3 DEF AcceptRequest, RequestsOf
  <2>6. Cardinality(RequestsOf(p)') = Cardinality(RequestsOf(p)) + 1
    BY <2>4, RequestsOfFinite, FS_AddElement
  <2> QED BY <1>1, <1>2, <1>3, <2>2, <2>3, <2>5, <2>6 DEF AcceptRequest
<1>4. ASSUME NEW id \in EscrowIds, CompleteRequest(p, id) PROVE Shape'
  <2>1. /\ activeRequests[id] \in Request
        /\ activeRequests[id].provider = p
        /\ activeRequests[id].value \in Nat
        /\ b.pendingSettlements >= activeRequests[id].value
        /\ b.activeRequests > 0
    <3>1. activeRequests[id] # NoRequest
      BY <1>4 DEF CompleteRequest, MayComplete, NoRequest
    <3>2. activeRequests[id] \in Request
      BY <1>1, <3>1
    <3> QED BY <1>4, <3>2 DEF CompleteRequest, MayComplete, Request
  <2>2. Earn(b.totalEarned, activeRequests[id].value) \in Nat
    BY <1>1, <2>1, BondConstants DEF Earn, Bond
  <2>3. b.registered
    BY <2>1, NoBondIsEmpty DEF Shape, UnregisteredIsEmpty
  <2>4. bonds' = [bonds EXCEPT
                    ![p].pendingSettlements = @ - activeRequests[id].value,
                    ![p].activeRequests = @ - 1,
                    ![p].totalEarned = Earn(@, activeRequests[id].value)]
    BY <1>4 DEF CompleteRequest, MayComplete
  <2>5. /\ bonds' \in [Providers -> Bond]
        /\ bonds'[p].registered
        /\ bonds'[p].activeRequests = b.activeRequests - 1
        /\ \A q \in Providers : q # p => bonds'[q] = bonds[q]
    BY <1>1, <2>1, <2>2, <2>3, <2>4 DEF Bond
  <2>6. activeRequests' \in [EscrowIds -> Request \cup {NoRequest}]
    BY <1>1, <1>4 DEF CompleteRequest, MayComplete
  <2>7. RequestsOf(p)' = RequestsOf(p) \ {id} /\ id \in RequestsOf(p)
    BY <1>1, <1>4, <2>1 DEF CompleteRequest, MayComplete, RequestsOf, NoRequest
  <2>8. \A q \in Providers : q # p => RequestsOf(q)' = RequestsOf(q)
    BY <1>1, <1>4, <2>1 DEF CompleteRequest, MayComplete, RequestsOf, NoRequest
  <2>9. Cardinality(RequestsOf(p)') = Cardinality(RequestsOf(p)) - 1
    BY <2>7, RequestsOfFinite, FS_RemoveElement
  <2> QED BY <1>1, <1>2, <1>4, <2>5, <2>6, <2>8, <2>9 DEF CompleteRequest, MayComplete
<1>5. ASSUME NEW value \in RequestValues, CompensateProvider(p, value) PROVE Shape'
  <2>1. Earn(b.totalEarned, value) \in Nat
    BY <1>1, BondConstants DEF Earn, Bond
  <2>2. TouchesOneBond(p)
    BY <1>1, <1>5, <2>1 DEF CompensateProvider, TouchesOneBond, Bond
  <2> QED BY <1>5, <2>2, TouchingOneBondIsSafe
          DEF CompensateProvider, Shape, TypeOK, treasuryVars, adminVars
<1> QED BY <1>3, <1>4, <1>5 DEF EscrowStep

-----------------------------------------------------------------------------
(***************************************************************************)
(* The registry's books.  Every call changes the bond of one provider and  *)
(* the totals by the same amount; only acceptRequest and completeRequest   *)
(* change what a provider has in flight, both by one request.              *)
(***************************************************************************)
Accounts == BondsAreFunded /\ PendingMatchesRequests /\ RequestsStayCovered

ChangesOneBond(p) == bonds' = [bonds EXCEPT ![p] = bonds'[p]]

\* The total follows the bond, and the balance loses no more than the total.
Booked(p) ==
  /\ totalBonded' + bonds[p].bondedAmount = totalBonded + bonds'[p].bondedAmount
  /\ registryBalance' + totalBonded >= registryBalance + totalBonded'

KeepsRequests(p) ==
  /\ UNCHANGED activeRequests
  /\ bonds'[p].pendingSettlements = bonds[p].pendingSettlements
  /\ bonds'[p].activeRequests = bonds[p].activeRequests

\* What was bonded is still there or was slashed, unless nothing is in flight.
KeepsCover(p) ==
  \/ bonds[p].activeRequests = 0
  \/ bonds'[p].bondedAmount + bonds'[p].totalSlashed
       >= bonds[p].bondedAmount + bonds[p].totalSlashed

Effect(p) == ChangesOneBond(p) /\ Booked(p) /\ KeepsRequests(p) /\ KeepsCover(p)

(***************************************************************************)
(* Every call of a provider has that effect: in particular only an idle    *)
(* provider's bond is paid out.                                            *)
(***************************************************************************)
LEMMA ProviderStepEffect ==
  ASSUME Shape, NEW p \in Providers, ProviderStep(p)
  PROVE  Effect(p)
<1>1. /\ bonds[p] \in Bond /\ bonds \in [Providers -> Bond]
      /\ totalBonded \in Nat /\ registryBalance \in Nat
  BY DEF Shape, TypeOK
<1>2. ASSUME ChangesOneBond(p), KeepsRequests(p), UNCHANGED treasuryVars,
             bonds'[p].bondedAmount = bonds[p].bondedAmount,
             bonds'[p].totalSlashed = bonds[p].totalSlashed
      PROVE  Effect(p)
  BY <1>1, <1>2 DEF Effect, Booked, KeepsCover, treasuryVars, Bond
<1>3. ASSUME NEW amount \in BondAmounts, NEW maxValue \in RequestValues,
             RegisterProvider(p, amount, maxValue)
      PROVE  Effect(p)
  <2>1. amount \in Nat
    BY BondConstants
  <2>2. /\ bonds[p] = NoBond
        /\ NoBond.bondedAmount = 0 /\ NoBond.activeRequests = 0
        /\ NoBond.pendingSettlements = 0
    BY <1>3 DEF RegisterProvider, Shape, UnregisteredIsEmpty, NoBond, NewBond
  <2>3. /\ bonds' = [bonds EXCEPT ![p] = NewBond(amount, maxValue)]
        /\ bonds'[p] = NewBond(amount, maxValue)
    BY <1>1, <1>3 DEF RegisterProvider
  <2>4. /\ bonds'[p].bondedAmount = amount /\ bonds'[p].activeRequests = 0
        /\ bonds'[p].pendingSettlements = 0
    BY <2>3 DEF NewBond
  <2>5. ChangesOneBond(p) /\ KeepsRequests(p) /\ KeepsCover(p)
    BY <1>3, <2>2, <2>3, <2>4
       DEF ChangesOneBond, KeepsRequests, KeepsCover, RegisterProvider
  <2>6. Booked(p)
    BY <1>1, <1>3, <2>1, <2>2, <2>4 DEF Booked, RegisterProvider, Deposit
  <2> QED BY <2>5, <2>6 DEF Effect
<1>4. ASSUME NEW amount \in BondAmounts, IncreaseBond(p, amount) PROVE Effect(p)
  <2>1. amount \in Nat
    BY BondConstants
  <2>2. /\ ChangesOneBond(p) /\ KeepsRequests(p)
        /\ bonds'[p].bondedAmount = bonds[p].bondedAmount + amount
        /\ bonds'[p].totalSlashed = bonds[p].totalSlashed
    BY <1>1, <1>4 DEF IncreaseBond, ChangesOneBond, KeepsRequests, Bond
  <2> QED BY <1>1, <1>4, <2>1, <2>2
          DEF Effect, Booked, KeepsCover, IncreaseBond, Deposit, Bond
<1>5. ASSUME NEW amount \in BondAmounts, RequestWithdrawal(p, amount) PROVE Effect(p)
  BY <1>1, <1>2, <1>5 DEF RequestWithdrawal, ChangesOneBond, KeepsRequests, Bond
<1>6. ASSUME NEW maxValue \in RequestValues, UpdateMaxRequestValue(p, maxValue)
      PROVE  Effect(p)
  BY <1>1, <1>2, <1>6 DEF UpdateMaxRequestValue, ChangesOneBond, KeepsRequests, Bond
<1>7. ASSUME CancelWithdrawal(p) PROVE Effect(p)
  BY <1>1, <1>2, <1>7 DEF CancelWithdrawal, ChangesOneBond, KeepsRequests, Bond
<1>8. ASSUME ExecuteWithdrawal(p) PROVE Effect(p)
  <2> DEFINE amount == bonds[p].pendingWithdrawal
  <2>1. amount \in Nat
    BY <1>1 DEF Bond
  <2>2. /\ ChangesOneBond(p) /\ KeepsRequests(p)
        /\ bonds'[p].bondedAmount = bonds[p].bondedAmount - amount
        /\ bonds[p].activeRequests = 0
    BY <1>1, <1>8
       DEF ExecuteWithdrawal, Withdrawable, ChangesOneBond, KeepsRequests, Bond
  <2>3. /\ amount <= bonds[p].bondedAmount /\ amount <= totalBonded
        /\ amount <= registryBalance
        /\ totalBonded' = totalBonded - amount
        /\ registryBalance' = registryBalance - amount
    BY <1>8 DEF ExecuteWithdrawal
  <2>4. bonds[p].bondedAmount \in Nat
    BY <1>1 DEF Bond
  <2> HIDE DEF amount
  <2> QED BY <1>1, <2>1, <2>2, <2>3, <2>4 DEF Effect, Booked, KeepsCover
<1>9. ASSUME Deactivate(p) PROVE Effect(p)
  BY <1>1, <1>2, <1>9 DEF Deactivate, ChangesOneBond, KeepsRequests, Bond
<1>10. ASSUME Reactivate(p) PROVE Effect(p)
  BY <1>1, <1>2, <1>10 DEF Reactivate, ChangesOneBond, KeepsRequests, Bond
<1> QED BY <1>3, <1>4, <1>5, <1>6, <1>7, <1>8, <1>9, <1>10 DEF ProviderStep

(***************************************************************************)
(* So has every slash, whether or not the insurance fund takes its share,  *)
(* and every lock of hardware collateral.                                  *)
(***************************************************************************)
LEMMA OverseerStepEffect ==
  ASSUME Shape, NEW p \in Providers, OverseerStep(p)
  PROVE  Effect(p)
<1>1. /\ bonds[p] \in Bond /\ bonds \in [Providers -> Bond]
      /\ totalBonded \in Nat /\ registryBalance \in Nat
  BY DEF Shape, TypeOK
<1>2. ASSUME NEW requested \in SlashAmounts, SlashProvider(p, requested) PROVE Effect(p)
  <2> DEFINE b == bonds[p]
             amount == IF requested > b.bondedAmount THEN b.bondedAmount ELSE requested
             kept == IF hasInsuranceFund THEN 0 ELSE InsuranceShare(amount)
  <2>1. amount \in Nat /\ amount <= b.bondedAmount
    BY <1>1, BondConstants DEF Bond
  <2>2. kept \in 0 .. amount
    BY <2>1, InsuranceShareBounded
  <2>3. /\ amount <= totalBonded
        /\ amount - kept <= registryBalance
        /\ bonds' = [bonds EXCEPT
                     ![p].bondedAmount = @ - amount,
                     ![p].totalSlashed = @ + amount,
                     ![p].isActive = @ /\ bonds[p].bondedAmount - amount >= MIN_BOND]
        /\ totalBonded' = totalBonded - amount
        /\ registryBalance' = registryBalance - (amount - kept)
        /\ UNCHANGED activeRequests
    BY <1>2 DEF SlashProvider
  <2> HIDE DEF amount, kept
  <2>4. /\ ChangesOneBond(p) /\ KeepsRequests(p)
        /\ bonds'[p].bondedAmount = b.bondedAmount - amount
        /\ bonds'[p].totalSlashed = b.totalSlashed + amount
    BY <1>1, <2>3 DEF ChangesOneBond, KeepsRequests, Bond
  <2>5. b.bondedAmount \in Nat /\ b.totalSlashed \in Nat
    BY <1>1 DEF Bond
  <2> HIDE DEF b
  <2>6. bonds[p] = b
    BY DEF b
  <2> QED BY <1>1, <2>1, <2>2, <2>3, <2>4, <2>5, <2>6 DEF Effect, Booked, KeepsCover
<1>3. ASSUME NEW amount \in CollateralAmounts,
             LockHardwareCollateral(p, amount) \/ UnlockHardwareCollateral(p, amount)
      PROVE  Effect(p)
  <2>1. /\ ChangesOneBond(p) /\ KeepsRequests(p) /\ UNCHANGED treasuryVars
        /\ bonds'[p].bondedAmount = bonds[p].bondedAmount
        /\ bonds'[p].totalSlashed = bonds[p].totalSlashed
    BY <1>1, <1>3 DEF LockHardwareCollateral, UnlockHardwareCollateral,
                      ChangesOneBond, KeepsRequests, Bond
  <2> QED BY <1>1, <2>1 DEF Effect, Booked, KeepsCover, treasuryVars, Bond
<1> QED BY <1>2, <1>3 DEF OverseerStep

(***************************************************************************)
(* A call that books what it does to one bond keeps the bonds funded.      *)
(***************************************************************************)
LEMMA BookingKeepsFunds ==
  ASSUME Shape, Shape', BondsAreFunded, NEW p \in Providers,
         ChangesOneBond(p), Booked(p)
  PROVE  BondsAreFunded'
<1> DEFINE f == [q \in Providers |-> bonds[q].bondedAmount]
           g == [q \in Providers |-> bonds'[q].bondedAmount]
<1>1. /\ bonds \in [Providers -> Bond] /\ bonds' \in [Providers -> Bond]
      /\ totalBonded \in Nat /\ totalBonded' \in Nat
      /\ registryBalance \in Nat /\ registryBalance' \in Nat
  BY DEF Shape, TypeOK
<1>2. Natural(f, Providers) /\ Natural(g, Providers)
  BY <1>1 DEF Natural, Bond
<1>3. \A q \in Providers \ {p} : g[q] = f[q]
  BY <1>1 DEF ChangesOneBond
<1>4. f[p] = bonds[p].bondedAmount /\ g[p] = bonds'[p].bondedAmount
  OBVIOUS
<1>5. AllBonds = SumOver(f, Providers) /\ AllBonds' = SumOver(g, Providers)
  BY DEF AllBonds
<1> HIDE DEF f, g
<1>6. SumOver(g, Providers) + f[p] = SumOver(f, Providers) + g[p]
  BY <1>2, <1>3, ProvidersFinite, SumUpdate
<1>7. SumOver(f, Providers) \in Nat /\ SumOver(g, Providers) \in Nat
  BY <1>2, ProvidersFinite, SumIsNatural
<1>8. f[p] \in Nat /\ g[p] \in Nat
  BY <1>2 DEF Natural
<1> QED BY <1>1, <1>4, <1>5, <1>6, <1>7, <1>8 DEF BondsAreFunded, Booked

(***************************************************************************)
(* A call that leaves the requests alone keeps the pending amounts equal   *)
(* to them, for the provider it touches and for every other.               *)
(***************************************************************************)
LEMMA KeepingRequestsKeepsPending ==
  ASSUME Shape, PendingMatchesRequests, NEW p \in Providers,
         ChangesOneBond(p), KeepsRequests(p)
  PROVE  PendingMatchesRequests'
<1>1. \A q \in Providers : q # p => bonds'[q] = bonds[q]
  BY DEF Shape, TypeOK, ChangesOneBond
<1>2. \A q \in Providers : RequestsOf(q)' = RequestsOf(q)
  BY DEF KeepsRequests, RequestsOf
<1>3. \A q \in Providers : ValueRequested(q)' = ValueRequested(q)
  BY <1>2 DEF KeepsRequests, ValueRequested
<1> QED BY <1>1, <1>2, <1>3 DEF PendingMatchesRequests, KeepsRequests

(***************************************************************************)
(* An idle provider has nothing pending.                                   *)
(***************************************************************************)
LEMMA IdleOwesNothing ==
  ASSUME PendingMatchesRequests, NEW p \in Providers, bonds[p].activeRequests = 0
  PROVE  bonds[p].pendingSettlements = 0
<1>1. RequestsOf(p) = {}
  BY RequestsOfFinite DEF PendingMatchesRequests
<1>2. ValueRequested(p) = 0
  BY <1>1, SumEmpty DEF ValueRequested
<1> QED BY <1>2 DEF PendingMatchesRequests

(***************************************************************************)
(* A call with the effect of a provider's or an overseer's keeps the books.*)
(***************************************************************************)
LEMMA EffectKeepsAccounts ==
  ASSUME Shape, Shape', Accounts, NEW p \in Providers, Effect(p)
  PROVE  Accounts'
<1>1. BondsAreFunded'
  BY BookingKeepsFunds DEF Accounts, Effect
<1>2. PendingMatchesRequests'
  BY KeepingRequestsKeepsPending DEF Accounts, Effect
<1>3. RequestsStayCovered'
  <2> SUFFICES ASSUME NEW q \in Providers
               PROVE  bonds'[q].pendingSettlements
                        <= bonds'[q].bondedAmount + bonds'[q].totalSlashed
    BY DEF RequestsStayCovered
  <2>1. /\ bonds[q].pendingSettlements <= bonds[q].bondedAmount + bonds[q].totalSlashed
        /\ bonds[q] \in Bond /\ bonds'[q] \in Bond
        /\ bonds \in [Providers -> Bond]
    BY DEF Accounts, RequestsStayCovered, Shape, TypeOK
  <2>2. CASE q # p
    BY <2>1, <2>2 DEF Effect, ChangesOneBond
  <2>3. CASE q = p /\ bonds[p].activeRequests = 0
    <3>1. bonds'[p].pendingSettlements = 0
      BY <2>3, IdleOwesNothing DEF Accounts, Effect, KeepsRequests
    <3> QED BY <2>1, <2>3, <3>1 DEF Bond
  <2>4. CASE q = p /\ bonds[p].activeRequests # 0
    BY <2>1, <2>4 DEF Effect, KeepsRequests, KeepsCover, Bond
  <2> QED BY <2>2, <2>3, <2>4
<1> QED BY <1>1, <1>2, <1>3 DEF Accounts

(***************************************************************************)
(* The escrow contract's calls keep the books: a request is counted in and *)
(* out once, with the value it was accepted with.                          *)
(***************************************************************************)
LEMMA EscrowStepKeepsAccounts ==
  ASSUME Shape, Shape', Accounts, NEW p \in Providers, EscrowStep(p)
  PROVE  Accounts'
<1>1. /\ bonds[p] \in Bond /\ bonds \in [Providers -> Bond] /\ bonds'[p] \in Bond
      /\ activeRequests \in [EscrowIds -> Request \cup {NoRequest}]
      /\ activeRequests' \in [EscrowIds -> Request \cup {NoRequest}]
      /\ totalBonded \in Nat /\ registryBalance \in Nat
  BY DEF Shape, TypeOK
<1> DEFINE requested == bonds[p].pendingSettlements
           T == RequestsOf(p)
           U == RequestsOf(p)'
           f == [i \in T |-> activeRequests[i].value]
           g == [i \in U |-> activeRequests'[i].value]
<1>2. IsFiniteSet(T) /\ Natural(f, T) /\ Natural(g, U)
  <2>1. Natural(f, T)
    <3>1. \A i \in T : activeRequests[i] \in Request
      BY <1>1 DEF RequestsOf, NoRequest
    <3> QED BY <3>1 DEF Natural, Request
  <2>2. Natural(g, U)
    <3>1. \A i \in U : activeRequests'[i] \in Request
      BY <1>1 DEF RequestsOf, NoRequest
    <3> QED BY <3>1 DEF Natural, Request
  <2> QED BY <2>1, <2>2, RequestsOfFinite
<1>3. ValueRequested(p) = SumOver(f, T) /\ ValueRequested(p)' = SumOver(g, U)
  BY DEF ValueRequested
<1>4. requested = SumOver(f, T) /\ requested \in Nat
  BY <1>1, <1>3 DEF Accounts, PendingMatchesRequests, Bond
<1>5. ASSUME NEW id \in EscrowIds, ChangesOneBond(p), UNCHANGED treasuryVars,
             bonds'[p].bondedAmount = bonds[p].bondedAmount,
             bonds'[p].totalSlashed = bonds[p].totalSlashed,
             activeRequests' = [activeRequests EXCEPT ![id] = activeRequests'[id]],
             \A q \in Providers : q # p => id \notin RequestsOf(q) \cup RequestsOf(q)',
             bonds'[p].pendingSettlements = ValueRequested(p)',
             bonds'[p].pendingSettlements <= bonds[p].bondedAmount + bonds[p].totalSlashed
      PROVE  Accounts'
  <2>1. BondsAreFunded'
    BY <1>1, <1>5, BookingKeepsFunds DEF Accounts, Booked, treasuryVars, Bond
  <2>2. \A q \in Providers : q # p => bonds'[q] = bonds[q]
    BY <1>1, <1>5 DEF ChangesOneBond
  <2>3. ASSUME NEW q \in Providers, q # p
        PROVE  RequestsOf(q)' = RequestsOf(q) /\ ValueRequested(q)' = ValueRequested(q)
    <3>1. \A i \in EscrowIds : i # id => activeRequests'[i] = activeRequests[i]
      BY <1>1, <1>5
    <3>2. id \notin RequestsOf(q) /\ id \notin RequestsOf(q)'
      BY <1>5, <2>3
    <3>3. RequestsOf(q)' = RequestsOf(q)
      BY <3>1, <3>2 DEF RequestsOf
    <3>4. \A i \in RequestsOf(q) : activeRequests'[i].value = activeRequests[i].value
      BY <3>1, <3>2 DEF RequestsOf
    <3> QED BY <3>3, <3>4 DEF ValueRequested
  <2>4. PendingMatchesRequests'
    <3>1. RequestsCounted'
      BY DEF Shape
    <3> QED BY <1>5, <2>2, <2>3, <3>1 DEF Accounts, PendingMatchesRequests, RequestsCounted
  <2>5. RequestsStayCovered'
    BY <1>5, <2>2 DEF Accounts, RequestsStayCovered
  <2> QED BY <2>1, <2>4, <2>5 DEF Accounts
<1>6. ASSUME NEW id \in EscrowIds, NEW value \in RequestValues,
             ~activeRequests[id].live, AcceptRequest(p, id, value)
      PROVE  Accounts'
  <2>1. value \in Nat
    BY BondConstants
  <2>2. /\ ChangesOneBond(p) /\ UNCHANGED treasuryVars
        /\ bonds'[p].bondedAmount = bonds[p].bondedAmount
        /\ bonds'[p].totalSlashed = bonds[p].totalSlashed
        /\ bonds'[p].pendingSettlements = requested + value
        /\ requested + value <= bonds[p].bondedAmount
    BY <1>1, <1>6 DEF AcceptRequest, CanAcceptRequest, ChangesOneBond, Bond
  <2>3. /\ activeRequests' = [activeRequests EXCEPT ![id] = activeRequests'[id]]
        /\ activeRequests'[id] = [live |-> TRUE, provider |-> p, value |-> value]
    BY <1>1, <1>6 DEF AcceptRequest
  <2>4. \A q \in Providers : q # p => id \notin RequestsOf(q) \cup RequestsOf(q)'
    BY <1>6, <2>3 DEF RequestsOf
  <2>5. /\ id \notin T /\ id \in U /\ T \ {id} = U \ {id}
        /\ \A y \in T \ {id} : f[y] = g[y]
        /\ g[id] = value
    BY <1>1, <1>6, <2>3 DEF RequestsOf
  <2> HIDE DEF T, U, f, g, requested
  <2>6. SumOver(g, U) = SumOver(f, T) + value
    <3>1. SumOver(g, U) + (IF id \in T THEN f[id] ELSE 0)
            = SumOver(f, T) + (IF id \in U THEN g[id] ELSE 0)
      BY <1>2, <2>5, SumChange
    <3>2. IsFiniteSet(U)
      BY RequestsOfFinite, <1>2, <2>5, FS_AddElement, FS_Subset, U = T \cup {id}
    <3>3. SumOver(g, U) \in Nat
      BY <1>2, <3>2, SumIsNatural
    <3> QED BY <2>5, <3>1, <3>3
  <2>7. bonds[p].bondedAmount \in Nat /\ bonds[p].totalSlashed \in Nat
    BY <1>1 DEF Bond
  <2> QED BY <1>3, <1>4, <1>5, <2>1, <2>2, <2>3, <2>4, <2>6, <2>7
<1>7. ASSUME NEW id \in EscrowIds, CompleteRequest(p, id) PROVE Accounts'
  <2> DEFINE value == activeRequests[id].value
  <2>1. /\ activeRequests[id] \in Request
        /\ activeRequests[id].provider = p
        /\ value \in Nat
    <3>1. activeRequests[id] # NoRequest
      BY <1>7 DEF CompleteRequest, MayComplete, NoRequest
    <3>2. activeRequests[id] \in Request
      BY <1>1, <3>1
    <3> QED BY <1>7, <3>2 DEF CompleteRequest, MayComplete, Request
  <2>2. /\ ChangesOneBond(p) /\ UNCHANGED treasuryVars
        /\ bonds'[p].bondedAmount = bonds[p].bondedAmount
        /\ bonds'[p].totalSlashed = bonds[p].totalSlashed
        /\ bonds'[p].pendingSettlements = requested - value
        /\ requested >= value
    BY <1>1, <1>7 DEF CompleteRequest, MayComplete, ChangesOneBond, Bond
  <2>3. /\ activeRequests' = [activeRequests EXCEPT ![id] = activeRequests'[id]]
        /\ activeRequests'[id] = NoRequest
    BY <1>1, <1>7 DEF CompleteRequest
  <2>4. \A q \in Providers : q # p => id \notin RequestsOf(q) \cup RequestsOf(q)'
    BY <2>1, <2>3 DEF RequestsOf, NoRequest
  <2>5. /\ id \in T /\ id \notin U /\ T \ {id} = U \ {id}
        /\ \A y \in T \ {id} : f[y] = g[y]
        /\ f[id] = value
    <3>1. activeRequests[id].live
      BY <1>7 DEF CompleteRequest, MayComplete
    <3>2. /\ \A i \in EscrowIds : i # id => activeRequests'[i] = activeRequests[i]
          /\ ~activeRequests'[id].live
      BY <1>1, <2>3 DEF NoRequest
    <3>3. id \in T /\ id \notin U
      BY <2>1, <3>1, <3>2 DEF RequestsOf
    <3>4. T \ {id} = U \ {id} /\ T \ {id} \subseteq EscrowIds
      BY <3>2 DEF RequestsOf
    <3> QED BY <3>2, <3>3, <3>4
  <2>6. requested <= bonds[p].bondedAmount + bonds[p].totalSlashed
    BY DEF Accounts, RequestsStayCovered
  <2> HIDE DEF T, U, f, g, requested, value
  <2>7. SumOver(g, U) + value = SumOver(f, T)
    <3>1. SumOver(g, U) + (IF id \in T THEN f[id] ELSE 0)
            = SumOver(f, T) + (IF id \in U THEN g[id] ELSE 0)
      BY <1>2, <2>5, SumChange
    <3> QED BY <1>4, <2>5, <3>1
  <2>8. IsFiniteSet(U)
    BY <1>2, <2>5, FS_Subset, FS_RemoveElement, U = T \ {id}
  <2>9. SumOver(g, U) \in Nat
    BY <1>2, <2>8, SumIsNatural
  <2>10. bonds[p].bondedAmount \in Nat /\ bonds[p].totalSlashed \in Nat
    BY <1>1 DEF Bond
  <2> QED BY <1>3, <1>4, <1>5, <2>1, <2>2, <2>3, <2>4, <2>6, <2>7, <2>9, <2>10
<1>8. ASSUME NEW value \in RequestValues, CompensateProvider(p, value) PROVE Accounts'
  <2>1. /\ ChangesOneBond(p) /\ KeepsRequests(p) /\ UNCHANGED treasuryVars
        /\ bonds'[p].bondedAmount = bonds[p].bondedAmount
        /\ bonds'[p].totalSlashed = bonds[p].totalSlashed
    BY <1>1, <1>8 DEF CompensateProvider, ChangesOneBond, KeepsRequests, Bond
  <2>2. bonds[p].bondedAmount \in Nat /\ bonds[p].totalSlashed \in Nat
    BY <1>1 DEF Bond
  <2>3. Booked(p) /\ KeepsCover(p)
    BY <1>1, <2>1, <2>2 DEF Booked, KeepsCover, treasuryVars
  <2>4. Effect(p)
    BY <2>1, <2>3 DEF Effect
  <2> QED BY <2>4, EffectKeepsAccounts
<1> QED BY <1>6, <1>7, <1>8 DEF EscrowStep

(***************************************************************************)
(* No bond is held and no request is live in the initial states.           *)
(***************************************************************************)
LEMMA InitEstablishesAccounts == Init => Accounts
<1> SUFFICES ASSUME Init PROVE Accounts
  OBVIOUS
<1>1. \A p \in Providers : RequestsOf(p) = {}
  BY DEF Init, BondInit, RequestsOf, NoRequest
<1>2. \A p \in Providers : /\ bonds[p].pendingSettlements = 0
                           /\ bonds[p].activeRequests = 0
                           /\ bonds[p].bondedAmount = 0 /\ bonds[p].totalSlashed = 0
  BY DEF Init, BondInit, NoBond, NewBond
<1>3. BondsAreFunded
  <2> DEFINE f == [p \in Providers |-> bonds[p].bondedAmount]
  <2>1. Natural(f, Providers) /\ \A p \in Providers : f[p] = 0
    BY <1>2 DEF Natural
  <2>2. AllBonds = SumOver(f, Providers)
    BY DEF AllBonds
  <2> HIDE DEF f
  <2>3. SumOver(f, Providers) = 0
    BY <2>1, ProvidersFinite, SumOfZeros
  <2> QED BY <2>2, <2>3 DEF Init, BondInit, BondsAreFunded
<1>4. PendingMatchesRequests
  BY <1>1, <1>2, SumEmpty, FS_EmptySet DEF PendingMatchesRequests, ValueRequested
<1>5. RequestsStayCovered
  <2>1. 0 <= 0 + 0
    OBVIOUS
  <2> QED BY <1>2, <2>1, Zenon DEF RequestsStayCovered
<1> QED BY <1>3, <1>4, <1>5 DEF Accounts

-----------------------------------------------------------------------------
(***************************************************************************)
(* The inductive invariant: the books balance, over well-typed tables.     *)
(***************************************************************************)
IInv == Shape /\ Accounts

(***************************************************************************)
(* The calls of the three kinds of callers keep the invariant.             *)
(***************************************************************************)
LEMMA ProviderStepPreservesIInv ==
  ASSUME IInv, NEW p \in Providers, ProviderStep(p), UNCHANGED now
  PROVE  IInv'
BY ProviderStepPreservesShape, ProviderStepEffect, EffectKeepsAccounts DEF IInv

LEMMA OverseerStepPreservesIInv ==
  ASSUME IInv, NEW p \in Providers, OverseerStep(p), UNCHANGED now
  PROVE  IInv'
BY OverseerStepPreservesShape, OverseerStepEffect, EffectKeepsAccounts DEF IInv

LEMMA EscrowStepPreservesIInv ==
  ASSUME IInv, NEW p \in Providers, EscrowStep(p), UNCHANGED now
  PROVE  IInv'
BY EscrowStepPreservesShape, EscrowStepKeepsAccounts DEF IInv

(***************************************************************************)
(* A step that leaves the tables and the totals alone keeps the invariant. *)
(***************************************************************************)
LEMMA UntouchedKeepsIInv ==
  ASSUME IInv, UNCHANGED <<bonds, activeRequests, totalBonded, totalSlashed,
                           registryBalance>>,
         now' \in Nat, hasInsuranceFund' \in BOOLEAN, bondPaused' \in BOOLEAN
  PROVE  IInv'
<1>1. \A p \in Providers : /\ RequestsOf(p)' = RequestsOf(p)
                           /\ ValueRequested(p)' = ValueRequested(p)
  BY DEF RequestsOf, ValueRequested
<1>2. Shape'
  <2>1. TypeOK'
    BY DEF IInv, Shape, TypeOK
  <2>2. RequestsCounted' /\ UnregisteredIsEmpty'
    BY <1>1 DEF IInv, Shape, RequestsCounted, UnregisteredIsEmpty
  <2> QED BY <2>1, <2>2 DEF Shape
<1>3. Accounts'
  <2>1. AllBonds' = AllBonds
    BY DEF AllBonds
  <2> QED BY <1>1, <2>1 DEF IInv, Accounts, BondsAreFunded, PendingMatchesRequests,
                            RequestsStayCovered
<1> QED BY <1>2, <1>3 DEF IInv

LEMMA InitEstablishesIInv == Init => IInv
BY InitEstablishesShape, InitEstablishesAccounts DEF IInv

(***************************************************************************)
(* Every step, stuttering included, keeps the invariant.                   *)
(***************************************************************************)
LEMMA StepPreservesIInv == IInv /\ [Next]_vars => IInv'
<1> SUFFICES ASSUME IInv, [Next]_vars PROVE IInv'
  OBVIOUS
<1>1. CASE \E p \in Providers :
             (ProviderStep(p) \/ OverseerStep(p) \/ EscrowStep(p)) /\ UNCHANGED now
  BY <1>1, ProviderStepPreservesIInv, OverseerStepPreservesIInv,
     EscrowStepPreservesIInv
<1>2. CASE AdminStep /\ UNCHANGED now
  BY <1>2, UntouchedKeepsIInv
     DEF AdminStep, SetInsuranceFund, Pause, Unpause, requestVars, treasuryVars,
         IInv, Shape, TypeOK
<1>3. CASE Tick /\ UNCHANGED bondVars
  BY <1>3, UntouchedKeepsIInv DEF Tick, bondVars, IInv, Shape, TypeOK
<1>4. CASE UNCHANGED vars
  BY <1>4, UntouchedKeepsIInv DEF vars, bondVars, IInv, Shape, TypeOK
<1> QED BY <1>1, <1>2, <1>3, <1>4 DEF Next

(***************************************************************************)
(* The strengthened invariant holds in every reachable state, for any      *)
(* number of providers and requests.                                       *)
(***************************************************************************)
THEOREM BondIInvIsInvariant == Spec => []IInv
<1> QED BY InitEstablishesIInv, StepPreservesIInv, PTL DEF Spec

(***************************************************************************)
(* The registry's state is well typed: in particular no checked            *)
(* subtraction of a slash, a withdrawal or a completion goes below zero.   *)
(***************************************************************************)
THEOREM BondTypeCorrect == Spec => []TypeOK
<1>1. IInv => TypeOK
  BY DEF IInv, Shape
<1> QED BY <1>1, BondIInvIsInvariant, PTL

(***************************************************************************)
(* The registry holds the tokens of every bond: totalBonded is their sum   *)
(* whatever is deposited, withdrawn and slashed in between.                *)
(***************************************************************************)
THEOREM BondFunds == Spec => []BondsAreFunded
<1>1. IInv => BondsAreFunded
  BY DEF IInv, Accounts
<1> QED BY <1>1, BondIInvIsInvariant, PTL

(***************************************************************************)
(* What a provider has pending is the sum of its live requests.            *)
(***************************************************************************)
THEOREM BondPending == Spec => []PendingMatchesRequests
<1>1. IInv => PendingMatchesRequests
  BY DEF IInv, Accounts
<1> QED BY <1>1, BondIInvIsInvariant, PTL

(***************************************************************************)
(* completeRequest's checked subtractions never revert: a live request is  *)
(* no larger than what is pending, and it is counted.                      *)
(***************************************************************************)
CompletionCovered ==
  \A id \in EscrowIds :
    activeRequests[id].live =>
      LET p == activeRequests[id].provider
      IN  /\ activeRequests[id].value <= bonds[p].pendingSettlements
          /\ bonds[p].activeRequests > 0

LEMMA IInvCoversCompletion == IInv => CompletionCovered
<1> SUFFICES ASSUME IInv, NEW id \in EscrowIds, activeRequests[id].live
             PROVE  LET p == activeRequests[id].provider
                    IN  /\ activeRequests[id].value <= bonds[p].pendingSettlements
                        /\ bonds[p].activeRequests > 0
  BY DEF CompletionCovered
<1> DEFINE p == activeRequests[id].provider
           T == RequestsOf(p)
           f == [i \in T |-> activeRequests[i].value]
<1>1. activeRequests \in [EscrowIds -> Request \cup {NoRequest}]
  BY DEF IInv, Shape, TypeOK
<1>2. activeRequests[id] \in Request
  BY <1>1 DEF NoRequest
<1>3. p \in Providers
  BY <1>2 DEF Request
<1>4. id \in T /\ IsFiniteSet(T) /\ Cardinality(T) \in Nat /\ Cardinality(T) # 0
  <2>1. id \in T
    BY DEF RequestsOf
  <2> QED BY <1>3, <2>1, RequestsOfFinite
<1>5. /\ bonds[p].pendingSettlements = SumOver(f, T)
      /\ bonds[p].activeRequests = Cardinality(T)
  BY <1>3 DEF IInv, Accounts, PendingMatchesRequests, ValueRequested
<1>6. Natural(f, T)
  <2>1. \A i \in T : activeRequests[i] \in Request
    BY <1>1 DEF RequestsOf, NoRequest
  <2> QED BY <2>1 DEF Natural, Request
<1>7. f[id] = activeRequests[id].value
  BY <1>4
<1> HIDE DEF f, T
<1>8. f[id] <= SumOver(f, T)
  BY <1>4, <1>6, SumAtLeast
<1> QED BY <1>4, <1>5, <1>7, <1>8 DEF p

(***************************************************************************)
(* A request that is live can always be completed.                         *)
(***************************************************************************)
THEOREM BondCompletion == Spec => []CompletionCovered
<1> QED BY IInvCoversCompletion, BondIInvIsInvariant, PTL

(***************************************************************************)
(* The stake under the requests in flight is never withdrawn.              *)
(***************************************************************************)
THEOREM BondCover == Spec => []RequestsStayCovered
<1>1. IInv => RequestsStayCovered
  BY DEF IInv, Accounts
<1> QED BY <1>1, BondIInvIsInvariant, PTL

-----------------------------------------------------------------------------
(***************************************************************************)
(* The only call that takes a bond down without slashing it is             *)
(* executeWithdrawal.                                                      *)
(***************************************************************************)
LEMMA OnlyWithdrawalsShrinkBonds ==
  ASSUME Shape, NEW p \in Providers, [Next]_vars,
         bonds'[p].bondedAmount + bonds'[p].totalSlashed
           < bonds[p].bondedAmount + bonds[p].totalSlashed
  PROVE  ExecuteWithdrawal(p)
<1>1. bonds \in [Providers -> Bond] /\ bonds[p] \in Bond
  BY DEF Shape, TypeOK
<1>2. bonds'[p] # bonds[p]
  BY <1>1 DEF Bond
<1>3. PICK q \in Providers : ProviderStep(q) \/ OverseerStep(q) \/ EscrowStep(q)
  BY <1>2 DEF Next, AdminStep, SetInsuranceFund, Pause, Unpause, requestVars,
              vars, bondVars
<1>4. ASSUME NEW amount \in BondAmounts, NEW maxValue \in RequestValues,
             RegisterProvider(q, amount, maxValue)
      PROVE  FALSE
  <2>1. q = p
    BY <1>1, <1>2, <1>4 DEF RegisterProvider
  <2>2. bonds[p] = NoBond
    BY <1>4, <2>1 DEF RegisterProvider, Shape, UnregisteredIsEmpty
  <2>3. bonds'[p].bondedAmount = amount /\ bonds'[p].totalSlashed = 0
    BY <1>1, <1>4, <2>1 DEF RegisterProvider, NewBond
  <2> QED BY <2>2, <2>3, NoBondIsEmpty, BondConstants
<1>5. ASSUME NEW amount \in SlashAmounts, SlashProvider(q, amount) PROVE FALSE
  <2> DEFINE cut == IF amount > bonds[q].bondedAmount
                    THEN bonds[q].bondedAmount ELSE amount
  <2>1. q = p
    BY <1>1, <1>2, <1>5 DEF SlashProvider
  <2>2. cut \in Nat
    BY <1>1, <2>1, BondConstants DEF Bond
  <2>3. /\ bonds'[p].bondedAmount = bonds[p].bondedAmount - cut
        /\ bonds'[p].totalSlashed = bonds[p].totalSlashed + cut
    BY <1>1, <1>5, <2>1 DEF SlashProvider, Bond
  <2> HIDE DEF cut
  <2> QED BY <1>1, <2>2, <2>3 DEF Bond
<1>6. ASSUME NEW amount \in BondAmounts, IncreaseBond(q, amount) PROVE FALSE
  BY <1>1, <1>6, BondConstants DEF IncreaseBond, Bond
<1>7. ASSUME bonds' = [bonds EXCEPT ![q] = bonds'[q]],
             bonds'[q].bondedAmount = bonds[q].bondedAmount,
             bonds'[q].totalSlashed = bonds[q].totalSlashed
      PROVE  FALSE
  BY <1>1, <1>7 DEF Bond
<1>8. ASSUME NEW amount \in BondAmounts, RequestWithdrawal(q, amount) PROVE FALSE
  BY <1>1, <1>7, <1>8 DEF RequestWithdrawal, Bond
<1>9. ASSUME NEW maxValue \in RequestValues, UpdateMaxRequestValue(q, maxValue)
      PROVE FALSE
  BY <1>1, <1>7, <1>9 DEF UpdateMaxRequestValue, Bond
<1>10. ASSUME CancelWithdrawal(q) \/ Deactivate(q) \/ Reactivate(q) PROVE FALSE
  BY <1>1, <1>7, <1>10 DEF CancelWithdrawal, Deactivate, Reactivate, Bond
<1>11. ASSUME NEW amount \in CollateralAmounts,
              LockHardwareCollateral(q, amount) \/ UnlockHardwareCollateral(q, amount)
       PROVE  FALSE
  BY <1>1, <1>7, <1>11
     DEF LockHardwareCollateral, UnlockHardwareCollateral, Bond
<1>12. ASSUME EscrowStep(q) PROVE FALSE
  <2>1. bonds[q] \in Bond
    BY <1>1
  <2>2. ASSUME NEW id \in EscrowIds, NEW value \in RequestValues,
               AcceptRequest(q, id, value)
        PROVE  FALSE
    BY <1>1, <1>7, <2>1, <2>2 DEF AcceptRequest, Bond
  <2>3. ASSUME NEW id \in EscrowIds, CompleteRequest(q, id) PROVE FALSE
    BY <1>1, <1>7, <2>1, <2>3 DEF CompleteRequest, MayComplete, Bond
  <2>4. ASSUME NEW value \in RequestValues, CompensateProvider(q, value)
        PROVE  FALSE
    BY <1>1, <1>7, <2>1, <2>4 DEF CompensateProvider, Bond
  <2> QED BY <1>12, <2>2, <2>3, <2>4 DEF EscrowStep
<1>13. ExecuteWithdrawal(q)
  BY <1>3, <1>4, <1>5, <1>6, <1>8, <1>9, <1>10, <1>11, <1>12
     DEF ProviderStep, OverseerStep
<1> QED BY <1>1, <1>2, <1>13 DEF ExecuteWithdrawal, Withdrawable

(***************************************************************************)
(* A bond leaves only after its delay and only when its provider has no    *)
(* request in flight, for any number of requests, slashes and top-ups.     *)
(***************************************************************************)
THEOREM BondDelayServed == Spec => DelayServed
<1>1. IInv /\ [Next]_vars =>
        \A p \in Providers :
          bonds'[p].bondedAmount + bonds'[p].totalSlashed
            < bonds[p].bondedAmount + bonds[p].totalSlashed
            => /\ now >= bonds[p].withdrawalUnlockTime
               /\ RequestsOf(p) = {}
  BY OnlyWithdrawalsShrinkBonds, RequestsOfFinite
     DEF ExecuteWithdrawal, Withdrawable, IInv, Shape, RequestsCounted
<1> QED BY <1>1, BondIInvIsInvariant, PTL DEF Spec, DelayServed
=============================================================================
