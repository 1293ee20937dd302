----------------------------- MODULE VDSOProofs -----------------------------
(***************************************************************************)
(* The properties of the VDSO contracts and their refinement, proved from  *)
(* one inductive invariant.  Most steps touch none of the tables the       *)
(* invariant relates (coreVars); the proofs first say what the others do.  *)
(***************************************************************************)
EXTENDS VDSORefinement, TLAPS

coreVars == <<reservations, activeReservation, lastFencingToken, objects,
              receiptUsed, requests>>

\* A token is never above the last one handed out for its object.
TokensBounded ==
  \A r \in ReservationIds : Used(r) =>
    TokenOf(r) <= lastFencingToken[reservations[r].of.objectId]

\* A request applies its execution to the state it was signed for.
RequestsApplyOne ==
  \A q \in requests :
    q.transition.newStateRoot = Append(q.transition.preStateRoot, q.executionId)

IInv ==
  /\ TypeOK
  /\ LockMatchesReservation
  /\ TokensBounded
  /\ FencingTokensAscend
  /\ RequestsApplyOne
  /\ NoLostUpdate
  /\ CommittedAsReserved

-----------------------------------------------------------------------------
\* What the tables hold.
LEMMA ReservationShape ==
  ASSUME TypeOK, NEW r \in ReservationIds, Used(r)
  PROVE  /\ reservations[r].of \in Manager!Details
         /\ reservations[r].status \in
              {"RESERVED", "RECOVERY_PENDING", "ABORTED", "COMMITTED"}
         /\ reservations[r].status # "COMMITTED" => reservations[r] \in Manager!Open
         /\ reservations[r].status = "COMMITTED" => reservations[r] \in Manager!Committed
<1>1. reservations[r] \in Manager!Open \cup Manager!Committed
  BY DEF TypeOK, Manager!ManagerTypeOK, Manager!Reservation, Used,
         Manager!NoReservationYet
<1> QED BY <1>1 DEF Manager!Open, Manager!Committed

LEMMA RequestShape ==
  ASSUME TypeOK, NEW q \in requests
  PROVE  /\ q.executionId \in ExecutionIds
         /\ q.reservationId \in ReservationIds \cup {NoReservation}
         /\ q.recovery \in BOOLEAN
         /\ q.transition \in Transitions
BY DEF TypeOK, TransitionRequest

-----------------------------------------------------------------------------
(***************************************************************************)
(* What the steps do to the tables.                                        *)
(***************************************************************************)

\* A reservation is opened on a free object, in the object's domain, with
\* the next token.
Opened(r, of) ==
  LET o == of.objectId
  IN  /\ ~Used(r)
      /\ Store!DomainFits(o, of.domainId)
      /\ activeReservation[o] = NoReservation
      /\ of.fencingToken = lastFencingToken[o] + 1
      /\ lastFencingToken' =
           [lastFencingToken EXCEPT ![o] = lastFencingToken[o] + 1]
      /\ activeReservation' = [activeReservation EXCEPT ![o] = r]
      /\ reservations' =
           [reservations EXCEPT ![r] = [status |-> "RESERVED", of |-> of]]
      /\ UNCHANGED <<objects, receiptUsed, requests>>

CommittedBy(q) ==
  [status |-> "COMMITTED", of |-> reservations[q.reservationId].of,
   transition |-> q.transition]

\* An execution is applied to the object it was computed from, and the
\* reservation it needs, if the object has one, is committed with it.
Executed(q) ==
  LET t == q.transition
      o == t.objectId
      r == q.reservationId
  IN  /\ q.executionId \notin receiptUsed
      /\ receiptUsed' = receiptUsed \cup {q.executionId}
      /\ t.newStateRoot = Append(objects[o].root, q.executionId)
      /\ objects' = [objects EXCEPT ![o] =
           [domain |-> t.domainId, root |-> t.newStateRoot,
            version |-> objects[o].version + 1]]
      /\ UNCHANGED <<lastFencingToken, requests>>
      /\ activeReservation[o] = r
      /\ \/ r = NoReservation /\ UNCHANGED <<reservations, activeReservation>>
         \/ /\ r \in ReservationIds
            /\ OpenOn(o, r)
            /\ ReservedFor(r, t)
            /\ reservations' = [reservations EXCEPT ![r] = CommittedBy(q)]
            /\ activeReservation' =
                 [activeReservation EXCEPT ![o] = NoReservation]

Signed(q) ==
  /\ q.transition.newStateRoot = Append(q.transition.preStateRoot, q.executionId)
  /\ requests' = requests \cup {q}
  /\ UNCHANGED <<reservations, activeReservation, lastFencingToken, objects,
                 receiptUsed>>

\* Expiry leaves the object locked; an abort lets go of it.
Recovered(r) ==
  LET o == reservations[r].of.objectId
  IN  /\ OpenOn(o, r)
      /\ reservations[r] \in Manager!Open
      /\ UNCHANGED <<lastFencingToken, objects, receiptUsed, requests>>
      /\ \/ /\ reservations' = [reservations EXCEPT ![r] =
                [status |-> "RECOVERY_PENDING", of |-> reservations[r].of]]
            /\ UNCHANGED activeReservation
         \/ /\ reservations' = [reservations EXCEPT ![r] =
                [status |-> "ABORTED", of |-> reservations[r].of]]
            /\ activeReservation' =
                 [activeReservation EXCEPT ![o] = NoReservation]

LEMMA CoreStep ==
  ASSUME TypeOK, [Next]_vars
  PROVE  \/ UNCHANGED coreVars
         \/ \E k \in Kernels, r \in ReservationIds, o \in Objects, d \in Domains,
               i \in Intents, holder \in Executors, term \in ReservationTerms :
              BeginReservation(k, r, o, d, i, holder, now + term,
                               authorities[d].epoch)
         \/ \E k \in Kernels, x \in Executors, q \in requests,
               candidates \in SUBSET AdapterIds, a \in AdapterIds :
              ExecuteTransition(k, x, q, candidates, a)
         \/ \E e \in ExecutionIds, o \in Objects, d \in Domains, i \in Intents,
               p \in ProgramIds, v \in VerifierIds,
               r \in ReservationIds \cup {NoReservation}, recovery \in BOOLEAN :
              SignRequest(e, o, d, i, p, v, r, recovery)
         \/ \E r \in ReservationIds : MarkRecoveryPending(r) \/ AbortRecovery(r)
<1>1. CASE UNCHANGED vars
  BY <1>1 DEF vars, coreVars, storeVars, managerVars, proofVars
<1>2. CASE ExecutorStep
  BY <1>2 DEF ExecutorStep
<1>3. CASE ClientStep
  BY <1>3 DEF ClientStep
<1>4. CASE \E r \in ReservationIds : MarkRecoveryPending(r) \/ AbortRecovery(r)
  BY <1>4
<1>5. CASE AuthorityStep
  <2>1. UNCHANGED objects
    BY <1>5 DEF AuthorityStep, Store!AssignDomainAuthority,
                Store!DisableDomainAuthority
  <2> QED BY <1>5, <2>1 DEF AuthorityStep, coreVars, managerVars, proofVars
<1>6. CASE AdmissionStep
  <2>1. UNCHANGED receiptUsed
    BY <1>6 DEF AdmissionStep, proofVars, Proofs!RegisterProgram,
                Proofs!DeactivateProgram, Proofs!ConfigureVerifier,
                Proofs!DisableVerifier
  <2> QED BY <1>6, <2>1 DEF AdmissionStep, coreVars, managerVars, storeVars
<1>7. CASE KernelPauseStep
  BY <1>7 DEF KernelPauseStep, coreVars, storeVars, managerVars, proofVars
<1>8. CASE PauseStep
  <2>1. UNCHANGED <<objects, reservations, activeReservation, lastFencingToken,
                    receiptUsed>>
    BY <1>8 DEF PauseStep, storeVars, managerVars, proofVars, Store!PauseStore,
                Manager!PauseManager, Proofs!PausePrograms, Proofs!PauseProofs
  <2> QED BY <1>8, <2>1 DEF PauseStep, coreVars
<1>9. CASE Tick
  BY <1>9 DEF Tick, coreVars, storeVars, managerVars, proofVars
<1> QED BY <1>1, <1>2, <1>3, <1>4, <1>5, <1>6, <1>7, <1>8, <1>9 DEF Next

LEMMA BeginEffect ==
  ASSUME TypeOK, NEW k \in Kernels, NEW r \in ReservationIds, NEW o \in Objects,
         NEW d \in Domains, NEW i \in Intents, NEW holder \in Executors,
         NEW term \in ReservationTerms,
         BeginReservation(k, r, o, d, i, holder, now + term, authorities[d].epoch)
  PROVE  \E of \in Manager!Details : Opened(r, of)
<1> DEFINE of == [objectId |-> o, domainId |-> d, intentId |-> i,
                  holder |-> holder, authorityEpoch |-> authorities[d].epoch,
                  fencingToken |-> lastFencingToken[o] + 1,
                  expiresAt |-> now + term]
<1>1. of \in Manager!Details
  <2>1. now + term \in Nat /\ lastFencingToken[o] \in Nat
    <3>1. now \in Nat /\ lastFencingToken[o] \in Nat
      BY DEF TypeOK, Manager!ManagerTypeOK
    <3>2. term \in Nat
      BY KernelConstants
    <3> QED BY <3>1, <3>2
  <2>2. authorities[d] \in Store!DomainAuthority
    BY DEF TypeOK, Store!StoreTypeOK
  <2> QED BY <2>1, <2>2 DEF Manager!Details, Store!DomainAuthority
<1>2. Opened(r, of)
  BY DEF Opened, BeginReservation, Manager!Reserve, Manager!Free, Used, storeVars,
         proofVars
<1> QED BY <1>1, <1>2

LEMMA ExecuteEffect ==
  ASSUME IInv, NEW k \in Kernels, NEW x \in Executors, NEW q \in requests,
         NEW candidates \in SUBSET AdapterIds, NEW a \in AdapterIds,
         ExecuteTransition(k, x, q, candidates, a)
  PROVE  Executed(q)
<1> DEFINE t == q.transition
           o == t.objectId
           r == q.reservationId
<1>1. q.executionId \notin receiptUsed /\ receiptUsed' = receiptUsed \cup {q.executionId}
  BY DEF ExecuteTransition, Proofs!VerifyAndRecord
<1>2. /\ t.newStateRoot = Append(objects[o].root, q.executionId)
      /\ objects' = [objects EXCEPT ![o] =
           [domain |-> t.domainId, root |-> t.newStateRoot,
            version |-> objects[o].version + 1]]
  BY DEF IInv, RequestsApplyOne, ExecuteTransition, ValidTransition,
         Store!WriteObject
<1>3. activeReservation[o] = r /\ UNCHANGED requests
  BY DEF ExecuteTransition, ValidReservation, LockFits
<1>4. CASE r = NoReservation
  <2>1. UNCHANGED managerVars
    BY <1>4 DEF ExecuteTransition, FinalizeReservation
  <2> QED BY <1>1, <1>2, <1>3, <1>4, <2>1 DEF managerVars, Executed
<1>5. CASE r # NoReservation
  <2>1. r \in ReservationIds
    BY <1>5, RequestShape DEF IInv
  <2>2. ReservedFor(r, t) /\ reservations[r].status \in {"RESERVED", "RECOVERY_PENDING"}
    BY <1>5 DEF ExecuteTransition, ValidReservation
  <2>3. reservations[r].of.objectId = o /\ OpenOn(o, r)
    BY <2>2 DEF ReservedFor, OpenOn
  <2>4. Manager!Settle(r, Manager!CommittedAs(r, t))
    <3>1. \/ Manager!FinalizeRecoveryCommit(r, t.fencingToken, t)
          \/ Manager!Commit(r, t.fencingToken, t)
      BY <1>5, RequestShape DEF IInv, ExecuteTransition, FinalizeReservation
    <3> QED BY <3>1 DEF Manager!FinalizeRecoveryCommit, Manager!Commit
  <2> QED BY <1>1, <1>2, <1>3, <2>1, <2>2, <2>3, <2>4
          DEF Manager!Settle, Manager!CommittedAs, Executed, CommittedBy
<1> QED BY <1>4, <1>5

LEMMA RecoveryEffect ==
  ASSUME TypeOK, NEW r \in ReservationIds, MarkRecoveryPending(r) \/ AbortRecovery(r)
  PROVE  Recovered(r)
<1>1. CASE MarkRecoveryPending(r)
  <2>1. reservations[r].status = "RESERVED" /\ Used(r)
    BY <1>1 DEF MarkRecoveryPending, Manager!MarkRecoveryPending, Used
  <2>2. reservations[r] \in Manager!Open
    BY <2>1, ReservationShape
  <2>3. [reservations[r] EXCEPT !.status = "RECOVERY_PENDING"] =
          [status |-> "RECOVERY_PENDING", of |-> reservations[r].of]
    BY <2>2 DEF Manager!Open
  <2>4. reservations' = [reservations EXCEPT ![r] =
          [reservations[r] EXCEPT !.status = "RECOVERY_PENDING"]]
    BY <1>1 DEF MarkRecoveryPending, Manager!MarkRecoveryPending
  <2> QED BY <1>1, <2>1, <2>2, <2>3, <2>4
          DEF MarkRecoveryPending, Manager!MarkRecoveryPending, OpenOn, storeVars,
              proofVars, Recovered
<1>2. CASE AbortRecovery(r)
  <2>1. reservations[r].status = "RECOVERY_PENDING" /\ Used(r)
    BY <1>2 DEF AbortRecovery, Manager!AbortRecovery, Manager!Abortable, Used
  <2>2. reservations[r] \in Manager!Open
    BY <2>1, ReservationShape
  <2>3. [reservations[r] EXCEPT !.status = "ABORTED"] =
          [status |-> "ABORTED", of |-> reservations[r].of]
    BY <2>2 DEF Manager!Open
  <2>4. Manager!Settle(r, [reservations[r] EXCEPT !.status = "ABORTED"])
    BY <1>2 DEF AbortRecovery, Manager!AbortRecovery
  <2> QED BY <1>2, <2>1, <2>2, <2>3, <2>4
          DEF AbortRecovery, Manager!Settle, OpenOn, storeVars, proofVars,
              Recovered
<1> QED BY <1>1, <1>2

LEMMA SignEffect ==
  ASSUME TypeOK, NEW e \in ExecutionIds, NEW o \in Objects, NEW d \in Domains,
         NEW i \in Intents, NEW p \in ProgramIds, NEW v \in VerifierIds,
         NEW r \in ReservationIds \cup {NoReservation}, NEW recovery \in BOOLEAN,
         SignRequest(e, o, d, i, p, v, r, recovery)
  PROVE  \E q \in TransitionRequest : Signed(q)
<1> DEFINE reserved == r # NoReservation
           t == [intentId |-> i, programId |-> p, objectId |-> o, domainId |-> d,
                 authorityEpoch |-> authorities[d].epoch,
                 reservationHolder |-> IF reserved THEN reservations[r].of.holder
                                       ELSE NoHolder,
                 preStateRoot |-> objects[o].root,
                 newStateRoot |-> Append(objects[o].root, e),
                 expectedObjectVersion |-> objects[o].version,
                 fencingToken |-> IF reserved THEN reservations[r].of.fencingToken
                                  ELSE 0]
           q == [executionId |-> e, reservationId |-> r, verifierId |-> v,
                 recovery |-> recovery, transition |-> t]
<1>1. authorities[d] \in Store!DomainAuthority /\ objects[o] \in Store!ObjectHeader
  BY DEF TypeOK, Store!StoreTypeOK
<1>2. reserved => reservations[r].of \in Manager!Details
  BY ReservationShape DEF SignRequest, Used
<1>3. /\ t.reservationHolder \in Executors \cup {NoHolder}
      /\ t.fencingToken \in Nat
  BY <1>2 DEF Manager!Details
<1>4. /\ t.preStateRoot \in Roots /\ t.newStateRoot \in Roots
      /\ t.expectedObjectVersion \in Nat /\ t.authorityEpoch \in Nat
  BY <1>1 DEF Roots, Store!ObjectHeader, Store!DomainAuthority
<1>5. t \in Transitions
  BY <1>3, <1>4 DEF Transitions
<1>6. q \in TransitionRequest
  <2> HIDE DEF t
  <2> QED BY <1>5 DEF TransitionRequest
<1>7. Signed(q)
  BY DEF SignRequest, Signed, storeVars, managerVars, proofVars
<1> QED BY <1>6, <1>7

LEMMA CoreEffect ==
  ASSUME IInv, [Next]_vars
  PROVE  \/ UNCHANGED coreVars
         \/ \E r \in ReservationIds, of \in Manager!Details : Opened(r, of)
         \/ \E q \in requests : Executed(q)
         \/ \E q \in TransitionRequest : Signed(q)
         \/ \E r \in ReservationIds : Recovered(r)
<1>0. TypeOK
  BY DEF IInv
<1>1. CASE \E k \in Kernels, r \in ReservationIds, o \in Objects, d \in Domains,
              i \in Intents, holder \in Executors, term \in ReservationTerms :
             BeginReservation(k, r, o, d, i, holder, now + term,
                              authorities[d].epoch)
  BY <1>0, <1>1, BeginEffect
<1>2. CASE \E k \in Kernels, x \in Executors, q \in requests,
              candidates \in SUBSET AdapterIds, a \in AdapterIds :
             ExecuteTransition(k, x, q, candidates, a)
  BY <1>2, ExecuteEffect
<1>3. CASE \E e \in ExecutionIds, o \in Objects, d \in Domains, i \in Intents,
              p \in ProgramIds, v \in VerifierIds,
              r \in ReservationIds \cup {NoReservation}, recovery \in BOOLEAN :
             SignRequest(e, o, d, i, p, v, r, recovery)
  BY <1>0, <1>3, SignEffect
<1>4. CASE \E r \in ReservationIds : MarkRecoveryPending(r) \/ AbortRecovery(r)
  BY <1>0, <1>4, RecoveryEffect
<1> QED BY <1>0, <1>1, <1>2, <1>3, <1>4, CoreStep

-----------------------------------------------------------------------------
\* Types.
LEMMA StoreTypes ==
  ASSUME IInv, [Next]_vars
  PROVE  Store!StoreTypeOK'
<1> USE DEF Store!StoreTypeOK
<1>0. Store!StoreTypeOK /\ TypeOK
  BY DEF IInv, TypeOK
<1>1. ASSUME NEW k \in Kernels, NEW x \in Executors, NEW q \in requests,
             NEW candidates \in SUBSET AdapterIds, NEW a \in AdapterIds,
             ExecuteTransition(k, x, q, candidates, a)
      PROVE  Store!StoreTypeOK'
  <2> DEFINE t == q.transition
  <2>1. t \in Transitions
    BY <1>0, RequestShape
  <2>2. objects' = [objects EXCEPT ![t.objectId] =
           [domain |-> t.domainId, root |-> t.newStateRoot,
            version |-> objects[t.objectId].version + 1]]
    <3>1. Executed(q)
      BY <1>1, ExecuteEffect
    <3> QED BY <3>1 DEF Executed
  <2>3. objects[t.objectId].version \in Nat
    BY <1>0, <2>1 DEF Transitions, Store!ObjectHeader
  <2>4. objects' \in [Objects -> Store!ObjectHeader]
    <3> DEFINE new == [domain |-> t.domainId, root |-> t.newStateRoot,
                       version |-> objects[t.objectId].version + 1]
    <3>1. new \in Store!ObjectHeader
      BY <2>1, <2>3 DEF Transitions, Roots, Store!ObjectHeader
    <3>2. t.objectId \in Objects /\ objects' = [objects EXCEPT ![t.objectId] = new]
      BY <2>1, <2>2 DEF Transitions
    <3> HIDE DEF new, t
    <3> QED BY <1>0, <3>1, <3>2
  <2>5. UNCHANGED <<authorities, storePaused>>
    BY <1>1 DEF ExecuteTransition, Store!WriteObject
  <2> QED BY <1>0, <2>4, <2>5
<1>2. CASE AuthorityStep
  <2>1. PICK d \in Domains :
          \/ \E host \in Store!Hosts, writer \in Kernels :
               Store!AssignDomainAuthority(d, host, writer)
          \/ Store!DisableDomainAuthority(d)
    BY <1>2 DEF AuthorityStep
  <2>2. authorities[d] \in Store!DomainAuthority
    BY <1>0
  <2>3. ASSUME NEW host \in Store!Hosts, NEW writer \in Kernels,
               Store!AssignDomainAuthority(d, host, writer)
        PROVE  Store!StoreTypeOK'
    <3>1. authorities' = [authorities EXCEPT ![d] =
            [host |-> host, writer |-> writer,
             epoch |-> authorities[d].epoch + 1, enabled |-> TRUE]]
      BY <2>3 DEF Store!AssignDomainAuthority
    <3>2. authorities' \in [Domains -> Store!DomainAuthority]
      BY <1>0, <2>2, <3>1 DEF Store!DomainAuthority, Store!Hosts
    <3> QED BY <1>0, <2>3, <3>2 DEF Store!AssignDomainAuthority
  <2>4. CASE Store!DisableDomainAuthority(d)
    <3>1. authorities' \in [Domains -> Store!DomainAuthority]
      BY <1>0, <2>2, <2>4 DEF Store!DisableDomainAuthority, Store!DomainAuthority
    <3> QED BY <1>0, <2>4, <3>1 DEF Store!DisableDomainAuthority
  <2> QED BY <2>1, <2>3, <2>4
<1>3. CASE PauseStep
  BY <1>0, <1>3 DEF PauseStep, storeVars, Store!PauseStore
<1>4. ASSUME UNCHANGED storeVars
      PROVE  Store!StoreTypeOK'
  BY <1>0, <1>4 DEF storeVars
<1>5. CASE ExecutorStep
  BY <1>1, <1>4, <1>5 DEF ExecutorStep, BeginReservation
<1>6. CASE ClientStep \/ \E r \in ReservationIds : MarkRecoveryPending(r) \/ AbortRecovery(r)
  BY <1>4, <1>6 DEF ClientStep, SignRequest, MarkRecoveryPending, AbortRecovery
<1>7. CASE AdmissionStep \/ KernelPauseStep \/ Tick \/ UNCHANGED vars
  BY <1>4, <1>7 DEF AdmissionStep, KernelPauseStep, Tick, vars
<1> QED BY <1>2, <1>3, <1>5, <1>6, <1>7 DEF Next

TablesOK ==
  /\ reservations \in [ReservationIds -> Manager!Reservation]
  /\ activeReservation \in [Objects -> ReservationIds \cup {NoReservation}]
  /\ lastFencingToken \in [Objects -> Nat]

LEMMA ManagerTypes ==
  ASSUME IInv, [Next]_vars
  PROVE  Manager!ManagerTypeOK'
<1> USE DEF Manager!ManagerTypeOK, TablesOK
<1>0. Manager!ManagerTypeOK /\ TypeOK
  BY DEF IInv, TypeOK
<1>1. now' \in Nat /\ managerPaused' \in BOOLEAN
  <2>1. now' = now \/ now' = now + 1
    <3>1. CASE ExecutorStep \/ ClientStep
      BY <3>1 DEF ExecutorStep, BeginReservation, ExecuteTransition, ClientStep,
                  SignRequest
    <3>2. CASE \E r \in ReservationIds : MarkRecoveryPending(r) \/ AbortRecovery(r)
      BY <3>2 DEF MarkRecoveryPending, AbortRecovery
    <3>3. CASE AuthorityStep \/ AdmissionStep \/ KernelPauseStep \/ PauseStep
      BY <3>3 DEF AuthorityStep, AdmissionStep, KernelPauseStep, PauseStep
    <3>4. CASE Tick \/ UNCHANGED vars
      BY <3>4 DEF Tick, Manager!Tick, vars
    <3> QED BY <3>1, <3>2, <3>3, <3>4 DEF Next
  <2>2. managerPaused' \in BOOLEAN
    <3>1. ASSUME NEW k \in Kernels, NEW x \in Executors, NEW q \in requests,
                 NEW candidates \in SUBSET AdapterIds, NEW a \in AdapterIds,
                 ExecuteTransition(k, x, q, candidates, a)
          PROVE  UNCHANGED managerPaused
      BY <1>0, <3>1, RequestShape
         DEF ExecuteTransition, FinalizeReservation, Manager!Commit,
             Manager!FinalizeRecoveryCommit, Manager!Settle, managerVars
    <3>2. CASE ExecutorStep
      BY <1>0, <3>1, <3>2 DEF ExecutorStep, BeginReservation, Manager!Reserve
    <3>3. CASE \E r \in ReservationIds : MarkRecoveryPending(r) \/ AbortRecovery(r)
      BY <1>0, <3>3 DEF MarkRecoveryPending, AbortRecovery, Manager!Settle,
                        Manager!MarkRecoveryPending, Manager!AbortRecovery
    <3>4. CASE PauseStep
      BY <1>0, <3>4 DEF PauseStep, Manager!PauseManager, managerVars
    <3>5. CASE ClientStep \/ AuthorityStep \/ AdmissionStep
      BY <1>0, <3>5 DEF ClientStep, SignRequest, AuthorityStep, AdmissionStep,
                        managerVars
    <3>6. CASE KernelPauseStep \/ Tick \/ UNCHANGED vars
      BY <1>0, <3>6 DEF KernelPauseStep, Tick, vars, managerVars
    <3> QED BY <3>2, <3>3, <3>4, <3>5, <3>6 DEF Next
  <2> QED BY <1>0, <2>1, <2>2
<1>2. TablesOK'
  <2>1. CASE UNCHANGED coreVars
    BY <1>0, <2>1 DEF coreVars
  <2>2. ASSUME NEW r \in ReservationIds, NEW of \in Manager!Details, Opened(r, of)
        PROVE  TablesOK'
    <3> DEFINE new == [status |-> "RESERVED", of |-> of]
    <3>1. new \in Manager!Reservation
      BY DEF Manager!Reservation, Manager!Open
    <3>2. of.objectId \in Objects /\ lastFencingToken[of.objectId] \in Nat
      BY <1>0 DEF Manager!Details
    <3>3. reservations' = [reservations EXCEPT ![r] = new]
      BY <2>2 DEF Opened
    <3>4. reservations' \in [ReservationIds -> Manager!Reservation]
      <4> HIDE DEF new
      <4> QED BY <1>0, <3>1, <3>3
    <3> QED BY <1>0, <2>2, <3>2, <3>4 DEF Opened
  <2>3. ASSUME NEW q \in requests, Executed(q)
        PROVE  TablesOK'
    <3> DEFINE r == q.reservationId
    <3>1. CASE UNCHANGED <<reservations, activeReservation>>
      BY <1>0, <2>3, <3>1 DEF Executed
    <3>2. CASE /\ r \in ReservationIds
               /\ OpenOn(q.transition.objectId, r)
               /\ reservations' = [reservations EXCEPT ![r] = CommittedBy(q)]
               /\ activeReservation' = [activeReservation EXCEPT
                                          ![q.transition.objectId] = NoReservation]
      <4>1. reservations[r].of \in Manager!Details
        BY <1>0, <3>2, ReservationShape DEF OpenOn, Used
      <4>2. CommittedBy(q) \in Manager!Reservation
        BY <1>0, <4>1, RequestShape
           DEF Manager!Reservation, Manager!Committed, CommittedBy
      <4>3. reservations' \in [ReservationIds -> Manager!Reservation]
        BY <1>0, <3>2, <4>2
      <4> QED BY <1>0, <2>3, <3>2, <4>3 DEF Executed
    <3> QED BY <2>3, <3>1, <3>2 DEF Executed
  <2>4. ASSUME NEW r \in ReservationIds, Recovered(r)
        PROVE  TablesOK'
    <3>1. \A status \in {"RECOVERY_PENDING", "ABORTED"} :
            [status |-> status, of |-> reservations[r].of] \in Manager!Reservation
      BY <2>4 DEF Recovered, Manager!Reservation, Manager!Open
    <3>2. \E status \in {"RECOVERY_PENDING", "ABORTED"} :
            reservations' = [reservations EXCEPT ![r] =
                              [status |-> status, of |-> reservations[r].of]]
      BY <2>4 DEF Recovered
    <3>3. reservations' \in [ReservationIds -> Manager!Reservation]
      BY <1>0, <3>1, <3>2
    <3> QED BY <1>0, <2>4, <3>3 DEF Recovered
  <2>5. CASE \E q \in TransitionRequest : Signed(q)
    BY <1>0, <2>5 DEF Signed
  <2> HIDE DEF TablesOK, Manager!ManagerTypeOK
  <2> QED BY <2>1, <2>2, <2>3, <2>4, <2>5, CoreEffect
<1> QED BY <1>1, <1>2
LEMMA AdapterTypes ==
  ASSUME IInv, [Next]_vars
  PROVE  Adapters!AdapterTypeOK'
<1> USE DEF Adapters!AdapterTypeOK
<1>0. Adapters!AdapterTypeOK /\ now \in Nat
  BY DEF IInv, TypeOK, Manager!ManagerTypeOK
<1>1. CASE AdmissionStep
  <2>1. ASSUME NEW a \in AdapterIds, NEW life \in Lifetimes,
               \/ Adapters!ProposeAdapter(a, now + life)
               \/ Adapters!ScheduleReactivation(a, now + life)
        PROVE  Adapters!AdapterTypeOK'
    <3>1. adapters' = [adapters EXCEPT ![a] = Adapters!Pending(a, now + life)]
      BY <2>1 DEF Adapters!ProposeAdapter, Adapters!ScheduleReactivation,
                  Adapters!Schedule
    <3>2. life \in Nat /\ ACTIVATION_DELAY \in Nat
      BY KernelConstants
    <3>3. Adapters!Pending(a, now + life) \in Adapters!AdapterConfig
      BY <1>0, <3>2 DEF Adapters!Pending, Adapters!AdapterConfig
    <3>4. adapters' \in [AdapterIds -> Adapters!AdapterConfig]
      BY <1>0, <3>1, <3>3
    <3> QED BY <1>0, <2>1, <3>4
            DEF Adapters!ProposeAdapter, Adapters!ScheduleReactivation,
                Adapters!Schedule
  <2>2. ASSUME NEW a \in AdapterIds,
               \/ Adapters!ActivateAdapter(a) \/ Adapters!QuarantineAdapter(a)
               \/ Adapters!RetireAdapter(a)
        PROVE  Adapters!AdapterTypeOK'
    <3>1. PICK status \in {"ACTIVE", "QUARANTINED", "RETIRED"} :
            adapters' = [adapters EXCEPT ![a].status = status]
      BY <2>2 DEF Adapters!ActivateAdapter, Adapters!QuarantineAdapter,
                  Adapters!RetireAdapter
    <3>2. adapters' \in [AdapterIds -> Adapters!AdapterConfig]
      BY <1>0, <3>1 DEF Adapters!AdapterConfig
    <3> QED BY <1>0, <2>2, <3>2
            DEF Adapters!ActivateAdapter, Adapters!QuarantineAdapter,
                Adapters!RetireAdapter
  <2>3. ASSUME NEW a \in AdapterIds, Adapters!ChangeCode(a)
        PROVE  Adapters!AdapterTypeOK'
    BY <1>0, <2>3 DEF Adapters!ChangeCode
  <2>4. CASE UNCHANGED adapterVars
    BY <1>0, <2>4 DEF adapterVars
  <2> QED BY <1>1, <2>1, <2>2, <2>3, <2>4 DEF AdmissionStep
<1>2. CASE PauseStep
  BY <1>0, <1>2 DEF PauseStep, adapterVars, Adapters!PauseAdapters,
                    Adapters!PauseRouter
<1>3. CASE ExecutorStep \/ ClientStep
  BY <1>0, <1>3 DEF ExecutorStep, BeginReservation, ExecuteTransition, ClientStep,
                    SignRequest, adapterVars
<1>4. CASE \E r \in ReservationIds : MarkRecoveryPending(r) \/ AbortRecovery(r)
  BY <1>0, <1>4 DEF MarkRecoveryPending, AbortRecovery, adapterVars
<1>5. CASE AuthorityStep \/ KernelPauseStep \/ Tick \/ UNCHANGED vars
  BY <1>0, <1>5 DEF AuthorityStep, KernelPauseStep, Tick, vars, adapterVars
<1> QED BY <1>1, <1>2, <1>3, <1>4, <1>5 DEF Next

LEMMA ProofTypes ==
  ASSUME IInv, [Next]_vars
  PROVE  Proofs!ProofTypeOK'
<1> USE DEF Proofs!ProofTypeOK
<1>0. Proofs!ProofTypeOK /\ TypeOK
  BY DEF IInv, TypeOK
<1>1. CASE AdmissionStep
  <2>1. ASSUME NEW p \in ProgramIds, NEW v \in VerifierIds,
               Proofs!RegisterProgram(p, v)
        PROVE  Proofs!ProofTypeOK'
    BY <1>0, <2>1 DEF Proofs!RegisterProgram, Proofs!ProgramConfig
  <2>2. ASSUME NEW p \in ProgramIds, Proofs!DeactivateProgram(p)
        PROVE  Proofs!ProofTypeOK'
    BY <1>0, <2>2 DEF Proofs!DeactivateProgram, Proofs!ProgramConfig
  <2>3. ASSUME NEW v \in VerifierIds,
               Proofs!ConfigureVerifier(v) \/ Proofs!DisableVerifier(v)
        PROVE  Proofs!ProofTypeOK'
    BY <1>0, <2>3 DEF Proofs!ConfigureVerifier, Proofs!DisableVerifier
  <2>4. CASE UNCHANGED proofVars
    BY <1>0, <2>4 DEF proofVars
  <2> QED BY <1>1, <2>1, <2>2, <2>3, <2>4 DEF AdmissionStep
<1>2. CASE PauseStep
  BY <1>0, <1>2 DEF PauseStep, proofVars, Proofs!PausePrograms, Proofs!PauseProofs
<1>3. CASE ExecutorStep
  <2>1. ASSUME NEW k \in Kernels, NEW x \in Executors, NEW q \in requests,
               NEW candidates \in SUBSET AdapterIds, NEW a \in AdapterIds,
               ExecuteTransition(k, x, q, candidates, a)
        PROVE  Proofs!ProofTypeOK'
    BY <1>0, <2>1, RequestShape DEF ExecuteTransition, Proofs!VerifyAndRecord
  <2> QED BY <1>0, <1>3, <2>1 DEF ExecutorStep, BeginReservation, proofVars
<1>4. CASE ClientStep \/ \E r \in ReservationIds : MarkRecoveryPending(r) \/ AbortRecovery(r)
  BY <1>0, <1>4 DEF ClientStep, SignRequest, MarkRecoveryPending, AbortRecovery,
                    proofVars
<1>5. CASE AuthorityStep \/ KernelPauseStep \/ Tick \/ UNCHANGED vars
  BY <1>0, <1>5 DEF AuthorityStep, KernelPauseStep, Tick, vars, proofVars
<1> QED BY <1>1, <1>2, <1>3, <1>4, <1>5 DEF Next

KernelTablesOK ==
  /\ executionAdapter \in [Kernels -> [ExecutionIds -> AdapterIds \cup {NoAdapter}]]
  /\ kernelPaused \in [Kernels -> BOOLEAN]

LEMMA KernelTypes ==
  ASSUME IInv, [Next]_vars
  PROVE  KernelTablesOK' /\ requests' \subseteq TransitionRequest
<1> USE DEF KernelTablesOK
<1>0. KernelTablesOK /\ requests \subseteq TransitionRequest /\ TypeOK
  BY DEF IInv, TypeOK
<1>1. requests' \subseteq TransitionRequest
  BY <1>0, CoreEffect DEF coreVars, Opened, Executed, Signed, Recovered
<1>2. KernelTablesOK'
  <2>1. ASSUME NEW k \in Kernels, NEW x \in Executors, NEW q \in requests,
               NEW candidates \in SUBSET AdapterIds, NEW a \in AdapterIds,
               ExecuteTransition(k, x, q, candidates, a)
        PROVE  KernelTablesOK'
    BY <1>0, <2>1, RequestShape DEF ExecuteTransition
  <2>2. CASE ExecutorStep
    BY <1>0, <2>1, <2>2 DEF ExecutorStep, BeginReservation, kernelVars
  <2>3. CASE ClientStep \/ \E r \in ReservationIds : MarkRecoveryPending(r) \/ AbortRecovery(r)
    BY <1>0, <2>3 DEF ClientStep, SignRequest, MarkRecoveryPending, AbortRecovery,
                      kernelVars
  <2>4. CASE KernelPauseStep
    BY <1>0, <2>4 DEF KernelPauseStep, PauseKernel
  <2>5. CASE AuthorityStep \/ AdmissionStep \/ PauseStep \/ Tick \/ UNCHANGED vars
    BY <1>0, <2>5 DEF AuthorityStep, AdmissionStep, PauseStep, Tick, vars, kernelVars
  <2> QED BY <2>2, <2>3, <2>4, <2>5 DEF Next
<1> QED BY <1>1, <1>2

LEMMA StepKeepsTypes ==
  ASSUME IInv, [Next]_vars
  PROVE  TypeOK'
BY StoreTypes, ManagerTypes, AdapterTypes, ProofTypes, KernelTypes
DEF TypeOK, KernelTablesOK
-----------------------------------------------------------------------------
(***************************************************************************)
(* The tables stay related.  A step changes one reservation at most.       *)
(***************************************************************************)
LEMMA OthersKept ==
  ASSUME TypeOK, NEW r \in ReservationIds, NEW new,
         reservations' = [reservations EXCEPT ![r] = new]
  PROVE  /\ reservations'[r] = new
         /\ \A s \in ReservationIds \ {r} : reservations'[s] = reservations[s]
BY DEF TypeOK, Manager!ManagerTypeOK

LEMMA LocksKept ==
  ASSUME TypeOK, NEW o \in Objects, NEW new,
         activeReservation' = [activeReservation EXCEPT ![o] = new]
  PROVE  /\ activeReservation'[o] = new
         /\ \A p \in Objects \ {o} : activeReservation'[p] = activeReservation[p]
BY DEF TypeOK, Manager!ManagerTypeOK

LEMMA NoReservationIsNone == NoReservation \notin ReservationIds
BY KernelConstants

\* The object is let go of as its reservation ends.
LEMMA EndingKeepsLock ==
  ASSUME IInv, NEW r \in ReservationIds, NEW new, NEW o \in Objects, OpenOn(o, r),
         new.status \notin {"RESERVED", "RECOVERY_PENDING"},
         reservations' = [reservations EXCEPT ![r] = new],
         activeReservation' = [activeReservation EXCEPT ![o] = NoReservation]
  PROVE  LockMatchesReservation'
<1>1. SUFFICES ASSUME NEW p \in Objects, NEW s \in ReservationIds
               PROVE  activeReservation'[p] = s <=> OpenOn(p, s)'
  BY DEF LockMatchesReservation
<1>2. /\ activeReservation[p] = s <=> OpenOn(p, s)
      /\ activeReservation[o] = r
      /\ activeReservation[p] = r => p = o
  BY <1>1 DEF IInv, LockMatchesReservation, OpenOn
<1>3. TypeOK
  BY DEF IInv
<1>4. /\ reservations'[r] = new
      /\ \A s2 \in ReservationIds \ {r} : reservations'[s2] = reservations[s2]
  BY <1>3, OthersKept
<1>5. /\ activeReservation'[o] = NoReservation
      /\ \A p2 \in Objects \ {o} : activeReservation'[p2] = activeReservation[p2]
  BY <1>3, LocksKept
<1>6. CASE s = r
  <2>1. ~OpenOn(p, s)'
    BY <1>4, <1>6 DEF OpenOn
  <2>2. activeReservation'[p] # r
    BY <1>1, <1>2, <1>5, NoReservationIsNone
  <2> QED BY <1>6, <2>1, <2>2
<1>7. CASE s # r
  <2>1. OpenOn(p, s)' <=> OpenOn(p, s)
    BY <1>1, <1>4, <1>7 DEF OpenOn
  <2>2. activeReservation'[p] = s <=> activeReservation[p] = s
    BY <1>1, <1>2, <1>5, <1>7, NoReservationIsNone
  <2> QED BY <1>2, <2>1, <2>2
<1> QED BY <1>6, <1>7

LEMMA StepKeepsLock ==
  ASSUME IInv, [Next]_vars
  PROVE  LockMatchesReservation'
<1>0. TypeOK /\ LockMatchesReservation
  BY DEF IInv
<1>1. CASE UNCHANGED coreVars \/ \E q \in TransitionRequest : Signed(q)
  BY <1>0, <1>1 DEF coreVars, Signed, LockMatchesReservation, OpenOn
<1>2. ASSUME NEW r \in ReservationIds, NEW of \in Manager!Details, Opened(r, of)
      PROVE  LockMatchesReservation'
  <2> DEFINE o == of.objectId
             new == [status |-> "RESERVED", of |-> of]
  <2>1. o \in Objects
    BY DEF Manager!Details
  <2>2. SUFFICES ASSUME NEW p \in Objects, NEW s \in ReservationIds
                 PROVE  activeReservation'[p] = s <=> OpenOn(p, s)'
    BY DEF LockMatchesReservation
  <2>3. /\ activeReservation[p] = s <=> OpenOn(p, s)
        /\ activeReservation[p] # r
        /\ activeReservation[o] = NoReservation
    BY <1>0, <1>2, <2>2 DEF LockMatchesReservation, OpenOn, Opened, Used
  <2>4. /\ s # r => reservations'[s] = reservations[s]
        /\ reservations'[r] = new
        /\ p # o => activeReservation'[p] = activeReservation[p]
        /\ activeReservation'[o] = r
    <3>1. /\ reservations' = [reservations EXCEPT ![r] = new]
          /\ activeReservation' = [activeReservation EXCEPT ![o] = r]
      BY <1>2 DEF Opened
    <3>2. /\ reservations'[r] = new
          /\ \A s2 \in ReservationIds \ {r} : reservations'[s2] = reservations[s2]
      BY <1>0, <3>1, OthersKept
    <3>3. /\ activeReservation'[o] = r
          /\ \A p2 \in Objects \ {o} : activeReservation'[p2] = activeReservation[p2]
      BY <1>0, <2>1, <3>1, LocksKept
    <3> QED BY <2>2, <3>2, <3>3
  <2>5. CASE s = r
    BY <2>2, <2>3, <2>4, <2>5 DEF OpenOn
  <2>6. CASE s # r
    <3>1. OpenOn(p, s)' <=> OpenOn(p, s)
      BY <2>4, <2>6 DEF OpenOn
    <3>2. activeReservation'[p] = s <=> activeReservation[p] = s
      BY <2>2, <2>3, <2>4, <2>6, NoReservationIsNone
    <3> QED BY <2>3, <3>1, <3>2
  <2> QED BY <2>5, <2>6
<1>3. ASSUME NEW q \in requests, Executed(q)
      PROVE  LockMatchesReservation'
  <2>1. CASE UNCHANGED <<reservations, activeReservation>>
    BY <1>0, <2>1 DEF LockMatchesReservation, OpenOn
  <2>2. CASE ~UNCHANGED <<reservations, activeReservation>>
    <3>1. q.transition.objectId \in Objects
      BY <1>0, RequestShape DEF Transitions
    <3> QED BY <1>3, <2>2, <3>1, EndingKeepsLock DEF Executed, CommittedBy
  <2> QED BY <2>1, <2>2
<1>4. ASSUME NEW r \in ReservationIds, Recovered(r)
      PROVE  LockMatchesReservation'
  <2> DEFINE o == reservations[r].of.objectId
             new(status) == [status |-> status, of |-> reservations[r].of]
  <2>1. OpenOn(o, r) /\ o \in Objects
    BY <1>4 DEF Recovered, Manager!Open, Manager!Details
  <2>2. CASE /\ reservations' = [reservations EXCEPT ![r] = new("RECOVERY_PENDING")]
             /\ UNCHANGED activeReservation
    <3>1. \A p \in Objects, s \in ReservationIds : OpenOn(p, s)' <=> OpenOn(p, s)
      BY <1>0, <2>1, <2>2, OthersKept DEF OpenOn
    <3> QED BY <1>0, <2>2, <3>1 DEF LockMatchesReservation
  <2>3. CASE /\ reservations' = [reservations EXCEPT ![r] = new("ABORTED")]
             /\ activeReservation' = [activeReservation EXCEPT ![o] = NoReservation]
    BY <2>1, <2>3, EndingKeepsLock
  <2> QED BY <1>4, <2>2, <2>3 DEF Recovered
<1> QED BY <1>1, <1>2, <1>3, <1>4, CoreEffect

\* Nothing but opening a reservation touches what reservations are of.
SameOf ==
  /\ \A r \in ReservationIds : /\ Used(r)' <=> Used(r)
                               /\ Used(r) => reservations'[r].of = reservations[r].of
                               /\ \A o \in Objects : OpenOn(o, r)' => OpenOn(o, r)
  /\ lastFencingToken' = lastFencingToken

LEMMA OnlyOpeningChangesOf ==
  ASSUME IInv, [Next]_vars
  PROVE  \/ SameOf
         \/ \E r \in ReservationIds, of \in Manager!Details : Opened(r, of)
<1>0. TypeOK
  BY DEF IInv
<1>1. CASE UNCHANGED coreVars \/ \E q \in TransitionRequest : Signed(q)
  BY <1>1 DEF coreVars, Signed, SameOf, Used, OpenOn
<1>2. ASSUME NEW q \in requests, Executed(q)
      PROVE  SameOf
  <2>1. CASE UNCHANGED reservations
    BY <1>2, <2>1 DEF SameOf, Used, OpenOn, Executed
  <2>2. CASE ~UNCHANGED reservations
    <3> DEFINE r == q.reservationId
    <3>1. /\ r \in ReservationIds
          /\ OpenOn(q.transition.objectId, r)
          /\ reservations' = [reservations EXCEPT ![r] = CommittedBy(q)]
          /\ lastFencingToken' = lastFencingToken
      BY <1>2, <2>2 DEF Executed
    <3>2. /\ reservations'[r] = CommittedBy(q)
          /\ \A s \in ReservationIds \ {r} : reservations'[s] = reservations[s]
      BY <1>0, <3>1, OthersKept
    <3> QED BY <3>1, <3>2 DEF SameOf, Used, OpenOn, CommittedBy
  <2> QED BY <2>1, <2>2
<1>3. ASSUME NEW r \in ReservationIds, Recovered(r)
      PROVE  SameOf
  <2>1. PICK status \in {"RECOVERY_PENDING", "ABORTED"} :
          reservations' = [reservations EXCEPT ![r] =
                            [status |-> status, of |-> reservations[r].of]]
    BY <1>3 DEF Recovered
  <2>2. /\ reservations'[r] = [status |-> status, of |-> reservations[r].of]
        /\ \A s \in ReservationIds \ {r} : reservations'[s] = reservations[s]
    BY <1>0, <2>1, OthersKept
  <2>3. OpenOn(reservations[r].of.objectId, r) /\ lastFencingToken' = lastFencingToken
    BY <1>3 DEF Recovered
  <2> QED BY <2>2, <2>3 DEF SameOf, Used, OpenOn
<1> QED BY <1>1, <1>2, <1>3, CoreEffect

LEMMA StepKeepsTokens ==
  ASSUME IInv, [Next]_vars
  PROVE  TokensBounded' /\ FencingTokensAscend'
<1>0. TypeOK /\ TokensBounded /\ FencingTokensAscend /\ LockMatchesReservation
  BY DEF IInv
<1>1. CASE SameOf
  <2>1. \A r \in ReservationIds : Used(r) => reservations[r].of.objectId \in Objects
    BY <1>0, ReservationShape DEF Manager!Details
  <2>2. TokensBounded'
    BY <1>0, <1>1 DEF SameOf, TokensBounded, TokenOf
  <2>3. FencingTokensAscend'
    BY <1>0, <1>1, <2>1 DEF SameOf, FencingTokensAscend, TokenOf
  <2> QED BY <2>2, <2>3
<1>2. ASSUME NEW r \in ReservationIds, NEW of \in Manager!Details, Opened(r, of)
      PROVE  TokensBounded' /\ FencingTokensAscend'
  <2> DEFINE o == of.objectId
             token == lastFencingToken[o] + 1
  <2>1. /\ o \in Objects /\ lastFencingToken[o] \in Nat
        /\ lastFencingToken'[o] = token
        /\ \A p \in Objects \ {o} : lastFencingToken'[p] = lastFencingToken[p]
    BY <1>0, <1>2 DEF Opened, TypeOK, Manager!ManagerTypeOK, Manager!Details
  <2>2. /\ reservations'[r].of = of /\ of.fencingToken = token
        /\ Used(r)'
        /\ \A s \in ReservationIds \ {r} : reservations'[s] = reservations[s]
    <3>1. reservations' = [reservations EXCEPT ![r] = [status |-> "RESERVED", of |-> of]]
      BY <1>2 DEF Opened
    <3>2. /\ reservations'[r] = [status |-> "RESERVED", of |-> of]
          /\ \A s \in ReservationIds \ {r} : reservations'[s] = reservations[s]
      BY <1>0, <3>1, OthersKept
    <3> QED BY <1>2, <3>2 DEF Opened, Used
  <2>3. ASSUME NEW s \in ReservationIds \ {r}, Used(s)
        PROVE  /\ reservations[s].of.objectId \in Objects
               /\ TokenOf(s) \in Nat
               /\ TokenOf(s) <= lastFencingToken[reservations[s].of.objectId]
               /\ ~OpenOn(o, s)
    <3>1. reservations[s].of \in Manager!Details
      BY <1>0, <2>3, ReservationShape
    <3>2. activeReservation[o] # s
      BY <1>2, KernelConstants DEF Opened
    <3> QED BY <1>0, <2>1, <2>3, <3>1, <3>2
            DEF TokensBounded, LockMatchesReservation, TokenOf, Manager!Details
  <2>4. TokensBounded'
    BY <2>1, <2>2, <2>3 DEF TokensBounded, TokenOf, Used
  <2>5. FencingTokensAscend'
    BY <1>0, <2>1, <2>2, <2>3 DEF FencingTokensAscend, TokenOf, Used, OpenOn
  <2> QED BY <2>4, <2>5
<1> QED BY <1>1, <1>2, OnlyOpeningChangesOf
LEMMA StepKeepsRequests ==
  ASSUME IInv, [Next]_vars
  PROVE  RequestsApplyOne'
BY CoreEffect DEF IInv, RequestsApplyOne, coreVars, Opened, Executed, Signed, Recovered

\* Objects change by executions only.
LEMMA OnlyExecutionsWrite ==
  ASSUME IInv, [Next]_vars
  PROVE  UNCHANGED <<objects, receiptUsed>> \/ \E q \in requests : Executed(q)
BY CoreEffect DEF coreVars, Opened, Signed, Recovered

LEMMA RootsGrow ==
  ASSUME IInv, NEW q \in requests, Executed(q)
  PROVE  LET o == q.transition.objectId
         IN  /\ o \in Objects
             /\ objects[o].root \in Roots
             /\ objects'[o].root = Append(objects[o].root, q.executionId)
             /\ objects'[o].version = objects[o].version + 1
             /\ \A p \in Objects \ {o} : objects'[p] = objects[p]
<1> DEFINE o == q.transition.objectId
           new == [domain |-> q.transition.domainId,
                   root |-> q.transition.newStateRoot,
                   version |-> objects[o].version + 1]
<1>1. o \in Objects
  BY RequestShape DEF IInv, Transitions
<1>2. objects' = [objects EXCEPT ![o] = new]
  BY DEF Executed
<1>3. objects \in [Objects -> Store!ObjectHeader]
  BY DEF IInv, TypeOK, Store!StoreTypeOK
<1>4. objects'[o] = new /\ \A p \in Objects \ {o} : objects'[p] = objects[p]
  BY <1>1, <1>2, <1>3, SMTT(40)
<1>5. new.root = Append(objects[o].root, q.executionId)
  BY DEF Executed
<1> QED BY <1>1, <1>3, <1>4, <1>5 DEF Store!ObjectHeader, Roots

Ids(root) == {root[n] : n \in DOMAIN root}

LEMMA IdsOfAppend ==
  ASSUME NEW root \in Roots, NEW e \in ExecutionIds
  PROVE  /\ Append(root, e) \in Roots
         /\ DOMAIN Append(root, e) = DOMAIN root \cup {Len(root) + 1}
         /\ \A n \in DOMAIN root : Append(root, e)[n] = root[n]
         /\ Append(root, e)[Len(root) + 1] = e
         /\ Len(root) + 1 \notin DOMAIN root
         /\ Len(Append(root, e)) = Len(root) + 1
         /\ Ids(Append(root, e)) = Ids(root) \cup {e}
<1>1. /\ Append(root, e) \in Roots
      /\ DOMAIN Append(root, e) = DOMAIN root \cup {Len(root) + 1}
      /\ \A n \in DOMAIN root : Append(root, e)[n] = root[n]
      /\ Append(root, e)[Len(root) + 1] = e
      /\ Len(root) + 1 \notin DOMAIN root
      /\ Len(Append(root, e)) = Len(root) + 1
  BY DEF Roots
<1>2. Ids(Append(root, e)) = Ids(root) \cup {e}
  BY <1>1 DEF Ids
<1> QED BY <1>1, <1>2

LEMMA StepKeepsUpdates ==
  ASSUME IInv, [Next]_vars
  PROVE  NoLostUpdate'
<1>0. NoLostUpdate /\ objects \in [Objects -> Store!ObjectHeader]
  BY DEF IInv, TypeOK, Store!StoreTypeOK
<1>1. CASE UNCHANGED <<objects, receiptUsed>>
  BY <1>0, <1>1 DEF NoLostUpdate
<1>2. ASSUME NEW q \in requests, Executed(q)
      PROVE  NoLostUpdate'
  <2> DEFINE o == q.transition.objectId
             e == q.executionId
             root == objects[o].root
  <2>1. /\ o \in Objects /\ root \in Roots
        /\ objects'[o].root = Append(root, e)
        /\ objects'[o].version = objects[o].version + 1
        /\ \A p \in Objects \ {o} : objects'[p] = objects[p]
    BY <1>2, RootsGrow
  <2>2. e \in ExecutionIds
    BY RequestShape DEF IInv
  <2>3. receiptUsed' = receiptUsed \cup {e} /\ e \notin receiptUsed
    BY <1>2 DEF Executed
  <2>4. receiptUsed = UNION {Ids(objects[p].root) : p \in Objects}
    BY <1>0 DEF NoLostUpdate, Ids
  <2>5. \A p \in Objects : \A n \in DOMAIN objects[p].root : objects[p].root[n] # e
    BY <2>3, <2>4 DEF Ids
  <2>6. \A p \in Objects : objects'[p].version = Len(objects'[p].root)
    <3>1. objects'[o].version = Len(objects'[o].root)
      <4>1. objects[o].version = Len(root)
        BY <1>0, <2>1 DEF NoLostUpdate
      <4> HIDE DEF o, e, root
      <4> QED BY <2>1, <2>2, <4>1, IdsOfAppend
    <3>2. ASSUME NEW p \in Objects, p # o
          PROVE  objects'[p].version = Len(objects'[p].root)
      BY <1>0, <2>1, <3>2 DEF NoLostUpdate
    <3> QED BY <3>1, <3>2
  <2>7. ASSUME NEW o1 \in Objects, NEW o2 \in Objects,
               NEW n1 \in DOMAIN objects'[o1].root, NEW n2 \in DOMAIN objects'[o2].root,
               objects'[o1].root[n1] = objects'[o2].root[n2]
        PROVE  o1 = o2 /\ n1 = n2
    <3>1. ASSUME NEW p \in Objects, NEW n \in DOMAIN objects'[p].root
          PROVE  \/ /\ p = o /\ n = Len(root) + 1
                    /\ objects'[p].root[n] = e
                 \/ /\ n \in DOMAIN objects[p].root
                    /\ objects'[p].root[n] = objects[p].root[n]
                    /\ objects'[p].root[n] # e
      <4>1. CASE p = o
        <5>1. /\ DOMAIN Append(root, e) = DOMAIN root \cup {Len(root) + 1}
              /\ \A m \in DOMAIN root : Append(root, e)[m] = root[m]
              /\ Append(root, e)[Len(root) + 1] = e
          BY <2>1, <2>2, IdsOfAppend
        <5>2. \A m \in DOMAIN root : root[m] # e
          BY <2>1, <2>5, SMTT(40)
        <5>3. objects'[p].root = Append(root, e) /\ root = objects[p].root
          BY <2>1, <4>1
        <5>4. n \in DOMAIN root \/ n = Len(root) + 1
          BY <5>1, <5>3
        <5> HIDE DEF root, e
        <5> QED BY <4>1, <5>1, <5>2, <5>3, <5>4, SMTT(40)
      <4>2. CASE p # o
        BY <2>1, <2>5, <3>1, <4>2
      <4> QED BY <4>1, <4>2
    <3> QED BY <1>0, <2>7, <3>1 DEF NoLostUpdate
  <2>8. receiptUsed' = UNION {Ids(objects'[p].root) : p \in Objects}
    <3>1. Ids(objects'[o].root) = Ids(root) \cup {e}
      BY <2>1, <2>2, IdsOfAppend
    <3>2. \A p \in Objects \ {o} : Ids(objects'[p].root) = Ids(objects[p].root)
      BY <2>1
    <3>3. ASSUME NEW x
          PROVE  x \in receiptUsed' <=> \E p \in Objects : x \in Ids(objects'[p].root)
      <4>1. x \in receiptUsed <=> \E p \in Objects : x \in Ids(objects[p].root)
        BY <2>4
      <4>2. x \in receiptUsed' <=> x \in receiptUsed \/ x = e
        BY <2>3
      <4> HIDE DEF root, e
      <4>3. x \in Ids(objects'[o].root) <=> x \in Ids(objects[o].root) \/ x = e
        BY <3>1 DEF root
      <4> HIDE DEF o
      <4> QED BY <2>1, <3>2, <4>1, <4>2, <4>3
    <3> QED BY <3>3
  <2> QED BY <2>6, <2>7, <2>8 DEF NoLostUpdate, Ids
<1> QED BY <1>1, <1>2, OnlyExecutionsWrite

LEMMA ContainsAppend ==
  ASSUME NEW root \in Roots, NEW part \in Roots, NEW e \in ExecutionIds,
         Contains(root, part)
  PROVE  Contains(Append(root, e), part)
BY DEF Contains, Roots

LEMMA StillContained ==
  ASSUME IInv, [Next]_vars, NEW o \in Objects, NEW part \in Roots,
         Contains(objects[o].root, part)
  PROVE  Contains(objects'[o].root, part)
<1>1. CASE UNCHANGED objects
  BY <1>1
<1>2. ASSUME NEW q \in requests, Executed(q)
      PROVE  Contains(objects'[o].root, part)
  <2>1. q.executionId \in ExecutionIds
    BY RequestShape DEF IInv
  <2> QED BY <1>2, <2>1, RootsGrow, ContainsAppend
<1> QED BY <1>1, <1>2, OnlyExecutionsWrite

CommittedRight(r) ==
  LET t == reservations[r].transition
      of == reservations[r].of
  IN  /\ t.objectId = of.objectId /\ t.domainId = of.domainId
      /\ t.intentId = of.intentId /\ t.authorityEpoch = of.authorityEpoch
      /\ t.fencingToken = of.fencingToken /\ t.reservationHolder = of.holder
      /\ Contains(objects[of.objectId].root, t.newStateRoot)

LEMMA StepKeepsCommitted ==
  ASSUME IInv, [Next]_vars
  PROVE  CommittedAsReserved'
<1>0. TypeOK /\ CommittedAsReserved
  BY DEF IInv
<1>1. SUFFICES ASSUME NEW s \in ReservationIds, reservations'[s].status = "COMMITTED"
               PROVE  CommittedRight(s)'
  BY DEF CommittedAsReserved, CommittedRight
<1>2. CASE reservations'[s] = reservations[s]
  <2>1. /\ reservations[s].of.objectId \in Objects
        /\ reservations[s].transition.newStateRoot \in Roots
    BY <1>0, <1>1, <1>2, ReservationShape
       DEF Used, Manager!Committed, Manager!Details, Transitions
  <2>2. CommittedRight(s)
    BY <1>0, <1>1, <1>2 DEF CommittedAsReserved, CommittedRight
  <2>3. Contains(objects'[reservations[s].of.objectId].root,
                 reservations[s].transition.newStateRoot)
    BY <2>1, <2>2, StillContained DEF CommittedRight
  <2> QED BY <1>2, <2>2, <2>3 DEF CommittedRight
<1>3. CASE reservations'[s] # reservations[s]
  <2>1. ASSUME NEW r \in ReservationIds, NEW of \in Manager!Details, Opened(r, of)
        PROVE  FALSE
    <3>1. reservations' = [reservations EXCEPT ![r] = [status |-> "RESERVED", of |-> of]]
      BY <2>1 DEF Opened
    <3>2. /\ reservations'[r] = [status |-> "RESERVED", of |-> of]
          /\ \A s2 \in ReservationIds \ {r} : reservations'[s2] = reservations[s2]
      BY <1>0, <3>1, OthersKept
    <3> QED BY <1>1, <1>3, <3>2
  <2>2. ASSUME NEW r \in ReservationIds, Recovered(r)
        PROVE  FALSE
    <3>1. PICK status \in {"RECOVERY_PENDING", "ABORTED"} :
            reservations' = [reservations EXCEPT ![r] =
                              [status |-> status, of |-> reservations[r].of]]
      BY <2>2 DEF Recovered
    <3>2. /\ reservations'[r] = [status |-> status, of |-> reservations[r].of]
          /\ \A s2 \in ReservationIds \ {r} : reservations'[s2] = reservations[s2]
      BY <1>0, <3>1, OthersKept
    <3> QED BY <1>1, <1>3, <3>2
  <2>3. ASSUME NEW q \in requests, Executed(q)
        PROVE  CommittedRight(s)'
    <3> DEFINE r == q.reservationId
               t == q.transition
    <3>1. /\ r \in ReservationIds
          /\ ReservedFor(r, t)
          /\ reservations' = [reservations EXCEPT ![r] = CommittedBy(q)]
      BY <1>3, <2>3 DEF Executed
    <3>2. /\ reservations'[r] = CommittedBy(q)
          /\ \A s2 \in ReservationIds \ {r} : reservations'[s2] = reservations[s2]
      BY <1>0, <3>1, OthersKept
    <3>3. s = r
      BY <1>1, <1>3, <3>2
    <3>4. /\ objects'[t.objectId].root = t.newStateRoot
          /\ t.newStateRoot \in Roots
      BY <1>0, <2>3, RootsGrow, RequestShape DEF Executed, Transitions
    <3>5. Contains(t.newStateRoot, t.newStateRoot)
      BY <3>4 DEF Contains, Roots
    <3> QED BY <3>1, <3>2, <3>3, <3>4, <3>5 DEF CommittedRight, CommittedBy, ReservedFor
  <2> QED BY <1>3, <2>1, <2>2, <2>3, CoreEffect DEF coreVars, Signed
<1> QED BY <1>2, <1>3
-----------------------------------------------------------------------------
(***************************************************************************)
(* The invariant.                                                          *)
(***************************************************************************)
LEMMA InitTypes == Init => TypeOK
<1> SUFFICES ASSUME Init PROVE TypeOK
  OBVIOUS
<1>1. Store!StoreTypeOK
  <2>1. /\ [host |-> "NONE", writer |-> NoWriter, epoch |-> 0, enabled |-> FALSE]
              \in Store!DomainAuthority
        /\ [domain |-> NoDomain, root |-> <<>>, version |-> 0] \in Store!ObjectHeader
    BY DEF Store!DomainAuthority, Store!ObjectHeader
  <2>2. authorities \in [Domains -> Store!DomainAuthority]
    BY <2>1 DEF Init, Store!StoreInit
  <2>3. objects \in [Objects -> Store!ObjectHeader]
    BY <2>1 DEF Init, Store!StoreInit
  <2>4. storePaused \in BOOLEAN
    BY DEF Init, Store!StoreInit
  <2> QED BY <2>2, <2>3, <2>4 DEF Store!StoreTypeOK
<1>2. Manager!ManagerTypeOK
  BY DEF Init, Manager!ManagerInit, Manager!ManagerTypeOK, Manager!Reservation
<1>3. Adapters!AdapterTypeOK
  <2>1. PICK config \in Adapters!AdapterConfig :
          adapters = [a \in AdapterIds |-> config]
    <3>1. CASE Adapters!AdapterInit
      <4>1. Adapters!NoAdapterYet \in Adapters!AdapterConfig
        BY DEF Adapters!NoAdapterYet, Adapters!AdapterConfig
      <4> QED BY <3>1, <4>1 DEF Adapters!AdapterInit
    <3>2. CASE ~Adapters!AdapterInit
      <4>1. PICK life \in Lifetimes :
              adapters = [a \in AdapterIds |-> [status |-> "ACTIVE",
                                                activateAfter |-> 0,
                                                validUntil |-> 1 + life]]
        BY <3>2 DEF Init, AdmissionInit
      <4>2. life \in Nat
        BY KernelConstants
      <4>3. [status |-> "ACTIVE", activateAfter |-> 0, validUntil |-> 1 + life]
              \in Adapters!AdapterConfig
        BY <4>2 DEF Adapters!AdapterConfig
      <4> QED BY <4>1, <4>3
    <3> QED BY <3>1, <3>2
  <2>2. /\ healthy \in [AdapterIds -> BOOLEAN]
        /\ adaptersPaused \in BOOLEAN /\ routerPaused \in BOOLEAN
    BY DEF Init, AdmissionInit, Adapters!AdapterInit
  <2> QED BY <2>1, <2>2 DEF Adapters!AdapterTypeOK
<1>4. Proofs!ProofTypeOK
  <2>1. CASE Proofs!ProofInit
    <3>1. [registered |-> FALSE, active |-> FALSE, verifierId |-> NoVerifier]
            \in Proofs!ProgramConfig
      BY DEF Proofs!ProgramConfig
    <3>2. programs \in [ProgramIds -> Proofs!ProgramConfig]
      BY <2>1, <3>1 DEF Proofs!ProofInit
    <3> QED BY <2>1, <3>2 DEF Proofs!ProofInit, Proofs!ProofTypeOK
  <2>2. CASE ~Proofs!ProofInit
    <3>1. PICK v \in VerifierIds :
            programs = [p \in ProgramIds |-> [registered |-> TRUE, active |-> TRUE,
                                              verifierId |-> v]]
      BY <2>2 DEF Init, AdmissionInit
    <3>2. [registered |-> TRUE, active |-> TRUE, verifierId |-> v]
            \in Proofs!ProgramConfig
      BY DEF Proofs!ProgramConfig
    <3>3. programs \in [ProgramIds -> Proofs!ProgramConfig]
      BY <3>1, <3>2
    <3> QED BY <2>2, <3>3 DEF Init, AdmissionInit, Proofs!ProofTypeOK
  <2> QED BY <2>1, <2>2
<1>5. /\ executionAdapter \in [Kernels -> [ExecutionIds -> AdapterIds \cup {NoAdapter}]]
      /\ kernelPaused \in [Kernels -> BOOLEAN]
      /\ requests \subseteq TransitionRequest
  BY DEF Init
<1> QED BY <1>1, <1>2, <1>3, <1>4, <1>5 DEF TypeOK

LEMMA InitInv == Init => IInv
<1> SUFFICES ASSUME Init PROVE IInv
  OBVIOUS
<1>1. \A r \in ReservationIds : reservations[r].status = "NONE"
  BY DEF Init, Manager!ManagerInit, Manager!NoReservationYet
<1>2. LockMatchesReservation
  BY <1>1, NoReservationIsNone
     DEF Init, Manager!ManagerInit, LockMatchesReservation, OpenOn
<1>3. TokensBounded /\ FencingTokensAscend /\ CommittedAsReserved
  BY <1>1 DEF TokensBounded, FencingTokensAscend, CommittedAsReserved, Used
<1>4. RequestsApplyOne
  BY DEF Init, RequestsApplyOne
<1>5. NoLostUpdate
  <2>1. receiptUsed = {}
    BY DEF Init, AdmissionInit, Proofs!ProofInit
  <2>2. \A o \in Objects : objects[o].root = <<>> /\ objects[o].version = 0
    BY DEF Init, Store!StoreInit
  <2> QED BY <2>1, <2>2 DEF NoLostUpdate
<1> QED BY <1>2, <1>3, <1>4, <1>5, InitTypes DEF IInv

LEMMA StepKeepsInv == IInv /\ [Next]_vars => IInv'
BY StepKeepsTypes, StepKeepsLock, StepKeepsTokens, StepKeepsRequests,
   StepKeepsUpdates, StepKeepsCommitted
DEF IInv

(***************************************************************************)
(* The tables of the store, the manager, the proof router and the clients' *)
(* requests stay related in every reachable state.                         *)
(***************************************************************************)
THEOREM KernelIInvIsInvariant == Spec => []IInv
BY InitInv, StepKeepsInv, PTL DEF Spec

(***************************************************************************)
(* All variables of the VDSO contracts keep their types.                   *)
(***************************************************************************)
THEOREM KernelTypeCorrect == Spec => []TypeOK
<1>1. IInv => TypeOK
  BY DEF IInv
<1> QED BY <1>1, KernelIInvIsInvariant, PTL

(***************************************************************************)
(* An object is locked exactly by the reservation open on it.              *)
(***************************************************************************)
THEOREM LockMatches == Spec => []LockMatchesReservation
<1>1. IInv => LockMatchesReservation
  BY DEF IInv
<1> QED BY <1>1, KernelIInvIsInvariant, PTL

(***************************************************************************)
(* Fencing tokens of an object's reservations are distinct, and the open   *)
(* one has the latest.                                                     *)
(***************************************************************************)
THEOREM TokensFence == Spec => []FencingTokensAscend
<1>1. IInv => FencingTokensAscend
  BY DEF IInv
<1> QED BY <1>1, KernelIInvIsInvariant, PTL

(***************************************************************************)
(* No update of an object is lost, and no execution is applied twice.      *)
(***************************************************************************)
THEOREM UpdatesAreKept == Spec => []NoLostUpdate
<1>1. IInv => NoLostUpdate
  BY DEF IInv
<1> QED BY <1>1, KernelIInvIsInvariant, PTL

(***************************************************************************)
(* What was committed is what was reserved, and is in the object's state.  *)
(***************************************************************************)
THEOREM CommitsMatch == Spec => []CommittedAsReserved
<1>1. IInv => CommittedAsReserved
  BY DEF IInv
<1> QED BY <1>1, KernelIInvIsInvariant, PTL

-----------------------------------------------------------------------------
(***************************************************************************)
(* A reserved object is written only by the commit of its reservation.     *)
(***************************************************************************)
THEOREM LockedWritesCommit == Spec => ReservedWriteCommits
<1>1. ASSUME IInv, [Next]_vars, NEW o \in Objects
      PROVE  WriteCommits(o)
  <2>1. CASE UNCHANGED objects
    BY <2>1 DEF WriteCommits
  <2>2. ASSUME NEW q \in requests, Executed(q)
        PROVE  WriteCommits(o)
    <3> DEFINE r == q.reservationId
               t == q.transition
    <3>1. CASE o = t.objectId /\ r # NoReservation
      <4>1. /\ activeReservation[o] = r /\ r \in ReservationIds
            /\ reservations' = [reservations EXCEPT ![r] = CommittedBy(q)]
        BY <2>2, <3>1 DEF Executed
      <4>2. reservations'[r] = CommittedBy(q)
        BY <1>1, <4>1, OthersKept DEF IInv
      <4>3. objects'[o].root = t.newStateRoot
        BY <1>1, <2>2, <3>1, RootsGrow, ZenonT(60) DEF Executed
      <4> QED BY <4>1, <4>2, <4>3 DEF WriteCommits, CommittedBy
    <3>2. CASE o = t.objectId /\ r = NoReservation
      BY <2>2, <3>2 DEF WriteCommits, Executed
    <3>3. CASE o # t.objectId
      BY <1>1, <2>2, <3>3, RootsGrow DEF WriteCommits
    <3> QED BY <3>1, <3>2, <3>3
  <2> QED BY <1>1, <2>1, <2>2, OnlyExecutionsWrite
<1>2. IInv /\ [Next]_vars => [\A o \in Objects : WriteCommits(o)]_vars
  BY <1>1
<1> QED BY <1>2, KernelIInvIsInvariant, PTL DEF Spec, ReservedWriteCommits

(***************************************************************************)
(* A reservation commits only under the authority it was opened under.     *)
(***************************************************************************)
THEOREM OldAuthorityIsFencedOut == Spec => FencedOut
<1>1. ASSUME IInv, [Next]_vars, NEW s \in ReservationIds
      PROVE  CommitsUnderItsEpoch(s)
  <2>0. TypeOK
    BY <1>1 DEF IInv
  <2>1. SUFFICES ASSUME reservations[s].status \in {"RESERVED", "RECOVERY_PENDING"},
                        reservations'[s].status = "COMMITTED"
                 PROVE  LET d == reservations[s].of.domainId
                        IN  /\ authorities[d].enabled
                            /\ authorities[d].epoch = reservations[s].of.authorityEpoch
    BY DEF CommitsUnderItsEpoch
  <2>2. PICK k \in Kernels, x \in Executors, q \in requests,
             candidates \in SUBSET AdapterIds, a \in AdapterIds :
          ExecuteTransition(k, x, q, candidates, a)
    <3>1. CASE UNCHANGED coreVars
      BY <2>1, <3>1 DEF coreVars
    <3>2. ASSUME NEW e \in ExecutionIds, NEW o \in Objects, NEW d \in Domains,
                 NEW i \in Intents, NEW p \in ProgramIds, NEW v \in VerifierIds,
                 NEW r \in ReservationIds \cup {NoReservation},
                 NEW recovery \in BOOLEAN,
                 SignRequest(e, o, d, i, p, v, r, recovery)
          PROVE  FALSE
      BY <2>1, <3>2 DEF SignRequest, managerVars
    <3>3. ASSUME NEW r \in ReservationIds, NEW of \in Manager!Details, Opened(r, of)
          PROVE  FALSE
      <4>1. reservations' = [reservations EXCEPT ![r] = [status |-> "RESERVED", of |-> of]]
        BY <3>3 DEF Opened
      <4>2. /\ reservations'[r] = [status |-> "RESERVED", of |-> of]
            /\ \A s2 \in ReservationIds \ {r} : reservations'[s2] = reservations[s2]
        BY <2>0, <4>1, OthersKept
      <4> QED BY <2>1, <4>2
    <3>4. ASSUME NEW r \in ReservationIds, Recovered(r)
          PROVE  FALSE
      <4>1. PICK status \in {"RECOVERY_PENDING", "ABORTED"} :
              reservations' = [reservations EXCEPT ![r] =
                                [status |-> status, of |-> reservations[r].of]]
        BY <3>4 DEF Recovered
      <4>2. /\ reservations'[r] = [status |-> status, of |-> reservations[r].of]
            /\ \A s2 \in ReservationIds \ {r} : reservations'[s2] = reservations[s2]
        BY <2>0, <4>1, OthersKept
      <4> QED BY <2>1, <4>2
    <3>5. CASE \E k \in Kernels, r \in ReservationIds, o \in Objects, d \in Domains,
                  i \in Intents, holder \in Executors, term \in ReservationTerms :
                 BeginReservation(k, r, o, d, i, holder, now + term,
                                  authorities[d].epoch)
      BY <2>0, <3>3, <3>5, BeginEffect
    <3>6. ~\E r \in ReservationIds : MarkRecoveryPending(r) \/ AbortRecovery(r)
      BY <2>0, <3>4, RecoveryEffect
    <3> QED BY <1>1, <2>0, <3>1, <3>2, <3>5, <3>6, CoreStep
  <2> DEFINE r == q.reservationId
             t == q.transition
  <2>3. Executed(q)
    BY <1>1, <2>2, ExecuteEffect
  <2>4. /\ r \in ReservationIds
        /\ ReservedFor(r, t)
        /\ reservations' = [reservations EXCEPT ![r] = CommittedBy(q)]
    BY <2>1, <2>3 DEF Executed
  <2>5. s = r
    BY <2>0, <2>1, <2>4, OthersKept
  <2>6. HasAuthority(k, t.domainId, t.authorityEpoch)
    BY <2>2 DEF ExecuteTransition, ValidTransition
  <2> QED BY <2>4, <2>5, <2>6 DEF ReservedFor, HasAuthority
<1>2. IInv /\ [Next]_vars => [\A r \in ReservationIds : CommitsUnderItsEpoch(r)]_vars
  BY <1>1
<1> QED BY <1>2, KernelIInvIsInvariant, PTL DEF Spec, FencedOut

-----------------------------------------------------------------------------
(***************************************************************************)
(* A kernel that is paused opens no reservation, and takes no request      *)
(* without one.                                                            *)
(***************************************************************************)
LEMMA OpeningHandsOutToken ==
  ASSUME IInv, NEW r \in ReservationIds, NEW of \in Manager!Details, Opened(r, of)
  PROVE  lastFencingToken' # lastFencingToken
<1> DEFINE o == of.objectId
<1>1. o \in Objects
  BY DEF Manager!Details
<1>2. lastFencingToken \in [Objects -> Nat]
  BY DEF IInv, TypeOK, Manager!ManagerTypeOK
<1>3. lastFencingToken'[o] = lastFencingToken[o] + 1
  BY <1>1, <1>2 DEF Opened
<1>4. lastFencingToken[o] \in Nat
  BY <1>1, <1>2
<1> QED BY <1>3, <1>4

LEMMA PausedStep ==
  ASSUME IInv, [Next]_vars, \A k \in Kernels : kernelPaused[k]
  PROVE  /\ SameOf
         /\ \/ UNCHANGED objects
            \/ \E q \in requests : Executed(q) /\ q.reservationId # NoReservation
<1>0. TypeOK
  BY DEF IInv
<1>1. lastFencingToken' = lastFencingToken => SameOf
  BY OnlyOpeningChangesOf, OpeningHandsOutToken
<1>2. CASE UNCHANGED coreVars
  BY <1>1, <1>2 DEF coreVars
<1>3. ~\E k \in Kernels, r \in ReservationIds, o \in Objects, d \in Domains,
          i \in Intents, holder \in Executors, term \in ReservationTerms :
         BeginReservation(k, r, o, d, i, holder, now + term, authorities[d].epoch)
  BY DEF BeginReservation
<1>4. ASSUME NEW k \in Kernels, NEW x \in Executors, NEW q \in requests,
             NEW candidates \in SUBSET AdapterIds, NEW a \in AdapterIds,
             ExecuteTransition(k, x, q, candidates, a)
      PROVE  /\ lastFencingToken' = lastFencingToken
             /\ Executed(q) /\ q.reservationId # NoReservation
  <2>1. Executed(q)
    BY <1>4, ExecuteEffect
  <2>2. q.reservationId # NoReservation
    BY <1>4 DEF ExecuteTransition, ValidTransition, MayEnter
  <2> QED BY <2>1, <2>2 DEF Executed
<1>5. CASE \E e \in ExecutionIds, o \in Objects, d \in Domains, i \in Intents,
              p \in ProgramIds, v \in VerifierIds,
              r \in ReservationIds \cup {NoReservation}, recovery \in BOOLEAN :
             SignRequest(e, o, d, i, p, v, r, recovery)
  BY <1>1, <1>5 DEF SignRequest, storeVars, managerVars
<1>6. CASE \E r \in ReservationIds : MarkRecoveryPending(r) \/ AbortRecovery(r)
  BY <1>0, <1>1, <1>6, RecoveryEffect DEF Recovered
<1> QED BY <1>0, <1>1, <1>2, <1>3, <1>4, <1>5, <1>6, CoreStep

(***************************************************************************)
(* Once every kernel is paused, open reservations only end, and each write *)
(* ends one.                                                               *)
(***************************************************************************)
THEOREM PausedKernelsDrain == Spec => PauseDrains
<1>1. ASSUME IInv, [Next]_vars, \A k \in Kernels : kernelPaused[k]
      PROVE  DrainsStep
  <2>0. TypeOK
    BY <1>1 DEF IInv
  <2>1. SameOf
    BY <1>1, PausedStep
  <2>2. OpenReservations' \subseteq OpenReservations
    BY <2>1 DEF SameOf, OpenReservations
  <2>3. ASSUME NEW q \in requests, Executed(q), q.reservationId # NoReservation
        PROVE  OpenReservations' # OpenReservations
    <3> DEFINE r == q.reservationId
               o == q.transition.objectId
    <3>1. /\ r \in ReservationIds /\ OpenOn(o, r)
          /\ reservations' = [reservations EXCEPT ![r] = CommittedBy(q)]
      BY <2>3 DEF Executed
    <3>2. o \in Objects
      BY <2>0, RequestShape DEF Transitions
    <3>3. reservations'[r].status = "COMMITTED"
      <4>1. reservations'[r] = CommittedBy(q)
        BY <2>0, <3>1, OthersKept
      <4> QED BY <4>1 DEF CommittedBy
    <3>4. r \in OpenReservations /\ r \notin OpenReservations'
      BY <3>1, <3>2, <3>3 DEF OpenReservations, OpenOn
    <3> QED BY <3>4
  <2>4. objects' # objects => OpenReservations' # OpenReservations
    BY <1>1, <2>3, PausedStep
  <2> QED BY <2>2, <2>4 DEF DrainsStep
<1>2. IInv /\ [Next]_vars =>
        [(\A k \in Kernels : kernelPaused[k]) => DrainsStep]_vars
  BY <1>1
<1> QED BY <1>2, KernelIInvIsInvariant, PTL DEF Spec, PauseDrains

-----------------------------------------------------------------------------
(***************************************************************************)
(* Since time t an adapter has been barred: in quarantine then, it cannot  *)
(* be active before t + ACTIVATION_DELAY, because whatever schedules it    *)
(* again does so at t or later.                                            *)
(***************************************************************************)
BarredSince(a, t) ==
  /\ now >= t
  /\ now < t + ACTIVATION_DELAY =>
       /\ adapters[a].status # "ACTIVE"
       /\ adapters[a].status = "PENDING" =>
            adapters[a].activateAfter >= t + ACTIVATION_DELAY

\* An adapter is scheduled from now on, activated when it is due, or barred.
AdapterMoves(a) ==
  \/ adapters'[a] = adapters[a]
  \/ \E until : adapters'[a] = Adapters!Pending(a, until)
  \/ /\ adapters[a].status = "PENDING" /\ now >= adapters[a].activateAfter
     /\ adapters'[a].status = "ACTIVE"
  \/ adapters'[a].status \in {"QUARANTINED", "RETIRED"}

LEMMA AdapterEffect ==
  ASSUME TypeOK, [Next]_vars, NEW a \in AdapterIds
  PROVE  \/ AdapterMoves(a) /\ now' = now
         \/ UNCHANGED adapters /\ now' = now + 1
<1>0. adapters \in [AdapterIds -> Adapters!AdapterConfig]
  BY DEF TypeOK, Adapters!AdapterTypeOK
<1>1. CASE AdmissionStep
  <2>1. now' = now
    BY <1>1 DEF AdmissionStep
  <2>2. ASSUME NEW b \in AdapterIds, NEW life \in Lifetimes,
               \/ Adapters!ProposeAdapter(b, now + life)
               \/ Adapters!ScheduleReactivation(b, now + life)
        PROVE  AdapterMoves(a)
    <3>1. adapters' = [adapters EXCEPT ![b] = Adapters!Pending(b, now + life)]
      BY <2>2 DEF Adapters!ProposeAdapter, Adapters!ScheduleReactivation,
                  Adapters!Schedule
    <3>2. CASE a = b
      BY <1>0, <3>1, <3>2 DEF AdapterMoves
    <3>3. CASE a # b
      BY <1>0, <3>1, <3>3 DEF AdapterMoves
    <3> QED BY <3>2, <3>3
  <2>3. ASSUME NEW b \in AdapterIds,
               \/ Adapters!ActivateAdapter(b) \/ Adapters!QuarantineAdapter(b)
               \/ Adapters!RetireAdapter(b)
        PROVE  AdapterMoves(a)
    <3>1. CASE Adapters!ActivateAdapter(b)
      BY <1>0, <3>1 DEF Adapters!ActivateAdapter, Adapters!AdapterConfig,
                        AdapterMoves
    <3>2. CASE Adapters!QuarantineAdapter(b) \/ Adapters!RetireAdapter(b)
      BY <1>0, <3>2 DEF Adapters!QuarantineAdapter, Adapters!RetireAdapter,
                        Adapters!AdapterConfig, AdapterMoves
    <3> QED BY <2>3, <3>1, <3>2
  <2>4. ASSUME NEW b \in AdapterIds, Adapters!ChangeCode(b)
        PROVE  AdapterMoves(a)
    BY <2>4 DEF Adapters!ChangeCode, AdapterMoves
  <2>5. CASE UNCHANGED adapterVars
    <3>1. adapters' = adapters
      BY <2>5 DEF adapterVars
    <3> QED BY <2>1, <3>1 DEF AdapterMoves
  <2> QED BY <1>1, <2>1, <2>2, <2>3, <2>4, <2>5 DEF AdmissionStep
<1>2. CASE PauseStep
  BY <1>2 DEF PauseStep, adapterVars, Adapters!PauseAdapters,
              Adapters!PauseRouter, AdapterMoves
<1>3. CASE ExecutorStep \/ ClientStep
  BY <1>3 DEF ExecutorStep, BeginReservation, ExecuteTransition, ClientStep,
              SignRequest, adapterVars, AdapterMoves
<1>4. CASE \E r \in ReservationIds : MarkRecoveryPending(r) \/ AbortRecovery(r)
  BY <1>4 DEF MarkRecoveryPending, AbortRecovery, adapterVars, AdapterMoves
<1>5. CASE AuthorityStep \/ KernelPauseStep \/ UNCHANGED vars
  BY <1>5 DEF AuthorityStep, KernelPauseStep, vars, adapterVars, AdapterMoves
<1>6. CASE Tick
  BY <1>6 DEF Tick, Manager!Tick, adapterVars
<1> QED BY <1>1, <1>2, <1>3, <1>4, <1>5, <1>6 DEF Next

LEMMA StaysBarred ==
  ASSUME TypeOK, [Next]_vars, NEW a \in AdapterIds, NEW t \in Nat,
         BarredSince(a, t)
  PROVE  BarredSince(a, t)'
<1>1. now \in Nat /\ ACTIVATION_DELAY \in Nat /\ adapters[a].activateAfter \in Nat
  BY KernelConstants DEF TypeOK, Manager!ManagerTypeOK, Adapters!AdapterTypeOK,
                         Adapters!AdapterConfig
<1>2. CASE UNCHANGED adapters /\ now' = now + 1
  BY <1>1, <1>2 DEF BarredSince
<1>3. CASE adapters'[a] = adapters[a] /\ now' = now
  BY <1>3 DEF BarredSince
<1>4. ASSUME NEW until, adapters'[a] = Adapters!Pending(a, until), now' = now
      PROVE  BarredSince(a, t)'
  <2>1. /\ adapters'[a].status = "PENDING"
        /\ adapters'[a].activateAfter = now + ACTIVATION_DELAY
    BY <1>4 DEF Adapters!Pending
  <2> QED BY <1>1, <1>4, <2>1 DEF BarredSince
<1>5. CASE /\ adapters[a].status = "PENDING" /\ now >= adapters[a].activateAfter
           /\ adapters'[a].status = "ACTIVE" /\ now' = now
  BY <1>1, <1>5 DEF BarredSince
<1>6. CASE adapters'[a].status \in {"QUARANTINED", "RETIRED"} /\ now' = now
  BY <1>6 DEF BarredSince
<1> QED BY <1>2, <1>3, <1>4, <1>5, <1>6, AdapterEffect DEF AdapterMoves

(***************************************************************************)
(* An adapter that is in quarantine at some time is not active within      *)
(* ACTIVATION_DELAY of it, whatever is proposed, scheduled and activated.  *)
(***************************************************************************)
THEOREM QuarantineIsServed == Spec => ReactivationIsDelayed
<1>1. ASSUME NEW a \in AdapterIds, NEW t \in 1 .. MaxTime
      PROVE  Spec =>
               [](adapters[a].status = "QUARANTINED" /\ now = t =>
                    [](now < t + ACTIVATION_DELAY => adapters[a].status # "ACTIVE"))
  <2>0. t \in Nat
    OBVIOUS
  <2>1. adapters[a].status = "QUARANTINED" /\ now = t => BarredSince(a, t)
    BY <2>0 DEF BarredSince
  <2>2. BarredSince(a, t) =>
          (now < t + ACTIVATION_DELAY => adapters[a].status # "ACTIVE")
    BY DEF BarredSince
  <2>3. TypeOK /\ BarredSince(a, t) /\ [Next]_vars => BarredSince(a, t)'
    BY <2>0, StaysBarred
  <2> QED BY <2>1, <2>2, <2>3, KernelTypeCorrect, PTL DEF Spec
<1> QED BY <1>1 DEF ReactivationIsDelayed

(***************************************************************************)
(* Every open reservation is in the domain of its object.                  *)
(***************************************************************************)
LEMMA StepKeepsDomain ==
  ASSUME IInv, [Next]_vars, ReservedInItsDomain
  PROVE  ReservedInItsDomain'
<1>0. TypeOK
  BY DEF IInv
<1>1. SUFFICES ASSUME NEW o \in Objects, NEW s \in ReservationIds, OpenOn(o, s)',
                      objects'[o].version # 0
               PROVE  reservations'[s].of.domainId = objects'[o].domain
  BY DEF ReservedInItsDomain
<1>2. ASSUME NEW r \in ReservationIds, NEW of \in Manager!Details, Opened(r, of)
      PROVE  reservations'[s].of.domainId = objects'[o].domain
  <2>1. /\ reservations' = [reservations EXCEPT ![r] =
                             [status |-> "RESERVED", of |-> of]]
        /\ objects' = objects
        /\ Store!DomainFits(of.objectId, of.domainId)
    BY <1>2 DEF Opened
  <2>2. /\ reservations'[r] = [status |-> "RESERVED", of |-> of]
        /\ \A s2 \in ReservationIds \ {r} : reservations'[s2] = reservations[s2]
    BY <1>0, <2>1, OthersKept
  <2>3. CASE s = r
    BY <1>1, <2>1, <2>2, <2>3 DEF OpenOn, Store!DomainFits
  <2>4. CASE s # r
    BY <1>1, <2>1, <2>2, <2>4 DEF OpenOn, ReservedInItsDomain
  <2> QED BY <2>3, <2>4
<1>3. CASE ~\E r \in ReservationIds, of \in Manager!Details : Opened(r, of)
  <2>1. OpenOn(o, s) /\ reservations'[s].of = reservations[s].of
    <3>1. SameOf
      BY <1>3, OnlyOpeningChangesOf
    <3>2. OpenOn(o, s) => Used(s)
      BY DEF OpenOn, Used
    <3> QED BY <1>1, <3>1, <3>2 DEF SameOf
  <2>2. ASSUME NEW q \in requests, Executed(q)
        PROVE  o # q.transition.objectId
    <3>1. SUFFICES ASSUME o = q.transition.objectId
                   PROVE  FALSE
      OBVIOUS
    <3>2. activeReservation'[o] = NoReservation
      BY <1>0, <2>2, <3>1, LocksKept DEF Executed
    <3>3. activeReservation'[o] = s
      BY <1>1, StepKeepsLock DEF LockMatchesReservation
    <3> QED BY <3>2, <3>3, NoReservationIsNone
  <2>3. objects'[o] = objects[o]
    <3>1. ASSUME NEW q \in requests, Executed(q)
          PROVE  objects'[o] = objects[o]
      BY <1>0, <2>2, <3>1 DEF Executed, TypeOK, Store!StoreTypeOK
    <3> QED BY <3>1, OnlyExecutionsWrite
  <2> QED BY <1>1, <2>1, <2>3 DEF ReservedInItsDomain
<1> QED BY <1>2, <1>3

THEOREM ReservedWhereItIs == Spec => []ReservedInItsDomain
<1>1. Init => ReservedInItsDomain
  BY DEF Init, Store!StoreInit, ReservedInItsDomain
<1>2. IInv /\ ReservedInItsDomain /\ [Next]_vars => ReservedInItsDomain'
  BY StepKeepsDomain
<1> QED BY <1>1, <1>2, KernelIInvIsInvariant, PTL DEF Spec

-----------------------------------------------------------------------------
(***************************************************************************)
(* The refinement: what a step does to the tables, it does to the log.     *)
(***************************************************************************)
LogOf == [o \in Objects |-> objects[o].root]
Outcomes == [r \in ReservationIds |-> OutcomeOf(r)]

LEMMA OneOutcomeChanges ==
  ASSUME TypeOK, NEW r \in ReservationIds, NEW new, NEW how,
         reservations' = [reservations EXCEPT ![r] = new],
         OutcomeOf(r)' = how
  PROVE  Outcomes' = [Outcomes EXCEPT ![r] = how]
<1>1. \A s \in ReservationIds \ {r} : OutcomeOf(s)' = OutcomeOf(s)
  BY OthersKept DEF OutcomeOf
<1> QED BY <1>1 DEF Outcomes

LEMMA OpenOutcome ==
  ASSUME NEW o \in Objects, NEW r \in ReservationIds, OpenOn(o, r)
  PROVE  OutcomeOf(r) = "open"
BY DEF OpenOn, OutcomeOf

LEMMA OpeningClaims ==
  ASSUME IInv, NEW r \in ReservationIds, NEW of \in Manager!Details, Opened(r, of)
  PROVE  Promise!Next
<1> DEFINE o == of.objectId
           new == [status |-> "RESERVED", of |-> of]
<1>0. TypeOK /\ o \in Objects
  BY DEF IInv, Manager!Details
<1>1. reservations' = [reservations EXCEPT ![r] = new]
  BY DEF Opened
<1>2. OutcomeOf(r) = "none" /\ OutcomeOf(r)' = "open"
  <2>1. reservations'[r] = new
    BY <1>0, <1>1, OthersKept
  <2> QED BY <2>1 DEF Opened, Used, OutcomeOf
<1>3. Outcomes' = [Outcomes EXCEPT ![r] = "open"]
  BY <1>0, <1>1, <1>2, OneOutcomeChanges
<1>4. /\ activeReservation[o] = NoReservation
      /\ activeReservation' = [activeReservation EXCEPT ![o] = r]
      /\ lastFencingToken' = [lastFencingToken EXCEPT ![o] = @ + 1]
      /\ LogOf' = LogOf
  BY DEF Opened, LogOf
<1>5. Promise!Claim(o, r)
  BY <1>2, <1>3, <1>4 DEF Promise!Claim, Outcomes, LogOf
<1> QED BY <1>0, <1>5 DEF Promise!Next

LEMMA ExecutingApplies ==
  ASSUME IInv, NEW q \in requests, Executed(q)
  PROVE  /\ q.transition.objectId \in Objects
         /\ q.executionId \in ExecutionIds
         /\ Promise!Apply(q.transition.objectId, q.executionId)
<1> DEFINE o == q.transition.objectId
           e == q.executionId
<1>1. /\ o \in Objects
      /\ objects'[o].root = Append(objects[o].root, e)
      /\ \A p \in Objects \ {o} : objects'[p] = objects[p]
  BY RootsGrow
<1>2. e \in ExecutionIds
  BY RequestShape DEF IInv
<1>3. LogOf' = [LogOf EXCEPT ![o] = Append(@, e)]
  <2> HIDE DEF o, e
  <2> QED BY <1>1 DEF LogOf
<1>4. Promise!New(e)
  <2>1. e \notin UNION {Ids(objects[p].root) : p \in Objects}
    BY DEF Executed, IInv, NoLostUpdate, Ids
  <2>2. \A p \in Objects : \A n \in DOMAIN objects[p].root : objects[p].root[n] # e
    BY <2>1 DEF Ids
  <2> QED BY <2>2 DEF Promise!New
<1> QED BY <1>1, <1>2, <1>3, <1>4 DEF Promise!Apply, LogOf

LEMMA ExecutingWrites ==
  ASSUME IInv, NEW q \in requests, Executed(q)
  PROVE  Promise!Next
<1> DEFINE o == q.transition.objectId
           e == q.executionId
           r == q.reservationId
<1>0. TypeOK
  BY DEF IInv
<1>1. o \in Objects /\ e \in ExecutionIds /\ Promise!Apply(o, e)
  BY ExecutingApplies
<1>2. activeReservation[o] = r /\ UNCHANGED lastFencingToken
  BY DEF Executed
<1>3. CASE r = NoReservation /\ UNCHANGED <<reservations, activeReservation>>
  <2>1. Outcomes' = Outcomes
    BY <1>3 DEF Outcomes, OutcomeOf
  <2>2. Promise!Write(o, e)
    BY <1>1, <1>2, <1>3, <2>1 DEF Promise!Write, Outcomes
  <2> QED BY <1>1, <2>2 DEF Promise!Next
<1>4. CASE /\ r \in ReservationIds /\ OpenOn(o, r)
           /\ reservations' = [reservations EXCEPT ![r] = CommittedBy(q)]
           /\ activeReservation' = [activeReservation EXCEPT ![o] = NoReservation]
  <2>1. OutcomeOf(r)' = "committed"
    <3>1. reservations'[r] = CommittedBy(q)
      BY <1>0, <1>4, OthersKept
    <3> QED BY <3>1 DEF OutcomeOf, CommittedBy
  <2>2. Outcomes' = [Outcomes EXCEPT ![r] = "committed"]
    BY <1>0, <1>4, <2>1, OneOutcomeChanges
  <2>3. OutcomeOf(r) = "open"
    BY <1>1, <1>4, OpenOutcome
  <2>4. Promise!Commit(o, r, e)
    BY <1>1, <1>2, <1>4, <2>2, <2>3 DEF Promise!Commit, Promise!End, Outcomes
  <2> QED BY <1>1, <1>4, <2>4 DEF Promise!Next
<1> QED BY <1>3, <1>4 DEF Executed

LEMMA RecoveringAborts ==
  ASSUME IInv, NEW r \in ReservationIds, Recovered(r)
  PROVE  [Promise!Next]_Promise!vars
<1> DEFINE o == reservations[r].of.objectId
           new(status) == [status |-> status, of |-> reservations[r].of]
<1>0. TypeOK /\ LockMatchesReservation
  BY DEF IInv
<1>1. /\ OpenOn(o, r) /\ o \in Objects
      /\ UNCHANGED lastFencingToken /\ LogOf' = LogOf
  BY DEF Recovered, Manager!Open, Manager!Details, LogOf
<1>2. OutcomeOf(r) = "open" /\ activeReservation[o] = r
  BY <1>0, <1>1, OpenOutcome DEF LockMatchesReservation
<1>3. CASE /\ reservations' = [reservations EXCEPT ![r] = new("RECOVERY_PENDING")]
           /\ UNCHANGED activeReservation
  <2>1. OutcomeOf(r)' = "open"
    <3>1. reservations'[r] = new("RECOVERY_PENDING")
      BY <1>0, <1>3, OthersKept
    <3> QED BY <3>1 DEF OutcomeOf
  <2>2. Outcomes' = Outcomes
    BY <1>0, <1>2, <1>3, <2>1, OneOutcomeChanges, ZenonT(60) DEF Outcomes
  <2> QED BY <1>1, <1>3, <2>2 DEF Promise!vars, Outcomes, LogOf
<1>4. CASE /\ reservations' = [reservations EXCEPT ![r] = new("ABORTED")]
           /\ activeReservation' = [activeReservation EXCEPT ![o] = NoReservation]
  <2>1. OutcomeOf(r)' = "aborted"
    <3>1. reservations'[r] = new("ABORTED")
      BY <1>0, <1>4, OthersKept
    <3> QED BY <3>1 DEF OutcomeOf
  <2>2. Outcomes' = [Outcomes EXCEPT ![r] = "aborted"]
    BY <1>0, <1>4, <2>1, OneOutcomeChanges
  <2>3. Promise!Abort(o, r)
    BY <1>1, <1>2, <1>4, <2>2 DEF Promise!Abort, Promise!End, Outcomes, LogOf
  <2> QED BY <1>1, <2>3 DEF Promise!Next
<1> QED BY <1>3, <1>4 DEF Recovered

LEMMA InitIsPromised == Init => Promise!Init
BY DEF Init, Store!StoreInit, Manager!ManagerInit, Manager!NoReservationYet,
       Promise!Init, OutcomeOf

LEMMA StepIsPromised == IInv /\ [Next]_vars => [Promise!Next]_Promise!vars
<1> SUFFICES ASSUME IInv, [Next]_vars PROVE [Promise!Next]_Promise!vars
  OBVIOUS
<1>1. CASE UNCHANGED coreVars \/ \E q \in TransitionRequest : Signed(q)
  <2>1. UNCHANGED <<objects, reservations, activeReservation, lastFencingToken>>
    BY <1>1 DEF coreVars, Signed
  <2>2. Outcomes' = Outcomes /\ LogOf' = LogOf
    BY <2>1 DEF Outcomes, LogOf, OutcomeOf
  <2> QED BY <2>1, <2>2 DEF Promise!vars, Outcomes, LogOf
<1>2. ASSUME NEW r \in ReservationIds, NEW of \in Manager!Details, Opened(r, of)
      PROVE  Promise!Next
  BY <1>2, OpeningClaims
<1>3. ASSUME NEW q \in requests, Executed(q)
      PROVE  Promise!Next
  BY <1>3, ExecutingWrites
<1>4. ASSUME NEW r \in ReservationIds, Recovered(r)
      PROVE  [Promise!Next]_Promise!vars
  BY <1>4, RecoveringAborts
<1> QED BY <1>1, <1>2, <1>3, <1>4, CoreEffect

(***************************************************************************)
(* The VDSO contracts implement FencedLog, for any number of kernels,      *)
(* objects, domains, reservations and requests: an execution enters one    *)
(* object's state once, and a reservation excludes every other writer      *)
(* until its one commit or its abort.                                      *)
(***************************************************************************)
THEOREM KernelKeepsPromise == Spec => KeepsPromise
BY InitIsPromised, StepIsPromised, KernelIInvIsInvariant, PTL
DEF Spec, KeepsPromise, Promise!Spec
=============================================================================
