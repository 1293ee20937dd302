------------------------- MODULE VAMSExecutionKernel -------------------------
(***************************************************************************)
(* contracts/src/vdso/VAMSExecutionKernel.sol: an executor submits a state *)
(* transition that a client signed; the kernel checks it against the       *)
(* object, its reservation, the authority over its domain, the adapters    *)
(* and the proof, and writes the object.                                   *)
(*                                                                         *)
(* Composes the contracts the kernel calls; a call is a conjunct of the    *)
(* step, so a revert there reverts the whole step.  Several kernels may    *)
(* share them: assigning a domain to another kernel is how one is          *)
(* replaced.                                                               *)
(***************************************************************************)
EXTENDS Naturals, Sequences, FiniteSets

CONSTANTS
  Kernels,              \* contracts holding KERNEL_ROLE
  Executors,            \* accounts holding EXECUTOR_ROLE
  Domains, Objects, ExecutionIds, ReservationIds, Intents,
  ProgramIds, VerifierIds, AdapterIds,
  NoDomain, NoWriter, NoReservation, NoVerifier, NoHolder,
  HasRecoveryVerifier,
  ACTIVATION_DELAY,
  ReservationTerms,     \* how long clients reserve for
  Lifetimes,            \* how long adapters are admitted for
  Admitted,             \* are programs, verifiers, adapters in place at first?
  MaxTime,              \* bound: the clock stops here
  MaxEpoch,             \* bound: changes of a domain's authority
  MaxRequests,          \* bound: requests signed
  Scope                 \* bound: what happens besides transitions

ASSUME KernelConstants ==
  /\ NoDomain \notin Domains
  /\ NoWriter \notin Kernels
  /\ NoReservation \notin ReservationIds
  /\ NoVerifier \notin VerifierIds
  /\ NoHolder \notin Executors
  /\ HasRecoveryVerifier \in BOOLEAN
  /\ AdapterIds \subseteq Nat
  /\ ACTIVATION_DELAY \in Nat
  /\ ReservationTerms \subseteq Nat
  /\ Lifetimes \subseteq Nat
  /\ Admitted \subseteq BOOLEAN
  /\ MaxTime \in Nat
  /\ MaxEpoch \in Nat
  /\ MaxRequests \in Nat
  /\ Scope \subseteq {"authority", "admission", "kernel pauses", "pauses"}

VARIABLES
  \* VAMSObjectStore
  authorities, objects, storePaused,
  \* VAMSReservationManager
  now, reservations, activeReservation, lastFencingToken, managerPaused,
  \* VAMSAdapterRegistry, VAMSCapabilityRouter
  adapters, healthy, adaptersPaused, routerPaused,
  \* VAMSProgramRegistry, VAMSProofRouter
  programs, programsPaused, verifiers, receiptUsed, proofsPaused,
  \* the kernels
  executionAdapter,     \* executionAdapter, 0 where executionUsed is false
  kernelPaused,
  \* the clients
  requests              \* every TransitionRequest ever signed

Store == INSTANCE VAMSObjectStore WITH Writers <- Kernels

NoAdapter == 0
ASSUME AdapterIdsAreNoZero == NoAdapter \notin AdapterIds

Roots == Seq(ExecutionIds)

(***************************************************************************)
(* What _computeSemanticTransitionHash hashes, less the constants.         *)
(***************************************************************************)
Transitions ==
  [intentId : Intents, programId : ProgramIds, objectId : Objects,
   domainId : Domains, authorityEpoch : Nat,
   reservationHolder : Executors \cup {NoHolder},
   preStateRoot : Roots, newStateRoot : Roots, expectedObjectVersion : Nat,
   fencingToken : Nat]

Manager == INSTANCE VAMSReservationManager WITH Holders <- Executors
Adapters == INSTANCE VAMSAdapterRegistry
Proofs == INSTANCE VAMSProofRouter WITH ReceiptIds <- ExecutionIds

storeVars == <<authorities, objects, storePaused>>
managerVars == <<reservations, activeReservation, lastFencingToken,
                 managerPaused>>
adapterVars == <<adapters, healthy, adaptersPaused, routerPaused>>
proofVars == <<programs, programsPaused, verifiers, receiptUsed, proofsPaused>>
kernelVars == <<executionAdapter, kernelPaused>>
vars == <<now, storeVars, managerVars, adapterVars, proofVars, kernelVars,
          requests>>

(***************************************************************************)
(* A TransitionRequest.  reservationId is NoReservation in the modes       *)
(* CONSUME and ACCUMULATE, which the kernel treats alike, and READ is      *)
(* refused; requiredHost must be Polygon; recovery says whether a          *)
(* recoveryExecutionProofHash is given (it must then match the proof).     *)
(***************************************************************************)
TransitionRequest ==
  [executionId : ExecutionIds, reservationId : ReservationIds \cup {NoReservation},
   verifierId : VerifierIds, recovery : BOOLEAN, transition : Transitions]

TypeOK ==
  /\ Store!StoreTypeOK
  /\ Manager!ManagerTypeOK
  /\ Adapters!AdapterTypeOK
  /\ Proofs!ProofTypeOK
  /\ executionAdapter \in [Kernels -> [ExecutionIds -> AdapterIds \cup {NoAdapter}]]
  /\ kernelPaused \in [Kernels -> BOOLEAN]
  /\ requests \subseteq TransitionRequest

\* As deployed, or once programs, verifiers and adapters were admitted.
AdmissionInit ==
  \/ FALSE \in Admitted /\ Adapters!AdapterInit /\ Proofs!ProofInit
  \/ /\ TRUE \in Admitted
     /\ \E v \in VerifierIds :
          programs = [p \in ProgramIds |-> [registered |-> TRUE,
                                            active |-> TRUE, verifierId |-> v]]
     /\ verifiers = [v \in VerifierIds |-> "ACTIVE"]
     /\ receiptUsed = {}
     /\ \E life \in Lifetimes :
          adapters = [a \in AdapterIds |-> [status |-> "ACTIVE",
                                            activateAfter |-> 0,
                                            validUntil |-> 1 + life]]
     /\ healthy = [a \in AdapterIds |-> TRUE]
     /\ adaptersPaused = FALSE
     /\ routerPaused = FALSE
     /\ programsPaused = FALSE
     /\ proofsPaused = FALSE

Init ==
  /\ Store!StoreInit
  /\ Manager!ManagerInit
  /\ AdmissionInit
  /\ executionAdapter = [k \in Kernels |-> [e \in ExecutionIds |-> NoAdapter]]
  /\ kernelPaused = [k \in Kernels |-> FALSE]
  /\ requests = {}

-----------------------------------------------------------------------------
\* Mutant: an authority over the domain, whenever it was given.
HasAnyAuthority(k, d, epoch) ==
  /\ authorities[d].enabled
  /\ authorities[d].writer = k
  /\ authorities[d].host = "POLYGON"

\* _requireDomainAuthority, for the only host an EVM kernel may write.
HasAuthority(k, d, epoch) ==
  /\ authorities[d].enabled
  /\ authorities[d].writer = k
  /\ authorities[d].host = "POLYGON"
  /\ authorities[d].epoch = epoch

\* Mutant: the object may be in another domain.
BeginReservationAnywhere(k, r, o, d, i, holder, expiresAt, epoch) ==
  /\ ~kernelPaused[k]
  /\ HasAuthority(k, d, epoch)
  /\ Manager!Reserve(r, o, d, i, holder, epoch, expiresAt)
  /\ UNCHANGED <<now, storeVars, adapterVars, proofVars, kernelVars, requests>>

BeginReservation(k, r, o, d, i, holder, expiresAt, epoch) ==
  /\ ~kernelPaused[k]
  /\ HasAuthority(k, d, epoch)
  /\ Store!DomainFits(o, d)
  /\ Manager!Reserve(r, o, d, i, holder, epoch, expiresAt)
  /\ UNCHANGED <<now, storeVars, adapterVars, proofVars, kernelVars, requests>>

(***************************************************************************)
(* A client reads the chain, computes the transition from the object it    *)
(* sees and signs the request.  Nothing keeps the chain from moving on     *)
(* before an executor submits it.                                          *)
(***************************************************************************)
SignRequest(e, o, d, i, p, v, r, recovery) ==
  LET reserved == r # NoReservation
      transition ==
        [intentId |-> i, programId |-> p, objectId |-> o, domainId |-> d,
         authorityEpoch |-> authorities[d].epoch,
         reservationHolder |-> IF reserved THEN reservations[r].of.holder
                               ELSE NoHolder,
         preStateRoot |-> objects[o].root,
         newStateRoot |-> Append(objects[o].root, e),
         expectedObjectVersion |-> objects[o].version,
         fencingToken |-> IF reserved THEN reservations[r].of.fencingToken
                          ELSE 0]
  IN  /\ reserved => reservations[r].status # "NONE"
      /\ requests' = requests \cup
           {[executionId |-> e, reservationId |-> r, verifierId |-> v,
             recovery |-> recovery, transition |-> transition]}
      /\ UNCHANGED <<now, storeVars, managerVars, adapterVars, proofVars,
                     kernelVars>>

-----------------------------------------------------------------------------
\* Mutant: a paused kernel still takes every request.
MayEnterPaused(k, q) == executionAdapter[k][q.executionId] = NoAdapter

MayEnter(k, q) ==
  /\ executionAdapter[k][q.executionId] = NoAdapter
  /\ kernelPaused[k] => q.reservationId # NoReservation

\* _validateTransition
ValidTransition(k, q) ==
  LET t == q.transition
      object == objects[t.objectId]
  IN  /\ MayEnter(k, q)
      /\ HasAuthority(k, t.domainId, t.authorityEpoch)
      /\ Proofs!IsProgramActive(t.programId, q.verifierId)
      /\ t.preStateRoot = object.root
      /\ t.expectedObjectVersion = object.version
      /\ Store!DomainFits(t.objectId, t.domainId)

\* Mutant: a request without a reservation does not look for one.
LockFitsReserved(q) ==
  q.reservationId # NoReservation =>
    activeReservation[q.transition.objectId] = q.reservationId

LockFits(q) == activeReservation[q.transition.objectId] = q.reservationId

\* Mutant: under whichever authority it was reserved.
ReservedForAnyEpoch(r, t) ==
  LET of == reservations[r].of
  IN  /\ of.objectId = t.objectId /\ of.intentId = t.intentId
      /\ of.domainId = t.domainId
      /\ of.fencingToken = t.fencingToken /\ of.holder = t.reservationHolder

ReservedFor(r, t) ==
  LET of == reservations[r].of
  IN  /\ of.objectId = t.objectId /\ of.intentId = t.intentId
      /\ of.domainId = t.domainId /\ of.authorityEpoch = t.authorityEpoch
      /\ of.fencingToken = t.fencingToken /\ of.holder = t.reservationHolder

\* _validateReservation, of a request that x submits
ValidReservation(q, x) ==
  LET r == q.reservationId
  IN  /\ LockFits(q)
      /\ r = NoReservation => ~q.recovery
      /\ r # NoReservation =>
           /\ ReservedFor(r, q.transition)
           /\ reservations[r].of.holder = x
           /\ reservations[r].status =
                IF q.recovery THEN "RECOVERY_PENDING" ELSE "RESERVED"

\* _finalizeReservation
FinalizeReservation(q) ==
  LET r == q.reservationId
      t == q.transition
  IN  CASE r = NoReservation -> UNCHANGED managerVars
        [] r # NoReservation /\ q.recovery ->
             Manager!FinalizeRecoveryCommit(r, t.fencingToken, t)
        [] r # NoReservation /\ ~q.recovery ->
             Manager!Commit(r, t.fencingToken, t)

\* Settlement metadata and its check by the adapter are a choice outside.
ExecuteTransition(k, x, q, candidates, a) ==
  LET t == q.transition
  IN  /\ ValidTransition(k, q)
      /\ ValidReservation(q, x)
      /\ Adapters!SelectAdapter(candidates, a)
      /\ executionAdapter' = [executionAdapter EXCEPT ![k][q.executionId] = a]
      /\ Proofs!VerifyAndRecord(q.executionId, q.verifierId)
      /\ FinalizeReservation(q)
      /\ Store!WriteObject(k, t.objectId, t.domainId, t.expectedObjectVersion,
                           t.newStateRoot)
      /\ UNCHANGED <<now, adapterVars, kernelPaused, requests>>

PauseKernel(k, value) ==
  /\ kernelPaused[k] # value
  /\ kernelPaused' = [kernelPaused EXCEPT ![k] = value]
  /\ UNCHANGED executionAdapter

-----------------------------------------------------------------------------
(***************************************************************************)
(* The steps, by who takes them.                                           *)
(***************************************************************************)
ExecutorStep ==
  \/ \E k \in Kernels, r \in ReservationIds, o \in Objects, d \in Domains,
        i \in Intents, holder \in Executors, term \in ReservationTerms :
       /\ now + term <= MaxTime
       /\ BeginReservation(k, r, o, d, i, holder, now + term,
                           authorities[d].epoch)
  \/ \E k \in Kernels, x \in Executors, q \in requests,
        candidates \in SUBSET AdapterIds, a \in AdapterIds :
       ExecuteTransition(k, x, q, candidates, a)

ClientStep ==
  /\ Cardinality(requests) < MaxRequests
  /\ \E e \in ExecutionIds, o \in Objects, d \in Domains, i \in Intents,
        p \in ProgramIds, v \in VerifierIds,
        r \in ReservationIds \cup {NoReservation}, recovery \in BOOLEAN :
       SignRequest(e, o, d, i, p, v, r, recovery)

MarkRecoveryPending(r) ==
  /\ Manager!MarkRecoveryPending(r)
  /\ UNCHANGED <<now, storeVars, adapterVars, proofVars, kernelVars, requests>>

AbortRecovery(r) ==
  /\ Manager!AbortRecovery(r)
  /\ UNCHANGED <<now, storeVars, adapterVars, proofVars, kernelVars, requests>>

AuthorityStep ==
  /\ "authority" \in Scope
  /\ \E d \in Domains :
       /\ authorities[d].epoch < MaxEpoch
       /\ \/ \E host \in Store!Hosts, writer \in Kernels :
               Store!AssignDomainAuthority(d, host, writer)
          \/ Store!DisableDomainAuthority(d)
  /\ UNCHANGED <<now, managerVars, adapterVars, proofVars, kernelVars, requests>>

AdmissionStep ==
  /\ "admission" \in Scope
  /\ \/ /\ \E a \in AdapterIds :
             \/ \E life \in Lifetimes :
                  \/ Adapters!ProposeAdapter(a, now + life)
                  \/ Adapters!ScheduleReactivation(a, now + life)
             \/ Adapters!ActivateAdapter(a)
             \/ Adapters!QuarantineAdapter(a)
             \/ Adapters!RetireAdapter(a)
             \/ Adapters!ChangeCode(a)
        /\ UNCHANGED proofVars
     \/ /\ \/ \E p \in ProgramIds, v \in VerifierIds : Proofs!RegisterProgram(p, v)
           \/ \E p \in ProgramIds : Proofs!DeactivateProgram(p)
           \/ \E v \in VerifierIds : \/ Proofs!ConfigureVerifier(v)
                                     \/ Proofs!DisableVerifier(v)
        /\ UNCHANGED adapterVars
  /\ UNCHANGED <<now, storeVars, managerVars, kernelVars, requests>>

KernelPauseStep ==
  /\ "kernel pauses" \in Scope
  /\ \E k \in Kernels, value \in BOOLEAN : PauseKernel(k, value)
  /\ UNCHANGED <<now, storeVars, managerVars, adapterVars, proofVars, requests>>

PauseStep ==
  /\ "pauses" \in Scope
  /\ \E value \in BOOLEAN :
       \/ Store!PauseStore(value) /\ UNCHANGED <<managerVars, adapterVars, proofVars>>
       \/ Manager!PauseManager(value) /\ UNCHANGED <<storeVars, adapterVars, proofVars>>
       \/ /\ Adapters!PauseAdapters(value) \/ Adapters!PauseRouter(value)
          /\ UNCHANGED <<storeVars, managerVars, proofVars>>
       \/ /\ Proofs!PausePrograms(value) \/ Proofs!PauseProofs(value)
          /\ UNCHANGED <<storeVars, managerVars, adapterVars>>
  /\ UNCHANGED <<now, kernelVars, requests>>

Tick ==
  /\ Manager!Tick
  /\ UNCHANGED <<storeVars, managerVars, adapterVars, proofVars, kernelVars,
                 requests>>

Next ==
  \/ ExecutorStep
  \/ ClientStep
  \/ \E r \in ReservationIds : MarkRecoveryPending(r) \/ AbortRecovery(r)
  \/ AuthorityStep
  \/ AdmissionStep
  \/ KernelPauseStep
  \/ PauseStep
  \/ Tick

Spec == Init /\ [][Next]_vars

(***************************************************************************)
(* Time passes, anybody may mark an expired reservation, and the holder of *)
(* RECOVERY_ROLE is there to abort one.  No executor or client need ever   *)
(* act, and nobody need ever unpause anything.                             *)
(***************************************************************************)
Fairness ==
  /\ WF_vars(Tick)
  /\ \A r \in ReservationIds : WF_vars(MarkRecoveryPending(r))
                            /\ WF_vars(AbortRecovery(r))

FairSpec == Spec /\ Fairness
=============================================================================
