------------------------ MODULE VAMSReservationManager ------------------------
(***************************************************************************)
(* contracts/src/vdso/VAMSReservationManager.sol: a reservation locks an   *)
(* object for its holder, with a fencing token.  Expiry does not unlock    *)
(* it: it only lets the reservation enter recovery, which ends in a late   *)
(* commit or, on a proof that nothing was executed, in an abort.           *)
(*                                                                         *)
(* reservationIdUsed is status # "NONE": reserve sets both, and nothing    *)
(* resets either.  Settlement metadata and recovery proof hashes are       *)
(* recorded for the outside only and left out.                             *)
(***************************************************************************)
EXTENDS Naturals

CONSTANTS
  ReservationIds, Objects, Domains, Intents,
  Holders,
  Transitions,          \* transition hashes
  NoReservation,        \* bytes32(0) in activeReservation
  HasRecoveryVerifier,  \* recoveryVerifier # address(0), fixed at deployment
  MaxTime               \* bound: the clock stops here

VARIABLES
  now,                  \* block.timestamp
  reservations,         \* _reservations
  activeReservation,
  lastFencingToken,
  managerPaused

managerVars == <<reservations, activeReservation, lastFencingToken,
                 managerPaused>>

Details ==
  [objectId : Objects, domainId : Domains, intentId : Intents,
   holder : Holders, authorityEpoch : Nat, fencingToken : Nat,
   expiresAt : Nat]

NoReservationYet == [status |-> "NONE"]

Open == [status : {"RESERVED", "RECOVERY_PENDING", "ABORTED"}, of : Details]
Committed == [status : {"COMMITTED"}, of : Details, transition : Transitions]
Reservation == {NoReservationYet} \cup Open \cup Committed

ManagerTypeOK ==
  /\ now \in Nat
  /\ reservations \in [ReservationIds -> Reservation]
  /\ activeReservation \in [Objects -> ReservationIds \cup {NoReservation}]
  /\ lastFencingToken \in [Objects -> Nat]
  /\ managerPaused \in BOOLEAN

ManagerInit ==
  /\ now = 1
  /\ reservations = [r \in ReservationIds |-> NoReservationYet]
  /\ activeReservation = [o \in Objects |-> NoReservation]
  /\ lastFencingToken = [o \in Objects |-> 0]
  /\ managerPaused = FALSE

-----------------------------------------------------------------------------
\* Mutant: an expired reservation no longer holds its object.
FreeUnlessUnexpired(o) ==
  LET r == activeReservation[o]
  IN  r # NoReservation => now >= reservations[r].of.expiresAt

Free(o) == activeReservation[o] = NoReservation

Reserve(r, o, d, i, holder, epoch, expiresAt) ==
  LET token == lastFencingToken[o] + 1
  IN  /\ ~managerPaused
      /\ epoch # 0
      /\ reservations[r].status = "NONE"
      /\ expiresAt > now
      /\ Free(o)
      /\ lastFencingToken' = [lastFencingToken EXCEPT ![o] = token]
      /\ activeReservation' = [activeReservation EXCEPT ![o] = r]
      /\ reservations' = [reservations EXCEPT ![r] =
           [status |-> "RESERVED",
            of |-> [objectId |-> o, domainId |-> d, intentId |-> i,
                    holder |-> holder, authorityEpoch |-> epoch,
                    fencingToken |-> token, expiresAt |-> expiresAt]]]
      /\ UNCHANGED managerPaused

\* Mutant: an expired reservation lets go of its object.
MarkRecoveryUnlocked(r) ==
  /\ reservations[r].status = "RESERVED"
  /\ now >= reservations[r].of.expiresAt
  /\ reservations' = [reservations EXCEPT ![r].status = "RECOVERY_PENDING"]
  /\ activeReservation' =
       [activeReservation EXCEPT ![reservations[r].of.objectId] = NoReservation]
  /\ UNCHANGED <<lastFencingToken, managerPaused>>

\* Anybody may call it.
MarkRecoveryPending(r) ==
  /\ reservations[r].status = "RESERVED"
  /\ now >= reservations[r].of.expiresAt
  /\ reservations' = [reservations EXCEPT ![r].status = "RECOVERY_PENDING"]
  /\ UNCHANGED <<activeReservation, lastFencingToken, managerPaused>>

\* Mutant: the object is not released.
SettleOnly(r, settled) ==
  /\ reservations' = [reservations EXCEPT ![r] = settled]
  /\ UNCHANGED <<activeReservation, lastFencingToken, managerPaused>>

Settle(r, settled) ==
  /\ reservations' = [reservations EXCEPT ![r] = settled]
  /\ activeReservation' =
       [activeReservation EXCEPT ![reservations[r].of.objectId] = NoReservation]
  /\ UNCHANGED <<lastFencingToken, managerPaused>>

\* Mutant: the transition is not recorded.
CommittedUnrecorded(r, transition) == [reservations[r] EXCEPT !.status = "COMMITTED"]

CommittedAs(r, transition) ==
  [status |-> "COMMITTED", of |-> reservations[r].of, transition |-> transition]

Commit(r, token, transition) ==
  /\ reservations[r].status = "RESERVED"
  /\ now < reservations[r].of.expiresAt
  /\ token = reservations[r].of.fencingToken
  /\ Settle(r, CommittedAs(r, transition))

FinalizeRecoveryCommit(r, token, transition) ==
  /\ reservations[r].status = "RECOVERY_PENDING"
  /\ token = reservations[r].of.fencingToken
  /\ Settle(r, CommittedAs(r, transition))

\* Mutant: aborting is pausable.
AbortableUnpaused(r) ==
  /\ ~managerPaused
  /\ HasRecoveryVerifier
  /\ reservations[r].status = "RECOVERY_PENDING"

Abortable(r) ==
  /\ HasRecoveryVerifier
  /\ reservations[r].status = "RECOVERY_PENDING"

\* The verifier is external: whether it accepts the proof is a choice.
AbortRecovery(r) ==
  /\ Abortable(r)
  /\ Settle(r, [reservations[r] EXCEPT !.status = "ABORTED"])

PauseManager(value) ==
  /\ managerPaused # value
  /\ managerPaused' = value
  /\ UNCHANGED <<reservations, activeReservation, lastFencingToken>>

Tick ==
  /\ now < MaxTime
  /\ now' = now + 1
=============================================================================
