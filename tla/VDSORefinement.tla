---------------------------- MODULE VDSORefinement ----------------------------
(***************************************************************************)
(* The VDSO contracts together implement FencedLog: what applied an        *)
(* object's state is its log, its reservation the claim on it.             *)
(***************************************************************************)
EXTENDS VDSOProperties

OutcomeOf(r) ==
  CASE reservations[r].status = "NONE" -> "none"
    [] reservations[r].status \in {"RESERVED", "RECOVERY_PENDING"} -> "open"
    [] reservations[r].status = "COMMITTED" -> "committed"
    [] reservations[r].status = "ABORTED" -> "aborted"

Promise == INSTANCE FencedLog WITH
  Logs <- Objects,
  Entries <- ExecutionIds,
  Claims <- ReservationIds,
  NoClaim <- NoReservation,
  log <- [o \in Objects |-> objects[o].root],
  claim <- activeReservation,
  outcome <- [r \in ReservationIds |-> OutcomeOf(r)],
  claimsMade <- lastFencingToken

(***************************************************************************)
(* Every execution is applied once, to the state it was computed from, and *)
(* a reservation excludes all others until its commit, which is its one    *)
(* write, or its abort, after which it has written nothing: across         *)
(* kernels, expiry, recovery, changes of authority and stale requests.     *)
(***************************************************************************)
KeepsPromise == Promise!Spec
=============================================================================
