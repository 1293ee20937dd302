------------------------- MODULE VAMSAdapterRegistry -------------------------
(***************************************************************************)
(* contracts/src/vdso/VAMSAdapterRegistry.sol, and the choice among its    *)
(* adapters that VAMSCapabilityRouter.sol makes.                           *)
(*                                                                         *)
(* An adapter is a contract outside: healthy says whether its code is      *)
(* still the pinned code and reports the host and capabilities registered. *)
(* Only adapters with the capabilities, host and verifier that requests    *)
(* ask for are modelled; the others are never chosen.                      *)
(***************************************************************************)
EXTENDS Naturals

CONSTANTS
  AdapterIds,         \* compared as numbers by the router
  ACTIVATION_DELAY,
  Lifetimes           \* how far ahead a registrar sets validUntil

VARIABLES
  now,
  adapters,           \* _adapters
  healthy,
  adaptersPaused,
  routerPaused        \* VAMSCapabilityRouter

adapterVars == <<adapters, healthy, adaptersPaused, routerPaused>>

AdapterConfig ==
  [status : {"NONE", "PENDING", "ACTIVE", "QUARANTINED", "RETIRED"},
   activateAfter : Nat, validUntil : Nat]
NoAdapterYet == [status |-> "NONE", activateAfter |-> 0, validUntil |-> 0]

AdapterTypeOK ==
  /\ adapters \in [AdapterIds -> AdapterConfig]
  /\ healthy \in [AdapterIds -> BOOLEAN]
  /\ adaptersPaused \in BOOLEAN
  /\ routerPaused \in BOOLEAN

AdapterInit ==
  /\ adapters = [a \in AdapterIds |-> NoAdapterYet]
  /\ healthy = [a \in AdapterIds |-> TRUE]
  /\ adaptersPaused = FALSE
  /\ routerPaused = FALSE

\* Mutant: the delay of the first activation still counts.
PendingAtOnce(a, validUntil) ==
  [status |-> "PENDING", validUntil |-> validUntil,
   activateAfter |-> IF adapters[a].status = "NONE" THEN now + ACTIVATION_DELAY
                     ELSE adapters[a].activateAfter]

Pending(a, validUntil) ==
  [status |-> "PENDING", validUntil |-> validUntil,
   activateAfter |-> now + ACTIVATION_DELAY]

\* proposeAdapter of a new adapter, scheduleReactivation of a quarantined one.
Schedule(a, from, validUntil) ==
  /\ ~adaptersPaused
  /\ adapters[a].status = from
  /\ validUntil > now + ACTIVATION_DELAY
  /\ adapters' = [adapters EXCEPT ![a] = Pending(a, validUntil)]
  /\ UNCHANGED <<healthy, adaptersPaused, routerPaused>>

ProposeAdapter(a, validUntil) ==
  healthy[a] /\ Schedule(a, "NONE", validUntil)

ScheduleReactivation(a, validUntil) == Schedule(a, "QUARANTINED", validUntil)

ActivateAdapter(a) ==
  /\ ~adaptersPaused
  /\ adapters[a].status = "PENDING"
  /\ now >= adapters[a].activateAfter
  /\ now < adapters[a].validUntil
  /\ healthy[a]
  /\ adapters' = [adapters EXCEPT ![a].status = "ACTIVE"]
  /\ UNCHANGED <<healthy, adaptersPaused, routerPaused>>

QuarantineAdapter(a) ==
  /\ adapters[a].status = "ACTIVE"
  /\ adapters' = [adapters EXCEPT ![a].status = "QUARANTINED"]
  /\ UNCHANGED <<healthy, adaptersPaused, routerPaused>>

RetireAdapter(a) ==
  /\ adapters[a].status # "NONE"
  /\ adapters' = [adapters EXCEPT ![a].status = "RETIRED"]
  /\ UNCHANGED <<healthy, adaptersPaused, routerPaused>>

IsActiveAndCapable(a) ==
  /\ ~adaptersPaused
  /\ adapters[a].status = "ACTIVE"
  /\ now < adapters[a].validUntil
  /\ healthy[a]

\* selectAdapter, when it does not revert: the lowest id that serves.
SelectAdapter(candidates, a) ==
  /\ ~routerPaused
  /\ a \in candidates
  /\ IsActiveAndCapable(a)
  /\ \A b \in candidates : IsActiveAndCapable(b) => a <= b

PauseAdapters(value) ==
  /\ adaptersPaused # value
  /\ adaptersPaused' = value
  /\ UNCHANGED <<adapters, healthy, routerPaused>>

PauseRouter(value) ==
  /\ routerPaused # value
  /\ routerPaused' = value
  /\ UNCHANGED <<adapters, healthy, adaptersPaused>>

\* The adapter's own contract changes, or changes back.
ChangeCode(a) ==
  /\ healthy' = [healthy EXCEPT ![a] = ~@]
  /\ UNCHANGED <<adapters, adaptersPaused, routerPaused>>
=============================================================================
