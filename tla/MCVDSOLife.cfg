SPECIFICATION MCSpec
CONSTANTS
  Kernels = {k1}
  Executors = {x1}
  Domains = {d1, d2}
  Objects = {o1}
  ExecutionIds = {e1}
  ReservationIds = {r1}
  Intents = {i1}
  ProgramIds = {p1}
  VerifierIds = {v1}
  AdapterIds = {1}
  NoDomain = NoDomain
  NoWriter = NoWriter
  NoReservation = NoReservation
  NoVerifier = NoVerifier
  NoHolder = NoHolder
  HasRecoveryVerifier = TRUE
  ACTIVATION_DELAY = 1
  ReservationTerms = {1}
  Lifetimes = {2}
  Admitted = {TRUE, FALSE}
  MaxTime = 3
  MaxEpoch = 1
  MaxRequests = 1
  Scope = {"authority", "admission", "kernel pauses", "pauses"}
CHECK_DEADLOCK FALSE
INVARIANTS
  ReservedInItsDomain
PROPERTIES
  ReactivationIsDelayed
  ObjectIsFreed
  PauseDrains
