SPECIFICATION ObjectsSpec
CONSTANTS
  Kernels = {k1, k2}
  Executors = {x1}
  Domains = {d1}
  Objects = {o1, o2}
  ExecutionIds = {e1, e2}
  ReservationIds = {r1, r2}
  Intents = {i1}
  ProgramIds = {p1}
  VerifierIds = {v1}
  AdapterIds = {1}
  NoDomain = NoDomain
  NoWriter = NoWriter
  NoReservation = NoReservation
  NoVerifier = NoVerifier
  NoHolder = NoHolder
  HasRecoveryVerifier = TRUE
  ACTIVATION_DELAY = 2
  ReservationTerms = {1}
  Lifetimes = {3}
  Admitted = {TRUE}
  MaxTime = 3
  MaxEpoch = 2
  MaxRequests = 2
  Scope = {"authority"}
SYMMETRY Symmetric
CHECK_DEADLOCK FALSE
INVARIANTS
  TypeOK
  LockMatchesReservation
  FencingTokensAscend
  NoLostUpdate
  CommittedAsReserved
PROPERTIES
  ReservedWriteCommits
  FencedOut
  KeepsPromise
