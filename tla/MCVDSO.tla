------------------------------- MODULE MCVDSO -------------------------------
(***************************************************************************)
(* Objects, reservations and changes of authority, with all admitted and   *)
(* nothing paused: MCVDSOLife has the admissions and the pauses.           *)
(***************************************************************************)
EXTENDS VDSORefinement, TLC

Symmetric ==
  Permutations(Kernels) \cup Permutations(Executors) \cup Permutations(Objects)
  \cup Permutations(Domains) \cup Permutations(ExecutionIds)
  \cup Permutations(ReservationIds) \cup Permutations(Intents)

ObjectsNext ==
  \/ ExecutorStep
  \/ ClientStep
  \/ \E r \in ReservationIds : MarkRecoveryPending(r) \/ AbortRecovery(r)
  \/ AuthorityStep
  \/ Tick

ObjectsSpec == Init /\ [][ObjectsNext]_vars
=============================================================================
