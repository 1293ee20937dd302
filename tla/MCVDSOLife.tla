----------------------------- MODULE MCVDSOLife -----------------------------
(***************************************************************************)
(* Two scenarios of the VDSO contracts: "recovery", where everything is    *)
(* admitted, contracts are paused and domains change hands, and            *)
(* "admission", where an empty deployment admits, changes and retires      *)
(* programs, verifiers and adapters, and nothing is paused or reserved.    *)
(***************************************************************************)
EXTENDS VDSORefinement, TLC

VARIABLE scenario

MCInit ==
  /\ Init
  /\ scenario = IF programs = [p \in ProgramIds |-> [registered |-> FALSE,
                                 active |-> FALSE, verifierId |-> NoVerifier]]
                THEN "admission" ELSE "recovery"

RecoveryNext ==
  \/ ExecutorStep
  \/ ClientStep
  \/ \E r \in ReservationIds : MarkRecoveryPending(r) \/ AbortRecovery(r)
  \/ AuthorityStep
  \/ KernelPauseStep
  \/ PauseStep
  \/ Tick

\* Bounds of "admission": one domain, requests without reservation or recovery.
OnlyDomain == CHOOSE d \in Domains : TRUE

PlainRequests ==
  \A req \in requests : /\ req.transition.domainId = OnlyDomain
                        /\ req.reservationId = NoReservation
                        /\ ~req.recovery

AdmissionNext ==
  /\ ExecutorStep \/ ClientStep \/ AuthorityStep \/ AdmissionStep \/ Tick
  /\ PlainRequests'
  /\ \A d \in Domains \ {OnlyDomain} : authorities'[d] = authorities[d]
  /\ reservations' = reservations

MCNext ==
  /\ \/ scenario = "recovery" /\ RecoveryNext
     \/ scenario = "admission" /\ AdmissionNext
  /\ UNCHANGED scenario

MCSpec == MCInit /\ [][MCNext]_<<vars, scenario>> /\ Fairness
=============================================================================
