--------------------------- MODULE VAMSProofRouter ---------------------------
(***************************************************************************)
(* contracts/src/vdso/VAMSProofRouter.sol and VAMSProgramRegistry.sol:     *)
(* which verifier speaks for a program, and that a receipt is accepted     *)
(* once.                                                                   *)
(*                                                                         *)
(* The verifier contracts are external: whether they accept a proof is a   *)
(* choice, and a refusal is no step.  A program's hash commitments are     *)
(* checked once at registration, against constants.                        *)
(***************************************************************************)
CONSTANTS
  ProgramIds, VerifierIds,
  ReceiptIds,
  NoVerifier

VARIABLES
  programs,         \* _programs of the program registry
  programsPaused,
  verifiers,        \* _verifiers of the proof router
  receiptUsed,
  proofsPaused

proofVars == <<programs, programsPaused, verifiers, receiptUsed, proofsPaused>>

ProgramConfig ==
  [registered : BOOLEAN, active : BOOLEAN,
   verifierId : VerifierIds \cup {NoVerifier}]

ProofTypeOK ==
  /\ programs \in [ProgramIds -> ProgramConfig]
  /\ programsPaused \in BOOLEAN
  /\ verifiers \in [VerifierIds -> {"NONE", "ACTIVE", "DISABLED"}]
  /\ receiptUsed \subseteq ReceiptIds
  /\ proofsPaused \in BOOLEAN

ProofInit ==
  /\ programs = [p \in ProgramIds |-> [registered |-> FALSE, active |-> FALSE,
                                       verifierId |-> NoVerifier]]
  /\ programsPaused = FALSE
  /\ verifiers = [v \in VerifierIds |-> "NONE"]
  /\ receiptUsed = {}
  /\ proofsPaused = FALSE

RegisterProgram(p, v) ==
  /\ ~programsPaused
  /\ ~programs[p].registered
  /\ programs' = [programs EXCEPT ![p] = [registered |-> TRUE, active |-> TRUE,
                                          verifierId |-> v]]
  /\ UNCHANGED <<programsPaused, verifiers, receiptUsed, proofsPaused>>

DeactivateProgram(p) ==
  /\ programs[p].active
  /\ programs' = [programs EXCEPT ![p].active = FALSE]
  /\ UNCHANGED <<programsPaused, verifiers, receiptUsed, proofsPaused>>

IsProgramActive(p, v) ==
  ~programsPaused /\ programs[p].active /\ programs[p].verifierId = v

PausePrograms(value) ==
  /\ programsPaused # value
  /\ programsPaused' = value
  /\ UNCHANGED <<programs, verifiers, receiptUsed, proofsPaused>>

ConfigureVerifier(v) ==
  /\ ~proofsPaused
  /\ verifiers[v] = "NONE"
  /\ verifiers' = [verifiers EXCEPT ![v] = "ACTIVE"]
  /\ UNCHANGED <<programs, programsPaused, receiptUsed, proofsPaused>>

DisableVerifier(v) ==
  /\ verifiers[v] = "ACTIVE"
  /\ verifiers' = [verifiers EXCEPT ![v] = "DISABLED"]
  /\ UNCHANGED <<programs, programsPaused, receiptUsed, proofsPaused>>

\* Mutant: a receipt is taken again.
VerifyAndRecordAgain(receipt, v) ==
  /\ ~proofsPaused
  /\ verifiers[v] = "ACTIVE"
  /\ receiptUsed' = receiptUsed \cup {receipt}
  /\ UNCHANGED <<programs, programsPaused, verifiers, proofsPaused>>

VerifyAndRecord(receipt, v) ==
  /\ ~proofsPaused
  /\ receipt \notin receiptUsed
  /\ verifiers[v] = "ACTIVE"
  /\ receiptUsed' = receiptUsed \cup {receipt}
  /\ UNCHANGED <<programs, programsPaused, verifiers, proofsPaused>>

PauseProofs(value) ==
  /\ proofsPaused # value
  /\ proofsPaused' = value
  /\ UNCHANGED <<programs, programsPaused, verifiers, receiptUsed>>
=============================================================================
