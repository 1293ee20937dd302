------------------------------- MODULE MCX402 -------------------------------
(***************************************************************************)
(* Instances of the x402 settlement (escrow manager, bond registry, nonce  *)
(* registry) for TLC.  No safety property names an agent or a provider, so *)
(* they are symmetric in the safety runs; the liveness runs have one each. *)
(***************************************************************************)
EXTENDS X402Accounting, X402Refinement, TLC

Symmetric == Permutations(Agents) \cup Permutations(Providers)

(***************************************************************************)
(* Bound: the insurance fund, which no escrow reads and which the instance *)
(* of the bond registry changes freely, changes here without escrows only. *)
(***************************************************************************)
FundSettled ==
  hasInsuranceFund' # hasInsuranceFund => escrowCount = 0 /\ now = MaxTime

\* Bound: a hashlock, which concerns its own escrow only, is on the first one.
FirstHashlocked ==
  \A id \in EscrowIds :
    escrows[id].status = "NONE" /\ escrows'[id].hashlock.locked => escrowCount = 0

SafetyNext ==
  \/ \E a \in Agents : AgentStep(a) /\ FirstHashlocked
  \/ \E id \in EscrowIds : PartyStep(id)
  \/ BondStep
  \/ OtherSettlement
  \/ NonceAdminStep \/ ManagerAdminStep
  \/ BondAdminStep /\ FundSettled
  \/ Tick

SafetySpec == Init /\ [][SafetyNext]_vars
=============================================================================
