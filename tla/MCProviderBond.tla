--------------------------- MODULE MCProviderBond ---------------------------
(***************************************************************************)
(* Instances of ProviderBondAccounting for TLC.  No property names a       *)
(* provider or an escrow, so both sets are symmetric in the safety runs.   *)
(***************************************************************************)
EXTENDS ProviderBondAccounting, TLC

Symmetric == Permutations(Providers) \cup Permutations(EscrowIds)
=============================================================================
