---------------------------- MODULE EscrowPromise ----------------------------
(***************************************************************************)
(* What an x402 escrow promises, whoever the contracts behind it are: a    *)
(* deposit is held until it leaves once and in full, to the provider (less *)
(* the fee), to the agent, or split between them, and then never moves     *)
(* again.  received says who got it, vault what stays.                     *)
(***************************************************************************)
EXTENDS Naturals

CONSTANTS
  Escrows,    \* each names the agent and the provider it is between
  Amounts,
  Fee,        \* what a payment costs: a function of its amount
  Parties,    \* whom tokens may go to: agents, providers and the treasury
  Treasury

VARIABLES
  outcome,      \* where the money of an escrow is
  deposit,      \* what its agent deposited
  vault,        \* tokens in custody
  received,     \* tokens each party got out of it
  hasTreasury   \* is there a treasury to take the fees?

vars == <<outcome, deposit, vault, received, hasTreasury>>

Init ==
  /\ outcome = [e \in Escrows |-> "none"]
  /\ deposit = [e \in Escrows |-> 0]
  /\ vault = 0
  /\ received = [x \in Parties |-> 0]
  /\ hasTreasury = TRUE

Deposit(e, amount) ==
  /\ outcome[e] = "none"
  /\ amount > 0
  /\ vault' = vault + amount
  /\ outcome' = [outcome EXCEPT ![e] = "held"]
  /\ deposit' = [deposit EXCEPT ![e] = amount]
  /\ UNCHANGED <<received, hasTreasury>>

\* The fee leaves with the payment, or stays when there is no treasury.
Pay(e) ==
  LET fee  == Fee[deposit[e]]
      kept == IF hasTreasury THEN 0 ELSE fee
  IN  /\ outcome[e] = "held"
      /\ vault' + deposit[e] = vault + kept
      /\ received' = [received EXCEPT ![Treasury] = @ + (fee - kept),
                                      ![e.provider] = @ + (deposit[e] - fee)]
      /\ outcome' = [outcome EXCEPT ![e] = "paid"]
      /\ UNCHANGED <<deposit, hasTreasury>>

Refund(e) ==
  /\ outcome[e] = "held"
  /\ vault' + deposit[e] = vault
  /\ received' = [received EXCEPT ![e.agent] = @ + deposit[e]]
  /\ outcome' = [outcome EXCEPT ![e] = "refunded"]
  /\ UNCHANGED <<deposit, hasTreasury>>

Split(e, share) ==
  /\ outcome[e] = "held"
  /\ vault' + deposit[e] = vault
  /\ received' = [received EXCEPT ![e.agent] = @ + share,
                                  ![e.provider] = @ + (deposit[e] - share)]
  /\ outcome' = [outcome EXCEPT ![e] = "split"]
  /\ UNCHANGED <<deposit, hasTreasury>>

SetTreasury(present) ==
  /\ hasTreasury' = present
  /\ UNCHANGED <<outcome, deposit, vault, received>>

Next ==
  \/ \E e \in Escrows :
       \/ \E amount \in Amounts : Deposit(e, amount)
       \/ Pay(e)
       \/ Refund(e)
       \/ \E share \in 0 .. deposit[e] : Split(e, share)
  \/ \E present \in BOOLEAN : SetTreasury(present)

Spec == Init /\ [][Next]_vars
=============================================================================
