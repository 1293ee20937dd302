------------------------------- MODULE MCBatch -------------------------------
(***************************************************************************)
(* Three scenarios: "registry", where other settlers use the nonce         *)
(* registry alone, with several agents and batches of nonces; "batches",   *)
(* where BatchSettlement works for one agent, with payments of one amount  *)
(* on several nonces, and another settler settles now and then; and        *)
(* "sharing", where payments of several amounts name one nonce.  No        *)
(* property names a receipt of another settler.                            *)
(***************************************************************************)
EXTENDS BatchAccounting, TLC

CONSTANTS
  Scenarios,
  Amount, Nonce     \* the one amount of "batches", the one nonce of "sharing"
VARIABLE scenario

Symmetric == Permutations(OtherReceipts)

MCInit == Init /\ scenario \in Scenarios

\* Bounds of "batches": administrators act before the first batch is submitted
\* (the registry) or while there is one (this contract), and payments have one
\* agent.
AdministratorsActEarly ==
  /\ batches # <<>> => UNCHANGED <<settlers, noncePaused>>
  /\ paused' # paused => Len(batches) <= 1 /\ now \in {0, MaxTime}
  /\ batches' # batches => Self \in settlers' /\ ~noncePaused' /\ (Len(batches') = 2 => ~paused')

\* Another settler settles at most once, nonce 0 of an agent that pays here.
SettledElsewhere ==
  {an \in Agents \X (0 .. MaxNonce) :
     nonces[an[1]][an[2]].used /\ an \notin Settled}
OneElsewhere ==
  /\ Cardinality(SettledElsewhere) <= 1
  /\ \A an \in SettledElsewhere : nonces[an[1]][an[2]].escrowId = 1
       /\ an[1] \in Payers /\ an[2] = 0

RegistryNext ==
  \/ \E s \in OtherSettlers : OtherSettlement(s) \/ OtherSettlements(s)
  \/ NonceAdminStep

Submitted == UNION {batches[b].payments : b \in DOMAIN batches}

BatchesNext ==
  /\ \/ BatchStep
     \/ \E s \in OtherSettlers : OtherSettlement(s)
     \/ NonceAdminStep
     \/ Tick
  /\ AdministratorsActEarly
  /\ OneElsewhere'

\* Bound of "sharing": what "batches" has is left out.
SharingBound ==
  /\ ~paused' /\ ~noncePaused' /\ SettledElsewhere' = {}
  /\ \A b \in DOMAIN batches' : batches'[b].status # "DISPUTED"

MCNext ==
  /\ \/ scenario = "registry" /\ RegistryNext
     \/ /\ scenario = "batches"
        /\ BatchesNext
        /\ \A p \in Submitted' : p.amount = Amount
     \/ /\ scenario = "sharing"
        /\ BatchesNext
        /\ \A p \in Submitted' : p.nonce = Nonce
        /\ SharingBound
  /\ UNCHANGED scenario

MCSpec == MCInit /\ [][MCNext]_<<vars, scenario>>
=============================================================================
