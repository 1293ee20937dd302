# VAMS, specified

VAMS is a network in which agents buy services from providers. Solidity
contracts (`contracts/src`) settle the purchases; a Python runtime (`neuron/`)
and an HTTP gateway (`gateway/`) act for the agents; Aiken validators
(`cardano/`) mirror part of the governance; Rust crates (`vams-vm/`) check the
programs that are executed; a React page (`frontend-vite/`) shows the nodes of
the gateway. This directory specifies the contracts that hold money (X402 and
batches), those that hold the state of verified computations (VDSO), and the
page with the part of the gateway it polls. It checks them with TLC and proves
the invariants that matter most with TLAPS.

All paths below are relative to the repository.

## The system

| component | state | operations | what makes it correct |
|---|---|---|---|
| `economic/ProviderBondRegistry` | a bond per provider, a request per escrow id, totals, token balance | register, top up, withdraw after a delay, accept and complete requests, slash, compensate, lock collateral | bonds are funded, counters match requests, the stake cannot leave from under a request |
| `economic/X402NonceRegistry` | used nonces per agent, claimed receipts, settlers | consume one or a batch, next nonce, settlers, pause | a nonce and a receipt settle once, for each other |
| `economic/X402EscrowManager` | escrows, disputes, pending withdrawals, totals, balance | lock, extend, refund, approve proof, claim, withdraw, dispute, resolve | each deposit leaves once and in full; nobody is locked in |
| `economic/BatchSettlement` | batches under Merkle roots, claims | submit, finalise, claim payment, dispute, resolve, reclaim | a payment is paid at most once, a batch stays funded |
| `economic/TwoPhaseCommitManager` | transactions over several escrows | prepare, commit, abort, claim refund | all providers are paid or the buyer is refunded |
| `economic/ComposedSettlement` | an allocation to several providers | lock, claim, refund | shares add up to the deposit |
| `economic/TransactionCompensation`, `OutageRecoveryManager` | incidents, claims with votes, emergency withdrawals | vote, pay, expire | approved claims can be paid once |
| `vdso/VAMSObjectStore` | objects with a domain, a state root and a version; an authority with an epoch per domain | assign and disable authorities, write | a write names the version it replaces |
| `vdso/VAMSReservationManager` | reservations, the active one and the last fencing token of each object | reserve, mark for recovery, commit, commit from recovery, abort | one open reservation per object, with one outcome |
| `vdso/VAMSAdapterRegistry`, `VAMSCapabilityRouter` | adapters with status, activation time, expiry | propose, activate, quarantine, reactivate, retire, select | delays are served |
| `vdso/VAMSProgramRegistry`, `VAMSProofRouter` | programs, verifiers, consumed receipts | register, deactivate, configure, disable, verify and record | a receipt is accepted once |
| `vdso/VAMSExecutionKernel` | executions used, with their adapters | begin a reservation, execute a transition | no lost or stale write; old authority is fenced out |
| `staking/VAMSStaking` | stakes, locks, reward debt | stake, unstake, claim | locks only extend, rewards are paid once |
| `slashing/*`, `sentinel/*` | operators, jail, proposals with committed votes, checkpoints | register, report, commit, reveal, execute | an offence is punished once and not undone |
| `registry/*`, `routing/*`, `trust/*`, `oracle/*`, `governance/*`, `vesting/*`, `token/*`, `infrastructure/*`, `da/*` | records, scores, rounds, parameters | | |
| `neuron/sdk/x402_recovery.py` | checkpoints of a payment in progress | invoke, recover after a crash | a service call is paid for once |
| `frontend-vite/src/config.js`, `vite.config.js` | none: the gateway's URL, resolved when the page loads and again by the server that delivers it | resolve, serve | the two agree, and the policy lets the page poll |
| `frontend-vite/src/App.jsx`, `main.jsx` | the effects in force, the polls in flight, the metrics shown, theme, tab, selected node | mount, hot reload, poll, toggle, scroll, select, render | effects run once, late polls show nothing, what is shown settles with the gateway |
| `gateway/server.py` (nodes) | the nodes, by id, with key and last heartbeat | heartbeat, list, clean up | online nodes stay, their keys too |
| `neuron/*`, the rest of `gateway/*`, `cardano/*`, `vams-vm/*` | runtime, jobs and proxies, validators, program checker | | |

How they interact: `lockEscrow` calls `acceptRequest` on the bond registry;
`claimEscrow`, `refundExpiredEscrow` and `resolveDispute` call
`completeRequest` there, and `claimEscrow` consumes the agent's nonce.
`BatchSettlement.claimPayment` consumes nonces of the same registry.
`TwoPhaseCommitManager` locks escrows as their agent. `HardwareCommitment`
locks collateral in the bond registry, slashers cut the bond, and the slashed
share goes to the insurance fund. `VAMSExecutionKernel.executeTransition` reads and calls all the other VDSO
contracts, and is what keeps them in agreement: an object's lock is in the
manager, its version and domain are in the store. All calls are synchronous: a
revert in the callee reverts the whole transaction. The page polls
`GET /health` and `GET /nodes` of the gateway; every await of a poll is a point
where anything else may happen.

What is hard here: transactions of independent parties interleave in any order;
several contracts keep copies of one fact (an escrow in flight is a status in
one, a request in another, a counter in a third); checks are made in one
transaction and relied on in a later one (a free nonce, an expired delay, a
collateral floor); deadlines of two operations meet in one block; and any
contract may be paused, or lose a role, between two steps of a payment. In the
page, polls overlap and end in any order, and an effect that is cleaned up may
have a poll under way that still ends. The `hazards` of PROJECT.json list the places.

## The models

A transaction is atomic on the chain, so it is one step. A `require`, a
`revert`, an early return and a checked subtraction are guards; the state
variables are primed from the assignments; the block clock is `now`, advanced
by `Tick`, and several transactions may share an instant, as they share a
block. Roles are not state, except `SETTLER_ROLE`: an action is available to
whoever holds the role it needs. The token is external: it can always be taken
from the payer, and is paid out only from the balance.

| module | models |
|---|---|
| `ProviderBondRegistry` | the contract, one action per external function; `_bonds`, `_activeRequests`, the totals and the token balance are its variables |
| `SetSums` | the sum of a function over a finite set, for the properties and for the value of a batch |
| `ProviderBondAccounting` | its properties |
| `X402NonceRegistry` | the contract; a batch is a sequence of entries, consumed as a whole or not at all |
| `X402EscrowManager` | the contract, composed with both registries through `INSTANCE`: a call is a conjunct of the caller's action. `OtherSettlement` is what `BatchSettlement` does to the nonces |
| `BatchSettlement` | the contract, one action per function, composed with `X402NonceRegistry`; `OtherSettlement(s)` is what other settlers, the escrow manager among them, do to the nonces |
| `BatchAccounting` | its properties |
| `X402Accounting` | properties of the composition that need sums |
| `EscrowPromise` | the abstract specification: a deposit is held until it leaves, once and in full, and the agent, the provider and the treasury receive exactly their parts of it |
| `X402Refinement` | the refinement mapping from the escrow manager to `EscrowPromise` |
| `VAMSObjectStore`, `VAMSReservationManager`, `VAMSAdapterRegistry` (with `VAMSCapabilityRouter`), `VAMSProofRouter` (with `VAMSProgramRegistry`) | the VDSO contracts, one operator per function |
| `VAMSExecutionKernel` | any number of kernels sharing those contracts, composed through `INSTANCE`; the clients that sign requests and the executors that submit them |
| `VDSOProperties` | properties of the composition |
| `FencedLog` | the abstract specification: a log of executions per object, with an exclusive claim on it |
| `VDSORefinement` | the refinement mapping from the kernels to `FencedLog` |
| `GatewayConfig` | `config.js` and `vite.config.js`: which URL a page of a deployment resolves, and which its policy allows |
| `VAMSGateway` | the table of nodes of `gateway/server.py` |
| `NeuralTopography` | the effect of the animated background and its cleanup |
| `GatewayTelemetry` | the polling effect: each run, its polls, its interval, what it sets |
| `App` | the page: composes the four, and renders |
| `AppProperties` | its properties |
| `*Proofs` | theorems, see below |
| `MC*` | instances for TLC |

Representation choices. An escrow id is the record of the four values
`_computeEscrowId` hashes (`X402EscrowManager.sol:567`), so two locks with the
same values have the same id, as in the code. A hashlock is the record of its
preimage. `received` counts the tokens the escrow manager has transferred to each
address; `Treasury` is whichever address is the treasury at the time, and
`hasTreasury` whether one is set. `Solvent` bounds the manager's balance from
below; the exact amounts, and who gets them, are in `EscrowPromise`. A receipt
hash is the record of what is hashed. `registeredAt > 0` is `registered`. Left out because nothing reads them: `consumedAt`, reasons,
events, hashes of evidence.

In the composition the bond registry's environment is narrower than in its own
model: requests come only from the escrow manager. In the bond registry's own
model any id that is not live may be accepted; that is what the escrow manager
guarantees when a client does not lock the same id twice in one block.
`ReuseIdInBlock` says whether clients do.

### VDSO

A request is a `TransitionRequest` as a client signs it: computed from what the
chain shows at that moment. `requests` keeps every request ever signed, and an
executor may submit any of them to any kernel at any later time, as often as it
likes, so that stale, reordered and repeated submissions are all there.
Clients sign what the chain shows; a request with values that were never on the
chain is refused by the same comparisons. A state root is the sequence of the
executions applied so far, so two different states have different roots, as
with a hash, and two different executions never lead to the same root (an
execution that leaves the root as it was is not modelled).

`NoReservation` as the request's reservation stands for the access modes
CONSUME and ACCUMULATE, which the kernel treats alike; READ is refused, and so
is every host but Polygon. The semantic transition hash is the record of what
it hashes. Whether a verifier, a recovery verifier or an adapter accepts a
proof is a choice; a refusal is a revert and no step. `healthy` says whether an
adapter's code is still the pinned one and reports what was registered.
`receiptUsed` and `executionUsed` are kept apart, as in the code: the second is
one per kernel, and kernels replace each other through `assignDomainAuthority`.

`Admitted` says from which states a run starts: with programs, verifiers and
adapters already admitted, a state their registrars reach, or from the empty
deployment, where the run goes through the admissions. `Scope` chooses what
happens besides transitions: changes of authority, admissions, pauses of the
kernels, pauses of the other contracts.

### Batches

A batch is the set of payments in its Merkle tree; a proof is membership, and
`totalValue` is their sum: it is what gateways deposit, and nothing in the
contract compares it with the tree. (A gateway that states less is not
modelled; the signatures of the batch are what is there against it.) A payment
is what `_computePaymentHash` hashes, less the service type. The receipt hash is
the record of the payment and the instant of the claim. `claims` keeps the
status of a payment's record: the other fields are read by nobody but
`resolvePaymentDispute`, which pays the disputed payment's own amount to its own
agent. A claim and several claims in one call are one operator, `Claim`: the
loop runs in one transaction, so the nonces it consumes one by one are a batch
of the registry, and any revert undoes all. The treasury is set, as the
initializer and `setTreasury` require.

The code allows, and the model has: a payment in several batches; a disputed
payment that is claimed before it is resolved, a refunded one that is claimed
afterwards; a rejected dispute that marks the payment CLAIMED without paying
(`IBatchSettlement.sol` calls this "pay provider"); a reclaim that sends the
whole balance.

### The page

`deployment` is how the page was built and is served: the mode, and
`VITE_VAMS_GATEWAY_URL` (absent, blank, unparsable, or a URL with a protocol, a
host and any parts beyond an origin). The scripts of `package.json` are the
deployments there are: `dev`, and `build` with `preview`; the variable is the
same for building and for previewing. A page served by anything else, with
another policy or none, is not modelled.

An effect has a run number, and what it sets up (canvas, frame, listeners,
interval, observers) is recorded with the number of the run, so that something
left behind by an earlier run shows. React's rules are external and modelled as
they are: StrictMode (development only) runs each effect, its cleanup and the
effect again at the first mount; a change of a dependency runs the cleanup and
the effect; React Refresh runs all of them and keeps the state. That the
development server's own scripts run under the policy it sends is assumed: hot
reloads are steps of the model whether the policy admits them or not. An effect
that throws during the mount (no WebGL) removes the page, and React cleans up
the effects that had run.

A poll is two awaits, `GET /health` and `GET /nodes`, and a continuation after
the last of them; each is a step, so that anything may happen in between: other
polls, cleanups, changes of the gateway. Nothing aborts a poll and nothing
bounds its time; polls of every run of the effect stay in flight until they
end. A refused poll (gateway out of reach, an error, the policy) is one that
fails. The registry in the gateway is a dict: `order` is its order of insertion,
which is the order of `GET /nodes`; what an eviction leaves of it (`Remaining`)
is taken place by place, by rank. Ages are counted to where they stop to
matter. A node's profile is abstracted to the domains it has scores for.

The selected node is looked up, memoised and rendered as in the code: the value
of `GatewayTab` is what the tab shows in a state.

Operators whose comment starts with `Mutant:` are not part of the model. Each
is a plausible bug in the definition that follows it; putting it in the place
of that definition makes TLC refute the property it is listed with in
PROJECT.json, which shows that the property depends on that line of the code.

## What is checked

| run | question | bounds |
|---|---|---|
| `bond` | are bonds funded, do the counters match, can a provider escape its requests or the delay? | 2 providers, 2 escrow ids, clock to 3 (three times the delay), deposits of 4 in all, slashes of 1 and 3, half of each to the insurance fund (1 of 3, 0 of 1) |
| `bond_collateral` | does locked collateral stay in the bond? no | as `bond` |
| `x402_requests` | do the three contracts agree on what is in flight; does a nonce settle one escrow, is a withdrawal final; are the contracts solvent; do they implement `EscrowPromise`: does each deposit leave once, with exact parts to the agent, the provider and the treasury? | 2 escrows of one agent sharing a nonce, amounts of 3 of which the fee is 1, clock to 5, slashes larger than the bond's slack, the treasury set and unset at any time; the escrow manager is the only settler |
| `x402_liveness` | does locked and claimed money get out? | 1 escrow, every contract paused and resumed, settlers authorised and revoked, and nonces used by another settler, at any time, clock to 4, no slashes |
| `x402_same_block` | is every lock an escrow of its own? no | 2 locks |
| `x402_dispute` | is every dispute resolved? no | 1 escrow |
| `batches` | does a nonce pay once and a receipt settle one nonce, whoever settles; is the next nonce free; does a verdict on a batch stand? | three scenarios. "registry": 2 agents, 3 nonces, 3 receipts of another settler, batches of 2. "batches": 2 batches of up to 2 payments, 1 agent, 1 provider, 2 nonces, window and expiry of 1, clock to 2, at most one settlement by another. "sharing": the same with 1 nonce and amounts of 1 and 2, no pauses, no disputes of batches and no settlement by another |
| `batches_reclaim` | does a reclaim leave the other batches funded? no | as "batches", clock to 3, no resolver |
| `vdso_objects` | is an update ever lost or a lock broken; does old authority or a stale request get through; do the contracts implement `FencedLog`? | 2 kernels, 2 objects in one domain, 2 executions, 2 reservations of one tick, 2 requests, 2 changes of authority, clock to 3 |
| `vdso_life` | can a reservation stand in a domain its object is not in; is every lock released, whatever is paused; does a paused kernel only drain; is a quarantined adapter back only after the delay? | 1 kernel, 2 domains, 1 object, 1 adapter, 1 request, 1 change of authority, delay 1, lifetime 2, clock to 3. Two scenarios. "recovery": everything admitted, every contract paused and resumed. "admission": from the empty deployment, one domain |
| `frontend` | do effects run once; do late polls show nothing; may a served page poll; do online nodes stay; does the page settle with the gateway? | 2 nodes with 2 keys, a gateway with room for 1, timeouts of 1, 2 polls in flight, 3 runs of the polling effect, 4 of the background. Three scenarios: every deployment up to the mount, the gateway with overlapping polls, the visitor with hot reloads |
| `frontend_profile` | does the selected node get its profile? no | the scenario of the visitor |

The bounds are small because each hazard needs few actors: two providers show
that one's slash or withdrawal does not touch another's bond; two escrows that
share the nonce and the provider show every conflict over a nonce, a request
counter, a total or the balance; the clock must run from a lock through expiry
and the dispute window, at one tick each, with the instants before, at and
after each deadline all present. `BOND_COVERAGE_RATIO`, the fees and the
insurance share are scaled down so that amounts of 1 to 4 split unevenly and
reach every guard. In `bond` the insurance fund is set and unset at any time; in
`x402_requests`, where no escrow reads it, only at the end of an instance
without escrows (`FundSettled`), and only the first escrow may have a hashlock
(`FirstHashlocked`), which no property and no other escrow reads. Another
settler acts in `x402_liveness` and a slash in `x402_requests`; that a nonce
settles no escrow after another settler used it is shown by the theorem
`NonceSettlesOnce` and, for the registry, by `batches`. `EarnedCap` is 0 in the runs: `totalEarned` is a statistic
that no contract reads. `AdminScope` chooses which administrators act in a run;
between them the runs have all.

For the VDSO runs: two kernels and two executions are what a replacement and a
conflict between a stale and a fresh request need; two reservations make one
object be reserved again after an abort, with the next token; the reservations
last one tick, so that a clock of 3 has instants before, at and after the
expiry of each; two changes of authority take a domain from a kernel, and give
it back or disable it; two requests, of any reservation, are enough for one to
be stale because of the other. `vdso_objects` has one holder, one domain and
one intent, so of `CommittedAsReserved` it exercises the epoch and the token;
the theorem has all of it. One adapter is enough for `vdso_life`, as no
adapter's record depends on another's. `bond`, `bond_collateral`,
`x402_requests`, `vdso_objects` and the batch runs use symmetry; their
properties name no element of the symmetric sets, and no temporal property
under fairness is checked with it.

For the batches: two batches are what it takes for one payment to be in both,
and for the reclaim of one to meet the deposit of the other; two payments are
claimed in one call; different payments that name one nonce are in "sharing",
where their amounts tell them apart; a clock of 2 has the instants before, at
and after the end of the window and the expiry, a clock of 3 also those of a
later batch. Administrators act before the first batch (on the registry) or
while there is one (on the contract): a pause delays a claim, and claims at
every later instant are there. Many agents and many settlers are in "registry",
where the nonces are all there is.

For the page: a gateway with room for one of two nodes evicts on every join; two
polls in flight overlap in either order, and each may be of a run that was
cleaned up; StrictMode uses two runs of each effect, and the third is of a hot
reload; the background has one more run for a toggle of the theme. Three hosts
are the two that `config.js` names and another. The scenarios separate what
does not interact: what is deployed does not change after the mount, and the
visitor's tab and selection are read by no poll.

Between them the runs take every action of every module: what one run leaves
out (admissions and pauses in `vdso_objects`, the insurance fund of
`x402_requests` while escrows exist) another has.

Deadlock is not checked: every clock is bounded, and a contract with nothing
left to do is a legal state.

### Fairness

`FairSpec` assumes that the clock runs, that an agent takes back what it can
take back, and that a provider withdraws what it can withdraw; each is the only
party that gains by the call, and each call is open to it without anybody's
help. Nothing is assumed of administrators, verifiers, slashers or resolvers.
The clock's bound does not cut a payment short: a lock whose expiry and window
would pass the bound is not made (`WithinHorizon`). `ResolverSpec` adds
resolvers that decide every dispute they can, which makes the counterexample
of `x402_dispute` the code's doing and not their absence.

The `FairSpec` of the kernel assumes that the clock runs, that somebody marks an
expired reservation for recovery (anybody may), and that the holder of
`RECOVERY_ROLE` aborts what stays there, with a proof the recovery verifier
accepts. Neither executors nor clients nor those who pause need ever act. A
deployment without recovery verifier cannot promise this: the code says that it
"freezes ambiguity closed" (`VAMSReservationManager.sol:208`), and
`script/DeployVDSOCanary.s.sol` deploys it so.

`FairSpec` of the page assumes that the browser mounts it, fires its interval
and runs its continuations, and that a request ends, with an answer or an
error. The last is an assumption about the browser and the network, since the
page sets no timeout. Nothing is assumed of the gateway, its nodes or the
visitor: that the gateway stays within reach, or out of it, is the antecedent
of `PageFollowsGateway`, and so is that the page stays shown.

### Where the code departs from what the repository says

* `bond_collateral`: `requestWithdrawal` reverts when the withdrawal would cut
  into locked hardware collateral; `executeWithdrawal` does not look again, so
  collateral locked during the delay leaves with the bond.
* `x402_same_block`: two locks in one block with the same agent, provider and
  nonce get one id. The second overwrites the first; the first deposit stays in
  the contract and its bond request is never completed.
* `x402_dispute`: `disputeEscrow` accepts a claimed escrow within its window,
  but `resolveDispute` then completes a bond request that the claim completed
  and always reverts.
* `batches_reclaim`: `reclaimExpiredBatch` is to return the unclaimed funds of
  an expired batch (`BatchSettlement.sol:534`, `:552`), and sends the whole
  balance (`:553`). Batches that have not expired are left without what they
  have to pay, and their claims revert.
* `frontend_profile`: the row of a node is named `id || address || Node-<index>`
  (`App.jsx:867`), its profile is looked up under `id || address || node_id`
  (`App.jsx:506`), and nodes of `GET /nodes` have only `node_id`. The row of a
  live node is highlighted and no chart is rendered;
  `docs/team/ARCHITECTURE_v0-8-0.md:134` says that it is.

Met while modelling, and in no run, as no text of the repository says otherwise:
a cost or credit score of 0 is shown as the default (`App.jsx:514`); the highlight stays
when a node leaves or moves in the list, on whatever has its name now; the
development server sends `script-src 'self'`, which does not admit the inline
preamble that React Refresh puts in the page; a batch payment that a resolver
refunded can still be claimed, since only the status CLAIMED is refused.

In the VDSO contracts no such place was met. `docs/adr/ADR-VDSO-001.md` wants
commits to go on during an emergency pause; pausing the store, the registries
or the proof router does stop them, but the deployment script takes the pause
council's role on these away and leaves it the kernel, whose pause keeps them
going (`PauseDrains` is about the rest).

The X402 properties that hold are stated for what the code does in spite of these:
`InFlight` excludes escrows disputed after their claim, and the refinement
assumes `~ReuseIdInBlock`.

## What is proved

For all values of the constants (any providers, agents, escrows, amounts,
delays, fees, nodes, polls), from the assumptions the modules name
(`BondConstants`, `EscrowIdsFinite`, `ProvidersFinite`, `EscrowConstants`,
`NullsAreNoHash`, `BatchConstants`, `HashesDiffer`, `KernelConstants`,
`AdapterIdsAreNoZero`, `ConfigConstants`, `GatewayConstants`,
`UnregisteredIsNoNode`). That addresses, escrow ids, nonces and amounts are
finitely many, though any number, is their width in the code. `NonceConstants`
is a hypothesis of the registry's theorems, which the contracts that use the
registry discharge from their own assumptions. The theorems about the escrow
manager have the hypothesis `~ReuseIdInBlock`, that clients do not lock the
same id twice in one block: a second lock would overwrite the first (run
`x402_same_block`), and its deposit and its request with it.

Every safety property and every action property that a passing run checks is a
theorem; PROJECT.json says which.

* `SetSumsProofs`: what the accounts need of a sum over a finite set: an element
  more or less changes it by its value, an update of one value by the
  difference, a partition splits it, a renaming keeps it, and no element's value
  is above it. `SumOver` is a fold, whose value over a set of any size needs
  induction; the provers cannot instantiate the induction theorems, so the
  lemmas take another way. A finite set has a least subset for which a claim
  fails, if it fails for one (`SmallestSet`, from the well-founded order of the
  subsets); and the sum is the cardinality of a set of units, one for each 1
  in each value (`SumIsCount`), so that the theorems about cardinalities do
  the rest.
* `X402NonceRegistryProofs`: types; a claimed receipt settled exactly one
  nonce; the next nonce is free; consumption is final. The inductive invariant
  adds to the property that the receipts of used nonces are claimed and that
  `highestNonce` bounds the used ones; the first is what makes a fresh receipt
  differ from all the others.
* `ProviderBondRegistryProofs`: types (which is where no subtraction
  underflows), `BondsAreFunded`, `PendingMatchesRequests`,
  `RequestsStayCovered`, `DelayServed`, and that a live request can always be
  completed (`CompletionCovered`). The inductive invariant is `Shape` and
  `Accounts`. `Shape`: the types; `activeRequests` of a bond is the number of
  live requests of its provider (`DelayServed` speaks of the requests, the guard
  of `executeWithdrawal` of the counter); an unregistered provider's bond is
  empty, so a registration starts from nothing. `Accounts`: the three properties
  with sums. Each action is first reduced to what it does to one bond and one
  request; then the sums follow from the lemmas about one change.
* `X402EscrowManagerProofs`: types; `RequestsMirrorEscrows`;
  `OneSettlementPerNonce`; `WithdrawnIsFinal`; `ExtendNeverShortens`;
  `TotalEscrowedIsInFlight`; `BondMatchesEscrows`. The
  inductive invariant joins those of both registries with the life cycle of an
  escrow (`Lifecycle`): which status goes with which dispute state, claim time
  and pending withdrawal. A withdrawal was made after the dispute window of its
  claim had passed, and the clock does not run back, which is why a withdrawn
  escrow can no longer be disputed; an expiry is never later than the clock
  plus the maximum validity, which is why the cap of `extendEscrow` does not
  move it back. `totalEscrowed` is invariant on top of it. `BondMatchesEscrows`
  needs no induction: the bond registry's accounts are those of its requests,
  and the requests are the escrows in flight.
* `X402RefinementProofs`: `Spec => KeepsPromise`, by initial states and one step
  per action. What a withdrawal pays was fixed at the claim, so the invariant
  carries it over (`Lifecycle`: the fee recorded is that of the amount, the
  payout the rest). `Solvent` follows from the refinement: a step of `EscrowPromise`
  takes from the balance what one deposit is worth, and settles that deposit
  with it. Together with the totals this gives `PayoutsCovered`: no transfer out
  and no checked subtraction of a claim, refund, withdrawal or resolution can
  fail for lack of what it subtracts from.
* `BatchSettlementProofs`: whatever `BatchSettlement` and the other settlers do
  to the registry is what a settler may do (`UsesTheRegistry`: the composition
  implements the registry's own specification), so `ReceiptSettlesOneNonce`,
  `NextNonceIsFree` and `ConsumptionIsFinal` carry over; `VerdictIsFinal`; types;
  and `NoncePaysOnce`. The inductive invariant of the batches is the registry's, and that batches have their types,
  which is what makes the receipts and ids handed to the registry ones it
  knows. `VerdictIsFinal` is proved one step per action: a claim needs a
  FINALIZED batch, and it consumes nonces under the id of that batch only. That
  no payout goes below zero is in the types: a fee is at most its amount, so the
  fees of payments claimed together are at most their sum. `NoncePaysOnce` is
  inductive given the types and the registry's invariant: the payments of a
  claim that succeeds have nonces that differ from each other and from all that
  were used, so they and their nonces are one for one, what was settled grows by
  exactly these nonces, and what was settled before keeps its receipts whoever
  consumes other nonces.
* `AppProofs`: `EffectsRunOnce`; `OnlyPresentPollsShow`; `ServedPageMayPoll`;
  `OnlineIsKept`; types. The inductive invariant of the effects adds to the first that a page that
  loads has run no effect, and what is in force while it is mounted. The
  second follows from it: only runs in force set anything, and only one is. The
  third is about pure functions of the deployment and needs no induction; the
  fourth needs the types of the node table only. The types of the whole page
  take two more invariants. `GatewayInv`: the order lists the registered nodes,
  each once, and no more than `MAX_NODES`; it is kept because `Remaining` keeps
  the places that stay, once each (`RemainingLists`), and a node enters a full
  registry only in the place of another. `PageInv`: a row without an id has one
  of `MAX_NODES` places, in what is shown and in every answer under way (`Fits`),
  which is what gives every row that can be selected a name the page knows.
* `VDSOProofs`: types; `LockMatchesReservation`; `FencingTokensAscend`;
  `NoLostUpdate`; `CommittedAsReserved`; `ReservedWriteCommits`; `FencedOut`;
  `ReservedInItsDomain`; `PauseDrains`; `ReactivationIsDelayed`; and
  `Spec => KeepsPromise`, the refinement of `FencedLog`. Only four kinds of steps touch the tables these speak of, so the
  proofs first reduce every step to one of them (`Opened`, `Executed`,
  `Signed`, `Recovered`, lemma `CoreEffect`). The inductive invariant adds to
  the properties that tokens are bounded by the last one handed out, which
  makes a new one fresh, and that a signed request appends its own execution to
  the state it was signed on (`RequestsApplyOne`): with the compare-and-swap
  this makes every write an append, whatever has happened since the signature.
  `ReactivationIsDelayed` is a property of behaviours, not of states: from a
  moment t in quarantine on, `BarredSince(a, t)` is invariant, which says that
  whatever is scheduled again is due at t plus the delay at the earliest.

Only model-checked: everything under fairness (`PageFollowsGateway`,
`ObjectIsFreed`, `LockedIsReleased`, `ClaimedIsPaid`), since fairness and
ENABLED are out of this prover's reach. The properties of the runs that expect
a violation are false, and have no theorem.

## Not modelled, and the plan

`setNonceRegistry` and `setBondRegistry` repoint live contracts and are left
out of the composition. So is the `ESCROW_ROLE` of the bond registry:
`LockedIsReleased` is about a manager that keeps it, and would not hold for one
that loses it for good, whose refunds revert. Reentrancy is excluded by `nonReentrant` and by the
token being a plain ERC-20. Upgrades, role assignment (but for settlers) and
the signatures a receipt carries are not modelled; nor is that
`KERNEL_ROLE` may be taken from a kernel, which only stops it. Of the VDSO
contracts, settlement metadata and the hashes of recovery proofs are left out,
since nothing reads them again. Of `BatchSettlement`, `setTreasury` is left out,
which moves where fees go, and batches that state less than their payments.
Of the gateway, only the table of nodes that the page polls is modelled; its
challenges and operators' signatures, jobs, chat and proxies are not. Of the
page, markup, drawing and static text are not.

In this order:

1. `ComposedSettlement`; then `x402_recovery.py` over the escrow manager, with
   crashes between its steps.
2. `TwoPhaseCommitManager` over the escrow manager.
3. `TransactionCompensation` and `OutageRecoveryManager` over one pool.
4. `VAMSStaking`, `VAMSSlasher`, `SlashingOracle`.
5. The registries of the escrow manager repointed, and its role on them revoked.
6. The rest as time allows; the pure checks of `vams-vm` as operators.
