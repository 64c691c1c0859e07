# Formal models of SecureMCP

TLA+ specifications of the parts of this repository whose correctness rests on
the order in which things happen: the policy engine and its governance, the
background tasks that stop for input, the tool calls that cross contracts,
consent and provenance, and the registry that publishes tools. TLC checks them
on small instances; TLAPS proves theorems about them for every value of their
constants.

- [What is here](#what-is-here)
- [Inventory of the system](#inventory-of-the-system)
- [The models and the code](#the-models-and-the-code)
- [The runs](#the-runs)
- [Fairness](#fairness)
- [What is proved](#what-is-proved)
- [What the models found](#what-the-models-found)
- [What is only model-checked, and what is left out](#what-is-only-model-checked-and-what-is-left-out)
- [Plan](#plan)

Paths below start at the root of the repository (`src/` in `PROJECT.json`);
`security/` stands for `fastmcp_slim/fastmcp/server/security/`, `tasks/` for
`fastmcp_tasks/fastmcp_tasks/` and `purecipher/` for `src/purecipher/`.

## What is here

| Module | What it is |
|---|---|
| `PolicyEngine` | the live chain of policy providers, the swap lock, version history, rollback, restart, evaluation |
| `PolicyGovernance` | extends it with the proposals that people review and deploy into the engine |
| `ReviewedPolicy` | the abstract specification of a governed policy, which `PolicyGovernance` implements where nothing suspends |
| `PolicyGovernanceProofs` | theorems about both: types, and that only reviewed proposals change the chain |
| `PolicyChainProofs` | theorems about the live chain: its history, deployments, evaluations, and the refinement of `ReviewedPolicy` |
| `TaskLegs` | one background task: its legs, outstanding input, leg pointer, update lock and the calls of its client |
| `TaskLegsProofs` | theorems about it: its type, the lock, cancellation |
| `TaskPointerProofs` | where it points to, which legs were enqueued and have requests |
| `TaskAnswersProofs` | what becomes of the answers |
| `TaskEndProofs` | the end of a task |
| `Storage` | the storage backend as its callers see it: a write that is done or raises |
| `ContractBroker` | negotiation sessions, contracts, countersignature, revocation, the signing entries of the exchange log |
| `ConsentGraph` | grants, delegation, revocation cascades, groups, evaluation |
| `ProvenanceLedger` | the hash chain in memory and in storage, its genesis, the anchored roots |
| `SecureRequests` | composes the three: tool calls through the contract, provenance, reflexive and consent middleware |
| `SecureRequestsProofs` | theorems about all four |
| `Catalog` | the abstract specification of one tool's public page |
| `ToolRegistry` | certification, moderation and release candidates of one listing; implements `Catalog` |
| `RegistryProofs` | theorems about it, the refinement among them |
| `MCPolicyEngine`, `MCPolicyGovernance`, `MCTaskLegs`, `MCSecureRequests`, `MCToolRegistry` | the values of the constants for TLC, with one `.cfg` for each run |

To check a run: `tlc -config MCTaskCancel.cfg MCTaskLegs`. To check the proofs:
`tlapm TaskLegsProofs.tla`. `PROJECT.json` holds the run list, the map from
every definition to the lines it models, the hazards and the theorems.

Operators marked "mutant" in the modules are faulty variants of the definition
that follows them, a dropped guard, a missing reset, a swapped order. No
specification uses them. Put in the place of the real definition, each makes
the property it is listed with fail under that property's own run: it shows
that the property would notice that mistake in the code.

## Inventory of the system

SecureMCP adds governance to FastMCP servers: requests go through middlewares
that ask the policy engine, the contract broker and the consent graph, record
what happened in the provenance ledger, and watch behaviour for drift. A
registry server certifies and publishes tools on top of it. Everything in a
server process runs on one asyncio event loop; a coroutine runs alone from one
real suspension to the next. Background tasks are the exception: server
processes and Docket workers share state in Redis.

| Component | State | Operations | What is hard | What makes it correct |
|---|---|---|---|---|
| Policy engine (`security/policy/engine.py`) | provider list, swap lock, version manager | `evaluate`, `add_provider`, `hot_swap`, `remove_provider`, `replace_providers`, `restore_version` | evaluations suspended in a provider while the list is changed in place; lookups that suspend or raise under the lock | AND logic over the providers in force; the lock is always released; every change is recorded |
| Policy versioning (`security/policy/versioning/`) | versions and current index, in memory and in the backend | `create_version`, `rollback_to`, load and save | saves that fail, snapshots that cannot be encoded or loaded, restarts between two saves | the live chain is a recorded version; the current one after a rollback or a restart |
| Policy governor (`security/policy/governance.py`) | proposals: status, base version, trail, live objects | propose, validate, simulate, approve, reject, withdraw, deploy, reload | checks made before an await and used after it; restarts that drop live objects and reports | nothing unreviewed reaches the chain; what is deployed is what was reviewed; final statuses are final |
| Simulation, validation, serialization (`security/policy/`) | none | pure functions of a chain | a simulation suspends | as part of the governor |
| Management API (`security/http/`) | none of its own | forwards to engine and governor | rollback is two calls with an await between | as part of the engine |
| Background tasks (`tasks/handlers.py`, `input_store.py`, `input_loop.py`) | Redis keys of a task: outstanding requests and answers, leg pointer in two keys, cancellation marker, update lock; Docket executions | `tasks_get`, `tasks_update`, `tasks_cancel`, the worker's run of a leg | server processes, workers and clients interleave at each Redis command; calls die, raise or time out; legs are delivered twice; clients retry | each leg once, with all its answers; acknowledged answers are kept; a cancelled task stays cancelled; a parked task can be resumed; tasks end |
| Task creation and context (`tasks/creation.py`, `context.py`) | task parameters, snapshots | `create_task`, `enqueue_task_leg` | the durable wait for the enqueue | a leg is durable before it is announced |
| Contract broker (`security/contracts/`) | sessions in memory; contracts and exchange log in memory and in the backend | negotiate, sign, revoke, reload | revocation and signature outside the negotiation lock; sessions continued after they ended; writes that fail between memory, log and contract | a revoked contract is never active again; no contract from a session told it is rejected; the log accounts for every stored contract |
| Consent graph (`security/consent/`) | edges with their parents, groups; both in the backend | grant, delegate, revoke, revoke_all, remove_node, groups, evaluate | cascades that break off in the middle, removal of intermediate nodes, reload of what was not stored | what was revoked is never active again, nor anything delegated from it |
| Provenance ledger (`security/provenance/`) | records, hash chain, Merkle tree, anchors on an external chain, stored records | record, verify, reload, anchor | append and anchor in memory before the backend accepts the record | the chain verifies and matches its anchors except where a write failed |
| Reflexive monitoring (`security/reflexive/`, its middleware) | behavioural baselines, suspended actors | observe, escalate, throttle | statistics over floating-point values; a throttled call sleeps past the gates before it | suspended agents are not admitted |
| Enforcement middleware (`security/middleware/`) | none but approval tickets | `on_call_tool` of each | the tool and the throttle suspend; cancellation; an outcome that cannot be recorded | no call admitted under an ended contract, no tool run on withdrawn consent, no answer without its record |
| Federation (`security/federation/`) | peers, revocation lists | sync, publish, propagate | lists exchanged late or out of order | a revocation is never undone by an older list |
| Certification and marketplace (`security/certification/`, `security/gateway/tool_marketplace.py`, `purecipher/release_candidates.py`) | listings in memory and their rows in the backend, release candidates in the rows, attestations and their revocations in memory | certify, publish, moderate, stage, decide, revoke | one path stores as well as it can, the other raises and replaces the object in memory; refused updates after the listing is overwritten; copies of attestations | only what a moderator let through is shown; a candidate is applied only to the release it was compared with; a stored revocation stays |
| Sandbox, event bus, storage backends | per call; subscribers; databases | | input and output | failures appear as failing saves in the models of their callers |
| PureCipher registry server, SecureMCP command line, FastMCP framework | accounts, pages, configuration, protocol plumbing | submission and review routes call the marketplace | | the routes' guards are part of the registry model; the rest is not part of the security core |

The engine is called by the governor (which awaits it), by the management API
and by the enforcement middleware; the governor reads the version history the
engine writes. `tasks_update` writes Redis and Docket, which the worker and
`tasks_get` read without the lock it holds. The middleware stands between a
request and its tool, in the order the orchestrator registers it; it asks the
broker, the reflexive core and the consent graph, and writes the ledger. The
registry's routes call the certification pipeline and the marketplace, or, for
a listing that is published, the release candidates over the same rows.

## The models and the code

### PolicyEngine

`chain` is `PolicyEngine._providers`, `versions` and `current` the history in
memory, `disk` what the backend last accepted, `lock` and `queue` the asyncio
lock and its waiters, `call` and `pc` the coroutines that change the chain,
`eval` the evaluations. `changes`, and the fields `must` and `seen` of an
evaluation, are history variables.

- *The event loop.* `running` names the coroutine on the loop when an atomic
  stretch of code takes more than one step of the model, so only a crash can
  fall between them. Awaiting a coroutine that never suspends is no scheduling
  point in asyncio: only `AsyncProviders` yield the loop.
- *Operations.* `Entered` is what an operation does to the list before it
  awaits identities (`add_provider`, `remove_provider`), `Settled` what it does
  after (`hot_swap`, `replace_providers`). `Enter`, `Body` and `Commit` are the
  three parts of a critical section: getting the lock, running until the first
  suspension, the end with `_record_version_snapshot`. `ResolveFails` is an
  identity lookup that raises under the lock.
- *Versions.* `RecordSnapshot` swallows what the code swallows: a snapshot that
  cannot be encoded (`Opaque`) and a save that fails (`SaveMayFail`).
  `RollbackTo` is `SecurityAPI.rollback_policy_version`: it moves the current
  version first, loads it (`Unrestorable` versions raise), then waits for the
  lock. `Restart` is a new process over what was saved; it may fall anywhere.
- *Evaluation.* The loop of `evaluate` indexes the live list object; `Observe`
  tracks which evaluations still iterate over the engine's list and which over
  one that was replaced. Providers answer ALLOW, DENY, REQUIRE_APPROVAL, DEFER,
  or raise.

### PolicyGovernance

`prop` is the governor's table of proposals. Every method that changes it is an
action; its guard is the method's status check and `_raise_if_stale`. A
simulation either ends at once or suspends at an asynchronous provider
(`Simulate`, `SimulationEnds`); `Deploy` makes the checks and enters the engine,
`DeployReturns` sets the status when the engine call ends. `held` says whether
the live provider objects are still there (a reload loses them), `reviewed` is
the chain validation looked at (history).

`ReviewedPolicy` is what the governor is for, without lock, versions and calls:
a policy in force, a review that binds a proposal to the policy it was made on
and the one it passed, and a standing that goes from open through granted to
enacted or closed. `ImplementsReview` maps the live chain to the policy, the
version history to the policies of the past, and status and trail to standing
and review. Direct changes of the engine are overrides and rollbacks steps back;
both are logged as nobody's proposal, so that a deployment cannot pass for one.

### TaskLegs

One task. `exec` holds the Docket executions of its legs; "parking" and
"parked" tell a leg that stored requests from one that returned a value, a
difference Docket does not show (`State`). `outstanding` and `responses` are
`input:<leg>:requests` with its map, and `input_responses`; `key` and `number`
the two halves of the leg pointer, written and read by separate commands;
`marker` the cancellation marker; `lock` the update lock. Every call is a record
in `call` whose `pc` names the next command; a step of the model is one command
whose order matters to somebody else, so `tasks_get` takes five steps,
`tasks_update` up to ten, `tasks_cancel` up to eight.

- `Ask` is one round of the loop of `store_outstanding` (the two HSETs of one
  request are one step: only an "early" poll, below, comes between them),
  `DropAnswers` the DELETE after the loop, `Finish` the end of the execution
  after both. Normally nobody looks at a leg's requests before its
  execution has ended. A poll that read `key` before an update moved the pointer
  and `number` after it does: it takes the end of the old leg for that of the
  new one (`slips` records "early").
- `Acquire` and `GiveUp` are `acquire_update_lock` within its five seconds. It
  only gives up when the lock is held for as long: by the lock of a dead call
  (`Ghost`) or a call in the durable wait. A cancel goes on without it
  (`slips` records "forced"), an update is an error.
- `LockExpires` is the lock's TTL of 30 seconds. It is longer than anyone
  waits: `early` marks those who waited when the holder died, and the TTL does
  not end before they have given up.
- `EnqueueFails`, `Raises` and `Dies` are the three ways a call breaks off: the
  enqueue times out before or after the fact, a command raises through the
  `finally`, the process dies. Breaking off between the enqueue and the last
  pointer write leaves a leg that runs while the task points to the one before
  (`slips` records "torn"). `Redeliver` is a worker that died; a leg started
  again after it asked is recorded as "rerun".
- The client answers what it was shown (`shown`), in any subsets, to any
  concurrent calls, and sends again what was not acknowledged (`acked`).

`slips` names the four situations the code does not repair: "torn", "forced",
"rerun" and "early". A property that excepts one of them says so, and the
exception is the finding: without it TLC shows the failure.

### Storage, ContractBroker, ConsentGraph, ProvenanceLedger

`Storing(ok)` is one write of a backend: done when it returns, or it raised and
nothing was written. Its callers let the exception end their method where it
stands, with memory ahead of storage; a crash inside a synchronous method is
such a failure followed by a restart, so no other point of crash is needed.

- *Broker.* `contracts` and `savedContracts` are the contracts in memory and in
  the backend, `sessions` the sessions, `evaluating` the session whose request
  holds the lock while the term evaluator runs. `OpenSession` and `Continue` end
  where the evaluator is awaited, `Accept` and `CounterPropose` are what follows.
  `Sign` and `RevokeContract` take no lock. `Update` is their common body:
  status in memory, entry in the log, contract in storage; `done` says how far
  it came. `refused` and `ended` are histories: what callers were told.
- *Graph.* `edges` is a function of the ids that are there. `Below` is what a
  cascade reaches, the least set closed under delegation, as memory connects it.
  `RevokeFails` is a cascade that breaks off at any edge the depth-first order
  can have come to. `RemoveNode` drops edges from memory and not from storage,
  and leaves what was delegated from them. Two histories say what a revocation
  owed and missed: `forebears` has, for each edge, all it was delegated from at
  any remove, and `missed` the pairs of a revoked edge and one delegated from it
  that was not in memory when the revocation returned. Expiry and conditions
  only withhold: the consent gate may deny a valid grant.
- *Ledger.* `Recorded` is `record()`: append in memory, hand the hash to the
  scheme, which may anchor, append to storage. `o` says where it raised. A hash
  is the number of its record, a root is the sequence of hashes under it, the
  genesis nonce a negative number; `lost` is the history of the records whose
  `record()` raised. `Reloaded` is a start from storage, which anchors again the
  prefixes it meets.

### SecureRequests

`calls` holds each call's phase, agent and contract. `Arrive` is the stretch
from the contract gate to the first suspension, through `ReflexiveGate` and
`ConsentGate`; a throttled call continues with `Wake`, behind the gates it has
passed. `Return`, `Raise`, `Ask` and `Cancel` are the ways a tool ends; the first
two go through `RecordOutcome`, two appends in one stretch. `Manage` is what
operators and agents do meanwhile, and `Restart`, which ends every call and
reloads all three components. The verdict of the reflexive analyzer is any
verdict.

### Catalog and ToolRegistry

`Catalog` has two copies of a page, `shown` and `kept`, and five things that may
happen to them. It says that nothing is shown that was not let through, also
after stores that failed and restarts.

`ToolRegistry` is one tool name. `mem` is the listing object, `db` its row.
`Put` is `_persist_listing`: memory first, then a store whose exception is
logged and forgotten. `Save` is the candidates' way: store, let the exception
through, then replace the object in memory by one made from the row. `shared`
tells whether the listing holds the attestation object the pipeline holds, so
that `revoke()` is seen through it, or a copy. `SubmitRefused` is the curator's
submission over an author's listing, which overwrites the object before it
raises. `Page` is `_is_public_listing`, and the refinement mapping is
`shown <- Page(mem)`, `kept <- Page(db)`: a listing is a page only when it is
published and its attestation valid. A suspension or revocation is a
`TakeDown`, storing the listing later is a `Keep`, a restart or
a staging that serves the row again is a `Reload`. `cleared` is a history
variable of both: what a moderator approved, unsuspended or released.

## The runs

| Run | Instance | Shows |
|---|---|---|
| `engine_evaluation` | 2 providers, one suspending and flaky; 2 coroutines adding, swapping, replacing, rolling back; 1 request; 2 changes | `AllowedByAll`: an allowed request was put to every provider in force throughout. `WaitersServed`: every waiter gets the swap lock, exceptions or not. `EvaluationsEnd`. Removal is not among the operations: see the violation below |
| `governance_atomic` | 2 providers that never suspend, 2 proposals, direct replacements of the chain and rollbacks, restarts, 3 changes | `DeployedAsReviewed`: what a deployment leaves is the chain that was validated. `LiveChainIsCurrent`. `ImplementsReview`: the refinement of `ReviewedPolicy` |
| `governance_async` | 3 providers: one suspends, one cannot be recorded, one cannot be loaded; saves may fail; 2 proposals, 2 coroutines, 2 changes | `OnlyReviewed`, `DeployedWasMade`, `LiveChainAudited`: review, status and history agree through crashes, lost saves and races |
| `task_updates` | 2 legs, 2 request keys, 2 updates, 1 poll; one call may die, raise or fail to enqueue | `EachLegOnce`, `AnsweredInFull`, `AckedAnswersKept`, `ParkedStaysParked` |
| `task_cancel` | 2 legs, 1 key, 1 update, 1 cancel, 1 poll; legs delivered twice; under fairness | `NoResumeAfterCancel`, `CancelLeavesFinished`, `TaskEnds` |
| `task_rounds` | 3 legs, 1 key, 1 update, 1 cancel, 1 poll, no faults | `AnsweredInFull`, `ParkedStaysParked`, `CancelLeavesFinished` over a leg in the middle, which is pointed to, asks, and is left again |
| `secure_requests` | 2 calls of 1 agent, another holder, a group, 3 edges, 1 session of one round, 2 contracts, anchors every 2 records, 6 management operations or restarts, 1 failing write; 983,954 states | `RevokedIsFinal`, `RevocationReachesDelegates`: revoked grants and what was delegated from them, at any remove, stay revoked, in memory and in storage, except what memory no longer connected. `EndedContractsStayEnded`, `StoredContractsLogged`, `RefusalsHold`: contracts, log and refusals agree. `GapsAreLosses`, `AnchorsMatch`: the chain and its anchors break only where a write failed. `AnsweredIsRecorded`, `ReceiptFollowsItsRecord`, `AdmittedOnLiveGrants`: the composition |
| `tool_registry` | 2 publishers, 3 submissions, 2 version numbers, 6 moderation actions, moderation required, 1 failing store; 1,537,317 states | `ImplementsCatalog`: the refinement. `ReleasesAgree`, `ReleasesMoveForward`, `TakedownsHold`, `RevocationsStick`: candidates, takedowns and revocations against the two copies of a listing |
| `engine_remove_skips` | as the first, with removal | violation of `AllowedByAll` |
| `governance_double_deploy` | suspending providers, 2 proposals | violation of `DeployedAsReviewed` |
| `governance_late_report` | one suspending provider, 2 proposals | violation of `FinalStatus` |
| `task_hollow_result` | 1 update, 1 poll, no fault | violation of `CompletedHasResult` |

*Bounds.* `MaxChanges` stops new operations after that many changes of the
chain; two let one change land between the check and the use of another, three
allow a rollback or restart between them. Two proposals and two coroutines are
the smallest numbers that race, and the code treats all alike. Two legs are
every hazard of one handover: a leg parked, the next one enqueued, pointed to
and finished; `MaxLegs` only stops the last leg from asking again. A leg that
was pointed to *and* stores requests takes three, which is `task_rounds`; four
would add another of the same kind.
Two request keys make a partial answer; two updates race; `MaxFaults = 1` lets
one thing break at every possible step, and the rest of the system meets what
it left. `MaxRuns = 2` lets each leg be delivered again once. `MaxRuns` and
`MaxFaults` are 1 and 0 in the runs about something else, to keep them small.

In `secure_requests` three edges make a grant, a delegation of it and a
delegation of that, or two paths to one agent; two contracts are one revoked and
one that replaces it, and need a session that is continued after it was
accepted, which one session gives; one round is the limit met at once. Six
operations are enough for the longest stories the properties are about: grant,
delegate, remove a node, revoke, restart, with one left over, or open, accept,
sign, revoke, restart. Two records make an anchor, and two calls make four, so
that an anchor covers records of both calls or follows a lost one. One failing
write at every place is enough for one thing to go wrong; the theorems have no
such bound. In `tool_registry` three submissions are a listing, a candidate and
something that comes between; two version numbers are enough for a step back.
`Moderations` leaves out rejection and request for changes, which only differ
from suspension in the status they set; no guard of the code tells those statuses
apart. Deregistration is taken, because the code's comments do set it apart.

*Symmetry* is used where the permuted sets are plain model values with no order
and no liveness property is checked (proposals, coroutines, request keys,
updates, calls, publishers).

*Deadlock checking is off*: a task that ended and a chain that reached
`MaxChanges` have nothing left to do, and a process whose current version
cannot be loaded refuses to start. Answered calls without operations left, and
a registry without submissions left, stop at their bounds in the same way.

## Fairness

- *Engine.* Weak fairness of each coroutine's own steps and of each
  evaluation's: the event loop runs every ready coroutine and what is awaited
  comes back. New calls and restarts are not fair.
- *Tasks.* Workers run what is queued (`Worker`), calls that were made go on
  (`GetSteps`, `UpdateSteps`, `CancelSteps`), the lock's TTL ends. `Acquire` is
  strongly fair: the code polls for the lock every 20 ms, and a waiter that
  finds it free again and again obtains it. The client polls and answers what
  it has not been acknowledged for (strongly fair, as a client may be between
  two answers): without that assumption about its environment no task that asks
  would end. Faults, redelivery and cancels are never fair. `TaskEnds` is
  checked without faults: a torn task needs its client to retry for longer than
  the instance allows, and for two legs: three are many more states for the
  same cycle.

- *Requests and registry.* No fairness: every property of theirs is a safety
  property, and nothing in their code waits for another party but the calls of
  the tools.

## What is proved

All proofs are checked by TLAPS without omitted steps. They assume what the
modules' `ASSUME`s say and no more: `EngineSets` (which sets are subsets or
disjoint), `EngineFlags` and `GovernorFlags` (the flags are Booleans),
`TaskSets` (the lock's two extra values are no calls, kinds of calls are
disjoint, bounds are natural numbers), `MaxFaultsAssumption`,
`LedgerAssumption`, `RequestsAssumption` and `ConstantsAssumption` (kinds of the
constants, agents are holders), `BrokerAssumption`, `NoneAssumption` and
`NoListingAssumption` (the values for "nothing" are not contracts, sessions or
listings), `ConsentAssumption` (owner, holders and groups are different nodes,
and `MaxEdges` is at most 10, because `evaluate` follows no longer chain) and
`GrantsAssumption` (grants are between nodes). Other sets may be infinite. Some
theorems have a premise in their statement. `RequireModeration`: without
moderation, publication is the submitter's. `FlakyProviders = {}`, `NoRemoval`
and `Atomic` (no provider suspends, every snapshot can be encoded and loaded,
saves succeed) name the engines for which the property holds. The runs show
what happens without `NoRemoval` and `Atomic`; without `FlakyProviders = {}`, a
lookup that raises leaves a change that no version records.

| Theorem | Statement | Argument |
|---|---|---|
| `EngineTypeCorrect` | `EngineSpec => []TypeOK` | inductive as it stands; one lemma for each part of a critical section (`BodyType`, `CommitType`, `RecordType`), used by all its callers |
| `GovTypeCorrect` | `Spec => []GovTypeOK` | the same for the composition |
| `Reviewed` | `Spec => []OnlyReviewed` | `ReviewInv` |
| `DeployedMade` | `Spec => []DeployedWasMade` | `DoneInv`: a call that came back as done is in the log of changes |
| `ChainAlwaysAudited` | `FlakyProviders = {} => (Spec => []LiveChainAudited)` | `AuditInv`: a waiting rollback holds a chain of the history, what suspends under the lock will be recorded |
| `CurrentAlways` | `Atomic => (Spec => []LiveChainIsCurrent)` | `AuditInv` and `InStep`: chain, history and disk agree after every step |
| `DeployedReviewed` | `Atomic => (Spec => []DeployedAsReviewed)` | `DeployInv`: the history only grows, and a proposal is validated once, against its base version |
| `GovernorImplementsReview` | `Atomic => (Spec => ImplementsReview)` | `GovernedInv`: `DeployInv`, and a call back with the governor is of a proposal that can still be deployed; each action is a step of `ReviewedPolicy` or a stutter |
| `EndsAreFinal` | `Atomic => (Spec => FinalStatus)` | `GovernedInv` |
| `AllowedAfterAll` | `NoRemoval => (EngineSpec => []AllowedByAll)` | `EvalInv` |
| `TasksTypeCorrect` | `Spec => []TasksTypeOK` | `TasksInv` |
| `NotResumed` | `Spec => NoResumeAfterCancel` | `TasksInv`, then a case for every action that touches an execution |
| `LegsEnqueuedOnce` | `Spec => EachLegOnce` | `LegsInv` |
| `ParkedIsAnswerable` | `Spec => []ParkedStaysParked` | `LegsInv` |
| `LegsAnsweredInFull`, `AcknowledgedOnce` | `[]AnsweredInFull`, `[]AckedAnswersKept` | `AnswersInv` |
| `FinishedNotCancelled` | `Spec => CancelLeavesFinished` | `EndInv` |
| `RequestsTypeCorrect` | `Spec => []TypeOK` of `SecureRequests` | `RequestsInv` |
| `RevocationsAreFinal`, `RevocationsCascade` | `[]RevokedIsFinal`, `[]RevocationReachesDelegates` | `ConsentInv` |
| `RevokedContractsEnd`, `ContractsAccounted` | `[]EndedContractsStayEnded`, `[]StoredContractsLogged` | `ContractPart` |
| `RefusalsAreFinal` | `RefusalsHold` | `SessionPart`, then the one action that makes a contract |
| `ChainBreaksOnlyByLoss`, `AnchorsFailOnlyByLoss` | `[]GapsAreLosses`, `[]AnchorsMatch` | `LedgerOK` |
| `AnswersRecorded`, `ReceiptsInPlace` | `[]AnsweredIsRecorded`, `[]ReceiptFollowsItsRecord` | `RequestsInv` |
| `AdmissionsAreLive` | `AdmittedOnLiveGrants` | `RequestsInv`; consent over the active edges is consent over those that were not withdrawn |
| `RegistryTypeCorrect`, `ReleasesAlwaysAgree` | `[]TypeOK`, `[]ReleasesAgree` of `ToolRegistry` | `RegistryInv` |
| `RegistryImplementsCatalog` | `RequireModeration => (Spec => ImplementsCatalog)` | `RegistryInv`; each action is classified by what it does to the page (`Turns`), and each class is a step of `Catalog` or a stutter |
| `OnlyForward` | `Spec => ReleasesMoveForward` | `RegistryInv` |
| `StoredRevocationsStick` | `Spec => RevocationsStick` | `RegistryInv` and `Quiet`, what all actions but staging and deciding leave alone |
| `TakedownsAlwaysHold` | `RequireModeration => (Spec => TakedownsHold)` | `RegistryInv`, and what a submission, a decision and a moderation leave of the status |

*`ReviewInv`.* `OnlyReviewed` speaks of changes already made, and a change is
made long after the checks: the coroutine waits for the lock, the process
restarts, the proposal is rejected meanwhile. The invariant adds what a
proposal's status says of its trail (`TrailKept`: an approved proposal was
validated, and simulated if that is required; one that was never made has no
change), and that a coroutine in the engine on behalf of a proposal belongs to
an entitled one (`InCharge`). The trail only grows and is saved with every
transition, which is why restarts do no harm.

*`DeployInv`.* `_raise_if_stale` compares version numbers, not chains. That is
enough where a version number fixes the chain: the history only grows (`Grows`),
the live chain is the current version's (`InStep`), and what was validated is the
change applied to the base version's chain (`Fixed`). A rollback to the base
version makes a proposal fresh again, and a restart between the change and its
status lets it be deployed twice; both leave the chain that was validated.

*`EvalInv`.* An evaluation walks a list that changes under it. `Covers` says that
every provider it must still hear and has passed was asked, that all it must hear
are on its list, and that one that waits for an answer waits at a place of the
list. Additions extend the list, a swap puts a new provider in a place
(`Extends`), a replacement leaves the evaluation the old list. Only a removal
moves a provider to a place already passed, hence the premise.

*`TasksInv`.* The type of the leg pointer needs that an update past its
matching works on a leg that is not the last (`Placed`, with
`outstanding[MaxLegs] = {}`), and what each kind of call has read when it is at
each place (`GetFits`, `UpdateFits`, `CancelFits`). `NoResumeAfterCancel` needs
that the lock excludes: a call that thinks it holds the lock does (`Exclusive`),
a cancel past the lock holds it unless it was forced, and so no update is
between its recheck of the marker and its enqueue once the marker is set
(`MarkerObeyed`). `slips` only grows, which is
why every step's lemma carries `slips \subseteq slips'`.

*`LegsInv`* adds to `TasksInv` where the legs stand between any two commands.
`KeysInv`: a request stored from now on has a key that no call has ever seen.
`PointerInv`: the legs up to the one pointed to were enqueued, at most the next
one besides, and then the update that holds the lock is about to point to it;
the legs from there on have requests if they asked; an update past its match is
on the leg pointed to, and one that read the pointer before it moved will match
nothing. It holds while no update broke off between its enqueue and the pointer
("torn").

*`AnswersInv`.* A leg is answered by several updates, each of several commands,
and between them the partial answers lie in Redis. `AnswersOK` says that every
request a leg asked is either outstanding, or its answer is there, or was handed
to the next leg, and that an update on its way to the enqueue is backed by the
answers it counts on. `AcksOK` follows an update from what it was sent to its
acknowledgement: a key it did not match was retired before. Both need that an
update past its match works on a parked leg (`HitsInv`, `ParkedInv`), so that no
worker stores requests meanwhile. They hold until one of the slips, which is how
the properties are stated.

*`EndInv`.* A poll reads the key, the number, the marker and the requests in
four commands. `Looked` says what the answers still mean when the last arrives:
the leg it looked at ended as it saw or was parked, and the key moves at most
one ahead of the number. So the end a client is told of is the last leg's
(`Over`), and a cancel that starts later, which looks in the same way, finds it
(`Finds`).

*`GovernedInv`.* The abstract policy knows proposals by their standing and the
review they passed. A review is of the chain of the base version, so `DeployInv`
gives what `Enact` asks for. `Finish` comes after it in the same stretch of
code: while a call is back with the governor nothing else runs, so the status is
what it was when the deployment was let through (`Returns`).

*`RequestsInv`* is the conjunction of the components' invariants and of what the
calls add.

- `ConsentInv`: a cascade runs over the edges in memory and has to be right for
  those in storage. So memory and storage must agree on who delegated what, which
  both take from `forebears` (`Lineage`): the edges above an edge are older, they
  are its parent and those above the parent, and above each of them there is
  nothing that is not above the edge. Now let the cascade return, and let an edge
  below a revoked one stay active. If it and all edges between were in memory,
  the oldest of these outside `Below` would have its parent in `Below`
  (`DescendantsBelow`, by well-founded induction on the ids), which is closed
  under delegation; so one was not in memory, and `missed` has it. Delegation
  checks that its parent is active, hence not withdrawn: a new edge escapes only
  what its parent had escaped.
- `ContractPart`: a reload must not bring back what memory had already ended, so
  memory knows every stored contract, and the log the server's signature of
  every contract in memory: later entries are added to that one.
- `SessionPart`: a refused session stays refused because the reason lasts
  (`TooLate`), and no request of it is being evaluated when it is refused.
- `LedgerOK`: storage ends with the record memory ends with, or memory's last
  record is lost (`Follows`). That makes the next stored record link to the one
  stored before it or to a lost one, and an anchor a prefix or a root over a lost
  record. Two records of a call are made in one stretch, so a kept receipt is
  stored next to a kept record.

*`RegistryInv`.* `Told` is the part a revocation needs: what storage knows to be
revoked, memory knows too, as long as they hold the same submission. `Forward`
says that a candidate was ahead of its base when it was staged and, since
submissions never change, still is; approval then needs only that the row is the
base. `ReleasesAgree` is part of the invariant: an action that stores memory
over the row would lose candidates otherwise.

## What the models found

Each of these is a `violation` run, with the quoted line in `PROJECT.json`.

1. *A removal makes an evaluation skip a provider* (`engine_remove_skips`).
   `evaluate` iterates over the list `remove_provider` pops from.
2. *Two deployments pass the staleness check* (`governance_double_deploy`)
   before the first has the swap lock; the second lands on another chain.
3. *A simulation that ends late revives a rejected proposal*
   (`governance_late_report`).
4. *A poll reports a parked leg as a finished task without a result*
   (`task_hollow_result`): the pointer is read in two commands and the requests
   several commands later.

Observed while modelling, and not the subject of a run:

- A rollback made while a deployment is suspended under the lock is recorded
  before it: the live chain is then not the current version's, and a restart
  loads the one that was rolled back (`LiveChainIsCurrent` holds only with
  providers that never suspend).
- `add_provider` and `remove_provider` change the list before they await the
  identity; when that raises, the change stays and no version records it
  (`LiveChainAudited` holds without flaky providers).
- A leg that completes between the look `tasks_cancel` takes and its marker is
  reported completed by one poll and cancelled by the next, although
  `tasks/handlers.py:465` calls terminal statuses final.
  `CancelLeavesFinished` is what does hold: a cancel *made after* the client was
  told of the end does not mark the task, except after a slip that opens the
  task again ("rerun", "early", "torn"). The last is one of them because an
  update that breaks off after its enqueue is repeated by its client: if the
  next leg has failed meanwhile, and the client was told so, the repetition runs
  it again, and a cancel then marks it. TLC showed that when the inductive
  invariant was checked on an instance with both cancels and a fault, which none
  of the runs combine; the theorem covers it.
- A leg delivered again after it stored requests, which then returns a value, is
  still reported as waiting for input ("rerun").
- A poll with a torn pointer reports requests that the running leg is still
  storing ("early"). An answer sent at once is acknowledged and then wiped by
  the DELETE at the end of `store_outstanding`, or enqueues the next leg before
  the last request is stored. `tasks/input_store.py:385` says the update lock
  keeps reads and writes of the answers from interleaving; the worker does not
  take it. Without the exemption `AnsweredInFull` fails in `task_rounds`.
- A call that breaks off between the enqueue and the pointer makes a retried
  update run the next leg again, without the partial answers the first run
  consumed ("torn").
- Without a version manager the governor's staleness check is off
  (`security/policy/governance.py:907`).
- `security/contracts/broker.py:102` describes `default_terms` as "Server-mandated
  terms added to every contract"; they are merged into the first proposal of a
  session only (`broker.py:202`), and a contract made after a counter-proposal has
  that request's terms alone. The terms are not in the model. A term evaluator
  that raises accepts (`broker.py:356`).
- An accepted session can be continued into a second contract: `_continue_negotiation`
  never looks at the session's status, and `Accept` makes both.
- `remove_node` deletes no edge from storage: they are back after a restart.
  What was delegated from the node's edges, at any remove, stays active with a
  gap above it in memory, out of reach of a revocation of what it came from,
  although `security/consent/graph.py:426` says "all its delegated children".
  Grant an edge, delegate it to a holder, who delegates it further, remove the
  holder, revoke the grant: the last edge is still active. An edge whose save
  failed and that a restart lost leaves the same gap above what was delegated
  from it. `missed` records both, and `RevocationReachesDelegates` excepts
  nothing else; without the exception TLC violates it.
- Deregistration is not permanent. `moderate` looks at no status, so that the
  review route publishes a deregistered listing again by an approval or an
  unsuspension (submit, approve, deregister, approve), which a reviewer may do to
  what an administrator removed. `tool_marketplace.py:139` calls it "admin-driven
  permanent removal", `:166` "admin-only terminal removal", and
  `purecipher/moderation.py:38-42` offers no action on it, which is a table for
  the user interface and guards nothing. `TakedownsHold` and `ImplementsCatalog`
  let approval and unsuspension publish whatever they are applied to, because
  the code does; neither says that a deregistered listing stays away.
- A takedown whose store failed is undone without a moderator: a restart loads
  the published row, and so does any decision on a candidate, a rejection too,
  because `decide` loads the row, stores it and makes the listing from it.
  `TakedownsHold` has this as its one exception. In the same way a page that is
  ahead of the row steps back (`ReleasesMoveForward` compares rows).
- A version whose save failed is lost in a restart and its number is given again:
  a proposal drafted against the lost version then passes the staleness check on
  another chain (`LiveChainAudited` does not speak of proposals).
- If the first stored record is not the first that was made, the genesis nonce
  recovered from it lets the shortened chain verify (`GapsAreLosses` counts
  that as a loss).
- A cancelled call leaves no provenance record, because `except Exception` does
  not see a cancellation; suspended agents are admitted again after a restart;
  a contract revoked while its call is throttled does not stop the call.
- A curator's submission over an author's listing is refused after the listing
  in memory has been overwritten (`security/gateway/tool_marketplace.py:1139-1182`);
  the next moderation stores it. Under moderation the page is hidden meanwhile,
  which is why `ImplementsCatalog` holds.
- A listing hidden because its attestation was revoked is shown again by a
  staging or a decision made before the listing was stored: both rebuild it
  from the row, whose copy of the attestation is still valid. A restart forgets
  the index of revocations. `RevocationsStick` speaks of stored ones only.
- `moderate_listing` has no guard on the status but for withdrawals and
  resubmissions: an unsuspension publishes whatever was submitted while the
  listing was suspended.

## What is only model-checked, and what is left out

*Only model-checked:* the liveness properties `WaitersServed`, `EvaluationsEnd`
and `TaskEnds`, which are beyond the prover. Every safety and action property of
the passing runs is stated by a theorem, some under the premises named above.

*Abstractions.* A provider is a model value: two with the same configuration
are the same, which is how the version history sees them; a swap counts as a
new one for `AllowedByAll`. Validation is one test, whether a chain contains a
pair of contradicting providers. A request key stands for the tool's key, the
leg and the run it was minted in, as the surfaced keys are unique.

*Left out of the policy models:* audit log, event bus, invariant registry and
counters, which observe and are not read; `allow_hot_swap=False`, which only
disables an operation; `assign`, which only names a reviewer; failing saves of
proposals; evaluations in the composition with the governor (`EngineSpec` runs
them against the same changes).

*Left out of the task model:* every TTL but the lock's, `request_state`,
argument coercion and result conversion, and the unconditional DELETE by which
a live holder slower than 30 seconds would release its successor's lock. A
command is atomic; Redis itself is taken to keep what it acknowledged.

*Left out of the request models:* the terms of contracts and their evaluation,
invalid signatures, the hash chain of the exchange log; scopes, conditions and
expiry of grants (a gate may deny what the model would allow, never the other
way round); Merkle proofs, export bundles and the ledger schemes without
anchors; listings, resources and prompts, which pass the same gates as calls;
the approval tickets of the policy middleware. The policy gate itself is the
evaluation of `PolicyEngine` and is not composed with the others: it keeps no
state they read.

*Left out of the registry model:* other listings, which share nothing with this
one but the pipeline; validation of manifests, levels and signatures, expiry of
attestations; version pruning, yanking, unpublishing, reviews, installs, search
and the trust registry. Two registries over one database, which overwrite each
other's rows, are not composed.

*Not modelled at all:* the components listed as `not_modelled` in
`PROJECT.json`, with the reason there. Most of the repository's 200,000 lines are
the upstream FastMCP framework (protocol, transports, clients, authentication
proxies, command line), the registry's pages and its HTTP handlers, and
adapters: code that holds no state between two requests, or state that one
object alone reads and writes. Federation is the component with a protocol of
its own that is left out: it exchanges tokens and revocation lists over HTTP,
and the code promises nothing of their order.

## Plan

Done, in the order the importance of the behaviour gave: the policy core, the
task legs, the broker, the graph, the ledger and the middleware over them, the
registry and its abstract specification.

Left, in this order:

1. **Policy core.** A weaker abstract specification for engines that suspend:
   changes land on another chain than the one reviewed, but in the order of the
   lock and each of them recorded.
2. **Task legs.** An abstract specification of a task, "leg, answers, next leg,
   end", and the runs without slips shown to implement it. The TTLs of requests
   and marker.
3. **Federation.** Revocation and reinstatement of a token at two peers, with
   messages lost, delayed and reordered.
4. **Contracts.** The hash chain of the exchange log and its verification;
   expiry as a state of its own.
5. **Registry.** Two listings with one pipeline; two processes over one database.
