# InterWeave: a TLA+ verification project

InterWeave is a control plane between Canton and EVM networks: durable
coordinators move value over two ledgers that share no consensus, validators
attest what became final on one of them, and contracts on both sides execute
what a threshold attested. This directory holds TLA+ models of the parts that
carry that logic, TLC configurations that check them on small instances, and
TLAPS proofs of their safety properties for every value of the constants. `PROJECT.json` maps
each definition to the source lines it models.

Paths below are relative to the repository; `core/` is `packages/core/src/` and `sql/` is
`packages/core/sql/`.

## 1. The system

| Part | State it keeps | Operations | Talks to |
| --- | --- | --- | --- |
| Transaction engine (`core/transaction-engine.ts`, `sql/001`) | a row per operation (state, version, decision), transitions, retry attempts | create, transition, recordAttempt | called by the coordinators and the API |
| Lock/mint and burn/release coordinators (`core/lock-mint-coordinator.ts`, `core/burn-release-coordinator.ts`, `sql/005`) | evidence per stage; a copy of the operation in memory | run | engine, both ledgers, policy, validators, reconciliation |
| Cross-network settlement (`core/cross-network-settlement.ts`, `sql/009`) | a versioned saga record | execute: advance, compensate, give up | delivery ledger, payment ledger, policy |
| Same-network settlement (`core/same-network-settlement.ts`, `sql/008`) | a claim with its result | execute | a native atomic executor |
| Supply ledger (`core/supply-invariants.ts`, `sql/006`) | finalized locks, mints, burns, releases | record | called after finality |
| Idempotency (`core/idempotency.ts`, `sql/002`) | a row per scope and key | begin, complete, fail | guards every external write |
| Event indexer (`core/domain-events.ts`, `sql/003`) | normalized events, checkpoints | process: ingest, saveCheckpoint | reads a ledger |
| Ethereum contracts (`contracts/ethereum`) | processed effects, validators, threshold, assets, balances | executeMint, executeRelease, burnRepresentation, administration | called by relayers |
| Canton templates (`contracts/daml/daml/InterWeave/Interop.daml`) | active contracts | Lock, AuthorizeRelease, ExecuteRelease, attest, archive | called by owner, operator, validators |
| Identity registry (`core/identity-registry.ts`) | identities, challenges, bindings | createIdentity, issueChallenge, verifyChallenge, revokeBinding | proof verifiers |
| Validator sets, aggregator, validator service (`core/threshold-attestation.ts`, `core/validator-service.ts`) | registered sets | register, resolve, verifyAndSign, aggregate, verify | a source provider |
| Ledger adapters (`core/canton-adapter.ts`, `core/canton-grpc-transport.ts`, `core/evm-adapter.ts`) | whether they are connected | connect, submit, getFinality, getTransaction | a ledger |
| Finality service (`core/finality-service.ts`, `sql/004`) | one assessment per key | assess | an observation of a transaction, the network's policy |
| Generic attestation (`core/generic-attestation.ts`, `sql/010`) | one immutable record per id | request; verifyGenericAttestation | validators, each with its own view of the source |
| Workflow engine (`core/workflow-engine.ts`, `sql/011`) | a claimed execution with its result | execute | attestations, policy, action handlers |
| Reconciliation (`core/reconciliation-service.ts`, `sql/007`) | an immutable record per check | reconcile | both ledgers, asset status, issuance, alerts |
| Webhooks (`core/webhook-service.ts`, `sql/012`) | events, a log of delivery attempts | publish, retry | the receiver |
| Key management (`core/key-management.ts`, `sql/014`) | requests, decisions, results | submit, approve, execute | an HSM or MPC signer |
| Emergency controls (`core/emergency-controls.ts`, `sql/016`) | controls and their lifting | activate, lift, assertAllowed | the audit sink; asked before a submission |
| Audit trail (`core/audit-service.ts`, `sql/015`) | a hash chain per transaction | record, reconstruct | called by the other services |
| Policy engine (`core/policy-engine.ts`) | versions of a policy | register, activate, evaluate, canTransfer | registries and identities give its inputs |
| Networks and assets (`core/network-registry.ts`, `core/asset-registry.ts`) | networks, assets, representations, evidence | register, setEnabled, discoverCapabilities, effectiveCapabilities | a capability discoverer |
| REST API, tenancy, observability, SDKs, CLI, bootstrap | see section 8 | | |

What is hard here. Several processes may drive one operation, each from a copy
it read without a lock. A ledger call and the durable write that records it are
two steps, and a process may die between them, or the call may take effect and
its answer be lost. Deadlines and attestation windows pass between any two
steps. Retries repeat what was already done. Validators observe a chain that
may reorganize, with receipts that are older than the head they are compared
with. A value read before an await is written back after it. The `hazards` of `PROJECT.json` list these at their lines.

What makes each part correct, in a phrase: the engine's history is one legal
chain whatever races; nothing is minted or released without a final source
effect and an attestation; a saga's record is true of both ledgers; supply is
backed; a response is given once and for all; no event is skipped; a contract
executes what was observed, once; a workflow acts on what an honest validator
attests; a mismatch is found, stored and acted upon; a trail is whole and
true; a decision can be repeated from the record it names.

## 2. The modules

| Module | Models | Remarks |
| --- | --- | --- |
| `BridgeStates` | the states and the legal transitions of an operation | constant operators only |
| `OperationLog` | what the engine promises: a log per operation that grows along legal transitions | the abstract specification |
| `TransactionEngine` | `DurableTransactionEngine` over `PostgresTransactionStore` | refines `OperationLog` |
| `BridgeCoordinator` | the loop `run()` of both coordinators | uses the engine through `OperationLog`'s guarantees |
| `LockMint`, `BurnRelease` | the `switch` of each coordinator, as a table | values of the constant `steps` |
| `CrossSettlement` | the saga over two ledgers | |
| `SameNetworkSettlement` | claim, native call, finish | |
| `SupplyLedger` | `appendValidated` under its advisory lock | `EndTransaction` releases the lock at commit and at rollback |
| `Idempotency` | one scope and key | `Begin`, `ReplayResponse`, `FinishKey` are begin, its replay, complete and fail |
| `EventIndexer` | `CheckpointedEventProcessor` | |
| `Gateway` | gateway, verifier, asset registry, representation, pausing | |
| `DamlInterop` | the Canton workflow and attestation templates | `ExecuteAuthorization` is the choice ExecuteRelease |
| `ValidatorSets` | the registry of sets | extended by the next |
| `ThresholdAttestation` | validators that observe and sign, and the aggregator that judges | composes the registry, the validators and the source |
| `SourceFinality` | a transaction from its submission through an adapter to the assessment of its finality | the chain, the adapters and `FinalityService` |
| `AttestedSource` | what the attestation service promises: the source settles on one content, honest validators sign nothing else | the second abstract specification |
| `GenericAttestation` | `request` | composes the validators with `SourceFinality`; refines `AttestedSource` |
| `WorkflowEngine` | `execute` of a workflow, with `verifyGenericAttestation` | built on `AttestedSource` |
| `Reconciliation` | checks, their records, and degrade, block and alert | |
| `WebhookService` | publish, retry, the log of attempts | |
| `KeyManagement` | submit, approve, execute | |
| `EmergencyControls` | activate, lift, and the check before a submission | |
| `AuditService` | appending to a chain, verifying it | |
| `IdentityRegistry` | challenges and bindings with the await of the verifier | |
| `PolicyEngine` | versions, evaluation, the preflight | `strongest` folds the positions of the rules that match, in the order of the list |
| `Registries` | networks, assets, representations, discovery | |
| `Undefined` | the value None | |
| `MC...` | the instances for TLC | |
| `TransactionEngineProofs` | theorems about the engine | |
| `BridgeCoordinatorProofs` | about the coordinators | for any table that satisfies `CoordinatorConstants` |
| `CrossSettlementProofs` | about the saga | |
| `DurableClaimsProofs` | about `SameNetworkSettlement`, `WorkflowEngine`, `Idempotency`, `SupplyLedger` | what claims an id or an asset before it acts |
| `NetworkContractsProofs` | about `Gateway`, `DamlInterop` | |
| `ThresholdAttestationProofs` | about `ValidatorSets`, `ThresholdAttestation` | |
| `AdmissionProofs` | about `Registries`, `IdentityRegistry`, `PolicyEngine`, `SourceFinality`, `GenericAttestation` | what is known before a transfer begins |
| `OperatorServicesProofs` | about `EventIndexer`, `WebhookService`, `Reconciliation`, `EmergencyControls`, `KeyManagement`, `AuditService` | |

Four MC modules hold several components that share no state:
`MCDurableClaims`, `MCOperatorServices`, `MCNetworkContracts` and
`MCTransferAdmission`. A variable (`component`, `service`, `side`, `registry`)
chooses one of them in the initial state and never changes. TLC therefore
explores every behaviour of each component while the others rest. That loses
nothing: a component's properties speak of its own variables, and a product of
interleavings would add no state of them. Liveness is stated per component
under the same choice. In these modules a component's next-state relation keeps
its own name (`WorkflowNext`, `WebhookNext`), so that they can be extended
together.

How state and steps correspond to the code:

* A step is what the code does between two awaits that other processes can
  notice. `transition()` is `Transition` (the read without a lock and the
  checks made on it), then `FindTransition`, or `CheckDuplicate` and
  `AppendLocked`. `run()` is `Start`, the branch (`Expire`, `Decide`, `Enter`),
  `LookUp`, `Call`, `Put` and `Move`. `verifyChallenge` is `VerifyChallenge`
  before its await and `Bind` after it; `discoverCapabilities` and `canTransfer`
  are split in the same way. `request()` asks its validators one by one, and each
  reads its receipt and its view of the chain in separate steps. A function of a
  contract is one step.
* A database transaction is one step where a row lock or a primary key makes
  it so, and several where it does not: `saveCheckpoint` selects `FOR UPDATE` a
  row that may not exist yet (`SaveSelect`, `SaveUpsert`), `appendValidated` of
  another asset runs beside this one (`Select`, `Insert`).
* An early return or an exception that changes nothing is no step. One that
  ends a call in flight is (`Stop`, `Reply` with FALSE, `Refuse`, `Reject`).
* `Crash` is the death of a process or a failed database or network call: what
  was stored and what reached a ledger stays.
* Data are abstracted: a request is its fingerprint, evidence is its outcome
  and expiry, an attestation is a content and an interval, an event its key.
  A digest or a hash is the identity of what it is computed from.
  The order of the keys of a jsonb record is kept (`Layouts`), because the code
  compares text that depends on it.
* Ledgers, policy, validators (for the coordinators), the clock and the proof
  verifier are external. Their answers are nondeterministic and bounded by what
  the interfaces promise: a network confirms only what took place on it,
  execution is deduplicated by operation id, reconciliation matches only when
  both sides moved, and each may say no or fail after having taken effect.

The guard of 24 rounds in `run()` is left out: the longest path through the
table is shorter. The in-memory stores give the answers of the Postgres stores
without their races and are not modelled apart, but for the registries of
identities, policies, networks and assets, which have no other implementation.

## 3. The runs

Every run finishes in about a minute and a half or less with two workers.

| Run | Instance | Shows |
| --- | --- | --- |
| `transaction_engine` | 1 operation, 2 clients, 3 keys, 3 decisions with every target; 351,571 states | ChainIntact: one legal chain; OneTransitionPerKey; AcknowledgedIsRecorded: success implies a record; PolicyGate: beyond the check stands a recorded ALLOW, and the stored decision is one that a recorded transition carried; ImplementsOperationLog |
| `bridge_coordinator` | 2 workers, 3 times, 1 crash; 162,162 states | DestinationBacked: a destination effect has a final source effect and an attestation behind it; NoMissingEvidence; CompletedIsReconciled; EventuallyEnds |
| `cross_settlement` | 2 workers, 2 contents with different deadlines, 1 crash; 244,947 states | DeliveryIsPaid; HistoryIsTrue: the record is a run of the saga and true of both ledgers; EventuallyEnds |
| `cross_settlement_cancel` | the same | **violated**: see section 7 |
| `durable_claims` | settlement: 2 workers, 2 contents, 1 crash; workflow: 2 engines, 3 validators of which 1 is faulty, threshold 2, lists of up to 3 signatures under 3 ids, 3 definitions, 1 death; idempotency: 3 clients, 2 requests, 2 responses, 3 resends; 42,899 states | CommittedAsClaimed: only the claimed content commits; OneAnswer; AppliedIsFinal: a workflow acts under its claimed version, and on what the source settled on when an honest signature counted or the ids are those of the signers; ToldTheSame: its callers hear one result; AnswersAgree: idempotent responses agree for ever; EveryClaimEnds |
| `supply_ledger` | 2 writers, 2 operations, 2 assets, amounts 1 and 2; 679,755 states | SupplyIsBacked; OneEffectPerOperation; AcceptedIsStored |
| `operator_services` | indexer: 2 workers, a stream of 4 with a removal and an event that is not decoded, 2 crashes; webhooks: 2 senders, 2 contents, 2 attempts, 1 loss; reconciliation: 2 callers of one check, 2 assets, 1 death; controls: 1 operator, 2 admins, 1 submitter, 1 failure; signing: 2 executors, 3 approvers, 2 required; audit: 2 recorders, 2 chains, 3 ids, 1 rollback; 191,027 states | NothingSkipped; DeliveriesAreSound: a log is conclusive, a success was received; StrayMintIsRecorded: a check begun after a stray mint finds it; MeasuresHaveEvidence; TrailIsTrue; SignaturesAreSound: approved, and returned alike; HistoryIsWhole; DutiesAreDone |
| `network_contracts` | EVM: 2 operations, amounts 1 and 2, 3 possible validators of which 1 is faulty; Canton: 2 intents, 1 attestation, 3 times; 384,940 states | ExecutedAsObserved: once, as the source made it final; OutflowIsObserved; ReleasedAsAttested |
| `transfer_admission` | 2 identities, 1 locator, 2 overlapping calls, 3 bindings; 2 policy versions, 12 rule lists, 7 inputs; 2 networks, 1 representation, 2 capabilities, 2 discoveries; 542,929 states | OneActiveBinding; DecisionsAreReproducible; EffectiveIsEvidenced |
| `threshold_attestation` | 3 validators of which 1 is faulty, 2 set ids, 3 candidate sets, 2 contents; 28,154 states | SatisfiedIsFinal; OneSetJudges |
| `source_attestation` | 2 validators of which 1 is faulty, 2 requests, 3 blocks of which 1 reverts, 4 configurations, depth 2, 2 submissions; 650,322 states | FirstRejectionIsDefinite: what was rejected when it was first submitted is not on the ledger; VerifiedIsSigned: a VERIFIED record is of claims that honest validators signed; KeepsPromise: refinement of `AttestedSource` |
| `finality_disagreement` | the same | **violated**: see section 7 |

Why the bounds are enough to be interesting. The races here are between two
processes that hold copies of one record: two workers give every stale read,
lost answer and double call, and a third client is there where two are not
enough (`Idempotency`: one fails, one reclaims, one watches). `MaxTime` lets
every deadline lie before, at and after a step. One crash is enough to separate
an effect from its record, and two to do it again on the retry. Two operations,
assets or intents are what cross-talk needs. One faulty validator is the most a
threshold of two tolerates; a list of three signatures can reach it with an
entry to spare, repeated, invalid or under another id. With depth and reorganization bound two a block is
dropped before, and not after, it is final, and a receipt can be of a block
that is gone. Symmetry is used for
interchangeable identifiers in runs without liveness properties only.

The two directions of the bridge are translated into two tables from two files.
`MCBridgeCoordinator` assumes, and TLC evaluates, that the tables differ in the
names of two stages only; the run with the lock/mint table is therefore a run of
both, and the theorems hold for any table that satisfies `CoordinatorConstants`.

CHECK_DEADLOCK is off where the system may really stop: all callers done and the
stream indexed (`DurableClaims`, `OperatorServices`), and histories at their
bounds (`NetworkContracts`, `TransferAdmission`, `ThresholdAttestation`,
`GenericAttestation`, `FinalityDisagreement`).

Every property has a mutant: a definition next to the mapped one that changes
it the way a plausible bug would, under which TLC finds the property violated.

## 4. Fairness

The coordinators and services have no scheduler of their own: a caller invokes
`run()`, `execute()` or `process()` again until the operation ends, as ADR 0018
asks of a process that failed and as the failure-injection tests
(`packages/core/src/failure-injection.integration.test.ts`) do. The fairness of
the runs says that and no more: a process that is not killed goes on, and
somebody starts again.

| Formula | Fairness | Why |
| --- | --- | --- |
| `FairSpec` of `BridgeCoordinator` and `CrossSettlement` | weak, per worker | `run()` and `execute()` are repeated until the end |
| `FairClaims` | weak, per worker and per engine | claims are resumed: an IN_PROGRESS row is no lock |
| `FairServices` | weak: `Process` of the indexer, `Send` of a webhook in flight, `RunCheck`, `SubmitOperation` | polling loops, a call under way, periodic checks |
| `FairServices` | strong: `Retry` of webhooks | the row names a time of the next attempt, and whoever retries does so again and again; others that publish the event meanwhile disable it for a while only |

Crashes, losses and deaths are bounded (`MaxCrashes`, `MaxLosses`, `MaxDeaths`)
and are not fair. Nothing is assumed of the clock, of the order of workers, or
of the answers: `EventuallyEnds` holds also when every external answer is no,
and when time stands still. There is no liveness property of `Idempotency` (a
claimant that dies leaves its key IN_PROGRESS, and no code reclaims it), of
signing (nobody has to approve), or of the audit trail.

## 5. What is proved

Every safety property of the passing runs, and each of the refinements, is a theorem. The
theorems hold for any sets of operations, clients, workers, keys, amounts,
validators and any bounds. Their only premises are the named assumptions on
constants, which TLC evaluates on the instances. TLC also finds each inductive
invariant to hold in all states of its component's instance.

A pattern recurs. The properties speak of what is recorded, or of ledgers; the
code decides on a copy, a selection or an answer that it read before. So no
property is inductive alone, and each invariant adds what such a copy still
says of the present when it is used.

**`TransactionEngineProofs`** (from `EngineConstants`). `TypeCorrect`;
`ChainCorrect` (ChainIntact); `KeysCorrect` (OneTransitionPerKey);
`AcknowledgementCorrect`; `PolicyCorrect` (PolicyGate); `HistoryCorrect`
(RecordsImmutable); `EngineImplementsLog`: the engine implements `OperationLog`.
The types are inductive only with `RowPresent` (a call in flight is on an
operation that exists: rows are never deleted).
ChainIntact and OneTransitionPerKey are inductive with the types, since the row
is locked, the state re-checked and the key unique when `AppendLocked` writes.
AcknowledgedIsRecorded follows since transitions are only appended. PolicyGate is
not inductive alone: the decision is examined against an unlocked snapshot and
stored by a later step, so the invariant carries that a call on its way to a
policy state holds the decision that the state requires (`CallsAdmitted`); a
state past the gate is reached through it by the graph. The property speaks of
the decision that each recorded transition carried, a history field (`carried`)
of the model: the table of transitions has no such column, and any command may
replace the decision that the operation stores.

**`BridgeCoordinatorProofs`** (from `CoordinatorConstants`). The properties speak
of ledger effects, the code decides by stored evidence and stale copies, so the
inductive invariant `IInv` ties them together: `StateSupport` (every state in the
log, and every state a worker aims at, rests on the evidence it needs, and on
evidence of every stage `before` it), `Honest` (evidence, stored or still in a
worker's hands, is true of the ledgers) and `EffectSupport` (a destination effect
has the attestation stored). From it: `TypeCorrect`, `DestinationCorrect`
(DestinationBacked), `CompletionCorrect` (CompletedIsReconciled),
`RequirementsCorrect` (NoMissingEvidence: no branch asks in vain for evidence of
an earlier stage), `EvidenceCorrect` (EvidenceImmutable), and
`TransitionsCorrect` (the workers change the operation along `OperationLog`'s
steps only).

**`CrossSettlementProofs`** (from `SettlementConstants`). `TypeCorrect`,
`DeliveryCorrect` (DeliveryIsPaid), `HistoryCorrect` (HistoryIsTrue). `IInv` says
of the log that a state which is no end stands at its own place in the saga
(`LogOK`), of the ledgers that they moved only for states that are recorded, and
that records are true of them (`LedgerOK`), and of each worker which position of
the log its copy is, and that what it will record next is legal from there and
already true (`WorkersOK`). What a worker knows lasts, because logs grow and the
ends of both legs are final (`Grows`, `Lasting`); the version that the store
compares does the rest.

**`DurableClaimsProofs`** (from the assumptions of its four modules).
* Settlement: `ClaimCorrect` (CommittedAsClaimed), `AnswerCorrect` (OneAnswer).
  `SettlementInv`: whoever is at work has the claimed content, whoever reports a
  commit has seen one, and callers were told how it ended.
* Workflow: `ActionCorrect` (AppliedIsFinal), `ExecutionAnswerCorrect`
  (ToldTheSame). `WorkflowInv` rests on the promise of `AttestedSource`: honest
  signatures are about what is settled. The entries of a list that count have
  different ids; were they all signed by faulty validators under their own ids,
  the ids would inject them into `Faulty`, which is below the threshold. So one
  signer is honest (`OneSignerIsHonest`) unless the list is disguised: all that
  counts is signed by faulty validators, and an id is not its signer's. Only an
  admitted input gets as far as the handler.
* Idempotency: `ResponseCorrect` (AnswersAgree). `KeyInv`: every claim, also one
  that somebody else has taken over, is of the row's request, and a completed
  row has a response.
* Supply: `LedgerCorrect` (types), `SupplyCorrect` (SupplyIsBacked),
  `EffectsCorrect`, `AcceptanceCorrect`. `LedgerInv`: the lock has one holder,
  whose selection is the current content of its asset (`LockedSelection`), and
  the effects of every asset pass the assessment as they stand (`AssessedRows`).
  Sums are not unfolded: the proof carries the assessment as the writer computed
  it.

**`NetworkContractsProofs`** (from `GatewayConstants`, `InteropConstants`).
* `ExecutionCorrect` (ExecutedAsObserved). The verifier requires signers in
  strictly increasing order. By the least position at which the order fails, a
  list in which neighbours increase names as many validators as it has entries
  (`Increasing`); these are more than the faulty ones, so an honest one has
  signed (`VerifiedIsFinal`). `GatewayInv` adds that the threshold stays above the
  faulty ones, and that what is not marked as processed has not taken place.
* `OutflowCorrect` (OutflowIsObserved). What left custody or was minted is at
  most the sum over the effects that are processed (`OutflowInv`). The sum of
  the model is the fold of the community modules; that a sum over a finite set
  is one number, whichever element it begins with, and grows by what is added,
  is proved by induction over subsets (`SubsetInduction` to `TotalGrows`).
* `ReleaseCorrect` (ReleasedAsAttested). `InteropInv`: an authorization and a
  released asset carry the verified attestation they rest on, with its interval
  around the time.

**`ThresholdAttestationProofs`** (from `AttestationConstants`).
`RegistryCorrect` (OneSetJudges): registration checks the threshold at the
boundaries of the members' intervals only. It holds in between, since the
members at a time include those of the last boundary before it
(`ThresholdBetweenBoundaries`). `AttestationCorrect` (SatisfiedIsFinal): an
accepted list names an honest member (`HonestMember`), and the invariant says
that what a validator observed as final is still what the source says when it
signs (`ObservationInv`, `SignedIsFinal`).

**`AdmissionProofs`** (from the assumptions of its five modules).
* `CapabilitiesCorrect` (EffectiveIsEvidenced): evidence is stored together with
  the representation it is about, also when a discovery comes back late.
* `BindingCorrect` (OneActiveBinding): a binding that is active later was active
  before, so a locator that is free at the time when a call of `verifyChallenge`
  began is free when it binds after its await.
* `DecisionCorrect` (DecisionsAreReproducible): `evaluate`'s fold over the rules
  that match gives the dominant outcome among them, whatever their order
  (`StrongestIsDominant`), and a version that was in force keeps its definition.
* `RejectionCorrect` (FirstRejectionIsDefinite), `VerificationCorrect`
  (VerifiedIsSigned) and `PromiseKept` (KeepsPromise: `GenericAttestation`
  implements `AttestedSource`). `AttestationInv` says of a request in progress
  that what honest validators have accepted stays on the source network
  (`requestIsSound`), although each looked at another time, and that after the
  signatures the honest ones have signed.

**`OperatorServicesProofs`** (from the assumptions of its six modules).
* `IndexerCorrect` (NothingSkipped): a worker has stored everything before the
  item it is at, and up to the checkpoint it holds in memory; so whichever of
  two racing saves wins, nothing below it is missing.
* `DeliveriesCorrect` (DeliveriesAreSound): a sender's view of the log may be old,
  but not when its attempt is still the next one.
* `StrayMintFound` (StrayMintIsRecorded), `EvidenceCorrect`
  (MeasuresHaveEvidence): a stray unit does not go away while a check reads one
  ledger after the other.
* `SigningCorrect` (SignaturesAreSound): approvals are not taken back, so those
  found before signing are there afterwards.
* `TrailCorrect` (TrailIsTrue): a control changes once, from ACTIVE to LIFTED.
* `AuditCorrect` (HistoryIsWhole): the lock of a chain has one holder, and what
  it selected is still the last record when it inserts.

`EvidenceImmutable`, `RecordsImmutable`, the coordinators' use of `OperationLog`
and the type invariants named above are proved and in no run: the theorems hold
for the instances too.

Induction over data is needed in four places (orders of signers, sums, the fold
of the policy, boundaries of intervals). Each is done by a least number, or by
the smallest subset on which the claim fails, which the provers can follow where
an induction theorem with an operator as parameter is out of their reach.

Checked by TLC only: `EventuallyEnds` of the coordinators and of the saga,
`EveryClaimEnds` and `DutiesAreDone`, because fairness and ENABLED are out of
the prover's reach; and the statements of section 7, which do not hold.

## 6. Assumptions a reader should know

* The validator administration never lets faulty validators reach the threshold
  (`trusted` in `Gateway`, `AttestationConstants` in `ThresholdAttestation`).
  `AttestationVerifier` itself accepts any set and any threshold but zero.
* The same is assumed of the validators of generic attestations
  (`SourceConstants`, `AttestationConstants` of `GenericAttestation`).
* `verifyGenericAttestation` skips an entry whose `validatorId` was listed before
  and judges the others by their key; the id is neither signed nor compared with
  the key (`generic-attestation.ts:70`, `:75`). The lists of the service itself
  name each signer rightly, because its constructor makes ids and keys unique.
  For a list that somebody else put together, `AppliedIsFinal` says what the
  source settled on only if an honest validator's signature counted or the ids
  are right; `disguised` marks the other lists, and section 7 shows what the
  function does with them. The verifier of the workflow engine is an interface;
  the model takes this function for it, and keys of the configured validators.
* The engine asks for a policy decision on the two policy states and forbids it
  on no other, and `append` stores the decision of any command that carries one
  (`transaction-engine.ts:100`). That decisions accompany the policy states only
  is a habit of its callers (only the CREATED branch of either coordinator
  passes one: `lock-mint-coordinator.ts:47`, `burn-release-coordinator.ts:37`), and
  is not assumed: the commands of `TransactionEngine` carry any decision.
* A finalized block, and one buried `MaxReorg` deep, is never reorganized, and
  no network asks for fewer confirmations than that where it does without the
  finalized tag. Canton commits once and for all.
* Ledgers deduplicate by operation or settlement id, as the interfaces say.
* The handler of a workflow action and the ledgers of a reconciliation are
  external; the reader of the latter sees the two ledgers at two moments.
* Attestation records on Canton are written by the validators; signatories are
  not modelled.
* Sets that are counted or summed over are finite: the validators, the
  addresses, the approvers, the operations of a gateway (`SourceConstants`,
  `GatewayConstants`, `SigningConstants`). `None` is none of the values it stands
  in for. A table of a coordinator asks for evidence of earlier states only
  (`CoordinatorConstants`); TLC evaluates this on the tables of both files.
* A policy has at least one rule and its default is not ALLOW, as lines 41
  and 78 of `core/policy-engine.ts` require (`PolicyConstants`).

## 7. Where the code and its documents disagree

Two disagreements are runs.

`cross_settlement_cancel` (NoCancelAfterFinality): `handleFailure` acts on the
copy its worker started with and cancels before the version is compared, so a
slow worker cancels a delivery after another recorded PAYMENT_FINALIZED; ADR 0023
allows it "only before payment finality".

`finality_disagreement` (DisagreementIsUncertain): `evaluateEvm` returns REJECTED
for a reverted receipt (`finality-service.ts:50`) before it compares the block
with the canonical one (line 51), so a failure in a block that was dropped since
is a definite rejection, although the transaction may be included again and
succeed; ADR 0015 says that "Canonical hash disagreement produces `UNCERTAIN`".

The models show more of them. Each is a definition of its module, violated in
the instance named here; replace the properties of the cfg by the definition to
see the trace.

| Definition, instance | What happens | Stated in |
| --- | --- | --- |
| `TransactionEngine!StoredDecisionAllows`, `TransactionEngine.cfg` | a transition after the policy check carries another decision, and `append` stores it over the ALLOW (`transaction-engine.ts:100`); the history says that the check was passed | ADR 0009: "Policy success requires a persisted `ALLOW` decision" |
| `WorkflowEngine!AppliedIsSettled`, `DurableClaims.cfg` | signatures that verify under one key count once for every id they are listed under (`generic-attestation.ts:75`), so that a threshold of entries may be fewer validators | `docs/developers/attestations.md`: "a configured threshold of validators independently observed a source fact" |
| `BridgeCoordinator!RetriesReuseEvidence`, `BridgeCoordinator.cfg` | the attestation's expiry is tested before stored mint evidence is looked for (`lock-mint-coordinator.ts:80`), so a retry fails an operation whose mint is recorded | ADR 0018: "Retries reuse stored evidence." |
| `CrossSettlement!FailureLeavesNoReservation`, `CrossSettlement.cfg` | a reservation that took effect and threw is left behind by FAILED (`cross-network-settlement.ts:76`) | the test "failure before payment finality cancels the delivery reservation" |
| `SameNetworkSettlement!FailedIsNotCommitted`, `DurableClaims.cfg` | a worker that resumes an expired claim records FAILED although another committed it (`same-network-settlement.ts:83`) | ADR 0022: "The service never compensates or guesses." |
| `SupplyLedger!IdenticalRetryAccepted`, `SupplyLedger.cfg` | an identical retry is refused when its key order is not jsonb's (`supply-invariants.ts:93`) | ADR 0020: "Identical retries are idempotent" |
| `Idempotency!OneClaimant`, `DurableClaims.cfg` | a late `fail()` releases the claim of somebody else (`idempotency.ts:79`) | ADR 0010: "concurrent requests report in-progress" |
| `EventIndexer!CheckpointNeverDecreases`, `OperatorServices.cfg` | two first saves race, the lower one wins (`domain-events.ts:75`) | ADR 0011: "a monotonically increasing checkpoint" |
| `EventIndexer!RemovalsAreStored`, `OperatorServices.cfg` | a REMOVED observation is dropped as a duplicate (`domain-events.ts:68`) | ADR 0011: "removed logs retain the same identity with `REMOVED` observation" |
| `DamlInterop!OneReleasePerOperation`, `NetworkContracts.cfg` | two intents of one operation are released by one attestation (`Interop.daml:72`) | ADR 0017: "prevent duplicate authorization/release" |
| `IdentityRegistry!SingleUse`, `TransferAdmission.cfg` | an overlapping verification uses a challenge again once the first binding is revoked or over (`identity-registry.ts:131`) | ADR 0007: "single-use challenge"; the ADR asks production storage to consume it atomically |

The properties of the runs hold in spite of these: the checkpoint may fall back
but nothing is skipped, a key may have two claimants but responses agree.

What else the models made visible, with no property of its own:

* A retry that the ledger answers with ALREADY_EXISTS is reported REJECTED
  (`canton-grpc-transport.ts:122`), although the first submission was accepted.
  This is why the property is about the first rejection only.
* `verifyGenericAttestation` does not look at `validFrom`.
* The stores of generic attestations, reconciliations and signing results are
  read before they are written; the loser of the race gets an error or the
  winner's record. The loser of two reconciliations under one id discards a
  mismatch that it found when the winner stored a match.
* A reconciliation reads two ledgers at two moments, so a mint in between may
  be reported as a MISMATCH that never was.
* A control that was activated by a process that died lacks its audit event:
  ADR 0038 says that "Both actions emit immutable audit events". `TrailIsTrue`
  is therefore stated in one direction: what the trail says did happen.
* A rejection that is stored between the read of the approvals and the signing
  does not stop the signature.
* A worker whose copy is old may still call the destination ledger after another
  recorded EXPIRED; `DestinationBacked` says that the source effect and the
  attestation are there, not that the operation is open.
* The loser of two creates of a settlement is not compared with the record it
  gets back (`cross-network-settlement.ts:40`); what is recorded is true of the
  ledgers all the same.

## 8. Not modelled

* Attestation protocol: the encoding, digest and validation of statements are
  pure; the models take a statement as a value.
* Adapters: subscriptions, queries of state, token reads and the translation from
  and to protobuf are I/O without state. Connecting, submitting with the error
  codes and retries, and observing are modelled.
* The normalizers of events, and number parsing: pure, and covered by unit tests.
* REST API, tenancy, observability: routing, credential checks, metrics.
* SDKs, CLI, examples, scripts: clients of the REST API.
* Representation factory and Daml bootstrap: deployment code that runs once.

## 9. Plan

Done first, because everything else rests on it: the engine and its abstract
log, the coordinators, the settlements, the supply ledger with their proofs; then
the two contract sides, validators, identities, idempotency and the indexer; then
the source of attestations with the finality of a chain that reorganizes, the
workflow engine on top of it, the services of the operators, and the registries.

Then the proofs: every invariant, action property and refinement of the passing
runs is a theorem.

Left:

1. the type invariants of `Gateway`, `DamlInterop`, `ThresholdAttestation` and
   `GenericAttestation` as theorems (the inductive invariants of the latter two
   carry the types that their proofs need, not all);
2. action properties of the stores (a completed claim, a lifted control, a
   recorded attestation never change), which the inductive invariants give;
3. a composition of the coordinators with `Gateway` and `DamlInterop` in place of
   the assumed answers of the ledgers.
