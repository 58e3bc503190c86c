# TLA+ models of KajovoCML

KajovoCML is a control plane for components. An OWNER discusses a new component
with an AI and approves its specification; the server generates, validates and
activates it, and from then on controls, monitors and audits it. The server is a
set of processes (HTTP server, generation, browser-automation, component-control
and E2E workers, monitor, egress proxy, secret broker) that share one PostgreSQL
database and hardly anything else. Almost every interaction between them is a
row that one transaction writes and another one reads later. What can go wrong
is what happens *between* two transactions, so the models have **one action per
transaction** (or per unlocked read together with the decision taken on it), and
processes that may stop, stall or be overtaken between any two of them. Outside
the database the same holds of two awaits of an event loop (the handler runtime
and its worker), of two calls of a provider (DNS) and of two steps of a script
(an installation).

Paths below are relative to `apps/server/src/` of the repository unless they
start with `docs/` or `deploy/`.

## Contents

| file | what it is |
|---|---|
| `GenerationDiscussion.tla` | the leased, crash-prone discussion of one generation job |
| `DiscussionContract.tla` | what the discussion promises, without workers or leases |
| `GenerationPipeline.tla` | the generation jobs of one component after the approval, its releases and its runtime |
| `ReadinessGates.tla` | the activation gates of a new release and the evidence they rest on |
| `AutomationRun.tla` | production runs of one browser automation |
| `AutomationRegistry.tla` | definition, revisions and activation of one browser automation |
| `ComponentControl.tla` | remote control, activation and lifecycle of one component |
| `ComponentCalls.tla` | calls of tools and webhooks: token, permission, concurrency |
| `ComponentReports.tla` | the audit stream, operations and pulses a component reports |
| `E2ERun.tla` | end-to-end runs of a component, their lease, deadline and evidence |
| `GeneratedRuntime.tla` | the process that runs a generated component and its sandboxed handler |
| `WorkerLease.tla` | the lease of a handler's single active worker |
| `RuntimeIdentity.tla` | access token, managed secret and installed credential of a component |
| `Topology.tla` | connections between two components, their permission and grants |
| `ServerMonitor.tla` | a managed server, the scheduler that probes it and the OWNER's two sets of routes |
| `ServiceAccess.tla` | credentials, tokens and monitor evidence of one managed service |
| `AlertDelivery.tla` | operational alerts and the webhook deliveries that tell them |
| `OwnerAccess.tla`, `LoginThrottle.tla` | accounts and sessions of the OWNERs; the counters of failed logins |
| `WedosDns.tla` | the durable ledger of DNS-01 challenge records |
| `ReleaseInstall.tla` | installation of a release on the host and the ways back |
| `*Proofs.tla` | TLAPS proofs: of five modules one each, `PlatformAccessProofs` and `PlatformStateProofs` about the components of `MCPlatform`, `ServicesProofs` about those of `MCServices` |
| `MC*.tla`, `*.cfg` | the instances that TLC checks |
| `PROJECT.json` | components, runs, mutants, source map, findings, hazards, theorems |

Run `tlc -config <run>.cfg <Module>.tla` to check one run (PROJECT.json names the
module of each), `tlapm <Module>Proofs.tla` to check the proofs.

## Inventory

"m" is modelled, "p" partly, "-" not. PROJECT.json says of each what is in and
what is out, and lists line by line what can go wrong that a test hardly
reaches, with the property that covers it.

| component | | state it keeps | operations | hard behaviour | what makes it correct |
|---|---|---|---|---|---|
| **Generation discussion** `domain/generation-discussion.ts` | m | messages, turns with lease and token, specification revisions, two pointers | create, post (steer), approve, cancel; claim, stream, propose, finalize, heartbeat, recover | several workers, crash in the stream, steer against finalisation | one writer, message and turn agree, only answered discussions are approved |
| **Generation pipeline** `domain/generation.ts`, `generation/worker.ts` | m | job, lease, inputs, repair attempts, releases and what runs | claim, phases, questions, deploy, conformance, repair, activation, cancellation, failure, recovery | crash between the helper and the database, two jobs of one component | what runs is ACTIVE, a functional release is kept, what completes conforms |
| **Browser automation** `domain/browser-automation.ts`, `generation/browser-automation-runtime.mjs` | m | runs with lease, evidence files; definitions and revisions | create, cancel, claim, execute, finalize; verify, activate, enable, disable, preflight, repair | takeover in the middle of a mutation, lost lease taken for a cancellation, activations that overlap | true, final outcome; doubt is reported; the definition points at an activated revision |
| **Component control dispatch** `onboarding/component-control-worker.ts` | m | command, lease, attempts | claim, send, store the answer, acknowledge, fail, expire | lease without a token, deadline against late answers | answered once, settles |
| **Component lifecycle** `domain/component.ts`, `component-auth.ts`, `component-audit.ts` | p | component, policy epoch, principal, evidence, audit stream | enable, disable, quarantine, restore, retire; callbacks; watchdogs; reports | evidence late or repeatedly, evaluation against measurement | in service only when confirmed; gates that pass were recorded |
| **Component E2E worker** `onboarding/component-e2e-worker.ts` | m | run, scenario results, gate evidence, worker token | queue, claim, execute, finish, expire, rotate | 45 s lease without a token, deadline | a queued run ends |
| **Secret Manager** `domain/secret-manager.ts`, `onboarding/secret-broker.ts` | p | records, versions, grants | create, rotate, delete, restore, grant, resolve | optimistic `lock_version`, three stores of one value | what is installed is what authenticates |
| **Operational alerts** `domain/alerts.ts` | m | alerts, deliveries | raise, suppress, close; lease, deliver, retry, dead letter | process dies between request and result | one standing alert, every delivery settles |
| **Managed servers and services** `domain/server-state.ts`, `managed-service.ts` | p | registration, API state, epochs, tokens | enable, test, disable, delete; permissions; recertification | two sets of routes, an old page | a contained server stays contained |
| **Monitoring** `onboarding/monitoring.ts` | p | streaks, leases, outbox, evidence | probes, recertification, enforcement | probe against administration, monitor failures | overdue goes down, evidence recovers |
| **OWNER authentication** `http/admin-routes.ts`, `domain/deployment-managed-admin.ts` | p | accounts, sessions, epoch, throttle | login, MFA, reset, changes, recovery | check before the transaction | a usable session has today's credentials |
| **Generated components and external API** `domain/generated-component.ts`, `generation/runtime-host.mjs` | p | identity, releases, gates, handler state and mode | issue, rotate, revoke; register, evaluate; calls, state, mode | crash in a write, timeout of a sandbox | acknowledged writes survive, calls settle |
| **Invocation and egress** `http/component-mcp-runtime.ts`, `component-webhook-runtime.ts` | p | operation leases | authorise, count, dispatch, record | decision and lease in different statements | concurrency is respected |
| **Catalogue, contracts and topology** `domain/dashboard-topology.ts` | p | connections, permission, grants | connect, authorise, deny, grant, deregister | several connections on one permission | a deregistered component has no connection |
| **WEDOS DNS operation** `tls/wedos-dns-operation.ts` | m | ledger rows, zone rows | create, add, verify, remove, two recoveries | lost answers, killed hooks | the ledger tells what the zone holds |
| **Deployment** `deploy/scripts`, `deploy/handler-runtime` | p | release tree, snapshots, units, lease file | install, roll back, restart; worker modes | failure at any step | a snapshot is of its release alone; one active worker |
| **Operational configuration** | p | rows | read by `ServiceAccess` | | |
| **Command line tools and bootstrap** | p | migration ledger | migrate | irreversible step | code has its schema |
| **Audit chain**, **Rate limiting**, **Browser session**, **OWNER interface** | - | see *Not modelled* | | | |

The components interact through rows: the discussion hands its approved
specification to the pipeline (`GenerationPipeline.ApproveSpec` is one step there),
the pipeline registers and activates a release (`ReadinessGates`) and waits for a
command to be confirmed (`ComponentControl`) and for an end-to-end run (`E2ERun`);
the monitor raises alerts (`AlertDelivery`) and queues repairs; an activated
component is called (`ComponentCalls`) through connections (`Topology`) with a
token (`RuntimeIdentity`). Each module models the neighbours it depends on by
what their rows can be, and names that in its header. The composition that was
worth an explicit one is *discussion under contract* (`DiscussionContract`, by
refinement); inside `GenerationPipeline`, `ServerMonitor`, `ServiceAccess` and
`ReadinessGates` several components of the code act on the same rows.

## How the models correspond to the code

Every definition that models code has its lines in PROJECT.json, `map`. In all
modules a clock is a boolean or a small counter (expired, due, overdue), an
identifier is a member of a small set, and a lock is the set of states in which
the transaction that holds it is under way. Where a transaction is several
statements and PostgreSQL's READ COMMITTED lets others commit between them, it is
several actions.

### GenerationDiscussion

One generation job. Turn *t* answers OWNER message *t*: both rows are inserted
under the job's row lock.

| state | code |
|---|---|
| `job` | `generation_job.state`; everything after the approval is `ANALYZING` |
| `asked`, `status`, `lease`, `expired` | `generation_discussion_turn`: number of rows, `status`, `lease_token`, `lease_until < now()` |
| `reply`, `text` | status and length of the ASSISTANT message |
| `revisions`, `source`, `current`, `approved` | `generation_spec_revision` in order, its source turn, the two pointers of the job |
| `worker` | local variables of `processNextDiscussionTurn` and the place it has reached |

Actions: `QueueTurn`, `Approve`, `Cancel` (OWNER); `Claim`, `CreateReply`,
`MarkStreaming`, `CheckFrame`, `PersistDelta`, `RejectProposal`, `SpecAccepted`,
`SpecRefused`, `CheckTerminal`, `FlushDelta`, `Complete`, `End`, `Heartbeat`,
`ProviderError` and `Recover` (worker: each is one transaction or one unlocked
read of that function); `Crash`, `Stall`, `LeaseExpires`, `FinalWriteFails`
(environment). What a proposal must satisfy to be valid is the choice between
`RejectProposal` and `SpecAccepted`.

### GenerationPipeline and ReadinessGates

`GenerationPipeline` has the jobs of one component: a worker leases one and
takes it through its phases; registering a release, switching the runtime and
marking the release ACTIVE are separate steps, of which a crash may fall between
any two; `failGenerationJob`, the clean-up of a candidate, questions to the OWNER,
cancellation, follow-ups and the monitor's repairs are actions. `release`, the
release that runs and the component's approved revision are separate variables,
and the properties relate them.

`ReadinessGates` looks inside conformance: `evidence` has the gates recorded for
a revision, `view` what the evaluation has read, `recorded` what the last
evaluation stored. Registration, switching, exercising, probing, evaluating,
persisting and activating are separate; the monitor's probe, heartbeat challenges
and the OWNER's grants run beside them.

### AutomationRun, AutomationRegistry

Runs of one activated automation. `Steps` is its manifest: which steps only read
and which mutate. The web site is outside the program; `performed` counts what
it carried out, which the program cannot see, and a step that fails or is broken
off may or may not have taken effect. The timer that renews the lease and looks
for a cancellation runs beside the steps as its own two actions (`TimerCheck`,
`TimerRenew`), as `setInterval` does in the code. `Decide` maps the error to an
outcome, `WriteEvidence` replaces the run's evidence file, `Finalize` is the
update guarded by token and status; these are three awaits and so three actions.

`AutomationRegistry` is what a run is created from. `Verify` writes the result of
a browser run on the immutable manifest. Activation is one transaction under READ
COMMITTED, and so four actions: it locks its own revision (`LockRevision`), the
update that supersedes sees the revisions that are ACTIVE when it begins (`Look`),
waits for their locks and looks at them again (`Supersede`), and `Point` commits
the rows and the pointer. `Locks` says which rows a request holds. Enabling reads
the pointer, then the revision, then writes (`ReadPointer`, `CheckRevision`,
`Enable`); a preflight that fails writes the revision and the definition in two
transactions. `BreakOff` ends any of them half way.

### ComponentControl

One component that passed its conformance gates, with the commands that were
queued for it. `component` is its row without the policy epoch; every write goes
through `Update` or `HealthUpdate`, which are the database trigger of migration
007: an ordinary change advances the epoch, one made under
`kcml.watchdog_health_transition` does not. `dispatch` joins
`component_control_dispatch` with its attempts (`log`), its state query
(`query`) and its heartbeat challenge (`beat`).

| action | code |
|---|---|
| `RequestEnable`, `RequestDisable` | `setComponentActivation` |
| `QueryState`, `ChallengeHeartbeat` | `queueComponentStateQuery`, `queueComponentHeartbeatChallenge` |
| `SetLifecycle` | `setComponentLifecycle` |
| `MarkStale`, `Probe` | `markStaleComponentHeartbeats`, `recordComponentMonitoringWatchdog` |
| `Claim`, `Sweep`, `Send`, `StoreAnswer`, `FailAttempt` | the control worker's `claim`, `send`, its transaction after the answer, `failAttempt` |
| `CheckAck`, `FinishAck` | `recordComponentControlAck` called by the worker: unlocked read of the epoch, then the write |
| `Receive` | a callback passes `authorizeComponentCall`, which is a transaction of its own |
| `CheckCall`, `FinishCall` | `recordComponentControlAck`, `recordComponentStateObservation`: unlocked read, then the write |
| `LockedCall` | `recordComponentStateSnapshot`, `recordComponentHeartbeat`: the row is locked throughout |
| `Finalize` (operator) | `finalizeDispatchFromEvidence`, which the last three end with |

The component itself is the environment: once it has seen a command it may
acknowledge it, refuse it, report a state or answer the challenge, in any order,
repeatedly and late, under the command's epoch or the current one (which the
heartbeat's receipt and the authorization tell it).

### ComponentCalls, ComponentReports, E2ERun

`ComponentCalls`: a request of one component for a tool of another.
`Authenticate` is the locked read of token, principal and both components,
`Decide` the later statements about suspension and permission, `Count` and
`InsertLease` the transaction under the advisory lock that fails overdue leases,
counts the others and inserts one, `Answer` the result. `Webhook` and `PassOn`
are a provider's call, which has no token. The OWNER rotates, revokes,
quarantines, restores, retires and closes in between.

`ComponentReports`: an audit event is written down as an operation, then judged
under the lock of its stream (next in order, a repetition, a conflict, a gap, or
refused); pulses are ingested beside it.

`E2ERun`: requests queue a run after an unlocked look; workers claim it by state
and lease, authorise with the platform worker's token, which the OWNER rotates,
invoke scenario by scenario, record, renew, conclude and attest. A lease that
runs out lets a second worker in, and the deadline fails the run under both.

### GeneratedRuntime, WorkerLease

The two JavaScript processes of a handler. An action is the code between two
awaits. `GeneratedRuntime`: calls wait for the sandboxed child, time out and kill
it; the state file is written in two steps (truncated, whole) through a temporary
one and renamed; the mode is persisted before it is acknowledged; the host may
crash at any moment. `WorkerLease`: the timer reads a mode while the creation or
the removal of the lease file of an earlier mode is still under way.

### RuntimeIdentity, Topology

`RuntimeIdentity`: one value in three places, the token row, the managed secret
and the file of the service. Issue, rotation and revocation are the sequences of
transactions and helper calls of the code, with a rollback where the code has
one; `lock` is `lock_version`. A value the OWNER typed in is 0.

`Topology`: `edge`, `permission`, `grant` are rows; a session's command reads the
other connections without a lock, waits for the rows it updates, and commits.

### ServerMonitor, ServiceAccess, AlertDelivery

`ServerMonitor`: the scheduler works from the row its cycle selected (`cycle`),
so an OWNER's request may be older or younger than what it enforces. `service`,
`server` and `component` are the three rows that the two sets of routes write.

`ServiceAccess`: permission and token epochs, tokens with the scopes they were
issued with, and for an external API the age of the monitor's evidence, counted
against the interval and the limit of its manifest.

`AlertDelivery`: raisers look and insert under an advisory lock, deliverers lease
(`next_attempt_at`), post, and record the result by id; a result may come after
the lease went to another deliverer.

### OwnerAccess, LoginThrottle, WedosDns, ReleaseInstall

`OwnerAccess`: `password`, `mfa` and `epoch` number the versions of a credential,
so that a session carries the ones it was opened with. Handlers read first and
commit later; the session's cookie of a login in progress may be replayed.
`LoginThrottle`: the three counters a failure updates one after the other in a
transaction. `WedosDns`: `ledger` is the row, `rows` its recorded provider row,
`zone` what the provider has, `served` what its authorities answer; each call may
lose its answer. `ReleaseInstall`: the steps of `install-release.sh` and its
error trap, `rollback.sh`, `release-config.sh`; `files` says whose configuration
lies under `/etc`, `snapshot` what was kept. `release-config.sh` lets tar write
the archive under its final name, so `snapshot` is an unfinished archive from
`BeginArchive` to `FinishArchive` (`whole = FALSE`, with any of the managed files
in it), and stays one when a failure, a signal or a restart ends the script there;
the error trap is not set yet. An archive of any length counts as kept (`Unkept`),
and a restore extracts what it holds, or fails on the way.

## What is checked

Every run is exhaustive for its instance. `pass` runs find no error; the
`violation` run ends with a counterexample, which is a finding.

| run | instance | checks | shows |
|---|---|---|---|
| `discussion_faults` | 2 workers, 2 messages, 1 text delta, 1 specification, 1 fault | `SingleWriter`, `NewestMessageWins`, `ReplyTellsOutcome` | crashes, stalls, expiry, steers and cancellation never give a turn two writers, or let message and turn disagree |
| `discussion_specs` | 2 workers, 2 messages, 2 specifications (one with open questions), 1 fault | `ApprovalIsRepresentative`, `KeepsContract` | what is approved answers all that was asked; the implementation refines `DiscussionContract` |
| `discussion_liveness` | 2 workers, 2 messages, 1 fault, fairness | `EveryTurnEnds` | every message ends answered, given up or cancelled |
| `automation_runs` | 2 workers, 1 run of read, mutate, read, 3 tokens, 1 fault, fairness | `SingleFinisher`, `OutcomeIsTrue`, `DoubtIsReported`, `EveryRunEnds` | takeover, cancellation and failed writes keep the outcome true; what nobody cancels ends |
| `control_activation` | 1 worker, 2 commands out of enable, disable, quarantine; 3 events | `LiveIsConfirmed` | a component is in service only after a complete confirmation |
| `control_attempts` | 2 workers, 1 command of any type, 2 attempts, all lifecycle actions, 3 events, fairness | `AnswerIsFinal`, `EveryCommandSettles` | a command is answered at most once and settles |
| `pipeline` | 1 worker, 2 jobs of one component, 2 orders of OWNER or monitor, 1 crash | `RuntimeIsActive`, `FunctionalReleaseKept`, `CompletedIsConformant` | deployments, rollbacks, repairs and restarts keep what runs and what is ACTIVE together; a job completes with a release of its own that conformed |
| `pipeline_liveness` | 1 job, 1 question, 1 order, 1 crash, 1 stall, fairness | `EveryJobSettles` | a job that is worked on ends, waits for the OWNER or for its activation |
| `server_monitor` | streaks of 2, 3 requests, 1 suppression, 1 crash, fairness | `ServedOnlyByLiveServer`, `ContainedStaysContained`, `OverdueGoesDown` | scheduler, old page and two sets of routes agree on the server |
| `services` | 4 components, see below, each with its fairness | `OneStandingAlert`, `DeliveredIsFinal`, `EveryDeliverySettles`, `EvidenceRecovers`, `EveryRunEnds`, `AcknowledgedIsKept`, `EveryCallSettles` | what is accepted is kept, what is begun ends |
| `platform` | 12 components with 2 actors each, see below | `UsableSessionIsCurrent`, `FailuresAreCounted`, `OneLiveToken`, `CredentialWorks`, `LedgerTellsRows`, `DeregisteredIsDisconnected`, `CapacityHolds`, `SnapshotTellsRelease`, `GatesWereRecorded`, `OneHolder`, `EpochTellsScopes`, `OneChain`, `PointerIsActive` | what one transaction decided still holds when the others have committed |
| `last_owner` | 2 accounts, 2 requests, 1 change | `OwnerRemains` | violation, finding 8 |

`services` and `platform` collect the components that need one question each.
They share no variable, so a product of them would only multiply states; the
variable `part` chooses in the initial state which of them a behaviour is about,
and the others rest. This explores each component completely at its bounds, as a
run of its own would. In `MCPlatform` the variables of a component that rests
are `None`; in `MCServices` they stay as they start. The bounds are in
`Platform.cfg` and `Services.cfg`, and a bound is shared where the components
agree on it. `Platform.cfg`: accounts `a0`, `a1` with 2 sessions and 2 changes; 3 logins and 4 failures; 3 values, 1 edit and 1 crash of
a credential; 2 DNS operations, 1 fault; 2 connections; 2 calls, 2 tokens,
concurrency 1, 3 changes; 3 releases of which the last has fewer migrations than
the one before; 2 releases with 1 fault, 1 challenge and 1 act of the OWNER at the
gates; 3 changes of mode and 1 crash of a worker; 1 credential, 1 scope, 2
intervals; 3 sequence numbers and 4 reports; 2 revisions of an automation. `Services.cfg`: 2 raisers,
2 deliverers, 2 alerts of 2 attempts, 1 retry, 1 crash; 1 credential, 1 error; 2
workers on 1 run of 1 scenario with 1 rotation; 2 calls, 1 crash, 2 commands.

Each module has one type invariant. It is proved where the module has proofs;
elsewhere it documents the variables, and TLC confirmed it on the instances
above.

### Bounds, and why they are enough

- *Two workers, requests or sessions* are the smallest number with a race; a
  third one would have to hold something the second one lost, which the proofs
  cover for the modules that have them.
- *Two messages*: every rule of the discussion relates a message to its
  successor. *Two specifications*, one with open questions, are needed for a
  revision to return to an earlier content.
- *One fault* (crash, stall, failed write, lost answer) at any place; liveness
  needs a bound on faults, for a worker that crashes for ever finishes nothing.
- *Three steps* put a mutation between two reads, so that a run can be broken
  off before, in and after it.
- *Two commands* for one component are a command and the one that supersedes it.
  *Three events* are, for an enable, its three pieces of evidence, or two of
  them and a stall, crash or probe. The two runs about attempts and about
  activation split the product of worker interleavings and of lifecycle
  interleavings, which is too large together: retries do not look at the
  component's state and confirmation does not look at the attempts.
- *Two jobs and one worker* in the pipeline: one worker process is deployed
  (`deploy/systemd/kcml-generation-worker.service`). A claim does not look at
  other jobs of the same component, so two workers would switch its runtime under
  each other, and `RuntimeIsActive` would not hold; the theorems name this
  hypothesis (`OneWorker`). A worker that lost its lease is covered by the stall
  of the liveness run. A crash leaves every intermediate state behind for the
  next claim.
- *Three releases* allow a rollback past the previous one; the levels 1, 3, 2
  make the newest code older than the schema.
- *Two operations* for DNS share one zone, *two connections* share one permission.
- Symmetry over workers, tokens and actors is used only in runs without liveness.
- Deadlock is not checked: a job that is cancelled, a run that has ended, a
  queue that is empty and bounds that are used up are states where the system
  really rests.

### Fairness

- *Discussion, automation, control, pipeline*: weak fairness of polling, of every
  worker's own next step and of passing time. The workers poll in an endless
  loop and are restarted by systemd (`cli/*-worker.ts`, `deploy/systemd`); every
  await of a worker has a time limit or is a database statement; the expiries are
  comparisons with the database's clock. The pipeline also needs strong fairness
  of a claim, which heartbeats and expiries of other jobs enable and disable, and
  weak fairness of the component's answer to its activation.
- *Server monitor*: weak fairness of the scheduler's next step and of a probe
  falling due (`cli/monitor.ts` loops with an interval).
- *Alerts*: weak fairness of each deliverer and of a retry falling due.
- *E2E*: weak fairness of claiming and executing, and of the deadline.
- *Service access*: weak fairness of starting and recording a cycle, strong
  fairness of the clock, and strong fairness of a probe that passes: the property
  is about an upstream that answers again, not about one that never does.
- *Handler runtime*: weak fairness of the timer of a call and of the restart.

Nothing is assumed of the OWNER, of a provider's answers (but for that probe), of
the web site or of what a handler returns.

## What is proved

With TLAPS, for any number of workers, requests, tokens, messages, releases and
faults: every safety invariant and action property of a passing run, and the
refinement of the discussion. The assumptions are the `ASSUME`s of the modules
and of the two MC modules (`PlatformAssumption`, `ServicesAssumption`): null
values are not elements of their sets, bounds are naturals, the deployed account
is one of the accounts, the sets of credentials and tokens are not empty, a
manifest is a non-empty sequence, the actors are finitely many. The pipeline's
theorems have the hypothesis `OneWorker`, see *Bounds*. The `Bounds` predicates
in the proofs repeat the part of the assumption that one component needs.

| module | theorems | inductive invariant |
|---|---|---|
| `GenerationDiscussionProofs` | `TypeCorrect`, `Invariance`, `SingleWriterHolds`, `NewestMessageWinsHolds`, `ReplyTellsOutcomeHolds`, `ApprovalIsRepresentativeHolds`, `RevisionLogSoundHolds`, `ApprovalFreezesHolds`, `EndedTurnsAreFinalHolds`, `ContractKept` | `DiscussionInv` |
| `GenerationPipelineProofs` | `Invariance`, `TypeCorrect`, `RuntimeIsActiveHolds`, `FunctionalReleaseKeptHolds`, `CompletedIsConformantHolds` | `Inv` |
| `AutomationRunProofs` | `TypeCorrect`, `Invariance`, `SingleFinisherHolds`, `OutcomeIsTrueHolds`, `TerminalIsFinalHolds`, `DoubtIsReportedHolds` | `RunInv` |
| `ComponentControlProofs` | `Invariance`, `TypeCorrect`, `AnswerIsFinalHolds`, `LiveIsConfirmedHolds`, `DisableOutlivesItsEpochHolds`, `NoSilentActivationHolds` | `IInv` |
| `ServerMonitorProofs` | `Invariance`, `ServedOnlyByLiveServerHolds`, `ContainedStaysContainedHolds` | `MonitorInv` |
| `PlatformAccessProofs` | `UsableSessionIsCurrentHolds`, `FailuresAreCountedHolds`, `OneLiveTokenHolds`, `CredentialWorksHolds`, `CapacityHoldsAlways`, `EpochTellsScopesHolds` and the invariance each rests on | `OwnerInv`, `ThrottleInv`, `TokenInv` and `CredentialInv`, `CapacityInv`, `AccessInv` |
| `PlatformStateProofs` | `LedgerTellsRowsHolds`, `DeregisteredIsDisconnectedHolds`, `SnapshotTellsReleaseHolds`, `SchemaCoversRunningHolds`, `GatesWereRecordedHolds`, `OneHolderHolds`, `OneChainHolds`, `PointerIsActiveHolds` and the invariance each rests on | `DnsInv`, `TopologyInv`, `SnapshotInv` and `SchemaInv`, `GatesInv`, `LeaseInv`, `ReportsInv`, `RegistryInv` |
| `ServicesProofs` | `OneStandingAlertHolds`, `DeliveredIsFinalHolds`, `AcknowledgedIsKeptHolds` and the invariance each rests on | `RaisingInv`, `PostingInv`, `RuntimeInv` |

The theorems of the last three are about the composed specification that the run
checks. An invariant of a component is proved about its own actions, of the
instance; the lemma `Moves` says that a step of the whole is one of them or
leaves the component alone, and `part` says when the invariant is meant.

*The discussion.* `SingleWriter` is not inductive by itself.
`DiscussionInv` adds `TokensFence` (a turn carries a token exactly while it is
active, and no two workers hold the same token), `AskedInOrder`, `SingleActive`,
`NewestMessageWins` (a waiting or undisturbed turn is the newest one, and a turn
that was told to stop has a queued successor), and `RepliesAreOpen` (the message
of a live turn still accepts the final write). A claim takes a fresh token for a
turn that is not active while no other is; recovery withdraws the token before
anybody else can get one; so a worker with an old token fails every guarded
write. `ApprovalIsRepresentative` survives because an approved job has no live
turn (lemma `ApprovedIsQuiet`), hence no worker that owns a lease.

*The pipeline.* `RuntimeIsActive` and the other two relate rows, the link under
`current` and the worker's local variables over a whole deployment or clean-up.
`Inv` says for each place of the worker what it has staged or switched and which
release was ACTIVE before, that at most one release is ACTIVE, and that a
release is superseded by a later one of its chain (`previous`). A clean-up goes
back along that chain, which is why a component with a functional release keeps
an ACTIVE one; and a job reaches COMPLETED only through the place at which a
release of its own was measured. A restart may leave the worker's place behind;
what holds of the runtime then needs `NoFault`, as the properties say.

*The runs.* `RunInv` adds to the types `TokensFence` and, for every worker,
`ReportIsTrue`: whatever a worker that **still owns the run** is about to report
is true of the run; workers that lost it may believe anything, and their writes
are fenced. `OwnershipOnlyLost` and `NothingUndone` carry it from state to state.

*Control.* `RowOK` is what the row of a command promises (an answered attempt is
the last one, evidence only of a delivered command), `Keeps` what no step takes
back from it; `WorkerOK` fences a worker by the number of its attempt, since the
lease has no token. `LiveIsConfirmed` then only has to be shown for the actions
that put a component into service.

*Monitor.* The rows of server and service agree because a request that is still
current has read the registration that the server has now.

*Worker lease.* A worker has at most one of three claims to the file (created
and not noted, held, released and not removed) and a claim means that the file is
its own; so what it removes is never another worker's.

*Installation.* A snapshot is taken only when a release is left for the first
time: a release without one still has its own files under `/etc`
(`CurrentIsKept`), and an installation that fails leaves foreign files behind
only after its predecessor was kept (`InstallOK`). While tar is at work nothing
else writes the managed files (`ArchiveIsOwn`); an archive it left unfinished holds
nothing of another release, and because it is never replaced, what is restored from
it cannot become another snapshot of the same release. The schema only grows.

*Credential.* `TokenInv` says whose each live token is (the identity's, or that
of a sequence that has not finished); `CredentialInv` follows the value of a
rotation through secret, file and token, under the optimistic lock that lets one
of several pass.

*Concurrency.* A call that has counted the leases inserts its own in a later
statement. Under the advisory lock nobody else can be in that place, and leases
otherwise only end; so the room that was counted is still there.

*Owner access.* What a request read of an account says an epoch, and as long as
the account has that epoch, password and second factor are those that were read;
every change moves the epoch in its own transaction.

*Throttle, alerts, calls, reports, topology.* Who decides by what it read holds
an advisory or row lock until it writes, nobody else can be in that place, and
what others do to the rows meanwhile does not touch what was read. For alerts
`closeAlert` takes no such lock; it is kept from the alert found by its row lock.
For topology a deregistration takes the locks of component and connections in
that order, so that a session inside a connection is inside before it.

*DNS.* What the holder of an operation read of the zone stays true while it holds
the lock, though every write of the ledger is a transaction of its own. The last
step of a clean-up comes after the lock is given back; nothing brings a removed
record back, so that it is harmless.

*Gates.* What the evaluation carries from one transaction to the next, and what a
failure puts back, was recorded for the revision that is active.

*Registry and tokens of services.* A pointer moves only to what was activated in
the same transaction; a token carries the epoch of its issue, and whatever changes
a grant moves the epoch with it.

*Deliveries.* A delivery is in one pair of hands and does not fall due there, so
an answer is written to a row that was not delivered; a manual retry may put it in
two hands and ends the claim, as `DeliveredIsFinal` says.

*Handler runtime.* While calls do not store at once, the one that stores has read
what the file still holds and the temporary file is its own; a mode is answered
when it is in its file, and a death takes back an answer that was under way.

*Only model-checked:* liveness under fairness, which is out of the prover's reach
(`EveryTurnEnds`, `EveryRunEnds`, `EveryCommandSettles`, `EveryJobSettles`,
`OverdueGoesDown`, `EveryDeliverySettles`, `EvidenceRecovers`, `EveryCallSettles`),
the violation `OwnerRemains`, and the type invariants of the modules that have no
proof module of their own.

## Findings

With a run or a configuration that refutes the property (configurations that are
not listed as runs can be checked with the module in parentheses):

1. `DiscussionReproposal.cfg` (MCGenerationDiscussion): a proposal is compared
   with the newest revision, not with the current one; after a return to an
   earlier content, re-proposing the newest is accepted without becoming current
   (`domain/generation-discussion.ts:270`).
2. `AutomationRunRetry.cfg` (MCAutomationRun): a run that is taken over starts
   again at its first step and repeats a mutation (`domain/browser-automation.ts:423`).
3. `AutomationRunEvidence.cfg` (MCAutomationRun): a worker that lost its lease
   replaces the evidence file of the finished run (`domain/browser-automation.ts:455`).
4. `AutomationRunCancelEnds.cfg` (MCAutomationRun): nobody takes over a run whose
   worker died after the cancellation (`domain/browser-automation.ts:414`).
5. `ControlStaleEnable.cfg` (MCComponentControl): evidence of an acknowledged
   enable that arrives after the OWNER's disable puts the component into service
   (`domain/component.ts:695`).
6. `ControlReenable.cfg` (MCComponentControl): a confirmed disable suspends the
   component's principal, and the authorization then refuses the reports that the
   next enable waits for (`domain/component.ts:722`, `domain/component-auth.ts:152`).
7. `PipelineCancel.cfg` (GenerationPipeline): a cancelled job that is in nobody's
   hand keeps its candidate (`domain/generation.ts:780`).
8. run `last_owner` (OwnerAccess): two requests deactivate the last two OWNERs at
   the same time (`http/admin-routes.ts:1147`).
9. `ServiceTokens.cfg` (ServiceAccess): disabling and enabling a service leaves its
   tokens valid (`domain/managed-service.ts:452`).
10. `WedosRecovery.cfg` (WedosDns): an operation whose process died right after
    its row was written is cleaned up by nobody (`tls/wedos-dns-operation.ts:534`).
11. `TopologyDenied.cfg` (Topology): a permission stays active although no
    connection wants it (`domain/dashboard-topology.ts:281`).
12. `ReadinessMeasured.cfg` (ReadinessGates): a probe of the old release counts as
    evidence of the new one (`domain/component.ts:541`).
13. `AutomationRegistryOne.cfg` (AutomationRegistry): two activations that overlap
    lock two rows, do not see each other and leave two ACTIVE revisions
    (`domain/browser-automation.ts:328`).

Met while modelling, contained in the models, without a configuration: an
evaluation of gates overwrites a watchdog failure recorded meanwhile
(`domain/generated-component.ts:1278`); a failed pulse advances the policy epoch
(`domain/component.ts:1208`); a gap of the audit stream is forgotten
(`domain/component-audit.ts:187`); a single-active worker that starts ACTIVE
takes no lease (`deploy/handler-runtime/bootstrap.mjs:213`) and one that stops may
leave it behind (line 281, `WorkerLease.StoppedLeavesNothing`); the status of an
end-to-end run is overwritten by an overtaken worker
(`onboarding/component-e2e-worker.ts:213`); two `state.set` calls that overlap
lose or tear the state (`generation/runtime-host.mjs:66`); an installation that
fails between the move and the switch restores nothing
(`deploy/scripts/install-release.sh:348`); an archive of a configuration that tar
left unfinished is not empty and is kept for good, and a later restore first
removes the managed files and then extracts what it holds
(`deploy/scripts/release-config.sh:34`, `ReleaseInstall.KeptIsWhole`); a secret
grant whose request looked at a component before its deregistration is stored
after it and stays live (`domain/dashboard-topology.ts:513`,
`Topology.DeregisteredHasNoGrant`); a cancelled or failed repair writes back
the component state it was ordered with, over a later repair's
(`generation/worker.ts:673`), and another job completes on it; a steer that meets a turn recovered to
`QUEUED` leaves its half-written message `STREAMING`
(`domain/generation-discussion.ts:360`), and a mutation that a cancellation
breaks off ends `CANCELLED` (`generation/browser-automation-runtime.mjs:193`).

Two properties say less than their hazard, because the code does less:
`DeregisteredIsDisconnected` is about connections, not about the grant above, and
`GatesWereRecorded` shows that no gate passes by default, not that the result that
counts is the last one recorded (`domain/generated-component.ts:1278` above).
`SnapshotTellsRelease` claims that a snapshot is complete only of a finished
archive.

## Not modelled

- *In the modelled components:* the text of messages, the validity rules of
  proposals and manifests, hashes, encryption, signatures and schemas; the delay
  of a retry and the circuit breaker (they postpone a claim, which a worker may
  do anyway); row locks below a transaction where nothing is decided between two
  statements; what a phase of the pipeline writes into its workspace.
- *Registration, schema and catalogue code* (`external-api.ts`,
  `generated-component.ts`, `capability-discovery.ts` in large parts): long
  validations of documents and read models without a second step.
- *Audit chain and archive*: one transaction under one advisory lock.
- *Rate limiting*: one upsert.
- *Browser session, egress proxy*: one process in front of an external one, which
  keeps nothing between requests.
- *OWNER interface*: a client without durable state.
- *Start-up, acceptance, reset and bootstrap scripts, build of a release*:
  sequential input and output.

## Plan

Done: the discussion, its contract and proofs; runs of automations, their
registry and proofs; control; the pipeline; E2E runs; alerts; servers, services
and monitoring; identity; access of the OWNERs; topology; calls; reports; DNS;
gates; handler runtime and worker lease; installation; proofs of every safety
property of the runs (see above).

What is left, most important first:

1. Type correctness of the components of `MCPlatform` and `MCServices` as
   theorems, from the typing conjuncts of the invariants.
2. `PipelineContract`, an abstract specification *phases advance, a job ends
   once*, which `GenerationPipeline` implements, by refinement from `Inv`.
3. `AutomationRegistry` composed with `AutomationRun` through the revision that a
   run is created with.
4. `ReadinessGates` composed with `ComponentControl`: the evidence of a heartbeat
   in the one is the challenge of the other.
