# Verification of github-device-sync

TLA+ models of the stateful parts of GDS, the TLC configurations that check
them on small instances, and theorems about them that TLAPS proves for every
instance. Definitions carry the names of the Go functions they model;
`PROJECT.json` maps each one to its lines.

## The system

GDS plans, approves and applies changes to git repositories and GitHub, and
records everything in one SQLite database per device. Several processes use
the database at the same time: `gds` invocations and the long-running
controller. Each opens its own `Store`, and every store call is one SQL
statement or transaction.

| part | code | what it does | model |
|---|---|---|---|
| operation engine | `core/operations` | plan, approve, enable, apply, verify, compensate | `OperationEngine` |
| operation state | `core/state` (plans, enablements, operation_lifecycle, journal, locks) | compare-and-swap transitions, leases with fencing tokens, terminal transaction | `OperationStore` |
| operation recovery | `core/state/recovery.go`, `core/app/recovery_operations.go` | closes operations whose process died | `OperationRecovery` |
| database authority | `core/state/database_authority.go` | checks, after every change, that the file is still the database that was opened | `StoreCall` in `OperationEngine` and `WebhookQueue` |
| webhook receiver | `core/webhooks` | authenticates and enqueues GitHub deliveries | `EnqueueWebhook` |
| webhook queue and worker | `core/state/webhooks.go`, `core/controller/worker.go` | claims, retries, reclaims, dead letters | `WebhookQueue` |
| retention | `core/state/retention.go` | deletes finished deliveries and old runs | `PruneControllerData` (deliveries) |
| controller service | `core/controller/service.go` and neighbours | loops, readiness, shutdown, backup, reconciliation | planned |
| observations, reconciliation runs | `core/state/observations.go`, `reconciliations.go`, `core/reconciler` | what was last seen of every repository | planned |
| release and rollout | `core/state/release_rollout.go`, `core/rollout` | accepted bundles, rollouts and their targets | planned |
| telemetry outbox | `core/state/telemetry_outbox.go`, `core/telemetry` | bounded queue of records to export | planned |
| handlers and providers | `core/gitops`, `core/providers`, `core/githubchange`, `core/fork`, ... | effects on git and GitHub | only as a call that succeeds or fails |
| everything else | CLI, validation, compiler, harness, skills, context, memory, release building | sequential computation over files | not modelled |

## Operations

### Modules

* `OperationStore`: the tables `plans`, `plan_enablements`, `operations`,
  `operation_steps` and `locks`, and the store calls that change them. A call
  `X` has a guard `CanX`, what its SQL requires of the rows, and an effect `X`.
* `OperationRecovery`: `decideRecovery` over a snapshot, the recovery plan, the
  observer and handler of its one step.
* `OperationEngine`: `Engine.Apply`, one label for each point between two store
  or handler calls. A process is one `gds` invocation. It may be killed
  anywhere; deadlines and leases may pass anywhere.
* `OperationProperties`: what is checked.
* `OperationLedger` and `OperationRefinement`: the abstract promise and the
  mapping under which the engine implements it.
* `OperationTypes`, `OperationOwnership`: theorems.
* `OperationMC`: instances for TLC.

### How the state corresponds

`planStatus`, `enablement`, `opStatus`, `stepStatus` and `locks` are columns;
`operations.plan_id` is unique, so an operation is named by its plan. `age`
stands for the comparisons with the plan's and the enablement's expiry, `lapsed`
for the comparison with the leases' expiry. All locks of an operation get their
leases from the same calls and lapse together. `proc` is what an invocation
holds in memory, including what it read from the store and may find changed.
`called` counts handler calls and is the only history variable.

`StoreCall` has four ends: success; the guard is false; an error without effect;
and an error after the commit. The last is real: `Store.commit` and
`ExecContext` check the database authority after the change is durable.

Not kept: events (a failing append is modelled; a stored event is read only
through the snapshot digest, which changes with the statuses kept), digests and signatures (a plan is immutable, an approval is valid or
refused), devices other than this one.

### Runs

| run | instance | checks |
|---|---|---|
| `op_apply` | one plan of three steps in two repositories, two processes, 2 faults, 1 crash; a plan whose middle step has no automatic compensation, one process, 1 fault, 1 crash; two plans sharing a repository, two processes, 1 fault, 1 crash | `TypeOK`; `HandlerCalledOnceAndJournaled`; `ReportsOwnAttempt`; `WriteSetExclusion`; `ApprovedBeforeHandler`; `PlanFollowsOperation`; `CompensatedInReverse`; `ReplayNeverHidesMutation` |
| `op_recover` | a plan of two steps and its recovery, two processes, 2 faults, 2 crashes; two recoveries of one operation, three processes, 1 crash | `LocksFollowOperations`; `OutcomeTellsEffect`; `InterruptedIsRecoverable`; `OwnerNotOvertaken`; `RecoveredAsPlanned`; `ClosedStaysClosed`; `ImplementsLedger` |
| `op_liveness` | two plans for one lock, 1 crash, fairness | `EveryApplyEnds` |

A run covers several instances: `OperationMC` picks one of the run's `Scenes`
in the initial state, and the scene says which plans are made, how many
processes apply them, how many faults and crashes happen, and whose deadlines
pass: those of every plan except the plan without approval and the two
recoveries that race, whose expiry the other instances cover.

The bounds: three steps are the least at which the order of two compensations
and an uncompensated failing step can be told apart; two repositories make
the per-repository recheck happen in the middle of a plan; a manual step
between a reversible one and the failing one makes compensation skip; two faults let one
error path fail inside another; two crashes interrupt an operation and its
recovery. A process applies one plan and ends; retries are further processes.
Processes are interchangeable, and so are recoveries of one operation:
nothing orders them. Deadlock is not checked because the system stops when
every invocation has ended.

Fairness: `WF_vars(Proceed(q))`, for a process that has not been killed is
scheduled and its SQLite and handler calls return (they carry contexts and a
busy timeout). Nothing is assumed about planning, approving, the passing of
deadlines, or crashes.

Five runs show where the code and a statement of the repository disagree:

| run | statement | what happens |
|---|---|---|
| `op_expiry` | `engine.go:306-308`: recording an expiry tolerates that it was recorded before, with the same answer | of two concurrent applies the second answers `GDS_PLAN_EXPIRY_RECORD_FAILED` |
| `op_stuck_recovery` | `operations-v1.md:143-146`: a pending-only interrupted operation may be closed as failed | an interrupted recovery cannot: its lock has a scope recovery refuses |
| `op_finalization` | `operations-v1.md:49-51`: a failed terminal write leaves the operation open with its locks | the authority check fails after the commit: reported as failed, closed all the same |
| `op_late_start` | `operations-v1.md:45`: no handler is called when the plan expired | the expiry is compared with the time read when the plan was loaded, and not again: a plan that expires before its operation starts, or before its first handler, is applied |
| `op_plan_moves` | `state-v1.md:91-96`: the moves of the plan state machine | drift found before the first step moves a plan from applying to stale (and, after a failed store call, approved to failed) |

`PlanFollowsOperation` states what holds of plans instead of the documented
moves.

### Theorems

For every set of plans, recoveries and processes, every plan content and every
number of faults and crashes, from the assumptions named in the modules
(`PlansAssumption`, `NoLockAssumption`, `TargetAssumption`,
`BoundsAssumption`):

* `TypeCorrect`: `Spec => []TypeOK`.
* `LocksFollow`, `NotOvertaken`, `Exclusion`: an applying operation holds
  exactly its write set and others hold nothing; a running process is never
  overtaken; handlers with a common target never run together.

The inductive invariant `OwnershipInv` adds `PlannedOwnersEnded` to the type
invariant and the first two properties: the processes a planned recovery's
snapshot names as lock owners have ended. Without it the recovery handler
could, for all the invariant says, close an operation that is still running. With
it, a handler that finds the snapshot unchanged finds locks whose owners have
ended, and a running process owns its locks under its own name. The proof first
shows that each step is a start, a finalization, a recovery, the planning of a
recovery, or leaves statuses and locks alone, and then treats five kinds
instead of thirty actions. `Exclusion` follows: a lock has one row.

Model-checked only: the other invariants and action properties, the refinement
`ImplementsLedger`, and the liveness property, which is out of the
prover's reach.

## The webhook queue

### Modules

* `WebhookQueue`: the table `webhook_deliveries` and the receiver, worker and
  retention that change it. A worker is a controller process with its own
  `Store`; its watermark of the last sweep is in memory and lost in a crash,
  and a restart may bring another attempt limit.
* `WebhookProperties`, `WebhookProofs`, `WebhookMC`, `WebhookLiveness`.

A delivery has an event type and a body. A delivery that arrives again is
compared in both; a new delivery is a duplicate of another one by its body
alone, as the digest is. The lookup for that duplicate follows the insert in
one transaction, and `EnqueueWebhook` takes any error of it for "none": with a
fault, the insert of a duplicate is committed.

Time is counted in half seconds. SQL compares `claimed_at` and `available_at`
as texts, and `formatTime` drops the zero fraction, so that `00:00.5Z` sorts
before `00:00Z`; `formatTime(t)` is the rank of the text and half a second is
the finest grain at which the two orders differ. `RunOnce` reads the clock
before the claim, whose transaction may wait for the database: the clock may
run ahead by `Delay`, shorter than the timeout as `busy_timeout` is. The wall
clock may be set back.

`received_at` is left out: it breaks ties of `available_at`, and the order of
ties is left open, which allows more than the code does. `accepted` records
which deliveries GitHub was told are accepted.

### Runs

| run | instance | checks |
|---|---|---|
| `webhook` | two deliveries with two bodies in one controller, limits 1 and 2, a fault, a crash; the same with two event types and a fault, for a shorter time; one delivery in two controllers with a crash and the clock set back once; the same with a fault | `TypeOK`; `AcceptedIsKept`; `ClaimIdentity`; `DuplicatesComeFromErrors`; `LatestAttemptSettles`; `TerminalIsFinal` |
| `wh_liveness` | one delivery, one worker, a fault, a crash, the clock set back once, fairness | `EveryDeliveryEnds` |
| `wh_reclaim` | one delivery, two workers | shows `ReclaimedOnlyWhenStale` (`controller-v1.md:66-67`) violated by up to the fraction of a second |
| `wh_duplicate` | two deliveries, one worker, a fault | shows `OneLiveRowPerPayload` (`controller-v1.md:117`, "deduplicated webhook deliveries") violated when the lookup for the duplicate fails: the insert is committed and answered 202 |

As for operations, a scene of `WebhookMC` says who takes part, how long and what
goes wrong. The clock runs for four or five half seconds with a timeout and a
retention age of one second: a delivery can be claimed, go stale, be taken over,
finish and be deleted, and arrive again; the instance with two event types runs
for two, in which both are enqueued, claimed and completed. `View` drops what no step and no property can tell
apart any more (the value of `claimed_at` in a row that is not in processing,
and so on). Deadlock is not checked because the clock is bounded.

`ClaimIdentity` is checked with a clock that steps back by half a second at
most. The identity of a claim is a timestamp. While a row exists its claims move
forward in time whatever the clock does, because a claim waits for
`available_at` or for the timeout of the claim before; a clock set back by more
than the retention age, after the row was deleted and the delivery came again,
could repeat one, and that is outside the bound.

`WebhookLiveness` replaces the bound on the clock by a sliding window: at its
end every timestamp is moved back by a whole second, which keeps differences and
fractions; `WindowAssumption` makes the window long enough that a timestamp left
at its start is past every timeout, for a worker whose reading lags by `Delay` or
whose clock was set back. Fairness: the clock runs; the ticker of `workerLoop` calls `RunOnce`
again and again, the processor and the store calls return; a controller that
died is started again, which is an assumption about its operation and not
something the code does. Nothing is assumed of retention, the
receiver or faults, of which there are finitely many.

### Theorems

For every set of deliveries, events, payloads and workers, any limits, timeouts and
bounds that satisfy `PolicyAssumption` and `NoRowAssumption`:

* `QueueTypes`: `Spec => []TypeOK`, including which columns a status determines.
* `Deduplicated`: `Spec => DuplicatesComeFromErrors`. Two unfinished rows come
  to carry the same body only by an insert in a step that met an error; retries,
  sweeps, takeovers, crashes and retention never make it so. That the code does
  not deduplicate under an error is what `wh_duplicate` shows.
* `FinishedStaysFinished`: a finished row is never rewritten.

`QueueInv` strengthens `TypeOK` by what a working process remembers: the
delivery and the time of its claim. `NextStep` shows that a step preserves it
and either inserts a row, which has no unfinished twin unless the step met an
error, or evolves the table: payloads stay, finished rows stay or are deleted,
nothing appears. The two other
theorems follow from that alone.

Model-checked only: `AcceptedIsKept`, `ClaimIdentity`, `LatestAttemptSettles`
and the liveness property.

## Plan

In this order, each with its properties, runs and, where it pays, theorems:

1. `Rollout`: `PutRollout`, `TransitionRollout`, `TransitionRolloutTarget`, and
   bundle acceptance with rollback (`release_rollout.go`). Hazards: a rollout
   completed while targets are not, a rollback to a bundle that is not the
   accepted predecessor. Theorem: rollout and target statuses stay consistent.
2. `Observations`: `PutRepositoryObservation` reads and then writes, by the
   webhook processor and a reconciliation at the same time, composed with
   `WebhookQueue`'s processor step; reconciliation runs with their cursor and
   the crash of a controller during one.
3. `Outbox`: the bounded telemetry queue, its retries and its loss policy.
4. `ControllerService`: start, readiness, the loops and the shutdown that waits
   for them, with the liveness of shutdown.
5. `Engine.Verify` and `succeededJournal` on top of `OperationEngine`.
6. Proofs: `AcceptedIsKept`; `ClaimIdentity` without setbacks, which needs the
   order of claims in time; `HandlerCalledOnceAndJournaled`,
   `OutcomeTellsEffect` and `ClosedStaysClosed` from an invariant relating
   `called`, `stepStatus` and a running process's label; then
   `ImplementsLedger` step by step.

Not planned: the effects of handlers on git and GitHub, the HTTP clients,
cryptography, parsing and rendering. They are sequential, or act on systems
whose behaviour is not in this repository.
