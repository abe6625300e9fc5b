# A TLA+ model of the stock analyzer's daily pipeline

The repository is a trading research system: a Cloudflare Worker (`worker/`)
schedules and records a daily pipeline, a FastAPI controller (`ml-controller/`)
runs its heavy parts as Cloud Run jobs, and further services compute features,
train and serve models, and talk to a broker. Most of the code is numerics. What
can go wrong in ways that tests hardly reach is the coordination: which run of a
business date is the canonical one, who may write its rows, and what happens
when a worker dies, an answer is lost or a callback comes early, late or twice.
That coordination is what these modules model.

## The parts of the system

| Part | State it keeps | Operations | Talks to |
|---|---|---|---|
| Pipeline stage lease table, `worker/src/lib/pipelineStageLease.ts` | one row of `pipeline_stage_runs` per (business date, stage): canonical run, status, cursor, lease owner, lease expiry | enqueue, authorized enqueue, claim, heartbeat, cursor, fenced mark; for `pipeline_execution` reserve, commit, fail, accept | the parts of the Worker below, by SQL |
| Pipeline dispatch, `mlPipelineTrigger.ts`, controller's `/pipeline/v2/run`, `cloud_run_jobs_client.py` | KV lock, the `pipeline_execution` row, the Cloud Run executions | trigger, reserve, post, commit or keep or release | controller by HTTP, the run by callbacks |
| L3 seal and premarket publication, `pipelineL3SealAcceptance.ts`, `premarketSinglePlan.ts`, `premarket_pipeline.py` | the same row and its `last_error`, plan artifacts | seal, publish | callbacks, premarket cron |
| Pipeline input events, `pipeline_input_events.py`, `pipeline_input_prep.py` | storage objects of one run: dispatch receipts, claims and results of feature batches; seal, continuation and consumption of a stage | dispatch, claim, take over, seal, continue, consume, reconcile | Modal calls, Cloud Run jobs, the controller's reconciliation |
| Prediction GPU stage, `pipeline_prediction_stages.py`, `pipeline_prediction_recovery.py` | claim, dispatch, execution and result objects of a stage; progress; the watchdog's record | drive, dispatch, lease, execute, abandon, recover | Modal calls, controller |
| Full-fit training, `walk_forward.py`, `retrain_lock.py`, `retrain_trigger.py` | a lock blob with a cache in each instance, a receipt, the artifact registry, a log | acquire, dispatch, poll, repair, retry, release | Modal training job |
| Evening chain, `postMarketChain.ts`, `updateOrchestrator.ts`, `adminControlRoutes.ts` | `post_pipeline_chain`, `verify_v2`, `post_verify_chain` rows, queue messages, lifecycle state | chain worker, verify dispatch, callbacks, post-verify tasks | queue, controller, watchdog |
| Post-verify checkpoints, `postVerifyTaskCheckpoint.ts` | one receipt per task and identity of its inputs | claim, reclaim, invalidate, settle, reconcile | the `post_verify_chain` lease |
| Watchdogs, `allocatorEvDailyLifecycle.ts`, `postScreenerContinuation.ts`, `screenerRecoveryWatchdog.ts` | redispatch counters | requeue what is stuck | stage rows, queue |
| Strategy learning, `strategyLearningRunState.ts` | `strategy_learning_runs`: lease, status, closure | start, heartbeat, finalize, close | `post_verify_chain` row |
| Root closure and tickets, `eveningChainRootClosure.ts`, `schedulerExecutionTickets.ts`, `durableSchedulerTask.ts` | scheduler tickets | open, close, retry | stage rows |
| Maintenance lease, `maintenanceLease.ts` | one lease row | acquire, renew, release | maintenance jobs |
| Live order gateway, `finlab_live_submit_service.py`, `finlab_execution_gateway.py`, `broker_execution_repository.py` | `broker_execution_intents`, `_legs`, `_events`; a callback queue | reserve, claim, submit, acknowledge, record, reconcile | broker |
| ML service, features, screener scoring; frontend | numerics, display | - | - |

`PROJECT.json` lists the same parts with their status.

### What is hard, and what must hold

- *Stage table.* Statements of workers, callbacks and watchdogs interleave, and a
  worker may go on after its lease ran out. Must hold: one holder at a time, a
  worker that lost its lease stays fenced off, a success is final for its run, a
  run is not replaced under a live lease, and the learning finalizer keeps the
  stage row it needs as authority.
- *Dispatch.* The request to the controller may be lost, served late, or served
  with its answer lost; the callback may come before the commit; the KV lock is a
  get followed by a put. Must hold: no second run of a date beside one that
  nobody reported failed, no hand-off mistaken for lost, success only from a run
  that succeeded and never undone, and every started run is closed in the end.
- *Evening chain.* A queue delivery is the worker: a crash is a redelivery, up to
  a retry limit; a row can be queued without a message that will drive it; the
  verify job may answer before its dispatcher has recorded it. Must hold: nothing
  after verify without a verify success of the same run, no answer overwritten by
  a late mark, a stuck stage is driven on.
- *Checkpoints.* A task's producer outlives the timeout of the delivery that started it,
  and a replay must not redo what may have been done. Must hold: one claim of the
  date is open, an effect that is not idempotent is not repeated under the same
  inputs, a claim under a live lease is left to its producer, and a late
  producer gets the chain moving again.
- *Input events.* Objects are created once and replaced by compare-and-swap; claims
  are taken over by age. Must hold: one call prepares a batch, one job
  consumes a stage, none before the seal, and the stage ends.
- *GPU stage.* A dispatch is re-sent when its acknowledgement is lost; a stage is
  abandoned at its queue limit while a container may still take it. Must hold: one GPU
  run at a time, none for an abandoned request, and the run ends.
- *Full fit.* A lock with a time to live behind caches, and a receipt that every caller
  reads once and overwrites. Must hold: a training keeps the lock it got, a
  verdict is that of the run that earned it, and no training is replaced while it runs, as far as
  its polls tell: any exception of a poll is taken for the training's own.
- *Order gateway.* A broker call may time out with the order live. Must hold: one order
  per leg, whatever is retried; the rows never promise less than the broker may do.
- *Strategy learning.* A finalizer must not close what another run has taken over.
- *Root closure.* The date's ticket must close exactly when its stages have.
- *Maintenance lease.* The work is not fenced, only its lease is.

## The plan

Modelled, model-checked and proved, in this order:

1. `StageRow`, `FencedLease`, `PipelineStageLease`: the table under every
   fenced statement in every order, because the Worker's other parts are compositions of its
   statements.
2. `PipelineDispatch` on top of `StageRow`: one date's runs, from the trigger to the
   callback.
3. `EveningChain` on top of `PipelineStageLease`. Its abstract specification is the stage
   table; the proof that it implements it for all bounds carries the theorems about
   the table over to it.
4. `PostVerifyCheckpoint` on top of `StageRow`: replay under a lease that may be lost.
5. `FullFit`, `PrepBatch`, `InputStage`, `GpuStage`: the protocols over storage objects.
6. `BrokerExecution`: requests, callbacks and polls over the gateway's tables.

Left:

- `StrategyLearningRun`, composed with the `post_verify_chain` row;
  `PostScreenerContinuation`, `RootClosure`, `MaintenanceLease`;
- a composition of `PrepBatch` and `InputStage`, in which a batch's result arrives by the
  steps of `PrepBatch` instead of at any time.

## The modules

| Module | Models | Reads as |
|---|---|---|
| `StageRow` | one row and the statements of `pipelineStageLease.ts` on it | `XWhere` is the WHERE clause of statement X, `XSet` its SET list |
| `FencedLease` | what the leases promise (abstract) | `Acquire`, `Release` |
| `PipelineStageLease` | the table: each statement by any caller at any time | one action per statement |
| `PipelineDispatch` | `runMLAndRiskV2`, the controller, the run, callbacks, the reconciler | one action per step between two points at which others may run |
| `EveningChain` | deliveries of `post_pipeline_chain`, `post_verify_chain` and recovery messages, the verify job, callbacks, watchdog, repair | an action that writes a row is a statement of `PipelineStageLease` |
| `PostVerifyCheckpoint` | the tasks of `post_verify_chain` behind their receipts | deliveries and producers as processes |
| `BrokerExecution` | requests, event writer and reconciler over the gateway's three tables | a procedure of the repository is several steps of the thread that calls it |
| `FullFit` | callers, lock with caches, receipt, training job | one action per storage access |
| `PrepBatch` | dispatchers and Modal calls of one feature batch | the same |
| `InputStage` | one stage of deferred inputs, from its results to its consumption | the same |
| `GpuStage` | driver, containers and watchdog of one GPU stage | the same |
| `...Proofs` | theorems about the module of that name; `PipelineRowProofs` about `PipelineStageLease` and `PipelineDispatch` | |
| `MC...` | instances for TLC | |

An operator such as `MarkWhere_SuccessReopens` is a wrong variant of the operator
it precedes. It belongs to no specification: replacing the right one by it makes
TLC find the violation `PROJECT.json` names under `mutants`, which shows that the
property is sensitive to that mistake.

### `StageRow` and `PipelineStageLease`

A row is `[run, status, cursor, owner, live]` for `canonical_run_id`, `status`,
`cursor_key`, `lease_owner` and "`lease_expires_at` is not past". Every statement of
the code compares `lease_expires_at` with the current time and nothing else, so time
is one bit, set by the statements that write the column and cleared by
`ExpireLease` at any moment. Attempt counters, timestamps and `last_error` are
left out; no WHERE clause of the file reads them. (One statement of another
file reads `last_error`; see `note` below.)

`markPipelineStage` (`pipelineStageLease.ts:688`) is exported too and updates a row without any fence.
`updateOrchestrator.ts` imports it, nothing calls it, and it has no action: what is said of the table is
said of the fenced statements. So is `TableSpec`: the one other file that writes a row directly,
`updateOrchestrator.ts:5104`, does so for the post-screener stage, which no module has.

D1 executes a statement atomically, and an action is one statement.
`enqueuePipelineStage` issues up to four; a statement whose WHERE clause is
false does nothing, so the sequence is the set of its statements, with other
callers' in between. The model is more permissive than the code here: it allows
the statements in any order, hence every property that holds of it holds of
the code. The same goes for the authority of
`enqueuePipelineStageAuthorized`, which the model lets range over what the callers pass
for the same run, and for `Marks`, the arguments that the callers of
`markPipelineStageFenced` pass.

`learning` is the part of `strategy_learning_runs` that two statements read in a
subquery: which run it belongs to, and whether its lease is live. It changes
freely. `issued` is a history variable: the owner ids used so far. Claim takes a
fresh id because the code draws a UUID; the number of ids bounds the claims.

### `PipelineDispatch`

One business date. A trigger makes one attempt, so the attempt id names the
trigger, the run and, while it is reserved, the owner. `pc[t]` is where
`runMLAndRiskV2` is between two awaits; `resume[t]` is the failed run its
preflight approved; `jobs[t]` is what became of the request: `requested` (perhaps
lost: it may stay so for ever), `checked` (the controller has seen no active
execution but has not started one), `busy`, `rejected`, `broken` (the start
raised), then the run itself. A run is not always an execution: it hands over
to the model service (`handedOff`) and, in the sealed mode, waits for the next
premarket (`sealed`), and in neither state does Cloud Run see it as active.
`calls` is the set of callbacks ever sent; a message in it may be delivered
at any time, again and again, or never. `note` is `last_error` as far as
`acceptPipelineL3Seal` and the reconciler read it. `lock` is the KV entry, which may vanish at any
moment.

`Crash` may happen between any two steps of the trigger. `ReserveThrows` is a
reservation that D1 makes but does not acknowledge. `Unanswered` is a callback
whose answer is not 200: `_callback_worker` posts once and raises, so the
execution fails though its callback may have been handled.

### `EveningChain`

One business date, after `pipeline_execution` is won by `Run`. It instantiates
`PipelineStageLease` as `Table` over its own `stages` and `issued`, and every write
of a row is an action of `Table`: `Table!Claim`, `Table!MarkFenced` and so on. What is
added is who issues these statements, with which arguments and in which
order.

A worker is the delivery of a queue message. `pc[m]` is where the message or its
worker is: `sending` (row queued, message not yet sent), `queued`, `delayed`
(retried after another's lease), `resumed` (the consumer's first statement is
done), `chain` to `tasks` inside the chain, `end...` with a result to write,
`failing` with an exception to report, and at rest `acked`, `gaveUp` (lease lost,
hence acknowledged), `unsent` (the send threw), `lost` (the sender died) and `dead`
(out of retries). A crash is a redelivery: the message counts a failed attempt
and a new worker starts with a fresh owner id.

| Actions | Code |
|---|---|
| `Post`, `Send`, `SendThrows`, `SenderDies` | `queuePostPipelineStage`, `queuePostVerifyStage` |
| `ReceiveRecovery`, `Resume`, `ClaimStage`, `ClaimFails`, `Finish` | the consumers in `updateOrchestrator.ts` |
| `Retry`, `Redeliver`, `Crash` | the queue handler in `index.ts` |
| `LeaseLost`, `HeartbeatFails` | `assertActive` and the heartbeat's timer |
| `SnapshotPending`, `SnapshotFails`, `BackfillDone`, `BackfillFails` | the snapshot of `runPostPipelineCallbackChain` and the callback of its backfill |
| `EnqueueVerify`, `ClaimVerify`, `StoreCursor`, `CallVerify`, `FinishDispatch` | the dispatch of the verify job, shared by the chain and, from `ClaimVerify` on, by `runVerifyV2Repair` (`StartRepair`) |
| `Record`, `Recorded` | `recordAllocatorEvLifecycle`, between whose reads of the lease lies a write to another database |
| `VerifyEnds`, `HandleAnswer`, `Continue`, `HandlerDies` | the job and the callback route, which may die between marking `verify_v2` and queuing `post_verify_chain` |
| `PostVerifyTasks`, `LearningCloses` | `runPostVerifyCallbackChain`, the closure by strategy learning |
| `WatchdogPostVerify`, `WatchdogPostPipeline`, `WatchdogCloses` | `runAllocatorEvLifecycleWatchdog` |
| `PipelineSucceeds`, `ResearchOpens`, `QueuePostPipeline` | the callback of the pipeline, the publication and its session, `runPostcloseResearch` |
| `LeaseRunsOut`, `WorkerStalls` | time |

Simplifications, each of which only adds behaviours: the tasks of a chain are
one step that may throw; the watchdog's ages and grace periods are left out, so
that it may act at once; a lease may run out as soon as its worker is gone. The
learning guard of the table is fixed to "no live learning lease", so the transitions
it would refuse are all possible. The lifecycle keeps the states the watchdog tells apart; the
replay states are one value, and the run id kept with the state is taken to be `Run`.

`postPipelineResearchAllowed`, the research gate, is that of the deployed `PAPER_DAILY_PLAN_OWNER`
(`premarket_once_v1`): `ResearchOpens` opens it for a run, at any time or never, when the publication is
there and its session over. A publication is written once (`premarket_publication.py`) and the clock
goes on, so it stays open. Whoever queues `post_pipeline_chain` asks it, and so does the consumer, which
acknowledges a message without a claim while it is closed. An exception of the question is a crash.
`closedBy` is a history variable: the producer whose answer closed `verify_v2` last.

### `PostVerifyCheckpoint`

One business date and canonical run. The chain is the sequence `Tasks`; which of them may
run again, are optional, or stop the chain on an error is given by `RetrySafe`,
`Optional` and `Stopping`. A delivery of a `post_verify_chain` message is a worker with
a lease owner of its own; `worker[m].pc` is where it is in the consumer and in the
checkpoint's `run`. A task's producer is a process beside it, `producer[c]` for claim
`c`: the timeout ends the delivery, not the producer, which goes on to write under
the authority it asserts before each write. `ident` is what a key is made of besides the
task and its predecessor: the latest root ticket, and the deployed revision
with its configuration. `receipts` is the table without the copies set aside.

| Actions | Code |
|---|---|
| `Resume`, `Claim`, `Redeliver`, `Retry`, `Finish` | the `post_verify_chain` consumer and the queue's retries |
| `Create`, `Enter`, `Verified`, `OutputChanged` | the start of the checkpoints, the lookup of a receipt, the check of a success before it is trusted |
| `ClaimTask`, `Reclaim` | `claimOnce`, `reclaimExpiredLeases` |
| `CheckWrite`, `Write`, `Return`, `Settle`, `SettleFails`, `Watch`, `TimesOut` | the producer's environment, its settlement, the wake message and the timeout |
| `Reconcile` | the operator's `postVerifyReceiptReconcile.ts` |
| `LeaseRunsOut`, `Stall`, `Die`, `Vanish`, `NewRoot`, `NewRevision` | time, deaths, a new ticket, a deployment |

A checksum covers the claim's UUID, so a claim stands for it. A receipt older than the
stored retry flag is treated like a flagged one. The authority check and the
read of the receipt are one step, and so are the settlement and its wake message. A
redelivered message reopens a stage that is `waiting`, as in the code.

### `BrokerExecution`

One instance of the gateway, as deployed (`EXECUTION_GATEWAY_RUNTIME.md` sets the container's
concurrency to 1). `intent`, `leg` and `events` are the three tables; `order` is the
broker's side of a leg; `queue` holds callbacks that the event writer has not
recorded; `thread` is where each request, the writer and the reconciler are. Each SQL
statement is a call over HTTP, so the procedures of `D1BrokerExecutionRepository` are
split at their statements: a leg is read in one step and written in another, by three
threads. Shares are counted in deals.

| Actions | Code |
|---|---|
| `Admit`, `Revalidate`, `Reserve`, `InsertLeg`, `ClaimLeg`, `Recheck` | `run_finlab_live_submit` and `reserve_intent`, `claim_leg` |
| `PlaceOrder`, `MarkAck`, `Attach`, `AttachNext`, `MarkRejected`, `MarkUnknown` | `submit_leg` and what records its outcome |
| `Match`, `Insert`, `Apply`, `Publish` | `record_broker_event`, `_apply_event_to_leg`, `_refresh_intent_status` |
| `TakeCallback`, `Poll`, `PollNext` | the event writer's and the reconciler's loops |
| `OrderArrives`, `OrderFills`, `OrderEnds`, `Resend` | the broker |
| `RequestFails`, `WriterFails`, `PollFails`, `Disconnect`, `Crash` | a statement, a call, the connection or the instance fails |

Not modelled: conflicting packets under one key, the degraded trade cache, lot types that are
not verified, failed callbacks (`callback_success` false), events that change nothing, callbacks of other operations than a new order,
the checks of a packet's content. The id of a snapshot is the broker's version of the
order. Two steps are coarser than the code: `Attach` works on the leg as it is, where
`mark_submit_ack` has read it before its last statement (`broker_execution_repository.py:261`), and
`AttachNext` applies an event and marks it as attached in one (`:281-286`), so no death comes in
between. The daily limit is modelled, but no run asks about it.

### `FullFit`

One cohort and cutoff, hence one lock key and one receipt. `lock` is the blob: the run
it names (which stands for its generation) and whether its time to live has passed. `cache[i]`
is what instance `i` remembers of it. Each caller reads the receipt once, `seen`, and
later overwrites the stored one unconditionally. `job[r]` is the training; its outcome
is whole and good, whole and invalid, partial, an error or a time-out; it is chosen when
it is first asked for (`Sees`), which is the earliest that anything depends on it. `registered` and `noted` are the
artifact registry and the log. `unowned` is a history variable: trainings that the code
admits without the blob, because `acquire` failed open or a dispatch lost its answer. `misread` is
another: trainings that still ran when a poll of them threw. `poll_retrain_orchestrator` makes an
error of every exception, one of the network too (`modal_client.py:1225`), and the caller then
releases the lock and may replace the training. The properties say so: the lock is kept, and a
replacement due, unless a poll of that training threw.

| Actions | Code |
|---|---|
| `Read`, `Registered`, `AlreadyTerminal`, `PollPending`, `PollCompleted`, `PollFailed`, `Settle`, `Repair`, `Conclude`, `WriteReceipt` | `dispatch_oof_full_fit_training` |
| `SkipOnCache`, `Create`, `CreateFails`, `Inspect`, `TakeOver`, `Release` | `retrain_lock.py` |
| `Spawn`, `SpawnFails` | the dispatch in `retrain_trigger.py` |
| `Finish`, `Lapse`, `Abort`, `Restart` | the job, the end of a lock's time, the end of a request or instance |

A call that Modal killed at its limit answers `pending` for ever: its error is a `TimeoutError`, which
the poll takes for "not yet". See Findings.

The read and the delete of a release are one step, and the registry and the log are
examined together. `Lapse`, the end of a lock's time, does not come while its training runs: a Modal job ends
after five hours, the lock after twelve. A training of prebuilt inputs completes only by polling.

### `PrepBatch` and `InputStage`

`PrepBatch` is one feature batch: three objects (dispatch receipt, claim, result),
controllers that dispatch calls, and Modal calls. Modal starts a preempted call again under
its id, so `<<c, n>>` is the n-th start of call `c`, and a preempted container may linger. The
claim's attempt count and its generation move together and are one number. The actions
of a start follow `execute_event`: `Start`, `Reread`, `Owner`, `Take`, `Compute`, `Publish`; those of a dispatcher
`_launch_missing_prep`: `Look`, `Spawn`, `Save`. A call `Finished` when its last start is over.
Publication and callback are one step; an error of the preparation is a result. Claims
without an owner, of an older release, are not modelled.

`InputStage` is one stage of a run that stopped for its inputs: a snapshot (one result) or
a preparation (one per batch). `seal`, `receipt`, `locked`, `cont` and `consuming`, `consumed` are its
objects, replaced by compare-and-swap on their generation, where the code does so. A receipt is `stale`
once outputs were written that it does not fit. `closed` says that the run's date may no longer be
written, which `dispatch_ready` asks first and a job again before it works; the error is not a
`ValueError`, so nobody reports it. `kept` records that a release of the lock failed: `release` swallows
the error, and its answer is not read. The
ages that the code compares (300 s for a seal, 120 s for a dispatch) are bits that `Age` sets; `hasty`
records whether it did so under a handler that was still at work. `jobs` are the
executions in the order in which Cloud Run lists them.

| Actions | Code |
|---|---|
| `Called`, `Look`, `Stage`, `Observe` | the routes in `pipeline.py`, `reconcile_inputs` |
| `Ready`, `Seal`, `WriteReceipt`, `Release`, `Sealed` | `dispatch_ready` and `_complete_prep` |
| `Claim`, `Find`, `Take`, `Run`, `Save` | the rest of `dispatch_ready` |
| `Begin`, `Consume`, `Exit`, `Refuse`, `Crash` | the continuation job |
| `Arrive`, `Age`, `Close`, `Die` | results, time, the end of a request |

The launch of the snapshot job, the registration of stages by content and several stages in one reconciliation are not
modelled, nor are the dated exceptions in which a closed window opens once more. An unreachable Worker, which is asked
about the window, is one of the ends `Die` stands for. Results arrive by `Arrive` at any moment; `PrepBatch` is where
they come from.

### `GpuStage`

One formal GPU stage of one request. `claim` is the claim object with its generation and its
tokens; `result`, `executed` and `receipt` are per token the published result, the create-once
record of its execution, and the acknowledged dispatch. A container `<<t, n>>` is the n-th dispatch of
token `t`. Every caller works from a claim it has read (`dsaw`, `cgen`, `rsaw`) and replaces it by
compare-and-swap on the generation. Times are bits (`live`, `overdue`, `late`, `waited`) that
`Clock` changes; a lease outlives the hard timeout of its function, so it ends
once its holder is over.

| Actions | Code |
|---|---|
| `Begin`, `Read`, `NewToken`, `Progress`, `Abandon`, `Resend`, `Spawn`, `Deliver`, `Fail`, `Tell` (in `Drive`) | the driver `pipeline_prediction_bundle` and its `Journal` |
| `Arrive`, `Start`, `Execute`, `Renew`, `Predict`, `Resume` (in `Compute`) | `run_gpu_stage` and the Modal function around it |
| `Look`, `GiveUp`, `Record`, `Send` (in `Watch`) | `recover_request` |
| `Clock`, `DriverLapse`, `DriverDies`, `ContainerDies` | time and deaths |

Shadow stages, a release that changes in between, claims of the older schema, the
sealed CPU stages, the first grace period of the watchdog and the cancelling of queued calls are
not modelled. The watchdog's reads are one snapshot. Driver calls beyond `MaxPending` are dropped.

## The runs

| Run | Question | Answer |
|---|---|---|
| `lease` | Do the leases of `pipeline_execution`, `verify_v2` and `post_verify_chain`, with cursors, authority and the learning guard, keep their promises under every interleaving? | yes |
| `dispatch` | Can two triggers of a date start a run beside an unreported one or lose a hand-off? Is every started run closed, replaced or sealed? | no; yes, under the fairness below |
| `dispatch_expiry` | Does the end of its lease free the reservation of an ambiguous dispatch, as the trigger's answer says? | no: see Findings |
| `chain` | Whatever goes wrong once in an evening, is `verify_v2` closed only by the answer to its own dispatch, `post_verify_chain` given only to a verified run, a queued stage on its way to a worker, and a verified run followed up? Does the chain write its rows only as `PipelineStageLease` allows? | yes, but for the strandings listed below |
| `chain_ack` | Is a delivery that another's lease blocks never acknowledged? | no for `post_pipeline_chain`: see Findings |
| `checkpoint` | Can two claims be open, an effect be repeated, a live claim be closed by another, or the chain sleep for ever after a late settlement? | no |
| `broker` | Can a packet that is delivered again become two orders, an open order drop out of the count, a deal count twice, an ambiguity stay? | no, within the limits stated below |
| `full_fit` | Do lock, receipt and retries hold together, and does the fit settle, at the retry limit too? | yes, unless a poll throws over a running training |
| `full_fit_killed` | Is a training that Modal killed at its limit reported? | no: see Findings |
| `prep_batch` | Is a batch prepared by one call at a time, boundedly often, and settled? | yes |
| `input_stage` | Is a stage sealed before it is continued, continued and consumed once, and settled? | yes, unless its date closes first; continued once while only abandoned claims grow old |
| `gpu_stage` | Does the GPU run once at a time and never for an abandoned request, and does the run end? | yes |

### The properties

- `LeaseIsFenced` (refinement of `FencedLease`): at most one claim holds a stage, it
  is claimed only when nobody does, and a claim that lost it never holds it
  again, not even by a late heartbeat.
- `SuccessIsFinal`: no late error, failed send or stale worker undoes a success of
  the run that reached it; another run may supersede it, but not in
  `pipeline_execution`.
- `LiveRunIsNotReplaced`: a stage under a live lease keeps its run.
- `LearningKeepsItsRun`: while a run's learning lease is live, nobody takes the
  `post_verify_chain` row from it or creates that row for another run.
- `RunInProgressIsCanonical`: a run in progress that nobody reported failed owns the
  date's row, and the row is open.
- `CommitIsNotLost`: a trigger whose attempt was accepted never finds another
  run in its place, unless its own was reported failed.
- `StartedRunIsClosed` (liveness): a run that started is closed in the end,
  or replaced, or handed to the premarket by its seal.
- `VerifyClosedByItsDispatch`: the answer that closed `verify_v2` with success is that of the producer its
  row records, whatever earlier jobs, for this run or another, still answer.
- `PostVerifyFollowsVerify`: `post_verify_chain` passes to a run only while `verify_v2` is
  closed with success for that run, although the callback and the watchdog
  decided earlier and the repair may have taken `verify_v2` meanwhile.
- `VerifyAnswerIsKept`: the dispatcher's late "waiting" never covers an answer.
- `QueuedHasDriver`: a queued stage has a message that will drive it, unless its sender
  died between row and message or the message ran out of retries. The consumer of `post_pipeline_chain`
  asks the research gate and acknowledges without a claim when it is closed (`updateOrchestrator.ts:3884`): no queued
  row meets that, because every path that queues one has asked the gate before, and it does not close again.
- `TableSpec` (refinement of `PipelineStageLease`): every write is one of the table's
  statements with arguments the table allows, and every claim takes a fresh id.
- `VerifiedRunIsFollowedUp` (liveness): a verified run's `post_verify_chain` ends, or
  waits for strategy learning.
- `OneOpenClaim`: at most one claim of the date is unsettled.
- `UnsafeOncePerKey`: a producer that is not idempotent starts at most once under one key.
- `LiveClaimIsLeftAlone`: a claim under a live stage lease is closed by its producer only.
- `LateSettleResumes` (liveness): where nothing else goes wrong, a producer that settles
  after its delivery timed out gets the chain moving, unless an operator is needed.
- `OneOrderPerLeg`: a leg becomes at most one order at the broker.
- `OpenOrderIsCounted`: an intent with an order that fills or may fill is not called rejected.
- `DealsCountOnce`: until something was polled, a leg counts no more shares than the broker filled.
- `AmbiguityEnds` (liveness): a leg in an unknown state is resolved once the broker has its
  order and while the gateway runs, unless the outcome was recorded before the leg was marked.
- `TrainingKeepsItsLock`, `VerdictIsEarned`, `ReplacementIsDue`: the blob of a training that was admitted
  with it stays until the training ends or a poll of it throws; the receipt's verdict is that of its run; a
  training is replaced when it is over, or a poll of it threw, and within the attempts.
- `FullFitSettles` (liveness): the receipt is final, or at the retry limit, unless a training was killed or a
  caller waits for a run id beyond the bound.
- `KilledTrainingIsReported` (liveness, violated): a training that is over is reported or retried.
- `OneComputation`, `ComputationsAreBounded`, `ResultIsOwners`: one call at a time prepares a batch;
  there are at most `MaxAttempts` preparations; the published result is the claim's owner's, or that of
  a container that went on after its preemption.
- `BatchSettles` (liveness): the batch has a result or is given up.
- `OneConsumer`, `SealedBeforeDispatch`: one job works on a stage, and none is started before every input is
  there, sealed, and the training lock given back, or its release failed.
- `DispatchedOnce`, `WorkIsNotCalledOff`: while only abandoned claims have grown old, one job is
  started, and no error is reported over a job that waits or works, unless an input failed or is overdue.
- `StageSettles` (liveness): the stage is consumed or reported, or else the date closes for good before its
  continuation is recorded, which nobody reports.
- `OneGpuRun`, `AbandonedNeverRuns`: one container predicts at a time, and none for a request that was
  abandoned at its queue limit.
- `RunSettles` (liveness): the run is delivered, failed or given up.

`PipelineDispatch` also states `SuccessIsEarned` (the date succeeds only by a run that reported success) and
`SuccessStays`. They are proved, and no run repeats them. The same goes for `DispatchTypeOK` and the `TypeOK` of
`EveningChain`, `FullFit`, `PrepBatch`, `InputStage` and `GpuStage`.

`Stranded` names what `VerifiedRunIsFollowedUp` leaves out, found one after the other by
TLC and then confirmed in the code. A sender that died between row and message
leaves a queued row that nothing resumes. And once the post-verify worker has
moved the lifecycle past `verify_triggered`, the watchdog no longer looks at
`post_verify_chain`: then a worker that gives up on a failed heartbeat, a send that
throws, or a row that had gone to the repair's run is left to an operator. With two detours there is
one more: the dispatcher loses its lease before it records the lifecycle, and the callback's
handler dies. The liveness is therefore stated for one.

### Bounds, and why they are enough

- `lease`: two runs, because every statement compares the row's run with one run of the caller,
  so a third one looks like the second. Two owners: a stale one and its
  successor. One cursor besides NULL: the code only asks whether two cursors are equal.
  Three stages, because authority and learning relate rows; symmetry of runs and of owners,
  which are UUIDs.
- `dispatch`: two triggers. A third would meet a row in one of the states the second
  meets. No cursors: the execution name stored there is read by nobody.
- `chain`: two run ids, the chain's and the repair's, which are all that one date
  has; two messages of each consumer, two attempts (deployed: 8), so that a redelivery may fail in
  turn, one redispatch, one detour. `MaxDetours` counts what goes wrong, except that the death of a running
  repair, and a pause for the snapshot while a stale worker still goes on, are free: so the watchdog meets a
  waiting stage whose lifecycle a stale worker has moved on. A behaviour that used up all its
  messages is not judged (`BoundReached`).
- `checkpoint`: an idempotent task whose error stops the chain, then one that must not run twice: the two
  kinds that the receipts tell apart. One timeout and one retry, three claims, one write each, two roots, two
  revisions, two faults.
- `broker`: one intent with one leg of one deal, delivered twice, callbacks without the client tag (the
  harder case: an early deal cannot be matched), a queue of one, one fault.
- `full_fit`: a dispatching and a poll-only caller on two instances, three trainings, two attempts
  (the code's 3), one fault. There are more trainings than attempts, so that the retry limit is judged.
- `full_fit_killed`: one training, no fault.
- `prep_batch`: two dispatchers, three attempts as in the code, two starts of a call, six calls, one fault. With one
  fault two preparations is the most that happens, and no batch is given up: the bound of `ComputationsAreBounded` at
  its limit rests on the theorem, and with two faults (and two attempts, four calls) the same properties hold, in a run
  too long to keep.
- `input_stage`: one callback and one reconciliation, two batches, both kinds of stage, two faults, which are
  deaths, failed releases or outputs that change. Four jobs are more than are ever started with these.
- `gpu_stage`: one driver, one watchdog, two attempts and two dispatches of each (the code's 3), two
  containers at a time though the code deploys one, one recovery, one fault.

`SYMMETRY` is used in `lease` only, which checks no liveness. The theorems depend on none of
these bounds. Deadlock is checked in `lease`; the other systems may come to rest: a date whose triggers have all
returned, a stage that is consumed.

### Fairness

All conditions are weak: an action that stays enabled is taken.

- `PipelineDispatch`: the cloud ends every execution it
  started or the model service wakes it, a callback which was answered was
  delivered, and the cron calls the reconciler again and again, so that an
  error it reports gets through. Nothing is assumed of the trigger, which may die
  at any step; of a request, which may be lost; of a callback that was not
  answered; or of the premarket.
- `EveningChain`: one condition on all of `Progress`: as long as some
  delivery, worker, continuation, watchdog tick or expiry of a dead worker's lease is
  possible, one of them happens. That is less than fairness to each of them. The
  queue delivers until it is acknowledged, a worker that is not evicted goes on,
  the watchdog is a cron job, and a lease that nobody renews runs out. Nothing is
  assumed of the verify job, of backfills, of the repair or of strategy learning.
- `PostVerifyCheckpoint`: one condition on deliveries, producers and the end of a lease together.
- `BrokerExecution`: one condition on requests, event writer and reconciler together: as long as one of them
  can go on, one does. Nothing of the broker.
- `FullFit`: schedulers call again and again and a call that is not killed goes on; a job ends at its time limit;
  a lock's time runs out.
- `PrepBatch`, `InputStage`: containers, jobs and handlers that are not taken away go on, the Worker asks for a
  reconciliation again and again, results arrive or become overdue, abandoned claims age. A batch calls
  back when it ends, so that the callbacks come to an end. The window may stay open or close.
- `GpuStage`: one condition for time, one for all that Modal runs (drivers and containers together), and the
  watchdog's cron.

Deaths, lost messages and other faults are never forced.

## What is proved

Type correctness and safety are proved for all values of the constants, under the assumptions which the modules name:
SQL NULL is no id and no status; bounds are numbers (at least one attempt, dispatch, root
and revision, where the code has at least one); owners and cursors include those the callers make up; a chain has a
task and a stage waits for a batch; callbacks and reconciliations are different requests; the
gateway's two threads are not requests, and SQL NULL is not a row.

Type correctness is not enough for an induction, and neither are the properties. Each proof module starts with
the strengthening it needs, which TLC checked on the runs' instances before it was proved.

`PipelineRowProofs`, of the table: `TypeCorrect`, `SuccessStaysFinal`, `LiveRunStays`, `LearningKeepsRow`, and `Refinement`: the
table implements `FencedLease`. The invariant
adds that a row under a live lease has an owner, and that its owner is among the
ids issued for that stage, so that a fresh claim cannot be one that was spent. The argument classifies
steps instead of treating each statement against each property: every step is *ordinary*
(it keeps the holder of the row or ends its hold) or a *handover* (a row nobody
holds passes to a fresh id), plus what it may do to the run of the row.

`PipelineRowProofs`, of the dispatch: `DispatchTypeCorrect`, `RunInProgressHolds`, `CommitNotLost`, `SuccessEarned`, `SuccessStaysSo`. The
strengthening is `PendingIsCanonical`: a run that is reserved, asked for or started, and that nobody reported
failed, has the row, and the row is open. It needs that a request follows a reservation (`AskedInOrder`) and that
only a started run calls back (`CallsAreRuns`).

`EveningChainProofs`: `ChainImplementsTable`, that `Spec => TableSpec`, by which all that is proved of the table, the
fenced lease above all, holds of the chain; `PostVerifyIsAuthorized`, `AnswerIsNotCovered`, `ClosedByItsDispatch`,
`QueuedStageHasDriver`, `TypeCorrect`. A step implements the table only if the arguments it passes are among those the
table's `Next` allows, and these come from a message, from an answer or from the row itself. So the invariant `IInv`
says that a row that is there, or has a cursor, names a run, and that messages and answers under way are well formed.
For `verify_v2` it is strengthened by `WellClosed`: the cursor, closed or not, is of the run that the row belongs to;
`Answered` adds that a closed one is the producer whose answer closed it. Three writers uphold it: the fenced cursor
update, the queuing of another run, which clears the cursor, and the callback, which closes only under the cursor it
names. `QueuedHasDriver` needs the opposite direction too: a message not yet used drives nothing, so that the one
which is posted is the driver. And it needs that a queued `post_pipeline_chain` is of a run whose research gate was
open (`Gated`).

`PostVerifyCheckpointProofs`: `TypeCorrect`, `OneOpenClaimHolds`, `UnsafeOnce`, `LiveClaimStays`. The invariant ties three views of a
claim together: a delivery inside a task has one, a producer's key and result fit what it may still do,
and there is one receipt for each key. `StartIsRecorded` then says that whoever started under a key left a
receipt for it, and `UnsafeOncePerKey` follows because a receipt is replaced, never removed. Steps that write no
receipt are handled together.

`FullFitProofs`: `TypeCorrect`, `TrainingKeepsItsLockHolds`, `VerdictEarned`, `ReplacementDue`. Old copies of the receipt are
harmless because what they tell of their run stays true (`Truthful`): it was started, and once its payload is stored
it is over. The lock holds because a run id is used once (`RunsApart`), and from its acquire to its end a
training has the blob within its time (`Holds`).

`PrepBatchProofs`: `TypeCorrect`, `OneComputationHolds`, `ComputationsBounded`, `ResultIsOwnersHolds`. Each generation of the claim is one
computation; a start that has read the present generation has read the present claim (`ReadIsNoNewer`); and one that
may take over knows that the owner it read has ended (`TakerMayTake`). So a swap that
succeeds replaces an owner that is over.

`InputStageProofs`: `TypeCorrect`, `OneConsumerHolds`, `SealedBeforeDispatchHolds`, `DispatchedOnceHolds`,
`WorkIsNotCalledOffHolds`. The seal's invariant follows each handler through the sealing (`HandlerHasSealed`); for the
dispatch, as long as no claim has aged under a handler at work, the handler that starts a job is alone and there is
none yet (`Careful`); and a handler that seals is alone, before anybody dispatches (`CarefulSeal`), so that an error it
reports meets no job.

`GpuStageProofs`: `TypeCorrect`, `OneGpuRunHolds`, `AbandonedNeverRunsHolds`. What any actor has read of the claim is true of it
at that generation but for the passing of time (`Seen`); of one token one container gets past the
create-once record (`ExecutorsApart`); a container that predicts holds a lease of the present token, which nobody
abandons while it is live (`Holding`). A by-product: the last branch of `Renew`, for a claim lost between the
record of the execution and the renewal, is never taken by a container that is not stale.

`BrokerExecutionProofs`: `TypeCorrect`, `OneOrder`, `OpenOrderCounted`, `DealsCountedOnce`. A leg that was claimed is never
`RESERVED` again, and those that hold it hold it alone (`HoldersApart`), so one request at most ever tries it
(`OneOrderPerLeg`). A leg is called rejected only when it is `Dead`: its order failed, or it was claimed, has no order
and nobody tries it any more. What is dead stays dead; so a status written from legs that were read earlier, which is
`REJECTED` only if all of them were, is still true when it is written (`Recording`, `OpenOrderIsCounted`). The deals that were
recorded have ids of their own, and their versions, less one, are among 1 to the shares the broker filled; so there
are no more of them than that, and a leg's shares are within their number (`Within`, `DealsCountOnce`). The induction has one
lemma for all steps of a thread: those that move are well informed afterwards, and what the others know is not taken
back (`LegForward` and its like).

TLC alone checks liveness: `StartedRunIsClosed`, `VerifiedRunIsFollowedUp`, `LateSettleResumes`, `AmbiguityEnds`, `FullFitSettles`,
`BatchSettles`, `StageSettles`, `RunSettles`. Liveness under fairness, `ENABLED`, and induction over data are out of the
prover's reach.

## Findings

- `mlPipelineTrigger.ts:120` tells its caller that an ambiguous dispatch ends by
  "callback or lease expiry". A reservation whose request was lost gets no callback,
  and `reservePipelineExecutionDispatch` takes over only a row in status `error`,
  whatever its `lease_expires_at`. The run `dispatch_expiry` shows the
  refusal: the date stays reserved until the row is repaired by hand.
- `pipelineStageLease.ts:31` says of a delivery blocked by another owner's live lease:
  "retry it after the lease (never ack it away)". The `post_pipeline_chain` consumer
  acknowledges it (`updateOrchestrator.ts:3919`); only `post_verify_chain` retries (line
  4019). The run `chain_ack` shows a delivery evicted under its lease, whose redelivery is
  acknowledged: the stage stays running under a dead owner until the watchdog
  takes it up, which it does only while the lifecycle has not passed
  `verify_triggered`.
- `modal_client.py:1223` answers `pending` to every `TimeoutError` of Modal. The error of a call that was killed at its
  own limit is one, so a full fit that ran into its five hours is pending at every later poll, and
  `dispatch_oof_full_fit_training` neither reports nor retries it. A sibling probe in the same file has the missing branch, and
  says why (`modal_client.py:1002`): "`FunctionTimeoutError` subclasses modal `TimeoutError`, so without this branch it
  read as "running" forever." The run `full_fit_killed` shows it.

Met while modelling, and worth a look; the properties are stated so that they hold beside these:

- A producer whose claim was reclaimed may write once more, between its check and its write
  (`postVerifyTaskCheckpoint.ts:56`). A wake message is lost where another delivery put
  the stage in error first (`updateOrchestrator.ts:4019`).
- A filled leg may be overwritten by a later status (`broker_execution_repository.py:220`); a deal that was polled
  and then called back counts twice (`broker_execution_repository.py:208`), hence the exception for polled legs.
- Losing the race for an expired training lock is treated as a storage failure and admitted without the lock
  (`retrain_lock.py:234`), hence `unowned`.
- A batch may be computed once more after its result was published (`pipeline_input_prep.py:55`, `:64`).
- A dispatcher slower than 120 s is doubled, and the run may be reported failed while one of its jobs works
  (`pipeline_input_events.py:510`), hence `hasty`.
- At the attempt limit a driver fails without fencing the claim (`pipeline_prediction_stages.py:203`), and the watchdog
  gives a run up while a queued container may still start (`pipeline_prediction_recovery.py:159`).

## What is not modelled

- Numerics: features, models, screening, scoring. They have no protocol state.
- The frontend, tools, audits and one-off repair scripts.
- Callers' validation of requests and authentication, and the wording of messages.
- The parts which the plan names as left. The hazards of those parts that were met are in
  `PROJECT.json` with a note.
- In `PipelineDispatch`: the calendar (which day is a trading day), the content of
  checkpoints and seals, the `pipeline_execution` columns that only reports
  read, and manual repairs of the row.
