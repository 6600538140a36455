# TLA+ verification of the SMESH A2A gateway

The gateway accepts A2A requests, runs each as a task on a SMESH runtime and
keeps the tasks, either in memory or in a durable store: SQLite for one
process, PostgreSQL for several replicas. This directory models the parts of
it in which several actors race for one outcome, or in which an outcome must
survive crashes, checks the models with TLC, and proves the central properties
of five of them with TLAPS for every value of the constants.

Paths are relative to the repository; `executor.rs` means `src/executor.rs`.

## The system

A request is authenticated (`auth.rs`), passes a stateless guard and reaches
one of two handlers. Without a store, the SDK's handler calls the executor,
which runs the work and publishes its events. With a store, the durable handler
admits the message in one transaction of the durable authority and waits. The
outbox driver claims the message, the coordinator opens the receiver row, runs
the work on the runtime worker, seals the outcome in the receiver row, and the
driver delivers what is sealed to the task, the idempotency record and the
stream. Cancellation enters through the same handlers. The same transactions
charge quotas, freeze results that need ratification or evidence, attach
artifacts, and record callbacks and audit rows, which workers of their own
carry on.

What must be true of the whole: a message gets one answer, which is that of
the party that won it; nothing is published that was not recorded, judged and
approved first; accepted work is neither lost nor run to a second outcome;
neither a crash nor a lost lease nor a restart changes any of this; nothing
leaks; and every call and every message is answered in the end.

| part | source | modules |
|---|---|---|
| executor | `executor.rs` | `Executor` |
| task states | `task_state.rs` | `TaskState` |
| durable authority | `sqlite_store.rs`, `postgres_store.rs`, `durable_authority.rs` | `DurableAuthority`, `StartupValidation` |
| outbox driver, coordinator | `outbox_driver.rs`, `durable_dispatch.rs` | `DurableDriver`; what they promise: `DispatchContract` |
| durable handler | `durable_handler.rs` | `DurableHandler` |
| runtime worker and channel | `runtime_worker.rs`, `channel.rs` | `RuntimeWorker` |
| text workload | `text_concordance.rs` | `TextConcordance` |
| runtime trace | `runtime_trace.rs` | `RuntimeTrace` |
| push callbacks | `callback_worker.rs`, `callback_authority.rs`, both stores | `CallbackAuthority`, `CallbackWorker`, `CallbackReadiness`, `CallbackRetry` |
| quotas | `quota.rs`, both stores, `migrations/postgres` | `Quota` |
| artifacts | `artifact*.rs`, both stores | `Artifacts`, `ArtifactOperators`, `ArtifactPlans` |
| completion policy, evidence | `policy.rs`, `semantic_evidence.rs`, `semantic_issuer.rs`, both stores | `CompletionPolicy`, `SemanticEvidence` |
| ratification | `ratification.rs`, both stores | `Ratification`, `RatificationLedger` |
| opening and migration | `sqlite_store.rs`, `postgres_store.rs` | `StoreOpening` |
| task lists | `store.rs`, both stores | `TaskListing` |
| signing keys |  `auth.rs` | `BearerKeys` |
| audit and telemetry | `telemetry.rs`, both stores | `AuditProjection`, `OtlpExport` |

A module `MCx` instantiates the modules of a part for TLC with `MCx.cfg`.
Where a run covers parts that do not interact (for instance the callback rows
and the pool's readiness), a variable chosen once selects the part a behaviour
is about, so each part is explored on its own and the others stand still.

Everything is one action per transaction or per stretch of code between two
awaits. A wait that can time out may time out at any moment; a service that
can fail may fail at any call, within the bound a constant names. Payloads,
digests, encodings, wording and logs are left out unless a property is about
them.

## Modules

### Executor

One execution is one call of `execute()`. `terminal` is the compare-and-swap
cell of `ExecutionControl`, `outcome` the stored answer of the dispatcher to a
cancellation, `emission` the emission mutex, `signals` the cancellation token
and the `cancel_done` permit, `pc` the await points of the spawned task,
`traced` the outcome held by the runtime trace, and `sent`, `last`, `closed`
its event channel. A cancellation call has a program counter of its own
(`callPc`) and keeps the control it looked up in `target`, so that it can act
on an execution that has ended since. The dispatcher is left open: its stream
may yield any event, end, fail or stay silent, and a cancellation of it has any
outcome. A policy evaluation and an evidence check have any result.

The request handler in front (the vendored SDK) keeps one execution of a task
at a time, but it lets go of one that still runs when it cannot store or push
an event, when its stream is dropped, and when a cancellation has returned
(`Released`). A second execution of the task may then run beside the first.
Registrations are kept by task, and the one that ends first removes the
registration, whoever's it is; `EndsClean` says exactly this much. Room in the
event channel is always made: the handler takes every event or drops the
stream.

### Durable path

`DurableAuthority` has one operator per transaction. A dispatch is a pair
`<<task, turn>>`, where turn counts the messages of a task. `senderGen`,
`epoch` and `recvSender` stand for the fencing tokens, `senderLive` and
`recvLive` for the leases whose end has not come. The backends differ in the
claim (`SqliteClaim`, `PostgresReclaim`), in the fence of a reconciliation
(`ReconcileRefused`) and in restart recovery, which only SQLite performs. A
lease runs out in an action; the code compares leases with a clock it read
before the transaction, and `clock[r]` keeps what replica `r` read, so a
completion may use a clock that is out of date.

`DurableDriver` has one program counter per replica, because a driver handles
one dispatch at a time and awaits the coordinator. An error of any store call
ends the driver (`down`), as in the code; `Restart` is the restart of the
process. The `mode` of a deployment is that of the coordinator. A terminal
outcome of the `runtime` mode has no authority: it is left unresolved, the
driver stops and the dispatch is taken up again, unless a cancellation settles
it (`Authoritative`, `Settled`). `StartupValidation` is what the validators of
the next start demand of the rows. `DispatchContract` says what a client may rely on, without
leases, attempts or replicas: a message is accepted once, sealed once and
answered once, by the sealed outcome, by a cancellation, or by a failure of
work that was never accepted.

### Durable handler

`DurableHandler` has one record per call (send, send without waiting, stream,
subscription, cancellation) with the position it has read of the transcript;
the driver's side is an outline of `DurableDriver`. Streams of the REST
handler end without an error when the driver fails or the transcript is
interrupted (`emit_stream_errors` is off there), which the model keeps. A
message whose candidate awaits ratification is answered with a paused task; an
approval later replaces that answer and the frames of the message in one
transaction (`decide_ratification`), so a message can have two answers, the
second one final. `AnswersFaithful` says that every caller and every stream got
one or the other, and no stream some of each. The message that an amendment
adds is left to `Ratification`.

### Runtime worker

A job is one `Execute` or `ExecuteDurable` command and the task it becomes; its
key is the task ID or the correlation. `commands` and `control` are the two
channels, `active` and `cancelling` the worker's tables, `reaper` the spawned
`reap_canceled_task` (or `stop_tracked_task`) of a job. One turn of the
worker's loop, the sweep of finished tasks included, is one action. `ahead` is
a history variable: the jobs a cancellation call was made after. The processor
is left open. A command sent on a reserved slot after the worker has gone is
never received and keeps its permit (`lost`), as in tokio's channel.

### Push callbacks

`CallbackAuthority` has the rows: SQLite runs each operation in one immediate
transaction; PostgreSQL runs READ COMMITTED, so an operation whose later
statements depend on earlier ones is one action per statement, and the locks
it keeps are variables. `CallbackWorker` adds the workers and the endpoint.
`CallbackReadiness` models the pool at the level of the single loads, stores
and updates of the four atomics of `PushReadiness`. `CallbackRetry` is the
schedule in saturating arithmetic of `Width` bits, checked against a
definition by exact powers; that comparison needs `max_attempts <= Width`,
which the code's 32 of 64 satisfies.

### Quotas, artifacts

`Quota` has policies, buckets, reservations, allocations and leases of one
tenant; a transaction of a tenant locks its counter row first, so it is one
action. `Artifacts` has the rows, the stage and object files, the readers and
the workers that promote, collect and sweep; a file operation is a step of its
own between two transactions. The claim of the collector evaluates its
candidates in one step and locks them in another, as its statement does under
READ COMMITTED. `ArtifactOperators` adds key rotation and backup,
`ArtifactPlans` restore and the migration of inline bodies.

### Judging a result

`CompletionPolicy` has the functions of `policy.rs` over a growing snapshot of
evidence, and `TextConcordance` the one-pass scan against a definition by
positions. `SemanticEvidence` has a candidate from the freeze to the seal with
coordinators that lose their lease between store calls; evidence that conflicts
with what is recorded is one of its steps (`ConflictingEvidence`). `Ratification` has
packets, the reviews and decisions of ratifiers through the HTTP middleware,
the owner's continuation and cancellation, dead letters and restart on both
stores. `RatificationLedger` is the stand-alone file, with callers that name
any revision. `RuntimeTrace` has the bounded window of events, the shares of workloads and the tables that tie a
signal to its task; the time of an event is its sequence number.

### Around the tasks

`StoreOpening` abstracts a store to what opening looks at (version, tenant,
rows, keys, one possible flaw) and follows two processes through the migration
chain, the key installation and the validators. `TaskListing` has the three
stores' frozen pages. `BearerKeys` has the cache of the provider's keys with
its refresh lock, revisions and the reservation for unknown keys.
`AuditProjection` has the audit outbox with its projectors and retention,
`OtlpExport` one signal of the exporter: emitters, queue, worker, circuit and
shutdown.

## Runs

| run | checks | shows |
|---|---|---|
| `executor` | `WinnerDecides`, `TracedBeforePublished`, `EndsClean`, `SettledOnce`, `CallsEnd` | one execution raced by two cancellations, its deadline and its consumer, and a task run twice, one execution after or beside the other, while a call holds the control of the first |
| `durable` | `IntentDecides`, `OneSettler`, `RecordsReopen`, `ImplementsContract`, `EveryMessageAnswered` | SQLite with one process, PostgreSQL with two replicas, with crashes, refusals and lost leases: the contract is kept, the store opens again, every message is answered but those a runtime without authority leaves unresolved |
| `durable_reopen` | `CancellationsReopen` | **violation**, see Findings |
| `runtime` | `WorkAccounted`, `AckAfterStop`, `WorkEnds` | permits are conserved, executions of a key never overlap, an acknowledged cancellation means stopped, a shutdown ends |
| `callback` | `ScheduleWithinPolicy`, `CallbacksFenced`, `CallbacksEnd`, `PoolFaithful` | deliveries on both backends with deletion, policy upgrade, crashes and failing endpoints; the pool's readiness and shutdown; retry schedules at their limits |
| `quota` | `GrantsWithinLimit`, `WorkSettled` | limits hold for what is live through a policy upgrade, every reservation is settled exactly once |
| `artifacts` | `ServableHasBlob`, `StageRecoverable`, `SealedReadable`, `PlansKeepContent` | what a row promises is on disk, readers in time keep their file, sealed backups stay readable, operator commands lose nothing |
| `ratification` | `ReviewThenDecision`, `PublishedOnlyApproved`, `AmendDispatchesOnce`, `ActsOnSeenView` | two ratifiers with stale views and repeated commands against the owner, dead letters and a restart |
| `evidence` | `EvidenceDecides`, `ConcordanceExact`, `CandidateSettles`, `TraceKept` | policy over evidence in every order, the text workload, candidates under passing leases, the bounded trace |
| `handler` | `AnswersFaithful`, `CallsReturn` | streams and subscriptions lose and repeat nothing, callers are told the same outcome up to an approval, every call returns |
| `gateway` | `ServedStoreSound`, `ListsServed`, `AcceptedIsCurrent`, `UnknownRefreshBounded` | two processes open every kind of store a release left behind; two readers page through changing lists; two requests meet rotating keys |
| `observability` | `ProjectionSound`, `ExportAccounted`, `TelemetrySettles` | projectors that lose leases and stop, an exporter with a full queue, a failing collector and a shutdown |

### Bounds

* `executor`: two events let one progress event be sent and one be refused by
  the budget; two calls let one lose against the other, a third would repeat
  the loser; two permits let two executions of one task overlap. In the scope
  with two executions workers send no events, the trace does not fail and only
  the first stream is dropped.
* `durable`: `MaxTurns = 2` is the least with a continuation after a pause,
  `MaxAttempts = 2` the least with a retry that is not the final attempt. The
  deployments bound the faults (stops, refusals, lost answers, leases that run
  out under an owner, outcomes without authority) to one or two; the expiry of
  a lease nobody owns is free.
* `runtime`: two dispatches of one correlation are the least that can overlap
  or be refused as duplicates; a queue of two is full with a command and a
  reservation. The second scope leaves out some freedom of the second
  dispatch (`MCRuntimeWorker` says which) because the first already has it.
* `callback`: one configuration with everything that can happen to it, two
  with their limits, two replicas with one; two attempts, two revisions; words
  of eight bits with policies at and beyond saturation; two pool members and
  three troubles, so that one fails while the other becomes ready.
* `quota`: nine intents in five mixes that share a counter, two windows, two
  revisions, so that an upgrade, an override and an expiry fall between any two
  steps of a reservation.
* `artifacts`: two publications of one content are the least with
  deduplication; nine mixes pair the request groups that touch the same rows.
  Promoters outlive their lease in the mixes with crashes only.
  Three ticks are the least in which a lease, a retention and a horizon end
  one after the other.
* `ratification`: two ratifiers, two keys each, two generations: the least
  with a command against a superseded packet and one sent twice. Three
  dispatches leave room for one too many after an amendment. With crashes one
  ratifier acts, on up to three generations. The stand-alone ledger has room for
  five packets and receipts, and commands name revision 0, 1 or 2.
* `evidence`: five records of eleven in any order; texts of six bytes with
  limits of two; two leases; a window of three events, shares of two.
* `handler`: two calls over two messages; any two kinds of calls meet, and a
  decision may fall anywhere between their steps.
* `gateway`: two processes, two crashes, two tenants, two keys; two requests
  with one rotation and two seconds; snapshots that live one tick with room
  for one.
* `observability`: two events or one event and one stop with two projectors,
  two events and one stop with the one of SQLite; three series for two slots,
  sent one by one; logs in batches of two, a queue of two, three offers.

Symmetry sets are permutations of processes, replicas, readers, requests,
artifacts or ratifiers, in runs without liveness. Deadlock is checked where
everything ends in a final step (`executor`, `runtime`, `callback`); elsewhere
the system may be idle when all its work is done or a bound is used up.

### Fairness

Weak fairness only, of steps that the code's scheduling takes by itself:

* `Executor`: spawned tasks and cancellation calls. Three waits have no
  timeout: those for the emission lock and for `cancel_done`, which are what
  `CallsEnd` is about, and the one for room in the event channel
  (`executor.rs:379`, `936`), which the SDK's handler ends by taking the event
  or dropping the stream.
* `DurableDriver`: the driver loop and the expiry of leases nobody renews; and
  that a failed driver is restarted, which `docs/OBSERVABILITY_RUNBOOK.md`
  (item 5) asks of the operator.
* `RuntimeWorker`: the worker's loop, reapers, ingress, the destruction of an
  aborted task and the grace of a durable execution, all timers or ready
  tasks. Processors and shutdown are never assumed to act.
* `MCCallback`: a running worker goes on and is restarted with its process,
  the endpoint answers or the client's timeout does, statements end, leases
  and delays pass. Nothing is assumed of the pool's claim: the store may never
  answer.
* `DurableHandler`: turns of a call, and the driver, which may fail instead.
* `MCObservability`: projectors go on and are started again, leases and pauses
  end, old decisions are removed, the exporter's thread runs.

Clients, faults, cancellations and signals are never assumed to happen.

## Findings

`durable_reopen`: with SQLite, a second cancellation that finds the receiver
lease expired cancels the task on the spot and leaves the intent recorded by
the first one as `requested` beside a `superseded` outbox row
(`sqlite_store.rs:3081`). `validate_cancellation_records` refuses such an
intent, so a process that stops now cannot open its database again.

Other places where the code does something else than a document says, met while
the models were written. The models follow the code, and the properties above
hold with it:

* `executor.rs:391`: a cancellation that wins before the first event, or just
  before a progress event, ends the execution without a terminal event
  (`docs/ARCHITECTURE.md:204`).
* `postgres_store.rs:13664`: a completion with a clock read before its lease
  ran out is sealed after a cancellation answered the message (ADR-0003:288);
  the answer stays `Canceled`, because the delivery is refused.
* `durable_dispatch.rs:1290`, `outbox_driver.rs:810`: a cancellation signalled
  between receiver and runtime admission ends the driver, and nobody settles
  it before a restart (ADR-0003:293).
* `sqlite_store.rs:5289`: `dead_letter_task` never closes ratification packets
  (`HUMAN_RATIFICATION_RUNBOOK.md:488`). `postgres_store.rs:14421`: a
  continuation or cancellation without an open packet fails on the anchor seal
  (`README.md:14`). A command whose packet was superseded is answered 503
  instead of 412.
* `artifact.rs:1477`, `postgres_store.rs:1121`: promotion is not repeatable
  after a crash between the unlink and the acknowledgement. The next promoter
  finds no stage file, the upload fails and the object stays staged for good,
  with its content in the object file ("Crash after SQL leaves a recoverable
  upload intent. Promotion and acknowledgements are idempotent.",
  `ARTIFACT_RUNBOOK.md:28`). `StageRecoverable` says when this can happen and
  that no content is lost by it.
* `migrations/postgres/0005`, lines 207 to 222: the collector's claim looks at
  references, holds and leases before it locks an object and not again, so a
  read lease or a hold granted in between does not keep the file
  (`ARTIFACT_RUNBOOK.md` says that a live lease makes a generation ineligible).
  `ServableHasBlob` excepts exactly these (`raced`). `postgres_store.rs:973`: a
  registration attaches a reference whatever the object's state
  (`ARTIFACT_RUNBOOK.md:44`).
* `sqlite_store.rs:11066` (`issue17-push-evidence.md:269`),
  `postgres_store.rs:5790` (`PUSH_NOTIFICATIONS_RUNBOOK.md:89`) and
  `sqlite_store.rs:11298` (`PUSH_NOTIFICATIONS_RUNBOOK.md:43`): a deleted or
  upgraded callback configuration can leave deliveries that are neither sent
  nor dead.
* `postgres_store.rs:14112`: the snapshot of a subscription and its transcript
  are read by two statements (comment at `sqlite_store.rs:3290`).
* `quota.rs:687`, `README.md:277`: a reservation is released at an input
  request by a trigger, and a replay is charged.
* `ratification.rs:1604`: the stand-alone ledger lets another account decide
  when it uses the idempotency key of the last decision and names revision 2,
  because replays are looked up per account; a second decision by someone who
  did not review is then appended (comment at `ratification.rs:1573`).
  `ReviewThenDecision` says what remains: the review comes first, the first
  decision is its reviewer's, and no account uses a key twice. A third receipt
  on a generation that was superseded makes the file fail its own validation.
* `sqlite_store.rs:4531`, `postgres_store.rs:12934`: an approval replaces the
  answer and the frames of a message that was answered before
  (`tests/human_ratification.rs:5682` asserts both). A caller that was told
  of the paused task and one that asks after the approval are told different
  things.
* `outbox_driver.rs:549`, `sqlite_store.rs:4110`: the driver writes a progress
  frame for every streamed message, and the transcript of a message that awaits
  ratification has none, so the commit refuses the diverging prefix and the
  driver stops (`commit_delivery_for_ratification`). Only a caller of the store
  that wrote no progress frame, as in the tests, gets a packet for a streamed
  message.
* `telemetry.rs:3317`: a failed export is counted once, however many records it
  carried, and a worker that leaves past the deadline of shutdown loses the
  record it took last uncounted (`telemetry.rs:3343`).
* The window of the output budget of `sendStream` that a policy upgrade copies
  keeps what was reserved in it: the later refund goes to the older policy, as
  the code counts row by row for `taskCreate` and `taskContinue` only
  (`CountedByRow`). `ExecutionAccounted` bounds the excess by what was reserved.
* `runtime_trace.rs`: a registration that comes after the terminal event keeps
  a correlation slot (ADR-0002:33).

## Proofs

Proved by TLAPS for every value of the constants that satisfies the named
assumptions of the modules.

| module | theorem | states |
|---|---|---|
| `ExecutorProofs` | `Invariance`, `TypeCorrect`, `CancelCorrect` | the inductive invariant `IInv`, `TypeOK`, at most one accepted cancellation |
| | `WinnerCorrect`, `TraceCorrect`, `CleanEnd` | `WinnerDecides`, `TracedBeforePublished`, `EndsClean` |
| | `SettledCorrect` | the action property `SettledOnce` |
| `DurableDriverProofs` | `PathInvariance` | the inductive invariant `PathInv` of the durable path |
| | `IntentCorrect`, `SettlerCorrect` | `IntentDecides`, `OneSettler` |
| | `TransitionsCorrect` | every step moves every task along the matrix of `task_state.rs` |
| `DurableProofs` | `DurableInvariance` | `PathInv` with what is special about SQLite |
| | `Implementation` | the refinement `ImplementsContract` |
| `RuntimeWorkerProofs` | `WorkInvariance`, `TypeCorrect` | the inductive invariant `WorkInv`, and `TypeOK` with the capacities of both channels |
| | `WorkCorrect`, `AckCorrect` | `WorkAccounted`, the action property `AckAfterStop` |
| `CallbackReadinessProofs` | `PoolInvariance`, `PoolCorrect` | the inductive invariant of the pool, and `PoolFaithful` |
| `BearerKeysProofs` | `BearerInvariance` | the inductive invariant of the key cache |
| | `AcceptedCorrect`, `RefreshCorrect` | `AcceptedIsCurrent`, `UnknownRefreshBounded` |

`ExecutorStepProofs` and `DurableLedgerProofs` hold the lemmas the theorems of
their parts rest on.

### Executor

Assumption (`ExecutorAssumption`): the constants have their types, executions
are finitely many, there is at least one permit, and a call is not named like
the two other holders of the emission lock.

None of the properties is inductive: they speak of the event that was sent, and
the step that sends it relies on what earlier steps did. `Phase` says for each
await point who can have won, whether the outcome is traced, and which verdict
is about to be published. `ControlInv` links the signals and the stored outcome
to the winner. `CallInv` links a call to the control it found: it holds that
control's emission lock while it claims, and the outcome is pending until it
has heard from the dispatcher. `StopInv` says that an execution that is left
has a worker that ended or was asked to. One lemma per conjunct goes through
the actions one by one; `LeaksStep` needs the cardinality of the set of permit
holders, and `HoldingStep` says how each action changes that set. A
registration is shown to be that of a running execution, and a running
execution to be the registered one unless another of its task ran beside it.

### Durable path

Assumptions (`AuthorityAssumption`, `DriverAssumption`): positive numbers of
turns and attempts, deployments of the right form, at least one replica, a name
for "no dispatch" that is none. SQLite has one driver, which is how the code
opens it.

The refinement says that an answer never changes, is the sealed outcome where
there is one, and that no accepted message is given up. Each depends on rows
written by different transactions, so the invariant ties them together:

* `LedgerInv`: a message is owed an answer (its outbox row is pending or
  leased) exactly while its idempotency record is in progress, and then it is
  the last message of an active task;
* `ReceiverInv`: receiver row, result and intent agree;
* `DriverInv`: what a replica holds at each await point, in particular that
  what it is about to publish is what is sealed;
* `EpochInv`: no two replicas hold the same receiver epoch, which is why the
  fence of a completion admits one of them;
* `LoneInv` (SQLite): at most one exhausted, unreceived dispatch is leased.
  `recover_orphaned_tasks` answers all of these in one transaction, while the
  contract answers one message a step; that there is one follows from the claim
  query, which takes no fresh row while an expired exhausted one exists, and
  from the driver, which gives up a live lease only knowingly.

There are some forty actions, but a step has one of ten effects on the rows
(`Effect`). `Effects` reduces every action to them once; `LedgerStep`,
`ReceiverStep`, `TransitionStep` and `ContractStep` then argue by effect, and
only `DriversStep` and `LoneStep` look at the actions again, through
`DriverMoves` and `StoreCalm`.

### Runtime worker

Assumption (`WorkerAssumption`): executions are finitely many, every execution
and cancellation has a key, both capacities are positive.

`AckAfterStop` fails if a second execution of the key could have started while
the first is being reaped, so `TrackInv` says where an execution that runs is
to be found: in the worker's table under its key, in the hands of the only
reaper of its key, which bars the key, or, after the worker was aborted, among
the tasks to be destroyed. `QueueInv` says that an execution that waits is in
the channel once, before every cancellation that was sent after it; this is
what keeps a cancellation from overtaking. `CallInv` ties a reaper to a call
that was sent for its key. Permits and slots are counted by cardinality: a step
moves one execution into or out of the set of holders (`HoldersMove`), or drops
all that wait at once.

### Callback pool, key cache

`PoolInv` says for each worker what the flags and counters already show of it;
it is needed because a worker publishes readiness in several atomic steps,
between which another one may fail. `BearerInv` bounds the age of the cached
snapshot, of what a waiting request has seen and of what a running fetch will
bring, all relative to the provider's history; the request's clock is sampled
before it waits for the refresh lock, so the interval between refreshes holds
between samples.

### Only model-checked

* Liveness (`CallsEnd`, `EveryMessageAnswered`, `WorkEnds`, `CallbacksEnd`,
  `CallsReturn`, `TelemetrySettles`): out of the prover's reach.
* `RecordsReopen`, `ListsServed`, `ConcordanceExact`, `ScheduleWithinPolicy`,
  `TraceKept`, `EvidenceDecides`: facts about sequences built step by step,
  folds or powers, which need induction over data.
* The remaining properties (callback rows, quotas, artifacts,
  ratification, candidates, handler, opening, telemetry) have no proof yet.

## Not modelled

* Cryptography, digests, signatures, parsing and authorization columns: the
  models keep the decision they lead to where a property depends on it. The
  bridge from tokens to principals is left out.
* SQLite transactions are atomic throughout, PostgreSQL transactions where
  they lock first what they read; where they do not, they are split
  (`CallbackAuthority`, `TaskListing`, `AuditProjection`, `StoreOpening`,
  the collector's claim in `Artifacts`). The validation of the ratification
  ledger at `postgres_store.rs:4152` reads its tables one after the other
  without a lock; the model reads them at once.
* `StoreOpening` leaves out the SQL of the single revisions and the catalog
  seals of revisions 2 to 7. A keyless replica that already serves is not
  stopped when another one installs a key, as in the code.
* `StoreOpening` has no flaw for the validators of foreign keys and of
  ratification (`sqlite_store.rs:5634`, `5642` to `5646`), and its migration 12
  never fails on the re-check of the retained usage (lines 152 to 174).
* `TextConcordance` leaves out the two byte limits, which refuse an input or
  an artifact as a whole (`text_concordance.rs:256`, `321`). The byte limit of
  `RuntimeTrace` does not bind in its instance, and `IntermediatesFirst` is
  about the events of one workload.
* `CallbackReadiness` makes the loads of a failed wait in one step
  (`callback_worker.rs:334` to `346`), and `BearerKeys` clears the reservation
  for unknown keys and stores the fetched key set in one step, between which
  the code awaits a lock (`auth.rs:597`, `599`).
* `OtlpExport` has one limit of series for the limit of an instrument and the
  one of all instruments.
* A message's answer is final in `DurableDriver` once it is delivered: the
  approval that replaces the one of a ratified message is in `DurableHandler`
  and `Ratification`.
* `TaskListing` does not refuse a token issued after the reader's clock
  (`sqlite_store.rs:9596`, `postgres_store.rs:11003`), and has one tenant;
  filters and the encoding of tokens are left out. `Quota` has one tenant, whose account is charged like it.
* `RuntimeTrace` leaves out a capacity of zero and the overflow of sequence
  numbers; `OtlpExport` a disconnected queue and a drop without shutdown.
* `SemanticEvidence` samples one time per authorization, as the code does;
  `ArtifactPlans` starts from an accepted plan document.
* Reading a task, listing configurations, the operational report, capture and
  replay of traces, the lifeline demonstration, the command line and files and
  sockets: no shared state of their own, or offline.
