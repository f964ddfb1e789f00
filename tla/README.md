# Palm engine: TLA+ development

A TLA+ development of the concurrent core of Palm: the part of the code where
several threads, a persistent store and late results meet. Paths below are
relative to `src/src/palm/` unless they start with `src/`.

Everything runs with TLC and TLAPS from this directory:

    tlc -workers 2 -config OrchestrationQueued.cfg MCOrchestration.tla
    tlapm OrchestrationProofs.tla

`PROJECT.json` lists the runs, the source lines behind every definition, the
hazards and the theorems.

## 1. Inventory

| Part | State it keeps | Operations | Talks to | What is hard | What makes it correct |
|---|---|---|---|---|---|
| Orchestration engine (`core/orchestration/engine.py`, `job.py`, `drive.py`) | `_jobs`, `_driving`, each job's status, `job.state` | submit, provide_input / deliver_input, resume_job, cancel_job, begin_drive, apply_result, end_drive | scheduler (mode), runner, event engine, hooks | status read and published outside the lock, cancel against a late result, duplicate work items, a driver that raises | one driver per job; a terminal status is final; every end is published; no claim leaks; inputs are read |
| Schedulers (`system/runtime/schedulers`) | the work queue, worker threads | submit_job, resume_job, worker loop, start, stop | engine via `drive_job` | an error ends a worker; sentinels of an earlier stop | every accepted job is driven |
| Runner (`backends/behavior_tree/runner.py`) | none | run one slice | the executable and `job.state` | budget, exceptions, input that arrives during a slice | the slice's result agrees with what it consumed |
| Work plane (`system/subsystems/planes/work`) | entries, pending index, coalesce map in the store; batches in threads | enqueue, claim_due, reclaim_expired, ack, fail, tick, background loops | triggers, schedules, inbound sources enqueue; the drain submits flows | leases that lapse under a worker, late settlement, several writes per operation, crashes | a running lease has one holder; nothing accepted is lost; settled work is not handed out again; one intent per key |
| Work schedules (`work/schedule.py`) | `next_fire_at` per schedule | tick, load | work plane | read, enqueue, advance without a lock | one intent per due time |
| Inbound (`work/inbound.py`) | debounce windows, bindings | receive, flush | work plane | trailing windows against a drain | the last signal of a burst is kept |
| Wait plane (`core/wait`, `planes/wait`) | open interests in the owner's `job.state`, target -> owners index, acted keys | open on park, match an event, deliver, resume or fail the owner, close | event engine, orchestration, resource steps | the child ends before the interest is open, or before its owner has parked; one end is announced several times; failing an owner publishes in turn | an interest closes only with its target; results are of successful children; the index is complete; a parked owner whose child ended goes on |
| Resource step (`src/src/plugins/patterns/wizard/flow/phases/resource.py`, `src/src/plugins/providers/palm/bindings/orchestration`) | the park of the step, the result under its output key | submit the child, poll it, park, hold, finish | orchestration, wait plane | polls the child outside any lock | parks on a child only while it can still be woken |
| Outbox (`common/events/outbox.py`, `reliable.py`, `supervisor/outbox_loop.py`) | entries and pending index in the store | enqueue, process_batch, mark_published, mark_failed, recover | the status hook of jobs, the poll loop, subscribers | index read, changed and written without a lock; crash between writes; two drains of one entry | the index lists what is pending; settled for cause; every listed entry is settled |
| Event engine (`core/event`) | subscriptions | publish, subscribe | everyone, synchronously in the publisher's thread | handlers that call back | handlers see events in publication order |
| Instance persistence (`system/runtime/job_hooks`, `common/persistence`) | instance records, history | record after a status change | engine hooks, storage | writes of two status changes out of order | the stored record does not go back from a terminal status |
| Session plane (`planes/session`) | session records, session index, reverse index from instances to sessions | open, bind, metadata, attach, detach, focus, close | surfaces, the ownership hook of jobs | no lock: whole records are written back; a put is several storage keys | an instance belongs to the one session that lists it; a closed session stays closed |
| Workload engine (`core/workload`) | rows with status, runtime, leak mark | start, adopt, exec, status refresh, stop, stop_owned | runtimes, places, event handlers | runtimes raise or return any status; handlers re-enter under the lock | one announcement per end; what is stopped is given back or a recorded leak |
| Supervisor (`system/subsystems/supervisor`) | service states | register, start, stop, restart | planes | stop while starting; failing start | reverse stop order, nothing left running |
| Structure and boot (`core/structure`, `system/structure`, `system/boot`) | definition, phase, block reasons, truth home, pending places | assemble, receive, observe, tick, ensure a place | workload engine, business planes (admission) | facts arrive during an assembly; places end while a tick looks | refusals and the truth home block; an open admission stands on live places |
| Behaviour tree core (`core/behavior_tree`) | node statuses | tick, reset, halt | patterns | memory of composites across slices | a composite's status follows its children's |
| Compensation (`common/compensation`) | completed steps | record, compensate | patterns | a compensation fails in turn | reverse order, each once |
| CQRS, services, bundles, plugins, definitions, transforms, vitality, log | registries and views | dispatch, format, report | call the parts above | none of their own | delegated |

How they meet. A flow is submitted through the executor to the engine, which
registers the job and hands it to the scheduler. A worker takes the item, claims
the job, runs one slice and applies the result; the engine publishes what
happened on the event bus. Parked jobs come back through `deliver_input` (a
person) or the wait plane (an event). Events also start new work: a trigger puts
a WorkIntent in the work plane, whose drain threads submit flows to the same
engine.

## 2. Modules

| Module | Models | Status |
|---|---|---|
| `Orchestration` | engine, drive, schedulers, one slice of a runner | written, checked, proved |
| `JobLifecycle` | abstract: what the engine promises of each job | written; `Orchestration` implements it |
| `MCOrchestration` | symmetry sets | written |
| `OrchestrationProofs` | type correctness, the inductive invariant, refinement | written, proved |
| `WorkPlane` | the store of work intents and its drain threads | written, checked, proved |
| `MCWorkPlane` | coalesce keys and claimer ids of the instances | written |
| `WorkQueue` | abstract: what the store of intents promises its producers and its drain threads | written; `WorkPlane` implements it |
| `WorkPlaneProofs` | types, the index, the coalesce map, leases | written, proved |
| `WorkQueueProofs` | what is handed out is open, nothing runs twice, refinement of `WorkQueue` | written, proved |
| `WaitPlane` | the continue plane: resource step, interests, owner index, matcher | written, checked, proved |
| `MCWaitPlane` | nesting of the flows, who is answered | written |
| `WaitRegistry` | abstract: what the wait plane promises the owners of interests | written; `WaitPlane` implements it |
| `WaitPlaneProofs` | types, interests, results, the owner index, refinement of `WaitRegistry` | written, proved |
| `Outbox` | the transactional outbox, its drains and the end of the process | written, checked, proved |
| `EventDelivery` | abstract: what the outbox promises the publisher of an event | written; `Outbox` implements it |
| `OutboxProofs` | types, causes of settlement, the index, refinement of `EventDelivery` | written, proved |
| `SessionPlane` | sessions, attached instances, the unlocked store | written, checked, proved |
| `MCSessionPlane` | symmetry sets | written |
| `SessionPlaneProofs` | types, the two indexes, closed sessions | written, proved |
| `Workload` | the workload engine's book | written; checked and proved as part of `Structure` and by itself |
| `Structure` | the seat and the structure engine, composed with `Workload` (EXTENDS) | written, checked, proved |
| `MCStructure` | a definition that requires all places, symmetry | written |
| `StructureProofs` | the book; that `Structure` takes only steps of the book; admission | written, proved |
| `IndexLemmas` | what remove, append, head and slice leave of a list of ids | proved; used by three proof modules |

### Orchestration

A process is a worker thread or a thread that calls the engine. Its program
counter `pc` stands at a point where another thread may run: in front of a
section under `OrchestrationEngine._lock`, a queue operation, a read of
`job.status` made without the lock, or a tick of the executable. One action is
the code from there to the next such point. `cur` is the job in the process's
locals, `res` the `RunResult` it is about to apply.

| Variable | Code |
|---|---|
| `jobs`, `driving` | `OrchestrationEngine._jobs`, `_driving` |
| `status` | `job.status` |
| `unread` | `job.state` holds input that the executable has not read |
| `queue` | `QueuedScheduler._queue` |
| `completed` | history: publications of JOB_COMPLETED, counted up to two |
| `sent` | bound on the inputs delivered to a job |

The path of a call: `Register` (submit under the lock), `Submit` (the mode puts
the job on the queue, or drives it in place); `Deliver`, `CheckWaiting`,
`Resume` (three looks at the same status); `Cancel`, `CancelMode`, then the same
`ApplyResult`, `PublishStatus`, `PublishCompleted` that a driver goes through.
The path of a slice: `Get`, `Claim`, `BeforeDrive`, `EnterRunner`, any number of
`ConsumeInput`, `EndRun`, `ApplyResult`, `PublishStatus`, `PublishCompleted`,
`EndDrive`.

Abstractions. The executable is any pattern that consumes the input it finds,
parks or exhausts its budget only when it has nothing to read, and may end or,
if in `Raising`, raise at any tick. Hooks before a slice allow or deny it; those
after it do not touch modelled state. STATUS_CHANGED and the other notifications
are not recorded, only the end of a job is, because waiters and triggers depend
on it. Submitting an id that is already registered changes nothing and is a
stutter.

### WorkPlane

`WorkIntentStore` takes its lock for every operation, so an operation is a step;
but it writes the storage several times, so each operation is written as its
first `n` writes (`EnqueueWrites`, `AckWrites`, `FailWrites`). A normal step
performs all of them; `EnqueueCut` and `SettleCut` perform some and restart the
process. `Crash` restarts it between operations. A restart forgets batches and
program counters and keeps the storage.

A drain thread goes through `Reclaim`, `Claim`, and for each intent of its batch
`Submit` and then `Ack` or `Fail`. `Gate` is `is_able`, read once per tick. Time
is two events: `FallDue` (`not_before` passes) and `Lapse` (`lease_until`
passes). `fate`, `holds` and `ran` are history variables for the properties.

`WorkQueue` is the same without index, entries, attempts and claimer ids: what became
of each intent (`fate`), what each thread was handed (`work`, its batch) and on which
of that its lease runs (`lease`, the history variable `holds`). An intent is handed
out only while it is open and nobody's lease on it runs; only a thread it was handed
to settles it, never under another's running lease; an acknowledgement is final; an
enqueue replaces an open intent of the same key, and one only.

Left out of the module: what produces intents (an `Enqueue` may happen at any
time), the depth limit in front of `enqueue` (a dropped intent changes nothing),
entries that are missing or unreadable, starting and stopping of the threads.

### WaitPlane

A wizard's resource step submits a child flow and waits until it ends or asks for
input. If it asks, the step opens a wait interest on the child and parks; when
the child's end is published `WaitMatcher` finds the owners of interests on it
and resumes or fails each.

| Variable | Code |
|---|---|
| `jobs`, `status` | `OrchestrationEngine._jobs`, `job.status` |
| `items` | work items of the job on the scheduler's queue |
| `slice`, `outcome` | where the slice that drives the job is, the status it is about to apply |
| `child` | the child of the resource step the job is at (under the step's output key) |
| `waits`, `output` | open interests, and delivered results, in `job.state` |
| `index` | `WaitOwnerIndex._owners` |
| `signals` | events of the job's end not published yet |
| `frame` | `handle_signal` for one target: phase, owners still to match, owner in hand |
| `acted` | `WaitMatcher._acted_keys` |
| `able` | `WaitPlaneService.is_able()` |

A slice: `Take` or `DriveChild` (the waiting parent drives a child that is still
pending), then at the step `HoldPark`, `FinishStep`, `Invoke` or `OtherStep`;
after `Invoke`, `ReadChild` or `CallEnds`; to park, `OpenInterest` (the write to
`job.state`), `RegisterOwner` (the write to the index), `Apply`, `EndDrive`. A
signal: `Signal`, and per owner `Match`, then `Deliver`, `Drop`, `Wake` or
`FailOwner`, `Unnest`, then `Close`. The matcher's lock is held from `Signal` to
the last `Close`; slices do not take it. An owner that is failed publishes its
own end in the same thread, so its frame is entered while the frame that failed
it stands at `nested`.

Abstractions. The claim of a slice and the steps of `apply_result` are those of
`Orchestration` and taken as one step here; a terminal status is kept and its end
published once (the second publication a lost cancel adds is left out). The
recovery modes of a failed resource step are part of `CallEnds`: whichever is
configured, the step ends without a park. Interests have the default failure
policy, the one every caller in `src/src` uses. The read-modify-write of the list
of interests of one job is a step. Owners of one signal are matched in any order.
The memories of seen events and acted keys never evict. The scheduler is the
queued one; there is no restart.

`WaitRegistry` is the same without matcher, signals, slices and index: how each job
ended (`verdict`), its open interests (`open`, from `waits`) and the results it was
given (`got`, from `output`). A result is delivered once, into an open interest, of a
target that succeeded; an interest closes when its target has ended and its owner has
the result or is over itself.

### Outbox

`OutboxStore` has no lock, and its callers are the threads that publish critical
events, the hook that drains after every job status change in whatever thread
makes it, and the poll loop. Every read and every write of a storage key is a step;
`pc` names the storage operation that comes next.

| Variable | Code |
|---|---|
| `entry` | `palm:outbox:entry:<id>`: status and attempts |
| `index` | `palm:outbox:pending_index` |
| `ev`, `seen`, `copy` | the event in hand, the index and the entry a thread has read |
| `todo`, `batch` | what `list_pending` has still to look at; what it found |
| `handed`, `failures` | history: hand-overs that returned, and that raised |
| `overtaken`, `cut` | history: a key was written over a value its writer had not read; events the process ended in the middle of |

`Publish`, `EnqueueLoad`, `EnqueueSave` is `enqueue`; `List`, `Look`, `Hand` is
`process_batch`; then `PublishRead` .. `PublishSave` or `FailRead` .. `FailWrite`.
`Crash` ends the process; the next one drains the same storage. `overtaken` is what
the properties about the index are relative to: it becomes true exactly when one of
the unlocked read-modify-writes loses another's write.

`EventDelivery` keeps the outcome on record of each event, the hand-overs, and whether
writers raced. An outcome has its cause, only stored events are handed over, and a
settled event turns pending again only over a race and after a hand-over of it raised.
That a published event may later be on record as failed, or the other way round, is
left possible: two drains of one entry do that without losing a write.

### SessionPlane

An operation of the plane reads a record, decides, and `put` writes the whole record,
the index of sessions and one reverse-index key per instance. No lock covers any of
it. A step is one such access.

| Variable | Code |
|---|---|
| `entry`, `listed`, `owner` | `palm:session:entry:<id>`, `:index`, `:by_instance:<id>` |
| `rec`, `inst`, `seen` | the record, the instance and the index a thread has in its locals |
| `gone`, `held` | reverse-index keys its put has still to clear, and to set |
| `stale` | history: threads that have read a record, or count on an owner, that another wrote since |
| `overtaken`, `cut` | history: a stale thread has written; keys the process ended in front of |

`Begin`, `Touch`, `Close`, `Detach`, `Focus`, `Unfocus` are the operations up to their
`put` (the metadata they change is abstracted, the write-back of the record is not);
`Attach` and `CheckOwner` are `attach_instance`, which looks at the reverse index
before it writes; `PutEntry` .. `Return` is `SessionStore.put`.

### Workload and Structure

`Workload` is the book of the workload engine. Its one reentrant lock covers an
operation with the runtime call in it, so an operation is a step; `StopOwned` picks
rows and `Sweep` stops one at a time, because handlers of the events in between run
under the same lock. Runtimes may come back with any status in `Outcomes` or raise,
and keep an allocation (`body`) or not.

`Structure` extends it with the seat: `Assemble`, `Receive`, `Refuse`, then ticks
(`Tick`, `Look` place by place, `Decide`) and effects (`Ensure`, `Miss`, `Launch`), until
steady (`Again`) or out of ticks. Facts from other threads (`HomeDown`, `HomeUp`,
`Failed`, `Repaired`, `Gone`, `Invalidate`) come between any two of these steps but
those of a tick, which has the engine's lock; `UseWorkloads` is any step of the
workload engine by anyone. Readiness of a place is asked of the book. Places of other
kinds, whose readiness is an answer of the host, are left out.

## 3. Runs

| Run | Question | Result |
|---|---|---|
| `orch_queued` | two jobs, a queue, two workers, duplicate items: one driver per job, legal transitions, one publication of an outcome, the inductive invariant, implementation of `JobLifecycle` (terminal wins, completion is of terminal jobs) | holds |
| `orch_inline` | two callers drive in their own threads: every claim is released and every end published, also when executables raise | holds |
| `orch_single_worker` | one worker, nothing raises: no job stays PENDING, an input delivered to a waiting job is read | holds |
| `orch_lost_input` | an input delivered to a waiting job is read, with two workers | **violated** |
| `orch_dead_worker` | no job stays PENDING when executables may raise | **violated** |
| `work_lease` | leases, coalescing and the index while leases lapse; before a lapse a flow is submitted successfully once | holds |
| `work_recovery` | crashes between and inside operations, and a lapse: nothing closed is handed out again, each indexed intent is settled, the invariant of the proofs, implementation of `WorkQueue` | holds |
| `wait_park` | a flow and its nested flow, each answered once, cancelled at any time, admission opening and closing: the inductive invariant, the index, implementation of `WaitRegistry` (interests and results); an owner at rest in a park when its child ends goes on; each signal is handled to its end | holds |
| `wait_lost_wakeup` | every owner parked on a child that ended goes on | **violated** |
| `outbox_drain` | a worker that publishes and drains from its hook, a poll loop, an event that may fail, an end of the process at any storage access: the index lists what is pending, entries are settled for cause, listed entries are settled, implementation of `EventDelivery` | holds |
| `session_owners` | two callers, two sessions that want one instance, an end of the process: the record and both indexes agree, closed sessions stay closed | holds |
| `structure_assembly` | assembly and reassembly of two places, facts from outside, other users of the workloads: refusals and the truth home block, admission stands on live places, ends are announced once and stops accounted for | holds |

Bounds and why they are enough.
- Two workers and a caller that cancels show every race on one job (the proofs
  cover any number). Two jobs show a worker moving between jobs, queue order and,
  with `MaxJobs = 1`, the membership limit.
- `MaxInputs` (0 to 3) is the number of deliveries to a job; two put a second
  item on the queue while the first is being driven.
- `completed` saturates at two because the properties only ask whether there was
  more than one.
- Three intents, two of them with one key, show replacement of a claimed intent,
  a batch with a second element and an intent that is not yet due.
  `MaxAttempts = 2` shows both branches of `fail`; the code uses 5.
- `MaxLapses` bounds leases that lapse *while their holder is working*: without
  a bound two threads can take the lease from each other for ever (see section
  5). Leases of dead holders lapse without a bound.
- A parent and a child show every race between a slice and the matcher, and one
  failure published under the lock; the proofs cover any depth of nesting and any
  number of owners. `MaxAnswers` is one input to each flow: to the child, so that
  it can go on after parking, and to the parent, so that a slice of a parked owner
  meets the delivery.
- `Limit = 2` and two events in the outbox: a full batch, and one event behind another
  that fails. `MaxAttempts = 2` shows a failure that is retried and the last one.
- One instance is enough for two sessions to want it; `session_owners` takes two of
  the rest, and the proofs cover any number.
- Two places show one that starts and one that fails in one tick. `MaxTicks = 2` shows
  a tick after effects and an assembly out of ticks; the code's default is 32 and the
  proofs cover any. `Outcomes` has a status of each kind a row distinguishes: alive,
  ended, not reachable, raised.
- `MaxCrashes = 1`: a crash at any point of any operation; the program keeps
  nothing that tells a second crash from the first.

Deadlock. The orchestration runs say `CHECK_DEADLOCK FALSE`: when the bounded
inputs are used up and callers stop calling, idle workers wait on an empty queue,
as they do in the program. So do the outbox, session and structure runs: events
and sessions are used up, and callers that stop calling leave everything at rest. The wait plane's admission can always change, so
deadlock there would not show; that no signal stays in the lock is
`SignalIsHandled`. The work plane never stops, its poll loops go on.

Fairness. `Orchestration!FairSpec` asks weak fairness of each thread's own steps:
a thread in the middle of a call or slice goes on and an idle worker takes an
item. New calls are never forced. `WorkPlane!FairSpec` asks it of each poll
loop, of `FallDue` and of the lapse of a lease nobody holds any more, which only
need time to pass. `WaitPlane!FairSpec` asks it of workers taking items, of each
slice and of the handling of each job's signals; a call that waits for its child
ends by its timeout. `Outbox!FairSpec` asks it of each thread in the middle of an
operation and of the poll loop's next batch; nobody has to publish. People and
admission are free. The gate is free; `EveryIntentSettles` assumes that it stays
open in the end. Nothing is assumed of lapses under a working holder or of
crashes. `SessionPlane` and `Structure` state no liveness property: nothing in
them waits for anything but its caller.

## 4. What is proved

`OrchestrationProofs`, for any sets of jobs, workers and callers and either
scheduler, from the three assumptions `Orchestration` states on its constants:

- `TypeCorrect`, `DriveInvariant`, `DriveIsExclusive`, `OutcomePublishedOnce`,
  `CompletedIsTerminal`, `TransitionsValid`, `TerminalFinal`;
- `EngineImplementsLifecycle`: every behaviour of the engine is one of
  `JobLifecycle`.

Exclusive drive alone is not inductive: that two threads are not both inside a
job follows from `_driving`, so the invariant has to say that the claim and the
program counters agree in both directions (`OwnerIsDriving`, `DriverIsOwner`).
That an outcome is published once needs to know who can be carrying it:
`ResultInFlight` says that only a job's owner carries an outcome other than
CANCELLED, and that what is being published is already the status;
`OutcomeInFlight` says that once an outcome is the status, its owner is either
on its way to the only publication or has made it. `DriveInv` is the conjunction,
and is checked by TLC in `orch_queued` too. The proof goes action by action
(`DriveDrive`, `DriveCaller`, `DriveNewCall`, `DriveGet`).

`WorkPlaneProofs`, for any intents, keys and threads:

- `WorkTypeCorrect`. A batch is the due part of the index in its order; `InIndexOrder`
  describes it by an injection that keeps the order, about which no induction over
  the index is needed.
- `LeaseIsExclusive`, with crashes and lapses, if every thread has a claimer id
  of its own. From `LeaseInv`: the entry of an intent held under a running lease
  is `claimed` and names its holder, so nobody else may settle it.
- `OnePerKey` and `NoneForgotten`, while nothing crashes (`MaxCrashes = 0`). They
  rest on `ListInv`, which holds through crashes too: the index repeats nothing
  and lists stored intents only. `RemoveFromDistinct` says what `list.remove`
  leaves of such an index.

`WorkQueueProofs`, for the same constants:

- `OpenClaims`: nothing acknowledged, failed for good or replaced is handed out,
  through crashes and lapses. After a crash the index may list what is settled; after a
  lapse a batch may hold what another thread has settled, and a late `fail` writes
  `pending` over it. `OpenInv` says that these never meet in one intent: what is listed
  and settled has an entry that says so, and is in no batch. `BatchInv` gives that a
  batch repeats nothing, so an intent that is settled has left it.
- `EachRunsOnce`: before any lapse or crash a flow that was submitted is not submitted
  again. From `RunInv`: batches are what their threads hold, share nothing, and an
  intent that ran is done or about to be acknowledged.
- `QueueInvHolds` states the conjunction, which TLC checks in `work_recovery`.
- `PlaneImplementsQueue`: every behaviour of `WorkPlane` is one of `WorkQueue`, if every
  thread has a claimer id of its own. `LatestInv` is for this one: the coalesce map
  names intents of its keys, so what an enqueue replaces has the key. The assumption is
  needed: two threads with one id settle under each other's lease (section 5).

`WaitPlaneProofs`, for any jobs and nesting and any inputs:

- `TypeCorrect`, `ParkIsKept`, `DeliveredOnSuccess`, `ActedInterestCloses`,
  `IndexIsComplete`, `OnlyTargetUnparks`;
- `PlaneImplementsRegistry`: every behaviour of `WaitPlane` is one of `WaitRegistry`.

They rest on `ParkInv`, which `ParkIsKept` states. `MatchInv` is the part about
signals and keys. That a frame with an owner belongs to a target that ended,
and one that resumes to a target that succeeded, is `SignalsOfEnded`. That an
acted key never meets an open interest needs two facts: the key is taken while the
frame is turned to the owner (`ActedInFrame`), and a step opens an interest only
on the child it has just submitted, of which no key can exist (`ChildOfStep`).
The refinement needs more: that a frame delivers what it has not delivered, and
closes nothing that is not answered (`FrameAnswers`), and that a result in an owner's
state came under a key taken for it (`OutputIsActed`), so no later child meets it.
`ParkInv` is checked by TLC in `wait_park`. `StepSignals`, `StepOutput`, `StepChild`,
`StepActed`, `StepIndex` and `StepAnswers` prove its conjuncts, action by action;
`RegistryStep` maps each action to one of the registry, or to none.

`OutboxProofs`, for any events, any finite set of threads, any limit, number of
attempts and of ends of the process:

- `OutboxTypeCorrect`;
- `OutboxSettledForCause`: a published entry was handed over, a failed one used up
  its attempts. The attempts on record may be fewer than those made (two drains
  count on the copies they read), never more. `CauseInv` says so with the threads
  still on their way to count theirs (`Failers`), a set that must be finite for its
  cardinality to move by one; this is why `Threads` is assumed finite.
- `OutboxIndexAgrees`: as long as no write has gone over a value its writer had not
  read, the index lists the pending entries, but for events that a thread is in the
  middle of or that an end of the process has cut. `IndexKnown` is what each id goes
  through: nobody knows it before its enqueue (`Fresh`), then one thread is putting
  it on the index (`Entering`), later threads may be taking it off (`Leaving`), and
  in between the two keys agree (`Listed`).
- `OutboxDelivers`: every behaviour of `Outbox` is one of `EventDelivery`, overtaken
  writes included. `KnownInv` says what holds through any race: every id in the index,
  in a copy of it, in a batch or in hand is of an event that was stored, and who notes
  a failure does so after a hand-over that raised.

`SessionPlaneProofs`, for any sessions, instances, callers and ends of the process:

- `SessionTypeCorrect`, `SessionClosedIsFinal`;
- `SessionIndexesAgree`. The three keys agree only when nobody is in the middle of a
  put, so the invariant has to say what a thread is about to repair: what a record
  lists is owned by it, or on the list of some thread that will set it
  (`ListedIsOwned`); what is owned is listed, or on a list to be cleared
  (`OwnedIsListed`); a stored session is on the index of sessions or its writer has
  still to add it (`AllListed`). Each holds only while a thread that is not stale
  knows what it needs (`Fit`). Most steps change one key of one thread:
  `CalmStep` and `FitStays` say once what such a step leaves alone. `Doomed` are
  instances of which a stale thread is about to write the owner.

`StructureProofs`, for any rows, definitions, places, outcomes and ticks:

- `WorkloadBook`, `WorkloadEndAnnouncedOnce`: the book by itself. `StopIsAccounted`
  and `EndAnnouncedOnce` are inductive with `StoppedHasEnded` (a row that was stopped
  has ended, so no later outcome of its runtime can change it) and `BodyIsBound`.
- `StructureUsesWorkloads`: `Spec => WorkloadSpec`. The seat changes the book only
  by steps of the book; so `StructureEndAnnouncedOnce` and `StructureStopIsAccounted`
  follow from the first two with no more work.
- `StructureTypeCorrect`, `StructureRefusalHolds`, `StructureTruthHomeBlocks`,
  `StructureReadyIsGrounded`. Each has its own strengthening: a refusal is on record
  from the moment it is observed (`RefusalNoted`); the engine believes the home up
  only if it is, or if a definition was received while it was not (`HomeKnown`); of
  the places a tick has already asked about, those that did not end since are alive
  (`GroundKnown`). They use that a place is not named like a block reason
  (`ReasonAssumption`), which the prefix `place_failed:` gives in the code.

`IndexLemmas` holds what the three stores that keep a list of ids under one storage
key have in common: what `list.remove`, an append, a head and a slice leave of a
list without repetitions.

Every invariant and action property that a run checks is proved, and so is each of the
four refinements. Only model-checked: the liveness properties (`ClaimIsReleased`,
`CompletionIsPublished`, `SubmittedIsDriven`, `InputIsRead`, `EveryIntentSettles`,
`RestingOwnerContinues`, `SignalIsHandled`, `EveryEntrySettles`). Liveness under
fairness, and ENABLED with it, is beyond the prover. The refinements are of the safety
part of the abstract specifications, which state no fairness.

## 5. Findings

1. *A resume can be lost* (`orch_lost_input`). With two workers the item of a
   resume is taken while the slice that parked the job has published
   WAITING_FOR_INPUT but not run `end_drive`. `drive_job` finds the job claimed,
   returns False and the item is gone; the input stays unread until another call
   resumes the job. The comment in `drive.py` calls the dropped item a duplicate.
2. *A propagated error ends a worker* (`orch_dead_worker`). With the default of
   one worker, nothing is driven afterwards although `is_running` holds.
3. *A park can miss the end of its child* (`wait_lost_wakeup`). The step polls the
   child, finds it waiting and then opens the interest; a child that is cancelled
   or completed in between has published its end, and nothing looks again. The
   same happens when the events come after the interest is open but before the
   owner's own status is WAITING_FOR_INPUT: the matcher closes the interest, does
   not resume (`plane.py:140`), and the owner parks afterwards. Owners that are at
   rest in their park do go on (`RestingOwnerContinues`).

Met on the way, without a run of its own:

- The limit on concurrent jobs compares the number of jobs ever registered
  (`core/orchestration/engine.py:158`), so ended jobs count.
- `cancel_job` reports success and publishes JOB_CANCELLED also when the job ended
  otherwise after the look at its status (`engine.py:193`).
- `WaitMatcher` says it closes an interest before side effects; it does so after
  them, which the acted keys make harmless (`ActedIsClosed`).
- An explicit tick of the work plane and its first background thread have one claimer
  id, "default", so the lease does not tell them apart: a late `fail` of one releases
  the running lease of the other. `ExclusiveLease` is stated for threads with an id of
  their own.
- Between a reclaim and the next claim an entry has no owner, and `ack` and `fail` then
  accept anyone, so a former holder still settles it; a late `fail` also turns a `done`
  entry back into `pending`, outside the index, where nothing runs it (`ClaimsAreOpen`
  checks that).
- Enqueue with a coalesce key first takes the older intent off the index and then
  stores the new one: a process that ends in between has accepted neither
  (`NothingForgotten` is proved without crashes).
- Without the bound on lapses under a working holder `EveryIntentSettles` does not
  hold, by design: two threads whose flows take longer than the lease can take an
  intent from each other and have each acknowledgement refused.
- The pending index of the outbox is read, changed and written back without a lock, so
  one of two publishers can lose the other's id. A lost id is not drained again. `IndexAgrees` and
  `EveryEntrySettles` are stated for what no such write has gone over.
- `OutboxLoopService.stop` waits two seconds for its thread and forgets it; a start
  that follows clears the same event, and both threads go on polling
  (`supervisor/outbox_loop.py:67`). The model has any number of poll loops.
- `bind` says it never silently reopens a closed session (`planes/session/plane.py:168`).
  A touch that has read the record before a close writes it back open; `ClosedIsFinal`
  is stated for writers that are not stale.
- `receive_definition` sets the truth home up whatever was observed before
  (`core/structure/engine.py:84`): until the fact is reported again, a definition
  received while the home is down can be ready. `TruthHomeBlocks` leaves out exactly
  that case (`forgotten`).
- A row that ends because an exec or a status refresh failed keeps the allocation its runtime may still
  hold, with no leak on record, and a later stop finds it terminal and returns;
  `docs/adr/024-workload-engine.md` says leaks are recorded. `StopIsAccounted` is
  about rows that were stopped.
- Ensuring a place whose row is STOPPED reports `workload_stopped_ok`
  (`system/structure/workload_place.py:96`), but readiness is asked of live rows, so an
  assembly that requires it ticks until it is out of ticks.

## 6. What could come next

Written: the parts of this code in which several threads meet one piece of state, or
the process may end between two writes. In the order of what they would add:

1. Start and stop of the worker pool (sentinels left in the queue) and the shutdown of
   the engine, in front of `Orchestration`.
2. Schedules and inbound debounce windows in front of `WorkPlane`, whose `Enqueue` may
   now happen at any time. The schedules' tick is a read, an enqueue and an
   advance without a lock, so two ticks fire one due time twice; the code nowhere
   promises otherwise.
3. Instance records: the hook that writes them after a status change may write two of
   them in either order.
4. The resume path of `Orchestration` composed with the matcher of `WaitPlane`. They
   describe a slice at two levels of detail; `WaitPlane` takes a claim and
   `apply_result` as one step.
5. An abstract specification of the session plane: one owner per instance, whatever
   order the keys of a record are written in. The other planes have theirs
   (`JobLifecycle`, `WorkQueue`, `WaitRegistry`, `EventDelivery`), and `Workload` is the
   one `Structure` implements.

## 7. Not modelled, and why

Within the modelled parts: start and shutdown of the engine, of the pool of
`QueuedScheduler` and of the background threads; triggers and the depth limit in
front of the work plane; workload interests, the leave policy, custom deliverers and
rehydration in the wait plane; `delete` and `clear` of the session store, which
nothing but tests calls; idempotency keys, runtime registration and shutdown of the
workload engine; places whose readiness is an answer of the host; the boot phases
and the seed, which one thread goes through once.

Whole parts: CQRS buses, services, bundles, provider plugins and hosts call the
modelled parts and keep no state of their own between calls. They are most of the
lines of the repository. The supervisor starts and stops its services one after the
other in the host's thread. Compensation and the composites of behaviour trees are
sequential, within the slice whose result `Orchestration` leaves open. Transforms,
definitions and states are sequential data handling. Storage drivers are taken as
maps with atomic single writes. Vitality and logs read the rest. Each is a row of
`components` in `PROJECT.json`.
