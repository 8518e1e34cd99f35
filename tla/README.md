# Models, checks and proofs for agentq

agentq is an in-process job queue with idempotency keys (`queue.rs`, `worker.rs`,
`state.rs`, `handle.rs`, `job.rs`) and, on top of it, durable workflows: ordered
steps with retries, waits for input, cancellation, leases and recovery after a
crash (`engine.rs`, `recovery.rs`, `workflow.rs`, `event.rs`) kept in a SQLite
store (`store.rs`, `store/sqlite.rs`). This directory holds TLA+ models of both
halves, the configurations that TLC checks, and proofs that TLAPS checks. Every
definition that models code is mapped to its lines in `PROJECT.json`, under
`map`. Paths such as `state.rs:52` are relative to the crate's `src/`.

## 1. The system

| Component | State it keeps | Operations | Model |
|---|---|---|---|
| Queue: keys and claims (`queue.rs`, `state.rs`) | state map, waiter map | `push`, `ClaimGuard::drop` | `Queue` |
| Lanes, workers, jobs (`worker.rs`, `state.rs`) | a bounded channel, a semaphore, a worker task per lane; a task and a `JobGuard` per job | receive, acquire, spawn, run, record, notify, release | `Queue` |
| Handles (`handle.rs`) | a oneshot channel | `poll` | `Queue` (`slot`) |
| Workflow engine (`engine.rs`) | `in_flight`, `terminal_write`, the queue | `register_workflow`, `run`, `cancel`, `resume`, `drive_from`, `run_step` | `WorkflowEngine` |
| Recovery (`recovery.rs`, `engine.rs`) | none | `recover`, `readmit_after_worker_recovery` | `WorkflowEngine` |
| Renewal and timeout (`engine.rs`) | a task and a deadline per awaited attempt | tick, time out | `WorkflowEngine`; in time: `LeaseClock` |
| Durable store (`store/sqlite.rs`) | tables `events` and `steps` | `append_event`, `claim_step`, `renew_lease`, `expired_leases` | `StepStore`; expiry: `LeaseClock` |
| Reading the log (`engine.rs`) | none | folds over events | `StepStore` |
| Event codec, markers in error texts (`store/sqlite.rs`, `worker.rs`, `engine.rs`) | none | encode, decode, escape, `strip_prefix` | `EventCodec` |
| Opening, migration, times of events (`store/sqlite.rs`) | the schema and the rows of `events` | `new`, `append_event`, `load_events_with_timestamps` | `EventTable` |
| Backoff (`engine.rs`) | none | `backoff_duration` | `RetryDelay` |
| Wording of errors, public re-exports | none | `Display`, `From` | not modelled |

How they interact. Callers share the state map and the waiter map, each under a
mutex of its own; `push` holds both while it decides, `JobGuard::drop` takes them
one after the other. A job travels through a lane's channel to the worker, which
takes a permit and spawns a task; the task's guard writes the outcome to the
state map and then sends it to the waiters. The engine pushes the body of a step
under the key `workflow:step:attempt`, waits for the handle, and turns the
outcome into events. Two kinds of lock protect the durable half: the
connection's mutex makes a store operation atomic, and `terminal_write` (one per
engine, in memory) makes "look for a terminal event, then append one" atomic
among the calls of that engine. Engines in different processes share only the
store and its leases.

What is hard to test, and is what the properties are for: callers that race for
a key; the gap between the two halves of `JobGuard::drop`; a push dropped while
its lane is full; panics; a runtime that goes away at any point; calls of the
engine that interleave at every store operation and await; a lease that expires
under an engine that goes on working; a future of the engine that is
dropped at an await; a crash between any two events; a recover that acts on an old
snapshot; two processes that migrate the same file; a text that looks like an escape
or a marker. `PROJECT.json` lists each at its line (`hazards`).

### What makes each component correct

* Keys: one job on its way per key, none after a success, a key in flight always
  has something that will settle it, and nobody registered is forgotten.
* Lanes: no more bodies at a time than permits; a hanging body or a full lane holds
  up nobody who shares neither lane nor key with it.
* Engine: steps start in order, attempts stay within the policy, a recorded
  completion means all steps completed, one end per workflow, every call returns.
* Store: the row of a step agrees with its events; a step being worked on shows a
  lease, so that a crash leaves something to find; a lease keeps others out or is
  found, at every moment; what is loaded is what was appended.
* Functions: decoding undoes encoding, markers survive their way through text, the
  backoff is capped.

## 2. The modules

```
   Queue ──implements──> IdempotentKeys            EventCodec  (text of events, markers)
     ^                                                 ^
     │ what the engine's queue is taken to be      EventTable  (the file, its rows)
     │                                             StoreFunctions  (codec and backoff as a machine)
   WorkflowEngine ──EXTENDS──> StepStore <──implements── LeaseClock  (leases in time)
     └──implements──> DurableWorkflow              RetryDelay  (backoff)
```

**`Queue`**: one action per section of code between two points at which another
thread can get in. An element of `Pushes` is one call of `push` and, when it
claims its key, the job it sends. `PushCached`, `PushJoin` and `PushClaim` are the
arms of the `match` in `push`, each under both locks; `Enqueue` and
`EnqueueFails` are the two results of `sender.send(job).await`, and `Cancel` is the
future dropped at that await. `Receive`, `Spawn`, `Start` are the worker loop and
the beginning of the task. `Finish` (and `AbortBody`) followed by `Notify` are the
two halves of `JobGuard::drop`. `DropQueue`, `WorkerExits`, `Shutdown`,
`DropWorker`, `DropTask` and `FreeMaps` are the end of the queue and of the tokio
runtime; what tokio does is modelled from how the code uses it. `Parent[p]` makes
`p` a push from inside a body, `Hanging` are bodies that never return (they wait
for ever without blocking a runtime thread).

**`IdempotentKeys`**: the abstract specification. A key is free, busy with one
owner, done with one winner for good, or stranded when the runtime took its job;
an answer Ok is the winner's. `Queue!Abstract` is the refinement mapping.

**`StepStore`**: the log and the rows of one workflow. `AppendEvent` appends an event
and applies `apply_event_projection` to the row in the same step, because the
code does so in one transaction. Time is one bit per lease, `fresh`.

**`LeaseClock`**: one row with the times that `StepStore` leaves out. An expiry is
kept as seconds and nanoseconds; `Unexpired` is the comparison of `claim_step_tx`,
on whole times, `Expired` the one in the query of `expired_leases`, on the parts.
`Renew` is a tick of the renewal, `NextTick` tokio's rule for ticks that were
missed, and `Pass` lets the engine come to a tick at most `Slack` late. `Ends` is any
event that ends the attempt, also the `StepCompleted` of a push answered from the cache;
`Look` and `Readmit` are a recover, which may run on an engine that is at work on the step. `Store` maps
the row to `StepStore`'s, `fresh` meaning that the expiry lies ahead.

**`WorkflowEngine`** extends `StepStore` with the calls. Each call has a point (`pc`)
named for what it does next, and a step of the model goes from one store operation,
lock, lookup in `in_flight` or await to the next. `run`, `resume` and `recover`
share the points of `run_step`; `driving` tells whether a finished step continues
in `drive_from` or goes through the second lookup that `resume` and readmission
make. `Step(c)` collects what a call does by itself; `Renew`, `TimeOut`,
`LeaseExpires`, `Crash`, `Restart`, `StoreFails` and `Abandon` come from outside.
`Refuse` is the error for bodies that do not match the steps. `Awaits(c, w, k)` says who
learns the end of a job: a call that holds its handle and has heard nothing yet.
`Abandon` drops the future of a call at one of its three awaits: the push that waits
for room (its claim is given up, whoever joined it hears `JobLost`, and `run_step`
treats that as a queue that is gone), the handle, the backoff. The engine's queue is
used as `IdempotentKeys` promises it: a job per key, claimed, pending, running or
settled, and everyone who waits is told.

**`DurableWorkflow`**: the abstract specification of a workflow, with no calls,
leases, queues or rows: the executions (a step, an attempt) on record as started,
completed, failed, waiting, resumed and scheduled, and the ends. An execution starts
when all steps before it are done and, unless it is the first attempt, its retry was
scheduled; only what started has an outcome; a retry follows the failure before it;
a workflow completes when every step has. `WorkflowEngine!Durable` is the mapping:
each of the sets is read off the log.

**`EventCodec`**: a text is a sequence over `Symbols`, among them a backslash, a line break,
the letter n, the names of the events, the markers and the decimal numbers; `Encode`, `Decode` and the two escapes work on these as the code
works on characters. `Display` and `Recorded` take an error from the body to the
event that `run_step` appends. **`EventTable`**: `CreateTables`, `Inspect` and
`AddColumn` are the three statements of `SqliteStore::new`, `Prepare` and `Insert` the
two parts of `append_event`, whose time is read before the mutex is taken; `Close` may
come between any two. **`RetryDelay`**: `backoff_duration` as a function, on durations
that saturate at `DurationMax`. **`StoreFunctions`** applies the functions of both to one
input after the other, so that what they promise can be stated as invariants.

**`MCQueue`, `MCEngine`** name the calls for TLC. **`MCStore`** puts `EventTable`,
`LeaseClock` and `StoreFunctions` side by side. They share no variable, and one moves
only while the others are where they began, so that their states add up and do not
multiply.

Proofs: **`QueueProofs`**, **`QueueRefinement`**; **`WorkflowEngineProofs`**,
**`WorkflowOutcomes`**, **`WorkflowRows`**, **`WorkflowRefinement`**; **`CodecProofs`**
(texts and events), **`StoreProofs`** (backoff, the table of events, leases in time).

A definition with a suffix and the comment *Slip* is a plausible mistake in the
definition it is named after. Nothing uses it; `PROJECT.json` (`mutants`) says
which property fails when it replaces the original, for every property of every
passing run.

## 3. What the runs check

| Run | Instance | What it shows |
|---|---|---|
| `queue_core` | 5 calls, 3 keys (so that three bodies compete for 2 permits), 1 lane of capacity 1, abandoned pushes, dropped queue; about 640,000 states (under symmetry) | types; `SingleFlight`, `ClaimsAreOwned`, `NoRunAfterSuccess`, `AnswersAgree`, `PermitsRespected`, `CompletedIsFinal`, and `Consistent`, the inductive invariant |
| `queue_live` | 4 calls, 3 keys, 2 lanes: a body pushes into its own lane, which has a second permit, and waits; another body hangs in a lane of its own; abandoned pushes, dropped queue, shutdown; about 200,000 states | `EveryHandleResolves` for all calls that share neither lane nor key with the hanging body; `NoWaiterLeftBehind`, `JobLostHasCause` and the refinement `ImplementsIdempotentKeys` with every fault |
| `engine_core` | run, cancel and resume at once, 2 steps, 2 attempts, timeouts, all outcomes, one crash, store error or abandoned call; about 223,000 states | `OneOfCompletedAndCancelled`, `CancelStopsAtBoundary`, `AttemptsBounded`, `CompletedMeansAllSteps`, types, and `CallsReturn` under fairness |
| `engine_resume` | run, cancel and two resumes of the same step, one abandoned call; about 295,000 states | both resumes may pass the check and drive the workflow side by side: `StepsInOrder`, `CompletedStepStaysDone`, `EveryWaitIsBacked`, and `CallsReturn` also for those who joined an abandoned claim |
| `engine_crash` | run, register, recover, second run, one after the other; one crash, store error or abandoned call anywhere; about 583,000 states | the second run may meet a workflow that failed, or one that a store error left between `StepFailed` and `WorkflowFailed`: `RunAccountsForItself`, `RowsMatchLog`, `WorkIsLeased`, `CompletedStepStaysDone`, `RetriesFollowFailures` (a crash costs no attempt), and the refinement `ImplementsWorkflow` |
| `engine_zombie` | two engines, a run that loses its lease, also by stalling while it should renew it, a recover and a run of the other; about 2.5 million states | `ProgressInOrder`, the inductive invariant for order and completion, and the refinement `ImplementsWorkflow` hold although no append is fenced by the lease |
| `store` | two clients on one file, new or old, up to 3 rows; two workers and a lease of 6 units with 4 units in a second and a slack of 3, for 12 units; every text up to 3 symbols, every error up to 3 pieces, every policy up to 20; about 370,000 states | `LoadReturnsAppended`, `OpenMeansMigrated`, `StampsFollowReturns`; `NoLeaseInLimbo`, `LeaseOutlivesInterval`, the refinement `LeasesImplementStore`; `CodecRoundTrip`, `MarkersSurvive`, `BackoffIsCapped` |

Two steps are enough for "the step before", two attempts for one retry and the
give-up after it, one fault for "between any two operations", two engines for a
stale holder and its successor. Capacity 1 makes a lane full with two jobs
waiting. Three calls on one key allow an owner, a joiner and a call that comes
after. A lease of 6 units runs over the end of a second of 4, and two of them pass
within the bound; three symbols are the shortest text in which an escape can be taken
for two; 20 as the largest duration is passed by the doublings of most policies.
`Calls`, `MaxConcurrent`, `MaxFaults`, `NumSteps`, `MaxAttempts`, `Capacity`,
`Permits`, `MaxEvents`, `MaxMillis`, `MaxTime`, `MaxNumber`, `DurationMax` and the sets of inputs
`SomeEvents`, `SomeErrors`, `SomePolicies` and `SomeAttempts` are the only bounds; no
counter is cut off otherwise. The proofs of section 5 hold for all
values of those that occur in them.

`CompletedStepStaysDone`, `RowsMatchLog` and `WorkIsLeased` are claims about calls
that do not overlap (or, for the first, resumes that overlap and do not fail),
and their runs are set up so. They are false in general: see section 4.
`queue_live` is checked without deadlock detection: with a body that hangs, the
system may stop.

`StampsFollowReturns` is the order of times that holds. The test
`append_events_timestamps_non_decreasing` (`store/sqlite.rs:827`) asserts that times
never decrease along the log; that is so for the appends it makes one after the
other. Two appends that overlap may come out the other way round.

### Fairness

tokio polls every task that is ready, so each internal step of a push, worker, job
or call is weakly fair; a body that is not in `Hanging` returns, and with it
`BodyEnds`; a runtime that shuts down drops every task. A semaphore and a channel
hand a permit or a slot to some waiter; with the finite number of calls here weak
fairness suffices, since no waiter can be overtaken for ever. Never assumed: that
a user calls, cancels or drops anything, that a timeout wins or a lease is
renewed, that a process restarts. A push from inside a body is fair, being part
of the body.

## 4. Where the code and its documents disagree

Each of these is a run that TLC finds violated; the quotations are in
`PROJECT.json` (`findings`).

* `queue_stale`: a key pushed again between the halves of `JobGuard::drop` hears the
  failure of the old job, and never of its own.
* `engine_terminal`: `WorkflowFailed` is appended without `terminal_write` and without
  a look at the log, so a workflow can be both failed and cancelled.
* `engine_recancel`: recover starts a step of a cancelled workflow, with no two
  calls overlapping.
* `engine_lease`: recover clears a lease that its holder has renewed since.
* `engine_lost`: a crash after `StepFailed`, or during the backoff, leaves a row
  with no lease, which `expired_leases` never returns.

Read in the code, visible in the models, and without a run of their own: a
dropped queue still starts the jobs its lanes had buffered (`worker.rs:17`);
`cancel` on a workflow that is being driven may be followed by the start of one
step whose check came before it (`CancelStopsAtBoundary` is the bound that
does hold); a second `run` starts again at attempt 0 and may be answered from the
cache by a body that had timed out; a second `run` that completes every step of a
failed workflow records no completion, since the log has a terminal event;
`terminal_write` is per engine, so two engines can each record an end.

The transaction around an append keeps row and log from drifting apart by a crash, and
`docs/architecture/durable-store.mdx:38` concludes that the rows can "never drift from
the log". That is so for calls that do not overlap (`RowsMatchLog`, proved). When two do, row
and log come apart by `StepStarted`, which the reader of the log counts and the projection
leaves out, lest it erase the lease: a recover and a run that both claim a step may record
`StepCompleted` first and the other's `StepStarted` after it, and then the row is completed
while the step reads as pending off the log.

The documents differ on `JobLost`. `docs/guides/waiting-for-results.mdx:65-67` has it happen
"only" during runtime shutdown; `docs/architecture/job-lifecycle.mdx:62-66` adds those who joined a
claim that was abandoned. The code does what the second says, and so does
`JobLostHasCause`.

## 5. What is proved

All proofs are for every value of the constants, under the assumptions that the modules
name. `QueueAssumption`, `StoreAssumption`, `EngineAssumption`, `TableAssumption`,
`FunctionsAssumption` and `DelayAssumption` say what the constants are (a lane has room for
at least one job, as `mpsc::channel` demands; there is at least one step; what is appended
is an event) and nothing about the schedule or the faults. `CodecAssumption` says that
different numbers have different decimal representations and that none holds a line break.
`ClockAssumption` demands in addition that the interval between renewals and the
slack together are shorter than the lease. That excludes a `lease_ttl` of zero, one so short
that the interval falls back to a millisecond that is longer than the lease, and an
expiry that does not fit the clock, which becomes the present
(`unwrap_or(now)`, `store/sqlite.rs:283`): such leases protect nothing. The
clock is the wall clock of all workers, taken to agree and not to step back.

*Queue* (`QueueProofs`). `TypeOK` is inductive. `SingleFlight` is not: from a state
where the state map calls a key free while a job of it sits in a lane, `PushClaim`
would break it. `Consistent` (`ConsistentAlways`) adds what is needed: jobs belong to
pushes that were queued, channels hold exactly the queued jobs and each once, a live
job's key is in flight, `source` and `state` agree, a recorded success stands until its
guard has finished, and waiters share their key. From it follow `OneJobPerKey`,
`SuccessIsNotRepeated`, `SuccessIsFinal`, `OkIsTheOutput`; with one more step each,
`NoKeyIsStuck` and `WaitersAreAnswered`. `LanesAreBounded`: that no more bodies run than
there are permits needs every task with a permit counted, also those that have not
begun and those that have recorded and not yet notified (`PermitsFit`).
`LossesAreExplained`: a handle is lost only after a push of its key was abandoned or
refused, or the runtime went down. The case to exclude is the maps being freed with
the queue while somebody is registered; `CausesKnown` says that no push outlives the
last clone of the queue.

*Refinement of the queue* (`QueueRefinement`). `QueueRefines`: every step of the queue
maps to a step of `IdempotentKeys` or to none. `SingleFlight` makes the owner well
defined, `RecordedSuccessStands` lets `Notify` answer Ok.

*Workflows* (`WorkflowEngineProofs`). That steps start in order cannot be proved
from the log alone: a resume starts at the step it names, a recover at the step of
an expired lease, and a resumed call relies on the row. `ProgressInOrder` says that
all of them, the events, the rows, the calls, the snapshots of a recover, point
only at steps whose predecessors are on record as completed, and carry only
attempts the policy allows. It is preserved by each store operation
(`AppendInOrder`, `LeaseInOrder`), by moving one call (`CallMoves`), and so by each
action. It gives `StepsStartInOrder`, `CompletedWorkflowsAreDone`,
`RetriesAreBounded` and `EngineTypeCorrect`, for any number of engines, stalls,
crashes, abandoned calls and store errors. `OneEngineEndsOnce` uses a second invariant,
`EndsOnce`: a call between its look and its append holds `terminal_write`, and no end
is on record while it does. Its hypothesis, a single engine, is necessary.

*Outcomes of calls* (`WorkflowOutcomes`). `CancelIsSeenAtBoundaries` and
`RunsAreAccountedFor` come from one invariant, `Accounted`. A call that has started an
attempt after the cancellation is at a point of `Late`, from which every way to another
start leads through a look at the log; a run about to answer Ok has an end on record,
and a row that waits has its request on record. Calls of recover are the exception in
the first of the two, as the run `engine_recancel` shows.

`WaitsAreBacked` is the half of `CallsReturn` that is a safety property and so within
reach: nobody waits for what cannot come. Who waits for a handle finds the job claimed,
queued or running; a claimed key has the push that will queue it or give it up; and who
holds `terminal_write` is at a point that leads to its release. It is inductive
together with `OneSender`: were there two pushes with the same claim, the first to be
dropped would take the job from under the second.

*Rows* (`WorkflowRows`). `RowsFollowLog` and `WorkersHoldLeases`: when at most one call
is under way, status in row and status folded from the log agree, and whoever works on a
step holds its lease. `InStepWithLog` takes both together: an append keeps row and log in
step only because the call that makes it holds the lease, and it holds the lease only
because nobody else is at work.

`CompletedIsNotRepeated`: when at most one call is under way, a step on record as completed
is never handed to a queue again. A call decides that with the claim, on the row, several
steps before it pushes, so `DoneOnce` relates rows, log and calls: the row of a step on
record as completed says so, no call that is about to reopen a row is at such a step, and the
snapshot of a recover holds at most one execution, whose row is still leased.

The hypothesis `MaxConcurrent = 1` is necessary for all three: with overlapping calls a
recover clears the lease of a step that is being worked on, and a late failure makes a
completed row `failed`.

*Refinement of the engine* (`WorkflowRefinement`). `EngineRefines`: every step of the
engine maps to a step of `DurableWorkflow` or to none, with overlapping calls, several
engines and all faults. The invariant, `Backed`, says that the log bears out whatever a
row, a call or a snapshot of recover claims: who is about to record an outcome is on
record as started, and who carries an attempt beyond the first has it on record as
scheduled. This is what "the log is the truth" means in this code, since leases do not
fence appends. `AttemptsFollowFailures` puts the refinement to use: that an attempt starts
only when all before it have failed is proved of `DurableWorkflow`, which has no calls and no
crashes, and holds of the engine because the engine implements it.

*Texts and events* (`CodecProofs`). `UnescapeUndoesEscape` for texts of every length,
`SplitUndoesJoined` for every list of lines without line breaks, and from the two
`DecodeUndoesEncode`, for every event. `CodecIsSound` and `MarkersAreSound` state the properties
of the run. `Replaced`, `Unescape`, `Split` and `FlattenSeq` are recursive functions inside
folds, about which the prover knows nothing, not even that they exist. The argument is
in first-order steps: a recursive function on an initial segment of the naturals is
built from finite approximations (`FoldExists`), two such functions agree (`ChainUnique`), and
each function is given the equation for a text with one symbol more (`ReplacedAppend`,
`UnescapingAppend`, `SplitAppend`, `FlattenAppend`). Induction over texts is `ByAppend`:
a set of texts that holds the empty one and is closed under one symbol more holds all. It
rests on `Least`, that every set of naturals has a least element, in place of the library's
induction theorems, whose parameter is an operator.

*Backoff, table and leases* (`StoreProofs`). `BackoffIsMin`: the doubling that saturates and
leaves early gives `min(base * 2^n, max)`; `Saturates` is the reason, since what is cut off at
`DurationMax` was past `max` already. `MigrationIsSafe`, `StampsAreOrdered` and
`LoadIsFaithful` follow from one invariant, `TableInv`: the rows are the appends, encoded; an
append under way has a time between those of the rows it came after and the present; nobody
is open on an old schema. The last of the three uses `DecodeUndoesEncode`, and `OrderExists` for the
`ORDER BY`. `LeaseTypeCorrect`; `EveryLeaseIsHeldOrFound`: the comparison of whole times and
the comparison of their parts are complementary; `AwaitedLeaseLasts`, from the invariant
`RenewalsInTime` (an engine is never more than the slack late, and its lease was written at
most one interval before the next tick); `LeasesRefineStore`: what happens to a lease in
time is what `StepStore` lets happen to `fresh`.

So every invariant and every action property that a passing run checks is also proved, and so
are the three refinements. Only model-checked:

* `EveryHandleResolves` and `CallsReturn`: fairness and ENABLED are out of the prover's
  reach. Their safety halves, `NoWaiterLeftBehind`, `ClaimsAreOwned` and `EveryWaitIsBacked`, are
  proved.
* `CompletedStepStaysDone` for resumes that overlap (`engine_resume`); the proof is for
  calls that do not.

## 6. Abstractions, and what is not modelled

* Payloads and outputs are left out of the queue and the engine: a success is identified
  by the job it came from, a failure reason by its parsed kind (`ok`, `fail`, `wait`,
  `fatal`). `EventCodec` shows when the parse is right. A panic of a step's body is a
  `fail`.
* The engine sees its queue as atomic per key, recording and notifying in one step.
  The gap between the two matters only to a key pushed again after a failure,
  and an attempt's key is pushed again only by another call. A lane that is
  closed under a push of the engine is left out: the engine owns its queue.
* One workflow at a time: workflows share the store, `terminal_write` and the lanes,
  and no other state; sharing them delays and does not otherwise affect another.
* In the engine a deadline may or may not win, and a lease may expire when
  nobody renews it (`"expire"`) or at any time (`"stall"`). `LeaseClock` has the
  times; the length of a step's timeout is left out.
* The widths of step indices and attempts (`usize`, `u32`) are left out, both being
  bounded by the registered steps and the policy.
* A workflow registered again with a different number of steps under the same id is not
  modelled: the engine would go by the new list and the old log.
* SQLite's `SQLITE_BUSY`, when another process holds the file, is a store error like
  any other (`StoreFails`).
* Not modelled: `Queue::state` and `resume_input`, which only read; the wording of errors
  (`Display`, `From`); re-exports; examples, tests and documents, which were read as
  statements about the code.

## 7. The plan

Done, in this order: `Queue` with its invariants; `IdempotentKeys` and the
refinement; `StepStore` and `WorkflowEngine`; abandoned calls; `DurableWorkflow` and
the refinement; `EventCodec`, `EventTable`, `RetryDelay`, `LeaseClock`; the proofs above.

What could follow:
1. `CompletedStepStaysDone` for resumes that overlap and do not fail. It needs who of
   two calls at the same step may still append a failure.
2. Liveness of recovery: a crashed step is run again when somebody keeps recovering.
   It is false as it stands (`engine_lost`), so it wants the condition under which the
   lease survives the crash.
3. The engine's jobs as an implementation of `IdempotentKeys`. A call of recover may push
   a key twice, and a crash empties the queue, so it wants a queue per life of a process
   and calls told apart by their pushes.
4. Several workflows on one store and one set of lanes.
