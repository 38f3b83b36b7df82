# TLA+ models of posthog-rs

This directory specifies the core of the PostHog Rust client, event building and
delivery, feature flags and error tracking, checks it with TLC on small instances, and proves its main safety
properties with TLAPS for instances of every size. Paths below are relative to the repository; the
crate's sources are under `src/`.

Contents: [the system](#1-the-system) · [the modules](#2-the-modules) ·
[the runs](#3-the-runs) · [fairness](#4-fairness) · [proofs](#5-proofs) ·
[where code and documentation differ](#6-where-code-and-documentation-differ) ·
[what is not modelled](#7-what-is-not-modelled) · [plan](#8-plan).

To check: `tlc -workers 2 -config TransportQueue.cfg MCTransport.tla`, likewise
for the other configurations, and `tlapm TransportProofs.tla`. A definition
marked `mutant` is a plausible bug of the definition below it; no specification
uses it. It is there to show that a property can fail: put in place of the
definition, it makes TLC report the property it stands for.

## 1. The system

An application hands events to a `Client` and asks it for feature flags.

```
 application threads ── capture / capture_batch ──▶ TransportHandle ── channel ──▶ worker thread ──▶ HTTP
          │            flush / shutdown / Drop ────────┘ (in-flight counter)        buffer, chunks, retries
          │            panic hook: enqueue + bounded flush ──┘
          ├── capture_immediate ──────────────────────────────────────────────────────────────────▶ HTTP
          └── evaluate_flags ──▶ FlagCache ◀── FlagPoller / AsyncFlagPoller ◀─────────────────────── HTTP
                     └──────────▶ POST /flags
```

| Component | State | Operations | What is hard | What makes it correct |
|---|---|---|---|---|
| **Capture transport** `client/transport.rs` | `closed`, `len`, the channel, the `JoinHandle`; in the worker `buffer`, `historical`, their timers, `retries`, the drain deadline | `enqueue`, `enqueue_panic`, `enqueue_historical`, `send_control`, `begin_close`, `join`; the worker's seven arms, `send_buffer`, `drain_historical`, `flush_retries`, `attempt_due`, `drain_pending_completions` | producers race for slots and against the worker's exit; a partly answered batch; a shutdown deadline in the middle of retries; two closers; a flush that meets a dying worker | each event has one place, one slot and one outcome; the counter is exact; flush covers what came before it; every caller returns; the worker is joined |
| **Response processing** `client/v1_capture.rs`, `client/retry.rs` | the batch: `pending`, `undelivered`, attempt number | `after_response`, `after_transport_error`, `process_batch_response`, the V0 counterparts | per-event verdicts spread over attempts | a settled event is not sent, counted or reported again; the attempt budget holds |
| **Client surface** `client/async_client.rs`, `blocking.rs` | owns the transport and the poller | `capture*`, `flush`, `shutdown`, `Drop` | futures dropped at an await; `Drop` after a cancelled shutdown | nothing hangs, nothing is abandoned in silence |
| **Flag cache** `local_evaluation.rs` | three maps behind three `RwLock`s, and an atomic gate | `update`, `clear`, the getters | four cells written one after another, readers lock one at a time | readers see whole updates; an evaluation does not go back in time |
| **Flag pollers** `local_evaluation.rs` | `stop_signal`, the thread or task handle, `is_running`, `last_etag` | `start`, the loop, `load_flags`, `stop`, `Drop` | a load beside a poll; cancelled starts; abort; restart; 304 answers | the cache reaches what the server has; one loop runs; stop waits |
| **evaluate_flags and snapshots** `feature_flag_evaluations.rs`, `common.rs` | records, accessed keys, the dedup cache | `evaluate_flags`, `is_enabled`, `get_flag`, … | local records, a remote answer and its failure are merged; the dedup cache is emptied when full | one `$feature_flag_called` per user, flag and value; no flag lost |
| **Flag matching** `feature_flags.rs` | none | bucketing, variants, property operators, cohorts, dependencies | boundaries, conditions that cannot be decided, early exit, one level deciding for another | what is decided with some properties is not decided otherwise with more; a variant gets its share |
| **Immediate capture, remote flag calls** `async_client.rs`, `blocking.rs`, `client/summary.rs` | of each call: attempt, pending events, verdicts so far | `capture_immediate`, `capture_batch_immediate`, `get_feature_flags`, `get_feature_flag`, `is_feature_enabled`, `get_feature_flag_payload` | partial success spread over retries, stored events whose answer was lost, shared uuids, dropped futures | the summary claims no more than is stored; what was decided stands; one report for each failed call; every call returns |
| **Retry policy** `client/retry.rs`, `error.rs` | none | `backoff_duration`, `should_retry`, `Retry-After`, the `/flags` budget | saturation, off by one, what the server asks for | pauses and attempts within their limits |
| **Events and their wire formats** `event.rs`, `event_v1.rs`, `client/v0_capture.rs`, `client/v1_capture.rs`, `compression.rs` | of an event: properties, groups, timestamp, minimal mark | building, defaults, `before_send`, allowlist, options, encoding | the order in which these are applied, and hooks between them | what the caller set arrives; the backend accepts it; both builds say the same |
| **Exception reports** `error_tracking.rs` | none | error chains, frames, modules, `in_app`, trimming | stripped and inlined builds, cuts within an inline group | the trace is a true one of the app, its images are those it refers to |
| **Panic hook, global client** `error_tracking.rs`, `global.rs` | two `OnceLock`s, the hook chain, the mutex of the `before_send` hooks | `init_global`, `disable`, `capture`, `shutdown`, the hook | a panic on the worker, or inside a hook the worker waits for; racing initialisations | captured once, the previous hook run once, no thread stuck |
| Options, endpoints, hooks' API | configuration or none | building | none that a model reaches | tests |

`async_client.rs` and `blocking.rs` are twins: the same control with and without awaits.
A definition stands for both; `map` names the one whose lines it was read from.

## 2. The modules

| Module | Models |
|---|---|
| `Transport` | the transport with its producers, callers and worker; refines `EventLedger` |
| `MCTransport` | its constants for TLC |
| `EventLedger` | the abstract promise: bounded admission, one outcome for each event, an exact count |
| `FlagCache` | `FlagCache` and the reads of the evaluations |
| `FlagPoller` | `FlagPoller` and `AsyncFlagPoller` |
| `Evaluations` | `evaluate_flags`, the snapshots, their reads and the dedup cache |
| `MCEvaluations` | its constants for TLC |
| `FlagMatching` | `match_feature_flag_with_context` and what it calls, over the cached definitions |
| `MCFlagMatching` | its constants for TLC |
| `RetryPolicy` | `retry.rs` and the errors of `error.rs`, as operators |
| `InlineRequests` | the calls that send for themselves, over `RetryPolicy` |
| `MCInlineRequests` | its constants for TLC |
| `WireEvents` | an event and its two wire formats, as operators |
| `ExceptionReport` | the `$exception` event of an error or a panic, as operators |
| `EventPipeline` | an event from its making to a request's body, over both |
| `MCEventPipeline` | its constants for TLC |
| `PanicHook` | `global.rs` and the panic hook with its threads, the worker and their locks |
| `MCPanicHook` | its constants for TLC |
| `TransportProofs`, `EventPipelineProofs`, `FlagCacheProofs`, `FlagPollerProofs`, `EvaluationsProofs`, `FlagMatchingProofs`, `InlineRequestsProofs`, `PanicHookProofs` | the proofs |

### Transport

Threads: one for each capture call, one for each caller of `flush`, of the panic
hook's flush, and of `shutdown` or `Drop`, and the worker. An event is
`<<call, index>>`. A step is what the code does between two points where another
thread can tell the difference:

- *Producers.* `CheckClosed` is the early return on `closed`. `ReserveSlot` and
  `QueueFull` are one turn of the compare-exchange of `try_reserve`; a historical
  batch reserves slot by slot and is truncated when it no longer fits.
  `SendReserved` sends, or, with the receiver gone, gives the slots back.
- *Callers.* `BeginFlush`/`SendFlush`, then a wait on the `Completion`.
  `BeginClose` is the swap of `closed`: the winner sends `Shutdown`, a loser goes
  straight to `join`. `TakeHandle`/`JoinWorker` are the two halves of `join`,
  which keeps the mutex from `lock()` to the end of the join. `GiveUp` is the
  time limit of the panic hook, and the future of an async `shutdown` dropped at
  its await.
- *The worker.* `todo` is what is left of the `match` arm in progress and of the
  service code below it, so producers and callers interleave with the parts of
  an arm. `SendBatch` filters by `before_send` and starts an attempt.
  `AttemptFails` and `AttemptSucceeds` are the request and everything
  `Pipeline::attempt` does with its result; the answer is chosen
  nondeterministically, with a verdict for each event in the V1 build.
  `TakeRetries` is `mem::take(&mut self.retries)`, after which the batches are
  looked at one by one. `DrainPending` is one `try_recv`, and `WorkerExits`
  destroys whatever raced in behind the last one.
- *Time* has no clock: a running timer elapses at any later moment, the deadline
  of the drain included.

`status`, `reported` and `owed` are history variables. They follow what becomes
of each event, how many `on_error` failures counted it, and what a flush still
owes. No guard reads `reported` or `owed`; `status` is read to name the events a
step moves, all of which the stores name as well (invariant `Placed`).

An event has an identity of the model's and a `Uuid`, which its caller may have set, so that two
events may share one. Slots and places go by identity, as in the code, which moves events; the
verdicts of an answer and the failures a batch has collected (`OnePerUuid`) go by uuid, as in
its two maps.

The V0 build is the instance `CaptureV1 = FALSE`, where a 2xx settles the whole
batch. A failed `spawn` is an initial state with `alive = FALSE`.

### EventLedger

Three variables: the fate of each event, the count, and whether the client has
stopped. `Transport!ImplementsLedger` is the refinement: `Held` maps to
`pending`, `lost` stays lost, everything else settled is delivered, refused or
undelivered. It leaves the ledger no room to release a slot twice, or to settle
an event the second time with another fate.

### FlagCache

A map is represented by the number of the update that wrote it, which is all the
properties need. `update` takes seven steps: three lock-and-replace, the gate,
three unlocks in reverse order. Readers take one cell at a time, in the order of
the three kinds of evaluation; a read waits for a writer of its map. The relaxed
store of the gate is published with the unlocks that follow it.

### FlagPoller

Both pollers in one module; `flavour`, chosen initially, says which. Versions
stand for definitions and for their ETags. A request is asked, answered at one
moment (what the server has then, or 304) and applied at a later one, so that
answers of the loop and of `load_flags` can cross. `&mut self` is `Exclusive`:
start, stop and drop run while no `load_flags(&self)` does. An aborted task ends
at an await; one that has its answer in hand still applies it. The cache is
replaced in one step, which is what `UpdateAtomic` of `FlagCache` says readers
see.

### Evaluations

A snapshot is created by a call of `evaluate_flags`, or by `only` and
`only_accessed` from another. A call evaluates locally, returns at once if that
covers its `flag_keys` or if it was asked to stay local (`SkipRemote`), and
otherwise asks `/flags`, retries, and merges. What local evaluation and the server
say are inputs: records of a value for each flag, from any evaluation that
`FlagCache` and `FlagMatching` describe. A read takes three steps:
`BeginRead` looks up the flag and marks it accessed, `AlreadyReported` is the
look-up and insertion under the lock of the dedup cache, and `Enqueue` hands the
event to the transport. An event counts as reported when it is handed over, even
if the transport refuses it: `already_reported` has no way back either. The cache
is reset when it holds the maximal number of users, also when the user is one of
them. Flags and variants are sequences of words because `DedupKey` joins them with
the character that also occurs in them; that conversion is what
`Unambiguous` is about.

### FlagMatching

The module has one operator for each function of `feature_flags.rs` between
`hash_key` and `match_feature_flag_with_context`; the state is what the results
depend on. `results` is what `evaluate_all_flags` returns for the flags, and the
steps pass one more property, pass the properties of one more group, or raise a
rollout, each followed by an evaluation. Three answers, `Yes`, `No` and `Unknown`
(the `InconclusiveMatchError`), travel through properties, cohorts, dependencies and
conditions. The loops with their `continue`s and early returns are sets: `Ends` is
the condition under which the loop would end at condition i if it came there, and
`First` the first such condition in the order of `sort_by_key`. The code has the loop
twice, with cohorts and dependencies and without: `InContext` and `Plain` are the
outcomes of the conditions in the two, `Value` is what both do with them.

Hashes and percentages are doubles in the code, and the edges of the variants are their running sum,
`value_min + rollout / 100.0`, rounded at each step. The model counts in units so fine that
whatever is computed is whole, and `Round` is the double nearest to it: `HashKey` rounds
the 60 bits of the hash, `Fraction` the quotient, `Shares` each sum. All that is assumed of `Round` is
that it is monotone, exact on its own results, and off by at most `Error`.

### RetryPolicy and InlineRequests

`RetryPolicy` says what a finished attempt means: `Done`, `Backoff` for a delay, or
`Fail`. Its delays are numbers with the saturation of `u64` and the clamps of
`backoff_duration`. `InlineRequests` has the loops around it. A call is idle, sending,
waiting, done or dropped; a request is answered (`ServeCapture`, `ServeFlags`) or lost
(`Lose`), and each of the eight `Receive...` and `...Broken` actions is what one loop does with
one kind of outcome. On V1, `Retried` and `Decided` are `process_batch_response`: which
events go into the next attempt, and which verdicts are known by then. `DropFuture` is
the caller of the async client who loses interest.

The server is modelled by what it may have stored: the uuids in `store` are what
`SummaryTruthful` compares a summary with. An answer may omit events, and one that was
lost may have stored some. A V0 success stores the batch; a V1 verdict is true. `client`
is chosen at the start and has the build and three options.

### WireEvents, ExceptionReport, EventPipeline

An event has the properties its makers and the hooks give it; a value has its JSON type
and a word, which is what coercion looks at. `prepare_event` and its V1 counterpart are
sequences of operators in the code's order: defaults, `before_send`, allowlist, runtime context,
groups, options. A `before_send` hook is one of eight kinds (`Hooks`): it keeps or
drops the event, panics, leaks or strips properties, sets an option or one of a wrong
type, or returns a fresh event.

`ExceptionReport` follows a stack from physical frames, innermost first, each an address
with the layers inlined there, to the frames on the wire. Paths and functions are short sequences of
words, so that the rules on whole directories and `::` segments can be stated. It models
which frames are the SDK's own, which are `in_app`, what is kept of more than `MAX_FRAMES`,
and the debug images.

`EventPipeline` is the state machine around the two: an event is made (`NewEvent` and
what its caller does with it, `RecordFlagCalled`, `CaptureException`, `CapturePanic`), captured
by way of the queue or immediately (`Capture`), and built for the wire (`Build`). `report` is a
history variable: what an exception event was made from, its stack, policy, sources and the caller's
`context`, with which `ReportSound` compares what is on the wire.

### PanicHook

Threads of the app, calls of `init_global`, and the worker of the client that wins. An
`init_global` takes five steps, each of which another thread can come between: look at
`disable`, set the global, latch the hook, `take_hook`, `set_hook`. A panic runs the
hook as it was at that moment (`layers`): `SkipCapture` or `CapturePanic`, the wait for the
flush, then `PreviousHook`, then `Unwind`. Two locks matter: the one around the
`before_send` hooks, which a panicking thread keeps until it is unwound, and the standard library's around
the process's hook, for which `take_hook` and `set_hook` wait. The worker takes messages
in order and may panic in a hook too.

`Transport` has the same flush with everything the worker may be doing meanwhile;
`PanicHook` has what the panicking thread may hold.

## 3. The runs

| Run | Configuration | Shows | Result |
|---|---|---|---|
| `queue` | `TransportQueue.cfg` | ten properties of a live capture, a historical batch of three events, two of one uuid, the panic hook's flush and two closers on a queue of three slots (V1) | holds |
| `progress` | `TransportProgress.cfg` | a flush attempts what came before it, callers return, events settle (V0) | holds |
| `slot_leak` | `TransportSlotLeak.cfg` | `PendingSettles` | violated, §6 |
| `flag_cache` | `FlagCache.cfg` | two updaters, a clear, an evaluation, three updates | holds |
| `pollers` | `FlagPoller.cfg` | both pollers, two starts, a concurrent load, three versions, two failures | holds |
| `evaluations` | `Evaluations.cfg` | three snapshots, of a full call, two local calls, or clones, three users, two readers, a cache of two | holds |
| `matching` | `FlagMatching.cfg` | every flag of two conditions out of eight, with and without early exit, and five flags it may depend on; five lists of up to ten variants, edges summed in numbers of nine bits, hashes around every edge | holds |
| `inline` | `InlineRequests.cfg` | a capture of three events, two of one uuid, or any flags call, in both builds, three attempts, any answers | holds |
| `payload_silent` | `InlinePayloadSilent.cfg` | `FailedRequestReported` | violated, §6 |
| `events` | `EventPipeline.cfg` | events of four origins, seven hook lists, both builds and ways, errors on stacks of every kind of frame, contexts that forge what is reserved | holds |
| `minimal_leak` | `EventPipelineMinimal.cfg` | `MinimalExact` | violated, §6 |
| `panic_hook` | `PanicHook.cfg` | two initialisations, two threads and the worker, each with a panic, a queue of two | holds |

The properties, in the words of their modules:

- `SlotAccounting`, `Placed`, `ReportedOnce`, `OutcomeFinal`: the counter, the
  stores, the reports and the outcomes agree on every event in every state; a refused event may go
  uncounted only beside a counted one of the same uuid.
- `QueueBounded`: the limit of the queue holds.
- `NothingStranded`: nothing waits without a timer.
- `FlushAttempted`, `JoinedWorker`, `PanicFirst`: what a flush, a shutdown and the
  panic hook may rely on. `PanicFirst` speaks from the moment the worker has received
  the hook's flush; before that the worker may attempt due retries, which is `PanicNotStarved`'s subject.
- `CallersReturn`, `EventsSettle`: the liveness side.
- `UpdateAtomic`, `ReadsAdvance`: what readers of the cache may rely on: a whole update in each read,
  and none earlier than the one before. Not one update for all the reads (`OneSnapshot`).
- `OneTaskPolls`, `StopJoins`, `CatchesUp`: what users of the pollers may rely on. `StopJoins` is
  about the thread started last (`StopSilences`).
- `NothingLost`, `FailureShown`, `AccessedStays`: what a snapshot says of the flags
  it was made of, of a failed request, and of the reads before it was cloned.
- `OncePerReset`, `SkippedIsSent`: a combination of user, flag and value is reported,
  and not more often than the dedup cache was reset.
- `EnabledStays`, `DisabledStays`: what local evaluation decides of a `Steady` flag is right,
  because nothing that it did not know changes it. `DependencyAgrees`: a dependency of a `Steady` flag is
  decided, without the person's properties, as the other flag is. Steady excludes `is_set` and
  `is_not_set`, dependencies on a variant or on `false`, and dependencies on flags with `early_exit`:
  of those the three say nothing. `VariantShares`: whoever is farther from every edge than the
  roundings gets the variant the percentages say, and nobody one of zero percent.
- `SummaryTruthful`, `DecidedNotResent`: what the caller of an immediate capture is told is
  backed by the server's store, and what the server decided is left alone.
  `FailureReported`, `CallReturns`: a flags call that returns an `Err` reaches the `on_error` hooks once, and every
  call its caller. A payload call that failed and returns `Ok` is `FailedRequestReported`'s.
- `WireFaithful`, `BuildsAgree`: what is on the wire is what was captured, acceptable to the
  backend, and the same in both builds, apart from what they say of the SDK and from a minimal
  event's options (`MinimalExact`). `ReportSound`: list, level and a given fingerprint are the
  SDK's whatever the caller forged; the trace is the walk of the stack, which at the crash end loses
  only frames of the SDK's, and at the other only those beyond `MAX_FRAMES`, with whole inline
  groups; the images are those it refers to.
- `CapturedOnce`, `PanicProceeds`: a panic is captured once, the hook before ours runs once,
  and the thread goes on.

**Bounds, and why they are enough.**

*Transport.* In `queue` four events, one of a live call and three of a batch, meet a queue of three
slots, so the queue fills, the batch is truncated, and producers lose the race. Two events of the batch
share a uuid and the third does not, and there are two attempts over which their verdicts can be spread,
which is what the count by uuid is sensitive to. `MaxBatchSize = 3` lets a request carry them together;
`FlushAt = 3` leaves the live event in the buffer for the interval, the flush, or the
drain; `MaxCaptureAttempts = 2` gives each batch a retry and a last attempt. Two
closers are what `begin_close` and `join` distinguish, a winner and a loser. The
panic flush meets a batch waiting for its retry, the historical one, while the
buffer holds the live event, which is the case `PanicFirst` is about. `progress`
has the ordinary flush, a batch of two, a queue of two, and one closer, for the size of the liveness
graph; the race of two closers is in `queue`, the proof that it joins in `ShutdownsJoin`.

*FlagCache.* Two updaters contend for every lock, three updates separate "older"
from "not the newest", and one evaluation meets them all: evaluations only read
and do not affect each other.

*Evaluations.* Three users and a cache of two fill it and reset it. Two readers race
for one combination. The call that asks the server may retry once; the other two
are local, because what they would ask is independent of the first. The readers
read three times in all, so that a combination may be reported, forgotten by a
reset, and reported again. Symmetry is over the readers only, which are alike.

*FlagMatching.* The hash for the rollout is 0 or a half, and a rollout a quarter, a half or absent: in
and out of the rollout, and in by a larger one. Two conditions in either order are
what the sort, the early exit and the fall-through distinguish; the second variant
covers the override. The cohort has a nested group. The other flag is enabled for a
part of the users, for a group or by a property, by a cohort, for a group type nobody knows, or
inactive. Quarters and halves are exact, so rounding plays no part there.
It does in the flags of `SplitFlags`, which have a list of variants each: ten of a tenth, a share of 0 first
and in between, thirds, a remainder, and one variant for everybody. Numbers have nine significant bits, the nearest one, and of two
the even one: ten times a tenth ends below 1 there as it does in doubles. The unit is a fortieth of the largest gap
below 1, and around each edge hashes are tried half a gap apart, two gaps to either side. Versions wrap at 8;
none of the definitions comes near, see §7.

*FlagPoller.* Two tasks are what a second start adds. With three versions an
answer can be two behind, and with two failed requests, both an unparsed body and
a failed retry of it happen.

*InlineRequests.* One call, of every kind: calls share the server's store and nothing
else, and another call can only add to it, which makes no summary less true. Three
events with two uuids have an event of its own and a shared one; three attempts have a
first, a middle and a last. The initial delay of 3 doubles past the maximum of 10, one
`Retry-After` is below it and one above.

*EventPipeline.* Two operations of the caller set, remove and override; the seven keys
are one of each class the code distinguishes. Two frames of the app, of seven kinds, come under the
SDK's own in three builds; `MaxFrames = 3` cuts within and before an inline group, and one group is
longer than it. One caller forges all that is reserved and gives a level and a fingerprint; one forges
what the report will not have.

*PanicHook.* Two initialisations are a winner and a loser. Two threads can hold one of the
two locks each; one panic of each thread suffices because a thread that is unwound is
as it was, and two messages fill the queue and keep the worker behind.

Deadlock is checked in every run but `matching`: a state without successor would be
a hang, because the states where everybody is done have a stuttering step (`Quiet`,
`Finished`, `Gone`). In `matching` everything passed and raised is the end.

## 4. Fairness

`Transport!Fairness`: a producer or caller that has begun goes on (threads are
scheduled); the worker goes on, which includes that requests end, by their
`timeout`, and that hooks return; interval and retry timers elapse. There is no
fairness for starting a call, a flush or a shutdown (`EventsSettle` may not count
on them), for `GiveUp`, `DropHandle`, or the deadline of the drain.

`FlagPoller!Fairness`: a thread or task is scheduled, the poll interval elapses,
a request ends by `request_timeout`, `join` and `abort` go on. Nothing makes the
server publish, or the owner start, stop or drop. That requests do not fail for
ever is the bound `MaxFailures`.

`Evaluations`, `FlagMatching` and `EventPipeline` have safety properties only, and no fairness.

`InlineRequests!Fairness`: a request is answered or its `request_timeout` elapses, an answer is
handled, a timer elapses. The caller need not drop the future.

`PanicHook!Fairness`: a panicking thread goes on through its hook, and the time limit of the flush elapses.
Nothing is assumed of the worker, which may be as slow as its endpoint, or wait for the
lock the panicking thread holds.

All fairness is weak: each step meant, once enabled, stays enabled until taken by
its own thread, or, for the worker, until another of its steps is taken.

## 5. Proofs

All theorems hold for every value of the constants that the modules' assumptions
allow (`TransportAssumption`, `CacheAssumption`, `PollerAssumption`,
`EvaluationsAssumption`, `DefinitionsAssumption`, `HashesAssumption`, `RoundAssumption`, `PolicyAssumption`,
`InlineAssumption`, `PipelineAssumption`, `ReportAssumption`, `StacksAssumption`, `PanicAssumption`;
`LedgerCountExact` has
`LedgerAssumption` as a hypothesis): any finite or, where nothing is counted, infinite sets of
threads, any queue size, batch size and attempt budget. `TransportAssumption` does
not require the sizes to be positive; the options allow 0.

| Theorem | Statement |
|---|---|
| `TransportProofs!TypeCorrect` | `Spec => []TypeOK` |
| `TransportProofs!QueueStaysBounded` | `Spec => []QueueBounded` |
| `TransportProofs!ShutdownsJoin` | `Spec => []JoinedWorker` |
| `TransportProofs!EventsSorted` | `Spec => []Sorted`, the invariant of the next two |
| `TransportProofs!SlotsAreExact` | `Spec => []SlotAccounting` |
| `TransportProofs!FailuresReportedOnce` | `Spec => []ReportedOnce` |
| `TransportProofs!OutcomesAreFinal` | `Spec => OutcomeFinal` |
| `TransportProofs!TransportKeepsPromise` | `Spec => ImplementsLedger`, the refinement of `EventLedger` |
| `TransportProofs!EveryEventHasItsPlace` | `Spec => []Placed` |
| `TransportProofs!TimersGuardStores` | `Spec => []NothingStranded` |
| `TransportProofs!PanicsGoFirst` | `Spec => []PanicFirst` |
| `TransportProofs!FlushesAttemptAll` | `Spec => []FlushAttempted` |
| `TransportProofs!LedgerCountExact` | `Promise!Spec => [](Promise!TypeOK /\ Promise!CountExact)` of `EventLedger` |
| `FlagCacheProofs!CacheTyped` | `Spec => []TypeOK` |
| `FlagCacheProofs!UpdatesAreAtomic` | `Spec => []UpdateAtomic` |
| `FlagCacheProofs!EvaluationsAdvance` | `Spec => []ReadsAdvance` |
| `FlagPollerProofs!PollerTyped` | `Spec => []TypeOK` |
| `FlagPollerProofs!OneTaskAtATime` | `Spec => []OneTaskPolls` |
| `FlagPollerProofs!StopsJoin` | `Spec => []StopJoins` |
| `EvaluationsProofs!EvaluationsTyped` | `Spec => []TypeOK` |
| `EvaluationsProofs!CacheStaysBounded` | `Spec => []CacheBounded` |
| `EvaluationsProofs!SkipsAreSafe` | `Unambiguous => (Spec => SkippedIsSent)` |
| `EvaluationsProofs!LocalResultsSurvive` | `Spec => NothingLost` |
| `EvaluationsProofs!FailuresAreTold` | `Spec => FailureShown` |
| `EvaluationsProofs!AccessesAreKept` | `Spec => []AccessedStays` |
| `EvaluationsProofs!CombosStayInBudget` | `Spec => []OncePerReset` |
| `FlagMatchingProofs!DisabledFlagsStay` | `Spec => DisabledStays`, which is about `Steady` flags |
| `FlagMatchingProofs!EnabledFlagsStay` | `Spec => EnabledStays`, about `Steady` flags without `early_exit` |
| `FlagMatchingProofs!DependenciesAgree` | `NamesApart /\ Spec => []DependencyAgrees`, about the dependencies of `Steady` flags |
| `FlagMatchingProofs!SharesDrift` | `Spec => []VariantShares` |
| `InlineRequestsProofs!InlineTyped` | `Spec => []TypeOK` |
| `InlineRequestsProofs!FailuresReported` | `Spec => []FailureReported` |
| `InlineRequestsProofs!DecisionsStand` | `Spec => DecidedNotResent` |
| `InlineRequestsProofs!SummariesAreTrue` | `Spec => []SummaryTruthful` |
| `EventPipelineProofs!CapturedIsSent` | `Spec => []WireFaithful` |
| `EventPipelineProofs!BothBuildsAgree` | `Spec => []BuildsAgree` |
| `EventPipelineProofs!ReportsAreSound` | `Spec => []ReportSound` |
| `PanicHookProofs!PanicsCapturedOnce` | `Spec => []CapturedOnce` |
| `FlagMatchingProofs!CaretRange`, `TildeRange` | what the bounds of the version ranges hold |

*TypeCorrect.* `TypeOK` is inductive because it carries two facts beside types: a
call never reserves more slots than it has events, and one still reserving has
fewer. The proof has a lemma for each group of actions (`CallStepTypes`,
`ReceiveTypes`, `DrainTypes`, …) over lemmas on the operators (`MarkType`,
`ReservedType`, `ChunksType`).

*QueueStaysBounded.* Only `ReserveSlot` raises `len`, and it tests the bound in
the same atomic step; everything the worker does lowers it or leaves it alone
(`DrainBound`, `RespondBound`, `FinishBound`).

*ShutdownsJoin.* `JoinedWorker` is not inductive: a loser that finds the handle
taken returns at once, so one must know the worker has gone whenever the handle
has and nobody is joining. The strengthening `HandleKept` says the handle is there
or somebody holds the mutex as long as the worker is alive. It rests on `join`
keeping its guard for the whole `if let`.

*EventsSorted, SlotsAreExact, FailuresReportedOnce, EveryEventHasItsPlace.* None of the three
properties is inductive, not even together: that a verdict gives back one slot for
each event of its batch is true only if the events of the batch are pending, in
no other batch, and not twice in this one. The invariant `Sorted` adds this. `Placement` has a
conjunct for each part of the program that holds events (`CallsPlaced`,
`ChannelPlaced`, `StoresPlaced`, `BatchesPlaced`, `CondemnedPlaced`, `WorkerPlaced`): the events whose
status names the place are those in it, and no two messages, chunks or batches share
one. With it a settling step knows the cardinality of what it settles, so that
the clamp in `Released` never takes effect, and `SlotAccounting` is preserved. `Condemned` events, those
a partial verdict dropped while their batch is retried, have a place of their own,
because `ReportedOnce` has to count them when the batch ends and not before. When it does,
`OnePerUuid` counts one of each uuid: of any finite set it is a subset with the same uuids, so whichever is
left out has a namesake that is counted. With distinct uuids it is the whole set, and
each refused event is counted.
Each store is read as a sequence of sets (`Carried`, `Pendings`, `Undelivereds`), and one
family of lemmas on such sequences serves all of them.

*OutcomesAreFinal, TransportKeepsPromise.* Every step of a state in `Sorted` is `Sound`: it
preserves the invariant, changes no settled status, and maps to one step of the ledger or to a
stutter. The ledger's five actions are told apart by the step: a reservation that finds room admits
one event, one that finds none refuses the rest of the call, and so on. A step that
settles some events of a batch and leaves others pending is one `Settle` of a set.

*TimersGuardStores, PanicsGoFirst.* Both are about the worker between two receives,
when its work list `todo` is what is left of the arm it took. `InTurn` says what the list
is worth: a store whose timer disagrees with it has its drain at the head
(`Timed`), a batch under way belongs to the head (`Attempting`), and as long as a
completion is in hand its signal is on the list, with nothing before it that attempts a due
retry (`Completing`). All this begins with the receipt of the flush, and so does `PanicFirst`. `Gone` is needed because the worker that has exited keeps its variables.

*FlushesAttemptAll.* The longest argument of the project. A flush waits for every
event accepted when it was sent (`owed`). `Flow` lists the ways in which a status
changes in one step, and shows that none leads back to an accepted status without an
attempt. From there the events a flush waits for are followed from place to place: in
the channel they are in messages ahead of its own (`Ahead`, which is where the FIFO order counts),
and once the flush is received they are in stores whose drains come on the work list before its signal
(`Serving`; `Covered` and `Due` say it for any set of events and any mark on the list). A worker
that leaves drains everything before it drains the channel and before it
exits (`Leaving`), and leaves nothing accepted (`Departed`). So whoever gives the answer, the signal or the
worker's exit, gives it after the attempts. `PanicHook` flushes are included.

*CacheTyped, PollerTyped* are the types the arguments below use, stated for themselves.

*UpdatesAreAtomic, EvaluationsAdvance.* `LocksHeld` ties each lock to the progress
of its updater, so at most one updater is inside (`OneUpdater`: it holds `flags`).
`HeldWritten` says a locked map has been written. Then whatever can be read is the
last published update, or cleared. `ReadsPublished` adds that nothing newer has
been read, and `Published` never decreases: a later read is as new, or cleared. That it is no newer is
not so (`OneSnapshot`, §6).

*OneTaskAtATime, StopsJoin.* `RunningKept`: before the first stop, `is_running` is
up from before the initial load until the task ends, so a start that passes the
check finds no live task. `RequestsPoll`: a request or an answer in hand belongs
to a polling task, so a thread that has exited has none.

*SkipsAreSafe.* `CacheBacked` is the strengthening: what the cache holds of a user was
reported, or is about to be by the thread that inserted it. The theorem has the
hypothesis `Unambiguous`, that no two combinations of flag and value print as the
same key. That it is needed §6 says, under the deduplication key; the theorem shows that nothing else is.

*LocalResultsSurvive, FailuresAreTold.* `Heeded` says what a call knows of the server's answer at
each stage, and that a failure is told when it is heard. It is about all the stages because the
two properties are about the step that ends the call, by any of its returns.

*AccessesAreKept.* `ChosenAccessed`: what `only_accessed` chose was accessed in the snapshot it
chose from, when the choice is made, and later, when it is accessed in the clone. The properties
of the source only grow meanwhile.

*CombosStayInBudget.* `shipped` alone is not bounded by an inductive invariant: between the
insertion into the cache and the enqueue the right to send is with a thread.
`Budgeted` counts both (`Spent`): at most one for each reset, plus one while the key is in the
cache. The readers may be infinitely many; that those with a claim are finite is part of the
invariant. It holds also when keys collide, which costs events and never adds one.

*DisabledFlagsStay.* `Steady` is part of the property, and needed: `is_set` takes a property that was not
passed for one that is not set, so that passing it turns a decided answer round. An answer that is not `Unknown` stays when more properties are
passed: first of a property (`PropertyKeeps`), from it of a cohort (`CohortKeeps`), of a
condition without cohorts (`PlainKeeps`), of a dependency (`DependencyKeeps`), and of a
condition of any kind (`ConditionKeeps`). `VerdictKeeps` is about the loop: outcomes of which
only the unknown ones change cannot turn disabled into anything else, because an
early exit counts only with nothing unknown before it. It rests on the order of the
conditions being total (`EarlierOrders`) and every set of them having a first one.
The invariant says that `results` are those of the last evaluation.

*EnabledFlagsStay.* The same chain of lemmas for the other answer: `Raised` is what raising rollouts does
to a flag, `Grown` what it and further properties do to the answer of a condition; from a property
(`OutcomeGrows`) to cohorts, dependencies and conditions with context (`PlainGrows`, `DependencyGrows`,
`InContextGrows`, `ConditionGrows`), to the loop (`VerdictMatches`). A match stays a match,
but a later condition may come to match first, so that the value may change and only that
it is on does not. `Hashed` adds that the hashes of the ids are numbers.

*DependenciesAgree.* `DependencyForetells` relates the two copies of the loop: with no properties
and no context, the first decides only what the second decides with both. It needs that a condition on a
cohort or on a third flag is unknown to the first copy. `is_condition_match` does not
look at the type of a property (`feature_flags.rs:668`): it takes it for one of that name. The person's
properties are empty there, a group's are not. If a group has a property named like the cohort or the
flag, a dependency is decided by its value, and the property fails: TLC finds it with a group property
named as the cohort. The names are the users' to choose, so `NamesApart`, that
no property of a group is named like a cohort or flag some flag looks at, is a hypothesis. The constants of
`MCFlagMatching` satisfy it.

*SharesDrift.* The edges are a rounded running sum, which is a recursive function here, as is the exact sum
they are compared with; `ExactSums` and `EdgesDrift` are inductions over the two, done as the absence of a least
counterexample (`UpTo`), and `SumsDef` and `EdgesExist` that the functions are what their equations say. `EdgesDrift`
has three parts: an edge is off by at most two roundings for each variant up to it, the quotient and the sum;
none is below the one before, because rounding keeps the order (`RoundMonotone`); and a share of 0 moves an edge nowhere,
because an edge is rounded already, and rounding it again does nothing. So the buckets are disjoint, that of an
unused variant is empty, and `SplitsHold` translates what bucket a rounded hash is in to where the hash is between
the exact sums. Neither that the percentages are whole nor that they are at most 100 together is assumed: beyond the
whole the last variants get what is left. The property is about users who got their
value from the variants; one whose condition names a variant gets that (`ValueOfMatch`).

*InlineTyped, FailuresReported, DecisionsStand.* One invariant, `CallGood` of each call,
serves the three. `CallTyped` bounds attempts and pauses and says that a call that
waits has an attempt left; `BackoffBounded` is the lemma on the pause, whatever the doubling
saturates to. `CallSettled`, the strengthening `DecidedNotResent` needs: the verdicts
known of a call under way are about none of the uuids it will ask for again. It holds
because `retain` and the verdicts split the uuids of an answer, shared uuids included.
`OneCall` reduces a step to the call that takes it. `CacheStaysBounded` above is
about an invariant that no run lists: the run's `OncePerReset` shows more.

*SummariesAreTrue.* `Honest` relates what a call knows to what the server has: of a call under way,
the verdicts collected so far, and the answer not yet handled, call persisted only
uuids of the batch which are stored (`ProgressHonest`); of a finished one, the summary (`SummaryHonest`).
Over V0 a 2xx stands for the whole batch. `store` only grows and is shared by all calls. That the
summary counts enough as lost is then a matter of numbers: uuids are at most as
many as the events that carry them (`FewerUuids`), which is why a shared uuid makes the count too high and
never too low. It needs that a batch is finite, as a `Vec` is (`InlineAssumption`).

*CapturedIsSent, BothBuildsAgree.* The invariant `Shape` says what an event can be at each stage:
well formed, dated once it is queued, and what is on the wire is what its build makes of it. The work is
in the operators. `V0Props` says in one expression what the properties of a V0 event
are, with `Under` for defaults that do not override, and the lemma `V1Props` the same of V1, options lifted;
the two are then compared key by key. The hooks are a recursive function (`HooksRun`): that an
event is dropped exactly when a hook drops it (`HooksDiscard`), and left alone by hooks that keep
(`KeepersKeep`), is an induction over the list, done as the absence of a least counterexample
(`UpTo`). That the survivors of a batch keep their order is `FlattenCloses`.

The comparison of the two builds is silent where they differ: `$lib` and the versions, which V1 tells in its
headers, and the options of a minimal event outside its allowlist (`minimal_leak`).

*ReportsAreSound.* `Reported` says of each stage that the event has the reserved properties of the report
it was made from: level, list, the fingerprint if its context has one, and its modules, which replace the
caller's unless there are none. The trace is followed through what the code does to
the frames. `ExpandedFrames`: what the walk makes of one physical frame is whole groups,
each frame an address and a module of its own or neither (`Made`). `FollowsOn` puts the groups of
any number of physical frames together. `ErrorCut` and `PanicCut`: the two strips, by address
and by name, remove a prefix and no more; every frame of it is inside one of the SDK's functions, by its own
name or its own or a further one's address, or in the hook the dispatcher called (`Inside`); and the
first frame left is none that the SDK can tell to be its own. The reverse of the rest is cut again
by `TrimmedFrames`, at a frame that leads its group: so the groups are whole (`WholeGroups`),
what is cut lies beyond `MAX_FRAMES` or belongs to the group there, and the rest ends where the walk does,
unless nothing is left. The images are filtered twice, before and after
the cut, which is the same as once after it (`SentFrames` and what cites it).

These two rest on `StacksAssumption`, what a stack looks like at a capture site. Nothing of the app
runs inside `capture_frames_current_first` or the two functions that call it, so the frames whose entry
address is one of theirs are the innermost of the stack, within the scan of 32, and a stack holds
those of one kind of capture. That the first 32 suffice is what `strip_pinned_prefix` counts on too; a build
that inlines more into them would keep some of its own frames, and the model would not say so. The panic
dispatcher is not named like a capture function: the two tests look for parts of names that no function has both of.
Nothing is assumed of the caller's properties. In a stripped build the SDK's callers of the capture functions have
no names and are no entries, so the trace may end with them, and the property says no more than that
whatever is told to be the SDK's is gone.

*PanicsCapturedOnce.* `HookFollows` says which hook the process has at each point of the
installation, `OneWinner` that only one `init_global` is past the `OnceLock`. `AccountOf` balances the books of a
thread: what it has counted, plus what the hook it is in has yet to do, is what its
panics are due. A panic begun before the installation runs the hook it found, which is
why `layers` and not `hook` is in it.

*CaretRange, TildeRange* relate the bounds computed by cases to the definition of the
ranges in semver, for all components below the width of the integers.

Only model-checked: the liveness properties (`CallersReturn`, `EventsSettle`, `CatchesUp`,
`CallReturns`, `PanicProceeds`), which the prover does not do. Every invariant and every
action property that a passing run checks is proved.

## 6. Where code and documentation differ

Three are runs that TLC finds violated.

1. **A slot can be lost at shutdown** (`slot_leak`, `transport.rs:606`). A capture
   that passed the `closed` check sends between the worker's last `try_recv` and
   the drop of its receiver. `send` succeeds, nobody receives, and
   `pending_events()` never comes back to 0.
2. **A failed payload call is not reported** (`payload_silent`, `async_client.rs:932`).
   `get_feature_flag_payload` answers `Ok(None)` to every status that is not a success, without a
   report and without a retry, where `common.rs:93` has each failed request reported.
3. **A minimal event carries options outside its allowlist** (`minimal_leak`, `v1_capture.rs:45`). V1 lifts the options
   from the properties first and applies the allowlist to what remains; `event.rs:14` says nothing
   added upstream can leak past it.

Nine more claims of the documentation are stated in the modules and not kept by the code. None has a
run of its own; TLC refutes each in the configuration named, given the property in
place of its own ones.

| Claim | Module, kind | In | What happens |
|---|---|---|---|
| `VerdictsReported` | `Transport`, invariant | `TransportQueue.cfg` with `FlushAt = 4` | `transport.rs:871`: a 2xx with a `drop` and a `retry` during the drain gives up the batch without `on_error` hearing of the dropped event; `client/mod.rs:252` has the hooks invoked once per terminal failure |
| `LossesCounted` | `Transport`, invariant | `TransportQueue.cfg` | `transport.rs:839`: failures are collected in a map by uuid, and `set_uuid` lets two events have one; of two refused, one is counted in the `event_count` that `on_error.rs:132` has as the number of events dropped |
| `PanicNotStarved` | `Transport`, property | `TransportQueue.cfg` | `transport.rs:594`: between the `$exception`'s `Capture` and the `FlushCaptures` behind it the worker attempts every retry that is due; `transport.rs:47` and `531` say a backlog cannot use up the hook's wait |
| `OneSnapshot` | `FlagCache`, invariant | `FlagCache.cfg` | `local_evaluation.rs:837`: cohorts, flags, group types and the gate are read one lock at a time, and a poll in between mixes two updates; `local_evaluation.rs:102` has the gate reflect the snapshot that produced the value |
| `StopSilences` | `FlagPoller`, invariant | `FlagPoller.cfg` | `local_evaluation.rs:376`: a second `start` overwrites the handle of the first thread, which `stop` does not join (`:436`) and which may write to the cache after it |
| `SkippedIsSent` | `Evaluations`, property | `Evaluations.cfg` with `Keys <- AmbiguousKeys`, `Answers <- AmbiguousAnswers`, `Filters = {}`, `Arguments <- LocalCalls` | `common.rs:154`: `beta` with the variant `test_true` and `beta_test` enabled have one deduplication key, and the second is never reported (`:119`) |
| `HashBelowOne` | `FlagMatching`, invariant | `FlagMatching.cfg` | `feature_flags.rs:456`: the 64 largest values of 60 bits round up as doubles to 1, and such a user gets no variant of a flag whose variants take 100 percent; the doc says `[0, 1)` |
| `FingerprintOwn` | `EventPipeline`, invariant | `EventPipeline.cfg` | `error_tracking.rs:593`: the caller's `$exception_fingerprint` is written over only by one of the options; `:405` says reserved properties cannot be overridden |
| `CrashKept` | `EventPipeline`, invariant | `EventPipeline.cfg` | `error_tracking.rs:1036`: where more frames than `MAX_FRAMES` are inlined at the crash, trimming takes the whole trace; `:1025` has the frames nearest the crash kept |

The models have more states that a reader of the documentation may not expect.
A property's precondition or the definition named shows each.

*Flag pollers.*
- A late `load_flags` undoes a poll (`local_evaluation.rs:663`), and the poll's ETag then
  turns every later answer into a 304 until something new is published. `CatchesUp` shows
  that the overlap is the only cause.
- `stop_signal` is never cleared, so a stopped poller cannot be restarted (`:439`).
- A cancelled `AsyncFlagPoller::start` leaves `is_running` true with no task (`:515`).

*Flag matching.* A condition that matches after one that could not be decided enables the
flag, although the undecided one, known, might have ended the loop by `early_exit`; the
comment at `feature_flags.rs:641` has an inconclusive condition fall back to the server in
the opposite case only. So `EnabledStays` is for flags without `early_exit`. Dependencies
are evaluated with no properties, so a flag that asks whether a property is set is
decided wrongly when another depends on it, and a flag of its own that asks so is decided while the property
is not known and otherwise once it is (`Steady`). They are also evaluated
with a condition on a cohort or a third flag taken for one on a property of that name, which a group
may have (`NamesApart`, §5). Of a nested group of a cohort
only the first property counts (`Parsed`), and of its AND or OR nothing. Ten variants of
10 percent end below 1 (`Drift`), so that the highest hashes of a flag that gives a variant to everybody get none.
The upper bounds of version ranges overflow for
the largest component.

*Calls that send for themselves.*
- `capture_immediate` returns `Err(Serialization)` at the first 2xx it cannot parse, and an `Err`
  of a later attempt after an earlier one has settled part of the batch: the verdicts are lost
  with it (`ReceiveRefusal`).
- With `local_evaluation_only` and no evaluator, `get_feature_flag` asks the server
  (`GetFeatureFlag`).
- Duplicate uuids are counted as not persisted more often than they are: `SummaryTruthful` is an
  inequality.
- A 502 or 504 that outlasts its retries is reported by `get_feature_flags` as any other
  refusal. `get_feature_flags` sends `disable_geoip`, `evaluate_flags` `geoip_disable`.

*Events.*
- V1 adds `$geoip_disable`, `$is_server` and the `$os` properties again after `before_send` took them
  away; V0 adds them before. `BuildsAgree` leaves out hooks that take properties.
- V0 overwrites the caller's `$lib_version__minor` and `__patch` when `__major` is absent (`Carried`).
- A V0 immediate capture sends no timestamp (`Occurred` is about the queue).
- `$debug_images` of the caller survive when no frame has an address (`ImagesMatch`).

*Panic hook.* Between `take_hook` and `set_hook` the process has the standard hook: a
panic then runs that one and not the app's, and a hook that another library sets there is
lost (`TakeHook`, `SetHook`).

## 7. What is not modelled

- The warning when the queue is full, logging and tracing.
- JSON text, URLs, headers other than `Retry-After` and the encoding, the encodings
  themselves, the text forms of an HTTP date, the texts of errors.
- The request body of `/flags` and the normalisation of its response, which has two formats.
- Unwinding, symbolication and the enumeration of loaded modules: they are external crates, and
  what they return is an input of `ExceptionReport`.
- What the allocator and a second panic inside the hook would do.
- Real time: lengths of intervals, backoffs and timeouts. Their order is
  unconstrained, which includes every real one.
- Memory order weaker than sequential consistency. The counter and `closed` are
  single atomics; what `Relaxed` leaves open on the gate is closed by the locks.
- In `Evaluations`: payloads, ids, reasons, the gate of a record, the warnings; a dropped
  future of `evaluate_flags` leaves nothing behind.
- In `FlagMatching`: the two date operators, whose answer changes with the time; how text
  is compared, searched and matched; the text of versions; SHA-1, in whose place any
  function is allowed.
- The components marked `not_modelled` in `PROJECT.json`, for the reasons there.

## 8. Plan

Done: `EventLedger`, `Transport`, `FlagCache`, `FlagPoller`, `Evaluations`, `FlagMatching`,
`RetryPolicy`, `InlineRequests`, `WireEvents`, `ExceptionReport`, `EventPipeline`, `PanicHook`, and proofs
of every safety property their runs check. Next, in this order:

1. `FlagMatching` composed with `FlagCache`: an evaluation whose definitions, cohorts and
   group types are of two snapshots.
2. The two formats of the `/flags` response and their normalisation into records, as
   operators that `Evaluations` and `InlineRequests` share.
