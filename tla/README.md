# A TLA+ verification of whymiss

whymiss watches an Ethereum validator through its beacon node. It collects what
happened around each attester duty, stores it in SQLite and explains why a duty
was missed or lost rewards. This directory holds TLA+ models of the daemon
and of the fault injector that records its test corpus, the TLC runs that check
them on small instances, and TLAPS proofs, for every value of the parameters, of
every safety property that those runs find to hold.

`PROJECT.json` maps every definition to the Go lines it models, and lists the
runs, the mutants, the findings, the hazards and the theorems.

## 1. The system

Paths are relative to `src/internal/`, those that begin with `tools/` to `src/`.

| Part | State it keeps | Operations | Interacts with |
|---|---|---|---|
| Duty tracking (`app/duty_tracking.go`) | the epoch being tracked, one goroutine per duty with a failure flag | fetch the duties of an epoch, track one duty | beacon node, store, engine, exporter |
| Watch (`app/watch.go`) | context, wait group, fatal errors | start, slot clock, sampling and retention loops, shutdown | starts everything else |
| Beacon API client (`source/beaconapi/`) | rate limiter queue, five single-flight caches, stream | polls with deadlines, inclusion scan, payload votes, event stream | called by every collector |
| Store (`store/`) | tables `observations` and `samples`, schema version | write, read, prune by age and size, migrate | shared by all goroutines, and by other processes on the same file |
| Timeline assembly (`timeline/`, `app/timeline.go`) | the rows of one slot and one validator | select, add, build, validate | reads the store, feeds the engine |
| RCA engine (`rca/`, `rca/rules/`) | none (pure) | thirteen ordered rules, outcome, verdict | called by duty tracking and by `whymiss timeline` |
| Exporter (`exporter/`) | metrics of the verdicts | record | called by duty tracking |
| Metric collectors (`app/blocktiming.go`, `app/networkbaseline.go`, `source/`) | last counters, engine baseline | one scrape per head | fed by a fan-out that drops heads |
| Clock (`clock/`, `app/clocktracker.go`) | the last good NTP reading | sample, stamp rows | every row passes through it |
| Fault injector (`tools/faultinjector/`) | a fault on a devnet, the goroutines of one run, the files of its record | apply, watch, revert, write | docker and tc, two beacon nodes, the engine |
| `corpusctl` (`tools/corpusctl/`) | none | validate a record | reads what the injector wrote |

What is hard about it:

* **Restarts.** The store outlives the process and has no unique keys. A duty
  that is in flight at a restart may be tracked again.
* **Two clocks.** Windows are computed from the wall clock and waited for on
  the monotonic clock. The wall clock may be stepped meanwhile.
* **Absence as evidence.** "Missed", "skipped" and "no loss" are conclusions from
  rows that are *not* there. A lagging node, a failed request or a lost write
  must not look the same.
* **Concurrency.** Polls of one duty, duties of one slot and all collectors share
  the rate limiter, the caches and the store.
* **Two processes, one file.** `whymiss timeline` opens the database that the
  daemon writes and prunes, and either may be the one that migrates it.
* **Bounded channels and caches.** Heads are dropped, entries expire or are evicted,
  while somebody still depends on them.
* **Undoing.** A fault on a devnet must be removed however a run ends, and a
  record is several files.
* **Rules in order.** Thirteen rules over partial evidence, where the first match
  wins; an overlap or a gap between them is a wrong accusation.

What makes each part correct:

* duty tracking: one completion marker and one truthful verdict per duty, every
  goroutine ends;
* rate limiter: grants at a distance, in order of arrival, no lost wakeup;
* engine: no blame on incomplete evidence or on an untrusted clock, one layer at
  most, the outcome agrees with the cause, every verdict is valid;
* caches: the answer belongs to the key and is not too old, no waiter is stranded,
  a request in flight is shared and never evicted;
* store: a timeline that can be read has lost none of its rows, pruning reaches its
  limits and deletes no more than it must, no process works on a schema that is not
  its own;
* collectors: Engine work filed under a slot was done under the head of the slot
  before or a later one, a row is corrected once;
* fault injector: no fault is left behind, a record is made after the revert, tells one
  story, and is whole or refused.

## 2. Modules

| Module | Contents |
|---|---|
| `DutyTracking` | the daemon around attester duties: process, epoch loop, goroutines, node, store, exporter |
| `VerdictLedger` | the abstract promise: at most one verdict per duty, and a definite one is true |
| `MCDutyTracking` | its instances |
| `DutyTrackingProofs` | its theorems |
| `RateLimiter`, `MCRateLimiter`, `RateLimiterProofs` | the request rate limiter |
| `Attribution`, `MCAttribution`, `AttributionProofs` | the RCA engine on the timelines that collectors can produce |
| `ReadThrough` | the abstract promise of a cache: an answer is true of the node, about the slot asked, and not too old |
| `ResponseCache`, `MCResponseCache`, `ResponseCacheProofs` | the five single-flight caches of the Beacon API client |
| `EvidenceStore`, `MCEvidenceStore`, `EvidenceStoreProofs` | the SQLite file under two processes |
| `HeadCollectors`, `MCHeadCollectors`, `HeadCollectorsProofs` | event stream, fan-out of heads, clock stamping, block timing and Engine windows |
| `FaultInjector`, `MCFaultInjector`, `FaultInjectorProofs` | one run of the fault injector, and the validation of what it writes |

### DutyTracking

Time is counted in slots. `now` is the monotonic time and the wall clock reads
`now + skew`. `TimerFor(t)` is how `time.After(time.Until(t))` behaves: it fixes a
monotonic wake-up from the wall-clock distance.

* Environment: `Tick`, `ClockStep`, `NodeAdvances`. The canonical chain is
  fixed in `Init`; the node sees a prefix of it (`head`) and may lag. Any request for
  a header may be answered with one that is `execution_optimistic` or not canonical,
  which `fetchHeader` reports as absent (`PollMiss`, `BlockWithheld`).
* Process: `Start`, `Crash`, `Stop`, then `LoopReturns` and `CancelTask` for
  every wait that sees the cancelled context, then `Exit`. A crash forgets every
  goroutine and keeps the store.
* `runDutyTracking`: `LoopTop`, `FetchFails`, `FetchSucceeds`, `SkipDuty` and
  `AssignDuty` (one per duty, guarded by `DutyWindowOpen`), `LoopSleeps`,
  `LoopWakes`.
* `trackDuty`, one per element of `Duties \X Copies` (`Copies` are identities for
  goroutines tracking the same duty): `SlotReached`; the three concurrent polls
  (`BlockFound`, `HeadFound`, `HeadPassed`, `PublishedFound`, `PollMiss`,
  `PollFails`, `PollGivesUp`, and for `BlockSeen` the recovery after its deadline:
  `BlockDeadline`, `NodeReady`, `BlockStatusError`, `BlockRecoveryExpires`, and, as a
  request of its own, the second lookup: `BlockConfirmed` or `BlockWithheld`);
  `PollsJoined`; `InclusionScan`, `InclusionError`, `InclusionDeadline`;
  `PayloadStep`; `WindowClosed`; `WriteMarker` or `NoMarker`; `ExplainSucceeds` or
  `ExplainFails`.
* Every write may fail (`CollectionError`); a failure sets the task's flag and
  with it suppresses the marker.
* The store is the set of rows that decide whether a timeline is valid, complete
  and a miss; the completion rows are counted. `deaf`, `marked` and `withheld` (slots
  whose header was withheld at the second lookup) are history variables that only
  properties read.

### RateLimiter

A call of `wait` is a caller; `run` is a runner identity. The mutex is the
atomicity of the actions: one action per critical section of `wait` and `run`, so
the check of `running`, the append and the start of the goroutine are one step,
while the timer runs outside the lock. A cancelled caller leaves its waiter in
the queue, as in the code. `ticket` and `grantedAt` are history variables.

### Attribution

`Analyze(tl)` is the engine: thirteen rules, each an operator that returns
`Declined` or a draft, the list `Order`, `FirstMatch`, the outcome, `Finish` with
`Valid` (`Verdict.Validate`) and `SafeFallback`. The state is one slot's timeline
to which `AddRow` adds rows in any order, so an invariant speaks of the verdict on
every subset of rows. Clock provenance is a status per kind of row.

Only attester duties are modelled: no code path produces a proposer duty or a
`block_proposed` row (`selectDutyObservations` and `Replay` build attester duties
only). A host sample is its resource: the latest value above its threshold.
Evidence text, remediation and versions are left out. An absent
`head_correct` occurs only in rows replayed from older collectors.

### ResponseCache and ReadThrough

Block bodies, canonical roots, head polls, committees and the latest head are kept by
five pieces of code that are one algorithm: look up under the mutex, join an entry in
flight, or insert one and ask the node. They differ in lifetime, in whether the
number of fetches is bounded, whether entries are evicted, and whether the
expected number of committees is part of a match. `policy`, chosen in `Init`, is
one of the five; how a fetch talks to the node has its own actions for each
(`BodyFound`, `BodyMissing`, `FallBack`, `LegacyFound`, `RememberUnsupported` for
block bodies and the detection of the attestations-only endpoint; `RootLookback`;
`HeadPollAgain`; ...). One action is one critical section or one answer of the node;
a waiter returns in the step that closes its channel, so the delay until its goroutine
is scheduled is not part of the age of an answer.

Each slot has a version: odd while the node holds a block there, even while it does
not. An answer is the version that was read, and `until` says when the node gave a version
up. `ReadThrough` has only the node, the calls and the answers: a call ends with an error
or with an answer that is about the slot asked (or one in reach of the look-back), says
truly whether there was a block, and was true of the node less than `maxAge` before
the call. One answer is exempt, by the variable `vague`: a head poll goes on when a request
fails or its header is withheld, returns "not found" without an error at its deadline
(`HeadUnanswered`), and caches and shares that, so its "not found" may say
nothing of the node. `ResponseCache` implements the promise with `maxAge` the entry's lifetime plus
the duration of a request, and `asked` its `key`.

### EvidenceStore

The daemon and the command go through `Open` (`OpenFile`, `ReadVersion`, `Migrate` or
`MigrateFails`, `Validate`), each step a transaction or query of its own. A schema is the
set of objects its migrations have added. The daemon writes rows and prunes:
`PruneStart`, `PruneByAge`, `PruneBySize` and `PruneReclaims`, one transaction per
batch, with a checkpoint that a reader can make fail. Rows that agree on time and
table go in any order. The command reads one slot with three queries
(`ReadObservations`, `ReadReorgs`, `ReadSamples`). `Leave` is a normal end as well
as a crash. `written` and the fields `asof` and `torn` of `query` are history.

### HeadCollectors

The execution client validates blocks (`NewPayload`), in any order and some off the
chain; a validated block may become the head (`BlockImported`), which sends a head event,
and the execution client is told of it (`ForkchoiceUpdated`). `conn` is the connection of
`streamOnce` with its idle timeout, failures and reconnects; `Handle` is the event loop of
`Watch`, which stamps a head, stores it and offers it to the collectors through a
channel of one place (`Send` drops it when the place is taken); `PolledHead` is the
same offer by duty tracking. `TakeJob`, `GaugeRead`, `GaugeFails`, `CountersRead` and
`CountersFail` are `runBlockTiming`. Engine counters are the set of calls they
have counted, each with its method, its block and the node's head when it was made,
so that a window knows whose work it holds; a window is evidence when both
methods' counts advanced. The gauge of block arrivals is tied neither to a slot nor to
imports (ADR-0022): `GaugeRead` may find any delay that has occurred so far. The clock of the host is
off by `Offset`, and `StampClock` corrects a row once, if the last sample is near.

### FaultInjector

`RunScenario`: `Prepare`, `PreflightPeering`, `CollectEngineBaseline`, `ChooseDuty`,
`SampleClock`, `SampleEngineBefore` and `StartObservers` before the fault; `ApplyCommand`
and `Unapply` (the clean-up in `Apply` itself); `Launch`; the goroutines: `TimerFires` and
`Lock`/`RevertCommand`/`Unlock` (`doRevert`, also called by the deferred function), the
polls, the samplers, and two head observers; the main goroutine's `JoinPolls`,
`AwaitRevert`, ..., `Complete`; then `BuildObservations` and `AtomicWriteFile`, one
file each. A signal (`Interrupt`) may come at any moment; a command that is running
then is killed and may or may not have had its effect. `placed` is what the fault
has on the devnet. Time counts the instants of the duty that matter; between two of them
a goroutine that need not wait goes on (`WaitIsOver`), while commands and
requests last as long as they like. A scenario's label may have a cause, or a
confidence or parent cause, that is not in the taxonomy: the writer asks only that there is one,
while `corpusctl` (`ValidateManifest`, `ValidateObservations`, `ValidateScenario`) looks it up.
The directory may hold what earlier runs, also
interrupted ones, have left. `failed` and `lost` are history: an attempt to undo
failed by itself, and the interrupt came while `Apply` was at work.

## 3. Runs

| Run | Checks | Instance |
|---|---|---|
| `duty_restart` | `TypeOK`, `OneCompletion`, `DutyTrackedOnce`, `VerdictMatchesChain`, `BlockRowsMatchChain`, `ImplementsLedger` | two process lives, two goroutine identities, crashes and stops everywhere, a lagging node that may withhold headers, ePBS |
| `duty_liveness` | `EveryTaskEnds` | a node that may never answer, one step of the wall clock, under fairness |
| `duty_skipped` | `SkipIsCanonical`, violated | see Findings |
| `duty_answered` | `CompletionMeansAnswered`, violated | see Findings |
| `rate_limiter` | `TypeOK`, `Spacing`, `NoOvertaking`, `OneRunner`, `WaitReturns` | three callers, two runner identities, interval of two ticks |
| `attribution` | `TypeOK`, `ClockGate`, `CompleteBeforeBlame`, `OutcomeAgreement`, `LayersExclusive` | about 570 000 timelines |
| `verdict_valid` | `VerdictValid`, violated | see Findings |
| `response_cache` | `TypeOK`, `SingleFlight`, `CacheBounded`, `WaitersHaveLeader`, `ImplementsReadThrough`, `CallsReturn` | five caches, two callers, three slots, a block that appears and is reorganised away |
| `evidence_store` | `TypeOK`, `SchemaMatchesVersion`, `OpenIsCurrent`, `PruneMeetsLimits`, `PruneKeepsWhatFits`, `ReadableIsWhole` | two processes, three migrations, seven rows, crashes everywhere |
| `head_collectors` | `TypeOK`, `RecentWork`, `SeenBeforeHead` | three slots, one fault of the node, the connection or an event |
| `engine_window` | `CallsOfOwnBlock`, violated | see Findings |
| `fault_injector` | `TypeOK`, `NoFaultLeft`, `RecordedAfterRevert`, `OneStory`, `AcceptedIsOneRun`, `PublishedIsAccepted`, `RunReturns` | four scenarios, an interrupt at any moment, every command and request may fail |

Bounds, and why they are enough:

* Duty tracking: epochs have two slots, the duty is in slot 1, its inclusion window is
  2..3 and its deadline is 4 or 5. All comparisons of slots in the code are against these
  instants, and `MaxTime = 5` lets the deadline pass. The duty's epoch, the next
  one and the boundary between them occur. In `duty_liveness` an epoch is one
  slot and the wall clock may be stepped once; the properties of `duty_restart`
  are without steps; the proofs of the two about evidence hold with steps too.
  `MaxStarts = 2`: the second life meets the rows of the first. Two `Copies`
  are the fewest that can show a duty tracked twice. Chains: with or without a block in
  the duty slot and always one behind the window, so that the node can be seen to have
  passed it.
* Rate limiter: three callers give a queue with a cancelled waiter in its middle;
  `MaxTime` bounds only the idle clock, an interval always runs out. Two runner
  identities show a second goroutine if there is one.
* Attribution: for each kind of row, values on both sides of each threshold that
  matter to some rule (an arrival before and after the deadline of 4, durations
  that make each stage dominant, a delay of 1 and one above 5, a thin and a solid
  baseline). Every cause of the taxonomy is reached.
* Caches: a caller calls again and again, so two callers give a leader, a
  waiter, and a hit on what an earlier call left; with one entry kept, two slots
  overflow a cache of two fetches and fill one of a single fetch (head polls). Two
  ticks let an entry of lifetime 1 expire while a request is in flight.
* Store: `MaxAge = 2` in four ticks and a budget of four rows for seven make both kinds
  of pruning happen, with `Batch = 2` ending within a slot. The first file may be new, of
  every earlier version, or of a later one.
* Collectors: three consecutive slots are the fewest in which a head is dropped and
  a window could span it. A block may arrive later than the next slot's start.
* Fault injector: the four scenarios have between them every shape of `Apply`
  (one command, three commands of tc, a cgroup file with a helper, a clock
  offset), every sampler, both observers, both proposer constraints, and durations shorter
  and longer than the polls.

`CHECK_DEADLOCK FALSE` is stated because these systems do stop: the bounded clock
ends and the process is down, all callers have returned, a timeline is full, a run of
the injector has returned. Symmetry on `Copies` is used where no liveness is checked.

Fairness. `DutyTracking!Fairness` has time pass, cancelled waits return, and each
goroutine take a step that is enabled without the node (a timer, a deadline,
the scan of blocks that are there, a database call): Go's scheduler runs runnable
goroutines, and requests and database calls carry a context with a timeout. No
request is assumed to be answered, or to fail. `RateLimiter!FairSpec` has time pass
and each unblocked goroutine run. `ResponseCache!Fairness` has time pass and a call that
fetches go on: its request is answered or fails, because every request has a
timeout; no caller is assumed to be cancelled, so waiters return only because their
leader does. `FaultInjector!Spec` has the run go on as long as one of its
steps can be taken: docker and tc commands, and requests, are assumed to end. An
interrupt, an answer of the node or an event is never assumed.

## 4. Findings

Each has a run whose trace shows it.

1. `duty_answered`: the head poll and the pool poll drop every request error. At
   the deadline they report absence without an error, so a duty is marked
   "every required observation query ran successfully" (`domain/observation.go:68`)
   although a query was never answered.
2. `verdict_valid`: an attestation included after more than five slots with a wrong
   target earned no flag. `deriveOutcome` calls it degraded, `Verdict.Validate`
   rejects that, and `safeFallback`, "valid by inspection", repeats the same
   outcome and flags. The cause that a rule found is lost and an invalid verdict is
   returned.
3. `duty_skipped`: whether the node is ready and whether it has the header are two
   requests (`blocks.go:433`, `450`), and a header that is `execution_optimistic` or not
   canonical counts as absent (343). A node that turns optimistic in between gets
   `block_skipped` stored for a slot with a canonical block, where
   `docs/causes.md:227-228` asks that the lookup "returns 404". What does hold is
   `BlockRowsMatchChain`, which exempts exactly the slots whose header was withheld.
4. `engine_window`: the Engine counters of a head are read when the collector gets to
   it. If the next block has been validated by then, its calls are recorded for the
   earlier slot, although work of several blocks "must never be attributed to one duty
   slot" (`app/blocktiming.go:103-106`). What does hold is `RecentWork`.

Noted while modelling, without a run of their own:

* Duty tracking: with a wall clock that is stepped back during the sleep between
  epochs the same epoch is fetched again, its duties are tracked twice, and two
  markers make the timeline invalid; `DutyTrackedOnce` and the proofs of it and of
  `OneCompletion` assume `MaxClockSteps = 0`.
* Engine: R-120 blames the payload without looking at the duty's own attestation rows
  (`docs/causes.md:309-310` has the local stack working); a tie of payload votes counts
  as absent with high confidence, where `docs/causes.md` speaks of a majority; the
  derivation of confidence in its section 4 is not the one of R-011, R-400 and R-600;
  R-110 without a baseline answers `insufficient_data` also on a healthy duty; the
  comments on outcomes at `domain/verdict.go:25-33` and `validateFlags` differ about an
  included attestation without flags.
* Caches: the inclusion scan may read a body up to a minute old, where its comment
  speaks of the current canonical block. Committees are exempt from `SingleFlight`:
  another expected count replaces an entry in flight.
  A head poll none of whose requests was answered leaves "not found" in the cache for
  every duty of the slot.
* Collectors: `SampleBlockTimingForSlot` compares `beacon_head_slot` and returns another
  series, so its "without ever assigning a stale or future slot's value to it"
  (`source/peers.go:50-51`) does not hold; ADR-0022 states the stale half as a residual gap.
  A stored `block_seen` is therefore not claimed to be its own block's arrival, only
  not to lie after its head (`SeenBeforeHead`).
* Store: of two processes that create a database at once one may fail with "table
  already exists"; its next `Open` succeeds. `duty_assigned` is older than
  `slot_start` and can be pruned before it: a slot is then answered without that duty,
  or the one duty that is left is chosen by itself. The three queries of a timeline
  share no transaction, so a batch deleted between them tears a read (`torn`).
* Fault injector: an interrupt during `Apply` can leave the fault or its helper in
  place, because the clean-up uses the cancelled context or nothing is there to revert
  yet (`lost`); the comment at `tools/faultinjector/main.go:242` promises the
  devnet's state "regardless of how it returns", which holds from `Apply`'s return
  on. A second revert of a cgroup fault with a helper reports an error although the
  limit is restored, since the helper is already gone. The thirty seconds of the last
  revert run while it waits for the lock. Nothing checks that `Apply` ended before
  the slot began, or that peering lasted after the preflight. Samples of an earlier run
  stay when a later one has none, and the record is then refused; so is one whose label
  misspells a cause or a confidence, which neither `Scenario.Validate` nor
  `validateCorpusWrite` looks up, and with a misspelt confidence the run even reports
  success (the two exceptions in `PublishedIsAccepted`).

## 5. Proofs

| Theorem | States |
|---|---|
| `DutyTrackingProofs!TypeCorrect` | `Spec => []TypeOK` |
| `VerdictsTruthful` | `Spec => []VerdictMatchesChain` |
| `BlockRowsTruthful` | `Spec => []BlockRowsMatchChain` |
| `CompletesOnce` | `Spec => []OneCompletion` if `MaxClockSteps = 0` |
| `TrackedOnce` | `Spec => []DutyTrackedOnce` if `MaxClockSteps = 0` |
| `Implementation` | `Spec => ImplementsLedger` if `MaxClockSteps = 0` |
| `RateLimiterProofs!TypeCorrect` | `Spec => []TypeOK` |
| `GrantsSpaced`, `GrantsInOrder`, `RunnerUnique` | `Spacing`, `NoOvertaking`, `OneRunner` of the rate limiter |
| `AttributionProofs!TypeCorrect` | `Spec => []TypeOK` |
| `ClockDiscipline`, `BlameWaits`, `OneLayerBlamed`, `OutcomesAgree` | `ClockGate`, `CompleteBeforeBlame`, `LayersExclusive`, `OutcomeAgreement` |
| `ResponseCacheProofs!TypeCorrect` | `Spec => []TypeOK` |
| `FlightIsSingle`, `NobodyWaitsInVain`, `BoundsHold` | `SingleFlight`, `WaitersHaveLeader`, `CacheBounded` |
| `Implementation` | `Spec => ImplementsReadThrough` |
| `EvidenceStoreProofs!TypeCorrect` | `Spec => []TypeOK` |
| `SchemaFollowsVersion`, `OpenedIsCurrent` | `SchemaMatchesVersion`, `OpenIsCurrent` |
| `PruneIsComplete`, `PruneIsFrugal`, `TimelineIsWhole` | `PruneMeetsLimits`, `PruneKeepsWhatFits`, `ReadableIsWhole` |
| `HeadCollectorsProofs!TypeCorrect` | `Spec => []TypeOK` |
| `WorkIsRecent`, `BlockPrecedesHead` | `RecentWork`, `SeenBeforeHead` |
| `FaultInjectorProofs!TypeCorrect` | `Spec => []TypeOK` |
| `DevnetIsRestored`, `RecordFollowsRevert`, `StoryIsOne` | `NoFaultLeft`, `RecordedAfterRevert`, `OneStory` |
| `AcceptedIsWhole`, `PublishedIsWhole` | `AcceptedIsOneRun`, `PublishedIsAccepted` |

Each proof has the same shape: an inductive invariant in named parts, one lemma per
part (or per action) that a step keeps it, and theorems that read off the property.
Every invariant was checked by TLC on the instance of its run before it was proved.

**Assumptions.** `DutyConstants` types the constants and has the
observation window close no later than the collection window (3 slots against at least
35 in the code). `LimiterConstants` wants a caller and a natural interval.
`Attribution` types the rows, takes the dominance threshold between 50 and 90
percent as the configuration does, and has at most one inclusion row per duty.
`CacheConstants` has a positive lifetime and keeps no more entries than it allows
fetches, as the constants of the client do. `StoreConstants` has no two migrations add
the same object and none add nothing (`migrations.go`), samples carry no slot,
`slot_start` carries no validator, and age limit, batch and budget are positive, as
`Prune` and its callers demand. `CollectorConstants` has a slot last and the
collector remember at least one. `InjectorConstants` has every scenario pass
`Validate`, as reading one does (`scenario.go`), with some candidates, samples and
attempts.
No bound on time, versions, rows, callers or slots is assumed: those that the runs need
are naturals of any size here (a poll's deadline alone has to lie within `MaxTime`).

**Truthful verdicts.** `VerdictMatchesChain` is not inductive: the verdict is read
from rows. `EvidenceInv` adds that a task past the scan with no failure, and every
completed duty, accounts for the vote: it was not included, or the store has the
row. The step that needs the code's care is `InclusionScan`: it is only taken when
the node's head is past the window, so nothing that the window includes is
invisible. No assumption about clocks is needed. `BlockRowsTruthful` is the same
argument for `block_skipped`: `ConfirmInv` has the node past the slot once it was found
ready, so a second lookup that finds nothing means that there is no block or that the
header was withheld, which `withheld` records.

**One completion, and the refinement.** `SteadyInv` adds `LoopInv` and `OnceInv`. A
duty that is still to be spawned has no task, because tasks belong to earlier
epochs while the loop is at its top; a marker exists only when the collection
window is closed on the wall clock; and then `DutyWindowOpen` is false, so no
later life tracks the duty again. That is where the wall clock must not go back.
The refinement mapping is the identity on `inclusion`, `verdict` and `records`:
`ExplainSucceeds` maps to `Record`, every other step to a stutter.

**Rate limiter.** `LimiterInv` has one part per theorem: `RunnerInv` (`running` says
exactly that a goroutine is in `run`, and a queue implies it), `IntervalInv`
(every grant is an interval before `next`, and `next` is over at a grant), `QueueInv`
(the queue is in order of arrival, behind everyone granted, and holds everyone who
waits).

**Attribution.** The invariant is about the rows (`IInv`: the shape of the timeline,
the filter on duty rows, one inclusion). The rest are lemmas about the engine
for every timeline of that shape: `CauseOrigin` (a cause comes from its rule, and
every earlier rule declined), `GatesPassed` (past the first two rules the evidence
is complete and the clock trusted), `OneDominantStage` and `LateNotTimely`
(two rules about durations exclude each other), `FulfilledDuty` (the two
definitions of a loss agree).

**Caches.** `SingleFlight` and `WaitersHaveLeader` need to know who a leader is: in
`FlightInv` an entry in flight names a call that fetches for just this slot and count.
`BoundInv` adds that the entries are finitely many, without which their number cannot
be reasoned about. The refinement is about age, and no entry alone shows it:
`Held(slot, v, t)` says that the node held version `v` at `t` or later, `ReadInv` has it
for an answer that a call has read at most a `Timeout` ago, `EntryInv` for what an
entry keeps, and the lookup accepts an entry within its lifetime. A call that returns
is then a step of `ReadThrough` that answers itself and, if it leads, those that wait
on it; ticks and changes of the chain are its environment steps; all else stutters.
What the look-back over skipped slots answers stays within `Reach` (`RequestInv`).

**Store.** `SchemaMatchesVersion` needs that a migrating process has read a version no
larger than the file's (`VersionInv`); the step that matters is the one that finds
the version moved by another process. `PruneInv` is what each phase of `Prune`
has reached; that a size batch is frugal rests on counting (`CountInv`: pages free or
deleted were written once) with the library's facts on cardinality. `ReadableIsWhole`
needs `KeptInv`: nothing younger than a `slot_start` that is kept was ever deleted.
That is so because a batch takes the oldest rows. `ReadInv` carries it through the three
queries of a reader, up to a batch that comes between (`torn`).

**Collectors.** `RecentWork` rests on `HeadsBehind` (no head on its way, in the
buffer, the channel or the collector, is ahead of the node's) and `WindowComplete`
(the counters of the last scrape include all work done under heads before their slot);
a window is only used for the slot right after it. `SeenBeforeHead` rests on `StampedOnce`: a head
that was corrected by the stream's goroutine is the one that was stored.

**Fault injector.** `NoFaultLeft` needs to know what whoever is undoing has still
before it: in `LockInv` and `ApplyInv` all that is in place is in `todo` of the holder of
the lock, unless something failed, and `reverted` means an empty devnet. `RecordInv`
ties the places of the main goroutine after `AwaitRevert` to the timer's
success. `AcceptedIsOneRun` needs `DirInv`: the directory is what some earlier run left,
overwritten by a prefix of this run's files in the order they are written, so the
manifest, which is last, cannot match a mixture.

**What the proofs changed.** In the model of the injector `AwaitPressure` reset the peer
sampler's count of attempts, which the code keeps apart; the count is now the sampler's
own loop variable, and its bound is part of `TypeOK` and of the theorem. `TypeOK` of the four modules states full types
of records and functions. The constants' assumptions named above were implicit.

**Model-checked only.** Liveness (`EveryTaskEnds`, `WaitReturns`, `CallsReturn`, `RunReturns`): fairness and ENABLED are outside the
prover's reach. `CompletionMeansAnswered`, `SkipIsCanonical`, `VerdictValid` and
`CallsOfOwnBlock` do not hold (section 4). Every other property of a run has a theorem.

## 6. What is not modelled, and the plan

Limits of the present models:

* `DutyTracking`: the chain is never reorganised; instances have one duty; the
  caches behind the queries answer like the node; only the rows that decide
  completeness are in its store; timestamps are not corrected by NTP. That a shutdown
  completes is not stated: the model assumes that every wait notices the context.
* `ResponseCache`: the HTTP layer and the rate limiter are outside; the content of
  bodies and committees is a version number.
* `EvidenceStore`: a row is one page; the decoding of a row, and the limit on
  samples of a window, are left out.
* `HeadCollectors`: one node that never restarts its counters and whose head never moves
  to an earlier slot; a call is counted once per method and block; the Engine
  baseline and its percentile, the second node's network baseline, the length of sleeps
  between reconnects and the warnings of `streamHealth` are left out; nothing is
  claimed about when the stream is back.
* `FaultInjector`: a Linux host; the content of evidence is which rows there are;
  instants that the code computes separately but that no property tells apart are
  one (`PressureAt` and `WatchEnd`, `GiveUpAt` and `LastSlot`).

Not modelled because they are input, output, formatting or one sequential pass:
configuration (`config/`, `Validate` of the watch options), reports, `doctor`, the
command line, metric and NTP parsing, the slot schedule read at start, the evaluation
of a corpus (`tools/eval/`, `timeline/replay.go`). The metrics listener is thirty lines
around a `sync.Once`. The matching of aggregation bits with committees is arithmetic over
one response that its unit tests reach.

Next, in this order:

1. `OneCompletion` and the refinement of `VerdictLedger` with a wall clock that may be
   stepped forward, for which `MaxClockSteps = 0` is more than the argument needs.
2. A theorem that the spacing of grants bounds the number of requests in any span of
   time, from `Spacing`; it needs a count that the model does not keep.
3. The peer and host sampling loops, and the network baseline with a clock on each of the
   two hosts.
