# steps: a TLA+ model of what is built, from what, and on what

`steps` is a CI server and a command line in one binary. A pipeline is a YAML
file; `steps web` serves pipelines, polls their resources, queues jobs, and
builds them. This directory models the parts of it that are concurrent or that
survive a restart: the queue and its drain workers, the poller and the webhook
receiver that feed it, the versions a build is made of, the walk of a plan and
its concurrent blocks, the machines steps run on, and the people a run may wait
for. Paths below are relative to `internal/` unless they start with `docs/`.

## 1. The system

| Part | Source | State it keeps | Operations | Here |
|---|---|---|---|---|
| trigger queue and run store | `store/sqlite` | `trigger_queue`, `runs`, breaker, pauses, mirrored limits | enqueue (3 kinds), claim, complete, abort, recover, start/resume/finish a run, prune, record an outcome | `TriggerQueue` |
| scheduler | `scheduler/runner.go` | `r.running`, `r.forced`, the `--max-runs` slots, each worker's locals | admit, take a slot, claim, skip, build, finalize, record the breaker | `Scheduler` |
| web controls | `web/controls.go`, `web/abort.go` | none of their own | trigger, rerun, release, pause, pause all, abort | `Scheduler` |
| daemon | `cli/daemon.go`, `cli/signals.go` | the served pipelines, the process context | start, set, stop, second signal, destroy, rename | start, set, stop and death in `Scheduler` |
| version store | `store/sqlite/history.go`, `versions.go`, `deliveries.go` | history, checked versions, green sets, cursors | file a report, prune, mark, vouch | `Versions` |
| poller, webhooks | `trigger` | the cycle's observations | check, seed, enqueue, release, advance; receive, record | `Polling` |
| build inputs | `pipeline/cursor.go`, `inputsets.go`, `backlog.go`, `passed.go`, `refresh.go` | a run's cursor and input set | refresh, resolve, take, go green, resume | `Inputs` |
| plan walk | `pipeline/walk.go`, `route.go`, `try.go`, `hooks.go`, `attempts.go`, `deadline.go`, `retry`, `outcome` | position, visits, the run's record | run, retry, observe, route, tolerate, replay | `PlanWalk` |
| concurrent blocks, token budget | `pipeline/fanout.go`, `parallel.go`, `across.go`, `budget.go`, `usage` | slots, reservations, spend, outcomes | admit, wait, settle, combine | `FanOut` |
| worker leases and pools | `venue/lease.go`, `pool.go`, `pipeline/leases.go`, `venue.go` | counts, idle windows, the pool and its queue | claim, acquire, abandon, drop, expire, close | `Leases` |
| approvals, questions | `agent/askuser.go`, `pipeline/approval.go`, `store/sqlite/approvals.go`, `questions.go` | pending answers | ask, answer, expire, abandon | `Answers` |
| workspace providers | `scheduler/providers.go` | leases per pipeline | take, set, retire, close | planned |
| event bus | `events` | bounded subscribers | publish, subscribe, close | planned |
| agents, containers, ssh, MCP, secrets, hashing, templates, expressions, pages, configuration text | `agent`, `dockerapi`, `shell`, `mcp`, `secret`, `merkle`, `template`, `exprlang`, `runview`, `config` | — | I/O or pure text processing | not modelled |

**How they interact.** Pollers, deliveries and people insert rows; a worker of
the pipeline asks the pause, waits for a daemon-wide slot and claims the oldest
admissible row in one SQL statement; `runJob` registers a cancel function in
`r.running` (which is how an abort finds it), `RunJob` inserts the run and
names it on the row, resolves the versions of its gets under the job's cursor
lock, walks the plan, writes the run's end and prunes old history;
`runAndFinalize` closes the row, and only then tells the breaker. A green build
vouches for its versions, and the next poll releases the jobs that waited for
them. Placed steps claim machines through the run's `Leases`, which give them
up when the run ends; an agent or an approval may park the run on a row a
person answers. A daemon that starts reads every row left `running` as
abandoned and settles all of them in one transaction before any worker exists;
the runs it resumes replay what they have on record.

**What is hard about it.** Nothing but SQL statements and a few mutexes order
the workers, the handlers, the poller, the steps and the process. The end of one
build is written in four places with everyone else free to act between any two;
a poll reads in one call what it writes back ten calls later; an idle timer, a
reclaim notice and a new claim meet on one machine; four sources settle one
question. A crash can fall between any two writes, and recovery has only the
rows to tell what happened. `PROJECT.json` lists these hazards at their lines.

**What makes each part correct.** The store: its unique indexes and foreign
keys are never in the way of a statement the program relies on. The scheduler:
no build goes past its limits or beside a job of its serial group, a row never
stays `running` with nobody behind it, nothing waits forever. Recovery: it loses
no interrupted build and repeats no ended one. Versions: each is taken once,
none is passed over, none is shipped that did not pass, no trigger is lost. A
plan: a resume goes the way the run went, loops end, failures are not consumed
by accident. A block: it returns, within its budget, as bad as its worst unit.
Leases: no machine is taken from under a step, none bills after its last user,
nobody waits for nothing. Answers: an answer, a decision or an approval's expiry
that a step is told is the one on record, a question is escalated once, and no row
is left open behind a call that ended.

## 2. The modules

| Module | What it is |
|---|---|
| `TriggerQueue` | one operator per store method; one method is one statement or one transaction, hence one atomic step |
| `Scheduler` | the workers, handlers and process, composed over `TriggerQueue`; the specification, its safety and liveness properties |
| `BuildLedger`, `ScheduleLedger` | the abstract specification (requests that wait, are built, are interrupted, end, or fold into another) and the refinement mapping from `Scheduler` to it |
| `Versions`, `Polling`, `Inputs` | three layers: the version tables; the poll cycle and the deliveries over them; the builds over both, with the specification and its properties |
| `PlanWalk` | one run of a plan, through its aborts, crashes and resumes |
| `FanOut` | one concurrent block of a plan |
| `Leases` | the machines of one worker mapping, and the scopes and steps on them |
| `Answers` | the rows of one question or approval, and who asks and settles them |
| `MCScheduler`, `MCInputs`, `MCPlanWalk`, `MCFanOut`, `MCLeases`, `MCAnswers` | the instances and environments TLC runs |
| `SchedulerProofs`, `RecoveryProofs` | theorems about the tables and the workers; over them, about restarts and limits, and the refinement |
| `InputsProofs` | theorems about the three layers of versions, polls and builds |
| `AnswersProofs`, `FanOutProofs`, `PlanWalkProofs` | theorems about their component |
| `RegistryProofs`, `LeasesProofs` | lemmas about the operators on a registry; over them, theorems about the machines |

`Inputs` has a queue of its own with one pending row per job, which is what
`TriggerQueue` promises of ordinary rows, and `PlanWalk` and `FanOut` stand for
the one step `BuildEnds` of `Scheduler`: what they may end with is what it
chooses from. In each module the states, actions and guards have the names of the
code where TLA+ allows it, and mutants stand before the definition they change.

### The scheduler: state and code

`queue` and `runs` are partial functions from ids to rows, `nextRow` and
`nextRun` the ids to come. A row is the columns that decide something:
`job`, `manual`, `rerunOf` (`rerun_of`), `run` (`run_id`), `status`,
`started`. Reasons, actors, error texts, configuration revisions and workspace
paths are left out. Two timestamps are compared by the code (recovery asks
whether a run ended since its row was claimed); a stamp is the incarnation of
the daemon that wrote it, which orders exactly the stamps that comparison is
about provided the clock does not step back between two processes.

`mode`, `served` are the daemon; `forced` is `r.forced`; `marking` and
`dropping` are requests that have touched the database and not yet the map;
`pc`, `claim`, `force`, `ceiling`, `run`, `cause`, `err` are the locals of each
worker, `cause` being the cause its run's context was cancelled with. `built`
is a history variable: the rows whose build has recorded an end.

| Worker at | The code there | Next |
|---|---|---|
| idle | between two `DrainOne` | `Admit` (`admits`) |
| admitted | waiting in `takeSlot` | `TakeSlot`, `Leave` |
| slotted | `ClaimNextJob` | `Claim`, `NothingClaimable`, `Leave` |
| claimed | job lookup, `skipIfPaused`, `takeForce` | `DropJob`, `Skip`, `Register` |
| registered | `runJob` and `RunJob` before there is a run | `RefuseRerun`, `RefuseBuild`, `BeginRun`, `ContinueRun` |
| minted | between `StartRun` and `RecordRunRerun` | `RecordRunRerun` |
| building | the plan and its hooks | `BuildEnds` |
| built | before `FinishRun` | `Finish` |
| ended, pruned | the deferred `pruneHistory` | `PruneRunHistory`, `PruneQueueHistory` |
| returned, panicked | back in `runJob`, `runAndFinalize` | `Recover`, `Return` |
| recording | after `CompleteJob` | `RecordBreaker` |

A step is one access to what others can see. What is left out between two of
them is either private to the worker or part of the plan, whose only visible
result is its error and the time it takes; `BuildEnds` therefore chooses any
error at any moment, with `canceled` only once the context has ended. A panic
in the plan skips `Finish` and runs the deferred prune, as Go does.

A failed write of the database is not modelled, with three exceptions the code
handles by an error path: a retry or a resume whose run is gone, and a context
that ended between `StartRun` and `RecordRunRerun`. A read of the pause on a
context that has ended answers nothing: `Register` is then open beside `Skip`, and
the build is refused or cancelled further on, as in the code. Pollers read the pause too;
`Trigger` does not, because a row an unpaused poll is inserting may land after
the pause, and the properties that mention pauses must hold for it.

### Versions, polling and inputs: state and code

A version is a number, its place in what the outside world publishes; a check's
answer is a set of them, ordered by the numbers. `hist` is `resource_versions`
(`check_order`, `from_check`), `checked` is `resource_checks`, `mark` is
`job_version_cursor`, `green` is `job_versions`. The code compares build ids
there and nothing else, so a build is identified by the set of versions it
passed, which makes the same identifications as long as a later build passing
exactly the same set takes the rows over, as it does.

The poll cycle is one process (`ppc`): `StartPoll` asks the pause; per resource
`CheckResource`, `RecordHistory` and, the first time, `SeedColdStart`, or for a
webhook resource `ReadChecked` and `ReadDeliveries`; then `AffectedJobs`,
`EnqueueAffected`, `ReleaseConstrained` and `Advance`. Each is one store call, or
several whose order nobody else can observe. So is `Refresh` but for one thing: it
makes one step of a run's check, its filing and the read of what it filed
(`refresh.go:77-108`), so a poll may file before or after it but not within it. A delivery is two steps: what it
would dispatch is decided (`Receive`) before the transaction that records it
(`RecordDelivery`). A run is the line in the header of `Inputs`; `LockCursor` to
`StartBuild` is the critical section of `lockJobCursor`, `RecordInputs` and
`TakeVersions` are apart because a crash may come between them. `taken` and
`seeded` are history variables.

### The walk and the blocks: state and code

`PlanWalk` is `planWalk` (`index`, `visits`, `passes`), the values in hand while
one step goes through `runNonGetStep`, `runHooks`, `applyRouting` and
`tolerateTryFailure` (`err`, `verdict`, `disp`, `hookErr`), and what outlives the
process (`done`, `status`). An error is marked a failure or is not; whether it
is an abort is asked of the context when `Classify` is called, as the code does,
so an abort that lands between two calls is seen by the later one, with one
exception: `RouteStep` is one step for the calls of `recordableOutcome`,
`applyRouting` and the `try:`'s tolerance, which follow each other with nothing but
a write of the record between them. A hook's own
hooks are part of what it may return; the plan's end is a place of its own with
the job's hooks.

`FanOut` is `fanOut`'s parent loop and one goroutine per unit, with `limiter`
(`slots`), `blockBudget` (`reserved`, `inFlight`, its condition variable as the
parent's places "sleeping" and "woken", the second of which does not ask the
deadline again), the scoped `usage.Run` (`spent`) and `branchCtx`
(`cut`). A unit that has reported is counted in `spent` before it settles, as in
the code; what a cancelled unit returns is left open. A branch's errors are asked
of two contexts: its `try:` of its own (`Tolerated`: once a sibling's failure has
cut it off, its error is an abort and no longer tolerated), the block's outcome of
the job's (`Class`). A panic is past the `try:` altogether.

### Leases and answers: state and code

`Leases` keeps the whole of `Registry` in one record `reg`, and everything the
code does under `Registry.mu` is an operator from a registry to a registry, so
that one critical section is one step. `entry.gone` is "going" between `takeOut`
and the end of `giveBack`; `lease` is the entry's own lock and what it resolved
to; `owes` is `lease.release`. Timer generations are modelled by what they
distinguish: a timer that fired and was superseded is `stale`. `landing` is the
wait for another's park (`parkWait`), which a cancelled step leaves like any
other. `serve`'s loop is a recursive function of how many waiters it has looked
at. `Close` is one step for the daemon's cancel of its scopes and the first
critical section of `Registry.Close`, and `CloseReturn` has one guard for what the
forced branch waits for, the leases' own give-backs and the drained channel
(`lease.go:322-373`): nobody acts on the one without the other. Identifiers of entries that nothing refers to any more are reused, and `Next`
asks for one more of them than there are waiters (`Spare`): one step launches a
machine for each waiter at most, and one of its own. A scene is a mapping with the
steps that use it and what may go wrong.

`Answers` keeps the rows of one key in order of their ids; a question's unique
memo key allows one row, an approval's partial index one live row. `waiting` is
the poll of `waitForAnswer` or `awaitApproval`, `closing` the gap between
`expire`'s read and its write. A responder's whole conversation is one step that
may come to nothing. A crash closes no row, and nothing makes an asker come back:
its job may be gone, its row aborted, a killed `steps run` is not started again,
and an agent may put its question in other words, under another key. So any of the
askers come back after a crash, or none; what the others' calls returned is `Lost`.

## 3. What the runs check

Passing runs (distinct states, on two TLC workers):

| Run | Instance | Properties | What it shows |
|---|---|---|---|
| `Serial` (598 000) | jobs `a`, `b` in one serial group, `a` with a breaker of 1; two workers, two rows, two runs, a restart; the whole of `Next` | `TypeOK`, `RunningRowsOwned`, `SerialGroupsHold`, `BuildHasItsRow`, `NothingBuiltTwice`, `BreakerCountsFailures`, `RestartKeepsWork`, `ImplementsLedger` | with every request, abort, stop and crash, at every point of two builds; that the breaker moves only with a release or with one report of a build closed that way; and that `Scheduler` implements `BuildLedger` |
| `Wide` (1 950 000) | one job with `max_in_flight: 2`, two workers, three rows, retries, a crash, a history of one run and one row, a set that removes the job | `PendingIndexes`, `ForeignKeys`, `ClaimsWithinLimits` | recovery and pruning keep the schema; no claim passes the limit mirrored at the time |
| `Live` (209 000) | one serial job, breaker 1, two workers and one slot, a pause, forced and aborted builds, panics, a stop | `StopEnds`, `QueueDrains` | the process ends after a stop at any moment, though no build ends by itself; where builds do end, no row waits forever while the pipeline is served and not paused |
| `Versions` (1 640 000) | one job that takes every version of one resource, two workers, two versions, a history of 1, manual triggers, failing checks, crashes | `NothingSkipped`, `TakenOnce`, `WindowKept` | two runs resolving side by side, and a crash at any point, neither repeat nor lose a version |
| `Release` (127 000) | `unit` builds every `repo` into a `conf`, `deploy` ships every `conf` that passed `unit` | `GateHolds`, `NoTriggerLost` | builds that fail and builds out of step with the poller: only what passed is shipped, and all of it is |
| `Deliveries` (173 000) | one job on a webhook resource, two deliveries sent any number of times, pauses | `CheckedNeverRewinds`, `NoTriggerLost` | a delivery landing anywhere in a poll, or under a pause |
| `Walk` (60 000) | four steps: cached, retried and routed on failure, a reviewing agent that loops back twice at most, a guarded `try:` that routes back; abort, shutdown, deadline, crash, two resumes | `ReplaysItsPath`, `LoopBudget`, `ErroredNeverRoutes`, `RunEnds` | wherever the run is stopped, its resume takes the way it took and the loop its remaining visits |
| `FanOut` (461 000) | thirteen blocks of three units: `in_parallel:` with limit 2 or none, with and without `fail_fast:`, one branch a `try:`; `race:`; `across:` with a ceiling of 3 or none and a reserve of 2 or none; panics, abort and deadline | `BudgetHolds`, `StopsForAReason`, `WorstBranchCounts`, `BlockReturns` | every order of ends, and every spend of 0 to 2 |
| `Leases` (564 000) | six scenes: parked, launched and shared, a pool of one; two jobs, one with two parallel steps on two tags, a riding check; reclaims, failing and cancelled acquisitions, idle windows, `Close` | `CountsAddUp`, `NotUnderAUser`, `NothingLeftBilling`, `PoolHolds`, `NobodyWaitsForNothing`, `EvictedGoesFirst`, `EverythingEnds` | who holds a machine, who is owed it and who waits for it agree at every step |
| `Answers` (384 000) | two cells with one question (responder, seed or neither; default, fence); one approval, asked by one step or by two; people, timeouts, ended steps, a repeat, a crash that any of them do not come back from | `ToldWhatIsRecorded`, `EscalatesOnce`, `DecisionsReachTheStep`, `NothingLeftPending`, `AsksEnd` | an answer, a decision or an approval's expiry that a call reports is the row's; an open row has somebody on it, but for the exceptions the properties name; every call ends, but for the second waiter of an expired approval |

Each property has a mutant beside the definition it changes (`\* Mutant: ...`)
that makes its run fail: a dropped group clause, `<=` for `<`, a recovery that
asks nothing of the run, a cursor read outside its lock, a delivery recorded as
checked under a pause, a replay that spends no visit, a cell that settles
without waking the parent, a stop that spares a build in its plan, a worker that
reports an abort as a failure, an idle timer that does not look again, a lost race
reported as won, and so on. `TypeOK` is checked for `Scheduler`, whose proofs
rest on it; in the other modules it documents the variables.

**Bounds and why they are enough.** `MaxRows`, `MaxRuns` and `MaxEpoch` bound
inserts and restarts. A conflict over admission needs two rows of one job or of
one group; a collapse in recovery needs two running rows of one job, and a third
pending one to be superseded (`Wide`). A run that ended before its row was
claimed needs two incarnations of the daemon, a resume two. `RunHistory` 1 and
`QueueHistory` 1 are reached with two runs; 0 means no limit, as in the code,
whose defaults (100 and 50) lie above every bound here. Two versions are enough
for one to be taken before, after or instead of the other, and a history of one
for the cap to be below the window. Two resumes let a record be extended by one
resume and replayed by the next. Three units with a limit of 2 leave one to wait
for a slot; a ceiling of 3 with a reserve of 2 admits the second unit only on
what the first really spent. A pool of one with two jobs has a waiter; a second
tag of the first job has siblings; `MaxEntries` 5 is more than the machines any
scene can have alive or remembered, so `Spare` stops no run of these (with 4 it
does, and `EverythingEnds` fails). Two askers race; one repeat and one crash
bring each back to a row in any state. `WorkerSymmetry` is used in safety runs
only. Deadlock is checked in the `Inputs` runs, where the poller always has a
next step; elsewhere the bounds, or the end of the run, block or process modelled,
leave nothing to do.

**Fairness.** For the scheduler, weak and per worker: goroutines are scheduled,
store calls return, the grace of a shutdown runs out (`CancelRun`:
`runContext`'s timer, or at once for an `interruptible:` job), and a build whose
context has ended unwinds. A build nobody cancelled may take forever: that it does
not is the users' business (`timeout:`), and `BuildsEnd` is a premise of
`QueueDrains` alone, because a queue behind a build that never ends does not
drain. `StopEnds` has no such premise; the grace and its cancel are what it rests
on. `Inputs`: the poll loop ticks, each worker goes on, a handler that decided
records; `Walk` and `FanOut`: attempts, hooks and units end; `Leases`: steps end,
acquisitions and give-backs answer, timers fire, as one weak condition on
everything that can go on; `Answers`: calls go on and waits run out. Nothing is
assumed of people, publishers, senders, pauses, aborts, reclaims or crashes.

### Where code and documents disagree

Two runs check a statement made by a document and find it violated.

| Run | What happens |
|---|---|
| `FalselyGreen` | a reviewing agent's verdict is looked at before its error (`pipeline/route.go:23`): when its `on_success` or `ensure` hook errors, or it is aborted under its hooks, the verdict still routes, the error is consumed and the run may succeed. `docs/control-flow.md:223`: "An errored or aborted step produces no key and never routes". `Walk` is the same plan without hooks on the review, where the statement holds. |
| `OverMax` | with `?max=1`, a machine is reclaimed and its job's place reserved; a check launches one into the empty pool; a new job is handed it (`venue/pool.go:188` looks at no reservation); the evicted job takes its place with a second machine. `docs/infra.md:241`: "`?max=` caps how many", which is `MaxHolds`. `PoolHolds` states what does hold: without a check, never. |

Other things the models show, which no run asserts. In the scheduler:

- a worker asks the pause, waits for its slot, and claims after the pause
  (`runner.go:384`).
- the row of a forced trigger is claimed or aborted before `r.forced` is set:
  the flag outlives it (`runner.go:195`).
- a build that fails some other way while the drain cancels it leaves its run
  `running` and its row `failed`, and the breaker counts it: no restart resumes it (`runner.go:535` beside
  `job.go:232`); an abort between `StartRun` and `RecordRunRerun` does the same
  to a retry's run (`resume.go:422`).
- recovery drops a person's claimed row for a pending automatic one, which a
  held job's breaker then skips (`queue.go:250`).
- the run a build in flight is retrying is reaped; `rerun_of` cascades and the
  build's row goes with it (`retention.go:189`).
- an abort that reaches a retry before `PrepareRerun` is returned as `aborted =
  false` and counted by the breaker (`runner.go:654`), where the comment at
  `runner.go:477` says it "neither counts nor clears it". `BreakerCountsFailures`
  states that exception (`Accountable`).

The reaping of runs has two more effects: a
finished run reaped before its row is closed makes a row that a crash sends back
to be built again, so `NothingBuiltTwice` is stated for `RunHistory = 0`; and a
run reaped between a claim and its `ResumeRun` fails that build instead of
starting a new run (`ContinueRun`). And since `CompleteJob` comes before
`RecordJobOutcome` (`runner.go:510`), the job's next automatic row may start
between the failure that trips the breaker and the hold.

One more, not a property of behaviour: `runner.go:341-344` calls
`ResetStaleRunning` "three statements with no transaction around them"; it is
one transaction of five statements.

In versions and polling:

- A version a run filed itself (`from_check = 0`: a put, or a take of what no
  poll had filed) is filed again at a fresh order by the next check and can be
  taken again, where `docs/resources.md:1261` says a started version "is not
  taken again". `TakenOnce` is therefore about versions checks had filed.
- A crash between `RecordVersions` and the enqueue (or a cold start's seed) loses
  the signal that history grew below the head; the versions wait for the next
  change. So does a run's refresh, which files what the poll would have noticed.
  `docs/infra.md:744` says a crash mid-poll leaves the resource dirty. A crash
  between the record of inputs and the take builds a set twice if the run is not
  resumable; one between the take and the backlog's enqueue leaves the backlog to
  the next trigger. `NoTriggerLost` is checked without crashes for these reasons.
- A version a put filed, or an unfiled `latest` get, has a provisional order until
  a check files it. A run that loaded its cursor meanwhile counts it as covered by
  that order though no build took it, and when the check then files it below a
  version taken since, it is passed over.
- Another job's build can do the same. Say `unit` takes every version of a resource,
  `deploy` gets the latest, and no poll of it has been filed yet. `deploy`'s green
  build files v2, at order 1 (`ensureVersion`, `store/sqlite/history.go:308`); `unit`
  takes v1, at order 2, and its mark now lies above v2: its next run takes v3, and v2
  is passed over, though `docs/resources.md:1263` says "another job reading the same
  resource keeps its own place". `NothingSkipped` is checked and proved for a job
  that alone takes a resource as it comes (`Fed`, section 4); TLC finds this behaviour
  (31 states) in an instance with the second job.
- With `version: every` under `passed:`, versions that go green out of order are
  skipped by the mark; `NothingSkipped` is about ungated gets, and with a
  resource that lists old versions after new ones it needs checks that do not
  fail. `releaseConstrainedJobs` queues a job again on every poll as long as the
  build of its newest green versions fails.

In plans: a `try:` branch of an `in_parallel:` with `fail_fast:` whose error comes
after a sibling's failure has cancelled `branchCtx` is not tolerated and is joined
into the block's error (`parallel.go:113`, `try.go:75`), so it may make an errored
block of a failed one. It never fails a block by itself: it was cut off by another
branch that had (`WorstBranchCounts`). An `in_parallel:` with a `limit:` that is aborted after every branch
already started has succeeded returns success with branches never started; the
walk notices the abort at its next step. In leases: `warmest(true)` asks a lease
whether it failed, under `Registry.mu`, and a check acquiring that machine holds
the lease's lock meanwhile, so the registry waits for the cloud.

In answers:

- Askers that share a question without a default: the first to expire it aborts,
  the others poll the expired row and are told an empty answer "was used" as the
  default (`resolvedResult` in `poll`, against `memoResult`'s "never an empty
  answer dressed up as a default").
- An answer that lands between `expire`'s read and its close is on record, and
  the step is told the default or aborts, though the comment at `askuser.go:544`
  says "The write is what decides". `ToldWhatIsRecorded` is about answers,
  decisions and approvals' expiries and asserts nothing of a question's timeout.
- A seed or a responder's answer outside the options leaves the row pending with
  nobody waiting. So does a process that dies under a question nobody asks again,
  as recovery closes no question. `NothingLeftPending` makes these two exceptions.
- An approval whose step is cancelled under its wait (its `timeout:`, an abort, a
  failing sibling) stays pending, and a decision then reaches nobody
  (`approval.go:94-97`), which is what `approval.go:52` warns of; a process that
  dies under it and is not resumed leaves it too. `DecisionsReachTheStep` makes
  these two exceptions.
- Two branches with the same approval at the same place share a row; when one
  expires it the other goes round `awaitApproval` without sleeping, for ever,
  where `approval.go:32` says the step "blocks until someone approves or rejects,
  or the wait expires". `AsksEnd` is checked with two such branches and excepts
  exactly this waiter (`LeftPolling`).
- An expired approval is a plain error; `docs/control-flow.md:870` calls it
  aborted. After a crash nobody asks the machines for a pending question again.

## 4. What is proved

The proof modules are checked by TLAPS and hold for every value of the constants:
any jobs, groups, configurations, workers, histories, bounds, blocks of any
width, plans of any length, any number of askers, of scopes and of machines. They use only the assumptions
the modules state, and TLC evaluates those on every run. Each inductive invariant
was checked by TLC on the component's instance before it was proved.

**The tables** (`SchedulerProofs`). `TableInv` is the conjunction of types,
ids below the next to be handed out (an insert is a new row, a minted run a new
run), foreign keys, retries that belong to the job of the run they retry, and the
two pending indexes. `RetriesOfTheirJob` is the strengthening that makes it
inductive: the rerun index has no job in its key while recovery groups by job and
run, and only because a retry is of its run's job are the two the same. There is
one lemma per store operation; the interesting ones are `ResetStaleRunning` (what
goes back to pending is the only one of its kind, because superseded and
collapsed rows are gone) and `PruneRuns` (setting `run_id` to NULL could turn a
resumable pending row into an ordinary one beside another; it cannot, since
`Reaped` spares runs a pending row names).

**The workers** (`SchedulerProofs`). `Ownership` says that a worker past its claim
knows an id that was handed out, that no two hold the same one, that a running
row of a serving daemon is held, that a held row which still exists reads running
and has the claimed job, and that it does exist when no run is reaped.
`GroupsApart` says that two rows held at once are of jobs that share no serial
group, when no run is reaped and the configuration stays. `Inv` is `TableInv`,
the types of the rest, `Ownership` and `GroupsApart`; `StepInv` has one lemma per
group of actions, each resting on three step lemmas: a step that changes no
holder (`QuietStep`), one that closes its row (`ReleaseStep`) and one that
inserts (`EnqueueStep`).

**Restarts** (`RecoveryProofs`). `NothingBuiltTwice` compares a stamp on the row
with a stamp on the run, so the invariant says whose run it is: `RunsApart` (a run
is named by one row and known to one worker, the one that holds that row),
`RunsInFlight` (from `StartRun` to `FinishRun` the run is there and reads running,
so no prune takes it), `RowsNamed` (the row a worker holds names the worker's
run) and `Stamps` (nothing is stamped in the future, and what a pending row is to
resume ended in an earlier incarnation). From these `EndsAreBuilds`: a run that
ended since its row was claimed means the build recorded its end, which is the
half a restart needs to lose nothing and which holds whatever is pruned. The other half,
`BuiltOnce`, is that a row whose build ended waits no more and reads running only
with the run that says so; reaping the run breaks it, hence the hypothesis.
`RestartLosesNothing` follows the five statements of `ResetStaleRunning` for one
interrupted row: it goes back itself, or another row of the same work does.

**Counts** (`RecoveryProofs`). `LimitsKept` maps the workers that hold rows of a
job into its running rows, which is one-to-one by `Ownership`; the claim statement
counts those. It needs no hypothesis: rows that were deleted under their builds
are not counted on either side. `BreakerCountsOutcomes` is about who may move a
job's count. Between `CompleteJob` and `RecordJobOutcome` the row is closed and
unheard: `Reporting` says that a worker about to report has closed its row with the
outcome it will report, unless the row has been deleted, and that this outcome is
nobody's abort or cancel but for the refused retry's, and `ClosedStay` that no
action reopens a closed row. Both hold whatever is pruned, so the theorem has no
hypothesis.

**The refinement** (`RecoveryProofs`). Every step of a worker, a handler or the
process is a step of `BuildLedger` or leaves it alone. `Ownership` makes the
mapping one: a running row is some worker's, or interrupted, and a worker's row
reads running. A claim is a `Start` because the statement counts running rows,
which the mapping shows as building or interrupted; recovery is a `Recover`
because every row it folds away leaves one of the same job waiting.

**Versions, polls and builds** (`InputsProofs`). Everything here rests on one fact,
`StoreKept`: in every step of the poller, a delivery, a build or a crash a version a
check filed keeps its order, on the resources in `Steady` (all of them if nothing is
pruned, else those whose checks list their whole window, oldest first). Without a
limit that is the shape of the inserts. With one it needs an argument: a prune
deletes below the lowest order it was just given, and the first version there is, is
in every nonempty report of such a window and comes first of all that checks filed
(`FirstFirst`), so that floor is below everything; the report may be an old one, as
`InHand` only says it was published and has no holes. `Builds` has the types of the
runs and that two runs of a job do not hold its cursor lock. From these follow:

- `WindowStays`, directly.
- `TakenAtMostOnce`: what a job took of versions checks had filed stays at or below
  its cursor (`StaysBehind`; cursors go forward only), hence is covered by the cursor
  any run has loaded (`CursorCovers`), hence differs from the set that run chooses
  (`SetIsNew`), because a set that is not idle has an uncovered version. The lock
  makes the middle step safe: no other run of the job takes while one has loaded.
- `GateKept`: the set a run resolved was green at the time (`Vouched`), and a record
  of green is only deleted with its version.
- `BaselineForward`: a webhook's checked version is written by a delivery, which
  places its version above all others, or by the compare-and-set of the poll, whose
  newest delivery was read after the checked version it replaces (`Delivered`).
- `NothingPassedOver`, for a job that alone takes a resource as it comes (`Fed`: its
  checks list their whole window, no build puts it, and the other jobs that get it
  wait for one to pass). `Story` is kept beside `Inv` for each such job and resource.
  `Told` is about the table: all filed up to the mark came (was taken or seeded); what
  a run filed by itself came too, or, while no check has filed anything (`Bare`), is
  in order with all before it come. So whatever a report files later lands above the
  mark, in the order it is taken in. `Own` says that what a run of the job is bound to
  passes over nothing (`Ahead`): it is the first of what its cursor does not cover,
  what the cursor covers came, and reports, prunes and other jobs' builds that end
  green do not move it below what is left. `Other` says these file nothing that did not come
  or was not filed: they got it from a record of green. A resumed run never took what
  it has on record, so what it is bound to is also in every report yet to be filed
  (`Listed`), which keeps a report read before it from being filed around it.

**Answers** (`AnswersProofs`). `Placed` ties where a call is to what it has: who
waits has a row, who has been told nothing is not told yet. `Escalation` carries
`EscalatesOnce`: whoever inserted the question's row and has not read it back is
alone in that, and no conversation has begun while there is one. With those,
`ToldWhatIsRecorded` and `NothingLeftPending` are preserved by every step. For
`DecisionsReachTheStep`, `Stands` says of a call that it waits on the row or is on its
way to find the newest, or was cancelled or lost, and `WaitersKept` is the lemma for
the steps that open no approval and take no pending one's waiter away. A step that
looks a row up finds the pending one, because that is the newest (`PendingIsNewest`). `DecisionsStand` is an action property no run states: an
answer or a decision on record is never changed.

**Blocks** (`FanOutProofs`). The counters of the code are tied to where the units
are: `SlotsHeld` (a slot per unit that has not released, and the parent's own),
`AllowancesHeld` (`inFlight` and `reserved` are the number of unsettled units and
that many reserves). `BudgetHolds` is not inductive because an admission looks at
`spent + reserved` and a report moves cost from one to the other; `Covered` bounds
what is spent together with what the units at work may yet spend, `spent +
reserve * |Running| < ceiling + reserve`, and is. `Reports` (who has a result, who
won) is what `StopsForAReason` and `WorstBranchCounts` need, with `Blamed` for the
latter: once a branch is cut off, a branch that is no `try:`, a panic or an abort is
on record, so what a `try:` branch returns afterwards never fails the block alone.

**The walk** (`PlanWalkProofs`). The record is a set of passes; `OnThePath` says
there is one path whose passes they are, each where the one before leads and
numbered by its step's count, and that the walk is some number of passes down it:
replaying while there are more, afresh only after the last. `ReplaysItsPath` is
what is left of this at a step that runs. `VisitsSpent` compares the executed
passes walked in this attempt with the visits the walk has counted, and gives
`LoopBudget`, whatever crashes came between. The outcome `NoKey` of a pass
that produced none is assumed to be no route's key, which validation guarantees
(`config/route.go`). `ErroredStays` assumes `HooksDecideNothing`, that no step has
both verdicts and hooks: exactly what the run `FalselyGreen` shows to be needed.

**Machines** (`RegistryProofs`, `LeasesProofs`). The properties relate what the
registry counts to what scopes hold and steps wait for, and neither side is
inductive without the other. `RegistryProofs` is about the registry alone: `Core`
relates it to holdings `H`, how often each scope will give up each entry. An
entry's counts are the sum of its holdings and of the waiters it was handed to
(`Tallied`); a pooled machine's holder is the one job among them (`HeldByOne`); an
entry in use is alive, and has no idle timer (`Alive`); a job is in the queue once,
with no machine of the pool and no place kept for it (`Queue`); the pool's members
are there to be had, at most one to a job (`Pool`). Every operator of the model takes
a registry with `Core` to one with `Core`, for the holdings changed as the code
changes them. Most are a change of one entry followed by `serve` (`Moves`), or a
count (`Taken`). `serve` is taken waiter by waiter: its recursive function is
unfolded by the well-founded order of the naturals (`ServingIs`), and that a
property holds after every waiter is shown by taking the first at which it
would fail, as the library's induction rule cannot be instantiated. A sum over a
function is the number of pairs `<<x, i>>` with `i` up to `f[x]` (`SumIs`), shown
the same way, so that one count going up or down by one is one pair more or less
(`SumChange`).

`LeasesProofs` takes `H` from the scopes (`Held`: tags that name the entry, and what
is owed) and adds what links them to steps and to the cloud. A step with a machine
is on one its scope holds, in a scope that has not ended (`StepOk`, `ScopeOk`): that
and `Tallied` make the entry used, and what is used is not given back before `Close`
is forced (`Quiet`), which is `NotUnderAUser`. `Placed` says that a job that holds
anything, even a machine that died, has a place in the pool: a member it holds or a
kept reservation, because `retire` swaps the one for the other and only the scope's end
drops it; a step with retries behind it holds what died, so the job has a
place, and `TakeTurn` queues nobody who has one: `EvictedGoesFirst`. `Settled`
says that who waits does so for want of room and that free machines are at most the places
kept; `serve` establishes it whatever it started from (it only stops at an empty
queue or when it is stuck), and every step that could break it ends in `serve`:
`NobodyWaitsForNothing`. `Capped` is the bound of the pool while no check has asked
for a machine; `Idle`, that a timer runs only for an entry somebody can find; `Billed`,
that a running machine is owed by an entry that is held, about to expire or going.

The assumptions are that scopes, tags and steps are finitely many, that an exclusive
mapping is a launched one (`parsePool` refuses any other), and the bound `Spare`:
the theorems are about every `MaxEntries`, and about the runs in which identifiers do not
run out. TLC checked the
invariant on scenes like those of the run before it was proved.

| Theorem | States |
|---|---|
| `SchedulerProofs!Invariance`, `TypeCorrect` | `Spec => []Inv`, `Spec => []TypeOK` |
| `IndexesKept`, `ForeignKeysKept` | `PendingIndexes`, `ForeignKeys` always, whatever is pruned |
| `RowsOwned` | `RunningRowsOwned` |
| `BuildsKeepTheirRows` | `BuildHasItsRow`, when `RunHistory = 0` |
| `SerialGroupsRespected` | `SerialGroupsHold`, when `RunHistory = 0` and there is one configuration |
| `RecoveryInvariance` | `Spec => []RecoveryInv` |
| `BuiltAtMostOnce` | `NothingBuiltTwice`, when `RunHistory = 0` |
| `RestartLosesNothing` | `RestartKeepsWork` |
| `LimitsKept` | `ClaimsWithinLimits` |
| `BreakerCountsOutcomes` | `BreakerCountsFailures` |
| `LedgerImplemented` | `ImplementsLedger`, when neither history prunes and there is one configuration |
| `InputsProofs!Invariance` | `Spec => []Inv` |
| `WindowStays` | `WindowKept`, when nothing is pruned or nothing is published behind a newer version |
| `TakenAtMostOnce` | `TakenOnce`, when what the `every` gets walk is `Steady` |
| `GateKept` | `GateHolds`, when nothing is pruned |
| `BaselineForward` | `CheckedNeverRewinds`, when nothing is pruned and webhooks are polled |
| `NothingPassedOver` | `NothingSkipped`, when each ungated `every` get is `Fed` |
| `AnswersProofs!Invariance`, `TypeCorrect` | `Spec => []Inv`, `Spec => []TypeOK` |
| `ToldTruly`, `EscalatedAtMostOnce`, `DecisionsReach`, `QuestionsClosed` | `ToldWhatIsRecorded`, `EscalatesOnce`, `DecisionsReachTheStep`, `NothingLeftPending` |
| `DecisionsStand` | an answer or a decision on record stays |
| `FanOutProofs!Invariance`, `TypeCorrect` | `Spec => []Inv`, `Spec => []TypeOK` |
| `BudgetKept`, `StopsOnlyForAReason`, `WorstCounts` | `BudgetHolds`, `StopsForAReason`, `WorstBranchCounts` |
| `PlanWalkProofs!Invariance`, `TypeCorrect` | `Spec => []Inv`, `Spec => []TypeOK` |
| `PathReplayed`, `BudgetSurvives` | `ReplaysItsPath`, `LoopBudget` |
| `ErroredStays` | `ErroredNeverRoutes`, when no step has both verdicts and hooks |
| `LeasesProofs!Invariance`, `TypeCorrect` | `Spec => []Inv`, `Spec => []TypeOK` |
| `CountsAlwaysAddUp`, `NeverUnderAUser`, `NothingLeft` | `CountsAddUp`, `NotUnderAUser`, `NothingLeftBilling` |
| `PoolAlwaysHolds`, `NoLostWakeUp`, `EvictedFirst` | `PoolHolds`, `NobodyWaitsForNothing`, `EvictedGoesFirst` |

The hypotheses on histories and configurations are needed. With a run history, a
retried run that is reaped takes its build's row with it, and a build whose row is
gone is invisible to the group clause; a finished run reaped before its row is
closed makes a restart build the row again. With a queue history, rows of the
ledger vanish. With two
configurations, builds already going were admitted under the other one's groups
and limits. With a limit on versions, a report read before an older version came out
can be filed after the one that has it, and prune it; a pruned delivery, or a version
listed from a cursor, can come back at a fresh order and be taken again; a pruned
version takes its record of green with it, under a build already bound to it. A
resource that is not polled has its checked version written by whichever build
starts, with whatever version it runs on. The versions of an instance are assumed to
be finitely many: a report is a list.

Only model-checked:

- liveness (`StopEnds`, `QueueDrains`, `NoTriggerLost`, `RunEnds`, `BlockReturns`,
  `EverythingEnds`, `AsksEnd`), which is out of this prover's reach;
- `TypeOK` of `Inputs`, of which `Inv` has the parts its theorems need.

## 5. What is not modelled

The daemon: destroying and renaming a pipeline; the restore of pipelines whose
configuration does not load; provider leases; two daemons on one state file,
which the code forbids. The store: failing writes beyond the ones named above; a
clock that steps back between processes; the Postgres store, whose statements do
the same with other isolation; the rest of a prune (nodes, chains, revisions,
blobs). Versions: pinned versions and reruns, which take nothing; a check shared
between pipelines, whose answer is just an answer; signatures, intervals and the
preflight of triggers. Plans: the work of a step, `do:` and `ensemble:`, the
expansion of cells, the step cache's keys and the chain index. Leases: the cloud
calls themselves and their failing releases, one-shot registries of `steps run`,
the sweep of machines by owner stamp, the warm-reuse flag and its budget. Agents:
conversations, tools and the ceilings inside them. The event bus, and the parts
marked not modelled in the table of section 1: pure text processing, hashing,
rendering, and I/O at the edge of the program.

## 6. Plan

1. Done: the queue and its drain, the ledger and its refinement, the proof of
   their invariants; versions, polling and inputs; the walk and the blocks of a
   plan; leases and pools; approvals and questions.
2. Done: the proofs of section 4; every safety invariant the runs check is a
   theorem, for the histories and configurations it needs. Next: `TypeOK` of
   `Inputs`, the parts the poll's and the runs' work lists add to `Inv`.
3. `Providers`: leases on a workspace provider swapped by a set, retired behind
   its last run, closed at shutdown.
4. The event bus; destroy and rename beside the drain.
