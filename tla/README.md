# Sparkwing: models, checks and proofs

Sparkwing runs CI pipelines that are written as code. This directory holds TLA+
models of the parts that decide who may run, when, and on what; the instances
TLC checks; and theorems TLAPS proves. Paths are relative to the repository
root (`src/`).

## 1. The system

| Part | State it keeps | Operations | What makes it hard |
|---|---|---|---|
| Admission ledger, `internal/admission` | totals, headroom, use, semaphore holds, leases with members and lineage, the queue, operator ranks | `Submit`, `ReplaceWaiter`, `CancelWaiter`, `Attach`, `Depend`, `Release`, `SetHeadroom`, `ResizeTotals`, `SetPriority`, `SetSchedulingPolicy`, `Snapshot`/`Restore` | every operation changes who may start; a waiter's right to start depends on all waiters before it and all leases; restarts under another policy |
| Local daemon, `internal/wingd` | tickets by id and request key, participants, committed state file | request, watch, release, cancel, process attach, priority over HTTP; reaping, orphan cleanup, capacity refresh | retries, answers lost, state read before a lock and used after it, commit failures, restarts |
| Store, `internal/store` | runs, nodes, units with leases, concurrency groups, schedules, capacity, in SQL | claim, renew, complete, reap, cancel, schedule | two controllers or runners on one row, expiry racing a late answer |
| Lease keeper and runner loop, `internal/lease`, `internal/runners` | held leases, heartbeats, running work | claim, heartbeat, stop, drain | a lease lost while work runs, shutdown |
| Cron, `internal/crons`, `internal/cronspec`, the schedules of `internal/store` | a row with a cursor, the last run and a declaration; history | tick, run by hand, pause, resume, override, push, withdraw, delete | a tick works from an old copy; saves and launches fail between its transactions |
| Run planning and state, `internal/runstate`, `internal/runspec` | the graph of a run and the state of its nodes | start, finish, retry, cancel | order of results, partial failure |
| Node host, `internal/nodehost`, `internal/nodeproto`, `internal/procgroup` | processes and framed messages | spawn, stream, kill | operating-system behaviour |
| Controller API, `internal/controller`, `internal/controllerwire` | none of its own | HTTP handlers over the store | authorisation, pagination |
| Caches, `internal/bincache`, `internal/blob`, `internal/objectguard` | content-addressed files, references | put, get, prune | pruning what is in use |
| Small ledgers, `internal/sessionledger`, `internal/ratelimit` | counters and windows | take, refill, append | limits |
| SDKs, command line, dashboard, charts | none relevant here | | |

A run or job asks the daemon for admission. The daemon turns the request into a
ledger request, commits ledger and tickets to one file, and routes the ledger's
events (granted, evicted, orphaned) to the participants that wait for them. It
releases for participants that die. Host samples move the ledger's headroom,
and a changed budget its totals. The store decides, in its own transactions,
which runner executes which unit of a run.

What would make each part wrong, and what is therefore worth stating:

* ledger: capacity given out twice; a waiter that could start and does not; a
  waiter passed for ever; a hold that outlives its lease; a state the daemon
  cannot start from again;
* daemon: two leases for one request; a lease nobody will release; an answer
  that contradicts the committed state;
* store and runners: one unit executed under two leases at once; a result
  accepted from a lease that expired; a unit nobody picks up again;
* cron: an instant fired twice, forgotten, or fired for a schedule that is paused.

## 2. Modules and plan

| Module | Models | Instance and runs |
|---|---|---|
| `AdmissionLedger` | `internal/admission`, all of it | `MCAdmissionLedger`: queue, auto, machine, family; raised_submit, capacity_skew, burst_restored |
| `AdmissionDaemon` | the admission service of `internal/wingd` and its client, over an abstract ledger | `MCAdmissionDaemon`: daemon |
| `UnitLeases` | one job in `internal/store`, the keeper of `internal/lease`, the host of `internal/nodehost` | `MCUnitLeases`: units, units_live |
| `UnitWork` | what store and hosts together promise of a job; `UnitLeases` implements it | (checked in units) |
| `ConcurrencyGroups` | the store's concurrency groups as jobs use them | `MCConcurrencyGroups`: groups |
| `Schedules` | one schedule of a controller: `internal/crons`, `internal/cronspec` and its transactions in `internal/store` | `MCSchedules`: schedules |
| `AdmissionLedgerProofs`, `AdmissionHostProofs`, `AdmissionQueueProofs` | theorems about `AdmissionLedger`: books, host capacity, queue and leases | |
| `AdmissionDaemonProofs`, `UnitLeasesProofs`, `ConcurrencyGroupsProofs`, `SchedulesProofs` | theorems about the module each is named after | |
| `DataLemmas` | what the proofs need of sums over finite sets and of recursive functions | |

How they fit together: a host that `UnitLeases` awards a job asks the store for
its groups before it starts it. In `UnitLeases` that is the start permit, which
a start or retry may be refused for; `ConcurrencyGroups` has the permit in full
and only as much of the award as decides it. On a shared machine the host also
asks the daemon; `AdmissionDaemon` has the tickets in full and of the ledger
only slots and a queue; `AdmissionLedger` has the ledger in full and of the
daemon only the order of its calls. The runs `Schedules` starts are the ones
whose jobs the other modules follow.

Left to do, in order: the election of the daemon, groups of whole runs, the life
of a run and its graph. Every invariant of a passing run is stated by a theorem,
and every action property but `BackfillSparesHead`; section 8 says under which
conditions and why.

## 3. The admission ledger

### State and actions

`AdmissionLedger.tla` models `ledger.go`, `invariants.go`, `snapshot.go`,
`policy.go` and the types of `admission.go`.

Every exported method runs under one mutex. An operation is one action; many
end in the loop `promote`, and the model keeps the loop: the operation sets
`mu` to what is left to do (`"promote"`, `"prune"`, `"check"`), `Promote` is
one iteration, and `Unlock` is the end of every operation, which evaluates
`mustHoldInvariants` and either frees the mutex or panics. No other operation
runs meanwhile, so the interleavings are those of whole operations, in every
order callers may choose.

| Code | Model |
|---|---|
| `Submit`, classic | `SubmitGranted`, `SubmitQueued` (a terminal claim leaves no trace) |
| `submitWithAging` | `SubmitAging`, with its three outcomes |
| `ReplaceWaiter`, `CancelWaiter` | the same names |
| `Attach`, `resolveParent`, `Depend` | `Attach`, `ResolveParent`, `Depend` |
| `Release`, `free`, `orphan`, `dropHold` | `ReleaseMember`, `ReleaseLast`, `Leave`, `Departed`, `Orphan`, `DropHold` |
| `SetHeadroom`, `ResizeTotals`, `SetPriority` | the same names |
| `grant`, `evictForClaim` | `Grant`, `Evicted` |
| `fits`, `hostFits`, `coresFitSoft`, `coresFitBurst`, `semBudgetFits` | `Fits`, `HostFits`, `SoftCoresFit`, `CoresFitBurst`, `SemBudgetFits` |
| `scanWaiters`, `reserve`, `violatedBy`, `starvedByYounger` | `ScanWaiters` (`ScanStep` repeated along the queue), `Reservation`, `ViolatedBy`, `StarvedByYounger` |
| `sortWaiters`, `waiterLess`, `classScore` | `Sorted`, `Outranks`, `ClassScore` |
| `Snapshot` + `Restore` (a restart) | `Restore`, then `SetSchedulingPolicy` as `initLedger` does |
| `mustHoldInvariants` | `InvariantViolation`, evaluated by `Unlock` |

Abstractions: a lease id is its sequence number and stands for its token; the
list of holds on a key is a function from leases, whose ids are in grant order;
the arrival counter, which breaks ties between admission ranks that are already
unique, events and the bypass counter are left out; demands are small integers
instead of millicores and bytes. `SetPriority` is asked only of runs that hold
or wait, as the daemon does (`internal/wingd/admission_http.go:457`), and
`ResizeTotals` never for less than is in use, as both its callers do.

### Runs

All instances are in `MCAdmissionLedger`; `MaxAdmit` bounds the admissions of a
behaviour and every other set is finite. `CHECK_DEADLOCK FALSE` appears only
where a daemon that panicked or refused to start is a legitimate end.

* **queue** (45,862 states): five runs, two keys, two cores, one unit of
  memory, all claim policies but skip, a headroom that vanishes and returns,
  restarts. Five admissions suffice for a holder, a blocked head, a candidate
  that passes it, an evicting claim and one arrival after that. Checks
  `TypeOK`, `NeverPanics`, `HoldsMatchClaims`, `BackfillSparesHead` and, under fairness, `QueueDrains`.
* **auto** (143,042 states): classes with weights and delay budgets that age
  every second admission, measured and unmeasured work, one burst, soft cores,
  a key with queue, fail and skip claims, restarts. `NeverPanics`,
  `NeverRefused`, `BackfillSparesHead`.
* **machine** (about a million states): a run, its job and a third participant,
  soft, burst and strict, budgets that grow and shrink below use, headroom above
  the budget, an operator's rank, restarts under either policy. `HostBounds`,
  `WaiterInvariants`. Sequences that panic (see findings) end there, so these
  are checked before every panic.
* **family** (276,619 states): three generations attach to a lease, depend on
  leases, and leave in every order, while `cancel_others` supersedes the lease's
  hold; restarts at every point. `LeaseInvariants`, `NeverRefused`,
  `DependentsTold`.

`BackfillSparesHead` is the central property of the scheduler, stated without
its mechanism: when a step lets `s` in past a waiter `w`, then `w`, which would
have fitted beside the younger leases once the older ones end, still does,
or `s` was measured and is within the delay `w`'s class tolerates, and `w` is
charged for it. `NeverPanics` says that the assertions of the code hold after
every operation (among them that the books of the host and the bounds of every
key are right); its hardest part is that no startable waiter stays queued.

### Fairness

`QueueDrains` assumes that an operation that has the mutex finishes (weak
fairness of `Promote`, `Unlock` and the second half of a restart) and that every
lease is released in the end (strong fairness, because other operations may hold
the mutex whenever the holder tries): holders end, and the daemon releases for
those that died. Nothing is assumed of arrivals, headroom, restarts or operators.

### Findings

Three runs expect a violation. Each states what the code's assertions or the
documentation promise.

* **raised_submit**: in classic mode a submitted request of higher priority
  that has to wait is sorted to the front. A waiter behind it that was blocked
  by an earlier waiter may now start, but `Submit` does not promote after
  queueing; `mustHoldInvariants` panics with "waiter fits free capacity but is
  still queued".
* **capacity_skew**: a key's capacity is the smallest any holder declared, and
  reservations count costs only. A holder of cost 0 with a smaller declared
  capacity passes a waiter and shuts it out, which `docs/admission.md` rules out.
* **burst_restored**: a request that may burst, queued under `auto`, makes the
  state unrestorable after a switch to `classic` and another restart, because
  `Restore` reinstates the burst limit before it checks that nobody queued fits.

The passing runs leave these triggers out (one rank at submission in `queue` and
`auto`, one capacity per key, one policy
beside `NeverRefused`). For the same reason they do not combine budget growth
with `NeverPanics` (`ResizeTotals` does not promote, and a host sample may have
set the headroom above the budget), nor a policy change (`SetSchedulingPolicy`
does not promote either), nor an owner that is
admitted again while its job holds (`ownerRankInvariant` then fails), nor more
`fail` claims in an aging queue than `auto` has (`submitWithAging` re-sorts the
queue and does not promote when it turns the request away).

## 4. The admission daemon

### State and actions

`AdmissionDaemon.tla` models the handlers of `admission_http.go`, the tickets
of `admission_state.go`, routing, orphan cleanup, start and drain of the
daemon, and `client/lease.go`, the calls a host makes.

The daemon has one mutex. A critical section is one step, with the reaping that
precedes most of them. What the code does with the mutex open is a step of its
own: reading from the runs store whether a run has ended (`ReadTerminal`,
between `RequestAdmission` and `Admit`), inspecting and killing processes
(`CleanupInspect`, between `CleanupCopy` and `CleanupRelease`), the observer of a
cancellation (`CancelCommittedRun`, after `CancelRun`). A loop over tickets runs
in the order of a Go map, so `CancelEach` yields the outcome of every order.

| Code | Model |
|---|---|
| `requestAdmissionHTTP` | `RequestAdmission`, `ReadTerminal`, `Admit` with `Decisions`, `Submitted` |
| `getAdmissionHTTP` | `Poll`, `Watch` |
| release by id and by key | `ReleaseAdmission`, `DeleteByKey` |
| process and priority requests | `TrackProcess`, `SetPriority` |
| `cancelAdmissionHTTP`, `cancelCommittedRunAdmission` | `CancelAdmissionHTTP`, `CancelCommittedRun` |
| `reapAdmissionLocked` | `Reaped`, `Sections` (before a handler's own work), `ReapAdmission` (the loop) |
| `routeLocked`, `captureAdmissionDeliveriesLocked` | `Route`, `CaptureGrants`, `CaptureEvicted`, `CaptureQueued` |
| `commitAdmissionLocked`, `pruneAdmissionTicketsLocked` | `Saves` (what may be written), `CommitOK`, `CommitFails` (rollback; the failed save may have reached the disk) |
| `cleanupAdmissionProcesses` | `CleanupCopy`, `CleanupInspect`, `CleanupRelease` |
| `beginDrain`, exit, `initLedger` | `BeginDrain`, `Stop`, `Start` |

The ledger is `Capacity` equal slots and a first-come queue: granted, queued,
refused, released with promotion, superseded. The queue is the set `waiters` and
the order `ahead`, a set of pairs; a waiter is promoted when fewer are ahead of
it than slots are free. Priorities, members and capacity
of several kinds are the ledger's own subject. A terminal ticket is kept for a
minute, which is longer than any request for its key is under way; the model
forgets it only then. A job is sent its work once its session is recorded, so a
session exists from `TrackProcess` on.

### Run

**daemon** (167,474 states): one host, two calls for two jobs of one run, one
slot, at most two faults. A fault is a save that fails, a crash or a planned
replacement of the daemon, a dead host, a lost answer or a lost call. Two are
enough for a failed save followed by a crash, and for a lost call of a host that
then dies. Each key is used once, so the system may come to rest and deadlock
is not checked. Two calls for the *same* identity are outside this instance; the
theorems of section 8 cover them.

* `Books`: leases and waiters of the ledger are exactly what active tickets
  stand for, also after a rollback, a restart, and a promotion of a waiter whose
  host is being reaped in the same loop.
* `WorkHoldsCapacity`: a session with live processes keeps its lease.
* `GrantsAreTold`: nobody goes on believing in a lease that is gone.
* `CancelledRunsLeave`: a request that read "not cancelled" before the
  cancellation cannot slip in after it.
* `DeletedKeysHoldNothing`: a delete by key also stops the request it overtook.
* `TicketsEndOnce`: saves may fail, but a key is decided once while the daemon
  runs.
* `DoomedTicketsEnd`: capacity of dead hosts and of cancelled jobs comes back.

Fairness: the liveness loop (`ReapAdmission` and the cleanup, every second), the
watch of a host that lives, and that a dead daemon is started, as the next client
does.

Two losses the code accepts are left out of the properties: the observer of a
cancellation whose save failed is not called again (`missed`), and a delete by
key that is lost leaves a grant until its host exits.

## 5. Jobs, awards and leases

### State and actions

`UnitLeases.tla` follows one job. Its row is `row`, its `node_attempts` are
`attempts`; a host process is known by the generation of its award. A store
transaction is one step. Time is relative: every deadline is the number of ticks
left, and `Tick` takes one off all of them at once (one clock, no skew).

| Code | Model |
|---|---|
| `claimUnitTx` | `ClaimUnit`, `Award`; the search before it is a read that is made again under the lock, so it is not state |
| `transitionNodeStateTx`, replay by digest | `TransitionNode`, `Permitted`, `Apply`, `Replayed` |
| `RenewNodeClaim`, `lease_bound.go`, metering | `RenewNodeClaim`, `StrayRenew`, `Bounds`, `Renewed` |
| `reapNodeUnitTx`, `reapUnclaimedNodeTx` | `ReapNodeUnit`, `Reap`, `QueueTimeout` |
| owner's release, revocation and settlement, `CancelRun` | `OwnerRelease`, `OwnerRevoke`, `OwnerSettle`, `CancelNode` |
| `lease/keeper.go` | `Join`, `SendRenew`, `ReceiveBeat`, `Fence`, `Ticked` |
| `nodehost/claimed_node.go` | `ReleaseUnit`, `Relinquish`, `StartExecution`, `SetupFailure`, `Complete*`, `ReceiveAnswer` |

A command stays in `net` once sent: it may arrive late, again or never, and its
answer may be lost (`Answer`). A renewal the host gave up on may still arrive
(`stray`). Silence is free; lost awards, lost renewals and dead hosts are counted
by `MaxFaults`. `Drain >= Lease` is what the defaults say (300 s in
`store/schema.sql`, 180 s in `limits/claim.go`).

### Runs

* **units** (1,301,695 states): two awards, so that two hosts meet; a lease of
  two ticks, so that a renewal may be answered with less than was asked; one
  retry, two disruptions, one fault. `StoreSound` (the row agrees with its
  attempts and budgets, and with what hosts were told of their reports),
  `WorkIsCovered` (a host that works holds the job for at least as long as its
  keeper lets it go on), `LiveClaimsStay`, and the refinement `OneWorkerAtATime`.
* **units_live** (22,556 states): one award, two faults, a drain longer than the
  lease. `AbandonedReturns` and `CancelledSettles`, under weak fairness of time
  and of the reaper, which the controller runs on a ticker; nothing is assumed
  of hosts, owners or claimants.

A settled job takes no more steps, so deadlock is not checked.

`OneWorkerAtATime` is `UnitWork!Spec`: attempts are worked on one at a time, each
under a new ordinal, nobody settles a job somebody works on, and a success is
that of the last attempt anyone worked on. It is mapped from what the hosts do,
not from the row, and so says that the row is right about the world.

Left out: approvals, expansion and publication, rejection by the launcher,
failures for price or duration (all settle a job as `OwnerSettle` or a report
does), units of run owners, clock skew. That a bound once granted does not come
closer is taken from the code; the accounting behind it is not modelled.

## 6. Concurrency groups

### State and actions

`ConcurrencyGroups.tla` models `concurrency.go`, `capacity_admission.go`,
`capacity_owner.go` and `concurrency_continuity.go` of the store. A work is a
place in a pipeline; its job may run again in a new run (`Repeating`). The team's
admission lock makes an admission one step.

| Code | Model |
|---|---|
| `MayStart`, `admitWorkTx`, savepoint and rollback | `MayStart`, `Arrived`, `Retained`, `Waited`, `Trial` key by key with `TryKey`, `Park` |
| `acquireConcurrencySlotTx` | `AcquireSlot`, `Insert`, `Supersede`, `Victims` |
| `txConcurrencyAccounting`, `fitsBudget` | `Used`, `EffectiveCapacity`, `Fits` |
| `txEarlierRunnableQueueWaiter`, `blockedByYoungerHolders` | `EarlierRunnable` |
| `checkStartPermitTx` | the guard of `StartExecution` |
| `renewCapacityTx`, of the host and of the owner | `RenewedCapacity` in `Renew`, `OwnerRenew` |
| `releaseCapacityTx`, reaping, maintenance | `Settle`, `GiveBack`, `Reap`, `ReapHolders`, `Maintain` |

Arrival and grant times matter by their order only, which `arrivals` and `claims`
keep: an order is a set of pairs, the earlier work first. All rows of a work share one lease, `ttl`, which the
host's lease bounds below when the owner's may outlast it. The capacity stored
with the group decides nothing and is left out.

### Run

**groups** (85,180 states): three pipelines and two groups. `a` queues for both
and comes again and again, `b` queues for the first with a timeout, `c` takes the
first from others and must then queue for the second; capacities differ, as after
a change of one pipeline. Leases of two ticks, and two ticks, cancellations and
give-backs in all: enough for an award and its capacity to lapse apart. Deadlock
is checked.

* `InvariantsHold`, the code's own assertion, at all times; `RunningBudget`, what
  it is for: jobs that run and are not asked to stop fit the budget each of them
  declared. A job asked to stop may overlap its successor while it winds down,
  as the documentation of `CancelOthers` says.
* `WholeSets`: all of a job's groups or none.
* `ArrivalsKept`: a live waiter keeps its place through the loss of its host.
* `WaitersMoveOn`, `SupersededEnd`: waiters are served or ended; preempted jobs
  end, also those whose award lapsed.

Fairness: hosts claim, poll while a poll would change something, start and end
their jobs; the reaper and the owners' loops run. The condition on polls is
weaker than weak fairness of `MayStart`.

`WaitersMoveOn` is checked where nobody declares less capacity than a waiter
costs: a waiter is measured against the least capacity of the live holders,
younger ones included, so a stream of such jobs would pass it for ever. A queue
timeout is looked at key by key inside the trial, so one declared on a later key
is not seen while an earlier key makes the job wait; the model does the same. It
is measured from the arrival, and a reservation that lapsed arrives anew
(`Waited`): a job that is late when its host is lost for longer than its lease
waits again, with its whole timeout, and in the run this happens.

Left out: groups of whole runs, groups of one machine whose key changes with the
host, answers while the admission lock is busy, a clock that goes back. The
policies `skip` and `fail` are modelled and not in the instance.

## 7. Schedules

### State and actions

`Schedules.tla` models one schedule of a controller: `crons/tick.go`,
`cronspec/decide.go`, `controller/crons.go` and, of the store, `crons.go`,
`schedule_intake.go` and `schedule_transactions.go`.

| Code | Model |
|---|---|
| `Tick`, `tickOne` | `StartTick` (reads the clock), `ReadSchedule` (reads the row, decides) |
| `cronspec.Decide`, `lastInstantBefore` | `Due`, `InTime`, `Missed`, `Counted`, `LastMissed` |
| `advanceIdleCursor`, `recordMissed` | `AdvanceIdle`, `RecordMissed` |
| `resolveDue` | `CheckOverlap`, `Launch`, `Record` |
| `cronLauncher.Launch`, `AdmitScheduledRun`, `scheduleAdmission.resolve` | `Launch`, `Admitted`, `Unaltered` |
| `ResolveCronDue` | `ResolveCronDue`, `Resolved` |
| pause, resume, override, push, withdrawal, deletion, run now | `Pause`, `Resume`, `Override`, `Push`, `Withdraw`, `Delete`, `RunNow` and `AdmitNow` |

A transaction is one step. A tick reads the row once and works from the copy;
members may do anything between two of its steps. A launch is two transactions
in the code, with the lookup of the source between them; the second repeats
every check of the first, so the model has the second. There is one tick at a
time: the controller holds the store for its whole life and ticks in one loop.
The stamp that spaces ticks, and `next_due_at`, which is only shown, decide
nothing and are left out.

A launch may be refused at any time; `MaxFaults` bounds what fails without
being refused: a save, the look at the last run, an answer after the commit, a
conflict, a controller that dies. `owed`, `asleep`, `edited` and `uncounted` are
history variables of the properties.

### Run

**schedules** (1,832,969 states): a schedule of minutes 1 and 2 that skips and
one of minute 1 that queues, each of which may become the other; three minutes,
of which one is within the catch-up window, two edits (a pause and a resume, or
an edit and a run by hand) and one fault. An instant fires, is missed beside one
that fires, or is missed altogether. Deadlock is checked. A backlog beyond
`MaxMissed` (10000 in `cronspec`, 1 here) takes a third instant: with `Often` at
minutes 1, 2 and 3 the cap binds, and TLC finds no error in 6,183,450 states, which
takes longer than a regular run should. The theorems hold for every cap.

* `Accounted`: an instant the cursor has passed has a row in the history that
  says what became of it; every run has one row, every instant at most one run.
* `FiresOnlyArmed`: a run of the cadence is admitted only while the row itself,
  not the tick's copy, is declared, not paused and has that instant, and never
  for an instant that passed during a pause.
* `SkipHonoured`: with `skip`, a run of the cadence that comes right after another
  does not start while that one is active.
* `TickResolves`: a tick that ends without a fault leaves nothing due that was
  due when it began. As the loop goes on ticking, what a fault left is made good.

The properties carry four exceptions the code has. When the row for missed
instants cannot be saved, the tick still resolves the later instant and the
cursor passes them without a row (`uncounted`), although the comment of `Tick`
says that an outcome which fails to persist leaves the instant due. When more
than `MaxMissed` instants were missed before one that fires, the row stands at the
last that was counted, and the cursor passes the rest without one (`uncounted`
too); the row says "or more". The overlap
check looks at the last run of the row, which a run by hand also is: one between
two runs of the cadence hides the first, and `SkipHonoured` speaks of consecutive
runs, while the documentation speaks of the previous scheduled run. (A run whose
predecessor could not be looked up starts, as the code says, and so does one whose
predecessor waited unclaimed for longer than the catch-up window, even if it is
claimed later.) And an edit keeps the cursor: instants that were open at an edit
(`edited`) are judged by the new declaration.

Left out: local schedules (pins, refresh of checkouts, the operating system's
timer), the cadence guard and overrides that cannot be evaluated, holds during a
restore, the pruning of history to its newest rows.

## 8. Proofs

Every theorem holds for every value of the constants that satisfies the named
`ASSUME`s of its module, which TLC evaluates in every run. Each module proves
one inductive invariant, `Spec => []IInv`, and derives the properties from it;
TLC checked the invariants on the runs' instances before they were proved. An
invariant a run checks is seldom inductive, and what has to be added is the
reason why the code is right.

### The ledger

* `AdmissionLedgerProofs`: `TypeCorrect` (`TypeOK`) and `HoldsAreClaims`
  (`HoldsMatchClaims`) are proved together: a freed lease drops the holds its
  claims name, so the type invariant (no hold of a lease that is gone) is
  inductive only with the match of holds and claims. The argument has three
  parts: `SameBooks` (steps that change no resources), `GrantFacts` and
  `ReleaseLastFacts`, and one lemma per operation.
* `AdmissionHostProofs`: `HostNeverOvercommitted` (`HostBounds`). The code's
  assertion is not inductive: some soft lease may exist without being the cause
  of the excess, and when the cause is released the excuse would go while the
  excess stays. `HostInv` names the lease that carries the excess: without its
  cores the others fit. It also needs that waiters ask for no more than the
  totals (an idle machine admits anyone), that at most one lease bursts, and that
  between `Restore` and `SetSchedulingPolicy` the restored limit is at least the
  policy's.
* Also there: `HostBooksBalance` (`HostBooks`: what counts as used is the sum over
  the leases) and `SemaphoresWithinCapacity` (`SemaphoreBounds`), parts of
  `mustHoldInvariants` that are sums. `BooksInv` adds that a waiter's claims cost at
  most the capacity they declare: a key nobody holds, or whose holders a
  `cancel_others` claim supersedes, has only the newcomer to bound it.
* `AdmissionQueueProofs`: `LeasesApart` (`LeaseInvariants`), `QueueInOrder`
  (`WaiterInvariants`) and `EndsAreTold` (`DependentsTold`). `PlaceInv` joins the
  first two, because neither is inductive alone: a promoted waiter founds a lease
  apart from all others only because nobody waits who holds, and a participant is
  queued only if no lease has it. That nobody is queued twice follows from the
  order: in an arrangement ordered by `Outranks` a waiter in two places would
  outrank itself.

When does the daemon panic, and can it start again? `NeverPanics` and
`NeverRefused` do not hold for all constants, as the findings show, and the
theorems say what it takes.

* `PanicCauses` has no hypothesis: of all `mustHoldInvariants` asserts, books,
  bounds, holds, members and order never fail. An operation panics only because
  an owner was let in again while somebody ranked by it held or waited
  (`OwnerReadmitted`; `RankInv` says that nothing else breaks an owner's rank), or
  because an operation that does not run the promote loop left a waiter that
  could start. The loop leaves none, by its own guard.
* `RestartsAccepted` (`NeverRefused`): a freed mutex means nobody could start and
  the lineage is in order, and `Restore` asks for no more. Conditions: a run is
  started by one older than itself, and no lease's owner is a run that attached
  (`FamiliesOrdered`, any numbering of the runs will do), so that every walk
  along parents ends at the run that holds the lease or at its owner; and policies
  all burst or none does (`BurstSettled`), without which burst_restored is a
  counterexample. The instances of auto, family and queue satisfy both.
* `PanicsOverOwners` and, where no request names an owner, `OrderlyNeverPanics`
  (`NeverPanics`). `Orderly` asks for no resize, one policy, and either a classic
  queue with one rank, or an aging queue without `fail` and `skip` claims. Each
  exception is one of the triggers listed with the findings in section 3. What is
  left of `PanicCauses` are the operations outside the promote loop. Most change
  nothing a waiter's start depends on, or take capacity away; the hard one is a
  request that has to wait in a classic queue. There, newcomers sort last: an
  ordered arrangement of given waiters is unique (`OrderedUnique`), the scan of
  those before the newcomer is as it was (`ScanBeforeLast`), so nobody else may
  start now, and the newcomer was queued because it could not (`NewcomerWaits`).
  The instance of queue satisfies `Orderly` and has no owners.

Assumed: what `normalize` and `normalizeClaim` check of a request before looking
at the totals, and natural numbers where the code has unsigned or validated ones.

### The daemon

`AdmissionDaemonProofs`: `DaemonTyped` (`TypeOK`), `BooksBalance` (`Books`),
`WorkKeepsCapacity` (`WorkHoldsCapacity`), `CallersAreTold` (`GrantsAreTold`),
`CancelledLeave` (`CancelledRunsLeave`), `DeletedHoldNothing`
(`DeletedKeysHoldNothing`) and `EndsOnce` (`TicketsEndOnce`), all from
`DaemonSound`, for any number of keys (several for one identity too), runs,
hosts, handlers, slots and faults. The invariant `IInv` has three parts.

* `Tables(adm, committed, disk)`: the memory, the payload last saved and the one
  on disk are each in balance (`Rest`, `Sound`), because a failed save brings back
  the second and a restart the third. Memory and saved payload differ only in what
  told tickets say (`Saved`), and a ticket that ended has ended on disk too
  (`Behind`): otherwise a crash after a failed save could bring it back. What has
  to survive a rollback or a restart (work, deletions, cancelled runs) is
  therefore stated of the saved payload or of the disk, not of the memory. A
  cancelled run has a tombstone or no handler that read "no" (`RunLeft`); a key
  under deletion has a ticket, or neither a handler nor a ticket on disk
  (`Settled`).
* `CleanUp(committed)`: the copies the clean-up judges with the mutex open are
  older than the tickets, and since tickets only age, a judgement once right
  stays right; the ticket it is about to release is `Doomed`.
* `Control`: types, and who may be where.

In the middle of a section the books balance with grants that are not yet routed
(`Standing` has `events`); `CancelEach` takes its tickets in any order, and
`CancelAllIn` shows for every subset that has had its turn that just these are
cancelled. `Ages` is what no operation on another ticket and no save undoes. A
step is proved in two: what it makes of the tables under the control it finds
(`CommitProgress`, from `Fits` for each key), then the change of control. Assumed:
finitely many keys, none of them the value that stands for no key.

### Jobs and leases

`UnitLeasesProofs`, from `RowInv`, `HostInv` and `NetsInv`: `LeasesTyped`
(`TypeOK`), `RowAgrees` (`StoreSound`), `LeaseCoversWork` (`WorkIsCovered`),
`ClaimsStay` (`LiveClaimsStay`) and `OneWorker`, the refinement of `UnitWork`. A
command or renewal under way may arrive at any time, so the invariant says of
every message in `net` what its arrival could do: it belongs to an award that was
made, and if that award is the current one then the host that sent it is in the
state the command supposes. The keeper is covered because what it was told never
exceeds what the row had when the answer left. Assumed: leases of at least one
tick, and `Drain >= Lease`.

### Concurrency groups

`ConcurrencyGroupsProofs`: `GroupsTyped` (`TypeOK`), `SetsAreWhole`
(`WholeSets`), `NothingToReport` (`InvariantsHold`), `RunningFits`
(`RunningBudget`) and `PlacesAreKept` (`ArrivalsKept`), for any number of works
and keys, any declarations and all policies (the run has no `skip` or `fail`).
The invariant adds to these that rows are only on keys that were declared, that
the superseded are asked to stop and the done hold nothing, and that the rows of
a permit outlast its award unless its job is to stop. The heart is `TrialMakes`:
`Tried` describes the tables after any set of keys was granted, and counts the
asker among the live holders whatever its old lease says, because it will be one
of them when the trial commits. `SlotTried` is one key: it fits the effective
capacity, or `VictimsMakeRoom`.

Assumed: finitely many works and keys, positive costs and capacities, a lease of
at least one tick.

### Sums and recursion

`DataLemmas` serves the ledger and the groups. Sums are reduced to cardinalities
(`SumIsUnits`: the sum of a function over a finite set is the number of pairs of
an element and a unit of it), for which the library has theorems. A recursive
function says nothing until a function that satisfies its equation is shown to
exist; `IteratesExist` and `WalksExist` do that for a scan along a sequence and for
a walk along parents, `IteratesUnique`, `IteratesKeep` and `WalksStay` say what they
compute. Induction goes by a smallest counterexample, which the provers can
follow where an induction theorem with an operator as parameter is beyond them.

### Schedules

`SchedulesProofs`: `SchedulesTyped` (`TypeOK`), `NothingIsLost` (`Accounted`),
`OverlapHonoured` (`SkipHonoured`), `OnlyArmedFire` (`FiresOnlyArmed`) and
`TicksResolve` (`TickResolves`). The invariant relates the tick's copy to the row
as it is now: what is still open and was not edited is in both (`OpenInv`), a run
moved the cursor in the transaction that made it (`RunInv`), every run and every
passed instant has its row in the history (`HistoryInv`), and only runs by hand
follow the run the row names (`OverlapInv`). Assumed: at least one missed
instant is counted (`MaxMissed > 0`), or a backlog would have no row to stand at.

### Only model-checked

* `NeverPanics` where an aging queue has `fail` or `skip` claims, which auto has: the
  re-sort of a refused request may let a waiter start, so it depends on the
  weights and demands of the instance.
* `BackfillSparesHead`: it rests on the reservations of the whole queue, and it fails
  when capacities on a key differ, as capacity_skew shows.
* The liveness properties `QueueDrains`, `DoomedTicketsEnd`, `AbandonedReturns`,
  `CancelledSettles`, `WaitersMoveOn` and `SupersededEnd`: fairness and `ENABLED`
  are out of the prover's reach.

## 9. Not modelled

* Sensing and capacity of the daemon: samples of the operating system; their
  effect, any headroom and any budget, is in `AdmissionLedger`.
* Election of the daemon: file locks and sockets.
* Run planning: a candidate for a module of its own. Local schedules: timers of
  the operating system and compiled checkouts.
* Controller API: decodes, authorises and calls the store, whose transactions
  are modelled.
* Caches, repositories, sessions, rate limits, secrets: files, network and
  cryptography around little state.
* SDKs, command line, dashboard, release and deployment jobs: presentation and
  tooling. They are most of the repository, which is why the mapped share of its
  lines is small although the parts that decide who runs are covered.

Of the ledger: the upgrade of snapshots written before admission ranks existed,
the random tokens and who may prove ownership with them, event payloads, and the
conversion between fractional cores and millicores. Of the daemon: the limits on
remembered runs (4096) and tickets (256), and members of a lease.

The definitions marked `Mutant:` are deliberate mistakes, one for each checked
property: substituting one for its original makes TLC report that property,
which shows that the property can fail.
