# Verification of FOT: employees, numbers, cards and timesheets

FOT is a personnel and access-control portal: a TypeScript server
(`fot-server`) over PostgreSQL, a React client (`fot-app`) and a read-only data
API. Most of its code stores forms and renders reports. The parts in which
concurrency and failure decide whether the program is correct are those that
change two systems at once: PostgreSQL and **Sigur**, the access-control system
whose cards open doors, or PostgreSQL and the mobile operator **MTS**. There is
no common transaction, several processes act on the same employee, number or
card, and other people change the other system too. Timesheets live in
PostgreSQL alone, but what 1C pays by is a snapshot of hours that many people
correct. This directory models those parts.

Paths below are relative to `src/fot-server/src/`.

## 1. Inventory

| Component | State it keeps | Operations | Interacts with |
|---|---|---|---|
| Life-cycle operations (`services/employee-lifecycle-operations.service.ts`, `lifecycle-revocations.service.ts`) | rows of `employee_lifecycle_operations` (kind, status, base revision, steps done, lease), snapshots of revoked rights, `employee_dismissal_events` | open dismissal / reinstatement / repair, acquire lease, run, record step, apply, resume, guards | the employee row, Sigur, every other component of this table |
| Requests (`controllers/employee-lifecycle.controller.ts`) | none of their own: `dismissal_date`, the claim `dismissal_apply_started_at`, `lifecycle_revision` of the row | `fire` (at once or with a date), `cancelDismissal`, `rehire` | operations |
| Dismissal scheduler (`services/dismissal-scheduler.service.ts`) | the claim; what it holds between claim and open | tick every 5 minutes: resume expired operations, claim a due employee, reload, open, execute | operations |
| Sigur employee sync (`services/sigur-sync-employees.service.ts`) | the paged export and the employee rows, loaded at the start of a long run; `employee_sigur_absence_marks` | transfer, dismissal by the archive folder, two-strike dismissal of missing employees, move of dismissed employees' cards with compensation, rebind of cards | operations, Sigur |
| Department changes and technical access (`employee-changes`, `employee-department-access`, `sigur-linked-employees`) | `employee_assignments`, `employee_department_access`, `org_department_id` | `changeDepartment`, `upsertTechnicalDepartmentAccess`, `syncLinkedEmployeeFromSigur` | called by the two above |
| MTS call forwarding (`services/mts-forwarding-operations.{service,runner,flow,worker}.ts`) | rows of `mts_forwarding_operations`: state, generation of the last order, lease of the sender, deadlines; an hourly quota | reserve, claim, step by step: service, removals one by one, the rule; verify, recover, expire | the operator's API, requests, a worker on each server |
| Sigur runtime and card leases (`sigur-runtime-state`, `sigur-runtime-guard`, `sigur-card-lease`) | one row per activity: owner, end, meta | acquire, renew, merge, release | card terms, mirror, polling, monitor, backfill, card reader |
| Card terms (`sigur-bulk-cards`, `sigur-bulk-cards-rollback`, `sigur-live-cards`, `controllers/sigur-admin.controller.ts`) | the plan in `audit_logs`; the terms themselves are in Sigur | preview, bulk extension, save of one card, rollback of an extension, assignment | Sigur, card lease, contractor passes |
| Contractor passes (`contractor-pass-expiry-sync.*`, pool, idle block) | `contractor_passes`, the day's run | nightly mirror of the terms; pool of cards; block of idle passes | Sigur, card lease |
| Blacklist | entries | block cards of listed persons | Sigur |
| Timesheets (`services/timesheet-*`, `controllers/timesheet-approval.controller.ts`, `access-point-zone-reconcile`) | `timesheet_approvals` (status, `unlocked_at`, the mark `version_dirty_at`/`_seq`), their rosters, `timesheet_versions` | correct, submit, recall, approve, reject, return, open, close, close a month, rebuild, recalculate a zone | advisory locks per (employee, month); 1C reads the latest versions |
| Employee creation, authentication, chat, notifications, payroll, KPI, exports, MTS Business, data API, front end | see `PROJECT.json` | | |

What is hard to test here:

* five actors (requests, repeated requests, the scheduler on each server, the
  sync, Sigur's operators) interleave on one employee;
* each operation is a sequence of calls to another system and row updates; the
  process may stop between any two, a call may fail after taking effect, and
  leases run out;
* the sync decides on a state read minutes before, a forwarding step on rules read
  before its turn to send, a rollback on a plan, a rebuild on a snapshot;
* the operator answers an order and carries it out at some other time, or carries it
  out and the answer is lost: sending it again is as wrong as forgetting it;
* a PATCH of a card is repeated by its client, outlives its sender, or meets a lease
  that has lapsed; some writers take no lease at all;
* corrections of hours, reviews, submissions and recalculations of one timesheet
  meet between a snapshot, a set of advisory locks and a row lock, taken in that
  order for good reasons;
* a dismissal that has been scheduled must be carried out, an operation that has
  begun must end, a pass must catch up with its card.

`PROJECT.json` lists each such hazard at the line where it bites with the
properties aimed at it, or says why none covers it.

What makes the components correct, in the words of the properties:

* **Life cycle.** A pending operation *owns* the employee (`PendingOwnsState`), has
  one executor (`OneExecutor`) and ends by being applied exactly once
  (`ImplementsEmployment`, `ChangesAlternate`, `OneChangePerRevision`,
  `PendingEnds`, `ScheduledEnds`); card and rights follow the status
  (`CardFollowsStatus`, `RightsFollowStatus`, `UnblockedOnlyToRehire`, `CardSettles`);
  the sync dismisses only when it is justified at that moment
  (`ArchiveFireJustified`, `AutoFireJustified`, `ScheduledNotPreempted`).
* **Forwarding.** Nothing asked is ordered twice (`SentOnce`), a number has one order
  at a time (`OneOrderAtATime`), a rule is set only when nothing stands in its way
  (`CreateMeetsNoConflict`), an operation ends with its orders settled
  (`EndsSettled`) and reports success only when the mode stands
  (`DoneMeansApplied`); and it does end (`Ends`).
* **Cards.** Who holds the lock writes what he has just read (`PatchMeetsItsReading`),
  a pass is written to agree with its card (`PassFollowsCard`) and catches up in the
  end (`MirrorCatchesUp`); a rollback gives back what the operation found
  (`RollbackRestores`) and touches nothing else (`RollbackTouchesOwn`, which fails).
* **Timesheets.** What 1C is given of a closed timesheet are its hours
  (`ClosedIsExact`), no correction lands behind the lock (`FrozenWhileClosed`) and a
  day is paid once (`CountedOnce`).

## 2. Modules

| Module | What it is |
|---|---|
| `Employment` | abstract specification: what the life-cycle operations promise for one employee, with Sigur, leases and executors left out |
| `LifecycleOps` | requests, scheduler, operations and their execution, and the card, for one employee |
| `SigurSync` | extends `LifecycleOps` with the synchronisation and Sigur's operators |
| `ForwardingOps` | call-forwarding operations of one mobile number, the processes that carry them out and the operator |
| `CardWrites` | the writers of card terms, their lease, the nightly mirror, the passes |
| `Timesheets` | two timesheets of a half-month that share employees: corrections, locks, snapshot transactions, versions |
| `MCLifecycleOps`, `MCSigurSync`, `MCForwardingOps`, `MCCardWrites`, `MCTimesheets` | instances for TLC (symmetry, budget) |
| `LifecycleOpsProofs`, `LifecycleOwnershipProofs`, `LifecycleOutcomeProofs` | theorems and proofs about `LifecycleOps`: types and revisions; leases, claims, refinement and history; card and rights |
| `SigurSyncProofs` | theorems and proofs about `SigurSync`, on top of the three above |
| `ForwardingOpsProofs`, `ForwardingOrderProofs` | theorems and proofs about `ForwardingOps`: types and sending; what the orders come to |
| `CardWritesProofs`, `TimesheetsProofs` | theorems and proofs about `CardWrites` and `Timesheets` |

`SigurSync` composes with `LifecycleOps` by extension: its next-state relation is
the steps of `LifecycleOps` with the sync's variables unchanged, and the sync's
own steps, which use the same opening actions (`OpenDismissClaiming`,
`OpenRepair`) on the same rows. `LifecycleOps` implements `Employment` under the
refinement mapping `AbstractState` (what is pending decides, else the status), and
so does the composition. The other three share no rows with them or with each other.

### LifecycleOps and the code

| Variable | In the code |
|---|---|
| `emp` | the row of `employees`: status, `lifecycle_revision`, department, whether `sigur_employee_id` is set (`linked`), whether `dismissal_date` is (`dated`), the claim and whether it is older than 30 minutes, active rows of `employee_department_access` |
| `ops` | rows of `employee_lifecycle_operations`; `flags` are the five Sigur columns, `owner`/`leased` the lease, `snapshot` the revoked rights |
| `events` | `operation_id`s present in `employee_dismissal_events` |
| `card` | the card in Sigur: department and blocking |
| `run` | what one call of `runOperation` holds in memory: the operation, **its own copy** of the step flags, where it is |
| `sched` | where a scheduler process is between claim and open |
| `faults` | how many faults have happened, a bound |

Each handler, each transaction and each call to Sigur is one action. A call and
the row update recording it are two actions (`SigurCall`, then `WriteStep`), so a
crash may fall between them. A transaction that locks the employee row is one
action. `SigurCallFails` covers a refused call, a timeout and a lost answer: the
card may have changed. The final transaction is `Apply` when its compare-and-set,
its lease check and the uniqueness of the event all hold, and `ApplyRefused` when
it rolls back. An error leaves the operation pending with its lease held, as the
code does.

### SigurSync and the code

`sync` is what the running `syncEmployees` holds for this employee: where it saw
the card, the row loaded with the export, the row reread before the decision, the
operation to be reset. `mark` is the absence mark, `graceOver` the reinstatements
older than 60 minutes, and `slipped` a history variable (see 3). The phases come
in the order of the code: update phase (`SyncRow`, `SyncTransfer`, `Archive…`) or
missing-employee phase (`Absent…`, `AutoFire`), then the batch move (`Move…`). The
safety thresholds on the whole export may call the missing-employee phase off at any
time (`AbsentCalledOff`, and marks that `SyncRow` leaves in place), and a quick
synchronisation of single cards ends before the batch move.

### ForwardingOps and the code

| Variable | In the code |
|---|---|
| `op` | rows of `mts_forwarding_operations`: state, type and address asked, `gen` (the generation of the last order), the type being ordered or removed (`action`), attempts, `owner`/`live` (the lease), `late` (deadline passed), `old` (24 hours passed), `counted` (quota), `from` (the state `unconfirmed` came from) |
| `pc`, `at`, `cur` | a request or a worker inside its step: where it is, the operation, **its own copy** of the row |
| `seen` | what it last read at the operator |
| `cycles` | synchronous cycles the request has left |
| `used`, `bound` | operations counted in the hour; the number still belongs to the employee |
| `service`, `rules` | the operator: forwarding connected, rules by type |
| `orders` | every order sent and not refused, open while it may still take effect |

A step is a worker's claim or a request's cycle (`ClaimDue`, `Resume`), a reading
(`ReadRules`, `ReadServices`), a decision, then perhaps `EnsureQuota`, `ClaimSend`,
`Post` and one of `Accepted`, `Unanswered`, `Refused`. Rows are written by
compare-and-set on state and lease (`Transition`), as `transition` does. An order
accepted or unanswered stays open until `Settle`, which carries it out or drops it.
`Abort` is a process that stops or throws anywhere; `RecoverStale` is what the
workers do with rows whose lease has run out.

### CardWrites and the code

| Variable | In the code |
|---|---|
| `card` | the binding of the card in Sigur: its term and its start |
| `pass` | `contractor_passes.expires_at`, a day |
| `started` | the plans in `audit_logs` (`bulk_extend_cards_started`) |
| `pc`, `item` | how far an extension, save, rollback or nightly run is, and what it holds of each card: the step, the term it read, the one it writes, the day the pass had |
| `undoes`, `lost` | the operation a rollback undoes; that the heartbeat has found the lease gone |
| `lease` | the rows `sigur:card-write` and of the nightly run in `sigur_runtime_state` |
| `day` | `meta` of the nightly row: the day is counted, a retry is due later |
| `flight` | PATCHes Sigur has still to carry out or refuse |
| `written`, `loose` | history: the term an operation found on a card it wrote; what the lock does not cover and has happened |

An extension is `Preview`, `AcquireBulk`, `Snapshot`, `WriteStarted`, then for each
card `BulkReread`, `Send`, `Answered` or `Failed`, `Verify`, `WritePass`, then
`Finish`; save and rollback share the steps of a card. The nightly mirror is
`SyncTick` to `SyncMark`. Moment `2d+1` is the end of day `d`, so that a term and
the day of a pass are converted as the code converts them (`DayOf`, `EndOf`).

### Timesheets and the code

| Variable | In the code |
|---|---|
| `row` | `timesheet_approvals`: status, `open` (`unlocked_at`), `dirty` and `seq` (`version_dirty_at`, `version_dirty_seq`) |
| `roster` | `timesheet_approval_employees` |
| `version` | the hours of the latest of `timesheet_versions`, which is what 1C reads |
| `hours`, `staff` | hours of an employee, the employees of the department |
| `edit` | the correction of an employee inside its transaction, holding the advisory lock |
| `tx` | snapshot transactions: `list` (employees read for locking), `wait` (locks held, snapshot taken), `hold` (row lock held), end; with its list, its snapshot and whether the row has changed since |
| `desk` | submissions, and the reconciliation of the manager's own timesheet after them: what they have read and not yet written |
| `zone` | the recalculation after a change of an access zone: hours changed, timesheets looked up, timesheets marked |
| `sound`, `checked` | history: the version of the timesheet was built, or compared, under locks that cover its roster |

`Begin` takes the locks of the list and the snapshot in one step: between the last
lock and `BEGIN` nothing the transaction reads can be changed by a holder of these
locks, and everything else may as well change before. `Acquire` fails with 40001
when the row has changed since the snapshot and starts again with **the same list**
(`Again`, `MAX_ATTEMPTS` attempts); so may any transaction that has not written yet. `Approve`, `ForceApprove`, `Close`, `Rebuild` and `Review`
are the whole rest of the transaction. A correction is two steps, its check under
the lock and its commit.

### Abstractions

Life cycle and synchronisation:

* One employee. No operation touches the row or card of another; the sync handles
  employees independently within each phase.
* Dates are reduced to *dated*: a scheduled dismissal may fall due at any moment.
* Departments of the portal and of Sigur are the same set, and alive in Sigur; a
  404 for a department is a failing call. Rights are department access; staff tabs are
  revoked and restored with it, in the same way. Direct reports are revoked with it too,
  but a subordinate who has been given to somebody else meanwhile is not taken back
  (`lifecycle-revocations` 190-204): what is said of rights is not said of them.
* The blacklist and a Sigur that is not configured are failing calls.
* `changeDepartment` either takes effect on the row now or does not (effective
  later, or skipped because the assignment exists).
* Leases and claims last 30 minutes. Live runs are assumed shorter unless
  `Overrun`; `Stall` lets a whole reinstatement fit between the scheduler's claim
  and its opening; `ManualSql` lets the row be edited by hand. The theorems say
  which of these assumptions each of them needs.
* Sigur's operators delete a card (`CardDeletes`), or move it between working
  departments or into the archive (`OperatorMoves`). They do not take a card out
  of the archive or change its blocking: the portal makes no promise about that.
* One synchronisation at a time (the code serialises them by its runtime lease and
  in-process guard).

Forwarding:

* One number; the unique index that allows one unfinished operation per account and
  number is taken for granted (a second request joins or is refused). The quota is
  the user's, so `used` also stands for his other numbers.
* Changes made past the operations (`ChangeOutside`: the operator's own site, other
  writers of rules in the portal) may change any rule at any time, as often as
  `MaxOutside` allows. Timers of CFNRY belong to the address.
* The row that binds a number is never deleted or emptied. A number that cannot be
  decrypted (a wrong key), whose operation the worker would cancel in any state, order
  open or not (`flow` 53), is left out.
* Time is what has passed: the lease, the deadline of a state, the 24 hours, the
  hour of the quota. The 24 hours count from the creation of the row, not from its
  last order, so an operation may expire with an order open: `Quiet` excepts it.
* Unless `SlowReads`, who wins `claimSend` has read the rules since the last order of
  his row (`ClaimSend` compares the generation of his copy). `claimSend` itself looks
  at state and lease only, so this is an assumption on time: nobody sleeps between his
  reading and `claimSend` while others send, confirm and come back to the same state.
  Anything else may happen between the two.

Cards:

* Each card has one employee and one pass; duplicate bindings, several passes per
  card, the dry run, employees the preview could not read and a failure of the final
  audit record are left out.
* A heartbeat may fail at any time; the lease lapses under its holder or after a
  crash. A rollback never asks whether its lease is lost, and a bulk extension only
  before a reread: so do the actions.
* A PATCH in flight stands for its attempts. An attempt may be carried out and
  repeated, and an earlier one may still be on its way when a later one is answered
  (`Reply`): from then on nobody waits for it.
* A save sets the term alone or the start as well, to any of `Starts`.
* The runtime state cached per process is read as the row itself; `merge` of a
  refused holder returns the row of another, so `SyncMark` goes on as the code does.

Timesheets:

* One half-month, one department, one manager, who is among the people assigned to
  him. The row exists as a draft from the start: an absent row and a draft admit the
  same operations. Overlapping ranges and the exclusion constraint behind 23P01,
  attachments, weekend decisions and the days of employees who change department are
  left out; a transaction may end for such a reason at any time (`Refuse`).
* Hours are 0 or 1: without activity, or with. Versions keep their hours, not their
  number, their author or the acknowledgement of 1C, and there is one part, not
  also those by object and by manager.
* Whether recalling a department's timesheet takes the personal one along is a
  choice: the author of a submission is not recorded in the model.
* `Locked` and the versions cover the roster. In the code a day is closed to corrections
  (`loadOwningLockRows` filters its candidates so) and enters a version only where the
  department owns it; somebody whose days all belong elsewhere is neither locked nor fixed.
* `Composition` takes the direct reports as the constant `Reports`: that their coverage
  changes, and that dismissed and archived people are filtered out, is left out.
* A snapshot transaction is repeated (`Again`) after 40001, which the model produces, and
  after 40P01 or 23505, which may come before it writes (`Refuse`) and count among the
  requests that a run bounds. The code makes three
  attempts; the run makes two, which suffices for one that repeats with an old list, and
  the theorems hold for any number.
* Rebuilds that fail are retried with growing delays; the delay is left out.

## 3. Runs

| Run | Instance | Checks | Shows |
|---|---|---|---|
| `lifecycle_safety` | 2 runs, 3 rows, 2 departments, 2 faults, deletable card | `PendingOwnsState`, `OneExecutor`, `ChangesAlternate`, `CardFollowsStatus`, `RightsFollowStatus`, `UnblockedOnlyToRehire`, `ImplementsEmployment` | crashes, failed calls and lost answers at any step |
| `lifecycle_overrun` | 2 rows, 1 fault; overruns, stalls, manual edits, deletions | `TypeOK`, `OneChangePerRevision` | what is left of the guarantees when every assumption on time is dropped |
| `lifecycle_liveness` | fair, 2 rows, 1 fault | `PendingEnds`, `ScheduledEnds` | operations end, scheduled dismissals happen |
| `sync_safety` | sync and one run, 3 rows, 2 faults, operators, deletions, sync crashes | `SyncTypeOK`, `CardSettles`, `PendingOwnsState`, `AutoFireJustified`, `ScheduledNotPreempted`, `ArchiveFireJustified`, `ImplementsEmployment` | the batch move against reinstatements, two strikes, dismissal by the archive folder; the sync keeps the operations' promise |
| `forwarding_orders` | 2 operations, 1 worker, 2 types, 1 fault | `TypeOK`, `OneOrderAtATime`, `CreateMeetsNoConflict`, `EndsSettled`, `DoneMeansApplied` | orders through crashes, lost answers and recovered rows |
| `forwarding_liveness` | fair, slow processes, 1 operation, 1 outside change, 1 fault | `SentOnce`, `Ends` | what holds without assumptions on time; the number becomes free again |
| `cards_safety` | 1 card, an extension, a save, a rollback, a mirror, 2 starts, 1 fault; as long as `loose` is empty | `TypeOK`, `PatchMeetsItsReading`, `RollbackRestores`, `PassFollowsCard` | the four writers under the lock |
| `cards_mirror` | fair, 2 cards, 2 servers, 1 change outside, 1 assignment, 1 fault | `MirrorCatchesUp` | passes follow what the lock does not cover |
| `timesheets_safety` | 2 employees, 2 connections, 1 submitter, 2 attempts, 5 requests | `TypeOK`, `ClosedIsExact`, `CountedOnce`, `FrozenWhileClosed` | locks, snapshots and row locks against each other |
| `lifecycle_conflict`, `forwarding_stale_read`, `cards_rollback` | | one property each, violated | the disagreements of section 5 |

### Bounds

* Life cycle: operation rows (`OpIds`), revisions (`MaxRevision`), faults
  (`MaxFaults`). Three rows are enough for dismissal, reinstatement and a second
  dismissal or a repair, the longest pattern one property speaks of; two runs are
  enough for one to overtake the other; two faults for one that hits the recovery
  from the other. With the sync, revisions and faults are bounded together
  (`Budget`: three in all), so that either two changes and a fault or one change and
  two faults happen.
* Forwarding: two operations are enough for one to inherit what the other left; two
  types for a conflict; one worker besides the request, because the row is what they
  contend for. Slow processes need one operation only.
* Cards: one card is enough where every property is about a card; two where the fuse
  counts them. Three terms let a card be short, at the target or past it; two starts let
  a save change what the preview has shown. `cards_safety` stops where the lock is left
  (`Covered`): its properties promise nothing afterwards, except the types, which are
  proved. One fault is a crash, a failed call or a lost answer, and what it leaves is met
  by the other three writers.
* Timesheets: two employees, of whom one is in both timesheets and has changing
  hours: the other keeps rosters and versions from being empty. Five requests are
  the longest single cycle (submit, approve, open, correct, close), or two
  submissions, two approvals and a recalculation.

Deadlock is not checked, because a model whose rows, requests or faults are used up
may stop. Runs, rows, departments, processes, cards and types are interchangeable,
hence the symmetry in the safety runs; runs of liveness have none.

### What the properties except

Four history variables record what the code has no means to notice; the properties
that mention them hold in every other case, and the cases are listed as hazards.

* `slipped` (`CardSettles`): the answer of the batch move was lost (such ids are left
  out of the check after it), the process stopped between move and check, or the
  reset of the move step came after the run's own move.
* `loose` (`PatchMeetsItsReading`, `RollbackRestores`, `RollbackTouchesOwn`,
  `PassFollowsCard`): a lease ran out under its holder, a PATCH was still on its way when
  its sender no longer waited for it, or a card was written without the lock.
* `sound` (`ClosedIsExact`, `FrozenWhileClosed`): the list of locks did not cover the
  roster of the version, the roster was rewritten after it, or hours were
  recalculated while it was being built.
* `checked` (`CountedOnce`): the version was compared with the other timesheet without
  the locks, or replaced later by a rebuild or closing, which compares nothing.

### Fairness

* `lifecycle_liveness`: every run that is under way goes on, the scheduler takes its
  steps, an operation without a live lease is eventually resumed, leases and claims
  run out. This is what the 5-minute tick, the process supervisor and the clock
  provide: `resumeExpiredOperations` opens every tick and ignores errors of single
  operations, and `lease_expires_at` is compared with `now()`.
* `forwarding_liveness`: the worker ticks every 30 seconds and takes any due row, a
  process goes on, leases, deadlines and the day pass, the operator settles what it
  has taken.
* `cards_mirror`: processes go on, Sigur settles every PATCH, an abandoned lease runs
  out, nights and retries come.

Nothing is assumed of requests, crashes, deletions or changes by others; faults are
bounded, which is the assumption that the other system answers again in the end.
Timesheets are checked for safety only: a rebuild that fails is retried for ever
with growing delays, and whether it ends depends on the data alone.

## 4. Proofs

All theorems are about the specification of their module for arbitrary values of the
constants. The bounds on revisions and attempts play no part in them, nor do those on
faults, except in `StrikesProtect` and `CardsSettle`, which count faults because what
they say is that few wrong answers do no harm. Every invariant and every action and
refinement property of a passing run is a theorem; the inductive invariants named below
also hold, checked by TLC, on the instances of the runs.

`LifecycleOps`:

* `TypeCorrect`: `Spec => []TypeOK`. Inductive invariant `TypeInv`: the types, and
  that a run at work has an operation.
* `RevisionsAreUsedOnce`: `Spec => []OneChangePerRevision`, with no assumption on
  time or manual edits. Recorded changes lie at revisions below the current one
  (`EventsPast`), and the one that is applied lies at the current one.
* `ChangesOfStatusAlternate` (assumes `~ManualSql` only): `Spec => []ChangesAlternate`.
  The property is not inductive, because it does not tie the history to the present:
  `LastChangeAgrees` adds that a recorded change leading to the other status than the
  current one has been followed by one that agrees. The compare-and-set applies a change
  only to the opposite status and above all recorded revisions, which extends both.
* `OneExecutorAtATime` (assumes `~Overrun`): `RunsHold`, a run at work on a pending
  operation holds its live lease, and `Acquire` needs a free one.
* `CardsAreUnblockedToRehire` (assumes `~Overrun`): a run that is about to unblock
  works on a reinstatement (`RepairsOnlyMove`) that is still pending (`RunsHold`).
* `PendingOwns` (assumes `~Overrun`, `~Stall`, `~ManualSql`): at most one operation
  is pending, a scheduler that has loaded an employee holds a claim on an active
  and dated one (`ClaimsHold`), and each pending operation has the status,
  revision and claim it needs (`Owns`). `PendingOwnsState` alone is not inductive:
  a scheduler past its claim could open a dismissal the claim no longer covers.
* `OperationsImplementEmployment` (same assumptions): initial states map to initial
  states and every step to a step of `Employment` or a stutter. Openings begin,
  applications end, refusals drop a repair only, because by `PendingOwns` the
  compare-and-set of the others cannot fail.
* `CardsFollow` and `RightsFollow` (same assumptions): `Spec => []CardFollowsStatus` and
  `Spec => []RightsFollowStatus`. Both speak of the states with nothing pending; the
  invariant has to say what holds on the way. `CardFits`: a flag set in the pending row,
  and the place a run is at, tell the truth about the card (`RowSays`, `RunSays`), and a
  run comes to the end only past the flags it needs. Its two parameters say how far
  somebody else may have moved the card; for the operations alone nobody has
  (`CardInv`). `RightsInv`: department and rights may differ only while a dismissal or a
  reinstatement is pending, and an active employee never has fewer rights than the last
  dismissal took. They rest on `ExecInv` and `PendingInv`: one run, of the one pending
  operation (`OnlyRun`).

`SigurSync`, whose steps are those of `LifecycleOps` beside the sync's own. The lemmas
about the former (`PendingNext`, `StepsImplement`, `OutcomeNext`) are used again; the
sync opens operations with the same actions, and otherwise touches neither rows nor
leases, but for the reset and the transfer:

* `SyncTypes`: `SyncSpec => []SyncTypeOK`. `SyncTypeInv` adds that a transfer has a
  department and a reset an operation (`SyncAims`).
* `PendingOwnsBesideSync` and `SyncImplementsEmployment` (assume `~Overrun`, `~Stall`):
  `PendingInv` also holds with the sync beside the operations, and each step of the two
  together is a step of `Employment` or a stutter.
* `ScheduledAreLeft` (no assumption): `SyncSpec => ScheduledNotPreempted`. `ReadInv`: the
  revisions that the sync and the absence mark hold are of the past, and as long as the
  one it has decided at is of the present no date has been set, because setting one
  moves the revision.
* `StrikesProtect` (assumes `MaxFaults < 4`): `SyncSpec => AutoFireJustified`. `StrikesInv`
  counts what it takes to come to the dismissal of somebody whose card exists: an
  export that lost it and a 404 for the mark, and both again for the dismissal. Four
  wrong answers do dismiss him, and no guard of the code could tell.
* `FolderDismissesOutsiders` (assumes `~Overrun`): `SyncSpec => ArchiveFireJustified`. The
  probe that found the card outside is some steps old when the dismissal is opened.
  `FolderInv`: as long as the revision is the one the sync holds, the employee is active
  and only a dismissal can be pending, and none of its steps brings the card back;
  reinstatements and repairs do, to the departments `TargetsInv` allows, and move the
  revision, are pending, or have left the status changed.
* `CardsSettle` (assumes `~Overrun`, `~Stall`, `MaxFaults < 4`): `SyncSpec => []CardSettles`.
  `SettleInv` is `CardFits` by phase of the batch move: before it and after the
  compensation the card fits exactly; from the move to the end of its check the card of a
  reinstatement under way and of an active employee may have been taken to the archive,
  during the compensation only the latter. Three facts carry the phases: from the guard to
  the compensation no repair is pending and who is active has been reinstated meanwhile
  (`RaceInv`), there is a last reinstatement for the check to find (`LastInv`), and `FolderInv`.
  `LastInv` is kept as an invariant of the state, because that a set of revisions has a
  greatest element needs induction over data.

`ForwardingOps`, with no assumption on time, slow processes and changes by others
included:

* `ForwardingTypeCorrect`: `Spec => []TypeOK`, from `TypeInv`: the types, and that a
  process at work has an operation and a step that belongs to the state of its copy
  (`Working`).
* `OrdersAreSentOnce`: `Spec => []SentOnce`. The inductive invariant `SendInv` says
  that every copy of a row is an old picture of it (`CopiesFollow`: the row is final,
  of a later generation, or at a later stage of the same one, `Ahead`), that a row
  still answers for the orders sent and those about to be (`OrdersAnswered`), that two
  processes are never about to send the same thing (`OneSender`) and that what is
  about to be sent has not been (`NotYetSent`). `SentOnce` alone is not inductive: it
  says nothing of a process that has won `claimSend` and is still to send. Only
  `claimSend` starts a generation, by compare-and-set from a state in which the order
  cannot have been sent, or has been refused.

`ForwardingOps`, assuming `~SlowReads` (`ForwardingOrderProofs`):

* `OneOrderIsOpen`, `CreateAloneInForce`, `FreedIsSettled`, `DoneIsApplied`:
  `Spec => []OneOrderAtATime`, `[]CreateMeetsNoConflict`, `[]EndsSettled` and
  `DoneMeansApplied`, from one inductive invariant, `OrderInv == RowsInv /\ (Quiet =>
  RulesInv)`. `RowsInv` holds whatever others do to the rules: one unfinished operation, one
  order a generation, copies that ask for what their row asks for. `RulesInv`, as long as
  nobody changes the rules past the operations and none has expired (`Quiet`): an order
  whose fate is open, or that is about to be posted, is the one its row waits for
  (`PendingAtRow`), and has not taken effect (`NoEffectYet`). A reading that shows the
  effect therefore shows that the order is settled, and what was read in the generation
  of the row still holds at the decision (`ReadingsHold`), since only an open order could
  have changed it.
* None of the four is inductive, and the proof corrected the assumption they are checked
  under. It used to be that no worker takes a row under a process between its reading
  and `claimSend`; that does not exclude a *request* that sleeps with a copy of
  `rule_ready` while another cycle sends and confirms a removal, and with four faults TLC
  finds an operation that ends with its order open. What has to be excluded is the
  generation `claimSend` does not compare, and nothing more.

`Timesheets`, with no assumption beyond those on its constants (`ReportsAreEmployees`,
`TriesAreCounted`); as in the runs, `sound` and `checked` say of which timesheets the
properties speak (see 3):

* `TimesheetsTypeCorrect`: `Spec => []TypeOK`. `TypeInv` adds `Working`: who is at
  work has something to work on, the row of a timesheet has one holder, and the holder
  still finds it as he checked it (`Admits`), because whoever else writes the row
  makes a waiting transaction start again.
* `CorrectionsStayOut`: `Spec => FrozenWhileClosed`. An employee is locked by one
  transaction, and not while he is corrected (`LocksHeld`), so nobody corrects the
  employees of a timesheet closed under their locks (`Frozen`).
* `ClosedTimesheetsAreExact`: `Spec => []ClosedIsExact`. The snapshot of a transaction
  holds the present hours of whom it locks, unless they were recalculated since
  (`raced`, and what it then writes is not `sound`) (`SnapshotsTrue`); a closed timesheet stays exact because of `Frozen`, or a
  recalculation is on its way to mark it (`ExactOrMarked`).
* `DaysAreCountedOnce`: `Spec => []CountedOnce`. The property is not inductive: it says
  nothing of an approval whose snapshot was taken before the other timesheet was
  approved. `BusyKnown` does: by `LocksHeld` two such transactions that share an
  employee cannot both have their locks, so the one that has them knows who has been
  counted.

The lemma `StepOutcome` carries these proofs: what any step does to a timesheet is one of
leaving it untouched, loosening it, handing it in, or the end of a transaction on it.

`CardWrites`, with no assumption beyond `CardAssumption` (writers of different kinds are
different, no process is called `None` or `stopped`, and the present start is one of
`Starts`); `loose` says, as in the runs, of which
behaviours the properties speak (see 3):

* `CardTypes`: `Spec => []TypeOK`. `TypeInv` adds what an item says of the place of its
  process (`Placed`): nothing is sent before the journal, nothing is left in hand after.
* `PatchesMeetTheirReading`, `RollbacksRestore`, `PassesFollowCards`:
  `Spec => []PatchMeetsItsReading`, `[]RollbackRestores` and `PassFollowsCard`. `LockInv`: as
  long as nobody has left the lock, a process at work holds it (`Locks`), hence is alone; so
  what its items say of a card is true (`Knows`), and every PATCH in flight is awaited by its
  sender (`Awaited`). `RollbackRestores` speaks of two processes that never meet, one of
  which may have crashed long ago, and needs their records tied together: the journal
  holds the terms that the operation finds (`Plans`) and the rollback holds those of the
  journal (`Reverts`).

Only model-checked: the liveness properties `PendingEnds`, `ScheduledEnds`, `Ends` and
`MirrorCatchesUp`. They rest on fairness, and so on ENABLED, and on arguments that count down
over data, none of which the proof system reaches.

## 5. Disagreements found while modelling

With a run that shows them:

* `lifecycle_conflict`: the cancellation written by `resolveCasConflict` is rolled
  back by the error thrown in the same transaction; the operation stays pending.
* `forwarding_stale_read`: `claimSend` compares state and lease but not the generation
  the rules were read at. A request holds no lease while it reads them, so a slow one
  orders by rules read before a worker's order, and two orders are open at once.
* `cards_rollback`: a rollback takes every card of the plan that has the target term,
  also one its operation never wrote and somebody set to the same date by hand.

Without a run of their own:

* The scheduler opens a dismissal with a claim that is not compared again and without
  the expected revision (`employee-lifecycle-operations.service` 275,
  `dismissal-scheduler` 76-95), against the header of the operations (42-43).
* A dismissal finished for a deleted card leaves `sigur_employee_id` set (696), against
  the comment at 582-583.
* `resetPendingRehireSigurMove` is not seen by a run that has the operation in memory
  (408), against the comment at 405-406.
* A transfer decided before a dismissal is written after it (`sigur-sync-employees`
  1745), against the comment of `decideDeptSyncAction` (112-113).
* `assignSigurEmployeeCardBinding` writes terms without the lock, although the header
  of `sigur-card-lease` (4-11) names Sigur Manager only as outside it. The nightly
  fuse counts a blocked day as done.
* The UPDATE of a submission has no guard on the status
  (`timesheet-approval.controller` 1144): an approval made after the row was read is
  undone, although the message at 1071 says an approved timesheet must be returned
  first. A resubmission rewrites the roster of a timesheet approved meanwhile
  (1076-1100).
* `ensureManagerSelfApprovalForRange` (463-562) writes rosters without the advisory
  locks that the comment at 1124-1127 takes for given, and may submit a personal
  timesheet after the department's has been recalled.
* A day is paid twice: an employee without activity is in two approved timesheets, a
  recalculation or correction gives him hours, both are rebuilt or closed again. The
  header of `timesheet-approved-day-conflicts.service` (1-12) excludes it; approvals
  look for it, rebuilds and closings do not (1751-1752). TLC finds the sequence
  within the bounds of `timesheets_safety` once `checked` is not weakened by
  `Uncompared`.
* The closing of a month locks the rosters as read before
  (`timesheet-month-close.service` 261) and does not compare them with those of its
  snapshot.

## 6. Not modelled, and the plan

| Part | Why not |
|---|---|
| Contractor pool and idle block, blacklist scheduler, employee creation, orphaned claim repair | nightly or one-off work over the same cards and rows; the idle block beside `CardWrites` is the next candidate |
| Creating, linking and rebinding of cards in the sync | a second card of one employee would double the state of Sigur |
| Presence polling, monitor, backfill | ingestion of events idempotent by key, under the lease modelled in `CardWrites` |
| Authentication, chat, notifications, payroll, KPI, exports, MTS Business, data API, front end | no concurrent state a model would say something about beyond single transactions |

Worth doing next, in this order: the acknowledgements of 1C and the parts of a version in
`Timesheets`; the idle block beside `CardWrites`; what `CardSettles` excepts, a batch move whose
check never comes, as an operation that ends.
