# DaHe Logistics: verification project

TLA+ models of the DaHe Logistics automation tool, the TLC configurations that
check them on small instances, and theorems about them that TLAPS has checked.
Paths below are relative to the repository (`src/dahe/...`). The code is the
reference; where a document says something else, the model follows the code and
the difference is listed under *Findings*.

## 1. The system

A single-user Windows program: one FastAPI process with a React interface, one
SQLite database, one controlled browser worker, OCR workers on GPU and CPU.
Three businesses share it: **settlement reads** and **daily reads** (both drive
the one logged-in browser) and the **offline audit** of what they captured.

| Component | State it keeps | Operations | Correct when |
|---|---|---|---|
| Read scheduler (`loop3_scheduler_store`, `loop3_resource_store`, `jobs/scheduler`) | items, stage attempts, leases; in memory the grants and the pending terminal cleanups | tick: recover, finish results, reconcile, apply controls, grant, aggregate, dispatch, clean up; renew leases | one browser read at a time, nothing lost or reported wrongly, controls answered |
| Job store (`loop3_job_store`, `jobs/*`) | jobs, conflict keys, idempotency records | start, pause, resume, cancel | one unfinished job per conflict key; a repeated request has no second effect |
| Recovery (`loop4_recovery_store`) | attempts and leases | recover abandoned, abandon own, safe retry | an attempt is ended by its owner or after the owner can no longer act |
| Application lifespan (`api/app`, `repository`) | process phase, exit request | start-up, exit, shutdown, watchdog | nothing executes without authority; interrupted reads end |
| Settlement read (`settlement_live_execution`, `settlement_capture`, ...) | invocation, access window, capture run, sealed manifest | capture, publish, select, close | published as a whole or not at all |
| Daily read (`application/daily/*`, `daily_invocation_store`) | invocation, checkpoints | reserve, begin, commit checkpoint, fail, close | committed stages are not read again |
| Executor threads (`settlement_capture_execution`, `daily_execution`) | one future per grant | submit, run, pop, close | run only under a lease |
| Vehicle OCR (`ocr_execution`, evidence, coordinator) | shared evidence, run generations | batch per vehicle, GPU to CPU fallback, retry | produced once, consumed by every consumer once |
| Instance registration (`recovery`, `instance_lifecycle`, lock) | instances, durable leases | register, heartbeat, crash mark, takeover | one live instance; late owners are fenced |
| Browser control and platform access (`browser_control`, `platform_access`, expiry reconciler) | row of the browser's controller, access windows, lifecycle lock | login, handoff, acquire, release, recover, rebuild, expire, retire | one controller of the session; a person is not cut off and a person's browser is never read with |
| Offline audit (`audit_workflow`, `domain/audit`) | tickets, decisions, revisions | evaluate, decide, revise, seal | a machine result never overwrites a person's |
| Daily items and report | machine and manual revisions, confirmed reports | edit, confirm, export | a confirmed report does not change |
| Process supervision | child processes | spawn, request line, terminate | only owned processes are stopped |
| Release and update (`release/*`) | version pointer, version directories, database and its backups, update status | check, import, install, migrate, switch, roll back, launch | restartable between any two steps, nothing of the user's lost |

How they interact. The HTTP routes write jobs and invocations in transactions
and wake the scheduler thread. The scheduler thread takes one transaction per
scan and afterwards submits the granted work to an executor. The executors
commit to the invocation tables on their own, and leave a result in memory that
the next scan collects. The shutdown sequence, the exit route and the next
start-up change the same rows. Nothing but the database survives a crash.

The hard part is therefore not any one handler but that five parties - operator,
scheduler thread, executor, exit/shutdown, next process - change jobs, items,
invocations, attempts and leases at times of their own, with part of the
bookkeeping in memory. `PROJECT.json` lists every such hazard at its line.

The last component stands apart from the others: an update is carried out by a
process that the application starts and that outlives it, while the user may
start the program again at any time.

Components that are not modelled, and why, are listed in section 7 and in
`PROJECT.json`.

## 2. Modules

| Module | Models |
|---|---|
| `ReadScheduler` | the whole life of settlement and daily reads: operator, scheduler thread, executors, start-up, exit, shutdown, crash |
| `BrowserSlot` | what the browser slot promises, abstractly |
| `MC_ReadScheduler` | jobs and keys for the TLC instances |
| `ReadSchedulerProofs` | the theorems about types, leases, the slot and conflict keys |
| `ReadWorkProofs` | the theorems about what executors commit, report and are granted, and the thread that collects it |
| `ReadOutcomeProofs` | the theorems about how reads end: success, cancellation, cleanup, outcomes, reviews |
| `VehicleOcr` | the recognition of tickets in an offline audit: the part of the same scan, stores and recovery that handles shared evidence |
| `ArtifactStore` | what the shared evidence promises to the vehicles, abstractly |
| `MC_VehicleOcr` | audits, vehicles and tickets for its TLC instances |
| `VehicleOcrProofs` | the theorems about artifacts, batches, controls and runtimes |
| `VehicleRunProofs` | the theorems that the recognition goes on: the scheduler thread, what vehicles wait for, how they end; and the refinement of `ArtifactStore` |
| `BrowserSession` | who controls the one logged-in browser: row, windows, lifecycle lock, and every party that moves them |
| `MC_BrowserSession` | the kinds of windows that meet |
| `BrowserSessionProofs` | the theorems that a person's browser is never read with, and that a held row has a reader at work |
| `BrowserControlProofs` | the theorems about types and about who takes the browser, or a window, from whom |
| `Update` | the versioned installation: updater and its handler, launcher, application, pointer, directories, database, backups |
| `MC_Update` | the schema history of its instances |
| `UpdateProofs` | the theorems about types, pointer, work, recovery, success and restored backups |

`ReadScheduler` and `VehicleOcr` are two halves of one scan. They share no row
except through the status of the process: reads use the slot `platform_browser`
and have no shared evidence, audits with local recognition use the slots
`gpu_ocr_slot` and `cpu_ocr_slot` and have no invocation. A review that a read has
created is a job that `VehicleOcr` may start. `BrowserSession` looks at the same reads
from the browser's side: what `ReadScheduler` takes as one slot is here a row that
people, handlers, executors and cleanups move while nothing but the row's version
and a process-local lock keeps them apart. There the scheduler is reduced to what it
gives the browser: one read at a time, its end, and its cleanup. `Update` replaces
the whole program and knows it only as an application that opens the database.

### ReadScheduler and the code

State. `job`, `item`, `at` are `jobs.status`, `work_items.status` and
`work_items.current_stage` (each read has exactly one item). `inv`, `next`,
`window` are the invocation's status and next stage and its access window.
`holds` are the jobs whose conflict key row is active. `att[t]` is the stage
attempt and the lease of the t-th grant of `platform_browser`; `fresh` says that
its `expires_at` is in the future. `latestRun` is the newest complete settlement
run, `review` the offline review job and its link. `phase`, `me`, `explicit` are
the process; `runner`, `grants`, `out`, `cleanup` are its memory: the scheduler
thread, `_process_grants`, the executor futures and the pending cleanups.

Actions. One transaction is one action, because the commit gate serialises them.

* *Operator*: `StartSettlement` writes job, item, key, window and invocation at
  once; a daily read has `StartDaily` and a later `InvokeDaily`. `Pause`,
  `Resume`, `Cancel`, `Rebind` (new access window). `RequestShutdown` is the exit
  route, which cancels reads while everything is still running.
* *Scheduler thread*: `StartTick` (recovery of abandoned attempts), then one scan,
  `ScanOnly` or `ScanAndGrant`, in one transaction, then `Dispatch`, `Close` or
  `CloseFails` of each pending cleanup, `EndTick`. `ScanFails` is a fencing error:
  the transaction is rolled back and the thread ends, as nothing catches it.
  `RenewLeases` is the light heartbeat between ticks.
* *The scan* is a composition of operators on a job's row, in the order of
  `scheduler_tick`: `Finished` (results), `Reconciled` (committed invocations
  whose result was lost), `Controlled` (cancel, pause), `Placed` (the grant),
  `Aggregated` (job status from item status). `EndsNow` fills the cleanup list,
  `SlotIsFree`, `Candidate` and `LongestUnserved` decide the grant.
* *Executors*: `ReadBegins`, `ReadPartial` (checkpoint), `RunCaptured` (rows of a
  settlement run complete), `ReadPublished`, `ReadRefused`, `SelectionBegins`,
  `SelectionEnds`. They look at neither the job nor the lease, as in the code.
* *Process*: `Boot`, `BootRecovers`, `BootInterruptsReads`, `BootReconciles` in the
  order of the lifespan, `BootFails` between any two; `Shutdown`, `JoinRunner`,
  `Drain`, `AbandonOwn`, `Stop`; `Crash` in every phase.
* *Time*: `WindowExpires`, `LeaseLapses`.

Abstractions. Pages, waybills, images, diagnostics, events and record versions
are left out; an operational read is one stage (`whole_run_v1`), a shadow daily
read has `LastStage` stages. All reads have the same priority, so
`choose_candidate` is its first sort key, the oldest last grant. The expiry of a
lease is one bit; a lease that a healthy scheduler thread renews lapses only
where `MaySuspend` allows the machine to sleep. Operators whose comment says
"Seeded fault" are wrong variants of their neighbours, used to show that the
properties notice such a mistake; no action uses them.

### BrowserSlot and ArtifactStore

Both are abstract. `BrowserSlot` is what the slot of the browser promises:
`holder` (tokens in force), `working` (tokens under which an executor works),
`used`. A token is granted once, work happens under the token in force, and the
token changes hands or disappears only while nobody works. `ReadScheduler`
implements it with `holder` the active leases, `working` the executing futures and
`used` the grants made (`ImplementsSlot`).

`ArtifactStore` is what the shared evidence promises. Of each runtime it has the images
it is working on (`batch`), those whose artifact is stored (`stored`) and those it
could not read (`refused`). In a step a runtime rests, gives its batch up, takes a first
batch, or ends one, by storing all of it or refusing one image, and takes the next.
No batch holds an image that is settled, and nothing but the end of a batch settles one.
Vehicles, audits, consumers, controls and the process are gone: whatever they do, it is
one of these steps. The runtimes move together, since one scan takes the results of both
and grants both slots. `VehicleOcr` implements it (`ImplementsStore`) with the batch of
the active lease and the states of `shared`.

### VehicleOcr and the code

State. All tables are one record `db`, so that a pass of the scan is an operator
from record to record: `job` and `item` are statuses of audits and vehicles,
`done` the flags `loading_ocr_complete` and `unloading_ocr_complete`, `gen`, `rt`,
`out` the vehicle's run generation (status, `next_runtime_kind`, outputs),
`shared[m][k]` the shared evidence work of image `m` on runtime `k`, `cons` its
consumers, `lease[k]` the active lease of a runtime's slot together with the batch
of its grant. Outside the database: `avail`, the runtimes for which this start
found a gateway, `runner`, the scheduler thread, `fut`, the future of each slot.

Actions. `StartJob`, `Pause`, `Resume`, `Cancel` are the operator. `Scan` is
`scheduler_tick`: results (`Collected`, `Delivered`, `RestartedOnCpu`,
`Propagated`), controls (`Controlled`), generations of new vehicles (`Prepared`,
`Registered`), counts (`Refreshed`), finished artifacts (`Consumed`), evaluation
(`Finalized`), one grant for each slot (`Rows`, `Batches`, `Granted`), job status
(`Aggregated`), and the submission that follows the commit (`Submitted`).
`ScanFails` is a scan that raises. `Recover` gives up an attempt of a dead process,
`Execute` is the worker's answer, `Stop`, `Crash` and `Boot` are the process.

Abstractions. `"active"` stands for queued, running and waiting_resource jobs,
`"ready"` for queued and waiting_resource items: the code treats them alike
everywhere except in what it shows. `"fallen"` is a failed work row whose error kind
permits the CPU; the code keeps that as the diagnostic. Which candidate a grant
chooses is left open (`choose_candidate` is not modelled here), and so
is the order of the candidate rows, of which the first for an image claims it, and
the order of the results of a scan (attempt identities are random). The evaluator's
verdict on weights is open. A lease of a living process is renewed by every scan and
never lapses here. Shutdown, which joins the thread, drains the executors and
abandons its own attempts, is one action; `ReadScheduler` has its steps. Evidence is
already downloaded, a missing ticket is always recorded as such, every audit has a
conflict key of its own, and the execution mode is local, with a backend.

### BrowserSession and the code

State. `ctl` is the row of `browser_control_sessions`: lifecycle, control mode,
holder, job. Its `record_version` is used only to compare a reading with the row,
so `current` is the set of parties whose reading is still the row's version and will
still be used: a write (`Write`) leaves the writer, the last one of a handler
(`LastWrite`) nobody. `running` is the physical browser, `handled` says that it has been
given to a person since it was started (the code keeps this as the mode `human_handoff`
and the lifecycle `recovering` of the row, not as a fact of its own). `win` are the access
windows, each with the job it was issued for, `kind` what they are for, `latest` the
newest. `biz` is the active business session, named by the window that its operator logs
in with, and `owner` the business session that a window belongs to; the session's
`record_version` counts the windows it owns, so `Owned` stands for it. `ended` are the
windows whose job is terminal. `lock` is the lifecycle lock with the handler inside it and
where it is. `rd` is what each reading thread is doing, `peek` the person's window and the
business session that the session route has read, `saw` what the reconciler has read,
`spent` the idempotency keys that `mark_stopped` has recorded, `pend` the pending handoffs,
`tidy` the terminal cleanup of each job, `up` the process.

Actions. A handler that closes or starts the browser between two transactions is
several actions under the lock: `LoginEnters`, `LoginStarts`, `LoginTakes`; `CloseEnters`,
`CloseConsumes`, `CloseStops`; `Disconnect...`, `Rebuild...`. Outside the lock are the
executor's `Acquire`, `ReadSeals`, `Release` and `ExecutorCloses`, the `ValidationLooks` and
`ValidationTakes` of a contract validation, and the session route. That one is three
transactions: `SessionLooks` finds no browser behind the row, `SessionStops` stops the row
if it has not changed, and `SessionCloses` closes the business session of the person whose
browser was gone, if that has not changed, and retires the person's window, whether or not
the row could be stopped. A person who is let in again between these steps loses the
window all the same; `WindowSpared` names this exception.

Windows are issued by `Issue`, by the start of a business session (`Connect`) and by a read
of it (`BusinessRead`), which first retires the window of the login: it does so even if the
read is then refused. `DisconnectStops` and `Exit` retire the login window with its
session. The validation of a contract (formal window) and the discovery of the daily one
(discovery window) move row, window and browser in the same steps, so the `Validation...`
actions are both. `RecoverStops` stops the row of a shadow read under a key of its own, and
that of a daily read under the key of its terminal cleanup, which may have been used by
then (`MarkStopped` replays it) or is used up for the cleanup.

The reconciler is `Reconciler...`, the terminal cleanup `Cleanup...` and, for an
operational settlement read, `Handoff...`; `Parks` tells which cleanups leave the browser
warm. `BrowserDies` is the person who closes the window or a browser that crashes;
`Crash`, `Exit`, `Boot` are the process, `Exit` with the cancellation of operational reads
that an explicit shutdown asks for, `Boot` with the end of the reads that were interrupted,
the windows that this retires, and what `reconcile_browser_control_on_startup` makes of
the row (`BootRow`). A shadow read that is not over at a start keeps the row, with a holder
whose process is gone, until its window expires or its job ends.

Abstractions. Each window is issued for one job, so a window stands for both. Time is
the bit `late` of a window. Preparing a page, freezing, parking and reading it succeed or
fail as they like. A read whose job ends is one step (`JobEnds`); how the scheduler
gets there is in `ReadScheduler`.

### Update and the code

State. `pointer` is `current.json`, `complete` the directories under `versions/`, `db`
the database as its revision (`schema`), whether a revision is half applied (`half`) and
which changes of the user it holds (`work`), `backups` the published copies. `app` is the
process that holds the mutex of the data directory, `spawned` the versions of which a
process has started and not reached the mutex. `service` is what the update service has
on disk: whose status it is, the offer, the manifest, the import. `up[u]` is an updater:
where it is and what it remembers. `done` and `kept` belong to the properties: how many
changes the user has made, and what the database held when the application last left for
an update in good order.

Actions. *User and application*: `UserStarts` (launcher), `TakesMutex`, `SpawnDies`,
`AppOpens`, `AppMigrates` (one step of a revision), `AppReady`, `AppEnds`, `UserWorks`.
*Update service*: `Check`, `Import`, `Install`. *Updater*, in the order of
`UpdateInstaller.install`: `Enters`, `Stages`, `Waits`, `Places`, `BacksUp`, `Migrates`,
`Points`, `Launches`, `Answers`, `Reports`; its handler: `Fails`, `PointsBack`, `Restores`,
`SkipsLaunch`, and again `Launches`, `Answers`, `Reports`; `Breaks` is an exception in the
handler, `Crashes` the end of the process anywhere.

Assumptions, where the code leaves the matter to the platform. `process_waiter` is taken to
wait (it probes with `os.kill(pid, 0)`; what Windows makes of signal 0 is outside the model).
A database that is open is not replaced by the restore, as on Windows. The database exists
before the first update. The mutex admits one application per data directory.

What the model shows on the way. An updater that a version starts from its own directory
(`Carries`) is always refused: `install_root` is taken from the place of the executable
(`updater.py:905`, `update_service.py:132`, `server.py:159`), where there is no pointer. An
update whose directory is already in place is never repeated (`updater.py:728`). An old
version that is started again between backup and restore may accept work that a restore
then drops, which is why `kept` is what the application held when it left for the update,
and not what such a restarted one holds when it ends (`LeavesInOrder`).

## 3. Properties

`ReadScheduler`:

* `SlotExclusive`: at most one active lease of the browser.
* `FuturesAreLeased`: an executing or uncollected future belongs to a running
  attempt under an active lease of this process, until shutdown abandons results.
* `AttemptsAndLeases`: lease active if and only if attempt running.
* `ImplementsSlot`: the refinement above.
* `CancelBoundary`: a cancelled read holds no lease of this process unless the
  operator is leaving the program.
* `SucceededMeansPublished`: success is reported only for a published capture.
* `ReviewNotLost`: a published operational capture is linked to its review, or
  something that leads there still exists: pending cleanup, an uncollected
  result, or a job that the next scan reconciles.
* `CleanupCanClose`: what withholds the browser can be closed.
* `SchedulerSurvives`: fencing stops the scheduler only after exit, sleep, or a
  withdrawn prerequisite of a sealed selection.
* `KeyGuard`: at most one unfinished job per conflict key, and it owns the key.
* `NoStageTwice`: an executor at work on an open invocation is at its next stage.
* `TerminalStays`: an ended job keeps its outcome (see *Findings* for what
  start-up does to it when the operator pauses).
* `CancelAnswered`, `DeadLeaseFreed`: liveness.

`VehicleOcr`:

* `BatchIntact`: from grant to result the batch stays as it was granted, which
  `_finish_ocr_vehicle_attempt` insists on, although only its first image and its
  vehicle are marked; nothing is running without a lease.
* `OneRuntime`: a vehicle's outputs are artifacts of one runtime, consumed once; a
  recognized vehicle has all of them.
* `NeverStranded`: an unfinished vehicle waits for each ticket it lacks, on its own
  runtime, for work that can still end, and is put off only with its audit.
* `VehicleBoundary`: an audit at rest has no leased and no running vehicle.
* `SchedulerSurvives`: no scan raises.
* `EndedStays`: what has ended stays as it ended, except for a failed vehicle that
  moves from the GPU to the CPU.
* `ArtifactStays`: an image is read once per runtime, with success or without.
* `ImplementsStore`: and it is settled by nothing but the result of a batch that holds
  it, which stores the whole batch or refuses one image of it (the refinement above).
* `VehicleAnswered`: a vehicle of an active audit is answered, unless the audit is
  put off or the process ends.

`BrowserSession`:

* `HolderReads`: a row under automated control names a reader that is at work, for the
  job that it is at work for, in every life of the process; only a shadow read that goes
  on keeps the row when its process is gone.
* `RebuiltAfterPerson`: a browser that a person has had is closed before anything
  reads with it, whoever closes, rebuilds or restarts it in between.
* `PersonKeepsControl`: control is taken from a person only by that person, without a
  browser, at the exit, past the window's time, or with the end of its read.
* `ReaderKeepsControl`: control is taken from a reader only by itself, past its window,
  with the end of its job or of its process.
* `WindowSpared`: a window in time whose job goes on is invalidated only by the read,
  validation or discovery that is done with it, by the operator who closes its session, by
  the first read or the exit that ends a login, or by the session route that saw the
  browser of its person gone. Cleanup, reconciler and start-up spare it.

`Update`:

* `PointerComplete`: pointer, application and every started process name a version
  whose verified directory is in place.
* `Recoverable`: what the user had done when the application left for the update is in a
  database, or in a published backup, that the version of the pointer opens.
* `SuccessIsWhole`: an updater reports success only when pointer, answering application
  and open database are all the new version's.
* `RestoreIsWhole`: a handler that restores a backup leaves pointer and schema of the old
  version, and nothing missing.

## 4. Runs

| Run | Instance | Shows |
|---|---|---|
| `core` | a shadow settlement and an operational daily read; 2 grants, 2 lives | the safety properties above and the refinement |
| `keys` | two settlement reads of one subject, pause and long sleep, 2 lives | `KeyGuard`; `ReviewNotLost` although start-up looks only at the newest run; futures stay leased |
| `live` | one shadow daily read of 2 stages, with pause; 3 grants, 2 lives, `FairSpec` | `NoStageTwice` over lost results; liveness |
| `failed_stays` | a settlement and a daily read, both operational, with pause; 2 grants, 2 lives | finding 1 |
| `ocr_shared` | one audit, vehicles (x, y) and (y, z), GPU and CPU, 2 lives, `FairSpec` | the safety properties of recognition, the refinement of `ArtifactStore`, and `VehicleAnswered` |
| `ocr_audits` | vehicles (x, y) and (x, x) of one audit, (y, to come) of another; runtimes that change between 2 lives | controls of one audit while the other holds the lease; one photograph in both roles; completion with one ticket; what has ended stays so |
| `gpu_lost` | as `ocr_shared`, the second life may lack the GPU | finding 2 |
| `session` | two windows of two kinds that can meet, or of two daily reads, a business session, one executor and one other reader, any number of lives | the safety and action properties of `BrowserSession` |
| `person_expelled`, `start_blocked` | two settlement reads; two contract validations | findings 3 and 4 |
| `install` | versions 1 and 2, two revisions apart; two updaters, two changes by the user | the properties of `Update` |
| `update_unusable` | as `install` | finding 5 |

Bounds. In `ReadScheduler`, `MaxGrants` bounds grants and `MaxEpoch` the lives of the
process; nothing else is bounded. Two grants are the least with which a lease is
contended, and with two lives the second meets every state a crash of the first can
leave; with two stages it takes a grant per stage and one for the repetition, hence
three in `live`. Two jobs are the least that compete, for the slot as for a key. A
third job of either kind would only repeat one of the two. Deadlock is not checked in
any run: when the lives or grants are used up, or the operator asks for nothing, the
system rests.

In `VehicleOcr` only the lives are bounded. Two vehicles are the least that share an
image; in (x, y), (y, z) the shared one is second in one vehicle and first in the
other, so it is claimed by either, read for either, and fails for both. With one vehicle in
each of two audits a control meets every state of the other audit's lease. Two
lives let the second find what a crash has left; where the set of runtimes changes,
three let it come back. `SchedulerSurvives` is checked where a runtime once found is
found again, and refuted where it is not.

`BrowserSession` has no bound but its constants: lives, logins, probes and cleanups repeat
at will, as the state does not count them. Two windows are the least that meet: one is
issued, used or cleaned up while the other is held. `Mixes` covers the pairs of different
kinds and two daily reads, which overlap as operational reads do. Left out are shadow with
operational reads, whose windows are never open together, settlement with daily, which
alone has more states than the others together and repeats what two daily reads show, and
settlement with formal, which settlement with discovery stands for (both take the browser
in the `Validation...` actions). Two windows of one kind are also used in `start_blocked`
and `person_expelled`. The theorems of section 5 are about any number of windows, of any
kinds. Two readers are the executor and one that is not. The windows are symmetric, as the
mixes are closed under exchange. TLC finds 3.8 million states.

In `Update`, `Versions` = {1, 2} with two revisions of schema between them is the least in
which a migration can stop between revisions as well as inside one. Two updaters are the
least that overlap: the second may be started by an old version that the user has started
again while the first is at work; they are symmetric. `MaxWork` = 2 has a change before the
update and one that comes in between. With a third version `Recoverable`,
`SuccessIsWhole` and `RestoreIsWhole` are not claimed, and TLC finds each violated on
`Versions` = {1, 2, 3}: an updater that lingers may still have to put back a
pointer that a later update has moved on, and nothing in the code keeps two
updaters apart.

Fairness (`FairSpec` of `ReadScheduler`). The scheduler thread polls at least every 0.1 s while
there is work, so `WF(Tick)`. Every browser command has a deadline, so
`WF(Execute(t))` for each grant. A lease that nobody renews expires by the clock,
so `WF` of its lapse. Start-up and shutdown run to their end unless the process
crashes. Nothing is assumed of the operator, of crashes, of `Dispatch` order or
of which answer the platform gives. Both liveness properties release the system
from its duty when it stops serving or when the scheduler thread has died.

Fairness (`FairSpec` of `VehicleOcr`). A scan is weakly fair, whether it commits or
raises, because the thread polls while there is work; so is the answer of each slot,
because every recognition has a deadline after which its worker is stopped and the
attempt fails; so is the recovery of an attempt of a dead process, because its lease
expires by the clock and each tick recovers first. Nothing is assumed of the operator,
of crashes, of the choice of candidates or of the results. `VehicleAnswered` makes no
exception for a dead scheduler thread: the run shows that it does not die there.

`BrowserSession` and `Update` state no fairness: everything in them that a handler, a person
or an updater has begun may stop for ever, and their properties are all safety.

## 5. Proofs

From the assumptions on the constants alone, for any number of jobs, keys, stages,
grants, audits, vehicles, images, windows, readers, versions, updaters and lives:

| Module | Theorem | Statement |
|---|---|---|
| `ReadSchedulerProofs` | `TypeCorrect` | `Spec => []TypeOK` |
| | `LeasesAgree` | `Spec => []LeaseInv` |
| | `SlotIsExclusive` | `Spec => []SlotExclusive` |
| | `LeasesFollowAttempts` | `Spec => []AttemptsAndLeases` |
| | `FuturesLeased` | `Spec => []FuturesAreLeased` |
| | `SlotImplemented` | `Spec => ImplementsSlot` |
| | `KeysGuarded` | `Spec => []KeyGuard` |
| `ReadWorkProofs` | `WorkAgrees` | `Spec => []WorkInv` |
| | `StageReadOnce` | `Spec => []NoStageTwice` |
| | `ThreadSurvives` | `Spec => []SchedulerSurvives` |
| `ReadOutcomeProofs` | `SuccessIsPublished` | `Spec => []SucceededMeansPublished` |
| | `CancelledNotRead` | `Spec => []CancelBoundary` |
| | `CleanupCloses` | `Spec => []CleanupCanClose`, where `~ AllowPause` |
| | `OutcomeStays` | `Spec => TerminalStays`, where `~ AllowPause` |
| | `ReviewsKept` | `Spec => []ReviewNotLost` |
| `VehicleOcrProofs` | `VehicleTyped` | `Spec => []TypeOK` |
| | `ArtifactOnce` | `Spec => ArtifactStays` |
| | `BatchStays` | `Spec => []BatchIntact` |
| | `BoundaryHolds` | `Spec => []VehicleBoundary` |
| | `RuntimeNeverMixed` | `Spec => []OneRuntime` |
| `VehicleRunProofs` | `VehicleThreadSurvives` | `Spec => []SchedulerSurvives`, where `~ MayShrink` |
| | `VehicleNeverStranded` | `Spec => []NeverStranded` |
| | `VehicleEndsOnce` | `Spec => EndedStays` |
| | `StoreImplemented` | `Spec => ImplementsStore` |
| `BrowserSessionProofs` | `BrowserRebuilt` | `Spec => []RebuiltAfterPerson` |
| | `HolderIsReading` | `Spec => []HolderReads` |
| `BrowserControlProofs` | `SessionTyped` | `Spec => []TypeOK` |
| | `PersonInControl` | `Spec => PersonKeepsControl` |
| | `ReaderInControl` | `Spec => ReaderKeepsControl` |
| | `WindowOutlives` | `Spec => WindowSpared` |
| `UpdateProofs` | `UpdateTyped` | `Spec => []TypeOK` |
| | `PointerIsComplete` | `Spec => []PointerComplete` |
| | `WorkNeverLost` | `Spec => [](kept \subseteq db.work)` |
| | `UpdateRecoverable` | `Spec => []Recoverable`, where `TwoReleases` |
| | `UpdateSuccessWhole` | `Spec => SuccessIsWhole`, where `TwoReleases` |
| | `UpdateRestoreWhole` | `Spec => RestoreIsWhole`, where `TwoReleases` |

The argument for leases. `FuturesAreLeased` is not inductive: a scan that
dispatches must know which grants it holds, shutdown must know that the scheduler
thread is at rest when the executors are drained, and a new life that memory
is empty. `LeaseInv` therefore adds to `TypeOK`, `AttemptsAndLeases` and
`SlotExclusive` two parts: `AtRest` (what is empty or idle in which phase) and
`Covered` (every grant and every future this process remembers lies on a lease
that is active, its own, and no later than the last grant issued). Each action
preserves each part; the scan does so because it is guarded by `Fenced` and grants
only when `SlotIsFree`. The refinement follows from `LeaseInv`: a step that
releases a lease finds no executing future, and the rest map to `Grant`, `Begin`,
`End`, `Crash` or a stutter.

The argument for keys. `KeyInv` relates status and key: an unfinished job is in
`holds`, and two jobs in `holds` have different keys. The scan may revive or end
jobs in its passes, so the row of every job must satisfy `RowOK`: an absent job
has an absent item, and a job that has ended cannot be made unfinished, because its
item has ended as well. The passes of the scan preserve `RowOK` one by one.

The argument for the work. The scan believes what a result says and checks it against the
invocation; where they disagree it raises, and the thread ends. `WorkInv` adds to `LeaseInv`
and `KeyInv` why they agree. `InvocationsKnown` says whose an invocation is and in which
state it can be; `LeasedWork` that a lease, also one of a crashed process, stands for an item
that runs or has ended; `OwnWork` that each grant this process remembers is at the stage of
its item and of its invocation, and that its result says what has been committed (`Told`);
`ThreadRuns` that leases are fresh as long as the thread renews them. A pass of the scan
after the first keeps invocations and only follows their stage (`Follows`), so that all four
survive a scan that collects, ends, revives and grants in one step. `SchedulerSurvives` is a
part of the invariant itself, since a dead thread changes what the others say;
`NoStageTwice` follows from `OwnWork`.

The argument for outcomes, in four parts.

1. `SucceededMeansPublished` is made inductive by saying it of item and job at once
   (`PublishedInv`): the aggregates derive each from the other.
2. `CancelBoundary` is inductive beside `WorkInv`, which gives that the item of a leased job
   runs or has ended; the controls pass leaves alone what is leased.
3. Without pauses a job rests only while its item waits for access (`Unpaused`). Hence a
   pending cleanup is of a job that has ended (`CleanInv`), which is what closing it asks; and
   item and job end together, the same way (`EndedInv`), so that deriving a status again
   changes nothing. With pauses both invariants are false, and the code behaves so: see finding
   1 and the cleanup that cannot be closed in section 6. `~ AllowPause` is a hypothesis of these two
   theorems for that reason alone; the controls of ADR-069 are the instance they cover.
4. `ReviewNotLost` depends on a list in memory. `ReviewInv` states three facts: a process at
   work knows of every published capture without a review (`Known`), start-up would find it,
   because it is the newest run (`Findable`), and nothing else has been granted while there
   is one (`Undisturbed`). The last protects the second: no other read can publish before
   the cleanup, because the scan withholds the browser while a cleanup is pending.

The argument for vehicles. A scan is one step of a dozen passes, each an operator on the
record of the database, so each part of the invariant has a lemma for each pass and the scan
is their composition. Five parts build on each other.

1. `OcrInv`: types, a future only under a lease of this process (`FuturesMine`), and batches
   that name images their vehicle shows (`LeasesSound`). With the check before the commit
   (`Intact`) it gives `Kept`, that a pass loses no final work, and hence `ArtifactStays`.
2. `Orderly`: `BatchIntact` is not inductive, since a pass may end or wake any vehicle that
   counts on an image. What protects a leased vehicle is that consumers are active only on
   the runtime of their vehicle's generation (`Affine`): a failure on one slot can reach only
   vehicles of that runtime, whose slot has just been released. A leased vehicle also has
   nothing to consume (`ServedAt`), because the pass that consumes runs before the grants and
   leaves nothing behind (`Digested`), and its audit is at work (`RunsAtWork`), because
   controls wait for the lease. `VehicleBoundary` follows from the last two.
3. `Whole`: `OneRuntime` with two facts more, that what counts as done has an output and that
   a vehicle without a generation has none. A restart drops outputs, consumers and flags
   together, which is what the seeded fault `RestartedKeepingOutputs` fails to do.
4. `Tended`: `NeverStranded` with what a pass must know of vehicles that it touches. The
   difficult step is a failure: it makes work useless for everybody who counts on it. Who does
   has a generation on that runtime that is neither complete nor already on the CPU (`HitIs`),
   so that the failure ends or restarts each of them, and nobody else is touched
   (`UnhitQuiet`). A restart registers a vehicle on the CPU from nothing, hence awaiting all
   its tickets or failed at once (`Enrolled`). `EndedStays` is carried along (`Steady`): it
   does not compose by itself, because an end that one pass of a scan takes back must be on
   the CPU for the next one, and nothing leads from there to the GPU.
5. `Backed`: a consumer is active only for a runtime that this process has. With `Affine` it
   leaves a scan no reason to raise (`NothingRaises`), so the thread survives. It is the one
   place where `~ MayShrink` is used, and false without it: a vehicle keeps its runtime over
   a start that has not got it (finding 2).

The refinement needs no further invariant. A step is one turn of each runtime (`Turn`). Of the
passes of a scan only that which takes the result of a runtime settles anything there
(`Came`), and it settles just the batch, because the batch is intact when the result comes
(`DeliveredSettles`); registration, refreshing and a restart on the CPU move work among states
that are not final (`SettledBy`), so that it does not matter which result is taken first
(`CameLater`, `CameChain`). A grant leases a free slot for queued images (`Leasing`). All other
steps settle nothing and leave the batch or give it up (`Rested`).

The argument for the browser. `RebuiltAfterPerson` says nothing of rows that nobody holds,
so it is not inductive. `HandedInv` adds the trace that a person leaves: as long as the
browser that a person has had is alive, the row is in the mode `human_handoff` or
`recovering` (`HandedIsMarked`), and no step takes a row from there to one that can be
acquired without closing the browser. Two parties could break this from outside: the
session route, which stops a row because it has seen no browser, must still have the
version it read (`MissingIsClean`), and a rebuild starts a browser only after closing the
old one, with nobody handed a browser while it holds the lock (`LockInv`). Each step either
closes the browser (`ClosingStep`), keeps it and the trace (`KeepingStep`), or is one of the
two that hand it over.

The argument for the holder. `HolderReads` fails to be inductive only where a handler works
on behalf of the executor: `readiness` ends with the executor about to acquire, and
`recover` ends with it out of the read. `ReaderInv` adds what the executor does meanwhile
(`ExecutorWaits`: it waits, or recovers a row that is not its own any more) and that an
automated row names a reader, or nobody for a shadow read that outlived its process
(`HolderKnown`). Every other party only writes rows that are
not automated (`OthersStep`); a reader's own step moves that reader and no other, and
either takes the row, gives it up, or does not hold it (`OneReader`). A start that finds a
row that it cannot take back fails, and then nobody is served.

The argument for control. Whoever takes control away has looked at the row, or at a window,
some steps before; the three action properties of `BrowserSession` say that what was seen then
is still good enough when it is acted upon. `ControlInv` has three parts. `Typed` says that a
party in the lock or at work names a window. `WindowInv` says why a party is there at all, and
that this does not change: the reconciler works on a window that has expired and the cleanup
on a job that has ended. What retires a window is then one of few: who is in the lock for it,
its own reader, a route that ends the login of the business session, or the session route,
whose `peek` names it. `RowGuard` is about the row. While a
person has control, nobody is in the lock but who takes it from them for the end of their own
window, or who has found out that the row is not theirs to stop (`PersonLock`). A handler whose
reading is still the row's version finds the row in the mode in which it has read it
(`AsFound`), and the session route, which holds no lock, finds no reader's row and a person's
only without a browser (`SeenMissing`). With these, the steps that may take control are found
by elimination: all but a handful need an idle row, or a row of their own.

The argument for the pointer. `PointerInv` adds to `PointerComplete` what an updater
remembers: the version it has found is one that is in place, the one it installs is in
place from the rename on until it reports or fails (`UpdaterKnows`), an offer always has a
manifest (`ManifestKnown`), and no copy of the database holds more than the user has done
(`WorkCounted`). The rename comes before the pointer, directories are never removed, and the
handler puts back only what it has found: these three facts carry the proof.

The argument for the update has two parts.

1. For any number of releases, `UpdateInv` adds what an updater's flags say of how far it has
   come (`AllOrdered`) and that database and copies keep the user's work (`WorkKept`). It is
   inductive because an application that leaves in order leaves while no updater holds an
   earlier copy, and an updater copies only after its application has left. `WorkNeverLost` is
   all that can be said of two updaters that overlap on their way to different releases.
2. With at most one release besides the first (`TwoReleases`) and any number of updaters,
   `PairInv` says why overlapping does no harm. A release's directory is put in place once and
   never removed, so one updater at most gets as far as the database (`OneOwner`). The pointer
   is where that one has left it, and until it is moved nobody has the new release running
   (`PointerFollows`); so nobody else migrates meanwhile, and the schema is the one that the
   pointer's release wants (`SchemaFollows`). As long as somebody may have to go back, the
   first release opens the database or a published copy (`Rescued`): whoever begins a migration
   has published a copy first. The three properties follow. Without the hypothesis they are
   false (section 4), so it is the update they are about: one step from a release to the next.

Invariants were first checked by TLC on the instances above.

Model-checked only: the liveness properties, which are outside what TLAPS can prove here
(fairness needs ENABLED). Every safety property that a passing run checks has a theorem; the
ones with a hypothesis are marked in the table.

## 6. Findings

Five places where a document says something else than the code does; each has a
run with the counterexample.

1. `failed_stays` - start-up fails an interrupted read and leaves its item as it
   is if the item has ended; `refresh_job_aggregates` then derives the job's status
   from the item and the read ends as succeeded
   (`loop3_resource_store.py:1009`). ADR-052: "the next startup fails the orphaned
   browser read as interrupted".
2. `gpu_lost` - a vehicle that was put on the GPU stays on it. If a later start finds
   no GPU (`adapters/ocr/runtime_factory.py:604-643`), the scan still selects the
   vehicle, `identity_for("gpu")` raises (`loop3_resource_store.py:488`), and the
   scheduler thread ends, at that start and at every later one without GPU. ADR-072:
   "A stale or damaged overlay is not selected; CPU remains the safe fallback." A
   runtime whose fingerprint has changed raises a few lines further on
   (`loop3_scheduler_store.py:1917`); fingerprints are not modelled.
3. `person_expelled` - the reconciler closes the browser that a person holds when their
   window has expired (`expiry_reconciler.py:260`). ADR-042: "Expiry prevents another
   automated read but does not close a window held by a person."
4. `start_blocked` - a contract validation holds the browser for a job that is no row of
   jobs. If the process crashes meanwhile, start-up looks that job up
   (`browser_readiness.py:69`, `api/app.py:1885`), which raises, at this start and at
   every later one. ADR-052: the next startup "releases its stale browser authority".
5. `update_unusable` - a migration that stops between two revisions leaves the handler
   without a result, and the handler then restores nothing although the backup is there
   (`updater.py:739`, `:765`); the old version refuses the schema. ADR-067: "Failures leave
   the current version usable."

Met on the way, without a run of their own: a stage that reports `waiting_external` sets
its job to `paused` even if a cancellation has been requested meanwhile
(`loop3_scheduler_store.py:964`, `:1430`; ADR-069: "Online capture permits cancellation
but not pause."); the exit route cancels active reads while the executor still reads
(`api/app.py:2553`); an image that the GPU could not read keeps its failed work, and a
vehicle that is registered later fails at once even when the CPU has read the image
meanwhile (`loop3_job_store.py:126`); with pauses a failed read whose window is renewed
leaves a cleanup that cannot be closed and withholds the browser until the next start, and
so does a handoff whose browser is gone; a machine that sleeps longer than a lease lives
can end the scheduler thread; a read that is cancelled after its publication still gets a
review; a GPU failure restarts vehicles that have already failed on their other ticket, and
brings their audit back to work after its conflict key has been released (`EndedStays`
admits just this).

## 7. Not modelled

* *Platform connector, browser and OCR workers*: their answers are nondeterministic
  outcomes here. *Template studio, ticket matching, locked-set verification*: evaluation
  of files and text without concurrency; example tests serve them better. *Interface,
  logging, configuration*: no protocol state. They are most of the repository's lines.
* *Offline audit* beyond the recognition of tickets, *daily items and report*: machine and
  manual revisions. *Process supervision*: request lines and termination of workers.
* *Job store*: repeated requests (idempotency keys, record versions); *instance
  registration*: heartbeat and takeover with fencing tokens; `choose_candidate` between
  jobs that have waited differently long; the wake event of the scheduler thread.
* *Update*: resumption of a download, seeding of a first database, the CPU bootstrap and the
  GPU overlay, a crash between the two files of a published import.
* *Browser control*: a new window for a job that has one (`rebind_access_window`;
  `ReadScheduler` has it as `Rebind`), the windows of an earlier build that
  `POST /access-windows` retires, a shadow daily read that runs within its own request
  (`POST /daily-captures`), and the cancellation at the exit route while readers still run
  (`RequestShutdown` of `ReadScheduler`). Renewal of automated control, human control of a
  worker and the completion of a recovery are called by nothing in `src/`.

What remains in the models' reach: what each vehicle is promised, as a second abstract
specification (it is served from one runtime, and moves to the other once at most).
