# Nosana deployment manager: a TLA+ verification project

The deployment manager keeps a user's *deployments* (a job definition, a number of
replicas, a market, a strategy) running as *jobs* on the Nosana network. It is a Node.js
service on MongoDB. Several instances may run side by side; they share nothing but the
database. A user's request writes the deployment document; change streams turn that write
into callbacks; callbacks insert *tasks* (LIST, STOP, EXTEND); task consumers claim them and
run them, posting and ending jobs on chain or through an API; listeners write what became of
the jobs back, and that starts the next round.

This directory holds TLA+ modules of that program, the TLC runs that check them, and
theorems about them that TLAPS proves. Paths are relative to the repository, `src/src/`
being its `src/` directory.

Contents: [1 The system](#1-the-system) · [2 The modules](#2-the-modules) ·
[3 Runs, bounds and fairness](#3-runs-bounds-and-fairness) · [4 Findings](#4-findings) ·
[5 Proofs](#5-proofs) · [6 What is not modelled](#6-what-is-not-modelled) · [7 Plan](#7-plan)

To repeat the checks: `tlc -workers 2 -config Startup.cfg StartupMC.tla` (each run of
`PROJECT.json` names its module and its cfg) and `tlapm Startup_proofs.tla`.

---

## 1 The system

    user --HTTP--> routes --write--> deployments --change stream--> deployment callbacks --+
                                                                                           | insert
    node, chain --accounts listener--> jobs ----change stream--> job callbacks ------------+
                                         ^                                                 v
    tunnels --SSE (frps)--> tunnel handlers --------------------insert / delete------->  tasks
                                         |                                                 | claim
                                         +------ rows ------ consumers: LIST STOP EXTEND --+
                                                                |
                                              chain (RPC), Nosana API, host manager --webhook--> tasks

All interaction is through five collections (`deployments`, `revisions`, `jobs`, `tasks`,
`locks`). Nothing is transactional: every box reads, decides and writes in separate steps,
callbacks are started and not awaited, and a process may die between any two writes.

### 1.1 Task queue (`tasks/queue`) — TaskQueue, SerialQueue

*State.* A task's `status`, `due_at`, `claimed_by`, `claimed_at`, `attempts`,
`inflight_retries`; the `locks` document of a deployment with its expiry; in the process, the
batch of handlers of a cycle.
*Operations.* `claimTasks` (pending and due, or claimed and lapsed), `enrichClaimed`,
`acquireDeploymentLock`, `incrementAttempts`, `isTaskWanted`, the run, `rescheduleTask`,
`parkForCapacity`, `abandonOverCap`, `releaseTask`, the teardown (delete and unlock together),
`scheduleTask` and the sweeps of the task types.
*Interactions.* Everything that wants work done inserts a task; every task type runs inside it.
*Hard.* Two consumers and two overlapping cycles of one consumer; leases that lapse under a
handler that is still going; hand-backs not fenced on the claim; a crash anywhere; a write
that throws; parked LISTs filled by the webhook.
*Correct when.* Tasks of one deployment run one at a time; a dispatch is never forgotten by the
crash-loop counter and never exceeds the cap; a LIST with signed bytes is not dropped; a
completed task is not run again; every task leaves the queue.

### 1.2 LIST runner, its transactions and their tracker (`tasks/task/list`, `tasks/execution`) — ListUnits

*State.* On the task: `target_count`, `txs` (records with their unit index, status and signed
bytes), the reservation; in the process: the units of the run, the worker, the tracker's entries.
*Operations.* `computeListTarget` and its freeze, `resumeExisting` and `recoverUnits`, the
wanted verdict, `reserve`, `signBatch`, `persistSignedRecord`, `sendUnit`, the tracker's sweep,
`applyOutcome`, `onListConfirmed`, retry, hand-off of the remainder, `onListExit`.
*Hard.* The RPC may answer wrongly (a batch of statuses fails, a send that timed out was
accepted); a crash between any two of sign, persist, send, confirm, mark, write the rows; a task
reclaimed too often is given up, with what it has in flight; the LIST handed to may be gone before
the task that made it.
*Correct when.* What may be on chain has a record; jobs landed and handed off do not exceed the
target; jobs that landed have rows; a LIST that completes has posted or handed off its target.

### 1.3 Deployment lifecycle (`router/routes`, `strategies/all`, `tasks/task/stop`) — Deployment

*State.* `status`, `run`, `active_revision` of the deployment; its tasks and jobs.
*Operations.* The start, stop, archive and revision routes; the STARTING, STOPPING and revision
callbacks; `jobAllActiveJobsStop` (the finalizer); the runs of LIST and STOP; `onListExit`
(next firing, finalizer); `onStopExit`, the self-heal of STOP; retries and
`INSUFFICIENT_FUNDS`; `archiveBannedOwner`.
*Hard.* Routes check the status in the middleware and write without a fence; an event is looked
up when delivered, so two writes may both be seen as the later one; the STOP's set is frozen
while a LIST's jobs are not recorded yet; the finalizer counts, then writes.
*Correct when.* A stop ends with no job alive; a swap retires the old jobs; an archived
deployment is not revived; one chain of firings per run.

### 1.4 Replicas of an INFINITE deployment (`strategies/infinite`) — Infinite

*State.* `rapid_streak`; each job's row and its undelivered events; the rotation LIST of each
job, throttled LISTs and refills, the overcount STOP.
*Operations.* `infiniteJobRunningUpdate` (trim, rotation) and
`infiniteJobStateCompletedOrStopUpdate` (round, ceiling, refill, hand-over).
*Hard.* The callbacks of several jobs interleave between their count and their insert; late
events replay an end; idempotent inserts merge two needs into one task.
*Correct when.* No slot is lost, and the deployment comes back to its replicas.

### 1.5 Startup deadline and tunnel (`armStartupDeadline.ts`, `strategies/infinite/frps`) — Startup

*State.* The job's STOP task and its `startup_deadline` marker; the recorded endpoint status;
the stream of tunnel events.
*Hard.* Three uncoordinated writers of one task and one field, a stream that replays its last
events on a reconnect, a deadline that may have come due.
*Correct when.* An online job has no STOP that waits; one that never came online has one, and
ends.

### 1.6 Reservations (`reserve.ts`, `webhooks/reservations.ts`, `client/hostManager`) — Reservation

*State.* On a LIST without a market: the request it made, the nodes it was filled with, the
source it was handed off from; at host-manager: the request under the task's key and the nodes
held for it.
*Operations.* Record the request, send it, ask for it again, renew it when the requirements
changed, park, fill by webhook, assign, hand the rest to a new LIST, release or cancel when the
task is deleted or its deployment swept.
*Hard.* The webhook comes during a run, twice, late, for a task that is gone, or not at all; holds
lapse; a crash falls between the record and the request, or between the hand-off and the
deletion.
*Correct when.* Jobs landed and jobs still to list are those of the first LIST; a fill is not
slept through; nothing stays held for a task that is gone.

### 1.7 API batches (`tasks/idempotency`, `list/worker.ts`) — ApiBatch, OnceEach

*State.* The task's records and its `posted` mark; client-manager's frozen verdict of each key.
*Operations.* Walk the epochs' keys from 0, classify the answer, emit what is confirmed and not
recorded (the job's row, then the record), complete, drain, retry, give up.
*Hard.* A lost answer is asked for again under the same key; expired slots move to the next key;
the body is made of the deployment as it is now.
*Correct when.* A slot gets one job; what landed is recorded.

### 1.8 Edits of a RUNNING deployment (`strategies/all/deployment{Replica,Market,Timeout}Update.ts`) — Rescale, Extend

*State.* The edited field; the LISTs and STOPs queued for the difference; for a timeout, the chain
of EXTENDs of each running job and the one-shot EXTENDs beside it.
*Operations.* The routes' single write; the callbacks' count, lookup and inserts; EXTEND's run and
`onExtendConfirmed`, which queues the next before this one goes.
*Hard.* The callbacks count what queued tasks are about to change; nothing compares the result
with the document afterwards; the follow-up EXTENDs are moved to a time computed earlier.
*Correct when.* A job is given up only for a queued replacement; no excess survives; a job is
always extended before its deadline, once.

### 1.9 Change streams and SSE (`client/listener`, `router/stream`) — ChangeStream

*State.* The saved position of a collection, each process's token, the callbacks that are going;
the watchers of a deployment and their connections.
*Hard.* Callbacks are not awaited, positions are saved on a timer, history expires, and an API
replica saves under the same key as the worker.
*Correct when.* No event is lost but for a cause one can name; a connected client ends with the
document as it is.

### 1.10 Revisions, SSH keys, lists (`ssh`, revision routes, `repositories/filters`) — Revisions, Pagination

*State.* `active_revision`, `ssh_public_keys`, each revision's pinned definition; the keys a posted
job has, and whether its node has them.
*Hard.* Five routes write two documents each, from the copy the middleware read; a node fetches a
confidential definition before the job's row says RUNNING.
*Correct when.* What LIST posts carries the deployment's keys; a key is held if and only if the last
request to name it asked so; a started job has the keys; a client that walks pages meets every document
once.

### 1.11 The rest

Accounts listener, schedules, worker processes, vaults, migrations, configuration: see
[section 6](#6-what-is-not-modelled). Every hazard we see in this code is listed in
`PROJECT.json` at its line, with the properties that would catch it.

---

## 2 The modules

| module | code it stands for | what it says |
|---|---|---|
| `SerialQueue` | abstract | what a client of the task queue may rely on |
| `TaskQueue` | `tasks/queue/**`, `repositories` (task delete), `scheduleTask` | the queue with consumers, leases, locks, faults; implements SerialQueue |
| `ListUnits` | `tasks/task/list/**`, `tasks/execution/**` | one self-custody LIST through its runs and crashes |
| `Reservation` | `reserve.ts`, `funds.ts`, the webhook, `client/hostManager` | LISTs without a market, their holds and hand-offs |
| `OnceEach` | abstract | what a task promises of its units |
| `ApiBatch` | `tasks/idempotency/**`, `list/worker.ts`, `pendingSlots.ts` | one LIST through the API; implements OnceEach |
| `Deployment` | routes, `strategies/all`, STOP, LIST (batch), retry, ban | the life of one deployment |
| `Infinite` | `strategies/infinite/job*Update.ts`, STOP selection | the replicas of one run |
| `Startup` | `armStartupDeadline`, `frps/*`, `onJobUpdate` | one job and its tunnel |
| `Rescale` | `deploymentReplicaUpdate`, `deploymentMarketUpdate`, `jobAllActiveJobsStop` | edits of replicas and market |
| `Extend` | `tasks/task/extend/**`, `simple-extended`, `deploymentTimeoutUpdate` | the EXTENDs of one job, with the clock |
| `ChangeStream` | `client/listener`, `router/stream` | positions, delivery, restarts, SSE clients |
| `Revisions` | `ssh/**`, revision, key and duplicate routes | concurrent edits of revisions and keys |
| `Pagination` | `repositories/filters/**` | pages and filters as operators |
| `*MC` | – | small instances for TLC |
| `*_proofs` | – | theorems and their proofs; Runners_proofs those of ListUnits and Extend, which share the sums, Edits_proofs those of Revisions and Rescale, Listeners_proofs those of ChangeStream and Infinite (so these say `ExtendSpec`, `RescaleSpec`, `InfiniteSpec`) |

**How they compose.** The modules meet at interfaces, not by sharing variables; together their state would
be far beyond any checker. TaskQueue says what Deployment and Infinite take for granted: one task of a
deployment runs at a time (`MutualExclusion`, proved), it is run again until it completes (`SerialSpec`),
and it comes to be run (`EveryTaskSettles`). ListUnits says what Deployment's posting of a LIST, one batch
there, goes through. ApiBatch says it of the other signing path, and Reservation of how nodes are found
before either; both take from TaskQueue that runs are serial. ChangeStream says what the callbacks of
Deployment, Infinite, Startup and Rescale may count on: at least once, in order, looked up late, but for the
causes it names. Rescale and Extend take up a RUNNING deployment of Deployment and change what it should
have; Revisions is what the pinned definition that LIST posts is made of. Startup decides when a job's own
STOP comes due and which ends count as late; Infinite lets a job be stopped at any time and any end be a
round, so what holds there holds whatever Startup does. Once the fail-safe has made the deployment STOPPING,
Deployment says what follows.

### 2.1 TaskQueue

One variable per field of the task and of the lock document; `pc`, `at`, `snapshot`, `todo`
hold a handler's place, task, enriched view, and outstanding teardown writes. Each disjunct is
one MongoDB write. `Claim` … `Unlock` follow `fetchNewTasksCycle` in order. The verdict
`isTaskWanted` is merged with the write it decides. Time is `Tick`: it counts `due`, `lease`
and `ttl` down. `Crash` takes a consumer with all its handlers, `CycleFails` and `SettleFails`
are writes that throw. `ChangeIntent` and `RemoveDeployment` are the rest of the program. A task
that is not `Unwanted` after its claim runs, a LIST with signed bytes even then; only one found
spent at its claim goes without (`FoundSpent`, the one exception of `InFlightListKept`).
Not in it: a consumer that is cut off, counts as lapsed, and later writes again beyond what
an unfenced hand-back does (zombie processes); task types beyond LIST and STOP behave as STOP.

`lost` is a history variable: dispatches that ended without an answer. `SerialQueue` is
instantiated in TaskQueue with `fate`, `active`, `done` defined from its state (the refinement
mapping), and `SerialSpec` is checked as a property.

### 2.2 ListUnits

`record`, `blob`, `unit` are the task's `txs`; `chain` is what became of each transaction; `step` is where
the run is with it; `phase` is `runListTask`'s own progress. `MarkRecord` patches every record of the same
unit index, as `markRecord` does. `SendFails` and the `Missed` branches are the RPC's wrong answers,
remembered in `deceived`; `torn` are transactions whose rows a crash cut short after CONFIRMED was marked.
Dispatches and retries are counted against their caps: a `Spent` task is not run again but deleted with what
it has in flight (`AbandonList`), and one that is not wanted and has nothing in flight is dropped. `handed`
counts the jobs handed off and `heir` says whether the LIST handed to is still stored: `scheduleTask` finds
stored tasks only, so when that LIST leaves first (`HeirLeaves`, remembered in `orphaned`) a reclaimed task
hands the same jobs off again. Packing is nondeterministic over one or two transactions. Properties that
depend on unit indices carry `UnitsDistinct`: after a crash that persisted a later unit and not an earlier
one, the next run reuses an index (hazard at `reconcileUnits.ts:42`), and what is keyed by index is then
ambiguous. Not in it: the API path (ApiBatch), how a reservation is come by (Reservation; here a run is
PARKED), two runs of the task at once, the LIST handed to beyond its being there.

### 2.3 Deployment

Routes are two steps, `Ask` (the middleware's read) and the write. `changes` and `swaps` count
undelivered events; a callback reads the document as it is when delivered. Tasks are records in
`Slots`, with the frozen target or stop-set, `posted` (on chain, not recorded), and `seen`
(the jobs read when claimed). `current` holds the deployment's lock. Merged, because nothing
of the model can come between: a callback's lookup and its insert; self-heal, `onStopExit`
and the delete of a STOP. Kept apart: `SettleCounts`/`SettleWrites` (the finalizer's count and
its write), posting and recording, freezing a stop-set and killing. `Ban` is atomic on one
deployment. `onStopExit`'s updates that are not awaited are taken as done. The "not ARCHIVED" guard of
`Swap` stands in the middleware (`validateActiveDeployment.ts:13`) and is evaluated at the
write. At most one claim waits for the lock, a free lock is taken at once. Not in it:
EXTEND (Extend), edits of replicas and market (Rescale), moved schedules, rotation (Infinite).

`forgot` remembers that a finalizer wrote STOPPED over LISTs or jobs that were not swept, or
that a LIST with unrecorded jobs was abandoned. `StopCompletes` holds up to it, and
the two violation configurations of Deployment show how it comes about.

### 2.4 Infinite

A job's RUNNING callback has three steps (count, trim, rotate), the callback of its end up to
three (round and token, or healthy, fill, withdraw), and all jobs' callbacks interleave. Merged:
the streak's reset with the count, the token with the streak's increment, the lookup
of a rotation with making it due. Two callbacks of one kind of one job run one after the other.
COMPLETED and STOPPED are both ENDED. An event carries the row as it is on delivery, so a late
RUNNING event delivers the end a second time. Rows are recycled: a LIST begins when a row is
free. `taken` counts the rounds that found another's refill waiting and queued none (finding 6).

### 2.5 Startup

One job: handlers of other jobs only delay this one's. `arming` is the next write
of `armStartupDeadline`; `frps` the next write of the FRPS handler, which are serialised by the
listener; `stop` and `marker` are what they write. `tunnel` is what the FRPS server
remembers of the proxy, its last two events; `Reconnect` sends them again. Not in it: restarts
of the manager's listeners (ChangeStream); a deployment that becomes
RUNNING again.

### 2.6 Reservation

Task `t` of the chain is handed off from `task[t].handoff_of`. A run is one `run.pc` per await:
record the request, send it, look at the answer, park or assign, hand off, delete. `hm` is
host-manager, `hooks` and `missed` its webhook calls that are under way or were sent while the API
was down, `cancels` the cancellations. The webhook is two steps, its lookup and its answer
(`looking`). One assign stands for a node's transaction (ListUnits has those). `ban` is
`archiveBannedOwner`'s sweep, the only one that takes no lock: `NothingLeftHeld` leaves it aside,
since it does leak (section 4). `orphaned` are tasks whose run crashed between hand-off and
deletion; `WorkConserved` leaves these aside. The funds check is a verdict, not an amount.

### 2.7 ApiBatch, OnceEach

A key is a position in `cm`, with what it was first posted with and what client-manager found. The
walk posts, awaits, moves what expired to the next epoch, and emits. `RecordJob` before
`RecordUnit` is the order of `workerChannel.ts`. `Forgotten` are slots that landed and have no row.
The refinement of OnceEach takes `landed` for `applied`, the task's records for `known`, COMPLETED
for `complete`: it is checked on the instance and proved in general (section 5).

### 2.8 Rescale

`Resize` is one step (nothing is awaited between count and insert that could change it), a market
move one to find the displaced jobs, one for the LIST, one per STOP. `Claim` reads document and
jobs before the lock is taken. `Settle` is the finalizer in three steps. `overlapped` remembers that
a callback sized its tasks while others were at work, `borrowed` that a move found the LIST of another
move pending and left its own jobs to it (finding 9): the properties speak of executions without
these, and TLC shows them broken with them. `Coming` is what the queued LISTs will still post, a sum
over the tasks.

### 2.9 Extend

Time is explicit: `granted` is the job's timeout on chain, a buffer before it the next EXTEND is due.
`extend` holds the job's EXTENDs and `stage` says where the run of the current one is; `half` is between the
two writes after a confirmation, which come in opposite orders on the two signing paths. `lag` is how late
handlers ran, `drift` that an EXTEND was queued by another timeout than the job was given, `lost` how one
was given up; `Lockstep` allows exactly these. The record of a self-custody EXTEND is persisted as SIGNED
without its signature (`extend/worker.ts:69-75`, `workerChannel.ts:37`), so a task reclaimed after its
transaction landed cannot ask for the status of that transaction (`recover.ts:29-60`): it sends the same
bytes again and learns that they landed, or, past their block height, takes them for expired and signs anew.
`Resume` allows either, and `resigned` counts the second; `NoOverrun` allows a job one timeout more for
each. What the RPC says is otherwise taken as true here; ListUnits has one that lies.

### 2.10 ChangeStream

Events are numbered; a process's `pos` is what it was delivered, `ckpt` what it last read or wrote
of the saved position, `savedBy` whose position that is. `lost` maps each cause to the events the
worker will not see again: *overtaken* (another process moved the position), *dropped* (resumed
from now), *cut* (its callback was going when the process ended), *failed* (its callback threw).
`NothingMissed` says there is no fifth. A client is `blind` if it subscribed to a stream that was
not open or was past its lookup, or if its stream was restarted under it. Not in it: the bookkeeping
of task ids for the DONE frames of deleted tasks.

### 2.11 Revisions, Pagination

A request is one step per await, from the copy (`old`, `act`) the middleware read. A pin is the
set of keys it carries. `wanted` is what the last written request to name each key asked for. A request
names the keys it adds or revokes, or all of them if it comes with a definition that has keys; what
others named and wrote since it began is in `missed`, and when its copy undoes some of that, those keys are
`overruled` until they are named again. `raced` remembers a request that wrote from an outdated copy or was cut short.

A job's node gets the definition in a step of its own (`Fetch`), before or after the row becomes RUNNING
(`Run`, the accounts listener): `jobDefinition.ts:11-45` serves a confidential definition with the current keys
whatever the row says. A plain one carries the keys it was posted with. A change of the keys looks up
the rows that are RUNNING and pushes to their nodes; a node that has not started the job refuses.
`adrift` remembers a job that has been given its keys (`KeysGiven`) and was passed by or refused the push;
one whose keys a create-revision changed; one whose push was cut short or met another's; and one posted while a
request was under way, or after one raced. `JobHasKeys` says that there is no other way for a
started job to be without the deployment's keys, or with more. Pagination has no state: its two properties are
assumptions of `RevisionsMC`, which TLC evaluates over all collections of up to five documents.

---

## 3 Runs, bounds and fairness

| run | asks | bounds |
|---|---|---|
| `TaskQueueTimely` | lock, accounting, with crashes and lapsed claims | 1 LIST, 2 consumers, 3 handlers (2 overlapping cycles), lease 2, 2 attempts, 1 fault |
| `TaskQueueNominal` | claims, cap, in-flight LISTs, refinement of SerialQueue, liveness | LIST and STOP of one deployment, 2 consumers, lease 1, 2 attempts, 1 retry, 1 fault |
| `ListUnits` | records, overshoot, rows, completeness | target 2, 3 transactions, 3 dispatches, 1 retry, 2 crashes |
| `Reservation` | work conserved, fills and holds, target listed | 2 jobs, 2 nodes, 4 hand-offs, 2 versions of the terms, 1 fault |
| `ApiBatch` | refinement of OnceEach, nothing forgotten, liveness | 3 slots, 2 epochs, 3 retries, 1 edit, 2 faults |
| `Deployment` | stop, swap, archive | 1 replica, 2 revisions, 2 jobs each, 5 tasks, 2 moves SIMPLE, 1 SCHEDULED |
| `Startup` | deadline on and off, job ends | 2 events waiting |
| `Infinite` | no slot lost, replicas reached again | 1 and 2 replicas, 2 rows, streak ceiling 2, 1 refill waiting |
| `Rescale` | replacements first, no excess, jobs moved | 2 replicas, 2 markets, 6 jobs, 5 tasks, 2 edits, 1 end or failed run |
| `Extend` | the chain goes on, in step, no further than it should | timeouts 2 and 3, clock to 6, 3 tasks, 1 edit, 2 faults |
| `ChangeStream` | no event missed, clients up to date | worker, 1 API replica, 1 client, 2 events, 2 faults |
| `Revisions` | keys as asked, keys and pins and jobs agree; pages and filters | 3 requests, 2 at a time, 2 keys, 3 revisions, 1 job at a time, 1 fault |

All hold. The configurations of section 4 (`TaskQueueStolenClaim.cfg` and eleven more) are expected
to be violated and show the findings; they are not among the runs of `PROJECT.json`.

Each module states its type invariant `TypeOK` (`ExtendTypeOK`, `RescaleTypeOK`,
`InfiniteTypeOK`). Those of TaskQueue, Deployment, Startup, Extend, Rescale and Infinite
are proved. All were checked on the instances above while the modules were
written; the runs do not repeat them, and `INVARIANT TypeOK` in a cfg does.

**Why the bounds are enough.** *TaskQueue*: three handlers are the least in which two cycles of one process
and a second process meet at one lock; a lease of 2 has a live, a last and a lapsed tick; the caps of 1 and
2 are reached. With two attempts a LIST in flight that was dispatched once and lost is claimed again and not
spent yet, so it meets a verdict as well as a sweep. The lease of 1 in `TaskQueueNominal` lets time pass
between handlings and not during one (a lease of 2 triples its states, which liveness does not bear; without
liveness it was checked with a lease of 2 and caps of 2, 4.7 million states). One deployment suffices:
deployments share no lock and no counter. *ListUnits*: two jobs split over two transactions, and one more to
sign again after a crash; crashes may fall on any two steps, so a task is reclaimed after its hand-off, and
with three dispatches and a retry both caps are met in flight. *Deployment*: two revisions give an old and a
new set of jobs, two jobs per revision let a LIST land one while a stop-set has another, five tasks are
never used up: `Calm` refuses new user requests while less than two slots are free, and an insert waits for
a free slot, so that a task is never lost for lack of room. `MaxMoves` counts starts, swaps, failed runs and
bans; three moves are beyond ten million states. *Infinite*: with two rows a replacement runs beside an
ended job whose events are still coming, and two replicas are the least in which one's round can meet the
other's refill; `MaxRefills` stops further ends and stops while refills wait, since duplicate events
otherwise make refills grow without bound. With one replica `SlotsKept` says that its slot is never lost;
`ComesBack` is checked with one and with two. On three rows two replicas have 6.5 million states, too many
for a run; `SlotsKept` holds there too. With more than one it says that each slot lost is one of the rounds
`taken` counts; for any number it is proved. *Startup*: two events are a snapshot's whole content.
*Reservation*: two nodes let a request be filled short; four tasks let a hand-off be handed off again after
a lapse and after a change of terms. *ApiBatch*: two epochs and three slots let a key confirm some, move
some and replay both; with three retries both a retry that succeeds and a spent task occur. *Rescale*: two
edits meet each other's tasks, six jobs are the most that two edits of two replicas and one job's end can
post. The cfg's CONSTRAINT `Undisturbed` leaves out what follows a race, of which no property speaks.
*Extend*: six ticks are two to three periods of either timeout, and the clock and the task slots end an
execution by their guards. CONSTRAINT `Bounded` further cuts, beyond the first tick, what follows `drift` or
`lost`, the end of the job or a STOPPING: no run is asked about it there but for `KeepsExtending` after
`drift`, which is proved without the constraint. *ChangeStream*: with two events one can be saved and one
lost; two faults let a crash follow a failure. *Revisions*: two concurrent requests and a third are the
least in which a write based on an outdated copy is itself the base of another.

SYMMETRY is used only in configurations without liveness.

**Fairness.** *TaskQueue* (`FairSpec`): weak on what a handler does of itself, since the
event loop goes on with what it started; strong on the claim of each task, since each cycle
sorts by `due_at` and a due task gets older than every other; weak on time. Nothing makes a crash
or a fault happen. `TimelySpec` and `NominalSpec` add timeliness, not fairness: no handler
outlives its lock's (claim's) lease; the code enforces neither. It aborts a
run one `task_lease_ms` after its dispatch (`consumer/index.ts:117`), but lock and claim got their
leases before that, and an abort is only asked for; `TaskQueueStolenClaim` shows what
happens without timeliness. *Deployment*: weak on writing
routes, callbacks, observation and the holder of the lock; strong on starting a task of each kind
(oldest due first). None on users, jobs that end, failures. *Reservation*: weak on claiming, on
the steps of a run and on the messages that are under way; none on lapses, crashes, lost messages.
*ApiBatch*: weak on the claim, on the steps of a run and on client-manager's verdict for each key.
*Rescale*: weak on the system as a whole: some callback, task or settlement goes on while there is
one. *ChangeStream*: weak on the worker's restart, its delivery and its callbacks; Kubernetes
restarts the process, and a callback ends. *Startup*, *Infinite*: weak on
listeners, callbacks, clock and consumers; none on nodes, tunnels, users.

Deadlock is not checked: all these systems may come to rest (an empty queue, a completed
task, an archived deployment).

### Liveness checked

- `EveryTaskSettles`: every queued task leaves the queue, or a LIST of its deployment parks for
  capacity for ever.
- `StopCompletes`, `SwapCompletes`: a stop ends with no job alive, a swap with no job of another
  revision.
- `DeadlineEnds`: a job that stays offline is ended.
- `ComesBack`: an INFINITE deployment that stays RUNNING has a job again and again; and unless jobs end
  or are stopped for ever, it comes back to its replicas, less the rounds that found another's refill
  waiting (finding 6: nothing refills those slots).
- `AllListed`: a LIST without a market has its target listed in the end, over its hand-offs.
- `LandedRecorded`: a LIST through the API leaves the queue, and what landed is then recorded unless it
  was spent or refused.
- `MovesOver`: a job on another market than the deployment's is moved, in executions in which no
  callback overlapped other work.
- `EventuallyHandled`: what is written is handled, or lost for a named cause.

---

## 4 Findings

### 4.1 With a counterexample at hand

`tlc -config X.cfg M.tla` with the cfg named (and the MC module of its component, for example
`ApiBatchRefused.cfg` with `ApiBatchMC.tla`) reports the property in it violated.

1. **A live claim can be taken** (`TaskQueueStolenClaim`). A task that meets a held lock is handed
   back by `_id` alone: a cycle whose own claim lapsed clears the claim of the consumer that has
   since re-claimed the task and is running it, and a third may claim it. The other transitions
   are fenced.
2. **An expired listing is not signed again** (`ListUnitsShort`). `send.ts` says EXPIRED means
   re-sign; an expired unit asks for no retry, and a LIST into a market's queue, which has no
   reservation to hand off, completes short.
3. **Two chains of firings** (`DeploymentTwoChains`). A start's LIST takes the revision active when
   its event is handled. If a swap came in between, start and swap each queue a LIST of that
   revision and run; their keys differ by reason, neither supersedes the other, and each goes on
   to queue its next firing.
4. **STOPPED before it was swept** (`DeploymentUnswept`). The finalizer marks a stopping deployment
   STOPPED as soon as no row is active, which may be before the STOPPING event was handled; that
   is then looked up as STOPPED and queues no STOP, and a job that a LIST in flight posts
   meanwhile stays alive.
5. **The marker survives on a healthy job** (`StartupMarker`). A tunnel that registers between
   the arming's two writes leaves the marker, and the job's end counts as a startup failure.
6. **A slot is lost** (`InfiniteSlotLost`, a bug of the code). Two jobs of one round leave one
   throttled LIST of one job, and nothing replaces the second (`EveryJobReplaced`).
7. **A drain is refused and forgets** (`ApiBatchRefused`, a bug of the code). The timeout is edited
   while an API LIST is in flight and the deployment stopped: the drain posts its key with the new
   body (`worker.ts:40,65,129`), is refused as a payload mismatch, and a drain does not retry an error
   (`run.ts:179-182`), so the task is deleted although its jobs landed; `wanted.ts:68-69` says a drain
   records them "so they can be stopped".
8. **An EXTEND too late** (`ExtendDrift`). The first EXTEND is queued by the deployment's timeout when
   the RUNNING event is handled (`simple-extended/jobRunningUpdate.ts:27`), not by the job's; a
   timeout raised while the job is QUEUED is not followed up (`deploymentTimeoutUpdate.ts:28-35` looks
   at RUNNING rows only), so it comes due after the job's deadline.
9. **A move takes the LIST of another for its own** (`RescaleBorrowed`). `deploymentMarketUpdate.ts:31-33`
   says that one LIST for the stopped count is queued ahead of the stops, "once, however often the change
   event is delivered". The idempotent insert tells it by its limit and reason only
   (`scheduleTask.ts:105-118`): with one job on each of two markets, a move to the one and, while that
   LIST is pending, a move to the other displace different jobs in equal numbers. The second finds the
   LIST of the first, both jobs are stopped, and one is replaced.
10. **Handed off twice** (`ListUnitsTwice`). The comment at `list/run.ts:252-253` says that the LIST for the
   rest is "created once per task (`handoff_of`), however often this one is reclaimed".
   `scheduleTask.ts:105-107` looks for `handoff_of` among stored tasks: a source that crashed between
   hand-off and deletion, and is reclaimed once the LIST it handed to has run and gone, hands the same jobs
   off again, and more jobs are listed than the target.
11. **A spent LIST is given up in flight** (`ListUnitsTwice.cfg` with INVARIANT `AlwaysRecorded`). "A LIST
   in flight runs anyway, to record what landed" (`consumer/index.ts:211-213`) holds after the lock; before
   it, a task out of attempts or retries is deleted whatever it has in flight (`consumer/index.ts:155-173`,
   `transitions.ts:28-41`), so jobs that landed in its last dispatch have no rows.
12. **An EXTEND is signed and lands twice** (`ExtendTwice`). `onExtendConfirmed.ts:40-46` makes sure that "we never
   queue two extend cycles (a double-extend)", and `unit.ts:19` persists the record first "so a crash mid-send is
   recoverable". The record has no signature (`extend/worker.ts:69-75`), so after a crash past the block height of
   its transaction, which landed, recovery judges it expired, and the run signs and sends another.
13. **A revoked key returns** (`RevisionsRevoked`). `deploymentRevokeSshKeys/index.ts:12-17` says that "the key leaves
   the deployment's set (future jobs won't get it)". A create-revision without keys that had read the
   deployment before writes its copy of the set back (`deploymentCreateRevision.ts:33-35,60`).
14. **A confidential job keeps a revoked key** (`RevisionsRevoked.cfg` with INVARIANT `AccessStops`). The
   same comment: the key is revoked on the node of "every job currently running, so access stops at once
   rather than on restart". A node may fetch the definition while the job's row is still QUEUED; a revoke
   stored and looked up before the row says RUNNING (`commitDeploymentSshKeys.ts:88-93`) passes that job by.

### 4.2 Met while modelling, and allowed for in the properties

What the properties leave aside under a history variable is where the code does something its
authors may not want:

- *Rescale*, `overlapped`: a count made while a LIST or STOP is queued lists the shortfall or trims the
  excess twice. The finalizer counts active rows, then LISTs (`jobAllActiveJobsStop.ts:38-53`): a
  LIST that records its jobs and goes between the two leaves live jobs under a STOPPED deployment.
- *Extend*, `resigned`: finding 12. *Lost*: a self-custody EXTEND whose consumer crashes after CONFIRMED is
  marked and before the next is queued ends the chain (`unit.ts:47`); one whose transaction expired
  completes without a retry (`extend/run.ts:88`); one due while the deployment is in ERROR is dropped and a
  restart does not bring it back (`wanted.ts:56`).
- *ChangeStream*, `overtaken`: the API's listener on `deployments` saves under the worker's key, which
  `listener/index.ts:53-55`, `README.md:55` and `docs/modes.md:31,199` say only one process does.
  *Dropped*: an error of a quiet resumed stream deletes a position that is still valid
  (`index.ts:145`). *Cut*: a stop saves the position and does not wait for the callbacks. *Blind*: a
  client subscribed while the stream is opening, or past its lookup, is not told; nor is one whose stream
  restarts from now. A client that subscribes after `preClose` holds the server until `forceExit`
  (`router/index.ts:118-119`).
- *Revisions*, `raced` and `overruled`: create-revision without keys writes the middleware's copy back
  (finding 13); a slow re-pin overwrites a
  concurrent one (`deploymentUpdateActiveRevision.ts:45-48`); an earlier add's push may arrive after
  a later revoke's. *Adrift*: a revoke reaches RUNNING jobs only (finding 14), and a create-revision that changes the
  keys pushes to none, though `types/deployment.ts:117-124` speaks of every running job. *Orphaned*: a
  duplicate that fails leaves its revision behind.
- *Reservation*: a ban's sweep may delete a LIST that recorded its request in between, and nothing
  cancels it (`repositories/index.ts:190`); the second hand-off of finding 10 lists the shortfall twice here
  too; a failed cancel is only logged.
- *ListUnits*, *orphaned* and *abandoned*: findings 10 and 11. An index may be used twice after a crash that
  persisted a later unit and not an earlier one (`reconcileUnits.ts:42`).
- *TaskQueue*: a spent LIST that is no longer wanted is dropped in flight (`consumer/index.ts:166-169`),
  though `wanted.ts:68` says such a LIST never is.
- *Pagination*: a backward page drops the document nearest the cursor when more than `limit` precede
  it (`buildPaginationMeta.ts:31`); `search` and `gpu=none,X` both claim `$or`, and the search is
  overwritten (`list.ts:36,44`).
- Seen and not modelled: `onMarketUpdate.ts:43` writes rows without the guard on terminal states that
  `onJobUpdate` has; a full STOP left from before a restart sweeps the new run's LIST
  (`stop/run.ts:43`), which Deployment counts under `forgot`. Two refreshes of the endpoint
  flags overlap when a tunnel and a row change together: the first to read may be the last to write, and a
  wrong flag stays until the next refresh (`deploymentEndpointStatus.ts:60-84`; its comment at 44-46 has
  only missed triggers in mind).

---

## 5 Proofs

TLAPS proves, for every value of the constants allowed by the named assumption:

| theorem | states | rests on |
|---|---|---|
| `TaskQueue_proofs!Typing` | `Spec => []TypeOK` | – |
| `TaskQueue_proofs!LockSerialises` | `TimelySpec => []MutualExclusion` | `LockInv` |
| `TaskQueue_proofs!AttemptsCount` | `TimelySpec => []AttemptsCoverDispatches` | `LockInv`, `AttemptsInv` |
| `TaskQueue_proofs!OneCarrier` | `NominalSpec => []SoleCarrier` | `NominalInv` |
| `TaskQueue_proofs!CapHolds` | `NominalSpec => []AttemptsWithinCap` | `NominalInv` |
| `TaskQueue_proofs!InFlightKept` | `NominalSpec => InFlightListKept` | `NominalInv` |
| `TaskQueue_proofs!ImplementsSerialQueue` | `NominalSpec => SerialSpec` | `NominalInv` |
| `Runners_proofs!SentIsRecorded` | `Spec => []PersistedBeforeSent` | `Recorded` |
| `Runners_proofs!LandedHaveRows` | `Spec => []LandedRecorded` | `LandInv` |
| `Runners_proofs!NeverTooMany` | `Spec => []NoOvershoot` | `JobsInv` |
| `Runners_proofs!NothingLeftBehind` | `Spec => []NothingForgotten` | `JobsInv` |
| `Runners_proofs!ChainGoesOn` | `ExtendSpec => []KeepsExtending` | `Continued` |
| `Runners_proofs!OneChain` | `ExtendSpec => []NoOverrun` | `Unedited`, `Spaced` |
| `Runners_proofs!DeadlineAndChain` | `ExtendSpec => []Lockstep` | `Unedited`, `Locked` |
| `ApiBatch_proofs!ImplementsOnceEach` | `Spec => OnceEachSpec` | `Inv` |
| `ApiBatch_proofs!SameUnits` | `Spec => []SameUnitsPerKey` | `Inv`, `UnitsOfKeys` |
| `ApiBatch_proofs!LandedKept` | `Spec => []NothingForgotten` | `Inv`, `Accounted` |
| `Reservation_proofs!FillWakes` | `Spec => []NoFillSleptThrough` | `IInv` |
| `Reservation_proofs!WebhookKeeps` | `Spec => ReleasedOnlyIfGone` | `IInv` |
| `Reservation_proofs!HeldIsReleased` | `Spec => []NothingLeftHeld` | `IInv` |
| `Reservation_proofs!WorkIsKept` | `Spec => []WorkConserved` | `IInv`, `WorkInv` |
| `Listeners_proofs!MissedForACause` | `Spec => []NothingMissed` | `Covered` |
| `Listeners_proofs!OpenViewsSettle` | `Spec => []Settles` | `SseInv` |
| `Listeners_proofs!InfiniteTyping` | `InfiniteSpec => []InfiniteTypeOK` | `WritesLeft` |
| `Listeners_proofs!SlotsAreKept` | `InfiniteSpec => []SlotsKept` | `Slots` |
| `Edits_proofs!PinsAreCurrent` | `Spec => []PinsCurrent` | `RInv` |
| `Edits_proofs!KeysStayAsAsked` | `Spec => []KeysAsAsked` | `RInv` |
| `Edits_proofs!NoRevisionOrphaned` | `Spec => []NoOrphans` | `RInv` |
| `Edits_proofs!RunningJobHasKeys` | `Spec => []JobHasKeys` | `RInv` |
| `Edits_proofs!RescaleTyping` | `RescaleSpec => []RescaleTypeOK` | `Shaped` |
| `Edits_proofs!NeverFallsShort` | `RescaleSpec => []NeverShort` | `RescaleInvariant` |
| `Edits_proofs!NeverRunsOver` | `RescaleSpec => []NeverOver` | `RescaleInvariant` |
| `Deployment_proofs!ArchivedForGood` | `Spec => ArchivedStays` | – |
| `Deployment_proofs!DeploymentTyping` | `Spec => [](TypeOK /\ Coherent)` | itself |
| `Deployment_proofs!JobsStayKnown` | `Spec => OnlyAbandonForgets` | `Coherent` |
| `Deployment_proofs!LiveJobsKnown` | `Spec => []NoJobForgotten` | `Coherent` |
| `Startup_proofs!Typing` | `Spec => []TypeOK` | `RowWrites` |
| `Startup_proofs!NoStopOnline` | `Spec => []OnlineDisarmed` | `IInv` |
| `Startup_proofs!StopOffline` | `Spec => []OfflineArmed` | `IInv` |

**The lock.** `MutualExclusion` alone is not inductive: from a state in which a handler is in its
section but the lock document is free, another could enter. `LockOwned` adds that whoever is
between lock and unlock owns the document and it has not expired. Timeliness (`LockTimely`) is
what time must not break; claims may lapse freely, so the theorem covers reclaimed tasks, crashes,
failed writes and overlapping cycles of one process.

**The attempts.** `attempts[t] >= lost[t] + |Counted(t)|` speaks of a cardinality that any of the
handlers may change. `AttemptsInv` replaces it by "one more than `lost` while some handler is in
a dispatch of t", inductive because mutual exclusion makes that handler unique: so the retry's
decrement is of its own increment. `OneCounted` then turns it back into cardinalities.

**One carrier, and the queue it implements.** With claims that do not lapse under their handler,
`CarryInv` adds to the lock what a handler relies on between its reads and its writes. `Uncontested`
says that of all the handlers that may still write a task's outcome there is one per task, which is
more than `SoleCarrier`: it has to hold once the document is gone, or a re-created claim could meet an
old handler. `Ready` says that what that handler read is still so: its claim, the cap it judged by,
the in-flight list of its snapshot, and that after its verdict the unlock is all that is left to do.
The cap and the in-flight lists follow at once. For the refinement every step of the queue is one of
`Start`, `Complete`, `Remove`, `GiveBack`, `Discard`, `Submit` or a stutter of SerialQueue under the
mapping of TaskQueue; the lock makes `Start` serial, and `Uncontested` keeps `Discard` away from a run.

**Persist before send.** `PersistedBeforeSent` needs to know why a run may send: `StepRecorded`
says that a step of the run past `persist` has a record, and no step removes one (abandoning deletes the
task, after which nothing is sent). `Shapes`, the
types of three variables, is all of the typing it takes.

**Landed, with its row.** The properties of ListUnits except the RPC's lies (`deceived`) and shared unit
indexes, so the invariant is split alike. `Counts`, `InOrder` and `Carried` hold always: shapes, the
order of record, blob and chain, and that a step of the run is about a transaction it carries.
`Truthful` holds while the run is `Honest`: what a record says of a transaction is what the chain
says, or less. A task that is gone has no step under way, so less is only possible of one that was
abandoned, and then of the transactions in its blob: the theorem says so.

**Never too many, nothing left behind.** Both count jobs over the transactions. `Bounded` bounds what may
*ever* land (`MayLand`: landed, in flight, or unsent and still in a blob or being persisted), since a
transaction given up as expired by a lying RPC may come to land; `Reached` is the same count from below, and
needs no honesty, only that a record names one transaction. Jobs handed off are added to the bound as long
as the task was not `orphaned`: `Inherited` says that until then a hand-off finds the LIST of an earlier one
stored, and adds nothing. After that only what lands from this task is bounded. For LISTs of reserved nodes
the nodes held, signed for and persisted are three shares of the target (`Held`), and a run that will not
retry uses them up (`Spent`). `Judged` says that the shortfall is computed with nothing in flight. The sums
themselves are the library's fold, of which nothing is known to the provers but its definition; the first
part of Runners_proofs proves what the rest uses (a sum over a disjoint union, over more elements, over
equal shares) by least counterexample: the natural numbers at which an equation of two *given* sums fails
have a least one, and this takes no operator as a parameter. `JobsIn` is written as a sum of the function
`size` for that reason.

**The chain goes on.** `KeepsExtending` is not inductive: the EXTEND that stands may be one whose handler has
already run, which is about to go. `Unspent` asks for a task whose run has not passed the handler that
queues the next, or, with own keys, for the run that is between its CONFIRMED mark and that handler. An
edit's insert never takes the chain's place, since `Room` leaves alone a task an edit remembers.

**One chain.** Every repeated event may start a chain, so counting tasks proves nothing: `NoOverrun` is about
time. `Fits` gives each EXTEND that has not landed a place of its own on the job's time line, at or after
`granted`, no later than it is due and what the starts may bring forward (`Brought`), a timeout apart from
every other. The one that lands is the one due first (`Foremost`), so its place can be taken for the next
`granted`, and the others, a timeout away, are still ahead of it. One signed again lands without a place
of its own: the time line is taken at `Base`, which is `granted` less a timeout for each of these, and the
EXTEND, back among those that have not landed, takes the earliest place. The invariant is an existential over
placements; each kind of step gives the new placement from the old.

**The deadline and its chain.** `Promised` is a sum over one-shot EXTENDs queued, `Raising` one over the edits
that have queued theirs and not yet found the chain. `Levels` says that each task of the chain, and each due
date an edit has found and not yet written, lies a buffer before the deadline promised, less what is
still to be raised and what the task itself has landed (`GivenOf`): so a stale find that is written late
is no worse than what it overwrites. The model had let an edit remember a task that was gone and whose
slot had been given to another, which no `_id` does: `Room` was corrected.

**Once each.** That a slot gets one job is not a step's doing: a verdict may land what an earlier run
posted. `KeysApart` says a key that is known has all earlier keys settled, and shares no slot with
what they confirmed. So the open key is the last one (`OpenIsLast`), nothing it settles has landed,
and the verdict is a step `Apply` of OnceEach. For a key that is about to be posted, `WalkApart` says the
same of what the run has pending. `RunOfTask` carries success to the end: between confirmed and
pending is every slot, so a walk with nothing expired has confirmed them all, and one that has emitted
has recorded them all, which is what `Complete` needs. Crashes reset the run, and every conjunct about
it is about places a fresh run is not in.

**Same units.** `UnitsOfKeys` gives what a key carries as a function of the verdicts alone (`Left`): every
slot, then what the key before left. A settled key does not change, so a run that walks again finds the
same sets. Nothing in it speaks of the body: an edit changes that, which is finding 7.

**Landed, kept.** `NothingForgotten` follows from `Accounted`: `posted` is marked before any key is asked
for, so a task dropped because it is not marked has nothing on chain, then or later (`Marked`, `Ended`);
records come after rows (`Rows`); a run that ends well has every slot recorded or asked for nothing
(`Verdict`).

**Fills.** A task waits for a fill or has one (`Holder`), and only one that waits is parked: that is
all of `NoFillSleptThrough`, but it takes the run to keep it. The run decides by what it was claimed
with, so `NotAsked` and `Recorded` say what of that is still so when it asks and when it sends, and
`Claimed` that nobody else claims its task. With `Recorded`, host-manager knows a key only if its
task holds something (`Requests`); so a fulfilment finds the request or the nodes (`Looked`), and a
deletion has something to cancel (`Unbanned`). The last conjunct says nothing once a ban has begun:
its sweep deletes by what it found before.

**Work conserved.** The sum over the queued LISTs is a sum over at most one: `Alone` says that of a chain of
hand-offs only the last LIST stands, since a LIST that another was handed off from is gone or in the
step that deletes it (`InTurn`). So each step changes one task's share against the jobs posted or the
target of the LIST it hands to. `Backed` and `OnTrack` say that a run posts only for nodes its task was
given and has not signed for, and finishes only a task that is owed nothing. `Steady` is the
property's exception; it is never regained once lost, so the invariant may assume it.

**Missed for a cause.** `NothingMissed` speaks of the position to resume after, which depends on where
the worker is. `Covered` says the same of all positions it might come from: the one it reached, that
of an open stream, that read at a start, and the saved one as long as the worker itself saved it. A
position of another's is covered when it is read, because what it skips is blamed there.

**Views settle.** An open connection was shown at least what its replica's stream delivered (`Heard`),
because it is in the set the replica forwards to (`Joined`). That takes that a late `close` names an old
set, never the one in use: `Named` says each set that a `close` may still name was ended by a fault
of its own, so with one more set than there are clients and faults there is always a fresh one. It
is why `Sets` has that many: with fewer, set numbers would come round as object identities never do.

**Pins, keys and jobs.** `PinsCurrent` speaks of moments without a request; in between, the active pin may
be ahead of the keys by the one change that is about to be stored (`Current`). For that change to find its
pin again, what a request pinned must still be pinned when it writes, unless it raced (`Written`), and must
be pinned on the revision that is active (`Targets`, `Present`). A request alone puts races right, so `Solo`
says that what such a one read is still so. `Accounted` names the request that will remove or complete each
revision that is without its deployment. `Told` is about the job: it has the keys, but for the change that
*one* request is about to push, and pushing it twice would do no harm; a confidential job whose node has not
fetched is no party to that (`Tracked`), since it will get the keys as they are. For `KeysAsAsked` the
invariant adds what each request read: of every key, its copy is what the deployment holds, unless another
request named the key since (`missed`) or it is overruled already (`AsAsked`); so what a write undoes it
overrules. The invariant told three things about the model: `Contested` asks for requests past their pin
only and no duplicates, `JobHasKeys` holds even where requests raced, as long as the job was not passed by,
and that None is no set of keys is an assumption the code makes when it looks a revision up.

**Slots kept.** `SlotsKept` is not inductive: an ended job whose callback has already found the deployment
at its replicas still counts as undecided, and a rotation that runs while its own job is alive counts beside
it. `Keepers` leaves the first out (unless a further event of the job waits) and `Share` the second. What is
left only shrinks by a job that gives its slot to a refill, to its rotation, or to a round that is `taken`;
that round has a refill waiting, so the last slot is never lost. A healthy end gives up a slot only after
counting all replicas active, of which no later step takes one without making its job undecided.

**Replicas kept.** `NeverShort` and `NeverOver` are two sides of one account (`Balanced`): the jobs alive
that nothing is about to stop, with what is about to be listed, are the replicas (`Kept`); or a trim that
has not chosen its jobs yet stands alone and its limit is the whole excess (`ToTrim`). A STOP takes its job
off the account when it is queued, or chosen by a trim, and a move when its LIST is: so the kill, later,
changes nothing. Ends by themselves and borrowed LISTs are what may be missing. For the account to be of one
LIST, and `Coming` a sum over one task, callbacks must not overlap: `Orderly` says what follows from that
while the deployment runs (one LIST; a plain LIST or a trim alone; a start's LIST, not yet claimed, finds
nothing alive). `Watched` ties rows to jobs: a job alive has its row, but in the step between post and
record, and a claim of a STOP aimed at it saw that row, so the STOP finds it. `Known` says that all that is
named was posted, so the next jobs are new. The invariant was checked on small instances first, and was
wrong about the code: a second move may borrow the LIST of a first, which is finding 9. Of the constants the
proof asks that `MaxJobs` is at least `MaxReplicas`, or a limit could not be told from none.

**Archived for good.** Every write of the status is a case of its own: the finalizer spares
ARCHIVED, the recovery from a funds error only leaves `INSUFFICIENT_FUNDS`, an abandoned task marks
ERROR only a deployment that is not archived. What is left is the write of a request, and such
a write is where the code does revive an archived deployment (hazard at
`deploymentStart.ts:34`). The theorem is about single steps and needs no invariant.

**No job forgotten.** A job alive is `Known` if it has an active row or a stored LIST posted it.
`OnlyAbandonForgets` says which single step may leave one that is neither: a LIST out of attempts that is
deleted with its jobs posted and not recorded (hazard at `transitions.ts:36`). Sweeps, verdicts and bans
spare such a LIST, or fall before it posts; a retry puts it back with what it posted; rows are written in
the step that stops naming who posted. And a row is settled only of a job that is dead: the listener sees
the end first, a STOP kills what it settles. For that the steps of a run have to be those of its task:
`Coherent` ties the step to the kind of the task in hand, says when it has nothing posted, and that after
the kill none of the stop-set lives. It is inductive with `TypeOK`, over every order of routes, callbacks,
claims, failures and crashes. An inserted task must find a free slot, or it would take the place of a LIST
in flight: the actions that insert wait for `Room`. On the instances checked that never makes a difference
(TLC finds the same 371,023 states without it). TLC checked `TypeOK`, `Coherent`, `NoJobForgotten` and
`OnlyAbandonForgets` on the instance of the run (`Deployment.cfg` with these for its properties). In trials
it refuted the models in which a sweep or a verdict drops LISTs in flight, a STOP settles jobs it did not
kill or every row, or the listener settles jobs alive.

**The deadline.** Why is a STOP that waits always removed from an online job? `Disarming`: if one
waits and the tunnel is up, either the register handler has still to delete it, or the arming has
still to read the tunnel (it reads after it inserts). That no second arming can insert one later
needs `Quiet` and `RowWrites`: a row is written RUNNING once, and its event is delivered once.
Why does an offline job keep its STOP? `Untouched` says nothing of the FRPS listener has run for
it; `Armed` that before its callback's insert there is no STOP the insert could merge with,
and after it there is one until it runs. TLC checked `IInv` on the instance of the run
before it was proved.

*Only model-checked*:

- liveness under fairness, and ENABLED: out of the prover's reach;
- the paged lists, which are assumptions that TLC evaluates over bounded collections.

---

## 6 What is not modelled

- *Left for the plan*: moving queued firings when a schedule changes, the DONE frames of deleted tasks,
  two kinds of edits at once, endpoint status beyond Startup, the reconciliation of the accounts listener
  job by job.
- *Amounts*: fees, balances and timeouts of the funds check are a verdict; the times of cooldowns
  and cron expressions are left out.
- *Inputs and outputs*: authentication, request schemas, OpenAPI, formatting,
  metrics, health and statistics: they keep no state the rest depends on.
- *One-off code*: migrations, vault creation and top-up, kits and templates, the syntax of SSH keys and
  job definitions.
- *The frame around it*: worker threads and processes, `client/eventSource`, the database connection,
  configuration: what they do to the rest (a process that ends, a stream that reconnects) is in
  ChangeStream, Startup and TaskQueue as steps of the outside.
- *Left out of modelled parts*: delays and error texts of the retry ladder (only which rung is
  taken), the arithmetic of fees and timeouts, owner-wide bans (one deployment here), a consumer
  that was given up for dead and writes again.

---

## 7 Plan

Done: TaskQueue (with SerialQueue), ListUnits, Deployment, Startup, Infinite; then Reservation, ApiBatch
(with OnceEach), Rescale, Extend, ChangeStream, Revisions and Pagination; and the theorems of section 5.

Next:

1. **Composition**: two kinds of edits at once (Rescale with a swap of Deployment, Extend with a market
   move); ListUnits as a second implementation of OnceEach.
2. **Code**: moved schedules, DONE frames, the amounts of the funds check.

Runs stay few: a new module's run replaces the one that teaches least, rather than being added to the
list.
