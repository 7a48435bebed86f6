------------------------------ MODULE TaskQueue ------------------------------
(****************************************************************************)
(* The leased task queue of src/tasks/queue: N competing consumers claim    *)
(* due tasks, take the deployment's advisory lock, count the attempt, judge *)
(* whether the task is still wanted, dispatch its run and settle the        *)
(* result.  Each disjunct of Next is one MongoDB write (or one read the     *)
(* consumer acts on later), so every interleaving between two writes of a   *)
(* handler is explored; the read behind a wanted verdict is made together   *)
(* with the write or the dispatch it decides.                               *)
(*                                                                          *)
(* A handler is one task being carried by one fetch cycle of one consumer   *)
(* process.  Cycles of one consumer may overlap (setInterval does not wait  *)
(* for the previous cycle), hence ConsumerOf need not be injective.         *)
(*                                                                          *)
(* Leases and delays are kept as the time that is LEFT until they lapse, so *)
(* the clock itself needs no variable and no bound: Tick counts them down.  *)
(****************************************************************************)
EXTENDS Integers, FiniteSets

CONSTANTS
  Tasks,               \* task documents that may be scheduled
  Deployments,         \* deployments they belong to
  Consumers,           \* consumer processes (hostname:pid)
  Handlers,            \* claimed-task handlers, each of one consumer
  None,                \* no consumer / no task
  DeploymentOf,        \* [Tasks -> Deployments]
  KindOf,              \* [Tasks -> {"LIST", "EXTEND", "STOP"}]
  ConsumerOf,          \* [Handlers -> Consumers]
  BatchSize,           \* tasks_batch_size
  Lease,               \* task_lease_ms, of a claim and of a lock
  Delay,               \* longest requeue / retry / renew delay
  MaxAttempts,         \* task_max_attempts
  MaxInflightRetries,  \* task_max_inflight_retries, 0 disables the cap
  MaxFaults            \* bound on crashes and failed writes

ASSUME QueueAssumption ==
  /\ DeploymentOf \in [Tasks -> Deployments]
  /\ KindOf \in [Tasks -> {"LIST", "EXTEND", "STOP"}]
  /\ ConsumerOf \in [Handlers -> Consumers]
  /\ None \notin Consumers
  /\ None \notin Tasks
  /\ Lease \in Nat \ {0}
  /\ Delay \in Nat
  /\ BatchSize \in Nat \ {0}
  /\ MaxAttempts \in Nat
  /\ MaxInflightRetries \in Nat
  /\ MaxFaults \in Nat

VARIABLES
  \* the tasks collection
  status,      \* PENDING, PROCESSING, or why there is no document
  due,         \* time left until due_at
  claimed_by,  \* consumer holding the lease
  lease,       \* time left until lease_expires_at
  attempts,
  inflight_retries,
  request,     \* tasks with a reservation_request recorded
  landing,     \* LISTs whose jobs may still land: LIST_IN_FLIGHT matches them
  \* the task_locks collection
  holder,
  ttl,         \* time left until the lock's expires_at
  \* what the tasks are judged against
  wanted,      \* tasks whose intent holds for their deployment
  removed,     \* deployments (or their vaults) deleted from the database
  errored,     \* deployments this queue flagged ERROR
  \* the consumers
  pc, at,      \* each handler's step and its task
  snapshot,    \* was the claimed task in flight when it was enriched?
  todo,        \* concurrent writes of a teardown still to do
  faults,      \* crashes and failed writes so far
  lost         \* history: dispatches of each task that ended without an answer

taskVars == <<status, due, claimed_by, lease, attempts, inflight_retries>>
runVars  == <<request, landing>>
lockVars == <<holder, ttl>>
envVars  == <<wanted, removed>>
vars == <<taskVars, runVars, lockVars, envVars, errored, pc, at, snapshot, todo, faults, lost>>

Stored    == {"PENDING", "PROCESSING"}
Deleted   == {"COMPLETED", "DROPPED", "ABANDONED"}
Dispatched == {"running", "retrying", "parking", "finishing"}
Steps     == {"idle", "claimed", "spent", "enriched", "flagging",
              "locked", "counted", "unlocking"} \cup Dispatched

Exists(t)     == status[t] \in Stored
Dep(h)        == DeploymentOf[at[h]]
HoldsLock(h)  == \/ pc[h] \in {"locked", "counted", "running", "retrying", "parking"}
                 \/ pc[h] \in {"finishing", "unlocking"} /\ "unlock" \in todo[h]
ClaimedBy(t, c) == Exists(t) /\ claimed_by[t] = c
OwnClaim(h)   == ClaimedBy(at[h], ConsumerOf[h])      \* the claimed_by fence
OwnLock(h)    == holder[Dep(h)] = ConsumerOf[h]       \* the holder fence
InFlight(c)   == {h \in Handlers : ConsumerOf[h] = c /\ pc[h] \in Dispatched}
Counted(t)    == {h \in Handlers : at[h] = t /\ pc[h] \in {"counted", "running", "retrying", "parking"}}
ListInFlight(t) == KindOf[t] = "LIST" /\ t \in landing
StillWanted(t)  == t \in wanted /\ DeploymentOf[t] \notin removed
SpentLate(t)  == attempts[t] > MaxAttempts
Spent(t)      == \/ attempts[t] >= MaxAttempts
                 \/ MaxInflightRetries > 0 /\ inflight_retries[t] >= MaxInflightRetries
Elapse(left)  == IF left > 0 THEN left - 1 ELSE 0

TypeOK ==
  /\ status \in [Tasks -> {"UNSCHEDULED"} \cup Stored \cup Deleted]
  /\ due \in [Tasks -> 0..Delay]
  /\ claimed_by \in [Tasks -> Consumers \cup {None}]
  /\ lease \in [Tasks -> 0..Lease]
  /\ attempts \in [Tasks -> Int]
  /\ inflight_retries \in [Tasks -> Nat]
  /\ request \in SUBSET Tasks
  /\ landing \in SUBSET Tasks
  /\ holder \in [Deployments -> Consumers \cup {None}]
  /\ ttl \in [Deployments -> 0..Lease]
  /\ wanted \in SUBSET Tasks
  /\ removed \in SUBSET Deployments
  /\ errored \in SUBSET Deployments
  /\ pc \in [Handlers -> Steps]
  /\ at \in [Handlers -> Tasks \cup {None}]
  /\ \A h \in Handlers : pc[h] # "idle" => at[h] \in Tasks
  /\ snapshot \in [Handlers -> BOOLEAN]
  /\ todo \in [Handlers -> SUBSET {"delete", "unlock"}]
  /\ faults \in 0..MaxFaults
  /\ lost \in [Tasks -> Int]

Init ==
  /\ status = [t \in Tasks |-> "UNSCHEDULED"]
  /\ due = [t \in Tasks |-> 0]
  /\ claimed_by = [t \in Tasks |-> None]
  /\ lease = [t \in Tasks |-> 0]
  /\ attempts = [t \in Tasks |-> 0]
  /\ inflight_retries = [t \in Tasks |-> 0]
  /\ request = {} /\ landing = {}
  /\ holder = [d \in Deployments |-> None]
  /\ ttl = [d \in Deployments |-> 0]
  /\ wanted = Tasks /\ removed = {} /\ errored = {}
  /\ pc = [h \in Handlers |-> "idle"]
  /\ at = [h \in Handlers |-> None]
  /\ snapshot = [h \in Handlers |-> FALSE]
  /\ todo = [h \in Handlers |-> {}]
  /\ faults = 0
  /\ lost = [t \in Tasks |-> 0]

-----------------------------------------------------------------------------
(* The handler's control state. *)

Goto(h, step) ==
  /\ pc' = [pc EXCEPT ![h] = step]
  /\ UNCHANGED <<at, snapshot, todo>>

LeaveTask(h) ==
  /\ pc' = [pc EXCEPT ![h] = "idle"]
  /\ at' = [at EXCEPT ![h] = None]
  /\ snapshot' = [snapshot EXCEPT ![h] = FALSE]
  /\ todo' = [todo EXCEPT ![h] = {}]

Teardown(h, step, writes) ==
  /\ pc' = [pc EXCEPT ![h] = step]
  /\ todo' = [todo EXCEPT ![h] = writes]
  /\ UNCHANGED <<at, snapshot>>

(* repositories.tasks.delete, which also gives up what host-manager holds. *)
Delete(t, why) ==
  /\ status' = [status EXCEPT ![t] = why]
  /\ claimed_by' = [claimed_by EXCEPT ![t] = None]
  /\ lease' = [lease EXCEPT ![t] = 0]
  /\ due' = [due EXCEPT ![t] = 0]
  /\ request' = request \ {t}
  /\ landing' = landing \ {t}
  /\ UNCHANGED <<attempts, inflight_retries>>

DeleteIfOwn(h, why) ==
  IF OwnClaim(h) THEN Delete(at[h], why) ELSE UNCHANGED <<taskVars, runVars>>

(* Undo the dispatch's attempts increment. *)
ResetAttempts(t) == attempts' = [attempts EXCEPT ![t] = 0]
UndoAttempt(t) == attempts' = [attempts EXCEPT ![t] = @ - 1]

(* Hand a task back: PENDING, unclaimed, due after the given delay. *)
Release(t, delay) ==
  /\ status' = [status EXCEPT ![t] = "PENDING"]
  /\ due' = [due EXCEPT ![t] = delay]
  /\ claimed_by' = [claimed_by EXCEPT ![t] = None]
  /\ lease' = [lease EXCEPT ![t] = 0]

DropLock(d) ==
  /\ holder' = [holder EXCEPT ![d] = None]
  /\ ttl' = [ttl EXCEPT ![d] = 0]

-----------------------------------------------------------------------------
(* The consumer's cycle: claim, judge the budget, enrich, lock, count. *)

ClaimableEarly(t) == due[t] = 0 /\ status[t] \in Stored /\ lease[t] <= 1
ClaimableOnce(t) == due[t] = 0 /\ status[t] = "PENDING"
Claimable(t) ==
  /\ due[t] = 0
  /\ \/ status[t] = "PENDING"
     \/ status[t] = "PROCESSING" /\ lease[t] = 0

(* claimTasks, and the cycle's first look at what it claimed: a task this    *)
(* process still has in flight is left alone, with its lease renewed.        *)
Claim(h, t) ==
  LET c == ConsumerOf[h] IN
  /\ pc[h] = "idle"
  /\ Cardinality(InFlight(c)) < BatchSize
  /\ Claimable(t)
  /\ status' = [status EXCEPT ![t] = "PROCESSING"]
  /\ claimed_by' = [claimed_by EXCEPT ![t] = c]
  /\ lease' = [lease EXCEPT ![t] = Lease]
  /\ IF \E g \in InFlight(c) : at[g] = t
       THEN UNCHANGED <<pc, at>>
       ELSE /\ pc' = [pc EXCEPT ![h] = IF Spent(t) THEN "spent" ELSE "claimed"]
            /\ at' = [at EXCEPT ![h] = t]
  /\ UNCHANGED <<due, attempts, inflight_retries, runVars, lockVars, envVars,
                 errored, snapshot, todo, faults, lost>>

(* A spent task that is not wanted (in flight or not) is dropped.            *)
DropSpent(h) ==
  /\ pc[h] = "spent"
  /\ ~StillWanted(at[h])
  /\ DeleteIfOwn(h, "DROPPED")
  /\ LeaveTask(h)
  /\ UNCHANGED <<lockVars, envVars, errored, faults, lost>>

(* abandonOverCap / abandonInflightExhausted: an UNFENCED delete, then the   *)
(* deployment is flagged ERROR.                                              *)
Abandon(h) ==
  /\ pc[h] = "spent"
  /\ StillWanted(at[h])
  /\ IF Exists(at[h]) THEN Delete(at[h], "ABANDONED") ELSE UNCHANGED <<taskVars, runVars>>
  /\ Goto(h, "flagging")
  /\ UNCHANGED <<lockVars, envVars, errored, faults, lost>>

FlagError(h) ==
  /\ pc[h] = "flagging"
  /\ errored' = IF Dep(h) \in removed THEN errored ELSE errored \cup {Dep(h)}
  /\ LeaveTask(h)
  /\ UNCHANGED <<taskVars, runVars, lockVars, envVars, faults, lost>>

(* enrichClaimedTasks re-reads the task; one without a deployment or vault   *)
(* (or deleted since) is left out and dropped as an orphan.                  *)
Enrich(h) ==
  /\ pc[h] = "claimed"
  /\ IF Exists(at[h]) /\ Dep(h) \notin removed
       THEN /\ snapshot' = [snapshot EXCEPT ![h] = ListInFlight(at[h])]
            /\ pc' = [pc EXCEPT ![h] = "enriched"]
            /\ UNCHANGED <<at, todo, taskVars, runVars>>
       ELSE /\ DeleteIfOwn(h, "DROPPED")
            /\ LeaveTask(h)
  /\ UNCHANGED <<lockVars, envVars, errored, faults, lost>>

(* The lock can be taken when it is absent or its lease has passed. *)
LockFreeEarly(h) == ttl[Dep(h)] <= 1
LockReentrant(h) == ttl[Dep(h)] = 0 \/ OwnLock(h)
LockFree(h) == ttl[Dep(h)] = 0

(* acquireDeploymentLock, and releaseTaskToPending when it is held: the      *)
(* latter is not fenced on the claim.                                        *)
AcquireLock(h) ==
  /\ pc[h] = "enriched"
  /\ IF LockFree(h)
       THEN /\ holder' = [holder EXCEPT ![Dep(h)] = ConsumerOf[h]]
            /\ ttl' = [ttl EXCEPT ![Dep(h)] = Lease]
            /\ Goto(h, "locked")
            /\ UNCHANGED taskVars
       ELSE /\ IF Exists(at[h]) THEN Release(at[h], Delay)
                                ELSE UNCHANGED <<status, due, claimed_by, lease>>
            /\ LeaveTask(h)
            /\ UNCHANGED <<attempts, inflight_retries, lockVars>>
  /\ UNCHANGED <<runVars, envVars, errored, faults, lost>>

(* incrementAttempt, fenced on the claim. *)
CountAttempt(h) ==
  /\ pc[h] = "locked"
  /\ IF OwnClaim(h)
       THEN /\ attempts' = [attempts EXCEPT ![at[h]] = @ + 1]
            /\ Goto(h, "counted")
       ELSE /\ UNCHANGED attempts
            /\ Teardown(h, "unlocking", {"unlock"})
  /\ UNCHANGED <<status, due, claimed_by, lease, inflight_retries, runVars,
                 lockVars, envVars, errored, faults, lost>>

(* The verdict under the lock: drop, or dispatch. *)
UnwantedAnyway(h) == ~StillWanted(at[h])
Unwanted(h) == ~snapshot[h] /\ ~StillWanted(at[h])

DropUnwanted(h) ==
  /\ pc[h] = "counted" /\ Unwanted(h)
  /\ DeleteIfOwn(h, "DROPPED")
  /\ Teardown(h, "unlocking", {"unlock"})
  /\ UNCHANGED <<lockVars, envVars, errored, faults, lost>>

Dispatch(h) ==
  /\ pc[h] = "counted" /\ ~Unwanted(h)
  /\ Goto(h, "running")
  /\ UNCHANGED <<taskVars, runVars, lockVars, envVars, errored, faults, lost>>

-----------------------------------------------------------------------------
(* The run, as far as the queue sees it. *)

(* A LIST run persists signed bytes or assign_posted_at before it sends ...  *)
RunSigns(h) ==
  /\ pc[h] = "running" /\ KindOf[at[h]] = "LIST" /\ Exists(at[h])
  /\ landing' = landing \cup {at[h]}
  /\ UNCHANGED <<taskVars, request, lockVars, envVars, errored, pc, at, snapshot, todo, faults, lost>>

(* ... and clears them once it knows what became of the transactions.        *)
RunSettles(h) ==
  /\ pc[h] = "running" /\ at[h] \in landing
  /\ landing' = landing \ {at[h]}
  /\ UNCHANGED <<taskVars, request, lockVars, envVars, errored, pc, at, snapshot, todo, faults, lost>>

(* A LIST run records its reservation request before it sends it.            *)
RunRequests(h) ==
  /\ pc[h] = "running" /\ KindOf[at[h]] = "LIST" /\ Exists(at[h])
  /\ request' = request \cup {at[h]}
  /\ UNCHANGED <<taskVars, landing, lockVars, envVars, errored, pc, at, snapshot, todo, faults, lost>>

(* A full STOP sweeps its deployment's other tasks, sparing LISTs in flight. *)
SweepsInFlight(d) == {t \in Tasks : Exists(t) /\ DeploymentOf[t] = d /\ KindOf[t] # "STOP"}
Sweepable(d) == {t \in Tasks : /\ Exists(t) /\ DeploymentOf[t] = d
                               /\ KindOf[t] # "STOP" /\ ~ListInFlight(t)}

RunSweeps(h) ==
  /\ pc[h] = "running" /\ KindOf[at[h]] = "STOP"
  /\ LET S == Sweepable(Dep(h)) IN
     /\ S # {}
     /\ status' = [t \in Tasks |-> IF t \in S THEN "DROPPED" ELSE status[t]]
     /\ claimed_by' = [t \in Tasks |-> IF t \in S THEN None ELSE claimed_by[t]]
     /\ lease' = [t \in Tasks |-> IF t \in S THEN 0 ELSE lease[t]]
     /\ due' = [t \in Tasks |-> IF t \in S THEN 0 ELSE due[t]]
     /\ request' = request \ S
  /\ UNCHANGED <<attempts, inflight_retries, landing, lockVars, envVars, errored,
                 pc, at, snapshot, todo, faults, lost>>

(* runTask resolves.  ABORTED (the lease timer, a consumer's stop) and a     *)
(* throw leave the document alone; PARKED comes of a LIST that sent a        *)
(* reservation request.                                                      *)
RunEnds(h) ==
  /\ pc[h] = "running"
  /\ \/ Teardown(h, "finishing", {"unlock"}) /\ lost' = [lost EXCEPT ![at[h]] = @ + 1] \* ABORTED, throw
     \/ /\ UNCHANGED lost
        /\ \/ Teardown(h, "finishing", {"delete", "unlock"})  \* COMPLETED, FAILED
           \/ Teardown(h, "retrying", {"unlock"})             \* RETRY
           \/ KindOf[at[h]] = "LIST" /\ Teardown(h, "parking", {"unlock"})
  /\ UNCHANGED <<taskVars, runVars, lockVars, envVars, errored, faults>>

(* rescheduleInflight: undo the attempt, count an in-flight retry.           *)
Reschedule(h) ==
  /\ pc[h] = "retrying"
  /\ IF OwnClaim(h)
       THEN /\ Release(at[h], Delay)
            /\ UndoAttempt(at[h])
            /\ inflight_retries' = [inflight_retries EXCEPT ![at[h]] = @ + 1]
       ELSE UNCHANGED taskVars
  /\ Goto(h, "finishing")
  /\ UNCHANGED <<runVars, lockVars, envVars, errored, faults, lost>>

(* parkTask: due at the renewal while the request is pending, and at once    *)
(* when the webhook filled it mid-run.                                       *)
Park(h) ==
  /\ pc[h] = "parking"
  /\ IF OwnClaim(h)
       THEN /\ Release(at[h], IF at[h] \in request THEN Delay ELSE 0)
            /\ UndoAttempt(at[h])
       ELSE UNCHANGED <<status, due, claimed_by, lease, attempts>>
  /\ Goto(h, "finishing")
  /\ UNCHANGED <<inflight_retries, runVars, lockVars, envVars, errored, faults, lost>>

(* The teardown's two concurrent writes, both fenced on the consumer.        *)
AfterWrite(h, w) ==
  IF todo[h] = {w} THEN LeaveTask(h)
  ELSE /\ todo' = [todo EXCEPT ![h] = @ \ {w}]
       /\ UNCHANGED <<pc, at, snapshot>>

FinishDelete(h) ==
  /\ pc[h] = "finishing" /\ "delete" \in todo[h]
  /\ DeleteIfOwn(h, "COMPLETED")
  /\ AfterWrite(h, "delete")
  /\ UNCHANGED <<lockVars, envVars, errored, faults, lost>>

Unlock(h) ==
  /\ pc[h] \in {"finishing", "unlocking"} /\ "unlock" \in todo[h]
  /\ IF OwnLock(h) THEN DropLock(Dep(h)) ELSE UNCHANGED lockVars
  /\ AfterWrite(h, "unlock")
  /\ UNCHANGED <<taskVars, runVars, envVars, errored, faults, lost>>

-----------------------------------------------------------------------------
(* Faults: a process dies, a database call throws. *)

(* A crash forgets the process's handlers; documents and locks stay.         *)
Crash(c) ==
  /\ faults < MaxFaults
  /\ \E h \in Handlers : ConsumerOf[h] = c /\ pc[h] # "idle"
  /\ faults' = faults + 1
  /\ pc' = [h \in Handlers |-> IF ConsumerOf[h] = c THEN "idle" ELSE pc[h]]
  /\ at' = [h \in Handlers |-> IF ConsumerOf[h] = c THEN None ELSE at[h]]
  /\ snapshot' = [h \in Handlers |-> IF ConsumerOf[h] = c THEN FALSE ELSE snapshot[h]]
  /\ todo' = [h \in Handlers |-> IF ConsumerOf[h] = c THEN {} ELSE todo[h]]
  /\ lost' = [t \in Tasks |-> IF \E h \in Counted(t) : ConsumerOf[h] = c
                               THEN lost[t] + 1 ELSE lost[t]]
  /\ UNCHANGED <<taskVars, runVars, lockVars, envVars, errored>>

(* A throw before dispatch ends the cycle: the claim (and a lock taken)      *)
(* waits out its lease.  A failed ERROR flag is only logged.                 *)
CycleFails(h) ==
  /\ faults < MaxFaults
  /\ pc[h] \in {"claimed", "spent", "flagging", "enriched", "locked", "counted", "unlocking"}
  /\ faults' = faults + 1
  /\ LeaveTask(h)
  /\ UNCHANGED <<taskVars, runVars, lockVars, envVars, errored, lost>>

(* A failed reschedule or park falls through to the plain teardown; a failed *)
(* delete or unlock is swallowed.                                            *)
SettleFails(h) ==
  /\ faults < MaxFaults
  /\ faults' = faults + 1
  /\ \/ pc[h] \in {"retrying", "parking"} /\ Goto(h, "finishing")
     \/ pc[h] = "finishing" /\ \E w \in todo[h] : AfterWrite(h, w)
  /\ UNCHANGED <<taskVars, runVars, lockVars, envVars, errored, lost>>

-----------------------------------------------------------------------------
(* The rest of the system, as the queue meets it. *)

Schedule(t) ==
  /\ status[t] = "UNSCHEDULED"
  /\ DeploymentOf[t] \notin removed
  /\ status' = [status EXCEPT ![t] = "PENDING"]
  /\ due' \in {[due EXCEPT ![t] = d] : d \in {0, Delay}}
  /\ UNCHANGED <<claimed_by, lease, attempts, inflight_retries, runVars, lockVars,
                 envVars, errored, pc, at, snapshot, todo, faults, lost>>

(* A stop, a swap or a restart makes a LIST or an EXTEND unwanted; switching *)
(* back to its revision makes it wanted again.                               *)
ChangeIntent(t) ==
  /\ Exists(t) /\ KindOf[t] # "STOP"
  /\ wanted' = IF t \in wanted THEN wanted \ {t} ELSE wanted \cup {t}
  /\ UNCHANGED <<taskVars, runVars, lockVars, removed, errored, pc, at, snapshot, todo, faults, lost>>

(* The delete route removes a deployment and leaves its tasks.               *)
RemoveDeployment(d) ==
  /\ d \notin removed
  /\ removed' = removed \cup {d}
  /\ UNCHANGED <<taskVars, runVars, lockVars, wanted, errored, pc, at, snapshot, todo, faults, lost>>

(* The webhook: the request is filled, the task due at once.                 *)
Fulfil(t) ==
  /\ Exists(t) /\ t \in request
  /\ request' = request \ {t}
  /\ due' = [due EXCEPT ![t] = 0]
  /\ UNCHANGED <<status, claimed_by, lease, attempts, inflight_retries, landing,
                 lockVars, envVars, errored, pc, at, snapshot, todo, faults, lost>>

Countdown ==
  /\ due' = [t \in Tasks |-> Elapse(due[t])]
  /\ lease' = [t \in Tasks |-> Elapse(lease[t])]
  /\ ttl' = [d \in Deployments |-> Elapse(ttl[d])]
  /\ UNCHANGED <<status, claimed_by, attempts, inflight_retries, runVars, holder,
                 envVars, errored, pc, at, snapshot, todo, faults, lost>>

Ticking == \/ \E t \in Tasks : due[t] > 0 \/ lease[t] > 0
           \/ \E d \in Deployments : ttl[d] > 0

Tick == Ticking /\ Countdown

-----------------------------------------------------------------------------
(* What a handler does of itself once it has a task, faults aside. *)
Carry(h) ==
  \/ DropSpent(h) \/ Abandon(h) \/ FlagError(h)
  \/ Enrich(h) \/ AcquireLock(h) \/ CountAttempt(h) \/ DropUnwanted(h) \/ Dispatch(h)
  \/ RunEnds(h) \/ Reschedule(h) \/ Park(h) \/ FinishDelete(h) \/ Unlock(h)

Handle(h) ==
  \/ \E t \in Tasks : Claim(h, t)
  \/ Carry(h)
  \/ RunSigns(h) \/ RunSettles(h) \/ RunRequests(h) \/ RunSweeps(h)
  \/ CycleFails(h) \/ SettleFails(h)

Environment ==
  \/ \E t \in Tasks : Schedule(t) \/ ChangeIntent(t) \/ Fulfil(t)
  \/ \E d \in Deployments : RemoveDeployment(d)
  \/ \E c \in Consumers : Crash(c)

Untimed == (\E h \in Handlers : Handle(h)) \/ Environment
Next == Untimed \/ Tick
Spec == Init /\ [][Next]_vars

(* TimelySpec: no handler outlives the lease of the deployment lock it took. *)
LockTimely == \A h \in Handlers : HoldsLock(h) => ttl[Dep(h)] > 1
TimelyTick == Tick /\ LockTimely
TimelySpec == Init /\ [][Untimed \/ TimelyTick]_vars

(* NominalSpec: nor does one outlive the lease of its claim.                 *)
ClaimTimely == \A h \in Handlers : pc[h] # "idle" /\ OwnClaim(h) => lease[at[h]] > 1
NominalTick == TimelyTick /\ ClaimTimely
NominalSpec == Init /\ [][Untimed \/ NominalTick]_vars

(* The event loop keeps running what it started, time passes, and the        *)
(* due_at-sorted fetch, every second, does not pass a due task over forever. *)
Fairness ==
  /\ \A h \in Handlers : WF_vars(Carry(h))
  /\ \A t \in Tasks : SF_vars(\E h \in Handlers : Claim(h, t))
  /\ WF_vars(NominalTick)
FairSpec == NominalSpec /\ Fairness

-----------------------------------------------------------------------------
(* Properties. *)

(* The advisory lock serialises a deployment's tasks: of two handlers of one *)
(* deployment only one is between taking the lock and giving it up, in which *)
(* it counts, judges and runs its task (acquireDeploymentLock).              *)
MutualExclusion ==
  \A g, h \in Handlers : g # h /\ HoldsLock(g) /\ HoldsLock(h) => Dep(g) # Dep(h)

(* Crash-loop accounting never undercounts: every dispatch that is still     *)
(* going, and every one that ended without an answer (crash, abort, throw),  *)
(* is in `attempts`, however often the task was claimed, retried or parked   *)
(* in between: task_max_attempts bounds a crash loop.                        *)
AttemptsCoverDispatches ==
  \A t \in Tasks : Exists(t) => attempts[t] >= lost[t] + Cardinality(Counted(t))

(* A task is carried by one handler at a time, and that one holds its claim  *)
(* unless the document was deleted under it.                                 *)
Carrying(h) == \/ pc[h] \in {"claimed", "spent", "enriched", "locked", "counted",
                             "running", "retrying", "parking"}
               \/ pc[h] = "finishing" /\ "delete" \in todo[h]
SoleCarrier ==
  \A h \in Handlers : Carrying(h) /\ Exists(at[h]) =>
    /\ OwnClaim(h)
    /\ \A g \in Handlers \ {h} : Carrying(g) => at[g] # at[h]

(* No task is dispatched beyond task_max_attempts.                           *)
AttemptsWithinCap == \A t \in Tasks : attempts[t] <= MaxAttempts

(* A LIST whose jobs may still land leaves the queue only by completing, by  *)
(* being found spent when it is claimed again, or with its deployment: over  *)
(* reclaims and retries, no sweep and no verdict under the lock drops it     *)
(* (isListInFlight, LIST_IN_FLIGHT).                                         *)
FoundSpent(t) == \E h \in Handlers : pc[h] = "spent" /\ at[h] = t
InFlightListKept ==
  [][\A t \in Tasks :
       ListInFlight(t) /\ Exists(t) /\ status'[t] \in Deleted
         => \/ status'[t] = "COMPLETED"
            \/ FoundSpent(t)
            \/ DeploymentOf[t] \in removed]_vars

(* "concurrent consumers can never claim the same task" while the lease of   *)
(* one that is running it has not passed (claim.ts).                         *)
LiveClaimNotTaken ==
  [][\A h \in Handlers :
       (pc[h] = "running" /\ OwnClaim(h) /\ lease[at[h]] > 0
         /\ pc'[h] = "running" /\ Exists(at[h])')
       => claimed_by'[at[h]] = ConsumerOf[h]]_vars

(* Every queued task leaves the queue, unless a LIST of its deployment keeps *)
(* parking for capacity: crashes, lost writes, retries and contention for    *)
(* the lock only delay it.                                                   *)
EveryTaskSettles ==
  \A t \in Tasks :
    \/ []<>~Exists(t)
    \/ []<>(\E h \in Handlers : pc[h] = "parking" /\ Dep(h) = DeploymentOf[t])

-----------------------------------------------------------------------------
(* What the queue promises the rest of the system: see SerialQueue.          *)
Finishing == {h \in Handlers : pc[h] = "finishing" /\ "delete" \in todo[h]}
Busy == {h \in Handlers : pc[h] \in {"running", "retrying", "parking"}}
Serial == INSTANCE SerialQueue WITH
            fate   <- [t \in Tasks |-> IF Exists(t) THEN "QUEUED" ELSE status[t]],
            active <- {at[h] : h \in Busy},
            done   <- {at[h] : h \in Finishing}
SerialSpec == Serial!Spec
=============================================================================
