-------------------------- MODULE TaskQueue_proofs --------------------------
(****************************************************************************)
(* Theorems about TaskQueue, for any number of tasks, deployments,          *)
(* consumers and handlers, any lease and any cap.                           *)
(****************************************************************************)
EXTENDS TaskQueue, FiniteSetTheorems, TLAPS

(* What is assumed of the constants. *)
USE QueueAssumption DEF QueueAssumption

(****************************************************************************)
(* Typing.  The model's variables keep their types in every step.           *)
(****************************************************************************)
(* The empty queue is well typed.                                          *)
LEMMA InitTyped == Init => TypeOK
BY DEF Init, TypeOK, Stored, Deleted, Steps, Dispatched

(* A handler that leaves its task keeps the handlers' types.                *)
LEMMA LeaveTaskTyped ==
  ASSUME TypeOK, NEW h \in Handlers, LeaveTask(h)
  PROVE  /\ pc' \in [Handlers -> Steps]
         /\ at' \in [Handlers -> Tasks \cup {None}]
         /\ \A g \in Handlers : pc'[g] # "idle" => at'[g] \in Tasks
         /\ snapshot' \in [Handlers -> BOOLEAN]
         /\ todo' \in [Handlers -> SUBSET {"delete", "unlock"}]
BY DEF TypeOK, LeaveTask, Steps, Dispatched

(* Deleting a task's document keeps the collection's types.                 *)
LEMMA DeleteTyped ==
  ASSUME TypeOK, NEW t \in Tasks, NEW why \in Deleted, Delete(t, why)
  PROVE  /\ status' \in [Tasks -> {"UNSCHEDULED"} \cup Stored \cup Deleted]
         /\ due' \in [Tasks -> 0..Delay]
         /\ claimed_by' \in [Tasks -> Consumers \cup {None}]
         /\ lease' \in [Tasks -> 0..Lease]
         /\ attempts' \in [Tasks -> Int]
         /\ inflight_retries' \in [Tasks -> Nat]
         /\ request' \in SUBSET Tasks
         /\ landing' \in SUBSET Tasks
BY DEF TypeOK, Delete

(* Every step of the queue, its faults and its environment keeps the types. *)
LEMMA StepTyped == TypeOK /\ [Next]_vars => TypeOK'
<1> SUFFICES ASSUME TypeOK, [Next]_vars PROVE TypeOK'
  OBVIOUS
<1> USE DEF taskVars, runVars, lockVars, envVars
<1>1. ASSUME NEW h \in Handlers, NEW t \in Tasks, Claim(h, t) PROVE TypeOK'
  BY <1>1 DEF TypeOK, Claim, Stored, Steps
<1>2. ASSUME NEW h \in Handlers, DropSpent(h) PROVE TypeOK'
  BY <1>2, DeleteTyped, LeaveTaskTyped DEF TypeOK, DropSpent, DeleteIfOwn, Stored, Deleted, Steps, Dispatched
<1>3. ASSUME NEW h \in Handlers, Abandon(h) PROVE TypeOK'
  BY <1>3, DeleteTyped DEF TypeOK, Abandon, Stored, Deleted, Steps, Dispatched, Goto
<1>4. ASSUME NEW h \in Handlers, FlagError(h) PROVE TypeOK'
  BY <1>4, LeaveTaskTyped DEF TypeOK, FlagError, Dep, Stored, Deleted, Steps, Dispatched
<1>5. ASSUME NEW h \in Handlers, Enrich(h) PROVE TypeOK'
  <2>1. CASE Exists(at[h]) /\ Dep(h) \notin removed
    BY <1>5, <2>1 DEF TypeOK, Enrich, ListInFlight, Steps, Dispatched
  <2>2. CASE ~(Exists(at[h]) /\ Dep(h) \notin removed)
    BY <1>5, <2>2, DeleteTyped, LeaveTaskTyped DEF TypeOK, Enrich, DeleteIfOwn, Deleted
  <2> QED
    BY <2>1, <2>2
<1>6. ASSUME NEW h \in Handlers, AcquireLock(h) PROVE TypeOK'
  <2>1. CASE LockFree(h)
    BY <1>6, <2>1 DEF TypeOK, AcquireLock, Dep, Goto, Steps
  <2>2. CASE ~LockFree(h)
    BY <1>6, <2>2, LeaveTaskTyped DEF TypeOK, AcquireLock, Release, Stored
  <2> QED
    BY <2>1, <2>2
<1>7. ASSUME NEW h \in Handlers, CountAttempt(h) PROVE TypeOK'
  BY <1>7 DEF TypeOK, CountAttempt, Goto, Teardown, Stored, Deleted, Steps, Dispatched
<1>8. ASSUME NEW h \in Handlers, DropUnwanted(h) PROVE TypeOK'
  BY <1>8, DeleteTyped DEF TypeOK, DropUnwanted, DeleteIfOwn, Teardown, Stored, Deleted, Steps, Dispatched
<1>9. ASSUME NEW h \in Handlers, Dispatch(h) PROVE TypeOK'
  BY <1>9 DEF TypeOK, Dispatch, Goto, Stored, Deleted, Steps, Dispatched
<1>10. ASSUME NEW h \in Handlers, RunEnds(h) PROVE TypeOK'
  BY <1>10 DEF TypeOK, RunEnds, Teardown, Stored, Deleted, Steps, Dispatched
<1>11. ASSUME NEW h \in Handlers, Reschedule(h) PROVE TypeOK'
  BY <1>11 DEF TypeOK, Reschedule, Release, Goto, UndoAttempt, Stored, Deleted, Steps, Dispatched
<1>12. ASSUME NEW h \in Handlers, Park(h) PROVE TypeOK'
  BY <1>12 DEF TypeOK, Park, Release, Goto, UndoAttempt, Stored, Deleted, Steps, Dispatched
<1>13. ASSUME NEW h \in Handlers, FinishDelete(h) PROVE TypeOK'
  BY <1>13, DeleteTyped, LeaveTaskTyped DEF TypeOK, FinishDelete, DeleteIfOwn, AfterWrite, Stored, Deleted, Steps, Dispatched
<1>14. ASSUME NEW h \in Handlers, Unlock(h) PROVE TypeOK'
  BY <1>14, LeaveTaskTyped DEF TypeOK, Unlock, Dep, AfterWrite, DropLock, Stored, Deleted, Steps, Dispatched
<1>15. ASSUME NEW h \in Handlers, RunSigns(h) PROVE TypeOK'
  BY <1>15 DEF TypeOK, RunSigns, Stored, Deleted, Steps, Dispatched
<1>16. ASSUME NEW h \in Handlers, RunSettles(h) PROVE TypeOK'
  BY <1>16 DEF TypeOK, RunSettles, Stored, Deleted, Steps, Dispatched
<1>17. ASSUME NEW h \in Handlers, RunRequests(h) PROVE TypeOK'
  BY <1>17 DEF TypeOK, RunRequests, Stored, Deleted, Steps, Dispatched
<1>18. ASSUME NEW h \in Handlers, RunSweeps(h) PROVE TypeOK'
  BY <1>18 DEF TypeOK, RunSweeps, Stored, Deleted, Steps, Dispatched
<1>19. ASSUME NEW h \in Handlers, CycleFails(h) PROVE TypeOK'
  BY <1>19, LeaveTaskTyped DEF TypeOK, CycleFails, Stored, Deleted, Steps, Dispatched
<1>20. ASSUME NEW h \in Handlers, SettleFails(h) PROVE TypeOK'
  BY <1>20, LeaveTaskTyped DEF TypeOK, SettleFails, Goto, AfterWrite, Stored, Deleted, Steps, Dispatched
<1>21. ASSUME NEW t \in Tasks, Schedule(t) PROVE TypeOK'
  BY <1>21 DEF TypeOK, Schedule, Stored, Steps
<1>22. ASSUME NEW t \in Tasks, ChangeIntent(t) PROVE TypeOK'
  BY <1>22 DEF TypeOK, ChangeIntent, Stored, Steps
<1>23. ASSUME NEW t \in Tasks, Fulfil(t) PROVE TypeOK'
  BY <1>23 DEF TypeOK, Fulfil, Stored, Steps
<1>24. ASSUME NEW d \in Deployments, RemoveDeployment(d) PROVE TypeOK'
  BY <1>24 DEF TypeOK, RemoveDeployment, Stored, Steps
<1>25. ASSUME NEW c \in Consumers, Crash(c) PROVE TypeOK'
  <2>i. "idle" \in Steps
    BY DEF Steps
  <2>0. pc' \in [Handlers -> Steps]
    BY <1>25, <2>i DEF TypeOK, Crash
  <2>1. /\ at' \in [Handlers -> Tasks \cup {None}]
        /\ \A g \in Handlers : pc'[g] # "idle" => at'[g] \in Tasks
    <3>1. at' \in [Handlers -> Tasks \cup {None}]
      BY <1>25 DEF TypeOK, Crash
    <3>2. ASSUME NEW g \in Handlers, pc'[g] # "idle"
          PROVE  pc'[g] = pc[g] /\ at'[g] = at[g]
      BY <1>25, <3>2 DEF TypeOK, Crash
    <3> QED
      BY <3>1, <3>2 DEF TypeOK
  <2>2. snapshot' \in [Handlers -> BOOLEAN]
    <3>1. \A g \in Handlers : (IF ConsumerOf[g] = c THEN FALSE ELSE snapshot[g]) \in BOOLEAN
      BY Zenon DEF TypeOK
    <3> QED
      BY <1>25, <3>1, Zenon DEF Crash
  <2>3. /\ todo' \in [Handlers -> SUBSET {"delete", "unlock"}]
        /\ faults' \in 0..MaxFaults
    BY <1>25 DEF TypeOK, Crash
  <2>4. lost' \in [Tasks -> Int]
    <3>1. \A t \in Tasks : (IF \E h \in Counted(t) : ConsumerOf[h] = c
                             THEN lost[t] + 1 ELSE lost[t]) \in Int
      BY DEF TypeOK
    <3> QED
      BY <1>25, <3>1, Zenon DEF Crash
  <2> QED
    BY <1>25, <2>0, <2>1, <2>2, <2>3, <2>4 DEF TypeOK, Crash
<1>26. CASE Tick
  BY <1>26 DEF TypeOK, Tick, Countdown, Elapse
<1>27. CASE UNCHANGED vars
  BY <1>27 DEF TypeOK, vars
<1> QED
  BY <1>1, <1>2, <1>3, <1>4, <1>5, <1>6, <1>7, <1>8, <1>9, <1>10, <1>11, <1>12, <1>13, <1>14, <1>15, <1>16, <1>17, <1>18, <1>19, <1>20, <1>21, <1>22, <1>23, <1>24, <1>25, <1>26, <1>27 DEF Next, Untimed, Handle, Carry, Environment

(* Typing: whatever is scheduled, lost or interleaved, the documents, locks  *)
(* and handlers stay well formed.                                            *)
THEOREM Typing == Spec => []TypeOK
<1>1. Init => TypeOK
  BY InitTyped
<1>2. TypeOK /\ [Next]_vars => TypeOK'
  BY StepTyped
<1> QED
  BY <1>1, <1>2, PTL DEF Spec

(****************************************************************************)
(* Mutual exclusion under TimelySpec.  It is not inductive alone: that no   *)
(* second handler can take the lock follows from the first still owning a   *)
(* lock document whose lease has not passed.                                *)
(****************************************************************************)
LockOwned == \A h \in Handlers : HoldsLock(h) => OwnLock(h) /\ ttl[Dep(h)] > 0

LockInv == TypeOK /\ LockOwned /\ MutualExclusion

(* A step that leaves the locks alone and lets no handler into its section   *)
(* keeps the invariant.                                                      *)
LEMMA NoEntryKeeps ==
  ASSUME LockInv, TypeOK', UNCHANGED lockVars,
         \A g \in Handlers : HoldsLock(g)' => HoldsLock(g) /\ at'[g] = at[g]
  PROVE  LockInv'
BY DEF LockInv, LockOwned, MutualExclusion, OwnLock, Dep, lockVars

(* Taking the lock: nobody else is inside it, or its lease would be running.*)
LEMMA AcquireKeeps ==
  ASSUME LockInv, TypeOK', NEW h \in Handlers, AcquireLock(h)
  PROVE  LockInv'
<1>1. CASE LockFree(h)
  <2>1. /\ holder' = [holder EXCEPT ![Dep(h)] = ConsumerOf[h]]
        /\ ttl' = [ttl EXCEPT ![Dep(h)] = Lease]
        /\ pc' = [pc EXCEPT ![h] = "locked"]
        /\ UNCHANGED <<at, todo>>
    BY <1>1 DEF AcquireLock, Goto
  <2>2. at[h] \in Tasks /\ Dep(h) \in Deployments
    BY DEF LockInv, TypeOK, AcquireLock, Dep
  <2>3. \A g \in Handlers : HoldsLock(g) => Dep(g) # Dep(h)
    BY <1>1 DEF LockInv, LockOwned, LockFree
  <2>4. \A g \in Handlers \ {h} : HoldsLock(g)' => HoldsLock(g) /\ Dep(g)' = Dep(g)
    BY <2>1 DEF LockInv, TypeOK, HoldsLock, Dep
  <2>5. \A g \in Handlers : HoldsLock(g) => Dep(g) \in Deployments
    BY DEF LockInv, TypeOK, HoldsLock, Dep
  <2>6. LockOwned'
    BY <2>1, <2>2, <2>3, <2>4, <2>5 DEF LockInv, LockOwned, OwnLock, TypeOK, Dep
  <2>7. MutualExclusion'
    BY <2>1, <2>3, <2>4 DEF LockInv, MutualExclusion, Dep
  <2> QED
    BY <2>6, <2>7 DEF LockInv
<1>2. CASE ~LockFree(h)
  <2>1. UNCHANGED lockVars /\ LeaveTask(h)
    BY <1>2 DEF AcquireLock, lockVars
  <2>2. \A g \in Handlers : HoldsLock(g)' => HoldsLock(g) /\ at'[g] = at[g]
    BY <2>1 DEF LeaveTask, HoldsLock, LockInv, TypeOK
  <2> QED
    BY <2>1, <2>2, NoEntryKeeps
<1> QED
  BY <1>1, <1>2

(* Giving it up: the document deleted is the handler's own.                 *)
LEMMA UnlockKeeps ==
  ASSUME LockInv, TypeOK', NEW h \in Handlers, Unlock(h)
  PROVE  LockInv'
<1>1. /\ HoldsLock(h) /\ OwnLock(h) /\ ~HoldsLock(h)'
      /\ holder' = [holder EXCEPT ![Dep(h)] = None]
      /\ ttl' = [ttl EXCEPT ![Dep(h)] = 0]
  BY DEF LockInv, TypeOK, LockOwned, Unlock, HoldsLock, AfterWrite, LeaveTask, DropLock
<1>2. \A g \in Handlers \ {h} :
        HoldsLock(g)' => HoldsLock(g) /\ Dep(g)' = Dep(g) /\ Dep(g) # Dep(h)
  BY <1>1 DEF LockInv, TypeOK, MutualExclusion, Unlock, AfterWrite, LeaveTask, HoldsLock, Dep
<1>3. LockOwned'
  BY <1>1, <1>2 DEF LockInv, LockOwned, OwnLock, TypeOK
<1>4. MutualExclusion'
  BY <1>1, <1>2 DEF LockInv, MutualExclusion
<1> QED
  BY <1>3, <1>4 DEF LockInv

(* Time never lapses the lease of a lock that is held in time.              *)
LEMMA TimelyTickKeeps ==
  ASSUME LockInv, TypeOK', TimelyTick
  PROVE  LockInv'
<1>1. \A g \in Handlers : /\ HoldsLock(g)' <=> HoldsLock(g)
                          /\ Dep(g)' = Dep(g)
                          /\ OwnLock(g)' <=> OwnLock(g)
  BY DEF TimelyTick, Tick, Countdown, HoldsLock, Dep, OwnLock
<1>2. \A g \in Handlers : HoldsLock(g) => ttl'[Dep(g)] > 0
  BY DEF TimelyTick, Tick, Countdown, LockTimely, Elapse, LockInv, TypeOK, HoldsLock, Dep
<1> QED
  BY <1>1, <1>2 DEF LockInv, LockOwned, MutualExclusion

(* Every step of a timely queue keeps the invariant.                        *)
LEMMA LockInvStep == LockInv /\ [Untimed \/ TimelyTick]_vars => LockInv'
<1> SUFFICES ASSUME LockInv, [Untimed \/ TimelyTick]_vars PROVE LockInv'
  OBVIOUS
<1>typed. TypeOK /\ TypeOK'
  BY StepTyped DEF LockInv, Next, TimelyTick
<1> USE <1>typed
<1>1. ASSUME NEW h \in Handlers, NEW t \in Tasks, Claim(h, t) PROVE LockInv'
  BY <1>1, NoEntryKeeps DEF Claim, HoldsLock, TypeOK, lockVars
<1>2. ASSUME NEW h \in Handlers, DropSpent(h) PROVE LockInv'
  BY <1>2, NoEntryKeeps DEF DropSpent, LeaveTask, HoldsLock, TypeOK, lockVars
<1>3. ASSUME NEW h \in Handlers, Abandon(h) PROVE LockInv'
  BY <1>3, NoEntryKeeps DEF Abandon, Goto, HoldsLock, TypeOK, lockVars
<1>4. ASSUME NEW h \in Handlers, FlagError(h) PROVE LockInv'
  BY <1>4, NoEntryKeeps DEF FlagError, LeaveTask, HoldsLock, TypeOK, lockVars
<1>5. ASSUME NEW h \in Handlers, Enrich(h) PROVE LockInv'
  BY <1>5, NoEntryKeeps DEF Enrich, LeaveTask, HoldsLock, TypeOK, lockVars
<1>6. ASSUME NEW h \in Handlers, CountAttempt(h) PROVE LockInv'
  BY <1>6, NoEntryKeeps DEF CountAttempt, Goto, Teardown, HoldsLock, TypeOK, lockVars
<1>7. ASSUME NEW h \in Handlers, DropUnwanted(h) PROVE LockInv'
  BY <1>7, NoEntryKeeps DEF DropUnwanted, Teardown, HoldsLock, TypeOK, lockVars
<1>8. ASSUME NEW h \in Handlers, Dispatch(h) PROVE LockInv'
  BY <1>8, NoEntryKeeps DEF Dispatch, Goto, HoldsLock, TypeOK, lockVars
<1>9. ASSUME NEW h \in Handlers, RunEnds(h) PROVE LockInv'
  BY <1>9, NoEntryKeeps DEF RunEnds, Teardown, HoldsLock, TypeOK, lockVars
<1>10. ASSUME NEW h \in Handlers, Reschedule(h) PROVE LockInv'
  BY <1>10, NoEntryKeeps DEF Reschedule, Goto, HoldsLock, TypeOK, lockVars
<1>11. ASSUME NEW h \in Handlers, Park(h) PROVE LockInv'
  BY <1>11, NoEntryKeeps DEF Park, Goto, HoldsLock, TypeOK, lockVars
<1>12. ASSUME NEW h \in Handlers, FinishDelete(h) PROVE LockInv'
  BY <1>12, NoEntryKeeps DEF FinishDelete, AfterWrite, LeaveTask, HoldsLock, TypeOK, lockVars
<1>13. ASSUME NEW h \in Handlers, RunSigns(h) PROVE LockInv'
  BY <1>13, NoEntryKeeps DEF RunSigns, HoldsLock, TypeOK, lockVars
<1>14. ASSUME NEW h \in Handlers, RunSettles(h) PROVE LockInv'
  BY <1>14, NoEntryKeeps DEF RunSettles, HoldsLock, TypeOK, lockVars
<1>15. ASSUME NEW h \in Handlers, RunRequests(h) PROVE LockInv'
  BY <1>15, NoEntryKeeps DEF RunRequests, HoldsLock, TypeOK, lockVars
<1>16. ASSUME NEW h \in Handlers, RunSweeps(h) PROVE LockInv'
  BY <1>16, NoEntryKeeps DEF RunSweeps, HoldsLock, TypeOK, lockVars
<1>17. ASSUME NEW h \in Handlers, CycleFails(h) PROVE LockInv'
  BY <1>17, NoEntryKeeps DEF CycleFails, LeaveTask, HoldsLock, TypeOK, lockVars
<1>18. ASSUME NEW h \in Handlers, SettleFails(h) PROVE LockInv'
  BY <1>18, NoEntryKeeps DEF SettleFails, Goto, AfterWrite, LeaveTask, HoldsLock, TypeOK, lockVars
<1>19. ASSUME NEW h \in Handlers, AcquireLock(h) PROVE LockInv'
  BY <1>19, AcquireKeeps
<1>20. ASSUME NEW h \in Handlers, Unlock(h) PROVE LockInv'
  BY <1>20, UnlockKeeps
<1>21. ASSUME NEW t \in Tasks, Schedule(t) PROVE LockInv'
  BY <1>21, NoEntryKeeps DEF Schedule, HoldsLock, TypeOK, lockVars
<1>22. ASSUME NEW t \in Tasks, ChangeIntent(t) PROVE LockInv'
  BY <1>22, NoEntryKeeps DEF ChangeIntent, HoldsLock, TypeOK, lockVars
<1>23. ASSUME NEW t \in Tasks, Fulfil(t) PROVE LockInv'
  BY <1>23, NoEntryKeeps DEF Fulfil, HoldsLock, TypeOK, lockVars
<1>24. ASSUME NEW d \in Deployments, RemoveDeployment(d) PROVE LockInv'
  BY <1>24, NoEntryKeeps DEF RemoveDeployment, HoldsLock, TypeOK, lockVars
<1>25. ASSUME NEW c \in Consumers, Crash(c) PROVE LockInv'
  BY <1>25, NoEntryKeeps DEF Crash, HoldsLock, TypeOK, lockVars
<1>26. CASE TimelyTick
  BY <1>26, TimelyTickKeeps
<1>27. CASE UNCHANGED vars
  BY <1>27, NoEntryKeeps DEF vars, HoldsLock, lockVars
<1> QED
  BY <1>1, <1>2, <1>3, <1>4, <1>5, <1>6, <1>7, <1>8, <1>9, <1>10, <1>11, <1>12, <1>13, <1>14, <1>15, <1>16, <1>17, <1>18, <1>19, <1>20, <1>21, <1>22, <1>23, <1>24, <1>25, <1>26, <1>27 DEF Untimed, Handle, Carry, Environment

(* The deployment lock serialises: as long as no handler outlives the lease  *)
(* of the lock it took, no two handlers of one deployment are between        *)
(* acquireDeploymentLock and releaseDeploymentLock at once, whatever crashes,*)
(* failed writes, overlapping cycles and lapsed claims occur.                *)
THEOREM LockSerialises == TimelySpec => []MutualExclusion
<1>1. Init => LockInv
  BY InitTyped DEF LockInv, LockOwned, MutualExclusion, HoldsLock, Init
<1>2. LockInv /\ [Untimed \/ TimelyTick]_vars => LockInv'
  BY LockInvStep
<1>3. LockInv => MutualExclusion
  BY DEF LockInv
<1> QED
  BY <1>1, <1>2, <1>3, PTL DEF TimelySpec

(****************************************************************************)
(* Crash-loop accounting under TimelySpec.  AttemptsCoverDispatches counts  *)
(* the handlers of a task; mutual exclusion leaves at most one, so the      *)
(* inductive form asks for one attempt more while there is any.  It speaks  *)
(* of removed tasks too: their counters stay as they were.                  *)
(****************************************************************************)
Counting(h) == pc[h] \in {"counted", "running", "retrying", "parking"}
InRun(t)    == \E h \in Handlers : at[h] = t /\ Counting(h)
Covered(t)  == attempts[t] >= lost[t] + (IF InRun(t) THEN 1 ELSE 0)
AttemptsInv == \A t \in Tasks : Covered(t)

(* Where no counter moves and no dispatch begins, the invariant is kept.     *)
LEMMA NoDispatchKeeps ==
  ASSUME LockInv, AttemptsInv, UNCHANGED <<attempts, lost>>,
         \A g \in Handlers : Counting(g)' => Counting(g) /\ at'[g] = at[g]
  PROVE  AttemptsInv'
<1> SUFFICES ASSUME NEW t \in Tasks PROVE Covered(t)'
  BY DEF AttemptsInv
<1>1. InRun(t)' => InRun(t)
  BY DEF InRun
<1>2. Covered(t) /\ attempts[t] \in Int /\ lost[t] \in Int
  BY DEF AttemptsInv, LockInv, TypeOK
<1> QED
  BY <1>1, <1>2 DEF Covered

(* A dispatch that ends may cost its task one attempt net: no other dispatch *)
(* of the task is going.                                                     *)
LEMMA DispatchEndKeeps ==
  ASSUME LockInv, TypeOK', AttemptsInv, NEW h \in Handlers, Counting(h), UNCHANGED at,
         \A g \in Handlers : Counting(g)' => Counting(g) /\ g # h,
         \A t \in Tasks \ {at[h]} : attempts'[t] = attempts[t] /\ lost'[t] = lost[t],
         attempts'[at[h]] - lost'[at[h]] >= attempts[at[h]] - lost[at[h]] - 1
  PROVE  AttemptsInv'
<1> SUFFICES ASSUME NEW t \in Tasks PROVE Covered(t)'
  BY DEF AttemptsInv
<1>0. /\ Covered(t) /\ attempts[t] \in Int /\ lost[t] \in Int
      /\ attempts'[t] \in Int /\ lost'[t] \in Int
  BY DEF AttemptsInv, LockInv, TypeOK
<1>1. CASE t # at[h]
  <2>1. InRun(t)' => InRun(t)
    BY DEF InRun
  <2> QED
    BY <1>0, <1>1, <2>1 DEF Covered
<1>2. CASE t = at[h]
  <2>1. InRun(t)
    BY <1>2 DEF InRun
  <2>2. ~InRun(t)'
    BY <1>2 DEF InRun, Counting, LockInv, MutualExclusion, HoldsLock, Dep
  <2> QED
    BY <1>0, <1>2, <2>1, <2>2 DEF Covered
<1> QED
  BY <1>1, <1>2

(* Counting a dispatch: under the lock, none of the task is going.           *)
LEMMA CountAttemptKeeps ==
  ASSUME LockInv, TypeOK', AttemptsInv, NEW h \in Handlers, CountAttempt(h)
  PROVE  AttemptsInv'
<1>1. CASE ~OwnClaim(h)
  BY <1>1, NoDispatchKeeps DEF CountAttempt, Teardown, Counting, LockInv, TypeOK
<1>2. CASE OwnClaim(h)
  <2> SUFFICES ASSUME NEW t \in Tasks PROVE Covered(t)'
    BY DEF AttemptsInv
  <2>0. Covered(t) /\ attempts[t] \in Int /\ lost[t] \in Int
    BY DEF AttemptsInv, LockInv, TypeOK
  <2>1. /\ attempts' = [attempts EXCEPT ![at[h]] = @ + 1]
        /\ pc' = [pc EXCEPT ![h] = "counted"]
        /\ UNCHANGED <<at, lost>>
        /\ pc[h] = "locked"
    BY <1>2 DEF CountAttempt, Goto
  <2>2. CASE t = at[h]
    <3>1. ~InRun(t)
      BY <2>1, <2>2 DEF InRun, Counting, LockInv, MutualExclusion, HoldsLock, Dep
    <3>2. attempts'[t] = attempts[t] + 1 /\ lost'[t] = lost[t]
      BY <2>1, <2>2 DEF LockInv, TypeOK
    <3> QED
      BY <2>0, <3>1, <3>2 DEF Covered
  <2>3. CASE t # at[h]
    <3>1. InRun(t)' => InRun(t)
      BY <2>1, <2>3 DEF InRun, Counting, LockInv, TypeOK
    <3>2. attempts'[t] = attempts[t] /\ lost'[t] = lost[t]
      BY <2>1, <2>3 DEF LockInv, TypeOK
    <3> QED
      BY <2>0, <3>1, <3>2 DEF Covered
  <2> QED
    BY <2>2, <2>3
<1> QED
  BY <1>1, <1>2

(* A crash turns the one dispatch a task may have into a lost one.           *)
LEMMA CrashKeeps ==
  ASSUME LockInv, TypeOK', AttemptsInv, NEW c \in Consumers, Crash(c)
  PROVE  AttemptsInv'
<1> SUFFICES ASSUME NEW t \in Tasks PROVE Covered(t)'
  BY DEF AttemptsInv
<1>0. Covered(t) /\ attempts[t] \in Int /\ lost[t] \in Int /\ attempts' = attempts
  BY DEF AttemptsInv, LockInv, TypeOK, Crash, taskVars
<1>1. \A g \in Handlers : Counting(g)' => Counting(g) /\ at'[g] = at[g] /\ ConsumerOf[g] # c
  BY DEF Crash, Counting, LockInv, TypeOK
<1>2. CASE \E g \in Counted(t) : ConsumerOf[g] = c
  <2>1. PICK g \in Handlers : at[g] = t /\ Counting(g) /\ ConsumerOf[g] = c
    BY <1>2 DEF Counted, Counting
  <2>2. lost'[t] = lost[t] + 1
    BY <1>2 DEF Crash
  <2>3. ~InRun(t)'
    BY <1>1, <2>1 DEF InRun, Counting, LockInv, MutualExclusion, HoldsLock, Dep
  <2>4. InRun(t)
    BY <2>1 DEF InRun
  <2> QED
    BY <1>0, <2>2, <2>3, <2>4 DEF Covered
<1>3. CASE ~\E g \in Counted(t) : ConsumerOf[g] = c
  <2>1. lost'[t] = lost[t]
    BY <1>3 DEF Crash
  <2>2. InRun(t)' => InRun(t)
    BY <1>1 DEF InRun
  <2> QED
    BY <1>0, <2>1, <2>2 DEF Covered
<1> QED
  BY <1>2, <1>3

(* Every step of a timely queue keeps the accounting.                        *)
LEMMA AttemptsStep == LockInv /\ AttemptsInv /\ [Untimed \/ TimelyTick]_vars => AttemptsInv'
<1> SUFFICES ASSUME LockInv, AttemptsInv, [Untimed \/ TimelyTick]_vars PROVE AttemptsInv'
  OBVIOUS
<1>typed. TypeOK /\ TypeOK'
  BY StepTyped DEF LockInv, Next, TimelyTick
<1> USE <1>typed
<1>1. ASSUME NEW h \in Handlers, NEW t \in Tasks, Claim(h, t) PROVE AttemptsInv'
  BY <1>1, NoDispatchKeeps DEF Claim, Counting, TypeOK
<1>2. ASSUME NEW h \in Handlers, DropSpent(h) PROVE AttemptsInv'
  BY <1>2, NoDispatchKeeps DEF DropSpent, LeaveTask, DeleteIfOwn, Delete, Counting, TypeOK, taskVars
<1>3. ASSUME NEW h \in Handlers, Abandon(h) PROVE AttemptsInv'
  BY <1>3, NoDispatchKeeps DEF Abandon, Goto, Delete, Counting, TypeOK, taskVars
<1>4. ASSUME NEW h \in Handlers, FlagError(h) PROVE AttemptsInv'
  BY <1>4, NoDispatchKeeps DEF FlagError, LeaveTask, Counting, TypeOK, taskVars
<1>5. ASSUME NEW h \in Handlers, Enrich(h) PROVE AttemptsInv'
  BY <1>5, NoDispatchKeeps DEF Enrich, LeaveTask, DeleteIfOwn, Delete, Counting, TypeOK, taskVars
<1>6. ASSUME NEW h \in Handlers, AcquireLock(h) PROVE AttemptsInv'
  BY <1>6, NoDispatchKeeps DEF AcquireLock, Goto, LeaveTask, Release, Counting, TypeOK, taskVars
<1>7. ASSUME NEW h \in Handlers, DropUnwanted(h) PROVE AttemptsInv'
  BY <1>7, NoDispatchKeeps DEF DropUnwanted, Teardown, DeleteIfOwn, Delete, Counting, TypeOK, taskVars
<1>8. ASSUME NEW h \in Handlers, Dispatch(h) PROVE AttemptsInv'
  BY <1>8, NoDispatchKeeps DEF Dispatch, Goto, Counting, TypeOK, taskVars
<1>9. ASSUME NEW h \in Handlers, FinishDelete(h) PROVE AttemptsInv'
  BY <1>9, NoDispatchKeeps DEF FinishDelete, AfterWrite, LeaveTask, DeleteIfOwn, Delete, Counting, TypeOK, taskVars
<1>10. ASSUME NEW h \in Handlers, Unlock(h) PROVE AttemptsInv'
  BY <1>10, NoDispatchKeeps DEF Unlock, AfterWrite, LeaveTask, Counting, TypeOK, taskVars
<1>11. ASSUME NEW h \in Handlers, RunSigns(h) PROVE AttemptsInv'
  BY <1>11, NoDispatchKeeps DEF RunSigns, Counting, TypeOK, taskVars
<1>12. ASSUME NEW h \in Handlers, RunSettles(h) PROVE AttemptsInv'
  BY <1>12, NoDispatchKeeps DEF RunSettles, Counting, TypeOK, taskVars
<1>13. ASSUME NEW h \in Handlers, RunRequests(h) PROVE AttemptsInv'
  BY <1>13, NoDispatchKeeps DEF RunRequests, Counting, TypeOK, taskVars
<1>14. ASSUME NEW h \in Handlers, RunSweeps(h) PROVE AttemptsInv'
  BY <1>14, NoDispatchKeeps DEF RunSweeps, Counting, TypeOK, taskVars
<1>15. ASSUME NEW h \in Handlers, CycleFails(h) PROVE AttemptsInv'
  BY <1>15, NoDispatchKeeps DEF CycleFails, LeaveTask, Counting, TypeOK, taskVars
<1>16. ASSUME NEW h \in Handlers, SettleFails(h) PROVE AttemptsInv'
  BY <1>16, NoDispatchKeeps DEF SettleFails, Goto, AfterWrite, LeaveTask, Counting, TypeOK, taskVars
<1>17. ASSUME NEW h \in Handlers, CountAttempt(h) PROVE AttemptsInv'
  BY <1>17, CountAttemptKeeps
<1>18. ASSUME NEW h \in Handlers, RunEnds(h) PROVE AttemptsInv'
  <2>1. pc[h] = "running" /\ at[h] \in Tasks /\ attempts' = attempts /\ UNCHANGED at
    BY <1>18 DEF RunEnds, Teardown, TypeOK, taskVars
  <2>2. \/ lost' = [lost EXCEPT ![at[h]] = @ + 1]
        \/ lost' = lost
    BY <1>18 DEF RunEnds
  <2>3. \/ pc' = [pc EXCEPT ![h] = "finishing"]
        \/ UNCHANGED lost /\ pc' = [pc EXCEPT ![h] = "retrying"]
        \/ UNCHANGED lost /\ pc' = [pc EXCEPT ![h] = "parking"]
    BY <1>18 DEF RunEnds, Teardown
  <2>4. CASE pc' = [pc EXCEPT ![h] = "finishing"]
    <3>1. \A g \in Handlers : Counting(g)' => Counting(g) /\ g # h
      BY <2>4 DEF Counting, TypeOK
    <3>2. \A t \in Tasks \ {at[h]} : attempts'[t] = attempts[t] /\ lost'[t] = lost[t]
      BY <2>1, <2>2 DEF TypeOK
    <3>3. attempts'[at[h]] - lost'[at[h]] >= attempts[at[h]] - lost[at[h]] - 1
      BY <2>1, <2>2 DEF TypeOK
    <3> QED
      BY <2>1, <3>1, <3>2, <3>3, DispatchEndKeeps DEF Counting
  <2>5. CASE UNCHANGED lost /\ pc' # [pc EXCEPT ![h] = "finishing"]
    BY <2>1, <2>3, <2>5, NoDispatchKeeps DEF Counting, TypeOK
  <2> QED
    BY <2>3, <2>4, <2>5
<1>19. ASSUME NEW h \in Handlers, Reschedule(h) PROVE AttemptsInv'
  <2>1. /\ Counting(h) /\ at[h] \in Tasks
        /\ pc' = [pc EXCEPT ![h] = "finishing"] /\ UNCHANGED <<at, lost>>
        /\ attempts' = attempts \/ attempts' = [attempts EXCEPT ![at[h]] = @ - 1]
    BY <1>19 DEF Reschedule, Goto, UndoAttempt, Counting, TypeOK, taskVars
  <2>2. \A g \in Handlers : Counting(g)' => Counting(g) /\ g # h
    BY <2>1 DEF Counting, TypeOK
  <2>3. \A t \in Tasks \ {at[h]} : attempts'[t] = attempts[t] /\ lost'[t] = lost[t]
    BY <2>1 DEF TypeOK
  <2>4. attempts'[at[h]] - lost'[at[h]] >= attempts[at[h]] - lost[at[h]] - 1
    BY <2>1 DEF TypeOK
  <2> QED
    BY <2>1, <2>2, <2>3, <2>4, DispatchEndKeeps
<1>20. ASSUME NEW h \in Handlers, Park(h) PROVE AttemptsInv'
  <2>1. /\ Counting(h) /\ at[h] \in Tasks
        /\ pc' = [pc EXCEPT ![h] = "finishing"] /\ UNCHANGED <<at, lost>>
        /\ attempts' = attempts \/ attempts' = [attempts EXCEPT ![at[h]] = @ - 1]
    BY <1>20 DEF Park, Goto, UndoAttempt, Counting, TypeOK, taskVars
  <2>2. \A g \in Handlers : Counting(g)' => Counting(g) /\ g # h
    BY <2>1 DEF Counting, TypeOK
  <2>3. \A t \in Tasks \ {at[h]} : attempts'[t] = attempts[t] /\ lost'[t] = lost[t]
    BY <2>1 DEF TypeOK
  <2>4. attempts'[at[h]] - lost'[at[h]] >= attempts[at[h]] - lost[at[h]] - 1
    BY <2>1 DEF TypeOK
  <2> QED
    BY <2>1, <2>2, <2>3, <2>4, DispatchEndKeeps
<1>21. ASSUME NEW t \in Tasks, Schedule(t) PROVE AttemptsInv'
  BY <1>21, NoDispatchKeeps DEF Schedule, Counting, taskVars
<1>22. ASSUME NEW t \in Tasks, ChangeIntent(t) PROVE AttemptsInv'
  BY <1>22, NoDispatchKeeps DEF ChangeIntent, Counting, taskVars
<1>23. ASSUME NEW t \in Tasks, Fulfil(t) PROVE AttemptsInv'
  BY <1>23, NoDispatchKeeps DEF Fulfil, Counting, taskVars
<1>24. ASSUME NEW d \in Deployments, RemoveDeployment(d) PROVE AttemptsInv'
  BY <1>24, NoDispatchKeeps DEF RemoveDeployment, Counting, taskVars
<1>25. ASSUME NEW c \in Consumers, Crash(c) PROVE AttemptsInv'
  BY <1>25, CrashKeeps
<1>26. CASE TimelyTick
  BY <1>26, NoDispatchKeeps DEF TimelyTick, Tick, Countdown, Counting
<1>27. CASE UNCHANGED vars
  BY <1>27, NoDispatchKeeps DEF vars, taskVars, Counting
<1> QED
  BY <1>1, <1>2, <1>3, <1>4, <1>5, <1>6, <1>7, <1>8, <1>9, <1>10, <1>11, <1>12, <1>13, <1>14, <1>15, <1>16, <1>17, <1>18, <1>19, <1>20, <1>21, <1>22, <1>23, <1>24, <1>25, <1>26, <1>27 DEF Untimed, Handle, Carry, Environment

(* At most one handler counts for a task, so the inductive form says what    *)
(* AttemptsCoverDispatches says.                                             *)
LEMMA OneCounted == LockInv /\ AttemptsInv => AttemptsCoverDispatches
<1> SUFFICES ASSUME LockInv, AttemptsInv, NEW t \in Tasks
             PROVE  attempts[t] >= lost[t] + Cardinality(Counted(t))
  BY DEF AttemptsCoverDispatches
<1>0. Covered(t) /\ attempts[t] \in Int /\ lost[t] \in Int
  BY DEF AttemptsInv, LockInv, TypeOK
<1>1. CASE Counted(t) = {}
  <2>1. Cardinality(Counted(t)) = 0
    BY <1>1, FS_EmptySet
  <2>2. ~InRun(t)
    BY <1>1 DEF Counted, InRun, Counting
  <2> QED
    BY <1>0, <2>1, <2>2 DEF Covered
<1>2. CASE Counted(t) # {}
  <2>1. PICK h \in Handlers : h \in Counted(t)
    BY <1>2 DEF Counted
  <2>2. Counted(t) = {h}
    BY <2>1 DEF Counted, LockInv, MutualExclusion, HoldsLock, Dep
  <2>3. Cardinality(Counted(t)) = 1
    BY <2>2, FS_Singleton
  <2>4. InRun(t)
    BY <2>1 DEF Counted, InRun, Counting
  <2> QED
    BY <1>0, <2>3, <2>4 DEF Covered
<1> QED
  BY <1>1, <1>2

(* Crash-loop accounting: no interleaving of crashes, aborts, retries, parks *)
(* and lapsed claims makes `attempts` forget a dispatch that is going or     *)
(* that ended without an answer, so task_max_attempts bounds a crash loop.   *)
THEOREM AttemptsCount == TimelySpec => []AttemptsCoverDispatches
<1>1. Init => LockInv
  BY InitTyped DEF LockInv, LockOwned, MutualExclusion, HoldsLock, Init
<1>2. Init => AttemptsInv
  BY DEF Init, AttemptsInv, Covered, InRun, Counting
<1>3. LockInv /\ [Untimed \/ TimelyTick]_vars => LockInv'
  BY LockInvStep
<1>4. LockInv /\ AttemptsInv /\ [Untimed \/ TimelyTick]_vars => AttemptsInv'
  BY AttemptsStep
<1>5. LockInv /\ AttemptsInv => AttemptsCoverDispatches
  BY OneCounted
<1> QED
  BY <1>1, <1>2, <1>3, <1>4, <1>5, PTL DEF TimelySpec

(****************************************************************************)
(* What a handler may rely on under NominalSpec, where no handler outlives  *)
(* the lease of its claim either.  Uncontested: of all the handlers that    *)
(* may still write a task's outcome there is one per task, even once the    *)
(* task's document is gone.  Ready: what that handler has read is still so. *)
(****************************************************************************)
Uncontested == \A g, h \in Handlers : g # h /\ Carrying(g) /\ Carrying(h) => at[g] # at[h]

Ready(h) ==
  /\ Carrying(h) => status[at[h]] # "UNSCHEDULED"
  /\ Carrying(h) /\ Exists(at[h]) =>
       OwnClaim(h) /\ status[at[h]] = "PROCESSING" /\ lease[at[h]] > 0
  /\ Counting(h) => Exists(at[h])
  /\ pc[h] \in {"claimed", "enriched", "locked"} /\ Exists(at[h]) => attempts[at[h]] < MaxAttempts
  /\ pc[h] = "spent" /\ Exists(at[h]) => Spent(at[h])
  /\ pc[h] \in {"enriched", "locked", "counted"} /\ Exists(at[h]) /\ ListInFlight(at[h])
       => snapshot[h] = TRUE
  /\ pc[h] \in {"retrying", "parking"} => todo[h] = {"unlock"}

CarryInv == Uncontested /\ \A h \in Handlers : Ready(h)

(* A task's record and a handler's state are left as they are.               *)
SameTask(t) ==
  /\ status'[t] = status[t] /\ claimed_by'[t] = claimed_by[t] /\ lease'[t] = lease[t]
  /\ attempts'[t] = attempts[t] /\ inflight_retries'[t] = inflight_retries[t]
  /\ t \in landing' <=> t \in landing
SameHandler(h) ==
  /\ pc'[h] = pc[h] /\ at'[h] = at[h] /\ todo'[h] = todo[h]
  /\ snapshot[h] = TRUE => snapshot'[h] = TRUE

(* What a handler relies on is about itself and its task.                    *)
LEMMA UntouchedReady ==
  ASSUME NEW g \in Handlers, Ready(g), SameHandler(g), Carrying(g) => SameTask(at[g])
  PROVE  Ready(g)'
<1>1. CASE ~Carrying(g)
  BY <1>1 DEF Ready, Carrying, Counting, SameHandler
<1>2. CASE Carrying(g)
  BY <1>2 DEF Ready, Carrying, Counting, SameHandler, SameTask, Exists, OwnClaim, ClaimedBy,
              Spent, ListInFlight
<1> QED
  BY <1>1, <1>2

(* A handler at work touches its own task at most, so nobody else's trust in *)
(* theirs; what it relies on itself is each step's own business.             *)
LEMMA OwnTaskKeeps ==
  ASSUME CarryInv, NEW h \in Handlers,
         \A g \in Handlers \ {h} : SameHandler(g),
         \A t \in Tasks : t # at[h] \/ ~Carrying(h) => SameTask(t),
         \A g \in Handlers : Carrying(g) => at[g] \in Tasks,
         Carrying(h)' => Carrying(h) /\ at'[h] = at[h],
         Ready(h)'
  PROVE  CarryInv'
<1>1. ASSUME NEW g \in Handlers \ {h} PROVE Ready(g)'
  <2>1. Carrying(g) => SameTask(at[g])
    BY DEF CarryInv, Uncontested, SameTask
  <2> QED
    BY <2>1, UntouchedReady DEF CarryInv
<1>2. \A g \in Handlers : Carrying(g)' => Carrying(g) /\ at'[g] = at[g]
  BY DEF SameHandler, Carrying
<1>3. Uncontested'
  BY <1>2 DEF CarryInv, Uncontested
<1> QED
  BY <1>1, <1>3 DEF CarryInv

(* A handler that is done with its task relies on nothing.                   *)
LEMMA DoneReady ==
  ASSUME NEW h \in Handlers, ~Carrying(h)'
  PROVE  Ready(h)'
BY DEF Ready, Carrying, Counting

(* A deletion, and the fenced deletion, touch the handler's own task alone.  *)
LEMMA DeleteTouches ==
  ASSUME TypeOK, NEW t \in Tasks, NEW why, Delete(t, why)
  PROVE  \A u \in Tasks \ {t} : SameTask(u)
BY DEF Delete, TypeOK, SameTask

LEMMA DeleteIfOwnTouches ==
  ASSUME TypeOK, NEW h \in Handlers, at[h] \in Tasks, NEW why, DeleteIfOwn(h, why)
  PROVE  \A u \in Tasks \ {at[h]} : SameTask(u)
BY DeleteTouches DEF DeleteIfOwn, SameTask, taskVars, runVars

(* A handler that leaves its task leaves the others to theirs.               *)
LEMMA LeaveTouches ==
  ASSUME TypeOK, NEW h \in Handlers, LeaveTask(h)
  PROVE  (\A g \in Handlers \ {h} : SameHandler(g)) /\ ~Carrying(h)'
BY DEF LeaveTask, TypeOK, SameHandler, Carrying

LEMMA GotoTouches ==
  ASSUME TypeOK, NEW h \in Handlers, NEW step, Goto(h, step)
  PROVE  /\ \A g \in Handlers \ {h} : SameHandler(g)
         /\ pc'[h] = step /\ at'[h] = at[h] /\ todo'[h] = todo[h]
BY DEF Goto, TypeOK, SameHandler

LEMMA TeardownTouches ==
  ASSUME TypeOK, NEW h \in Handlers, NEW step, NEW writes, Teardown(h, step, writes)
  PROVE  /\ \A g \in Handlers \ {h} : SameHandler(g)
         /\ pc'[h] = step /\ at'[h] = at[h] /\ todo'[h] = writes
BY DEF Teardown, TypeOK, SameHandler

LEMMA AfterWriteTouches ==
  ASSUME TypeOK, NEW h \in Handlers, NEW w, AfterWrite(h, w)
  PROVE  /\ \A g \in Handlers \ {h} : SameHandler(g)
         /\ pc'[h] = "idle" \/ (pc'[h] = pc[h] /\ at'[h] = at[h] /\ todo'[h] = todo[h] \ {w})
BY LeaveTouches DEF AfterWrite, LeaveTask, TypeOK, SameHandler

(* Claiming: whoever carried the task before would still have its claim.     *)
LEMMA ClaimKeepsCarry ==
  ASSUME CarryInv, TypeOK, NEW h \in Handlers, NEW t \in Tasks, Claim(h, t)
  PROVE  CarryInv'
<1>1. Exists(t) /\ \A g \in Handlers : Carrying(g) => at[g] # t
  BY DEF Claim, Claimable, CarryInv, Ready, Exists, Stored
<1>2. \A g \in Handlers : Carrying(g) => SameTask(at[g])
  BY <1>1 DEF Claim, TypeOK, SameTask, runVars, Carrying
<1>3. CASE UNCHANGED <<pc, at>>
  <2>1. \A g \in Handlers : SameHandler(g)
    BY <1>3 DEF Claim, SameHandler
  <2>2. \A g \in Handlers : Ready(g)'
    BY <1>2, <2>1, UntouchedReady DEF CarryInv
  <2>3. Uncontested'
    BY <1>3 DEF CarryInv, Uncontested, Claim, Carrying
  <2> QED
    BY <2>2, <2>3 DEF CarryInv
<1>4. CASE /\ pc' = [pc EXCEPT ![h] = IF Spent(t) THEN "spent" ELSE "claimed"]
           /\ at' = [at EXCEPT ![h] = t]
  <2>1. \A g \in Handlers \ {h} : SameHandler(g)
    BY <1>4 DEF Claim, SameHandler, TypeOK
  <2>2. \A g \in Handlers \ {h} : Ready(g)'
    BY <1>2, <2>1, UntouchedReady DEF CarryInv
  <2>3. at'[h] = t /\ pc'[h] = (IF Spent(t) THEN "spent" ELSE "claimed")
    BY <1>4 DEF TypeOK
  <2>4. /\ status'[t] = "PROCESSING" /\ claimed_by'[t] = ConsumerOf[h] /\ lease'[t] = Lease
        /\ attempts'[t] = attempts[t] /\ inflight_retries'[t] = inflight_retries[t]
    BY DEF Claim, TypeOK
  <2>5. Ready(h)'
    <3>1. Spent(t)' <=> Spent(t)
      BY <2>4 DEF Spent
    <3>2. ~Spent(t) => attempts[t] < MaxAttempts
      BY DEF Spent, TypeOK
    <3> QED
      BY <2>3, <2>4, <3>1, <3>2 DEF Ready, Carrying, Counting, OwnClaim, ClaimedBy, Exists, Stored
  <2>6. Uncontested'
    BY <1>1, <2>1, <2>3 DEF CarryInv, Uncontested, SameHandler, Carrying
  <2> QED
    BY <2>2, <2>5, <2>6 DEF CarryInv
<1> QED
  BY <1>3, <1>4 DEF Claim

(* The sweep of a STOP: under the lock it meets no dispatch but its own.     *)
LEMMA SweepKeepsCarry ==
  ASSUME CarryInv, LockInv, NEW h \in Handlers, RunSweeps(h)
  PROVE  CarryInv'
<1>1. TypeOK /\ pc[h] = "running" /\ at[h] \in Tasks /\ KindOf[at[h]] = "STOP"
      /\ UNCHANGED <<pc, at, snapshot, todo, attempts, inflight_retries, landing>>
  BY DEF LockInv, TypeOK, RunSweeps
<1>2. ASSUME NEW t \in Tasks, t \in Sweepable(Dep(h))
      PROVE  /\ status'[t] = "DROPPED"
             /\ \A g \in Handlers : Counting(g) => at[g] # t
  <2>1. status'[t] = "DROPPED"
    BY <1>2 DEF RunSweeps
  <2>2. DeploymentOf[t] = Dep(h) /\ t # at[h]
    BY <1>1, <1>2 DEF Sweepable
  <2>3. \A g \in Handlers : Counting(g) => at[g] # t
    BY <1>1, <2>2 DEF LockInv, MutualExclusion, HoldsLock, Counting, Dep
  <2> QED
    BY <2>1, <2>3
<1>3. ASSUME NEW t \in Tasks, t \notin Sweepable(Dep(h)) PROVE SameTask(t)
  BY <1>1, <1>3 DEF RunSweeps, SameTask
<1>4. ASSUME NEW g \in Handlers PROVE Ready(g)'
  <2>1. CASE Carrying(g) /\ at[g] \in Sweepable(Dep(h))
    <3>1. at[g] \in Tasks
      BY <2>1 DEF Sweepable
    <3>2. status'[at[g]] = "DROPPED" /\ ~Counting(g)
      BY <1>2, <2>1, <3>1
    <3>3. pc[g] \notin {"retrying", "parking"}
      BY <3>2 DEF Counting
    <3> QED
      BY <1>1, <3>2, <3>3 DEF Ready, Exists, Stored, Counting
  <2>2. CASE ~(Carrying(g) /\ at[g] \in Sweepable(Dep(h)))
    <3>1. Carrying(g) => SameTask(at[g])
      BY <1>1, <1>3, <2>2 DEF TypeOK, Carrying, SameTask
    <3>2. SameHandler(g)
      BY <1>1 DEF SameHandler
    <3> QED
      BY <3>1, <3>2, UntouchedReady DEF CarryInv
  <2> QED
    BY <2>1, <2>2
<1>5. Uncontested'
  BY <1>1 DEF CarryInv, Uncontested, Carrying
<1> QED
  BY <1>4, <1>5 DEF CarryInv

NominalInv == LockInv /\ CarryInv

(* Nothing but handlers carries a task: a crash only takes them away.        *)
LEMMA CrashKeepsCarry ==
  ASSUME CarryInv, TypeOK, NEW c \in Consumers, Crash(c)
  PROVE  CarryInv'
<1>1. ASSUME NEW g \in Handlers PROVE ~Carrying(g)' \/ (SameHandler(g) /\ Carrying(g))
  BY DEF Crash, SameHandler, Carrying
<1>2. \A t \in Tasks : SameTask(t)
  BY DEF Crash, SameTask, taskVars, runVars
<1>3. \A g \in Handlers : Carrying(g) => at[g] \in Tasks
  BY DEF TypeOK, Carrying
<1>4. \A g \in Handlers : Ready(g)'
  BY <1>1, <1>2, <1>3, UntouchedReady, DoneReady DEF CarryInv, SameTask
<1>5. Uncontested'
  BY <1>1 DEF CarryInv, Uncontested, SameHandler
<1> QED
  BY <1>4, <1>5 DEF CarryInv

(* No step of a nominal queue makes two handlers carry one task, or what one *)
(* of them relies on untrue.                                                 *)
LEMMA CarryInvStep == NominalInv /\ [Untimed \/ NominalTick]_vars => CarryInv'
<1> SUFFICES ASSUME NominalInv, [Untimed \/ NominalTick]_vars PROVE CarryInv'
  OBVIOUS
<1>typed. LockInv /\ CarryInv /\ TypeOK
  BY DEF NominalInv, LockInv
<1> USE <1>typed
<1>at. \A g \in Handlers : pc[g] # "idle" => at[g] \in Tasks
  BY DEF TypeOK
<1>carry. \A g \in Handlers : Carrying(g) => at[g] \in Tasks
  BY <1>at DEF Carrying
<1>1. ASSUME NEW h \in Handlers, NEW t \in Tasks, Claim(h, t) PROVE CarryInv'
  BY <1>1, ClaimKeepsCarry
<1>2. ASSUME NEW h \in Handlers, DropSpent(h) PROVE CarryInv'
  BY <1>2, <1>at, <1>carry, OwnTaskKeeps, DeleteIfOwnTouches, LeaveTouches, DoneReady DEF DropSpent, Carrying
<1>3. ASSUME NEW h \in Handlers, Abandon(h) PROVE CarryInv'
  <2>1. \A u \in Tasks \ {at[h]} : SameTask(u)
    BY <1>3, <1>at, DeleteTouches DEF Abandon, SameTask, taskVars, runVars
  <2>2. pc[h] = "spent" /\ ~Carrying(h)' /\ \A g \in Handlers \ {h} : SameHandler(g)
    BY <1>3, GotoTouches DEF Abandon, Carrying
  <2> QED
    BY <2>1, <2>2, <1>carry, OwnTaskKeeps, DoneReady DEF Carrying
<1>4. ASSUME NEW h \in Handlers, FlagError(h) PROVE CarryInv'
  <2>1. \A u \in Tasks : SameTask(u)
    BY <1>4 DEF FlagError, SameTask, taskVars, runVars
  <2> QED
    BY <1>4, <2>1, <1>carry, OwnTaskKeeps, LeaveTouches, DoneReady DEF FlagError
<1>5. ASSUME NEW h \in Handlers, Enrich(h) PROVE CarryInv'
  <2>1. CASE ~(Exists(at[h]) /\ Dep(h) \notin removed)
    BY <1>5, <2>1, <1>at, <1>carry, OwnTaskKeeps, DeleteIfOwnTouches, LeaveTouches, DoneReady DEF Enrich, Carrying
  <2>2. CASE Exists(at[h]) /\ Dep(h) \notin removed
    <3>1. /\ snapshot' = [snapshot EXCEPT ![h] = ListInFlight(at[h])]
          /\ pc[h] = "claimed" /\ pc' = [pc EXCEPT ![h] = "enriched"]
          /\ UNCHANGED <<at, todo, taskVars, runVars>>
      BY <1>5, <2>2 DEF Enrich
    <3>2. (\A u \in Tasks : SameTask(u)) /\ at[h] \in Tasks
      BY <3>1, <1>at DEF SameTask, taskVars, runVars
    <3>3. /\ \A g \in Handlers \ {h} : SameHandler(g)
          /\ pc'[h] = "enriched" /\ at'[h] = at[h]
      BY <3>1 DEF TypeOK, SameHandler
    <3>4. ListInFlight(at[h]) => snapshot'[h] = TRUE
      BY <3>1, Zenon DEF TypeOK
    <3>5. Ready(h)'
      BY <3>1, <3>2, <3>3, <3>4 DEF CarryInv, Ready, Carrying, Counting, SameTask, Exists,
                               OwnClaim, ClaimedBy, ListInFlight
    <3>6. Carrying(h)
      BY <3>1 DEF Carrying
    <3> QED
      BY <3>2, <3>3, <3>5, <3>6, <1>carry, OwnTaskKeeps
  <2> QED
    BY <2>1, <2>2
<1>6. ASSUME NEW h \in Handlers, AcquireLock(h) PROVE CarryInv'
  <2>0. pc[h] = "enriched" /\ Carrying(h) /\ at[h] \in Tasks
    BY <1>6, <1>at DEF AcquireLock, Carrying
  <2>1. CASE LockFree(h)
    <3>1. /\ \A u \in Tasks : SameTask(u)
          /\ \A g \in Handlers \ {h} : SameHandler(g)
          /\ pc'[h] = "locked" /\ at'[h] = at[h] /\ snapshot' = snapshot
      BY <1>6, <2>1, GotoTouches DEF AcquireLock, SameTask, taskVars, runVars, Goto
    <3>2. Ready(h)'
      BY <2>0, <3>1 DEF CarryInv, Ready, Carrying, Counting, SameTask, Exists,
                   OwnClaim, ClaimedBy, ListInFlight
    <3> QED
      BY <2>0, <3>1, <3>2, <1>carry, OwnTaskKeeps
  <2>2. CASE ~LockFree(h)
    <3>1. \A u \in Tasks \ {at[h]} : SameTask(u)
      BY <1>6, <2>0, <2>2 DEF AcquireLock, Release, SameTask, taskVars, runVars, TypeOK
    <3> QED
      BY <1>6, <2>0, <2>2, <3>1, <1>carry, OwnTaskKeeps, LeaveTouches, DoneReady DEF AcquireLock
  <2> QED
    BY <2>1, <2>2
<1>7. ASSUME NEW h \in Handlers, CountAttempt(h) PROVE CarryInv'
  <2>0. pc[h] = "locked" /\ Carrying(h) /\ at[h] \in Tasks
    BY <1>7, <1>at DEF CountAttempt, Carrying
  <2>1. \A u \in Tasks \ {at[h]} : SameTask(u)
    BY <1>7, <2>0 DEF CountAttempt, SameTask, runVars, TypeOK
  <2>2. CASE OwnClaim(h)
    <3>1. /\ \A g \in Handlers \ {h} : SameHandler(g)
          /\ pc'[h] = "counted" /\ at'[h] = at[h] /\ snapshot' = snapshot
          /\ UNCHANGED <<status, claimed_by, lease, landing>>
      BY <1>7, <2>2, GotoTouches DEF CountAttempt, Goto, runVars
    <3>2. Exists(at[h])
      BY <2>2 DEF OwnClaim, ClaimedBy
    <3>3. Ready(h)'
      BY <2>0, <3>1, <3>2 DEF CarryInv, Ready, Carrying, Counting, Exists,
                   OwnClaim, ClaimedBy, ListInFlight
    <3> QED
      BY <2>0, <2>1, <3>1, <3>3, <1>carry, OwnTaskKeeps
  <2>3. CASE ~OwnClaim(h)
    <3>1. (\A g \in Handlers \ {h} : SameHandler(g)) /\ ~Carrying(h)'
      BY <1>7, <2>3, TeardownTouches DEF CountAttempt, Carrying
    <3> QED
      BY <2>0, <2>1, <3>1, <1>carry, OwnTaskKeeps, DoneReady
  <2> QED
    BY <2>2, <2>3
<1>8. ASSUME NEW h \in Handlers, DropUnwanted(h) PROVE CarryInv'
  <2>1. (\A g \in Handlers \ {h} : SameHandler(g)) /\ ~Carrying(h)' /\ Carrying(h)
    BY <1>8, TeardownTouches DEF DropUnwanted, Carrying
  <2> QED
    BY <1>8, <2>1, <1>carry, OwnTaskKeeps, DeleteIfOwnTouches, DoneReady DEF DropUnwanted
<1>9. ASSUME NEW h \in Handlers, Dispatch(h) PROVE CarryInv'
  <2>1. /\ \A u \in Tasks : SameTask(u)
        /\ \A g \in Handlers \ {h} : SameHandler(g)
        /\ pc[h] = "counted" /\ pc'[h] = "running" /\ at'[h] = at[h] /\ at[h] \in Tasks
    BY <1>9, <1>at, GotoTouches DEF Dispatch, SameTask, taskVars, runVars
  <2>2. Ready(h)'
    BY <2>1 DEF CarryInv, Ready, Carrying, Counting, SameTask, Exists, OwnClaim, ClaimedBy
  <2> QED
    BY <2>1, <2>2, <1>carry, OwnTaskKeeps DEF Carrying
<1>10. ASSUME NEW h \in Handlers, RunEnds(h) PROVE CarryInv'
  <2>1. /\ \A u \in Tasks : SameTask(u)
        /\ \A g \in Handlers \ {h} : SameHandler(g)
        /\ pc[h] = "running" /\ at'[h] = at[h] /\ at[h] \in Tasks
        /\ \/ pc'[h] = "finishing"
           \/ pc'[h] \in {"retrying", "parking"} /\ todo'[h] = {"unlock"}
    BY <1>10, <1>at, TeardownTouches DEF RunEnds, SameTask, taskVars, runVars
  <2>2. Ready(h)'
    BY <2>1 DEF CarryInv, Ready, Carrying, Counting, SameTask, Exists, OwnClaim, ClaimedBy
  <2> QED
    BY <2>1, <2>2, <1>carry, OwnTaskKeeps DEF Carrying
<1>11. ASSUME NEW h \in Handlers, Reschedule(h) PROVE CarryInv'
  <2>1. /\ \A g \in Handlers \ {h} : SameHandler(g)
        /\ pc[h] = "retrying" /\ pc'[h] = "finishing" /\ todo'[h] = todo[h] /\ at[h] \in Tasks
    BY <1>11, <1>at, GotoTouches DEF Reschedule
  <2>2. ~Carrying(h)' /\ Carrying(h)
    BY <2>1 DEF CarryInv, Ready, Carrying
  <2>3. \A u \in Tasks \ {at[h]} : SameTask(u)
    BY <1>11, <2>1 DEF Reschedule, Release, UndoAttempt, SameTask, taskVars, runVars, TypeOK
  <2> QED
    BY <2>1, <2>2, <2>3, <1>carry, OwnTaskKeeps, DoneReady
<1>12. ASSUME NEW h \in Handlers, Park(h) PROVE CarryInv'
  <2>1. /\ \A g \in Handlers \ {h} : SameHandler(g)
        /\ pc[h] = "parking" /\ pc'[h] = "finishing" /\ todo'[h] = todo[h] /\ at[h] \in Tasks
    BY <1>12, <1>at, GotoTouches DEF Park
  <2>2. ~Carrying(h)' /\ Carrying(h)
    BY <2>1 DEF CarryInv, Ready, Carrying
  <2>3. \A u \in Tasks \ {at[h]} : SameTask(u)
    BY <1>12, <2>1 DEF Park, Release, UndoAttempt, SameTask, taskVars, runVars, TypeOK
  <2> QED
    BY <2>1, <2>2, <2>3, <1>carry, OwnTaskKeeps, DoneReady
<1>13. ASSUME NEW h \in Handlers, FinishDelete(h) PROVE CarryInv'
  <2>1. (\A g \in Handlers \ {h} : SameHandler(g)) /\ ~Carrying(h)' /\ Carrying(h)
    BY <1>13, AfterWriteTouches DEF FinishDelete, Carrying
  <2> QED
    BY <1>13, <2>1, <1>carry, OwnTaskKeeps, DeleteIfOwnTouches, DoneReady DEF FinishDelete
<1>14. ASSUME NEW h \in Handlers, Unlock(h) PROVE CarryInv'
  <2>1. /\ \A u \in Tasks : SameTask(u)
        /\ \A g \in Handlers \ {h} : SameHandler(g)
        /\ pc[h] \in {"finishing", "unlocking"}
        /\ \/ pc'[h] = "idle"
           \/ pc'[h] = pc[h] /\ at'[h] = at[h] /\ todo'[h] = todo[h] \ {"unlock"}
    BY <1>14, AfterWriteTouches DEF Unlock, SameTask, taskVars, runVars
  <2>2. Carrying(h)' => Carrying(h) /\ at'[h] = at[h]
    BY <2>1 DEF Carrying
  <2>3. Ready(h)'
    BY <2>1, <2>2, <1>carry DEF CarryInv, Ready, Carrying, Counting, SameTask, Exists, OwnClaim, ClaimedBy
  <2> QED
    BY <2>1, <2>2, <2>3, <1>carry, OwnTaskKeeps
<1>15. ASSUME NEW h \in Handlers, RunSigns(h) \/ RunSettles(h) \/ RunRequests(h) PROVE CarryInv'
  <2>1. /\ \A u \in Tasks \ {at[h]} : SameTask(u)
        /\ pc[h] = "running" /\ UNCHANGED <<pc, at, todo, snapshot, taskVars>>
    BY <1>15 DEF RunSigns, RunSettles, RunRequests, SameTask, taskVars
  <2>2. (\A g \in Handlers \ {h} : SameHandler(g)) /\ Carrying(h) /\ at'[h] = at[h]
    BY <2>1 DEF SameHandler, Carrying
  <2>3. Ready(h)'
    BY <2>1 DEF CarryInv, Ready, Carrying, Counting, Exists, OwnClaim, ClaimedBy, taskVars
  <2> QED
    BY <2>1, <2>2, <2>3, <1>carry, OwnTaskKeeps
<1>16. ASSUME NEW h \in Handlers, RunSweeps(h) PROVE CarryInv'
  BY <1>16, SweepKeepsCarry
<1>17. ASSUME NEW h \in Handlers, CycleFails(h) PROVE CarryInv'
  <2>1. \A u \in Tasks : SameTask(u)
    BY <1>17 DEF CycleFails, SameTask, taskVars, runVars
  <2> QED
    BY <1>17, <2>1, <1>carry, OwnTaskKeeps, LeaveTouches, DoneReady DEF CycleFails
<1>18. ASSUME NEW h \in Handlers, SettleFails(h) PROVE CarryInv'
  <2>1. \A u \in Tasks : SameTask(u)
    BY <1>18 DEF SettleFails, SameTask, taskVars, runVars
  <2>2. CASE pc[h] \in {"retrying", "parking"} /\ Goto(h, "finishing")
    <3>1. (\A g \in Handlers \ {h} : SameHandler(g)) /\ pc'[h] = "finishing" /\ todo'[h] = todo[h]
      BY <2>2, GotoTouches
    <3>2. ~Carrying(h)'
      BY <2>2, <3>1 DEF CarryInv, Ready, Carrying
    <3> QED
      BY <2>1, <3>1, <3>2, <1>carry, OwnTaskKeeps, DoneReady
  <2>3. ASSUME NEW w \in todo[h], pc[h] = "finishing", AfterWrite(h, w) PROVE CarryInv'
    <3>1. /\ \A g \in Handlers \ {h} : SameHandler(g)
          /\ \/ pc'[h] = "idle"
             \/ pc'[h] = pc[h] /\ at'[h] = at[h] /\ todo'[h] = todo[h] \ {w}
      BY <2>3, AfterWriteTouches
    <3>2. Carrying(h)' => Carrying(h) /\ at'[h] = at[h]
      BY <2>3, <3>1 DEF Carrying
    <3>3. Ready(h)'
      BY <2>1, <2>3, <3>1, <3>2, <1>carry DEF CarryInv, Ready, Carrying, Counting, SameTask, Exists, OwnClaim, ClaimedBy
    <3> QED
      BY <2>1, <3>1, <3>2, <3>3, <1>carry, OwnTaskKeeps
  <2> QED
    BY <1>18, <2>2, <2>3 DEF SettleFails
<1>19. ASSUME NEW t \in Tasks, Schedule(t) PROVE CarryInv'
  <2>1. \A u \in Tasks \ {t} : SameTask(u)
    BY <1>19 DEF Schedule, SameTask, TypeOK, runVars
  <2>2. \A g \in Handlers : Carrying(g) => at[g] \in Tasks \ {t}
    BY <1>19, <1>carry DEF Schedule, CarryInv, Ready
  <2>3. \A g \in Handlers : SameHandler(g)
    BY <1>19 DEF Schedule, SameHandler
  <2>4. \A g \in Handlers : Ready(g)'
    BY <2>1, <2>2, <2>3, UntouchedReady DEF CarryInv, SameTask
  <2>5. Uncontested'
    BY <1>19 DEF Schedule, CarryInv, Uncontested, Carrying
  <2> QED
    BY <2>4, <2>5 DEF CarryInv
<1>20. ASSUME \/ \E t \in Tasks : ChangeIntent(t) \/ Fulfil(t)
              \/ \E d \in Deployments : RemoveDeployment(d)
              \/ UNCHANGED vars
       PROVE  CarryInv'
  <2>1. /\ UNCHANGED <<status, claimed_by, lease, attempts, inflight_retries, landing>>
        /\ UNCHANGED <<pc, at, todo, snapshot>>
    BY <1>20 DEF ChangeIntent, Fulfil, RemoveDeployment, vars, taskVars, runVars
  <2>2. (\A u \in Tasks : SameTask(u)) /\ (\A g \in Handlers : SameHandler(g))
    BY <2>1 DEF SameTask, SameHandler
  <2>3. \A g \in Handlers : Ready(g)'
    BY <2>2, <1>carry, UntouchedReady DEF CarryInv, SameTask
  <2>4. Uncontested'
    BY <2>1 DEF CarryInv, Uncontested, Carrying
  <2> QED
    BY <2>3, <2>4 DEF CarryInv
<1>21. ASSUME NEW c \in Consumers, Crash(c) PROVE CarryInv'
  BY <1>21, CrashKeepsCarry
<1>22. CASE NominalTick
  <2>1. /\ UNCHANGED <<status, claimed_by, attempts, inflight_retries, landing>>
        /\ UNCHANGED <<pc, at, todo, snapshot>>
        /\ lease' = [t \in Tasks |-> Elapse(lease[t])]
    BY <1>22 DEF NominalTick, TimelyTick, Tick, Countdown, runVars
  <2>2. \A g \in Handlers : Carrying(g) /\ Exists(at[g]) => lease'[at[g]] > 0
    BY <1>22, <2>1, <1>carry DEF NominalTick, ClaimTimely, CarryInv, Ready, Carrying, Elapse, TypeOK
  <2>3. \A g \in Handlers : Ready(g)'
    BY <2>1, <2>2 DEF CarryInv, Ready, Carrying, Counting, Exists, OwnClaim, ClaimedBy, Spent, ListInFlight
  <2>4. Uncontested'
    BY <2>1 DEF CarryInv, Uncontested, Carrying
  <2> QED
    BY <2>3, <2>4 DEF CarryInv
<1> QED
  BY <1>1, <1>2, <1>3, <1>4, <1>5, <1>6, <1>7, <1>8, <1>9, <1>10, <1>11, <1>12, <1>13, <1>14, <1>15, <1>16, <1>17, <1>18, <1>19, <1>20, <1>21, <1>22 DEF Untimed, Handle, Carry, Environment

LEMMA NominalInit == Init => NominalInv
<1> SUFFICES ASSUME Init PROVE NominalInv
  OBVIOUS
<1>1. LockInv
  BY InitTyped DEF LockInv, LockOwned, MutualExclusion, HoldsLock, Init
<1>2. CarryInv
  BY DEF CarryInv, Uncontested, Ready, Carrying, Counting, Init
<1> QED
  BY <1>1, <1>2 DEF NominalInv

LEMMA NominalStep == NominalInv /\ [Untimed \/ NominalTick]_vars => NominalInv'
BY CarryInvStep, LockInvStep DEF NominalInv, NominalTick

(* One carrier: whatever cycles overlap, crash or fail, the handler that may *)
(* still write a task's outcome is the only one, and as long as the document *)
(* is there it holds its claim, so none of the fenced writes is refused.     *)
THEOREM OneCarrier == NominalSpec => []SoleCarrier
<1>1. NominalInv => SoleCarrier
  BY DEF NominalInv, CarryInv, Uncontested, Ready, SoleCarrier
<1> QED
  BY <1>1, NominalInit, NominalStep, PTL DEF NominalSpec

(* Only the count of a dispatch raises `attempts`.                           *)
LEMMA AttemptsFall ==
  ASSUME TypeOK, [Untimed \/ NominalTick]_vars, ~\E h \in Handlers : CountAttempt(h)
  PROVE  \A t \in Tasks : attempts'[t] <= attempts[t]
<1>1. \/ attempts' = attempts
      \/ \E h \in Handlers : at[h] \in Tasks /\ UndoAttempt(at[h])
  <2> USE DEF taskVars
  <2>1. ASSUME NEW h \in Handlers, Handle(h)
        PROVE  attempts' = attempts \/ (at[h] \in Tasks /\ UndoAttempt(at[h]))
    <3>1. ASSUME NEW t \in Tasks, Claim(h, t) PROVE attempts' = attempts
      BY <3>1 DEF Claim
    <3>2. CASE DropSpent(h) \/ Abandon(h) \/ FlagError(h) \/ Enrich(h) \/ AcquireLock(h)
               \/ DropUnwanted(h) \/ Dispatch(h) \/ FinishDelete(h)
      BY <3>2 DEF DropSpent, Abandon, FlagError, Enrich, AcquireLock, DropUnwanted, Dispatch,
                  FinishDelete, DeleteIfOwn, Delete
    <3>3. CASE RunEnds(h) \/ Unlock(h) \/ RunSigns(h) \/ RunSettles(h) \/ RunRequests(h)
               \/ RunSweeps(h) \/ CycleFails(h) \/ SettleFails(h)
      BY <3>3 DEF RunEnds, Unlock, RunSigns, RunSettles, RunRequests, RunSweeps, CycleFails, SettleFails
    <3>4. CASE Reschedule(h) \/ Park(h)
      BY <3>4 DEF Reschedule, Park, TypeOK
    <3> QED
      BY <2>1, <3>1, <3>2, <3>3, <3>4 DEF Handle, Carry
  <2>2. ASSUME Environment PROVE attempts' = attempts
    BY <2>2 DEF Environment, Schedule, ChangeIntent, Fulfil, RemoveDeployment, Crash
  <2>3. ASSUME NominalTick \/ UNCHANGED vars PROVE attempts' = attempts
    BY <2>3 DEF NominalTick, TimelyTick, Tick, Countdown, vars
  <2> QED
    BY <2>1, <2>2, <2>3 DEF Untimed
<1>2. ASSUME NEW h \in Handlers, at[h] \in Tasks, UndoAttempt(at[h])
      PROVE  \A t \in Tasks : attempts'[t] <= attempts[t]
  BY <1>2 DEF UndoAttempt, TypeOK
<1> QED
  BY <1>1, <1>2 DEF TypeOK

(* The cap: a task is judged before it is locked and counted after, and no   *)
(* other cycle counts it in between; so however often it is claimed, none is *)
(* dispatched beyond task_max_attempts.                                      *)
THEOREM CapHolds == NominalSpec => []AttemptsWithinCap
<1>1. Init => AttemptsWithinCap
  BY DEF Init, AttemptsWithinCap
<1>2. NominalInv /\ AttemptsWithinCap /\ [Untimed \/ NominalTick]_vars => AttemptsWithinCap'
  <2> SUFFICES ASSUME NominalInv, AttemptsWithinCap, [Untimed \/ NominalTick]_vars, NEW t \in Tasks
               PROVE  attempts'[t] <= MaxAttempts
    BY DEF AttemptsWithinCap
  <2>0. TypeOK /\ attempts[t] <= MaxAttempts /\ TypeOK'
    BY NominalStep DEF NominalInv, LockInv, AttemptsWithinCap
  <2>1. CASE \E h \in Handlers : CountAttempt(h)
    <3>1. PICK h \in Handlers : CountAttempt(h)
      BY <2>1
    <3>2. CASE OwnClaim(h)
      <4>1. attempts[at[h]] < MaxAttempts /\ attempts' = [attempts EXCEPT ![at[h]] = @ + 1]
        BY <3>1, <3>2 DEF CountAttempt, NominalInv, CarryInv, Ready, OwnClaim, ClaimedBy
      <4>2. at[h] \in Tasks
        BY <2>0, <3>1 DEF TypeOK, CountAttempt
      <4> QED
        BY <2>0, <4>1, <4>2 DEF TypeOK
    <3>3. CASE ~OwnClaim(h)
      BY <2>0, <3>1, <3>3 DEF CountAttempt
    <3> QED
      BY <3>2, <3>3
  <2>2. CASE ~\E h \in Handlers : CountAttempt(h)
    BY <2>0, <2>2, AttemptsFall DEF TypeOK
  <2> QED
    BY <2>1, <2>2
<1> QED
  BY <1>1, <1>2, NominalInit, NominalStep, PTL DEF NominalSpec

(* A deletion comes of a verdict on a spent or unwanted task, of a sweep or  *)
(* of a run that ended.                                                      *)
LEMMA Deletions ==
  ASSUME NominalInv, [Untimed \/ NominalTick]_vars,
         NEW t \in Tasks, Exists(t), status'[t] \in Deleted
  PROVE  \E h \in Handlers :
           \/ at[h] = t /\ (DropSpent(h) \/ Abandon(h) \/ DropUnwanted(h) \/ FinishDelete(h))
           \/ at[h] = t /\ Enrich(h) /\ DeploymentOf[t] \in removed
           \/ RunSweeps(h) /\ t \in Sweepable(Dep(h))
<1> USE DEF taskVars
<1>0. /\ status[t] \in Stored /\ status'[t] # status[t] /\ status'[t] \notin Stored
      /\ status \in [Tasks -> {"UNSCHEDULED"} \cup Stored \cup Deleted]
  BY DEF Exists, Stored, Deleted, NominalInv, LockInv, TypeOK
<1>1. ~(NominalTick \/ Environment \/ UNCHANGED vars)
  BY <1>0 DEF NominalTick, TimelyTick, Tick, Countdown, vars, Environment, Schedule, ChangeIntent,
              Fulfil, RemoveDeployment, Crash, Stored
<1>2. PICK h \in Handlers : Handle(h)
  BY <1>1 DEF Untimed
<1>3. ~\E u \in Tasks : Claim(h, u)
  BY <1>0 DEF Claim, Stored
<1>4. ~(FlagError(h) \/ CountAttempt(h) \/ Dispatch(h) \/ RunEnds(h) \/ Unlock(h) \/ RunSigns(h)
        \/ RunSettles(h) \/ RunRequests(h) \/ CycleFails(h) \/ SettleFails(h))
  BY <1>0 DEF FlagError, CountAttempt, Dispatch, RunEnds, Unlock, RunSigns, RunSettles,
              RunRequests, CycleFails, SettleFails
<1>5. ~(AcquireLock(h) \/ Reschedule(h) \/ Park(h))
  BY <1>0 DEF AcquireLock, Reschedule, Park, Release, Stored
<1>6. ASSUME RunSweeps(h) PROVE t \in Sweepable(Dep(h))
  BY <1>0, <1>6 DEF RunSweeps
<1>7. ASSUME DropSpent(h) \/ Abandon(h) \/ DropUnwanted(h) \/ FinishDelete(h) PROVE at[h] = t
  BY <1>0, <1>7 DEF DropSpent, Abandon, DropUnwanted, FinishDelete, DeleteIfOwn, Delete
<1>8. ASSUME Enrich(h) PROVE at[h] = t /\ DeploymentOf[t] \in removed
  BY <1>0, <1>8 DEF Enrich, DeleteIfOwn, Delete, Dep
<1> QED
  BY <1>2, <1>3, <1>4, <1>5, <1>6, <1>7, <1>8 DEF Handle, Carry

(* A LIST whose jobs may land is spared: no sweep or verdict deletes it, and *)
(* the verdict's picture of "in flight" is still true when it is acted on.   *)
THEOREM InFlightKept == NominalSpec => InFlightListKept
<1>1. NominalInv /\ [Untimed \/ NominalTick]_vars =>
        [\A t \in Tasks :
           ListInFlight(t) /\ Exists(t) /\ status'[t] \in Deleted
             => \/ status'[t] = "COMPLETED"
                \/ FoundSpent(t)
                \/ DeploymentOf[t] \in removed]_vars
  <2> SUFFICES ASSUME NominalInv, [Untimed \/ NominalTick]_vars, NEW t \in Tasks,
                      ListInFlight(t), Exists(t), status'[t] \in Deleted
               PROVE  status'[t] = "COMPLETED" \/ FoundSpent(t) \/ DeploymentOf[t] \in removed
    OBVIOUS
  <2>1. PICK h \in Handlers :
           \/ at[h] = t /\ (DropSpent(h) \/ Abandon(h) \/ DropUnwanted(h) \/ FinishDelete(h))
           \/ at[h] = t /\ Enrich(h) /\ DeploymentOf[t] \in removed
           \/ RunSweeps(h) /\ t \in Sweepable(Dep(h))
    BY Deletions
  <2>2. Ready(h) /\ TypeOK
    BY DEF NominalInv, CarryInv, LockInv
  <2>3. CASE at[h] = t /\ (DropSpent(h) \/ Abandon(h))
    BY <2>3 DEF DropSpent, Abandon, FoundSpent
  <2>4. CASE at[h] = t /\ DropUnwanted(h)
    BY <2>2, <2>4 DEF DropUnwanted, Unwanted, Ready
  <2>5. CASE at[h] = t /\ FinishDelete(h)
    <3>1. ~OwnClaim(h) => status'[t] = status[t]
      BY <2>5 DEF FinishDelete, DeleteIfOwn, taskVars
    <3>2. OwnClaim(h) => status'[t] = "COMPLETED"
      BY <2>2, <2>5 DEF FinishDelete, DeleteIfOwn, Delete, TypeOK
    <3> QED
      BY <3>1, <3>2 DEF Exists, Stored, Deleted
  <2>6. CASE RunSweeps(h) /\ t \in Sweepable(Dep(h))
    BY <2>6 DEF Sweepable
  <2> QED
    BY <2>1, <2>3, <2>4, <2>5, <2>6
<1> QED
  BY <1>1, NominalInit, NominalStep, PTL DEF NominalSpec, InFlightListKept

(****************************************************************************)
(* The queue implements SerialQueue.                                        *)
(****************************************************************************)
Fate   == [t \in Tasks |-> IF Exists(t) THEN "QUEUED" ELSE status[t]]
Active == {at[h] : h \in Busy}
Done   == {at[h] : h \in Finishing}

LEMMA SerialVars == Serial!vars = <<Fate, Active, Done>>
BY DEF Serial!vars, Fate, Active, Done

(* Who is running a task or has it to remove carries it.                     *)
LEMMA BusyCarry == \A h \in Handlers : /\ h \in Busy <=> pc[h] \in {"running", "retrying", "parking"}
                                       /\ h \in Finishing <=> pc[h] = "finishing" /\ "delete" \in todo[h]
                                       /\ h \in Busy \/ h \in Finishing => Carrying(h)
BY DEF Busy, Finishing, Carrying

(* A step that leaves each handler where it is, as far as a run of its task  *)
(* goes, leaves the runs.                                                    *)
LEMMA SameRuns ==
  ASSUME \A g \in Handlers : /\ g \in Busy' <=> g \in Busy
                             /\ g \in Finishing' <=> g \in Finishing
                             /\ g \in Busy \/ g \in Finishing => at'[g] = at[g]
  PROVE  Active' = Active /\ Done' = Done
<1>1. Busy' = Busy /\ Finishing' = Finishing
  BY DEF Busy, Finishing
<1>2. \A g \in Busy \cup Finishing : g \in Handlers
  BY DEF Busy, Finishing
<1> QED
  BY <1>1, <1>2 DEF Active, Done

(* A step of one carrier moves its own task between the runs, and no other:  *)
(* nobody else has that task.                                                *)
LEMMA OneRun ==
  ASSUME CarryInv, NEW h \in Handlers, Carrying(h),
         \A g \in Handlers \ {h} : SameHandler(g),
         Carrying(h)' => at'[h] = at[h]
  PROVE  /\ at[h] \in Active <=> h \in Busy
         /\ at[h] \in Done <=> h \in Finishing
         /\ h \in Busy' => Active' = Active \cup {at[h]}
         /\ h \notin Busy' => Active' = Active \ {at[h]}
         /\ h \in Finishing' => Done' = Done \cup {at[h]}
         /\ h \notin Finishing' => Done' = Done \ {at[h]}
         /\ h \notin Busy /\ h \notin Busy' => Active' = Active
         /\ h \notin Finishing /\ h \notin Finishing' => Done' = Done
<1>1. \A g \in Handlers \ {h} : g \in Busy \/ g \in Finishing => at[g] # at[h]
  BY BusyCarry DEF CarryInv, Uncontested
<1>2. ASSUME NEW g \in Handlers \ {h}
      PROVE  /\ g \in Busy' <=> g \in Busy
             /\ g \in Finishing' <=> g \in Finishing
             /\ at'[g] = at[g]
  BY DEF SameHandler, Busy, Finishing
<1>3. h \in Busy' \/ h \in Finishing' => at'[h] = at[h]
  BY DEF Busy, Finishing, Carrying
<1>4. Busy \subseteq Handlers /\ Finishing \subseteq Handlers
      /\ Busy' \subseteq Handlers /\ Finishing' \subseteq Handlers
  BY DEF Busy, Finishing
<1>5. at[h] \in Active <=> h \in Busy
  BY <1>1, <1>4 DEF Active
<1>6. at[h] \in Done <=> h \in Finishing
  BY <1>1, <1>4 DEF Done
<1>7. /\ h \in Busy' => Active' = Active \cup {at[h]}
      /\ h \notin Busy' => Active' = Active \ {at[h]}
  <2>1. ASSUME NEW u
        PROVE  u \in Active' <=> (u \in Active /\ u # at[h]) \/ (h \in Busy' /\ u = at[h])
    <3>1. u \in Active' <=> \E g \in Handlers : g \in Busy' /\ u = at'[g]
      BY <1>4 DEF Active
    <3>2. u \in Active <=> \E g \in Handlers : g \in Busy /\ u = at[g]
      BY <1>4 DEF Active
    <3>3. CASE u = at[h]
      BY <1>1, <1>2, <1>3, <3>1, <3>3
    <3>4. CASE u # at[h]
      BY <1>2, <1>3, <3>1, <3>2, <3>4
    <3> QED
      BY <3>3, <3>4
  <2>2. ASSUME h \in Busy' PROVE Active' = Active \cup {at[h]}
    BY <2>1, <2>2
  <2>3. ASSUME h \notin Busy' PROVE Active' = Active \ {at[h]}
    BY <2>1, <2>3
  <2> QED
    BY <2>2, <2>3
<1>8. /\ h \in Finishing' => Done' = Done \cup {at[h]}
      /\ h \notin Finishing' => Done' = Done \ {at[h]}
  <2>1. ASSUME NEW u
        PROVE  u \in Done' <=> (u \in Done /\ u # at[h]) \/ (h \in Finishing' /\ u = at[h])
    <3>1. u \in Done' <=> \E g \in Handlers : g \in Finishing' /\ u = at'[g]
      BY <1>4 DEF Done
    <3>2. u \in Done <=> \E g \in Handlers : g \in Finishing /\ u = at[g]
      BY <1>4 DEF Done
    <3>3. CASE u = at[h]
      BY <1>1, <1>2, <1>3, <3>1, <3>3
    <3>4. CASE u # at[h]
      BY <1>2, <1>3, <3>1, <3>2, <3>4
    <3> QED
      BY <3>3, <3>4
  <2>2. ASSUME h \in Finishing' PROVE Done' = Done \cup {at[h]}
    BY <2>1, <2>2
  <2>3. ASSUME h \notin Finishing' PROVE Done' = Done \ {at[h]}
    BY <2>1, <2>3
  <2> QED
    BY <2>2, <2>3
<1>9. h \notin Busy /\ h \notin Busy' => Active' = Active
  BY <1>5, <1>7
<1>10. h \notin Finishing /\ h \notin Finishing' => Done' = Done
  BY <1>6, <1>8
<1> QED
  BY <1>5, <1>6, <1>7, <1>8, <1>9, <1>10

(* A step that deletes no document and schedules none leaves the fates.      *)
LEMMA SameFate ==
  ASSUME TypeOK, \A t \in Tasks : status'[t] = status[t] \/ (Exists(t) /\ status'[t] \in Stored)
  PROVE  Fate' = Fate
BY DEF Fate, Exists

(* The deletion of one task.                                                 *)
LEMMA DeleteFate ==
  ASSUME TypeOK, NEW t \in Tasks, NEW why \in Deleted, Delete(t, why)
  PROVE  Fate' = [Fate EXCEPT ![t] = why]
BY DEF Fate, Exists, Delete, TypeOK, Stored, Deleted

(* SerialQueue's steps, in the terms of the map.                             *)
LEMMA AsSubmit ==
  ASSUME NEW t \in Tasks, Fate[t] = "UNSCHEDULED", Fate' = [Fate EXCEPT ![t] = "QUEUED"],
         UNCHANGED <<Active, Done>>
  PROVE  [Serial!Next]_(Serial!vars)
<1>1. Serial!Submit(t)
  BY DEF Serial!Submit, Fate, Active, Done
<1> QED
  BY <1>1 DEF Serial!Next

LEMMA AsStart ==
  ASSUME NEW t \in Tasks, Fate[t] = "QUEUED", t \notin Done,
         \A u \in Active : DeploymentOf[u] # DeploymentOf[t],
         Active' = Active \cup {t}, UNCHANGED <<Fate, Done>>
  PROVE  [Serial!Next]_(Serial!vars)
<1>1. Serial!Start(t)
  BY DEF Serial!Start, Fate, Active, Done
<1> QED
  BY <1>1 DEF Serial!Next

LEMMA AsComplete ==
  ASSUME NEW t \in Tasks, t \in Active, Active' = Active \ {t}, Done' = Done \cup {t},
         UNCHANGED Fate
  PROVE  [Serial!Next]_(Serial!vars)
<1>1. Serial!Complete(t)
  BY DEF Serial!Complete, Fate, Active, Done
<1> QED
  BY <1>1 DEF Serial!Next

LEMMA AsRemove ==
  ASSUME NEW t \in Tasks, t \in Done, Done' = Done \ {t},
         Fate' = [Fate EXCEPT ![t] = IF @ = "QUEUED" THEN "COMPLETED" ELSE @],
         UNCHANGED Active
  PROVE  [Serial!Next]_(Serial!vars)
<1>1. Serial!Remove(t)
  BY DEF Serial!Remove, Fate, Active, Done
<1> QED
  BY <1>1 DEF Serial!Next

LEMMA AsGiveBack ==
  ASSUME NEW S \in SUBSET Tasks, Active' = Active \ S, Done' = Done \ S, UNCHANGED Fate
  PROVE  [Serial!Next]_(Serial!vars)
<1>1. CASE S # {}
  <2>1. Serial!GiveBack(S)
    BY <1>1 DEF Serial!GiveBack, Fate, Active, Done
  <2> QED
    BY <2>1 DEF Serial!Next
<1>2. CASE S = {}
  <2>1. Active' = Active /\ Done' = Done
    BY <1>2
  <2> QED
    BY <2>1 DEF Serial!vars, Fate, Active, Done
<1> QED
  BY <1>1, <1>2

LEMMA AsDiscard ==
  ASSUME NEW S \in SUBSET Tasks, S # {}, NEW why \in {"DROPPED", "ABANDONED"},
         \A t \in S : Fate[t] = "QUEUED" /\ t \notin Active,
         Fate' = [t \in Tasks |-> IF t \in S THEN why ELSE Fate[t]],
         UNCHANGED <<Active, Done>>
  PROVE  [Serial!Next]_(Serial!vars)
<1>1. Serial!Discard(S, why)
  BY DEF Serial!Discard, Fate, Active, Done
<1> QED
  BY <1>1 DEF Serial!Next

(* Steps that neither start nor end a run, nor a document.                   *)
LEMMA StutterRefines ==
  ASSUME Fate' = Fate, Active' = Active, Done' = Done
  PROVE  [Serial!Next]_(Serial!vars)
BY DEF Serial!vars, Fate, Active, Done

(* A carrier that has not dispatched its task drops it or gives it up, or is *)
(* refused because there is no document left.                                *)
LEMMA VerdictRefines ==
  ASSUME TypeOK, CarryInv, NEW h \in Handlers, Carrying(h), at[h] \in Tasks,
         h \notin Busy, h \notin Finishing, ~Carrying(h)',
         \A g \in Handlers \ {h} : SameHandler(g),
         NEW why \in {"DROPPED", "ABANDONED"},
         \/ Exists(at[h]) /\ Delete(at[h], why)
         \/ UNCHANGED taskVars
  PROVE  [Serial!Next]_(Serial!vars)
<1>1. h \notin Busy' /\ h \notin Finishing'
  BY DEF Busy, Finishing, Carrying
<1>2. at[h] \notin Active /\ Active' = Active /\ Done' = Done
  BY <1>1, OneRun
<1>3. CASE UNCHANGED taskVars
  <2>1. Fate' = Fate
    BY <1>3, SameFate DEF taskVars
  <2> QED
    BY <1>2, <2>1, StutterRefines
<1>4. CASE Exists(at[h]) /\ Delete(at[h], why)
  <2>1. Fate[at[h]] = "QUEUED"
    BY <1>4 DEF Fate
  <2>2. Fate' = [Fate EXCEPT ![at[h]] = why]
    BY <1>4, DeleteFate DEF Deleted
  <2>3. Fate' = [t \in Tasks |-> IF t \in {at[h]} THEN why ELSE Fate[t]]
    BY <2>2 DEF Fate
  <2>4. {at[h]} \in SUBSET Tasks /\ {at[h]} # {}
    OBVIOUS
  <2> QED
    BY <1>2, <2>1, <2>3, <2>4, AsDiscard
<1> QED
  BY <1>3, <1>4

(* The dispatch starts a run: under the lock no other of the deployment goes.*)
LEMMA DispatchRefines ==
  ASSUME NominalInv, NEW h \in Handlers, Dispatch(h)
  PROVE  [Serial!Next]_(Serial!vars)
<1>1. /\ CarryInv /\ TypeOK /\ MutualExclusion
      /\ pc[h] = "counted" /\ pc'[h] = "running" /\ at'[h] = at[h] /\ at[h] \in Tasks
      /\ \A g \in Handlers \ {h} : SameHandler(g)
  BY GotoTouches DEF Dispatch, NominalInv, LockInv, TypeOK
<1>2. /\ Carrying(h) /\ h \notin Busy /\ h \notin Finishing
      /\ h \in Busy' /\ h \notin Finishing'
  BY <1>1 DEF Carrying, Busy, Finishing
<1>3. at[h] \notin Done /\ Active' = Active \cup {at[h]} /\ Done' = Done
  BY <1>1, <1>2, OneRun
<1>4. Fate' = Fate
  BY <1>1, SameFate DEF Dispatch, taskVars
<1>5. Fate[at[h]] = "QUEUED"
  BY <1>1 DEF Fate, CarryInv, Ready, Counting
<1>6. ASSUME NEW u \in Active PROVE DeploymentOf[u] # DeploymentOf[at[h]]
  <2>1. PICK g \in Handlers : g \in Busy /\ u = at[g]
    BY <1>6 DEF Active, Busy
  <2> QED
    BY <1>1, <1>2, <2>1 DEF MutualExclusion, HoldsLock, Busy, Dep
<1> QED
  BY <1>1, <1>3, <1>4, <1>5, <1>6, AsStart

(* A STOP's sweep drops tasks nobody runs.                                   *)
LEMMA SweepRefines ==
  ASSUME NominalInv, NEW h \in Handlers, RunSweeps(h)
  PROVE  [Serial!Next]_(Serial!vars)
<1> DEFINE S == Sweepable(Dep(h))
<1>1. /\ TypeOK /\ MutualExclusion /\ pc[h] = "running" /\ KindOf[at[h]] = "STOP"
      /\ S \in SUBSET Tasks /\ S # {}
      /\ UNCHANGED <<pc, at, todo>>
      /\ status' = [t \in Tasks |-> IF t \in S THEN "DROPPED" ELSE status[t]]
  BY DEF RunSweeps, NominalInv, LockInv, Sweepable
<1>2. \A t \in S : Exists(t) /\ DeploymentOf[t] = Dep(h) /\ t # at[h]
  BY <1>1 DEF Sweepable
<1> HIDE DEF S
<1>3. Active' = Active /\ Done' = Done
  BY <1>1 DEF Active, Done, Busy, Finishing
<1>4. ASSUME NEW t \in S PROVE t \notin Active
  <2> SUFFICES ASSUME NEW g \in Handlers, g \in Busy, t = at[g] PROVE FALSE
    BY DEF Active, Busy
  <2>1. HoldsLock(g) /\ HoldsLock(h) /\ Dep(g) = Dep(h)
    BY <1>1, <1>2, <1>4 DEF HoldsLock, Busy, Dep
  <2>2. g # h
    BY <1>2, <1>4
  <2> QED
    BY <1>1, <2>1, <2>2 DEF MutualExclusion
<1>5. Fate' = [t \in Tasks |-> IF t \in S THEN "DROPPED" ELSE Fate[t]]
  BY <1>1 DEF Fate, Exists, Stored
<1>6. \A t \in S : Fate[t] = "QUEUED"
  BY <1>1, <1>2 DEF Fate
<1> QED
  BY <1>1, <1>3, <1>4, <1>5, <1>6, AsDiscard

(* A run that ends completed its task, or gives it back.                     *)
LEMMA EndRefines ==
  ASSUME NominalInv, NEW h \in Handlers, RunEnds(h)
  PROVE  [Serial!Next]_(Serial!vars)
<1>1. /\ CarryInv /\ TypeOK
      /\ pc[h] = "running" /\ at'[h] = at[h] /\ at[h] \in Tasks
      /\ \A g \in Handlers \ {h} : SameHandler(g)
      /\ \/ pc'[h] = "finishing" /\ todo'[h] \in {{"delete", "unlock"}, {"unlock"}}
         \/ pc'[h] \in {"retrying", "parking"}
  BY TeardownTouches DEF RunEnds, NominalInv, LockInv, TypeOK
<1>2. Carrying(h) /\ h \in Busy /\ h \notin Finishing
  BY <1>1 DEF Carrying, Busy, Finishing
<1>3. /\ at[h] \in Active /\ at[h] \notin Done
      /\ h \in Busy' => Active' = Active \cup {at[h]}
      /\ h \notin Busy' => Active' = Active \ {at[h]}
      /\ h \in Finishing' => Done' = Done \cup {at[h]}
      /\ h \notin Finishing' => Done' = Done \ {at[h]}
  BY <1>1, <1>2, OneRun
<1>4. Fate' = Fate
  BY <1>1, SameFate DEF RunEnds, taskVars
<1>5. CASE pc'[h] \in {"retrying", "parking"}
  <2>1. h \in Busy' /\ h \notin Finishing'
    BY <1>5 DEF Busy, Finishing
  <2>2. Active' = Active /\ Done' = Done
    BY <1>3, <2>1
  <2> QED
    BY <1>4, <2>2, StutterRefines
<1>6. CASE pc'[h] = "finishing" /\ todo'[h] = {"delete", "unlock"}
  <2>1. h \notin Busy' /\ h \in Finishing'
    BY <1>6 DEF Busy, Finishing
  <2>2. Active' = Active \ {at[h]} /\ Done' = Done \cup {at[h]}
    BY <1>3, <2>1
  <2> QED
    BY <1>1, <1>3, <1>4, <2>2, AsComplete
<1>7. CASE pc'[h] = "finishing" /\ todo'[h] = {"unlock"}
  <2>1. h \notin Busy' /\ h \notin Finishing'
    BY <1>7 DEF Busy, Finishing
  <2>2. Active' = Active \ {at[h]} /\ Done' = Done \ {at[h]}
    BY <1>3, <2>1
  <2>3. {at[h]} \in SUBSET Tasks
    BY <1>1
  <2> QED
    BY <1>4, <2>2, <2>3, AsGiveBack
<1> QED
  BY <1>1, <1>5, <1>6, <1>7

(* A retry, a park and a settlement that failed give the task back.          *)
LEMMA GiveBackRefines ==
  ASSUME CarryInv, TypeOK, NEW h \in Handlers, Carrying(h), at[h] \in Tasks,
         \A g \in Handlers \ {h} : SameHandler(g), ~Carrying(h)', Fate' = Fate
  PROVE  [Serial!Next]_(Serial!vars)
<1>1. h \notin Busy' /\ h \notin Finishing'
  BY DEF Busy, Finishing, Carrying
<1>2. Active' = Active \ {at[h]} /\ Done' = Done \ {at[h]}
  BY <1>1, OneRun
<1>3. {at[h]} \in SUBSET Tasks
  OBVIOUS
<1> QED
  BY <1>2, <1>3, AsGiveBack

(* The deletion of a completed task is refused only if a sweep came first.   *)
LEMMA FinishRefines ==
  ASSUME NominalInv, NEW h \in Handlers, FinishDelete(h)
  PROVE  [Serial!Next]_(Serial!vars)
<1>1. /\ CarryInv /\ TypeOK /\ at[h] \in Tasks
      /\ pc[h] = "finishing" /\ "delete" \in todo[h]
      /\ \A g \in Handlers \ {h} : SameHandler(g)
      /\ pc'[h] = "idle" \/ (pc'[h] = pc[h] /\ at'[h] = at[h] /\ todo'[h] = todo[h] \ {"delete"})
  BY AfterWriteTouches DEF FinishDelete, NominalInv, LockInv, TypeOK
<1>2. /\ Carrying(h) /\ h \notin Busy /\ h \in Finishing
      /\ h \notin Busy' /\ h \notin Finishing' /\ ~Carrying(h)'
  BY <1>1 DEF Carrying, Busy, Finishing
<1>3. at[h] \in Done /\ Done' = Done \ {at[h]} /\ Active' = Active
  BY <1>1, <1>2, OneRun
<1>4. Fate' = [Fate EXCEPT ![at[h]] = IF @ = "QUEUED" THEN "COMPLETED" ELSE @]
  <2>1. CASE OwnClaim(h)
    <3>1. Delete(at[h], "COMPLETED") /\ Exists(at[h])
      BY <2>1 DEF FinishDelete, DeleteIfOwn, OwnClaim, ClaimedBy
    <3>2. Fate' = [Fate EXCEPT ![at[h]] = "COMPLETED"]
      BY <1>1, <3>1, DeleteFate DEF Deleted
    <3> QED
      BY <1>1, <3>1, <3>2 DEF Fate
  <2>2. CASE ~OwnClaim(h)
    <3>1. ~Exists(at[h])
      BY <1>1, <1>2, <2>2 DEF CarryInv, Ready
    <3>2. Fate' = Fate
      BY <1>1, <2>2, SameFate DEF FinishDelete, DeleteIfOwn, taskVars
    <3>3. Fate[at[h]] # "QUEUED"
      BY <1>1, <3>1 DEF Fate, TypeOK, Exists, Stored, Deleted
    <3> QED
      BY <3>2, <3>3 DEF Fate
  <2> QED
    BY <2>1, <2>2
<1> QED
  BY <1>1, <1>3, <1>4, AsRemove

(* Every step of a nominal queue is a step of SerialQueue, or none.          *)
LEMMA SerialStep == NominalInv /\ [Untimed \/ NominalTick]_vars => [Serial!Next]_(Serial!vars)
<1> SUFFICES ASSUME NominalInv, [Untimed \/ NominalTick]_vars PROVE [Serial!Next]_(Serial!vars)
  OBVIOUS
<1>typed. TypeOK /\ CarryInv /\ \A g \in Handlers : Carrying(g) => at[g] \in Tasks
  BY DEF NominalInv, LockInv, TypeOK, Carrying
<1>1. ASSUME NEW h \in Handlers, NEW t \in Tasks, Claim(h, t) PROVE [Serial!Next]_(Serial!vars)
  <2>1. \A u \in Tasks : status'[u] = status[u] \/ (Exists(u) /\ status'[u] \in Stored)
    BY <1>1, <1>typed DEF Claim, Claimable, Exists, Stored, TypeOK
  <2>2. Active' = Active /\ Done' = Done
    BY <1>1, <1>typed, SameRuns DEF Claim, Busy, Finishing, TypeOK
  <2> QED
    BY <1>typed, <2>1, <2>2, SameFate, StutterRefines
<1>2. ASSUME NEW h \in Handlers, DropSpent(h) PROVE [Serial!Next]_(Serial!vars)
  <2>1. Carrying(h) /\ h \notin Busy /\ h \notin Finishing
    BY <1>2 DEF DropSpent, Carrying, Busy, Finishing
  <2>2. (\A g \in Handlers \ {h} : SameHandler(g)) /\ ~Carrying(h)'
    BY <1>2, <1>typed, LeaveTouches DEF DropSpent
  <2>3. (Exists(at[h]) /\ Delete(at[h], "DROPPED")) \/ UNCHANGED taskVars
    BY <1>2 DEF DropSpent, DeleteIfOwn, OwnClaim, ClaimedBy, taskVars
  <2> QED
    BY <1>typed, <2>1, <2>2, <2>3, VerdictRefines
<1>3. ASSUME NEW h \in Handlers, Abandon(h) PROVE [Serial!Next]_(Serial!vars)
  <2>1. Carrying(h) /\ h \notin Busy /\ h \notin Finishing
    BY <1>3 DEF Abandon, Carrying, Busy, Finishing
  <2>2. (\A g \in Handlers \ {h} : SameHandler(g)) /\ ~Carrying(h)'
    BY <1>3, <1>typed, GotoTouches DEF Abandon, Carrying
  <2>3. (Exists(at[h]) /\ Delete(at[h], "ABANDONED")) \/ UNCHANGED taskVars
    BY <1>3 DEF Abandon, taskVars
  <2> QED
    BY <1>typed, <2>1, <2>2, <2>3, VerdictRefines
<1>4. ASSUME NEW h \in Handlers, DropUnwanted(h) PROVE [Serial!Next]_(Serial!vars)
  <2>1. Carrying(h) /\ h \notin Busy /\ h \notin Finishing
    BY <1>4 DEF DropUnwanted, Carrying, Busy, Finishing
  <2>2. (\A g \in Handlers \ {h} : SameHandler(g)) /\ ~Carrying(h)'
    BY <1>4, <1>typed, TeardownTouches DEF DropUnwanted, Carrying
  <2>3. (Exists(at[h]) /\ Delete(at[h], "DROPPED")) \/ UNCHANGED taskVars
    BY <1>4 DEF DropUnwanted, DeleteIfOwn, OwnClaim, ClaimedBy, taskVars
  <2> QED
    BY <1>typed, <2>1, <2>2, <2>3, VerdictRefines
<1>5. ASSUME NEW h \in Handlers, Enrich(h) PROVE [Serial!Next]_(Serial!vars)
  <2>1. Carrying(h) /\ h \notin Busy /\ h \notin Finishing
    BY <1>5 DEF Enrich, Carrying, Busy, Finishing
  <2>2. CASE Exists(at[h]) /\ Dep(h) \notin removed
    <3>1. Fate' = Fate
      BY <1>5, <1>typed, <2>2, SameFate DEF Enrich, taskVars
    <3>2. Active' = Active /\ Done' = Done
      BY <1>5, <1>typed, <2>2, SameRuns DEF Enrich, Busy, Finishing, TypeOK
    <3> QED
      BY <3>1, <3>2, StutterRefines
  <2>3. CASE ~(Exists(at[h]) /\ Dep(h) \notin removed)
    <3>1. (\A g \in Handlers \ {h} : SameHandler(g)) /\ ~Carrying(h)'
      BY <1>5, <1>typed, <2>3, LeaveTouches DEF Enrich
    <3>2. (Exists(at[h]) /\ Delete(at[h], "DROPPED")) \/ UNCHANGED taskVars
      BY <1>5, <2>3 DEF Enrich, DeleteIfOwn, OwnClaim, ClaimedBy, taskVars
    <3> QED
      BY <1>typed, <2>1, <3>1, <3>2, VerdictRefines
  <2> QED
    BY <2>2, <2>3
<1>6. ASSUME NEW h \in Handlers, AcquireLock(h) PROVE [Serial!Next]_(Serial!vars)
  <2>1. \A u \in Tasks : status'[u] = status[u] \/ (Exists(u) /\ status'[u] \in Stored)
    BY <1>6, <1>typed DEF AcquireLock, Release, Exists, Stored, TypeOK, taskVars
  <2>2. Active' = Active /\ Done' = Done
    BY <1>6, <1>typed, SameRuns DEF AcquireLock, Goto, LeaveTask, Busy, Finishing, TypeOK
  <2> QED
    BY <1>typed, <2>1, <2>2, SameFate, StutterRefines
<1>7. ASSUME NEW h \in Handlers,
             FlagError(h) \/ CountAttempt(h) \/ RunSigns(h) \/ RunSettles(h) \/ RunRequests(h)
               \/ CycleFails(h)
      PROVE  [Serial!Next]_(Serial!vars)
  <2>1. UNCHANGED status
    BY <1>7 DEF FlagError, CountAttempt, RunSigns, RunSettles, RunRequests, CycleFails, taskVars
  <2>2. CASE FlagError(h) \/ CycleFails(h)
    BY <1>typed, <2>1, <2>2, SameFate, SameRuns, StutterRefines
       DEF FlagError, CycleFails, LeaveTask, Busy, Finishing, TypeOK
  <2>3. CASE CountAttempt(h)
    BY <1>typed, <2>1, <2>3, SameFate, SameRuns, StutterRefines
       DEF CountAttempt, Goto, Teardown, Busy, Finishing, TypeOK
  <2>4. CASE RunSigns(h) \/ RunSettles(h) \/ RunRequests(h)
    BY <1>typed, <2>1, <2>4, SameFate, SameRuns, StutterRefines
       DEF RunSigns, RunSettles, RunRequests, Busy, Finishing
  <2> QED
    BY <1>7, <2>2, <2>3, <2>4
<1>8. ASSUME NEW h \in Handlers, Dispatch(h) PROVE [Serial!Next]_(Serial!vars)
  BY <1>8, DispatchRefines
<1>9. ASSUME NEW h \in Handlers, RunEnds(h) PROVE [Serial!Next]_(Serial!vars)
  BY <1>9, EndRefines
<1>10. ASSUME NEW h \in Handlers, Reschedule(h) \/ Park(h) PROVE [Serial!Next]_(Serial!vars)
  <2>1. pc[h] \in {"retrying", "parking"} /\ Goto(h, "finishing") /\ Carrying(h)
    BY <1>10 DEF Reschedule, Park, Carrying
  <2>2. (\A g \in Handlers \ {h} : SameHandler(g)) /\ ~Carrying(h)'
    BY <1>typed, <2>1, GotoTouches DEF CarryInv, Ready, Carrying
  <2>3. \A u \in Tasks : status'[u] = status[u] \/ (Exists(u) /\ status'[u] \in Stored)
    BY <1>10, <1>typed DEF Reschedule, Park, Release, OwnClaim, ClaimedBy, Exists, Stored, TypeOK, taskVars
  <2> QED
    BY <1>typed, <2>1, <2>2, <2>3, SameFate, GiveBackRefines
<1>11. ASSUME NEW h \in Handlers, FinishDelete(h) PROVE [Serial!Next]_(Serial!vars)
  BY <1>11, FinishRefines
<1>12. ASSUME NEW h \in Handlers, Unlock(h) PROVE [Serial!Next]_(Serial!vars)
  <2>1. Active' = Active /\ Done' = Done
    BY <1>12, <1>typed, SameRuns DEF Unlock, AfterWrite, LeaveTask, Busy, Finishing, TypeOK
  <2> QED
    BY <1>12, <1>typed, <2>1, SameFate, StutterRefines DEF Unlock, taskVars
<1>13. ASSUME NEW h \in Handlers, RunSweeps(h) PROVE [Serial!Next]_(Serial!vars)
  BY <1>13, SweepRefines
<1>14. ASSUME NEW h \in Handlers, SettleFails(h) PROVE [Serial!Next]_(Serial!vars)
  <2>1. Fate' = Fate
    BY <1>14, <1>typed, SameFate DEF SettleFails, taskVars
  <2>2. CASE pc[h] \in {"retrying", "parking"} /\ Goto(h, "finishing")
    <3>1. (\A g \in Handlers \ {h} : SameHandler(g)) /\ ~Carrying(h)' /\ Carrying(h)
      BY <1>typed, <2>2, GotoTouches DEF CarryInv, Ready, Carrying
    <3> QED
      BY <1>typed, <2>1, <3>1, GiveBackRefines
  <2>3. CASE pc[h] = "finishing" /\ "delete" \in todo[h] /\ AfterWrite(h, "delete")
    <3>1. (\A g \in Handlers \ {h} : SameHandler(g)) /\ ~Carrying(h)' /\ Carrying(h)
      BY <1>typed, <2>3, AfterWriteTouches DEF Carrying
    <3> QED
      BY <1>typed, <2>1, <3>1, GiveBackRefines
  <2>4. CASE pc[h] = "finishing" /\ "unlock" \in todo[h] /\ AfterWrite(h, "unlock")
    <3>1. Active' = Active /\ Done' = Done
      BY <1>typed, <2>4, SameRuns DEF AfterWrite, LeaveTask, Busy, Finishing, TypeOK
    <3> QED
      BY <2>1, <3>1, StutterRefines
  <2>5. todo[h] \subseteq {"delete", "unlock"}
    BY <1>typed DEF TypeOK
  <2> QED
    BY <1>14, <2>2, <2>3, <2>4, <2>5 DEF SettleFails
<1>15. ASSUME NEW t \in Tasks, Schedule(t) PROVE [Serial!Next]_(Serial!vars)
  <2>1. Active' = Active /\ Done' = Done
    BY <1>15, SameRuns DEF Schedule, Busy, Finishing
  <2>2. Fate[t] = "UNSCHEDULED" /\ Fate' = [Fate EXCEPT ![t] = "QUEUED"]
    BY <1>15, <1>typed DEF Schedule, Fate, Exists, Stored, TypeOK
  <2> QED
    BY <2>1, <2>2, AsSubmit
<1>16. ASSUME \/ \E t \in Tasks : ChangeIntent(t) \/ Fulfil(t)
              \/ \E d \in Deployments : RemoveDeployment(d)
              \/ UNCHANGED vars
              \/ NominalTick
       PROVE  [Serial!Next]_(Serial!vars)
  <2>1. UNCHANGED <<status, pc, at, todo>>
    BY <1>16 DEF ChangeIntent, Fulfil, RemoveDeployment, vars, taskVars, NominalTick, TimelyTick,
                 Tick, Countdown
  <2>2. Fate' = Fate
    BY <1>typed, <2>1, SameFate
  <2>3. Active' = Active /\ Done' = Done
    BY <2>1, SameRuns DEF Busy, Finishing
  <2> QED
    BY <2>2, <2>3, StutterRefines
<1>17. ASSUME NEW c \in Consumers, Crash(c) PROVE [Serial!Next]_(Serial!vars)
  <2>1. Fate' = Fate
    BY <1>17, <1>typed, SameFate DEF Crash, taskVars
  <2> DEFINE S == {t \in Tasks : \E h \in Handlers : ConsumerOf[h] = c /\ Carrying(h) /\ at[h] = t}
  <2>2. ASSUME NEW g \in Handlers
        PROVE  /\ g \in Busy' <=> g \in Busy /\ ConsumerOf[g] # c
               /\ g \in Finishing' <=> g \in Finishing /\ ConsumerOf[g] # c
               /\ ConsumerOf[g] # c => at'[g] = at[g]
    BY <1>17 DEF Crash, Busy, Finishing
  <2>3. ASSUME NEW g \in Handlers, g \in Busy \/ g \in Finishing
        PROVE  at[g] \in S <=> ConsumerOf[g] = c
    BY <1>typed, <2>3, BusyCarry DEF CarryInv, Uncontested
  <2>4. Busy \subseteq Handlers /\ Finishing \subseteq Handlers
        /\ Busy' \subseteq Handlers /\ Finishing' \subseteq Handlers
    BY DEF Busy, Finishing
  <2>5. S \in SUBSET Tasks
    OBVIOUS
  <2> HIDE DEF S
  <2>6. Active' = Active \ S
    <3>1. ASSUME NEW u PROVE u \in Active' <=> u \in Active \ S
      <4>1. u \in Active' <=> \E g \in Handlers : g \in Busy' /\ u = at'[g]
        BY <2>4 DEF Active
      <4>2. u \in Active <=> \E g \in Handlers : g \in Busy /\ u = at[g]
        BY <2>4 DEF Active
      <4> QED
        BY <2>2, <2>3, <4>1, <4>2
    <3> QED
      BY <3>1
  <2>7. Done' = Done \ S
    <3>1. ASSUME NEW u PROVE u \in Done' <=> u \in Done \ S
      <4>1. u \in Done' <=> \E g \in Handlers : g \in Finishing' /\ u = at'[g]
        BY <2>4 DEF Done
      <4>2. u \in Done <=> \E g \in Handlers : g \in Finishing /\ u = at[g]
        BY <2>4 DEF Done
      <4> QED
        BY <2>2, <2>3, <4>1, <4>2
    <3> QED
      BY <3>1
  <2> QED
    BY <2>1, <2>5, <2>6, <2>7, AsGiveBack
<1> QED
  BY <1>1, <1>2, <1>3, <1>4, <1>5, <1>6, <1>7, <1>8, <1>9, <1>10, <1>11, <1>12, <1>13, <1>14, <1>15, <1>16, <1>17 DEF Untimed, Handle, Carry, Environment

(* The queue keeps its promise: under the lock and the claims, with crashes, *)
(* lost writes, overlapping cycles, retries, parks and sweeps, it is a       *)
(* SerialQueue: runs of a deployment are serial, and a task leaves only by   *)
(* its own completed run, or dropped or given up while nobody runs it.       *)
THEOREM ImplementsSerialQueue == NominalSpec => SerialSpec
<1>1. Init => Serial!Init
  BY DEF Init, Serial!Init, Busy, Finishing, Exists, Stored
<1> QED
  BY <1>1, NominalInit, NominalStep, SerialStep, PTL DEF NominalSpec, SerialSpec, Serial!Spec
=============================================================================
