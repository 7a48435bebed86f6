-------------------------- MODULE Deployment_proofs --------------------------
(****************************************************************************)
(* Theorems about Deployment, for any strategies, replicas, revisions and   *)
(* bounds: what may bring an archived deployment back, and that no job that *)
(* lives is forgotten but by a task out of attempts.                        *)
(****************************************************************************)
EXTENDS Deployment, FiniteSetTheorems, TLAPS

(* A step may change an archived deployment's status only as the write of a *)
(* request.                                                                 *)
Archival == status = "ARCHIVED" /\ status' # status => request' # request

(* The routes: each consumes the request it answers.                        *)
LEMMA RouteArchival ==
  ASSUME Start \/ Stop \/ Archive \/ Swap \/ \E r \in Routes : Ask(r)
  PROVE  Archival
<1>1. CASE Start
  BY <1>1 DEF Start, Archival
<1>2. CASE Stop
  BY <1>2 DEF Stop, Archival
<1>3. CASE Archive \/ Swap
  BY <1>3 DEF Archive, Swap, Write, Archival
<1>4. CASE \E r \in Routes : Ask(r)
  BY <1>4 DEF Ask, doc, Archival
<1> QED
  BY <1>1, <1>2, <1>3, <1>4

(* The callbacks look the status up, and the finalizer's write spares it.   *)
LEMMA CallbackArchival ==
  ASSUME \/ StatusCallback \/ RevisionCallback
         \/ \E j \in Jobs : Finish(j) \/ Observe(j) \/ Callback(j)
  PROVE  Archival
<1>1. CASE StatusCallback
  BY <1>1 DEF StatusCallback, Launched, Archival
<1>2. CASE RevisionCallback
  BY <1>2 DEF RevisionCallback, Launched, Write, KeepStatus, Archival
<1>3. ASSUME NEW j \in Jobs, Finish(j) \/ Observe(j) \/ SettleCounts(j) PROVE Archival
  BY <1>3 DEF Finish, Observe, SettleCounts, doc, Archival
<1>4. ASSUME NEW j \in Jobs, SettleWrites(j) PROVE Archival
  BY <1>4 DEF SettleWrites, Spared, KeepStatus, Archival
<1> QED
  BY <1>1, <1>2, <1>3, <1>4 DEF Callback

(* The tasks: a funds error only marks a RUNNING deployment, its recovery   *)
(* only one that is marked, and an abandoned task not an archived one.      *)
LEMMA TaskArchival ==
  ASSUME \/ Work \/ Retry \/ Ban
         \/ \E t \in Slots : Claim(t) \/ Handle(t) \/ Abandon(t)
  PROVE  Archival
<1>1. CASE Post \/ Record \/ Complete \/ Kill
  BY <1>1 DEF Post, Record, Complete, Kill, doc, Archival
<1>2. CASE ListExit
  BY <1>2 DEF ListExit, Write, Restored, Archival
<1>3. CASE StopExit
  BY <1>3 DEF StopExit, Write, Restored, Archival
<1>4. CASE Retry
  BY <1>4 DEF Retry, Write, KeepStatus, Archival
<1>5. CASE Ban
  BY <1>5 DEF Ban, Write, Archival
<1>6. ASSUME NEW t \in Slots, Claim(t) \/ Handle(t) PROVE Archival
  BY <1>6 DEF Claim, Handle, Drop, RunList, RunStop, doc, Archival
<1>7. ASSUME NEW t \in Slots, Abandon(t) PROVE Archival
  BY <1>7 DEF Abandon, Write, Archival
<1> QED
  BY <1>1, <1>2, <1>3, <1>4, <1>5, <1>6, <1>7 DEF Work

(* No callback, task, finalizer, retry or abandon ever takes a deployment   *)
(* out of ARCHIVED, whatever is still queued, in flight or undelivered when *)
(* it is archived: only the write of a request that was let in before.      *)
THEOREM ArchivedForGood == Spec => ArchivedStays
<1>1. [Next]_vars => [Archival]_vars
  <2>1. Next => Archival
    BY RouteArchival, CallbackArchival, TaskArchival DEF Next
  <2> QED
    BY <2>1
<1> QED
  BY <1>1, PTL DEF Spec, ArchivedStays, Archival

-----------------------------------------------------------------------------
(* What a task is, and what the tasks are once some were inserted.          *)

TaskT == [kind : {"none", "LIST", "STOP"}, rev : {0} \cup Revisions,
          run : 0..MaxMoves[strategy], reason : {"none", "stop", "revision"},
          target : 0..Unset, frozen : BOOLEAN, stop : SUBSET Jobs,
          posted : SUBSET Jobs, retried : BOOLEAN, claimed : BOOLEAN, seen : SUBSET Jobs]

Fresh(new) == new \in TaskT /\ new.posted = {}
Grown(old, tasks) ==
  /\ tasks \in [Slots -> TaskT]
  /\ \A t \in Slots : tasks[t] = old[t] \/ (old[t] = NoTask /\ tasks[t].posted = {})

(* An inserted task takes a free slot and disturbs no other.                *)
LEMMA InsertGrows ==
  ASSUME NEW tasks \in [Slots -> TaskT], NEW new, Fresh(new), Room(tasks) # {}
  PROVE  Grown(tasks, Insert(tasks, new))
<1> DEFINE s == CHOOSE t \in Room(tasks) : TRUE
<1>1. s \in Room(tasks)
  OBVIOUS
<1>2. s \in Slots /\ tasks[s] = NoTask
  BY <1>1 DEF Room
<1>3. Insert(tasks, new) = [tasks EXCEPT ![s] = new]
  BY DEF Insert
<1> HIDE DEF s
<1> QED
  BY <1>2, <1>3 DEF Grown, Fresh

(* So does one inserted unless a PENDING task of its intent stands.         *)
LEMMA InsertOnceGrows ==
  ASSUME NEW tasks \in [Slots -> TaskT], NEW new, Fresh(new), Fits(tasks, new)
  PROVE  Grown(tasks, InsertOnce(tasks, new))
<1>1. CASE Queued(tasks, new)
  BY <1>1 DEF InsertOnce, Grown
<1>2. CASE ~Queued(tasks, new)
  BY <1>2, InsertGrows DEF InsertOnce, Fits
<1> QED
  BY <1>1, <1>2

LEMMA NewTasksFresh ==
  ASSUME TypeOK
  PROVE  /\ NoTask \in TaskT /\ NoTask.posted = {} /\ NoTask.target = Unset /\ NoTask.kind = "none"
         /\ ~NoTask.frozen
         /\ \A r \in {0} \cup Revisions :
              /\ \A why \in {"none", "revision"}, n \in 0..MaxMoves[strategy] :
                   Fresh(NewList(r, n, why))
              /\ \A why \in {"none", "stop", "revision"} : Fresh(NewStop(r, why))
<1>1. /\ Unset \in Nat /\ Unset \in 0..Unset
      /\ 0 \in 0..MaxMoves[strategy] /\ run \in 0..MaxMoves[strategy]
  BY DeploymentAssumption DEF Unset, TypeOK
<1>2. NoTask \in TaskT
  BY <1>1 DEF NoTask, TaskT
<1>3. /\ NoTask.posted = {} /\ NoTask.target = Unset /\ NoTask.kind = "none" /\ ~NoTask.frozen
  BY DEF NoTask
<1>4. ASSUME NEW r \in {0} \cup Revisions, NEW why \in {"none", "stop", "revision"},
             NEW n \in 0..MaxMoves[strategy]
      PROVE  Fresh(NewList(r, n, why)) /\ Fresh(NewStop(r, why))
  BY <1>1, <1>4 DEF Fresh, NewList, NewStop, NoTask, TaskT
<1> QED
  BY <1>1, <1>2, <1>3, <1>4

-----------------------------------------------------------------------------
(* What every step keeps.                                                   *)

(* The jobs a step forgets, it forgets as the abandoning of their task.     *)
StillKnown ==
  \A j \in live' \ Known' :
    j \in live \ Known \/ \E t \in Slots : Abandon(t) /\ j \in task[t].posted

Kept == TypeOK' /\ Coherent' /\ StillKnown

(* The task that holds the lock is stored.                                  *)
LEMMA CurrentStored ==
  ASSUME TypeOK, current # 0
  PROVE  current \in Slots /\ task[current] # NoTask
  BY DEF TypeOK, NoTask

LEMMA TaskTyping ==
  TypeOK <=> /\ strategy \in Strategies /\ status \in Status
             /\ run \in 0..MaxMoves[strategy] /\ rev \in Revisions
             /\ request \subseteq Routes /\ changes \in Nat /\ swaps \in Nat
             /\ task \in [Slots -> TaskT]
             /\ current \in {0} \cup Slots
             /\ step \in {"idle", "post", "record", "exit", "done", "kill", "retired"}
             /\ live \subseteq Jobs /\ active \subseteq Jobs
             /\ settling \in [Jobs -> {"none", "due", "quiet"}]
             /\ moves \in 0..MaxMoves[strategy] /\ forgot \in BOOLEAN
             /\ (step = "idle") <=> (current = 0)
             /\ current # 0 => task[current].frozen \/ task[current].target # Unset
  BY DEF TypeOK, TaskT

(* A step that only inserts tasks keeps what is known, and the run in hand. *)
LEMMA GrowthKeeps ==
  ASSUME TypeOK, Coherent, Grown(task, task'), UNCHANGED <<worker, live, active>>, run' <= moves'
  PROVE  /\ Coherent' /\ StillKnown
         /\ current # 0 => task'[current].frozen \/ task'[current].target # Unset
<1>1. UNCHANGED <<current, step, live, active>>
  BY DEF worker
<1>2. current # 0 => current \in Slots /\ task'[current] = task[current]
  BY CurrentStored DEF Grown
<1>3. \A t \in Slots : task'[t] = task[t] \/ (task[t] = NoTask /\ task'[t].posted = {})
  BY DEF Grown
<1>4. NoTask.posted = {}
  BY DEF NoTask
<1>5. \A t \in Slots : task'[t].posted = task[t].posted
  BY <1>3, <1>4
<1>6. StillKnown
  BY <1>1, <1>5 DEF StillKnown, Known
<1>7. current = 0 <=> step = "idle"
  BY DEF TypeOK
<1>8. Coherent'
  BY <1>1, <1>2, <1>3, <1>7 DEF Coherent
<1> QED
  BY <1>1, <1>2, <1>6, <1>8 DEF TypeOK

(* The document, the stream and the bounds stay typed.                      *)
ScalarsKept ==
  /\ strategy' = strategy /\ status' \in Status /\ rev' \in Revisions
  /\ run' \in 0..MaxMoves[strategy] /\ moves' \in 0..MaxMoves[strategy] /\ run' <= moves'
  /\ request' \subseteq Routes /\ changes' \in Nat /\ swaps' \in Nat /\ forgot' \in BOOLEAN

LEMMA GrowthIsKept ==
  ASSUME TypeOK, Coherent, Grown(task, task'), ScalarsKept, UNCHANGED <<worker, live, active>>,
         settling' \in [Jobs -> {"none", "due", "quiet"}]
  PROVE  Kept
<1>1. task' \in [Slots -> TaskT] /\ TaskT' = TaskT
  BY DEF Grown, ScalarsKept, TaskT
<1>2. UNCHANGED <<current, step, live, active>>
  BY DEF worker
<1>3. /\ Coherent' /\ StillKnown
      /\ current # 0 => task'[current].frozen \/ task'[current].target # Unset
  BY GrowthKeeps DEF ScalarsKept
<1>4. TypeOK'
  BY <1>1, <1>2, <1>3 DEF TypeOK, ScalarsKept, TaskT
<1> QED
  BY <1>3, <1>4 DEF Kept

LEMMA NoGrowth == ASSUME TypeOK, UNCHANGED task PROVE Grown(task, task')
  BY DEF TypeOK, Grown, TaskT

(* The routes and the settlements of a job touch neither tasks nor jobs.    *)
LEMMA RouteKeeps ==
  ASSUME TypeOK, Coherent, Start \/ Stop \/ Archive \/ Swap \/ \E r \in Routes : Ask(r)
  PROVE  Kept
<1>1. /\ run \in Int /\ moves \in Int /\ MaxMoves[strategy] \in Int /\ changes + 1 \in Nat
      /\ swaps + 1 \in Nat /\ run <= moves
  BY DeploymentAssumption DEF TypeOK, Coherent
<1>2. UNCHANGED <<task, worker, live, active, settling>>
  BY DEF Start, Stop, Archive, Swap, Ask, jobVars
<1>3. ASSUME Start PROVE ScalarsKept
  BY <1>1, <1>3 DEF Start, Write, Move, TypeOK, Status, ScalarsKept
<1>4. ASSUME Stop \/ Archive PROVE ScalarsKept
  BY <1>1, <1>4 DEF Stop, Archive, Write, TypeOK, Status, ScalarsKept, bounds
<1>5. ASSUME Swap PROVE ScalarsKept
  BY <1>1, <1>5 DEF Swap, Move, TypeOK, ScalarsKept
<1>6. ASSUME NEW r \in Routes, Ask(r) PROVE ScalarsKept
  <2>1. request' = {r} /\ UNCHANGED <<doc, changes, swaps, bounds>>
    BY <1>6 DEF Ask
  <2> QED
    BY <1>1, <2>1 DEF TypeOK, ScalarsKept, doc, bounds
<1> QED
  BY <1>2, <1>3, <1>4, <1>5, <1>6, NoGrowth, GrowthIsKept DEF TypeOK

LEMMA SettlementKeeps ==
  ASSUME TypeOK, Coherent, NEW j \in Jobs, Callback(j)
  PROVE  Kept
<1>1. run <= moves /\ changes + 1 \in Nat
  BY DEF TypeOK, Coherent
<1>2. UNCHANGED <<task, worker, live, active>>
  BY DEF Callback, SettleCounts, SettleWrites
<1>3. settling' \in [Jobs -> {"none", "due", "quiet"}]
  BY DEF Callback, SettleCounts, SettleWrites, TypeOK
<1>4. ASSUME SettleCounts(j) PROVE ScalarsKept
  BY <1>1, <1>4 DEF SettleCounts, TypeOK, ScalarsKept, doc, stream, bounds
<1>5. ASSUME SettleWrites(j) PROVE ScalarsKept
  BY <1>1, <1>5 DEF SettleWrites, KeepStatus, Write, Status, TypeOK, ScalarsKept
<1> QED
  BY <1>2, <1>3, <1>4, <1>5, NoGrowth, GrowthIsKept DEF Callback

(* A delivered change inserts the tasks of its callback.                    *)
LEMMA StatusCallbackKeeps ==
  ASSUME TypeOK, Coherent, StatusCallback
  PROVE  Kept
<1>1. /\ run <= moves /\ changes - 1 \in Nat /\ rev \in {0} \cup Revisions
      /\ run \in 0..MaxMoves[strategy] /\ task \in [Slots -> TaskT]
  BY TaskTyping DEF TypeOK, Coherent, StatusCallback
<1>2. UNCHANGED <<strategy, run, rev, request, swaps, worker, live, active, settling, moves, forgot>>
  BY DEF StatusCallback, jobVars, bounds
<1>3. status' \in Status /\ changes' \in Nat
  BY <1>1 DEF StatusCallback, Launched, Status, TypeOK
<1>4. ScalarsKept
  BY <1>1, <1>2, <1>3 DEF TypeOK, ScalarsKept
<1>5. Grown(task, task')
  <2>1. CASE status = "STARTING"
    <3>1. Room(task) # {} /\ task' = Insert(task, NewList(rev, run, "none"))
      BY <2>1 DEF StatusCallback
    <3> QED
      BY <1>1, <3>1, NewTasksFresh, InsertGrows
  <2>2. CASE status = "STOPPING"
    <3>1. Room(task) # {} /\ task' = Insert(task, NewStop(0, "stop"))
      BY <2>2 DEF StatusCallback
    <3> QED
      BY <1>1, <3>1, NewTasksFresh, InsertGrows
  <2>3. CASE status \notin {"STARTING", "STOPPING"}
    BY <2>3, NoGrowth DEF StatusCallback
  <2> QED
    BY <2>1, <2>2, <2>3
<1> QED
  BY <1>2, <1>4, <1>5, GrowthIsKept DEF TypeOK

LEMMA RevisionCallbackKeeps ==
  ASSUME TypeOK, Coherent, RevisionCallback
  PROVE  Kept
<1>1. /\ run <= moves /\ swaps - 1 \in Nat /\ changes + 1 \in Nat
      /\ rev \in {0} \cup Revisions /\ run \in 0..MaxMoves[strategy]
      /\ task \in [Slots -> TaskT]
  BY TaskTyping DEF TypeOK, Coherent, RevisionCallback
<1>2. UNCHANGED <<strategy, run, rev, request, worker, live, active, settling, moves, forgot>>
  BY DEF RevisionCallback, jobVars, bounds
<1>3. status' \in Status /\ changes' \in Nat /\ swaps' \in Nat
  BY <1>1 DEF RevisionCallback, Launched, KeepStatus, Write, Status, TypeOK
<1>4. ScalarsKept
  BY <1>1, <1>2, <1>3 DEF TypeOK, ScalarsKept
<1>5. Grown(task, task')
  <2>1. CASE status = "DRAFT"
    BY <2>1, NoGrowth DEF RevisionCallback
  <2>2. CASE status # "DRAFT"
    <3> DEFINE stop  == NewStop(rev, "revision")
               list  == NewList(rev, run, "revision")
               stops == InsertOnce(task, stop)
    <3>1. Fits(task, stop) /\ Fits(stops, list) /\ task' = InsertOnce(stops, list)
      BY <2>2 DEF RevisionCallback
    <3>2. Fresh(stop) /\ Fresh(list)
      BY <1>1, NewTasksFresh
    <3> HIDE DEF stop, list
    <3>3. Grown(task, stops)
      BY <1>1, <3>1, <3>2, InsertOnceGrows
    <3> HIDE DEF stops
    <3>4. Grown(stops, task')
      BY <3>1, <3>2, <3>3, InsertOnceGrows DEF Grown
    <3> QED
      BY <3>3, <3>4 DEF Grown
  <2> QED
    BY <2>1, <2>2
<1> QED
  BY <1>2, <1>4, <1>5, GrowthIsKept DEF TypeOK

(* Jobs ending, and the listener seeing it: it settles no row of a live one. *)
LEMMA JobKeeps ==
  ASSUME TypeOK, Coherent, NEW j \in Jobs, Finish(j) \/ Observe(j)
  PROVE  Kept
<1>1. UNCHANGED <<doc, stream, task, worker, bounds>> /\ live' \subseteq live
  BY DEF Finish, Observe
<1>2. UNCHANGED <<strategy, status, run, rev, request, changes, swaps, task, current, step, moves,
                  forgot>>
  BY <1>1 DEF doc, stream, worker, bounds
<1>3. /\ settling' \in [Jobs -> {"none", "due", "quiet"}]
      /\ active' \subseteq Jobs /\ live' \subseteq Jobs
  BY <1>1 DEF Finish, Observe, SettleRows, TypeOK
<1>4. \A k \in live' : k \in active => k \in active'
  BY DEF Finish, Observe, SettleRows
<1>5. Coherent'
  BY <1>1, <1>2 DEF Coherent
<1>6. StillKnown
  BY <1>1, <1>2, <1>4 DEF StillKnown, Known
<1>7. TypeOK'
  BY <1>2, <1>3 DEF TypeOK
<1> QED
  BY <1>5, <1>6, <1>7 DEF Kept

-----------------------------------------------------------------------------
(* The consumer.                                                            *)

(* The claims, the drops and the runs leave document, stream and jobs be.   *)
LEMMA ConsumerKeeps ==
  ASSUME TypeOK, Coherent, UNCHANGED <<doc, stream, jobVars, bounds>>,
         task' \in [Slots -> TaskT], current' \in {0} \cup Slots,
         step' \in {"idle", "post", "record", "exit", "done", "kill", "retired"},
         (step' = "idle") <=> (current' = 0),
         current' # 0 => task'[current'].frozen \/ task'[current'].target # Unset,
         \A t \in Slots : task'[t].posted = task[t].posted,
         Coherent'
  PROVE  Kept
<1>1. UNCHANGED <<strategy, status, run, rev, request, changes, swaps, live, active, settling, moves,
                  forgot>>
  BY DEF doc, stream, jobVars, bounds
<1>2. StillKnown
  BY <1>1 DEF StillKnown, Known
<1>3. TypeOK'
  BY <1>1 DEF TypeOK, TaskT
<1> QED
  BY <1>2, <1>3 DEF Kept

LEMMA ClaimKeeps ==
  ASSUME TypeOK, Coherent, NEW t \in Slots, Claim(t)
  PROVE  Kept
<1>1. /\ current # 0 /\ t # current /\ UNCHANGED <<doc, stream, worker, jobVars, bounds>>
      /\ task' = [task EXCEPT ![t].claimed = TRUE, ![t].seen = active]
  BY DEF Claim
<1>2. UNCHANGED <<current, step, live, run, moves>>
  BY <1>1 DEF worker, jobVars, doc, bounds
<1>3. task \in [Slots -> TaskT] /\ active \subseteq Jobs /\ current \in Slots
  BY <1>1, TaskTyping
<1> DEFINE e == [task[t] EXCEPT !.claimed = TRUE, !.seen = active]
<1>4a. /\ e \in TaskT /\ e.posted = task[t].posted /\ e.kind = task[t].kind /\ e.stop = task[t].stop
  BY <1>3 DEF TaskT
<1>4b. task' = [task EXCEPT ![t] = e]
  BY <1>1, <1>3 DEF TaskT
<1> HIDE DEF e
<1>4. task' \in [Slots -> TaskT]
  BY <1>4a, <1>4b, <1>3
<1>5. \A u \in Slots : /\ task'[u].posted = task[u].posted /\ task'[u].kind = task[u].kind
                       /\ task'[u].stop = task[u].stop /\ (u # t => task'[u] = task[u])
  BY <1>4a, <1>4b, <1>3
<1>6. Coherent'
  BY <1>2, <1>3, <1>5 DEF Coherent
<1> QED
  BY <1>1, <1>2, <1>3, <1>4, <1>5, <1>6, ConsumerKeeps DEF TypeOK

LEMMA DropKeeps ==
  ASSUME TypeOK, Coherent, NEW t \in Slots, Drop(t)
  PROVE  Kept
<1>1. /\ current = 0 /\ UNCHANGED <<doc, stream, worker, jobVars, bounds>> /\ ~InFlight(t)
      /\ task' = [task EXCEPT ![t] = NoTask]
  BY DEF Drop, Takes
<1>2. UNCHANGED <<current, step, live, run, moves>>
  BY <1>1 DEF worker, jobVars, doc, bounds
<1>3. task \in [Slots -> TaskT] /\ NoTask \in TaskT /\ NoTask.posted = {} /\ NoTask.kind = "none"
  BY NewTasksFresh, TaskTyping
<1>4. task' \in [Slots -> TaskT]
  BY <1>1, <1>3
<1>5. task[t].posted = {}
  BY <1>1 DEF InFlight, Coherent
<1>6. \A u \in Slots : /\ task'[u].posted = task[u].posted
                       /\ task'[u] = task[u] \/ task'[u].posted = {}
  BY <1>1, <1>3, <1>5
<1>7. step = "idle"
  BY <1>1 DEF TypeOK
<1>8. Coherent'
  BY <1>2, <1>6, <1>7 DEF Coherent
<1> QED
  BY <1>1, <1>2, <1>4, <1>6, <1>7, <1>8, ConsumerKeeps

LEMMA FiniteJobs == IsFiniteSet(Jobs)
<1>1. IsFiniteSet(1..MaxJobs)
  BY DeploymentAssumption, FS_Interval
<1> QED
  BY <1>1, DeploymentAssumption, FS_Product DEF Jobs

(* A LIST's frozen target is never mistaken for one not frozen yet.         *)
LEMMA TargetTyping ==
  ASSUME TypeOK, NEW t \in Slots
  PROVE  Target(t) \in 0..Replicas
<1> DEFINE have == {j \in Seen(t) : j[1] = task[t].rev}
<1>1. have \subseteq Jobs
  BY TaskTyping DEF Seen, TaskT
<1>2. Cardinality(have) \in Nat
  BY <1>1, FiniteJobs, FS_Subset, FS_CardinalityType
<1> QED
  BY <1>2, DeploymentAssumption DEF Target

LEMMA RunListKeeps ==
  ASSUME TypeOK, Coherent, NEW t \in Slots, RunList(t)
  PROVE  Kept
<1> DEFINE n == IF task[t].target = Unset THEN Target(t) ELSE task[t].target
<1>1. /\ current = 0 /\ task[t].kind = "LIST" /\ current' = t
      /\ UNCHANGED <<doc, stream, jobVars, bounds>>
      /\ task' = [task EXCEPT ![t].target = n, ![t].seen = {}, ![t].claimed = TRUE]
      /\ step' = IF InFlight(t) THEN "record" ELSE IF n = 0 THEN "exit" ELSE "post"
  BY DEF RunList, Takes, Lists
<1>2. UNCHANGED <<live, run, moves>>
  BY <1>1 DEF jobVars, doc, bounds
<1>3. task \in [Slots -> TaskT] /\ 0 \notin Slots
  BY TaskTyping DEF Slots
<1>4. n \in 0..Unset /\ n # Unset
  BY <1>3, TargetTyping, DeploymentAssumption DEF TaskT, Unset
<1> HIDE DEF n
<1> DEFINE e == [task[t] EXCEPT !.target = n, !.seen = {}, !.claimed = TRUE]
<1>4a. e \in TaskT /\ e.posted = task[t].posted /\ e.kind = task[t].kind /\ e.target = n
  BY <1>3, <1>4 DEF TaskT
<1>4b. task' = [task EXCEPT ![t] = e]
  BY <1>1, <1>3 DEF TaskT
<1> HIDE DEF e
<1>5. task' \in [Slots -> TaskT]
  BY <1>4a, <1>4b, <1>3
<1>6. \A u \in Slots : /\ task'[u].posted = task[u].posted /\ task'[u].kind = task[u].kind
  BY <1>4a, <1>4b, <1>3
<1>7. task'[t].target # Unset
  BY <1>4a, <1>4b, <1>3, <1>4
<1>8. ~InFlight(t) => task[t].posted = {}
  BY <1>1 DEF InFlight
<1>9. step' \in {"record", "exit", "post"} /\ (step' # "record" => task[t].posted = {})
  BY <1>1, <1>8
<1>10. Coherent'
  BY <1>1, <1>2, <1>6, <1>9 DEF Coherent
<1> QED
  BY <1>1, <1>3, <1>5, <1>6, <1>7, <1>9, <1>10, ConsumerKeeps

(* A stop's sweep drops no LIST with a job in flight.                       *)
LEMMA RunStopKeeps ==
  ASSUME TypeOK, Coherent, NEW t \in Slots, RunStop(t)
  PROVE  Kept
<1> DEFINE e == [task[t] EXCEPT !.claimed = TRUE, !.seen = {}, !.frozen = TRUE,
                                !.stop = IF task[t].frozen THEN @ ELSE Scope(t, Seen(t))]
<1>1. /\ current = 0 /\ task[t].kind = "STOP" /\ current' = t /\ step' = "kill"
      /\ UNCHANGED <<doc, stream, jobVars, bounds>>
      /\ task' = [u \in Slots |-> IF u = t THEN e
                    ELSE IF FullStop(t) /\ u \in Stored /\ Swept(u) THEN NoTask
                    ELSE task[u]]
  BY DEF RunStop, Takes
<1>2. UNCHANGED <<live, run, moves>>
  BY <1>1 DEF jobVars, doc, bounds
<1>3. /\ task \in [Slots -> TaskT] /\ 0 \notin Slots
      /\ NoTask \in TaskT /\ NoTask.posted = {} /\ NoTask.kind = "none"
  BY NewTasksFresh, TaskTyping DEF Slots
<1>4. Scope(t, Seen(t)) \subseteq Jobs
  BY TaskTyping DEF Scope, Seen, TaskT
<1>5. e \in TaskT /\ e.frozen /\ e.posted = task[t].posted /\ e.kind = task[t].kind
  BY <1>3, <1>4 DEF TaskT
<1> HIDE DEF e
<1>6. task' \in [Slots -> TaskT]
  BY <1>1, <1>3, <1>5
<1>7. \A u \in Slots : Swept(u) => task[u].posted = {}
  BY DEF Swept, InFlight, Coherent
<1>8. \A u \in Slots : /\ task'[u].posted = task[u].posted
                       /\ task'[u].kind = task[u].kind \/ task'[u].posted = {}
  BY <1>1, <1>3, <1>5, <1>7
<1>9. Coherent'
  BY <1>1, <1>2, <1>5, <1>8 DEF Coherent
<1> QED
  BY <1>1, <1>3, <1>5, <1>6, <1>8, <1>9, ConsumerKeeps

-----------------------------------------------------------------------------
(* The run in hand.                                                         *)

(* Leaving deletes the task of the run: nothing is posted by then.          *)
LEMMA LeaveKeeps ==
  ASSUME TypeOK, Coherent, Leave, current # 0, task[current].posted = {},
         ScalarsKept, UNCHANGED <<live, active, settling>>
  PROVE  Kept
<1>1. /\ task' = [task EXCEPT ![current] = NoTask] /\ current' = 0 /\ step' = "idle"
      /\ current \in Slots
  BY TaskTyping DEF Leave
<1>2. /\ task \in [Slots -> TaskT] /\ NoTask \in TaskT /\ NoTask.posted = {} /\ NoTask.kind = "none"
      /\ TaskT' = TaskT
  BY NewTasksFresh, TaskTyping DEF ScalarsKept, TaskT
<1>3. task' \in [Slots -> TaskT]
  BY <1>1, <1>2
<1>4. \A u \in Slots : /\ task'[u].posted = task[u].posted
                       /\ task'[u] = task[u] \/ task'[u].posted = {}
  BY <1>1, <1>2
<1>5. StillKnown
  BY <1>4 DEF StillKnown, Known
<1>6. Coherent'
  BY <1>1, <1>4 DEF Coherent, ScalarsKept
<1>7. TypeOK'
  BY <1>1, <1>2, <1>3 DEF TypeOK, ScalarsKept, TaskT
<1> QED
  BY <1>5, <1>6, <1>7 DEF Kept

LEMMA DocumentKeeps ==
  ASSUME TypeOK, Coherent, UNCHANGED <<doc, stream, bounds>>
  PROVE  ScalarsKept
  BY DEF TypeOK, Coherent, ScalarsKept, doc, stream, bounds

LEMMA PostKeeps ==
  ASSUME TypeOK, Coherent, Post
  PROVE  Kept
<1>1. /\ step = "post" /\ task[current].posted = {} /\ task[current].kind = "LIST"
      /\ current # 0 /\ current \in Slots /\ ScalarsKept /\ UNCHANGED <<active, settling>>
  BY DocumentKeeps DEF Post, Coherent, TypeOK
<1>2. CASE Leave /\ UNCHANGED live
  BY <1>1, <1>2, LeaveKeeps
<1>3. CASE ~(Leave /\ UNCHANGED live)
  <2>1. PICK S \in SUBSET Free(task[current].rev) :
          /\ live' = live \cup S /\ task' = [task EXCEPT ![current].posted = S]
          /\ step' = "record" /\ current' = current
    BY <1>3 DEF Post
  <2>2. S \subseteq Jobs /\ task \in [Slots -> TaskT] /\ TaskT' = TaskT
    BY <1>1, TaskTyping DEF Free, ScalarsKept, TaskT
  <2> DEFINE e == [task[current] EXCEPT !.posted = S]
  <2>3. /\ e \in TaskT /\ e.posted = S /\ e.kind = "LIST" /\ e.target = task[current].target
        /\ e.frozen = task[current].frozen /\ task' = [task EXCEPT ![current] = e]
    BY <1>1, <2>1, <2>2 DEF TaskT
  <2> HIDE DEF e
  <2>4. task' \in [Slots -> TaskT] /\ task'[current] = e
    BY <1>1, <2>2, <2>3
  <2>5. \A u \in Slots \ {current} : task'[u] = task[u]
    BY <1>1, <2>2, <2>3
  <2>6. StillKnown
    BY <1>1, <2>1, <2>3, <2>4, <2>5 DEF StillKnown, Known
  <2>7. Coherent'
    BY <1>1, <2>1, <2>3, <2>4, <2>5 DEF Coherent, ScalarsKept
  <2>8. TypeOK'
    BY <1>1, <2>1, <2>2, <2>3, <2>4 DEF TypeOK, ScalarsKept, TaskT
  <2> QED
    BY <2>6, <2>7, <2>8 DEF Kept
<1> QED
  BY <1>2, <1>3

(* The jobs posted get their rows in the step that forgets who posted them. *)
LEMMA RecordKeeps ==
  ASSUME TypeOK, Coherent, Record
  PROVE  Kept
<1>1. /\ step = "record" /\ step' = "exit" /\ task[current].kind = "LIST" /\ current' = current
      /\ current # 0 /\ current \in Slots /\ ScalarsKept /\ UNCHANGED <<live, settling>>
      /\ active' = active \cup task[current].posted
      /\ task' = [task EXCEPT ![current].posted = {}, ![current].target = 0]
  BY DocumentKeeps DEF Record, Coherent, TypeOK
<1>2. /\ task \in [Slots -> TaskT] /\ TaskT' = TaskT /\ task[current].posted \subseteq Jobs
      /\ 0 \in 0..Unset /\ 0 # Unset
  BY <1>1, TaskTyping, DeploymentAssumption DEF ScalarsKept, TaskT, Unset
<1> DEFINE e == [task[current] EXCEPT !.posted = {}, !.target = 0]
<1>3. e \in TaskT /\ e.posted = {} /\ e.kind = "LIST" /\ e.target = 0
  BY <1>1, <1>2 DEF TaskT
<1>4. task' = [task EXCEPT ![current] = e]
  BY <1>1, <1>2 DEF TaskT
<1> HIDE DEF e
<1>5. task' \in [Slots -> TaskT] /\ task'[current] = e
  BY <1>1, <1>2, <1>3, <1>4
<1>6. \A u \in Slots \ {current} : task'[u] = task[u]
  BY <1>1, <1>2, <1>4
<1>7. StillKnown
  BY <1>1, <1>6 DEF StillKnown, Known
<1>8. Coherent'
  BY <1>1, <1>3, <1>5, <1>6 DEF Coherent, ScalarsKept
<1>9. TypeOK'
  BY <1>1, <1>2, <1>3, <1>5 DEF TypeOK, ScalarsKept, TaskT
<1> QED
  BY <1>7, <1>8, <1>9 DEF Kept

LEMMA ListExitKeeps ==
  ASSUME TypeOK, Coherent, ListExit
  PROVE  Kept
<1>1. /\ step = "exit" /\ task[current].posted = {} /\ task[current].kind = "LIST"
      /\ current # 0 /\ current \in Slots /\ UNCHANGED <<live, active, settling>>
      /\ UNCHANGED <<strategy, run, rev, request, swaps, moves, forgot>>
  BY DEF ListExit, Coherent, TypeOK, jobVars, bounds
<1>2. status' \in Status /\ changes' \in Nat
  BY DEF ListExit, Write, Restored, Status, TypeOK
<1>3. ScalarsKept
  BY <1>1, <1>2 DEF ScalarsKept, TypeOK, Coherent
<1>4. CASE Leave
  BY <1>1, <1>3, <1>4, LeaveKeeps
<1>5. CASE ~Leave
  <2> DEFINE new == NewList(task[current].rev, task[current].run, "none")
  <2>1. /\ Room(task) # {} /\ task' = Insert(task, new) /\ step' = "done" /\ current' = current
    BY <1>5 DEF ListExit
  <2>2. task \in [Slots -> TaskT] /\ TaskT' = TaskT
    BY <1>1, TaskTyping DEF TaskT
  <2>3. Fresh(new)
    <3>1. task[current].rev \in {0} \cup Revisions /\ task[current].run \in 0..MaxMoves[strategy]
      BY <1>1, <2>2 DEF TaskT
    <3> QED
      BY <3>1, NewTasksFresh
  <2> HIDE DEF new
  <2>4. Grown(task, task')
    BY <2>1, <2>2, <2>3, InsertGrows
  <2>5. \A u \in Slots : /\ task'[u].posted = task[u].posted
                         /\ task'[u] = task[u] \/ task'[u].posted = {}
    BY <2>4 DEF Grown, NoTask
  <2>6. task'[current] = task[current]
    BY <1>1, <2>4, CurrentStored DEF Grown
  <2>7. StillKnown
    BY <1>1, <2>5 DEF StillKnown, Known
  <2>8. Coherent'
    BY <1>1, <1>3, <2>1, <2>5, <2>6 DEF Coherent, ScalarsKept
  <2>9. TypeOK'
    BY <1>1, <1>3, <2>1, <2>2, <2>4, <2>6 DEF TypeOK, ScalarsKept, TaskT, Grown
  <2> QED
    BY <2>7, <2>8, <2>9 DEF Kept
<1> QED
  BY <1>4, <1>5

LEMMA CompleteKeeps ==
  ASSUME TypeOK, Coherent, Complete
  PROVE  Kept
<1>1. /\ Leave /\ task[current].posted = {} /\ current # 0
      /\ UNCHANGED <<live, active, settling, doc, stream, bounds>>
  BY DEF Complete, Coherent, TypeOK, jobVars
<1> QED
  BY <1>1, DocumentKeeps, LeaveKeeps

(* What a stop leaves in its set when it has killed is dead.                *)
LEMMA KillKeeps ==
  ASSUME TypeOK, Coherent, Kill
  PROVE  Kept
<1>1. /\ step = "kill" /\ step' = "retired" /\ task[current].kind = "STOP" /\ current' = current
      /\ current # 0 /\ current \in Slots /\ ScalarsKept /\ UNCHANGED <<active, settling>>
      /\ live' = live \ task[current].stop
  BY DocumentKeeps DEF Kill, Coherent, TypeOK
<1>2. task \in [Slots -> TaskT] /\ TaskT' = TaskT
  BY <1>1, TaskTyping DEF ScalarsKept, TaskT
<1>3. PICK S \in SUBSET task[current].stop : task' = [task EXCEPT ![current].stop = S]
  <2>1. CASE task' = task
    <3>1. [task[current] EXCEPT !.stop = task[current].stop] = task[current]
      BY <1>1, <1>2 DEF TaskT
    <3>2. [task EXCEPT ![current].stop = task[current].stop] = task
      BY <1>1, <1>2, <3>1
    <3> QED
      BY <2>1, <3>2
  <2>2. CASE task' = [task EXCEPT ![current].stop = @ \cap live]
    BY <1>1, <1>2, <2>2 DEF TaskT
  <2> QED
    BY <2>1, <2>2 DEF Kill
<1> DEFINE e == [task[current] EXCEPT !.stop = S]
<1>4. /\ e \in TaskT /\ e.posted = task[current].posted /\ e.kind = "STOP" /\ e.stop = S
      /\ e.target = task[current].target /\ e.frozen = task[current].frozen
      /\ task' = [task EXCEPT ![current] = e]
  BY <1>1, <1>2, <1>3 DEF TaskT
<1> HIDE DEF e
<1>5. task' \in [Slots -> TaskT] /\ task'[current] = e
  BY <1>1, <1>2, <1>4
<1>6. \A u \in Slots \ {current} : task'[u] = task[u]
  BY <1>1, <1>2, <1>4
<1>7. StillKnown
  BY <1>1, <1>4, <1>5, <1>6 DEF StillKnown, Known
<1>8. Coherent'
  BY <1>1, <1>4, <1>5, <1>6 DEF Coherent, ScalarsKept
<1>9. TypeOK'
  BY <1>1, <1>2, <1>4, <1>5 DEF TypeOK, ScalarsKept, TaskT
<1> QED
  BY <1>7, <1>8, <1>9 DEF Kept

(* A stop settles the rows of jobs it killed: none of them is alive.        *)
LEMMA StopExitKeeps ==
  ASSUME TypeOK, Coherent, StopExit
  PROVE  Kept
<1> DEFINE new  == NewStop(task[current].rev, task[current].reason)
           left == IF Straggles(current) THEN InsertOnce(task, new) ELSE task
<1>1. /\ step = "retired" /\ current # 0 /\ current \in Slots /\ task[current].posted = {}
      /\ current' = 0 /\ step' = "idle" /\ task[current].stop \cap live = {}
      /\ task' = [left EXCEPT ![current] = NoTask]
      /\ Straggles(current) => Fits(task, new)
      /\ UNCHANGED <<strategy, run, rev, request, swaps, live, moves>>
      /\ SettleRows(task[current].stop \cap active)
  BY DEF StopExit, Coherent, TypeOK
<1>2. /\ task \in [Slots -> TaskT] /\ TaskT' = TaskT
      /\ NoTask \in TaskT /\ NoTask.posted = {} /\ NoTask.kind = "none"
  BY <1>1, NewTasksFresh, TaskTyping DEF TaskT
<1>3. ScalarsKept
  <2>1. status' \in Status /\ changes' \in Nat
    BY DEF StopExit, Write, Restored, Status, TypeOK
  <2>2. forgot' \in BOOLEAN
    BY DEF StopExit, TypeOK
  <2> QED
    BY <1>1, <2>1, <2>2 DEF ScalarsKept, TypeOK, Coherent
<1>4. Fresh(new)
  <2>1. /\ task[current].rev \in {0} \cup Revisions
        /\ task[current].reason \in {"none", "stop", "revision"}
    BY <1>1, <1>2 DEF TaskT
  <2> QED
    BY <2>1, NewTasksFresh
<1> HIDE DEF new
<1>5. Grown(task, left)
  <2>1. CASE Straggles(current)
    BY <1>1, <1>2, <1>4, <2>1, InsertOnceGrows
  <2>2. CASE ~Straggles(current)
    BY <1>2, <2>2 DEF Grown
  <2> QED
    BY <2>1, <2>2
<1> HIDE DEF left
<1>6. task' \in [Slots -> TaskT]
  BY <1>1, <1>2, <1>5 DEF Grown
<1>7. \A u \in Slots : /\ task'[u].posted = task[u].posted
                       /\ task'[u] = task[u] \/ task'[u].posted = {}
  BY <1>1, <1>2, <1>5 DEF Grown
<1>8. /\ active' = active \ task[current].stop
      /\ settling' \in [Jobs -> {"none", "due", "quiet"}]
  BY <1>1 DEF SettleRows, TypeOK
<1>9. StillKnown
  BY <1>1, <1>7, <1>8 DEF StillKnown, Known
<1>10. Coherent'
  BY <1>1, <1>3, <1>7 DEF Coherent, ScalarsKept
<1>11. TypeOK'
  BY <1>1, <1>2, <1>3, <1>6, <1>8 DEF TypeOK, ScalarsKept, TaskT
<1> QED
  BY <1>9, <1>10, <1>11 DEF Kept

-----------------------------------------------------------------------------
(* Failures.                                                                *)

(* A task put back keeps what it posted.                                    *)
LEMMA RetryKeeps ==
  ASSUME TypeOK, Coherent, Retry
  PROVE  Kept
<1>1. /\ current # 0 /\ current \in Slots /\ current' = 0 /\ step' = "idle"
      /\ task' = [task EXCEPT ![current].claimed = FALSE, ![current].retried = Handled \/ @]
      /\ UNCHANGED <<strategy, run, rev, request, swaps, live, active, settling, forgot>>
  BY DEF Retry, TypeOK, jobVars
<1>2. task \in [Slots -> TaskT] /\ TaskT' = TaskT
  BY <1>1, TaskTyping DEF TaskT
<1>3. ScalarsKept
  <2>1. status' \in Status /\ changes' \in Nat
    BY DEF Retry, Write, KeepStatus, Status, TypeOK
  <2>2. moves' \in 0..MaxMoves[strategy] /\ run <= moves'
    BY DeploymentAssumption DEF Retry, Move, TypeOK, Coherent
  <2> QED
    BY <1>1, <2>1, <2>2 DEF ScalarsKept, TypeOK
<1> DEFINE b == Handled \/ task[current].retried
           e == [task[current] EXCEPT !.claimed = FALSE, !.retried = b]
<1> b \in BOOLEAN
  OBVIOUS
<1>4. e \in TaskT /\ e.posted = task[current].posted /\ e.kind = task[current].kind
  <2> HIDE DEF b
  <2> QED
    BY <1>1, <1>2 DEF TaskT
<1>5. task' = [task EXCEPT ![current] = e]
  BY <1>1, <1>2 DEF TaskT
<1> HIDE DEF e
<1>6. task' \in [Slots -> TaskT]
  BY <1>1, <1>2, <1>4, <1>5
<1>7. \A u \in Slots : task'[u].posted = task[u].posted /\ task'[u].kind = task[u].kind
  BY <1>1, <1>2, <1>4, <1>5
<1>8. StillKnown
  BY <1>1, <1>7 DEF StillKnown, Known
<1>9. Coherent'
  BY <1>1, <1>3, <1>7 DEF Coherent, ScalarsKept
<1>10. TypeOK'
  BY <1>1, <1>2, <1>3, <1>6 DEF TypeOK, ScalarsKept, TaskT
<1> QED
  BY <1>8, <1>9, <1>10 DEF Kept

(* A ban falls before a LIST posts, and drops no task that posted.          *)
LEMMA BanKeeps ==
  ASSUME TypeOK, Coherent, Ban
  PROVE  Kept
<1>1. /\ current # 0 /\ current \in Slots /\ current' = 0 /\ step' = "idle"
      /\ task[current].posted = {}
      /\ UNCHANGED <<strategy, run, rev, request, swaps, live, active, settling>>
  BY DEF Ban, Handled, TypeOK, Coherent, jobVars
<1>2. /\ task \in [Slots -> TaskT] /\ TaskT' = TaskT
      /\ NoTask \in TaskT /\ NoTask.posted = {} /\ NoTask.kind = "none"
  BY <1>1, NewTasksFresh, TaskTyping DEF TaskT
<1>3. ScalarsKept
  <2>1. status' \in Status /\ changes' \in Nat
    BY DEF Ban, Write, Status, TypeOK
  <2>2. moves' \in 0..MaxMoves[strategy] /\ run <= moves'
    BY DeploymentAssumption DEF Ban, Move, TypeOK, Coherent
  <2>3. forgot' \in BOOLEAN
    BY DEF Ban, TypeOK
  <2> QED
    BY <1>1, <2>1, <2>2, <2>3 DEF ScalarsKept, TypeOK
<1>4. CASE Leave
  BY <1>1, <1>3, <1>4, LeaveKeeps
<1>5. CASE ~Leave
  <2> DEFINE kept == [t \in Slots |-> IF t = current \/ Swept(t) THEN NoTask ELSE task[t]]
             new  == NewStop(0, "stop")
  <2>1. task' = InsertOnce(kept, new)
    BY <1>5 DEF Ban
  <2>2. Fresh(new)
    BY NewTasksFresh
  <2>3. \A u \in Slots : Swept(u) => task[u].posted = {}
    BY DEF Swept, InFlight, Coherent
  <2>4. /\ kept \in [Slots -> TaskT] /\ current \in Room(kept)
        /\ \A u \in Slots : /\ kept[u].posted = task[u].posted
                            /\ kept[u] = task[u] \/ kept[u].posted = {}
    BY <1>1, <1>2, <2>3 DEF Room
  <2> HIDE DEF kept, new
  <2>5. Grown(kept, task')
    BY <2>1, <2>2, <2>4, InsertOnceGrows DEF Fits
  <2>6. \A u \in Slots : /\ task'[u].posted = task[u].posted
                         /\ task'[u] = task[u] \/ task'[u].posted = {}
    BY <1>2, <2>4, <2>5 DEF Grown
  <2>7. StillKnown
    BY <1>1, <2>6 DEF StillKnown, Known
  <2>8. Coherent'
    BY <1>1, <1>3, <2>6 DEF Coherent, ScalarsKept
  <2>9. TypeOK'
    BY <1>1, <1>2, <1>3, <2>5 DEF TypeOK, ScalarsKept, TaskT, Grown
  <2> QED
    BY <2>7, <2>8, <2>9 DEF Kept
<1> QED
  BY <1>4, <1>5

(* A task out of attempts takes what it posted with it, and is the only one.*)
LEMMA AbandonKeeps ==
  ASSUME TypeOK, Coherent, NEW t \in Slots, Abandon(t)
  PROVE  Kept
<1>1. /\ t # current /\ task' = [task EXCEPT ![t] = NoTask]
      /\ UNCHANGED <<strategy, run, rev, request, swaps, worker, live, active, settling, moves>>
  BY DEF Abandon, jobVars
<1>2. /\ task \in [Slots -> TaskT] /\ TaskT' = TaskT /\ UNCHANGED <<current, step>>
      /\ NoTask \in TaskT /\ NoTask.posted = {} /\ NoTask.kind = "none"
  BY <1>1, NewTasksFresh, TaskTyping DEF worker, TaskT
<1>3. ScalarsKept
  <2>1. status' \in Status /\ changes' \in Nat
    BY DEF Abandon, Write, Status, TypeOK
  <2>2. forgot' \in BOOLEAN
    BY DEF Abandon, TypeOK
  <2> QED
    BY <1>1, <2>1, <2>2 DEF ScalarsKept, TypeOK, Coherent
<1>4. task' \in [Slots -> TaskT] /\ \A u \in Slots \ {t} : task'[u] = task[u]
  BY <1>1, <1>2
<1>5. task'[t].posted = {}
  BY <1>1, <1>2
<1>6. StillKnown
  BY <1>1, <1>4 DEF StillKnown, Known
<1>7. current \in Slots \ {t} \/ step = "idle"
  BY <1>1 DEF TypeOK
<1>8. Coherent'
  BY <1>1, <1>2, <1>3, <1>4, <1>5, <1>7 DEF Coherent, ScalarsKept
<1>9. TypeOK'
  BY <1>1, <1>2, <1>3, <1>4 DEF TypeOK, ScalarsKept, TaskT
<1> QED
  BY <1>6, <1>8, <1>9 DEF Kept

-----------------------------------------------------------------------------
(* The theorems.                                                            *)

LEMMA InitKept == Init => TypeOK /\ Coherent /\ NoJobForgotten
<1> SUFFICES ASSUME Init PROVE TypeOK /\ Coherent /\ NoJobForgotten
  OBVIOUS
<1>1. /\ 0 \in 0..MaxMoves[strategy] /\ Unset \in 0..Unset /\ Unset # 0
  BY DeploymentAssumption DEF Init, Unset
<1>2. NoTask \in TaskT /\ NoTask.posted = {}
  BY <1>1 DEF NoTask, TaskT
<1>3. task \in [Slots -> TaskT]
  BY <1>2 DEF Init
<1>4. TypeOK
  BY <1>1, <1>3, DeploymentAssumption DEF Init, TypeOK, Status, TaskT
<1>5. Coherent
  BY <1>2 DEF Init, Coherent
<1> QED
  BY <1>4, <1>5 DEF Init, NoJobForgotten

LEMMA NextKeeps ==
  TypeOK /\ Coherent /\ [Next]_vars => TypeOK' /\ Coherent' /\ (StillKnown \/ UNCHANGED vars)
<1> SUFFICES ASSUME TypeOK, Coherent, [Next]_vars
             PROVE  TypeOK' /\ Coherent' /\ (StillKnown \/ UNCHANGED vars)
  OBVIOUS
<1>1. CASE Start \/ Stop \/ Archive \/ Swap \/ \E r \in Routes : Ask(r)
  BY <1>1, RouteKeeps DEF Kept
<1>2. CASE StatusCallback \/ RevisionCallback
  BY <1>2, StatusCallbackKeeps, RevisionCallbackKeeps DEF Kept
<1>3. ASSUME NEW j \in Jobs, Finish(j) \/ Observe(j) \/ Callback(j) PROVE Kept
  BY <1>3, JobKeeps, SettlementKeeps
<1>4. ASSUME NEW t \in Slots, Claim(t) \/ Handle(t) \/ Abandon(t) PROVE Kept
  BY <1>4, ClaimKeeps, DropKeeps, RunListKeeps, RunStopKeeps, AbandonKeeps DEF Handle
<1>5. CASE Work
  BY <1>5, PostKeeps, RecordKeeps, ListExitKeeps, CompleteKeeps, KillKeeps, StopExitKeeps
  DEF Work, Kept
<1>6. CASE Retry \/ Ban
  BY <1>6, RetryKeeps, BanKeeps DEF Kept
<1>7. CASE UNCHANGED vars
  BY <1>7 DEF vars, doc, stream, worker, jobVars, bounds, TypeOK, Coherent
<1> QED
  BY <1>1, <1>2, <1>3, <1>4, <1>5, <1>6, <1>7 DEF Next, Kept

(* Every variable keeps its type, and what the lock's holder runs is of the *)
(* kind its step is of.                                                     *)
THEOREM DeploymentTyping == Spec => [](TypeOK /\ Coherent)
<1>1. Init => TypeOK /\ Coherent
  BY InitKept
<1>2. TypeOK /\ Coherent /\ [Next]_vars => (TypeOK /\ Coherent)'
  BY NextKeeps
<1> QED
  BY <1>1, <1>2, PTL DEF Spec

(* No stop, sweep, ban, settlement, drop, retry or swap forgets a job that  *)
(* lives: only a task abandoned with its jobs posted and not recorded does. *)
THEOREM JobsStayKnown == Spec => OnlyAbandonForgets
<1>1. TypeOK /\ Coherent /\ [Next]_vars => [StillKnown]_vars
  BY NextKeeps
<1> QED
  BY <1>1, DeploymentTyping, PTL DEF Spec, OnlyAbandonForgets, StillKnown

(* What `forgot` recorded is not unrecorded.                                *)
LEMMA ForgotStays == TypeOK /\ [Next]_vars /\ forgot => forgot'
<1> SUFFICES ASSUME TypeOK, [Next]_vars, forgot PROVE forgot'
  OBVIOUS
<1>1. CASE Start \/ Stop \/ Archive \/ Swap \/ \E r \in Routes : Ask(r)
  BY <1>1 DEF Start, Stop, Archive, Swap, Ask, bounds
<1>2. CASE StatusCallback \/ RevisionCallback
  BY <1>2 DEF StatusCallback, RevisionCallback, bounds
<1>3. ASSUME NEW j \in Jobs, Finish(j) \/ Observe(j) \/ Callback(j) PROVE forgot'
  BY <1>3 DEF Finish, Observe, Callback, SettleCounts, SettleWrites, bounds
<1>4. ASSUME NEW t \in Slots, Claim(t) \/ Handle(t) \/ Abandon(t) PROVE forgot'
  BY <1>4 DEF Claim, Handle, Drop, RunList, RunStop, Abandon, bounds
<1>5. CASE Work
  BY <1>5 DEF Work, Post, Record, ListExit, Complete, Kill, StopExit, bounds
<1>6. CASE Retry \/ Ban
  BY <1>6 DEF Retry, Ban
<1>7. CASE UNCHANGED vars
  BY <1>7 DEF vars, bounds
<1> QED
  BY <1>1, <1>2, <1>3, <1>4, <1>5, <1>6, <1>7 DEF Next

(* Unless a task was abandoned so, every job alive has an active row or a   *)
(* stored task that will record it.                                         *)
THEOREM LiveJobsKnown == Spec => []NoJobForgotten
<1>1. ASSUME TypeOK, Coherent, NoJobForgotten, [Next]_vars PROVE NoJobForgotten'
  <2>1. CASE forgot
    BY <1>1, <2>1, ForgotStays DEF NoJobForgotten
  <2>2. CASE UNCHANGED vars
    BY <1>1, <2>2 DEF vars, jobVars, bounds, NoJobForgotten, Known
  <2>3. CASE ~forgot /\ StillKnown
    <3>1. live \subseteq Known
      BY <1>1, <2>3 DEF NoJobForgotten
    <3>2. ASSUME NEW j \in live' \ Known' PROVE forgot'
      <4>1. PICK t \in Slots : Abandon(t) /\ j \in task[t].posted
        BY <2>3, <3>1, <3>2 DEF StillKnown
      <4>2. InFlight(t)
        BY <1>1, <4>1 DEF InFlight, Coherent
      <4> QED
        BY <4>1, <4>2 DEF Abandon
    <3> QED
      BY <3>2 DEF NoJobForgotten
  <2> QED
    BY <1>1, <2>1, <2>2, <2>3, NextKeeps
<1>2. Init => NoJobForgotten
  BY InitKept
<1>3. TypeOK /\ Coherent /\ NoJobForgotten /\ [Next]_vars => NoJobForgotten'
  BY <1>1
<1> QED
  BY <1>2, <1>3, DeploymentTyping, PTL DEF Spec
===============================================================================
