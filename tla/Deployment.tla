------------------------------ MODULE Deployment ------------------------------
(****************************************************************************)
(* The life of one deployment: the routes that start, stop, archive it and  *)
(* swap its revision, the change-stream callbacks that turn those writes    *)
(* into LIST and STOP tasks, the tasks that post and retire its jobs, and   *)
(* the finalizers that flip it to STOPPED.  Strategies: SIMPLE (and SIMPLE- *)
(* EXTEND without its extends) and SCHEDULED.                               *)
(*                                                                          *)
(* A route reads the deployment in its middleware and writes it later.  The *)
(* stream looks the document up when it delivers an event ("updateLookup"), *)
(* so a pending event carries no status: only how many there are matters.   *)
(* The task queue is TaskQueue's, seen from here: one task of the           *)
(* deployment runs at a time, with the jobs read when it was claimed.       *)
(* Posting is one batch; ListUnits has the steps of a self-custody LIST.    *)
(****************************************************************************)
EXTENDS Integers, FiniteSets

CONSTANTS
  Strategies,  \* strategies a deployment may have
  Replicas,    \* jobs per firing, or jobs to keep
  Revisions,   \* 1 .. the number of revisions
  MaxJobs,     \* bound on a revision's jobs alive or unsettled at once
  MaxTasks,    \* bound on the tasks stored at once
  MaxMoves     \* bound on starts, revision swaps, failed runs and bans together, by strategy

ASSUME DeploymentAssumption ==
  /\ Strategies \subseteq {"SIMPLE", "SCHEDULED"}
  /\ Replicas \in Nat \ {0} /\ MaxJobs \in Nat \ {0} /\ MaxTasks \in Nat \ {0}
  /\ Revisions \subseteq Nat \ {0} /\ 1 \in Revisions /\ IsFiniteSet(Revisions)
  /\ MaxMoves \in [Strategies -> Nat]

VARIABLES
  strategy, status, run, rev,   \* the deployment document; rev: active_revision
  request,    \* start, stop and archive requests between their read and their write
  changes,    \* undelivered change events that wrote the status
  swaps,      \* undelivered change events that wrote the active revision
  task,       \* the deployment's tasks
  current,    \* the task that holds the deployment's lock, 0: none
  step,       \* where its run is
  live,       \* jobs alive on chain
  active,     \* jobs whose row is QUEUED or RUNNING
  settling,   \* a job's settlement callback: none, due, or quiet (it counted none)
  moves,      \* counter of the bound
  forgot      \* history: STOPPED written, or a task dropped, over jobs or LISTs that remain

doc     == <<strategy, status, run, rev>>
stream  == <<request, changes, swaps>>
worker  == <<current, step>>
jobVars == <<live, active, settling>>
bounds  == <<moves, forgot>>
vars == <<doc, stream, task, worker, jobVars, bounds>>

Jobs   == Revisions \X (1..MaxJobs)   \* a job is numbered within its revision
Slots  == 1..MaxTasks
Status == {"DRAFT", "ERROR", "STARTING", "RUNNING", "STOPPING", "STOPPED",
           "INSUFFICIENT_FUNDS", "ARCHIVED"}
RunningStatuses == {"STARTING", "RUNNING", "INSUFFICIENT_FUNDS"}
Routes == {"start", "stop", "archive"}

Unset == Replicas + 1   \* a target not frozen yet

(* No slot; else kind, revision (0: none), run, reason, the frozen target or *)
(* stop-set, jobs posted but not recorded, and the claim with the jobs read. *)
NoTask == [kind |-> "none", rev |-> 0, run |-> 0, reason |-> "none", target |-> Unset,
           frozen |-> FALSE, stop |-> {}, posted |-> {}, retried |-> FALSE,
           claimed |-> FALSE, seen |-> {}]

NewList(r, n, why) == [NoTask EXCEPT !.kind = "LIST", !.rev = r, !.run = n, !.reason = why]
NewStop(r, why)    == [NoTask EXCEPT !.kind = "STOP", !.rev = r, !.reason = why]

Stored   == {t \in Slots : task[t] # NoTask}
Lists    == {t \in Stored : task[t].kind = "LIST"}
InFlight(t) == task[t].kind = "LIST" /\ task[t].posted # {}
FullStop(t) == task[t].kind = "STOP" /\ task[t].rev = 0
Unused(j) == /\ settling[j] = "none" /\ j \notin live \cup active
             /\ \A t \in Stored : j \notin task[t].stop \cup task[t].posted \cup task[t].seen
Free(r)   == {j \in Jobs : j[1] = r /\ Unused(j)}
IsCurrent(t) == task[t].rev \in {0, rev}
StillWanted(t) == IF task[t].kind = "LIST"
                    THEN status \in RunningStatuses /\ IsCurrent(t) /\ task[t].run = run
                    ELSE IsCurrent(t)

TypeOK ==
  /\ strategy \in Strategies /\ status \in Status /\ run \in 0..MaxMoves[strategy]
  /\ rev \in Revisions
  /\ request \subseteq Routes /\ changes \in Nat /\ swaps \in Nat
  /\ task \in [Slots -> [kind : {"none", "LIST", "STOP"}, rev : {0} \cup Revisions,
                         run : 0..MaxMoves[strategy], reason : {"none", "stop", "revision"},
                         target : 0..Unset, frozen : BOOLEAN, stop : SUBSET Jobs,
                         posted : SUBSET Jobs, retried : BOOLEAN, claimed : BOOLEAN,
                         seen : SUBSET Jobs]]
  /\ current \in {0} \cup Slots
  /\ step \in {"idle", "post", "record", "exit", "done", "kill", "retired"}
  /\ live \subseteq Jobs /\ active \subseteq Jobs
  /\ settling \in [Jobs -> {"none", "due", "quiet"}]
  /\ moves \in 0..MaxMoves[strategy] /\ forgot \in BOOLEAN
  /\ (step = "idle") <=> (current = 0)
  /\ current # 0 => task[current].frozen \/ task[current].target # Unset

Init ==
  /\ strategy \in Strategies /\ status = "DRAFT" /\ run = 0 /\ rev = 1
  /\ request = {} /\ changes = 0 /\ swaps = 0
  /\ task = [t \in Slots |-> NoTask] /\ current = 0 /\ step = "idle"
  /\ live = {} /\ active = {} /\ settling = [j \in Jobs |-> "none"]
  /\ moves = 0 /\ forgot = FALSE

-----------------------------------------------------------------------------
(* The tasks collection. *)

Room(tasks) == {t \in Slots : tasks[t] = NoTask}
Insert(tasks, new) == [tasks EXCEPT ![CHOOSE t \in Room(tasks) : TRUE] = new]

(* scheduleTask with `idempotent`: a PENDING task of the same intent stands.  *)
Queued(tasks, new) ==
  \E t \in Slots : /\ ~tasks[t].claimed /\ t # current
                   /\ \A f \in {"kind", "rev", "run", "reason"} : tasks[t][f] = new[f]
InsertOnce(tasks, new) == IF Queued(tasks, new) THEN tasks ELSE Insert(tasks, new)
Fits(tasks, new) == Queued(tasks, new) \/ Room(tasks) # {}   \* within MaxTasks

Write(s) == status' = s /\ changes' = IF s = status THEN changes ELSE changes + 1
KeepStatus == UNCHANGED <<status, changes>>
Calm(n)    == Cardinality(Stored) + changes + 2 * swaps + Cardinality(request) + n < MaxTasks - 1
Move       == moves < MaxMoves[strategy] /\ moves' = moves + 1

-----------------------------------------------------------------------------
(* Routes.  Each read its guard in the middleware; the write is not fenced.  *)

Startable == {"DRAFT", "STOPPED", "ERROR", "INSUFFICIENT_FUNDS"}
Stoppable == {"RUNNING", "ERROR", "INSUFFICIENT_FUNDS"}

Ask(r) ==
  /\ request = {} /\ Calm(1)
  /\ CASE r = "start" -> status \in Startable /\ moves < MaxMoves[strategy]
       [] r = "stop" -> status \in Stoppable
       [] r = "archive" -> status = "STOPPED"
  /\ request' = {r}
  /\ UNCHANGED <<doc, changes, swaps, task, worker, jobVars, bounds>>

Start == /\ "start" \in request /\ request' = request \ {"start"}
         /\ Write("STARTING") /\ run' = run + 1 /\ Move
         /\ UNCHANGED <<strategy, rev, swaps, task, worker, jobVars, forgot>>

Stop == /\ "stop" \in request /\ request' = request \ {"stop"}
        /\ Write("STOPPING")
        /\ UNCHANGED <<strategy, run, rev, swaps, task, worker, jobVars, bounds>>

Archive == /\ "archive" \in request /\ request' = request \ {"archive"}
           /\ Write("ARCHIVED")
           /\ UNCHANGED <<strategy, run, rev, swaps, task, worker, jobVars, bounds>>

(* update-active-revision, fenced on the revision not being active yet. *)
Swap == /\ status # "ARCHIVED" /\ Move /\ Calm(2)
        /\ \E r \in Revisions \ {rev} : rev' = r
        /\ swaps' = swaps + 1
        /\ UNCHANGED <<strategy, status, run, request, changes, task, worker, jobVars,
                       forgot>>

-----------------------------------------------------------------------------
(* Change-stream callbacks. *)

(* STARTING becomes RUNNING once a LIST was created, fenced on STARTING.     *)
Launched == IF status = "STARTING" /\ task' # task THEN "RUNNING" ELSE status

(* deploymentStatusStartingUpdate, deploymentStatusStoppingUpdate: neither   *)
(* is idempotent.                                                            *)
StatusCallback ==
  /\ changes > 0
  /\ status \in {"STARTING", "STOPPING"} => Room(task) # {}
  /\ CASE status = "STARTING" ->
            /\ task' = Insert(task, NewList(rev, run, "none"))
            /\ status' = Launched /\ UNCHANGED changes
       [] status = "STOPPING" ->
            /\ task' = Insert(task, NewStop(0, "stop"))
            /\ changes' = changes - 1 /\ UNCHANGED status
       [] OTHER -> changes' = changes - 1 /\ UNCHANGED <<task, status>>
  /\ UNCHANGED <<strategy, run, rev, request, swaps, worker, jobVars, bounds>>

(* deploymentRevisionUpdate: retire the others, list the new one. *)
RevisionCallback ==
  /\ swaps > 0 /\ swaps' = swaps - 1
  /\ IF status = "DRAFT" THEN KeepStatus /\ UNCHANGED task
     ELSE LET stops == InsertOnce(task, NewStop(rev, "revision"))
              list == NewList(rev, run, "revision")
          IN /\ Fits(task, NewStop(rev, "revision")) /\ Fits(stops, list)
             /\ task' = InsertOnce(stops, list)
             /\ Write(Launched)
  /\ UNCHANGED <<strategy, run, rev, request, worker, jobVars, bounds>>

(* jobAllActiveJobsStop: reads the deployment, counts, then writes STOPPED   *)
(* whatever happened since.  Its two reads are one step here.                *)
Finalizes   == strategy = "SIMPLE" \/ status = "STOPPING"
NothingLeft == active = {} /\ (status = "RUNNING" => Lists = {})

SettleCounts(j) ==
  /\ settling[j] = "due"
  /\ settling' = [settling EXCEPT ![j] = IF Finalizes /\ NothingLeft THEN "quiet" ELSE "none"]
  /\ UNCHANGED <<doc, stream, task, worker, live, active, bounds>>

(* Nothing is coming to deal with what a write of STOPPED leaves behind. *)
Unswept == \/ status = "STARTING" \/ active # {}
           \/ (Lists # {} /\ ~\E t \in Stored : FullStop(t))

SpareOnlyErrors == {"ERROR", "INSUFFICIENT_FUNDS"}
Spared == {"ERROR", "INSUFFICIENT_FUNDS", "ARCHIVED"}

SettleWrites(j) ==
  /\ settling[j] = "quiet"
  /\ settling' = [settling EXCEPT ![j] = "none"]
  /\ IF status \in Spared THEN KeepStatus /\ UNCHANGED forgot
     ELSE /\ Write("STOPPED")
          /\ forgot' = (forgot \/ Unswept)
  /\ UNCHANGED <<strategy, run, rev, request, swaps, task, worker, live, active, moves>>

-----------------------------------------------------------------------------
(* Jobs. *)

Finish(j) == /\ j \in live /\ live' = live \ {j}
             /\ UNCHANGED <<doc, stream, task, worker, active, settling, bounds>>

SettleRows(S) ==
  /\ active' = active \ S
  /\ settling' = [j \in Jobs |-> IF j \in S THEN "due" ELSE settling[j]]

(* The accounts listener: onJobUpdate, onMarketUpdate, updateAllUnfinished-  *)
(* Jobs.                                                                     *)
Observe(j) == /\ j \in active \ live
              /\ SettleRows({j})
              /\ UNCHANGED <<doc, stream, task, worker, live, bounds>>

-----------------------------------------------------------------------------
(* The consumer: claim, lock, judge. *)

(* A task is claimed with the jobs of that moment.  A free lock is taken at  *)
(* once; a claim that meets it waits (one at a time here), or is released    *)
(* and claimed again with the jobs of then.                                  *)
Seen(t) == IF task[t].claimed THEN task[t].seen ELSE active

Claim(t) ==
  /\ current # 0 /\ t \in Stored \ {current}
  /\ \A u \in Stored : task[u].claimed => u \in {t, current}
  /\ task' = [task EXCEPT ![t].claimed = TRUE, ![t].seen = active]
  /\ task' # task
  /\ UNCHANGED <<doc, stream, worker, jobVars, bounds>>

Takes(t) == current = 0 /\ t \in Stored

Target(t) == IF strategy = "SCHEDULED" THEN Replicas
             ELSE LET have == Cardinality({j \in Seen(t) : j[1] = task[t].rev})
                  IN IF have < Replicas THEN Replicas - have ELSE 0

Drop(t) ==
  /\ Takes(t) /\ ~StillWanted(t) /\ ~InFlight(t)
  /\ task' = [task EXCEPT ![t] = NoTask]
  /\ UNCHANGED <<doc, stream, worker, jobVars, bounds>>

RunList(t) ==
  /\ Takes(t) /\ t \in Lists
  /\ StillWanted(t) \/ InFlight(t)
  /\ InFlight(t) \/ Cardinality(Free(task[t].rev)) >= Replicas
  /\ LET n == IF task[t].target = Unset THEN Target(t) ELSE task[t].target
     IN /\ task' = [task EXCEPT ![t].target = n, ![t].seen = {}, ![t].claimed = TRUE]
        /\ step' = IF InFlight(t) THEN "record" ELSE IF n = 0 THEN "exit" ELSE "post"
  /\ current' = t
  /\ UNCHANGED <<doc, stream, jobVars, bounds>>

(* The jobs a stop retires: all but the revision it keeps (selectJobsToStop). *)
ScopeKept(t, S) == {j \in S : task[t].rev = 0 \/ j[1] = task[t].rev}
Scope(t, S) == {j \in S : task[t].rev = 0 \/ j[1] # task[t].rev}

Sweepable(t) == task[t].kind # "STOP"
Swept(t) == task[t].kind # "STOP" /\ ~InFlight(t)

RunStop(t) ==
  /\ Takes(t) /\ task[t].kind = "STOP" /\ StillWanted(t)
  /\ task' = [u \in Slots |->
       IF u = t THEN [task[t] EXCEPT !.claimed = TRUE, !.seen = {}, !.frozen = TRUE,
                                     !.stop = IF task[t].frozen THEN @ ELSE Scope(t, Seen(t))]
       ELSE IF FullStop(t) /\ u \in Stored /\ Swept(u) THEN NoTask
       ELSE task[u]]
  /\ current' = t /\ step' = "kill"
  /\ UNCHANGED <<doc, stream, jobVars, bounds>>

-----------------------------------------------------------------------------
(* A LIST's run. *)

Leave == task' = [task EXCEPT ![current] = NoTask] /\ current' = 0 /\ step' = "idle"

(* Judged wanted again right before it posts; if not, its run ends there. *)
Post ==
  /\ step = "post"
  /\ IF StillWanted(current)
       THEN LET free == Free(task[current].rev)
            IN \E S \in SUBSET free :
                 /\ Cardinality(S) = task[current].target
                 /\ \A j \in free \ S, k \in S : k[2] < j[2]
                 /\ live' = live \cup S
                 /\ task' = [task EXCEPT ![current].posted = S]
                 /\ step' = "record"
                 /\ UNCHANGED current
       ELSE Leave /\ UNCHANGED live
  /\ UNCHANGED <<doc, stream, active, settling, bounds>>

(* onListConfirmed, an upsert: a job that ended meanwhile is seen later. *)
Record ==
  /\ step = "record"
  /\ active' = active \cup task[current].posted
  /\ task' = [task EXCEPT ![current].posted = {}, ![current].target = 0]
  /\ step' = "exit"
  /\ UNCHANGED <<doc, stream, current, live, settling, bounds>>

Restored == IF task[current].retried /\ status = "INSUFFICIENT_FUNDS" THEN "RUNNING" ELSE status

(* onListExit inserts a SCHEDULED deployment's next firing; the consumer     *)
(* deletes this one afterwards.                                              *)
ListExit ==
  /\ step = "exit"
  /\ IF strategy = "SCHEDULED"
       THEN /\ Room(task) # {}
            /\ task' = Insert(task, NewList(task[current].rev, task[current].run, "none"))
            /\ step' = "done" /\ UNCHANGED current
       ELSE Leave
  /\ Write(Restored)
  /\ UNCHANGED <<strategy, run, rev, request, swaps, jobVars, bounds>>

Complete == /\ step = "done" /\ Leave
            /\ UNCHANGED <<doc, stream, jobVars, bounds>>

-----------------------------------------------------------------------------
(* A STOP's run.  A settled target is a confirmed no-op, counted by the API  *)
(* path and skipped by the self-custody one.                                 *)

Kill ==
  /\ step = "kill"
  /\ live' = live \ task[current].stop
  /\ \/ UNCHANGED task
     \/ task' = [task EXCEPT ![current].stop = @ \cap live]
  /\ step' = "retired"
  /\ UNCHANGED <<doc, stream, current, active, settling, bounds>>

Straggles(t) == \/ Scope(t, active \ task[t].stop) # {}
                \/ \E u \in Stored : InFlight(u) /\ (task[t].rev = 0 \/ task[u].rev # task[t].rev)

(* The self-heal, then onStopExit: whatever kind of STOP it was, one that    *)
(* retired nothing settles a STOPPING deployment with no active job.         *)
StopExit ==
  /\ step = "retired"
  /\ LET again   == InsertOnce(task, NewStop(task[current].rev, task[current].reason))
         left    == IF Straggles(current) THEN again ELSE task
         settles == task[current].stop = {} /\ active = {} /\ status = "STOPPING"
     IN /\ Straggles(current) => Fits(task, NewStop(task[current].rev, task[current].reason))
        /\ task' = [left EXCEPT ![current] = NoTask]
        /\ Write(IF settles THEN "STOPPED" ELSE Restored)
        /\ forgot' = (forgot \/ (settles /\ task[current].rev # 0 /\ Unswept))
  /\ current' = 0 /\ step' = "idle"
  /\ SettleRows(task[current].stop \cap active)
  /\ UNCHANGED <<strategy, run, rev, request, swaps, live, moves>>

-----------------------------------------------------------------------------
(* Failures: a retry or a crash puts the task back; a funds error shows; a   *)
(* negative balance archives the owner (archiveBannedOwner).                 *)

(* Where a run may get an error that its task answers with a cooldown.       *)
Handled == step \in {"post", "kill"}

Retry ==
  /\ current # 0 /\ Move
  /\ task' = [task EXCEPT ![current].claimed = FALSE, ![current].retried = Handled \/ @]
  /\ current' = 0 /\ step' = "idle"
  /\ \/ KeepStatus
     \/ Handled /\ status = "RUNNING" /\ Write("INSUFFICIENT_FUNDS")
  /\ UNCHANGED <<strategy, run, rev, request, swaps, jobVars, forgot>>

(* archiveBannedOwner skips an owner whose deployments are all archived; the *)
(* run fails, and its task is deleted, either way.                           *)
Ban ==
  /\ Handled /\ Move
  /\ LET kept == [t \in Slots |-> IF t = current \/ Swept(t) THEN NoTask ELSE task[t]]
     IN IF status = "ARCHIVED" THEN Leave ELSE task' = InsertOnce(kept, NewStop(0, "stop"))
  /\ current' = 0 /\ step' = "idle"
  /\ Write("ARCHIVED")
  /\ forgot' = (forgot \/ (status = "ARCHIVED" /\ live # {}))
  /\ UNCHANGED <<strategy, run, rev, request, swaps, jobVars>>

(* A task out of attempts: ERROR if it was wanted, and gone. *)
Abandon(t) ==
  /\ t \in Stored \ {current} /\ ~task[t].claimed
  /\ task[t].frozen \/ task[t].target # Unset
  /\ task' = [task EXCEPT ![t] = NoTask]
  /\ LET fails == StillWanted(t) /\ status # "ARCHIVED"
     IN /\ Write(IF fails THEN "ERROR" ELSE status)
        /\ forgot' = (forgot \/ InFlight(t) \/ (~fails /\ live # {}))
  /\ UNCHANGED <<strategy, run, rev, request, swaps, worker, jobVars, moves>>

-----------------------------------------------------------------------------
Callback(j) == SettleCounts(j) \/ SettleWrites(j)
Handle(t)   == Drop(t) \/ RunList(t) \/ RunStop(t)
Work        == Post \/ Record \/ ListExit \/ Complete \/ Kill \/ StopExit

Next ==
  \/ \E r \in Routes : Ask(r)
  \/ Start \/ Stop \/ Archive \/ Swap
  \/ StatusCallback \/ RevisionCallback
  \/ \E j \in Jobs : Finish(j) \/ Observe(j) \/ Callback(j)
  \/ \E t \in Slots : Claim(t) \/ Handle(t) \/ Abandon(t)
  \/ Work \/ Retry \/ Ban

Spec == Init /\ [][Next]_vars

(* Requests complete, the stream delivers, callbacks run, consumers poll     *)
(* oldest-due first and the accounts listener sees what ended.  Nothing      *)
(* makes a job end, a user ask or a run fail.                                *)
FairSpec ==
  /\ Spec
  /\ WF_vars(Start \/ Stop \/ Archive)
  /\ WF_vars(StatusCallback \/ RevisionCallback)
  /\ WF_vars(\E j \in Jobs : Observe(j) \/ Callback(j))
  /\ WF_vars(Work)
  /\ \A k \in {"LIST", "STOP"} : SF_vars(\E t \in Slots : task[t].kind = k /\ Handle(t))

-----------------------------------------------------------------------------
(* Properties. *)

Down == {"STOPPED", "ARCHIVED"}

(* ARCHIVED is terminal: the finalizers, the retries and the stop of its     *)
(* jobs never revive it; only a route that read it before can (unfenced).    *)
ArchivedStays == [][status = "ARCHIVED" /\ status' # status => request' # request]_vars

(* A stop ends: a deployment stopping, stopped or archived comes to be down  *)
(* with no job alive, whatever a LIST in flight lands meanwhile (runStopTask *)
(* 's self-heal), unless it is started again or a finalizer forgot it.    *)
Halting == status \in Down \cup {"STOPPING"}
StopCompletes == Halting ~> (status \in Down /\ live = {}) \/ ~Halting \/ forgot

(* A swap retires the jobs of every other revision. *)
Outdated == {j \in live : j[1] # rev}
SwapCompletes == (status = "RUNNING" /\ Outdated # {}) ~> (Outdated = {} \/ status # "RUNNING")

(* A SCHEDULED deployment has one chain of firings per run and revision,     *)
(* however often a change event or a LIST is handled again.                  *)
OneChain ==
  strategy = "SCHEDULED" =>
    \A t, u \in {l \in Lists : task[l].target # 0} :
      task[t].run = task[u].run /\ task[t].rev = task[u].rev => t = u

(* A job of the deployment is known while it lives: it has an active row, or *)
(* the task that posted it is there to record it.  A task out of attempts    *)
(* may take its jobs with it; no stop, sweep, ban, settlement, drop or       *)
(* retry does.                                                               *)
Known == active \cup UNION {task[t].posted : t \in Slots}
OnlyAbandonForgets ==
  [][\A j \in live' \ Known' :
       j \in live \ Known \/ \E t \in Slots : Abandon(t) /\ j \in task[t].posted]_vars

NoJobForgotten == live \subseteq Known \/ forgot

(* What the run in hand has to be for that. *)
Coherent ==
  /\ step \in {"post", "record", "exit", "done"} => task[current].kind = "LIST"
  /\ step \in {"kill", "retired"} => task[current].kind = "STOP"
  /\ step \in {"post", "exit", "done"} => task[current].posted = {}
  /\ step = "retired" => task[current].stop \cap live = {}
  /\ \A t \in Slots : task[t].kind # "LIST" => task[t].posted = {}
  /\ run <= moves

(* A stopping deployment swept its LISTs before it is marked STOPPED. *)
StopSweepsFirst ==
  [][status = "STOPPING" /\ status' = "STOPPED" =>
       \A t \in Lists : InFlight(t) \/ t = current]_vars
=============================================================================
