-------------------------------- MODULE Rescale --------------------------------
(****************************************************************************)
(* Edits of a RUNNING deployment that change what it should have alive: its *)
(* replicas and its market (strategy SIMPLE or SIMPLE-EXTEND; one revision  *)
(* and one run).  The routes only write the document; the change-stream     *)
(* callbacks count or find its active jobs and queue LISTs and STOPs, which *)
(* the queue runs one at a time, with the document and the jobs read when   *)
(* each was claimed.  Nothing compares the result with the document         *)
(* afterwards.                                                              *)
(*                                                                          *)
(* Deployment has starts, stops, revisions and full STOPs; Infinite has the *)
(* refills and trims of INFINITE; Reservation has how nodes are found.      *)
(****************************************************************************)
EXTENDS Integers, FiniteSetsExt, Functions

CONSTANTS
  Markets,      \* the markets a deployment may name
  Home,         \* the one it was created with
  NoMarket,     \* the null market: post wherever a node is found
  MaxReplicas,  \* bound on replicas
  MaxJobs,      \* bound on the jobs ever posted
  MaxTasks,     \* bound on the tasks stored at once
  MaxEdits,     \* bound on the edits
  MaxTrouble    \* bound on the jobs that end by themselves and the failed runs together

ASSUME RescaleAssumption ==
  /\ Home \in Markets /\ NoMarket \notin Markets
  /\ MaxReplicas \in Nat \ {0} /\ MaxJobs \in Nat /\ MaxJobs >= MaxReplicas
  /\ MaxTasks \in Nat \ {0} /\ MaxEdits \in Nat /\ MaxTrouble \in Nat

VARIABLES
  status, replicas, market,  \* the deployment document
  resizes,    \* undelivered change events that wrote the replicas
  moves,      \* undelivered change events that wrote the market
  swaps,      \* market callbacks in progress
  task,       \* the deployment's tasks
  current,    \* the task that holds the deployment's lock, 0: none
  step,       \* where its run is
  live,       \* jobs alive on chain
  activeJobs, \* jobs whose row is QUEUED or RUNNING
  host,       \* the market each job with an active row was posted to
  newest,     \* the job posted last
  settling,   \* where a job's settlement callback is
  ended, edits, failures,  \* counters of the bounds
  overlapped, \* history: a callback sized its tasks while others were at work
  borrowed    \* history: a move left its replacements to the LIST of another

doc    == <<status, replicas, market>>
events == <<resizes, moves, swaps>>
queue  == <<task, current, step>>
chain  == <<live, host, newest>>
bounds == <<ended, edits, failures>>
hist   == <<overlapped, borrowed>>
rescaleVars == <<doc, events, queue, chain, activeJobs, settling, bounds, hist>>

Jobs  == 1..MaxJobs
NoTarget == 0        \* a task that is for no job in particular
Slots == 1..MaxTasks
Unset == MaxJobs + 1   \* no limit, or a target not frozen yet
Places == Markets \cup {NoMarket}

(* No slot; else the task, and the claim with what it read. *)
NoTask == [kind |-> "none", limit |-> Unset, job |-> NoTarget, reason |-> "none",
           target |-> Unset, stop |-> {}, posted |-> {}, frozen |-> FALSE, claimed |-> FALSE,
           market |-> NoMarket, seen |-> {}]

NewList(n, why) == [NoTask EXCEPT !.kind = "LIST", !.limit = n, !.reason = why]
Trim(n)   == [NoTask EXCEPT !.kind = "STOP", !.limit = n]
StopOf(j) == [NoTask EXCEPT !.kind = "STOP", !.job = j]

Stored == {t \in Slots : task[t] # NoTask}
Lists  == {t \in Stored : task[t].kind = "LIST"}
Trims  == {t \in Stored : task[t].kind = "STOP" /\ task[t].job = NoTarget}

RescaleTypeOK ==
  /\ status \in {"RUNNING", "STOPPED"} /\ replicas \in 1..MaxReplicas /\ market \in Places
  /\ resizes \in 0..MaxEdits /\ moves \in 0..MaxEdits
  /\ swaps \subseteq [edit : 1..MaxEdits, jobs : SUBSET Jobs, size : Jobs, listed : BOOLEAN]
  /\ task \in [Slots -> [kind : {"none", "LIST", "STOP"}, limit : 0..Unset, job : {NoTarget} \cup Jobs,
                         reason : {"none", "market"}, target : 0..Unset, stop : SUBSET Jobs,
                         posted : SUBSET Jobs, frozen : BOOLEAN, claimed : BOOLEAN,
                         market : Places, seen : SUBSET Jobs]]
  /\ current \in {0} \cup Slots /\ step \in {"idle", "post", "record", "exit", "kill"}
  /\ live \subseteq Jobs /\ activeJobs \subseteq Jobs /\ host \in [Jobs -> Places]
  /\ settling \in [Jobs -> {"none", "due", "last", "quiet"}]
  /\ ended \in Nat /\ failures \in Nat /\ ended + failures <= MaxTrouble
  /\ edits \in 0..MaxEdits /\ newest \in 0..MaxJobs
  /\ overlapped \in BOOLEAN /\ borrowed \in BOOLEAN

(* Just started: the LIST of deploymentStatusStartingUpdate is queued. *)
RescaleInit ==
  /\ status = "RUNNING" /\ replicas \in 1..MaxReplicas /\ market = Home
  /\ resizes = 0 /\ moves = 0 /\ swaps = {}
  /\ task = [t \in Slots |-> IF t = 1 THEN NewList(Unset, "none") ELSE NoTask]
  /\ current = 0 /\ step = "idle"
  /\ live = {} /\ activeJobs = {} /\ host = [j \in Jobs |-> NoMarket] /\ newest = 0
  /\ settling = [j \in Jobs |-> "none"]
  /\ ended = 0 /\ edits = 0 /\ failures = 0 /\ overlapped = FALSE /\ borrowed = FALSE

-----------------------------------------------------------------------------
(* The tasks collection. *)

Room == {t \in Slots : task[t] = NoTask}
Insert(new) == /\ Room # {}
               /\ task' = [task EXCEPT ![Min(Room)] = new]

(* A PENDING task of the same intent, which an idempotent insert leaves be. *)
Queued(new) == {t \in Stored : task[t].kind = new.kind /\ task[t].job = new.job
                               /\ task[t].limit = new.limit /\ task[t].reason = new.reason
                               /\ ~task[t].claimed}
InsertOnce(new) == IF Queued(new) # {} THEN UNCHANGED task ELSE Insert(new)

-----------------------------------------------------------------------------
(* Routes: any deployment but an ARCHIVED one may be edited.                 *)

EditReplicas ==
  /\ edits < MaxEdits /\ edits' = edits + 1
  /\ \E n \in 1..MaxReplicas \ {replicas} : replicas' = n
  /\ resizes' = resizes + 1
  /\ UNCHANGED <<status, market, moves, swaps, queue, chain, activeJobs, settling, ended, failures, hist>>

(* update-market names a market; update-requirements writes one or none. *)
EditMarket ==
  /\ edits < MaxEdits /\ edits' = edits + 1
  /\ \E m \in Places \ {market} : market' = m
  /\ moves' = moves + 1
  /\ UNCHANGED <<status, replicas, resizes, swaps, queue, chain, activeJobs, settling, ended, failures, hist>>

-----------------------------------------------------------------------------
(* deploymentReplicaUpdate: counts, and queues the difference.  Its insert   *)
(* follows its count with nothing awaited that could change it.              *)

WholeCount(n) == replicas
Shortfall(n)  == replicas - n

Settled == Stored = {} /\ swaps = {} /\ activeJobs = live

Resize ==
  /\ resizes > 0 /\ resizes' = resizes - 1
  /\ LET n == Cardinality(activeJobs)
     IN IF status # "RUNNING" \/ n = replicas THEN UNCHANGED task
        ELSE Insert(IF n > replicas THEN Trim(n - replicas) ELSE NewList(Shortfall(n), "none"))
  /\ overlapped' = (overlapped \/ ~Settled)
  /\ UNCHANGED <<doc, moves, swaps, current, step, chain, activeJobs, settling, bounds, borrowed>>

-----------------------------------------------------------------------------
(* deploymentMarketUpdate: finds the displaced jobs, queues one LIST for as  *)
(* many, then a targeted STOP of each.                                       *)

Replacements(n) == NewList(n, "market")
Displaced == {j \in activeJobs : host[j] # market}

(* Nothing else is about to change the same jobs: no LIST but the one it    *)
(* would queue, no excess still to be trimmed or seen to have been stopped.  *)
Alone(n) == /\ Lists \subseteq Queued(Replacements(n)) /\ Trims = {}
            /\ Cardinality(activeJobs) <= replicas

Move ==
  /\ moves > 0 /\ moves' = moves - 1
  /\ IF status # "RUNNING" \/ market = NoMarket THEN UNCHANGED <<swaps, overlapped>>
     ELSE LET n == Cardinality(Displaced)
          IN /\ swaps' = IF n = 0 THEN swaps
                         ELSE swaps \cup {[edit |-> edits - moves', jobs |-> Displaced, size |-> n,
                                           listed |-> FALSE]}
             /\ overlapped' = (overlapped \/ ~Alone(n) \/ swaps # {})
  /\ UNCHANGED <<doc, resizes, queue, chain, activeJobs, settling, bounds, borrowed>>

(* The LIST that stands is for these jobs, as far as they live: each has its *)
(* STOP queued behind it.                                                    *)
OwnList(S) == Lists = {} \/ S \cap live \subseteq {task[t].job : t \in Stored}

MoveLists(s) ==
  /\ ~s.listed
  /\ InsertOnce(Replacements(s.size))
  /\ swaps' = (swaps \ {s}) \cup {[s EXCEPT !.listed = TRUE]}
  /\ overlapped' = (overlapped \/ ~Alone(s.size) \/ ~(s.jobs \subseteq activeJobs))
  /\ borrowed' = (borrowed \/ ~OwnList(s.jobs))
  /\ UNCHANGED <<doc, resizes, moves, current, step, chain, activeJobs, settling, bounds>>

StopsFirst(s) == s.jobs # {}
MayStop(s)    == s.listed

StopAny(j)    == Insert(Trim(1))
InsertStop(j) == Insert(StopOf(j))

MoveStops(s) ==
  /\ MayStop(s)
  /\ LET j == Min(s.jobs)
         rest == [s EXCEPT !.jobs = @ \ {j}]
     IN /\ InsertStop(j)
        /\ swaps' = (swaps \ {s}) \cup {r \in {rest} : r.jobs # {} \/ ~r.listed}
  /\ UNCHANGED <<doc, resizes, moves, current, step, chain, activeJobs, settling, bounds, hist>>

-----------------------------------------------------------------------------
(* The consumer.  A task is claimed with the document and the jobs of that   *)
(* moment, which its run will use: a LIST without a limit lists what they    *)
(* leave to list.  A claim that meets the lock waits (one at a time here),   *)
(* or is released and claimed again.                                         *)

Target(t) == IF task[t].limit # Unset THEN task[t].limit
             ELSE Max({0, replicas - Cardinality(activeJobs)})

Claimed(t) ==
  IF task[t].kind = "STOP" THEN [task[t] EXCEPT !.claimed = TRUE, !.seen = activeJobs]
  ELSE [task[t] EXCEPT !.claimed = TRUE, !.market = market,
                       !.target = IF @ = Unset THEN Target(t) ELSE @]
Read(t) == IF task[t].claimed THEN task[t] ELSE Claimed(t)

Claim(t) ==
  /\ current # 0 /\ t \in Stored \ {current}
  /\ \A u \in Stored : task[u].claimed => u \in {t, current}
  /\ task' = [task EXCEPT ![t] = Claimed(t)]
  /\ task' # task
  /\ UNCHANGED <<doc, events, current, step, chain, activeJobs, settling, bounds, hist>>

Takes(t) == current = 0 /\ t \in Stored

(* A LIST of a deployment that stopped is dropped. *)
Drop(t) ==
  /\ Takes(t) /\ t \in Lists /\ status = "STOPPED"
  /\ task' = [task EXCEPT ![t] = NoTask]
  /\ UNCHANGED <<doc, events, current, step, chain, activeJobs, settling, bounds, hist>>

RunList(t) ==
  /\ Takes(t) /\ t \in Lists /\ status = "RUNNING"
  /\ LET c == Read(t)
     IN /\ task' = [task EXCEPT ![t] = c]
        /\ step' = IF c.target = 0 THEN "exit" ELSE "post"
  /\ current' = t
  /\ UNCHANGED <<doc, events, chain, activeJobs, settling, bounds, hist>>

(* selectJobsToStop: the targeted job, or as many as the limit; that QUEUED  *)
(* and older jobs go first is left open.                                     *)
Selected(c) ==
  IF c.job # NoTarget THEN {c.seen \cap {c.job}}
  ELSE {S \in SUBSET c.seen : Cardinality(S) = Min({c.limit, Cardinality(c.seen)})}

RunStop(t) ==
  /\ Takes(t) /\ task[t].kind = "STOP"
  /\ LET c == Read(t)
     IN \E S \in IF c.frozen THEN {c.stop} ELSE Selected(c) :
          task' = [task EXCEPT ![t] = [c EXCEPT !.stop = S, !.frozen = TRUE, !.seen = {}]]
  /\ current' = t /\ step' = "kill"
  /\ UNCHANGED <<doc, events, chain, activeJobs, settling, bounds, hist>>

-----------------------------------------------------------------------------
(* The runs. *)

Leave == task' = [task EXCEPT ![current] = NoTask] /\ current' = 0 /\ step' = "idle"

(* Judged wanted again right before it posts, to the market it was claimed   *)
(* with, or to the market of the node it was given.                          *)
PostJobs ==
  /\ step = "post"
  /\ IF status = "STOPPED" THEN Leave /\ UNCHANGED chain
     ELSE LET S == newest + 1 .. newest + task[current].target
          IN /\ S \subseteq Jobs /\ newest' = Max(S)
             /\ \E m \in IF task[current].market = NoMarket THEN Markets ELSE {task[current].market} :
                  host' = [j \in Jobs |-> IF j \in S THEN m ELSE host[j]]
             /\ live' = live \cup S
             /\ task' = [task EXCEPT ![current].posted = S, ![current].market = NoMarket]
             /\ step' = "record" /\ UNCHANGED current
  /\ UNCHANGED <<doc, events, activeJobs, settling, bounds, hist>>

Record ==
  /\ step = "record"
  /\ activeJobs' = activeJobs \cup task[current].posted
  /\ step' = "exit"
  /\ UNCHANGED <<doc, events, task, current, chain, settling, bounds, hist>>

Exit == /\ step = "exit" /\ Leave
        /\ UNCHANGED <<doc, events, chain, activeJobs, settling, bounds, hist>>

(* onStopExit settles the rows without waiting: Observe.  *)
Kill ==
  /\ step = "kill"
  /\ live' = live \ task[current].stop
  /\ Leave
  /\ UNCHANGED <<doc, events, host, newest, activeJobs, settling, bounds, hist>>

(* A run that failed before it did anything: tried again after a cooldown. *)
Retry ==
  /\ step \in {"post", "kill"} /\ ended + failures < MaxTrouble /\ failures' = failures + 1
  /\ task' = [task EXCEPT ![current].claimed = FALSE]
  /\ current' = 0 /\ step' = "idle"
  /\ UNCHANGED <<doc, events, chain, activeJobs, settling, ended, edits, hist>>

-----------------------------------------------------------------------------
(* Jobs. *)

EndJob(j) ==
  /\ j \in live /\ ended + failures < MaxTrouble /\ ended' = ended + 1
  /\ live' = live \ {j}
  /\ UNCHANGED <<doc, events, queue, host, newest, activeJobs, settling, edits, failures, hist>>

Observe(j) ==
  /\ j \in activeJobs \ live
  /\ activeJobs' = activeJobs \ {j}
  /\ host' = [host EXCEPT ![j] = NoMarket]
  /\ settling' = [settling EXCEPT ![j] = "due"]
  /\ UNCHANGED <<doc, events, queue, live, newest, bounds, hist>>

(* jobAllActiveJobsStop: drops the job's own STOPs (one that runs is gone    *)
(* when it ends), counts the active jobs, then the LISTs, then marks the     *)
(* deployment STOPPED.                                                       *)
Forget(j) ==
  /\ settling[j] = "due"
  /\ task' = [t \in Slots |-> IF task[t].job = j /\ t # current THEN NoTask ELSE task[t]]
  /\ settling' = [settling EXCEPT ![j] = IF activeJobs = {} /\ status = "RUNNING" THEN "last" ELSE "none"]
  /\ UNCHANGED <<doc, events, current, step, chain, activeJobs, bounds, hist>>

NoListLeft == Lists = {}

CountLists(j) ==
  /\ settling[j] = "last"
  /\ settling' = [settling EXCEPT ![j] = IF NoListLeft THEN "quiet" ELSE "none"]
  /\ UNCHANGED <<doc, events, queue, chain, activeJobs, bounds, hist>>

MarkStopped(j) ==
  /\ settling[j] = "quiet"
  /\ settling' = [settling EXCEPT ![j] = "none"]
  /\ status' = "STOPPED"
  /\ UNCHANGED <<replicas, market, events, queue, chain, activeJobs, bounds, hist>>

-----------------------------------------------------------------------------
Callbacks == Resize \/ Move \/ \E s \in swaps : MoveLists(s) \/ MoveStops(s)
Settle(j) == Forget(j) \/ CountLists(j) \/ MarkStopped(j)
Handle(t) == Drop(t) \/ RunList(t) \/ RunStop(t)
Work      == PostJobs \/ Record \/ Exit \/ Kill

RescaleNext ==
  \/ EditReplicas \/ EditMarket \/ Callbacks
  \/ \E t \in Slots : Claim(t) \/ Handle(t)
  \/ Work \/ Retry
  \/ \E j \in Jobs : EndJob(j) \/ Observe(j) \/ Settle(j)

RescaleSpec == RescaleInit /\ [][RescaleNext]_rescaleVars

(* Some callback, consumer or listener goes on while there is something to   *)
(* do: every task and event is handled at most a few times, so no more is    *)
(* needed.  Nobody has to edit, no job has to end and no run has to fail.    *)
System   == \/ Callbacks \/ Work \/ \E t \in Slots : Handle(t)
            \/ \E j \in Jobs : Observe(j) \/ Settle(j)
FairSpec == RescaleSpec /\ WF_rescaleVars(System)

-----------------------------------------------------------------------------
(* Properties.  "overlapped" marks the executions in which a callback sized  *)
(* its tasks while tasks already queued were about to change the same jobs,  *)
(* "borrowed" those in which a move found the LIST of another move pending,  *)
(* for as many jobs but not for its own.                                     *)

Ahead(c) == IF c.posted # {} THEN 0
            ELSE IF c.target # Unset THEN c.target
            ELSE IF c.limit # Unset THEN c.limit ELSE replicas
Coming == SumFunctionOnSet([t \in Slots |-> Ahead(task[t])], Lists)

(* A job is only given up once its replacement is queued: as long as the     *)
(* deployment runs, what is alive and what is about to be listed make up its *)
(* replicas, but for the jobs that ended by themselves.                      *)
MadeUp == Cardinality(live) + Coming + ended >= replicas
NeverShort == status = "RUNNING" /\ resizes = 0 /\ ~overlapped /\ ~borrowed => MadeUp

(* What deploymentMarketUpdate says: without "borrowed".  The code does not   *)
(* do it: its LIST is told apart by how many it lists, not by which jobs.     *)
EachMoveReplaced == status = "RUNNING" /\ resizes = 0 /\ ~overlapped => MadeUp

(* An edit lists only what is missing and a trim stops all the excess: when  *)
(* nothing is queued any more, no more jobs are alive than the replicas.     *)
Quiet == Stored = {} /\ swaps = {} /\ resizes = 0 /\ moves = 0
NeverOver == status = "RUNNING" /\ Quiet /\ ~overlapped => Cardinality(live) <= replicas

(* A job left on another market is moved. *)
OffMarket == {j \in live : market # NoMarket /\ host[j] # market}
MovesOver == OffMarket # {} ~> (OffMarket = {} \/ status = "STOPPED" \/ overlapped)
=============================================================================
