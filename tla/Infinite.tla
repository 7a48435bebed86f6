------------------------------- MODULE Infinite -------------------------------
(****************************************************************************)
(* The replicas of a RUNNING deployment of the INFINITE strategy: what the  *)
(* jobs listener decides when a job starts (infiniteJobRunningUpdate: trim  *)
(* an overcount, schedule the job's rotation) and when it ends              *)
(* (infiniteJobStateCompletedOrStopUpdate: throttle, refill, or hand the    *)
(* slot to the rotation).  Callbacks are not awaited: those of all jobs     *)
(* interleave between their reads and writes.  The deployment's tasks run   *)
(* one at a time (TaskQueue).  When a job's own STOP is due, and whether    *)
(* its end counts as late, is Startup's: here a job may be stopped at any   *)
(* time and any end may be a round.  One run, one revision; once the        *)
(* fail-safe has made the deployment STOPPING, Deployment has what follows. *)
(****************************************************************************)
EXTENDS Integers, FiniteSets

CONSTANTS
  Jobs,        \* job rows there is room for at once
  ReplicaCounts, \* the replicas a deployment may have
  MaxStreak,   \* rapid_completion_max_streak, 0: no ceiling
  MaxRefills,  \* bound: jobs end and are stopped while this many refills wait
  NoJob

ASSUME InfiniteAssumption ==
  /\ ReplicaCounts \subseteq Nat \ {0} /\ MaxStreak \in Nat /\ MaxRefills \in Nat
  /\ IsFiniteSet(Jobs) /\ NoJob \notin Jobs

VARIABLES
  status, streak, replicas,   \* the deployment: RUNNING or STOPPING, rapid_streak
  row,        \* state of each row; COMPLETED and STOPPED are ENDED
  writes,     \* change events that wrote the row's state, not delivered yet
  starting,   \* the next step of a job's RUNNING callback
  settling,   \* the next step of the callback of a job's end
  rotation,   \* the rotation LIST of a job that is not claimed: pending or due
  trim,       \* the overcount STOP waits
  refills,    \* refill LISTs that wait, throttled or not
  run,        \* the task that holds the deployment's lock
  taken       \* history: rounds that found the refill of another waiting, up to replicas

docs == <<status, streak, replicas, taken>>
jobs == <<row, writes>>
calls == <<starting, settling>>
tasks == <<rotation, trim, refills>>
infiniteVars == <<docs, jobs, calls, tasks, run>>

Active == {j \in Jobs : row[j] \in {"QUEUED", "RUNNING"}}
Count == Cardinality(Active)
NoRun == [kind |-> "none", job |-> NoJob, hits |-> {}]
Quiet(j) == j \notin Active /\ writes[j] = 0 /\ starting[j] = "idle" /\ settling[j] = "idle"
Unused(j) == Quiet(j) /\ rotation[j] = "none"   \* the row can be used again

InfiniteTypeOK ==
  /\ status \in {"RUNNING", "STOPPING"} /\ streak \in Nat /\ replicas \in ReplicaCounts
  /\ row \in [Jobs -> {"NONE", "QUEUED", "RUNNING", "ENDED"}]
  /\ writes \in [Jobs -> 0..2]
  /\ starting \in [Jobs -> {"idle", "count", "trim", "rotate"}]
  /\ settling \in [Jobs -> {"idle", "round", "token", "healthy", "fill", "withdraw"}]
  /\ rotation \in [Jobs -> {"none", "pending", "due"}]
  /\ trim \in BOOLEAN /\ refills \in Nat /\ taken \in 0..replicas
  /\ run \in [kind : {"none", "refill", "rotation", "stop"},
              job : Jobs \cup {NoJob}, hits : SUBSET Jobs]

(* The start's LIST has listed the replicas. *)
InfiniteInit ==
  /\ status = "RUNNING" /\ streak = 0 /\ replicas \in ReplicaCounts
  /\ \E S \in SUBSET Jobs :
       /\ Cardinality(S) = replicas
       /\ row = [j \in Jobs |-> IF j \in S THEN "QUEUED" ELSE "NONE"]
  /\ writes = [j \in Jobs |-> 0]
  /\ starting = [j \in Jobs |-> "idle"] /\ settling = [j \in Jobs |-> "idle"]
  /\ rotation = [j \in Jobs |-> "none"] /\ trim = FALSE /\ refills = 0
  /\ run = NoRun /\ taken = 0

-----------------------------------------------------------------------------
(* The rows, as the accounts listener writes them (onJobUpdate). *)

Observe(j, from, to) ==
  /\ row[j] \in from /\ row' = [row EXCEPT ![j] = to]
  /\ writes' = [writes EXCEPT ![j] = @ + 1]
  /\ UNCHANGED <<docs, calls, tasks, run>>

Take(j) == Observe(j, {"QUEUED"}, "RUNNING")
End(j) == refills <= MaxRefills /\ Observe(j, {"QUEUED", "RUNNING"}, "ENDED")

(* An event carries the row as it is on delivery: a write of RUNNING can     *)
(* come out as one more end.  Callbacks of other events of the job that are  *)
(* under way go on; two of a kind are one after the other here.              *)
Deliver(j) ==
  /\ writes[j] > 0 /\ writes' = [writes EXCEPT ![j] = @ - 1]
  /\ \/ /\ row[j] = "RUNNING" /\ starting[j] = "idle" /\ UNCHANGED settling
        /\ starting' = [starting EXCEPT ![j] = IF status = "RUNNING" THEN "count" ELSE @]
     \/ /\ row[j] = "ENDED" /\ settling[j] = "idle" /\ UNCHANGED starting
        /\ \E verdict \in {"round", "healthy"} :
             settling' = [settling EXCEPT ![j] = IF status = "RUNNING" THEN verdict ELSE @]
  /\ UNCHANGED <<docs, row, tasks, run>>

-----------------------------------------------------------------------------
(* infiniteJobRunningUpdate. *)

Starting(j, from, to) ==
  /\ starting[j] = from /\ starting' = [starting EXCEPT ![j] = to]
  /\ UNCHANGED <<docs, jobs, settling, refills, run>>

CountStarted(j) ==
  /\ Starting(j, "count", IF Count > replicas THEN "trim" ELSE "rotate")
  /\ UNCHANGED <<trim, rotation>>

(* Both inserts are idempotent: one overcount STOP, one rotation per job.    *)
Trim(j) == Starting(j, "trim", "rotate") /\ trim' = TRUE /\ UNCHANGED rotation

Rotate(j) ==
  /\ Starting(j, "rotate", "idle")
  /\ rotation' = [rotation EXCEPT ![j] = IF @ = "none" THEN "pending" ELSE @]
  /\ UNCHANGED trim

-----------------------------------------------------------------------------
(* infiniteJobStateCompletedOrStopUpdate. *)

Settling(j, from, to) ==
  /\ settling[j] = from /\ settling' = [settling EXCEPT ![j] = to]
  /\ UNCHANGED <<jobs, starting, trim, run>>

Withdrawn(j) == rotation' = [rotation EXCEPT ![j] = "none"]

(* A round takes the rotation away, and is won by the idempotent insert of a *)
(* refill: any refill LIST that waits is the same intent, and takes it.      *)
Round(j) == Settling(j, "round", "token") /\ Withdrawn(j) /\ UNCHANGED <<docs, refills>>

RoundTaken == refills > 0
Ceiling == MaxStreak > 0 /\ streak + 1 >= MaxStreak

RoundToken(j) ==
  /\ Settling(j, "token", "idle")
  /\ refills' = IF RoundTaken THEN refills ELSE refills + 1
  /\ streak' = IF RoundTaken \/ Ceiling THEN streak ELSE streak + 1
  /\ status' = IF ~RoundTaken /\ Ceiling THEN "STOPPING" ELSE status
  /\ taken' = IF RoundTaken /\ taken < replicas THEN taken + 1 ELSE taken
  /\ UNCHANGED <<replicas, rotation>>

HealthyCountsItself(j) ==
  /\ Settling(j, "healthy", IF Count + 1 < replicas THEN "fill" ELSE "withdraw")
  /\ streak' = 0 /\ UNCHANGED <<status, replicas, taken, rotation, refills>>

(* A healthy end resets the streak, then counts. *)
Healthy(j) ==
  /\ Settling(j, "healthy", IF Count < replicas THEN "fill" ELSE "withdraw")
  /\ streak' = 0 /\ UNCHANGED <<status, replicas, taken, rotation, refills>>

Withdraw(j) == Settling(j, "withdraw", "idle") /\ Withdrawn(j) /\ UNCHANGED <<docs, refills>>

Rotates(j) == run.kind = "rotation" /\ run.job = j

FillLeavesPending(j) ==
  /\ Settling(j, "fill", "idle")
  /\ refills' = IF rotation[j] # "none" \/ Rotates(j) THEN refills ELSE refills + 1
  /\ UNCHANGED <<docs, rotation>>

(* The slot goes to the job's rotation, made due, or running already; or to  *)
(* a refill of its own.                                                      *)
Fill(j) ==
  /\ Settling(j, "fill", "idle")
  /\ IF rotation[j] # "none" THEN rotation' = [rotation EXCEPT ![j] = "due"] /\ UNCHANGED refills
     ELSE IF Rotates(j) THEN UNCHANGED <<rotation, refills>>
     ELSE refills' = refills + 1 /\ UNCHANGED rotation
  /\ UNCHANGED docs

-----------------------------------------------------------------------------
(* Time, and the tasks. *)

Elapse(j) ==
  /\ rotation[j] = "pending" /\ rotation' = [rotation EXCEPT ![j] = "due"]
  /\ UNCHANGED <<docs, jobs, calls, trim, refills, run>>

Begin(kind, j, hits) ==
  /\ run = NoRun /\ status = "RUNNING"
  /\ run' = [kind |-> kind, job |-> j, hits |-> hits]
  /\ UNCHANGED <<docs, jobs, calls>>

(* The STOP of one job, its deadline or its tunnel's grace being over. *)
StopBegins(j) ==
  j \in Active /\ refills <= MaxRefills /\ Begin("stop", j, {j}) /\ UNCHANGED tasks

(* selectJobsToStop: one job, queued before running. *)
Trimmable == LET queued == {j \in Jobs : row[j] = "QUEUED"}
             IN IF queued # {} THEN queued ELSE Active

TrimBegins ==
  /\ refills <= MaxRefills
  /\ trim /\ trim' = FALSE
  /\ \/ Active = {} /\ Begin("stop", NoJob, {})
     \/ \E j \in Trimmable : Begin("stop", NoJob, {j})
  /\ UNCHANGED <<rotation, refills>>

(* A LIST begins when there is a row for its job: `Jobs` is a bound. *)
RotationBegins(j) ==
  /\ Quiet(j) \/ \E k \in Jobs : Unused(k)
  /\ rotation[j] = "due" /\ Withdrawn(j) /\ Begin("rotation", j, {})
  /\ UNCHANGED <<trim, refills>>

RefillBegins ==
  /\ \E k \in Jobs : Unused(k)
  /\ refills > 0 /\ refills' = refills - 1 /\ Begin("refill", NoJob, {})
  /\ UNCHANGED <<trim, rotation>>

(* A LIST of either kind posts and records one job (`limit` is 1). *)
Lists ==
  /\ run.kind \in {"rotation", "refill"} /\ run' = NoRun
  /\ \E j \in Jobs : Unused(j) /\ row' = [row EXCEPT ![j] = "QUEUED"]
  /\ UNCHANGED <<docs, writes, calls, tasks>>

(* A STOP settles its jobs' rows (onStopExit). *)
Stops ==
  /\ run.kind = "stop" /\ run' = NoRun
  /\ LET hit == run.hits \cap Active
     IN /\ row' = [j \in Jobs |-> IF j \in hit THEN "ENDED" ELSE row[j]]
        /\ writes' = [j \in Jobs |-> IF j \in hit THEN writes[j] + 1 ELSE writes[j]]
  /\ UNCHANGED <<docs, calls, tasks>>

-----------------------------------------------------------------------------
Callback(j) ==
  \/ Deliver(j) \/ CountStarted(j) \/ Trim(j) \/ Rotate(j)
  \/ Round(j) \/ RoundToken(j) \/ Healthy(j) \/ Withdraw(j) \/ Fill(j)

InfiniteNext ==
  \/ \E j \in Jobs : Take(j) \/ End(j) \/ Callback(j)
  \/ \E j \in Jobs : Elapse(j) \/ StopBegins(j) \/ RotationBegins(j)
  \/ TrimBegins \/ RefillBegins \/ Lists \/ Stops

(* Callbacks and tasks go on, and no due task waits for ever for the lock:   *)
(* tasks are claimed oldest first.  Nodes need not take or end a job.        *)
InfiniteFairness ==
  /\ \A j \in Jobs : WF_infiniteVars(Callback(j)) /\ WF_infiniteVars(Elapse(j)) /\ SF_infiniteVars(RotationBegins(j))
  /\ SF_infiniteVars(RefillBegins) /\ SF_infiniteVars(TrimBegins)
  /\ WF_infiniteVars(Lists) /\ WF_infiniteVars(Stops)

InfiniteSpec == InfiniteInit /\ [][InfiniteNext]_infiniteVars
LiveSpec == InfiniteSpec /\ InfiniteFairness

-----------------------------------------------------------------------------
(* Properties. *)

(* The jobs that are active, the LISTs that are due to post one more, and    *)
(* the ended jobs whose replacement is not decided yet.                      *)
Undecided == {j \in Jobs : row[j] = "ENDED" /\ (writes[j] > 0 \/ settling[j] # "idle")}
Inherited == {j \in Jobs : row[j] = "ENDED" /\ rotation[j] = "due"} \ Undecided
Coming == refills + (IF run.kind \in {"refill", "rotation"} THEN 1 ELSE 0)
Held == Count + Cardinality(Undecided) + Cardinality(Inherited) + Coming

(* No slot is lost but to a round that takes the refill of another for its   *)
(* own, and the last slot never (infiniteJobStateCompletedOrStopUpdate).     *)
SlotsKept == status = "RUNNING" => Held >= 1 /\ Held + taken >= replicas

(* What it says: "The round's throttled LIST below replaces this job".       *)
EveryJobReplaced == status = "RUNNING" => Held >= replicas

(* And it is filled.  However jobs end and are stopped, the deployment has a *)
(* job again and again while it is RUNNING; and unless they do so for ever,  *)
(* it comes back to its replicas, less the rounds that took another's refill *)
(* (nothing refills those slots).                                            *)
Loses == \E j \in Active : row'[j] = "ENDED"
ComesBack ==
  /\ []<>(status # "RUNNING" \/ Count >= 1)
  /\ \/ []<>(status # "RUNNING" \/ Count + taken >= replicas)
     \/ []<><<Loses>>_infiniteVars

=============================================================================
