---------------------------- MODULE Reservation ----------------------------
(****************************************************************************)
(* A LIST of a deployment without a market reserves its nodes before it     *)
(* posts: one request per task, keyed by the task's id, recorded before it  *)
(* is sent, parked on while host-manager has no node, filled by a webhook   *)
(* that may come during a run, twice, or for a task that is gone; what the  *)
(* request does not bring is handed to a new LIST task.                     *)
(*                                                                          *)
(* Runs of the deployment are serial and fenced (TaskQueue); one assign per *)
(* node stands for the packed transactions (ListUnits).  A ban of the owner *)
(* is the one sweep that does not wait for the run.  host-manager is        *)
(* modelled from how the client uses it.  MaxTasks, MaxTerms and MaxFaults  *)
(* bound the tasks of the chain, the edits of the requirements, and the     *)
(* crashes, lost messages, lapses and failures.                             *)
(****************************************************************************)
EXTENDS Naturals, FiniteSets, FiniteSetsExt, Functions

CONSTANTS Nodes, Target, MaxTasks, MaxTerms, MaxFaults

ASSUME ReservationAssumption ==
  /\ IsFiniteSet(Nodes) /\ Target \in Nat \ {0}
  /\ MaxTasks \in Nat \ {0} /\ MaxTerms \in Nat \ {0} /\ MaxFaults \in Nat

Tasks == 1..MaxTasks

VARIABLES
  wanted,     \* the deployment is running
  terms,      \* its requirements, as a version
  task,       \* the LIST tasks
  tx,         \* tx[t][n]: the assign of node n signed for task t
  hm,         \* host-manager: the request under each key, and the nodes it holds
  hooks,      \* keys whose fulfilment is on its way to the webhook
  missed,     \* keys whose fulfilment was sent while the API was down
  looking,    \* the key the webhook found no request for, 0 if none
  cancels,    \* keys whose cancellation is on its way
  run,        \* the run that is going
  ban,        \* the sweep of a banned owner's tasks: where it is, what it found
  faults,     \* what went wrong so far
  orphaned    \* tasks whose run was lost after it handed off

vars == <<wanted, terms, task, tx, hm, hooks, missed, looking, cancels, run, ban,
          faults, orphaned>>

NoTask == [status |-> "none", limit |-> 0, due |-> "now", request |-> FALSE,
           reservation |-> {}, handoff_of |-> 0]
NewTaskWhole(n, due, source) ==
  [NoTask EXCEPT !.status = "PENDING", !.limit = Target, !.due = due, !.handoff_of = source]
NewTask(n, due, source) ==
  [status |-> "PENDING", limit |-> n, due |-> due, request |-> FALSE,
   reservation |-> {}, handoff_of |-> source]
NoRequest == [status |-> "none", terms |-> 0, count |-> 0, nodes |-> {}]
Idle == [pc |-> "idle", at |-> 0, request |-> FALSE, reservation |-> {}, terms |-> 0,
         count |-> 0, nodes |-> {}, answer |-> "none"]

Init == /\ wanted = TRUE /\ terms = 1
        /\ task = [t \in Tasks |-> IF t = 1 THEN NewTask(Target, "now", 0) ELSE NoTask]
        /\ tx = [t \in Tasks |-> [n \in Nodes |-> "none"]]
        /\ hm = [t \in Tasks |-> NoRequest]
        /\ hooks = {} /\ missed = {} /\ looking = 0 /\ cancels = {}
        /\ run = Idle /\ ban = [pc |-> "none", held |-> {}]
        /\ faults = 0 /\ orphaned = {}

Exists(t) == task[t].status \in {"PENDING", "PROCESSING"}
Signed(t) == {n \in Nodes : tx[t][n] = "signed"}
Landed(t) == {n \in Nodes : tx[t][n] = "landed"}
Used(t) == {n \in Nodes : tx[t][n] # "none"}
InFlight(t) == Exists(t) /\ Signed(t) # {}
HoldsRequest(t) == task[t].request
Holds(t) == task[t].request \/ task[t].reservation # {}
Live(k) == hm[k].status = "fulfilled"
Free == {n \in Nodes : \A t \in Tasks : tx[t][n] \notin {"signed", "landed"}
                                        /\ ~(Live(t) /\ n \in hm[t].nodes)}
Jobs == {a \in Tasks \X Nodes : tx[a[1]][a[2]] = "landed"}
Missing(t) == task[t].limit - Cardinality(Landed(t))

Fault == faults < MaxFaults /\ faults' = faults + 1

-----------------------------------------------------------------------------
(* Deleting tasks: what is held for a LIST found holding is cancelled.       *)
Delete(S, held) ==
  /\ task' = [t \in Tasks |-> IF t \in S
                             THEN [task[t] EXCEPT !.status = "gone", !.due = "now",
                                                  !.request = FALSE, !.reservation = {}]
                             ELSE task[t]]
  /\ cancels' = cancels \cup held
Remove(t) == IF Exists(t) THEN Delete({t}, {u \in {t} : Holds(u)})
                          ELSE UNCHANGED <<task, cancels>>

(* A write to a task: nothing if it is gone.                                 *)
Set(t, doc) == task' = IF Exists(t) THEN [task EXCEPT ![t] = doc] ELSE task

At(pc) == run.pc = pc
Goto(pc) == run' = [run EXCEPT !.pc = pc]

(* A due task is claimed, read with its deployment, and judged.              *)
Claim(t) ==
  /\ At("idle") /\ task[t].status = "PENDING" /\ task[t].due = "now"
  /\ \/ /\ wanted \/ InFlight(t)
        /\ Set(t, [task[t] EXCEPT !.status = "PROCESSING"])
        /\ run' = [Idle EXCEPT !.pc = "resume", !.at = t, !.terms = terms,
                     !.request = task[t].request, !.reservation = task[t].reservation]
        /\ UNCHANGED cancels
     \/ /\ ~wanted /\ ~InFlight(t)
        /\ Remove(t)
        /\ UNCHANGED run
  /\ UNCHANGED <<wanted, terms, tx, hm, hooks, missed, looking, ban, faults, orphaned>>

(* The fill the run was claimed with: the nodes still held, on no record.    *)
Reuse ==
  LET usable == run.reservation \ Used(run.at)
      n == Min({Missing(run.at), Cardinality(usable)})
  IN IF Live(run.at) /\ usable # {}
     THEN \E S \in kSubset(n, usable) : run' = [run EXCEPT !.pc = "post", !.nodes = S]
     ELSE run' = [run EXCEPT !.pc = "handoff", !.answer = "lapsed"]

(* It asks for what the vault can pay for; a new request is recorded before  *)
(* it is sent.                                                               *)
Ask(c) == /\ IF run.request THEN UNCHANGED task
             ELSE Set(run.at, [task[run.at] EXCEPT !.request = TRUE])
          /\ run' = [run EXCEPT !.pc = "send", !.count = c]

(* The vault can pay for all n jobs (or it cannot be told), for some, for    *)
(* none, or never as it is configured.                                       *)
Funds(n) == [kind : {"affordable"}, count : 1..n]
            \cup [kind : {"insufficient", "fatal"}, count : {0}]

(* Prior records are resumed; a task that is full or no longer wanted is     *)
(* done; what to ask for depends on the funds.                               *)
Prepare ==
  /\ At("resume") /\ Signed(run.at) = {}
  /\ IF Missing(run.at) = 0 \/ ~wanted THEN Goto("finish") /\ UNCHANGED <<task, faults>>
     ELSE IF run.reservation # {} THEN Reuse /\ UNCHANGED <<task, faults>>
     ELSE \E f \in Funds(Missing(run.at)) :
            /\ IF f.count = Missing(run.at) THEN UNCHANGED faults ELSE Fault
            /\ \/ f.kind = "affordable" /\ Ask(f.count)
               \/ f.kind = "insufficient" /\ Goto("retry") /\ UNCHANGED task
               \/ f.kind = "fatal" /\ Goto("failed") /\ UNCHANGED task
  /\ UNCHANGED <<wanted, terms, tx, hm, hooks, missed, looking, cancels, ban, orphaned>>

(* host-manager: a new key is filled at once or queued, a waiting one        *)
(* renewed; the same key on other terms is refused; anything else replayed.  *)
Answers(k) ==
  LET new == [status |-> "waiting", terms |-> run.terms, count |-> run.count, nodes |-> {}]
      open == {new} \cup {[new EXCEPT !.status = "fulfilled", !.nodes = S] :
                            S \in {F \in SUBSET Free : F # {} /\ Cardinality(F) <= run.count}}
      same == hm[k].terms = run.terms /\ hm[k].count = run.count
  IN CASE hm[k].status = "none" -> {<<h.status, h>> : h \in open}
       [] hm[k].status # "none" /\ ~same -> {<<"conflict", hm[k]>>}
       [] hm[k].status = "waiting" /\ same -> {<<h.status, h>> : h \in open}
       [] OTHER -> {<<hm[k].status, hm[k]>>}

(* What a failed call means for the run.                                     *)
Errors == {"no response", "5xx", "402", "404", "422"}
Failure(error) ==
  CASE error \in {"no response", "5xx", "402"} -> "retry"
    [] error = "conflict" -> "handoff"
    [] OTHER -> "failed"

(* The answer, or an error: not reached, lost on its way back, or refused.   *)
(* Waiting parks; what is neither that nor a fill is handed off.             *)
Send ==
  /\ At("send")
  /\ \/ \E a \in Answers(run.at) :
          /\ hm' = [hm EXCEPT ![run.at] = a[2]]
          /\ \/ /\ run' = [run EXCEPT !.answer = a[1],
                          !.pc = CASE a[1] = "waiting" -> "park"
                                   [] a[1] = "fulfilled" -> "filled"
                                   [] a[1] = "conflict" -> Failure(a[1])
                                   [] OTHER -> "handoff"]
                /\ UNCHANGED faults
             \/ Fault /\ Goto(Failure("no response"))
     \/ \E error \in Errors : Fault /\ Goto(Failure(error)) /\ UNCHANGED hm
  /\ UNCHANGED <<wanted, terms, task, tx, hooks, missed, looking, cancels, ban, orphaned>>

(* A live fill becomes the task's reservation before anything is signed.     *)
Filled ==
  /\ At("filled")
  /\ IF Live(run.at)
     THEN /\ Set(run.at, [task[run.at] EXCEPT !.request = FALSE,
                                              !.reservation = hm[run.at].nodes])
          /\ run' = [run EXCEPT !.pc = "post", !.nodes = hm[run.at].nodes]
     ELSE Goto("handoff") /\ UNCHANGED task
  /\ UNCHANGED <<wanted, terms, tx, hm, hooks, missed, looking, cancels, ban, faults, orphaned>>

(* One assign per node, signed, recorded and sent.                           *)
Post ==
  /\ At("post")
  /\ tx' = [tx EXCEPT ![run.at] = [n \in Nodes |-> IF n \in run.nodes THEN "signed" ELSE @[n]]]
  /\ Goto("settle")
  /\ UNCHANGED <<wanted, terms, task, hm, hooks, missed, looking, cancels, ban, faults, orphaned>>

(* Every assign has landed or is dead: done, retried on an error of one of   *)
(* them, or short and handed off.                                            *)
Settle ==
  /\ At("settle") /\ Signed(run.at) = {}
  /\ \/ Missing(run.at) = 0 /\ Goto("finish")
     \/ Missing(run.at) > 0 /\ run' = [run EXCEPT !.pc = "handoff", !.answer = "short"]
     \/ run.nodes \ Landed(run.at) # {} /\ Goto("retry")
  /\ UNCHANGED <<wanted, terms, task, tx, hm, hooks, missed, looking, cancels, ban,
                 faults, orphaned>>

(* What is missing goes to a new LIST, once while that LIST is queued, and   *)
(* after a cooldown unless the terms changed or some job landed.             *)
HandedTo(t) == {u \in Tasks : Exists(u) /\ task[u].handoff_of = t}
Backoff == ~(run.answer = "conflict" \/ (run.answer = "short" /\ Landed(run.at) # {}))
HandOff ==
  /\ At("handoff")
  /\ IF HandedTo(run.at) # {} THEN UNCHANGED task
     ELSE \E u \in Tasks :
            /\ task[u].status = "none" /\ \A v \in Tasks : task[v].status = "none" => u <= v
            /\ task' = [task EXCEPT ![u] =
                          NewTask(Missing(run.at), IF Backoff THEN "cooldown" ELSE "now", run.at)]
  /\ Goto("handed")
  /\ UNCHANGED <<wanted, terms, tx, hm, hooks, missed, looking, cancels, ban, faults, orphaned>>

(* The run ends: completed, failed with its deployment, to be retried after  *)
(* a cooldown, or parked; a task filled while it ran is due now instead.     *)
Finish ==
  /\ run.pc \in {"finish", "handed"}
  /\ Remove(run.at)
  /\ run' = Idle
  /\ UNCHANGED <<wanted, terms, tx, hm, hooks, missed, looking, ban, faults, orphaned>>

Fail == /\ At("failed") /\ wanted' = FALSE /\ Goto("finish")
        /\ UNCHANGED <<terms, task, tx, hm, hooks, missed, looking, cancels, ban, faults, orphaned>>

Release(due) == /\ Set(run.at, [task[run.at] EXCEPT !.status = "PENDING", !.due = due])
                /\ run' = Idle
                /\ UNCHANGED <<wanted, terms, tx, hm, hooks, missed, looking, cancels, ban, faults>>
Retry == At("retry") /\ Release("cooldown") /\ UNCHANGED orphaned
ParkDueLater(t) == "renew"
ParkDue(t) == IF task[t].request THEN "renew" ELSE "now"
Park == /\ At("park")
        /\ Release(ParkDue(run.at))
        /\ UNCHANGED orphaned
Crash == /\ run.pc # "idle" /\ faults < MaxFaults
         /\ Set(run.at, [task[run.at] EXCEPT !.status = "PENDING", !.due = "now"])
         /\ run' = Idle /\ faults' = faults + 1
         /\ orphaned' = IF At("handed") THEN orphaned \cup {run.at} ELSE orphaned
         /\ UNCHANGED <<wanted, terms, tx, hm, hooks, missed, looking, cancels, ban>>

RunStep == Prepare \/ Send \/ Filled \/ Post \/ Settle \/ HandOff \/ Fail \/ Finish
           \/ Retry \/ Park

(* A cooldown or the renewal interval passes.                                *)
CoolsDown(t) == task[t].due = "cooldown"
FallsDue(t) == task[t].due # "now"
Timer(t) ==
  /\ task[t].status = "PENDING" /\ FallsDue(t)
  /\ Set(t, [task[t] EXCEPT !.due = "now"])
  /\ UNCHANGED <<wanted, terms, tx, hm, hooks, missed, looking, cancels, run, ban, faults, orphaned>>

-----------------------------------------------------------------------------
(* The chain: a signed assign lands, or is dead.                             *)
Chain(t, n) ==
  /\ tx[t][n] = "signed"
  /\ \/ tx' = [tx EXCEPT ![t][n] = "landed"] /\ UNCHANGED faults
     \/ tx' = [tx EXCEPT ![t][n] = "dead"] /\ Fault
  /\ UNCHANGED <<wanted, terms, task, hm, hooks, missed, looking, cancels, run, ban, orphaned>>

(* host-manager fills a waiting request and tells the webhook once.          *)
Fill(k) ==
  /\ hm[k].status = "waiting"
  /\ \E S \in SUBSET Free :
       /\ S # {} /\ Cardinality(S) <= hm[k].count
       /\ hm' = [hm EXCEPT ![k].status = "fulfilled", ![k].nodes = S]
  /\ hooks' = hooks \cup {k}
  /\ UNCHANGED <<wanted, terms, task, tx, missed, looking, cancels, run, ban, faults, orphaned>>

(* A hold lapses; a request not renewed in time expires (its TTL outlives    *)
(* the renewal interval, so never that of a parked task).                    *)
Lapse(k) ==
  /\ Fault
  /\ \/ Live(k) /\ hm' = [hm EXCEPT ![k].status = "lapsed"]
     \/ /\ hm[k].status = "waiting"
        /\ ~(task[k].status = "PENDING" /\ task[k].due = "renew")
        /\ hm' = [hm EXCEPT ![k].status = "expired"]
  /\ UNCHANGED <<wanted, terms, task, tx, hooks, missed, looking, cancels, run, ban, orphaned>>

Cancelled(k) ==
  /\ k \in cancels /\ cancels' = cancels \ {k}
  /\ hm' = IF hm[k].status \in {"waiting", "fulfilled"}
           THEN [hm EXCEPT ![k].status = "cancelled"] ELSE hm
  /\ UNCHANGED <<wanted, terms, task, tx, hooks, missed, looking, run, ban, faults, orphaned>>

(* The webhook: the task whose request it fills gets the nodes and is due    *)
(* now; a delivery may come again (nothing but that it was answered ends it).*)
Deliver(k) ==
  /\ k \in hooks /\ looking = 0
  /\ \/ hooks' = hooks \ {k} /\ UNCHANGED faults
     \/ hooks' = hooks /\ Fault
  /\ IF Exists(k) /\ task[k].request
     THEN /\ Set(k, [task[k] EXCEPT !.request = FALSE, !.due = "now",
                                    !.reservation = hm[k].nodes])
          /\ UNCHANGED looking
     ELSE looking' = k /\ UNCHANGED task
  /\ UNCHANGED <<wanted, terms, tx, hm, missed, cancels, run, ban, orphaned>>

(* It had no request: accepted if it has its nodes, released otherwise.      *)
AcceptsIdle(k) == task[k].status = "PENDING" /\ task[k].reservation # {}
Accepts(k) == Exists(k) /\ task[k].reservation # {}
Look ==
  /\ looking # 0 /\ looking' = 0
  /\ cancels' = IF Accepts(looking) THEN cancels ELSE cancels \cup {looking}
  /\ UNCHANGED <<wanted, terms, task, tx, hm, hooks, missed, run, ban, faults, orphaned>>

(* The API is down: the one delivery is lost.  Its start, and a change of    *)
(* the terms, make the tasks parked on a request due.                        *)
Miss(k) ==
  /\ k \in hooks /\ Fault
  /\ hooks' = hooks \ {k} /\ missed' = missed \cup {k}
  /\ UNCHANGED <<wanted, terms, task, tx, hm, looking, cancels, run, ban, orphaned>>
Resync ==
  /\ task' = [t \in Tasks |-> IF task[t].status = "PENDING" /\ task[t].request
                              THEN [task[t] EXCEPT !.due = "now"] ELSE task[t]]
  /\ task' # task
  /\ UNCHANGED <<wanted, terms, tx, hm, hooks, missed, looking, cancels, run, ban, faults, orphaned>>
ChangeTerms ==
  /\ terms < MaxTerms /\ terms' = terms + 1 /\ Fault
  /\ UNCHANGED <<wanted, task, tx, hm, hooks, missed, looking, cancels, run, ban, orphaned>>

-----------------------------------------------------------------------------
(* The deployment is stopped, and its STOP sweeps what is not in flight.     *)
Stop == /\ wanted /\ wanted' = FALSE
        /\ UNCHANGED <<terms, task, tx, hm, hooks, missed, looking, cancels, run, ban, faults, orphaned>>
Sweepable == {t \in Tasks : Exists(t) /\ ~InFlight(t)}
Sweep == /\ ~wanted /\ At("idle") /\ Sweepable # {}
         /\ Delete(Sweepable, {t \in Sweepable : Holds(t)})
         /\ UNCHANGED <<wanted, terms, tx, hm, hooks, missed, looking, run, ban, faults, orphaned>>

(* A ban of the owner, by another deployment's run: it finds what is held,   *)
(* deletes, and only then archives.                                          *)
BanFind == /\ ban.pc = "none" /\ Fault
           /\ ban' = [pc |-> "found", held |-> {t \in Sweepable : Holds(t)}]
           /\ UNCHANGED <<wanted, terms, task, tx, hm, hooks, missed, looking, cancels, run, orphaned>>
BanDelete == /\ ban.pc = "found"
             /\ Delete(Sweepable, ban.held)
             /\ ban' = [pc |-> "deleted", held |-> {}]
             /\ UNCHANGED <<wanted, terms, tx, hm, hooks, missed, looking, run, faults, orphaned>>
BanArchive == /\ ban.pc = "deleted" /\ ban' = [ban EXCEPT !.pc = "done"]
              /\ wanted' = FALSE
              /\ UNCHANGED <<terms, task, tx, hm, hooks, missed, looking, cancels, run, faults, orphaned>>

Messages == \E k \in Tasks : Deliver(k) \/ Cancelled(k)
Next == \/ \E t \in Tasks : Claim(t) \/ Timer(t) \/ Fill(t) \/ Lapse(t) \/ Miss(t)
        \/ \E t \in Tasks, n \in Nodes : Chain(t, n)
        \/ RunStep \/ Crash \/ Messages \/ Look \/ Resync \/ ChangeTerms
        \/ Stop \/ Sweep \/ BanFind \/ BanDelete \/ BanArchive

Spec == Init /\ [][Next]_vars

(* Claimed work goes on, timers fire, messages arrive, assigns resolve, and  *)
(* a request waits for ever only if no node is ever free.                    *)
FairSpec == /\ Spec /\ WF_vars(RunStep) /\ WF_vars(Messages) /\ WF_vars(Look)
            /\ WF_vars(BanDelete \/ BanArchive)
            /\ \A t \in Tasks : /\ SF_vars(Claim(t)) /\ WF_vars(Timer(t)) /\ SF_vars(Fill(t))
                                /\ \A n \in Nodes : WF_vars(Chain(t, n))
-----------------------------------------------------------------------------
TaskType == [status : {"none", "PENDING", "PROCESSING", "gone"}, limit : 0..Target,
             due : {"now", "cooldown", "renew"}, request : BOOLEAN,
             reservation : SUBSET Nodes, handoff_of : 0..MaxTasks]
TypeOK == /\ wanted \in BOOLEAN /\ terms \in 1..MaxTerms /\ faults \in 0..MaxFaults
          /\ task \in [Tasks -> TaskType]
          /\ tx \in [Tasks -> [Nodes -> {"none", "signed", "landed", "dead"}]]
          /\ \A k \in Tasks : /\ hm[k].nodes \subseteq Nodes
                              /\ hm[k].count \in 0..Target /\ hm[k].terms \in 0..MaxTerms
          /\ hooks \subseteq Tasks /\ missed \subseteq Tasks /\ cancels \subseteq Tasks
          /\ orphaned \subseteq Tasks /\ looking \in 0..MaxTasks /\ run.at \in 0..MaxTasks

(* While the deployment is wanted, the jobs landed and the jobs the queued   *)
(* LISTs still have to list are those of the first LIST, no job more and     *)
(* none less: whatever is reused, renewed, refused, filled late or handed    *)
(* off, unless a run was lost between its hand-off and the end of its task.  *)
Standing(t) == Exists(t) /\ ~(At("handed") /\ run.at = t)
WorkConserved ==
  wanted /\ ban.pc \in {"none", "found"} /\ orphaned = {} =>
    Cardinality(Jobs)
      + SumFunctionOnSet([t \in Tasks |-> Missing(t)], {t \in Tasks : Standing(t)}) = Target

(* A task that host-manager has filled is never left parked until the next   *)
(* renewal: the fill is assigned within its hold, or after a cooldown.       *)
NoFillSleptThrough ==
  \A t \in Tasks : task[t].status = "PENDING" /\ task[t].reservation # {} => task[t].due # "renew"

(* A fulfilment always finds its task's request or its nodes: what the       *)
(* webhook releases is held for a task that is gone.                         *)
ReleasedOnlyIfGone ==
  [][\A k \in Tasks : looking = k /\ looking' = 0 /\ k \in cancels' \ cancels => ~Exists(k)]_vars

(* Nodes held for a task that is gone are on their way to being released:    *)
(* by its deletion's cancel, or by the webhook when their fulfilment comes.  *)
(* A ban's sweep is left aside: it looks for what is held and then deletes,  *)
(* and a request recorded in between is not cancelled.                       *)
NothingLeftHeld ==
  ban.pc = "none" =>
    \A k \in Tasks : Live(k) /\ task[k].status = "gone" =>
      k \in cancels \cup hooks \cup missed \/ looking = k

(* Every job of the target is listed in the end, unless the deployment is    *)
(* stopped: no loss of a message, a run, a hold or an assign strands it.     *)
AllListed == <>(~wanted \/ Cardinality(Jobs) >= Target)
=============================================================================
