-------------------------------- MODULE Extend --------------------------------
(****************************************************************************)
(* How one job of a SIMPLE-EXTEND deployment is kept alive.  It is listed   *)
(* with the deployment's timeout; when it starts RUNNING an EXTEND is queued *)
(* a buffer before it would time out, and each EXTEND that is confirmed     *)
(* queues the next, a timeout later: a chain of tasks.  An edit of the      *)
(* timeout queues a one-shot EXTEND by the difference and pushes the chain's *)
(* next EXTEND by as much.  The queue runs one task of the deployment at a  *)
(* time, and runs again one that failed or whose consumer crashed.          *)
(****************************************************************************)
EXTENDS Integers, FiniteSetsExt, Functions

CONSTANTS
  Timeouts,   \* timeouts a deployment may have
  Buffer,     \* getNextExtendTime's buffer
  MaxTime,    \* bound on the clock
  MaxTasks,   \* bound on the tasks stored at once
  MaxEdits,   \* bound on the edits of the timeout
  MaxFaults   \* bound on crashes, failures, lost answers and repeated events together

ASSUME ExtendAssumption ==
  /\ Timeouts \subseteq Nat /\ Timeouts # {} /\ Buffer \in Nat /\ \A n \in Timeouts : n > Buffer
  /\ MaxTime \in Nat /\ MaxTasks \in Nat \ {0} /\ MaxEdits \in Nat /\ MaxFaults \in Nat

VARIABLES
  now,        \* time since the job started on its node
  path,       \* how the vault signs: "keys" or "api"
  status, timeout,   \* the deployment document
  alive,      \* the job on chain
  granted,    \* its timeout on chain
  row,        \* the state of its row
  starts,     \* undelivered events that wrote the row RUNNING
  changes,    \* undelivered events that wrote the timeout
  editing,    \* the timeout callbacks
  extend,     \* the job's EXTENDs
  current,    \* the one that holds the deployment's lock, 0: none
  stage,      \* where its run is
  edits, faults, repeats,   \* counters of the bounds
  lag,        \* history: how late the chain's handlers have run, together
  drift,      \* history: an EXTEND was queued by another timeout than the job was given
  lost,       \* history: how an EXTEND was given up
  resigned    \* history: landed transactions judged expired and signed again

doc    == <<path, status, timeout>>
job    == <<alive, granted, row>>
events == <<starts, changes, editing>>
queue  == <<extend, current, stage>>
counts == <<edits, faults, repeats>>
hist   == <<lag, drift, lost, resigned>>
extendVars == <<now, doc, job, events, queue, counts, hist>>

Slots   == 1..MaxTasks
Edits   == 1..MaxEdits
Running == {"RUNNING", "INSUFFICIENT_FUNDS"}

(* No slot; else the chain's EXTEND or a one-shot one, when it is due, by    *)
(* how much it extends (a chain's: the timeout it was last claimed with),    *)
(* by how much its transaction or call did, whether its unit is recorded,    *)
(* whether a consumer claimed it and whether it was dispatched before.       *)
NoTask == [kind |-> "none", due |-> 0, by |-> 0, landed |-> 0, recorded |-> FALSE,
           claimed |-> FALSE, tried |-> FALSE]
ChainTask(due) == [NoTask EXCEPT !.kind = "chain", !.due = due]
OneShot(n, due) == [NoTask EXCEPT !.kind = "once", !.due = due, !.by = n]

Stored  == {t \in Slots : extend[t] # NoTask}
Chained == {t \in Stored : extend[t].kind = "chain"}

Idle == [at |-> "idle", delta |-> 0, due |-> [t \in Slots |-> 0]]

ExtendTypeOK ==
  /\ now \in 0..MaxTime /\ path \in {"keys", "api"} /\ status \in Running \cup {"ERROR", "STOPPING"}
  /\ timeout \in Timeouts /\ alive \in BOOLEAN /\ granted \in Nat /\ row \in {"QUEUED", "RUNNING", "SETTLED"}
  /\ starts \in 0..1 + MaxFaults /\ changes \in 0..MaxEdits
  /\ editing \in [Edits -> [at : {"idle", "insert", "find", "push"}, delta : Nat, due : [Slots -> Nat]]]
  /\ extend \in [Slots -> [kind : {"none", "chain", "once"}, due : Nat, by : Nat, landed : Nat,
                         recorded : BOOLEAN, claimed : BOOLEAN, tried : BOOLEAN]]
  /\ current \in {0} \cup Slots
  /\ stage \in {"idle", "sign", "answered", "half", "done"}
  /\ edits \in 0..MaxEdits /\ faults \in 0..MaxFaults /\ repeats \in 0..faults
  /\ lag \in Nat /\ drift \in BOOLEAN /\ lost \in {"no", "unwanted", "crash", "expired", "abandoned"}
  /\ resigned \in Nat

ExtendInit ==
  /\ now = 0 /\ path \in {"keys", "api"} /\ status = "RUNNING" /\ timeout \in Timeouts
  /\ alive = TRUE /\ granted = timeout /\ row = "QUEUED"
  /\ starts = 0 /\ changes = 0 /\ editing = [k \in Edits |-> Idle]
  /\ extend = [t \in Slots |-> NoTask] /\ current = 0 /\ stage = "idle"
  /\ edits = 0 /\ faults = 0 /\ repeats = 0 /\ lag = 0 /\ drift = FALSE /\ lost = "no" /\ resigned = 0

Active == row \in {"QUEUED", "RUNNING"}
Faulty == faults < MaxFaults /\ faults' = faults + 1

-----------------------------------------------------------------------------
(* Time, and the job. *)

Begin == /\ row = "QUEUED" /\ alive /\ row' = "RUNNING" /\ starts' = starts + 1
         /\ UNCHANGED <<now, doc, alive, granted, changes, editing, queue, counts, hist>>

Tick == /\ row # "QUEUED" /\ now < MaxTime /\ (alive => now < granted)
        /\ now' = now + 1
        /\ UNCHANGED <<doc, job, events, queue, counts, hist>>

(* It times out, ends by itself, or a STOP ends it. *)
End == /\ alive /\ alive' = FALSE
       /\ UNCHANGED <<now, doc, granted, row, events, queue, counts, hist>>

(* The accounts listener settles the row, and jobAllActiveJobsStop drops the *)
(* job's EXTENDs (one that runs is gone when it ends).                       *)
Settle == /\ Active /\ ~alive /\ row' = "SETTLED"
          /\ extend' = [t \in Slots |-> IF t = current THEN extend[t] ELSE NoTask]
          /\ UNCHANGED <<now, doc, alive, granted, events, current, stage, counts, hist>>

(* Another task of the deployment is given up, or lacks funds; a start from  *)
(* there keeps the job; the stop route ends it all.                          *)
Fail == /\ status = "RUNNING" /\ Faulty
        /\ status' \in {"ERROR", "INSUFFICIENT_FUNDS"}
        /\ UNCHANGED <<now, path, timeout, job, events, queue, edits, repeats, hist>>

Restart == /\ status \in {"ERROR", "INSUFFICIENT_FUNDS"} /\ status' = "RUNNING"
           /\ UNCHANGED <<now, path, timeout, job, events, queue, counts, hist>>

Stop == /\ status # "STOPPING" /\ status' = "STOPPING"
        /\ UNCHANGED <<now, path, timeout, job, events, queue, counts, hist>>

-----------------------------------------------------------------------------
(* The tasks collection. *)

(* A slot is a task's identity: while an edit remembers it, no other has it. *)
Room == {t \in Slots : extend[t] = NoTask /\ \A k \in Edits : editing[k].due[t] = 0}
Insert(new) == Room # {} /\ extend' = [extend EXCEPT ![Min(Room)] = new]

(* A PENDING EXTEND of the chain stands (one-shots never match). *)
AnyStored == Chained # {}
AnyQueued == \E t \in Chained : ~extend[t].claimed
InsertAlways(new) == Insert(new)
InsertOnce(new)   == IF AnyQueued THEN UNCHANGED extend ELSE Insert(new)

WholeTimeout(n, buffer)   == now + n
NextExtendTime(n, buffer) == now + n - buffer

-----------------------------------------------------------------------------
(* simpleExtendedJobRunningUpdate: the row may be written RUNNING again.     *)

Started ==
  /\ starts > 0 /\ starts' = starts - 1
  /\ InsertOnce(ChainTask(NextExtendTime(timeout, Buffer)))
  /\ IF extend' = extend THEN UNCHANGED <<lag, drift>>
     ELSE lag' = lag + now /\ drift' = (drift \/ edits > 0)
  /\ UNCHANGED <<now, doc, job, changes, editing, current, stage, counts, lost, resigned>>

WriteAgain == /\ row = "RUNNING" /\ Faulty
              /\ repeats' = repeats + 1 /\ starts' = starts + 1
              /\ UNCHANGED <<now, doc, job, changes, editing, queue, edits, hist>>

-----------------------------------------------------------------------------
(* The timeout: the route writes it; deploymentTimeoutUpdate reads the job   *)
(* on chain, queues a one-shot EXTEND by the difference, finds the pending,  *)
(* unsent EXTENDs of the chain and moves each by as much, from where it was  *)
(* when found.                                                               *)

EditTimeout ==
  /\ edits < MaxEdits /\ edits' = edits + 1
  /\ \E n \in Timeouts \ {timeout} : timeout' = n
  /\ changes' = changes + 1
  /\ UNCHANGED <<now, path, status, job, starts, editing, queue, faults, repeats, hist>>

ReadChain(k) ==
  /\ changes > 0 /\ k = edits - changes + 1 /\ changes' = changes - 1
  /\ editing' = IF status = "RUNNING" /\ row = "RUNNING" /\ timeout > granted
                  THEN [editing EXCEPT ![k] = [Idle EXCEPT !.at = "insert", !.delta = timeout - granted]]
                  ELSE editing
  /\ UNCHANGED <<now, doc, job, starts, queue, counts, hist>>

InsertOneShot(k) ==
  /\ editing[k].at = "insert"
  /\ Insert(OneShot(editing[k].delta, now))
  /\ editing' = [editing EXCEPT ![k].at = "find"]
  /\ UNCHANGED <<now, doc, job, starts, changes, current, stage, counts, hist>>

Follows(t) == t \in Chained /\ ~extend[t].claimed

FindFollowUps(k) ==
  /\ editing[k].at = "find"
  /\ editing' = [editing EXCEPT ![k].at = "push",
       ![k].due = [t \in Slots |-> IF Follows(t) THEN extend[t].due + editing[k].delta ELSE 0]]
  /\ UNCHANGED <<now, doc, job, starts, changes, queue, counts, hist>>

Pushed(t, k) == IF editing[k].due[t] > 0 THEN editing[k].due[t] ELSE extend[t].due

PushFollowUps(k) ==
  /\ editing[k].at = "push"
  /\ extend' = [t \in Slots |-> [extend[t] EXCEPT !.due = IF t \in Stored THEN Pushed(t, k) ELSE @]]
  /\ editing' = [editing EXCEPT ![k] = Idle]
  /\ UNCHANGED <<now, doc, job, starts, changes, current, stage, counts, hist>>

-----------------------------------------------------------------------------
(* The consumer: the task due first.  One whose consumer crashed is claimed  *)
(* again when its lease has passed, which is sooner than any timeout.        *)

Due == {t \in Stored : extend[t].due <= now}
ComesFirst(t) == current = 0 /\ t \in Due /\ \A u \in Due : extend[t].due <= extend[u].due

Wanted == status \in Running /\ Active
Gone(t) == extend' = [extend EXCEPT ![t] = NoTask]
LeaveRun == current' = 0 /\ stage' = "idle"
GivenUp(why) == lost' = IF Active THEN why ELSE lost

(* What the run will do: nothing is left of a recorded unit, anything else   *)
(* is signed or asked for.  A transaction's record carries no signature until *)
(* it is confirmed, so a reclaim never asks whether it landed: within its     *)
(* window it is sent again and found, past it it is signed once more.         *)
NeverAsked(t) == path = "keys" /\ extend[t].landed > 0 /\ ~extend[t].recorded
Resume(t) == IF extend[t].recorded THEN {"done"}
             ELSE IF NeverAsked(t) THEN {"answered", "sign"} ELSE {"sign"}

Claim(t) ==
  /\ ComesFirst(t) /\ Wanted
  /\ current' = t /\ stage' \in Resume(t)
  /\ LET again == NeverAsked(t) /\ stage' = "sign"
     IN /\ extend' = [extend EXCEPT ![t].claimed = TRUE, ![t].tried = TRUE,
                          ![t].by = IF extend[t].kind = "chain" THEN timeout ELSE @,
                          ![t].landed = IF again THEN 0 ELSE @]
        /\ resigned' = IF again THEN resigned + 1 ELSE resigned
  /\ UNCHANGED <<now, doc, job, events, counts, lag, drift, lost>>

Unwanted(t) ==
  /\ ComesFirst(t) /\ ~Wanted
  /\ Gone(t) /\ GivenUp("unwanted")
  /\ UNCHANGED <<now, doc, job, events, current, stage, counts, lag, drift, resigned>>

(* One dispatched as often as the caps allow: here, any number of times. *)
Abandon(t) ==
  /\ ComesFirst(t) /\ Wanted /\ extend[t].tried /\ Faulty
  /\ Gone(t) /\ GivenUp("abandoned") /\ status' = "ERROR"
  /\ UNCHANGED <<now, path, timeout, job, events, current, stage, edits, repeats, lag, drift, resigned>>

-----------------------------------------------------------------------------
(* The run. *)

(* A retry is due a cooldown later. *)
Late(due, old) == IF due > old THEN due - old ELSE 0
PutBack(landed) ==
  /\ extend' = [extend EXCEPT ![current].claimed = FALSE, ![current].due = now + 1,
                          ![current].landed = landed]
  /\ lag' = IF extend[current].kind = "chain" THEN lag + Late(now + 1, extend[current].due) ELSE lag
  /\ LeaveRun

(* Judged again, right before it signs or calls. *)
NotWanted ==
  /\ stage = "sign" /\ ~Wanted
  /\ Gone(current) /\ LeaveRun /\ GivenUp("unwanted")
  /\ UNCHANGED <<now, doc, job, events, counts, lag, drift, resigned>>

Amount == extend[current].by

(* A call that reached client-manager before is replayed under its key; with *)
(* another amount it is refused.                                             *)
Called  == extend[current].landed > 0
Refused == Called /\ extend[current].landed # Amount

Lands ==
  /\ stage = "sign" /\ Wanted /\ alive /\ ~Refused
  /\ granted' = granted + IF Called THEN 0 ELSE Amount
  /\ \/ /\ extend' = [extend EXCEPT ![current].landed = Amount]
        /\ stage' = "answered"
        /\ UNCHANGED <<current, faults, lag>>
     \/ path = "api" /\ Faulty /\ PutBack(Amount)
  /\ UNCHANGED <<now, doc, alive, row, events, edits, repeats, drift, lost, resigned>>

(* Refused, or a transaction for a job that has ended: an error, retried     *)
(* until the caps.  The API answers for such a job that there was nothing    *)
(* to do, which ends the chain.                                              *)
CannotLand ==
  /\ stage = "sign" /\ Wanted
  /\ \/ /\ Refused \/ (path = "keys" /\ ~alive)
        /\ PutBack(extend[current].landed)
     \/ /\ path = "api" /\ ~alive /\ ~Refused
        /\ Gone(current) /\ LeaveRun /\ UNCHANGED lag
  /\ UNCHANGED <<now, doc, job, events, counts, drift, lost, resigned>>

(* An error that had no effect, for want of funds or not: retried. *)
Errs ==
  /\ stage = "sign" /\ Wanted /\ Faulty
  /\ PutBack(extend[current].landed)
  /\ status' \in {status, "INSUFFICIENT_FUNDS"}
  /\ UNCHANGED <<now, path, timeout, job, events, edits, repeats, drift, lost, resigned>>

(* The fresh transaction expires: the run confirmed nothing, and is over. *)
Expires ==
  /\ stage = "sign" /\ Wanted /\ path = "keys" /\ alive /\ Faulty
  /\ Gone(current) /\ LeaveRun /\ GivenUp("expired")
  /\ UNCHANGED <<now, doc, job, events, edits, repeats, lag, drift, resigned>>

(* onExtendConfirmed.  A transaction's unit is marked CONFIRMED before it, a *)
(* call's is recorded after it.                                              *)
Reschedules == extend[current].kind = "chain"

Confirm ==
  /\ stage = IF path = "keys" THEN "half" ELSE "answered"
  /\ IF Reschedules THEN InsertOnce(ChainTask(NextExtendTime(Amount, 0))) ELSE UNCHANGED extend
  /\ IF extend' = extend THEN UNCHANGED <<lag, drift>>
     ELSE /\ lag' = lag + Late(now, extend[current].due)
          /\ drift' = (drift \/ extend[current].landed # Amount)
  /\ stage' = IF path = "keys" THEN "done" ELSE "half"
  /\ UNCHANGED <<now, doc, job, events, current, counts, lost, resigned>>

RecordUnit ==
  /\ stage = IF path = "keys" THEN "answered" ELSE "half"
  /\ extend' = [extend EXCEPT ![current].recorded = TRUE]
  /\ stage' = IF path = "keys" THEN "half" ELSE "done"
  /\ UNCHANGED <<now, doc, job, events, current, counts, hist>>

Finish ==
  /\ stage = "done" /\ Gone(current) /\ LeaveRun
  /\ status' \in {status} \cup IF status = "INSUFFICIENT_FUNDS" THEN {"RUNNING"} ELSE {}
  /\ UNCHANGED <<now, path, timeout, job, events, counts, hist>>

CrashRun ==
  /\ current # 0 /\ Faulty
  /\ LeaveRun
  /\ IF path = "keys" /\ stage = "half" /\ extend[current].kind = "chain"
       THEN GivenUp("crash") ELSE UNCHANGED lost
  /\ UNCHANGED <<now, doc, job, events, extend, edits, repeats, lag, drift, resigned>>

-----------------------------------------------------------------------------
Listener == Started \/ \E k \in Edits : ReadChain(k) \/ InsertOneShot(k) \/ FindFollowUps(k) \/ PushFollowUps(k)
Run      == \/ NotWanted \/ Lands \/ CannotLand \/ Errs \/ Expires
            \/ Confirm \/ RecordUnit \/ Finish \/ CrashRun
ExtendNext ==
  \/ Begin \/ Tick \/ End \/ Settle \/ Fail \/ Restart \/ Stop
  \/ WriteAgain \/ EditTimeout \/ Listener
  \/ \E t \in Slots : Claim(t) \/ Unwanted(t) \/ Abandon(t)
  \/ Run

ExtendSpec == ExtendInit /\ [][ExtendNext]_extendVars

-----------------------------------------------------------------------------
(* Properties.                                                               *)

(* A running job is never left without its next EXTEND but in the ways named *)
(* by "lost": dropped while the deployment was in ERROR, a transaction that  *)
(* expired, a crash between marking the unit and its handler, or the caps.   *)
KeepsExtending ==
  alive /\ row = "RUNNING" /\ status = "RUNNING" /\ starts = 0 /\ lost = "no" => Chained # {}

(* The job's deadline and its next EXTEND move together: it comes due a      *)
(* buffer before the deadline the job has, or will have when the one-shots   *)
(* queued for it land, less the time the handlers themselves have lost, in   *)
(* executions where no EXTEND was queued by a timeout the job was not given. *)
Promise  == [t \in Slots |-> IF extend[t].kind = "once" /\ extend[t].landed = 0 THEN extend[t].by ELSE 0]
Promised == SumFunctionOnSet(Promise, Slots)
Aligned  == \A t \in Chained : ~extend[t].claimed => extend[t].due + Buffer <= granted + Promised + lag
Lockstep ==
  alive /\ lost = "no" /\ ~drift => Aligned

(* What deploymentTimeoutUpdate says: without "drift".  The code does not do  *)
(* it: an edit made while the job is QUEUED is not followed up.              *)
Followed == changes = 0 /\ \A k \in Edits : editing[k] = Idle
StaysAligned == alive /\ lost = "no" /\ Followed => Aligned

(* However often the events and the runs are repeated, the job has no more   *)
(* than one chain: it is never extended further ahead than a timeout, but by  *)
(* one for each transaction signed again, and the buffer each start may bring *)
(* forward.                                                                   *)
Ahead == now + Buffer * (1 + repeats)
NoOverrun == edits = 0 => granted <= Ahead + timeout * (1 + resigned)

(* What onExtendConfirmed says ("we never queue two extend cycles (a          *)
(* double-extend)") and persistSignedRecord ("a crash mid-send is             *)
(* recoverable"): without the second signing.  The code signs again.          *)
NeverTwice == edits = 0 => granted <= Ahead + timeout
=============================================================================
