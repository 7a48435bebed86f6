------------------------------ MODULE ListUnits ------------------------------
(****************************************************************************)
(* One self-custody LIST task and its on-chain transactions: runListTask,   *)
(* reconcileUnits, resumeExisting, sendUnit, recoverUnits and the tracker.  *)
(* A run resumes the records earlier runs left, judges the task wanted,     *)
(* signs what is still missing, persists each signed transaction before it  *)
(* broadcasts it, follows it until it confirms or can no longer land, and   *)
(* writes the jobs it created.  A crash may come between any two steps.  A  *)
(* task dispatched or retried too often is not run again but abandoned.     *)
(*                                                                          *)
(* The chain and its RPC are external.  A transaction in flight lands,      *)
(* reverts, or outlives its blockhash ("dead").  What the RPC says of it    *)
(* may be wrong: a status batch fails, a send that timed out was accepted.  *)
(* `deceived` remembers that it was.                                        *)
(****************************************************************************)
EXTENDS Integers, Sequences, FiniteSets, Functions

CONSTANTS
  Target,      \* target_count, frozen on the first attempt
  MaxAttempts, \* task_max_attempts
  MaxRetries,  \* task_max_inflight_retries, 0: retried for ever
  MaxTxs,      \* bound on the transactions signed over the task's life
  MaxCrashes   \* bound on crashes (and on database writes that throw)

ASSUME ListAssumption ==
  /\ Target \in Nat \ {0}
  /\ MaxAttempts \in Nat \ {0} /\ MaxRetries \in Nat
  /\ MaxTxs \in Nat \ {0}
  /\ MaxCrashes \in Nat

Txs     == 1..MaxTxs
Unasked == -1

VARIABLES
  task,       \* queued, or how it left the queue
  attempts, retries,   \* dispatches counted against the cap, and RETRYs
  reserving,  \* no market named: assigns reserved nodes; else lists into a market's queue
  wanted,     \* checkTaskWanted
  hold,       \* nodes reserved for the task and not used yet, Unasked before it asks
  handed,     \* jobs handed off to new LIST tasks
  heir,       \* the LIST task handed to: none yet, stored, or gone
  size,       \* jobs packed into each transaction, 0: not signed
  unit,       \* index its record is matched by
  record,     \* status of its TxRecord on the task
  blob,       \* records that still carry their signed bytes
  chain,      \* what became of it on chain
  rows,       \* job rows written for it
  phase,      \* the task's run
  step,       \* where the run is with each transaction
  aborted, retry, draining,
  deceived,   \* history: the RPC gave a wrong answer
  torn,       \* history: transactions whose bookkeeping a crash cut short
  orphaned,   \* history: the LIST handed to left before this task did
  crashes

tally    == <<attempts, retries>>
handoff  == <<handed, heir>>
taskVars == <<task, tally, reserving, wanted, hold, handoff>>
txVars   == <<size, unit, record, blob, chain, rows>>
runVars  == <<phase, step, aborted, retry, draining>>
history  == <<deceived, torn, orphaned, crashes>>
vars == <<taskVars, txVars, runVars, history>>

Records  == {x \in Txs : record[x] # "NONE"}
Signed   == {x \in Txs : size[x] > 0}
JobsIn(S)  == SumFunctionOnSet(size, S)
LandedJobs == JobsIn({x \in Txs : chain[x] = "landed"})
Busy     == {"recover", "persist", "send", "track", "mark", "rows", "expire", "error"}
Settled  == \A x \in Txs : step[x] \notin Busy
Confirmed == JobsIn({x \in Txs : step[x] = "confirmed"})
Needed   == IF Confirmed < Target THEN Target - Confirmed ELSE 0
InFlightAnyStatus == \E x \in blob : record[x] = "SENT"
InFlight == blob # {}
SentAtOnce == "send"
FirstStep == "persist"
HoldAfter(x) == IF reserving THEN hold - size[x] ELSE hold
MissingUnsigned == Target - JobsIn({x \in Txs : step[x] \in {"confirmed", "ended"}})
Missing  == Target - Confirmed
Spent    == attempts >= MaxAttempts \/ (MaxRetries > 0 /\ retries >= MaxRetries)

TypeOK ==
  /\ task \in {"queued", "completed", "dropped", "abandoned"}
  /\ attempts \in 0..MaxAttempts /\ retries \in 0..MaxRetries
  /\ reserving \in BOOLEAN /\ wanted \in BOOLEAN
  /\ hold \in {Unasked} \cup 0..Target
  /\ handed \in 0..Target * (1 + MaxCrashes) /\ heir \in {"none", "stored", "gone"}
  /\ size \in [Txs -> 0..Target]
  /\ unit \in [Txs -> 0..MaxTxs]
  /\ record \in [Txs -> {"NONE", "SIGNED", "SENT", "CONFIRMED"}]
  /\ blob \subseteq Records
  /\ chain \in [Txs -> {"unsent", "inflight", "landed", "reverted", "dead"}]
  /\ rows \in [Txs -> 0..Target]
  /\ phase \in {"idle", "resume", "judge", "fresh", "closing", "completing"}
  /\ step \in [Txs -> Busy \cup {"none", "confirmed", "ended"}]
  /\ aborted \in BOOLEAN /\ retry \in BOOLEAN /\ draining \in BOOLEAN
  /\ deceived \in BOOLEAN /\ torn \in SUBSET Txs /\ orphaned \in BOOLEAN
  /\ crashes \in 0..MaxCrashes

Init ==
  /\ task = "queued" /\ reserving \in BOOLEAN /\ wanted = TRUE
  /\ attempts = 0 /\ retries = 0
  /\ hold = Unasked /\ handed = 0 /\ heir = "none"
  /\ size = [x \in Txs |-> 0] /\ unit = [x \in Txs |-> 0]
  /\ record = [x \in Txs |-> "NONE"] /\ blob = {}
  /\ chain = [x \in Txs |-> "unsent"] /\ rows = [x \in Txs |-> 0]
  /\ phase = "idle" /\ step = [x \in Txs |-> "none"]
  /\ aborted = FALSE /\ retry = FALSE /\ draining = FALSE
  /\ deceived = FALSE /\ torn = {} /\ orphaned = FALSE /\ crashes = 0

Advance(x, s) == /\ step' = [step EXCEPT ![x] = s]
                 /\ UNCHANGED <<phase, aborted, retry, draining>>

Leave == /\ phase' = "idle" /\ step' = [x \in Txs |-> "none"]
         /\ aborted' = FALSE /\ retry' = FALSE /\ UNCHANGED draining

-----------------------------------------------------------------------------
(* The queue around the run. *)

StartRun ==
  /\ task = "queued" /\ phase = "idle" /\ ~Spent
  /\ wanted \/ InFlight
  /\ attempts' = attempts + 1
  /\ phase' = "resume"
  /\ step' = [x \in Txs |-> CASE record[x] = "NONE" -> "none"
                              [] record[x] = "CONFIRMED" -> "confirmed"
                              [] OTHER -> "recover"]
  /\ aborted' = FALSE /\ retry' = FALSE /\ draining' = FALSE
  /\ UNCHANGED <<task, retries, reserving, wanted, hold, handoff, txVars, history>>

(* Spent, it is deleted without a run, whatever it has in flight: wanted, it *)
(* leaves the deployment in ERROR; a drain is just dropped.                  *)
AbandonList ==
  /\ task = "queued" /\ phase = "idle" /\ Spent
  /\ wanted \/ InFlight
  /\ task' = "abandoned"
  /\ UNCHANGED <<tally, reserving, wanted, hold, handoff, txVars, runVars, history>>

(* Not wanted and not in flight: the verdict under the lock, or a stop's     *)
(* sweep, drops it.                                                          *)
Drop ==
  /\ task = "queued" /\ phase = "idle" /\ ~wanted /\ ~InFlight
  /\ task' = "dropped"
  /\ UNCHANGED <<tally, reserving, wanted, hold, handoff, txVars, runVars, history>>

StopDeployment ==
  /\ task = "queued" /\ wanted
  /\ wanted' = FALSE
  /\ UNCHANGED <<task, tally, reserving, hold, handoff, txVars, runVars, history>>

(* The LIST handed to, a task of its own, is run to its end or swept: it may *)
(* be gone before this one is claimed again.                                 *)
HeirLeaves ==
  /\ task = "queued" /\ heir = "stored"
  /\ heir' = "gone" /\ orphaned' = TRUE
  /\ UNCHANGED <<task, tally, reserving, wanted, hold, handed, txVars, runVars,
                 deceived, torn, crashes>>

(* The lease timer or the consumer's stop. *)
Abort ==
  /\ phase \notin {"idle", "closing", "completing"} /\ ~aborted
  /\ aborted' = TRUE
  /\ UNCHANGED <<taskVars, txVars, phase, step, retry, draining, history>>

Crash ==
  /\ phase # "idle" /\ crashes < MaxCrashes
  /\ crashes' = crashes + 1
  /\ torn' = torn \cup {x \in Txs : step[x] = "rows"}
  /\ Leave
  /\ UNCHANGED <<taskVars, txVars, deceived, orphaned>>

-----------------------------------------------------------------------------
(* The chain. *)

Land(x)   == chain[x] = "inflight" /\ chain' = [chain EXCEPT ![x] = "landed"]
Revert(x) == chain[x] = "inflight" /\ chain' = [chain EXCEPT ![x] = "reverted"]
Lapse(x)  == /\ size[x] > 0 /\ chain[x] \in {"unsent", "inflight"}
             /\ chain' = [chain EXCEPT ![x] = "dead"]

Chain(x) == /\ Land(x) \/ Revert(x) \/ Lapse(x)
            /\ UNCHANGED <<taskVars, size, unit, record, blob, rows, runVars, history>>

-----------------------------------------------------------------------------
(* What the status and the block height say (classifySignatureStatus,       *)
(* evaluateEntries): confirmed and reverted before expired.                 *)

SeenConfirmed(x) == chain[x] = "landed"
SeenReverted(x)  == chain[x] = "reverted"

(* The status is read as not found though the transaction is there: a failed *)
(* status batch, or one read before it landed.                               *)
Missed(x) == chain[x] \in {"landed", "reverted"}

ExpiresUnlessSeen(x) == ~SeenConfirmed(x) /\ ~SeenReverted(x)
Expired(x) == x \notin blob \/ chain[x] = "dead"

(* recoverUnits on one record. *)
Recover(x) ==
  /\ step[x] = "recover" /\ ~aborted
  /\ \/ SeenConfirmed(x) /\ Advance(x, "mark") /\ UNCHANGED deceived
     \/ SeenReverted(x) /\ Advance(x, "error") /\ UNCHANGED deceived
     \/ ~Missed(x) /\ Expired(x) /\ Advance(x, "expire") /\ UNCHANGED deceived
     \/ ~Missed(x) /\ ~Expired(x) /\ Advance(x, "send") /\ UNCHANGED deceived
     \/ Missed(x) /\ x \in blob /\ Advance(x, "send") /\ UNCHANGED deceived
     \/ Missed(x) /\ Advance(x, "expire") /\ deceived' = TRUE
  /\ UNCHANGED <<taskVars, txVars, torn, orphaned, crashes>>

(* An aborted run recovers, sends and follows nothing more.                  *)
StandDown(x) ==
  /\ aborted /\ step[x] \in {"recover", "send", "track"}
  /\ Advance(x, "ended")
  /\ UNCHANGED <<taskVars, txVars, history>>

(* Its worker is terminated, with the last transactions not delivered yet.   *)
Terminate(x) ==
  /\ aborted /\ step[x] = "persist" /\ \A y \in Records : y < x
  /\ step' = [y \in Txs |-> IF y >= x /\ step[y] = "persist" THEN "ended" ELSE step[y]]
  /\ UNCHANGED <<taskVars, txVars, phase, aborted, retry, draining, history>>

(* sendUnit: simulate, send.  The bytes are accepted ...                     *)
Send(x) ==
  /\ step[x] = "send" /\ ~aborted
  /\ chain' = [chain EXCEPT ![x] = IF @ = "unsent" THEN "inflight" ELSE @]
  /\ Advance(x, "track")
  /\ UNCHANGED <<taskVars, size, unit, record, blob, rows, history>>

(* ... or the simulation or the send fails, transiently (EXPIRED) or not     *)
(* (ERROR).  It is wrong when the bytes were accepted after all, now (a      *)
(* timed-out send) or before (a resend that fails).                          *)
SendFails(x) ==
  /\ step[x] = "send" /\ ~aborted
  /\ \/ /\ chain[x] = "unsent"
        /\ chain' = [chain EXCEPT ![x] = "inflight"] /\ deceived' = TRUE
     \/ UNCHANGED chain /\ deceived' = (deceived \/ chain[x] \in {"inflight", "landed"})
  /\ Advance(x, "expire") \/ Advance(x, "error")
  /\ UNCHANGED <<taskVars, size, unit, record, blob, rows, torn, orphaned, crashes>>

(* The tracker's sweep: status before expiry; an entry that is neither, or a *)
(* sweep that cannot read the height, stays for the next one.                *)
SeenExpired(x) == chain[x] = "dead"
Track(x) ==
  /\ step[x] = "track" /\ ~aborted
  /\ \/ SeenConfirmed(x) /\ Advance(x, "mark") /\ UNCHANGED deceived
     \/ SeenReverted(x) /\ Advance(x, "error") /\ UNCHANGED deceived
     \/ SeenExpired(x) /\ Advance(x, "expire") /\ UNCHANGED deceived
     \/ Missed(x) /\ Advance(x, "expire") /\ deceived' = TRUE
  /\ UNCHANGED <<taskVars, txVars, torn, orphaned, crashes>>

-----------------------------------------------------------------------------
(* applyOutcome.  markRecord patches every record of the unit.              *)

Matching(x) == {y \in Records : unit[y] = unit[x]}

MarkRecord(x, status) ==
  /\ record' = [y \in Txs |-> IF y \in Matching(x) THEN status ELSE record[y]]
  /\ blob' = blob \ Matching(x)

MarkConfirmed(x) ==
  /\ step[x] = "mark"
  /\ MarkRecord(x, "CONFIRMED")
  /\ Advance(x, "rows")
  /\ UNCHANGED <<taskVars, size, unit, chain, rows, history>>

(* onListConfirmed, an idempotent upsert for one packed job after the other. *)
WriteRow(x) ==
  /\ step[x] = "rows"
  /\ rows' = [rows EXCEPT ![x] = IF @ < size[x] THEN @ + 1 ELSE @]
  /\ Advance(x, IF rows'[x] = size[x] THEN "confirmed" ELSE "rows")
  /\ UNCHANGED <<taskVars, size, unit, record, blob, chain, history>>

MarkExpired(x) ==
  /\ step[x] = "expire"
  /\ MarkRecord(x, "SENT")
  /\ Advance(x, "ended")
  /\ UNCHANGED <<taskVars, size, unit, chain, rows, history>>

MarkError(x) ==
  /\ step[x] = "error"
  /\ MarkRecord(x, "SENT")
  /\ retry' = TRUE
  /\ step' = [step EXCEPT ![x] = "ended"]
  /\ UNCHANGED <<taskVars, size, unit, chain, rows, phase, aborted, draining, history>>

-----------------------------------------------------------------------------
(* The run: resume, judge, sign, close. *)

ResumeEnds ==
  /\ phase = "resume" /\ Settled
  /\ IF aborted THEN Leave
     ELSE /\ phase' = IF Needed = 0 THEN "closing" ELSE "judge"
          /\ UNCHANGED <<step, aborted, retry, draining>>
  /\ UNCHANGED <<taskVars, txVars, history>>

(* No longer wanted: drain.  No worker: the request has no node to give, or  *)
(* reserving or signing failed and the run will retry.                       *)
SignNothing ==
  /\ phase = "judge"
  /\ phase' = "fresh"
  /\ \/ ~wanted /\ draining' = TRUE /\ UNCHANGED <<retry, hold>>
     \/ wanted /\ retry' = TRUE /\ UNCHANGED <<draining, hold>>
     \/ wanted /\ reserving /\ hold' = 0 /\ UNCHANGED <<draining, retry>>
  /\ UNCHANGED <<task, tally, reserving, wanted, handoff, txVars, step, aborted, history>>

(* signBatch packs n jobs into the fewest transactions; here, one or two.    *)
Packings(n) == {<<n>>} \cup {<<a, n - a>> : a \in 1..(n - 1)}

Sign ==
  /\ phase = "judge" /\ wanted
  /\ \E n \in 1..Needed :
       /\ IF ~reserving THEN n = Needed /\ UNCHANGED hold
          ELSE \/ hold = Unasked /\ hold' = n
               \/ hold > 0 /\ n = (IF hold < Needed THEN hold ELSE Needed) /\ UNCHANGED hold
       /\ \E p \in Packings(n) :
            LET first == Cardinality(Signed) + 1
                bucket(x) == x - first + 1
                fresh == first..(first + Len(p) - 1)
            IN /\ fresh \subseteq Txs
               /\ size' = [x \in Txs |-> IF x \in fresh THEN p[bucket(x)] ELSE size[x]]
               /\ unit' = [x \in Txs |-> IF x \in fresh
                                         THEN Cardinality(Records) + bucket(x) - 1
                                         ELSE unit[x]]
               /\ step' = [x \in Txs |-> IF x \in fresh THEN FirstStep ELSE step[x]]
  /\ phase' = "fresh"
  /\ UNCHANGED <<task, tally, reserving, wanted, handoff, record, blob, chain, rows,
                 aborted, retry, draining, history>>

(* persistSignedRecord: the record also says which reserved nodes are used.  *)
Persist(x) ==
  /\ step[x] = "persist"
  /\ record' = [record EXCEPT ![x] = "SIGNED"]
  /\ blob' = blob \cup {x}
  /\ hold' = HoldAfter(x)
  /\ Advance(x, "send")
  /\ UNCHANGED <<task, tally, reserving, wanted, handoff, size, unit, chain, rows, history>>

FreshEnds ==
  /\ phase = "fresh" /\ Settled
  /\ IF aborted THEN Leave
     ELSE phase' = "closing" /\ UNCHANGED <<step, aborted, retry, draining>>
  /\ UNCHANGED <<taskVars, txVars, history>>

(* RETRY is no attempt, and counted by itself.  Else what is missing of      *)
(* reserved nodes goes to a new LIST, unless one stored has it from here.    *)
Close ==
  /\ phase = "closing"
  /\ IF ~draining /\ retry
       THEN /\ Leave /\ UNCHANGED handoff
            /\ attempts' = attempts - 1
            /\ retries' = IF MaxRetries = 0 THEN retries ELSE retries + 1
       ELSE /\ phase' = "completing" /\ UNCHANGED <<step, aborted, retry, draining, tally>>
            /\ IF ~draining /\ reserving /\ Missing > 0 /\ heir # "stored"
                 THEN handed' = handed + Missing /\ heir' = "stored"
                 ELSE UNCHANGED handoff
  /\ UNCHANGED <<task, reserving, wanted, hold, txVars, history>>

Complete ==
  /\ phase = "completing"
  /\ task' = "completed"
  /\ Leave
  /\ UNCHANGED <<tally, reserving, wanted, hold, handoff, txVars, history>>

-----------------------------------------------------------------------------
Unit(x) == \/ Recover(x) \/ StandDown(x) \/ Terminate(x) \/ Send(x) \/ SendFails(x) \/ Track(x)
           \/ MarkConfirmed(x) \/ WriteRow(x) \/ MarkExpired(x) \/ MarkError(x)
           \/ Persist(x) \/ Chain(x)

Next == \/ \E x \in Txs : Unit(x)
        \/ StartRun \/ AbandonList \/ Drop \/ StopDeployment \/ HeirLeaves \/ Abort \/ Crash
        \/ ResumeEnds \/ SignNothing \/ Sign \/ FreshEnds \/ Close \/ Complete

Spec == Init /\ [][Next]_vars

-----------------------------------------------------------------------------
(* Properties. *)

UnitsDistinct == \A x, y \in Records : unit[x] = unit[y] => x = y

(* As long as the RPC tells the truth and no two records share a unit index, *)
(* crashes, aborts and reclaims never make a LIST post more jobs than its    *)
(* target (reconcileUnits); nor post and hand off more, unless the LIST it    *)
(* handed to was gone before the task itself (scheduleTask matches stored    *)
(* tasks only, and hands the same jobs off once more).                       *)
NoOvershoot ==
  ~deceived /\ UnitsDistinct =>
    LandedJobs <= Target /\ (~orphaned => LandedJobs + handed <= Target)

(* What handOffShortfall says, "Created once per task, however often this    *)
(* one is reclaimed": without "orphaned".  The code does not do it.          *)
HandedOffOnce == ~deceived /\ UnitsDistinct => LandedJobs + handed <= Target

(* Persist before send: whatever may have reached the chain has a record to  *)
(* recover it by.                                                            *)
PersistedBeforeSent ==
  \A x \in Txs : chain[x] \in {"inflight", "landed", "reverted"} => record[x] # "NONE"

(* When the task is gone, every job it landed has a row: nothing on chain is *)
(* left unknown to the deployment, unless the RPC was wrong, records share a *)
(* unit index, or a crash fell between the CONFIRMED mark and the rows; and  *)
(* an abandoned task leaves unknown no more than it had in flight.           *)
LandedRecorded ==
  task # "queued" /\ ~deceived /\ UnitsDistinct =>
    \A x \in Txs \ torn : chain[x] = "landed" =>
      rows[x] = size[x] \/ (task = "abandoned" /\ x \in blob)

(* What isListInFlight is for, "a LIST in flight runs anyway, to record what *)
(* landed": without the abandoned.  The code gives a spent one up in flight. *)
AlwaysRecorded ==
  task # "queued" /\ ~deceived /\ UnitsDistinct =>
    \A x \in Txs \ torn : chain[x] = "landed" => rows[x] = size[x]

(* A LIST of reserved nodes that completes while wanted has landed or handed *)
(* off all of its target.                                                    *)
NothingForgotten ==
  task = "completed" /\ reserving /\ ~draining /\ UnitsDistinct
    => LandedJobs + handed >= Target

(* A transaction that did not land is signed again (send.ts): even with an   *)
(* RPC that tells the truth, a LIST into a market's queue does not complete  *)
(* short of its target.                                                      *)
QueueListingToppedUp ==
  task = "completed" /\ ~reserving /\ ~draining /\ ~deceived => LandedJobs >= Target
=============================================================================
