------------------------------ MODULE ApiBatch ------------------------------
(****************************************************************************)
(* A LIST of an API-key vault: one batch call posts every slot under the    *)
(* task's key of epoch 0, and the slots that expired again under the next   *)
(* epoch's key.  client-manager freezes the verdict of a key and replays    *)
(* it; a lost answer is asked for again under the same key, by a run that   *)
(* walks from epoch 0 and records only what is not recorded.                *)
(*                                                                          *)
(* STOP walks its frozen set in the same way, an EXTEND one unit.           *)
(* client-manager is modelled from how batch.ts uses it.  MaxEpoch stands   *)
(* for MAX_IDEMPOTENCY_EPOCH, MaxRetries for task_max_inflight_retries;     *)
(* MaxEdits and MaxFaults bound the edits of the deployment, and the        *)
(* crashes and lost calls.                                                  *)
(****************************************************************************)
EXTENDS Naturals, FiniteSets

CONSTANTS Units, MaxEpoch, MaxRetries, MaxEdits, MaxFaults

ASSUME BatchAssumption ==
  IsFiniteSet(Units) /\ MaxEpoch \in Nat /\ MaxRetries \in Nat /\ MaxEdits \in Nat /\ MaxFaults \in Nat

Epochs == 0..MaxEpoch

VARIABLES
  wanted,     \* the deployment is running
  body,       \* its market and timeout, which every unit's body carries
  task,       \* the LIST task
  cm,         \* client-manager: each key's payload, and its verdict once settled
  landed,     \* how many jobs each slot was given on-chain
  rows,       \* the slots whose job is recorded in the jobs collection
  run,        \* the run that is going
  faults

vars == <<wanted, body, task, cm, landed, rows, run, faults>>

Idle == [pc |-> "idle", records |-> {}, body |-> 0, drains |-> FALSE, epoch |-> 0,
         pending |-> {}, confirmed |-> {}, result |-> "none"]
NoKey == [status |-> "none", units |-> {}, body |-> 0, confirmed |-> {}]

Init == /\ wanted = TRUE /\ body = 1
        /\ task = [status |-> "queued", posted |-> FALSE, records |-> {}, retries |-> 0]
        /\ cm = [e \in Epochs |-> NoKey]
        /\ landed = [u \in Units |-> 0] /\ rows = {}
        /\ run = Idle /\ faults = 0

At(pc) == run.pc = pc
Queued == task.status = "queued" /\ At("idle")
Fault == faults < MaxFaults /\ faults' = faults + 1
Spent == task.retries >= MaxRetries
MayHaveRecorded == task.records # {}
MayHavePosted == task.posted

-----------------------------------------------------------------------------
(* A task is dropped when no longer wanted, unless its jobs may have landed; *)
(* a spent one is given up.                                                  *)
Claim ==
  /\ Queued
  /\ IF Spent \/ (~wanted /\ ~MayHavePosted)
     THEN /\ task' = [task EXCEPT !.status = IF wanted THEN "abandoned" ELSE "dropped"]
          /\ UNCHANGED run
     ELSE /\ run' = [Idle EXCEPT !.pc = "judge", !.records = task.records, !.body = body]
          /\ UNCHANGED task
  /\ UNCHANGED <<wanted, body, cm, landed, rows, faults>>

(* Nothing is missing; or it only drains what it posted; or it marks that    *)
(* its jobs may land, and posts the whole target, whatever is recorded.      *)
Target == Units
Judge ==
  /\ At("judge")
  /\ LET walks == run.records # Units /\ (wanted \/ task.posted)
     IN /\ run' = [run EXCEPT !.drains = run.records # Units /\ ~wanted,
                              !.pc = IF walks THEN "post" ELSE "end",
                              !.pending = IF walks THEN Target ELSE {},
                              !.result = IF walks THEN "none" ELSE "ok"]
        /\ task' = [task EXCEPT !.posted = @ \/ walks]
  /\ UNCHANGED <<wanted, body, cm, landed, rows, faults>>

Key(e) == cm[e]
Payload == [units |-> run.pending, body |-> run.body]
Known(e) == Key(e).status # "none"
Mismatch(e) == Known(e) /\ Payload # [units |-> Key(e).units, body |-> Key(e).body]

(* RETRY the same key, or FATAL (no batch answers EXPIRED).                  *)
Classify(code) == IF code \in {"NO_RESPONSE", "IN_PROGRESS", "5XX"} THEN "retry" ELSE "fatal"
Ends(code) == run' = [run EXCEPT !.pc = "emit", !.result = Classify(code)]

(* The epoch's key is posted with what is pending.                           *)
Post ==
  /\ At("post")
  /\ \/ /\ Mismatch(run.epoch) /\ Ends("PAYLOAD_MISMATCH")
        /\ UNCHANGED <<cm, faults>>
     \/ /\ ~Mismatch(run.epoch)
        /\ cm' = IF Known(run.epoch) THEN cm
                 ELSE [cm EXCEPT ![run.epoch] = [status |-> "open", units |-> run.pending,
                         body |-> run.body, confirmed |-> {}]]
        /\ run' = [run EXCEPT !.pc = "await"]
        /\ UNCHANGED faults
     \/ \E code \in {"NO_RESPONSE", "5XX", "4XX"} : Fault /\ Ends(code) /\ UNCHANGED cm
  /\ UNCHANGED <<wanted, body, task, landed, rows>>

(* client-manager: every unit of an open key lands or has expired.           *)
Resolve(e) ==
  /\ Key(e).status = "open"
  /\ \E S \in SUBSET Key(e).units :
       /\ cm' = [cm EXCEPT ![e].status = "settled", ![e].confirmed = S]
       /\ landed' = [u \in Units |-> IF u \in S THEN landed[u] + 1 ELSE landed[u]]
  /\ UNCHANGED <<wanted, body, task, rows, run, faults>>

(* The verdict: what expired goes to the next epoch's key.                   *)
AllPending(e) == IF run.pending = Key(e).confirmed THEN {} ELSE run.pending
MoreEpochs(e) == e < MaxEpoch
Expired(e) == run.pending \ Key(e).confirmed
Answered ==
  /\ At("await") /\ Key(run.epoch).status = "settled"
  /\ LET expired == Expired(run.epoch)
         more == expired # {} /\ MoreEpochs(run.epoch)
     IN run' = [run EXCEPT !.confirmed = @ \cup Key(run.epoch).confirmed,
                           !.pc = IF more THEN "post" ELSE "emit",
                           !.epoch = IF more THEN @ + 1 ELSE @,
                           !.pending = IF more THEN expired ELSE @,
                           !.result = IF expired = {} THEN "ok" ELSE "retry"]
  /\ UNCHANGED <<wanted, body, task, cm, landed, rows, faults>>

(* Still confirming, or the answer is lost.                                  *)
Unanswered ==
  /\ At("await")
  /\ \/ Key(run.epoch).status = "open" /\ Ends("IN_PROGRESS") /\ UNCHANGED faults
     \/ Ends("NO_RESPONSE") /\ Fault
  /\ UNCHANGED <<wanted, body, task, cm, landed, rows>>

(* A confirmed slot on no record: its job's row first, then its record.      *)
Pending == run.confirmed \ run.records
RecordJob(u) ==
  /\ At("emit") /\ u \in Pending \ rows
  /\ rows' = rows \cup {u}
  /\ UNCHANGED <<wanted, body, task, cm, landed, run, faults>>
RecordUnit(u) ==
  /\ At("emit") /\ u \in (Pending \cap rows) \ task.records
  /\ task' = [task EXCEPT !.records = @ \cup {u}]
  /\ UNCHANGED <<wanted, body, cm, landed, rows, run, faults>>
(* What confirmed and is on no record, slot of a listing or reserved node.   *)
Emit(u) == RecordJob(u) \/ RecordUnit(u)
Emitted ==
  /\ At("emit") /\ Pending \subseteq task.records
  /\ run' = [run EXCEPT !.pc = "end"]
  /\ UNCHANGED <<wanted, body, task, cm, landed, rows, faults>>

(* Completed; drained (or refused: an error is not retried by a drain, which *)
(* then ends unresolved); or retried.                                        *)
RetriedIfWanted == run.result # "ok" /\ ~run.drains
Retried == run.result = "retry" \/ (run.result = "fatal" /\ ~run.drains)
End ==
  /\ At("end")
  /\ task' = IF Retried THEN [task EXCEPT !.retries = @ + 1]
             ELSE [task EXCEPT !.status = CASE ~run.drains -> "completed"
                                            [] run.drains /\ run.result # "fatal" -> "drained"
                                            [] OTHER -> "refused"]
  /\ run' = Idle
  /\ UNCHANGED <<wanted, body, cm, landed, rows, faults>>

Crash == /\ ~At("idle") /\ Fault /\ run' = Idle
         /\ UNCHANGED <<wanted, body, task, cm, landed, rows>>

(* The deployment is stopped; its STOP sweeps the LIST unless it may have    *)
(* posted.                                                                   *)
Stop == /\ wanted /\ wanted' = FALSE
        /\ UNCHANGED <<body, task, cm, landed, rows, run, faults>>
Sweep == /\ ~wanted /\ Queued /\ ~MayHavePosted
         /\ task' = [task EXCEPT !.status = "dropped"]
         /\ UNCHANGED <<wanted, body, cm, landed, rows, run, faults>>

(* The market or the timeout of the deployment is edited.                    *)
Edit == /\ body <= MaxEdits /\ body' = body + 1
        /\ UNCHANGED <<wanted, task, cm, landed, rows, run, faults>>

RunStep == \/ Judge \/ Post \/ Answered \/ Unanswered \/ Emitted \/ End
           \/ \E u \in Units : Emit(u)
Next == \/ Claim \/ RunStep \/ Crash \/ Stop \/ Sweep \/ Edit
        \/ \E e \in Epochs : Resolve(e)
Spec == Init /\ [][Next]_vars

(* Tasks are claimed and runs go on; client-manager settles every key.       *)
FairSpec == /\ Spec /\ WF_vars(Claim) /\ WF_vars(RunStep)
            /\ \A e \in Epochs : WF_vars(Resolve(e))
-----------------------------------------------------------------------------
TypeOK ==
  /\ wanted \in BOOLEAN /\ body \in 1..MaxEdits + 1 /\ faults \in 0..MaxFaults
  /\ task \in [status : {"queued", "completed", "drained", "refused", "dropped", "abandoned"},
               posted : BOOLEAN, records : SUBSET Units, retries : 0..MaxRetries]
  /\ cm \in [Epochs -> [status : {"none", "open", "settled"}, units : SUBSET Units,
                        body : 0..MaxEdits + 1, confirmed : SUBSET Units]]
  /\ landed \in [Units -> Nat] /\ rows \subseteq Units
  /\ run \in [pc : {"idle", "judge", "post", "await", "emit", "end"}, records : SUBSET Units,
              body : 0..MaxEdits + 1, drains : BOOLEAN, epoch : Epochs, pending : SUBSET Units,
              confirmed : SUBSET Units, result : {"none", "ok", "retry", "fatal"}]

(* A key always carries the same units, in whatever run and after whatever   *)
(* loss it is posted again: the walk derives them from the verdicts alone,   *)
(* never from what happens to be recorded.                                   *)
SameUnitsPerKey == At("post") /\ Known(run.epoch) => run.pending = Key(run.epoch).units

(* A job that landed is recorded, or the task that will ask for it again is  *)
(* still there: it is not swept, dropped or completed.  Lost only with a     *)
(* task that was spent, or whose drain was refused.                          *)
Forgotten == {u \in Units : landed[u] > 0 /\ u \notin rows}
NothingForgotten ==
  Forgotten # {} => \/ task.status \in {"queued", "abandoned", "refused"}
                    \/ task.status = "dropped" /\ Spent

(* An unwanted LIST that posted "is drained, recording the jobs that landed  *)
(* so they can be stopped" (wanted.ts:68-69).                                *)
DrainForgetsNothing == task.status \in {"drained", "refused"} => Forgotten = {}

(* A task leaves the queue, and everything that landed is then recorded      *)
(* unless the task was spent or refused.                                     *)
LandedRecorded ==
  <>[](task.status # "queued" /\ (~Spent /\ task.status # "refused" => Forgotten = {}))

(* What a task promises of its units.                                        *)
Once == INSTANCE OnceEach WITH applied <- landed, known <- task.records,
                               complete <- (task.status = "completed")
OnceEachSpec == Once!Spec
=============================================================================
