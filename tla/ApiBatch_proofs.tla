--------------------------- MODULE ApiBatch_proofs ---------------------------
(****************************************************************************)
(* Theorems about ApiBatch, for any slots, any number of epochs and any     *)
(* retries, edits, crashes and lost calls: it implements OnceEach, a key    *)
(* always carries the same units, and what landed is not forgotten.         *)
(****************************************************************************)
EXTENDS ApiBatch, TLAPS

Types ==
  /\ body \in Nat
  /\ task \in [status : {"queued", "completed", "drained", "refused", "dropped", "abandoned"},
               posted : BOOLEAN, records : SUBSET Units, retries : Nat]
  /\ cm \in [Epochs -> [status : {"none", "open", "settled"}, units : SUBSET Units,
                        body : Nat, confirmed : SUBSET Units]]
  /\ landed \in [Units -> Nat]
  /\ run \in [pc : {"idle", "judge", "post", "await", "emit", "end"}, records : SUBSET Units,
              body : Nat, drains : BOOLEAN, epoch : Epochs, pending : SUBSET Units,
              confirmed : SUBSET Units, result : {"none", "ok", "retry", "fatal"}]

(* A key of a later epoch is posted once the earlier ones are settled, and   *)
(* without what they confirmed.                                              *)
KeysApart ==
  \A e \in Epochs :
    /\ Key(e).status # "settled" => Key(e).confirmed = {}
    /\ Key(e).confirmed \subseteq Key(e).units
    /\ \A f \in Epochs : f < e /\ Known(e) =>
         Key(f).status = "settled" /\ Key(e).units \cap Key(f).confirmed = {}

(* client-manager gave a job to what a key confirmed, and to nothing else.   *)
Confirmed(u) == \E e \in Epochs : u \in Key(e).confirmed
LandedOnce == \A u \in Units : landed[u] = IF Confirmed(u) THEN 1 ELSE 0

(* A walk has the earlier verdicts behind it; what it was told has landed;   *)
(* between the two is every slot.                                            *)
Walking == run.pc \in {"post", "await"}
WalkApart ==
  /\ run.pc = "judge" => run.epoch = 0
  /\ Walking =>
       /\ Units \subseteq run.confirmed \cup run.pending
       /\ \A f \in Epochs : f < run.epoch =>
            Key(f).status = "settled" /\ run.pending \cap Key(f).confirmed = {}
  /\ \A u \in run.confirmed : landed[u] = 1

(* A run is of a queued task; it knows no more records than the task has;    *)
(* and it reports success when every slot is confirmed, and ends with it     *)
(* when every slot is recorded.                                              *)
RunOfTask ==
  /\ run.pc # "idle" => task.status = "queued"
  /\ run.records \subseteq task.records
  /\ run.pc = "emit" => run.result # "none" /\ (run.result = "ok" => Units \subseteq run.confirmed)
  /\ run.pc = "end" =>
       run.result # "none" /\ (run.result = "ok" /\ ~run.drains => task.records = Units)

Inv == Types /\ KeysApart /\ LandedOnce /\ WalkApart /\ RunOfTask

LEMMA InitInv == Init => Inv
<1> SUFFICES ASSUME Init PROVE Inv
  OBVIOUS
<1>1. 0 \in Epochs
  BY BatchAssumption DEF Epochs
<1>2. Types
  BY <1>1 DEF Init, Types, Idle, NoKey
<1>3. \A e \in Epochs : Key(e).status = "none" /\ Key(e).confirmed = {} /\ Key(e).units = {}
  BY DEF Init, Key, NoKey
<1>4. KeysApart /\ LandedOnce
  BY <1>3 DEF Init, KeysApart, LandedOnce, Confirmed, Known
<1>5. WalkApart /\ RunOfTask
  BY DEF Init, WalkApart, Walking, RunOfTask, Idle
<1> QED
  BY <1>2, <1>4, <1>5 DEF Inv

(* What leaves client-manager alone keeps what is said of it.                *)
LEMMA KeysStay ==
  ASSUME KeysApart, LandedOnce, UNCHANGED <<cm, landed>>
  PROVE  KeysApart' /\ LandedOnce'
BY DEF KeysApart, LandedOnce, Confirmed, Known, Key

LEMMA ClaimInv == Inv /\ Claim => Inv'
<1> SUFFICES ASSUME Inv, Claim PROVE Inv'
  OBVIOUS
<1>1. 0 \in Epochs
  BY BatchAssumption DEF Epochs
<1>2. KeysApart' /\ LandedOnce'
  BY KeysStay DEF Inv, Claim
<1>3. CASE UNCHANGED run
  BY <1>2, <1>3 DEF Inv, Claim, Queued, At, Types, WalkApart, Walking, RunOfTask, Key
<1>4. CASE run' = [Idle EXCEPT !.pc = "judge", !.records = task.records, !.body = body] /\ UNCHANGED task
  BY <1>1, <1>2, <1>4 DEF Inv, Claim, Queued, At, Types, WalkApart, Walking, RunOfTask, Idle
<1> QED
  BY <1>3, <1>4 DEF Claim

LEMMA JudgeInv == Inv /\ Judge => Inv'
<1> SUFFICES ASSUME Inv, Judge PROVE Inv'
  OBVIOUS
<1>1. KeysApart' /\ LandedOnce'
  BY KeysStay DEF Inv, Judge
<1> DEFINE walks == run.records # Units /\ (wanted \/ task.posted)
<1>2. /\ run' = [run EXCEPT !.drains = run.records # Units /\ ~wanted,
                             !.pc = IF walks THEN "post" ELSE "end",
                             !.pending = IF walks THEN Units ELSE {},
                             !.result = IF walks THEN "none" ELSE "ok"]
      /\ task' = [task EXCEPT !.posted = @ \/ walks]
      /\ run.pc = "judge" /\ UNCHANGED <<body, cm, landed>>
  BY DEF Judge, At, Target
<1>3. Types'
  BY <1>2, Zenon DEF Inv, Types
<1>4. WalkApart'
  BY <1>2 DEF Inv, Types, WalkApart, Walking, Key, Epochs
<1>5. RunOfTask'
  <2>1. task'.status = task.status /\ task'.records = task.records /\ run'.records = run.records
    BY <1>2, Zenon DEF Inv, Types
  <2>2. task.status = "queued" /\ run.records \subseteq task.records /\ task.records \subseteq Units
    BY <1>2 DEF Inv, Types, RunOfTask
  <2>3. CASE walks
    <3>1. run'.pc = "post"
      BY <1>2, <2>3 DEF Inv, Types
    <3> QED
      BY <2>1, <2>2, <3>1 DEF RunOfTask
  <2>4. CASE ~walks
    <3>1. run'.pc = "end" /\ run'.result = "ok" /\ run'.drains = (run.records # Units /\ ~wanted)
      BY <1>2, <2>4, Zenon DEF Inv, Types
    <3>2. ~run'.drains => task.records = Units
      BY <2>2, <2>4, <3>1
    <3> QED
      BY <2>1, <2>2, <3>1, <3>2 DEF RunOfTask
  <2> QED
    BY <2>3, <2>4
<1> QED
  BY <1>1, <1>3, <1>4, <1>5 DEF Inv

(* A call that ends the walk with an error.                                  *)
LEMMA EndsInv ==
  ASSUME Inv, NEW code, Ends(code), run.pc \in {"post", "await"},
         UNCHANGED <<body, task, cm, landed>>
  PROVE  Inv'
<1>1. KeysApart' /\ LandedOnce'
  BY KeysStay DEF Inv
<1>2. Classify(code) \in {"retry", "fatal"}
  BY DEF Classify
<1> QED
  BY <1>1, <1>2 DEF Inv, Ends, Types, WalkApart, Walking, RunOfTask

LEMMA PostInv == Inv /\ Post => Inv'
<1> SUFFICES ASSUME Inv, Post PROVE Inv'
  OBVIOUS
<1>0. run.pc = "post" /\ UNCHANGED <<body, task, landed>>
  BY DEF Post, At
<1>1. ASSUME NEW code, Ends(code), UNCHANGED cm PROVE Inv'
  BY <1>0, <1>1, EndsInv
<1>2. CASE run' = [run EXCEPT !.pc = "await"] /\ UNCHANGED cm
  <2>1. KeysApart' /\ LandedOnce'
    BY <1>0, <1>2, KeysStay DEF Inv
  <2> QED
    BY <1>0, <1>2, <2>1 DEF Inv, Types, WalkApart, Walking, RunOfTask, Key
<1>3. CASE /\ run' = [run EXCEPT !.pc = "await"] /\ ~Known(run.epoch)
           /\ cm' = [cm EXCEPT ![run.epoch] = [status |-> "open", units |-> run.pending,
                         body |-> run.body, confirmed |-> {}]]
  <2> DEFINE k == [status |-> "open", units |-> run.pending, body |-> run.body, confirmed |-> {}]
  <2>0. PICK e \in Epochs : e = run.epoch
    BY DEF Inv, Types
  <2>1. cm' = [cm EXCEPT ![e] = k] /\ run.pending \subseteq Units /\ run.body \in Nat
    BY <1>3, <2>0 DEF Inv, Types
  <2>2. Key(e).confirmed = {} /\ \A f \in Epochs : e < f => ~Known(f)
    BY <1>3, <2>0 DEF Inv, KeysApart, Known
  <2>3. /\ Key(e)' = k
        /\ \A f \in Epochs \ {e} : Key(f)' = Key(f)
    BY <2>1 DEF Inv, Types, Key
  <2>4. \A f \in Epochs : f < e => Key(f).status = "settled" /\ run.pending \cap Key(f).confirmed = {}
    BY <1>0, <2>0 DEF Inv, WalkApart, Walking
  <2>5. KeysApart'
    <3> SUFFICES ASSUME NEW g \in Epochs
                 PROVE  /\ Key(g)'.status # "settled" => Key(g)'.confirmed = {}
                        /\ Key(g)'.confirmed \subseteq Key(g)'.units
                        /\ \A f \in Epochs : f < g /\ Key(g)'.status # "none" =>
                             Key(f)'.status = "settled" /\ Key(g)'.units \cap Key(f)'.confirmed = {}
      BY Zenon DEF KeysApart, Known
    <3>1. CASE g = e
      <4>1. \A f \in Epochs : f < e => f # e
        BY DEF Epochs
      <4> QED
        BY <2>3, <2>4, <3>1, <4>1
    <3>2. CASE g # e
      <4>1. ASSUME NEW f \in Epochs, f < g, Key(g)'.status # "none"
            PROVE  Key(f)'.status = "settled" /\ Key(g)'.units \cap Key(f)'.confirmed = {}
        <5>1. Known(g)
          BY <2>3, <3>2, <4>1 DEF Known
        <5>2. f # e
          BY <2>2, <4>1, <5>1
        <5> QED
          BY <2>3, <3>2, <4>1, <5>1, <5>2 DEF Inv, KeysApart
      <4> QED
        BY <2>3, <3>2, <4>1 DEF Inv, KeysApart
    <3> QED
      BY <3>1, <3>2
  <2>6. LandedOnce'
    <3>1. Key(e)'.confirmed = Key(e).confirmed
      BY <2>2, <2>3
    <3>2. \A f \in Epochs : Key(f)'.confirmed = Key(f).confirmed
      BY <2>3, <3>1
    <3> QED
      BY <1>0, <3>2 DEF Inv, LandedOnce, Confirmed
  <2>7. Types'
    <3>1. k \in [status : {"none", "open", "settled"}, units : SUBSET Units, body : Nat,
                 confirmed : SUBSET Units]
      BY <2>1
    <3>2. cm' \in [Epochs -> [status : {"none", "open", "settled"}, units : SUBSET Units,
                              body : Nat, confirmed : SUBSET Units]]
      BY <2>1, <3>1, Zenon DEF Inv, Types
    <3> QED
      BY <1>0, <1>3, <3>2 DEF Inv, Types
  <2>8. WalkApart'
    <3>1. \A f \in Epochs : f < e => Key(f)' = Key(f)
      BY <2>3 DEF Epochs
    <3> QED
      BY <1>0, <1>3, <2>0, <2>4, <3>1 DEF Inv, Types, WalkApart, Walking
  <2> QED
    BY <1>0, <1>3, <2>5, <2>6, <2>7, <2>8 DEF Inv, Types, RunOfTask
<1> QED
  BY <1>1, <1>2, <1>3 DEF Post

(* What settles is the latest key: no later key is posted, none has          *)
(* confirmed what it settles.                                                *)
LEMMA OpenIsLast ==
  ASSUME Inv, NEW e \in Epochs, Key(e).status = "open"
  PROVE  /\ Key(e).confirmed = {}
         /\ \A f \in Epochs : f # e => Key(f).confirmed \cap Key(e).units = {}
         /\ \A f \in Epochs : e < f => ~Known(f)
<1>1. Key(e).confirmed = {} /\ \A f \in Epochs : e < f => ~Known(f)
  BY DEF Inv, KeysApart
<1>2. ASSUME NEW f \in Epochs, f # e PROVE Key(f).confirmed \cap Key(e).units = {}
  <2>1. CASE f < e
    BY <2>1 DEF Inv, KeysApart, Known
  <2>2. CASE e < f
    BY <1>1, <2>2 DEF Inv, KeysApart, Known
  <2> QED
    BY <1>2, <2>1, <2>2 DEF Epochs
<1> QED
  BY <1>1, <1>2

(* Of what landed with a verdict, nothing had landed.                        *)
LEMMA ResolveLands ==
  ASSUME Inv, NEW e \in Epochs, Key(e).status = "open", NEW S \in SUBSET Key(e).units,
         landed' = [u \in Units |-> IF u \in S THEN landed[u] + 1 ELSE landed[u]]
  PROVE  /\ S \subseteq Units /\ \A u \in S : landed[u] = 0
         /\ landed' = [u \in Units |-> IF u \in S THEN 1 ELSE landed[u]]
<1>1. S \subseteq Units
  BY DEF Inv, Types, Key
<1>2. \A u \in S : ~Confirmed(u)
  BY OpenIsLast DEF Confirmed
<1>3. \A u \in S : landed[u] = 0
  BY <1>1, <1>2 DEF Inv, LandedOnce
<1> QED
  BY <1>1, <1>3

LEMMA ResolveInv == ASSUME Inv, NEW e \in Epochs, Resolve(e) PROVE Inv'
<1>0. Key(e).status = "open" /\ UNCHANGED <<body, task, run>>
  BY DEF Resolve
<1>1. PICK S \in SUBSET Key(e).units :
        /\ cm' = [cm EXCEPT ![e].status = "settled", ![e].confirmed = S]
        /\ landed' = [u \in Units |-> IF u \in S THEN landed[u] + 1 ELSE landed[u]]
  BY DEF Resolve
<1>2. /\ S \subseteq Units /\ \A u \in S : landed[u] = 0
      /\ landed' = [u \in Units |-> IF u \in S THEN 1 ELSE landed[u]]
  BY <1>0, <1>1, ResolveLands
<1>3. /\ Key(e)'.status = "settled" /\ Key(e)'.units = Key(e).units /\ Key(e)'.confirmed = S
      /\ \A f \in Epochs : f # e => Key(f)' = Key(f)
  BY <1>1 DEF Inv, Types, Key
<1>4. /\ Key(e).confirmed = {}
      /\ \A f \in Epochs : f # e => Key(f).confirmed \cap Key(e).units = {}
      /\ \A f \in Epochs : e < f => ~Known(f)
  BY <1>0, OpenIsLast
<1>5. Types'
  <2>1. cm' \in [Epochs -> [status : {"none", "open", "settled"}, units : SUBSET Units,
                            body : Nat, confirmed : SUBSET Units]]
    <3> DEFINE Verdicts == [status : {"none", "open", "settled"}, units : SUBSET Units,
                            body : Nat, confirmed : SUBSET Units]
    <3>1. cm \in [Epochs -> Verdicts]
      BY DEF Inv, Types
    <3>2. [cm[e] EXCEPT !.status = "settled", !.confirmed = S] \in Verdicts
      BY <1>2, <3>1
    <3>3. cm' = [cm EXCEPT ![e] = [cm[e] EXCEPT !.status = "settled", !.confirmed = S]]
      BY <1>1, <3>1, Zenon
    <3> HIDE DEF Verdicts
    <3>4. cm' \in [Epochs -> Verdicts]
      BY <3>1, <3>2, <3>3
    <3> QED
      BY <3>4 DEF Verdicts
  <2> QED
    BY <1>0, <1>2, <2>1 DEF Inv, Types
<1>6. KeysApart'
  <2> SUFFICES ASSUME NEW g \in Epochs
               PROVE  /\ Key(g)'.status # "settled" => Key(g)'.confirmed = {}
                      /\ Key(g)'.confirmed \subseteq Key(g)'.units
                      /\ \A f \in Epochs : f < g /\ Key(g)'.status # "none" =>
                           Key(f)'.status = "settled" /\ Key(g)'.units \cap Key(f)'.confirmed = {}
    BY Zenon DEF KeysApart, Known
  <2>1. CASE g = e
    <3>1. \A f \in Epochs : f < e => Key(f).status = "settled" /\ Key(e).units \cap Key(f).confirmed = {}
      BY <1>0 DEF Inv, KeysApart, Known
    <3>2. \A f \in Epochs : f < e => f # e
      BY DEF Epochs
    <3> QED
      BY <1>3, <2>1, <3>1, <3>2
  <2>2. CASE g # e
    <3>1. Key(g)' = Key(g)
      BY <1>3, <2>2
    <3>2. ASSUME NEW f \in Epochs, f < g, Key(g).status # "none"
          PROVE  Key(f)'.status = "settled" /\ Key(g).units \cap Key(f)'.confirmed = {}
      <4>1. f # e
        BY <1>4, <3>2 DEF Known
      <4> QED
        BY <1>3, <3>2, <4>1 DEF Inv, KeysApart, Known
    <3> QED
      BY <3>1, <3>2 DEF Inv, KeysApart
  <2> QED
    BY <2>1, <2>2
<1>7. LandedOnce'
  <2> SUFFICES ASSUME NEW u \in Units PROVE landed'[u] = IF Confirmed(u)' THEN 1 ELSE 0
    BY DEF LandedOnce
  <2>1. Confirmed(u)' <=> u \in S \/ Confirmed(u)
    BY <1>3, <1>4 DEF Confirmed
  <2> QED
    BY <1>2, <2>1 DEF Inv, LandedOnce
<1>8. WalkApart'
  <2>1. \A f \in Epochs : Key(f).status = "settled" => Key(f)' = Key(f)
    BY <1>0, <1>3
  <2>2. \A u \in run.confirmed : landed'[u] = 1
    BY <1>2 DEF Inv, Types, WalkApart
  <2> QED
    BY <1>0, <2>1, <2>2 DEF Inv, WalkApart, Walking
<1> QED
  BY <1>0, <1>5, <1>6, <1>7, <1>8 DEF Inv, RunOfTask

LEMMA AnsweredInv == Inv /\ Answered => Inv'
<1> SUFFICES ASSUME Inv, Answered PROVE Inv'
  OBVIOUS
<1>1. PICK e \in Epochs : e = run.epoch
  BY DEF Inv, Types
<1> DEFINE expired == run.pending \ Key(e).confirmed
           more == expired # {} /\ e < MaxEpoch
<1>2. /\ run.pc = "await" /\ Key(e).status = "settled" /\ UNCHANGED <<body, task, cm, landed>>
      /\ run' = [run EXCEPT !.confirmed = @ \cup Key(e).confirmed,
                            !.pc = IF more THEN "post" ELSE "emit",
                            !.epoch = IF more THEN @ + 1 ELSE @,
                            !.pending = IF more THEN expired ELSE @,
                            !.result = IF expired = {} THEN "ok" ELSE "retry"]
  BY <1>1 DEF Answered, At, Expired, MoreEpochs
<1>3. KeysApart' /\ LandedOnce'
  BY <1>2, KeysStay DEF Inv
<1>4. more => e + 1 \in Epochs
  BY BatchAssumption DEF Epochs
<1>5. Key(e).confirmed \subseteq Units /\ run.pending \subseteq Units
  BY DEF Inv, Types, Key
<1>6. /\ run'.confirmed = run.confirmed \cup Key(e).confirmed
      /\ run'.records = run.records /\ run'.drains = run.drains
      /\ more => run'.pc = "post" /\ run'.epoch = e + 1 /\ run'.pending = expired
      /\ ~more => run'.pc = "emit"
      /\ run'.result = IF expired = {} THEN "ok" ELSE "retry"
  BY <1>1, <1>2, Zenon DEF Inv, Types
<1>7. Types'
  BY <1>1, <1>2, <1>4, <1>5 DEF Inv, Types
<1>8. \A u \in run'.confirmed : landed'[u] = 1
  <2>1. \A u \in Key(e).confirmed : landed[u] = 1
    BY <1>5 DEF Inv, LandedOnce, Confirmed
  <2> QED
    BY <1>2, <1>6, <2>1 DEF Inv, WalkApart
<1>9. WalkApart'
  <2>1. /\ Units \subseteq run.confirmed \cup run.pending
        /\ \A f \in Epochs : f < e =>
             Key(f).status = "settled" /\ run.pending \cap Key(f).confirmed = {}
    BY <1>1, <1>2 DEF Inv, WalkApart, Walking
  <2>2. \A f \in Epochs : Key(f)' = Key(f)
    BY <1>2 DEF Key
  <2>3. CASE more
    <3>1. Units \subseteq run'.confirmed \cup run'.pending
      BY <1>6, <2>1, <2>3
    <3>2. \A f \in Epochs : f < e + 1 => f < e \/ f = e
      BY DEF Epochs
    <3>3. \A f \in Epochs : f < e + 1 =>
            Key(f).status = "settled" /\ expired \cap Key(f).confirmed = {}
      BY <1>2, <2>1, <3>2
    <3> QED
      BY <1>6, <1>8, <2>2, <2>3, <3>1, <3>3 DEF WalkApart, Walking
  <2>4. CASE ~more
    BY <1>6, <1>8, <2>4 DEF WalkApart, Walking
  <2> QED
    BY <2>3, <2>4
<1>10. RunOfTask'
  <2>1. Units \subseteq run.confirmed \cup run.pending
    BY <1>2 DEF Inv, WalkApart, Walking
  <2>2. run'.result # "none" /\ (run'.result = "ok" => Units \subseteq run'.confirmed)
    BY <1>6, <2>1
  <2> QED
    BY <1>2, <1>6, <2>2 DEF Inv, RunOfTask
<1> QED
  BY <1>3, <1>7, <1>9, <1>10 DEF Inv

LEMMA UnansweredInv == Inv /\ Unanswered => Inv'
BY EndsInv DEF Unanswered, At

LEMMA EmitInv == ASSUME Inv, NEW u \in Units, Emit(u) PROVE Inv'
<1>1. KeysApart' /\ LandedOnce' /\ UNCHANGED <<body, cm, landed, run>>
  BY KeysStay DEF Inv, Emit, RecordJob, RecordUnit
<1>2. CASE RecordJob(u)
  BY <1>1, <1>2 DEF RecordJob, Inv, Types, WalkApart, Walking, Key, RunOfTask
<1>3. CASE RecordUnit(u)
  BY <1>1, <1>3 DEF RecordUnit, At, Inv, Types, WalkApart, Walking, Key, RunOfTask
<1> QED
  BY <1>2, <1>3 DEF Emit

LEMMA EmittedInv == Inv /\ Emitted => Inv'
<1> SUFFICES ASSUME Inv, Emitted PROVE Inv'
  OBVIOUS
<1>1. KeysApart' /\ LandedOnce'
  BY KeysStay DEF Inv, Emitted
<1>2. run.result = "ok" => task.records = Units
  BY DEF Emitted, At, Pending, Inv, Types, RunOfTask
<1> QED
  BY <1>1, <1>2 DEF Emitted, At, Inv, Types, WalkApart, Walking, RunOfTask

(* Between two runs nothing is said of the run.                              *)
LEMMA IdleInv ==
  ASSUME Inv, Types', run' = Idle, UNCHANGED <<cm, landed>>, task'.records = task.records
  PROVE  Inv'
<1>1. KeysApart' /\ LandedOnce'
  BY KeysStay DEF Inv
<1> QED
  BY <1>1 DEF Inv, WalkApart, Walking, RunOfTask, Idle

LEMMA IdleTypes == Idle \in [pc : {"idle", "judge", "post", "await", "emit", "end"}, records : SUBSET Units,
              body : Nat, drains : BOOLEAN, epoch : Epochs, pending : SUBSET Units,
              confirmed : SUBSET Units, result : {"none", "ok", "retry", "fatal"}]
<1>1. 0 \in Epochs
  BY BatchAssumption DEF Epochs
<1> QED
  BY <1>1 DEF Idle

LEMMA EndInv == Inv /\ End => Inv'
<1> SUFFICES ASSUME Inv, End PROVE Inv'
  OBVIOUS
<1>1. /\ task' \in [status : {"queued", "completed", "drained", "refused", "dropped", "abandoned"},
                     posted : BOOLEAN, records : SUBSET Units, retries : Nat]
      /\ task'.records = task.records
  BY DEF End, Inv, Types
<1>2. Types'
  BY <1>1, IdleTypes DEF End, Inv, Types
<1> QED
  BY <1>1, <1>2, IdleInv DEF End

LEMMA CrashInv == Inv /\ Crash => Inv'
<1> SUFFICES ASSUME Inv, Crash PROVE Inv'
  OBVIOUS
<1>1. Types'
  BY IdleTypes DEF Crash, Inv, Types
<1> QED
  BY <1>1, IdleInv DEF Crash

LEMMA OutsideInv == Inv /\ (Stop \/ Sweep \/ Edit \/ UNCHANGED vars) => Inv'
<1> SUFFICES ASSUME Inv, Stop \/ Sweep \/ Edit \/ UNCHANGED vars PROVE Inv'
  OBVIOUS
<1>1. KeysApart' /\ LandedOnce' /\ UNCHANGED <<cm, landed, run>>
  BY KeysStay DEF Inv, Stop, Sweep, Edit, vars
<1>2. WalkApart'
  BY <1>1 DEF Inv, WalkApart, Walking, Key
<1>3. CASE Stop \/ Edit \/ UNCHANGED vars
  BY <1>1, <1>2, <1>3 DEF Stop, Edit, vars, Inv, Types, RunOfTask
<1>4. CASE Sweep
  BY <1>1, <1>2, <1>4 DEF Sweep, Queued, At, Inv, Types, RunOfTask
<1> QED
  BY <1>3, <1>4

LEMMA StepInv == Inv /\ [Next]_vars => Inv'
BY ClaimInv, JudgeInv, PostInv, AnsweredInv, UnansweredInv, EmitInv, EmittedInv, EndInv, CrashInv,
   OutsideInv, ResolveInv DEF Next, RunStep

-----------------------------------------------------------------------------
(* The refinement: client-manager's verdicts apply, a record is learnt, and  *)
(* the last transition completes.                                            *)
LEMMA InitRefines == Init => Once!Init
BY DEF Init, Once!Init

LEMMA ResolveRefines ==
  ASSUME Inv, NEW e \in Epochs, Resolve(e) PROVE [Once!Next]_(Once!vars)
<1>1. Key(e).status = "open" /\ UNCHANGED task
  BY DEF Resolve
<1>2. PICK S \in SUBSET Key(e).units :
        landed' = [u \in Units |-> IF u \in S THEN landed[u] + 1 ELSE landed[u]]
  BY DEF Resolve
<1>3. /\ S \subseteq Units /\ \A u \in S : landed[u] = 0
      /\ landed' = [u \in Units |-> IF u \in S THEN 1 ELSE landed[u]]
  BY <1>1, <1>2, ResolveLands
<1>4. CASE S = {}
  BY <1>1, <1>3, <1>4 DEF Once!vars, Inv, Types
<1>5. CASE S # {}
  BY <1>1, <1>3, <1>5 DEF Once!Next, Once!Apply
<1> QED
  BY <1>4, <1>5

LEMMA EmitRefines ==
  ASSUME Inv, NEW u \in Units, Emit(u) PROVE [Once!Next]_(Once!vars)
<1>1. CASE RecordJob(u)
  BY <1>1 DEF RecordJob, Once!vars
<1>2. CASE RecordUnit(u)
  <2>1. landed[u] = 1 /\ u \notin task.records
    BY <1>2 DEF RecordUnit, Pending, Inv, WalkApart
  <2>2. task'.records = task.records \cup {u} /\ task'.status = task.status /\ landed' = landed
    BY <1>2 DEF RecordUnit, Inv, Types
  <2> QED
    BY <2>1, <2>2 DEF Once!Next, Once!Learn
<1> QED
  BY <1>1, <1>2 DEF Emit

LEMMA EndRefines == Inv /\ End => [Once!Next]_(Once!vars)
<1> SUFFICES ASSUME Inv, End PROVE [Once!Next]_(Once!vars)
  OBVIOUS
<1>1. /\ task.status = "queued" /\ landed' = landed
      /\ run.result \in {"ok", "retry", "fatal"}
      /\ run.result = "ok" /\ ~run.drains => task.records = Units
  BY DEF End, At, Inv, Types, RunOfTask
<1>2. task'.records = task.records
  BY DEF End, Inv, Types
<1>3. task'.status = "completed" => ~run.drains /\ run.result = "ok"
  BY <1>1 DEF End, Retried, Inv, Types
<1>4. CASE task'.status = "completed"
  BY <1>1, <1>2, <1>3, <1>4 DEF Once!Next, Once!Complete
<1>5. CASE task'.status # "completed"
  BY <1>1, <1>2, <1>5 DEF Once!vars
<1> QED
  BY <1>4, <1>5

(* Nothing else is seen of the task.                                         *)
LEMMA OthersRefine ==
  ASSUME Inv, \/ Claim \/ Judge \/ Post \/ Answered \/ Unanswered \/ Emitted
              \/ Crash \/ Stop \/ Sweep \/ Edit \/ UNCHANGED vars
  PROVE  UNCHANGED Once!vars
<1>1. CASE Claim \/ Sweep
  BY <1>1 DEF Claim, Sweep, Queued, Inv, Types, Once!vars
<1>2. CASE Judge
  BY <1>2 DEF Judge, Inv, Types, Once!vars
<1>3. CASE Post \/ Answered \/ Unanswered \/ Emitted \/ Crash \/ Stop \/ Edit \/ UNCHANGED vars
  BY <1>3 DEF Post, Answered, Unanswered, Emitted, Crash, Stop, Edit, vars, Once!vars
<1> QED
  BY <1>1, <1>2, <1>3

LEMMA StepRefines == Inv /\ [Next]_vars => [Once!Next]_(Once!vars)
BY ResolveRefines, EmitRefines, EndRefines, OthersRefine DEF Next, RunStep

(* Through lost answers, retries under the same key, expired slots moved to  *)
(* the next epoch's, crashes between a job's row and its record, edits and   *)
(* stops, a slot gets at most one job, is recorded only with it, and the     *)
(* LIST completes only when every slot is recorded (batch.ts, list/run.ts).  *)
THEOREM ImplementsOnceEach == Spec => OnceEachSpec
<1>1. Init => Inv /\ Once!Init
  BY InitInv, InitRefines
<1>2. Inv /\ [Next]_vars => Inv' /\ [Once!Next]_(Once!vars)
  BY StepInv, StepRefines
<1> QED
  BY <1>1, <1>2, PTL DEF Spec, OnceEachSpec, Once!Spec

-----------------------------------------------------------------------------
(* What a walk asks of an epoch's key: every slot, then what the settled key *)
(* of the epoch before left.                                                 *)
Left(e) == IF e = 0 THEN Units ELSE Key(e - 1).units \ Key(e - 1).confirmed
Reached(e) == e # 0 => Key(e - 1).status = "settled"
UnitsOfKeys ==
  /\ \A e \in Epochs : Known(e) => Reached(e) /\ Key(e).units = Left(e)
  /\ At("post") => Reached(run.epoch) /\ run.pending = Left(run.epoch)
  /\ At("await") => Known(run.epoch) /\ run.pending = Key(run.epoch).units

LEMMA InitUnits == Init => UnitsOfKeys
BY DEF Init, UnitsOfKeys, Known, Key, NoKey, Idle, At

(* A step of another part of the run, or of what surrounds it.               *)
LEMMA UnitsStay ==
  ASSUME UnitsOfKeys, UNCHANGED cm, run'.pc \notin {"post", "await"} \/ run' = run
  PROVE  UnitsOfKeys'
BY DEF UnitsOfKeys, Left, Reached, Known, Key, At

LEMMA JudgeUnits == Inv /\ UnitsOfKeys /\ Judge => UnitsOfKeys'
<1> SUFFICES ASSUME Inv, UnitsOfKeys, Judge PROVE UnitsOfKeys'
  OBVIOUS
<1> DEFINE walks == run.records # Units /\ (wanted \/ task.posted)
<1>1. /\ UNCHANGED cm /\ run.epoch = 0
      /\ run' = [run EXCEPT !.drains = run.records # Units /\ ~wanted,
                             !.pc = IF walks THEN "post" ELSE "end",
                             !.pending = IF walks THEN Units ELSE {},
                             !.result = IF walks THEN "none" ELSE "ok"]
  BY DEF Judge, At, Target, Inv, WalkApart
<1>2. CASE walks
  <2>1. run'.pc = "post" /\ run'.epoch = 0 /\ run'.pending = Units
    BY <1>1, <1>2, Zenon DEF Inv, Types
  <2> QED
    BY <1>1, <2>1 DEF UnitsOfKeys, Left, Reached, Known, Key, At
<1>3. CASE ~walks
  <2>1. run'.pc = "end"
    BY <1>1, <1>3, Zenon DEF Inv, Types
  <2> QED
    BY <1>1, <2>1, UnitsStay
<1> QED
  BY <1>2, <1>3

LEMMA PostUnits == Inv /\ UnitsOfKeys /\ Post => UnitsOfKeys'
<1> SUFFICES ASSUME Inv, UnitsOfKeys, Post PROVE UnitsOfKeys'
  OBVIOUS
<1>1. PICK e \in Epochs : e = run.epoch
  BY DEF Inv, Types
<1>2. Reached(e) /\ run.pending = Left(e)
  BY <1>1 DEF Post, UnitsOfKeys
<1>3. ASSUME NEW code, Ends(code), UNCHANGED cm PROVE UnitsOfKeys'
  BY <1>3, UnitsStay DEF Ends, Inv, Types
<1>4. CASE run' = [run EXCEPT !.pc = "await"] /\ Known(e) /\ ~Mismatch(e) /\ UNCHANGED cm
  <2>1. run.pending = Key(e).units
    BY <1>4 DEF Mismatch, Payload
  <2>2. run'.pc = "await" /\ run'.epoch = e /\ run'.pending = run.pending
    BY <1>1, <1>4 DEF Inv, Types
  <2> QED
    BY <1>4, <2>1, <2>2 DEF UnitsOfKeys, Left, Reached, Known, Key, At
<1>5. CASE /\ run' = [run EXCEPT !.pc = "await"] /\ ~Known(e)
           /\ cm' = [cm EXCEPT ![e] = [status |-> "open", units |-> run.pending,
                         body |-> run.body, confirmed |-> {}]]
  <2>1. run'.pc = "await" /\ run'.epoch = e /\ run'.pending = run.pending
    BY <1>1, <1>5 DEF Inv, Types
  <2>2. /\ Key(e)'.status = "open" /\ Key(e)'.units = run.pending
        /\ \A f \in Epochs : f # e => Key(f)' = Key(f)
    BY <1>5 DEF Inv, Types, Key
  <2>3. \A f \in Epochs : e < f => ~Known(f)
    BY <1>5 DEF Inv, KeysApart, Known
  <2>4. ASSUME NEW f \in Epochs, f = e \/ Known(f)
        PROVE  (Reached(f) => Reached(f)') /\ Left(f)' = Left(f)
    <3>1. f # 0 => f - 1 \in Epochs /\ f - 1 # e
      BY <2>3, <2>4, BatchAssumption DEF Epochs
    <3>2. f # 0 => Key(f - 1)' = Key(f - 1)
      BY <2>2, <3>1
    <3> QED
      BY <3>2 DEF Reached, Left
  <2>5. ASSUME NEW f \in Epochs, Known(f)' PROVE Reached(f)' /\ Key(f)'.units = Left(f)'
    <3>1. CASE f = e
      BY <1>2, <2>2, <2>4, <3>1
    <3>2. CASE f # e
      BY <2>2, <2>4, <2>5, <3>2 DEF UnitsOfKeys, Known
    <3> QED
      BY <3>1, <3>2
  <2> QED
    BY <2>1, <2>2, <2>5 DEF UnitsOfKeys, Known, At
<1> QED
  BY <1>1, <1>3, <1>4, <1>5 DEF Post

LEMMA ResolveUnits == ASSUME Inv, UnitsOfKeys, NEW e \in Epochs, Resolve(e) PROVE UnitsOfKeys'
<1>1. /\ Key(e).status = "open" /\ run' = run
      /\ Key(e)'.status = "settled" /\ Key(e)'.units = Key(e).units
      /\ \A f \in Epochs : f # e => Key(f)' = Key(f)
  BY DEF Resolve, Inv, Types, Key
<1>2. \A f \in Epochs : Known(f)' = Known(f) /\ Key(f)'.units = Key(f).units
  BY <1>1 DEF Known
<1>3. ASSUME NEW f \in Epochs, Reached(f) PROVE Reached(f)' /\ Left(f)' = Left(f)
  <2>1. f # 0 => f - 1 \in Epochs
    BY BatchAssumption DEF Epochs
  <2>2. f # 0 => Key(f - 1)' = Key(f - 1)
    BY <1>1, <1>3, <2>1 DEF Reached
  <2> QED
    BY <1>3, <2>2 DEF Reached, Left
<1>4. run.epoch \in Epochs
  BY DEF Inv, Types
<1> QED
  BY <1>1, <1>2, <1>3, <1>4 DEF UnitsOfKeys, At

LEMMA AnsweredUnits == Inv /\ UnitsOfKeys /\ Answered => UnitsOfKeys'
<1> SUFFICES ASSUME Inv, UnitsOfKeys, Answered PROVE UnitsOfKeys'
  OBVIOUS
<1>1. PICK e \in Epochs : e = run.epoch
  BY DEF Inv, Types
<1> DEFINE expired == run.pending \ Key(e).confirmed
           more == expired # {} /\ e < MaxEpoch
<1>2. /\ Key(e).status = "settled" /\ run.pending = Key(e).units /\ UNCHANGED cm
      /\ run' = [run EXCEPT !.confirmed = @ \cup Key(e).confirmed,
                            !.pc = IF more THEN "post" ELSE "emit",
                            !.epoch = IF more THEN @ + 1 ELSE @,
                            !.pending = IF more THEN expired ELSE @,
                            !.result = IF expired = {} THEN "ok" ELSE "retry"]
  BY <1>1 DEF Answered, At, Expired, MoreEpochs, UnitsOfKeys
<1>3. CASE more
  <2>1. run'.pc = "post" /\ run'.epoch = e + 1 /\ run'.pending = expired
    BY <1>1, <1>2, <1>3, Zenon DEF Inv, Types
  <2>2. e + 1 # 0 /\ (e + 1) - 1 = e
    BY DEF Epochs
  <2> QED
    BY <1>2, <2>1, <2>2 DEF UnitsOfKeys, Left, Reached, Known, Key, At
<1>4. CASE ~more
  <2>1. run'.pc = "emit"
    BY <1>2, <1>4, Zenon DEF Inv, Types
  <2> QED
    BY <1>2, <2>1, UnitsStay
<1> QED
  BY <1>3, <1>4

LEMMA OtherUnits ==
  ASSUME Inv, UnitsOfKeys,
         \/ Claim \/ Unanswered \/ Emitted \/ End \/ Crash \/ Stop \/ Sweep \/ Edit
         \/ UNCHANGED vars \/ \E u \in Units : Emit(u)
  PROVE  UnitsOfKeys'
<1>1. CASE Claim
  BY <1>1, UnitsStay DEF Claim, Idle
<1>2. CASE Unanswered
  BY <1>2, UnitsStay DEF Unanswered, Ends, Inv, Types
<1>3. CASE Emitted
  BY <1>3, UnitsStay DEF Emitted, Inv, Types
<1>4. CASE End \/ Crash
  BY <1>4, UnitsStay DEF End, Crash, Idle
<1>5. CASE Stop \/ Sweep \/ Edit \/ UNCHANGED vars \/ \E u \in Units : Emit(u)
  BY <1>5, UnitsStay DEF Stop, Sweep, Edit, vars, Emit, RecordJob, RecordUnit
<1> QED
  BY <1>1, <1>2, <1>3, <1>4, <1>5

LEMMA StepUnits == Inv /\ UnitsOfKeys /\ [Next]_vars => UnitsOfKeys'
BY JudgeUnits, PostUnits, ResolveUnits, AnsweredUnits, OtherUnits DEF Next, RunStep

(* However often an epoch's key is posted again, by whatever run and after   *)
(* whatever was recorded meanwhile, it carries the units it carried first    *)
(* ("a given key must ALWAYS carry the same payload", batch.ts); the body    *)
(* of the units is what an edit may change.                                  *)
THEOREM SameUnits == Spec => []SameUnitsPerKey
<1>1. Inv /\ UnitsOfKeys => SameUnitsPerKey
  BY DEF Inv, Types, UnitsOfKeys, SameUnitsPerKey, At
<1>2. Init => Inv /\ UnitsOfKeys
  BY InitInv, InitUnits
<1>3. Inv /\ UnitsOfKeys /\ [Next]_vars => Inv' /\ UnitsOfKeys'
  BY StepInv, StepUnits
<1> QED
  BY <1>1, <1>2, <1>3, PTL DEF Spec

-----------------------------------------------------------------------------
(* Nothing is asked for before the task is marked as posted; a record is     *)
(* written after its job's row; and a task leaves the queue with every slot  *)
(* recorded, or spent, or without anything asked for.                        *)
Marked ==
  /\ \A e \in Epochs : Known(e) => task.posted
  /\ Walking => task.posted
Rows == task.records \subseteq rows
Verdict ==
  run.pc = "end" /\ run.result = "ok" => task.records = Units \/ ~task.posted
Ended ==
  /\ task.status \in {"completed", "drained"} => task.records = Units \/ ~task.posted
  /\ task.status = "dropped" => Spent \/ ~task.posted
Accounted == Marked /\ Rows /\ Verdict /\ Ended

LEMMA InitAccounted == Init => Accounted
BY DEF Init, Accounted, Marked, Rows, Verdict, Ended, Known, Key, NoKey, Walking, Idle

LEMMA RunAccounted ==
  Inv /\ Accounted /\ (Judge \/ Post \/ Answered \/ Unanswered \/ Emitted \/ End) => Accounted'
<1> SUFFICES ASSUME Inv, Accounted, Judge \/ Post \/ Answered \/ Unanswered \/ Emitted \/ End
             PROVE  Accounted'
  OBVIOUS
<1> USE DEF At, Accounted, Marked, Rows, Verdict, Ended, Walking, Spent, Known
<1>0. task.records \subseteq Units /\ run.records \subseteq task.records
  BY DEF Inv, Types, RunOfTask
<1>1. CASE Judge
  <2> DEFINE walks == run.records # Units /\ (wanted \/ task.posted)
  <2>1. /\ task'.records = task.records /\ task'.status = task.status /\ task'.retries = task.retries
        /\ task'.posted = (task.posted \/ walks)
        /\ run'.pc = IF walks THEN "post" ELSE "end"
        /\ UNCHANGED <<cm, rows>>
    BY <1>1, Zenon DEF Judge, Inv, Types
  <2>2. task.status = "queued"
    BY <1>1 DEF Judge, Inv, RunOfTask
  <2>3. CASE walks
    <3>1. task'.posted /\ run'.pc = "post"
      BY <2>1, <2>3, Zenon
    <3> QED
      BY <2>1, <2>2, <3>1
  <2>4. CASE ~walks
    <3>1. task'.posted = task.posted /\ run'.pc = "end"
      <4>1. task.posted \in BOOLEAN
        BY DEF Inv, Types
      <4> QED
        BY <2>1, <2>4, <4>1
    <3>2. task.records = Units \/ ~task.posted
      BY <1>0, <2>4
    <3> QED
      BY <2>1, <2>2, <3>1, <3>2 DEF Key
  <2> QED
    BY <2>3, <2>4
<1>2. CASE Post
  <2>1. task.posted /\ UNCHANGED <<task, rows>> /\ run'.pc \in {"await", "emit"}
    BY <1>2 DEF Post, Ends, Inv, Types
  <2> QED
    BY <2>1
<1>3. CASE Answered \/ Unanswered
  <2>1. task.posted /\ UNCHANGED <<task, rows, cm>> /\ run'.pc \in {"post", "emit"}
    BY <1>3 DEF Answered, Unanswered, Ends, Inv, Types
  <2> QED
    BY <2>1
<1>4. CASE Emitted
  <2>1. UNCHANGED <<task, rows, cm>> /\ run'.pc = "end" /\ run'.result = run.result
    BY <1>4 DEF Emitted, Inv, Types
  <2>2. run.result = "ok" => task.records = Units
    BY <1>0, <1>4 DEF Emitted, Pending, Inv, RunOfTask
  <2> QED
    BY <2>1, <2>2 DEF Key
<1>5. CASE End
  <2>1. /\ task'.records = task.records /\ task'.posted = task.posted
        /\ run'.pc = "idle" /\ UNCHANGED <<rows, cm>>
    BY <1>5 DEF End, Idle, Inv, Types
  <2>2. task'.status \in {"completed", "drained"} => run.result = "ok"
    BY <1>5 DEF End, Retried, Inv, Types, RunOfTask
  <2>3. task'.status # "dropped"
    BY <1>5 DEF End, Inv, Types, RunOfTask
  <2> QED
    BY <1>5, <2>1, <2>2, <2>3 DEF End, Key
<1> QED
  BY <1>1, <1>2, <1>3, <1>4, <1>5

LEMMA OtherAccounted ==
  ASSUME Inv, Accounted,
         \/ Claim \/ Crash \/ Stop \/ Sweep \/ Edit \/ UNCHANGED vars
         \/ \E e \in Epochs : Resolve(e)
         \/ \E u \in Units : Emit(u)
  PROVE  Accounted'
<1> USE DEF At, Accounted, Marked, Rows, Verdict, Ended, Walking, Spent, Known, Key
<1>1. CASE Claim
  <2>1. /\ task'.records = task.records /\ task'.posted = task.posted /\ task'.retries = task.retries
        /\ run' = run \/ run'.pc = "judge"
        /\ UNCHANGED <<rows, cm>>
    BY <1>1 DEF Claim, Idle, Inv, Types
  <2>2. task'.status \in {"completed", "drained"} => task'.status = task.status
    BY <1>1 DEF Claim, Queued, Inv, Types
  <2>3. task'.status = "dropped" => Spent \/ ~task.posted
    BY <1>1 DEF Claim, Queued, MayHavePosted, Inv, Types
  <2> QED
    BY <2>1, <2>2, <2>3
<1>2. CASE Crash
  BY <1>2 DEF Crash, Idle
<1>3. CASE Stop \/ Edit \/ UNCHANGED vars
  BY <1>3 DEF Stop, Edit, vars
<1>4. CASE Sweep
  BY <1>4 DEF Sweep, Queued, MayHavePosted, Inv, Types
<1>5. ASSUME NEW e \in Epochs, Resolve(e) PROVE Accounted'
  <2>1. /\ UNCHANGED <<task, rows, run>> /\ cm[e].status # "none"
        /\ \A f \in Epochs : f # e => cm'[f] = cm[f]
    BY <1>5 DEF Resolve, Inv, Types
  <2> QED
    BY <2>1
<1>6. ASSUME NEW u \in Units, Emit(u) PROVE Accounted'
  <2>1. CASE RecordJob(u)
    BY <2>1 DEF RecordJob
  <2>2. CASE RecordUnit(u)
    BY <2>2 DEF RecordUnit, Inv, Types, RunOfTask
  <2> QED
    BY <1>6, <2>1, <2>2 DEF Emit
<1> QED
  BY <1>1, <1>2, <1>3, <1>4, <1>5, <1>6

LEMMA StepAccounted == Inv /\ Accounted /\ [Next]_vars => Accounted'
BY RunAccounted, OtherAccounted DEF Next, RunStep

(* A job that landed for a LIST has its row, or the task that will ask for   *)
(* it again is still queued, or was given up as spent or refused: neither a  *)
(* sweep, an unwanted verdict nor a completion loses one (wanted.ts,         *)
(* stop/run.ts, workerChannel.ts).                                           *)
THEOREM LandedKept == Spec => []NothingForgotten
<1>1. Inv /\ Accounted => NothingForgotten
  <2> SUFFICES ASSUME Inv, Accounted, NEW u \in Forgotten PROVE NothingForgotten
    BY DEF NothingForgotten
  <2>1. u \in Units /\ landed[u] > 0 /\ u \notin rows
    BY DEF Forgotten
  <2>2. PICK e \in Epochs : u \in Key(e).confirmed
    BY <2>1 DEF Inv, LandedOnce, Confirmed
  <2>3. Known(e)
    BY <2>2 DEF Inv, KeysApart, Known
  <2>4. task.posted /\ task.records # Units
    BY <2>1, <2>3 DEF Accounted, Marked, Rows
  <2> QED
    BY <2>4 DEF NothingForgotten, Accounted, Ended, Inv, Types
<1>2. Init => Inv /\ Accounted
  BY InitInv, InitAccounted
<1>3. Inv /\ Accounted /\ [Next]_vars => Inv' /\ Accounted'
  BY StepInv, StepAccounted
<1> QED
  BY <1>1, <1>2, <1>3, PTL DEF Spec
=============================================================================
