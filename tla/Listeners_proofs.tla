-------------------------- MODULE Listeners_proofs --------------------------
(****************************************************************************)
(* Theorems about what listeners are told and what they do about it, for    *)
(* any number of processes, rows, events and faults.  ChangeStream: the     *)
(* worker misses an event for a named cause only, and the clients of a      *)
(* stream that delivered everything see the document as it is.  Infinite:   *)
(* the callbacks of starting and ending jobs lose no slot, but to a round   *)
(* that takes the refill of another.                                        *)
(****************************************************************************)
EXTENDS ChangeStream, Infinite, FiniteSetTheorems, FunctionTheorems, TLAPS

-----------------------------------------------------------------------------
(* ChangeStream: what the worker has done with an event.                    *)

Types ==
  /\ written \in Nat /\ reach \in Nat
  /\ saved \in Nat \union {None}
  /\ up \in [Procs -> {"down", "reading", "resuming", "open", "failed"}]
  /\ pos \in [Procs -> Nat] /\ ckpt \in [Procs -> Nat \union {None}]
  /\ busy \subseteq Nat
  /\ lost \in [Causes -> SUBSET Nat]

(* The worker has done with an event: it handles it, did, or never will.     *)
Seen == handled \union busy \union Lost
Passed(n) == After(0, n) \subseteq Seen

(* So it has with all it ever reached, with what an open stream delivered to *)
(* it, with what it will resume after, and with what it saved.               *)
Covered ==
  /\ Passed(reach)
  /\ up[Worker] = "open" => Passed(pos[Worker])
  /\ up[Worker] = "resuming" /\ ckpt[Worker] # None => Passed(ckpt[Worker])
  /\ saved # None /\ savedBy = Worker => Passed(saved)

LEMMA Api == Worker \in Procs /\ \A a \in Apis : a \in Procs /\ a # Worker
BY WorkerIsNoApi DEF Procs

LEMMA MaxOfTwo ==
  ASSUME NEW a \in Nat, NEW b \in Nat
  PROVE  Max({a, b}) \in Nat /\ (Max({a, b}) = a \/ Max({a, b}) = b)
<1>1. \E x \in {a, b} : \A y \in {a, b} : x >= y
  OBVIOUS
<1>2. Max({a, b}) \in {a, b}
  BY <1>1, Zenon DEF Max
<1> QED
  BY <1>2

(* What is blamed on a cause is lost, with what was.                         *)
LEMMA BlameAdds ==
  ASSUME Types, NEW c \in Causes, NEW S \in SUBSET Nat, lost' = Blame(c, S)
  PROVE  lost' \in [Causes -> SUBSET Nat] /\ Lost' = Lost \union S
<1>1. \A d \in Causes : lost'[d] = IF d = c THEN lost[d] \union S ELSE lost[d]
  BY DEF Blame, Types
<1>2. \A e : e \in Lost' <=> \E d \in Causes : e \in lost'[d]
  BY DEF Lost
<1>3. \A e : e \in Lost <=> \E d \in Causes : e \in lost[d]
  BY DEF Lost
<1>4. \A e : e \in Lost' <=> e \in Lost \/ e \in S
  BY <1>1, <1>2, <1>3
<1> QED
  BY <1>4 DEF Blame, Types

LEMMA AfterIsEvents == \A i, j : After(i, j) \in SUBSET Nat
BY StreamAssumption DEF After, Events

LEMMA InitCovered == Init => Types /\ Covered
<1> SUFFICES ASSUME Init PROVE Types /\ Covered
  OBVIOUS
<1>1. After(0, 0) = {}
  BY DEF After, Events
<1> QED
  BY <1>1, Api DEF Init, Types, Covered, Passed, Causes

(* A step that leaves what the worker reads as it was, or ends its stream,   *)
(* and that saves at most what the worker was delivered.                     *)
LEMMA Frame ==
  ASSUME Covered, Seen \subseteq Seen', UNCHANGED reach,
         \/ up'[Worker] = up[Worker] /\ pos'[Worker] = pos[Worker] /\ ckpt'[Worker] = ckpt[Worker]
         \/ up'[Worker] \in {"down", "reading", "failed"},
         \/ UNCHANGED <<saved, savedBy>>
         \/ saved' = None
         \/ savedBy' # Worker
         \/ savedBy' = Worker /\ up[Worker] = "open" /\ saved' = pos[Worker]
  PROVE  Covered'
BY DEF Covered, Passed, After

(* Halt and SaveMoved, of whichever process.                                 *)
LEMMA HaltKeeps ==
  ASSUME Types, NEW p \in Procs, NEW s \in {"down", "reading", "failed"}, Halt(p, s)
  PROVE  /\ up' \in [Procs -> {"down", "reading", "resuming", "open", "failed"}]
         /\ pos' \in [Procs -> Nat] /\ ckpt' \in [Procs -> Nat \union {None}]
         /\ \/ up'[Worker] = up[Worker] /\ pos'[Worker] = pos[Worker] /\ ckpt'[Worker] = ckpt[Worker]
            \/ up'[Worker] \in {"down", "reading", "failed"}
BY Api DEF Halt, Types

LEMMA SaveKeeps ==
  ASSUME Types, NEW p \in Procs, up[p] = "open", SaveMoved(p)
  PROVE  /\ saved' \in Nat \union {None}
         /\ \/ UNCHANGED <<saved, savedBy>>
            \/ savedBy' # Worker
            \/ savedBy' = Worker /\ up[Worker] = "open" /\ saved' = pos[Worker]
BY DEF SaveMoved, Token, Types

(* Steps that leave the worker's work alone.                                 *)
LEMMA ReadingSteps ==
  ASSUME Types, Covered, NEW p \in Procs,
         \/ Start(p) \/ Resume(p) \/ PositionGone(p) \/ QuietStreamFails(p) \/ Checkpoint(p)
  PROVE  Types' /\ Covered'
<1>1. UNCHANGED <<written, busy, reach, handled, lost>> /\ Seen' = Seen
  BY DEF Start, Resume, PositionGone, QuietStreamFails, Checkpoint, RestartFromNow, store, work, Seen, Lost
<1>2. CASE Start(p)
  <2>1. Halt(p, "reading") /\ UNCHANGED <<saved, savedBy>>
    BY <1>2 DEF Start, store
  <2> QED
    BY <1>1, <2>1, HaltKeeps, Frame DEF Types
<1>3. CASE PositionGone(p) \/ QuietStreamFails(p)
  <2>1. Halt(p, "reading") /\ saved' = None
    BY <1>3 DEF PositionGone, QuietStreamFails, RestartFromNow
  <2> QED
    BY <1>1, <2>1, HaltKeeps, Frame DEF Types
<1>4. CASE Resume(p)
  <2>1. /\ up' = [up EXCEPT ![p] = "open"] /\ pos' = [pos EXCEPT ![p] = ckpt[p]]
        /\ up[p] = "resuming" /\ ckpt[p] # None /\ UNCHANGED <<ckpt, saved, savedBy>>
    BY <1>4 DEF Resume, store
  <2>2. Types'
    BY <1>1, <2>1 DEF Types
  <2>3. CASE p = Worker
    BY <1>1, <2>1, <2>3 DEF Types, Covered, Passed, After
  <2>4. CASE p # Worker
    BY <1>1, <2>1, <2>4, Api, Frame DEF Types
  <2> QED
    BY <2>2, <2>3, <2>4
<1>5. CASE Checkpoint(p)
  <2>1. /\ up[p] = "open" /\ SaveMoved(p) /\ ckpt' = [ckpt EXCEPT ![p] = pos[p]]
        /\ UNCHANGED <<up, pos>>
    BY <1>5 DEF Checkpoint, Token
  <2>2. Types'
    BY <1>1, <2>1, SaveKeeps DEF Types
  <2>3. CASE p = Worker
    BY <1>1, <2>1, <2>3, SaveKeeps, Api DEF Types, Covered, Passed, After
  <2>4. CASE p # Worker
    BY <1>1, <2>1, <2>4, SaveKeeps, Api, Frame DEF Types
  <2> QED
    BY <2>2, <2>3, <2>4
<1> QED
  BY <1>2, <1>3, <1>4, <1>5

(* The position the worker reads: its own, or one blamed as overtaken.       *)
LEMMA ReadSteps == ASSUME Types, Covered, NEW p \in Procs, ReadPosition(p) PROVE Types' /\ Covered'
<1>1. /\ up' = [up EXCEPT ![p] = "resuming"] /\ ckpt' = [ckpt EXCEPT ![p] = saved]
      /\ UNCHANGED <<pos, written, saved, savedBy, busy, reach, handled>>
  BY DEF ReadPosition, store
<1>2. CASE p = Worker /\ saved # None /\ savedBy # Worker
  <2>1. lost' = Blame("overtaken", After(reach, saved))
    BY <1>2 DEF ReadPosition
  <2>2. lost' \in [Causes -> SUBSET Nat] /\ Lost' = Lost \union After(reach, saved)
    BY <2>1, BlameAdds, AfterIsEvents DEF Causes
  <2>3. After(0, saved) \subseteq After(0, reach) \union After(reach, saved)
    BY <1>2 DEF After, Events, Types
  <2>4. Types'
    BY <1>1, <2>2 DEF Types
  <2>5. Seen' = Seen \union After(reach, saved)
    BY <1>1, <2>2 DEF Seen
  <2> QED
    BY <1>1, <1>2, <2>3, <2>4, <2>5, Api DEF Types, Covered, Passed, After
<1>3. CASE ~(p = Worker /\ saved # None /\ savedBy # Worker)
  <2>1. UNCHANGED lost /\ Seen' = Seen
    BY <1>1, <1>3 DEF ReadPosition, Seen, Lost
  <2>2. Types'
    BY <1>1, <2>1 DEF Types
  <2>3. CASE p = Worker
    BY <1>1, <1>3, <2>1, <2>3, Api DEF Types, Covered, Passed, After
  <2>4. CASE p # Worker
    BY <1>1, <2>1, <2>4, Api, Frame DEF Types
  <2> QED
    BY <2>2, <2>3, <2>4
<1> QED
  BY <1>2, <1>3

LEMMA FromNowSteps == ASSUME Types, Covered, NEW p \in Procs, WatchFromNow(p) PROVE Types' /\ Covered'
<1>1. /\ up' = [up EXCEPT ![p] = "open"] /\ pos' = [pos EXCEPT ![p] = written]
      /\ UNCHANGED <<ckpt, written, saved, savedBy, busy, handled>>
  BY DEF WatchFromNow, store
<1>2. CASE p = Worker
  <2>1. lost' = Blame("dropped", After(reach, written)) /\ reach' = Max({reach, written})
    BY <1>2 DEF WatchFromNow
  <2>2. lost' \in [Causes -> SUBSET Nat] /\ Lost' = Lost \union After(reach, written)
    BY <2>1, BlameAdds, AfterIsEvents DEF Causes
  <2>3. After(0, written) \subseteq After(0, reach) \union After(reach, written)
    BY DEF After, Events, Types
  <2>4. reach' \in Nat /\ (reach' = reach \/ reach' = written)
    BY <2>1, MaxOfTwo DEF Types
  <2>5. Types'
    BY <1>1, <2>2, <2>4 DEF Types
  <2>6. Seen' = Seen \union After(reach, written)
    BY <1>1, <2>2 DEF Seen
  <2> QED
    BY <1>1, <1>2, <2>3, <2>4, <2>5, <2>6, Api DEF Types, Covered, Passed, After
<1>3. CASE p # Worker
  <2>1. UNCHANGED <<reach, lost>> /\ Seen' = Seen
    BY <1>1, <1>3 DEF WatchFromNow, Seen, Lost
  <2>2. Types'
    BY <1>1, <2>1 DEF Types
  <2> QED
    BY <1>1, <1>3, <2>1, <2>2, Api, Frame DEF Types
<1> QED
  BY <1>2, <1>3

LEMMA DeliverSteps == Types /\ Covered /\ DeliverToWorker => Types' /\ Covered'
<1> SUFFICES ASSUME Types, Covered, DeliverToWorker PROVE Types' /\ Covered'
  OBVIOUS
<1> DEFINE e == pos[Worker] + 1
<1>1. /\ up[Worker] = "open" /\ pos' = [pos EXCEPT ![Worker] = e]
      /\ busy' = busy \union {e} /\ reach' = Max({reach, e})
      /\ UNCHANGED <<up, ckpt, written, saved, savedBy, handled, lost>>
      /\ pos[Worker] < written
  BY Api DEF DeliverToWorker, Advance, store, Types
<1>2. UNCHANGED Lost /\ Seen' = Seen \union {e}
  BY <1>1 DEF Seen, Lost
<1>3. e \in Nat /\ reach' \in Nat /\ (reach' = reach \/ reach' = e)
  BY <1>1, MaxOfTwo, Api DEF Types
<1>4. After(0, e) \subseteq After(0, pos[Worker]) \union {e}
  BY <1>3, Api DEF After, Events, Types
<1>5. Types'
  BY <1>1, <1>3 DEF Types
<1>6. Passed(pos[Worker])
  BY <1>1 DEF Covered
<1>7. After(0, e) \subseteq Seen'
  BY <1>2, <1>4, <1>6 DEF Passed
<1>8. pos'[Worker] = e
  BY <1>1, Api DEF Types
<1>9. \A n : After(0, n)' = After(0, n)
  BY DEF After
<1> HIDE DEF e
<1> QED
  BY <1>1, <1>2, <1>3, <1>5, <1>7, <1>8, <1>9 DEF Covered, Passed

(* A callback ends: its event is handled, or lost by its failure.            *)
LEMMA CallbackSteps ==
  ASSUME Types, Covered, NEW e \in Events, CallbackDone(e) \/ CallbackFails(e)
  PROVE  Types' /\ Covered'
<1>1. /\ UNCHANGED <<written, saved, savedBy, up, pos, ckpt, reach>>
      /\ e \in busy /\ busy' = busy \ {e}
  BY DEF CallbackDone, CallbackFails, store, reading
<1>2. CASE CallbackDone(e)
  <2>1. handled' = handled \union {e} /\ lost' = [c \in Causes |-> lost[c] \ {e}]
    BY <1>2 DEF CallbackDone
  <2>2. Types'
    BY <1>1, <2>1 DEF Types
  <2>3. Lost \subseteq Lost' \union {e}
    BY <2>1 DEF Lost
  <2>4. Seen \subseteq Seen'
    BY <1>1, <2>1, <2>3 DEF Seen
  <2> QED
    BY <1>1, <2>2, <2>4, Frame
<1>3. CASE CallbackFails(e)
  <2>1. lost' = Blame("failed", {e} \ handled) /\ UNCHANGED handled
    BY <1>3 DEF CallbackFails
  <2>2. {e} \ handled \in SUBSET Nat
    BY <1>1 DEF Types
  <2>3. lost' \in [Causes -> SUBSET Nat] /\ Lost' = Lost \union ({e} \ handled)
    BY <2>1, <2>2, BlameAdds DEF Causes
  <2>4. Types'
    BY <1>1, <2>3 DEF Types
  <2>5. Seen \subseteq Seen'
    BY <1>1, <2>1, <2>3 DEF Seen
  <2> QED
    BY <1>1, <2>4, <2>5, Frame
<1> QED
  BY <1>2, <1>3

(* The worker's process ends: what it was busy with is lost, as cut short.   *)
LEMMA EndSteps == Types /\ Covered /\ (WorkerCrashes \/ WorkerStops) => Types' /\ Covered'
<1> SUFFICES ASSUME Types, Covered, WorkerCrashes \/ WorkerStops PROVE Types' /\ Covered'
  OBVIOUS
<1>1. /\ Halt(Worker, "down") /\ busy' = {} /\ lost' = Blame("cut", busy \ handled)
      /\ UNCHANGED <<written, reach, handled>>
  BY DEF WorkerCrashes, WorkerStops, EndWorker
<1>2. \/ UNCHANGED <<saved, savedBy>>
      \/ up[Worker] = "open" /\ SaveMoved(Worker)
  BY DEF WorkerCrashes, WorkerStops
<1>3. busy \ handled \in SUBSET Nat
  BY DEF Types
<1>4. lost' \in [Causes -> SUBSET Nat] /\ Lost' = Lost \union (busy \ handled)
  BY <1>1, <1>3, BlameAdds DEF Causes
<1>5. Seen \subseteq Seen'
  BY <1>1, <1>4 DEF Seen
<1>6. /\ saved' \in Nat \union {None}
      /\ \/ UNCHANGED <<saved, savedBy>>
         \/ savedBy' # Worker
         \/ savedBy' = Worker /\ up[Worker] = "open" /\ saved' = pos[Worker]
  BY <1>2, SaveKeeps, Api DEF Types
<1>7. Types'
  BY <1>1, <1>4, <1>6, HaltKeeps, Api DEF Types
<1> QED
  BY <1>1, <1>5, <1>6, <1>7, HaltKeeps, Api, Frame

(* A replica's steps may move the saved position, but not as the worker.     *)
LEMMA ApiSteps ==
  ASSUME Types, Covered, NEW a \in Apis,
         \/ DeliverToApi(a) \/ StreamFails(a) \/ Reopen(a)
         \/ PreClose(a) \/ OnClose(a) \/ ApiCrashes(a) \/ ForceExit(a)
  PROVE  Types' /\ Covered'
<1>1. UNCHANGED <<written, busy, reach, handled, lost>> /\ Seen' = Seen
  BY DEF DeliverToApi, StreamFails, Reopen, PreClose, OnClose, ApiCrashes, ForceExit,
         EndApi, store, work, Seen, Lost
<1>2. a \in Procs /\ a # Worker
  BY Api
<1>3. CASE DeliverToApi(a)
  <2>1. pos' = [pos EXCEPT ![a] = @ + 1] /\ UNCHANGED <<up, ckpt, saved, savedBy>>
    BY <1>3 DEF DeliverToApi, Advance, store
  <2>2. Types'
    BY <1>1, <1>2, <2>1 DEF Types
  <2>3. pos'[Worker] = pos[Worker]
    BY <1>2, <2>1, Api DEF Types
  <2> QED
    BY <1>1, <2>1, <2>2, <2>3, Frame
<1>4. CASE PreClose(a)
  <2>1. UNCHANGED <<up, pos, ckpt, saved, savedBy>>
    BY <1>4 DEF PreClose, store, reading
  <2> QED
    BY <1>1, <2>1, Frame DEF Types
<1>5. CASE StreamFails(a) \/ Reopen(a) \/ OnClose(a) \/ ApiCrashes(a) \/ ForceExit(a)
  <2>1. /\ \E s \in {"down", "reading", "failed"} : Halt(a, s)
        /\ UNCHANGED <<saved, savedBy>> \/ (up[a] = "open" /\ SaveMoved(a))
    BY <1>5 DEF StreamFails, Reopen, OnClose, ApiCrashes, ForceExit, EndApi, store
  <2>2. /\ saved' \in Nat \union {None}
        /\ \/ UNCHANGED <<saved, savedBy>>
           \/ savedBy' # Worker
           \/ savedBy' = Worker /\ up[Worker] = "open" /\ saved' = pos[Worker]
    BY <1>2, <2>1, SaveKeeps DEF Types
  <2>3. /\ up' \in [Procs -> {"down", "reading", "resuming", "open", "failed"}]
        /\ pos' \in [Procs -> Nat] /\ ckpt' \in [Procs -> Nat \union {None}]
        /\ \/ up'[Worker] = up[Worker] /\ pos'[Worker] = pos[Worker] /\ ckpt'[Worker] = ckpt[Worker]
           \/ up'[Worker] \in {"down", "reading", "failed"}
    BY <1>2, <2>1, HaltKeeps
  <2>4. Types'
    BY <1>1, <2>2, <2>3 DEF Types
  <2> QED
    BY <1>1, <2>2, <2>3, <2>4, Frame
<1> QED
  BY <1>3, <1>4, <1>5

(* The collection's steps and the clients' concern neither.                  *)
LEMMA OtherSteps ==
  ASSUME Types, Covered,
         \/ Write \/ Expire \/ UNCHANGED vars
         \/ \E k \in Conns : Connect(k) \/ GiveUp(k) \/ Subscribe(k) \/ Leave(k) \/ LateClose(k)
  PROVE  Types' /\ Covered'
<1>1. UNCHANGED <<saved, savedBy, up, pos, ckpt, busy, reach, handled, lost>>
  BY DEF Write, Expire, vars, Connect, GiveUp, Subscribe, Leave, LateClose, store, work, reading
<1>2. written' = written \/ written' = written + 1
  BY Zenon DEF Write, Expire, vars, Connect, GiveUp, Subscribe, Leave, LateClose, store
<1>3. Seen' = Seen
  BY <1>1 DEF Seen, Lost
<1> QED
  BY <1>1, <1>2, <1>3, Frame DEF Types

LEMMA StepCovered == Types /\ Covered /\ [Next]_vars => Types' /\ Covered'
BY Api, ReadingSteps, ReadSteps, FromNowSteps, DeliverSteps, CallbackSteps, EndSteps,
   ApiSteps, OtherSteps DEF Next

(* An event the worker passed over is being handled, was handled, or was     *)
(* lost because its callback was cut short or failed, because a replica      *)
(* saved a position beyond it (checkpoint, under the key all listeners of a  *)
(* collection share), or because there was no position to resume after:      *)
(* there is no fifth way through crashes, restarts and expired positions.    *)
THEOREM MissedForACause == Spec => []NothingMissed
<1>1. Covered => NothingMissed
  BY DEF Covered, Passed, Seen, NothingMissed, WillResumeAfter
<1> QED
  BY <1>1, InitCovered, StepCovered, PTL DEF Spec

-----------------------------------------------------------------------------
(* The clients.                                                              *)

Failed == {a \in Apis : up[a] = "failed"}

SseTypes ==
  /\ conn \in [Conns -> {"none", "looking", "open"}]
  /\ view \in [Conns -> Nat] /\ member \in [Conns -> Nat] /\ entry \in [Apis -> Nat]
  /\ ended \in [Conns -> SUBSET Nat]
  /\ faults \in 0..MaxFaults

(* Every set a late `close` may still name was ended by a fault of its own:  *)
(* by a shutdown, or by the failure of the stream.                           *)
Named ==
  \E E \in SUBSET Nat :
    /\ IsFiniteSet(E) /\ Cardinality(E) + Cardinality(Failed) <= faults
    /\ \A k \in Conns : ended[k] \subseteq E

(* An open connection is in the set its replica's map leads to.              *)
Joined == \A k \in Conns : conn[k] = "open" => member[k] = entry[ApiOf[k]] /\ member[k] # 0

(* It was shown at least what its stream delivered, or the stream is about   *)
(* to be opened anew, which closes it.                                       *)
HeardBy(k) ==
  /\ view[k] <= written
  /\ conn[k] = "open" /\ k \notin blind =>
       \/ up[ApiOf[k]] = "failed"
       \/ up[ApiOf[k]] = "open" /\ pos[ApiOf[k]] <= view[k]
Heard == \A k \in Conns : HeardBy(k)

SseInv == Types /\ Covered /\ SseTypes /\ Named /\ Joined /\ Heard

LEMMA ApiOfType == \A k \in Conns : ApiOf[k] \in Apis /\ ApiOf[k] \in Procs
BY StreamAssumption DEF Procs

LEMMA InitSse == Init => SseInv
<1> SUFFICES ASSUME Init PROVE SseInv
  OBVIOUS
<1>1. Named
  <2>1. Failed = {}
    BY Api DEF Init, Failed
  <2>2. /\ {} \in SUBSET Nat /\ IsFiniteSet({}) /\ Cardinality({}) + Cardinality(Failed) <= faults
        /\ \A k \in Conns : ended[k] \subseteq {}
    BY <2>1, FS_EmptySet DEF Init
  <2> QED
    BY <2>2, Zenon DEF Named
<1>2. Types /\ Covered
  BY InitCovered
<1>3. SseTypes /\ Joined /\ Heard
  BY StreamAssumption DEF Init, SseTypes, Joined, Heard, HeardBy
<1> QED
  BY <1>1, <1>2, <1>3 DEF SseInv

LEMMA FailedFinite == IsFiniteSet(Failed) /\ Cardinality(Failed) \in Nat
<1>1. Failed \in SUBSET Apis
  BY DEF Failed
<1> QED
  BY <1>1, FS_Subset, FS_CardinalityType, StreamAssumption

(* A set for a new listener is another one than those in use: there are at   *)
(* most as many of these as clients and faults.                              *)
LEMMA NewSetIsNew == ASSUME SseInv PROVE NewSet \in Sets
<1>1. PICK E \in SUBSET Nat :
        /\ IsFiniteSet(E) /\ Cardinality(E) + Cardinality(Failed) <= faults
        /\ \A k \in Conns : ended[k] \subseteq E
  BY DEF SseInv, Named
<1> DEFINE R == Range(member)
           U == R \union E
<1>2. IsFiniteSet(R) /\ Cardinality(R) <= Cardinality(Conns) /\ \A j \in Conns : member[j] \in R
  <2>1. member \in Surjection(Conns, R)
    BY Fun_RangeProperties DEF SseInv, SseTypes
  <2>2. \A j \in Conns : member[j] \in R
    BY DEF SseInv, SseTypes, Range
  <2> QED
    BY <2>1, <2>2, FS_Surjection, StreamAssumption
<1>3. /\ Cardinality(Conns) \in Nat /\ Cardinality(E) \in Nat /\ Cardinality(R) \in Nat
      /\ Cardinality(Failed) \in Nat /\ faults <= MaxFaults /\ faults \in Nat /\ MaxFaults \in Nat
  BY <1>1, <1>2, FS_CardinalityType, FailedFinite, StreamAssumption DEF SseInv, SseTypes
<1> HIDE DEF R
<1>4. IsFiniteSet(U) /\ Cardinality(U) <= Cardinality(Conns) + MaxFaults
  <2>1. /\ IsFiniteSet(U)
        /\ Cardinality(U) = Cardinality(R) + Cardinality(E) - Cardinality(R \cap E)
    BY <1>1, <1>2, FS_Union
  <2>2. Cardinality(R \cap E) \in Nat
    BY <1>2, FS_Intersection, FS_CardinalityType
  <2> QED
    BY <1>1, <1>2, <1>3, <2>1, <2>2
<1>5. Cardinality(Sets) = Cardinality(Conns) + MaxFaults + 1
  BY <1>3, FS_Interval DEF Sets
<1> HIDE DEF U
<1>6. Cardinality(U) \in Nat
  BY <1>4, FS_CardinalityType
<1>7. ~(Sets \subseteq U)
  BY <1>3, <1>4, <1>5, <1>6, FS_Subset
<1>8. PICK s \in Sets : s \notin U
  BY <1>7
<1>9. \A j \in Conns : member[j] # s /\ s \notin ended[j]
  BY <1>1, <1>2, <1>8 DEF U
<1> QED
  BY <1>8, <1>9 DEF NewSet

(* A step that ends no set and lets no stream fail.                          *)
LEMMA NamedStays ==
  ASSUME SseInv, Failed' \subseteq Failed, \A k \in Conns : ended'[k] \subseteq ended[k],
         faults' = faults \/ Fault
  PROVE  Named' /\ faults' \in 0..MaxFaults
<1>1. PICK E \in SUBSET Nat :
        /\ IsFiniteSet(E) /\ Cardinality(E) + Cardinality(Failed) <= faults
        /\ \A k \in Conns : ended[k] \subseteq E
  BY DEF SseInv, Named
<1>2. Cardinality(Failed)' \in Nat /\ Cardinality(Failed)' <= Cardinality(Failed)
  <2>1. Cardinality(Failed') <= Cardinality(Failed) /\ IsFiniteSet(Failed')
    BY FailedFinite, FS_Subset
  <2>2. Cardinality(Failed') \in Nat
    BY <2>1, FS_CardinalityType
  <2> QED
    BY <2>1, <2>2
<1>3. faults' \in 0..MaxFaults /\ faults \in Nat /\ faults' >= faults
  BY StreamAssumption DEF SseInv, SseTypes, Fault
<1>4. Cardinality(E) \in Nat /\ Cardinality(Failed) \in Nat
  BY <1>1, FS_CardinalityType, FailedFinite
<1>5. Cardinality(E) + Cardinality(Failed)' <= faults'
  BY <1>1, <1>2, <1>3, <1>4
<1>6. \A k \in Conns : ended'[k] \subseteq E
  BY <1>1
<1> QED
  BY <1>1, <1>3, <1>5, <1>6, Zenon DEF Named

(* A process's own reading: its clients hear on, or are blind, or were.      *)
LEMMA ReaderKeeps ==
  ASSUME SseInv, Types', NEW p \in Procs,
         UNCHANGED <<written, conn, view, member, entry, ended>>, blind \subseteq blind',
         faults' = faults \/ Fault,
         \A q \in Procs \ {p} : up'[q] = up[q] /\ pos'[q] = pos[q],
         p \in Apis => \/ up'[p] = up[p] /\ pos'[p] = pos[p]
                       \/ up'[p] # "failed" /\ up[p] \notin {"open", "failed"}
                       \/ up'[p] # "failed" /\ \A k \in Of(p) : conn[k] = "open" => k \in blind'
  PROVE  SseTypes' /\ Named' /\ Joined' /\ Heard'
<1>1. Failed' \subseteq Failed
  BY Api DEF Failed
<1>2. Named' /\ faults' \in 0..MaxFaults
  BY <1>1, NamedStays
<1>3. SseTypes'
  BY <1>2 DEF SseInv, SseTypes
<1>4. Joined'
  BY DEF SseInv, Joined
<1>5. ASSUME NEW k \in Conns PROVE HeardBy(k)'
  <2>1. HeardBy(k) /\ ApiOf[k] \in Apis /\ ApiOf[k] \in Procs
    BY ApiOfType DEF SseInv, Heard
  <2>2. CASE ApiOf[k] # p
    BY <2>1, <2>2 DEF HeardBy
  <2>3. CASE ApiOf[k] = p
    <3>1. k \in Of(p)
      BY <2>3 DEF Of
    <3> QED
      BY <2>1, <2>3, <3>1 DEF HeardBy
  <2> QED
    BY <2>2, <2>3
<1> QED
  BY <1>2, <1>3, <1>4, <1>5 DEF Heard

LEMMA ReaderSse ==
  ASSUME SseInv, Types', NEW p \in Procs,
         \/ Start(p) \/ ReadPosition(p) \/ Resume(p) \/ WatchFromNow(p)
         \/ PositionGone(p) \/ QuietStreamFails(p) \/ Checkpoint(p)
  PROVE  SseTypes' /\ Named' /\ Joined' /\ Heard'
<1>0. Types
  BY DEF SseInv
<1>1. CASE Start(p) \/ ReadPosition(p) \/ Resume(p) \/ WatchFromNow(p) \/ Checkpoint(p)
  <2>1. UNCHANGED <<written, conn, view, member, entry, ended, blind, faults>>
    BY <1>1 DEF Start, ReadPosition, Resume, WatchFromNow, Checkpoint, store, sse
  <2>2. /\ \A q \in Procs \ {p} : up'[q] = up[q] /\ pos'[q] = pos[q]
        /\ \/ up'[p] = up[p] /\ pos'[p] = pos[p]
           \/ up'[p] # "failed" /\ up[p] \notin {"open", "failed"}
    BY <1>0, <1>1 DEF Start, ReadPosition, Resume, WatchFromNow, Checkpoint, Halt, Types
  <2> QED
    BY <2>1, <2>2, ReaderKeeps
<1>2. CASE PositionGone(p) \/ QuietStreamFails(p)
  <2>1. RestartFromNow(p) /\ (faults' = faults \/ Fault)
    BY <1>2 DEF PositionGone, QuietStreamFails
  <2>2. UNCHANGED <<written, conn, view, member, entry, ended>> /\ blind \subseteq blind'
    BY <2>1 DEF RestartFromNow
  <2>3. \A k \in Of(p) : conn[k] = "open" => k \in blind'
    BY <2>1 DEF RestartFromNow, Of
  <2>4. up'[p] # "failed" /\ \A q \in Procs \ {p} : up'[q] = up[q] /\ pos'[q] = pos[q]
    BY <1>0, <2>1 DEF RestartFromNow, Halt, Types
  <2> QED
    BY <2>1, <2>2, <2>3, <2>4, ReaderKeeps
<1> QED
  BY <1>1, <1>2

(* The worker reads for itself.                                              *)
LEMMA WorkerSse ==
  ASSUME SseInv, Types', DeliverToWorker \/ WorkerCrashes \/ WorkerStops
  PROVE  SseTypes' /\ Named' /\ Joined' /\ Heard'
<1>1. UNCHANGED <<written, conn, view, member, entry, ended, blind>> /\ (faults' = faults \/ Fault)
  BY DEF DeliverToWorker, WorkerCrashes, WorkerStops, EndWorker, store, sse
<1>2. \A q \in Procs \ {Worker} : up'[q] = up[q] /\ pos'[q] = pos[q]
  BY DEF DeliverToWorker, WorkerCrashes, WorkerStops, EndWorker, Advance, Halt, SseInv, Types
<1> QED
  BY <1>1, <1>2, ReaderKeeps, Api

(* Neither the streams nor the clients move.                                 *)
LEMMA StillSse ==
  ASSUME SseInv, Types', UNCHANGED <<up, pos, conn, view, member, entry, ended, blind>>,
         written' = written \/ written' = written + 1, faults' = faults \/ Fault
  PROVE  SseTypes' /\ Named' /\ Joined' /\ Heard'
<1>1. Failed' = Failed
  BY DEF Failed
<1>2. Named' /\ faults' \in 0..MaxFaults
  BY <1>1, NamedStays
<1>3. SseTypes'
  BY <1>2 DEF SseInv, SseTypes
<1>4. Joined'
  BY DEF SseInv, Joined
<1>5. Heard'
  BY ApiOfType DEF SseInv, Heard, HeardBy, Types, SseTypes
<1> QED
  BY <1>2, <1>3, <1>4, <1>5

(* closeAll reaches every open connection of the replica, as all are in the  *)
(* set of its map; late `close` events may name that set from now on.        *)
LEMMA CloseAllSse ==
  ASSUME SseInv, Types', NEW a \in Apis, CloseAll(a), UNCHANGED written,
         \A q \in Apis \ {a} : up'[q] = up[q] /\ pos'[q] = pos[q],
         faults' \in 0..MaxFaults,
         Cardinality(Failed') \in Nat, Cardinality(Failed') + 1 + faults <= Cardinality(Failed) + faults'
  PROVE  SseTypes' /\ Named' /\ Joined' /\ Heard'
<1>1. SseTypes /\ Joined /\ Heard
  BY DEF SseInv
<1> DEFINE all == MembersOf(a, entry[a])
<1>2. \A k \in Conns : k \in all <=> ApiOf[k] = a /\ conn[k] = "open"
  BY <1>1 DEF MembersOf, Of, Joined
<1>3. /\ conn' = [k \in Conns |-> IF k \in all THEN "none" ELSE conn[k]]
      /\ view' = [k \in Conns |-> IF k \in all THEN 0 ELSE view[k]]
      /\ member' = [k \in Conns |-> IF k \in all THEN 0 ELSE member[k]]
      /\ ended' = [k \in Conns |-> IF k \in all THEN ended[k] \union {member[k]} ELSE ended[k]]
      /\ blind' = blind \ all
      /\ entry' = [entry EXCEPT ![a] = 0]
  BY DEF CloseAll
<1> HIDE DEF all
<1>4. SseTypes'
  <2>1. ended' \in [Conns -> SUBSET Nat]
    BY <1>1, <1>3 DEF SseTypes
  <2>2. view' \in [Conns -> Nat] /\ member' \in [Conns -> Nat] /\ entry' \in [Apis -> Nat]
    BY <1>1, <1>3 DEF SseTypes
  <2>3. conn' \in [Conns -> {"none", "looking", "open"}]
    BY <1>1, <1>3 DEF SseTypes
  <2> QED
    BY <2>1, <2>2, <2>3 DEF SseTypes
<1>5. Joined'
  BY <1>1, <1>2, <1>3, ApiOfType DEF Joined, SseTypes
<1>6. ASSUME NEW k \in Conns PROVE HeardBy(k)'
  <2>1. HeardBy(k) /\ ApiOf[k] \in Apis /\ written \in Nat
    BY <1>1, ApiOfType DEF Heard, SseInv, Types
  <2>2. CASE k \in all
    BY <1>3, <2>1, <2>2 DEF HeardBy
  <2>3. CASE k \notin all
    BY <1>2, <1>3, <2>1, <2>3 DEF HeardBy
  <2> QED
    BY <2>2, <2>3
<1>7. Named'
  <2>1. PICK E \in SUBSET Nat :
          /\ IsFiniteSet(E) /\ Cardinality(E) + Cardinality(Failed) <= faults
          /\ \A k \in Conns : ended[k] \subseteq E
    BY DEF SseInv, Named
  <2> DEFINE F == E \union {entry[a]}
  <2>2. F \in SUBSET Nat
    BY <1>1 DEF SseTypes
  <2>3. IsFiniteSet(F) /\ Cardinality(F) <= Cardinality(E) + 1 /\ Cardinality(F) \in Nat
    <3>1. Cardinality(E) \in Nat
      BY <2>1, FS_CardinalityType
    <3>2. /\ IsFiniteSet(F)
          /\ Cardinality(F) = IF entry[a] \in E THEN Cardinality(E) ELSE Cardinality(E) + 1
      BY <2>1, FS_AddElement
    <3> QED
      BY <3>1, <3>2
  <2>4. \A k \in Conns : k \in all => member[k] = entry[a]
    BY <1>1, <1>2 DEF Joined
  <2>5. \A k \in Conns : ended'[k] \subseteq F
    BY <1>3, <2>1, <2>4
  <2>6. Cardinality(E) \in Nat /\ Cardinality(Failed) \in Nat /\ faults \in Nat /\ faults' \in Nat
    BY <1>1, <2>1, FS_CardinalityType, FailedFinite DEF SseTypes
  <2> HIDE DEF F
  <2>7. Cardinality(F) + Cardinality(Failed') <= faults'
    BY <2>1, <2>3, <2>6
  <2> QED
    BY <2>2, <2>3, <2>5, <2>7, Zenon DEF Named
<1> QED
  BY <1>4, <1>5, <1>6, <1>7 DEF Heard

(* The process ends, or stopped with no connection left.                     *)
LEMMA EndSse ==
  ASSUME SseInv, Types', NEW a \in Apis, UNCHANGED written, faults' = faults \/ Fault,
         \A q \in Apis \ {a} : up'[q] = up[q] /\ pos'[q] = pos[q], up'[a] = "down",
         SseTypes', \A k \in Conns : ended'[k] \subseteq ended[k],
         \A k \in Of(a) : conn'[k] = "none" /\ view'[k] \in {0, view[k]},
         \A k \in Conns \ Of(a) : /\ conn'[k] = conn[k] /\ view'[k] = view[k] /\ member'[k] = member[k]
                                  /\ (k \in blind => k \in blind'),
         \A b \in Apis \ {a} : entry'[b] = entry[b]
  PROVE  Named' /\ Joined' /\ Heard'
<1>1. SseTypes /\ Joined /\ Heard
  BY DEF SseInv
<1>2. Failed' \subseteq Failed
  BY DEF Failed
<1>3. \A k \in Conns : (k \in Of(a) <=> ApiOf[k] = a) /\ ApiOf[k] \in Apis
  BY ApiOfType DEF Of
<1>4. Joined'
  BY <1>1, <1>3 DEF Joined
<1>5. ASSUME NEW k \in Conns PROVE HeardBy(k)'
  <2>1. HeardBy(k) /\ written \in Nat
    BY <1>1 DEF Heard, SseInv, Types
  <2>2. CASE k \in Of(a)
    BY <2>1, <2>2 DEF HeardBy
  <2>3. CASE k \notin Of(a)
    BY <1>3, <2>1, <2>3 DEF HeardBy
  <2> QED
    BY <2>2, <2>3
<1> QED
  BY <1>2, <1>4, <1>5, NamedStays DEF Heard

(* A replica's steps.                                                        *)
LEMMA ReplicaSse ==
  ASSUME SseInv, Types', NEW a \in Apis,
         \/ DeliverToApi(a) \/ StreamFails(a) \/ Reopen(a)
         \/ PreClose(a) \/ OnClose(a) \/ ApiCrashes(a) \/ ForceExit(a)
  PROVE  SseTypes' /\ Named' /\ Joined' /\ Heard'
<1>1. SseTypes /\ Joined /\ Heard /\ Types /\ a \in Procs
  BY Api DEF SseInv
<1>2. Cardinality(Failed) \in Nat /\ faults \in Nat /\ faults <= MaxFaults
  BY <1>1, FailedFinite, StreamAssumption DEF SseTypes
<1>3. CASE DeliverToApi(a)
  <2>1. PICK v \in Shown(pos[a] + 1) :
          view' = [k \in Conns |-> IF k \in MembersOf(a, entry[a]) THEN v ELSE view[k]]
    BY <1>3 DEF DeliverToApi
  <2>2. /\ up[a] = "open" /\ pos[a] < written /\ pos' = [pos EXCEPT ![a] = pos[a] + 1]
        /\ UNCHANGED <<written, up, conn, member, ended, entry, blind, faults>>
    BY <1>3 DEF DeliverToApi, Advance, store
  <2>3. v \in Nat /\ pos[a] + 1 <= v /\ v <= written
    BY <1>1, <2>2 DEF Shown, Types
  <2>4. Failed' = Failed
    BY <2>2 DEF Failed
  <2>5. Named'
    BY <2>2, <2>4, NamedStays
  <2>6. SseTypes' /\ Joined'
    BY <1>1, <2>1, <2>2, <2>3 DEF SseTypes, Joined
  <2>7. ASSUME NEW k \in Conns PROVE HeardBy(k)'
    <3>1. HeardBy(k) /\ ApiOf[k] \in Apis /\ ApiOf[k] \in Procs
      BY <1>1, ApiOfType DEF Heard
    <3>2. CASE ApiOf[k] # a
      <4>1. view'[k] = view[k] /\ pos'[ApiOf[k]] = pos[ApiOf[k]]
        BY <1>1, <2>1, <2>2, <3>1, <3>2 DEF MembersOf, Of, Types
      <4> QED
        BY <2>2, <3>1, <4>1 DEF HeardBy
    <3>3. CASE ApiOf[k] = a /\ conn[k] = "open"
      <4>1. k \in MembersOf(a, entry[a])
        BY <1>1, <3>3 DEF MembersOf, Of, Joined
      <4>2. view'[k] = v /\ pos'[a] = pos[a] + 1
        BY <1>1, <2>1, <2>2, <4>1 DEF Types
      <4> QED
        BY <2>2, <2>3, <3>3, <4>2 DEF HeardBy
    <3>4. CASE ApiOf[k] = a /\ conn[k] # "open"
      <4>1. view'[k] = view[k]
        BY <2>1, <3>4 DEF MembersOf
      <4> QED
        BY <2>2, <3>1, <3>4, <4>1 DEF HeardBy
    <3> QED
      BY <3>2, <3>3, <3>4
  <2> QED
    BY <2>5, <2>6, <2>7 DEF Heard
<1>4. CASE StreamFails(a)
  <2>1. /\ Fault /\ up[a] = "open" /\ Halt(a, "failed")
        /\ UNCHANGED <<written, conn, view, member, ended, entry, blind>>
    BY <1>4 DEF StreamFails, sse
  <2>2. up' = [up EXCEPT ![a] = "failed"] /\ pos' = [pos EXCEPT ![a] = 0]
    BY <2>1 DEF Halt
  <2>3. Failed' = Failed \union {a} /\ a \notin Failed
    BY <1>1, <2>1, <2>2, Api DEF Failed, Types
  <2>4. Cardinality(Failed') = Cardinality(Failed) + 1
    BY <2>3, FailedFinite, FS_AddElement
  <2>5. faults' = faults + 1 /\ faults' \in 0..MaxFaults
    BY <1>2, <2>1, StreamAssumption DEF Fault
  <2>6. Named'
    <3>1. PICK E \in SUBSET Nat :
            /\ IsFiniteSet(E) /\ Cardinality(E) + Cardinality(Failed) <= faults
            /\ \A k \in Conns : ended[k] \subseteq E
      BY DEF SseInv, Named
    <3>2. Cardinality(E) \in Nat
      BY <3>1, FS_CardinalityType
    <3>3. Cardinality(E) + Cardinality(Failed') <= faults' /\ \A k \in Conns : ended'[k] \subseteq E
      BY <1>2, <2>1, <2>4, <2>5, <3>1, <3>2
    <3> QED
      BY <3>1, <3>3, Zenon DEF Named
  <2>7. SseTypes' /\ Joined'
    BY <1>1, <2>1, <2>5 DEF SseTypes, Joined
  <2>8. \A k \in Conns : HeardBy(k)'
    BY <1>1, <2>1, <2>2, ApiOfType DEF Heard, HeardBy, Types
  <2> QED
    BY <2>6, <2>7, <2>8 DEF Heard
<1>5. CASE Reopen(a)
  <2>1. /\ up[a] = "failed" /\ Halt(a, "reading") /\ CloseAll(a) /\ UNCHANGED <<written, faults>>
    BY <1>5 DEF Reopen, store
  <2>2. up' = [up EXCEPT ![a] = "reading"] /\ pos' = [pos EXCEPT ![a] = 0]
    BY <2>1 DEF Halt
  <2>3. Failed' = Failed \ {a} /\ a \in Failed
    BY <1>1, <2>1, <2>2, Api DEF Failed, Types
  <2>4. Cardinality(Failed') = Cardinality(Failed) - 1
    BY <2>3, FailedFinite, FS_RemoveElement
  <2>5. Cardinality(Failed') \in Nat
    BY <2>3, FailedFinite, FS_RemoveElement, FS_CardinalityType
  <2>6. \A q \in Apis \ {a} : up'[q] = up[q] /\ pos'[q] = pos[q]
    BY <1>1, <2>2, Api DEF Types
  <2>7. faults' \in 0..MaxFaults /\ Cardinality(Failed') + 1 + faults <= Cardinality(Failed) + faults'
    BY <1>1, <1>2, <2>1, <2>4, <2>5 DEF SseTypes
  <2> QED
    BY <2>1, <2>5, <2>6, <2>7, CloseAllSse
<1>6. CASE PreClose(a)
  <2>1. Fault /\ CloseAll(a) /\ UNCHANGED <<written, up, pos>>
    BY <1>6 DEF PreClose, store, reading
  <2>2. Failed' = Failed
    BY <2>1 DEF Failed
  <2>3. faults' = faults + 1 /\ faults' \in 0..MaxFaults
    BY <1>2, <2>1, StreamAssumption DEF Fault
  <2> QED
    BY <1>2, <2>1, <2>2, <2>3, CloseAllSse
<1>7. CASE OnClose(a)
  <2>1. /\ \A k \in Of(a) : conn[k] = "none"
        /\ Halt(a, "down") /\ UNCHANGED <<written, conn, view, member, entry, blind, faults>>
        /\ ended' = [k \in Conns |-> IF k \in Of(a) THEN {} ELSE ended[k]]
    BY <1>7 DEF OnClose
  <2>2. up'[a] = "down" /\ \A q \in Apis \ {a} : up'[q] = up[q] /\ pos'[q] = pos[q]
    BY <1>1, <2>1, Api DEF Halt, Types
  <2>3. SseTypes'
    BY <1>1, <2>1 DEF SseTypes
  <2> QED
    BY <2>1, <2>2, <2>3, EndSse
<1>8. CASE ApiCrashes(a) \/ ForceExit(a)
  <2>1. EndApi(a) /\ (faults' = faults \/ Fault)
    BY <1>8 DEF ApiCrashes, ForceExit
  <2>2. /\ Halt(a, "down") /\ UNCHANGED written
        /\ conn' = [k \in Conns |-> IF k \in Of(a) THEN "none" ELSE conn[k]]
        /\ view' = [k \in Conns |-> IF k \in Of(a) THEN 0 ELSE view[k]]
        /\ member' = [k \in Conns |-> IF k \in Of(a) THEN 0 ELSE member[k]]
        /\ ended' = [k \in Conns |-> IF k \in Of(a) THEN {} ELSE ended[k]]
        /\ entry' = [entry EXCEPT ![a] = 0]
        /\ blind' = blind \ Of(a)
    BY <2>1 DEF EndApi, store
  <2>3. up'[a] = "down" /\ \A q \in Apis \ {a} : up'[q] = up[q] /\ pos'[q] = pos[q]
    BY <1>1, <2>2, Api DEF Halt, Types
  <2>4. SseTypes'
    <3>1. faults' \in 0..MaxFaults
      BY <1>2, <2>1, StreamAssumption DEF Fault
    <3>2. ended' \in [Conns -> SUBSET Nat]
      BY <1>1, <2>2 DEF SseTypes
    <3>3. conn' \in [Conns -> {"none", "looking", "open"}]
      BY <1>1, <2>2 DEF SseTypes
    <3>4. view' \in [Conns -> Nat] /\ member' \in [Conns -> Nat] /\ entry' \in [Apis -> Nat]
      BY <1>1, <2>2 DEF SseTypes
    <3> QED
      BY <3>1, <3>2, <3>3, <3>4 DEF SseTypes
  <2>5. \A k \in Of(a) : k \in Conns
    BY DEF Of
  <2>6. \A k \in Conns : ended'[k] \subseteq ended[k]
    BY <2>2
  <2>7. \A b \in Apis \ {a} : entry'[b] = entry[b]
    BY <1>1, <2>2 DEF SseTypes
  <2> QED
    BY <2>1, <2>2, <2>3, <2>4, <2>5, <2>6, <2>7, EndSse
<1> QED
  BY <1>3, <1>4, <1>5, <1>6, <1>7, <1>8

(* A client comes, is looked up, is registered, leaves, is closed late.      *)
LEMMA ClientSse ==
  ASSUME SseInv, Types', NEW k \in Conns,
         Connect(k) \/ GiveUp(k) \/ Subscribe(k) \/ Leave(k) \/ LateClose(k)
  PROVE  SseTypes' /\ Named' /\ Joined' /\ Heard'
<1>1. SseTypes /\ Joined /\ Heard /\ Types /\ ApiOf[k] \in Apis
  BY ApiOfType DEF SseInv
<1>2. UNCHANGED <<written, up, pos, faults>> /\ Failed' = Failed
  BY DEF Connect, GiveUp, Subscribe, Leave, LateClose, store, reading, Failed
<1>3. \A j \in Conns : ended'[j] \subseteq ended[j]
  BY <1>1 DEF Connect, GiveUp, Subscribe, Leave, LateClose, SseTypes
<1>4. Named'
  BY <1>2, <1>3, NamedStays
<1>5. CASE Connect(k) \/ GiveUp(k)
  <2>1. /\ conn[k] # "open" /\ UNCHANGED <<member, ended, entry, blind>>
        /\ \E c \in {"none", "looking"} : conn' = [conn EXCEPT ![k] = c]
        /\ \E v \in {0, written} : view' = [view EXCEPT ![k] = v]
    BY <1>5 DEF Connect, GiveUp
  <2>2. SseTypes' /\ Joined'
    BY <1>1, <1>2, <2>1 DEF SseTypes, Joined, Types
  <2>3. Heard'
    BY <1>1, <1>2, <2>1 DEF Heard, HeardBy, SseTypes, Types
  <2> QED
    BY <1>4, <2>2, <2>3
<1>6. CASE Subscribe(k)
  <2> DEFINE a == ApiOf[k]
             s == IF entry[a] = 0 THEN NewSet ELSE entry[a]
  <2>1. /\ conn[k] = "looking" /\ conn' = [conn EXCEPT ![k] = "open"]
        /\ entry' = [entry EXCEPT ![a] = s] /\ member' = [member EXCEPT ![k] = s]
        /\ blind' = IF up[a] # "open" \/ pos[a] > view[k] THEN blind \union {k} ELSE blind
        /\ UNCHANGED <<view, ended>>
    BY <1>6 DEF Subscribe
  <2>2. s \in Nat \ {0}
    BY <1>1, NewSetIsNew, StreamAssumption DEF Sets, SseTypes
  <2>3. \A j \in Conns : ApiOf[j] = a /\ conn[j] = "open" => s = entry[a]
    BY <1>1 DEF Joined
  <2>4. pos[a] \in Nat /\ view[k] \in Nat
    BY <1>1, ApiOfType DEF Types, SseTypes
  <2> HIDE DEF s
  <2>5. SseTypes'
    BY <1>1, <1>2, <2>1, <2>2 DEF SseTypes
  <2>6. Joined'
    BY <1>1, <2>1, <2>2, <2>3, ApiOfType DEF Joined, SseTypes
  <2>7. ASSUME NEW j \in Conns PROVE HeardBy(j)'
    <3>1. HeardBy(j)
      BY <1>1 DEF Heard
    <3>2. CASE j = k
      BY <1>2, <2>1, <2>4, <3>1, <3>2 DEF HeardBy
    <3>3. CASE j # k
      <4>1. conn'[j] = conn[j] /\ (j \in blind => j \in blind') /\ view'[j] = view[j]
        BY <1>1, <2>1, <3>3 DEF SseTypes
      <4> QED
        BY <1>2, <3>1, <4>1 DEF HeardBy
    <3> QED
      BY <3>2, <3>3
  <2> QED
    BY <1>4, <2>5, <2>6, <2>7 DEF Heard
<1>7. CASE Leave(k)
  <2> DEFINE a == ApiOf[k]
             e == Unwatch(a, member[k], MembersOf(a, member[k]) \ {k})
  <2>1. /\ conn[k] = "open" /\ entry' = [entry EXCEPT ![a] = e]
        /\ conn' = [conn EXCEPT ![k] = "none"] /\ view' = [view EXCEPT ![k] = 0]
        /\ member' = [member EXCEPT ![k] = 0] /\ blind' = blind \ {k} /\ UNCHANGED ended
    BY <1>7 DEF Leave
  <2>2. e \in {0, entry[a]}
    BY DEF Unwatch
  <2>3. ASSUME NEW j \in Conns, j # k, ApiOf[j] = a, conn[j] = "open" PROVE e = entry[a]
    BY <1>1, <2>1, <2>3 DEF Unwatch, MembersOf, Of, Joined
  <2> HIDE DEF e
  <2>4. SseTypes'
    <3>1. entry' \in [Apis -> Nat]
      BY <1>1, <2>1, <2>2 DEF SseTypes
    <3> QED
      BY <1>1, <1>2, <2>1, <3>1 DEF SseTypes
  <2>5. Joined'
    BY <1>1, <2>1, <2>3, ApiOfType DEF Joined, SseTypes
  <2>6. Heard'
    BY <1>1, <1>2, <2>1 DEF Heard, HeardBy, SseTypes, Types
  <2> QED
    BY <1>4, <2>4, <2>5, <2>6
<1>8. CASE LateClose(k)
  <2> DEFINE a == ApiOf[k]
  <2>1. PICK s \in ended[k] :
          /\ entry' = [entry EXCEPT ![a] = Unwatch(a, s, MembersOf(a, s))]
          /\ ended' = [ended EXCEPT ![k] = @ \ {s}]
    BY <1>8 DEF LateClose
  <2> DEFINE e == Unwatch(a, s, MembersOf(a, s))
  <2>2. UNCHANGED <<conn, view, member, blind>>
    BY <1>8 DEF LateClose
  <2>3. e \in {0, entry[a]}
    BY DEF Unwatch
  <2>4. ASSUME NEW j \in Conns, ApiOf[j] = a, conn[j] = "open" PROVE e = entry[a]
    BY <1>1, <2>4 DEF Unwatch, MembersOf, Of, Joined
  <2>5. entry' = [entry EXCEPT ![a] = e]
    BY <2>1
  <2> HIDE DEF e
  <2>6. SseTypes'
    <3>1. ended' \in [Conns -> SUBSET Nat]
      BY <1>1, <2>1 DEF SseTypes
    <3>2. entry' \in [Apis -> Nat]
      BY <1>1, <2>3, <2>5 DEF SseTypes
    <3> QED
      BY <1>1, <1>2, <2>2, <3>1, <3>2 DEF SseTypes
  <2>7. Joined'
    BY <1>1, <2>2, <2>4, <2>5, ApiOfType DEF Joined, SseTypes
  <2>8. Heard'
    BY <1>1, <1>2, <2>2 DEF Heard, HeardBy
  <2> QED
    BY <1>4, <2>6, <2>7, <2>8
<1> QED
  BY <1>5, <1>6, <1>7, <1>8

LEMMA StepSse == SseInv /\ [Next]_vars => SseInv'
<1> SUFFICES ASSUME SseInv, [Next]_vars PROVE SseInv'
  OBVIOUS
<1>1. Types' /\ Covered'
  BY StepCovered DEF SseInv
<1>2. CASE Write \/ Expire \/ UNCHANGED vars \/ \E e \in Events : CallbackDone(e) \/ CallbackFails(e)
  <2>1. /\ UNCHANGED <<up, pos, conn, view, member, entry, ended, blind>>
        /\ written' = written \/ written' = written + 1
        /\ faults' = faults \/ Fault
    BY <1>2, Zenon DEF Write, Expire, CallbackDone, CallbackFails, vars, store, reading, sse
  <2> QED
    BY <1>1, <2>1, StillSse DEF SseInv
<1>3. ASSUME NEW p \in Procs,
             \/ Start(p) \/ ReadPosition(p) \/ Resume(p) \/ WatchFromNow(p)
             \/ PositionGone(p) \/ QuietStreamFails(p) \/ Checkpoint(p)
      PROVE  SseInv'
  BY <1>1, <1>3, ReaderSse DEF SseInv
<1>4. CASE DeliverToWorker \/ WorkerCrashes \/ WorkerStops
  BY <1>1, <1>4, WorkerSse DEF SseInv
<1>5. ASSUME NEW a \in Apis,
             \/ DeliverToApi(a) \/ StreamFails(a) \/ Reopen(a)
             \/ PreClose(a) \/ OnClose(a) \/ ApiCrashes(a) \/ ForceExit(a)
      PROVE  SseInv'
  BY <1>1, <1>5, ReplicaSse DEF SseInv
<1>6. ASSUME NEW k \in Conns, Connect(k) \/ GiveUp(k) \/ Subscribe(k) \/ Leave(k) \/ LateClose(k)
      PROVE  SseInv'
  BY <1>1, <1>6, ClientSse DEF SseInv
<1> QED
  BY <1>2, <1>3, <1>4, <1>5, <1>6 DEF Next

(* A client that subscribed to an open stream (deploymentWatchers.watch),    *)
(* one not ahead of its lookup, and whose stream was not restarted under it, *)
(* shows the document as it is once its replica has delivered every event:   *)
(* it is in the set the replica notifies, whatever late `close` events,      *)
(* shutdowns and reopened streams did to the sets of the others.             *)
THEOREM OpenViewsSettle == Spec => []Settles
<1>1. SseInv => Settles
  BY ApiOfType DEF SseInv, Heard, HeardBy, Settles, Types, SseTypes
<1> QED
  BY <1>1, InitSse, StepSse, PTL DEF Spec

-----------------------------------------------------------------------------
(* Infinite: types, and how many writes a row may still have to deliver.    *)

WritesLeft ==
  \A j \in Jobs : /\ row[j] \in {"NONE", "QUEUED"} => writes[j] = 0
                  /\ row[j] = "RUNNING" => writes[j] <= 1
                  /\ settling[j] # "idle" => row[j] = "ENDED"

InfiniteTyped == InfiniteTypeOK /\ WritesLeft

LEMMA NoRunTyped ==
  NoRun \in [kind : {"none", "refill", "rotation", "stop"}, job : Jobs \cup {NoJob}, hits : SUBSET Jobs]
BY DEF NoRun

LEMMA InfiniteInitTyped == ASSUME InfiniteInit PROVE InfiniteTyped
<1>1. PICK S \in SUBSET Jobs : row = [j \in Jobs |-> IF j \in S THEN "QUEUED" ELSE "NONE"]
  BY DEF InfiniteInit
<1>2. /\ row \in [Jobs -> {"NONE", "QUEUED", "RUNNING", "ENDED"}] /\ \A j \in Jobs : row[j] # "RUNNING"
      /\ writes = [j \in Jobs |-> 0] /\ writes \in [Jobs -> 0..2]
      /\ settling = [j \in Jobs |-> "idle"]
  BY <1>1 DEF InfiniteInit
<1>3. WritesLeft
  BY <1>2 DEF WritesLeft
<1>4. /\ starting \in [Jobs -> {"idle", "count", "trim", "rotate"}]
      /\ settling \in [Jobs -> {"idle", "round", "token", "healthy", "fill", "withdraw"}]
      /\ rotation \in [Jobs -> {"none", "pending", "due"}]
  BY DEF InfiniteInit
<1>5. trim \in BOOLEAN
  BY Zenon DEF InfiniteInit
<1>6. status \in {"RUNNING", "STOPPING"} /\ streak \in Nat /\ refills \in Nat /\ taken \in 0..replicas
  BY InfiniteAssumption DEF InfiniteInit
<1> QED
  BY <1>2, <1>3, <1>4, <1>5, <1>6, NoRunTyped DEF InfiniteInit, InfiniteTyped, InfiniteTypeOK

LEMMA RowsTyped ==
  ASSUME InfiniteTyped, NEW j \in Jobs, Take(j) \/ End(j) \/ Deliver(j)
  PROVE  InfiniteTyped'
<1>1. CASE Take(j) \/ End(j)
  <2>1. /\ UNCHANGED <<docs, calls, tasks, run>> /\ writes' = [writes EXCEPT ![j] = @ + 1]
        /\ \/ row[j] = "QUEUED" /\ row' = [row EXCEPT ![j] = "RUNNING"]
           \/ row[j] \in {"QUEUED", "RUNNING"} /\ row' = [row EXCEPT ![j] = "ENDED"]
    BY <1>1 DEF Take, End, Observe
  <2>2. row' \in [Jobs -> {"NONE", "QUEUED", "RUNNING", "ENDED"}] /\ writes[j] \in 0..1
    BY <2>1 DEF InfiniteTyped, InfiniteTypeOK, WritesLeft
  <2>3. writes' \in [Jobs -> 0..2]
    BY <2>1, <2>2 DEF InfiniteTyped, InfiniteTypeOK
  <2>4. WritesLeft'
    BY <2>1, <2>2 DEF InfiniteTyped, InfiniteTypeOK, WritesLeft, calls
  <2> QED
    BY <2>1, <2>2, <2>3, <2>4 DEF InfiniteTyped, InfiniteTypeOK, docs, calls, tasks
<1>2. CASE Deliver(j)
  <2>1. /\ UNCHANGED <<docs, row, tasks, run>> /\ writes[j] > 0 /\ writes' = [writes EXCEPT ![j] = @ - 1]
        /\ \/ settling' = settling /\ \E s \in {"count", starting[j]} : starting' = [starting EXCEPT ![j] = s]
           \/ /\ starting' = starting /\ row[j] = "ENDED"
              /\ \E s \in {"round", "healthy", settling[j]} : settling' = [settling EXCEPT ![j] = s]
    BY <1>2 DEF Deliver
  <2>2. writes' \in [Jobs -> 0..2] /\ \A k \in Jobs : writes'[k] <= writes[k]
    BY <2>1 DEF InfiniteTyped, InfiniteTypeOK
  <2>3. /\ starting' \in [Jobs -> {"idle", "count", "trim", "rotate"}]
        /\ settling' \in [Jobs -> {"idle", "round", "token", "healthy", "fill", "withdraw"}]
        /\ \A k \in Jobs : settling'[k] = settling[k] \/ row[k] = "ENDED"
    BY <2>1 DEF InfiniteTyped, InfiniteTypeOK
  <2>4. WritesLeft'
    BY <2>1, <2>2, <2>3 DEF InfiniteTyped, InfiniteTypeOK, WritesLeft
  <2> QED
    BY <2>1, <2>2, <2>3, <2>4 DEF InfiniteTyped, InfiniteTypeOK, docs, tasks
<1> QED
  BY <1>1, <1>2

LEMMA CallbacksTyped ==
  ASSUME InfiniteTyped, NEW j \in Jobs,
         \/ CountStarted(j) \/ Trim(j) \/ Rotate(j)
         \/ Round(j) \/ RoundToken(j) \/ Healthy(j) \/ Withdraw(j) \/ Fill(j)
  PROVE  InfiniteTyped'
<1>1. CASE CountStarted(j) \/ Trim(j) \/ Rotate(j)
  <2>1. /\ UNCHANGED <<docs, jobs, settling, refills, run>>
        /\ \E s \in {"trim", "rotate", "idle"} : starting' = [starting EXCEPT ![j] = s]
        /\ trim' \in {trim, TRUE}
        /\ rotation' = rotation \/ \E s \in {"pending", rotation[j]} : rotation' = [rotation EXCEPT ![j] = s]
    <3>1. CASE CountStarted(j)
      BY <3>1, Zenon DEF CountStarted, Starting
    <3>2. CASE Trim(j)
      BY <3>2, Zenon DEF Trim, Starting
    <3>3. CASE Rotate(j)
      <4>1. \E s \in {"pending", rotation[j]} : rotation' = [rotation EXCEPT ![j] = s]
        BY <3>3 DEF Rotate
      <4> QED
        BY <3>3, <4>1 DEF Rotate, Starting
    <3> QED
      BY <1>1, <3>1, <3>2, <3>3
  <2>2. /\ starting' \in [Jobs -> {"idle", "count", "trim", "rotate"}]
        /\ rotation' \in [Jobs -> {"none", "pending", "due"}]
    BY <2>1 DEF InfiniteTyped, InfiniteTypeOK
  <2>3. WritesLeft'
    BY <2>1 DEF InfiniteTyped, WritesLeft, jobs
  <2>4. trim' \in BOOLEAN
    BY <2>1, Zenon DEF InfiniteTyped, InfiniteTypeOK
  <2> QED
    BY <2>1, <2>2, <2>3, <2>4 DEF InfiniteTyped, InfiniteTypeOK, docs, jobs
<1>2. CASE Round(j) \/ RoundToken(j) \/ Healthy(j) \/ Withdraw(j) \/ Fill(j)
  <2>1. /\ UNCHANGED <<jobs, starting, trim, run>> /\ settling[j] # "idle"
        /\ \E s \in {"token", "idle", "fill", "withdraw"} : settling' = [settling EXCEPT ![j] = s]
        /\ rotation' = rotation \/ \E s \in {"none", "due"} : rotation' = [rotation EXCEPT ![j] = s]
        /\ refills' \in {refills, refills + 1}
    <3>1. CASE Round(j) \/ Withdraw(j)
      BY <3>1 DEF Round, Withdraw, Settling, Withdrawn
    <3>2. CASE RoundToken(j)
      BY <3>2 DEF RoundToken, Settling
    <3>3. CASE Healthy(j)
      BY <3>3 DEF Healthy, Settling
    <3>4. CASE Fill(j)
      BY <3>4 DEF Fill, Settling
    <3> QED
      BY <1>2, <3>1, <3>2, <3>3, <3>4
  <2>2. /\ settling' \in [Jobs -> {"idle", "round", "token", "healthy", "fill", "withdraw"}]
        /\ rotation' \in [Jobs -> {"none", "pending", "due"}] /\ refills' \in Nat
        /\ \A k \in Jobs : settling'[k] # "idle" => settling[k] # "idle"
    BY <2>1 DEF InfiniteTyped, InfiniteTypeOK
  <2>3. /\ status' \in {"RUNNING", "STOPPING"} /\ streak' \in Nat /\ taken' \in 0..replicas'
        /\ replicas' = replicas
    <3>1. /\ status' \in {status, "STOPPING"} /\ streak' \in {streak, streak + 1, 0}
          /\ taken' = taken \/ (taken < replicas /\ taken' = taken + 1)
          /\ replicas' = replicas
      <4>1. CASE Round(j) \/ Withdraw(j) \/ Fill(j)
        BY <4>1, Zenon DEF Round, Withdraw, Fill, docs
      <4>2. CASE RoundToken(j)
        BY <4>2 DEF RoundToken
      <4>3. CASE Healthy(j)
        BY <4>3 DEF Healthy
      <4> QED
        BY <1>2, <4>1, <4>2, <4>3
    <3> QED
      BY <3>1, InfiniteAssumption DEF InfiniteTyped, InfiniteTypeOK
  <2>4. WritesLeft'
    BY <2>1, <2>2 DEF InfiniteTyped, WritesLeft, jobs
  <2> QED
    BY <2>1, <2>2, <2>3, <2>4 DEF InfiniteTyped, InfiniteTypeOK, jobs
<1> QED
  BY <1>1, <1>2

LEMMA TasksTyped ==
  ASSUME InfiniteTyped,
         \/ \E j \in Jobs : Elapse(j) \/ StopBegins(j) \/ RotationBegins(j)
         \/ TrimBegins \/ RefillBegins
  PROVE  InfiniteTyped'
<1>1. UNCHANGED <<docs, jobs, calls>>
  BY DEF Elapse, StopBegins, RotationBegins, TrimBegins, RefillBegins, Begin
<1>2. rotation' \in [Jobs -> {"none", "pending", "due"}] /\ refills' \in Nat
  <2>1. CASE \E j \in Jobs : Elapse(j) \/ RotationBegins(j)
    BY <2>1 DEF Elapse, RotationBegins, Withdrawn, InfiniteTyped, InfiniteTypeOK
  <2>2. CASE \/ \E j \in Jobs : StopBegins(j)
             \/ TrimBegins \/ RefillBegins
    <3>1. rotation' = rotation /\ (refills' = refills \/ (refills > 0 /\ refills' = refills - 1))
      BY <2>2 DEF StopBegins, TrimBegins, RefillBegins, tasks
    <3> QED
      BY <3>1 DEF InfiniteTyped, InfiniteTypeOK
  <2> QED
    BY <2>1, <2>2
<1>3. run' \in [kind : {"none", "refill", "rotation", "stop"}, job : Jobs \cup {NoJob}, hits : SUBSET Jobs]
  <2>1. CASE run' = run
    BY <2>1 DEF InfiniteTyped, InfiniteTypeOK
  <2>2. CASE \E k \in {"refill", "rotation", "stop"}, j \in Jobs \cup {NoJob}, S \in SUBSET Jobs :
               run' = [kind |-> k, job |-> j, hits |-> S]
    BY <2>2
  <2>3. Trimmable \subseteq Jobs
    BY DEF Trimmable, Active
  <2> QED
    BY <2>1, <2>2, <2>3 DEF Elapse, StopBegins, RotationBegins, TrimBegins, RefillBegins, Begin
<1>4. WritesLeft'
  BY <1>1 DEF InfiniteTyped, WritesLeft, jobs, calls
<1>5. trim' \in BOOLEAN
  <2>1. trim' \in {trim, FALSE}
    BY Zenon DEF Elapse, StopBegins, RotationBegins, TrimBegins, RefillBegins, tasks
  <2> QED
    BY <2>1, Zenon DEF InfiniteTyped, InfiniteTypeOK
<1> QED
  BY <1>1, <1>2, <1>3, <1>4, <1>5 DEF InfiniteTyped, InfiniteTypeOK, docs, jobs, calls

LEMMA RunsTyped ==
  ASSUME InfiniteTyped, Lists \/ Stops
  PROVE  InfiniteTyped'
<1>0. run' = NoRun /\ UNCHANGED <<docs, calls, tasks>>
  BY DEF Lists, Stops
<1>2. CASE Lists
  <2>1. PICK j \in Jobs : Unused(j) /\ row' = [row EXCEPT ![j] = "QUEUED"] /\ writes' = writes
    BY <1>2 DEF Lists
  <2>2. writes[j] = 0 /\ settling[j] = "idle"
    BY <2>1 DEF Unused, Quiet
  <2> QED
    BY <1>0, NoRunTyped, <2>1, <2>2 DEF InfiniteTyped, InfiniteTypeOK, WritesLeft, docs, calls, tasks
<1>3. CASE Stops
  <2>1. PICK hit \in SUBSET Active :
          /\ row' = [j \in Jobs |-> IF j \in hit THEN "ENDED" ELSE row[j]]
          /\ writes' = [j \in Jobs |-> IF j \in hit THEN writes[j] + 1 ELSE writes[j]]
    BY <1>3 DEF Stops
  <2>2. \A j \in hit : j \in Jobs /\ writes[j] \in 0..1
    BY <2>1 DEF Active, InfiniteTyped, InfiniteTypeOK, WritesLeft
  <2>3. row' \in [Jobs -> {"NONE", "QUEUED", "RUNNING", "ENDED"}] /\ writes' \in [Jobs -> 0..2]
    BY <2>1, <2>2 DEF InfiniteTyped, InfiniteTypeOK
  <2>4. WritesLeft'
    BY <1>0, <2>1 DEF InfiniteTyped, WritesLeft, calls
  <2> QED
    BY <1>0, NoRunTyped, <2>3, <2>4 DEF InfiniteTyped, InfiniteTypeOK, docs, calls, tasks
<1> QED
  BY <1>2, <1>3

LEMMA InfiniteStepTyped == ASSUME InfiniteTyped, [InfiniteNext]_infiniteVars PROVE InfiniteTyped'
<1>1. CASE UNCHANGED infiniteVars
  BY <1>1 DEF infiniteVars, docs, jobs, calls, tasks, InfiniteTyped, InfiniteTypeOK, WritesLeft
<1> QED
  BY <1>1, RowsTyped, CallbacksTyped, TasksTyped, RunsTyped DEF InfiniteNext, Callback

(* The documents, rows, callbacks and tasks of Infinite keep their types: a  *)
(* row has at most two writes to deliver (onJobUpdate's guard).              *)
THEOREM InfiniteTyping == InfiniteSpec => []InfiniteTypeOK
<1>1. InfiniteTyped => InfiniteTypeOK
  BY DEF InfiniteTyped
<1> QED
  BY <1>1, InfiniteInitTyped, InfiniteStepTyped, PTL DEF InfiniteSpec

-----------------------------------------------------------------------------
(* Infinite: who keeps a slot.  An ended job does while its replacement is   *)
(* undecided and while its rotation, made due, stands in for it; not once    *)
(* its callback has found the deployment at its replicas.                    *)

Heir(j) ==
  row[j] = "ENDED" /\ \/ writes[j] > 0
                      \/ settling[j] \in {"round", "token", "healthy", "fill"}
                      \/ settling[j] = "idle" /\ rotation[j] = "due"
Keepers == {j \in Jobs : j \in Active \/ Heir(j)}

(* What a run will post keeps a slot, unless its job still does.             *)
Share(r, K) == IF r.kind = "refill" \/ (r.kind = "rotation" /\ r.job \notin K) THEN 1 ELSE 0
Assured == Cardinality(Keepers) + Share(run, Keepers) + refills

Slots == status = "RUNNING" => Assured >= 1 /\ Assured + taken >= replicas

LEMMA Sizes ==
  ASSUME NEW K \in SUBSET Jobs
  PROVE  /\ IsFiniteSet(K) /\ Cardinality(K) \in Nat
         /\ \A L \in SUBSET K : IsFiniteSet(L) /\ Cardinality(L) \in Nat /\ Cardinality(L) <= Cardinality(K)
         /\ \A j : Cardinality(K) <= Cardinality(K \ {j}) + 1
         /\ \A j \in K : Cardinality(K) = Cardinality(K \ {j}) + 1
<1>1. IsFiniteSet(K)
  BY FS_Subset, InfiniteAssumption
<1>2. Cardinality(K) \in Nat
  BY <1>1, FS_CardinalityType
<1>3. \A L \in SUBSET K : IsFiniteSet(L) /\ Cardinality(L) \in Nat /\ Cardinality(L) <= Cardinality(K)
  BY <1>1, FS_Subset, FS_CardinalityType
<1>4. ASSUME NEW j \in K PROVE Cardinality(K) = Cardinality(K \ {j}) + 1
  <2>1. Cardinality(K \ {j}) = Cardinality(K) - 1
    BY <1>1, FS_RemoveElement
  <2> QED
    BY <1>2, <2>1
<1>5. ASSUME NEW j PROVE Cardinality(K) <= Cardinality(K \ {j}) + 1
  <2>1. j \notin K => K \ {j} = K
    OBVIOUS
  <2> QED
    BY <1>2, <1>4, <2>1
<1> QED
  BY <1>1, <1>2, <1>3, <1>4, <1>5

LEMMA UnionBound ==
  ASSUME NEW K \in SUBSET Jobs, NEW L \in SUBSET Jobs
  PROVE  Cardinality(K \cup L) \in Nat /\ Cardinality(K \cup L) <= Cardinality(K) + Cardinality(L)
<1>1. IsFiniteSet(K) /\ IsFiniteSet(L) /\ Cardinality(K) \in Nat /\ Cardinality(L) \in Nat
  BY Sizes
<1>2. Cardinality(K \cup L) = Cardinality(K) + Cardinality(L) - Cardinality(K \cap L)
  BY <1>1, FS_Union
<1>3. K \cup L \in SUBSET Jobs /\ K \cap L \in SUBSET Jobs
  OBVIOUS
<1>4. Cardinality(K \cup L) \in Nat /\ Cardinality(K \cap L) \in Nat
  BY <1>3, Sizes
<1> QED
  BY <1>1, <1>2, <1>4

LEMMA Weighs ==
  ASSUME NEW r, NEW K \in SUBSET Jobs, NEW L \in SUBSET Jobs, K \subseteq L
  PROVE  /\ Share(r, K) \in {0, 1} /\ Share(r, L) \in {0, 1}
         /\ Cardinality(K) \in Nat /\ Cardinality(L) \in Nat
         /\ Cardinality(K) + Share(r, K) <= Cardinality(L) + Share(r, L)
<1>1. /\ Cardinality(K) \in Nat /\ Cardinality(L) \in Nat /\ Cardinality(K) <= Cardinality(L)
      /\ \A j \in L : Cardinality(L) = Cardinality(L \ {j}) + 1
  BY Sizes
<1>2. Share(r, K) \in {0, 1} /\ Share(r, L) \in {0, 1}
  BY DEF Share
<1>3. CASE Share(r, K) <= Share(r, L)
  BY <1>1, <1>2, <1>3
<1>4. CASE ~(Share(r, K) <= Share(r, L))
  <2>1. r.job \in L /\ r.job \notin K /\ Share(r, K) = 1 /\ Share(r, L) = 0
    BY <1>4 DEF Share
  <2>2. K \in SUBSET (L \ {r.job}) /\ L \ {r.job} \in SUBSET Jobs
    BY <2>1
  <2>3. Cardinality(K) <= Cardinality(L \ {r.job}) /\ Cardinality(L \ {r.job}) \in Nat
    BY <2>2, Sizes
  <2> QED
    BY <1>1, <2>1, <2>3
<1> QED
  BY <1>1, <1>2, <1>3, <1>4

(* One may leave, for a slot less, or for none if the run is its own.        *)
LEMMA WeighsLess ==
  ASSUME NEW r, NEW j, NEW K \in SUBSET Jobs, NEW L \in SUBSET Jobs, K \ {j} \subseteq L
  PROVE  /\ Cardinality(K) + Share(r, K) <= Cardinality(L) + Share(r, L) + 1
         /\ r.kind = "rotation" /\ r.job = j => Cardinality(K) + Share(r, K) <= Cardinality(L) + Share(r, L)
<1> DEFINE M == K \ {j}
<1>1. M \in SUBSET Jobs /\ M \subseteq L
  OBVIOUS
<1>2. /\ Share(r, M) \in {0, 1} /\ Share(r, L) \in {0, 1} /\ Cardinality(M) \in Nat /\ Cardinality(L) \in Nat
      /\ Cardinality(M) + Share(r, M) <= Cardinality(L) + Share(r, L)
  BY <1>1, Weighs
<1>3. /\ Cardinality(K) \in Nat /\ Cardinality(K) <= Cardinality(M) + 1
      /\ j \notin K => M = K
  BY Sizes
<1>4. Share(r, K) <= Share(r, M) /\ Share(r, K) \in {0, 1}
  BY DEF Share
<1>5. r.kind = "rotation" /\ r.job = j /\ j \in K => Share(r, K) = 0 /\ Share(r, M) = 1
  BY DEF Share
<1> HIDE DEF M
<1> QED
  BY <1>2, <1>3, <1>4, <1>5

LEMMA AssuredTyped ==
  ASSUME InfiniteTyped
  PROVE  /\ Keepers \in SUBSET Jobs /\ Active \in SUBSET Jobs /\ Active \subseteq Keepers
         /\ Cardinality(Keepers) \in Nat /\ Share(run, Keepers) \in {0, 1}
         /\ refills \in Nat /\ taken \in 0..replicas /\ Assured \in Nat
         /\ Cardinality(Keepers) >= Count /\ Count \in Nat /\ replicas \in Nat /\ replicas > 0
<1>1. Keepers \in SUBSET Jobs /\ Active \in SUBSET Jobs /\ Active \subseteq Keepers
  BY DEF Keepers, Active
<1>2. /\ Cardinality(Keepers) \in Nat /\ Share(run, Keepers) \in {0, 1}
      /\ Cardinality(Keepers) >= Count /\ Count \in Nat
  BY <1>1, Sizes, Weighs DEF Count
<1>3. refills \in Nat /\ taken \in 0..replicas /\ replicas \in Nat /\ replicas > 0
  BY InfiniteAssumption DEF InfiniteTyped, InfiniteTypeOK
<1> QED
  BY <1>1, <1>2, <1>3 DEF Assured

LEMMA AssuredAfter ==
  ASSUME InfiniteTyped'
  PROVE  /\ Keepers' \in SUBSET Jobs /\ Cardinality(Keepers') \in Nat /\ Share(run', Keepers') \in {0, 1}
         /\ Cardinality(Keepers') >= Count' /\ Count' \in Nat
         /\ refills' \in Nat /\ taken' \in 0..replicas'
<1>1. Keepers' \in SUBSET Jobs /\ Active' \in SUBSET Jobs /\ Active' \subseteq Keepers'
  BY DEF Keepers, Active
<1>2. refills' \in Nat /\ taken' \in 0..replicas'
  BY DEF InfiniteTyped, InfiniteTypeOK
<1> QED
  BY <1>1, <1>2, Sizes, Weighs DEF Count

(* Who kept a slot keeps it.                                                *)
LEMMA SlotsStay ==
  ASSUME InfiniteTyped, InfiniteTyped', Slots, UNCHANGED <<status, replicas, taken, run, refills>>,
         Keepers \subseteq Keepers'
  PROVE  Slots'
<1>1. /\ Keepers \in SUBSET Jobs /\ refills \in Nat /\ taken \in 0..replicas /\ replicas \in Nat
      /\ Keepers' \in SUBSET Jobs
  BY AssuredTyped, AssuredAfter
<1>2. /\ Share(run, Keepers) \in {0, 1} /\ Share(run, Keepers') \in {0, 1}
      /\ Cardinality(Keepers) \in Nat /\ Cardinality(Keepers') \in Nat
      /\ Cardinality(Keepers) + Share(run, Keepers) <= Cardinality(Keepers') + Share(run, Keepers')
  BY <1>1, Weighs
<1>3. Assured' = Cardinality(Keepers') + Share(run, Keepers') + refills
  BY DEF Assured
<1> QED
  BY <1>1, <1>2, <1>3 DEF Slots, Assured

(* One job gives its slot to a refill.                                      *)
LEMMA SlotsPass ==
  ASSUME InfiniteTyped, InfiniteTyped', Slots, UNCHANGED <<replicas, taken, run>>,
         status' = "RUNNING" => status = "RUNNING", NEW j, Keepers \ {j} \subseteq Keepers', refills' = refills + 1
  PROVE  Slots'
<1>1. /\ Keepers \in SUBSET Jobs /\ refills \in Nat /\ taken \in 0..replicas /\ replicas \in Nat
      /\ Keepers' \in SUBSET Jobs
  BY AssuredTyped, AssuredAfter
<1>2. /\ Share(run, Keepers) \in {0, 1} /\ Share(run, Keepers') \in {0, 1}
      /\ Cardinality(Keepers) \in Nat /\ Cardinality(Keepers') \in Nat
  BY <1>1, Weighs
<1>3. Cardinality(Keepers) + Share(run, Keepers) <= Cardinality(Keepers') + Share(run, Keepers') + 1
  BY <1>1, WeighsLess
<1>4. Assured' = Cardinality(Keepers') + Share(run, Keepers') + refills'
  BY DEF Assured
<1> QED
  BY <1>1, <1>2, <1>3, <1>4 DEF Slots, Assured

(* The row of any other job is as it was.                                   *)
LEMMA OthersKeep ==
  ASSUME NEW S \in SUBSET Jobs,
         \A k \in Jobs \ S : /\ row'[k] = row[k] /\ writes'[k] = writes[k]
                             /\ settling'[k] = settling[k] /\ rotation'[k] = rotation[k]
  PROVE  \A k \in Jobs \ S : k \in Keepers <=> k \in Keepers'
<1> TAKE k \in Jobs \ S
<1>1. k \in Active <=> k \in Active'
  BY DEF Active
<1>2. Heir(k) <=> Heir(k)'
  BY DEF Heir
<1> QED
  BY <1>1, <1>2 DEF Keepers

LEMMA RowsKeep ==
  ASSUME InfiniteTyped, InfiniteTyped', Slots, NEW j \in Jobs, Take(j) \/ End(j) \/ Deliver(j)
  PROVE  Slots'
<1>0. UNCHANGED <<docs, tasks, run>>
  BY DEF Take, End, Observe, Deliver
<1>1. ASSUME status = "RUNNING" PROVE Keepers \subseteq Keepers'
  <2>1. \A k \in Jobs \ {j} : /\ row'[k] = row[k] /\ writes'[k] = writes[k]
                              /\ settling'[k] = settling[k] /\ rotation'[k] = rotation[k]
    BY <1>0 DEF Take, End, Observe, Deliver, InfiniteTyped, InfiniteTypeOK, calls, tasks
  <2>2. \A k \in Jobs \ {j} : k \in Keepers <=> k \in Keepers'
    BY <2>1, OthersKeep
  <2>3. CASE Take(j)
    <3>1. row'[j] = "RUNNING"
      BY <2>3 DEF Take, Observe, InfiniteTyped, InfiniteTypeOK
    <3> QED
      BY <2>2, <3>1 DEF Keepers, Active
  <2>4. CASE End(j)
    <3>1. row'[j] = "ENDED" /\ writes'[j] > 0
      BY <2>4 DEF End, Observe, InfiniteTyped, InfiniteTypeOK
    <3>2. Heir(j)'
      BY <3>1 DEF Heir
    <3> QED
      BY <2>2, <3>2 DEF Keepers
  <2>5. CASE Deliver(j)
    <3>1. row' = row
      BY <2>5 DEF Deliver
    <3>2. CASE row[j] = "RUNNING"
      <4>1. j \in Active'
        BY <3>1, <3>2 DEF Active
      <4> QED
        BY <2>2, <4>1 DEF Keepers
    <3>3. CASE row[j] # "RUNNING"
      <4>1. row[j] = "ENDED" /\ settling'[j] \in {"round", "healthy"}
        BY <1>1, <2>5, <3>3 DEF Deliver, InfiniteTyped, InfiniteTypeOK
      <4>2. Heir(j)'
        BY <3>1, <4>1 DEF Heir
      <4> QED
        BY <2>2, <4>2 DEF Keepers
    <3> QED
      BY <3>2, <3>3
  <2> QED
    BY <2>3, <2>4, <2>5
<1>2. CASE status = "RUNNING"
  BY <1>0, <1>1, <1>2, SlotsStay DEF docs, tasks
<1>3. CASE status # "RUNNING"
  BY <1>0, <1>3 DEF Slots, docs
<1> QED
  BY <1>2, <1>3

LEMMA StartingKeeps ==
  ASSUME InfiniteTyped, InfiniteTyped', Slots, NEW j \in Jobs,
         CountStarted(j) \/ Trim(j) \/ Rotate(j) \/ Elapse(j)
  PROVE  Slots'
<1>1. /\ UNCHANGED <<docs, jobs, settling, refills, run>>
      /\ \A k \in Jobs : rotation[k] = "due" => rotation'[k] = "due"
  BY DEF CountStarted, Trim, Rotate, Starting, Elapse, InfiniteTyped, InfiniteTypeOK, calls
<1>2. \A k \in Jobs : Heir(k) => Heir(k)'
  BY <1>1 DEF Heir, jobs
<1>3. Active' = Active
  BY <1>1 DEF Active, jobs
<1>4. Keepers \subseteq Keepers'
  BY <1>2, <1>3 DEF Keepers
<1> QED
  BY <1>1, <1>4, SlotsStay DEF docs

(* The callback of an end: only its own job may leave.                      *)
LEMMA OnlyOwn ==
  ASSUME InfiniteTyped, InfiniteTyped', NEW j \in Jobs,
         Round(j) \/ RoundToken(j) \/ Healthy(j) \/ Withdraw(j) \/ Fill(j)
  PROVE  /\ Keepers \ {j} \subseteq Keepers' /\ UNCHANGED <<jobs, run>> /\ Active' = Active
         /\ row[j] = "ENDED" /\ row'[j] = "ENDED" /\ writes'[j] = writes[j]
<1>1. /\ UNCHANGED <<jobs, run>> /\ settling[j] # "idle"
      /\ \A k \in Jobs \ {j} : settling'[k] = settling[k]
  BY DEF Round, RoundToken, Healthy, Withdraw, Fill, Settling, InfiniteTyped, InfiniteTypeOK
<1>2. \A k \in Jobs \ {j} : rotation'[k] = rotation[k]
  BY DEF Round, RoundToken, Healthy, Withdraw, Fill, Settling, Withdrawn, InfiniteTyped, InfiniteTypeOK
<1>3. \A k \in Jobs \ {j} : k \in Keepers <=> k \in Keepers'
  BY <1>1, <1>2, OthersKeep DEF jobs
<1>4. row[j] = "ENDED"
  BY <1>1 DEF InfiniteTyped, WritesLeft
<1> QED
  BY <1>1, <1>3, <1>4 DEF Keepers, Active, jobs

LEMMA RoundKeeps ==
  ASSUME InfiniteTyped, InfiniteTyped', Slots, NEW j \in Jobs, Round(j) \/ Withdraw(j)
  PROVE  Slots'
<1>1. /\ Keepers \ {j} \subseteq Keepers' /\ UNCHANGED <<docs, refills, run>>
      /\ row[j] = "ENDED" /\ row'[j] = "ENDED" /\ writes'[j] = writes[j]
  BY OnlyOwn DEF Round, Withdraw
<1>2. j \in Keepers => j \in Keepers'
  <2>1. CASE Round(j)
    <3>1. settling'[j] = "token"
      BY <2>1 DEF Round, Settling, InfiniteTyped, InfiniteTypeOK
    <3> QED
      BY <1>1, <3>1 DEF Keepers, Heir
  <2>2. CASE Withdraw(j)
    <3>1. settling[j] = "withdraw"
      BY <2>2 DEF Withdraw, Settling
    <3>2. j \in Keepers => writes[j] > 0
      BY <1>1, <3>1 DEF Keepers, Heir, Active
    <3> QED
      BY <1>1, <3>2 DEF Keepers, Heir
  <2> QED
    BY <2>1, <2>2
<1> QED
  BY <1>1, <1>2, SlotsStay DEF docs

LEMMA TokenKeeps ==
  ASSUME InfiniteTyped, InfiniteTyped', Slots, NEW j \in Jobs, RoundToken(j)
  PROVE  Slots'
<1>1. Keepers \ {j} \subseteq Keepers' /\ run' = run
  BY OnlyOwn
<1>2. CASE ~RoundTaken
  <2>1. refills' = refills + 1 /\ UNCHANGED <<replicas, taken>> /\ (status' = "RUNNING" => status = "RUNNING")
    BY <1>2 DEF RoundToken
  <2> QED
    BY <1>1, <2>1, SlotsPass
<1>3. CASE RoundTaken
  <2>1. /\ refills' = refills /\ refills > 0 /\ status' = status /\ replicas' = replicas
        /\ taken' = IF taken < replicas THEN taken + 1 ELSE taken
    BY <1>3 DEF RoundToken, RoundTaken
  <2>2. /\ Keepers \in SUBSET Jobs /\ Keepers' \in SUBSET Jobs /\ refills \in Nat
        /\ taken \in 0..replicas /\ replicas \in Nat
    BY AssuredTyped, AssuredAfter
  <2>3. /\ Share(run, Keepers) \in {0, 1} /\ Share(run, Keepers') \in {0, 1}
        /\ Cardinality(Keepers) \in Nat /\ Cardinality(Keepers') \in Nat
    BY <2>2, Weighs
  <2>4. Cardinality(Keepers) + Share(run, Keepers) <= Cardinality(Keepers') + Share(run, Keepers') + 1
    BY <1>1, <2>2, WeighsLess
  <2>5. Assured' = Cardinality(Keepers') + Share(run, Keepers') + refills
    BY <1>1, <2>1 DEF Assured
  <2>6. Assured' >= 1 /\ Assured' \in Nat
    BY <2>1, <2>2, <2>3, <2>5
  <2>7. CASE taken < replicas
    BY <2>1, <2>2, <2>3, <2>4, <2>5, <2>6, <2>7 DEF Slots, Assured
  <2>8. CASE ~(taken < replicas)
    <3>1. taken' = replicas
      BY <2>1, <2>2, <2>8
    <3> QED
      BY <2>1, <2>2, <2>3, <2>5, <2>6, <3>1 DEF Slots, Assured
  <2> QED
    BY <2>7, <2>8
<1> QED
  BY <1>2, <1>3

LEMMA HealthyKeeps ==
  ASSUME InfiniteTyped, InfiniteTyped', Slots, NEW j \in Jobs, Healthy(j)
  PROVE  Slots'
<1>1. /\ Keepers \ {j} \subseteq Keepers' /\ UNCHANGED <<status, replicas, taken, refills, run>> /\ Active' = Active
      /\ row[j] = "ENDED" /\ row'[j] = "ENDED"
  BY OnlyOwn DEF Healthy
<1>2. CASE Count < replicas
  <2>1. settling'[j] = "fill"
    BY <1>2 DEF Healthy, Settling, InfiniteTyped, InfiniteTypeOK
  <2>2. j \in Keepers'
    BY <1>1, <2>1 DEF Keepers, Heir
  <2>3. Keepers \subseteq Keepers'
    BY <1>1, <2>2
  <2> QED
    BY <1>1, <2>3, SlotsStay
<1>3. CASE ~(Count < replicas)
  <2>1. /\ Cardinality(Keepers') >= Count' /\ Count' = Count /\ Cardinality(Keepers') \in Nat
        /\ Share(run', Keepers') \in {0, 1} /\ refills' \in Nat /\ taken' \in 0..replicas
        /\ replicas' = replicas /\ replicas \in Nat /\ replicas > 0 /\ Count \in Nat
    BY <1>1, AssuredTyped, AssuredAfter DEF Count
  <2>2. Assured' >= replicas /\ Assured' \in Nat
    BY <1>3, <2>1 DEF Assured
  <2> QED
    BY <2>1, <2>2 DEF Slots, Assured
<1> QED
  BY <1>2, <1>3

LEMMA FillKeeps ==
  ASSUME InfiniteTyped, InfiniteTyped', Slots, NEW j \in Jobs, Fill(j)
  PROVE  Slots'
<1>1. /\ Keepers \ {j} \subseteq Keepers' /\ UNCHANGED <<docs, run>>
      /\ row[j] = "ENDED" /\ row'[j] = "ENDED"
  BY OnlyOwn DEF Fill
<1>2. CASE rotation[j] # "none"
  <2>1. settling'[j] = "idle" /\ rotation'[j] = "due" /\ refills' = refills
    BY <1>2 DEF Fill, Settling, InfiniteTyped, InfiniteTypeOK
  <2>2. j \in Keepers'
    BY <1>1, <2>1 DEF Keepers, Heir
  <2>3. Keepers \subseteq Keepers'
    BY <1>1, <2>2
  <2> QED
    BY <1>1, <2>1, <2>3, SlotsStay DEF docs
<1>3. CASE rotation[j] = "none" /\ Rotates(j)
  <2>1. run.kind = "rotation" /\ run.job = j /\ refills' = refills
    BY <1>3 DEF Fill, Rotates
  <2>2. /\ Keepers \in SUBSET Jobs /\ Keepers' \in SUBSET Jobs /\ refills \in Nat
        /\ taken \in 0..replicas /\ replicas \in Nat
    BY AssuredTyped, AssuredAfter
  <2>3. /\ Share(run, Keepers) \in {0, 1} /\ Share(run, Keepers') \in {0, 1}
        /\ Cardinality(Keepers) \in Nat /\ Cardinality(Keepers') \in Nat
    BY <2>2, Weighs
  <2>4. Cardinality(Keepers) + Share(run, Keepers) <= Cardinality(Keepers') + Share(run, Keepers')
    BY <1>1, <2>1, <2>2, WeighsLess
  <2>5. Assured' = Cardinality(Keepers') + Share(run, Keepers') + refills
    BY <1>1, <2>1 DEF Assured
  <2> QED
    BY <1>1, <2>2, <2>3, <2>4, <2>5 DEF Slots, Assured, docs
<1>4. CASE rotation[j] = "none" /\ ~Rotates(j)
  <2>1. refills' = refills + 1
    BY <1>4 DEF Fill
  <2> QED
    BY <1>1, <2>1, SlotsPass DEF docs
<1> QED
  BY <1>2, <1>3, <1>4

(* A task takes the lock: a LIST with the slot it keeps, or its job's.      *)
LEMMA BeginKeeps ==
  ASSUME InfiniteTyped, InfiniteTyped', Slots,
         \/ \E j \in Jobs : StopBegins(j) \/ RotationBegins(j)
         \/ TrimBegins \/ RefillBegins
  PROVE  Slots'
<1>0. run = NoRun /\ UNCHANGED <<docs, jobs, calls>>
  BY DEF StopBegins, RotationBegins, TrimBegins, RefillBegins, Begin
<1>1. /\ Keepers \in SUBSET Jobs /\ Keepers' \in SUBSET Jobs /\ refills \in Nat
      /\ taken \in 0..replicas /\ replicas \in Nat
      /\ Cardinality(Keepers) \in Nat /\ Cardinality(Keepers') \in Nat
  BY AssuredTyped, AssuredAfter
<1>2. Share(run, Keepers) = 0
  BY <1>0 DEF Share, NoRun
<1>3. Active' = Active
  BY <1>0 DEF Active, jobs
<1>4. ASSUME rotation' = rotation PROVE Keepers' = Keepers
  BY <1>0, <1>3, <1>4 DEF Keepers, Heir, jobs, calls
<1>5. CASE TrimBegins \/ \E j \in Jobs : StopBegins(j)
  <2>1. run'.kind = "stop" /\ UNCHANGED <<rotation, refills>>
    BY <1>5 DEF TrimBegins, StopBegins, Begin, tasks
  <2>2. Share(run', Keepers') = 0
    BY <2>1 DEF Share
  <2> QED
    BY <1>0, <1>1, <1>2, <1>4, <2>1, <2>2 DEF Slots, Assured, docs
<1>6. CASE RefillBegins
  <2>1. run'.kind = "refill" /\ refills > 0 /\ refills' = refills - 1 /\ rotation' = rotation
    BY <1>6 DEF RefillBegins, Begin
  <2>2. Share(run', Keepers') = 1
    BY <2>1 DEF Share
  <2> QED
    BY <1>0, <1>1, <1>2, <1>4, <2>1, <2>2 DEF Slots, Assured, docs
<1>7. ASSUME NEW j \in Jobs, RotationBegins(j) PROVE Slots'
  <2>1. /\ run'.kind = "rotation" /\ run'.job = j /\ refills' = refills
        /\ \A k \in Jobs \ {j} : rotation'[k] = rotation[k]
    BY <1>7 DEF RotationBegins, Begin, Withdrawn, InfiniteTyped, InfiniteTypeOK
  <2>2. Keepers \ {j} \subseteq Keepers'
    BY <1>0, <1>3, <2>1 DEF Keepers, Heir, jobs, calls
  <2>3. Cardinality(Keepers) + Share(run', Keepers) <= Cardinality(Keepers') + Share(run', Keepers')
    BY <1>1, <2>1, <2>2, WeighsLess
  <2>4. Share(run', Keepers) \in {0, 1} /\ Share(run', Keepers') \in {0, 1}
    BY <1>1, Weighs
  <2> QED
    BY <1>0, <1>1, <1>2, <2>1, <2>3, <2>4 DEF Slots, Assured, docs
<1> QED
  BY <1>5, <1>6, <1>7

(* A LIST posts its job to a row that kept no slot; a STOP's jobs are heirs. *)
LEMMA RunKeeps ==
  ASSUME InfiniteTyped, InfiniteTyped', Slots, Lists \/ Stops
  PROVE  Slots'
<1>0. run' = NoRun /\ UNCHANGED <<docs, calls, tasks>>
  BY DEF Lists, Stops
<1>1. /\ Keepers \in SUBSET Jobs /\ Keepers' \in SUBSET Jobs /\ refills \in Nat
      /\ taken \in 0..replicas /\ replicas \in Nat
      /\ Cardinality(Keepers) \in Nat /\ Cardinality(Keepers') \in Nat /\ Share(run, Keepers) \in {0, 1}
  BY AssuredTyped, AssuredAfter
<1>2. Share(run', Keepers') = 0
  BY <1>0 DEF Share, NoRun
<1>3. CASE Lists
  <2>1. PICK j \in Jobs : Unused(j) /\ row' = [row EXCEPT ![j] = "QUEUED"] /\ writes' = writes
    BY <1>3 DEF Lists
  <2>2. /\ j \notin Active /\ writes[j] = 0 /\ settling[j] = "idle" /\ rotation[j] = "none"
        /\ row'[j] = "QUEUED" /\ \A k \in Jobs \ {j} : row'[k] = row[k]
    BY <2>1 DEF Unused, Quiet, InfiniteTyped, InfiniteTypeOK
  <2>3. j \notin Keepers
    BY <2>2 DEF Keepers, Heir
  <2>4. \A k \in Jobs \ {j} : k \in Keepers <=> k \in Keepers'
    BY <1>0, <2>1, <2>2, OthersKeep DEF calls, tasks
  <2>5. j \in Keepers'
    BY <2>2 DEF Keepers, Active
  <2>6. Keepers = Keepers' \ {j}
    BY <1>1, <2>3, <2>4
  <2>7. Cardinality(Keepers') = Cardinality(Keepers) + 1
    BY <1>1, <2>5, <2>6, Sizes
  <2> QED
    BY <1>0, <1>1, <1>2, <2>7 DEF Slots, Assured, docs, tasks
<1>4. CASE Stops
  <2>1. PICK hit \in SUBSET Active :
          /\ run.kind = "stop"
          /\ row' = [j \in Jobs |-> IF j \in hit THEN "ENDED" ELSE row[j]]
          /\ writes' = [j \in Jobs |-> IF j \in hit THEN writes[j] + 1 ELSE writes[j]]
    BY <1>4 DEF Stops
  <2>2. Share(run, Keepers) = 0
    BY <2>1 DEF Share
  <2>3. hit \in SUBSET Jobs /\ \A k \in Jobs : writes[k] \in Nat
    BY <2>1 DEF Active, InfiniteTyped, InfiniteTypeOK
  <2>4. \A k \in Jobs \ hit : k \in Keepers <=> k \in Keepers'
    BY <1>0, <2>1, <2>3, OthersKeep DEF calls, tasks
  <2>5. \A k \in hit : k \in Keepers'
    BY <2>1, <2>3 DEF Keepers, Heir
  <2>6. Keepers \subseteq Keepers'
    BY <1>1, <2>4, <2>5
  <2>7. Cardinality(Keepers) <= Cardinality(Keepers')
    BY <1>1, <2>6, Sizes
  <2> QED
    BY <1>0, <1>1, <1>2, <2>2, <2>7 DEF Slots, Assured, docs, tasks
<1> QED
  BY <1>3, <1>4

LEMMA InfiniteInitSlots == ASSUME InfiniteInit, InfiniteTyped PROVE Slots
<1>1. PICK S \in SUBSET Jobs :
        Cardinality(S) = replicas /\ row = [j \in Jobs |-> IF j \in S THEN "QUEUED" ELSE "NONE"]
  BY DEF InfiniteInit
<1>2. S \subseteq Keepers
  BY <1>1 DEF Keepers, Active
<1>3. /\ Keepers \in SUBSET Jobs /\ Cardinality(Keepers) \in Nat /\ Share(run, Keepers) \in {0, 1}
      /\ refills \in Nat /\ taken \in 0..replicas /\ replicas \in Nat /\ replicas > 0
  BY AssuredTyped
<1>4. Cardinality(S) <= Cardinality(Keepers)
  BY <1>2, <1>3, Sizes
<1> QED
  BY <1>1, <1>3, <1>4 DEF Slots, Assured

InfiniteInvariant == InfiniteTyped /\ Slots

LEMMA InfiniteHolds == InfiniteSpec => []InfiniteInvariant
<1>1. InfiniteInit => InfiniteInvariant
  BY InfiniteInitTyped, InfiniteInitSlots DEF InfiniteInvariant
<1>2. ASSUME InfiniteInvariant, [InfiniteNext]_infiniteVars PROVE InfiniteInvariant'
  <2>1. InfiniteTyped /\ Slots /\ InfiniteTyped'
    BY <1>2, InfiniteStepTyped DEF InfiniteInvariant
  <2>2. CASE UNCHANGED infiniteVars
    <3>1. Keepers' = Keepers
      BY <2>2 DEF infiniteVars, docs, jobs, calls, tasks, Keepers, Active, Heir
    <3> QED
      BY <2>1, <2>2, <3>1 DEF InfiniteInvariant, Slots, Assured, infiniteVars, docs, tasks
  <2>3. ASSUME NEW j \in Jobs, Take(j) \/ End(j) \/ Callback(j) PROVE Slots'
    BY <2>1, <2>3, RowsKeep, StartingKeeps, RoundKeeps, TokenKeeps, HealthyKeeps, FillKeeps DEF Callback
  <2>4. ASSUME NEW j \in Jobs, Elapse(j) \/ StopBegins(j) \/ RotationBegins(j) PROVE Slots'
    BY <2>1, <2>4, StartingKeeps, BeginKeeps
  <2>5. CASE TrimBegins \/ RefillBegins
    BY <2>1, <2>5, BeginKeeps DEF InfiniteInvariant
  <2>6. CASE Lists \/ Stops
    BY <2>1, <2>6, RunKeeps DEF InfiniteInvariant
  <2> QED
    BY <1>2, <2>1, <2>2, <2>3, <2>4, <2>5, <2>6 DEF InfiniteNext, InfiniteInvariant
<1> QED
  BY <1>1, <1>2, PTL DEF InfiniteSpec

(* No slot of an INFINITE deployment is lost but to a round that takes the   *)
(* refill of another for its own, and never the last one:                    *)
(* infiniteJobStateCompletedOrStopUpdate.                                    *)
THEOREM SlotsAreKept == InfiniteSpec => []SlotsKept
<1>1. InfiniteInvariant => SlotsKept
  <2> SUFFICES ASSUME InfiniteInvariant, status = "RUNNING"
               PROVE  Held >= 1 /\ Held + taken >= replicas
    BY DEF SlotsKept
  <2> DEFINE A == Active
             U == Undecided
             I == Inherited
  <2>1. InfiniteTyped /\ Slots
    BY DEF InfiniteInvariant
  <2>2. A \in SUBSET Jobs /\ U \in SUBSET Jobs /\ I \in SUBSET Jobs /\ Keepers \subseteq A \cup U \cup I
    <3>1. A \in SUBSET Jobs /\ U \in SUBSET Jobs /\ I \in SUBSET Jobs
      BY DEF Active, Undecided, Inherited
    <3>2. \A j \in Jobs : Heir(j) => j \in U \cup I
      BY DEF Heir, Undecided, Inherited
    <3> QED
      BY <3>1, <3>2 DEF Keepers
  <2>3. Cardinality(A) \in Nat /\ Cardinality(U) \in Nat /\ Cardinality(I) \in Nat
    BY <2>2, Sizes
  <2>4. Cardinality(A \cup U) \in Nat /\ Cardinality(A \cup U) <= Cardinality(A) + Cardinality(U)
    BY <2>2, UnionBound
  <2>5. /\ Cardinality((A \cup U) \cup I) \in Nat
        /\ Cardinality((A \cup U) \cup I) <= Cardinality(A \cup U) + Cardinality(I)
    <3>1. A \cup U \in SUBSET Jobs
      BY <2>2
    <3> QED
      BY <2>2, <3>1, UnionBound
  <2>6. Cardinality(Keepers) <= Cardinality((A \cup U) \cup I)
    <3>1. (A \cup U) \cup I \in SUBSET Jobs /\ Keepers \in SUBSET ((A \cup U) \cup I)
      BY <2>2
    <3> QED
      BY <3>1, Sizes
  <2>7. /\ Cardinality(Keepers) \in Nat /\ Share(run, Keepers) \in {0, 1} /\ refills \in Nat
        /\ taken \in 0..replicas /\ replicas \in Nat
    BY <2>1, AssuredTyped
  <2>8. /\ Coming \in Nat /\ Coming >= refills + Share(run, Keepers)
    BY <2>7 DEF Coming, Share
  <2>9. Held = Cardinality(A) + Cardinality(U) + Cardinality(I) + Coming
    BY DEF Held, Count
  <2> HIDE DEF A, U, I
  <2>10. Held >= Assured /\ Held \in Nat /\ Assured \in Nat
    BY <2>3, <2>4, <2>5, <2>6, <2>7, <2>8, <2>9 DEF Assured
  <2> QED
    BY <2>1, <2>7, <2>10 DEF Slots
<1> QED
  BY <1>1, InfiniteHolds, PTL
=============================================================================
