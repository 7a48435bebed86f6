------------------------- MODULE Reservation_proofs -------------------------
(****************************************************************************)
(* Theorems about Reservation, for any nodes, target, tasks, edits and      *)
(* faults: no fill is slept through, the webhook releases nothing its task  *)
(* counts on, nothing stays held for a task that is gone, and the jobs      *)
(* listed and left to list are always the target.                           *)
(****************************************************************************)
EXTENDS Reservation, FiniteSetTheorems, TLAPS

Places == {"idle", "resume", "send", "filled", "post", "settle", "handoff", "handed",
           "finish", "retry", "failed", "park"}
States == {"none", "waiting", "fulfilled", "lapsed", "expired", "cancelled"}

TaskT == [status : {"none", "PENDING", "PROCESSING", "gone"}, limit : Int,
          due : {"now", "cooldown", "renew"}, request : BOOLEAN,
          reservation : SUBSET Nodes, handoff_of : Nat]
RequestT == [status : States, terms : Nat, count : Nat, nodes : SUBSET Nodes]
RunT == [pc : Places, at : Nat, request : BOOLEAN, reservation : SUBSET Nodes, terms : Nat,
         count : Nat, nodes : SUBSET Nodes, answer : States \cup {"conflict", "short"}]

Types ==
  /\ task \in [Tasks -> TaskT] /\ hm \in [Tasks -> RequestT] /\ run \in RunT
  /\ terms \in Nat /\ hooks \subseteq Tasks /\ looking \in Nat

(* A task waits for a fill or has one; only one that waits is parked.        *)
Holder ==
  \A t \in Tasks : /\ task[t].request => task[t].reservation = {}
                   /\ task[t].due = "renew" => task[t].status = "PENDING" /\ task[t].request

(* host-manager knows a task by the request it recorded, and tells the       *)
(* webhook of a fill there is.                                               *)
Requests ==
  \A k \in Tasks :
    /\ hm[k].status # "none" => task[k].status # "none" /\ (Exists(k) => Holds(k))
    /\ Live(k) => hm[k].nodes # {}
    /\ k \in hooks => hm[k].status \notin {"none", "waiting"} /\ hm[k].nodes # {}

(* The task of a run is not claimed by anybody else.                         *)
Claimed == run.pc # "idle" => run.at \in Tasks /\ task[run.at].status \in {"PROCESSING", "gone"}

(* A run that decides what to ask for by what it was claimed with: a task    *)
(* that held nothing holds nothing, one that held something still does.      *)
NotAsked == run.pc = "resume" /\ ~run.request /\ run.reservation = {} => ~Holds(run.at)
Recorded ==
  (run.pc = "resume" /\ run.request) \/ run.pc = "send" => (Exists(run.at) => Holds(run.at))

(* What the webhook found no request for has its nodes, or no task.          *)
Looked ==
  looking # 0 => /\ looking \in Tasks /\ hm[looking].status # "none"
                 /\ Exists(looking) => task[looking].reservation # {}

(* Without a ban, a run's task is there, and what a deletion left is known.  *)
Unbanned ==
  ban.pc = "none" =>
    /\ run.pc # "idle" => Exists(run.at)
    /\ \A k \in Tasks : Live(k) /\ task[k].status = "gone" =>
         k \in cancels \cup hooks \cup missed \/ looking = k

IInv == Holder /\ Requests /\ Claimed /\ NotAsked /\ Recorded /\ Looked /\ Unbanned

------------------------------------------------------------------------------
LEMMA TaskNumbers == Tasks \subseteq Nat /\ 0 \notin Tasks /\ 1 \in Tasks
BY ReservationAssumption DEF Tasks

LEMMA MissingInt == ASSUME Types, NEW t \in Tasks PROVE Missing(t) \in Int
<1>1. IsFiniteSet(Landed(t))
  BY FS_Subset, ReservationAssumption DEF Landed
<1>2. Cardinality(Landed(t)) \in Nat
  BY <1>1, FS_CardinalityType
<1> QED
  BY <1>2 DEF Missing, Types, TaskT

LEMMA SetOf ==
  ASSUME Types, NEW t \in Tasks, NEW doc \in TaskT, Set(t, doc)
  PROVE  /\ task' \in [Tasks -> TaskT]
         /\ \A u \in Tasks : task'[u] = IF u = t /\ Exists(t) THEN doc ELSE task[u]
BY DEF Set, Types

LEMMA DeleteOf ==
  ASSUME Types, NEW S, NEW held, Delete(S, held)
  PROVE  /\ task' \in [Tasks -> TaskT] /\ cancels' = cancels \cup held
         /\ \A u \in Tasks \ S : task'[u] = task[u]
         /\ \A u \in Tasks \cap S : /\ task'[u].status = "gone" /\ task'[u].due = "now"
                                    /\ task'[u].request = FALSE /\ task'[u].reservation = {}
BY DEF Delete, Types, TaskT

LEMMA InitHolds == Init => Types /\ IInv
<1> SUFFICES ASSUME Init PROVE Types /\ IInv
  OBVIOUS
<1>1. /\ \A t \in Tasks : task[t] = IF t = 1 THEN NewTask(Target, "now", 0) ELSE NoTask
      /\ \A t \in Tasks : hm[t] = NoRequest
      /\ run = Idle /\ hooks = {} /\ looking = 0
  BY DEF Init
<1>2. NoTask \in TaskT
  BY DEF NoTask, TaskT
<1>3. NewTask(Target, "now", 0) \in TaskT
  BY ReservationAssumption DEF NewTask, TaskT
<1>4. NoRequest \in RequestT
  BY DEF NoRequest, RequestT, States
<1>5. Idle \in RunT
  BY DEF Idle, RunT, Places, States
<1>6. NewTask(Target, "now", 0) \in TaskT /\ NoTask \in TaskT /\ NoRequest \in RequestT /\ Idle \in RunT
  BY <1>2, <1>3, <1>4, <1>5
<1>7. Types
  BY <1>1, <1>6 DEF Init, Types
<1>8. \A t \in Tasks : task[t].request = FALSE /\ task[t].due = "now" /\ task[t].status # "gone"
  BY <1>1 DEF NewTask, NoTask
<1> QED
  BY <1>1, <1>7, <1>8 DEF Init, IInv, Holder, Requests, Claimed, NotAsked, Recorded, Looked,
     Unbanned, NoRequest, Idle, Live

------------------------------------------------------------------------------
(* A run that moves on, or ends, and does no more than that.                 *)
LEMMA RunMoves ==
  ASSUME Types, IInv, run' \in RunT,
         run'.pc = "idle" \/ (run.pc # "idle" /\ run'.at = run.at /\ run'.pc \notin {"resume", "send"}),
         UNCHANGED <<terms, task, hm, hooks, missed, looking, cancels, ban>>
  PROVE  Types' /\ IInv'
<1>1. Types'
  BY DEF Types
<1>2. Holder' /\ Requests' /\ Looked'
  BY DEF IInv, Holder, Requests, Looked, Exists, Holds, Live
<1>3. Claimed' /\ NotAsked' /\ Recorded'
  BY DEF IInv, Claimed, NotAsked, Recorded
<1>4. Unbanned'
  BY DEF IInv, Unbanned, Exists, Live
<1> QED
  BY <1>1, <1>2, <1>3, <1>4 DEF IInv

(* The status and the due time of one task, and the run, move: what the task *)
(* holds does not.  A task is parked only while it has its request.          *)
LEMMA StatusMoves ==
  ASSUME Types, IInv, NEW t \in Tasks, NEW s \in {"PENDING", "PROCESSING"},
         NEW d \in {"now", "cooldown", "renew"},
         Set(t, [task[t] EXCEPT !.status = s, !.due = d]),
         d = "renew" => s = "PENDING" /\ (Exists(t) => task[t].request),
         run' \in RunT,
         run'.pc # "idle" => /\ run'.at = t /\ s = "PROCESSING" /\ Exists(t) /\ run'.pc = "resume"
                             /\ run'.request = task[t].request
                             /\ run'.reservation = task[t].reservation,
         UNCHANGED <<terms, hm, hooks, missed, looking, cancels, ban>>
  PROVE  Types' /\ IInv'
<1> DEFINE doc == [task[t] EXCEPT !.status = s, !.due = d]
<1>1. /\ doc \in TaskT /\ doc.status = s /\ doc.due = d
      /\ doc.request = task[t].request /\ doc.reservation = task[t].reservation
  BY DEF Types, TaskT
<1>2. /\ task' \in [Tasks -> TaskT]
      /\ \A u \in Tasks : task'[u] = IF u = t /\ Exists(t) THEN doc ELSE task[u]
  BY <1>1, SetOf
<1> HIDE DEF doc
<1>3. /\ \A u \in Tasks : /\ task'[u].request = task[u].request
                          /\ task'[u].reservation = task[u].reservation
                          /\ task'[u].status \in {"PENDING", "PROCESSING"} <=> Exists(u)
                          /\ task'[u].status = "none" <=> task[u].status = "none"
                          /\ task'[u].status = "gone" <=> task[u].status = "gone"
      /\ \A u \in Tasks \ {t} : task'[u] = task[u]
      /\ Exists(t) => task'[t].status = s /\ task'[t].due = d
      /\ ~Exists(t) => task'[t] = task[t]
  BY <1>1, <1>2 DEF Exists
<1>4. Types'
  BY <1>2 DEF Types
<1>5. Holder'
  BY <1>3 DEF IInv, Holder, Types, TaskT
<1>6. Requests' /\ Looked'
  BY <1>3 DEF IInv, Requests, Looked, Exists, Holds, Live
<1>7. Claimed' /\ NotAsked' /\ Recorded'
  BY <1>3 DEF IInv, Claimed, NotAsked, Recorded, Exists, Holds, Holder, Types, TaskT
<1>8. Unbanned'
  BY <1>3 DEF IInv, Unbanned, Exists, Live
<1> QED
  BY <1>4, <1>5, <1>6, <1>7, <1>8 DEF IInv

(* Tasks that wait become due.                                               *)
LEMMA DueMoves ==
  ASSUME Types, IInv, task' \in [Tasks -> TaskT],
         \A u \in Tasks : \/ task'[u] = task[u]
                          \/ task[u].status = "PENDING" /\ task'[u] = [task[u] EXCEPT !.due = "now"],
         UNCHANGED <<terms, hm, hooks, missed, looking, cancels, ban, run>>
  PROVE  Types' /\ IInv'
<1>1. \A u \in Tasks : /\ task'[u].request = task[u].request /\ task'[u].status = task[u].status
                       /\ task'[u].reservation = task[u].reservation
                       /\ task'[u].due = task[u].due \/ task'[u].due = "now"
  BY DEF Types, TaskT
<1>2. Types'
  BY DEF Types
<1>3. Holder'
  BY <1>1 DEF IInv, Holder
<1>4. Requests' /\ Looked'
  BY <1>1 DEF IInv, Requests, Looked, Exists, Holds, Live
<1>5. Claimed' /\ NotAsked' /\ Recorded'
  BY <1>1 DEF IInv, Claimed, NotAsked, Recorded, Exists, Holds
<1>6. \A u \in Tasks : (Exists(u)' <=> Exists(u)) /\ (Live(u)' <=> Live(u))
  BY <1>1 DEF Exists, Live
<1>7. run.at = run'.at /\ (run.pc # "idle" => run.at \in Tasks)
  BY DEF IInv, Claimed
<1>8. Unbanned'
  BY <1>1, <1>6, <1>7 DEF IInv, Unbanned
<1> QED
  BY <1>2, <1>3, <1>4, <1>5, <1>8 DEF IInv

(* host-manager's answers to a request of the run, and what becomes of one   *)
(* that is known: only one that waits is filled, and a fill has nodes.       *)
LEMMA RequestMoves ==
  ASSUME Types, IInv, NEW k \in Tasks, NEW h \in RequestT, hm' = [hm EXCEPT ![k] = h],
         h.status # "none", h.status = "fulfilled" => h.nodes # {},
         hm[k].status \notin {"none", "waiting"} => h.nodes = hm[k].nodes /\ h.status # "waiting",
         hm[k].status # "none" \/ (Exists(k) /\ Holds(k)) \/ (run.pc = "send" /\ run.at = k),
         hooks' = hooks \/ (hooks' = hooks \cup {k} /\ h.status = "fulfilled"),
         h.status = "fulfilled" => \/ hm[k].status = "fulfilled" \/ k \in hooks'
                                   \/ run.pc = "send" /\ run.at = k,
         \/ run' = run
         \/ run' \in RunT /\ run.pc # "idle" /\ run'.at = run.at /\ run'.pc \notin {"resume", "send"},
         UNCHANGED cancels \/ (cancels' = cancels \ {k} /\ h.status # "fulfilled"),
         UNCHANGED <<terms, task, missed, looking, ban>>
  PROVE  Types' /\ IInv'
<1>1. hm' \in [Tasks -> RequestT] /\ \A u \in Tasks : hm'[u] = IF u = k THEN h ELSE hm[u]
  BY DEF Types
<1>2. Types'
  BY <1>1 DEF Types
<1>3. Exists(k) /\ h.status # "none" => Holds(k)
  BY DEF IInv, Requests, Recorded, Types
<1>4. task[k].status # "none"
  BY DEF IInv, Requests, Exists, Claimed, Types
<1>5. Holder'
  BY DEF IInv, Holder
<1>6. Requests'
  BY <1>1, <1>3, <1>4 DEF IInv, Requests, Exists, Holds, Live
<1>7. Looked'
  BY <1>1 DEF IInv, Looked, Exists
<1>8. Claimed' /\ NotAsked' /\ Recorded'
  BY DEF IInv, Claimed, NotAsked, Recorded, Exists, Holds, Types
<1>9. Unbanned'
  BY <1>1 DEF IInv, Unbanned, Exists, Live
<1> QED
  BY <1>2, <1>5, <1>6, <1>7, <1>8, <1>9 DEF IInv

(* Deletions: without a ban, all that is held is cancelled, and no run goes  *)
(* on for what is deleted.                                                   *)
LEMMA Deletions ==
  ASSUME Types, IInv, NEW S \in SUBSET Tasks, NEW held, Delete(S, held),
         \A t \in S : Exists(t),
         ban.pc = "none" => ban'.pc # "none" \/
                            (run'.pc = "idle" /\ \A t \in S : Holds(t) => t \in held),
         ban'.pc = "none" => ban.pc = "none",
         run' = run \/ (run' \in RunT /\ run'.pc = "idle"),
         UNCHANGED <<terms, hm, hooks, missed, looking>>
  PROVE  Types' /\ IInv'
<1>1. /\ task' \in [Tasks -> TaskT] /\ cancels' = cancels \cup held
      /\ \A u \in Tasks \ S : task'[u] = task[u]
      /\ \A u \in S : /\ task'[u].status = "gone" /\ task'[u].due = "now"
                      /\ task'[u].request = FALSE /\ task'[u].reservation = {}
  BY DeleteOf
<1>2. Types'
  BY <1>1 DEF Types
<1>3. Holder'
  BY <1>1 DEF IInv, Holder
<1>4. \A u \in Tasks : task[u].status # "none" => task'[u].status # "none"
  BY <1>1
<1>5. \A u \in Tasks : Exists(u)' => u \notin S /\ task'[u] = task[u]
  BY <1>1 DEF Exists
<1>6. Requests'
  BY <1>4, <1>5 DEF IInv, Requests, Exists, Holds, Live
<1>7. Looked'
  BY <1>5 DEF IInv, Looked, Exists
<1>8. Claimed' /\ NotAsked' /\ Recorded'
  BY <1>1, <1>5 DEF IInv, Claimed, NotAsked, Recorded, Exists, Holds
<1>9. Unbanned'
  BY <1>1 DEF IInv, Unbanned, Exists, Live, Requests
<1> QED
  BY <1>2, <1>3, <1>6, <1>7, <1>8, <1>9 DEF IInv

------------------------------------------------------------------------------
(* The actions.                                                              *)

LEMMA RunAt == ASSUME Types, IInv, run.pc # "idle"
               PROVE  run.at \in Tasks /\ (Exists(run.at) => task[run.at].status = "PROCESSING")
BY DEF IInv, Claimed, Exists

LEMMA Goes ==
  ASSUME Types, NEW pc \in Places, Goto(pc)
  PROVE  /\ run' \in RunT /\ run'.at = run.at /\ run'.pc = pc
         /\ run'.request = run.request /\ run'.reservation = run.reservation
BY DEF Goto, Types, RunT

LEMMA Stopped == Idle \in RunT /\ Idle.pc = "idle"
BY DEF Idle, RunT, Places, States

LEMMA ClaimSteps == ASSUME Types, IInv, NEW t \in Tasks, Claim(t) PROVE Types' /\ IInv'
<1>1. run.pc = "idle" /\ task[t].status = "PENDING" /\ Exists(t)
  BY DEF Claim, At, Exists
<1>2. CASE wanted \/ InFlight(t)
  <2> DEFINE r == [Idle EXCEPT !.pc = "resume", !.at = t, !.terms = terms,
                    !.request = task[t].request, !.reservation = task[t].reservation]
  <2>1. /\ r \in RunT /\ r.pc = "resume" /\ r.at = t /\ r.request = task[t].request
        /\ r.reservation = task[t].reservation
    BY TaskNumbers DEF Idle, RunT, Places, States, Types, TaskT
  <2> HIDE DEF r
  <2>2. Set(t, [task[t] EXCEPT !.status = "PROCESSING"]) /\ run' = r
        /\ UNCHANGED <<terms, hm, hooks, missed, looking, cancels, ban>>
    BY <1>2 DEF Claim, r
  <2>3. task[t].due = "now"
    BY DEF Claim
  <2>4. [task[t] EXCEPT !.status = "PROCESSING"] = [task[t] EXCEPT !.status = "PROCESSING", !.due = "now"]
    BY <2>3 DEF Types, TaskT
  <2> QED
    BY <1>1, <2>1, <2>2, <2>4, StatusMoves
<1>3. CASE ~(wanted \/ InFlight(t))
  <2>1. /\ Delete({t}, {u \in {t} : Holds(u)})
        /\ UNCHANGED <<terms, hm, hooks, missed, looking, ban, run>>
    BY <1>1, <1>3 DEF Claim, Remove
  <2> QED
    BY <1>1, <2>1, Deletions
<1> QED
  BY <1>2, <1>3

LEMMA ReuseMoves == ASSUME Types, Reuse
                    PROVE  run' \in RunT /\ run'.at = run.at /\ run'.pc \in {"post", "handoff"}
<1>1. CASE \E S \in SUBSET run.reservation : run' = [run EXCEPT !.pc = "post", !.nodes = S]
  BY <1>1 DEF Types, RunT, Places
<1>2. CASE run' = [run EXCEPT !.pc = "handoff", !.answer = "lapsed"]
  BY <1>2 DEF Types, RunT, Places, States
<1> QED
  BY <1>1, <1>2 DEF Reuse, kSubset

(* The request is recorded before it is sent.                                *)
LEMMA AskSteps ==
  ASSUME Types, IInv, NEW c \in Nat, run.pc = "resume", run.reservation = {}, Ask(c),
         UNCHANGED <<terms, hm, hooks, missed, looking, cancels, ban>>
  PROVE  Types' /\ IInv'
<1>1. /\ run' \in RunT /\ run'.at = run.at /\ run'.pc = "send"
  BY DEF Ask, Types, RunT, Places
<1>2. run.at \in Tasks
  BY RunAt
<1>3. CASE run.request
  <2>1. UNCHANGED task
    BY <1>3 DEF Ask
  <2>2. Types'
    BY <1>1, <2>1 DEF Types
  <2>3. Holder' /\ Requests' /\ Looked'
    BY <2>1 DEF IInv, Holder, Requests, Looked, Exists, Holds, Live
  <2>4. Claimed' /\ NotAsked' /\ Recorded'
    BY <1>1, <1>3, <2>1 DEF IInv, Claimed, NotAsked, Recorded, Exists, Holds
  <2>5. Unbanned'
    BY <1>1, <2>1 DEF IInv, Unbanned, Exists, Live
  <2> QED
    BY <2>2, <2>3, <2>4, <2>5 DEF IInv
<1>4. CASE ~run.request
  <2> DEFINE doc == [task[run.at] EXCEPT !.request = TRUE]
  <2>1. task[run.at] \in TaskT
    BY <1>2 DEF Types
  <2>2. /\ doc \in TaskT /\ doc.request = TRUE /\ doc.status = task[run.at].status
        /\ doc.due = task[run.at].due /\ doc.reservation = task[run.at].reservation
    <3>1. doc \in TaskT
      BY <2>1 DEF TaskT
    <3>2. doc.request = TRUE
      BY <2>1, Zenon DEF TaskT
    <3>3. doc.status = task[run.at].status /\ doc.due = task[run.at].due
          /\ doc.reservation = task[run.at].reservation
      BY <2>1 DEF TaskT
    <3> QED
      BY <3>1, <3>2, <3>3, Zenon
  <2>3. /\ task' \in [Tasks -> TaskT]
        /\ \A u \in Tasks : task'[u] = IF u = run.at /\ Exists(run.at) THEN doc ELSE task[u]
    BY <1>2, <1>4, <2>2, SetOf DEF Ask
  <2> HIDE DEF doc
  <2>4. ~Holds(run.at)
    BY <1>4 DEF IInv, NotAsked
  <2>5. \A u \in Tasks : /\ task'[u].status = task[u].status /\ task'[u].due = task[u].due
                          /\ task'[u].reservation = task[u].reservation
    BY <1>2, <2>2, <2>3
  <2>6. \A u \in Tasks : task'[u].request = task[u].request \/ task'[u].request = TRUE
    BY <1>2, <2>2, <2>3
  <2>7. \A u \in Tasks : (Exists(u)' <=> Exists(u)) /\ (Live(u)' <=> Live(u))
    BY <2>5 DEF Exists, Live
  <2>8. \A u \in Tasks : Holds(u) => Holds(u)'
    BY <2>5, <2>6, Zenon DEF Holds
  <2>9. \A u \in Tasks \ {run.at} : task'[u] = task[u]
    BY <2>3
  <2>10. Exists(run.at) => Holds(run.at)' /\ task[run.at].reservation = {}
    <3>1. ASSUME Exists(run.at) PROVE task'[run.at].request
      BY <1>2, <2>2, <2>3, <3>1
    <3>2. task[run.at].reservation = {}
      BY <2>4 DEF Holds
    <3>3. (run.at)' = run.at
      BY <1>1
    <3> QED
      BY <3>1, <3>2, <3>3 DEF Holds
  <2>11. ~Exists(run.at) => task'[run.at] = task[run.at]
    BY <1>2, <2>3
  <2>12. Types'
    BY <1>1, <2>3 DEF Types
  <2>13. Holder'
    <3>1. Exists(run.at) => task[run.at].status = "PROCESSING"
      BY RunAt, <1>2
    <3> QED
      BY <2>5, <2>7, <2>9, <2>10, <2>11, <3>1 DEF IInv, Holder, Exists
  <2>14. Requests' /\ Looked'
    BY <2>5, <2>7, <2>8 DEF IInv, Requests, Looked
  <2>15. Claimed' /\ NotAsked' /\ Recorded'
    BY <1>1, <1>2, <2>5, <2>7, <2>8, <2>10 DEF IInv, Claimed, NotAsked, Recorded
  <2>16. Unbanned'
    BY <1>1, <1>2, <2>5, <2>7, <2>8, <2>10 DEF IInv, Unbanned
  <2> QED
    BY <2>12, <2>13, <2>14, <2>15, <2>16 DEF IInv
<1> QED
  BY <1>3, <1>4

LEMMA PrepareSteps == ASSUME Types, IInv, Prepare PROVE Types' /\ IInv'
<1>1. run.pc = "resume" /\ UNCHANGED <<terms, hm, hooks, missed, looking, cancels, ban>>
  BY DEF Prepare, At
<1>2. CASE \E pc \in {"finish", "retry", "failed"} : Goto(pc) /\ UNCHANGED task
  <2>1. PICK pc \in {"finish", "retry", "failed"} : Goto(pc) /\ UNCHANGED task
    BY <1>2
  <2>2. run' \in RunT /\ run'.at = run.at /\ run'.pc = pc
    BY <2>1, Goes DEF Places
  <2> QED
    BY <1>1, <2>1, <2>2, RunMoves
<1>3. CASE Reuse /\ UNCHANGED task
  BY <1>1, <1>3, ReuseMoves, RunMoves
<1>4. CASE run.reservation = {} /\ \E c \in Nat : Ask(c)
  BY <1>1, <1>4, AskSteps
<1>5. \A f \in Funds(Missing(run.at)) : f.count \in Nat
  BY RunAt, <1>1, MissingInt DEF Funds
<1> QED
  BY <1>2, <1>3, <1>4, <1>5 DEF Prepare

LEMMA FreeNodes == Free \subseteq Nodes
BY DEF Free

(* host-manager answers a first request or one that waits; it replays what   *)
(* else it knows.                                                            *)
LEMMA AnswerIs ==
  ASSUME Types, IInv, run.at \in Tasks, NEW a \in Answers(run.at)
  PROVE  /\ a[1] \in States \cup {"conflict"} /\ a[2] \in RequestT
         /\ \/ a[2] = hm[run.at] /\ hm[run.at].status # "none"
            \/ /\ hm[run.at].status \in {"none", "waiting"} /\ a[2].status \in {"waiting", "fulfilled"}
               /\ a[2].status = "fulfilled" => a[2].nodes # {}
<1> DEFINE new == [status |-> "waiting", terms |-> run.terms, count |-> run.count, nodes |-> {}]
           open == {new} \cup {[new EXCEPT !.status = "fulfilled", !.nodes = S] :
                                 S \in {F \in SUBSET Free : F # {} /\ Cardinality(F) <= run.count}}
<1>1. ASSUME NEW h \in open
      PROVE  /\ h \in RequestT /\ h.status \in {"waiting", "fulfilled"}
             /\ h.status = "fulfilled" => h.nodes # {}
  <2>1. new \in RequestT /\ new.status = "waiting"
    BY DEF Types, RunT, RequestT, States
  <2>2. ASSUME NEW S \in SUBSET Free, S # {}, h = [new EXCEPT !.status = "fulfilled", !.nodes = S]
        PROVE  h \in RequestT /\ h.status = "fulfilled" /\ h.nodes # {}
    BY <2>1, <2>2, FreeNodes DEF RequestT, States
  <2>3. h = new \/ \E S \in SUBSET Free : S # {} /\ h = [new EXCEPT !.status = "fulfilled", !.nodes = S]
    OBVIOUS
  <2> HIDE DEF new, open
  <2>4. CASE h = new
    BY <2>1, <2>4
  <2> QED
    BY <2>2, <2>3, <2>4
<1>2. hm[run.at] \in RequestT
  BY DEF Types
<1> HIDE DEF new, open
<1>3. CASE hm[run.at].status \in {"none", "waiting"} /\ \E h \in open : a = <<h.status, h>>
  BY <1>1, <1>3 DEF States
<1>4. CASE hm[run.at].status # "none" /\ a[2] = hm[run.at] /\ a[1] \in {"conflict", hm[run.at].status}
  BY <1>2, <1>4 DEF RequestT
<1>5. \/ hm[run.at].status \in {"none", "waiting"} /\ \E h \in open : a = <<h.status, h>>
      \/ hm[run.at].status # "none" /\ a[2] = hm[run.at] /\ a[1] \in {"conflict", hm[run.at].status}
  <2> DEFINE same == hm[run.at].terms = run.terms /\ hm[run.at].count = run.count
  <2>0. Answers(run.at) =
          CASE hm[run.at].status = "none" -> {<<h.status, h>> : h \in open}
            [] hm[run.at].status # "none" /\ ~same -> {<<"conflict", hm[run.at]>>}
            [] hm[run.at].status = "waiting" /\ same -> {<<h.status, h>> : h \in open}
            [] OTHER -> {<<hm[run.at].status, hm[run.at]>>}
    BY DEF Answers, new, open
  <2> HIDE DEF same
  <2>1. CASE hm[run.at].status = "none"
    BY <2>0, <2>1
  <2>2. CASE hm[run.at].status # "none" /\ ~same
    BY <2>0, <2>2
  <2>3. CASE hm[run.at].status = "waiting" /\ same
    BY <2>0, <2>3
  <2>4. CASE hm[run.at].status \notin {"none", "waiting"} /\ same
    BY <2>0, <2>4
  <2> QED
    BY <2>1, <2>2, <2>3, <2>4
<1> QED
  BY <1>3, <1>4, <1>5

LEMMA SendSteps == ASSUME Types, IInv, Send PROVE Types' /\ IInv'
<1>1. /\ run.pc = "send" /\ run.at \in Tasks
      /\ UNCHANGED <<terms, task, hooks, missed, looking, cancels, ban>>
  BY RunAt DEF Send, At
<1>2. CASE \E error \in Errors : Goto(Failure(error)) /\ UNCHANGED hm
  <2>1. PICK error \in Errors : Goto(Failure(error)) /\ UNCHANGED hm
    BY <1>2
  <2>2. Failure(error) \in {"retry", "handoff", "failed"}
    BY DEF Failure, Errors
  <2> QED
    BY <1>1, <2>1, <2>2, Goes, RunMoves DEF Places
<1>3. CASE \E a \in Answers(run.at) :
             /\ hm' = [hm EXCEPT ![run.at] = a[2]]
             /\ \/ run' = [run EXCEPT !.answer = a[1],
                          !.pc = CASE a[1] = "waiting" -> "park"
                                   [] a[1] = "fulfilled" -> "filled"
                                   [] a[1] = "conflict" -> Failure(a[1])
                                   [] OTHER -> "handoff"]
                \/ Goto(Failure("no response"))
  <2>1. PICK a \in Answers(run.at) :
             /\ hm' = [hm EXCEPT ![run.at] = a[2]]
             /\ \/ run' = [run EXCEPT !.answer = a[1],
                          !.pc = CASE a[1] = "waiting" -> "park"
                                   [] a[1] = "fulfilled" -> "filled"
                                   [] a[1] = "conflict" -> Failure(a[1])
                                   [] OTHER -> "handoff"]
                \/ Goto(Failure("no response"))
    BY <1>3
  <2>2. Failure("conflict") = "handoff" /\ Failure("no response") = "retry"
    BY DEF Failure
  <2>3. run' \in RunT /\ run'.at = run.at /\ run'.pc \in {"park", "filled", "handoff", "retry"}
    <3>1. CASE Goto(Failure("no response"))
      BY <2>2, <3>1, Goes DEF Places
    <3>2. CASE \E pc \in {"park", "filled", "handoff"} : run' = [run EXCEPT !.answer = a[1], !.pc = pc]
      BY <1>1, <3>2, AnswerIs DEF Types, RunT, Places
    <3> QED
      BY <2>1, <2>2, <3>1, <3>2
  <2>4. a[2] \in RequestT
    BY <1>1, AnswerIs
  <2>5. /\ a[2].status # "none" /\ (a[2].status = "fulfilled" => a[2].nodes # {})
        /\ hm[run.at].status \notin {"none", "waiting"} =>
             a[2].nodes = hm[run.at].nodes /\ a[2].status # "waiting"
    BY <1>1, AnswerIs DEF IInv, Requests, Live
  <2> QED
    BY <1>1, <2>1, <2>3, <2>4, <2>5, RequestMoves
<1> QED
  BY <1>2, <1>3 DEF Send

(* The run finds its task's fill, or the webhook brings it.                  *)
LEMMA FillArrives ==
  ASSUME Types, IInv, NEW k \in Tasks, hm[k].nodes # {}, Exists(k),
         hooks' \subseteq hooks, hooks \ {k} \subseteq hooks',
         \/ /\ Set(k, [task[k] EXCEPT !.request = FALSE, !.reservation = hm[k].nodes])
            /\ run.at = k /\ run.pc = "filled" /\ run' \in RunT /\ run'.at = k
            /\ run'.pc \notin {"resume", "send"}
         \/ /\ Set(k, [task[k] EXCEPT !.request = FALSE, !.due = "now", !.reservation = hm[k].nodes])
            /\ run' = run /\ task[k].request,
         UNCHANGED <<terms, hm, missed, looking, cancels, ban>>
  PROVE  Types' /\ IInv'
<1> DEFINE byRun == [task[k] EXCEPT !.request = FALSE, !.reservation = hm[k].nodes]
           byHook == [task[k] EXCEPT !.request = FALSE, !.due = "now", !.reservation = hm[k].nodes]
<1>1. /\ byRun \in TaskT /\ byRun.status = task[k].status /\ byRun.due = task[k].due
      /\ byHook \in TaskT /\ byHook.status = task[k].status /\ byHook.due = "now"
      /\ byRun.reservation = hm[k].nodes /\ byHook.reservation = hm[k].nodes
  BY DEF Types, TaskT, RequestT
<1>2. byRun.request = FALSE /\ byHook.request = FALSE
  BY DEF Types, TaskT
<1>3. \/ Set(k, byRun) /\ run.at = k /\ run.pc = "filled" /\ run' \in RunT /\ run'.at = k
         /\ run'.pc \notin {"resume", "send"}
      \/ Set(k, byHook) /\ run' = run /\ task[k].request
  OBVIOUS
<1> HIDE DEF byRun, byHook
<1>4. /\ task' \in [Tasks -> TaskT] /\ task'[k].status = task[k].status
      /\ task'[k].reservation = hm[k].nodes
      /\ \A u \in Tasks \ {k} : task'[u] = task[u]
      /\ task'[k].due = "now" \/ (task'[k].due = task[k].due /\ run.at = k /\ run.pc = "filled")
  BY <1>1, <1>3, SetOf
<1>5. task'[k].request = FALSE
  BY <1>1, <1>2, <1>3, SetOf
<1>6. run' \in RunT /\ run'.at = run.at /\ (run.pc # "idle" <=> run'.pc # "idle" \/ run.pc = "filled")
  BY <1>3 DEF Types
<1>7. Types'
  BY <1>4, <1>6 DEF Types
<1>8. Holder'
  <2>1. run.at = k /\ run.pc = "filled" => task[k].status = "PROCESSING"
    BY RunAt
  <2>2. task'[k].due # "renew"
    BY <1>4, <2>1 DEF IInv, Holder
  <2> QED
    BY <1>4, <1>5, <2>2 DEF IInv, Holder
<1>9. \A u \in Tasks : /\ task'[u].status = task[u].status
                       /\ Exists(u)' <=> Exists(u)
                       /\ Live(u)' <=> Live(u)
                       /\ hm'[u] = hm[u]
  BY <1>4 DEF Exists, Live
<1>10. \A u \in Tasks : Holds(u) => Holds(u)'
  BY <1>4 DEF Holds
<1>11. Requests' /\ Looked'
  BY <1>4, <1>9, <1>10 DEF IInv, Requests, Looked
<1>12. Claimed'
  BY <1>6, <1>9 DEF IInv, Claimed
<1>13. NotAsked'
  <2>1. ASSUME run'.pc = "resume" PROVE run' = run /\ task[k].request
    BY <1>3, <2>1
  <2>2. ASSUME run'.pc = "resume", ~run'.request, run'.reservation = {} PROVE run.at # k /\ ~Holds(run.at) /\ run.at \in Tasks
    BY <2>1, <2>2, RunAt DEF IInv, NotAsked, Holds
  <2> QED
    BY <1>4, <1>6, <2>2 DEF NotAsked, Holds
<1>14. Recorded'
  <2>1. run'.pc \in {"resume", "send"} => run' = run /\ run.at \in Tasks
    BY <1>3, RunAt
  <2> QED
    BY <1>9, <1>10, <2>1 DEF IInv, Recorded
<1>15. Unbanned'
  BY <1>6, <1>9, RunAt DEF IInv, Unbanned, Exists
<1> QED
  BY <1>7, <1>8, <1>11, <1>12, <1>13, <1>14, <1>15 DEF IInv

LEMMA FilledSteps == ASSUME Types, IInv, Filled PROVE Types' /\ IInv'
<1>1. /\ run.pc = "filled" /\ run.at \in Tasks
      /\ UNCHANGED <<terms, hm, hooks, missed, looking, cancels, ban>>
  BY RunAt DEF Filled, At
<1>2. CASE ~Live(run.at)
  BY <1>1, <1>2, Goes, RunMoves DEF Filled, Places
<1>3. CASE Live(run.at)
  <2>1. /\ Set(run.at, [task[run.at] EXCEPT !.request = FALSE, !.reservation = hm[run.at].nodes])
        /\ run' = [run EXCEPT !.pc = "post", !.nodes = hm[run.at].nodes]
    BY <1>3 DEF Filled
  <2>2. run' \in RunT /\ run'.at = run.at /\ run'.pc = "post"
    BY <1>1, <2>1 DEF Types, RunT, RequestT, Places
  <2>3. hm[run.at].nodes # {}
    BY <1>1, <1>3 DEF IInv, Requests
  <2>4. CASE Exists(run.at)
    BY <1>1, <2>1, <2>2, <2>3, <2>4, FillArrives
  <2>5. CASE ~Exists(run.at)
    BY <1>1, <2>1, <2>2, <2>5, RunMoves DEF Set
  <2> QED
    BY <2>4, <2>5
<1> QED
  BY <1>2, <1>3

LEMMA PostSteps == ASSUME Types, IInv, Post \/ Settle PROVE Types' /\ IInv'
<1>1. run.pc # "idle" /\ UNCHANGED <<terms, task, hm, hooks, missed, looking, cancels, ban>>
  BY DEF Post, Settle, At
<1>2. CASE \E pc \in {"settle", "finish", "retry"} : Goto(pc)
  BY <1>1, <1>2, Goes, RunMoves DEF Places
<1>3. CASE run' = [run EXCEPT !.pc = "handoff", !.answer = "short"]
  <2>1. run' \in RunT /\ run'.at = run.at /\ run'.pc = "handoff"
    BY <1>3 DEF Types, RunT, Places
  <2> QED
    BY <1>1, <2>1, RunMoves
<1> QED
  BY <1>2, <1>3 DEF Post, Settle

(* A new LIST holds nothing, and host-manager has not heard of it.           *)
LEMMA HandOffSteps == ASSUME Types, IInv, HandOff PROVE Types' /\ IInv'
<1>1. /\ run.pc = "handoff" /\ run.at \in Tasks /\ Goto("handed")
      /\ UNCHANGED <<terms, hm, hooks, missed, looking, cancels, ban>>
  BY RunAt DEF HandOff, At
<1>2. run' \in RunT /\ run'.at = run.at /\ run'.pc = "handed"
  BY <1>1, Goes DEF Places
<1>3. CASE UNCHANGED task
  BY <1>1, <1>2, <1>3, RunMoves
<1>4. ASSUME NEW u \in Tasks, NEW d \in {"cooldown", "now"}, task[u].status = "none",
             task' = [task EXCEPT ![u] = NewTask(Missing(run.at), d, run.at)]
      PROVE  Types' /\ IInv'
  <2> DEFINE doc == NewTask(Missing(run.at), d, run.at)
  <2>1. /\ doc \in TaskT /\ doc.status = "PENDING" /\ doc.due = d
        /\ doc.request = FALSE /\ doc.reservation = {}
    BY <1>1, MissingInt, TaskNumbers DEF NewTask, TaskT
  <2> HIDE DEF doc
  <2>2. task' \in [Tasks -> TaskT] /\ task'[u] = doc /\ \A t \in Tasks \ {u} : task'[t] = task[t]
    BY <1>4, <2>1 DEF doc, Types
  <2>3. hm[u].status = "none" /\ looking # u /\ run.at # u
    BY <1>1, <1>4, TaskNumbers DEF IInv, Requests, Looked, Claimed
  <2>4. Types'
    BY <1>1, <1>2, <2>2 DEF Types
  <2>5. Holder'
    BY <2>1, <2>2 DEF IInv, Holder
  <2>6. \A t \in Tasks \ {u} : (Exists(t)' <=> Exists(t)) /\ (Holds(t)' <=> Holds(t))
    BY <2>2 DEF Exists, Holds
  <2>7. Requests'
    BY <1>1, <2>1, <2>2, <2>3, <2>6 DEF IInv, Requests, Live
  <2>8. Claimed' /\ NotAsked' /\ Recorded' /\ Looked'
    BY <1>1, <1>2, <2>2, <2>3, <2>6 DEF IInv, Claimed, NotAsked, Recorded, Looked
  <2>9. Unbanned'
    BY <1>1, <1>2, <2>1, <2>2, <2>3, <2>6 DEF IInv, Unbanned, Live
  <2> QED
    BY <2>4, <2>5, <2>7, <2>8, <2>9 DEF IInv
<1> QED
  BY <1>3, <1>4 DEF HandOff

LEMMA EndSteps == ASSUME Types, IInv, Fail \/ Finish \/ Retry \/ Park \/ Crash PROVE Types' /\ IInv'
<1>1. run.pc # "idle" /\ run.at \in Tasks
  BY RunAt DEF Fail, Finish, Retry, Park, Crash, At
<1>2. CASE Fail
  BY <1>1, <1>2, Goes, RunMoves DEF Fail, Places
<1>3. CASE Finish
  <2>1. run' = Idle /\ UNCHANGED <<terms, hm, hooks, missed, looking, ban>> /\ Remove(run.at)
    BY <1>3 DEF Finish
  <2>2. CASE Exists(run.at)
    <3>1. Delete({run.at}, {u \in {run.at} : Holds(u)})
      BY <2>1, <2>2 DEF Remove
    <3> QED
      BY <1>1, <2>1, <2>2, <3>1, Stopped, Deletions
  <2>3. CASE ~Exists(run.at)
    BY <2>1, <2>3, Stopped, RunMoves DEF Remove
  <2> QED
    BY <2>2, <2>3
<1>4. CASE Retry \/ Park \/ Crash
  <2>1. \E d \in {"now", "cooldown", "renew"} :
          /\ Set(run.at, [task[run.at] EXCEPT !.status = "PENDING", !.due = d])
          /\ d = "renew" => task[run.at].request
    BY <1>4 DEF Retry, Park, Crash, Release, ParkDue
  <2>2. run' = Idle /\ UNCHANGED <<terms, hm, hooks, missed, looking, cancels, ban>>
    BY <1>4 DEF Retry, Park, Crash, Release
  <2> QED
    BY <1>1, <2>1, <2>2, Stopped, StatusMoves
<1> QED
  BY <1>2, <1>3, <1>4

LEMMA TimerSteps == ASSUME Types, IInv, Resync \/ \E t \in Tasks : Timer(t) PROVE Types' /\ IInv'
<1>1. UNCHANGED <<terms, hm, hooks, missed, looking, cancels, ban, run>>
  BY DEF Resync, Timer
<1>2. \A u \in Tasks : task[u] \in TaskT /\ [task[u] EXCEPT !.due = "now"] \in TaskT
  BY DEF Types, TaskT
<1>3. CASE Resync
  BY <1>1, <1>2, <1>3, DueMoves DEF Resync
<1>4. ASSUME NEW t \in Tasks, Timer(t) PROVE Types' /\ IInv'
  <2>1. task[t].status = "PENDING" /\ Set(t, [task[t] EXCEPT !.due = "now"])
    BY <1>4 DEF Timer
  <2>2. task' \in [Tasks -> TaskT]
        /\ \A u \in Tasks : task'[u] = IF u = t /\ Exists(t) THEN [task[t] EXCEPT !.due = "now"] ELSE task[u]
    BY <1>2, <2>1, SetOf
  <2> QED
    BY <1>1, <2>1, <2>2, DueMoves
<1> QED
  BY <1>3, <1>4

(* What becomes of a request at host-manager.                                *)
LEMMA ManagerSteps ==
  ASSUME Types, IInv, NEW k \in Tasks, Fill(k) \/ Lapse(k) \/ Cancelled(k)
  PROVE  Types' /\ IInv'
<1>0. hm[k] \in RequestT
  BY DEF Types
<1>1. CASE Fill(k)
  <2>1. PICK S \in SUBSET Free : S # {} /\ hm' = [hm EXCEPT ![k].status = "fulfilled", ![k].nodes = S]
    BY <1>1 DEF Fill
  <2> DEFINE h == [hm[k] EXCEPT !.status = "fulfilled", !.nodes = S]
  <2>2. h \in RequestT /\ h.status = "fulfilled" /\ h.nodes # {}
    BY <1>0, <2>1, FreeNodes DEF RequestT, States
  <2>3. hm' = [hm EXCEPT ![k] = h]
    BY <1>0, <2>1 DEF Types, RequestT
  <2> HIDE DEF h
  <2>4. /\ hm[k].status = "waiting" /\ hooks' = hooks \cup {k} /\ run' = run
        /\ UNCHANGED <<terms, task, missed, looking, cancels, ban>>
    BY <1>1 DEF Fill
  <2> QED
    BY <2>2, <2>3, <2>4, RequestMoves
<1>2. CASE Lapse(k)
  <2>1. PICK s \in {"lapsed", "expired"} : hm' = [hm EXCEPT ![k].status = s]
    BY <1>2 DEF Lapse
  <2> DEFINE h == [hm[k] EXCEPT !.status = s]
  <2>2. h \in RequestT /\ h.status = s /\ h.nodes = hm[k].nodes
    BY <1>0 DEF RequestT, States
  <2>3. hm' = [hm EXCEPT ![k] = h]
    BY <1>0, <2>1 DEF Types
  <2> HIDE DEF h
  <2>4. /\ hm[k].status \in {"waiting", "fulfilled"} /\ hooks' = hooks /\ run' = run
        /\ UNCHANGED <<terms, task, missed, looking, cancels, ban>>
    BY <1>2 DEF Lapse, Live
  <2> QED
    BY <2>2, <2>3, <2>4, RequestMoves
<1>3. CASE Cancelled(k) /\ hm[k].status \in {"waiting", "fulfilled"}
  <2> DEFINE h == [hm[k] EXCEPT !.status = "cancelled"]
  <2>1. h \in RequestT /\ h.status = "cancelled" /\ h.nodes = hm[k].nodes
    BY <1>0 DEF RequestT, States
  <2>2. hm' = [hm EXCEPT ![k] = h]
    BY <1>0, <1>3 DEF Cancelled, Types
  <2> HIDE DEF h
  <2>3. /\ hooks' = hooks /\ run' = run /\ cancels' = cancels \ {k}
        /\ UNCHANGED <<terms, task, missed, looking, ban>>
    BY <1>3 DEF Cancelled
  <2> QED
    BY <1>3, <2>1, <2>2, <2>3, RequestMoves
<1>4. CASE Cancelled(k) /\ hm[k].status \notin {"waiting", "fulfilled"}
  <2>1. /\ hm' = hm /\ hooks' = hooks /\ run' = run /\ cancels' = cancels \ {k}
        /\ UNCHANGED <<terms, task, missed, looking, ban>>
    BY <1>4 DEF Cancelled
  <2>2. Types'
    BY <2>1 DEF Types
  <2>3. Holder' /\ Requests' /\ Looked'
    BY <2>1 DEF IInv, Holder, Requests, Looked, Exists, Holds, Live
  <2>4. Claimed' /\ NotAsked' /\ Recorded'
    BY <2>1 DEF IInv, Claimed, NotAsked, Recorded, Exists, Holds
  <2>5. Unbanned'
    BY <1>4, <2>1 DEF IInv, Unbanned, Exists, Live
  <2> QED
    BY <2>2, <2>3, <2>4, <2>5 DEF IInv
<1> QED
  BY <1>1, <1>2, <1>3, <1>4

(* The webhook, and the messages that are lost.                              *)
LEMMA HookSteps ==
  ASSUME Types, IInv, Look \/ \E k \in Tasks : Deliver(k) \/ Miss(k)
  PROVE  Types' /\ IInv'
<1>1. UNCHANGED <<terms, hm, run, ban>>
  BY DEF Look, Deliver, Miss
<1>2. CASE Look
  <2>1. /\ looking # 0 /\ looking' = 0 /\ UNCHANGED <<task, hooks, missed>>
        /\ cancels \subseteq cancels'
        /\ Accepts(looking) \/ looking \in cancels'
    BY <1>2 DEF Look
  <2>2. Types'
    BY <1>1, <2>1 DEF Types
  <2>3. Holder' /\ Requests' /\ Looked'
    BY <1>1, <2>1 DEF IInv, Holder, Requests, Looked, Exists, Holds, Live
  <2>4. Claimed' /\ NotAsked' /\ Recorded'
    BY <1>1, <2>1 DEF IInv, Claimed, NotAsked, Recorded, Exists, Holds
  <2>5. task[looking].status = "gone" => looking \in cancels'
    BY <2>1 DEF Accepts, Exists
  <2>6. Unbanned'
    BY <1>1, <2>1, <2>5 DEF IInv, Unbanned, Exists, Live
  <2> QED
    BY <2>2, <2>3, <2>4, <2>6 DEF IInv
<1>3. ASSUME NEW k \in Tasks, Miss(k) PROVE Types' /\ IInv'
  <2>1. hooks' = hooks \ {k} /\ missed' = missed \cup {k} /\ UNCHANGED <<task, looking, cancels>>
    BY <1>3 DEF Miss
  <2>2. Types'
    BY <1>1, <2>1 DEF Types
  <2>3. Holder' /\ Requests' /\ Looked'
    BY <1>1, <2>1 DEF IInv, Holder, Requests, Looked, Exists, Holds, Live
  <2>4. Claimed' /\ NotAsked' /\ Recorded'
    BY <1>1, <2>1 DEF IInv, Claimed, NotAsked, Recorded, Exists, Holds
  <2>5. Unbanned'
    BY <1>1, <2>1 DEF IInv, Unbanned, Exists, Live
  <2> QED
    BY <2>2, <2>3, <2>4, <2>5 DEF IInv
<1>4. ASSUME NEW k \in Tasks, Deliver(k) PROVE Types' /\ IInv'
  <2>1. /\ k \in hooks /\ looking = 0 /\ UNCHANGED <<missed, cancels>>
        /\ hooks' \subseteq hooks /\ hooks \ {k} \subseteq hooks'
    BY <1>4 DEF Deliver
  <2>2. hm[k].nodes # {} /\ hm[k].status # "none"
    BY <2>1 DEF IInv, Requests
  <2>3. CASE Exists(k) /\ task[k].request
    <3>1. /\ Set(k, [task[k] EXCEPT !.request = FALSE, !.due = "now", !.reservation = hm[k].nodes])
          /\ UNCHANGED looking
      BY <1>4, <2>3 DEF Deliver
    <3> QED
      BY <1>1, <2>1, <2>2, <2>3, <3>1, FillArrives
  <2>4. CASE ~(Exists(k) /\ task[k].request)
    <3>1. looking' = k /\ UNCHANGED task
      BY <1>4, <2>4 DEF Deliver
    <3>2. Exists(k) => task[k].reservation # {}
      BY <2>2, <2>4 DEF IInv, Requests, Holds
    <3>3. Types'
      BY <1>1, <2>1, <3>1, TaskNumbers DEF Types
    <3>4. Holder' /\ Requests' /\ Looked'
      BY <1>1, <2>1, <2>2, <3>1, <3>2 DEF IInv, Holder, Requests, Looked, Exists, Holds, Live
    <3>5. Claimed' /\ NotAsked' /\ Recorded'
      BY <1>1, <3>1 DEF IInv, Claimed, NotAsked, Recorded, Exists, Holds
    <3>6. Unbanned'
      BY <1>1, <2>1, <3>1, TaskNumbers DEF IInv, Unbanned, Exists, Live
    <3> QED
      BY <3>3, <3>4, <3>5, <3>6 DEF IInv
  <2> QED
    BY <2>3, <2>4
<1> QED
  BY <1>2, <1>3, <1>4

(* The sweeps, and what concerns neither a task nor its request.             *)
LEMMA SweepSteps ==
  ASSUME Types, IInv, Sweep \/ BanDelete PROVE Types' /\ IInv'
<1>1. Sweepable \in SUBSET Tasks /\ \A t \in Sweepable : Exists(t)
  BY DEF Sweepable
<1>2. CASE Sweep
  <2>1. /\ run.pc = "idle" /\ Delete(Sweepable, {t \in Sweepable : Holds(t)})
        /\ UNCHANGED <<terms, hm, hooks, missed, looking, run, ban>>
    BY <1>2 DEF Sweep, At
  <2> QED
    BY <1>1, <2>1, Deletions
<1>3. CASE BanDelete
  <2>1. /\ ban.pc = "found" /\ ban'.pc = "deleted" /\ Delete(Sweepable, ban.held)
        /\ UNCHANGED <<terms, hm, hooks, missed, looking, run>>
    BY <1>3 DEF BanDelete
  <2> QED
    BY <1>1, <2>1, Deletions
<1> QED
  BY <1>2, <1>3

LEMMA OtherSteps ==
  ASSUME Types, IInv,
         \/ Stop \/ BanFind \/ BanArchive \/ ChangeTerms \/ UNCHANGED vars
         \/ \E t \in Tasks, n \in Nodes : Chain(t, n)
  PROVE  Types' /\ IInv'
<1>1. UNCHANGED <<task, hm, hooks, missed, looking, cancels, run>>
  BY DEF Stop, BanFind, BanArchive, ChangeTerms, vars, Chain
<1>2. UNCHANGED terms \/ terms' = terms + 1
  BY DEF Stop, BanFind, BanArchive, ChangeTerms, vars, Chain
<1>3. ban'.pc = "none" => ban.pc = "none"
  <2>1. CASE BanArchive
    BY <2>1 DEF BanArchive
  <2>2. CASE ~BanArchive
    BY <2>2 DEF Stop, BanFind, ChangeTerms, vars, Chain
  <2> QED
    BY <2>1, <2>2
<1>4. Types'
  BY <1>1, <1>2 DEF Types
<1>5. Holder' /\ Requests' /\ Looked'
  BY <1>1 DEF IInv, Holder, Requests, Looked, Exists, Holds, Live
<1>6. Claimed' /\ NotAsked' /\ Recorded'
  BY <1>1 DEF IInv, Claimed, NotAsked, Recorded, Exists, Holds
<1>7. Unbanned'
  BY <1>1, <1>3 DEF IInv, Unbanned, Exists, Live
<1> QED
  BY <1>4, <1>5, <1>6, <1>7 DEF IInv

LEMMA StepHolds == Types /\ IInv /\ [Next]_vars => Types' /\ IInv'
BY ClaimSteps, PrepareSteps, SendSteps, FilledSteps, PostSteps, HandOffSteps, EndSteps, TimerSteps,
   ManagerSteps, HookSteps, SweepSteps, OtherSteps DEF Next, RunStep, Messages

------------------------------------------------------------------------------
(* The theorems.                                                             *)

(* A task whose nodes host-manager holds is due now or after a cooldown,     *)
(* never parked until its renewal: the park looks at the request again as it *)
(* releases the task (ParkDue), since the webhook may have filled it during  *)
(* the run.                                                                  *)
THEOREM FillWakes == Spec => []NoFillSleptThrough
<1>1. IInv => NoFillSleptThrough
  BY DEF IInv, Holder, NoFillSleptThrough
<1> QED
  BY <1>1, InitHolds, StepHolds, PTL DEF Spec

(* The webhook answers false, and its caller releases the nodes, only for a  *)
(* task that is gone: delivered twice, late or between two steps of the run, *)
(* a fulfilment finds its task's request or its nodes.                       *)
THEOREM WebhookKeeps == Spec => ReleasedOnlyIfGone
<1>1. ASSUME Types, IInv, [Next]_vars
      PROVE  \A k \in Tasks : looking = k /\ looking' = 0 /\ k \in cancels' \ cancels => ~Exists(k)
  <2> SUFFICES ASSUME NEW k \in Tasks, looking = k, looking' = 0, k \in cancels', k \notin cancels
               PROVE  ~Exists(k)
    OBVIOUS
  <2>1. looking # 0
    BY TaskNumbers
  <2>2. Look
    BY <1>1, <2>1, TaskNumbers DEF Next, RunStep, Messages, vars, Claim, Timer, Fill, Lapse, Miss, Chain,
       Prepare, Send, Filled, Post, Settle, HandOff, Fail, Finish, Retry, Park, Release, Crash, Deliver,
       Cancelled, Resync, ChangeTerms, Stop, Sweep, BanFind, BanDelete, BanArchive
  <2>3. ~Accepts(k)
    BY <2>2 DEF Look
  <2> QED
    BY <1>1, <2>1, <2>3 DEF IInv, Looked, Accepts
<1> QED
  BY <1>1, InitHolds, StepHolds, PTL DEF Spec, ReleasedOnlyIfGone

(* Without a ban's sweep, nodes held for a deleted task are on their way to  *)
(* be released: its deletion cancels what it holds, and a fulfilment that    *)
(* was going is answered with false.                                         *)
THEOREM HeldIsReleased == Spec => []NothingLeftHeld
<1>1. IInv => NothingLeftHeld
  BY DEF IInv, Unbanned, NothingLeftHeld
<1> QED
  BY <1>1, InitHolds, StepHolds, PTL DEF Spec

------------------------------------------------------------------------------
(* What is left to list.                                                     *)

(* The deployment runs on, and no run was lost after its hand-off.           *)
Steady == wanted /\ ban.pc \in {"none", "found"} /\ orphaned = {}
Going  == run.pc # "idle"

Fates == {"none", "signed", "landed", "dead"}

(* A task signs for the nodes it has; one that is handed to another LIST is  *)
(* gone, or about to go.                                                     *)
Backed ==
  /\ \A t \in Tasks : task[t].status = "none" => Used(t) = {}
  /\ \A t \in Tasks : Exists(t) /\ Used(t) # {} => task[t].reservation # {}
InTurn ==
  /\ \A t \in Tasks, n \in Nodes : tx[t][n] = "signed" =>
       Exists(t) /\ (Going /\ run.at = t => run.pc \in {"resume", "settle"})
  /\ \A u, t \in Tasks : task[u].status # "none" /\ task[u].handoff_of = t =>
       task[t].status = "gone" \/ (run.pc = "handed" /\ run.at = t)

(* The run's task is there, it reserves only for a task that has signed      *)
(* nothing, signs only for nodes not signed for yet, and finishes a task     *)
(* that has all its jobs.                                                    *)
OnTrack ==
  Going =>
    /\ Exists(run.at)
    /\ run.reservation # {} \/ run.pc = "post" => task[run.at].reservation # {}
    /\ run.pc \in {"send", "filled"} \/ (run.pc = "resume" /\ run.reservation = {}) => Used(run.at) = {}
    /\ run.pc = "post" => run.nodes \cap Used(run.at) = {}
    /\ run.pc = "finish" => Missing(run.at) = 0

Standers == {t \in Tasks : Standing(t)}
Shares   == [t \in Tasks |-> Missing(t)]
Owed     == SumFunctionOnSet(Shares, Standers)
Work     == Cardinality(Jobs) + Owed

(* What is left to list is one task's.                                       *)
Alone == \A t, u \in Standers : t = u

Sound   == Backed /\ InTurn /\ OnTrack /\ Alone /\ Work = Target
TxTyped == tx \in [Tasks -> [Nodes -> Fates]]
WorkInv == TxTyped /\ (Steady => Sound)

(* What is deleted, archived or lost stays so.                               *)
LEMMA SteadyBefore == ASSUME Types, IInv, [Next]_vars, Steady' PROVE Steady
<1>1. wanted' = wanted \/ wanted' = FALSE
  BY Zenon DEF Next, vars, Claim, Timer, Fill, Lapse, Miss, Chain, RunStep, Prepare, Send, Filled, Post,
     Settle, HandOff, Fail, Finish, Retry, Park, Release, Crash, Messages, Deliver, Cancelled, Look,
     Resync, ChangeTerms, Stop, Sweep, BanFind, BanDelete, BanArchive
<1>2. orphaned' = orphaned \/ orphaned' = orphaned \cup {run.at}
  BY Zenon DEF Next, vars, Claim, Timer, Fill, Lapse, Miss, Chain, RunStep, Prepare, Send, Filled, Post,
     Settle, HandOff, Fail, Finish, Retry, Park, Release, Crash, Messages, Deliver, Cancelled, Look,
     Resync, ChangeTerms, Stop, Sweep, BanFind, BanDelete, BanArchive
<1>3. ban' = ban \/ BanFind \/ BanDelete \/ BanArchive
  BY Zenon DEF Next, vars, Claim, Timer, Fill, Lapse, Miss, Chain, RunStep, Prepare, Send, Filled, Post,
     Settle, HandOff, Fail, Finish, Retry, Park, Release, Crash, Messages, Deliver, Cancelled, Look,
     Resync, ChangeTerms, Stop, Sweep
<1>4. wanted' /\ ban'.pc \in {"none", "found"} => ban.pc \in {"none", "found"}
  <2>1. CASE BanDelete
    BY <2>1 DEF BanDelete
  <2>2. CASE BanFind \/ BanArchive \/ ban' = ban
    BY <2>2 DEF BanFind, BanArchive
  <2> QED
    BY <1>3, <2>1, <2>2
<1>5. wanted' => wanted
  BY <1>1
<1>6. orphaned' = {} => orphaned = {}
  BY <1>2
<1> QED
  BY <1>4, <1>5, <1>6 DEF Steady

(* The sum over nobody, and over one task.                                   *)
LEMMA SumOfOne ==
  ASSUME NEW f, NEW x, f[x] \in Int
  PROVE  SumFunctionOnSet(f, {}) = 0 /\ SumFunctionOnSet(f, {x}) = f[x]
<1> DEFINE First(s) == CHOOSE y \in s : TRUE
           Add(it, S) == [s \in SUBSET S |-> IF s = {} THEN 0 ELSE f[First(s)] + it[s \ {First(s)}]]
           sum(S) == CHOOSE it : it = Add(it, S)
<1>1. \A S : SumFunctionOnSet(f, S) = sum(S)[S]
  BY DEF SumFunctionOnSet, FoldFunctionOnSet, MapThenFoldSet
<1>2. First({x}) = x
  OBVIOUS
<1>3. sum({})[{}] = 0
  <2> DEFINE g == [s \in SUBSET {} |-> 0]
  <2>1. g = Add(g, {})
    OBVIOUS
  <2>2. sum({}) = Add(sum({}), {})
    BY <2>1
  <2> QED
    BY <2>2
<1>4. sum({x})[{x}] = f[x]
  <2> DEFINE g == [s \in SUBSET {x} |-> IF s = {} THEN 0 ELSE f[x]]
  <2>0. \A s \in SUBSET {x} : s # {} => First(s) = x /\ s \ {First(s)} = {}
    <3>1. \A s \in SUBSET {x} : s # {} => s = {x}
      OBVIOUS
    <3> HIDE DEF First
    <3> QED
      BY <1>2, <3>1
  <2> HIDE DEF First
  <2>1. g = Add(g, {x})
    BY <2>0
  <2>2. sum({x}) = Add(sum({x}), {x})
    BY <2>1
  <2>3. {} \in SUBSET {x} /\ {x} \in SUBSET {x} /\ {x} # {}
    OBVIOUS
  <2>4. sum({x})[{}] = 0 /\ sum({x})[{x}] = f[x] + sum({x})[{x} \ {First({x})}]
    <3> DEFINE q == sum({x})
    <3>1. q = Add(q, {x})
      BY <2>2
    <3> HIDE DEF q
    <3> QED
      BY <1>2, <2>3, <3>1 DEF q
  <2>5. {x} \ {First({x})} = {}
    BY <2>0, <2>3
  <2>6. sum({x})[{x}] = f[x] + sum({x})[{}]
    BY <2>4, <2>5
  <2> HIDE DEF sum
  <2> QED
    BY <2>4, <2>6
<1> HIDE DEF sum
<1> QED
  BY <1>1, <1>3, <1>4

LEMMA OwedIs ==
  ASSUME Types
  PROVE  /\ Standers = {} => Owed = 0
         /\ \A t \in Tasks : Standers = {t} => Owed = Missing(t)
<1>1. \A t \in Tasks : Shares[t] = Missing(t) /\ Shares[t] \in Int
  BY MissingInt DEF Shares
<1>2. SumFunctionOnSet(Shares, {}) = 0
  BY <1>1, TaskNumbers, SumOfOne
<1>3. \A t \in Tasks : SumFunctionOnSet(Shares, {t}) = Missing(t)
  BY <1>1, SumOfOne
<1>4. Standers = {} => Owed = 0
  BY <1>2 DEF Owed
<1>5. \A t \in Tasks : Standers = {t} => Owed = Missing(t)
  BY <1>3 DEF Owed
<1> QED
  BY <1>4, <1>5

LEMMA OwedNext ==
  ASSUME Types'
  PROVE  /\ Standers' = {} => Owed' = 0
         /\ \A t \in Tasks : Standers' = {t} => Owed' = Missing(t)'
<1>1. (Types => /\ Standers = {} => Owed = 0
               /\ \A t \in Tasks : Standers = {t} => Owed = Missing(t))'
  BY OwedIs, PTL
<1> QED
  BY <1>1

LEMMA JobsAre == IsFiniteSet(Jobs) /\ Cardinality(Jobs) \in Nat
<1>1. IsFiniteSet(Tasks)
  BY FS_Interval, ReservationAssumption DEF Tasks
<1>2. IsFiniteSet(Tasks \X Nodes)
  BY <1>1, FS_Product, ReservationAssumption
<1>3. Jobs \in SUBSET (Tasks \X Nodes)
  BY DEF Jobs
<1> QED
  BY <1>2, <1>3, FS_Subset, FS_CardinalityType

LEMMA InitWork == Init => WorkInv
<1> SUFFICES ASSUME Init PROVE WorkInv
  OBVIOUS
<1>1. Types
  BY InitHolds
<1>2. /\ tx = [t \in Tasks |-> [n \in Nodes |-> "none"]] /\ run.pc = "idle"
      /\ \A t \in Tasks : task[t] = IF t = 1 THEN NewTask(Target, "now", 0) ELSE NoTask
  BY DEF Init, Idle
<1>3. \A t \in Tasks : Used(t) = {} /\ Landed(t) = {}
  BY <1>2 DEF Used, Landed
<1>4. TxTyped
  BY <1>2 DEF TxTyped, Fates
<1>5. Backed
  BY <1>3 DEF Backed
<1>6. InTurn
  <2>1. \A t \in Tasks, n \in Nodes : tx[t][n] # "signed"
    BY <1>2
  <2>2. ASSUME NEW u \in Tasks PROVE task[u].handoff_of = 0
    <3>1. task[u] = NewTask(Target, "now", 0) \/ task[u] = NoTask
      BY <1>2
    <3> QED
      BY <3>1 DEF NewTask, NoTask
  <2> QED
    BY <2>1, <2>2, TaskNumbers DEF InTurn
<1>7. OnTrack
  BY <1>2 DEF OnTrack, Going
<1>8. Jobs = {}
  BY <1>2 DEF Jobs
<1>9. Standers = {1}
  <2>1. \A t \in Tasks : Standing(t) <=> t = 1
    BY <1>2 DEF Standing, Exists, At, NewTask, NoTask
  <2> QED
    BY <2>1, TaskNumbers DEF Standers
<1>10. Alone
  BY <1>9 DEF Alone
<1>11. Missing(1) = Target
  <2>1. Cardinality(Landed(1)) = 0
    BY <1>3, TaskNumbers, FS_EmptySet
  <2> QED
    BY <1>2, <2>1, TaskNumbers, ReservationAssumption DEF Missing, NewTask
<1>12. Work = Target
  <2>1. Cardinality(Jobs) = 0
    BY <1>8, FS_EmptySet
  <2>2. Owed = Target
    BY <1>1, <1>9, <1>11, TaskNumbers, OwedIs
  <2> QED
    BY <2>1, <2>2, ReservationAssumption DEF Work
<1> QED
  BY <1>4, <1>5, <1>6, <1>7, <1>10, <1>12 DEF WorkInv, Sound

(* A step that keeps the transactions, and of every task its place, limit    *)
(* and source, and takes no nodes from it.                                   *)
KeepsTask(t) ==
  /\ task'[t].status \in {"PENDING", "PROCESSING"} <=> task[t].status \in {"PENDING", "PROCESSING"}
  /\ task'[t].status = "none" <=> task[t].status = "none"
  /\ task'[t].status = "gone" <=> task[t].status = "gone"
  /\ task'[t].limit = task[t].limit /\ task'[t].handoff_of = task[t].handoff_of
  /\ task[t].reservation # {} => task'[t].reservation # {}
Keeps == tx' = tx /\ \A t \in Tasks : KeepsTask(t)

LEMMA SetKeeps ==
  ASSUME Types, NEW t \in Tasks, NEW doc \in TaskT, Set(t, doc), tx' = tx,
         Exists(t) => /\ doc.status \in {"PENDING", "PROCESSING"} /\ doc.limit = task[t].limit
                      /\ doc.handoff_of = task[t].handoff_of
                      /\ task[t].reservation # {} => doc.reservation # {}
  PROVE  Keeps
<1>1. \A u \in Tasks : task'[u] = IF u = t /\ Exists(t) THEN doc ELSE task[u]
  BY SetOf
<1>2. ASSUME NEW u \in Tasks PROVE KeepsTask(u)
  <2>1. CASE u = t /\ Exists(t)
    BY <1>1, <2>1 DEF Exists, KeepsTask
  <2>2. CASE ~(u = t /\ Exists(t))
    BY <1>1, <2>2 DEF Exists, KeepsTask
  <2> QED
    BY <2>1, <2>2
<1> QED
  BY <1>2 DEF Keeps

(* Such a step keeps the work, as long as a run is not handing off.          *)
LEMMA WorkKept ==
  ASSUME Keeps, \A t \in Tasks : Standing(t)' <=> Standing(t)
  PROVE  Work' = Work /\ (Alone => Alone')
<1>1. \A t \in Tasks : Missing(t)' = Missing(t)
  BY DEF Keeps, KeepsTask, Missing, Landed
<1>2. Jobs' = Jobs /\ Standers' = Standers
  BY DEF Keeps, KeepsTask, Jobs, Standers
<1>3. Shares' = Shares
  BY <1>1 DEF Shares
<1> QED
  BY <1>2, <1>3 DEF Work, Owed, Alone

LEMMA KeepsBacked == ASSUME Backed, Keeps PROVE Backed'
BY DEF Backed, Keeps, KeepsTask, Used, Exists

(* The run is where it was.                                                  *)
LEMMA RunStays ==
  ASSUME Types, IInv, Sound, Keeps, run' = run PROVE Sound'
<1>1. Backed'
  BY KeepsBacked DEF Sound
<1>2. InTurn'
  BY DEF Sound, Keeps, KeepsTask, InTurn, Going, Exists
<1>3. OnTrack'
  <2> SUFFICES ASSUME Going PROVE OnTrack'
    BY DEF OnTrack, Going
  <2>1. run.at \in Tasks
    BY RunAt DEF Going
  <2>2. Used(run.at)' = Used(run.at) /\ Missing(run.at)' = Missing(run.at)
    BY <2>1 DEF Keeps, KeepsTask, Used, Missing, Landed
  <2> QED
    BY <2>1, <2>2 DEF Sound, Keeps, KeepsTask, OnTrack, Going, Exists
<1>4. Work' = Work /\ Alone'
  <2>1. \A t \in Tasks : Standing(t)' <=> Standing(t)
    BY DEF Keeps, KeepsTask, Standing, Exists, At
  <2> QED
    BY <2>1, WorkKept DEF Sound
<1> QED
  BY <1>1, <1>2, <1>3, <1>4 DEF Sound, Keeps

(* The run ends, its task left for another.                                  *)
LEMMA RunEnds ==
  ASSUME Types, IInv, Sound, Keeps, run.pc # "handed", run'.pc = "idle" PROVE Sound'
<1>1. Backed'
  BY KeepsBacked DEF Sound
<1>2. InTurn'
  BY DEF Sound, Keeps, KeepsTask, InTurn, Going, Exists
<1>3. OnTrack'
  BY DEF OnTrack, Going
<1>4. Work' = Work /\ Alone'
  <2>1. \A t \in Tasks : Standing(t)' <=> Standing(t)
    BY DEF Keeps, KeepsTask, Standing, Exists, At
  <2> QED
    BY <2>1, WorkKept DEF Sound
<1> QED
  BY <1>1, <1>2, <1>3, <1>4 DEF Sound, Keeps

(* The run goes on with its task.                                            *)
LEMMA RunGoes ==
  ASSUME Types, IInv, Sound, Keeps, Going, run'.at = run.at, run'.reservation = run.reservation,
         run.pc # "handed", run'.pc \notin {"idle", "resume", "handed"},
         run'.pc = "settle" \/ Signed(run.at) = {},
         run'.pc = "post" => task'[run.at].reservation # {} /\ run'.nodes \cap Used(run.at) = {},
         run'.pc \in {"send", "filled"} => Used(run.at) = {},
         run'.pc = "finish" => Missing(run.at) = 0
  PROVE  Sound'
<1>0. run.at \in Tasks
  BY RunAt DEF Going
<1>1. Backed'
  BY KeepsBacked DEF Sound
<1>2. InTurn'
  <2>1. \A n \in Nodes : tx[run.at][n] = "signed" => run'.pc = "settle"
    BY DEF Signed
  <2> QED
    BY <1>0, <2>1 DEF Sound, Keeps, KeepsTask, InTurn, Going, Exists
<1>3. OnTrack'
  <2>2. Used(run.at)' = Used(run.at) /\ Missing(run.at)' = Missing(run.at) /\ (Exists(run.at)' <=> Exists(run.at))
    BY <1>0 DEF Keeps, KeepsTask, Used, Missing, Landed, Exists
  <2> QED
    BY <1>0, <2>2 DEF Sound, Keeps, KeepsTask, OnTrack, Going, Exists
<1>4. Work' = Work /\ Alone'
  <2>1. \A t \in Tasks : Standing(t)' <=> Standing(t)
    BY DEF Keeps, KeepsTask, Standing, Exists, At
  <2> QED
    BY <2>1, WorkKept DEF Sound
<1> QED
  BY <1>1, <1>2, <1>3, <1>4 DEF Sound, Keeps

LEMMA ClaimWork == ASSUME Types, IInv, Sound, Steady, NEW t \in Tasks, Claim(t) PROVE Sound'
<1>1. run.pc = "idle" /\ Exists(t) /\ wanted /\ tx' = tx
  BY DEF Claim, At, Exists, Steady
<1> DEFINE doc == [task[t] EXCEPT !.status = "PROCESSING"]
           r == [Idle EXCEPT !.pc = "resume", !.at = t, !.terms = terms,
                  !.request = task[t].request, !.reservation = task[t].reservation]
<1>2. Set(t, doc) /\ run' = r
  BY <1>1 DEF Claim
<1>3. r.pc = "resume" /\ r.at = t /\ r.reservation = task[t].reservation
  BY DEF Idle
<1>4. /\ doc \in TaskT /\ doc.status = "PROCESSING" /\ doc.limit = task[t].limit
      /\ doc.handoff_of = task[t].handoff_of /\ doc.reservation = task[t].reservation
  BY DEF Types, TaskT
<1> HIDE DEF doc, r
<1>5. Keeps
  BY <1>1, <1>2, <1>4, SetKeeps
<1>6. task'[t] = doc
  BY <1>1, <1>2, <1>4, SetOf
<1>7. run'.pc = "resume" /\ run'.at = t /\ run'.reservation = task[t].reservation
  BY <1>2, <1>3
<1>8. Backed'
  BY <1>5, KeepsBacked DEF Sound
<1>9. InTurn'
  BY <1>1, <1>5, <1>7 DEF Sound, Keeps, KeepsTask, InTurn, Going, Exists
<1>10. OnTrack'
  <2>1. Used(t)' = Used(t)
    BY <1>1 DEF Used
  <2>2. task[t].reservation = {} => Used(t) = {}
    BY <1>1 DEF Sound, Backed
  <2>3. Used(run.at)' = Used(t)'
    BY <1>1, <1>7 DEF Used
  <2> QED
    BY <1>4, <1>6, <1>7, <2>1, <2>2, <2>3 DEF OnTrack, Exists
<1>11. Work' = Work /\ Alone'
  <2>1. \A u \in Tasks : Standing(u)' <=> Standing(u)
    BY <1>1, <1>5, <1>7 DEF Keeps, KeepsTask, Standing, Exists, At
  <2> QED
    BY <1>5, <2>1, WorkKept DEF Sound
<1> QED
  BY <1>5, <1>8, <1>9, <1>10, <1>11 DEF Sound, Keeps

(* What a run that is not resuming, nor following what it sent, has signed.  *)
LEMMA NothingSigned ==
  ASSUME Sound, Going, run.at \in Tasks, run.pc \notin {"resume", "settle"} PROVE Signed(run.at) = {}
BY DEF Sound, InTurn, Signed

LEMMA Same == ASSUME Types, task' = task, tx' = tx PROVE Keeps
BY DEF Keeps, KeepsTask

LEMMA PrepareWork == ASSUME Types, IInv, Sound, Steady, Prepare PROVE Sound'
<1>1. run.pc = "resume" /\ Going /\ run.at \in Tasks /\ Signed(run.at) = {} /\ tx' = tx /\ wanted
  BY RunAt DEF Prepare, At, Going, Steady
<1>2. ASSUME NEW pc \in {"finish", "retry", "failed"}, Goto(pc), UNCHANGED task,
             pc = "finish" => Missing(run.at) = 0
      PROVE  Sound'
  <2>1. run'.at = run.at /\ run'.pc = pc /\ run'.reservation = run.reservation
    BY <1>2, Goes DEF Places
  <2>2. Keeps
    BY <1>1, <1>2, Same
  <2> QED
    BY <1>1, <1>2, <2>1, <2>2, RunGoes
<1>3. ASSUME Reuse, UNCHANGED task, run.reservation # {} PROVE Sound'
  <2>1. \/ run' = [run EXCEPT !.pc = "handoff", !.answer = "lapsed"]
        \/ \E S \in SUBSET (run.reservation \ Used(run.at)) : run' = [run EXCEPT !.pc = "post", !.nodes = S]
    BY <1>3 DEF Reuse, kSubset
  <2>2. CASE run' = [run EXCEPT !.pc = "handoff", !.answer = "lapsed"]
    <3>1. run'.at = run.at /\ run'.pc = "handoff" /\ run'.reservation = run.reservation
      BY <2>2 DEF Types, RunT
    <3> QED
      BY <1>1, <1>3, <3>1, Same, RunGoes
  <2>3. ASSUME NEW S \in SUBSET (run.reservation \ Used(run.at)), run' = [run EXCEPT !.pc = "post", !.nodes = S]
        PROVE  Sound'
    <3>1. run'.at = run.at /\ run'.pc = "post" /\ run'.reservation = run.reservation /\ run'.nodes = S
      BY <2>3 DEF Types, RunT
    <3>2. task'[run.at].reservation # {}
      BY <1>1, <1>3 DEF Sound, OnTrack
    <3>3. run'.nodes \cap Used(run.at) = {}
      BY <3>1
    <3> QED
      BY <1>1, <1>3, <3>1, <3>2, <3>3, Same, RunGoes
  <2> QED
    BY <2>1, <2>2, <2>3
<1>4. ASSUME NEW c, Ask(c), run.reservation = {} PROVE Sound'
  <2>1. run' = [run EXCEPT !.pc = "send", !.count = c]
    BY <1>4 DEF Ask
  <2>2. run'.at = run.at /\ run'.pc = "send" /\ run'.reservation = run.reservation
    BY <2>1 DEF Types, RunT
  <2>3. Keeps
    <3>1. CASE UNCHANGED task
      BY <1>1, <3>1, Same
    <3>2. CASE Set(run.at, [task[run.at] EXCEPT !.request = TRUE])
      <4> DEFINE doc == [task[run.at] EXCEPT !.request = TRUE]
      <4>0. task[run.at] \in TaskT
        BY <1>1 DEF Types
      <4>1. /\ doc \in TaskT /\ doc.status = task[run.at].status /\ doc.limit = task[run.at].limit
            /\ doc.handoff_of = task[run.at].handoff_of /\ doc.reservation = task[run.at].reservation
        BY <4>0 DEF TaskT
      <4> HIDE DEF doc
      <4>2. Set(run.at, doc)
        BY <3>2 DEF doc
      <4> QED
        BY <1>1, <4>1, <4>2, SetKeeps DEF Exists
    <3> QED
      BY <1>4, <3>1, <3>2 DEF Ask
  <2>4. Used(run.at) = {}
    BY <1>1, <1>4 DEF Sound, OnTrack
  <2> QED
    BY <1>1, <2>2, <2>3, <2>4, RunGoes
<1>5. \/ Goto("finish") /\ UNCHANGED task /\ Missing(run.at) = 0
      \/ Reuse /\ UNCHANGED task /\ run.reservation # {}
      \/ run.reservation = {} /\ \E c : Ask(c)
      \/ Goto("retry") /\ UNCHANGED task
      \/ Goto("failed") /\ UNCHANGED task
  <2>1. CASE Missing(run.at) = 0 \/ ~wanted
    BY <1>1, <2>1 DEF Prepare
  <2>2. CASE ~(Missing(run.at) = 0 \/ ~wanted) /\ run.reservation # {}
    BY <2>2 DEF Prepare
  <2>3. CASE ~(Missing(run.at) = 0 \/ ~wanted) /\ run.reservation = {}
    <3>1. PICK f \in Funds(Missing(run.at)) :
            \/ f.kind = "affordable" /\ Ask(f.count)
            \/ f.kind = "insufficient" /\ Goto("retry") /\ UNCHANGED task
            \/ f.kind = "fatal" /\ Goto("failed") /\ UNCHANGED task
      BY <2>3 DEF Prepare
    <3> QED
      BY <2>3, <3>1, Zenon
  <2> QED
    BY <2>1, <2>2, <2>3
<1> QED
  BY <1>2, <1>3, <1>4, <1>5

LEMMA SendWork == ASSUME Types, IInv, Sound, Steady, Send PROVE Sound'
<1>1. run.pc = "send" /\ Going /\ run.at \in Tasks /\ UNCHANGED <<task, tx>>
  BY RunAt DEF Send, At, Going
<1>2. \E pc \in {"park", "filled", "handoff", "retry", "failed"} :
        run' = [run EXCEPT !.pc = pc] \/ \E a \in States \cup {"conflict"} : run' = [run EXCEPT !.answer = a, !.pc = pc]
  <2>1. \A e \in Errors \cup {"conflict"} : Failure(e) \in {"retry", "handoff", "failed"}
    BY DEF Failure, Errors
  <2>2. ASSUME NEW a \in Answers(run.at),
               run' = [run EXCEPT !.answer = a[1],
                                  !.pc = CASE a[1] = "waiting" -> "park"
                                           [] a[1] = "fulfilled" -> "filled"
                                           [] a[1] = "conflict" -> Failure(a[1])
                                           [] OTHER -> "handoff"]
        PROVE  \E pc \in {"park", "filled", "handoff", "retry", "failed"} :
                 \E b \in States \cup {"conflict"} : run' = [run EXCEPT !.answer = b, !.pc = pc]
    <3>1. a[1] \in States \cup {"conflict"}
      BY <1>1, AnswerIs
    <3>2. PICK pc \in {"park", "filled", "handoff", "retry", "failed"} :
            pc = CASE a[1] = "waiting" -> "park"
                   [] a[1] = "fulfilled" -> "filled"
                   [] a[1] = "conflict" -> Failure(a[1])
                   [] OTHER -> "handoff"
      BY <2>1
    <3> QED
      BY <2>2, <3>1, <3>2
  <2>3. ASSUME NEW e \in Errors \cup {"no response"}, Goto(Failure(e))
        PROVE  \E pc \in {"park", "filled", "handoff", "retry", "failed"} : run' = [run EXCEPT !.pc = pc]
    BY <2>1, <2>3 DEF Goto, Errors
  <2> QED
    BY <2>2, <2>3 DEF Send
<1>3. PICK pc \in {"park", "filled", "handoff", "retry", "failed"} :
        run'.pc = pc /\ run'.at = run.at /\ run'.reservation = run.reservation
  BY <1>2 DEF Types, RunT
<1>4. Used(run.at) = {}
  BY <1>1 DEF Sound, OnTrack
<1> QED
  BY <1>1, <1>3, <1>4, NothingSigned, Same, RunGoes

LEMMA FilledWork == ASSUME Types, IInv, Sound, Steady, Filled PROVE Sound'
<1>1. run.pc = "filled" /\ Going /\ run.at \in Tasks /\ tx' = tx /\ Exists(run.at)
  BY RunAt DEF Filled, At, Going, Sound, OnTrack
<1>2. Used(run.at) = {} /\ Signed(run.at) = {}
  BY <1>1, NothingSigned DEF Sound, OnTrack
<1>3. CASE Live(run.at)
  <2> DEFINE doc == [task[run.at] EXCEPT !.request = FALSE, !.reservation = hm[run.at].nodes]
  <2>1. /\ doc \in TaskT /\ doc.status = task[run.at].status /\ doc.limit = task[run.at].limit
        /\ doc.handoff_of = task[run.at].handoff_of /\ doc.reservation = hm[run.at].nodes
    <3>1. task[run.at] \in TaskT /\ hm[run.at].nodes \in SUBSET Nodes
      BY <1>1 DEF Types, RequestT
    <3> QED
      BY <3>1 DEF TaskT
  <2>2. Set(run.at, doc) /\ run' = [run EXCEPT !.pc = "post", !.nodes = hm[run.at].nodes]
    BY <1>3 DEF Filled
  <2> HIDE DEF doc
  <2>3. hm[run.at].nodes # {}
    BY <1>1, <1>3 DEF IInv, Requests
  <2>4. Keeps
    BY <1>1, <2>1, <2>2, <2>3, SetKeeps DEF Exists
  <2>5. task'[run.at].reservation # {}
    <3>1. task'[run.at] = doc
      BY <1>1, <2>1, <2>2, SetOf
    <3> QED
      BY <2>1, <2>3, <3>1
  <2>6. run'.at = run.at /\ run'.pc = "post" /\ run'.reservation = run.reservation
    BY <2>2 DEF Types, RunT
  <2> QED
    BY <1>1, <1>2, <2>4, <2>5, <2>6, RunGoes
<1>4. CASE ~Live(run.at)
  <2>1. Goto("handoff") /\ UNCHANGED task
    BY <1>4 DEF Filled
  <2>2. run'.at = run.at /\ run'.pc = "handoff" /\ run'.reservation = run.reservation
    BY <2>1, Goes DEF Places
  <2> QED
    BY <1>1, <1>2, <2>1, <2>2, Same, RunGoes
<1> QED
  BY <1>3, <1>4

LEMMA SettleWork == ASSUME Types, IInv, Sound, Steady, Settle PROVE Sound'
<1>1. run.pc = "settle" /\ Going /\ run.at \in Tasks /\ UNCHANGED <<task, tx>> /\ Signed(run.at) = {}
  BY RunAt DEF Settle, At, Going
<1>2. \E pc \in {"finish", "handoff", "retry"} :
        /\ run'.pc = pc /\ run'.at = run.at /\ run'.reservation = run.reservation
        /\ pc = "finish" => Missing(run.at) = 0
  BY DEF Settle, Goto, Types, RunT
<1>3. Keeps
  BY <1>1, Same
<1>4. /\ run'.at = run.at /\ run'.reservation = run.reservation
      /\ run'.pc \in {"finish", "handoff", "retry"}
      /\ run'.pc = "finish" => Missing(run.at) = 0
  BY <1>2
<1> QED
  BY <1>1, <1>3, <1>4, RunGoes

(* A run stopped on its way leaves the task to the next; lost after its      *)
(* hand-off, it is not a steady behaviour any more.                          *)
LEMMA EndWork == ASSUME Types, IInv, Sound, Steady', Retry \/ Park \/ Crash PROVE Sound'
<1>1. Going /\ run.at \in Tasks /\ tx' = tx /\ run' = Idle
  BY RunAt DEF Retry, Park, Crash, Release, At, Going
<1>2. run.pc # "handed"
  BY DEF Retry, Park, Crash, At, Steady
<1>3. \E d \in {"now", "cooldown", "renew"} :
        Set(run.at, [task[run.at] EXCEPT !.status = "PENDING", !.due = d])
  BY DEF Retry, Park, Crash, Release, ParkDue
<1>4. PICK d \in {"now", "cooldown", "renew"} :
        Set(run.at, [task[run.at] EXCEPT !.status = "PENDING", !.due = d])
  BY <1>3
<1> DEFINE doc == [task[run.at] EXCEPT !.status = "PENDING", !.due = d]
<1>5. /\ doc \in TaskT /\ doc.status = "PENDING" /\ doc.limit = task[run.at].limit
      /\ doc.handoff_of = task[run.at].handoff_of /\ doc.reservation = task[run.at].reservation
  BY <1>1 DEF Types, TaskT
<1>6. Set(run.at, doc)
  BY <1>4
<1> HIDE DEF doc
<1>7. Keeps
  BY <1>1, <1>5, <1>6, SetKeeps
<1>8. run'.pc = "idle"
  BY <1>1, Stopped
<1> QED
  BY <1>2, <1>7, <1>8, RunEnds

(* The assigns of a run that posts are for nodes it had not used.            *)
LEMMA PostWork == ASSUME Types, IInv, TxTyped, Sound, Steady, Post PROVE Sound'
<1>1. /\ run.pc = "post" /\ Going /\ run.at \in Tasks /\ Exists(run.at) /\ UNCHANGED task
      /\ task[run.at].reservation # {} /\ run.nodes \cap Used(run.at) = {}
  BY RunAt DEF Post, At, Going, Sound, OnTrack
<1>2. run'.at = run.at /\ run'.pc = "settle" /\ run'.reservation = run.reservation
  BY DEF Post, Goto, Types, RunT
<1>3. \A t \in Tasks, n \in Nodes :
        tx'[t][n] = IF t = run.at /\ n \in run.nodes THEN "signed" ELSE tx[t][n]
  BY <1>1 DEF Post, TxTyped, Fates
<1>4. \A n \in Nodes : n \in run.nodes => tx[run.at][n] = "none"
  BY <1>1 DEF Used
<1>5. \A t \in Tasks, n \in Nodes : tx'[t][n] = "landed" <=> tx[t][n] = "landed"
  BY <1>3, <1>4
<1>6. Backed'
  <2>1. \A t \in Tasks \ {run.at} : Used(t)' = Used(t)
    BY <1>3 DEF Used
  <2>2. task[run.at].status # "none"
    BY <1>1 DEF Exists
  <2> QED
    BY <1>1, <2>1, <2>2 DEF Sound, Backed, Exists
<1>7. InTurn'
  <2>1. \A t \in Tasks, n \in Nodes : tx'[t][n] = "signed" => t = run.at \/ tx[t][n] = "signed"
    BY <1>3
  <2> QED
    BY <1>1, <1>2, <2>1 DEF Sound, InTurn, Going, Exists
<1>8. OnTrack'
  BY <1>1, <1>2 DEF Sound, OnTrack, Going, Exists
<1>9. Work' = Work /\ Alone'
  <2>1. \A t \in Tasks : Landed(t)' = Landed(t) /\ (Standing(t)' <=> Standing(t))
    BY <1>1, <1>2, <1>5 DEF Landed, Standing, Exists, At
  <2>2. Jobs' = Jobs
    BY <1>5 DEF Jobs
  <2>3. \A t \in Tasks : Missing(t)' = Missing(t)
    BY <1>1, <2>1 DEF Missing
  <2>4. Shares' = Shares /\ Standers' = Standers
    BY <2>1, <2>3 DEF Shares, Standers
  <2> QED
    BY <2>2, <2>4 DEF Work, Owed, Alone, Sound
<1> QED
  BY <1>6, <1>7, <1>8, <1>9 DEF Sound

(* What is missing passes to a new task, the first and only one the task is  *)
(* handed to.                                                                *)
LEMMA HandOffWork == ASSUME Types, IInv, Sound, Steady, HandOff PROVE Sound'
<1>1. run.pc = "handoff" /\ Going /\ run.at \in Tasks /\ tx' = tx /\ Exists(run.at)
  BY RunAt DEF HandOff, At, Going, Sound, OnTrack
<1>2. run'.at = run.at /\ run'.pc = "handed" /\ run'.reservation = run.reservation
  BY DEF HandOff, Goto, Types, RunT
<1>3. Signed(run.at) = {}
  BY <1>1, NothingSigned
<1>4. HandedTo(run.at) = {}
  <2>1. \A u \in Tasks : Exists(u) => task[u].status # "none"
    BY DEF Exists
  <2> QED
    BY <1>1, <2>1 DEF HandedTo, Sound, InTurn, Exists
<1>5. PICK u \in Tasks :
        /\ task[u].status = "none"
        /\ task' = [task EXCEPT ![u] =
                      NewTask(Missing(run.at), IF Backoff THEN "cooldown" ELSE "now", run.at)]
  BY <1>4 DEF HandOff
<1>6. /\ task'[u].status = "PENDING" /\ task'[u].limit = Missing(run.at)
      /\ task'[u].handoff_of = run.at
      /\ \A t \in Tasks \ {u} : task'[t] = task[t]
  BY <1>5 DEF Types, NewTask
<1>7. u # run.at /\ Used(u) = {}
  BY <1>1, <1>5 DEF Exists, Sound, Backed
<1>8. Backed'
  <2>1. \A t \in Tasks : Used(t)' = Used(t)
    BY <1>1 DEF Used
  <2> QED
    BY <1>6, <1>7, <2>1 DEF Sound, Backed, Exists
<1>9. InTurn'
  <2>1. \A t \in Tasks, n \in Nodes : tx[t][n] = "signed" => t # run.at /\ t # u
    BY <1>3, <1>7 DEF Signed, Used
  <2>2. \A v, t \in Tasks : task'[v].status # "none" /\ task'[v].handoff_of = t =>
          task'[t].status = "gone" \/ (run'.pc = "handed" /\ run'.at = t)
    <3> SUFFICES ASSUME NEW v \in Tasks, NEW t \in Tasks, task'[v].status # "none",
                        task'[v].handoff_of = t
                 PROVE  task'[t].status = "gone" \/ (run'.pc = "handed" /\ run'.at = t)
      OBVIOUS
    <3>1. CASE v = u
      BY <1>2, <1>6, <3>1
    <3>2. CASE v # u
      <4>1. task[t].status = "gone"
        BY <1>1, <1>6, <3>2 DEF Sound, InTurn
      <4>2. t # u
        BY <1>5, <4>1
      <4> QED
        BY <1>6, <4>1, <4>2
    <3> QED
      BY <3>1, <3>2
  <2>3. \A t \in Tasks, n \in Nodes : tx'[t][n] = "signed" =>
          Exists(t)' /\ (Going' /\ run'.at = t => run'.pc \in {"resume", "settle"})
    BY <1>1, <1>2, <1>6, <2>1 DEF Sound, InTurn, Exists
  <2> QED
    BY <2>2, <2>3 DEF InTurn
<1>10. OnTrack'
  BY <1>1, <1>2, <1>6, <1>7 DEF Sound, OnTrack, Going, Exists
<1>11. Work' = Work /\ Alone'
  <2>1. Jobs' = Jobs
    BY <1>1 DEF Jobs
  <2>3. Missing(u)' = Missing(run.at)
    <3>1. Landed(u)' = {}
      BY <1>1, <1>7 DEF Landed, Used
    <3>2. Cardinality(Landed(u)') = 0
      BY <3>1, FS_EmptySet
    <3>3. Missing(run.at) \in Int
      BY <1>1, MissingInt
    <3> QED
      BY <1>6, <3>2, <3>3 DEF Missing
  <2>4. Standers = {run.at}
    <3>1. run.at \in Standers
      BY <1>1 DEF Standers, Standing, Exists, At
    <3> QED
      BY <3>1 DEF Sound, Alone
  <2>5. Standers' = {u}
    <3>1. Standers' = (Standers \ {run.at}) \cup {u}
      BY <1>1, <1>2, <1>5, <1>6, <1>7 DEF Standers, Standing, Exists, At
    <3> QED
      BY <2>4, <3>1
  <2>6. Owed = Missing(run.at) /\ Owed' = Missing(u)'
    <3>1. Types'
      BY HandOffSteps
    <3> QED
      BY <1>1, <2>4, <2>5, <3>1, OwedIs, OwedNext
  <2> QED
    BY <2>1, <2>3, <2>5, <2>6 DEF Work, Alone
<1> QED
  BY <1>8, <1>9, <1>10, <1>11 DEF Sound

(* The run's task is deleted with nothing left to list.                      *)
LEMMA FinishWork == ASSUME Types, IInv, Sound, Steady, Finish PROVE Sound'
<1>1. /\ run.pc \in {"finish", "handed"} /\ Going /\ run.at \in Tasks /\ tx' = tx /\ Exists(run.at)
      /\ run'.pc = "idle"
  BY RunAt, Stopped DEF Finish, At, Going, Sound, OnTrack
<1>2. task' = [t \in Tasks |-> IF t \in {run.at}
                              THEN [task[t] EXCEPT !.status = "gone", !.due = "now",
                                                   !.request = FALSE, !.reservation = {}]
                              ELSE task[t]]
  BY <1>1 DEF Finish, Remove, Delete
<1>3. /\ task'[run.at].status = "gone" /\ task'[run.at].limit = task[run.at].limit
      /\ task'[run.at].handoff_of = task[run.at].handoff_of
      /\ \A t \in Tasks \ {run.at} : task'[t] = task[t]
  <2>1. task[run.at] \in TaskT
    BY <1>1 DEF Types
  <2> QED
    BY <1>1, <1>2, <2>1 DEF TaskT
<1>4. \A n \in Nodes : tx[run.at][n] # "signed"
  BY <1>1 DEF Sound, InTurn
<1>5. Backed'
  <2>1. \A t \in Tasks : Used(t)' = Used(t)
    BY <1>1 DEF Used
  <2> QED
    BY <1>3, <2>1 DEF Sound, Backed, Exists
<1>6. InTurn'
  BY <1>1, <1>3, <1>4 DEF Sound, InTurn, Going, Exists
<1>7. OnTrack'
  BY <1>1 DEF OnTrack, Going
<1>8. Work' = Work /\ Alone'
  <2>1. Jobs' = Jobs
    BY <1>1 DEF Jobs
  <2>2. Standers' = Standers \ {run.at}
    BY <1>1, <1>3 DEF Standers, Standing, Exists, At
  <2>3. CASE run.pc = "handed"
    <3>1. \A t \in Tasks : Missing(t)' = Missing(t)
      BY <1>1, <1>3 DEF Missing, Landed
    <3>2. Shares' = Shares
      BY <3>1 DEF Shares
    <3>3. run.at \notin Standers
      BY <2>3 DEF Standers, Standing, At
    <3>4. Standers' = Standers
      BY <2>2, <3>3
    <3> QED
      BY <2>1, <3>2, <3>4 DEF Work, Owed, Alone, Sound
  <2>4. CASE run.pc = "finish"
    <3>1. run.at \in Standers
      BY <1>1, <2>4 DEF Standers, Standing, At
    <3>2. Standers = {run.at}
      BY <3>1 DEF Sound, Alone
    <3>3. Standers' = {}
      BY <2>2, <3>2
    <3>4. Owed = 0
      BY <1>1, <2>4, <3>2, OwedIs DEF Sound, OnTrack
    <3>5. Types'
      BY EndSteps
    <3>6. Owed' = 0
      BY <3>3, <3>5, OwedNext
    <3> QED
      BY <2>1, <3>3, <3>4, <3>6 DEF Work, Alone
  <2> QED
    BY <1>1, <2>3, <2>4
<1> QED
  BY <1>5, <1>6, <1>7, <1>8 DEF Sound

(* An assign that lands is a job more and one less to list.                  *)
LEMMA ChainWork ==
  ASSUME Types, IInv, TxTyped, Sound, Steady, NEW t \in Tasks, NEW n \in Nodes, Chain(t, n)
  PROVE  Sound'
<1>1. tx[t][n] = "signed" /\ task' = task /\ run' = run
  BY DEF Chain
<1>2. PICK f \in {"landed", "dead"} : tx' = [tx EXCEPT ![t][n] = f]
  BY DEF Chain
<1>3. \A u \in Tasks, m \in Nodes : tx'[u][m] = IF u = t /\ m = n THEN f ELSE tx[u][m]
  BY <1>2 DEF TxTyped, Fates
<1>4. Exists(t) /\ (Going /\ run.at = t => run.pc \in {"resume", "settle"})
  BY <1>1 DEF Sound, InTurn
<1>5. \A u \in Tasks : Used(u)' = Used(u)
  BY <1>1, <1>3 DEF Used
<1>6. \A u \in Tasks \ {t} : Landed(u)' = Landed(u)
  BY <1>3 DEF Landed
<1>7. \A u \in Tasks \ {t} : Missing(u)' = Missing(u)
  BY <1>1, <1>6 DEF Missing
<1>8. Backed'
  BY <1>1, <1>5 DEF Sound, Backed, Exists
<1>9. InTurn'
  BY <1>1, <1>3 DEF Sound, InTurn, Going, Exists
<1>10. OnTrack'
  <2> SUFFICES ASSUME Going PROVE OnTrack'
    BY <1>1 DEF OnTrack, Going
  <2>1. run.at \in Tasks
    BY RunAt DEF Going
  <2>2. run.pc = "finish" => Missing(run.at)' = Missing(run.at)
    BY <1>1, <1>4, <1>7, <2>1
  <2> QED
    BY <1>1, <1>5, <2>1, <2>2 DEF Sound, OnTrack, Going, Exists
<1>11. Work' = Work /\ Alone'
  <2>1. Standers' = Standers /\ Standers = {t}
    <3>1. Standers' = Standers /\ t \in Standers
      BY <1>1, <1>4 DEF Standers, Standing, Exists, At, Going
    <3> QED
      BY <3>1 DEF Sound, Alone
  <2>2. CASE f = "landed"
    <3>1. Landed(t)' = Landed(t) \cup {n} /\ n \notin Landed(t) /\ IsFiniteSet(Landed(t))
      BY <1>1, <1>3, <2>2, FS_Subset, ReservationAssumption DEF Landed
    <3>2. Cardinality(Landed(t) \cup {n}) = Cardinality(Landed(t)) + 1 /\ Cardinality(Landed(t)) \in Nat
      BY <3>1, FS_AddElement, FS_CardinalityType
    <3>3. Missing(t)' = Missing(t) - 1 /\ Missing(t) \in Int
      BY <1>1, <3>1, <3>2 DEF Missing, Types, TaskT
    <3>4. Jobs' = Jobs \cup {<<t, n>>} /\ <<t, n>> \notin Jobs
      BY <1>1, <1>3, <2>2 DEF Jobs
    <3>5. Cardinality(Jobs \cup {<<t, n>>}) = Cardinality(Jobs) + 1 /\ Cardinality(Jobs) \in Nat
      BY <3>4, JobsAre, FS_AddElement
    <3>6. Cardinality(Jobs)' = Cardinality(Jobs) + 1
      BY <3>4, <3>5
    <3>7. Types'
      BY <1>1 DEF Types, Chain
    <3>8. Owed = Missing(t) /\ Owed' = Missing(t)'
      BY <2>1, <3>7, OwedIs, OwedNext
    <3> QED
      BY <2>1, <3>3, <3>5, <3>6, <3>8 DEF Work, Alone
  <2>3. CASE f = "dead"
    <3>1. Landed(t)' = Landed(t)
      BY <1>1, <1>3, <2>3 DEF Landed
    <3>2. \A u \in Tasks : Missing(u)' = Missing(u)
      BY <1>1, <1>7, <3>1 DEF Missing
    <3>3. Jobs' = Jobs
      BY <1>1, <1>3, <2>3 DEF Jobs
    <3>4. Shares' = Shares
      BY <3>2 DEF Shares
    <3> QED
      BY <2>1, <3>3, <3>4 DEF Work, Owed, Alone
  <2> QED
    BY <2>2, <2>3
<1> QED
  BY <1>8, <1>9, <1>10, <1>11 DEF Sound

(* What does not move the run: a due time, a fill, a message, an edit.       *)
LEMMA DueWork ==
  ASSUME Types, IInv, Sound, Resync \/ \E t \in Tasks : Timer(t) PROVE Sound'
<1>1. tx' = tx /\ run' = run
  BY DEF Resync, Timer
<1>2. \A u \in Tasks : task'[u] = task[u] \/ task'[u] = [task[u] EXCEPT !.due = "now"]
  BY DEF Resync, Timer, Set, Types
<1>3. \A u \in Tasks : /\ task'[u].status = task[u].status /\ task'[u].limit = task[u].limit
                       /\ task'[u].handoff_of = task[u].handoff_of
                       /\ task'[u].reservation = task[u].reservation
  <2> SUFFICES ASSUME NEW u \in Tasks
               PROVE  /\ task'[u].status = task[u].status /\ task'[u].limit = task[u].limit
                      /\ task'[u].handoff_of = task[u].handoff_of
                      /\ task'[u].reservation = task[u].reservation
    OBVIOUS
  <2>1. task[u] \in TaskT
    BY DEF Types
  <2> QED
    BY <1>2, <2>1 DEF TaskT
<1>4. ASSUME NEW u \in Tasks PROVE KeepsTask(u)
  BY <1>3 DEF KeepsTask
<1>5. Keeps
  BY <1>1, <1>4 DEF Keeps
<1> QED
  BY <1>1, <1>5, RunStays

LEMMA DeliverWork == ASSUME Types, IInv, Sound, NEW k \in Tasks, Deliver(k) PROVE Sound'
<1>1. tx' = tx /\ run' = run /\ k \in hooks
  BY DEF Deliver
<1>2. CASE Exists(k) /\ task[k].request
  <2> DEFINE doc == [task[k] EXCEPT !.request = FALSE, !.due = "now", !.reservation = hm[k].nodes]
  <2>1. /\ doc \in TaskT /\ doc.status = task[k].status /\ doc.limit = task[k].limit
        /\ doc.handoff_of = task[k].handoff_of /\ doc.reservation = hm[k].nodes
    <3>1. task[k] \in TaskT /\ hm[k].nodes \in SUBSET Nodes
      BY DEF Types, RequestT
    <3> QED
      BY <3>1 DEF TaskT
  <2>2. Set(k, doc)
    BY <1>2 DEF Deliver
  <2> HIDE DEF doc
  <2>3. hm[k].nodes # {}
    BY <1>1 DEF IInv, Requests
  <2>4. Keeps
    BY <1>1, <2>1, <2>2, <2>3, SetKeeps DEF Exists
  <2> QED
    BY <1>1, <2>4, RunStays
<1>3. CASE ~(Exists(k) /\ task[k].request)
  <2>1. task' = task
    BY <1>3 DEF Deliver
  <2> QED
    BY <1>1, <2>1, Same, RunStays
<1> QED
  BY <1>2, <1>3

LEMMA OtherWork == ASSUME Types, IInv, Sound, UNCHANGED <<task, tx, run>> PROVE Sound'
BY Same, RunStays

(* Each kind of step, while the deployment runs on.                          *)
LEMMA RunWork == ASSUME Types, IInv, TxTyped, Sound, Steady, Steady', RunStep PROVE Sound'
<1>1. ~Fail
  BY DEF Fail, Steady
<1> QED
  BY <1>1, PrepareWork, SendWork, FilledWork, PostWork, SettleWork, HandOffWork, FinishWork, EndWork
     DEF RunStep

LEMMA SteadyWork == ASSUME Types, IInv, TxTyped, Sound, Steady, Steady', [Next]_vars PROVE Sound'
<1>1. ASSUME NEW t \in Tasks, Claim(t) PROVE Sound'
  BY <1>1, ClaimWork
<1>2. ASSUME NEW t \in Tasks, Timer(t) PROVE Sound'
  BY <1>2, DueWork
<1>3. ASSUME NEW t \in Tasks, Fill(t) \/ Lapse(t) \/ Miss(t) PROVE Sound'
  BY <1>3, OtherWork DEF Fill, Lapse, Miss
<1>4. ASSUME NEW t \in Tasks, NEW n \in Nodes, Chain(t, n) PROVE Sound'
  BY <1>4, ChainWork
<1>5. CASE RunStep
  BY <1>5, RunWork
<1>6. CASE Crash
  BY <1>6, EndWork
<1>7. CASE Messages
  <2>1. ASSUME NEW k \in Tasks, Cancelled(k) PROVE Sound'
    BY <2>1, OtherWork DEF Cancelled
  <2> QED
    BY <1>7, <2>1, DeliverWork DEF Messages
<1>8. CASE Resync
  BY <1>8, DueWork
<1>9. CASE Look \/ ChangeTerms \/ BanFind
  BY <1>9, OtherWork DEF Look, ChangeTerms, BanFind
<1>10. ~Stop /\ ~Sweep /\ ~BanDelete /\ ~BanArchive
  BY DEF Stop, Sweep, BanDelete, BanArchive, Steady
<1>11. CASE UNCHANGED vars
  BY <1>11, OtherWork DEF vars
<1> QED
  BY <1>1, <1>2, <1>3, <1>4, <1>5, <1>6, <1>7, <1>8, <1>9, <1>10, <1>11 DEF Next

LEMMA TxStays == ASSUME TxTyped, Types, IInv, [Next]_vars PROVE TxTyped'
<1>1. CASE Post
  <2>1. run.at \in Tasks
    BY <1>1, RunAt DEF Post, At
  <2> QED
    BY <1>1, <2>1 DEF Post, TxTyped, Fates
<1>2. CASE \E t \in Tasks, n \in Nodes : Chain(t, n)
  BY <1>2 DEF Chain, TxTyped, Fates
<1>3. CASE ~Post /\ ~\E t \in Tasks, n \in Nodes : Chain(t, n)
  <2>1. tx' = tx
    BY <1>3, Zenon DEF Next, vars, Claim, Timer, Fill, Lapse, Miss, RunStep, Prepare, Send, Filled,
       Settle, HandOff, Fail, Finish, Retry, Park, Release, Crash, Messages, Deliver, Cancelled, Look,
       Resync, ChangeTerms, Stop, Sweep, BanFind, BanDelete, BanArchive
  <2> QED
    BY <2>1 DEF TxTyped
<1> QED
  BY <1>1, <1>2, <1>3

LEMMA StepWork == Types /\ IInv /\ WorkInv /\ [Next]_vars => WorkInv'
<1> SUFFICES ASSUME Types, IInv, WorkInv, [Next]_vars PROVE WorkInv'
  OBVIOUS
<1>1. TxTyped'
  BY TxStays DEF WorkInv
<1>2. ASSUME Steady' PROVE Sound'
  <2>1. Steady
    BY <1>2, SteadyBefore
  <2>2. Sound
    BY <2>1 DEF WorkInv
  <2> QED
    BY <1>2, <2>1, <2>2, SteadyWork DEF WorkInv
<1> QED
  BY <1>1, <1>2 DEF WorkInv

(* The jobs landed and the jobs the queued LISTs still have to list are      *)
(* always those of the first LIST, for any target, any nodes and any number  *)
(* of tasks, edits and faults.                                               *)
THEOREM WorkIsKept == Spec => []WorkConserved
<1>1. Init => Types /\ IInv /\ WorkInv
  BY InitHolds, InitWork
<1>2. Types /\ IInv /\ WorkInv /\ [Next]_vars => (Types /\ IInv /\ WorkInv)'
  BY StepHolds, StepWork
<1>3. WorkInv => WorkConserved
  BY DEF WorkInv, Sound, Steady, Work, Owed, Shares, Standers, WorkConserved
<1> QED
  BY <1>1, <1>2, <1>3, PTL DEF Spec
=============================================================================
