--------------------------- MODULE Edits_proofs ----------------------------
(****************************************************************************)
(* Theorems about the edits of a deployment, for any requests, markets and  *)
(* bounds.  Revisions: the pins, the keys and a running job agree between   *)
(* requests, and no revision is left behind.  Rescale: after every edit of  *)
(* the replicas or the market, what is alive and what is about to be listed *)
(* make up the replicas, and never more.                                    *)
(****************************************************************************)
EXTENDS Revisions, Rescale, FiniteSetTheorems, WellFoundedInduction, TLAPS

-----------------------------------------------------------------------------
(* Revisions: what each request read, and what it may write.               *)

ReqT == [pc : {"look", "pin", "insert", "write", "jobs", "push"}, asked : Asked, act : Numbers,
         old : SUBSET Keys, n : Numbers, alone : BOOLEAN]
JobT == [state : {"none", "listing", "queued", "running"}, held : BOOLEAN, keys : SUBSET Keys]

Types ==
  /\ confidential \in BOOLEAN /\ stored \in BOOLEAN /\ active \in Numbers /\ keys \in SUBSET Keys
  /\ pin \in [Numbers -> (SUBSET Keys) \union {None}]
  /\ req \in [Requests -> ReqT \union {Idle}]
  /\ job \in JobT /\ (job = NoJob \/ job.state # "none")
  /\ raced \in BOOLEAN /\ adrift \in BOOLEAN /\ orphaned \in BOOLEAN

(* Requests past the write of their pin, and past that of the keys.          *)
Writers == {"revise", "activate", "add", "revoke"}
Writes(r) == At(r, Writers, "write")
Tells(r) == At(r, KeyOps, "jobs") \/ At(r, KeyOps, "push")
Pending == {r \in Requests : Tells(r)}

(* A request that is alone is the only one, and what it read is still so.    *)
Solo ==
  \A r \in Requests : Live(r) /\ req[r].alone =>
    /\ \A q \in Requests \ {r} : ~Live(q)
    /\ req[r].pc \in {"look", "insert", "pin", "write"} => ~Outdated(r)

(* A change of the keys is pinned on the revision it read as active, an      *)
(* activation on another one.                                                *)
Targets ==
  \A r \in Requests : Live(r) /\ req[r].pc \in {"pin", "write"} =>
    /\ req[r].asked.op \in KeyOps => req[r].n = req[r].act
    /\ req[r].asked.op = "activate" => req[r].n # req[r].act

(* As long as the deployment exists, so do the revisions that count.         *)
Present ==
  stored =>
    /\ pin[active] # None
    /\ \A r \in Requests : Live(r) =>
         /\ pin[req[r].act] # None
         /\ Writes(r) \/ req[r].pc = "pin" => pin[req[r].n] # None

(* What a request pinned is still pinned when it writes, unless it raced.    *)
Wrote(r) == CASE req[r].asked.op = "revise" -> Effective(r)
              [] req[r].asked.op = "activate" -> req[r].old
              [] OTHER -> NextKeys(r)
Written ==
  stored /\ ~confidential =>
    \A r \in Requests : Writes(r) /\ (req[r].alone \/ ~raced) => pin[req[r].n] = Wrote(r)

(* The active pin carries the keys, or those some request is about to write. *)
Current ==
  stored /\ ~confidential /\ ~raced =>
    pin[active] = keys \/ \E r \in Requests : At(r, KeyOps, "write") /\ req[r].n = active

(* What a request read of a key is still so, unless the key was named since, *)
(* or is already put back or taken out against what was asked.               *)
AsAsked ==
  /\ \A k \in Keys \ overruled : k \in keys <=> k \in wanted
  /\ \A r \in Requests : Live(r) =>
       \A k \in Keys : k \in overruled \/ k \in missed[r] \/ (k \in req[r].old <=> k \in keys)

(* A revision without its deployment is about to be removed, or completed.   *)
Accounted ==
  ~orphaned =>
    /\ ~stored => \A n \in Numbers : pin[n] # None =>
         \E r \in Requests : At(r, {"revise"}, "write") /\ req[r].n = n
    /\ copy = "revision" => \E r \in Requests : At(r, {"duplicate"}, "write")

(* A job has the keys, but for the change that one request is telling it.    *)
Tracked == job.held \/ ~confidential
Told ==
  job # NoJob =>
    /\ stored
    /\ ~adrift =>
         /\ \A q, r \in Pending : q = r
         /\ \A r \in Pending : /\ Applied(r, keys) = keys
                               /\ Tracked => keys = Applied(r, job.keys)
                               /\ req[r].pc = "push" => job.state = "running"
         /\ Pending = {} /\ Tracked => job.keys = keys

RInv == Solo /\ Targets /\ Present /\ Written /\ Current /\ AsAsked /\ Accounted /\ Told

------------------------------------------------------------------------------
(* A request being served is a record of its fields, and the keys it works   *)
(* on are keys.                                                              *)
LEMMA Records ==
  ASSUME Types, NEW r \in Requests
  PROVE  /\ Live(r) <=> req[r] \in ReqT
         /\ Live(r) => /\ req[r].asked.op \in {"revise", "add", "revoke"} => req[r].asked.arg \in SUBSET Keys
                       /\ req[r].asked.op = "activate" => req[r].asked.arg \in Numbers
                       /\ req[r].act \in Numbers /\ req[r].old \in SUBSET Keys /\ req[r].n \in Numbers
                       /\ req[r].alone \in BOOLEAN
                       /\ req[r].pc \in {"look", "pin", "insert", "write", "jobs", "push"}
         /\ Idle \notin ReqT
<1>1. \A e \in ReqT : e.pc # "idle"
  BY DEF ReqT
<1>2. Idle \notin ReqT
  BY <1>1 DEF Idle
<1>3. Live(r) <=> req[r] \in ReqT
  BY <1>2 DEF Live, Types
<1>4. ASSUME Live(r)
      PROVE  /\ req[r].act \in Numbers /\ req[r].old \in SUBSET Keys /\ req[r].n \in Numbers
             /\ req[r].alone \in BOOLEAN /\ req[r].asked \in Asked
             /\ req[r].pc \in {"look", "pin", "insert", "write", "jobs", "push"}
  BY <1>3, <1>4 DEF ReqT
<1>5. ASSUME NEW a \in Asked
      PROVE  /\ a.op \in {"revise", "add", "revoke"} => a.arg \in SUBSET Keys
             /\ a.op = "activate" => a.arg \in Numbers
  BY DEF Asked
<1> QED
  BY <1>2, <1>3, <1>4, <1>5

LEMMA KeySets ==
  ASSUME Types, NEW r \in Requests, Live(r), req[r].asked.op \in Writers
  PROVE  /\ req[r].asked.op = "revise" => Effective(r) \in SUBSET Keys
         /\ req[r].asked.op \in KeyOps => NextKeys(r) \in SUBSET Keys
<1>1. req[r].old \in SUBSET Keys
  BY Records
<1>2. req[r].asked.op \in {"revise", "add", "revoke"} => req[r].asked.arg \in SUBSET Keys
  BY Records
<1> QED
  BY <1>1, <1>2 DEF Effective, NextKeys, Applied, KeyOps

(* What Goto, Finish and a new target change of the requests.                *)
LEMMA Goes ==
  ASSUME Types, NEW r \in Requests, Live(r),
         NEW pc \in {"look", "pin", "insert", "write", "jobs", "push"}, Goto(r, pc)
  PROVE  /\ req' \in [Requests -> ReqT \union {Idle}] /\ \A q \in Requests \ {r} : req'[q] = req[q]
         /\ req'[r].pc = pc /\ req'[r].asked = req[r].asked /\ req'[r].act = req[r].act
         /\ req'[r].old = req[r].old /\ req'[r].n = req[r].n /\ req'[r].alone = req[r].alone
         /\ req'[r] # Idle
<1>1. req[r] \in ReqT /\ Idle \notin ReqT
  BY Records
<1> DEFINE e == [req[r] EXCEPT !.pc = pc]
<1>2. e \in ReqT /\ e.pc = pc /\ e.asked = req[r].asked /\ e.act = req[r].act
      /\ e.old = req[r].old /\ e.n = req[r].n /\ e.alone = req[r].alone
  BY <1>1 DEF ReqT
<1>3. req' = [req EXCEPT ![r] = e]
  BY DEF Goto
<1> HIDE DEF e
<1>4. req'[r] = e /\ req' \in [Requests -> ReqT \union {Idle}] /\ \A q \in Requests \ {r} : req'[q] = req[q]
  BY <1>2, <1>3 DEF Types
<1> QED
  BY <1>1, <1>2, <1>4

LEMMA Finishes ==
  ASSUME Types, NEW r \in Requests, Finish(r)
  PROVE  /\ req' \in [Requests -> ReqT \union {Idle}] /\ req'[r] = Idle
         /\ \A q \in Requests \ {r} : req'[q] = req[q]
BY DEF Finish, Types

(* POST /create pins revision 1 with the keys.                               *)
LEMMA InitRevisions == Init => Types /\ RInv
<1> SUFFICES ASSUME Init PROVE Types /\ RInv
  OBVIOUS
<1>1. 1 \in Numbers /\ \A n \in Numbers : n > 1 \/ n = 1
  BY RevisionsAssumption DEF Numbers
<1>2. \A r \in Requests : ~Live(r)
  BY DEF Init, Live
<1>3. pin[1] = (IF confidential THEN {} ELSE keys) /\ keys \in SUBSET Keys
  BY <1>1 DEF Init
<1>4. pin[1] # None
  BY <1>3, RevisionsAssumption
<1>5. Types
  <2>1. NoJob \in JobT
    BY DEF NoJob, JobT
  <2> QED
    BY <1>1, <2>1 DEF Init, Types
<1>6. Solo /\ Targets
  BY <1>2 DEF Solo, Targets
<1>7. Present /\ Written
  BY <1>2, <1>4 DEF Present, Written, Writes, At, Init
<1>8. Current /\ AsAsked
  BY <1>2, <1>3 DEF Current, AsAsked, Init
<1>9. Accounted /\ Told
  BY DEF Accounted, Told, Init
<1> QED
  BY <1>5, <1>6, <1>7, <1>8, <1>9 DEF RInv

(* As long as nobody writes the keys, what was asked of them stays.          *)
LEMMA AskedStays ==
  ASSUME RInv, UNCHANGED <<keys, wanted, missed, overruled>>,
         \A q \in Requests : req'[q] # Idle => Live(q) /\ req'[q].old = req[q].old
  PROVE  AsAsked'
BY DEF RInv, AsAsked, Live

(* A writer settles the keys it names.  Of another key it writes what it     *)
(* read, and where that is no longer so, the key was named meanwhile.        *)
LEMMA AskedWrites ==
  ASSUME RInv, NEW r \in Requests, Live(r), NEW ks, keys' = ks, Overrule(r, ks),
         \A k \in Keys : IF k \in Named(r) THEN k \in ks <=> k \in wanted'
                       ELSE /\ k \in wanted' <=> k \in wanted
                            /\ (k \in ks <=> k \in keys) \/ (k \in ks <=> k \in req[r].old),
         \A q \in Requests : req'[q] # Idle => Live(q) /\ req'[q].old = req[q].old
  PROVE  AsAsked'
<1>1. /\ overruled' = (overruled \ Named(r)) \union Undone(r, ks)
      /\ \A q \in Requests : Live(q) => missed'[q] = missed[q] \union Named(r)
  BY DEF Overrule
<1>2. ASSUME NEW k \in Keys, k \notin Named(r), ~(k \in ks <=> k \in keys) PROVE k \in overruled'
  <2>1. k \in overruled \/ k \in missed[r]
    BY <1>2 DEF RInv, AsAsked
  <2> QED
    BY <1>1, <1>2, <2>1 DEF Undone
<1>3. ASSUME NEW k \in Keys, k \notin overruled' PROVE k \in ks <=> k \in wanted'
  <2>1. CASE k \in Named(r)
    BY <2>1
  <2>2. CASE k \notin Named(r)
    <3>1. (k \in ks <=> k \in keys) /\ k \notin overruled
      BY <1>1, <1>2, <1>3, <2>2
    <3> QED
      BY <2>2, <3>1 DEF RInv, AsAsked
  <2> QED
    BY <2>1, <2>2
<1>4. ASSUME NEW q \in Requests, req'[q] # Idle, NEW k \in Keys
      PROVE  k \in overruled' \/ k \in missed'[q] \/ (k \in req'[q].old <=> k \in ks)
  <2>1. Live(q) /\ req'[q].old = req[q].old /\ missed'[q] = missed[q] \union Named(r)
    BY <1>1, <1>4
  <2>2. CASE k \in Named(r)
    BY <2>1, <2>2
  <2>3. CASE k \notin Named(r)
    <3>1. k \in overruled \/ k \in missed[q] \/ (k \in req[q].old <=> k \in keys)
      BY <2>1 DEF RInv, AsAsked
    <3>2. CASE k \in ks <=> k \in keys
      BY <1>1, <2>1, <2>3, <3>1, <3>2
    <3>3. CASE ~(k \in ks <=> k \in keys)
      BY <1>2, <2>3, <3>3
    <3> QED
      BY <3>2, <3>3
  <2> QED
    BY <2>2, <2>3
<1> QED
  BY <1>3, <1>4 DEF AsAsked, Live

------------------------------------------------------------------------------
(* The steps that look something up, and what ends a request before it has   *)
(* written a pin: nothing is written but the copy of a duplicate.            *)
LEMMA Looks ==
  ASSUME Types, RInv, NEW r \in Requests, Live(r), ~Writes(r), ~Tells(r),
         req' \in [Requests -> ReqT \union {Idle}], \A q \in Requests \ {r} : req'[q] = req[q],
         req'[r] # Idle =>
           /\ req'[r].asked = req[r].asked /\ req'[r].act = req[r].act
           /\ req'[r].old = req[r].old /\ req'[r].alone = req[r].alone
           /\ req[r].pc \in {"look", "insert"} /\ req'[r].pc \in {"insert", "pin", "write"}
           /\ req'[r].pc = "write" => req[r].asked.op = "duplicate"
           /\ req'[r].pc = "pin" => /\ req[r].asked.op \in KeyOps => req'[r].n = req[r].act
                                    /\ req[r].asked.op = "activate" => req'[r].n # req[r].act
                                    /\ stored => pin[req'[r].n] # None,
         copy' = "revision" => \/ copy = "revision" /\ (At(r, {"duplicate"}, "write") => orphaned')
                               \/ At(r, {"duplicate"}, "write")',
         orphaned' = orphaned \/ orphaned' = TRUE,
         UNCHANGED <<deployment, pin, job, wanted, missed, overruled, raced, adrift>>
  PROVE  Types' /\ RInv'
<1>0. UNCHANGED <<confidential, stored, active, keys, pin, job, wanted, missed, overruled, raced, adrift>>
  BY DEF deployment
<1>1. Types'
  BY <1>0 DEF Types
<1>2. \A q \in Requests \ {r} :
        /\ Live(q)' <=> Live(q)
        /\ \A ops, pc : At(q, ops, pc)' <=> At(q, ops, pc)
  BY DEF Live, At
<1>3. Live(r)' <=> req'[r] # Idle
  BY DEF Live
<1>4. ~Writes(r)' /\ ~Tells(r)'
  BY <1>3 DEF Writes, Tells, At, Writers, KeyOps
<1>5. \A q \in Requests : /\ Writes(q)' <=> Writes(q) /\ q # r
                          /\ Tells(q)' <=> Tells(q)
                          /\ At(q, KeyOps, "write")' <=> At(q, KeyOps, "write")
                          /\ At(q, {"revise"}, "write")' <=> At(q, {"revise"}, "write")
  BY <1>2, <1>4 DEF Writes, Tells, At, Writers, KeyOps
<1>6. Solo'
  BY <1>0, <1>2, <1>3 DEF RInv, Solo, Outdated, Live
<1>7. Targets'
  BY <1>3 DEF RInv, Targets, Live, KeyOps
<1>8. Present'
  BY <1>0, <1>2, <1>3, <1>5 DEF RInv, Present
<1>9. Written'
  <2>1. \A q \in Requests \ {r} : Wrote(q)' = Wrote(q)
    BY DEF Wrote, Effective, NextKeys, Applied
  <2> QED
    BY <1>0, <1>5, <2>1 DEF RInv, Written
<1>10. Current'
  <2>1. \A q \in Requests : At(q, KeyOps, "write") => req'[q].n = req[q].n
    BY DEF At, Writes, Writers, KeyOps
  <2> QED
    BY <1>0, <1>5, <2>1 DEF RInv, Current
<1>11. AsAsked'
  BY <1>0, AskedStays DEF Live
<1>12. Accounted'
  <2>1. \A q \in Requests : At(q, {"revise"}, "write") => req'[q].n = req[q].n
    BY DEF At, Writes, Writers
  <2> QED
    BY <1>0, <1>2, <1>5, <2>1 DEF RInv, Accounted
<1>13. Told'
  <2>1. Pending' = Pending
    BY <1>5 DEF Pending
  <2>2. \A q \in Pending : req'[q] = req[q]
    BY DEF Pending
  <2> QED
    BY <1>0, <2>1, <2>2 DEF RInv, Told, Tracked, Applied
<1> QED
  BY <1>1, <1>6, <1>7, <1>8, <1>9, <1>10, <1>11, <1>12, <1>13 DEF RInv

(* A request reads the deployment; none is alone any more with it.           *)
LEMMA BeginSteps == ASSUME Types, RInv, NEW r \in Requests, Begin(r) PROVE Types' /\ RInv'
<1>0. /\ ~Live(r) /\ stored
      /\ UNCHANGED <<confidential, stored, active, keys, pin, copy, job, wanted, overruled, raced, adrift, orphaned>>
      /\ missed' = [q \in Requests |-> IF q # r /\ Live(q) THEN missed[q] ELSE {}]
  BY DEF Begin, deployment
<1>1. PICK a \in Asked :
        Enter(r, [pc |-> "look", asked |-> a, act |-> active, old |-> keys, n |-> 1, alone |-> AllIdle])
  BY DEF Begin
<1> DEFINE e == [pc |-> "look", asked |-> a, act |-> active, old |-> keys, n |-> 1, alone |-> AllIdle]
<1>2. e \in ReqT
  <2>1. 1 \in Numbers
    BY RevisionsAssumption DEF Numbers
  <2>2. AllIdle \in BOOLEAN
    BY DEF AllIdle
  <2> QED
    BY <2>1, <2>2 DEF ReqT, Types
<1>3. e.pc = "look" /\ e.act = active /\ e.old = keys /\ (e.alone = AllIdle)
  OBVIOUS
<1>4. \A q \in Requests : Live(q) => [req[q] EXCEPT !.alone = FALSE] \in ReqT
  <2> SUFFICES ASSUME NEW q \in Requests, Live(q) PROVE [req[q] EXCEPT !.alone = FALSE] \in ReqT
    OBVIOUS
  <2>1. req[q] \in ReqT
    BY Records
  <2> QED
    BY <2>1 DEF ReqT
<1>5. \A q \in Requests : req'[q] = IF q = r THEN e
                                    ELSE IF Live(q) THEN [req[q] EXCEPT !.alone = FALSE] ELSE Idle
  BY <1>1 DEF Enter
<1>6. req' \in [Requests -> ReqT \union {Idle}]
  BY <1>1, <1>2, <1>4 DEF Enter
<1> HIDE DEF e
<1>7. \A q \in Requests \ {r} :
        /\ req'[q] # Idle <=> Live(q)
        /\ Live(q) => /\ req'[q].pc = req[q].pc /\ req'[q].asked = req[q].asked
                      /\ req'[q].act = req[q].act /\ req'[q].old = req[q].old
                      /\ req'[q].n = req[q].n /\ ~req'[q].alone
  <2> SUFFICES ASSUME NEW q \in Requests \ {r}
               PROVE  /\ req'[q] # Idle <=> Live(q)
                      /\ Live(q) => /\ req'[q].pc = req[q].pc /\ req'[q].asked = req[q].asked
                                    /\ req'[q].act = req[q].act /\ req'[q].old = req[q].old
                                    /\ req'[q].n = req[q].n /\ ~req'[q].alone
    OBVIOUS
  <2>1. CASE Live(q)
    <3>1. req[q] \in ReqT /\ Idle \notin ReqT
      BY <2>1, Records
    <3>2. req'[q] = [req[q] EXCEPT !.alone = FALSE]
      BY <1>5, <2>1
    <3>3. req'[q] \in ReqT
      BY <1>4, <2>1, <3>2
    <3>4. /\ req'[q].pc = req[q].pc /\ req'[q].asked = req[q].asked
          /\ req'[q].act = req[q].act /\ req'[q].old = req[q].old /\ req'[q].n = req[q].n
      BY <3>1, <3>2 DEF ReqT
    <3>5. req'[q].alone = FALSE
      BY <3>1, <3>2 DEF ReqT
    <3> QED
      BY <2>1, <3>1, <3>3, <3>4, <3>5
  <2>2. CASE ~Live(q)
    BY <1>5, <2>2
  <2> QED
    BY <2>1, <2>2
<1>8. req'[r] = e /\ req'[r] # Idle
  BY <1>2, <1>5, Records
<1>9. Types'
  BY <1>0, <1>6 DEF Types
<1>10. \A q \in Requests : /\ Writes(q)' <=> Writes(q)
                           /\ Tells(q)' <=> Tells(q)
                           /\ At(q, KeyOps, "write")' <=> At(q, KeyOps, "write")
                           /\ At(q, {"revise"}, "write")' <=> At(q, {"revise"}, "write")
                           /\ At(q, {"duplicate"}, "write")' <=> At(q, {"duplicate"}, "write")
  BY <1>0, <1>3, <1>7, <1>8 DEF Writes, Tells, At, Live
<1>11. Solo'
  <2>1. req'[r].alone => \A q \in Requests \ {r} : ~Live(q)
    BY <1>3, <1>8 DEF AllIdle
  <2> QED
    BY <1>0, <1>3, <1>7, <1>8, <2>1 DEF Solo, Outdated, Live
<1>12. Targets'
  BY <1>3, <1>7, <1>8 DEF RInv, Targets, Live
<1>13. Present'
  <2>1. pin[active] # None
    BY <1>0 DEF RInv, Present
  <2>2. pin[req'[r].act] # None /\ req'[r].pc = "look" /\ ~Writes(r)
    BY <1>0, <1>3, <1>8, <2>1 DEF Writes, At
  <2>3. \A q \in Requests \ {r} : Live(q) =>
          pin[req'[q].act] # None /\ (Writes(q) \/ req'[q].pc = "pin" => pin[req'[q].n] # None)
    BY <1>0, <1>7 DEF RInv, Present
  <2> QED
    BY <1>0, <1>7, <1>10, <2>1, <2>2, <2>3 DEF Present, Live
<1>14. Written'
  <2>1. \A q \in Requests : Writes(q) => q # r /\ Live(q)
    BY <1>0 DEF Writes, At
  <2>2. \A q \in Requests \ {r} : Live(q) => Wrote(q)' = Wrote(q)
    BY <1>7 DEF Wrote, Effective, NextKeys, Applied
  <2> QED
    BY <1>0, <1>7, <1>10, <2>1, <2>2 DEF RInv, Written
<1>15. Current'
  <2>1. \A q \in Requests : At(q, KeyOps, "write") => req'[q].n = req[q].n
    BY <1>0, <1>7 DEF At
  <2> QED
    BY <1>0, <1>10, <2>1 DEF RInv, Current
<1>16. AsAsked'
  <2>1. \A q \in Requests \ {r} : Live(q) => missed'[q] = missed[q]
    BY <1>0
  <2> QED
    BY <1>0, <1>3, <1>7, <1>8, <2>1 DEF RInv, AsAsked, Live
<1>17. Accounted'
  <2>1. \A q \in Requests : At(q, {"revise"}, "write") => req'[q].n = req[q].n
    BY <1>0, <1>7 DEF At
  <2> QED
    BY <1>0, <1>10, <2>1 DEF RInv, Accounted
<1>18. Told'
  <2>1. Pending' = Pending
    BY <1>10 DEF Pending
  <2>2. \A q \in Pending : req'[q].pc = req[q].pc /\ req'[q].asked = req[q].asked
    BY <1>0, <1>7 DEF Pending, Tells, At
  <2> QED
    BY <1>0, <2>1, <2>2 DEF RInv, Told, Tracked, Applied
<1> QED
  BY <1>9, <1>11, <1>12, <1>13, <1>14, <1>15, <1>16, <1>17, <1>18 DEF RInv

(* A new revision is pinned under a number of its own.                       *)
LEMMA InsertSteps ==
  ASSUME Types, RInv, NEW r \in Requests, At(r, {"revise"}, "insert"), pin[req[r].n] = None,
         pin' = [pin EXCEPT ![req[r].n] = Pinned(Effective(r))], Goto(r, "write"),
         UNCHANGED <<deployment, copy, job, history>>
  PROVE  Types' /\ RInv'
<1>0. /\ Live(r) /\ req[r].asked.op = "revise" /\ req[r].pc = "insert"
      /\ UNCHANGED <<confidential, stored, active, keys, copy, job, wanted, missed, overruled, raced, adrift, orphaned>>
  BY DEF At, deployment, history, intent
<1> DEFINE n == req[r].n
           ks == Pinned(Effective(r))
<1>1. n \in Numbers
  BY <1>0, Records
<1>2. ks \in SUBSET Keys /\ ks # None
  <2>1. Effective(r) \in SUBSET Keys
    BY <1>0, KeySets DEF Writers
  <2>2. ks \in SUBSET Keys
    BY <2>1 DEF Pinned
  <2> QED
    BY <2>2, RevisionsAssumption
<1>3. /\ req' \in [Requests -> ReqT \union {Idle}] /\ \A q \in Requests \ {r} : req'[q] = req[q]
      /\ req'[r].pc = "write" /\ req'[r].asked = req[r].asked /\ req'[r].act = req[r].act
      /\ req'[r].old = req[r].old /\ req'[r].n = n /\ req'[r].alone = req[r].alone
      /\ req'[r] # Idle
  BY <1>0, Goes
<1> HIDE DEF ks
<1>4. pin' \in [Numbers -> (SUBSET Keys) \union {None}] /\ pin'[n] = ks
      /\ \A m \in Numbers \ {n} : pin'[m] = pin[m]
  BY <1>1, <1>2 DEF Types, ks
<1>5. \A m \in Numbers : pin[m] # None => m # n /\ pin'[m] = pin[m]
  BY <1>4
<1>6. Types'
  BY <1>0, <1>3, <1>4 DEF Types
<1>7. \A q \in Requests : /\ Writes(q)' <=> Writes(q) \/ q = r
                          /\ Tells(q)' <=> Tells(q)
                          /\ At(q, KeyOps, "write")' <=> At(q, KeyOps, "write")
                          /\ At(q, {"revise"}, "write")' <=> At(q, {"revise"}, "write") \/ q = r
                          /\ At(q, {"duplicate"}, "write")' <=> At(q, {"duplicate"}, "write")
  BY <1>0, <1>3 DEF Writes, Tells, At, Live, KeyOps, Writers
<1>8. Solo'
  BY <1>0, <1>3 DEF RInv, Solo, Outdated, Live
<1>9. Targets'
  BY <1>0, <1>3 DEF RInv, Targets, Live, KeyOps
<1>10. active \in Numbers /\ \A q \in Requests : Live(q) => req[q].act \in Numbers /\ req[q].n \in Numbers
  BY Records DEF Types
<1>11. Present'
  <2> SUFFICES ASSUME stored PROVE Present'
    BY <1>0 DEF Present
  <2>1. pin'[active] # None
    BY <1>5, <1>10 DEF RInv, Present
  <2>2. ASSUME NEW q \in Requests, Live(q)
        PROVE  pin'[req[q].act] # None /\ (Writes(q) \/ req[q].pc = "pin" => pin'[req[q].n] # None)
    BY <1>5, <1>10, <2>2 DEF RInv, Present
  <2> QED
    BY <1>0, <1>2, <1>3, <1>4, <1>7, <2>1, <2>2 DEF Present, Live
<1>12. Written'
  <2> SUFFICES ASSUME stored, ~confidential PROVE Written'
    BY <1>0 DEF Written
  <2>1. \A q \in Requests : Wrote(q)' = Wrote(q)
    BY <1>3 DEF Wrote, Effective, NextKeys, Applied
  <2>2. Wrote(r) = ks
    BY <1>0 DEF Wrote, ks, Pinned
  <2>3. \A q \in Requests : Writes(q) => pin'[req[q].n] = pin[req[q].n] /\ q # r
    BY <1>0, <1>5, <1>10 DEF RInv, Present, Writes, At
  <2> QED
    BY <1>0, <1>3, <1>4, <1>7, <2>1, <2>2, <2>3 DEF RInv, Written
<1>13. Current'
  <2> SUFFICES ASSUME stored PROVE Current'
    BY <1>0 DEF Current
  <2>1. pin'[active] = pin[active]
    BY <1>5, <1>10 DEF RInv, Present
  <2>2. \A q \in Requests : req'[q].n = req[q].n
    BY <1>3
  <2> QED
    BY <1>0, <1>7, <2>1, <2>2 DEF RInv, Current
<1>14. AsAsked'
  BY <1>0, <1>3, AskedStays DEF Live
<1>15. Accounted'
  <2>1. \A q \in Requests : req'[q].n = req[q].n
    BY <1>3
  <2>2. \A m \in Numbers : pin'[m] # None => m = n \/ pin[m] # None
    BY <1>4
  <2> QED
    BY <1>0, <1>3, <1>7, <2>1, <2>2 DEF RInv, Accounted
<1>16. Told'
  <2>1. Pending' = Pending
    BY <1>7 DEF Pending
  <2>2. \A q \in Pending : req'[q] = req[q]
    BY <1>0, <1>3 DEF Pending, Tells, At
  <2> QED
    BY <1>0, <2>1, <2>2 DEF RInv, Told, Tracked, Applied
<1> QED
  BY <1>6, <1>8, <1>9, <1>11, <1>12, <1>13, <1>14, <1>15, <1>16 DEF RInv

(* A revision is pinned again: with the keys the request read, or those it   *)
(* is to write.                                                              *)
LEMMA RepinSteps ==
  ASSUME Types, RInv, NEW r \in Requests, RepinTarget(r) \/ RepinActive(r) PROVE Types' /\ RInv'
<1>0. /\ Live(r) /\ req[r].asked.op \in {"activate", "add", "revoke"} /\ req[r].pc = "pin" /\ Goto(r, "write")
      /\ UNCHANGED <<confidential, stored, active, keys, copy, job, wanted, missed, overruled, adrift, orphaned>>
  BY DEF RepinTarget, RepinActive, At, deployment, intent, KeyOps
<1> DEFINE n == req[r].n
           ks == Wrote(r)
<1>1. PinAgain(r, ks)
  BY DEF RepinTarget, RepinActive, At, KeyOps, Wrote
<1>2. n \in Numbers /\ req[r].act \in Numbers
  BY <1>0, Records
<1>3. ks \in SUBSET Keys /\ ks # None
  <2>1. ks \in SUBSET Keys
    BY <1>0, KeySets, Records DEF Writers, KeyOps, Wrote
  <2> QED
    BY <2>1, RevisionsAssumption
<1>4. /\ req' \in [Requests -> ReqT \union {Idle}] /\ \A q \in Requests \ {r} : req'[q] = req[q]
      /\ req'[r].pc = "write" /\ req'[r].asked = req[r].asked /\ req'[r].act = req[r].act
      /\ req'[r].old = req[r].old /\ req'[r].n = n /\ req'[r].alone = req[r].alone
      /\ req'[r] # Idle
  BY <1>0, Goes
<1>5. raced' = (raced \/ Contested(r) \/ (Outdated(r) /\ (req[r].asked.op \in KeyOps \/ n = active)))
  BY <1>0 DEF RepinTarget, RepinActive, At, KeyOps
<1> HIDE DEF ks
<1>6. /\ pin' \in [Numbers -> (SUBSET Keys) \union {None}]
      /\ \A m \in Numbers \ {n} : pin'[m] = pin[m]
      /\ \A m \in Numbers : pin'[m] = None <=> pin[m] = None
      /\ pin[n] # None /\ ~confidential => pin'[n] = ks
  BY <1>1, <1>2, <1>3 DEF Types, PinAgain
<1>7. Types'
  BY <1>0, <1>4, <1>5, <1>6 DEF Types
<1>8. \A q \in Requests : /\ Writes(q)' <=> Writes(q) \/ q = r
                          /\ Tells(q)' <=> Tells(q)
                          /\ At(q, KeyOps, "write")' <=> \/ At(q, KeyOps, "write")
                                                         \/ q = r /\ req[r].asked.op \in KeyOps
                          /\ At(q, {"revise"}, "write")' <=> At(q, {"revise"}, "write")
                          /\ At(q, {"duplicate"}, "write")' <=> At(q, {"duplicate"}, "write")
  BY <1>0, <1>4 DEF Writes, Tells, At, Live, KeyOps, Writers
<1>9. Solo'
  BY <1>0, <1>4 DEF RInv, Solo, Outdated, Live
<1>10. Targets'
  BY <1>0, <1>4 DEF RInv, Targets, Live, KeyOps
<1>11. active \in Numbers /\ \A q \in Requests : Live(q) => req[q].act \in Numbers /\ req[q].n \in Numbers
  BY Records DEF Types
<1>12. Present'
  <2> SUFFICES ASSUME stored PROVE Present'
    BY <1>0 DEF Present
  <2>1. pin'[active] # None
    BY <1>6, <1>11 DEF RInv, Present
  <2>2. ASSUME NEW q \in Requests, Live(q)
        PROVE  pin'[req[q].act] # None /\ (Writes(q) \/ req[q].pc = "pin" => pin'[req[q].n] # None)
    BY <1>6, <1>11, <2>2 DEF RInv, Present
  <2> QED
    BY <1>0, <1>4, <1>8, <2>1, <2>2 DEF Present, Live
<1>13. Written'
  <2> SUFFICES ASSUME stored, ~confidential PROVE Written'
    BY <1>0 DEF Written
  <2>1. \A q \in Requests : Wrote(q)' = Wrote(q)
    BY <1>4 DEF Wrote, Effective, NextKeys, Applied
  <2>2. pin'[n] = ks
    BY <1>0, <1>6 DEF RInv, Present
  <2>3. ASSUME NEW q \in Requests, Writes(q), req[q].alone \/ ~raced'
        PROVE  q # r /\ pin'[req[q].n] = pin[req[q].n] /\ (req[q].alone \/ ~raced)
    <3>1. q # r /\ Live(q) /\ ~req[q].alone
      BY <1>0, <2>3 DEF RInv, Solo, Writes, At
    <3>2. req[q].n # n
      BY <1>5, <2>3, <3>1 DEF Contested, Writes, Writers
    <3> QED
      BY <1>5, <1>6, <1>11, <2>3, <3>1, <3>2
  <2> QED
    BY <1>0, <1>4, <1>8, <2>1, <2>2, <2>3 DEF RInv, Written, ks
<1>14. Current'
  <2> SUFFICES ASSUME stored, ~confidential, ~raced' PROVE Current'
    BY <1>0 DEF Current
  <2>1. \A q \in Requests : req'[q].n = req[q].n
    BY <1>4
  <2>2. CASE req[r].asked.op \in KeyOps
    <3>1. n = active
      BY <1>0, <1>5, <2>2 DEF RInv, Targets, Outdated
    <3> QED
      BY <1>0, <1>8, <2>1, <2>2, <3>1 DEF Current
  <2>3. CASE req[r].asked.op \notin KeyOps
    <3>1. req[r].asked.op = "activate" /\ n # req[r].act
      BY <1>0, <2>3 DEF RInv, Targets, KeyOps
    <3>2. n # active
      BY <1>5, <3>1 DEF Outdated
    <3>3. pin'[active] = pin[active]
      BY <1>6, <1>11, <3>2
    <3> QED
      BY <1>0, <1>5, <1>8, <2>1, <3>3 DEF RInv, Current
  <2> QED
    BY <2>2, <2>3
<1>15. AsAsked'
  BY <1>0, <1>4, AskedStays DEF Live
<1>16. Accounted'
  <2>1. \A q \in Requests : req'[q].n = req[q].n
    BY <1>4
  <2> QED
    BY <1>0, <1>6, <1>8, <2>1 DEF RInv, Accounted
<1>17. Told'
  <2>1. Pending' = Pending
    BY <1>8 DEF Pending
  <2>2. \A q \in Pending : req'[q] = req[q]
    BY <1>0, <1>4 DEF Pending, Tells, At
  <2> QED
    BY <1>0, <2>1, <2>2 DEF RInv, Told, Tracked, Applied
<1> QED
  BY <1>7, <1>9, <1>10, <1>12, <1>13, <1>14, <1>15, <1>16, <1>17 DEF RInv

------------------------------------------------------------------------------
(* A request that ends leaves the others, none of which is alone.            *)
LEMMA Ends ==
  ASSUME Types, RInv, NEW r \in Requests, Live(r), Finish(r)
  PROVE  /\ req' \in [Requests -> ReqT \union {Idle}] /\ req'[r] = Idle
         /\ \A q \in Requests \ {r} : req'[q] = req[q] /\ (Live(q) => ~req[q].alone)
         /\ \A q \in Requests : /\ Live(q)' <=> Live(q) /\ q # r
                                /\ Writes(q)' <=> Writes(q) /\ q # r
                                /\ Tells(q)' <=> Tells(q) /\ q # r
                                /\ At(q, KeyOps, "write")' <=> At(q, KeyOps, "write") /\ q # r
                                /\ At(q, {"revise"}, "write")' <=> At(q, {"revise"}, "write") /\ q # r
                                /\ At(q, {"duplicate"}, "write")' <=> At(q, {"duplicate"}, "write") /\ q # r
         /\ Solo' /\ Targets'
<1>1. /\ req' \in [Requests -> ReqT \union {Idle}] /\ req'[r] = Idle
      /\ \A q \in Requests \ {r} : req'[q] = req[q]
  BY Finishes
<1>2. \A q \in Requests \ {r} : Live(q) => ~req[q].alone
  BY DEF RInv, Solo
<1>3. \A q \in Requests : Live(q)' <=> Live(q) /\ q # r
  BY <1>1 DEF Live
<1>4. \A q \in Requests : /\ Writes(q)' <=> Writes(q) /\ q # r
                          /\ Tells(q)' <=> Tells(q) /\ q # r
                          /\ At(q, KeyOps, "write")' <=> At(q, KeyOps, "write") /\ q # r
                          /\ At(q, {"revise"}, "write")' <=> At(q, {"revise"}, "write") /\ q # r
                          /\ At(q, {"duplicate"}, "write")' <=> At(q, {"duplicate"}, "write") /\ q # r
  BY <1>1, <1>3 DEF Writes, Tells, At
<1>5. Solo'
  BY <1>1, <1>2, <1>3 DEF Solo
<1>6. Targets'
  BY <1>1, <1>3 DEF RInv, Targets
<1> QED
  BY <1>1, <1>2, <1>3, <1>4, <1>5, <1>6

(* A writer whose write does not leave the request raced read what is still  *)
(* so, and finds what it pinned.                                             *)
LEMMA FreshWrites ==
  ASSUME Types, RInv, NEW r \in Requests, Writes(r), stored, Judge(r), ~raced'
  PROVE  /\ req[r].act = active /\ req[r].old = keys /\ (req[r].alone \/ ~raced)
         /\ ~confidential => pin[req[r].n] = Wrote(r)
<1>1. Live(r) /\ req[r].pc = "write"
  BY DEF Writes, At
<1>2. req[r].alone \/ ~(raced \/ Outdated(r))
  BY DEF Judge
<1>3. ~Outdated(r)
  BY <1>1, <1>2 DEF RInv, Solo
<1>4. req[r].alone \/ ~raced
  BY <1>2
<1> QED
  BY <1>3, <1>4 DEF RInv, Written, Outdated

(* While others are served, a race once noticed is not forgotten.            *)
LEMMA JudgeKeeps ==
  ASSUME Types, RInv, NEW r \in Requests, Live(r), Judge(r)
  PROVE  raced' \in BOOLEAN /\ \A q \in Requests \ {r} : Live(q) => (raced => raced')
<1>1. \A q \in Requests \ {r} : Live(q) => ~req[r].alone
  BY DEF RInv, Solo
<1>2. raced' = (~req[r].alone /\ (raced \/ Outdated(r)))
  BY DEF Judge
<1>3. raced' \in BOOLEAN
  BY <1>2, Zenon
<1>4. ~req[r].alone /\ raced => raced'
  BY <1>2
<1> QED
  BY <1>1, <1>3, <1>4

(* What the others pinned, and what is told, when r has written.             *)
LEMMA OthersWritten ==
  ASSUME Types, RInv, NEW r \in Requests, Live(r),
         \A q \in Requests \ {r} : req'[q] = req[q] /\ (Live(q) => (raced => raced')),
         \A q \in Requests : Writes(q)' <=> Writes(q) /\ q # r,
         UNCHANGED <<confidential, stored, pin>>
  PROVE  Written'
<1>1. \A q \in Requests \ {r} : Wrote(q)' = Wrote(q)
  BY DEF Wrote, Effective, NextKeys, Applied
<1>2. \A q \in Requests : Writes(q) => Live(q)
  BY DEF Writes, At
<1> QED
  BY <1>1, <1>2 DEF RInv, Written

(* As long as the job and the telling stay, so does what is to be told.      *)
LEMMA StillTold ==
  ASSUME RInv, \A q \in Requests : Tells(q)' <=> Tells(q), \A q \in Pending : req'[q] = req[q],
         UNCHANGED <<confidential, stored, job>>,
         job # NoJob => (adrift => adrift') /\ (keys' = keys \/ adrift')
  PROVE  Told'
<1>1. Pending' = Pending
  BY DEF Pending
<1> QED
  BY <1>1 DEF RInv, Told, Tracked, Applied

(* The new revision is made active, with its keys.                           *)
LEMMA MakeActiveSteps == ASSUME Types, RInv, NEW r \in Requests, MakeActive(r) PROVE Types' /\ RInv'
<1>0. /\ Live(r) /\ req[r].asked.op = "revise" /\ req[r].pc = "write" /\ stored
      /\ active' = req[r].n /\ keys' = (IF Effective(r) = {} THEN keys ELSE Effective(r))
      /\ wanted' = (IF req[r].asked.arg # {} THEN req[r].asked.arg ELSE wanted) /\ Overrule(r, keys')
      /\ Judge(r) /\ Finish(r) /\ adrift' = (adrift \/ (keys' # keys /\ job # NoJob))
      /\ UNCHANGED <<confidential, stored, pin, copy, job, orphaned>>
  BY DEF MakeActive, At, KeysWith
<1>1. Writes(r) /\ ~Tells(r)
  BY <1>0 DEF Writes, Tells, At, Writers, KeyOps
<1>2. /\ req' \in [Requests -> ReqT \union {Idle}] /\ req'[r] = Idle
      /\ \A q \in Requests \ {r} : req'[q] = req[q] /\ (Live(q) => ~req[q].alone)
      /\ \A q \in Requests : /\ Live(q)' <=> Live(q) /\ q # r
                             /\ Writes(q)' <=> Writes(q) /\ q # r
                             /\ Tells(q)' <=> Tells(q)
                             /\ At(q, {"duplicate"}, "write")' <=> At(q, {"duplicate"}, "write") /\ q # r
      /\ Solo' /\ Targets'
  BY <1>0, <1>1, Ends
<1>3. req[r].n \in Numbers /\ Effective(r) \in SUBSET Keys
  BY <1>0, Records, KeySets DEF Writers
<1>4. raced' \in BOOLEAN /\ \A q \in Requests \ {r} : Live(q) => (raced => raced')
  BY <1>0, JudgeKeeps
<1>5. Types'
  BY <1>0, <1>2, <1>3, <1>4 DEF Types
<1>6. Present'
  BY <1>0, <1>1, <1>2 DEF RInv, Present
<1>7. Written'
  BY <1>0, <1>2, <1>4, OthersWritten
<1>8. ~raced' => /\ req[r].old = keys /\ (req[r].alone \/ ~raced)
                 /\ ~confidential => pin[req[r].n] = Effective(r)
  <2>1. Wrote(r) = Effective(r)
    BY <1>0 DEF Wrote
  <2> QED
    BY <1>0, <1>1, <2>1, FreshWrites
<1>9. ~raced' => keys' = Effective(r)
  BY <1>0, <1>8 DEF Effective
<1>10. Current'
  BY <1>0, <1>8, <1>9 DEF Current
<1>11. AsAsked'
  <2>1. Named(r) = IF req[r].asked.arg # {} THEN Keys ELSE {}
    BY <1>0 DEF Named
  <2>2. ASSUME NEW k \in Keys
        PROVE  IF k \in Named(r) THEN k \in keys' <=> k \in wanted'
               ELSE /\ k \in wanted' <=> k \in wanted
                    /\ (k \in keys' <=> k \in keys) \/ (k \in keys' <=> k \in req[r].old)
    BY <1>0, <2>1 DEF Effective
  <2>3. \A q \in Requests : req'[q] # Idle => Live(q) /\ req'[q].old = req[q].old
    BY <1>2 DEF Live
  <2> QED
    BY <1>0, <2>2, <2>3, AskedWrites
<1>12. Accounted'
  <2>1. \A q \in Requests : At(q, {"duplicate"}, "write") => q # r
    BY <1>0 DEF At
  <2> QED
    BY <1>0, <1>2, <2>1 DEF RInv, Accounted
<1>13. Told'
  <2>1. \A q \in Pending : req'[q] = req[q]
    BY <1>1, <1>2 DEF Pending
  <2> QED
    BY <1>0, <1>2, <2>1, StillTold
<1> QED
  BY <1>2, <1>5, <1>6, <1>7, <1>10, <1>11, <1>12, <1>13 DEF RInv

(* The revision that was pinned again is made active, or already is.         *)
LEMMA SwapSteps == ASSUME Types, RInv, NEW r \in Requests, Swap(r) PROVE Types' /\ RInv'
<1>0. /\ Live(r) /\ req[r].asked.op = "activate" /\ req[r].pc = "write" /\ Finish(r)
      /\ UNCHANGED <<confidential, stored, keys, pin, copy, job, wanted, missed, overruled, adrift, orphaned>>
  BY DEF Swap, At, intent
<1>1. Writes(r) /\ ~Tells(r)
  BY <1>0 DEF Writes, Tells, At, Writers, KeyOps
<1>2. /\ req' \in [Requests -> ReqT \union {Idle}] /\ req'[r] = Idle
      /\ \A q \in Requests \ {r} : req'[q] = req[q] /\ (Live(q) => ~req[q].alone)
      /\ \A q \in Requests : /\ Live(q)' <=> Live(q) /\ q # r
                             /\ Writes(q)' <=> Writes(q) /\ q # r
                             /\ Tells(q)' <=> Tells(q)
                             /\ At(q, KeyOps, "write")' <=> At(q, KeyOps, "write")
                             /\ At(q, {"revise"}, "write")' <=> At(q, {"revise"}, "write")
                             /\ At(q, {"duplicate"}, "write")' <=> At(q, {"duplicate"}, "write")
      /\ Solo' /\ Targets'
  <2>1. ~At(r, KeyOps, "write") /\ ~At(r, {"revise"}, "write") /\ ~At(r, {"duplicate"}, "write")
    BY <1>0 DEF At, KeyOps
  <2> QED
    BY <1>0, <1>1, <2>1, Ends
<1>3. req[r].n \in Numbers
  BY <1>0, Records
<1>4. CASE stored /\ active # req[r].n
  <2>1. active' = req[r].n /\ Judge(r)
    BY <1>4 DEF Swap
  <2>2. raced' \in BOOLEAN /\ \A q \in Requests \ {r} : Live(q) => (raced => raced')
    BY <1>0, <2>1, JudgeKeeps
  <2>3. Types'
    BY <1>0, <1>2, <1>3, <2>1, <2>2 DEF Types
  <2>4. Present'
    BY <1>0, <1>1, <1>2, <1>4, <2>1 DEF RInv, Present
  <2>5. Written'
    BY <1>0, <1>2, <2>2, OthersWritten
  <2>6. ~raced' => /\ req[r].old = keys /\ (req[r].alone \/ ~raced)
                   /\ ~confidential => pin[req[r].n] = req[r].old
    <3>1. Wrote(r) = req[r].old
      BY <1>0 DEF Wrote
    <3> QED
      BY <1>0, <1>1, <1>4, <2>1, <3>1, FreshWrites
  <2>7. Current'
    BY <1>0, <2>1, <2>6 DEF Current
  <2>8. AsAsked'
    BY <1>0, <1>2, AskedStays DEF Live
  <2>9. Accounted'
    BY <1>0, <1>2, <1>4 DEF RInv, Accounted
  <2>10. Told'
    <3>1. \A q \in Pending : req'[q] = req[q]
      BY <1>1, <1>2 DEF Pending
    <3> QED
      BY <1>0, <1>2, <3>1, StillTold
  <2> QED
    BY <1>2, <2>3, <2>4, <2>5, <2>7, <2>8, <2>9, <2>10 DEF RInv
<1>5. CASE ~(stored /\ active # req[r].n)
  <2>1. UNCHANGED <<active, raced>>
    BY <1>5 DEF Swap
  <2>3. Types'
    BY <1>0, <1>2, <2>1 DEF Types
  <2>4. Present'
    BY <1>0, <1>2, <2>1 DEF RInv, Present
  <2>5. Written'
    BY <1>0, <1>2, <2>1, OthersWritten
  <2>6. \A q \in Requests : At(q, KeyOps, "write") \/ At(q, {"revise"}, "write") => req'[q] = req[q]
    BY <1>0, <1>2 DEF At, KeyOps
  <2>7. Current'
    BY <1>0, <1>2, <2>1, <2>6 DEF RInv, Current
  <2>8. AsAsked'
    BY <1>0, <1>2, AskedStays DEF Live
  <2>9. Accounted'
    BY <1>0, <1>2, <2>6 DEF RInv, Accounted
  <2>10. Told'
    <3>1. \A q \in Pending : req'[q] = req[q]
      BY <1>1, <1>2 DEF Pending
    <3> QED
      BY <1>0, <1>2, <3>1, StillTold
  <2> QED
    BY <1>2, <2>3, <2>4, <2>5, <2>7, <2>8, <2>9, <2>10 DEF RInv
<1> QED
  BY <1>4, <1>5

(* The keys are written; the request goes on to the jobs.                    *)
LEMMA WriteKeysSteps == ASSUME Types, RInv, NEW r \in Requests, WriteKeys(r) PROVE Types' /\ RInv'
<1>0. /\ Live(r) /\ req[r].asked.op \in KeyOps /\ req[r].pc = "write" /\ Goto(r, "jobs")
      /\ adrift' = (adrift \/ raced' \/ \E q \in Requests \ {r} : Tells(q))
      /\ UNCHANGED <<confidential, stored, active, pin, copy, job, orphaned>>
  BY DEF WriteKeys, At, Tells
<1>1. Writes(r) /\ ~Tells(r) /\ NextKeys(r) \in SUBSET Keys
  BY <1>0, KeySets DEF Writes, Tells, At, Writers, KeyOps
<1>2. /\ req' \in [Requests -> ReqT \union {Idle}] /\ \A q \in Requests \ {r} : req'[q] = req[q]
      /\ req'[r].pc = "jobs" /\ req'[r].asked = req[r].asked /\ req'[r].act = req[r].act
      /\ req'[r].old = req[r].old /\ req'[r].n = req[r].n /\ req'[r].alone = req[r].alone
      /\ req'[r] # Idle
  BY <1>0, Goes
<1>3. \A q \in Requests : /\ Live(q)' <=> Live(q)
                          /\ Writes(q)' <=> Writes(q) /\ q # r
                          /\ Tells(q)' <=> Tells(q) \/ q = r
                          /\ At(q, {"revise"}, "write")' <=> At(q, {"revise"}, "write")
                          /\ At(q, {"duplicate"}, "write")' <=> At(q, {"duplicate"}, "write")
  BY <1>0, <1>2 DEF Writes, Tells, At, Live, Writers, KeyOps
<1>4. stored => /\ keys' = NextKeys(r) /\ Judge(r)
                /\ wanted' = Applied(r, wanted) /\ Overrule(r, keys')
  BY DEF WriteKeys
<1>5. ~stored => UNCHANGED <<keys, wanted, missed, overruled, raced>>
  BY DEF WriteKeys, intent
<1>6. raced' \in BOOLEAN /\ \A q \in Requests \ {r} : Live(q) => (raced => raced')
  BY <1>0, <1>4, <1>5, JudgeKeeps DEF Types
<1>7. Types'
  <2>1. keys' \in SUBSET Keys
    BY <1>1, <1>4, <1>5 DEF Types
  <2>2. adrift' \in BOOLEAN
    BY <1>0, Zenon
  <2> QED
    BY <1>0, <1>2, <1>6, <2>1, <2>2 DEF Types
<1>8. Solo'
  <2>1. \A q \in Requests \ {r} : Live(q) => ~req[q].alone
    BY <1>0 DEF RInv, Solo
  <2> QED
    BY <1>0, <1>2, <1>3, <2>1 DEF RInv, Solo
<1>9. Targets'
  BY <1>2, <1>3 DEF RInv, Targets
<1>10. Present'
  BY <1>0, <1>2, <1>3 DEF RInv, Present
<1>11. Written'
  BY <1>0, <1>2, <1>3, <1>6, OthersWritten
<1>12. stored /\ ~raced' =>
         /\ req[r].act = active /\ req[r].old = keys /\ (req[r].alone \/ ~raced)
         /\ ~confidential => pin[req[r].n] = NextKeys(r)
  <2>1. Wrote(r) = NextKeys(r)
    BY <1>0 DEF Wrote, KeyOps
  <2> QED
    BY <1>1, <1>4, <2>1, FreshWrites
<1>13. Current'
  <2>1. req[r].n = req[r].act
    BY <1>0 DEF RInv, Targets
  <2> QED
    BY <1>0, <1>4, <1>12, <2>1 DEF Current
<1>14. AsAsked'
  <2>1. \A q \in Requests : req'[q] # Idle => Live(q) /\ req'[q].old = req[q].old
    BY <1>0, <1>2 DEF Live
  <2>2. CASE stored
    <3>1. Named(r) = req[r].asked.arg
      BY <1>0 DEF Named, KeyOps
    <3>2. ASSUME NEW k \in Keys
          PROVE  IF k \in Named(r) THEN k \in keys' <=> k \in wanted'
                 ELSE /\ k \in wanted' <=> k \in wanted
                      /\ (k \in keys' <=> k \in keys) \/ (k \in keys' <=> k \in req[r].old)
      BY <1>4, <2>2, <3>1 DEF NextKeys, Applied
    <3> QED
      BY <1>0, <1>4, <2>1, <2>2, <3>2, AskedWrites
  <2>3. CASE ~stored
    BY <1>5, <2>1, <2>3, AskedStays
  <2> QED
    BY <2>2, <2>3
<1>15. Accounted'
  <2>1. \A q \in Requests : req'[q].n = req[q].n
    BY <1>2
  <2> QED
    BY <1>0, <1>3, <2>1 DEF RInv, Accounted
<1>16. Told'
  <2> SUFFICES ASSUME job # NoJob, ~adrift' PROVE Told'
    BY <1>0 DEF RInv, Told
  <2>1. stored /\ ~raced' /\ ~adrift /\ \A q \in Requests \ {r} : ~Tells(q)
    BY <1>0 DEF RInv, Told
  <2>2. keys' = NextKeys(r) /\ req[r].old = keys
    BY <1>4, <1>12, <2>1
  <2>3. Pending = {} /\ Pending' = {r}
    BY <1>1, <1>3, <2>1 DEF Pending
  <2>4. Tracked => job.keys = keys
    BY <2>1, <2>3 DEF RInv, Told
  <2>5. keys' = Applied(r, keys) /\ Applied(r, Applied(r, keys)) = Applied(r, keys)
    BY <2>2 DEF NextKeys, Applied
  <2>6. \A ks : Applied(r, ks)' = Applied(r, ks')
    BY <1>2 DEF Applied
  <2>7. Applied(r, keys)' = keys' /\ (Tracked => keys' = Applied(r, job.keys)')
    BY <1>0, <1>2, <2>4, <2>5 DEF Applied
  <2>8. Tracked' <=> Tracked
    BY <1>0 DEF Tracked
  <2> QED
    BY <1>0, <1>2, <2>1, <2>3, <2>7, <2>8 DEF Told
<1> QED
  BY <1>7, <1>8, <1>9, <1>10, <1>11, <1>13, <1>14, <1>15, <1>16 DEF RInv

(* The deployment went away: its late revision is removed.                   *)
LEMMA DeploymentGoneSteps ==
  ASSUME Types, RInv, NEW r \in Requests, DeploymentGone(r) PROVE Types' /\ RInv'
<1>0. /\ Live(r) /\ req[r].asked.op = "revise" /\ req[r].pc = "write" /\ ~stored /\ Finish(r)
      /\ pin' = [pin EXCEPT ![req[r].n] = None]
      /\ UNCHANGED <<confidential, stored, active, keys, copy, job, wanted, missed, overruled, raced, adrift, orphaned>>
  BY DEF DeploymentGone, RemoveRevision, At, deployment, history, intent
<1>1. ~Tells(r) /\ ~At(r, {"duplicate"}, "write") /\ req[r].n \in Numbers
  BY <1>0, Records DEF Tells, At, KeyOps
<1>2. /\ req' \in [Requests -> ReqT \union {Idle}] /\ req'[r] = Idle
      /\ \A q \in Requests \ {r} : req'[q] = req[q]
      /\ \A q \in Requests : /\ Tells(q)' <=> Tells(q)
                             /\ At(q, {"revise"}, "write")' <=> At(q, {"revise"}, "write") /\ q # r
                             /\ At(q, {"duplicate"}, "write")' <=> At(q, {"duplicate"}, "write")
      /\ Solo' /\ Targets'
  BY <1>0, <1>1, Ends
<1>3. /\ pin' \in [Numbers -> (SUBSET Keys) \union {None}] /\ pin'[req[r].n] = None
      /\ \A m \in Numbers \ {req[r].n} : pin'[m] = pin[m]
  BY <1>0, <1>1 DEF Types
<1>4. Types'
  BY <1>0, <1>2, <1>3 DEF Types
<1>5. Present' /\ Written' /\ Current' /\ AsAsked'
  <2>1. AsAsked'
    BY <1>0, <1>2, AskedStays DEF Live
  <2> QED
    BY <1>0, <2>1 DEF Present, Written, Current
<1>6. Accounted'
  <2> SUFFICES ASSUME ~orphaned PROVE Accounted'
    BY <1>0 DEF Accounted
  <2>1. ASSUME NEW m \in Numbers, pin'[m] # None
        PROVE  \E q \in Requests : At(q, {"revise"}, "write")' /\ req'[q].n = m
    <3>1. m # req[r].n /\ pin[m] # None
      BY <1>3, <2>1
    <3>2. PICK q \in Requests : At(q, {"revise"}, "write") /\ req[q].n = m
      BY <1>0, <3>1 DEF RInv, Accounted
    <3> QED
      BY <1>2, <3>1, <3>2
  <2>2. copy = "revision" => \E q \in Requests : At(q, {"duplicate"}, "write")'
    BY <1>2 DEF RInv, Accounted
  <2> QED
    BY <1>0, <2>1, <2>2 DEF Accounted
<1>7. Told'
  <2>1. \A q \in Pending : req'[q] = req[q]
    BY <1>1, <1>2 DEF Pending
  <2> QED
    BY <1>0, <1>2, <2>1, StillTold
<1> QED
  BY <1>2, <1>4, <1>5, <1>6, <1>7 DEF RInv

(* A request that only tells has written all it is to write.                 *)
LEMMA TellsKeep ==
  ASSUME Types, RInv, NEW r \in Requests, Tells(r),
         req' \in [Requests -> ReqT \union {Idle}], \A q \in Requests \ {r} : req'[q] = req[q],
         \A q \in Requests \ {r} : Live(q) => ~req[q].alone,
         \/ req'[r] = Idle
         \/ /\ req'[r] # Idle /\ req'[r].pc = "push" /\ req'[r].asked = req[r].asked
            /\ req'[r].act = req[r].act /\ req'[r].alone = req[r].alone /\ req'[r].old = req[r].old,
         UNCHANGED <<confidential, stored, active, keys, pin, copy, wanted, missed, overruled, raced, orphaned>>
  PROVE  Solo' /\ Targets' /\ Present' /\ Written' /\ Current' /\ AsAsked' /\ Accounted'
<1>0. Live(r) /\ req[r].asked.op \in KeyOps /\ req[r].pc \in {"jobs", "push"}
  BY DEF Tells, At
<1>1. \A q \in Requests : /\ Live(q)' => Live(q)
                          /\ Writes(q)' <=> Writes(q)
                          /\ At(q, KeyOps, "write")' <=> At(q, KeyOps, "write")
                          /\ At(q, {"revise"}, "write")' <=> At(q, {"revise"}, "write")
                          /\ At(q, {"duplicate"}, "write")' <=> At(q, {"duplicate"}, "write")
  BY <1>0 DEF Live, Writes, At, KeyOps
<1>2. \A q \in Requests : Writes(q) \/ At(q, {"revise"}, "write") \/ At(q, KeyOps, "write") => q # r
  BY <1>0 DEF Writes, At
<1>3. Solo'
  BY <1>0, <1>1 DEF RInv, Solo, Live
<1>4. Targets'
  BY <1>1 DEF RInv, Targets, Live
<1>5. Present'
  BY <1>1, <1>2 DEF RInv, Present, Live
<1>6. Written'
  <2>1. \A q \in Requests \ {r} : Wrote(q)' = Wrote(q)
    BY DEF Wrote, Effective, NextKeys, Applied
  <2> QED
    BY <1>1, <1>2, <2>1 DEF RInv, Written
<1>7. Current' /\ AsAsked'
  <2>1. AsAsked'
    BY <1>0, AskedStays DEF Live
  <2> QED
    BY <1>1, <1>2, <2>1 DEF RInv, Current
<1>8. Accounted'
  BY <1>1, <1>2 DEF RInv, Accounted
<1> QED
  BY <1>3, <1>4, <1>5, <1>6, <1>7, <1>8

(* The running job is to be told; one that is frozen or posted is passed by. *)
LEMMA FindRunningSteps ==
  ASSUME Types, RInv, NEW r \in Requests, FindRunning(r) PROVE Types' /\ RInv'
<1>0. /\ Live(r) /\ req[r].asked.op \in KeyOps /\ req[r].pc = "jobs"
      /\ adrift' = (adrift \/ (KeysGiven /\ job.state # "running" /\ Applied(r, job.keys) # job.keys))
      /\ UNCHANGED <<confidential, stored, active, keys, pin, copy, job, wanted, missed, overruled, raced, orphaned>>
  BY DEF FindRunning, At, deployment, intent
<1>1. Tells(r)
  BY <1>0 DEF Tells, At
<1>2. \A q \in Requests \ {r} : Live(q) => ~req[q].alone
  BY <1>0 DEF RInv, Solo
<1>3. adrift' \in BOOLEAN
  BY <1>0, Zenon
<1>4. CASE job.state = "running"
  <2>1. Goto(r, "push")
    BY <1>4 DEF FindRunning
  <2>2. /\ req' \in [Requests -> ReqT \union {Idle}] /\ \A q \in Requests \ {r} : req'[q] = req[q]
        /\ req'[r].pc = "push" /\ req'[r].asked = req[r].asked /\ req'[r].act = req[r].act
        /\ req'[r].alone = req[r].alone /\ req'[r].old = req[r].old /\ req'[r] # Idle
    BY <1>0, <2>1, Goes
  <2>3. Solo' /\ Targets' /\ Present' /\ Written' /\ Current' /\ AsAsked' /\ Accounted'
    BY <1>0, <1>1, <1>2, <2>2, TellsKeep
  <2>4. \A q \in Requests : Tells(q)' <=> Tells(q)
    BY <1>0, <2>2 DEF Tells, At, Live
  <2>5. Pending' = Pending
    BY <2>4 DEF Pending
  <2>6. \A q \in Requests : req'[q].asked = req[q].asked
    BY <2>2
  <2>7. Told'
    BY <1>0, <1>4, <2>2, <2>5, <2>6 DEF RInv, Told, Tracked, Applied, Pending
  <2> QED
    BY <1>0, <1>3, <2>2, <2>3, <2>7 DEF RInv, Types
<1>5. CASE job.state # "running"
  <2>1. Finish(r)
    BY <1>5 DEF FindRunning
  <2>2. /\ req' \in [Requests -> ReqT \union {Idle}] /\ req'[r] = Idle
        /\ \A q \in Requests \ {r} : req'[q] = req[q]
        /\ \A q \in Requests : Tells(q)' <=> Tells(q) /\ q # r
    BY <1>0, <2>1, Ends
  <2>3. Solo' /\ Targets' /\ Present' /\ Written' /\ Current' /\ AsAsked' /\ Accounted'
    BY <1>0, <1>1, <1>2, <2>2, TellsKeep
  <2>4. Told'
    <3> SUFFICES ASSUME job # NoJob, ~adrift' PROVE Told'
      BY <1>0 DEF RInv, Told
    <3>1. stored /\ ~adrift
      BY <1>0 DEF RInv, Told
    <3>2. r \in Pending /\ \A q \in Pending : q = r
      BY <1>1, <3>1 DEF RInv, Told, Pending
    <3>3. Pending' = {}
      BY <2>2, <3>2 DEF Pending
    <3>4. Tracked => job.keys = keys
      <4>1. SUFFICES ASSUME Tracked PROVE job.keys = keys
        OBVIOUS
      <4>2. Applied(r, job.keys) = job.keys
        BY <1>0, <1>5, <4>1 DEF KeysGiven, Tracked
      <4> QED
        BY <3>1, <3>2, <4>1, <4>2 DEF RInv, Told
    <3> QED
      BY <1>0, <3>1, <3>3, <3>4 DEF Told, Tracked
  <2> QED
    BY <1>0, <1>3, <2>2, <2>3, <2>4 DEF RInv, Types
<1> QED
  BY <1>4, <1>5

(* The node applies the change to the keys it has.                           *)
LEMMA PushSteps == ASSUME Types, RInv, NEW r \in Requests, Push(r) PROVE Types' /\ RInv'
<1>0. /\ Live(r) /\ req[r].asked.op \in KeyOps /\ req[r].pc = "push" /\ Finish(r)
      /\ adrift' = (adrift \/ (KeysGiven /\ ~job.held))
      /\ UNCHANGED <<confidential, stored, active, keys, pin, copy, wanted, missed, overruled, raced, orphaned>>
  BY DEF Push, At, deployment, intent
<1>1. Tells(r) /\ \A q \in Requests \ {r} : Live(q) => ~req[q].alone
  BY <1>0 DEF Tells, At, RInv, Solo
<1>2. /\ req' \in [Requests -> ReqT \union {Idle}] /\ req'[r] = Idle
      /\ \A q \in Requests \ {r} : req'[q] = req[q]
      /\ \A q \in Requests : Tells(q)' <=> Tells(q) /\ q # r
  BY <1>0, Ends
<1>3. Solo' /\ Targets' /\ Present' /\ Written' /\ Current' /\ AsAsked' /\ Accounted'
  BY <1>0, <1>1, <1>2, TellsKeep
<1>4. adrift' \in BOOLEAN /\ (~adrift' => ~adrift)
  BY <1>0, Zenon
<1>5. CASE job.state = "running" /\ job.held
  <2>1. job \in JobT /\ Applied(r, job.keys) \in SUBSET Keys
    <3>1. job \in JobT /\ req[r].asked.arg \in SUBSET Keys
      BY <1>0, Records DEF Types, KeyOps
    <3> QED
      BY <3>1 DEF JobT, Applied
  <2>2. job' = [job EXCEPT !.keys = Applied(r, job.keys)]
    BY <1>5 DEF Push
  <2>3. job' \in JobT /\ job'.state = "running" /\ job'.held = job.held /\ job'.keys = Applied(r, job.keys)
    BY <1>5, <2>1, <2>2 DEF JobT
  <2>4. job # NoJob
    BY <1>5 DEF NoJob
  <2>5. Told'
    <3> SUFFICES ASSUME ~adrift PROVE Told'
      BY <1>0, <1>4, <2>4 DEF RInv, Told
    <3>1. r \in Pending /\ Tracked
      BY <1>1, <1>5 DEF Pending, Tracked
    <3>2. stored /\ keys = Applied(r, job.keys) /\ \A q \in Pending : q = r
      BY <2>4, <3>1 DEF RInv, Told
    <3>3. Pending' = {}
      BY <1>2, <3>2 DEF Pending
    <3> QED
      BY <1>0, <2>3, <3>2, <3>3 DEF Told
  <2> QED
    BY <1>0, <1>2, <1>3, <1>4, <2>3, <2>5 DEF RInv, Types
<1>6. CASE ~(job.state = "running" /\ job.held)
  <2>1. job' = job
    BY <1>6 DEF Push
  <2>2. Told'
    <3> SUFFICES ASSUME job # NoJob, ~adrift' PROVE Told'
      BY <1>0, <2>1 DEF RInv, Told
    <3>1. r \in Pending
      BY <1>1 DEF Pending
    <3>2. stored /\ job.state = "running" /\ \A q \in Pending : q = r
      BY <1>0, <1>4, <3>1 DEF RInv, Told
    <3>3. ~Tracked /\ Pending' = {}
      BY <1>0, <1>2, <1>6, <3>2 DEF Pending, KeysGiven, Tracked
    <3> QED
      BY <1>0, <2>1, <3>2, <3>3 DEF Told, Tracked
  <2> QED
    BY <1>0, <1>2, <1>3, <1>4, <2>1, <2>2 DEF RInv, Types
<1> QED
  BY <1>5, <1>6

(* A request that ends halfway leaves a trace of what it did not finish.     *)
LEMMA CutShortSteps == ASSUME Types, RInv, NEW r \in Requests, CutShort(r) PROVE Types' /\ RInv'
<1>0. /\ Live(r) /\ Finish(r)
      /\ raced' = (raced \/ At(r, KeyOps, "write")) /\ adrift' = (adrift \/ Tells(r))
      /\ orphaned' = (orphaned \/ At(r, {"revise", "duplicate"}, "write"))
      /\ UNCHANGED <<confidential, stored, active, keys, pin, copy, job, wanted, missed, overruled>>
  BY DEF CutShort, deployment, intent, Tells, KeyOps
<1>1. /\ req' \in [Requests -> ReqT \union {Idle}] /\ req'[r] = Idle
      /\ \A q \in Requests \ {r} : req'[q] = req[q]
      /\ \A q \in Requests : /\ Live(q)' <=> Live(q) /\ q # r
                             /\ Writes(q)' <=> Writes(q) /\ q # r
                             /\ Tells(q)' <=> Tells(q) /\ q # r
                             /\ At(q, KeyOps, "write")' <=> At(q, KeyOps, "write") /\ q # r
                             /\ At(q, {"revise"}, "write")' <=> At(q, {"revise"}, "write") /\ q # r
                             /\ At(q, {"duplicate"}, "write")' <=> At(q, {"duplicate"}, "write") /\ q # r
      /\ Solo' /\ Targets'
  BY <1>0, Ends
<1>2. raced' \in BOOLEAN /\ adrift' \in BOOLEAN /\ orphaned' \in BOOLEAN
  BY <1>0, Zenon
<1>3. Types'
  BY <1>0, <1>1, <1>2 DEF Types
<1>4. Present'
  BY <1>0, <1>1 DEF RInv, Present
<1>5. Written'
  BY <1>0, <1>1, OthersWritten
<1>6. Current' /\ AsAsked'
  <2>1. AsAsked'
    BY <1>0, <1>1, AskedStays DEF Live
  <2> QED
    BY <1>0, <1>1, <2>1 DEF RInv, Current
<1>7. Accounted'
  <2>1. At(r, {"revise"}, "write") \/ At(r, {"duplicate"}, "write") => At(r, {"revise", "duplicate"}, "write")
    BY DEF At
  <2> QED
    BY <1>0, <1>1, <2>1 DEF RInv, Accounted
<1>8. Told'
  <2>1. CASE Tells(r)
    BY <1>0, <2>1 DEF RInv, Told
  <2>2. CASE ~Tells(r)
    <3>1. \A q \in Requests : Tells(q)' <=> Tells(q)
      BY <1>1, <2>2
    <3>2. \A q \in Pending : req'[q] = req[q]
      BY <1>1, <2>2 DEF Pending
    <3> QED
      BY <1>0, <3>1, <3>2, StillTold
  <2> QED
    BY <2>1, <2>2
<1> QED
  BY <1>1, <1>3, <1>4, <1>5, <1>6, <1>7, <1>8 DEF RInv

------------------------------------------------------------------------------
LEMMA Aims ==
  ASSUME Types, NEW r \in Requests, Live(r), NEW n \in Numbers,
         NEW pc \in {"look", "pin", "insert", "write", "jobs", "push"},
         req' = [req EXCEPT ![r].n = n, ![r].pc = pc]
  PROVE  /\ req' \in [Requests -> ReqT \union {Idle}] /\ \A q \in Requests \ {r} : req'[q] = req[q]
         /\ req'[r].pc = pc /\ req'[r].asked = req[r].asked /\ req'[r].act = req[r].act
         /\ req'[r].old = req[r].old /\ req'[r].n = n /\ req'[r].alone = req[r].alone
<1>1. req[r] \in ReqT
  BY Records
<1> DEFINE e == [req[r] EXCEPT !.n = n, !.pc = pc]
<1>2. e \in ReqT /\ e.pc = pc /\ e.asked = req[r].asked /\ e.act = req[r].act
      /\ e.old = req[r].old /\ e.n = n /\ e.alone = req[r].alone
  BY <1>1 DEF ReqT
<1>3. req' = [req EXCEPT ![r] = e]
  OBVIOUS
<1> HIDE DEF e
<1>4. req'[r] = e /\ req' \in [Requests -> ReqT \union {Idle}] /\ \A q \in Requests \ {r} : req'[q] = req[q]
  BY <1>2, <1>3 DEF Types
<1> QED
  BY <1>2, <1>4

(* The steps of Looks.                                                       *)
LEMMA LookSteps ==
  ASSUME Types, RInv, NEW r \in Requests,
         ReadLatest(r) \/ FindRevision(r) \/ FindActive(r) \/ FindSource(r) \/ InsertCopyRevision(r)
           \/ InsertCopy(r)
  PROVE  Types' /\ RInv'
<1>0. Live(r)
  BY DEF ReadLatest, FindRevision, FindActive, FindSource, InsertCopyRevision, InsertCopy, At
<1>1. /\ UNCHANGED <<confidential, stored, active, keys, pin, job, wanted, missed, overruled, raced, adrift, orphaned>>
      /\ UNCHANGED <<deployment, pin, job, wanted, missed, overruled, raced, adrift>>
  BY DEF ReadLatest, FindRevision, FindActive, FindSource, InsertCopyRevision, InsertCopy, deployment, history, intent
<1>2. CASE ReadLatest(r)
  <2>1. req[r].asked.op = "revise" /\ req[r].pc = "look" /\ copy' = copy
    BY <1>2 DEF ReadLatest, At
  <2>2. PICK n \in Numbers : req' = [req EXCEPT ![r].n = n, ![r].pc = "insert"]
    BY <1>2 DEF ReadLatest
  <2>3. /\ req' \in [Requests -> ReqT \union {Idle}] /\ \A q \in Requests \ {r} : req'[q] = req[q]
        /\ req'[r].pc = "insert" /\ req'[r].asked = req[r].asked /\ req'[r].act = req[r].act
        /\ req'[r].old = req[r].old /\ req'[r].alone = req[r].alone
    BY <1>0, <2>2, Aims
  <2>4. ~Writes(r) /\ ~Tells(r) /\ ~At(r, {"duplicate"}, "write")
    BY <2>1 DEF Writes, Tells, At
  <2> QED
    BY <1>0, <1>1, <2>1, <2>3, <2>4, Looks
<1>3. CASE FindRevision(r)
  <2>1. req[r].asked.op = "activate" /\ req[r].pc = "look" /\ copy' = copy
    BY <1>3 DEF FindRevision, At
  <2>2. ~Writes(r) /\ ~Tells(r) /\ ~At(r, {"duplicate"}, "write")
    BY <2>1 DEF Writes, Tells, At
  <2> DEFINE n == req[r].asked.arg
  <2>3. CASE pin[n] # None /\ n # req[r].act
    <3>1. req' = [req EXCEPT ![r].n = n, ![r].pc = "pin"]
      BY <1>3, <2>3 DEF FindRevision
    <3>2. n \in Numbers
      BY <1>0, <2>1, Records
    <3>3. /\ req' \in [Requests -> ReqT \union {Idle}] /\ \A q \in Requests \ {r} : req'[q] = req[q]
          /\ req'[r].pc = "pin" /\ req'[r].asked = req[r].asked /\ req'[r].act = req[r].act
          /\ req'[r].old = req[r].old /\ req'[r].n = n /\ req'[r].alone = req[r].alone
      BY <1>0, <3>1, <3>2, Aims
    <3>4. req[r].asked.op \notin KeyOps
      BY <2>1 DEF KeyOps
    <3> QED
      BY <1>0, <1>1, <2>1, <2>2, <2>3, <3>3, <3>4, Looks
  <2>4. CASE ~(pin[n] # None /\ n # req[r].act)
    <3>1. Finish(r)
      BY <1>3, <2>4 DEF FindRevision
    <3> QED
      BY <1>0, <1>1, <2>1, <2>2, <3>1, Finishes, Looks
  <2> QED
    BY <2>3, <2>4
<1>4. CASE FindActive(r)
  <2>1. req[r].asked.op \in KeyOps /\ req[r].pc = "look" /\ copy' = copy
    BY <1>4 DEF FindActive, At
  <2>2. ~Writes(r) /\ ~Tells(r) /\ ~At(r, {"duplicate"}, "write")
    BY <2>1 DEF Writes, Tells, At
  <2> DEFINE goesOn == NextKeys(r) # req[r].old /\ (confidential \/ pin[req[r].act] # None)
  <2>3. CASE goesOn
    <3>1. req' = [req EXCEPT ![r].n = req[r].act, ![r].pc = "pin"]
      BY <1>4, <2>3 DEF FindActive
    <3>2. req[r].act \in Numbers
      BY <1>0, Records
    <3>3. /\ req' \in [Requests -> ReqT \union {Idle}] /\ \A q \in Requests \ {r} : req'[q] = req[q]
          /\ req'[r].pc = "pin" /\ req'[r].asked = req[r].asked /\ req'[r].act = req[r].act
          /\ req'[r].old = req[r].old /\ req'[r].n = req[r].act /\ req'[r].alone = req[r].alone
      BY <1>0, <3>1, <3>2, Aims
    <3>4. req[r].asked.op # "activate"
      BY <2>1 DEF KeyOps
    <3>5. stored => pin[req[r].act] # None
      BY <1>0 DEF RInv, Present
    <3> QED
      BY <1>0, <1>1, <2>1, <2>2, <3>3, <3>4, <3>5, Looks
  <2>4. CASE ~goesOn
    <3>1. Finish(r)
      BY <1>4, <2>4 DEF FindActive
    <3> QED
      BY <1>0, <1>1, <2>1, <2>2, <3>1, Finishes, Looks
  <2> QED
    BY <2>3, <2>4
<1>5. CASE FindSource(r)
  <2>1. req[r].asked.op = "duplicate" /\ req[r].pc = "look" /\ copy' = copy
    BY <1>5 DEF FindSource, At
  <2>2. ~Writes(r) /\ ~Tells(r) /\ ~At(r, {"duplicate"}, "write")
    BY <2>1 DEF Writes, Tells, At
  <2>3. CASE Finish(r)
    BY <1>0, <1>1, <2>1, <2>2, <2>3, Finishes, Looks
  <2>4. CASE Goto(r, "insert")
    BY <1>0, <1>1, <2>1, <2>2, <2>4, Goes, Looks
  <2> QED
    BY <1>5, <2>3, <2>4 DEF FindSource
<1>6. CASE InsertCopyRevision(r)
  <2>1. req[r].asked.op = "duplicate" /\ req[r].pc = "insert" /\ Goto(r, "write")
    BY <1>6 DEF InsertCopyRevision, At
  <2>2. ~Writes(r) /\ ~Tells(r)
    BY <2>1 DEF Writes, Tells, At
  <2>3. /\ req' \in [Requests -> ReqT \union {Idle}] /\ \A q \in Requests \ {r} : req'[q] = req[q]
        /\ req'[r].pc = "write" /\ req'[r].asked = req[r].asked /\ req'[r].act = req[r].act
        /\ req'[r].old = req[r].old /\ req'[r].alone = req[r].alone /\ req'[r] # Idle
    BY <1>0, <2>1, Goes
  <2>4. At(r, {"duplicate"}, "write")'
    BY <2>1, <2>3 DEF At, Live
  <2> QED
    BY <1>0, <1>1, <2>1, <2>2, <2>3, <2>4, Looks
<1>7. CASE InsertCopy(r)
  <2>1. req[r].asked.op = "duplicate" /\ req[r].pc = "write" /\ Finish(r) /\ copy' = "whole"
    BY <1>7 DEF InsertCopy, At
  <2>2. ~Writes(r) /\ ~Tells(r)
    BY <2>1 DEF Writes, Tells, At, Writers, KeyOps
  <2> QED
    BY <1>0, <1>1, <2>1, <2>2, Finishes, Looks
<1> QED
  BY <1>2, <1>3, <1>4, <1>5, <1>6, <1>7

(* The steps of the deployment and of its job: no request moves.             *)
LEMMA OthersKeep ==
  ASSUME RInv, UNCHANGED <<confidential, stored, active, keys, pin, copy, req, wanted, missed, overruled, raced, orphaned>>
  PROVE  Solo' /\ Targets' /\ Present' /\ Written' /\ Current' /\ AsAsked' /\ Accounted' /\ Pending' = Pending
<1>1. \A q \in Requests : /\ Live(q)' <=> Live(q)
                          /\ Outdated(q)' <=> Outdated(q)
                          /\ Writes(q)' <=> Writes(q)
                          /\ Tells(q)' <=> Tells(q)
                          /\ At(q, KeyOps, "write")' <=> At(q, KeyOps, "write")
                          /\ At(q, {"revise"}, "write")' <=> At(q, {"revise"}, "write")
                          /\ At(q, {"duplicate"}, "write")' <=> At(q, {"duplicate"}, "write")
                          /\ Wrote(q)' = Wrote(q)
  BY DEF Live, Outdated, Writes, Tells, At, Wrote, Effective, NextKeys, Applied
<1>2. Solo' /\ Targets'
  BY <1>1 DEF RInv, Solo, Targets
<1>3. Present' /\ Written'
  BY <1>1 DEF RInv, Present, Written
<1>4. Current' /\ AsAsked' /\ Accounted'
  <2>1. AsAsked'
    BY AskedStays DEF Live
  <2> QED
    BY <1>1, <2>1 DEF RInv, Current, Accounted
<1>5. Pending' = Pending
  BY <1>1 DEF Pending
<1> QED
  BY <1>2, <1>3, <1>4, <1>5

(* A deployment is deleted without a job, and its revisions with it.         *)
LEMMA DeleteSteps == ASSUME Types, RInv, Delete PROVE Types' /\ RInv'
<1>0. /\ job = NoJob /\ ~stored' /\ pin' = [n \in Numbers |-> None]
      /\ UNCHANGED <<confidential, active, keys, copy, req, job, wanted, missed, overruled, raced, adrift, orphaned>>
  BY DEF Delete, history, intent
<1>1. Types'
  BY <1>0 DEF Types, Delete
<1>2. \A q \in Requests : /\ Live(q)' <=> Live(q)
                          /\ Outdated(q)' <=> Outdated(q)
                          /\ At(q, {"duplicate"}, "write")' <=> At(q, {"duplicate"}, "write")
  BY <1>0 DEF Live, Outdated, At
<1>3. Solo' /\ Targets'
  BY <1>0, <1>2 DEF RInv, Solo, Targets
<1>4. Present' /\ Written' /\ Current' /\ AsAsked'
  <2>1. AsAsked'
    BY <1>0, AskedStays DEF Live
  <2> QED
    BY <1>0, <2>1 DEF Present, Written, Current
<1>5. Accounted'
  BY <1>0, <1>2 DEF RInv, Accounted
<1>6. Told'
  BY <1>0 DEF Told
<1> QED
  BY <1>1, <1>3, <1>4, <1>5, <1>6 DEF RInv

(* A job is frozen, posted, started, RUNNING and ended.                      *)
LEMMA JobSteps == ASSUME Types, RInv, Freeze \/ Post \/ Fetch \/ Run \/ End PROVE Types' /\ RInv'
<1>0. UNCHANGED <<confidential, stored, active, keys, pin, copy, req, wanted, missed, overruled, raced, orphaned>>
  BY DEF Freeze, Post, Fetch, Run, End, deployment, history, intent
<1>1. /\ Solo' /\ Targets' /\ Present' /\ Written' /\ Current' /\ AsAsked' /\ Accounted'
      /\ Pending' = Pending
  BY <1>0, OthersKeep
<1>2. \A ks, r : Applied(r, ks)' = Applied(r, ks')
  BY <1>0 DEF Applied
<1>3. CASE Freeze
  <2>1. /\ stored /\ pin[active] # None /\ job' = [state |-> "listing", held |-> FALSE, keys |-> pin[active]]
        /\ adrift' = (raced \/ \E r \in Requests : Live(r) /\ req[r].asked.op # "duplicate")
    BY <1>3 DEF Freeze, ResolvedPin
  <2>2. job' \in JobT /\ job'.state = "listing" /\ job'.keys = pin[active]
    BY <2>1 DEF JobT, Types
  <2>3. adrift' \in BOOLEAN
    BY <2>1, Zenon
  <2>4. Told'
    <3> SUFFICES ASSUME ~adrift' PROVE Told'
      BY <1>0, <2>1 DEF Told
    <3>1. ~raced /\ Pending = {}
      BY <2>1 DEF Pending, Tells, At, KeyOps
    <3>2. ~confidential => pin[active] = keys
      BY <2>1, <3>1 DEF RInv, Current, At, KeyOps
    <3> QED
      BY <1>0, <1>1, <2>1, <2>2, <3>1, <3>2 DEF Told, Tracked
  <2> QED
    BY <1>0, <1>1, <2>2, <2>3, <2>4 DEF RInv, Types
<1>4. CASE Post
  <2>1. job.state = "listing" /\ job' = [job EXCEPT !.state = "queued"] /\ adrift' = adrift
    BY <1>4 DEF Post, history, intent
  <2>2. job \in JobT /\ job # NoJob
    BY <2>1 DEF Types, NoJob
  <2>3. job' \in JobT /\ job'.state = "queued" /\ job'.held = job.held /\ job'.keys = job.keys
    BY <2>1, <2>2 DEF JobT
  <2>4. Told'
    BY <1>0, <1>1, <2>1, <2>2, <2>3 DEF RInv, Told, Tracked, Applied
  <2> QED
    BY <1>0, <1>1, <2>1, <2>3, <2>4 DEF RInv, Types
<1>5. CASE Fetch
  <2>1. /\ job.state \in {"queued", "running"} /\ adrift' = adrift
        /\ job' = [job EXCEPT !.held = TRUE, !.keys = IF confidential THEN keys ELSE job.keys]
    BY <1>5 DEF Fetch, history
  <2>2. job \in JobT /\ job # NoJob /\ job.keys \in SUBSET Keys /\ keys \in SUBSET Keys
    BY <2>1 DEF Types, NoJob, JobT
  <2> DEFINE ks == IF confidential THEN keys ELSE job.keys
  <2>3. ks \in SUBSET Keys
    BY <2>2
  <2>4. job' = [job EXCEPT !.held = TRUE, !.keys = ks]
    BY <2>1
  <2> HIDE DEF ks
  <2>5. job' \in JobT /\ job'.state = job.state /\ job'.held = TRUE /\ job'.keys = ks
    BY <2>2, <2>3, <2>4 DEF JobT
  <2>6. Told'
    <3> SUFFICES ASSUME ~adrift PROVE Told'
      BY <1>0, <1>1, <2>1, <2>2 DEF RInv, Told
    <3>1. CASE confidential
      <4>1. job'.keys = keys
        BY <2>5, <3>1 DEF ks
      <4> QED
        BY <1>0, <1>1, <2>1, <2>2, <2>5, <4>1 DEF RInv, Told, Applied
    <3>2. CASE ~confidential
      <4>1. job'.keys = job.keys /\ Tracked
        BY <2>5, <3>2 DEF ks, Tracked
      <4> QED
        BY <1>0, <1>1, <2>1, <2>2, <2>5, <4>1 DEF RInv, Told, Applied
    <3> QED
      BY <3>1, <3>2
  <2> QED
    BY <1>0, <1>1, <2>1, <2>2, <2>5, <2>6 DEF RInv, Types
<1>7. CASE Run
  <2>1. job.state = "queued" /\ adrift' = adrift /\ job' = [job EXCEPT !.state = "running"]
    BY <1>7 DEF Run, history
  <2>2. job \in JobT /\ job # NoJob
    BY <2>1 DEF Types, NoJob
  <2>3. job' \in JobT /\ job'.state = "running" /\ job'.held = job.held /\ job'.keys = job.keys
    BY <2>1, <2>2 DEF JobT
  <2>4. Told'
    BY <1>0, <1>1, <2>1, <2>2, <2>3 DEF RInv, Told, Tracked, Applied
  <2> QED
    BY <1>0, <1>1, <2>1, <2>2, <2>3, <2>4 DEF RInv, Types
<1>6. CASE End
  <2>1. job' = NoJob /\ adrift' = FALSE
    BY <1>6 DEF End
  <2>2. NoJob \in JobT
    BY DEF NoJob, JobT
  <2> QED
    BY <1>0, <1>1, <2>1, <2>2 DEF RInv, Told, Types
<1> QED
  BY <1>3, <1>4, <1>5, <1>6, <1>7

(* Every step keeps the invariant.                                           *)
LEMMA StepRevisions == ASSUME Types, RInv, [Next]_vars PROVE Types' /\ RInv'
<1>1. ASSUME NEW r \in Requests, Begin(r) \/ CutShort(r) PROVE Types' /\ RInv'
  BY <1>1, BeginSteps, CutShortSteps
<1>2. ASSUME NEW r \in Requests, Revise(r) PROVE Types' /\ RInv'
  <2>1. CASE ReadLatest(r)
    BY <2>1, LookSteps
  <2>2. CASE InsertRevision(r)
    <3>1. At(r, {"revise"}, "insert") /\ UNCHANGED <<deployment, copy, job, history>>
      BY <2>2 DEF InsertRevision
    <3>2. CASE pin[req[r].n] = None
      <4>1. pin' = [pin EXCEPT ![req[r].n] = Pinned(Effective(r))] /\ Goto(r, "write")
        BY <2>2, <3>2 DEF InsertRevision
      <4> QED
        BY <3>1, <3>2, <4>1, InsertSteps
    <3>3. CASE pin[req[r].n] # None
      <4>1. Finish(r) /\ pin' = pin /\ Live(r)
        BY <2>2, <3>1, <3>3 DEF InsertRevision, At
      <4>2. ~Writes(r) /\ ~Tells(r) /\ ~At(r, {"duplicate"}, "write")
        BY <3>1 DEF Writes, Tells, At
      <4>3. copy' = copy /\ orphaned' = orphaned /\ UNCHANGED <<deployment, pin, job, wanted, missed, overruled, raced, adrift>>
        BY <3>1, <4>1 DEF history, intent
      <4> QED
        BY <4>1, <4>2, <4>3, Finishes, Looks
    <3> QED
      BY <3>2, <3>3
  <2>3. CASE MakeActive(r)
    BY <2>3, MakeActiveSteps
  <2>4. CASE DeploymentGone(r)
    BY <2>4, DeploymentGoneSteps
  <2> QED
    BY <1>2, <2>1, <2>2, <2>3, <2>4 DEF Revise
<1>3. ASSUME NEW r \in Requests, Activate(r) PROVE Types' /\ RInv'
  BY <1>3, LookSteps, RepinSteps, SwapSteps DEF Activate
<1>4. ASSUME NEW r \in Requests, ChangeKeys(r) PROVE Types' /\ RInv'
  BY <1>4, LookSteps, RepinSteps, WriteKeysSteps, FindRunningSteps, PushSteps DEF ChangeKeys
<1>5. ASSUME NEW r \in Requests, Duplicate(r) PROVE Types' /\ RInv'
  BY <1>5, LookSteps DEF Duplicate
<1>6. CASE Delete
  BY <1>6, DeleteSteps
<1>7. CASE Freeze \/ Post \/ Fetch \/ Run \/ End
  BY <1>7, JobSteps
<1>8. CASE UNCHANGED vars
  <2>1. /\ UNCHANGED <<confidential, stored, active, keys, pin, copy, req, wanted, missed, overruled, raced, orphaned>>
        /\ UNCHANGED <<job, adrift>>
    BY <1>8 DEF vars
  <2>2. /\ Solo' /\ Targets' /\ Present' /\ Written' /\ Current' /\ AsAsked' /\ Accounted'
        /\ Pending' = Pending
    BY <2>1, OthersKeep
  <2>3. Told'
    BY <2>1, <2>2 DEF RInv, Told, Tracked, Applied
  <2> QED
    BY <2>1, <2>2, <2>3 DEF RInv, Types
<1> QED
  BY <1>1, <1>2, <1>3, <1>4, <1>5, <1>6, <1>7, <1>8 DEF Next

LEMMA RevisionsInvariant == Spec => [](Types /\ RInv)
BY InitRevisions, StepRevisions, PTL DEF Spec

LEMMA NoneAt == ASSUME AllIdle, NEW r \in Requests PROVE \A ops, pc : ~At(r, ops, pc)
BY DEF AllIdle, At

------------------------------------------------------------------------------
(* What LIST would post between requests carries the deployment's keys,      *)
(* whichever way its revision became active (commitDeploymentSshKeys,        *)
(* createRevision, updateActiveRevision), unless requests raced.             *)
THEOREM PinsAreCurrent == Spec => []PinsCurrent
<1>1. Types /\ RInv => PinsCurrent
  BY NoneAt DEF RInv, Current, PinsCurrent
<1> QED
  BY <1>1, RevisionsInvariant, PTL

(* A key is held exactly when the last written request to name it asked for  *)
(* it, unless a request in flight at that time has put it back or taken it   *)
(* out with the copy it carried along (createRevision, commitDeployment-     *)
(* SshKeys): only these can undo a change of the keys.                       *)
THEOREM KeysStayAsAsked == Spec => []KeysAsAsked
<1>1. Types /\ RInv => KeysAsAsked
  BY DEF RInv, AsAsked, KeysAsAsked
<1> QED
  BY <1>1, RevisionsInvariant, PTL

(* The active revision is always stored, and no revision is left without its *)
(* deployment, unless a request was cut short between the two writes.        *)
THEOREM NoRevisionOrphaned == Spec => []NoOrphans
<1>1. Types /\ RInv => NoOrphans
  BY NoneAt DEF RInv, Present, Accounted, NoOrphans
<1> QED
  BY <1>1, RevisionsInvariant, PTL

(* A job that its node has started has the deployment's keys, in every order *)
(* of pushes, posts, fetches and RUNNING rows, unless the keys changed where *)
(* it was passed by.                                                         *)
THEOREM RunningJobHasKeys == Spec => []JobHasKeys
<1>1. Types /\ RInv => JobHasKeys
  <2> SUFFICES ASSUME RInv, job.held, AllIdle, ~adrift PROVE job.keys = keys
    BY DEF JobHasKeys
  <2>1. Pending = {}
    BY NoneAt DEF Pending, Tells
  <2>2. job # NoJob /\ Tracked
    BY DEF NoJob, Tracked
  <2> QED
    BY <2>1, <2>2 DEF RInv, Told
<1> QED
  BY <1>1, RevisionsInvariant, PTL

-----------------------------------------------------------------------------
(* Rescale.                                                                *)

TaskDocs == [kind : {"none", "LIST", "STOP"}, limit : 0..Unset, job : {NoTarget} \cup Jobs,
             reason : {"none", "market"}, target : 0..Unset, stop : SUBSET Jobs,
             posted : SUBSET Jobs, frozen : BOOLEAN, claimed : BOOLEAN,
             market : Places, seen : SUBSET Jobs]
SwapDocs == [edit : 1..MaxEdits, jobs : SUBSET Jobs, size : Jobs, listed : BOOLEAN]

(* What a stored task may say of itself.                                    *)
WellFormed(d) ==
  /\ d.kind = "none" => d = NoTask
  /\ d.kind = "LIST" => /\ d.job = NoTarget /\ d.stop = {} /\ d.seen = {} /\ ~d.frozen /\ d.limit > 0
                        /\ d.limit # Unset => d.target \in {Unset, d.limit}
                        /\ d.claimed => d.target # Unset
  /\ d.kind = "STOP" => d.reason = "none" /\ d.posted = {}
  /\ d.kind = "STOP" /\ d.job = NoTarget => d.limit > 0
  /\ d.reason = "market" => d.limit # Unset
  /\ ~d.frozen => d.stop = {}
  /\ d.job # NoTarget => d.stop \subseteq {d.job}

(* Where a run is says what its task went through.                          *)
InRun ==
  /\ current = 0 <=> step = "idle"
  /\ step \in {"post", "record", "exit"} => task[current].kind = "LIST" /\ task[current].claimed
  /\ step = "post" => task[current].posted = {} /\ task[current].target \in Jobs
  /\ step = "record" => task[current].posted # {}
  /\ step = "exit" => task[current].posted # {} \/ task[current].target = 0
  /\ step = "kill" => task[current].kind = "STOP" /\ task[current].frozen
  /\ \A t \in Slots : task[t].posted # {} => t = current /\ step \in {"record", "exit"}

Shaped == /\ \A t \in Slots : WellFormed(task[t])
          /\ InRun
          /\ resizes + moves <= edits
          /\ \A s \in swaps : s.jobs # {}

RescaleTyped == RescaleTypeOK /\ Shaped

-----------------------------------------------------------------------------
(* Numbers, and sums over one task.                                         *)

LEMMA RescaleConstants ==
  /\ MaxReplicas \in Nat /\ MaxReplicas > 0 /\ MaxJobs \in Nat /\ MaxJobs >= MaxReplicas /\ MaxJobs > 0
  /\ MaxTasks \in Nat /\ MaxTasks > 0 /\ MaxEdits \in Nat /\ MaxTrouble \in Nat
  /\ Home \in Places /\ NoMarket \in Places /\ Unset \in Nat /\ Unset = MaxJobs + 1
  /\ 0 \notin Slots /\ Slots \subseteq Nat /\ Jobs \subseteq Nat /\ NoTarget \notin Jobs
  /\ 0 \notin Jobs /\ Unset \notin Jobs /\ Jobs \subseteq 0..Unset
BY RescaleAssumption DEF Places, Unset, Slots, Jobs, NoTarget

LEMMA LeastOf ==
  ASSUME NEW S \in SUBSET Nat, S # {}
  PROVE  Min(S) \in S /\ \A x \in S : Min(S) <= x
<1>1. PICK n \in S : \A m \in S : ~(<<m, n>> \in OpToRel(<, Nat))
  BY NatLessThanWellFounded, WFMin
<1>2. \A m \in S : ~(m < n)
  BY <1>1 DEF OpToRel
<1>3. \A m \in S : n <= m
  BY <1>2
<1> QED
  BY <1>3 DEF Min

LEMMA LastOf ==
  ASSUME NEW a \in Nat, NEW n \in Nat, n > 0
  PROVE  /\ Max(a + 1 .. a + n) = a + n /\ a + n \in a + 1 .. a + n
         /\ IsFiniteSet(a + 1 .. a + n) /\ Cardinality(a + 1 .. a + n) = n
<1>1. a + n \in a + 1 .. a + n /\ \A y \in a + 1 .. a + n : a + n >= y
  OBVIOUS
<1>2. \A z \in a + 1 .. a + n : (\A y \in a + 1 .. a + n : z >= y) => z = a + n
  BY <1>1
<1>3. Max(a + 1 .. a + n) = a + n
  BY <1>1, <1>2 DEF Max
<1>4. /\ IsFiniteSet(a + 1 .. a + n)
      /\ Cardinality(a + 1 .. a + n) = IF a + 1 > a + n THEN 0 ELSE a + n - (a + 1) + 1
  BY FS_Interval
<1> QED
  BY <1>1, <1>3, <1>4

LEMMA MaxOfTwo == ASSUME NEW a \in Int PROVE Max({0, a}) = IF a > 0 THEN a ELSE 0
<1>1. CASE a > 0
  <2>1. \A z \in {0, a} : (\A y \in {0, a} : z >= y) <=> z = a
    BY <1>1
  <2> QED
    BY <1>1, <2>1 DEF Max
<1>2. CASE ~(a > 0)
  <2>1. \A z \in {0, a} : (\A y \in {0, a} : z >= y) <=> z = 0
    BY <1>2
  <2> QED
    BY <1>2, <2>1 DEF Max
<1> QED
  BY <1>1, <1>2

LEMMA MinOfTwo == ASSUME NEW a \in Int, NEW b \in Int PROVE Min({a, b}) = IF a <= b THEN a ELSE b
<1>1. CASE a <= b
  <2>1. \A z \in {a, b} : (\A y \in {a, b} : z <= y) <=> z = a
    BY <1>1
  <2> QED
    BY <1>1, <2>1 DEF Min
<1>2. CASE ~(a <= b)
  <2>1. \A z \in {a, b} : (\A y \in {a, b} : z <= y) <=> z = b
    BY <1>2
  <2> QED
    BY <1>2, <2>1 DEF Min
<1> QED
  BY <1>1, <1>2

LEMMA SumOverOne ==
  ASSUME NEW f, NEW x, f[x] \in Int
  PROVE  SumFunctionOnSet(f, {}) = 0 /\ SumFunctionOnSet(f, {x}) = f[x]
<1> DEFINE First(s) == CHOOSE y \in s : TRUE
           Add(it, S) == [s \in SUBSET S |-> IF s = {} THEN 0 ELSE f[First(s)] + it[s \ {First(s)}]]
           sum(S) == CHOOSE it : it = Add(it, S)
<1>1. \A S : SumFunctionOnSet(f, S) = sum(S)[S]
  BY DEF SumFunctionOnSet, FoldFunctionOnSet, MapThenFoldSet
<1>2. First({x}) = x
  OBVIOUS
<1>3. sum({})[{}] = 0
  <2> DEFINE g == [s \in SUBSET {} |-> 0]
  <2>1. g = Add(g, {})
    OBVIOUS
  <2>2. sum({}) = Add(sum({}), {})
    BY <2>1
  <2> QED
    BY <2>2
<1>4. sum({x})[{x}] = f[x]
  <2> DEFINE g == [s \in SUBSET {x} |-> IF s = {} THEN 0 ELSE f[x]]
  <2>0. \A s \in SUBSET {x} : s # {} => First(s) = x /\ s \ {First(s)} = {}
    <3>1. \A s \in SUBSET {x} : s # {} => s = {x}
      OBVIOUS
    <3> HIDE DEF First
    <3> QED
      BY <1>2, <3>1
  <2> HIDE DEF First
  <2>1. g = Add(g, {x})
    BY <2>0
  <2>2. sum({x}) = Add(sum({x}), {x})
    BY <2>1
  <2>3. {} \in SUBSET {x} /\ {x} \in SUBSET {x} /\ {x} # {}
    OBVIOUS
  <2>4. sum({x})[{}] = 0 /\ sum({x})[{x}] = f[x] + sum({x})[{x} \ {First({x})}]
    <3> DEFINE q == sum({x})
    <3>1. q = Add(q, {x})
      BY <2>2
    <3> HIDE DEF q
    <3> QED
      BY <1>2, <2>3, <3>1 DEF q
  <2>5. {x} \ {First({x})} = {}
    BY <2>0, <2>3
  <2>6. sum({x})[{x}] = f[x] + sum({x})[{}]
    BY <2>4, <2>5
  <2> HIDE DEF sum
  <2> QED
    BY <2>4, <2>6
<1> HIDE DEF sum
<1> QED
  BY <1>1, <1>3, <1>4

-----------------------------------------------------------------------------
(* The documents the steps write, field by field.                           *)

LEMMA NoTaskDoc ==
  /\ NoTask \in TaskDocs /\ NoTask.kind = "none" /\ NoTask.limit = Unset /\ NoTask.job = NoTarget
  /\ NoTask.reason = "none" /\ NoTask.target = Unset /\ NoTask.stop = {} /\ NoTask.posted = {}
  /\ ~NoTask.frozen /\ ~NoTask.claimed /\ NoTask.seen = {} /\ WellFormed(NoTask)
BY RescaleConstants DEF NoTask, TaskDocs, WellFormed

(* An inserted task: nothing is read, and nothing done.                     *)
Fresh(d) == /\ d \in TaskDocs /\ d.target = Unset /\ d.stop = {} /\ d.posted = {} /\ ~d.frozen
            /\ d.seen = {} /\ ~d.claimed /\ WellFormed(d) /\ d.kind # "none"

LEMMA ListDoc ==
  ASSUME NEW n \in 0..Unset, n > 0, NEW why \in {"none", "market"}, why = "market" => n # Unset
  PROVE  LET d == NewList(n, why)
         IN Fresh(d) /\ d.kind = "LIST" /\ d.limit = n /\ d.job = NoTarget /\ d.reason = why
<1> DEFINE d == NewList(n, why)
<1>1. /\ d \in TaskDocs /\ d.kind = "LIST" /\ d.limit = n /\ d.job = NoTarget /\ d.reason = why
      /\ d.target = Unset /\ d.stop = {} /\ d.posted = {} /\ ~d.frozen /\ ~d.claimed /\ d.seen = {}
  BY NoTaskDoc, RescaleConstants DEF TaskDocs, NewList
<1> HIDE DEF d
<1>2. Fresh(d)
  BY <1>1, RescaleConstants DEF WellFormed, Fresh
<1> QED
  BY <1>1, <1>2 DEF d

LEMMA TrimDoc ==
  ASSUME NEW n \in 0..Unset, n > 0
  PROVE  LET d == Trim(n)
         IN Fresh(d) /\ d.kind = "STOP" /\ d.limit = n /\ d.job = NoTarget /\ d.reason = "none"
<1> DEFINE d == Trim(n)
<1>1. /\ d \in TaskDocs /\ d.kind = "STOP" /\ d.limit = n /\ d.job = NoTarget /\ d.reason = "none"
      /\ d.target = Unset /\ d.stop = {} /\ d.posted = {} /\ ~d.frozen /\ ~d.claimed /\ d.seen = {}
  BY NoTaskDoc, RescaleConstants DEF TaskDocs, Trim
<1> HIDE DEF d
<1>2. Fresh(d)
  BY <1>1, RescaleConstants DEF WellFormed, Fresh
<1> QED
  BY <1>1, <1>2 DEF d

LEMMA StopDoc ==
  ASSUME NEW j \in Jobs
  PROVE  LET d == StopOf(j)
         IN Fresh(d) /\ d.kind = "STOP" /\ d.limit = Unset /\ d.job = j /\ d.reason = "none"
<1> DEFINE d == StopOf(j)
<1>1. /\ d \in TaskDocs /\ d.kind = "STOP" /\ d.limit = Unset /\ d.job = j /\ d.reason = "none"
      /\ d.target = Unset /\ d.stop = {} /\ d.posted = {} /\ ~d.frozen /\ ~d.claimed /\ d.seen = {}
  BY NoTaskDoc, RescaleConstants DEF TaskDocs, StopOf
<1> HIDE DEF d
<1>2. Fresh(d)
  BY <1>1, RescaleConstants DEF WellFormed, Fresh
<1> QED
  BY <1>1, <1>2 DEF d

(* What a slot holds, by the kind of its document.                          *)
LEMMA Kinds ==
  ASSUME RescaleTyped
  PROVE  /\ \A t \in Slots : t \in Stored <=> task[t].kind # "none"
         /\ \A t \in Slots : t \in Lists <=> task[t].kind = "LIST"
         /\ \A t \in Slots : t \in Trims <=> task[t].kind = "STOP" /\ task[t].job = NoTarget
         /\ \A t \in Slots : task[t] \in TaskDocs
         /\ Stored \subseteq Slots /\ Lists \subseteq Stored /\ Trims \subseteq Stored
<1>1. \A t \in Slots : task[t] \in TaskDocs /\ (task[t].kind = "none" => task[t] = NoTask)
  BY DEF RescaleTyped, RescaleTypeOK, Shaped, WellFormed, TaskDocs
<1>2. \A t \in Slots : t \in Stored <=> task[t].kind # "none"
  BY <1>1, NoTaskDoc DEF Stored
<1> QED
  BY <1>1, <1>2 DEF Lists, Trims, Stored

Sets(x, d) == /\ x \in Slots /\ d \in TaskDocs /\ task'[x] = d
              /\ \A t \in Slots \ {x} : task'[t] = task[t]
              /\ task' \in [Slots -> TaskDocs]

LEMMA SetsOne ==
  ASSUME RescaleTypeOK, NEW x \in Slots, NEW d \in TaskDocs, task' = [task EXCEPT ![x] = d]
  PROVE  Sets(x, d)
BY DEF RescaleTypeOK, TaskDocs, Sets

LEMMA Inserted ==
  ASSUME RescaleTypeOK, NEW d \in TaskDocs, Insert(d)
  PROVE  \E x \in Slots : task[x] = NoTask /\ Sets(x, d)
<1>1. Room \in SUBSET Nat /\ Room # {}
  BY RescaleConstants DEF Room, Insert
<1>2. Min(Room) \in Room
  BY <1>1, LeastOf
<1>3. Min(Room) \in Slots /\ task[Min(Room)] = NoTask
  BY <1>2 DEF Room
<1>4. task' = [task EXCEPT ![Min(Room)] = d]
  BY DEF Insert
<1> QED
  BY <1>3, <1>4, SetsOne

(* A claim reads; it leaves the intent of the task, and what it has done.   *)
Alike(d, c) == /\ c.kind = d.kind /\ c.limit = d.limit /\ c.job = d.job /\ c.reason = d.reason
               /\ c.posted = d.posted /\ c.frozen = d.frozen /\ c.stop = d.stop

LEMMA CountTyped ==
  ASSUME RescaleTypeOK
  PROVE  /\ IsFiniteSet(activeJobs) /\ Cardinality(activeJobs) \in 0..MaxJobs
         /\ IsFiniteSet(live) /\ Cardinality(live) \in 0..MaxJobs
         /\ \A S \in SUBSET Jobs : IsFiniteSet(S) /\ Cardinality(S) \in 0..MaxJobs
<1>1. IsFiniteSet(Jobs) /\ Cardinality(Jobs) = MaxJobs
  BY FS_Interval, RescaleConstants DEF Jobs
<1>2. \A S \in SUBSET Jobs : IsFiniteSet(S) /\ Cardinality(S) \in Nat /\ Cardinality(S) <= Cardinality(Jobs)
  BY <1>1, FS_Subset, FS_CardinalityType
<1>3. \A S \in SUBSET Jobs : IsFiniteSet(S) /\ Cardinality(S) \in 0..MaxJobs
  BY <1>1, <1>2, RescaleConstants
<1> QED
  BY <1>3 DEF RescaleTypeOK

LEMMA TargetTyped ==
  ASSUME RescaleTypeOK, NEW t \in Slots, task[t] \in TaskDocs
  PROVE  Target(t) \in 0..Unset /\ (task[t].limit # Unset => Target(t) = task[t].limit)
         /\ (task[t].limit = Unset => Target(t) \in 0..MaxReplicas)
         /\ (task[t].limit = Unset /\ activeJobs = {} => Target(t) = replicas)
<1>1. replicas \in 1..MaxReplicas /\ Cardinality(activeJobs) \in 0..MaxJobs
  BY CountTyped DEF RescaleTypeOK
<1>2. CASE task[t].limit # Unset
  BY <1>2 DEF Target, TaskDocs
<1>3. CASE task[t].limit = Unset
  <2> DEFINE a == replicas - Cardinality(activeJobs)
  <2>1. a \in Int /\ a <= MaxReplicas
    BY <1>1, RescaleConstants
  <2>2. Target(t) = Max({0, a})
    BY <1>3 DEF Target
  <2>3. Target(t) = IF a > 0 THEN a ELSE 0
    BY <2>1, <2>2, MaxOfTwo
  <2>4. activeJobs = {} => a = replicas
    BY <1>1, FS_EmptySet
  <2> HIDE DEF a
  <2>5. Target(t) \in 0..MaxReplicas
    BY <2>1, <2>3, RescaleConstants
  <2>6. activeJobs = {} => Target(t) = replicas
    BY <1>1, <2>3, <2>4
  <2> QED
    BY <1>3, <2>5, <2>6, RescaleConstants
<1> QED
  BY <1>2, <1>3

LEMMA ClaimedDoc ==
  ASSUME RescaleTyped, NEW t \in Stored
  PROVE  /\ Claimed(t) \in TaskDocs /\ Alike(task[t], Claimed(t)) /\ Claimed(t).claimed
         /\ Claimed(t).kind = "STOP" => Claimed(t).seen = activeJobs
         /\ Claimed(t).kind = "LIST" =>
              Claimed(t).target = IF task[t].target = Unset THEN Target(t) ELSE task[t].target
         /\ WellFormed(Claimed(t))
<1>1. t \in Slots /\ task[t] \in TaskDocs /\ task[t].kind \in {"LIST", "STOP"} /\ WellFormed(task[t])
  BY Kinds DEF RescaleTyped, Shaped, TaskDocs
<1>2. activeJobs \in SUBSET Jobs /\ market \in Places
  BY DEF RescaleTyped, RescaleTypeOK
<1>3. CASE task[t].kind = "STOP"
  <2>1. Claimed(t) = [task[t] EXCEPT !.claimed = TRUE, !.seen = activeJobs]
    BY <1>3 DEF Claimed
  <2>2. /\ Claimed(t) \in TaskDocs /\ Alike(task[t], Claimed(t)) /\ Claimed(t).claimed
        /\ Claimed(t).seen = activeJobs
    BY <1>1, <1>2, <2>1 DEF TaskDocs, Alike
  <2>3. WellFormed(Claimed(t))
    BY <1>1, <1>3, <2>2 DEF WellFormed, Alike
  <2> QED
    BY <1>3, <2>2, <2>3 DEF Alike
<1>4. CASE task[t].kind = "LIST"
  <2> DEFINE n == IF task[t].target = Unset THEN Target(t) ELSE task[t].target
  <2>1. /\ n \in 0..Unset /\ n # Unset
        /\ task[t].limit # Unset => n = task[t].limit
    <3>1. /\ Target(t) \in 0..Unset /\ (task[t].limit # Unset => Target(t) = task[t].limit)
          /\ (task[t].limit = Unset => Target(t) \in 0..MaxReplicas)
      BY <1>1, TargetTyped DEF RescaleTyped
    <3>2. task[t].limit # Unset => task[t].target \in {Unset, task[t].limit}
      BY <1>1, <1>4 DEF WellFormed
    <3>3. task[t].limit \in 0..Unset /\ task[t].target \in 0..Unset
      BY <1>1 DEF TaskDocs
    <3> QED
      BY <3>1, <3>2, <3>3, RescaleConstants
  <2> HIDE DEF n
  <2>2. Claimed(t) = [task[t] EXCEPT !.claimed = TRUE, !.market = market, !.target = n]
    BY <1>4 DEF Claimed, n
  <2>3. /\ Claimed(t) \in TaskDocs /\ Alike(task[t], Claimed(t)) /\ Claimed(t).claimed
        /\ Claimed(t).target = n /\ Claimed(t).seen = task[t].seen
    BY <1>1, <1>2, <2>1, <2>2 DEF TaskDocs, Alike
  <2>4. WellFormed(Claimed(t))
    BY <1>1, <1>4, <2>1, <2>3 DEF WellFormed, Alike
  <2> QED
    BY <1>4, <2>3, <2>4 DEF n, Alike
<1> QED
  BY <1>1, <1>3, <1>4

LEMMA ReadDoc ==
  ASSUME RescaleTyped, NEW t \in Stored
  PROVE  /\ Read(t) \in TaskDocs /\ Alike(task[t], Read(t)) /\ Read(t).claimed /\ WellFormed(Read(t))
         /\ Read(t).kind = "STOP" => Read(t).seen = IF task[t].claimed THEN task[t].seen ELSE activeJobs
         /\ Read(t).kind = "LIST" =>
              Read(t).target = IF task[t].target = Unset THEN Target(t) ELSE task[t].target
<1>1. t \in Slots /\ task[t] \in TaskDocs /\ WellFormed(task[t]) /\ task[t].kind \in {"LIST", "STOP"}
  BY Kinds DEF RescaleTyped, Shaped, TaskDocs
<1>2. CASE task[t].claimed
  <2>1. Read(t) = task[t]
    BY <1>2 DEF Read
  <2>2. task[t].kind = "LIST" => task[t].target # Unset
    BY <1>1, <1>2 DEF WellFormed
  <2> QED
    BY <1>1, <1>2, <2>1, <2>2 DEF Alike
<1>3. CASE ~task[t].claimed
  <2>1. Read(t) = Claimed(t)
    BY <1>3 DEF Read
  <2> QED
    BY <1>3, <2>1, ClaimedDoc
<1> QED
  BY <1>2, <1>3

-----------------------------------------------------------------------------
(* Typing.                                                                  *)

LEMMA ShapeKept ==
  ASSUME RescaleTyped, NEW x, NEW d, Sets(x, d), WellFormed(d)
  PROVE  \A t \in Slots : WellFormed(task'[t])
BY DEF RescaleTyped, Shaped, Sets

(* The run in progress is left alone by a step that writes another slot.    *)
LEMMA RunKept ==
  ASSUME RescaleTyped, UNCHANGED <<current, step>>,
         \/ UNCHANGED task
         \/ \E x, d : Sets(x, d) /\ x # current /\ d.posted = {}
  PROVE  InRun'
<1>1. CASE UNCHANGED task
  BY <1>1 DEF RescaleTyped, Shaped, InRun
<1>2. ASSUME NEW x, NEW d, Sets(x, d), x # current, d.posted = {} PROVE InRun'
  <2>1. current \in Slots => task'[current] = task[current]
    BY <1>2 DEF Sets
  <2>2. step # "idle" => current \in Slots
    BY DEF RescaleTyped, RescaleTypeOK, Shaped, InRun
  <2>3. \A t \in Slots : task'[t].posted # {} => task'[t] = task[t]
    BY <1>2 DEF Sets
  <2>4. \A t \in Slots : task'[t].posted # {} => t = current /\ step \in {"record", "exit"}
    BY <2>3 DEF RescaleTyped, Shaped, InRun
  <2> QED
    BY <2>1, <2>2, <2>4 DEF RescaleTyped, Shaped, InRun, RescaleTypeOK
<1> QED
  BY <1>1, <1>2

LEMMA RescaleInitTyped == RescaleInit => RescaleTyped
<1> SUFFICES ASSUME RescaleInit PROVE RescaleTyped
  OBVIOUS
<1>1. NewList(Unset, "none") \in TaskDocs /\ Fresh(NewList(Unset, "none"))
  BY ListDoc, RescaleConstants DEF Fresh
<1>2. \A t \in Slots : /\ task[t] \in TaskDocs /\ WellFormed(task[t]) /\ task[t].posted = {}
  BY <1>1, NoTaskDoc DEF RescaleInit, Fresh
<1>3. task \in [Slots -> TaskDocs]
  BY <1>1, NoTaskDoc DEF RescaleInit
<1>4. RescaleTypeOK
  <2>1. /\ status = "RUNNING" /\ replicas \in 1..MaxReplicas /\ market \in Places
        /\ resizes = 0 /\ moves = 0 /\ swaps = {} /\ current = 0 /\ step = "idle" /\ live = {}
        /\ activeJobs = {} /\ newest = 0 /\ ended = 0 /\ edits = 0 /\ failures = 0
        /\ overlapped = FALSE /\ borrowed = FALSE
    BY RescaleConstants DEF RescaleInit
  <2>2. host \in [Jobs -> Places] /\ settling \in [Jobs -> {"none", "due", "last", "quiet"}]
    BY RescaleConstants DEF RescaleInit
  <2>3. /\ resizes \in 0..MaxEdits /\ moves \in 0..MaxEdits /\ edits \in 0..MaxEdits
        /\ ended \in Nat /\ failures \in Nat /\ ended + failures <= MaxTrouble /\ newest \in 0..MaxJobs
    BY <2>1, RescaleConstants
  <2>4. task \in [Slots -> [kind : {"none", "LIST", "STOP"}, limit : 0..Unset, job : {NoTarget} \cup Jobs,
                           reason : {"none", "market"}, target : 0..Unset, stop : SUBSET Jobs,
                           posted : SUBSET Jobs, frozen : BOOLEAN, claimed : BOOLEAN,
                           market : Places, seen : SUBSET Jobs]]
    BY <1>3 DEF TaskDocs
  <2>5. swaps \subseteq [edit : 1..MaxEdits, jobs : SUBSET Jobs, size : Jobs, listed : BOOLEAN]
    BY <2>1
  <2>6. live \subseteq Jobs /\ activeJobs \subseteq Jobs /\ current \in {0} \cup Slots
        /\ step \in {"idle", "post", "record", "exit", "kill"} /\ status \in {"RUNNING", "STOPPED"}
        /\ overlapped \in BOOLEAN /\ borrowed \in BOOLEAN
    BY <2>1
  <2> QED
    BY <2>1, <2>2, <2>3, <2>4, <2>5, <2>6 DEF RescaleTypeOK
<1>5. Shaped
  BY <1>2 DEF RescaleInit, Shaped, InRun
<1> QED
  BY <1>4, <1>5 DEF RescaleTyped

(* Steps that leave the tasks alone.                                        *)
LEMMA EditsTyped == ASSUME RescaleTyped, EditReplicas \/ EditMarket PROVE RescaleTyped'
<1>1. /\ UNCHANGED <<task, current, step, status, swaps, live, activeJobs, host, newest, settling, ended,
                     failures, overlapped, borrowed>>
      /\ edits < MaxEdits /\ edits' = edits + 1 /\ replicas' \in 1..MaxReplicas /\ market' \in Places
      /\ \/ resizes' = resizes + 1 /\ moves' = moves
         \/ resizes' = resizes /\ moves' = moves + 1
  BY DEF RescaleTyped, RescaleTypeOK, EditReplicas, EditMarket, queue, chain, hist
<1>2. InRun'
  BY <1>1, RunKept
<1>3. resizes \in Nat /\ moves \in Nat /\ edits \in Nat /\ resizes + moves <= edits /\ edits \in 0..MaxEdits
  BY DEF RescaleTyped, RescaleTypeOK, Shaped
<1>4. /\ resizes' \in 0..MaxEdits /\ moves' \in 0..MaxEdits /\ resizes' + moves' <= edits'
      /\ edits' \in 0..MaxEdits
  BY <1>1, <1>3, RescaleConstants
<1>5. RescaleTypeOK'
  BY <1>1, <1>4 DEF RescaleTyped, RescaleTypeOK
<1>6. Shaped'
  BY <1>1, <1>2, <1>4 DEF RescaleTyped, Shaped
<1> QED
  BY <1>5, <1>6 DEF RescaleTyped

LEMMA MoveTyped == ASSUME RescaleTyped, Move PROVE RescaleTyped'
<1>1. /\ UNCHANGED <<task, current, step, status, replicas, market, resizes, edits, live, activeJobs, host,
                     newest, settling, ended, failures, borrowed>>
      /\ moves > 0 /\ moves' = moves - 1 /\ overlapped' \in BOOLEAN
  BY DEF RescaleTyped, RescaleTypeOK, Move, doc, queue, chain, bounds
<1>2. InRun'
  BY <1>1, RunKept
<1>3. resizes \in Nat /\ moves \in Nat /\ resizes + moves <= edits /\ edits \in 0..MaxEdits
  BY DEF RescaleTyped, RescaleTypeOK, Shaped
<1>4. moves' \in 0..MaxEdits /\ resizes + moves' <= edits /\ edits - moves' \in 1..MaxEdits
  BY <1>1, <1>3, RescaleConstants
<1>5. \A s \in swaps' : s \in SwapDocs /\ s.jobs # {}
  <2> DEFINE n == Cardinality(Displaced)
             s == [edit |-> edits - moves', jobs |-> Displaced, size |-> n, listed |-> FALSE]
  <2>1. \A r \in swaps : r \in SwapDocs /\ r.jobs # {}
    BY DEF RescaleTyped, RescaleTypeOK, Shaped, SwapDocs
  <2>2. Displaced \in SUBSET Jobs
    BY DEF Displaced, RescaleTyped, RescaleTypeOK
  <2>3. n \in 0..MaxJobs /\ (n # 0 => Displaced # {})
    BY <2>2, CountTyped, FS_EmptySet DEF RescaleTyped
  <2>4. n # 0 => s \in SwapDocs /\ s.jobs # {}
    <3>1. n # 0 => n \in Jobs
      BY <2>3 DEF Jobs
    <3> HIDE DEF n
    <3> QED
      BY <1>4, <2>2, <2>3, <3>1 DEF SwapDocs
  <2>5. swaps' = swaps \/ (n # 0 /\ swaps' = swaps \cup {s})
    BY DEF Move
  <2> HIDE DEF n, s
  <2> QED
    BY <2>1, <2>4, <2>5
<1>6. RescaleTypeOK'
  BY <1>1, <1>4, <1>5 DEF RescaleTyped, RescaleTypeOK, SwapDocs
<1>7. Shaped'
  BY <1>1, <1>2, <1>4, <1>5 DEF RescaleTyped, Shaped
<1> QED
  BY <1>6, <1>7 DEF RescaleTyped

LEMMA RecordTyped == ASSUME RescaleTyped, Record PROVE RescaleTyped'
<1>1. /\ UNCHANGED <<status, replicas, market, resizes, moves, swaps, task, current, live, host, newest,
                     settling, ended, edits, failures, overlapped, borrowed>>
      /\ step = "record" /\ step' = "exit" /\ activeJobs' = activeJobs \cup task[current].posted
  BY DEF Record, doc, events, chain, bounds, hist
<1>2. current \in Slots /\ task[current].posted \subseteq Jobs /\ task[current].kind = "LIST"
      /\ task[current].posted # {} /\ task[current].claimed
  BY <1>1, Kinds DEF RescaleTyped, RescaleTypeOK, Shaped, InRun, TaskDocs
<1>3. InRun'
  BY <1>1, <1>2, RescaleConstants DEF RescaleTyped, Shaped, InRun
<1>4. RescaleTypeOK'
  BY <1>1, <1>2 DEF RescaleTyped, RescaleTypeOK
<1> QED
  BY <1>1, <1>3, <1>4 DEF RescaleTyped, Shaped

LEMMA JobsTyped ==
  ASSUME RescaleTyped, NEW j \in Jobs, EndJob(j) \/ Observe(j) \/ CountLists(j) \/ MarkStopped(j)
  PROVE  RescaleTyped'
<1>1. /\ UNCHANGED <<replicas, market, resizes, moves, swaps, task, current, step, newest, edits, failures,
                     overlapped, borrowed>>
      /\ status' \in {"RUNNING", "STOPPED"} /\ live' \subseteq Jobs /\ activeJobs' \subseteq Jobs
  BY DEF RescaleTyped, RescaleTypeOK, EndJob, Observe, CountLists, MarkStopped, doc, events, queue, chain,
         bounds, hist
<1>2. host' \in [Jobs -> Places]
  BY RescaleConstants DEF RescaleTyped, RescaleTypeOK, EndJob, Observe, CountLists, MarkStopped, chain
<1>3. settling' \in [Jobs -> {"none", "due", "last", "quiet"}]
  BY DEF RescaleTyped, RescaleTypeOK, EndJob, Observe, CountLists, MarkStopped
<1>4. ended' \in Nat /\ ended' + failures <= MaxTrouble
  <2>1. ended \in Nat /\ failures \in Nat /\ ended + failures <= MaxTrouble
    BY DEF RescaleTyped, RescaleTypeOK
  <2>2. ended' = ended \/ (ended' = ended + 1 /\ ended + failures < MaxTrouble)
    BY DEF EndJob, Observe, CountLists, MarkStopped, bounds
  <2> QED
    BY <2>1, <2>2, RescaleConstants
<1>5. InRun'
  BY <1>1, RunKept
<1>6. RescaleTypeOK'
  BY <1>1, <1>2, <1>3, <1>4 DEF RescaleTyped, RescaleTypeOK
<1> QED
  BY <1>1, <1>5, <1>6 DEF RescaleTyped, Shaped

(* Steps that insert a task.                                                *)
LEMMA InsertTyped ==
  ASSUME RescaleTyped, NEW d, Fresh(d), Insert(d), UNCHANGED <<current, step>>
  PROVE  /\ \E x \in Slots : task[x] = NoTask /\ Sets(x, d) /\ x # current
         /\ \A t \in Slots : WellFormed(task'[t])
         /\ task' \in [Slots -> TaskDocs] /\ InRun'
<1>1. PICK x \in Slots : task[x] = NoTask /\ Sets(x, d)
  BY Inserted DEF RescaleTyped, Fresh
<1>2. current # 0 => task[current].kind # "none"
  BY DEF RescaleTyped, RescaleTypeOK, Shaped, InRun
<1>3. x # current
  BY <1>1, <1>2, RescaleConstants, NoTaskDoc
<1>4. \A t \in Slots : WellFormed(task'[t])
  BY <1>1, ShapeKept DEF Fresh
<1>5. InRun'
  BY <1>1, <1>3, RunKept DEF Fresh
<1> QED
  BY <1>1, <1>3, <1>4, <1>5 DEF Sets

(* What a count queues.                                                     *)
Sized(d) ==
  LET n == Cardinality(activeJobs)
  IN \/ n > replicas /\ d = Trim(n - replicas) /\ d.kind = "STOP" /\ d.job = NoTarget /\ d.limit = n - replicas
     \/ n < replicas /\ d.kind = "LIST" /\ d.reason = "none" /\ d.limit = replicas - n

LEMMA ResizeSets ==
  ASSUME RescaleTypeOK, Resize
  PROVE  \/ UNCHANGED task /\ (status = "RUNNING" => Cardinality(activeJobs) = replicas)
         \/ /\ status = "RUNNING"
            /\ \E d : Fresh(d) /\ Insert(d) /\ Sized(d)
<1> DEFINE n == Cardinality(activeJobs)
<1>1. n \in 0..MaxJobs /\ replicas \in 1..MaxReplicas
  BY CountTyped DEF RescaleTypeOK
<1>2. \/ UNCHANGED task /\ (status = "RUNNING" => n = replicas)
      \/ /\ status = "RUNNING" /\ n # replicas
         /\ Insert(IF n > replicas THEN Trim(n - replicas) ELSE NewList(replicas - n, "none"))
  BY DEF Resize, Shortfall
<1>3. CASE status = "RUNNING" /\ n > replicas /\ Insert(Trim(n - replicas))
  <2>1. n - replicas \in 0..Unset /\ n - replicas > 0
    BY <1>1, <1>3, RescaleConstants
  <2> HIDE DEF n
  <2>2. /\ Fresh(Trim(n - replicas)) /\ Trim(n - replicas).kind = "STOP"
        /\ Trim(n - replicas).limit = n - replicas /\ Trim(n - replicas).job = NoTarget
    BY <2>1, TrimDoc
  <2>3. Sized(Trim(n - replicas))
    BY <1>3, <2>2 DEF Sized, n
  <2> QED
    BY <1>3, <2>2, <2>3
<1>4. CASE status = "RUNNING" /\ n < replicas /\ Insert(NewList(replicas - n, "none"))
  <2>1. replicas - n \in 0..Unset /\ replicas - n > 0
    BY <1>1, <1>4, RescaleConstants
  <2> HIDE DEF n
  <2>2. /\ Fresh(NewList(replicas - n, "none")) /\ NewList(replicas - n, "none").kind = "LIST"
        /\ NewList(replicas - n, "none").limit = replicas - n
        /\ NewList(replicas - n, "none").reason = "none"
    BY <2>1, ListDoc
  <2>3. Sized(NewList(replicas - n, "none"))
    BY <1>4, <2>2 DEF Sized, n
  <2> QED
    BY <1>4, <2>2, <2>3
<1>5. n > replicas \/ n < replicas \/ n = replicas
  BY <1>1, RescaleConstants
<1> HIDE DEF n
<1>6. n < replicas => ~(n > replicas)
  BY <1>1
<1> QED
  BY <1>2, <1>3, <1>4, <1>5, <1>6 DEF n

LEMMA ResizeTyped == ASSUME RescaleTyped, Resize PROVE RescaleTyped'
<1>1. /\ UNCHANGED <<status, replicas, market, moves, swaps, current, step, live, activeJobs, host, newest,
                     settling, ended, edits, failures, borrowed>>
      /\ resizes > 0 /\ resizes' = resizes - 1 /\ overlapped' \in BOOLEAN
  BY DEF RescaleTyped, RescaleTypeOK, Resize, doc, chain, bounds
<1>2. task' \in [Slots -> TaskDocs] /\ InRun' /\ \A t \in Slots : WellFormed(task'[t])
  <2>1. CASE UNCHANGED task
    <3>1. InRun'
      BY <1>1, <2>1, RunKept
    <3> QED
      BY <2>1, <3>1 DEF RescaleTyped, RescaleTypeOK, Shaped, TaskDocs
  <2>2. CASE \E d : Fresh(d) /\ Insert(d) /\ Sized(d)
    BY <1>1, <2>2, InsertTyped
  <2> QED
    BY <2>1, <2>2, ResizeSets DEF RescaleTyped
<1>3. resizes' \in 0..MaxEdits /\ resizes' + moves <= edits
  <2>1. resizes \in 0..MaxEdits /\ moves \in Nat /\ edits \in Nat /\ resizes + moves <= edits
    BY DEF RescaleTyped, RescaleTypeOK, Shaped
  <2> QED
    BY <1>1, <2>1, RescaleConstants
<1>4. RescaleTypeOK'
  BY <1>1, <1>2, <1>3 DEF RescaleTyped, RescaleTypeOK, TaskDocs
<1> QED
  BY <1>1, <1>2, <1>3, <1>4 DEF RescaleTyped, Shaped

(* A move queues its LIST, or leaves it to one that stands.                 *)
LEMMA MoveListsSets ==
  ASSUME RescaleTyped, NEW s \in swaps, MoveLists(s)
  PROVE  \/ UNCHANGED task /\ Queued(Replacements(s.size)) # {}
         \/ /\ Queued(Replacements(s.size)) = {}
            /\ \E d : /\ Fresh(d) /\ Insert(d) /\ d.kind = "LIST" /\ d.limit = s.size
                      /\ d.reason = "market" /\ d.job = NoTarget
<1>1. PICK n \in Jobs : s.size = n
  BY DEF RescaleTyped, RescaleTypeOK
<1>2. LET d == Replacements(s.size)
      IN Fresh(d) /\ d.kind = "LIST" /\ d.limit = s.size /\ d.job = NoTarget /\ d.reason = "market"
  <2>1. n \in 0..Unset /\ n > 0 /\ n # Unset
    BY RescaleConstants DEF Jobs
  <2> QED
    BY <1>1, <2>1, ListDoc DEF Replacements
<1>3. IF Queued(Replacements(s.size)) # {} THEN UNCHANGED task ELSE Insert(Replacements(s.size))
  BY DEF MoveLists, InsertOnce
<1> QED
  BY <1>2, <1>3

SwapKept(r, s) == r.jobs = s.jobs /\ r.size = s.size /\ r.edit = s.edit

LEMMA MoveListsSwaps ==
  ASSUME RescaleTyped, NEW s \in swaps, MoveLists(s)
  PROVE  \E r \in SwapDocs : /\ swaps' = (swaps \ {s}) \cup {r} /\ SwapKept(r, s) /\ r.listed
                             /\ ~s.listed /\ s \in SwapDocs
<1>1. s \in SwapDocs /\ swaps' = (swaps \ {s}) \cup {[s EXCEPT !.listed = TRUE]} /\ ~s.listed
  BY DEF RescaleTyped, RescaleTypeOK, MoveLists, SwapDocs
<1> DEFINE r == [s EXCEPT !.listed = TRUE]
<1>2. r \in SwapDocs /\ SwapKept(r, s) /\ r.listed
  BY <1>1 DEF SwapDocs, SwapKept
<1> HIDE DEF r
<1> QED
  BY <1>1, <1>2 DEF r

LEMMA MoveListsTyped == ASSUME RescaleTyped, NEW s \in swaps, MoveLists(s) PROVE RescaleTyped'
<1>1. /\ UNCHANGED <<status, replicas, market, resizes, moves, current, step, live, activeJobs, host, newest,
                     settling, ended, edits, failures>>
      /\ overlapped' \in BOOLEAN /\ borrowed' \in BOOLEAN
  BY DEF RescaleTyped, RescaleTypeOK, MoveLists, doc, chain, bounds
<1>2. task' \in [Slots -> TaskDocs] /\ InRun' /\ \A t \in Slots : WellFormed(task'[t])
  <2>1. CASE UNCHANGED task
    <3>1. InRun'
      BY <1>1, <2>1, RunKept
    <3> QED
      BY <2>1, <3>1 DEF RescaleTyped, RescaleTypeOK, Shaped, TaskDocs
  <2>2. CASE \E d : Fresh(d) /\ Insert(d)
    BY <1>1, <2>2, InsertTyped
  <2> QED
    BY <2>1, <2>2, MoveListsSets
<1>3. \A r \in swaps' : r \in SwapDocs /\ r.jobs # {}
  <2>1. \A r \in swaps : r \in SwapDocs /\ r.jobs # {}
    BY DEF RescaleTyped, RescaleTypeOK, Shaped, SwapDocs
  <2> QED
    BY <2>1, MoveListsSwaps DEF SwapKept
<1>4. RescaleTypeOK'
  BY <1>1, <1>2, <1>3 DEF RescaleTyped, RescaleTypeOK, TaskDocs, SwapDocs
<1> QED
  BY <1>1, <1>2, <1>3, <1>4 DEF RescaleTyped, Shaped

LEMMA MoveStopsSets ==
  ASSUME RescaleTyped, NEW s \in swaps, MoveStops(s)
  PROVE  /\ s.listed /\ s \in SwapDocs
         /\ \E j \in s.jobs : /\ j \in Jobs
              /\ \E d : Fresh(d) /\ Insert(d) /\ d.kind = "STOP" /\ d.job = j
              /\ \/ swaps' = swaps \ {s} /\ s.jobs = {j}
                 \/ \E r \in SwapDocs : /\ swaps' = (swaps \ {s}) \cup {r} /\ r.jobs = s.jobs \ {j}
                                        /\ r.jobs # {} /\ r.listed
<1>1. s \in SwapDocs /\ s.jobs # {} /\ s.listed
  BY DEF RescaleTyped, RescaleTypeOK, Shaped, MoveStops, MayStop, SwapDocs
<1> DEFINE j == Min(s.jobs)
           r == [s EXCEPT !.jobs = @ \ {j}]
<1>2. j \in s.jobs /\ j \in Jobs
  BY <1>1, LeastOf, RescaleConstants DEF SwapDocs
<1>3. Insert(StopOf(j)) /\ swaps' = (swaps \ {s}) \cup {q \in {r} : q.jobs # {} \/ ~q.listed}
  BY DEF MoveStops, InsertStop
<1> HIDE DEF j
<1>4. r \in SwapDocs /\ r.jobs = s.jobs \ {j} /\ r.listed
  BY <1>1 DEF SwapDocs
<1> HIDE DEF r
<1>5. Fresh(StopOf(j)) /\ StopOf(j).kind = "STOP" /\ StopOf(j).job = j
  BY <1>2, StopDoc
<1>6. CASE r.jobs = {}
  <2>1. swaps' = swaps \ {s} /\ s.jobs = {j}
    BY <1>2, <1>3, <1>4, <1>6
  <2> QED
    BY <1>1, <1>2, <1>3, <1>5, <2>1
<1>7. CASE r.jobs # {}
  <2>1. swaps' = (swaps \ {s}) \cup {r}
    BY <1>3, <1>7
  <2> QED
    BY <1>1, <1>2, <1>3, <1>4, <1>5, <1>7, <2>1
<1> QED
  BY <1>6, <1>7

LEMMA MoveStopsTyped == ASSUME RescaleTyped, NEW s \in swaps, MoveStops(s) PROVE RescaleTyped'
<1>1. UNCHANGED <<status, replicas, market, resizes, moves, current, step, live, activeJobs, host, newest,
                  settling, ended, edits, failures, overlapped, borrowed>>
  BY DEF MoveStops, doc, chain, bounds, hist
<1>2. task' \in [Slots -> TaskDocs] /\ InRun' /\ \A t \in Slots : WellFormed(task'[t])
  BY <1>1, MoveStopsSets, InsertTyped
<1>3. \A r \in swaps' : r \in SwapDocs /\ r.jobs # {}
  <2>1. \A r \in swaps : r \in SwapDocs /\ r.jobs # {}
    BY DEF RescaleTyped, RescaleTypeOK, Shaped, SwapDocs
  <2> QED
    BY <2>1, MoveStopsSets
<1>4. RescaleTypeOK'
  BY <1>1, <1>2, <1>3 DEF RescaleTyped, RescaleTypeOK, TaskDocs, SwapDocs
<1> QED
  BY <1>1, <1>2, <1>3, <1>4 DEF RescaleTyped, Shaped

(* Steps that write one task, and where the run is.                         *)
LEMMA OneTyped ==
  ASSUME RescaleTyped, NEW x, NEW d, Sets(x, d), WellFormed(d), InRun',
         current' \in {0} \cup Slots, step' \in {"idle", "post", "record", "exit", "kill"},
         UNCHANGED <<status, replicas, market, resizes, moves, swaps, live, activeJobs, host, newest,
                     settling, ended, edits, failures, overlapped, borrowed>>
  PROVE  RescaleTyped'
<1>1. \A t \in Slots : WellFormed(task'[t])
  BY ShapeKept
<1>2. RescaleTypeOK'
  BY DEF RescaleTyped, RescaleTypeOK, Sets, TaskDocs
<1> QED
  BY <1>1, <1>2 DEF RescaleTyped, Shaped

LEMMA ClaimSets ==
  ASSUME RescaleTyped, NEW t \in Slots, Claim(t)
  PROVE  /\ t \in Stored /\ t # current /\ Sets(t, Claimed(t)) /\ WellFormed(Claimed(t)) /\ step # "idle"
         /\ Claimed(t).posted = {} /\ Claimed(t) \in TaskDocs /\ Alike(task[t], Claimed(t))
         /\ Claimed(t).kind = "STOP" => Claimed(t).seen = activeJobs
         /\ Claimed(t).kind = "LIST" =>
              Claimed(t).target = IF task[t].target = Unset THEN Target(t) ELSE task[t].target
<1>1. t \in Stored /\ t # current /\ current # 0 /\ task' = [task EXCEPT ![t] = Claimed(t)]
  BY DEF Claim
<1>2. /\ Claimed(t) \in TaskDocs /\ Alike(task[t], Claimed(t)) /\ WellFormed(Claimed(t))
      /\ Claimed(t).kind = "STOP" => Claimed(t).seen = activeJobs
      /\ Claimed(t).kind = "LIST" =>
           Claimed(t).target = IF task[t].target = Unset THEN Target(t) ELSE task[t].target
  BY <1>1, ClaimedDoc
<1>3. Sets(t, Claimed(t))
  BY <1>1, <1>2, SetsOne DEF RescaleTyped
<1>4. task[t].posted = {} /\ step # "idle"
  BY <1>1 DEF RescaleTyped, Shaped, InRun
<1>5. Claimed(t).posted = {}
  BY <1>2, <1>4 DEF Alike
<1> QED
  BY <1>1, <1>2, <1>3, <1>4, <1>5

LEMMA ClaimTyped == ASSUME RescaleTyped, NEW t \in Slots, Claim(t) PROVE RescaleTyped'
<1>1. UNCHANGED <<status, replicas, market, resizes, moves, swaps, current, step, live, activeJobs, host,
                  newest, settling, ended, edits, failures, overlapped, borrowed>>
  BY DEF Claim, doc, events, chain, bounds, hist
<1>2. InRun'
  BY <1>1, ClaimSets, RunKept
<1>3. current' \in {0} \cup Slots /\ step' \in {"idle", "post", "record", "exit", "kill"}
  BY <1>1 DEF RescaleTyped, RescaleTypeOK
<1> QED
  BY <1>1, <1>2, <1>3, ClaimSets, OneTyped

(* Nothing runs, and nobody has posted. *)
LEMMA AtRest ==
  ASSUME RescaleTyped, current = 0
  PROVE  step = "idle" /\ \A t \in Slots : task[t].posted = {}
BY DEF RescaleTyped, Shaped, InRun

LEMMA RunListSets ==
  ASSUME RescaleTyped, NEW t \in Slots, RunList(t)
  PROVE  /\ t \in Stored /\ t \in Lists /\ current = 0 /\ step = "idle" /\ status = "RUNNING"
         /\ current' = t /\ step' = IF Read(t).target = 0 THEN "exit" ELSE "post"
         /\ Sets(t, Read(t)) /\ WellFormed(Read(t)) /\ Read(t).posted = {} /\ Read(t) \in TaskDocs
         /\ Alike(task[t], Read(t)) /\ Read(t).claimed /\ Read(t).kind = "LIST"
         /\ Read(t).target = IF task[t].target = Unset THEN Target(t) ELSE task[t].target
<1>1. /\ t \in Stored /\ t \in Lists /\ current = 0 /\ status = "RUNNING" /\ current' = t
      /\ task' = [task EXCEPT ![t] = Read(t)] /\ step' = IF Read(t).target = 0 THEN "exit" ELSE "post"
      /\ task[t].kind = "LIST"
  BY DEF RunList, Takes, Lists
<1>2. /\ Read(t) \in TaskDocs /\ Alike(task[t], Read(t)) /\ Read(t).claimed /\ WellFormed(Read(t))
      /\ Read(t).kind = "LIST" =>
           Read(t).target = IF task[t].target = Unset THEN Target(t) ELSE task[t].target
  BY <1>1, ReadDoc
<1>3. Sets(t, Read(t))
  BY <1>1, <1>2, SetsOne DEF RescaleTyped
<1>4. Read(t).kind = "LIST" /\ Read(t).posted = {}
  BY <1>1, <1>2, AtRest DEF Alike
<1> QED
  BY <1>1, <1>2, <1>3, <1>4, AtRest

LEMMA RunListTyped == ASSUME RescaleTyped, NEW t \in Slots, RunList(t) PROVE RescaleTyped'
<1>1. UNCHANGED <<status, replicas, market, resizes, moves, swaps, live, activeJobs, host, newest,
                  settling, ended, edits, failures, overlapped, borrowed>>
  BY DEF RunList, doc, events, chain, bounds, hist
<1> DEFINE c == Read(t)
<1>2. /\ Sets(t, c) /\ WellFormed(c) /\ c.posted = {} /\ c.claimed /\ c.kind = "LIST" /\ c \in TaskDocs
      /\ current = 0 /\ current' = t /\ step' = IF c.target = 0 THEN "exit" ELSE "post"
  BY RunListSets
<1> HIDE DEF c
<1>3. c.target \in 0..MaxJobs
  <2>1. c.target \in 0..Unset /\ c.target # Unset
    BY <1>2 DEF TaskDocs, WellFormed
  <2> QED
    BY <2>1, RescaleConstants
<1>4. \A u \in Slots : task'[u].posted = {}
  BY <1>2, AtRest DEF Sets
<1>5. c.target # 0 => c.target \in Jobs
  BY <1>3, RescaleConstants DEF Jobs
<1>6. InRun'
  BY <1>2, <1>4, <1>5, RescaleConstants DEF InRun, Sets
<1> QED
  BY <1>1, <1>2, <1>6, OneTyped

(* What a STOP chose, from what its claim saw.                              *)
LEMMA RunStopSets ==
  ASSUME RescaleTyped, NEW t \in Slots, RunStop(t)
  PROVE  /\ t \in Stored /\ task[t].kind = "STOP" /\ current = 0 /\ step = "idle"
         /\ current' = t /\ step' = "kill"
         /\ \E S, d : /\ S \in IF Read(t).frozen THEN {Read(t).stop} ELSE Selected(Read(t))
                      /\ Sets(t, d) /\ WellFormed(d) /\ d.posted = {} /\ d \in TaskDocs
                      /\ d.kind = "STOP" /\ d.claimed /\ d.frozen /\ d.stop = S /\ d.seen = {}
                      /\ d.job = task[t].job /\ d.limit = task[t].limit /\ d.reason = task[t].reason
                      /\ d.target = Read(t).target
         /\ Read(t) \in TaskDocs /\ Alike(task[t], Read(t))
         /\ Read(t).seen = IF task[t].claimed THEN task[t].seen ELSE activeJobs
<1> DEFINE c == Read(t)
<1>1. /\ t \in Stored /\ current = 0 /\ current' = t /\ step' = "kill" /\ task[t].kind = "STOP"
  BY DEF RunStop, Takes
<1>2. /\ c \in TaskDocs /\ Alike(task[t], c) /\ c.claimed /\ WellFormed(c)
      /\ c.kind = "STOP" => c.seen = IF task[t].claimed THEN task[t].seen ELSE activeJobs
  BY <1>1, ReadDoc
<1>3. PICK S : /\ S \in IF c.frozen THEN {c.stop} ELSE Selected(c)
               /\ task' = [task EXCEPT ![t] = [c EXCEPT !.stop = S, !.frozen = TRUE, !.seen = {}]]
  BY DEF RunStop
<1> HIDE DEF c
<1>4. S \in SUBSET Jobs
  BY <1>2, <1>3 DEF Selected, TaskDocs
<1> DEFINE d == [c EXCEPT !.stop = S, !.frozen = TRUE, !.seen = {}]
<1>5. /\ d \in TaskDocs /\ d.kind = c.kind /\ d.claimed = c.claimed /\ d.frozen /\ d.stop = S
      /\ d.seen = {} /\ d.job = c.job /\ d.limit = c.limit /\ d.reason = c.reason /\ d.posted = c.posted
      /\ d.target = c.target
  BY <1>2, <1>4 DEF TaskDocs
<1>6. task' = [task EXCEPT ![t] = d]
  BY <1>3
<1> HIDE DEF d
<1>7. Sets(t, d)
  BY <1>5, <1>6, SetsOne DEF RescaleTyped
<1>8. c.kind = "STOP" /\ c.posted = {} /\ c.job = task[t].job /\ c.limit = task[t].limit
      /\ c.reason = task[t].reason
  BY <1>1, <1>2, AtRest DEF Alike
<1>9. c.job # NoTarget => S \subseteq {c.job}
  BY <1>2, <1>3 DEF WellFormed, Selected
<1>10. WellFormed(d)
  BY <1>2, <1>5, <1>8, <1>9 DEF WellFormed
<1> QED
  BY <1>1, <1>2, <1>3, <1>5, <1>7, <1>8, <1>10, AtRest DEF c

LEMMA RunStopTyped == ASSUME RescaleTyped, NEW t \in Slots, RunStop(t) PROVE RescaleTyped'
<1>1. UNCHANGED <<status, replicas, market, resizes, moves, swaps, live, activeJobs, host, newest,
                  settling, ended, edits, failures, overlapped, borrowed>>
  BY DEF RunStop, doc, events, chain, bounds, hist
<1>2. PICK d : /\ Sets(t, d) /\ WellFormed(d) /\ d.posted = {} /\ d.kind = "STOP" /\ d.frozen
  BY RunStopSets
<1>3. current = 0 /\ current' = t /\ step' = "kill"
  BY RunStopSets
<1>4. \A u \in Slots : task'[u].posted = {}
  BY <1>2, <1>3, AtRest DEF Sets
<1>5. InRun'
  BY <1>2, <1>3, <1>4, RescaleConstants DEF InRun, Sets
<1> QED
  BY <1>1, <1>2, <1>3, <1>5, OneTyped

(* A task that leaves.                                                      *)
LEMMA DropTyped == ASSUME RescaleTyped, NEW t \in Slots, Drop(t) PROVE RescaleTyped' /\ Sets(t, NoTask)
<1>1. /\ UNCHANGED <<status, replicas, market, resizes, moves, swaps, current, step, live, activeJobs, host,
                     newest, settling, ended, edits, failures, overlapped, borrowed>>
      /\ current = 0 /\ task' = [task EXCEPT ![t] = NoTask]
  BY DEF Drop, Takes, doc, events, chain, bounds, hist
<1>2. Sets(t, NoTask)
  BY <1>1, NoTaskDoc, SetsOne DEF RescaleTyped
<1>3. InRun'
  BY <1>1, <1>2, RunKept, NoTaskDoc, RescaleConstants
<1>4. current' \in {0} \cup Slots /\ step' \in {"idle", "post", "record", "exit", "kill"}
  BY <1>1 DEF RescaleTyped, RescaleTypeOK
<1> QED
  BY <1>1, <1>2, <1>3, <1>4, NoTaskDoc, OneTyped

LEMMA LeaveSets ==
  ASSUME RescaleTyped, Leave, step # "idle"
  PROVE  /\ current \in Slots /\ Sets(current, NoTask) /\ current' = 0 /\ step' = "idle" /\ InRun'
         /\ \A t \in Slots : WellFormed(task'[t])
<1>1. current \in Slots
  BY DEF RescaleTyped, RescaleTypeOK, Shaped, InRun
<1>2. task' = [task EXCEPT ![current] = NoTask] /\ current' = 0 /\ step' = "idle"
  BY DEF Leave
<1>3. Sets(current, NoTask)
  BY <1>1, <1>2, NoTaskDoc, SetsOne DEF RescaleTyped
<1>4. \A t \in Slots : task'[t].posted = {}
  BY <1>3, NoTaskDoc DEF Sets, RescaleTyped, Shaped, InRun
<1>5. InRun'
  BY <1>2, <1>4 DEF InRun
<1> QED
  BY <1>1, <1>2, <1>3, <1>5, NoTaskDoc, ShapeKept

LEMMA ExitTyped == ASSUME RescaleTyped, Exit PROVE RescaleTyped'
<1>1. /\ UNCHANGED <<status, replicas, market, resizes, moves, swaps, live, activeJobs, host,
                     newest, settling, ended, edits, failures, overlapped, borrowed>>
      /\ Leave /\ step # "idle"
  BY DEF Exit, doc, events, chain, bounds, hist
<1> QED
  BY <1>1, LeaveSets, NoTaskDoc, OneTyped

LEMMA KillTyped == ASSUME RescaleTyped, Kill PROVE RescaleTyped'
<1>1. /\ UNCHANGED <<status, replicas, market, resizes, moves, swaps, activeJobs, host,
                     newest, settling, ended, edits, failures, overlapped, borrowed>>
      /\ Leave /\ step # "idle" /\ live' \subseteq live
  BY DEF Kill, doc, events, bounds, hist
<1>2. RescaleTypeOK'
  BY <1>1, LeaveSets DEF RescaleTyped, RescaleTypeOK, Sets, TaskDocs
<1> QED
  BY <1>1, <1>2, LeaveSets DEF RescaleTyped, Shaped
LEMMA RetryTyped ==
  ASSUME RescaleTyped, Retry
  PROVE  /\ RescaleTyped' /\ current \in Slots
         /\ \E d : /\ Sets(current, d) /\ Alike(task[current], d) /\ d.target = task[current].target
                   /\ ~d.claimed /\ d.seen = task[current].seen
<1>1. /\ UNCHANGED <<status, replicas, market, resizes, moves, swaps, live, activeJobs, host, newest,
                     settling, ended, edits, overlapped, borrowed>>
      /\ step \in {"post", "kill"} /\ current' = 0 /\ step' = "idle"
      /\ task' = [task EXCEPT ![current].claimed = FALSE]
      /\ ended + failures < MaxTrouble /\ failures' = failures + 1
  BY DEF Retry, doc, events, chain, hist
<1>2. /\ current \in Slots /\ task[current] \in TaskDocs
      /\ WellFormed(task[current]) /\ task[current].kind # "none"
  BY <1>1 DEF RescaleTyped, RescaleTypeOK, Shaped, InRun, TaskDocs
<1> DEFINE d == [task[current] EXCEPT !.claimed = FALSE]
<1>3. d \in TaskDocs /\ Alike(task[current], d) /\ d.target = task[current].target /\ ~d.claimed
      /\ d.seen = task[current].seen
  BY <1>2 DEF TaskDocs, Alike
<1>4. task' = [task EXCEPT ![current] = d]
  BY <1>1, <1>2 DEF RescaleTyped, RescaleTypeOK
<1> HIDE DEF d
<1>5. Sets(current, d)
  BY <1>2, <1>3, <1>4, SetsOne DEF RescaleTyped
<1>6. WellFormed(d)
  BY <1>2, <1>3 DEF WellFormed, Alike
<1>7. \A t \in Slots : task[t].posted = {}
  BY <1>1 DEF RescaleTyped, Shaped, InRun
<1>8. \A t \in Slots : task'[t].posted = {}
  BY <1>2, <1>3, <1>5, <1>7 DEF Sets, Alike
<1>9. InRun'
  BY <1>1, <1>8 DEF InRun
<1>10. ended \in Nat /\ failures' \in Nat /\ ended + failures' <= MaxTrouble
  <2>1. ended \in Nat /\ failures \in Nat
    BY DEF RescaleTyped, RescaleTypeOK
  <2> QED
    BY <1>1, <2>1, RescaleConstants
<1>11. RescaleTypeOK'
  BY <1>1, <1>5, <1>10 DEF RescaleTyped, RescaleTypeOK, Sets, TaskDocs
<1>12. Shaped'
  BY <1>1, <1>5, <1>6, <1>9, ShapeKept DEF RescaleTyped, Shaped
<1> QED
  BY <1>2, <1>3, <1>5, <1>11, <1>12 DEF RescaleTyped

LEMMA ForgetTyped == ASSUME RescaleTyped, NEW j \in Jobs, Forget(j) PROVE RescaleTyped'
<1>1. /\ UNCHANGED <<status, replicas, market, resizes, moves, swaps, current, step, live, activeJobs, host,
                     newest, ended, edits, failures, overlapped, borrowed>>
      /\ task' = [t \in Slots |-> IF task[t].job = j /\ t # current THEN NoTask ELSE task[t]]
      /\ settling' = [settling EXCEPT ![j] = IF activeJobs = {} /\ status = "RUNNING" THEN "last" ELSE "none"]
  BY DEF Forget, doc, events, chain, bounds, hist
<1>2. task \in [Slots -> TaskDocs] /\ task' \in [Slots -> TaskDocs]
  BY <1>1, NoTaskDoc DEF RescaleTyped, RescaleTypeOK, TaskDocs
<1>3. \A t \in Slots : task'[t] = NoTask \/ task'[t] = task[t]
  BY <1>1
<1>4. \A t \in Slots : t = current => task'[t] = task[t]
  BY <1>1
<1>5. \A t \in Slots : WellFormed(task'[t])
  BY <1>3, NoTaskDoc DEF RescaleTyped, Shaped
<1>6. \A t \in Slots : task'[t].posted # {} => task[t].posted # {}
  BY <1>3, NoTaskDoc
<1>7. step # "idle" => current \in Slots
  BY DEF RescaleTyped, RescaleTypeOK, Shaped, InRun
<1>8. InRun'
  BY <1>1, <1>4, <1>6, <1>7 DEF RescaleTyped, Shaped, InRun
<1>9. settling' \in [Jobs -> {"none", "due", "last", "quiet"}]
  BY <1>1 DEF RescaleTyped, RescaleTypeOK
<1>10. RescaleTypeOK'
  BY <1>1, <1>2, <1>9 DEF RescaleTyped, RescaleTypeOK, TaskDocs
<1> QED
  BY <1>1, <1>5, <1>8, <1>10 DEF RescaleTyped, Shaped

(* A post: fresh jobs, next in number. *)
LEMMA PostSets ==
  ASSUME RescaleTyped, PostJobs, status # "STOPPED"
  PROVE  /\ current \in Slots /\ step = "post" /\ step' = "record" /\ current' = current
         /\ task[current].target \in Jobs
         /\ \E S, d : /\ S = newest + 1 .. newest + task[current].target
                      /\ S \subseteq Jobs /\ S # {} /\ newest' = newest + task[current].target
                      /\ newest' \in S /\ IsFiniteSet(S) /\ Cardinality(S) = task[current].target
                      /\ live' = live \cup S /\ Sets(current, d) /\ d.posted = S /\ WellFormed(d)
                      /\ d.kind = "LIST" /\ d.claimed /\ d.job = NoTarget /\ d.stop = {} /\ ~d.frozen
                      /\ d.reason = task[current].reason /\ d.limit = task[current].limit
                      /\ d.target = task[current].target
                      /\ d.seen = task[current].seen
<1> DEFINE S == newest + 1 .. newest + task[current].target
<1>1. /\ step = "post" /\ S \subseteq Jobs /\ newest' = Max(S) /\ live' = live \cup S
      /\ task' = [task EXCEPT ![current].posted = S, ![current].market = NoMarket]
      /\ step' = "record" /\ current' = current
  BY DEF PostJobs
<1>2. /\ current \in Slots /\ task[current] \in TaskDocs /\ WellFormed(task[current])
      /\ task[current].kind = "LIST" /\ task[current].target \in Jobs /\ task[current].claimed
  BY <1>1 DEF RescaleTyped, RescaleTypeOK, Shaped, InRun, TaskDocs
<1>3. PICK a \in Nat : a = newest
  BY DEF RescaleTyped, RescaleTypeOK
<1>4. PICK n \in Nat : n = task[current].target /\ n > 0
  BY <1>2, RescaleConstants DEF Jobs
<1>5. /\ Max(S) = a + n /\ a + n \in S /\ IsFiniteSet(S) /\ Cardinality(S) = n
  BY <1>3, <1>4, LastOf
<1> HIDE DEF S
<1> DEFINE d == [task[current] EXCEPT !.posted = S, !.market = NoMarket]
<1>6. /\ d \in TaskDocs /\ d.posted = S /\ d.kind = "LIST" /\ d.claimed /\ d.job = task[current].job
      /\ d.stop = task[current].stop /\ d.frozen = task[current].frozen
      /\ d.reason = task[current].reason /\ d.limit = task[current].limit
      /\ d.target = task[current].target /\ d.seen = task[current].seen
  BY <1>1, <1>2, RescaleConstants DEF TaskDocs
<1>7. task' = [task EXCEPT ![current] = d]
  BY <1>1, <1>2 DEF RescaleTyped, RescaleTypeOK
<1> HIDE DEF d
<1>8. Sets(current, d)
  BY <1>2, <1>6, <1>7, SetsOne DEF RescaleTyped
<1>9. WellFormed(d) /\ d.job = NoTarget /\ d.stop = {} /\ ~d.frozen
  BY <1>2, <1>6 DEF WellFormed
<1> QED
  BY <1>1, <1>2, <1>3, <1>4, <1>5, <1>6, <1>8, <1>9 DEF S

LEMMA PostTyped == ASSUME RescaleTyped, PostJobs PROVE RescaleTyped'
<1>1. UNCHANGED <<status, replicas, market, resizes, moves, swaps, activeJobs, settling, ended, edits,
                  failures, overlapped, borrowed>> /\ step = "post"
  BY DEF PostJobs, doc, events, bounds, hist
<1>2. CASE status = "STOPPED"
  <2>1. Leave /\ UNCHANGED <<live, host, newest>>
    BY <1>2 DEF PostJobs, chain
  <2> QED
    BY <1>1, <2>1, LeaveSets, NoTaskDoc, OneTyped
<1>3. CASE status # "STOPPED"
  <2>1. PICK S, d : /\ S \subseteq Jobs /\ S # {} /\ newest' \in S
                    /\ live' = live \cup S /\ Sets(current, d) /\ d.posted = S /\ WellFormed(d)
                    /\ d.kind = "LIST" /\ d.claimed
    BY <1>3, PostSets
  <2>2. current \in Slots /\ step' = "record" /\ current' = current
    BY <1>3, PostSets
  <2>3. \A t \in Slots : task'[t].posted # {} => t = current
    BY <1>1, <2>1, <2>2 DEF RescaleTyped, Shaped, InRun, Sets
  <2>4. InRun'
    BY <2>1, <2>2, <2>3, RescaleConstants DEF InRun, Sets
  <2>5. newest' \in 0..MaxJobs
    BY <2>1, RescaleConstants DEF Jobs
  <2>6. host' \in [Jobs -> Places]
    <3>1. PICK m \in IF task[current].market = NoMarket THEN Markets ELSE {task[current].market} :
            host' = [j \in Jobs |-> IF j \in newest + 1 .. newest + task[current].target THEN m ELSE host[j]]
      BY <1>3 DEF PostJobs
    <3>2. m \in Places
      BY <2>2 DEF RescaleTyped, RescaleTypeOK, Places
    <3> QED
      BY <3>1, <3>2 DEF RescaleTyped, RescaleTypeOK
  <2>7. RescaleTypeOK'
    BY <1>1, <2>1, <2>2, <2>5, <2>6 DEF RescaleTyped, RescaleTypeOK, Sets, TaskDocs
  <2>8. \A t \in Slots : WellFormed(task'[t])
    BY <2>1, ShapeKept
  <2> QED
    BY <1>1, <2>4, <2>7, <2>8 DEF RescaleTyped, Shaped
<1> QED
  BY <1>2, <1>3

(* A type-correct step.                                                     *)
LEMMA RescaleStepTyped == ASSUME RescaleTyped, [RescaleNext]_rescaleVars PROVE RescaleTyped'
<1>1. CASE UNCHANGED rescaleVars
  <2>1. UNCHANGED <<status, replicas, market, resizes, moves, swaps, task, current, step, live, host, newest,
                    activeJobs, settling, ended, edits, failures, overlapped, borrowed>>
    BY <1>1 DEF rescaleVars, doc, events, queue, chain, bounds, hist
  <2>2. RescaleTypeOK'
    BY <2>1 DEF RescaleTyped, RescaleTypeOK
  <2>3. Shaped'
    BY <2>1 DEF RescaleTyped, Shaped, InRun
  <2> QED
    BY <2>2, <2>3 DEF RescaleTyped
<1>2. CASE RescaleNext
  <2>1. CASE EditReplicas \/ EditMarket
    BY <2>1, EditsTyped
  <2>2. CASE Callbacks
    BY <2>2, ResizeTyped, MoveTyped, MoveListsTyped, MoveStopsTyped DEF Callbacks
  <2>3. CASE \E t \in Slots : Claim(t) \/ Handle(t)
    BY <2>3, ClaimTyped, DropTyped, RunListTyped, RunStopTyped DEF Handle
  <2>4. CASE Work \/ Retry
    BY <2>4, PostTyped, RecordTyped, ExitTyped, KillTyped, RetryTyped DEF Work
  <2>5. CASE \E j \in Jobs : EndJob(j) \/ Observe(j) \/ Settle(j)
    BY <2>5, JobsTyped, ForgetTyped DEF Settle
  <2> QED
    BY <1>2, <2>1, <2>2, <2>3, <2>4, <2>5 DEF RescaleNext
<1> QED
  BY <1>1, <1>2

(* The document, the queue and the chain stay type-correct, a task says what *)
(* its run went through, and only the run that posts has posted.             *)
THEOREM RescaleTyping == RescaleSpec => []RescaleTypeOK
<1>1. RescaleTyped => RescaleTypeOK
  BY DEF RescaleTyped
<1> QED
  BY <1>1, RescaleInitTyped, RescaleStepTyped, PTL DEF RescaleSpec

-----------------------------------------------------------------------------
(* What has been posted so far is all that anything names.                  *)

Upto == 1..newest
Names(d, U) == d.job \in {NoTarget} \cup U /\ d.stop \subseteq U /\ d.seen \subseteq U /\ d.posted \subseteq U

Known ==
  /\ live \subseteq Upto /\ activeJobs \subseteq Upto
  /\ \A s \in swaps : s.jobs \subseteq Upto
  /\ \A t \in Slots : Names(task[t], Upto)
  /\ \A j \in Jobs : settling[j] # "none" => j \in Upto /\ j \notin live

LEMMA KnownKept ==
  ASSUME Known, newest' = newest, live' \subseteq live, activeJobs' \subseteq Upto,
         \A s \in swaps' : s.jobs \subseteq Upto,
         \A t \in Slots : task'[t] = task[t] \/ Names(task'[t], Upto),
         \A j \in Jobs : settling'[j] # "none" => settling[j] # "none" \/ (j \in Upto /\ j \notin live')
  PROVE  Known'
<1>1. Upto' = Upto
  BY DEF Upto
<1>2. \A t \in Slots : Names(task'[t], Upto)
  BY DEF Known
<1>3. (\A t \in Slots : Names(task[t], Upto))'
  BY <1>1, <1>2 DEF Names
<1>4. (/\ live \subseteq Upto /\ activeJobs \subseteq Upto
       /\ \A s \in swaps : s.jobs \subseteq Upto
       /\ \A j \in Jobs : settling[j] # "none" => j \in Upto /\ j \notin live)'
  BY <1>1 DEF Known
<1> QED
  BY <1>3, <1>4 DEF Known

LEMMA NamesOne ==
  ASSUME Known, NEW x, NEW d, Sets(x, d), Names(d, Upto)
  PROVE  \A t \in Slots : task'[t] = task[t] \/ Names(task'[t], Upto)
BY DEF Sets

LEMMA NamesRead ==
  ASSUME Known, NEW t \in Slots, NEW d, Alike(task[t], d), d.seen \in {{}, activeJobs, task[t].seen}
  PROVE  Names(d, Upto)
BY DEF Known, Names, Alike

LEMMA NoTaskNames == Names(NoTask, Upto)
BY NoTaskDoc DEF Names

LEMMA RescaleInitKnown == RescaleInit => Known
<1> SUFFICES ASSUME RescaleInit PROVE Known
  OBVIOUS
<1>1. NewList(Unset, "none") \in TaskDocs /\ Fresh(NewList(Unset, "none"))
      /\ NewList(Unset, "none").job = NoTarget
  BY ListDoc, RescaleConstants DEF Fresh
<1>2. \A t \in Slots : Names(task[t], Upto)
  BY <1>1, NoTaskNames DEF RescaleInit, Fresh, Names
<1>3. \A t \in Jobs : settling[t] = "none"
  BY DEF RescaleInit
<1> QED
  BY <1>2, <1>3 DEF Known, RescaleInit

LEMMA KnownStep == ASSUME RescaleTyped, Known, [RescaleNext]_rescaleVars PROVE Known'
<1> USE DEF doc, events, queue, chain, bounds, hist
<1>0. live \subseteq Upto /\ activeJobs \subseteq Upto
      /\ \A s \in swaps : s.jobs \subseteq Upto
  BY DEF Known
<1>1. CASE UNCHANGED rescaleVars \/ EditReplicas \/ EditMarket
  <2>1. UNCHANGED <<newest, live, activeJobs, swaps, task, settling>>
    BY <1>1 DEF rescaleVars, EditReplicas, EditMarket
  <2> QED
    BY <1>0, <2>1, KnownKept
<1>2. CASE Resize
  <2>1. UNCHANGED <<newest, live, activeJobs, swaps, settling>>
    BY <1>2 DEF Resize
  <2>2. \A t \in Slots : task'[t] = task[t] \/ Names(task'[t], Upto)
    <3>1. CASE UNCHANGED task
      BY <3>1
    <3>2. ASSUME NEW d, Fresh(d), Insert(d), Sized(d)
          PROVE \A t \in Slots : task'[t] = task[t] \/ Names(task'[t], Upto)
      <4>1. d.job = NoTarget /\ d.stop = {} /\ d.seen = {} /\ d.posted = {}
        BY <3>2 DEF Sized, Fresh, WellFormed
      <4>2. Names(d, Upto)
        BY <4>1 DEF Names
      <4>3. \E x \in Slots : Sets(x, d)
        BY <3>2, Inserted DEF RescaleTyped, Fresh
      <4> QED
        BY <4>2, <4>3, NamesOne
    <3> QED
      BY <1>2, <3>1, <3>2, ResizeSets DEF RescaleTyped
  <2> QED
    BY <1>0, <2>1, <2>2, KnownKept
<1>3. CASE Move
  <2>1. UNCHANGED <<newest, live, activeJobs, task, settling>>
    BY <1>3 DEF Move
  <2>2. \A s \in swaps' : s \in swaps \/ s.jobs = Displaced
    BY <1>3 DEF Move
  <2>3. Displaced \subseteq Upto
    BY <1>0 DEF Displaced
  <2>4. \A s \in swaps' : s.jobs \subseteq Upto
    BY <1>0, <2>2, <2>3
  <2> QED
    BY <1>0, <2>1, <2>4, KnownKept
<1>4. ASSUME NEW s \in swaps, MoveLists(s) PROVE Known'
  <2>1. UNCHANGED <<newest, live, activeJobs, settling>>
    BY <1>4 DEF MoveLists
  <2>2. \A t \in Slots : task'[t] = task[t] \/ Names(task'[t], Upto)
    <3>1. CASE UNCHANGED task
      BY <3>1
    <3>2. ASSUME NEW d, Fresh(d), Insert(d), d.job = NoTarget
          PROVE \A t \in Slots : task'[t] = task[t] \/ Names(task'[t], Upto)
      <4>2. Names(d, Upto)
        BY <3>2 DEF Names, Fresh
      <4>3. \E x \in Slots : Sets(x, d)
        BY <3>2, Inserted DEF RescaleTyped, Fresh
      <4> QED
        BY <4>2, <4>3, NamesOne
    <3> QED
      BY <1>4, <3>1, <3>2, MoveListsSets
  <2>3. \A r \in swaps' : r.jobs \subseteq Upto
    BY <1>0, <1>4, MoveListsSwaps DEF SwapKept
  <2> QED
    BY <1>0, <2>1, <2>2, <2>3, KnownKept
<1>5. ASSUME NEW s \in swaps, MoveStops(s) PROVE Known'
  <2>1. UNCHANGED <<newest, live, activeJobs, settling>>
    BY <1>5 DEF MoveStops
  <2>2. PICK j \in s.jobs :
              /\ \E d : Fresh(d) /\ Insert(d) /\ d.kind = "STOP" /\ d.job = j
              /\ \/ swaps' = swaps \ {s}
                 \/ \E r \in SwapDocs : swaps' = (swaps \ {s}) \cup {r} /\ r.jobs = s.jobs \ {j}
    BY <1>5, MoveStopsSets
  <2>3. PICK d : Fresh(d) /\ Insert(d) /\ d.job = j
    BY <2>2
  <2>4. Names(d, Upto)
    BY <1>0, <2>3 DEF Names, Fresh
  <2>5. \E x \in Slots : Sets(x, d)
    BY <2>3, Inserted DEF RescaleTyped, Fresh
  <2>6. \A r \in swaps' : r.jobs \subseteq Upto
    BY <1>0, <2>2
  <2>7. \A t \in Slots : task'[t] = task[t] \/ Names(task'[t], Upto)
    BY <2>4, <2>5, NamesOne
  <2> QED
    BY <1>0, <2>1, <2>6, <2>7, KnownKept
<1>6. ASSUME NEW t \in Slots, Claim(t) PROVE Known'
  <2>1. UNCHANGED <<newest, live, activeJobs, settling, swaps>>
    BY <1>6 DEF Claim
  <2>2. Sets(t, Claimed(t)) /\ WellFormed(Claimed(t)) /\ Alike(task[t], Claimed(t))
        /\ (Claimed(t).kind = "STOP" => Claimed(t).seen = activeJobs) /\ task[t].kind \in {"STOP", "LIST"}
    BY <1>6, ClaimSets, Kinds DEF TaskDocs
  <2>3. Claimed(t).seen \in {{}, activeJobs, task[t].seen}
    BY <2>2 DEF WellFormed, Alike
  <2>4. Names(Claimed(t), Upto)
    BY <2>2, <2>3, NamesRead
  <2>5. \A u \in Slots : task'[u] = task[u] \/ Names(task'[u], Upto)
    BY <2>2, <2>4, NamesOne
  <2> QED
    BY <1>0, <2>1, <2>5, KnownKept
<1>7. ASSUME NEW t \in Slots, RunList(t) PROVE Known'
  <2>1. UNCHANGED <<newest, live, activeJobs, settling, swaps>>
    BY <1>7 DEF RunList
  <2>2. Sets(t, Read(t)) /\ WellFormed(Read(t)) /\ Alike(task[t], Read(t)) /\ Read(t).kind = "LIST"
    BY <1>7, RunListSets
  <2>3. Names(Read(t), Upto)
    BY <2>2, NamesRead DEF WellFormed
  <2>5. \A u \in Slots : task'[u] = task[u] \/ Names(task'[u], Upto)
    BY <2>2, <2>3, NamesOne
  <2> QED
    BY <1>0, <2>1, <2>5, KnownKept
<1>8. ASSUME NEW t \in Slots, RunStop(t) PROVE Known'
  <2>1. UNCHANGED <<newest, live, activeJobs, settling, swaps>>
    BY <1>8 DEF RunStop
  <2>2. PICK S, d : /\ S \in IF Read(t).frozen THEN {Read(t).stop} ELSE Selected(Read(t))
                    /\ Sets(t, d) /\ d.posted = {} /\ d.stop = S /\ d.seen = {} /\ d.job = task[t].job
    BY <1>8, RunStopSets
  <2>3. Alike(task[t], Read(t)) /\ Read(t).seen = IF task[t].claimed THEN task[t].seen ELSE activeJobs
    BY <1>8, RunStopSets
  <2>4. Names(Read(t), Upto)
    BY <2>3, NamesRead
  <2>5. S \subseteq Upto
    BY <2>2, <2>4 DEF Selected, Names
  <2>6. Names(d, Upto)
    BY <2>2, <2>3, <2>4, <2>5 DEF Names, Alike
  <2>7. \A u \in Slots : task'[u] = task[u] \/ Names(task'[u], Upto)
    BY <2>2, <2>6, NamesOne
  <2> QED
    BY <1>0, <2>1, <2>7, KnownKept
<1>9. ASSUME NEW t \in Slots, Drop(t) PROVE Known'
  <2>1. UNCHANGED <<newest, live, activeJobs, settling, swaps>>
    BY <1>9 DEF Drop
  <2>2. \A u \in Slots : task'[u] = task[u] \/ Names(task'[u], Upto)
    BY <1>9, DropTyped, NamesOne, NoTaskNames
  <2> QED
    BY <1>0, <2>1, <2>2, KnownKept
<1>10. CASE PostJobs
  <2>1. CASE status = "STOPPED"
    <3>1. UNCHANGED <<newest, live, activeJobs, settling, swaps>> /\ Leave /\ step # "idle"
      BY <1>10, <2>1 DEF PostJobs
    <3>2. \A u \in Slots : task'[u] = task[u] \/ Names(task'[u], Upto)
      BY <3>1, LeaveSets, NamesOne, NoTaskNames
    <3> QED
      BY <1>0, <3>1, <3>2, KnownKept
  <2>2. CASE status # "STOPPED"
    <3>1. PICK S, d : /\ S = newest + 1 .. newest + task[current].target
                      /\ S \subseteq Jobs /\ newest' = newest + task[current].target
                      /\ live' = live \cup S /\ Sets(current, d) /\ d.posted = S /\ d.job = NoTarget
                      /\ d.stop = {} /\ d.seen = task[current].seen
      BY <1>10, <2>2, PostSets
    <3>2. UNCHANGED <<activeJobs, settling, swaps>>
      BY <1>10 DEF PostJobs
    <3>3. current \in Slots /\ task[current].target \in Jobs
      BY <1>10, <2>2, PostSets
    <3>4. newest \in Nat /\ task[current].target \in Nat
      BY <3>3, RescaleConstants DEF RescaleTyped, RescaleTypeOK
    <3>5. Upto \subseteq Upto' /\ S \subseteq Upto' /\ Upto \cap S = {}
      BY <3>1, <3>4 DEF Upto
    <3>6. Names(d, Upto')
      BY <3>1, <3>3, <3>5 DEF Known, Names
    <3>7. \A t \in Slots : Names(task[t], Upto')
      BY <3>5 DEF Known, Names
    <3>8. \A t \in Slots : task'[t] = task[t] \/ task'[t] = d
      BY <3>1 DEF Sets
    <3>9. \A t \in Slots : Names(task'[t], Upto')
      BY <3>6, <3>7, <3>8
    <3>10. (\A t \in Slots : Names(task[t], Upto))'
      BY <3>9 DEF Names
    <3>11. (/\ live \subseteq Upto /\ activeJobs \subseteq Upto
            /\ \A s \in swaps : s.jobs \subseteq Upto
            /\ \A j \in Jobs : settling[j] # "none" => j \in Upto /\ j \notin live)'
      BY <3>1, <3>2, <3>5 DEF Known
    <3> QED
      BY <3>10, <3>11 DEF Known
  <2> QED
    BY <2>1, <2>2
<1>11. CASE Record
  <2>1. UNCHANGED <<newest, live, task, settling, swaps>> /\ activeJobs' = activeJobs \cup task[current].posted
    BY <1>11 DEF Record
  <2>2. current \in Slots
    BY <1>11 DEF Record, RescaleTyped, RescaleTypeOK, Shaped, InRun
  <2>3. activeJobs' \subseteq Upto
    BY <1>0, <2>1, <2>2 DEF Known, Names
  <2> QED
    BY <1>0, <2>1, <2>3, KnownKept
<1>12. CASE Exit \/ Kill
  <2>1. UNCHANGED <<newest, activeJobs, settling, swaps>> /\ live' \subseteq live /\ Leave /\ step # "idle"
    BY <1>12 DEF Exit, Kill
  <2>2. \A u \in Slots : task'[u] = task[u] \/ Names(task'[u], Upto)
    BY <2>1, LeaveSets, NamesOne, NoTaskNames
  <2> QED
    BY <1>0, <2>1, <2>2, KnownKept
<1>13. CASE Retry
  <2>1. UNCHANGED <<newest, live, activeJobs, settling, swaps>>
    BY <1>13 DEF Retry
  <2>2. PICK d : Sets(current, d) /\ Alike(task[current], d) /\ d.seen = task[current].seen
    BY <1>13, RetryTyped
  <2>3. current \in Slots
    BY <1>13, RetryTyped
  <2>4. Names(d, Upto)
    BY <2>2, <2>3, NamesRead
  <2>5. \A u \in Slots : task'[u] = task[u] \/ Names(task'[u], Upto)
    BY <2>2, <2>4, NamesOne
  <2> QED
    BY <1>0, <2>1, <2>5, KnownKept
<1>14. ASSUME NEW j \in Jobs, EndJob(j) \/ Observe(j) \/ Settle(j) PROVE Known'
  <2>1. UNCHANGED <<newest, swaps>> /\ live' \subseteq live /\ activeJobs' \subseteq activeJobs
    BY <1>14 DEF EndJob, Observe, Settle, Forget, CountLists, MarkStopped
  <2>2. \A k \in Jobs : settling'[k] # "none" => settling[k] # "none" \/ (k \in Upto /\ k \notin live')
    BY <1>0, <1>14 DEF EndJob, Observe, Settle, Forget, CountLists, MarkStopped, RescaleTyped, RescaleTypeOK
  <2>3. \A t \in Slots : task'[t] = task[t] \/ task'[t] = NoTask
    BY <1>14 DEF EndJob, Observe, Settle, Forget, CountLists, MarkStopped
  <2> QED
    BY <1>0, <2>1, <2>2, <2>3, KnownKept, NoTaskNames
<1> QED
  BY <1>1, <1>2, <1>3, <1>4, <1>5, <1>6, <1>7, <1>8, <1>9, <1>10, <1>11, <1>12, <1>13, <1>14
     DEF RescaleNext, Callbacks, Handle, Work

-----------------------------------------------------------------------------
(* A job alive has an active row, but while the run that posted it has not   *)
(* recorded it, and a STOP of a live job stops it: its claim saw the row.    *)

Posting == IF step = "record" THEN task[current].posted ELSE {}
Hit(j) == (\E t \in Slots : task[t].job = j) \/ \E s \in swaps : j \in s.jobs
Aimed(d, L) == d.job \in L => /\ d.claimed /\ ~d.frozen => d.job \in d.seen
                              /\ d.frozen => d.job \in d.stop

Watched ==
  /\ live \subseteq activeJobs \cup Posting
  /\ \A j \in live : Hit(j) => j \in activeJobs
  /\ \A t \in Slots : Aimed(task[t], live)
  /\ \A s \in swaps : ~s.listed => s.size = Cardinality(s.jobs)

LEMMA WatchedKept ==
  ASSUME RescaleTyped, Watched, live' \subseteq live, live \cap activeJobs \subseteq activeJobs',
         Posting \subseteq Posting' \cup activeJobs',
         \A t \in Slots : \/ task'[t] = task[t]
                          \/ /\ Aimed(task'[t], live)
                             /\ task'[t].job = NoTarget \/ Hit(task'[t].job),
         \A s \in swaps' : \/ s \in swaps
                           \/ /\ \A j \in s.jobs : Hit(j) \/ j \in activeJobs
                              /\ ~s.listed => s.size = Cardinality(s.jobs)
  PROVE  Watched'
<1>1. live' \subseteq activeJobs' \cup Posting'
  BY DEF Watched
<1>2. \A j \in live' : Hit(j)' => j \in activeJobs'
  <2> SUFFICES ASSUME NEW j \in live', Hit(j)' PROVE j \in activeJobs'
    OBVIOUS
  <2>1. j # NoTarget
    BY RescaleConstants DEF RescaleTyped, RescaleTypeOK
  <2>2. CASE \E t \in Slots : task'[t].job = j
    <3>1. Hit(j)
      BY <2>1, <2>2 DEF Hit
    <3> QED
      BY <3>1 DEF Watched
  <2>3. CASE \E s \in swaps' : j \in s.jobs
    <3>1. Hit(j) \/ j \in activeJobs
      BY <2>3 DEF Hit
    <3> QED
      BY <3>1 DEF Watched
  <2> QED
    BY <2>2, <2>3 DEF Hit
<1>3. \A t \in Slots : Aimed(task'[t], live)
  BY DEF Watched
<1>4. \A t \in Slots : Aimed(task'[t], live')
  BY <1>3 DEF Aimed
<1>5. \A s \in swaps' : ~s.listed => s.size = Cardinality(s.jobs)
  BY DEF Watched
<1>6. (\A t \in Slots : Aimed(task[t], live))'
  BY <1>4 DEF Aimed
<1> QED
  BY <1>1, <1>2, <1>5, <1>6 DEF Watched

LEMMA AimedOne ==
  ASSUME NEW x, NEW d, Sets(x, d), Aimed(d, live), d.job = NoTarget \/ Hit(d.job)
  PROVE  \A t \in Slots : \/ task'[t] = task[t]
                          \/ /\ Aimed(task'[t], live)
                             /\ task'[t].job = NoTarget \/ Hit(task'[t].job)
BY DEF Sets

LEMMA NoAim == ASSUME RescaleTyped, NEW d, d.job = NoTarget \/ Fresh(d) PROVE Aimed(d, live)
BY RescaleConstants DEF Aimed, RescaleTyped, RescaleTypeOK, Fresh

LEMMA PostingIdle == ASSUME RescaleTyped, step # "record" PROVE Posting = {}
BY DEF Posting

LEMMA RescaleInitWatched == RescaleInit => Watched
<1> SUFFICES ASSUME RescaleInit PROVE Watched
  OBVIOUS
<1>1. live = {} /\ swaps = {}
  BY DEF RescaleInit
<1> QED
  BY <1>1 DEF Watched, Aimed

LEMMA WatchedStep == ASSUME RescaleTyped, Known, Watched, [RescaleNext]_rescaleVars PROVE Watched'
<1> USE DEF doc, events, queue, chain, bounds, hist
<1>1. CASE \/ UNCHANGED rescaleVars \/ EditReplicas \/ EditMarket
           \/ \E j \in Jobs : EndJob(j) \/ Observe(j) \/ CountLists(j) \/ MarkStopped(j)
  <2>1. /\ UNCHANGED <<swaps, task, current, step>>
        /\ live' \subseteq live /\ live \cap activeJobs \subseteq activeJobs'
    BY <1>1 DEF rescaleVars, EditReplicas, EditMarket, EndJob, Observe, CountLists, MarkStopped
  <2>2. Posting' = Posting
    BY <2>1 DEF Posting
  <2> QED
    BY <2>1, <2>2, WatchedKept
<1>2. CASE Resize
  <2>1. UNCHANGED <<live, activeJobs, swaps, current, step>>
    BY <1>2 DEF Resize
  <2>2. CASE UNCHANGED task
    <3>1. Posting' = Posting
      BY <2>1, <2>2 DEF Posting
    <3> QED
      BY <2>1, <2>2, <3>1, WatchedKept
  <2>3. ASSUME NEW d, Fresh(d), Insert(d), Sized(d) PROVE Watched'
    <3>1. PICK x \in Slots : Sets(x, d) /\ x # current
      BY <2>1, <2>3, InsertTyped
    <3>2. d.job = NoTarget
      BY <2>3 DEF Sized, Fresh, WellFormed
    <3>3. Posting' = Posting
      BY <2>1, <3>1 DEF Posting, Sets, RescaleTyped, RescaleTypeOK, Shaped, InRun
    <3> QED
      BY <2>1, <3>1, <3>2, <3>3, NoAim, AimedOne, WatchedKept
  <2> QED
    BY <1>2, <2>2, <2>3, ResizeSets DEF RescaleTyped
<1>3. CASE Move
  <2>1. UNCHANGED <<live, activeJobs, task, current, step>>
    BY <1>3 DEF Move
  <2>2. \A s \in swaps' : s \in swaps \/ (s.jobs = Displaced /\ s.size = Cardinality(Displaced))
    BY <1>3 DEF Move
  <2>3. Displaced \subseteq activeJobs
    BY DEF Displaced
  <2>4. Posting' = Posting
    BY <2>1 DEF Posting
  <2> HIDE DEF Displaced
  <2>5. \A s \in swaps' : \/ s \in swaps
                          \/ /\ \A j \in s.jobs : Hit(j) \/ j \in activeJobs
                             /\ ~s.listed => s.size = Cardinality(s.jobs)
    BY <2>2, <2>3
  <2> QED
    BY <2>1, <2>4, <2>5, WatchedKept
<1>4. ASSUME NEW s \in swaps, MoveLists(s) PROVE Watched'
  <2>1. UNCHANGED <<live, activeJobs, current, step>>
    BY <1>4 DEF MoveLists
  <2>2. \A q \in swaps' : \/ q \in swaps
                          \/ /\ \A j \in q.jobs : Hit(j) \/ j \in activeJobs
                             /\ ~q.listed => q.size = Cardinality(q.jobs)
    BY <1>4, MoveListsSwaps DEF SwapKept, Hit
  <2>3. CASE UNCHANGED task
    <3>1. Posting' = Posting
      BY <2>1, <2>3 DEF Posting
    <3> QED
      BY <2>1, <2>2, <2>3, <3>1, WatchedKept
  <2>4. ASSUME NEW d, Fresh(d), Insert(d), d.job = NoTarget PROVE Watched'
    <3>1. PICK x \in Slots : Sets(x, d) /\ x # current
      BY <2>1, <2>4, InsertTyped
    <3>3. Posting' = Posting
      BY <2>1, <3>1 DEF Posting, Sets, RescaleTyped, RescaleTypeOK, Shaped, InRun
    <3> QED
      BY <2>1, <2>2, <2>4, <3>1, <3>3, NoAim, AimedOne, WatchedKept
  <2> QED
    BY <1>4, <2>3, <2>4, MoveListsSets
<1>5. ASSUME NEW s \in swaps, MoveStops(s) PROVE Watched'
  <2>1. UNCHANGED <<live, activeJobs, current, step>>
    BY <1>5 DEF MoveStops
  <2>2. PICK j \in s.jobs :
              /\ \E d : Fresh(d) /\ Insert(d) /\ d.job = j
              /\ \/ swaps' = swaps \ {s}
                 \/ \E r \in SwapDocs : swaps' = (swaps \ {s}) \cup {r} /\ r.jobs = s.jobs \ {j} /\ r.listed
    BY <1>5, MoveStopsSets
  <2>3. PICK d : Fresh(d) /\ Insert(d) /\ d.job = j
    BY <2>2
  <2>4. PICK x \in Slots : Sets(x, d) /\ x # current
    BY <2>1, <2>3, InsertTyped
  <2>5. Posting' = Posting
    BY <2>1, <2>4 DEF Posting, Sets, RescaleTyped, RescaleTypeOK, Shaped, InRun
  <2>6. \A q \in swaps' : \/ q \in swaps
                          \/ /\ \A k \in q.jobs : Hit(k) \/ k \in activeJobs
                             /\ ~q.listed => q.size = Cardinality(q.jobs)
    BY <2>2 DEF Hit
  <2>7. Hit(d.job) /\ Aimed(d, live)
    BY <2>2, <2>3, NoAim DEF Hit
  <2> QED
    BY <2>1, <2>4, <2>5, <2>6, <2>7, AimedOne, WatchedKept
<1>6. ASSUME NEW t \in Slots, Claim(t) PROVE Watched'
  <2>1. UNCHANGED <<live, activeJobs, swaps, current, step>>
    BY <1>6 DEF Claim
  <2>2. Sets(t, Claimed(t)) /\ WellFormed(Claimed(t)) /\ Alike(task[t], Claimed(t)) /\ t # current
        /\ (Claimed(t).kind = "STOP" => Claimed(t).seen = activeJobs) /\ task[t].kind \in {"STOP", "LIST"}
    BY <1>6, ClaimSets, Kinds DEF TaskDocs
  <2>3. Posting' = Posting
    BY <2>1, <2>2 DEF Posting, Sets, RescaleTyped, RescaleTypeOK, Shaped, InRun
  <2>4. Hit(task[t].job)
    BY DEF Hit
  <2>5. Aimed(task[t], live) /\ (task[t].job \in live => task[t].job \in activeJobs)
    BY <2>4 DEF Watched
  <2>6. Aimed(Claimed(t), live)
    <3>1. CASE task[t].kind = "STOP"
      BY <2>2, <2>5, <3>1 DEF Aimed, Alike
    <3>2. CASE task[t].kind = "LIST"
      BY <2>2, <3>2, NoAim DEF Alike, WellFormed
    <3> QED
      BY <2>2, <3>1, <3>2
  <2>7. Claimed(t).job = task[t].job
    BY <2>2 DEF Alike
  <2> QED
    BY <2>1, <2>2, <2>3, <2>4, <2>6, <2>7, AimedOne, WatchedKept
<1>7. ASSUME NEW t \in Slots, RunList(t) PROVE Watched'
  <2>1. UNCHANGED <<live, activeJobs, swaps>> /\ step' # "record"
    BY <1>7 DEF RunList
  <2>2. Sets(t, Read(t)) /\ WellFormed(Read(t)) /\ Read(t).kind = "LIST" /\ step = "idle"
    BY <1>7, RunListSets
  <2>3. Posting = {}
    BY <2>2, PostingIdle
  <2>4. Read(t).job = NoTarget
    BY <2>2 DEF WellFormed
  <2> QED
    BY <2>1, <2>2, <2>3, <2>4, NoAim, AimedOne, WatchedKept
<1>8. ASSUME NEW t \in Slots, RunStop(t) PROVE Watched'
  <2>1. UNCHANGED <<live, activeJobs, swaps>>
    BY <1>8 DEF RunStop
  <2>2. PICK S, d : /\ S \in IF Read(t).frozen THEN {Read(t).stop} ELSE Selected(Read(t))
                    /\ Sets(t, d) /\ d.frozen /\ d.stop = S /\ d.job = task[t].job
    BY <1>8, RunStopSets
  <2>3. /\ Alike(task[t], Read(t)) /\ Read(t).seen = IF task[t].claimed THEN task[t].seen ELSE activeJobs
        /\ step = "idle"
    BY <1>8, RunStopSets
  <2>4. Posting = {}
    BY <2>3, PostingIdle
  <2>5. Hit(task[t].job)
    BY DEF Hit
  <2>6. Aimed(task[t], live) /\ (task[t].job \in live => task[t].job \in activeJobs)
    BY <2>5 DEF Watched
  <2>7. task[t].job \in live => task[t].job # NoTarget
    BY RescaleConstants DEF RescaleTyped, RescaleTypeOK
  <2>8. task[t].job \in live => task[t].job \in S
    <3> SUFFICES ASSUME task[t].job \in live PROVE task[t].job \in S
      OBVIOUS
    <3>1. CASE Read(t).frozen
      BY <2>2, <2>3, <2>6, <3>1 DEF Aimed, Alike
    <3>2. CASE ~Read(t).frozen
      <4>1. S = Read(t).seen \cap {task[t].job}
        BY <2>2, <2>3, <2>7, <3>2 DEF Selected, Alike
      <4>2. task[t].job \in Read(t).seen
        BY <2>3, <2>6, <3>2 DEF Aimed, Alike
      <4> QED
        BY <4>1, <4>2
    <3> QED
      BY <3>1, <3>2
  <2>9. Aimed(d, live)
    BY <2>2, <2>8 DEF Aimed
  <2> QED
    BY <2>1, <2>2, <2>4, <2>5, <2>9, AimedOne, WatchedKept
<1>9. ASSUME NEW t \in Slots, Drop(t) PROVE Watched'
  <2>1. UNCHANGED <<live, activeJobs, swaps>> /\ current = 0
    BY <1>9 DEF Drop, Takes
  <2>2. Sets(t, NoTask) /\ Aimed(NoTask, live) /\ NoTask.job = NoTarget
    BY <1>9, DropTyped, NoAim, NoTaskDoc
  <2>3. Posting = {}
    BY <2>1, AtRest, PostingIdle
  <2> QED
    BY <2>1, <2>2, <2>3, AimedOne, WatchedKept
<1>10. CASE Exit \/ Kill \/ (PostJobs /\ status = "STOPPED")
  <2>1. UNCHANGED <<activeJobs, swaps>> /\ live' \subseteq live /\ Leave /\ step # "idle" /\ step # "record"
    BY <1>10 DEF Exit, Kill, PostJobs
  <2>2. Sets(current, NoTask) /\ Aimed(NoTask, live) /\ NoTask.job = NoTarget
    BY <2>1, LeaveSets, NoAim, NoTaskDoc
  <2>3. Posting = {}
    BY <2>1, PostingIdle
  <2> QED
    BY <2>1, <2>2, <2>3, AimedOne, WatchedKept
<1>11. CASE PostJobs /\ status # "STOPPED"
  <2>1. PICK S, d : /\ S = newest + 1 .. newest + task[current].target
                    /\ live' = live \cup S /\ Sets(current, d) /\ d.posted = S /\ d.job = NoTarget
    BY <1>11, PostSets
  <2>2. UNCHANGED <<activeJobs, swaps>> /\ step' = "record" /\ current' = current /\ current \in Slots
        /\ step = "post" /\ task[current].target \in Jobs
    BY <1>11, PostSets DEF PostJobs
  <2>3. Posting = {} /\ Posting' = S
    BY <2>1, <2>2, PostingIdle DEF Posting, Sets
  <2>4. live' \subseteq activeJobs' \cup Posting'
    BY <2>1, <2>2, <2>3 DEF Watched
  <2>5. \A j \in S : j \notin Upto /\ j # NoTarget
    BY <2>1, <2>2, RescaleConstants DEF Upto, NoTarget, RescaleTyped, RescaleTypeOK
  <2>6. \A t \in Slots : task'[t] = task[t] \/ task'[t] = d
    BY <2>1 DEF Sets
  <2>7. \A t \in Slots : /\ task'[t].job \in {NoTarget} \cup Upto
                         /\ task'[t].job # NoTarget => task'[t] = task[t]
    BY <2>1, <2>6 DEF Known, Names
  <2>8. \A j \in live' : Hit(j)' => j \in live /\ Hit(j)
    <3> SUFFICES ASSUME NEW j \in live', Hit(j)' PROVE j \in live /\ Hit(j)
      OBVIOUS
    <3>0. j # NoTarget
      BY <2>1, <2>5, RescaleConstants DEF RescaleTyped, RescaleTypeOK
    <3>1. CASE \E t \in Slots : task'[t].job = j
      BY <2>1, <2>5, <2>7, <3>0, <3>1 DEF Hit
    <3>2. CASE \E s \in swaps' : j \in s.jobs
      BY <2>1, <2>2, <2>5, <3>2 DEF Hit, Known
    <3> QED
      BY <3>1, <3>2 DEF Hit
  <2>9. \A t \in Slots : Aimed(task'[t], live')
    <3> SUFFICES ASSUME NEW t \in Slots PROVE Aimed(task'[t], live')
      OBVIOUS
    <3>1. task'[t].job \in live' => task'[t].job \in live /\ task'[t] = task[t]
      BY <2>1, <2>5, <2>7, RescaleConstants DEF RescaleTyped, RescaleTypeOK
    <3>2. Aimed(task[t], live)
      BY DEF Watched
    <3> QED
      BY <3>1, <3>2 DEF Aimed
  <2>10. (\A t \in Slots : Aimed(task[t], live))'
    BY <2>9 DEF Aimed
  <2>11. \A j \in live' : Hit(j)' => j \in activeJobs'
    BY <2>2, <2>8 DEF Watched
  <2>12. \A s \in swaps' : ~s.listed => s.size = Cardinality(s.jobs)
    BY <2>2 DEF Watched
  <2> QED
    BY <2>4, <2>10, <2>11, <2>12 DEF Watched
<1>12. CASE Record
  <2>1. /\ UNCHANGED <<live, task, swaps, current>>
        /\ activeJobs' = activeJobs \cup task[current].posted /\ step = "record"
    BY <1>12 DEF Record
  <2>2. Posting \subseteq activeJobs'
    BY <2>1 DEF Posting
  <2> QED
    BY <2>1, <2>2, WatchedKept
<1>13. CASE Retry
  <2>1. UNCHANGED <<live, activeJobs, swaps>> /\ step # "record"
    BY <1>13 DEF Retry
  <2>2. PICK d : Sets(current, d) /\ Alike(task[current], d) /\ ~d.claimed
    BY <1>13, RetryTyped
  <2>3. current \in Slots
    BY <1>13, RetryTyped
  <2>4. Posting = {} /\ Hit(d.job) /\ d.job = task[current].job
    BY <2>1, <2>2, <2>3, PostingIdle DEF Hit, Alike
  <2>5. Aimed(d, live)
    BY <2>2, <2>3 DEF Watched, Aimed, Alike
  <2> QED
    BY <2>1, <2>2, <2>4, <2>5, AimedOne, WatchedKept
<1>14. ASSUME NEW j \in Jobs, Forget(j) PROVE Watched'
  <2>1. UNCHANGED <<live, activeJobs, swaps, current, step>>
    BY <1>14 DEF Forget
  <2>2. \A t \in Slots : task'[t] = task[t] \/ (task'[t] = NoTask /\ t # current)
    BY <1>14 DEF Forget
  <2>3. Posting' = Posting
    BY <2>1, <2>2 DEF Posting, RescaleTyped, RescaleTypeOK, Shaped, InRun
  <2>4. Aimed(NoTask, live) /\ NoTask.job = NoTarget
    BY NoAim, NoTaskDoc
  <2> QED
    BY <2>1, <2>2, <2>3, <2>4, WatchedKept
<1> QED
  BY <1>1, <1>2, <1>3, <1>4, <1>5, <1>6, <1>7, <1>8, <1>9, <1>10, <1>11, <1>12, <1>13, <1>14
     DEF RescaleNext, Callbacks, Handle, Work, Settle

-----------------------------------------------------------------------------
(* Callbacks that do not overlap: one LIST, and a plain one or a trim alone. *)

Plain(t) == task[t].kind = "LIST" /\ task[t].reason = "none"
Calm == status = "RUNNING" /\ ~overlapped

Orderly == Calm =>
  /\ \A t, u \in Lists : t = u
  /\ \A t \in Slots : Plain(t) \/ t \in Trims => Stored = {t} /\ swaps = {}
  /\ \A t \in Lists : task[t].limit = Unset /\ task[t].target = Unset => live = {} /\ activeJobs = {}

(* The tasks of the next state, by their kinds. *)
LEMMA KindsAfter ==
  ASSUME RescaleTyped'
  PROVE  /\ \A t \in Slots : t \in Stored' <=> task'[t].kind # "none"
         /\ \A t \in Slots : t \in Lists' <=> task'[t].kind = "LIST"
         /\ \A t \in Slots : t \in Trims' <=> task'[t].kind = "STOP" /\ task'[t].job = NoTarget
         /\ Stored' \subseteq Slots /\ Lists' \subseteq Stored' /\ Trims' \subseteq Stored'
<1>1. \A t \in Slots : task'[t] \in TaskDocs /\ (task'[t].kind = "none" => task'[t] = NoTask)
  BY DEF RescaleTyped, RescaleTypeOK, Shaped, WellFormed, TaskDocs
<1>2. \A t \in Slots : t \in Stored' <=> task'[t].kind # "none"
  BY <1>1, NoTaskDoc DEF Stored
<1> QED
  BY <1>1, <1>2 DEF Lists, Trims, Stored

(* A task that goes on for what it was queued for.                          *)
Onward(d, c) == /\ c.kind = d.kind /\ c.limit = d.limit /\ c.job = d.job /\ c.reason = d.reason
                /\ c.target = Unset => d.target = Unset

LEMMA OnwardOne ==
  ASSUME NEW x, NEW d, Sets(x, d), d = NoTask \/ Onward(task[x], d)
  PROVE  \A t \in Slots : task'[t] = NoTask \/ Onward(task[t], task'[t])
BY DEF Sets, Onward

LEMMA OrderlyKept ==
  ASSUME RescaleTyped, RescaleTyped', Orderly, Calm' => Calm, swaps = {} => swaps' = {},
         \A t \in Slots : task'[t] = NoTask \/ Onward(task[t], task'[t]),
         \/ live' \subseteq live /\ activeJobs' \subseteq activeJobs
         \/ \E t \in Lists : task[t].limit # Unset \/ task[t].target # Unset
  PROVE  Orderly'
<1> SUFFICES ASSUME Calm'
             PROVE  (/\ \A t, u \in Lists : t = u
                     /\ \A t \in Slots : Plain(t) \/ t \in Trims => Stored = {t} /\ swaps = {}
                     /\ \A t \in Lists : task[t].limit = Unset /\ task[t].target = Unset =>
                          live = {} /\ activeJobs = {})'
  BY DEF Orderly
<1>1. /\ \A t, u \in Lists : t = u
      /\ \A t \in Slots : Plain(t) \/ t \in Trims => Stored = {t} /\ swaps = {}
      /\ \A t \in Lists : task[t].limit = Unset /\ task[t].target = Unset => live = {} /\ activeJobs = {}
  BY DEF Orderly
<1>2. \A t \in Slots : /\ t \in Stored' => t \in Stored
                       /\ t \in Lists' => t \in Lists
                       /\ t \in Trims' => t \in Trims
                       /\ Plain(t)' => Plain(t)
  BY Kinds, KindsAfter, NoTaskDoc DEF Onward, Plain
<1>3. Stored' \subseteq Slots /\ Lists' \subseteq Slots /\ Trims' \subseteq Stored'
  BY KindsAfter
<1>4. (\A t, u \in Lists : t = u)'
  BY <1>1, <1>2, <1>3
<1>5. ASSUME NEW t \in Slots, Plain(t)' \/ t \in Trims' PROVE Stored' = {t} /\ swaps' = {}
  <2>1. Stored = {t} /\ swaps = {}
    BY <1>1, <1>2, <1>5
  <2>2. t \in Stored'
    BY <1>3, <1>5, KindsAfter DEF Plain
  <2> QED
    BY <1>2, <1>3, <2>1, <2>2
<1>6. ASSUME NEW t \in Lists', task'[t].limit = Unset, task'[t].target = Unset
      PROVE live' = {} /\ activeJobs' = {}
  <2>1. t \in Lists /\ t \in Slots /\ task'[t] # NoTask
    BY <1>2, <1>3, <1>6, KindsAfter, NoTaskDoc
  <2>2. task[t].limit = Unset /\ task[t].target = Unset
    BY <1>6, <2>1 DEF Onward
  <2>3. live = {} /\ activeJobs = {}
    BY <1>1, <2>1, <2>2
  <2>4. ~\E u \in Lists : task[u].limit # Unset \/ task[u].target # Unset
    BY <1>1, <2>1, <2>2
  <2> QED
    BY <2>3, <2>4
<1> QED
  BY <1>4, <1>5, <1>6

LEMMA CalmKept == ASSUME [RescaleNext]_rescaleVars PROVE Calm' => Calm
BY DEF doc, events, queue, chain, bounds, hist, Calm, RescaleNext, rescaleVars, EditReplicas, EditMarket,
       Callbacks, Resize, Move, MoveLists, MoveStops, Claim, Handle, Drop, RunList, RunStop, Work, PostJobs,
       Record, Exit, Kill, Retry, EndJob, Observe, Settle, Forget, CountLists, MarkStopped, Leave

LEMMA RescaleInitOrderly == RescaleInit => Orderly
<1> SUFFICES ASSUME RescaleInit PROVE Orderly
  OBVIOUS
<1>1. NewList(Unset, "none") \in TaskDocs /\ Fresh(NewList(Unset, "none"))
      /\ NewList(Unset, "none").kind = "LIST"
  BY ListDoc, RescaleConstants DEF Fresh
<1>2. \A t \in Slots : t \in Stored <=> t = 1
  BY <1>1, NoTaskDoc DEF RescaleInit, Stored
<1>3. Stored \subseteq {1} /\ Lists \subseteq {1} /\ Trims \subseteq {1}
  BY <1>2 DEF Stored, Lists, Trims
<1>4. \A t \in Slots : Plain(t) \/ t \in Trims => t = 1
  BY <1>2, <1>3, NoTaskDoc DEF Plain, Stored
<1>5. \A t \in Slots : Plain(t) \/ t \in Trims => Stored = {t}
  BY <1>2, <1>3, <1>4
<1> QED
  BY <1>3, <1>5 DEF Orderly, RescaleInit

(* The LIST a run is at, while it posts.  *)
LEMMA ListRuns ==
  ASSUME RescaleTyped, step \in {"post", "record", "exit"}
  PROVE  current \in Lists /\ current \in Slots /\ task[current].target # Unset
<1>1. current \in Slots /\ task[current].kind = "LIST" /\ task[current].claimed /\ WellFormed(task[current])
  BY DEF RescaleTyped, RescaleTypeOK, Shaped, InRun
<1> QED
  BY <1>1, Kinds DEF WellFormed

LEMMA OrderlyStep ==
  ASSUME RescaleTyped, RescaleTyped', Orderly, [RescaleNext]_rescaleVars PROVE Orderly'
<1> USE DEF doc, events, queue, chain, bounds, hist
<1>0. Calm' => Calm
  BY CalmKept
<1>1. CASE \/ UNCHANGED rescaleVars \/ EditReplicas \/ EditMarket
           \/ \E j \in Jobs : EndJob(j) \/ Observe(j) \/ Settle(j)
  <2>1. UNCHANGED swaps /\ live' \subseteq live /\ activeJobs' \subseteq activeJobs
    BY <1>1 DEF rescaleVars, EditReplicas, EditMarket, EndJob, Observe, Settle, Forget, CountLists, MarkStopped
  <2>2. \A t \in Slots : task'[t] = task[t] \/ task'[t] = NoTask
    BY <1>1 DEF rescaleVars, EditReplicas, EditMarket, EndJob, Observe, Settle, Forget, CountLists, MarkStopped
  <2>3. \A t \in Slots : task'[t] = NoTask \/ Onward(task[t], task'[t])
    BY <2>2 DEF Onward
  <2> QED
    BY <1>0, <2>1, <2>3, OrderlyKept
<1>2. CASE Resize
  <2>1. UNCHANGED <<live, activeJobs, swaps>> /\ (Calm' => Settled)
    BY <1>2 DEF Resize, Calm
  <2>2. CASE UNCHANGED task
    <3>1. \A t \in Slots : task'[t] = NoTask \/ Onward(task[t], task'[t])
      BY <2>2 DEF Onward
    <3> QED
      BY <1>0, <2>1, <3>1, OrderlyKept
  <2>3. ASSUME NEW d, Fresh(d), Insert(d), Sized(d), Calm' PROVE Orderly'
    <3>1. PICK x \in Slots : Sets(x, d)
      BY <2>3, Inserted DEF RescaleTyped, Fresh
    <3>2. Stored = {} /\ swaps' = {}
      BY <2>1, <2>3 DEF Settled
    <3>3. \A t \in Slots \ {x} : task'[t] = NoTask
      BY <3>1, <3>2 DEF Sets, Stored
    <3>4. task'[x] = d /\ d.kind # "none" /\ d # NoTask
      BY <2>3, <3>1, NoTaskDoc DEF Sets, Fresh
    <3>5. Stored' = {x} /\ Lists' \subseteq {x} /\ Trims' \subseteq {x}
      BY <3>1, <3>3, <3>4 DEF Stored, Lists, Trims
    <3>6. \A t \in Slots : Plain(t)' \/ t \in Trims' => t = x
      BY <3>3, <3>5, NoTaskDoc DEF Plain
    <3>7. d.kind = "LIST" => d.limit # Unset
      <4>1. replicas \in 1..MaxReplicas /\ Cardinality(activeJobs) \in 0..MaxJobs
        BY CountTyped DEF RescaleTyped, RescaleTypeOK
      <4>2. replicas - Cardinality(activeJobs) # Unset
        BY <4>1, RescaleConstants
      <4> QED
        BY <2>3, <4>2 DEF Sized
    <3>8. \A t \in Lists' : task'[t].limit # Unset
      BY <3>4, <3>5, <3>7, KindsAfter
    <3> QED
      BY <3>2, <3>5, <3>6, <3>8 DEF Orderly
  <2>4. ~Calm' => Orderly'
    BY DEF Orderly
  <2> QED
    BY <1>2, <2>2, <2>3, <2>4, ResizeSets DEF RescaleTyped
<1>3. CASE Move
  <2>1. UNCHANGED <<live, activeJobs, task>>
    BY <1>3 DEF Move
  <2>2. \A t \in Slots : task'[t] = NoTask \/ Onward(task[t], task'[t])
    BY <2>1 DEF Onward
  <2>3. CASE UNCHANGED swaps
    BY <1>0, <2>1, <2>2, <2>3, OrderlyKept
  <2>4. CASE swaps' # swaps
    <3>1. Calm' => Alone(Cardinality(Displaced))
      BY <1>3, <2>4 DEF Move, Calm
    <3>2. Replacements(Cardinality(Displaced)).reason = "market"
      BY NoTaskDoc DEF Replacements, NewList, NoTask
    <3>3. Calm' => Trims = {} /\ \A t \in Lists : task[t].reason = "market"
      BY <3>1, <3>2 DEF Alone, Queued
    <3>4. Calm' => \A t \in Slots : ~(Plain(t) \/ t \in Trims)
      BY <3>3, Kinds DEF Plain
    <3>5. Stored' = Stored /\ Lists' = Lists /\ Trims' = Trims /\ \A t \in Slots : Plain(t)' = Plain(t)
      BY <2>1 DEF Stored, Lists, Trims, Plain
    <3> QED
      BY <1>0, <2>1, <3>4, <3>5 DEF Orderly
  <2> QED
    BY <2>3, <2>4
<1>4. ASSUME NEW s \in swaps, MoveLists(s) PROVE Orderly'
  <2>1. UNCHANGED <<live, activeJobs>> /\ (Calm' => Alone(s.size))
    BY <1>4 DEF MoveLists, Calm
  <2>2. CASE UNCHANGED task
    <3>1. \A t \in Slots : task'[t] = NoTask \/ Onward(task[t], task'[t])
      BY <2>2 DEF Onward
    <3> QED
      BY <1>0, <2>1, <3>1, OrderlyKept
  <2>3. ASSUME NEW d, Fresh(d), Insert(d), Queued(Replacements(s.size)) = {}, Calm',
               d.kind = "LIST", d.reason = "market", d.limit = s.size, d.job = NoTarget
        PROVE Orderly'
    <3>1. PICK x \in Slots : Sets(x, d) /\ task[x] = NoTask
      BY <2>3, Inserted DEF RescaleTyped, Fresh
    <3>2. Lists = {} /\ Trims = {}
      BY <2>1, <2>3 DEF Alone
    <3>3. \A t \in Slots : t # x => task'[t] = task[t]
      BY <3>1 DEF Sets
    <3>4. task'[x] = d
      BY <3>1 DEF Sets
    <3>5. \A t \in Slots : t \in Lists' => t = x
      BY <3>2, <3>3, Kinds, KindsAfter
    <3>6. \A t \in Slots : ~Plain(t)' /\ t \notin Trims'
      BY <2>3, <3>2, <3>3, <3>4, Kinds, KindsAfter DEF Plain
    <3>7. s.size # Unset
      BY RescaleConstants DEF RescaleTyped, RescaleTypeOK
    <3>8. Lists' \subseteq Slots
      BY KindsAfter
    <3> QED
      BY <2>3, <3>4, <3>5, <3>6, <3>7, <3>8 DEF Orderly
  <2>4. ~Calm' => Orderly'
    BY DEF Orderly
  <2> QED
    BY <1>4, <2>2, <2>3, <2>4, MoveListsSets
<1>5. ASSUME NEW s \in swaps, MoveStops(s) PROVE Orderly'
  <2>1. UNCHANGED <<live, activeJobs>>
    BY <1>5 DEF MoveStops
  <2>2. PICK d : Fresh(d) /\ Insert(d) /\ d.kind = "STOP" /\ d.job \in Jobs
    BY <1>5, MoveStopsSets
  <2>3. PICK x \in Slots : Sets(x, d) /\ task[x] = NoTask
    BY <2>2, Inserted DEF RescaleTyped, Fresh
  <2>4. \A t \in Slots : t # x => task'[t] = task[t]
    BY <2>3 DEF Sets
  <2>5. task'[x] = d /\ d.job # NoTarget
    BY <2>2, <2>3, RescaleConstants DEF Sets
  <2>6. \A t \in Slots : (t \in Lists' <=> t \in Lists) /\ (t \in Lists => task'[t] = task[t])
    BY <2>2, <2>3, <2>4, <2>5, Kinds, KindsAfter, NoTaskDoc
  <2>7. Lists' = Lists
    BY <2>6, Kinds, KindsAfter
  <2>8. Calm => \A t \in Slots : ~Plain(t) /\ t \notin Trims
    BY DEF Orderly
  <2>9. Calm => \A t \in Slots : ~Plain(t)' /\ t \notin Trims'
    BY <2>2, <2>4, <2>5, <2>8, Kinds, KindsAfter DEF Plain
  <2>10. Calm => \A t \in Lists' : task'[t] = task[t]
    BY <2>6, <2>7, Kinds
  <2> QED
    BY <1>0, <2>1, <2>7, <2>9, <2>10 DEF Orderly
<1>6. ASSUME NEW t \in Slots, Claim(t) PROVE Orderly'
  <2>1. UNCHANGED <<live, activeJobs, swaps>>
    BY <1>6 DEF Claim
  <2>2. Sets(t, Claimed(t)) /\ WellFormed(Claimed(t)) /\ Alike(task[t], Claimed(t))
        /\ task[t].kind \in {"STOP", "LIST"} /\ Claimed(t).claimed
    BY <1>6, ClaimSets, ClaimedDoc, Kinds DEF TaskDocs
  <2>3. Onward(task[t], Claimed(t))
    <3>1. CASE task[t].kind = "LIST"
      BY <2>2, <3>1 DEF Alike, Onward, WellFormed
    <3>2. CASE task[t].kind = "STOP"
      <4>1. t \in Stored /\ Claimed(t) = [task[t] EXCEPT !.claimed = TRUE, !.seen = activeJobs]
        BY <1>6, <3>2 DEF Claim, Claimed
      <4>2. task[t] \in TaskDocs
        BY Kinds
      <4>3. Claimed(t).target = task[t].target
        BY <4>1, <4>2 DEF TaskDocs
      <4> QED
        BY <2>2, <4>3 DEF Alike, Onward
    <3> QED
      BY <2>2, <3>1, <3>2
  <2> QED
    BY <1>0, <2>1, <2>2, <2>3, OnwardOne, OrderlyKept
<1>7. ASSUME NEW t \in Slots, RunList(t) PROVE Orderly'
  <2>1. UNCHANGED <<live, activeJobs, swaps>>
    BY <1>7 DEF RunList
  <2>2. Sets(t, Read(t)) /\ WellFormed(Read(t)) /\ Read(t).kind = "LIST" /\ Alike(task[t], Read(t))
        /\ Read(t).claimed
    BY <1>7, RunListSets
  <2>3. Onward(task[t], Read(t))
    BY <2>2 DEF Alike, Onward, WellFormed
  <2> QED
    BY <1>0, <2>1, <2>2, <2>3, OnwardOne, OrderlyKept
<1>8. ASSUME NEW t \in Slots, RunStop(t) PROVE Orderly'
  <2>1. UNCHANGED <<live, activeJobs, swaps>>
    BY <1>8 DEF RunStop
  <2>2. PICK d : /\ Sets(t, d) /\ d.kind = "STOP" /\ d.job = task[t].job /\ d.limit = task[t].limit
                 /\ d.reason = task[t].reason /\ d.target = Read(t).target
    BY <1>8, RunStopSets
  <2>3. task[t].kind = "STOP" /\ t \in Stored
    BY <1>8, RunStopSets
  <2>4. Read(t).target = task[t].target
    BY <2>3, Kinds DEF Read, Claimed, TaskDocs
  <2>5. Onward(task[t], d)
    BY <2>2, <2>3, <2>4 DEF Onward
  <2> QED
    BY <1>0, <2>1, <2>2, <2>5, OnwardOne, OrderlyKept
<1>9. ASSUME NEW t \in Slots, Drop(t) PROVE Orderly'
  <2>1. UNCHANGED <<live, activeJobs, swaps>> /\ Sets(t, NoTask)
    BY <1>9, DropTyped DEF Drop
  <2> QED
    BY <1>0, <2>1, OnwardOne, OrderlyKept
<1>10. CASE Exit \/ Kill \/ (PostJobs /\ status = "STOPPED")
  <2>1. UNCHANGED <<activeJobs, swaps>> /\ live' \subseteq live /\ Leave /\ step # "idle"
    BY <1>10 DEF Exit, Kill, PostJobs
  <2>2. Sets(current, NoTask)
    BY <2>1, LeaveSets
  <2> QED
    BY <1>0, <2>1, <2>2, OnwardOne, OrderlyKept
<1>11. CASE PostJobs /\ status # "STOPPED"
  <2>1. UNCHANGED swaps /\ step = "post"
    BY <1>11 DEF PostJobs
  <2>2. PICK d : /\ Sets(current, d) /\ d.kind = "LIST" /\ d.job = NoTarget
                 /\ d.reason = task[current].reason /\ d.limit = task[current].limit
                 /\ d.target = task[current].target
    BY <1>11, PostSets
  <2>3. current \in Lists /\ current \in Slots /\ task[current].target # Unset
    BY <2>1, ListRuns
  <2>4. task[current].kind = "LIST" /\ task[current].job = NoTarget
    BY <2>3, Kinds DEF RescaleTyped, Shaped, WellFormed
  <2>5. Onward(task[current], d)
    BY <2>2, <2>4 DEF Onward
  <2> QED
    BY <1>0, <2>1, <2>2, <2>3, <2>5, OnwardOne, OrderlyKept
<1>12. CASE Record
  <2>1. UNCHANGED <<live, task, swaps>> /\ step = "record"
    BY <1>12 DEF Record
  <2>2. current \in Lists /\ task[current].target # Unset
    BY <2>1, ListRuns
  <2>3. \A t \in Slots : Onward(task[t], task'[t])
    BY <2>1 DEF Onward
  <2> QED
    BY <1>0, <2>1, <2>2, <2>3, OrderlyKept
<1>13. CASE Retry
  <2>1. UNCHANGED <<live, activeJobs, swaps>>
    BY <1>13 DEF Retry
  <2>2. PICK d : Sets(current, d) /\ Alike(task[current], d) /\ d.target = task[current].target
    BY <1>13, RetryTyped
  <2>3. Onward(task[current], d)
    BY <2>2 DEF Onward, Alike
  <2> QED
    BY <1>0, <2>1, <2>2, <2>3, OnwardOne, OrderlyKept
<1> QED
  BY <1>1, <1>2, <1>3, <1>4, <1>5, <1>6, <1>7, <1>8, <1>9, <1>10, <1>11, <1>12, <1>13
     DEF RescaleNext, Callbacks, Handle, Work

-----------------------------------------------------------------------------
(* The books: the jobs that nothing is about to stop, with what is about to  *)
(* be listed, make up the replicas.                                         *)

Doomed == {j \in Jobs : \/ \E t \in Slots : task[t].job = j \/ j \in task[t].stop
                        \/ \E s \in swaps : s.listed /\ j \in s.jobs}
Staying == live \ Doomed
Uncut == {t \in Trims : ~task[t].frozen}

Kept == /\ Cardinality(Staying) + Coming <= replicas
        /\ ~borrowed => Cardinality(Staying) + Coming + ended >= replicas
ToTrim(t) == /\ ~task[t].claimed
             /\ Cardinality(activeJobs) <= replicas + task[t].limit
             /\ ~borrowed => Cardinality(live) + ended >= replicas + task[t].limit

Balanced == Calm /\ resizes = 0 =>
  /\ Uncut = {} => Kept
  /\ \A t \in Uncut : ToTrim(t)

LEMMA Counts ==
  ASSUME NEW S \in SUBSET Jobs, NEW T \in SUBSET Jobs
  PROVE  /\ Cardinality(S) \in Nat /\ Cardinality(T) \in Nat /\ Cardinality(S \ T) \in Nat
         /\ Cardinality(S \ T) + Cardinality(T) >= Cardinality(S)
         /\ Cardinality(S \ T) <= Cardinality(S)
         /\ T \subseteq S => Cardinality(S \ T) + Cardinality(T) = Cardinality(S)
         /\ S \subseteq T => Cardinality(S) <= Cardinality(T)
         /\ S \cap T = {} => Cardinality(S \cup T) = Cardinality(S) + Cardinality(T)
<1>0. IsFiniteSet(Jobs)
  BY FS_Interval, RescaleConstants DEF Jobs
<1>1. IsFiniteSet(S) /\ IsFiniteSet(T)
  BY <1>0, FS_Subset
<1>2. /\ Cardinality(S) \in Nat /\ Cardinality(T) \in Nat
      /\ IsFiniteSet(S \ T) /\ Cardinality(S \ T) = Cardinality(S) - Cardinality(S \cap T)
  BY <1>1, FS_Difference, FS_CardinalityType
<1>3. Cardinality(S \ T) \in Nat /\ IsFiniteSet(S \cap T)
  BY <1>1, <1>2, FS_CardinalityType, FS_Intersection
<1>4. Cardinality(S \cap T) \in Nat /\ Cardinality(S \cap T) <= Cardinality(T)
  BY <1>1, <1>3, FS_CardinalityType, FS_Intersection
<1>5. T \subseteq S => S \cap T = T
  OBVIOUS
<1>6. S \subseteq T => Cardinality(S) <= Cardinality(T)
  BY <1>1, FS_Subset
<1>7. S \cap T = {} => Cardinality(S \cup T) = Cardinality(S) + Cardinality(T)
  <2>1. Cardinality(S \cup T) = Cardinality(S) + Cardinality(T) - Cardinality(S \cap T)
    BY <1>1, FS_Union
  <2>2. S \cap T = {} => Cardinality(S \cap T) = 0
    BY FS_EmptySet
  <2> QED
    BY <1>2, <2>1, <2>2
<1>8. T \subseteq S => Cardinality(S \ T) + Cardinality(T) = Cardinality(S)
  <2>1. T \subseteq S => Cardinality(S \cap T) = Cardinality(T)
    BY <1>5
  <2> QED
    BY <1>2, <1>4, <2>1
<1>9. Cardinality(S \ T) + Cardinality(T) >= Cardinality(S) /\ Cardinality(S \ T) <= Cardinality(S)
  BY <1>2, <1>4
<1> QED
  BY <1>2, <1>3, <1>6, <1>7, <1>8, <1>9

(* What a LIST still has to post.                                           *)
Due(d, r) == IF d.posted # {} THEN 0
             ELSE IF d.target # Unset THEN d.target
             ELSE IF d.limit # Unset THEN d.limit ELSE r
OneList == \A t, u \in Lists : t = u
Summed == /\ Lists = {} => Coming = 0
          /\ \A t \in Lists : Coming = Due(task[t], replicas)
          /\ Coming \in Nat

LEMMA ComingIs == RescaleTyped /\ OneList => Summed
<1> SUFFICES ASSUME RescaleTyped, OneList PROVE Summed
  OBVIOUS
<1> DEFINE f == [t \in Slots |-> Ahead(task[t])]
<1>1. Lists \subseteq Slots /\ Coming = SumFunctionOnSet(f, Lists)
  BY Kinds DEF Coming
<1>2. \A t \in Slots : f[t] = Due(task[t], replicas)
  BY DEF Ahead, Due
<1>3. \A t \in Slots : Due(task[t], replicas) \in Nat
  <2> SUFFICES ASSUME NEW t \in Slots PROVE Due(task[t], replicas) \in Nat
    OBVIOUS
  <2>1. task[t].target \in Nat /\ task[t].limit \in Nat /\ replicas \in Nat
    BY RescaleConstants DEF RescaleTyped, RescaleTypeOK
  <2> QED
    BY <2>1 DEF Due
<1> HIDE DEF f
<1>4. CASE Lists = {}
  <2>1. SumFunctionOnSet(f, {}) = 0
    <3>1. 1 \in Slots
      BY RescaleConstants DEF Slots
    <3>2. f[1] \in Int
      BY <1>2, <1>3, <3>1
    <3> QED
      BY <3>2, SumOverOne
  <2> QED
    BY <1>1, <1>4, <2>1 DEF Summed
<1>5. CASE Lists # {}
  <2>1. PICK t \in Lists : TRUE
    BY <1>5
  <2>2. Lists = {t} /\ t \in Slots
    BY <1>1, <2>1 DEF OneList
  <2>3. f[t] \in Int
    BY <1>2, <1>3, <2>2
  <2>4. SumFunctionOnSet(f, {t}) = f[t]
    BY <2>3, SumOverOne
  <2>5. Coming = Due(task[t], replicas)
    BY <1>1, <1>2, <2>2, <2>4
  <2> QED
    BY <1>3, <1>5, <2>2, <2>5 DEF Summed
<1> QED
  BY <1>4, <1>5

LEMMA ComingAfter == RescaleTyped' /\ OneList' => Summed'
<1>1. RescaleTyped /\ OneList => Summed
  BY ComingIs
<1> QED
  BY <1>1, PTL

LEMMA ComingKept ==
  ASSUME RescaleTyped, RescaleTyped', OneList, OneList', replicas' = replicas,
         \A t \in Slots : /\ task'[t].kind = "LIST" <=> task[t].kind = "LIST"
                          /\ task[t].kind = "LIST" => Due(task'[t], replicas) = Due(task[t], replicas)
  PROVE  Coming' = Coming /\ Lists' = Lists
<1>1. Lists' = Lists /\ Lists \subseteq Slots
  BY Kinds, KindsAfter
<1>2. Summed /\ Summed'
  BY ComingIs, ComingAfter
<1>3. CASE Lists = {}
  BY <1>1, <1>2, <1>3 DEF Summed
<1>4. CASE Lists # {}
  <2>1. PICK t \in Lists : t \in Slots /\ task[t].kind = "LIST"
    BY <1>1, <1>4, Kinds
  <2>2. Coming = Due(task[t], replicas)
    BY <1>2, <2>1 DEF Summed
  <2>3. Coming' = Due(task'[t], replicas')
    BY <1>1, <1>2, <2>1 DEF Summed, Due
  <2> QED
    BY <1>1, <2>1, <2>2, <2>3
<1> QED
  BY <1>3, <1>4

(* An uncut trim stands alone.                                              *)
LEMMA NoUncut ==
  ASSUME RescaleTyped, Orderly, Calm, NEW t \in Stored, t \notin Uncut
  PROVE  Uncut = {}
BY Kinds DEF Orderly, Uncut

LEMMA CurrentCut ==
  ASSUME RescaleTyped, step # "idle"
  PROVE  current \in Stored /\ current \notin Uncut /\ current \in Slots
<1>1. current \in Slots
  BY DEF RescaleTyped, RescaleTypeOK, Shaped, InRun
<1>2. task[current].kind = "LIST" \/ (task[current].kind = "STOP" /\ task[current].frozen)
  BY DEF RescaleTyped, RescaleTypeOK, Shaped, InRun
<1> QED
  BY <1>1, <1>2, Kinds DEF Uncut

LEMMA UncutAfter ==
  ASSUME RescaleTyped, RescaleTyped',
         \A t \in Slots : \/ task'[t] = NoTask
                          \/ /\ task'[t].kind = task[t].kind /\ task'[t].job = task[t].job
                             /\ task[t].frozen => task'[t].frozen
  PROVE  Uncut' \subseteq Uncut
<1>1. \A t \in Uncut' : t \in Slots /\ task'[t].kind = "STOP" /\ task'[t].job = NoTarget /\ ~task'[t].frozen
  BY KindsAfter DEF Uncut
<1> QED
  BY <1>1, Kinds, NoTaskDoc DEF Uncut

LEMMA BalanceKept ==
  ASSUME RescaleTyped, RescaleTyped',
         Balanced, Calm, resizes = 0, borrowed => borrowed', replicas' = replicas, ended' = ended,
         Coming' = Coming, Staying' = Staying,
         \/ Uncut = {} /\ Uncut' = {}
         \/ /\ live' = live /\ activeJobs' \subseteq activeJobs /\ Uncut' = Uncut
            /\ \A t \in Uncut : task'[t] = task[t]
  PROVE  Balanced'
<1>1. CASE Uncut = {} /\ Uncut' = {}
  <2>1. Kept
    BY <1>1 DEF Balanced
  <2>2. Kept'
    BY <2>1 DEF Kept
  <2> QED
    BY <1>1, <2>2 DEF Balanced
<1>2. CASE /\ live' = live /\ activeJobs' \subseteq activeJobs /\ Uncut' = Uncut
           /\ \A t \in Uncut : task'[t] = task[t]
  <2>1. (Uncut = {} => Kept) /\ \A t \in Uncut : ToTrim(t)
    BY DEF Balanced
  <2>2. Uncut' = {} => Kept'
    BY <1>2, <2>1 DEF Kept
  <2>3. \A t \in Uncut' : ToTrim(t)'
    <3> SUFFICES ASSUME NEW t \in Uncut' PROVE ToTrim(t)'
      OBVIOUS
    <3>1. t \in Uncut /\ task'[t] = task[t] /\ ToTrim(t)
      BY <1>2, <2>1
    <3>2. activeJobs \in SUBSET Jobs /\ activeJobs' \in SUBSET Jobs
      BY DEF RescaleTyped, RescaleTypeOK
    <3>3. /\ Cardinality(activeJobs') <= Cardinality(activeJobs)
          /\ Cardinality(activeJobs) \in Nat /\ Cardinality(activeJobs') \in Nat
      BY <1>2, <3>2, Counts
    <3>4. task[t].limit \in Nat /\ replicas \in Nat
      <4>1. t \in Slots
        BY <3>1, Kinds DEF Uncut
      <4> QED
        BY <4>1, RescaleConstants DEF RescaleTyped, RescaleTypeOK
    <3>5. Cardinality(activeJobs') <= replicas + task[t].limit
      BY <3>1, <3>3, <3>4 DEF ToTrim
    <3> QED
      BY <1>2, <3>1, <3>5 DEF ToTrim
  <2> QED
    BY <2>2, <2>3 DEF Balanced
<1> QED
  BY <1>1, <1>2

LEMMA DoomedKept ==
  ASSUME \A t \in Slots : task'[t].job = task[t].job /\ task'[t].stop = task[t].stop,
         UNCHANGED swaps
  PROVE  Doomed' = Doomed
BY DEF Doomed

LEMMA RescaleInitBalanced == RescaleInit => Balanced
<1> SUFFICES ASSUME RescaleInit PROVE Balanced
  OBVIOUS
<1>0. RescaleTyped
  BY RescaleInitTyped
<1> DEFINE d == NewList(Unset, "none")
<1>1. Fresh(d) /\ d.kind = "LIST" /\ d.limit = Unset
  BY ListDoc, RescaleConstants DEF Fresh
<1> HIDE DEF d
<1>2. task[1] = d /\ 1 \in Slots /\ \A t \in Slots : t # 1 => task[t] = NoTask
  BY RescaleConstants DEF RescaleInit, Slots, d
<1>3. Lists = {1} /\ Uncut = {}
  BY <1>0, <1>1, <1>2, Kinds, NoTaskDoc DEF Uncut
<1>4. Coming = Due(d, replicas)
  BY <1>0, <1>2, <1>3, ComingIs DEF Summed, OneList
<1>5. Coming = replicas
  BY <1>1, <1>4 DEF Due, Fresh
<1>6. live = {} /\ ended = 0 /\ replicas \in Nat
  BY RescaleConstants DEF RescaleInit
<1>7. Cardinality(Staying) = 0
  BY <1>6, FS_EmptySet DEF Staying
<1>8. Kept
  BY <1>5, <1>6, <1>7 DEF Kept
<1> QED
  BY <1>3, <1>8 DEF Balanced

(* Steps that change no task, no swap and no replicas.                      *)
LEMMA UntouchedBooks ==
  ASSUME UNCHANGED <<task, replicas, swaps>>
  PROVE  Coming' = Coming /\ Uncut' = Uncut /\ Doomed' = Doomed /\ Stored' = Stored /\ Lists' = Lists
<1>1. Stored' = Stored
  BY DEF Stored
<1>2. Lists' = Lists /\ Trims' = Trims
  BY <1>1 DEF Lists, Trims
<1>3. Coming' = Coming
  BY <1>2 DEF Coming, Ahead
<1> QED
  BY <1>1, <1>2, <1>3 DEF Uncut, Doomed

LEMMA JobsBalanced ==
  ASSUME RescaleTyped, RescaleTyped', Orderly, Balanced, Calm, Calm', resizes' = 0,
         \/ UNCHANGED rescaleVars \/ EditReplicas \/ EditMarket
         \/ \E j \in Jobs : EndJob(j) \/ Observe(j) \/ CountLists(j) \/ MarkStopped(j)
  PROVE  Balanced'
<1> USE DEF doc, events, queue, chain, bounds, hist
<1>1. CASE EditReplicas
  BY <1>1, RescaleConstants DEF EditReplicas, RescaleTyped, RescaleTypeOK
<1>2. CASE UNCHANGED rescaleVars \/ EditMarket \/ \E j \in Jobs : Observe(j) \/ CountLists(j) \/ MarkStopped(j)
  <2>1. UNCHANGED <<task, replicas, swaps, resizes, live, ended, borrowed>> /\ activeJobs' \subseteq activeJobs
    BY <1>2 DEF rescaleVars, EditMarket, Observe, CountLists, MarkStopped
  <2>2. Coming' = Coming /\ Uncut' = Uncut /\ Doomed' = Doomed
    BY <2>1, UntouchedBooks
  <2>3. Staying' = Staying
    BY <2>1, <2>2 DEF Staying
  <2> QED
    BY <2>1, <2>2, <2>3, BalanceKept
<1>3. ASSUME NEW j \in Jobs, EndJob(j) PROVE Balanced'
  <2>1. UNCHANGED <<task, replicas, swaps, resizes, activeJobs, borrowed>> /\ j \in live /\ live' = live \ {j}
        /\ ended' = ended + 1
    BY <1>3 DEF EndJob
  <2>2. Coming' = Coming /\ Uncut' = Uncut /\ Doomed' = Doomed /\ Stored' = Stored
    BY <2>1, UntouchedBooks
  <2>3. Staying' = Staying \ {j} /\ Staying \in SUBSET Jobs /\ live \in SUBSET Jobs /\ {j} \in SUBSET Jobs
    BY <2>1, <2>2 DEF Staying, RescaleTyped, RescaleTypeOK
  <2>4. Cardinality({j}) = 1
    BY FS_Singleton
  <2>5. /\ Cardinality(Staying) \in Nat /\ Cardinality(Staying') \in Nat
        /\ Cardinality(Staying') + 1 >= Cardinality(Staying) /\ Cardinality(Staying') <= Cardinality(Staying)
    BY <2>3, <2>4, Counts
  <2>6. /\ Cardinality(live) \in Nat /\ Cardinality(live') \in Nat
        /\ Cardinality(live') + 1 >= Cardinality(live)
    BY <2>1, <2>3, <2>4, Counts
  <2>7. ended \in Nat /\ replicas \in Nat
    BY RescaleConstants DEF RescaleTyped, RescaleTypeOK
  <2>8. Uncut = {} => Kept'
    <3> SUFFICES ASSUME Uncut = {} PROVE Kept'
      OBVIOUS
    <3>1. Kept
      BY <2>1 DEF Balanced
    <3>2. Coming \in Nat
      BY ComingIs DEF Orderly, OneList, Summed
    <3> QED
      BY <2>1, <2>2, <2>5, <2>7, <3>1, <3>2 DEF Kept
  <2>9. ASSUME NEW t \in Uncut' PROVE ToTrim(t)'
    <3>1. t \in Uncut /\ ToTrim(t)
      BY <2>1, <2>2, <2>9 DEF Balanced
    <3>2. task[t].limit \in Nat
      <4>1. t \in Slots
        BY <3>1, Kinds DEF Uncut
      <4> QED
        BY <4>1, RescaleConstants DEF RescaleTyped, RescaleTypeOK
    <3> QED
      BY <2>1, <2>6, <2>7, <3>1, <3>2 DEF ToTrim
  <2> QED
    BY <2>2, <2>8, <2>9 DEF Balanced
<1> QED
  BY <1>1, <1>2, <1>3

(* A count with nothing queued finds all that is alive. *)
LEMMA ResizeBalanced ==
  ASSUME RescaleTyped, RescaleTyped', Calm', Orderly', Resize PROVE Balanced'
<1>1. Stored = {} /\ swaps = {} /\ activeJobs = live /\ status = "RUNNING"
  BY DEF Resize, Calm, Settled, doc
<1>2. UNCHANGED <<replicas, swaps, live, activeJobs, ended, borrowed>>
  BY DEF Resize, doc, chain, bounds
<1>3. \A t \in Slots : task[t] = NoTask
  BY <1>1 DEF Stored
<1>4. Doomed = {} /\ Lists = {} /\ Uncut = {}
  BY <1>1, <1>3, NoTaskDoc, RescaleConstants DEF Doomed, Lists, Uncut, Trims
<1> DEFINE n == Cardinality(activeJobs)
<1>5. n \in Nat /\ replicas \in Nat /\ ended \in Nat
  BY CountTyped, RescaleConstants DEF RescaleTyped, RescaleTypeOK
<1>6. CASE UNCHANGED task /\ (status = "RUNNING" => n = replicas)
  <2>1. n = replicas
    BY <1>1, <1>6
  <2>2. Doomed' = {} /\ Lists' = {} /\ Uncut' = {}
    BY <1>2, <1>4, <1>6, UntouchedBooks
  <2>3. Coming' = 0
    BY <2>2, ComingAfter DEF OneList, Summed
  <2>4. Staying' = live
    BY <1>2, <2>2 DEF Staying
  <2>5. Kept'
    BY <1>1, <1>2, <1>5, <2>1, <2>3, <2>4 DEF Kept
  <2> QED
    BY <2>2, <2>5 DEF Balanced
<1>7. ASSUME NEW d, Fresh(d), Insert(d), Sized(d) PROVE Balanced'
  <2>1. PICK x \in Slots : Sets(x, d)
    BY <1>7, Inserted DEF RescaleTyped, Fresh
  <2>2. task'[x] = d /\ \A t \in Slots : t # x => task'[t] = NoTask
    BY <1>3, <2>1 DEF Sets
  <2>3. d.job = NoTarget /\ d.stop = {} /\ ~d.claimed /\ d.target = Unset /\ d.posted = {} /\ ~d.frozen
    BY <1>7 DEF Sized, Fresh, WellFormed
  <2>4. Doomed' = {}
    BY <1>1, <1>2, <2>2, <2>3, NoTaskDoc, RescaleConstants DEF Doomed
  <2>5. Staying' = live
    BY <1>2, <2>4 DEF Staying
  <2>6. CASE n > replicas
    <3>1. d.kind = "STOP" /\ d.limit = n - replicas
      BY <1>5, <1>7, <2>6 DEF Sized
    <3>2. x \in Uncut'
      BY <2>2, <2>3, <3>1, KindsAfter DEF Uncut
    <3>3. \A t \in Uncut' : t = x
      BY <2>2, KindsAfter, NoTaskDoc DEF Uncut
    <3>4. replicas + d.limit = n
      BY <1>5, <3>1
    <3>5. ToTrim(x)'
      BY <1>1, <1>2, <1>5, <2>2, <2>3, <3>4 DEF ToTrim
    <3> QED
      BY <3>2, <3>3, <3>5 DEF Balanced
  <2>7. CASE n < replicas
    <3>1. d.kind = "LIST" /\ d.limit = replicas - n
      BY <1>5, <1>7, <2>7 DEF Sized
    <3>2. x \in Lists' /\ Uncut' = {}
      BY <2>2, <3>1, KindsAfter, NoTaskDoc DEF Uncut
    <3>3. d.limit # Unset
      <4>1. replicas \in 1..MaxReplicas
        BY DEF RescaleTyped, RescaleTypeOK
      <4> QED
        BY <1>5, <3>1, <4>1, RescaleConstants
    <3>4. Calm' => OneList'
      BY DEF Orderly, OneList
    <3>5. Coming' = Due(d, replicas)
      BY <1>2, <2>2, <3>2, <3>4, ComingAfter DEF Summed, Due
    <3>6. Coming' = replicas - n
      BY <2>3, <3>1, <3>3, <3>5 DEF Due
    <3>7. Kept'
      BY <1>1, <1>2, <1>5, <2>5, <3>6 DEF Kept
    <3> QED
      BY <3>2, <3>7 DEF Balanced
  <2>8. n > replicas \/ n < replicas
    BY <1>7 DEF Sized
  <2> QED
    BY <2>6, <2>7, <2>8
<1> QED
  BY <1>6, <1>7, ResizeSets DEF RescaleTyped

LEMMA MoveBalanced ==
  ASSUME RescaleTyped, RescaleTyped', Balanced, Calm, resizes' = 0, Move PROVE Balanced'
<1>1. UNCHANGED <<task, replicas, resizes, live, activeJobs, ended, borrowed>>
  BY DEF Move, doc, queue, chain, bounds
<1>2. \A s \in swaps' : s \in swaps \/ ~s.listed
  BY DEF Move
<1>3. swaps \subseteq swaps'
  BY DEF Move
<1>4. Doomed' = Doomed
  BY <1>1, <1>2, <1>3 DEF Doomed
<1>5. Staying' = Staying
  BY <1>1, <1>4 DEF Staying
<1>6. Stored' = Stored
  BY <1>1 DEF Stored
<1>7. Lists' = Lists /\ Trims' = Trims
  BY <1>1, <1>6 DEF Lists, Trims
<1>8. Coming' = Coming /\ Uncut' = Uncut
  BY <1>1, <1>7 DEF Coming, Ahead, Uncut
<1> QED
  BY <1>1, <1>5, <1>8, BalanceKept

(* The jobs a move gives up are as many as those it lists. *)
LEMMA MoveListsBalanced ==
  ASSUME RescaleTyped, RescaleTyped', Watched, Orderly, Orderly', Balanced, Calm, Calm', resizes' = 0,
         NEW s \in swaps, MoveLists(s)
  PROVE  Balanced'
<1>1. UNCHANGED <<replicas, resizes, live, activeJobs, ended>> /\ (borrowed => borrowed')
      /\ Alone(s.size) /\ s.jobs \subseteq activeJobs /\ (~borrowed' => OwnList(s.jobs))
  BY DEF MoveLists, Calm, doc, chain, bounds
<1>2. PICK r \in SwapDocs : /\ swaps' = (swaps \ {s}) \cup {r} /\ SwapKept(r, s) /\ r.listed
                            /\ ~s.listed /\ s \in SwapDocs
  BY MoveListsSwaps
<1>3. s.size = Cardinality(s.jobs) /\ s.jobs \subseteq Jobs
  BY <1>2 DEF Watched, SwapDocs
<1>4. Uncut = {} /\ Cardinality(activeJobs) <= replicas
  BY <1>1 DEF Uncut, Alone
<1>5. Kept
  BY <1>1, <1>4 DEF Balanced
<1>6. /\ Cardinality(s.jobs) \in Nat /\ Cardinality(Staying) \in Nat /\ Cardinality(activeJobs) \in Nat
      /\ Cardinality(Staying \ s.jobs) \in Nat
      /\ Cardinality(Staying \ s.jobs) + Cardinality(s.jobs) >= Cardinality(Staying)
      /\ Cardinality(Staying \ s.jobs) <= Cardinality(Staying)
      /\ Cardinality(activeJobs \ s.jobs) + Cardinality(s.jobs) = Cardinality(activeJobs)
      /\ activeJobs \subseteq Jobs /\ Staying \subseteq Jobs
  <2>1. Staying \in SUBSET Jobs /\ activeJobs \in SUBSET Jobs /\ s.jobs \in SUBSET Jobs
    BY <1>3 DEF Staying, RescaleTyped, RescaleTypeOK
  <2>2. /\ Cardinality(s.jobs) \in Nat /\ Cardinality(Staying) \in Nat
        /\ Cardinality(Staying \ s.jobs) \in Nat
        /\ Cardinality(Staying \ s.jobs) + Cardinality(s.jobs) >= Cardinality(Staying)
        /\ Cardinality(Staying \ s.jobs) <= Cardinality(Staying)
    BY <2>1, Counts
  <2>3. /\ Cardinality(activeJobs) \in Nat
        /\ Cardinality(activeJobs \ s.jobs) + Cardinality(s.jobs) = Cardinality(activeJobs)
    BY <1>1, <2>1, Counts
  <2> QED
    BY <2>1, <2>2, <2>3
<1>7. replicas \in Nat /\ ended \in Nat /\ OneList /\ OneList'
  BY RescaleConstants DEF RescaleTyped, RescaleTypeOK, Orderly, OneList
<1>8. Coming \in Nat
  BY <1>7, ComingIs DEF Summed
<1>9. CASE UNCHANGED task /\ Queued(Replacements(s.size)) # {}
  <2>1. Stored' = Stored
    BY <1>9 DEF Stored
  <2>2. Lists' = Lists /\ Trims' = Trims
    BY <1>9, <2>1 DEF Lists, Trims
  <2>3. Coming' = Coming /\ Uncut' = {}
    BY <1>1, <1>4, <1>9, <2>2 DEF Coming, Ahead, Uncut
  <2>4. Doomed' = Doomed \cup s.jobs
    BY <1>2, <1>3, <1>9 DEF Doomed, SwapKept
  <2>5. Staying' = Staying \ s.jobs
    BY <1>1, <2>4 DEF Staying
  <2>6. ~borrowed' => Staying' = Staying
    <3>1. Queued(Replacements(s.size)) \subseteq Lists
      <4>1. Replacements(s.size).kind = "LIST"
        BY <1>3, NoTaskDoc DEF Replacements, NewList, NoTask
      <4> QED
        BY <4>1 DEF Queued, Lists
    <3>2. ~borrowed' => s.jobs \cap live \subseteq {task[t].job : t \in Stored}
      BY <1>1, <1>9, <3>1 DEF OwnList
    <3>3. ~borrowed' => s.jobs \cap live \subseteq Doomed
      BY <1>3, <3>2 DEF Doomed, Stored
    <3> QED
      BY <2>5, <3>3 DEF Staying
  <2>7. Cardinality(Staying') <= Cardinality(Staying) /\ Cardinality(Staying') \in Nat
    BY <1>6, <2>5
  <2>8. Kept'
    <3>1. Cardinality(Staying') + Coming' <= replicas'
      BY <1>1, <1>5, <1>6, <1>7, <1>8, <2>3, <2>7 DEF Kept
    <3>2. ~borrowed' => Cardinality(Staying') + Coming' + ended' >= replicas'
      BY <1>1, <1>5, <2>3, <2>6 DEF Kept
    <3> QED
      BY <3>1, <3>2 DEF Kept
  <2> QED
    BY <2>3, <2>8 DEF Balanced
<1>10. ASSUME NEW d, Fresh(d), Insert(d), Queued(Replacements(s.size)) = {},
              d.kind = "LIST", d.reason = "market", d.limit = s.size, d.job = NoTarget
       PROVE Balanced'
  <2>1. Lists = {}
    BY <1>1, <1>10 DEF Alone
  <2>2. PICK x \in Slots : task[x] = NoTask /\ Sets(x, d)
    BY <1>10, Inserted DEF RescaleTyped, Fresh
  <2>3. task'[x] = d /\ (\A t \in Slots : t # x => task'[t] = task[t]) /\ d.stop = {} /\ d.job \notin Jobs
        /\ d.target = Unset /\ d.posted = {}
    BY <1>10, <2>2, RescaleConstants DEF Sets, Fresh
  <2>4. \A t \in Slots : \A j \in Jobs : (task'[t].job = j \/ j \in task'[t].stop) <=>
                                         (task[t].job = j \/ j \in task[t].stop)
    BY <2>2, <2>3, NoTaskDoc, RescaleConstants
  <2>5. Doomed' = Doomed \cup s.jobs
    BY <1>2, <1>3, <2>4 DEF Doomed, SwapKept
  <2>6. Staying' = Staying \ s.jobs
    BY <1>1, <2>5 DEF Staying
  <2>7. x \in Lists' /\ Uncut' = {}
    <3>1. x \in Lists'
      BY <1>10, <2>3, KindsAfter
    <3>2. \A t \in Slots : t \notin Trims'
      BY <1>1, <1>10, <2>3, Kinds, KindsAfter DEF Alone
    <3> QED
      BY <3>1, <3>2, KindsAfter DEF Uncut
  <2>8. s.size \in Nat /\ s.size # Unset
    BY RescaleConstants DEF RescaleTyped, RescaleTypeOK
  <2>9. Coming' = s.size
    <3>1. Coming' = Due(d, replicas)
      BY <1>1, <1>7, <2>3, <2>7, ComingAfter DEF Summed, Due
    <3> QED
      BY <1>10, <2>3, <2>8, <3>1 DEF Due
  <2>10. Coming = 0
    BY <1>7, <2>1, ComingIs DEF Summed
  <2>11. live \subseteq activeJobs
    <3>1. step # "record"
      BY <2>1, ListRuns
    <3> QED
      BY <3>1, PostingIdle DEF Watched
  <2>12. Cardinality(Staying \ s.jobs) <= Cardinality(activeJobs \ s.jobs)
         /\ Cardinality(activeJobs \ s.jobs) \in Nat
    <3>1. Staying \ s.jobs \in SUBSET Jobs /\ activeJobs \ s.jobs \in SUBSET Jobs
          /\ Staying \ s.jobs \subseteq activeJobs \ s.jobs
      BY <1>6, <2>11 DEF Staying
    <3> QED
      BY <3>1, Counts
  <2>13. Kept'
    <3>1. Cardinality(Staying') + Coming' <= replicas'
      BY <1>1, <1>3, <1>4, <1>6, <1>7, <2>6, <2>9, <2>12
    <3>2. ~borrowed' => Cardinality(Staying') + Coming' + ended' >= replicas'
      BY <1>1, <1>3, <1>5, <1>6, <1>7, <2>6, <2>9, <2>10 DEF Kept
    <3> QED
      BY <3>1, <3>2 DEF Kept
  <2> QED
    BY <2>7, <2>13 DEF Balanced
<1> QED
  BY <1>9, <1>10, MoveListsSets

(* Then a STOP of each, which is what the move had in hand. *)
LEMMA MoveStopsBalanced ==
  ASSUME RescaleTyped, RescaleTyped', Orderly, Orderly', Balanced, Calm, Calm', resizes' = 0,
         NEW s \in swaps, MoveStops(s)
  PROVE  Balanced'
<1>1. UNCHANGED <<replicas, resizes, live, activeJobs, ended, borrowed>>
  BY DEF MoveStops, doc, chain, bounds, hist
<1>2. s.listed /\ s \in SwapDocs
  BY MoveStopsSets
<1>3. PICK j \in s.jobs : /\ j \in Jobs
              /\ \E d : Fresh(d) /\ Insert(d) /\ d.kind = "STOP" /\ d.job = j
              /\ \/ swaps' = swaps \ {s} /\ s.jobs = {j}
                 \/ \E r \in SwapDocs : /\ swaps' = (swaps \ {s}) \cup {r} /\ r.jobs = s.jobs \ {j}
                                        /\ r.listed
  BY MoveStopsSets
<1>4. PICK d : Fresh(d) /\ Insert(d) /\ d.kind = "STOP" /\ d.job = j
  BY <1>3
<1>5. PICK x \in Slots : task[x] = NoTask /\ Sets(x, d)
  BY <1>4, Inserted DEF RescaleTyped, Fresh
<1>6. task'[x] = d /\ (\A t \in Slots : t # x => task'[t] = task[t]) /\ d.stop = {}
  BY <1>4, <1>5 DEF Sets, Fresh
<1>7. \A k \in Jobs : (\E t \in Slots : task'[t].job = k \/ k \in task'[t].stop) <=>
                      (k = j \/ \E t \in Slots : task[t].job = k \/ k \in task[t].stop)
  <2> SUFFICES ASSUME NEW k \in Jobs
               PROVE (\E t \in Slots : task'[t].job = k \/ k \in task'[t].stop) <=>
                     (k = j \/ \E t \in Slots : task[t].job = k \/ k \in task[t].stop)
    OBVIOUS
  <2>1. ~(task[x].job = k \/ k \in task[x].stop)
    BY <1>5, NoTaskDoc, RescaleConstants
  <2>2. task'[x].job = j /\ task'[x].stop = {}
    BY <1>4, <1>6
  <2> QED
    BY <1>6, <2>1, <2>2
<1>8. \A k \in Jobs : (k = j \/ \E q \in swaps' : q.listed /\ k \in q.jobs) <=>
                      (k = j \/ \E q \in swaps : q.listed /\ k \in q.jobs)
  BY <1>2, <1>3
<1>9. \E q \in swaps : q.listed /\ j \in q.jobs
  BY <1>2
<1>10. Doomed' = Doomed
  BY <1>7, <1>8, <1>9 DEF Doomed
<1>11. Staying' = Staying
  BY <1>1, <1>10 DEF Staying
<1>12. Uncut = {}
  <2>1. \A t \in Trims : FALSE
    BY Kinds DEF Orderly
  <2> QED
    BY <2>1 DEF Uncut
<1>13. Uncut' = {}
  <2>1. \A t \in Slots : t \notin Trims'
    BY <1>3, <1>4, <1>6, Kinds, KindsAfter, RescaleConstants DEF Orderly
  <2> QED
    BY <2>1, KindsAfter DEF Uncut
<1>14. Coming' = Coming
  <2>1. \A t \in Slots : /\ task'[t].kind = "LIST" <=> task[t].kind = "LIST"
                         /\ task[t].kind = "LIST" => task'[t] = task[t]
    BY <1>4, <1>5, <1>6, NoTaskDoc
  <2>2. OneList /\ OneList'
    BY DEF Orderly, OneList
  <2> QED
    BY <1>1, <2>1, <2>2, ComingKept
<1> QED
  BY <1>1, <1>11, <1>12, <1>13, <1>14, BalanceKept

(* A step of the consumer while no trim is to be cut. *)
LEMMA ReadsBalanced ==
  ASSUME RescaleTyped, RescaleTyped', OneList, OneList', Balanced, Calm, resizes = 0, Uncut = {},
         UNCHANGED <<replicas, resizes, live, ended, borrowed, swaps>>,
         NEW x \in Slots, NEW d, Sets(x, d), d.kind = task[x].kind, d.job = task[x].job,
         task[x].frozen => d.frozen,
         d.job # NoTarget \/ d.kind = "LIST" \/ task[x].frozen, WellFormed(d),
         \/ d.stop = task[x].stop
         \/ d.stop \subseteq {d.job} /\ task[x].stop \subseteq {d.job},
         d.kind = "LIST" => Due(d, replicas) = Due(task[x], replicas)
  PROVE  Balanced'
<1>1. task'[x] = d /\ \A t \in Slots : t # x => task'[t] = task[t]
  BY DEF Sets
<1>2. Uncut' = {}
  <2>1. \A t \in Slots : \/ task'[t] = NoTask
                         \/ /\ task'[t].kind = task[t].kind /\ task'[t].job = task[t].job
                            /\ task[t].frozen => task'[t].frozen
    BY <1>1
  <2> QED
    BY <2>1, UncutAfter
<1>3. Doomed' = Doomed
  <2>1. \A t \in Slots : \A j \in Jobs : (task'[t].job = j \/ j \in task'[t].stop) <=>
                                         (task[t].job = j \/ j \in task[t].stop)
    BY <1>1
  <2> QED
    BY <2>1 DEF Doomed
<1>4. Staying' = Staying
  BY <1>3 DEF Staying
<1>5. Coming' = Coming
  <2>1. \A t \in Slots : /\ task'[t].kind = "LIST" <=> task[t].kind = "LIST"
                         /\ task[t].kind = "LIST" => Due(task'[t], replicas) = Due(task[t], replicas)
    BY <1>1
  <2> QED
    BY <2>1, ComingKept
<1> QED
  BY <1>2, <1>4, <1>5, BalanceKept

(* What a claim freezes is what the LIST was counted for.                   *)
LEMMA DueKept ==
  ASSUME RescaleTyped, Orderly, Calm, NEW t \in Lists, NEW d, Alike(task[t], d), task[t].posted = {},
         d.target = IF task[t].target = Unset THEN Target(t) ELSE task[t].target
  PROVE  Due(d, replicas) = Due(task[t], replicas)
<1>1. t \in Slots /\ task[t] \in TaskDocs /\ d.limit = task[t].limit /\ d.posted = {}
  BY Kinds DEF Alike
<1>2. /\ Target(t) \in 0..Unset /\ (task[t].limit # Unset => Target(t) = task[t].limit)
      /\ (task[t].limit = Unset => Target(t) \in 0..MaxReplicas)
      /\ (task[t].limit = Unset /\ activeJobs = {} => Target(t) = replicas)
  BY <1>1, TargetTyped DEF RescaleTyped
<1>3. CASE task[t].target # Unset
  BY <1>1, <1>3 DEF Due
<1>4. CASE task[t].target = Unset
  <2>1. CASE task[t].limit # Unset
    BY <1>1, <1>2, <1>4, <2>1 DEF Due
  <2>2. CASE task[t].limit = Unset
    <3>1. Target(t) = replicas
      BY <1>2, <1>4, <2>2 DEF Orderly
    <3>2. replicas # Unset
      BY RescaleConstants DEF RescaleTyped, RescaleTypeOK
    <3> QED
      BY <1>1, <1>4, <2>2, <3>1, <3>2 DEF Due
  <2> QED
    BY <2>1, <2>2
<1> QED
  BY <1>3, <1>4

LEMMA ClaimBalanced ==
  ASSUME RescaleTyped, RescaleTyped', Orderly, Orderly', Balanced, Calm, Calm', resizes' = 0,
         NEW t \in Slots, Claim(t)
  PROVE  Balanced'
<1>1. UNCHANGED <<replicas, resizes, live, ended, borrowed, swaps>> /\ t \in Stored /\ t # current
  BY DEF Claim, doc, events, chain, bounds, hist
<1>2. /\ Sets(t, Claimed(t)) /\ WellFormed(Claimed(t)) /\ Alike(task[t], Claimed(t)) /\ step # "idle"
      /\ Claimed(t).posted = {}
      /\ Claimed(t).kind = "LIST" =>
           Claimed(t).target = IF task[t].target = Unset THEN Target(t) ELSE task[t].target
  BY ClaimSets
<1>3. OneList /\ OneList'
  BY DEF Orderly, OneList
<1>4. Uncut = {}
  BY <1>2, CurrentCut, NoUncut
<1>5. task[t].posted = {}
  BY <1>2 DEF Alike
<1>6. Claimed(t).kind = "LIST" => Due(Claimed(t), replicas) = Due(task[t], replicas)
  <2>1. Claimed(t).kind = "LIST" => t \in Lists
    BY <1>2, Kinds DEF Alike
  <2> QED
    BY <1>2, <1>5, <2>1, DueKept
<1>7. Claimed(t).job # NoTarget \/ Claimed(t).kind = "LIST" \/ task[t].frozen
  <2>1. task[t].kind \in {"LIST", "STOP"}
    BY <1>1, Kinds DEF TaskDocs
  <2> QED
    BY <1>2, <1>4, <2>1, Kinds DEF Uncut, Alike
<1>8. /\ Claimed(t).kind = task[t].kind /\ Claimed(t).job = task[t].job /\ Claimed(t).stop = task[t].stop
      /\ Claimed(t).frozen = task[t].frozen
  BY <1>2 DEF Alike
<1> QED
  BY <1>1, <1>2, <1>3, <1>4, <1>6, <1>7, <1>8, ReadsBalanced DEF Calm

LEMMA RunListBalanced ==
  ASSUME RescaleTyped, RescaleTyped', Orderly, Orderly', Balanced, Calm, Calm', resizes' = 0,
         NEW t \in Slots, RunList(t)
  PROVE  Balanced'
<1>1. UNCHANGED <<replicas, resizes, live, ended, borrowed, swaps>> /\ t \in Stored /\ t \in Lists
  BY DEF RunList, Takes, doc, events, chain, bounds, hist
<1>2. /\ Sets(t, Read(t)) /\ WellFormed(Read(t)) /\ Alike(task[t], Read(t)) /\ Read(t).kind = "LIST"
      /\ Read(t).posted = {}
      /\ Read(t).target = IF task[t].target = Unset THEN Target(t) ELSE task[t].target
  BY RunListSets
<1>3. OneList /\ OneList'
  BY DEF Orderly, OneList
<1>4. Uncut = {}
  <2>1. t \notin Uncut
    BY <1>1, Kinds DEF Uncut
  <2> QED
    BY <1>1, <2>1, NoUncut
<1>5. task[t].posted = {}
  BY <1>2 DEF Alike
<1>6. Due(Read(t), replicas) = Due(task[t], replicas)
  BY <1>1, <1>2, <1>5, DueKept
<1>8. /\ Read(t).kind = task[t].kind /\ Read(t).job = task[t].job /\ Read(t).stop = task[t].stop
      /\ Read(t).frozen = task[t].frozen
  BY <1>2 DEF Alike
<1> QED
  BY <1>1, <1>2, <1>3, <1>4, <1>6, <1>8, ReadsBalanced

LEMMA RetryBalanced ==
  ASSUME RescaleTyped, RescaleTyped', Orderly, Orderly', Balanced, Calm, Calm', resizes' = 0, Retry
  PROVE  Balanced'
<1>1. UNCHANGED <<replicas, resizes, live, ended, borrowed, swaps>> /\ step # "idle"
  BY DEF Retry, doc, events, chain, hist
<1>2. PICK d : Sets(current, d) /\ Alike(task[current], d) /\ d.target = task[current].target
  BY RetryTyped
<1>3. OneList /\ OneList' /\ current \in Slots
  BY RetryTyped DEF Orderly, OneList
<1>4. Uncut = {} /\ current \notin Uncut /\ current \in Stored
  BY <1>1, CurrentCut, NoUncut
<1>5. WellFormed(d)
  BY <1>2, <1>3 DEF Sets, RescaleTyped, Shaped
<1>6. Due(d, replicas) = Due(task[current], replicas)
  BY <1>2 DEF Due, Alike
<1>7. d.job # NoTarget \/ d.kind = "LIST" \/ task[current].frozen
  <2>1. task[current].kind \in {"LIST", "STOP"}
    BY <1>3, <1>4, Kinds DEF TaskDocs
  <2> QED
    BY <1>2, <1>3, <1>4, <2>1, Kinds DEF Uncut, Alike
<1>8. /\ d.kind = task[current].kind /\ d.job = task[current].job /\ d.stop = task[current].stop
      /\ d.frozen = task[current].frozen
  BY <1>2 DEF Alike
<1> QED
  BY <1>1, <1>2, <1>3, <1>4, <1>5, <1>6, <1>7, <1>8, ReadsBalanced

(* A trim takes its limit of what is alive, all of which its claim saw.     *)
LEMMA RunStopBalanced ==
  ASSUME RescaleTyped, RescaleTyped', Watched, Orderly, Orderly', Balanced, Calm, Calm', resizes' = 0,
         NEW t \in Slots, RunStop(t)
  PROVE  Balanced'
<1>1. UNCHANGED <<replicas, resizes, live, ended, borrowed, swaps, activeJobs>>
  BY DEF RunStop, doc, events, chain, bounds, hist
<1>2. PICK S, d : /\ S \in IF Read(t).frozen THEN {Read(t).stop} ELSE Selected(Read(t))
                  /\ Sets(t, d) /\ WellFormed(d) /\ d.kind = "STOP" /\ d.frozen /\ d.stop = S
                  /\ d.job = task[t].job /\ d.limit = task[t].limit
  BY RunStopSets
<1>3. /\ t \in Stored /\ task[t].kind = "STOP" /\ step = "idle"
      /\ Read(t) \in TaskDocs /\ Alike(task[t], Read(t))
      /\ Read(t).seen = IF task[t].claimed THEN task[t].seen ELSE activeJobs
  BY RunStopSets
<1>4. OneList /\ OneList'
  BY DEF Orderly, OneList
<1>5. /\ Read(t).frozen = task[t].frozen /\ Read(t).stop = task[t].stop /\ Read(t).job = task[t].job
      /\ Read(t).limit = task[t].limit
  BY <1>3 DEF Alike
<1>6. CASE t \notin Uncut
  <2>1. Uncut = {}
    BY <1>3, <1>6, NoUncut
  <2>2. d.job # NoTarget \/ task[t].frozen
    BY <1>2, <1>3, <1>6, Kinds DEF Uncut
  <2>3. \/ d.stop = task[t].stop
        \/ d.stop \subseteq {d.job} /\ task[t].stop \subseteq {d.job}
    <3>1. CASE task[t].frozen
      BY <1>2, <1>5, <3>1
    <3>2. CASE ~task[t].frozen
      BY <1>2, <2>2, <3>2 DEF WellFormed, RescaleTyped, Shaped
    <3> QED
      BY <3>1, <3>2
  <2> QED
    BY <1>1, <1>2, <1>3, <1>4, <2>1, <2>2, <2>3, ReadsBalanced
<1>7. CASE t \in Uncut
  <2>1. task[t].job = NoTarget /\ ~task[t].frozen /\ task[t].stop = {} /\ ToTrim(t)
    BY <1>1, <1>7, Kinds DEF Uncut, Balanced, RescaleTyped, Shaped, WellFormed
  <2>2. Stored = {t} /\ swaps = {}
    BY <1>7 DEF Orderly, Uncut
  <2>3. Read(t).seen = activeJobs
    BY <1>3, <2>1 DEF ToTrim
  <2> DEFINE k == task[t].limit
             n == Cardinality(activeJobs)
  <2>4. S \in SUBSET activeJobs /\ Cardinality(S) = Min({k, n})
    BY <1>2, <1>5, <2>1, <2>3 DEF Selected
  <2>5. k \in Nat /\ n \in Nat /\ replicas \in Nat /\ ended \in Nat
    <3>1. k \in Nat /\ replicas \in Nat /\ ended \in Nat
      BY RescaleConstants DEF RescaleTyped, RescaleTypeOK
    <3>2. n \in Nat
      BY CountTyped DEF RescaleTyped
    <3> QED
      BY <3>1, <3>2
  <2>6. Cardinality(S) = IF k <= n THEN k ELSE n
    BY <2>4, <2>5, MinOfTwo
  <2>7. \A u \in Slots : u # t => task'[u] = NoTask
    BY <1>2, <2>2 DEF Sets, Stored
  <2>8. task'[t] = d
    BY <1>2 DEF Sets
  <2>9. \A j \in Jobs : (\E u \in Slots : task'[u].job = j \/ j \in task'[u].stop) <=> j \in S
    <3> SUFFICES ASSUME NEW j \in Jobs
                 PROVE (\E u \in Slots : task'[u].job = j \/ j \in task'[u].stop) <=> j \in S
      OBVIOUS
    <3>1. (task'[t].job = j \/ j \in task'[t].stop) <=> j \in S
      BY <1>2, <2>1, <2>8, RescaleConstants
    <3>2. \A u \in Slots : u # t => ~(task'[u].job = j \/ j \in task'[u].stop)
      BY <2>7, NoTaskDoc, RescaleConstants
    <3> QED
      BY <3>1, <3>2
  <2>10. S \subseteq Jobs /\ live \in SUBSET Jobs /\ activeJobs \in SUBSET Jobs
    BY <2>4 DEF RescaleTyped, RescaleTypeOK
  <2>11. Doomed' = S
    BY <1>1, <2>2, <2>9, <2>10 DEF Doomed
  <2>12. Staying' = live \ S
    BY <1>1, <2>11 DEF Staying
  <2>13. live \subseteq activeJobs
    BY <1>3, PostingIdle DEF Watched
  <2>14. /\ Cardinality(live) \in Nat /\ Cardinality(live \ S) \in Nat /\ Cardinality(S) \in Nat
         /\ Cardinality(live \ S) + Cardinality(S) >= Cardinality(live)
    BY <2>10, Counts
  <2>15. Cardinality(activeJobs \ S) + Cardinality(S) = n /\ Cardinality(activeJobs \ S) \in Nat
    BY <2>4, <2>10, Counts
  <2>16. Cardinality(live \ S) <= Cardinality(activeJobs \ S)
    <3>1. live \ S \in SUBSET Jobs /\ activeJobs \ S \in SUBSET Jobs /\ live \ S \subseteq activeJobs \ S
      BY <2>10, <2>13
    <3> QED
      BY <3>1, Counts
  <2>17. Uncut' = {} /\ Lists' = {}
    BY <1>2, <2>7, <2>8, KindsAfter, NoTaskDoc DEF Uncut
  <2>18. Coming' = 0
    BY <1>4, <2>17, ComingAfter DEF Summed
  <2>19. n <= replicas + k /\ (~borrowed => Cardinality(live) + ended >= replicas + k)
    BY <2>1 DEF ToTrim
  <2> HIDE DEF k, n
  <2>20. Cardinality(live \ S) <= replicas
    BY <2>5, <2>6, <2>14, <2>15, <2>16, <2>19
  <2>21. ~borrowed => Cardinality(live \ S) + ended >= replicas
    BY <2>5, <2>6, <2>14, <2>19
  <2>22. Kept'
    BY <1>1, <2>12, <2>14, <2>18, <2>20, <2>21, <2>5 DEF Kept
  <2> QED
    BY <2>17, <2>22 DEF Balanced
<1> QED
  BY <1>6, <1>7

LEMMA PostBalanced ==
  ASSUME RescaleTyped, RescaleTyped', Known, Orderly, Orderly', Balanced, Calm, Calm', resizes' = 0, PostJobs
  PROVE  Balanced'
<1>1. UNCHANGED <<replicas, resizes, swaps, ended, borrowed>> /\ status # "STOPPED" /\ step = "post"
  BY DEF PostJobs, Calm, doc, events, bounds, hist
<1>2. PICK S, d : /\ S = newest + 1 .. newest + task[current].target
                  /\ S \subseteq Jobs /\ Cardinality(S) = task[current].target /\ S # {}
                  /\ live' = live \cup S /\ Sets(current, d) /\ d.posted = S
                  /\ d.kind = "LIST" /\ d.job = NoTarget /\ d.stop = {} /\ ~d.frozen
  BY <1>1, PostSets
<1>3. /\ current \in Slots /\ current \in Lists /\ task[current].target \in Jobs /\ task[current].target # Unset
      /\ task[current].posted = {} /\ task[current].job = NoTarget /\ task[current].stop = {}
      /\ task[current].kind = "LIST"
  <2>1. current \in Slots /\ current \in Lists /\ task[current].target # Unset
    BY <1>1, ListRuns
  <2>2. task[current].posted = {} /\ task[current].target \in Jobs /\ task[current].kind = "LIST"
    BY <1>1 DEF RescaleTyped, Shaped, InRun
  <2>3. task[current].job = NoTarget /\ task[current].stop = {}
    BY <2>1, <2>2 DEF RescaleTyped, Shaped, WellFormed
  <2> QED
    BY <2>1, <2>2, <2>3
<1>4. task'[current] = d /\ \A t \in Slots : t # current => task'[t] = task[t]
  BY <1>2 DEF Sets
<1>5. Uncut = {}
  BY <1>1, CurrentCut, NoUncut
<1>6. Uncut' = {}
  <2>1. \A t \in Slots : \/ task'[t] = NoTask
                         \/ /\ task'[t].kind = task[t].kind /\ task'[t].job = task[t].job
                            /\ task[t].frozen => task'[t].frozen
    BY <1>2, <1>3, <1>4, Kinds DEF RescaleTyped, Shaped, WellFormed
  <2> QED
    BY <1>5, <2>1, UncutAfter
<1>7. Doomed' = Doomed
  <2>1. \A t \in Slots : task'[t].job = task[t].job /\ task'[t].stop = task[t].stop
    BY <1>2, <1>3, <1>4
  <2> QED
    BY <1>1, <2>1, DoomedKept
<1>8. \A j \in S : j \notin Upto /\ j # NoTarget
  BY <1>2, <1>3, RescaleConstants DEF Upto, NoTarget, RescaleTyped, RescaleTypeOK
<1>9. S \cap Doomed = {} /\ S \cap live = {}
  BY <1>8 DEF Known, Names, Doomed
<1>10. Staying' = Staying \cup S /\ Staying \cap S = {}
  BY <1>2, <1>7, <1>9 DEF Staying
<1>11. Cardinality(Staying') = Cardinality(Staying) + Cardinality(S) /\ Cardinality(Staying) \in Nat
  <2>1. Staying \in SUBSET Jobs /\ S \in SUBSET Jobs
    BY <1>2 DEF Staying, RescaleTyped, RescaleTypeOK
  <2> QED
    BY <1>10, <2>1, Counts
<1>12. OneList /\ OneList'
  BY DEF Orderly, OneList
<1>13. Coming = task[current].target
  BY <1>3, <1>12, ComingIs DEF Summed, Due
<1>14. Coming' = 0
  <2>1. current \in Lists'
    BY <1>2, <1>3, <1>4, KindsAfter
  <2>2. current' = current
    BY <1>1, PostSets
  <2>3. Coming' = Due(d, replicas)
    BY <1>1, <1>4, <1>12, <2>1, ComingAfter DEF Summed, Due
  <2> QED
    BY <1>2, <2>3 DEF Due
<1>15. Kept
  BY <1>1, <1>5 DEF Balanced
<1>16. task[current].target \in Nat /\ replicas \in Nat /\ ended \in Nat
  BY <1>3, RescaleConstants DEF RescaleTyped, RescaleTypeOK
<1>17. Kept'
  BY <1>1, <1>2, <1>11, <1>13, <1>14, <1>15, <1>16 DEF Kept
<1> QED
  BY <1>6, <1>17 DEF Balanced

LEMMA RecordBalanced ==
  ASSUME RescaleTyped, RescaleTyped', Orderly, Balanced, Calm, resizes' = 0, Record PROVE Balanced'
<1>1. UNCHANGED <<task, replicas, resizes, swaps, live, ended, borrowed>> /\ step # "idle"
  BY DEF Record, doc, events, chain, bounds, hist
<1>2. Coming' = Coming /\ Uncut' = Uncut /\ Doomed' = Doomed
  BY <1>1, UntouchedBooks
<1>3. Staying' = Staying
  BY <1>1, <1>2 DEF Staying
<1>4. Uncut = {}
  BY <1>1, CurrentCut, NoUncut
<1> QED
  BY <1>1, <1>2, <1>3, <1>4, BalanceKept

(* A run that is over has posted, or has stopped what it was to stop. *)
LEMMA LeaveBalanced ==
  ASSUME RescaleTyped, RescaleTyped', Watched, Orderly, Orderly', Balanced, Calm, Calm', resizes' = 0,
         Exit \/ Kill
  PROVE  Balanced'
<1>1. UNCHANGED <<replicas, resizes, swaps, ended, borrowed>> /\ step # "idle" /\ Leave
  BY DEF Exit, Kill, doc, events, chain, bounds, hist
<1>2. current \in Slots /\ Sets(current, NoTask)
  BY <1>1, LeaveSets
<1>3. task'[current] = NoTask /\ \A t \in Slots : t # current => task'[t] = task[t]
  BY <1>2 DEF Sets
<1>4. Uncut = {}
  BY <1>1, CurrentCut, NoUncut
<1>5. Uncut' = {}
  <2>1. \A t \in Slots : \/ task'[t] = NoTask
                         \/ /\ task'[t].kind = task[t].kind /\ task'[t].job = task[t].job
                            /\ task[t].frozen => task'[t].frozen
    BY <1>3
  <2> QED
    BY <1>4, <2>1, UncutAfter
<1>6. OneList /\ OneList'
  BY DEF Orderly, OneList
<1>7. CASE Exit
  <2>1. live' = live /\ step = "exit"
    BY <1>7 DEF Exit, chain
  <2>2. current \in Lists /\ task[current].kind = "LIST"
        /\ (task[current].posted # {} \/ task[current].target = 0)
    BY <2>1, ListRuns DEF RescaleTyped, Shaped, InRun
  <2>3. task[current].job = NoTarget /\ task[current].stop = {}
    BY <1>2, <2>2 DEF RescaleTyped, Shaped, WellFormed
  <2>4. \A t \in Slots : task'[t].job = task[t].job /\ task'[t].stop = task[t].stop
    BY <1>3, <2>3, NoTaskDoc
  <2>5. Staying' = Staying
    BY <1>1, <2>1, <2>4, DoomedKept DEF Staying
  <2>6. Coming = 0
    BY <1>6, <2>2, ComingIs, RescaleConstants DEF Summed, Due
  <2>7. Lists' = {}
    <3>1. \A t \in Slots : t \notin Lists'
      BY <1>3, <1>6, <2>2, Kinds, KindsAfter, NoTaskDoc DEF OneList
    <3> QED
      BY <3>1, KindsAfter
  <2>8. Coming' = Coming
    BY <1>6, <2>6, <2>7, ComingAfter DEF Summed
  <2> QED
    BY <1>1, <1>4, <1>5, <2>5, <2>8, BalanceKept
<1>8. CASE Kill
  <2>1. live' = live \ task[current].stop /\ step = "kill"
    BY <1>8 DEF Kill
  <2>2. task[current].kind = "STOP" /\ task[current].frozen /\ Aimed(task[current], live)
    BY <1>2, <2>1 DEF RescaleTyped, Shaped, InRun, Watched
  <2>3. \A j \in live' : ~(task[current].job = j \/ j \in task[current].stop)
    BY <2>1, <2>2 DEF Aimed
  <2>4. \A j \in live' : (\E t \in Slots : task'[t].job = j \/ j \in task'[t].stop) <=>
                         (\E t \in Slots : task[t].job = j \/ j \in task[t].stop)
    <3> SUFFICES ASSUME NEW j \in live'
                 PROVE (\E t \in Slots : task'[t].job = j \/ j \in task'[t].stop) <=>
                       (\E t \in Slots : task[t].job = j \/ j \in task[t].stop)
      OBVIOUS
    <3>1. ~(task[current].job = j \/ j \in task[current].stop)
      BY <2>3
    <3>2. ~(task'[current].job = j \/ j \in task'[current].stop)
      BY <1>3, <2>1, NoTaskDoc, RescaleConstants DEF RescaleTyped, RescaleTypeOK
    <3> QED
      BY <1>3, <3>1, <3>2
  <2>5. \A j \in live' : j \in Doomed' <=> j \in Doomed
    BY <1>1, <2>1, <2>4 DEF Doomed, RescaleTyped, RescaleTypeOK
  <2>6. \A j \in live : j \notin live' => j \in Doomed
    BY <1>2, <2>1 DEF Doomed, RescaleTyped, RescaleTypeOK
  <2>7. Staying' = Staying
    BY <2>1, <2>5, <2>6 DEF Staying
  <2>8. \A t \in Slots : /\ task'[t].kind = "LIST" <=> task[t].kind = "LIST"
                         /\ task[t].kind = "LIST" => task'[t] = task[t]
    BY <1>3, <2>2, NoTaskDoc
  <2>9. Coming' = Coming
    BY <1>1, <1>6, <2>8, ComingKept
  <2> QED
    BY <1>1, <1>4, <1>5, <2>7, <2>9, BalanceKept
<1> QED
  BY <1>7, <1>8

(* The tasks a settlement drops are of a job that is gone. *)
LEMMA ForgetBalanced ==
  ASSUME RescaleTyped, RescaleTyped', Known, Orderly, Orderly', Balanced, Calm, Calm', resizes' = 0,
         NEW j \in Jobs, Forget(j)
  PROVE  Balanced'
<1>1. /\ UNCHANGED <<replicas, resizes, swaps, live, activeJobs, ended, borrowed>>
      /\ settling[j] = "due"
      /\ task' = [t \in Slots |-> IF task[t].job = j /\ t # current THEN NoTask ELSE task[t]]
  BY DEF Forget, doc, events, chain, bounds, hist
<1>2. j \notin live /\ j # NoTarget
  BY <1>1, RescaleConstants DEF Known
<1>3. \A t \in Slots : task'[t] = task[t] \/ (task'[t] = NoTask /\ task[t].job = j)
  BY <1>1
<1>4. \A t \in Slots : task[t].job = j => task[t].kind # "LIST" /\ task[t].stop \subseteq {j}
  BY <1>2 DEF RescaleTyped, Shaped, WellFormed
<1>5. Staying' = Staying
  <2>1. \A k \in live : k # j /\ k # NoTarget
    BY <1>2, RescaleConstants DEF RescaleTyped, RescaleTypeOK
  <2>2. \A k \in live : \A t \in Slots : (task'[t].job = k \/ k \in task'[t].stop) <=>
                                         (task[t].job = k \/ k \in task[t].stop)
    <3> SUFFICES ASSUME NEW k \in live, NEW t \in Slots
                 PROVE (task'[t].job = k \/ k \in task'[t].stop) <=> (task[t].job = k \/ k \in task[t].stop)
      OBVIOUS
    <3>1. CASE task'[t] = task[t]
      BY <3>1
    <3>2. CASE task'[t] = NoTask /\ task[t].job = j
      BY <1>4, <2>1, <3>2, NoTaskDoc
    <3> QED
      BY <1>3, <3>1, <3>2
  <2>3. \A k \in live : k \in Doomed' <=> k \in Doomed
    BY <1>1, <2>2 DEF Doomed
  <2> QED
    BY <1>1, <2>3 DEF Staying
<1>6. \A t \in Slots : /\ task'[t].kind = "LIST" <=> task[t].kind = "LIST"
                       /\ task[t].kind = "LIST" => task'[t] = task[t]
  BY <1>3, <1>4, NoTaskDoc
<1>7. Coming' = Coming
  <2>1. OneList /\ OneList'
    BY DEF Orderly, OneList
  <2> QED
    BY <1>1, <1>6, <2>1, ComingKept
<1>8. \A t \in Slots : (t \in Uncut' <=> t \in Uncut) /\ (t \in Uncut => task'[t] = task[t])
  <2> SUFFICES ASSUME NEW t \in Slots
               PROVE (t \in Uncut' <=> t \in Uncut) /\ (t \in Uncut => task'[t] = task[t])
    OBVIOUS
  <2>1. t \in Uncut <=> task[t].kind = "STOP" /\ task[t].job = NoTarget /\ ~task[t].frozen
    BY Kinds DEF Uncut
  <2>2. t \in Uncut' <=> task'[t].kind = "STOP" /\ task'[t].job = NoTarget /\ ~task'[t].frozen
    BY KindsAfter DEF Uncut
  <2> QED
    BY <1>2, <1>3, <2>1, <2>2, NoTaskDoc
<1>9. Uncut' = Uncut
  BY <1>8, Kinds, KindsAfter DEF Uncut
<1>10. \A t \in Uncut : task'[t] = task[t]
  BY <1>8, Kinds DEF Uncut
<1> QED
  BY <1>1, <1>5, <1>7, <1>9, <1>10, BalanceKept

-----------------------------------------------------------------------------
(* Together.                                                                *)

RescaleInvariant == RescaleTyped /\ Known /\ Watched /\ Orderly /\ Balanced

LEMMA RescaleHolds == RescaleSpec => []RescaleInvariant
<1>1. RescaleInit => RescaleInvariant
  BY RescaleInitTyped, RescaleInitKnown, RescaleInitWatched, RescaleInitOrderly, RescaleInitBalanced
     DEF RescaleInvariant
<1>2. ASSUME RescaleInvariant, [RescaleNext]_rescaleVars PROVE RescaleInvariant'
  <2>1. RescaleTyped /\ Known /\ Watched /\ Orderly /\ Balanced
    BY <1>2 DEF RescaleInvariant
  <2>2. RescaleTyped'
    BY <1>2, <2>1, RescaleStepTyped
  <2>3. Known' /\ Watched' /\ Orderly'
    BY <1>2, <2>1, <2>2, KnownStep, WatchedStep, OrderlyStep
  <2>4. Balanced'
    <3>1. SUFFICES ASSUME Calm', resizes' = 0 PROVE Balanced'
      BY DEF Balanced
    <3>2. Calm
      BY <1>2, <3>1, CalmKept
    <3>3. CASE \/ UNCHANGED rescaleVars \/ EditReplicas \/ EditMarket
               \/ \E j \in Jobs : EndJob(j) \/ Observe(j) \/ CountLists(j) \/ MarkStopped(j)
      BY <2>1, <2>2, <3>1, <3>2, <3>3, JobsBalanced
    <3>4. CASE Callbacks
      BY <2>1, <2>2, <2>3, <3>1, <3>2, <3>4, ResizeBalanced, MoveBalanced, MoveListsBalanced,
         MoveStopsBalanced DEF Callbacks
    <3>5. CASE \E t \in Slots : Claim(t) \/ Handle(t)
      <4>1. \A t \in Slots : ~Drop(t)
        BY <3>2 DEF Drop, Calm
      <4> QED
        BY <2>1, <2>2, <2>3, <3>1, <3>2, <3>5, <4>1, ClaimBalanced, RunListBalanced, RunStopBalanced DEF Handle
    <3>6. CASE Work \/ Retry
      BY <2>1, <2>2, <2>3, <3>1, <3>2, <3>6, PostBalanced, RecordBalanced, LeaveBalanced, RetryBalanced DEF Work
    <3>7. CASE \E j \in Jobs : Forget(j)
      BY <2>1, <2>2, <2>3, <3>1, <3>2, <3>7, ForgetBalanced
    <3> QED
      BY <1>2, <3>3, <3>4, <3>5, <3>6, <3>7 DEF RescaleNext, Settle
  <2> QED
    BY <2>1, <2>2, <2>3, <2>4 DEF RescaleInvariant
<1> QED
  BY <1>1, <1>2, PTL DEF RescaleSpec

(* What is alive and what is about to be listed make up the replicas, while  *)
(* no callback overlaps another and no move borrows the LIST of another:     *)
(* deploymentMarketUpdate and deploymentReplicaUpdate.                       *)
THEOREM NeverFallsShort == RescaleSpec => []NeverShort
<1>1. RescaleInvariant => NeverShort
  <2> SUFFICES ASSUME RescaleInvariant, status = "RUNNING", resizes = 0, ~overlapped, ~borrowed PROVE MadeUp
    BY DEF NeverShort
  <2>1. RescaleTyped /\ Orderly /\ Balanced /\ Calm
    BY DEF RescaleInvariant, Calm
  <2>2. OneList
    BY <2>1 DEF Orderly, OneList
  <2>3. Coming \in Nat
    BY <2>1, <2>2, ComingIs DEF Summed
  <2>4. replicas \in Nat /\ ended \in Nat
    BY <2>1, RescaleConstants DEF RescaleTyped, RescaleTypeOK
  <2>5. Cardinality(live) \in Nat /\ Cardinality(Staying) \in Nat /\ Cardinality(Staying) <= Cardinality(live)
    <3>1. live \in SUBSET Jobs /\ Staying \in SUBSET Jobs /\ Staying \subseteq live
      BY <2>1 DEF RescaleTyped, RescaleTypeOK, Staying
    <3> QED
      BY <3>1, Counts
  <2>6. CASE Uncut = {}
    BY <2>1, <2>3, <2>4, <2>5, <2>6 DEF Balanced, Kept, MadeUp
  <2>7. CASE Uncut # {}
    <3>1. PICK t \in Uncut : t \in Slots
      BY <2>1, <2>7, Kinds DEF Uncut
    <3>2. task[t].limit \in Nat
      BY <2>1, <3>1, RescaleConstants DEF RescaleTyped, RescaleTypeOK
    <3>3. Cardinality(live) + ended >= replicas + task[t].limit
      BY <2>1, <3>1 DEF Balanced, ToTrim
    <3> QED
      BY <2>3, <2>4, <2>5, <3>2, <3>3 DEF MadeUp
  <2> QED
    BY <2>6, <2>7
<1> QED
  BY <1>1, RescaleHolds, PTL

(* When nothing is queued any more, no more jobs are alive than replicas.    *)
THEOREM NeverRunsOver == RescaleSpec => []NeverOver
<1>1. RescaleInvariant => NeverOver
  <2> SUFFICES ASSUME RescaleInvariant, status = "RUNNING", Quiet, ~overlapped
               PROVE Cardinality(live) <= replicas
    BY DEF NeverOver
  <2>1. RescaleTyped /\ Orderly /\ Balanced /\ Calm
    BY DEF RescaleInvariant, Calm
  <2>2. Stored = {} /\ swaps = {} /\ resizes = 0
    BY DEF Quiet
  <2>3. Lists = {} /\ Uncut = {} /\ \A t \in Slots : task[t] = NoTask
    BY <2>2 DEF Lists, Uncut, Trims, Stored
  <2>4. Doomed = {}
    BY <2>2, <2>3, NoTaskDoc, RescaleConstants DEF Doomed
  <2>5. Staying = live
    BY <2>4 DEF Staying
  <2>6. Coming = 0
    BY <2>1, <2>3, ComingIs DEF OneList, Summed
  <2>7. Kept
    BY <2>1, <2>2, <2>3 DEF Balanced
  <2>8. Cardinality(live) \in Nat
    BY <2>1, CountTyped DEF RescaleTyped
  <2> QED
    BY <2>5, <2>6, <2>7, <2>8 DEF Kept
<1> QED
  BY <1>1, RescaleHolds, PTL
=============================================================================
