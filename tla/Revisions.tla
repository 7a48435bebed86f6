----------------------------- MODULE Revisions -----------------------------
(* One deployment's revisions and SSH keys under concurrent API requests.    *)
(*                                                                           *)
(* The keys live on the deployment, the job definition on a revision, and a  *)
(* job is posted with the active revision's pin: the definition with the     *)
(* deployment's keys merged in (ssh/jobDefinition.ts injectSsh).  So the     *)
(* routes that change the keys or the active revision each write the pin     *)
(* and the deployment, from the copy of the deployment that the middleware   *)
(* read when the request came in.  A pin is modelled as the keys it carries, *)
(* and a revision by its number; markets, endpoints and timeouts are left    *)
(* out.                                                                      *)
EXTENDS Naturals, FiniteSets

CONSTANTS
  Requests,      \* concurrent requests, on any API replica
  Keys,          \* SSH public keys
  None,
  MaxRevision,   \* bound: revision numbers
  MaxRequests,   \* bound: requests served
  MaxFaults      \* bound: requests that fail between two steps, refused pushes

ASSUME RevisionsAssumption ==
  /\ MaxRevision \in Nat \ {0}
  /\ MaxRequests \in Nat /\ MaxFaults \in Nat
  /\ \A ks \in SUBSET Keys : ks # None

Numbers == 1..MaxRevision

(* What a request asks for.  A definition submitted without an `ssh` block   *)
(* carries no keys.                                                          *)
Asked ==
  [op : {"revise"}, arg : SUBSET Keys]
    \union [op : {"add", "revoke"}, arg : (SUBSET Keys) \ {{}}]
    \union [op : {"activate"}, arg : Numbers]
    \union [op : {"duplicate"}, arg : {None}]

VARIABLES
  confidential, \* the deployment's; its definitions are never pinned
  stored,       \* the deployment exists
  active,       \* active_revision
  keys,         \* ssh_public_keys
  pin,          \* of each number: the keys in the revision's pin, None = no such revision
  copy,         \* the duplicate: none, revision (only), whole
  req,          \* of each request: what it asked and where it is
  job,          \* a job: [state, held, keys], listing = its task froze the pin,
                \* state = its row's, held = its node has the definition
  served, faults,
  \* History, read by the properties only.
  wanted,       \* the keys that the last requests to name them asked for
  missed,       \* of each request: the keys that others named and wrote since it began
  overruled,    \* the keys one of these has put back or taken out since
  raced,        \* a request wrote from a copy others had outdated, or was cut short
  adrift,       \* the job was passed by when the keys changed
  orphaned      \* a request was cut short past its insert of a revision

vars == <<confidential, stored, active, keys, pin, copy, req, job, served, faults,
          wanted, missed, overruled, raced, adrift, orphaned>>
deployment == <<confidential, stored, active, keys>>
intent == <<wanted, missed, overruled>>
history == <<intent, raced, adrift, orphaned>>

Idle == [pc |-> "idle"]
Live(r) == req[r] # Idle
AllIdle == \A r \in Requests : ~Live(r)
NoJob == [state |-> "none", held |-> FALSE, keys |-> {}]

TypeOK ==
  /\ confidential \in BOOLEAN /\ stored \in BOOLEAN
  /\ active \in Numbers /\ keys \subseteq Keys
  /\ pin \in [Numbers -> (SUBSET Keys) \union {None}]
  /\ copy \in {"none", "revision", "whole"}
  /\ job \in [state : {"none", "listing", "queued", "running"}, held : BOOLEAN,
             keys : SUBSET Keys]
  /\ \A r \in Requests : Live(r) =>
       /\ req[r].asked \in Asked
       /\ req[r].pc \in {"look", "pin", "insert", "write", "jobs", "push"}
       /\ req[r].act \in Numbers /\ req[r].old \subseteq Keys
  /\ wanted \subseteq Keys /\ missed \in [Requests -> SUBSET Keys] /\ overruled \subseteq Keys
  /\ raced \in BOOLEAN /\ adrift \in BOOLEAN /\ orphaned \in BOOLEAN

------------------------------------------------------------------------------
(* POST /create: the deployment and revision 1 in one transaction.           *)

Init ==
  /\ confidential \in BOOLEAN
  /\ stored = TRUE /\ active = 1
  /\ keys \in SUBSET Keys
  /\ pin = [n \in Numbers |-> IF n > 1 THEN None ELSE IF confidential THEN {} ELSE keys]
  /\ copy = "none"
  /\ req = [r \in Requests |-> Idle]
  /\ job = NoJob
  /\ served = 0 /\ faults = 0
  /\ wanted = keys /\ missed = [r \in Requests |-> {}] /\ overruled = {}
  /\ raced = FALSE /\ adrift = FALSE /\ orphaned = FALSE

Fault == faults < MaxFaults /\ faults' = faults + 1

(* A request is alone while no other is being served.                        *)
Enter(r, record) ==
  req' = [q \in Requests |->
           IF q = r THEN record
           ELSE IF Live(q) THEN [req[q] EXCEPT !.alone = FALSE] ELSE Idle]
At(r, ops, pc) == Live(r) /\ req[r].asked.op \in ops /\ req[r].pc = pc
Goto(r, pc) == req' = [req EXCEPT ![r].pc = pc]
Finish(r) == req' = [req EXCEPT ![r] = Idle]

(* What the request read is no longer so.                                    *)
Outdated(r) == req[r].act # active \/ req[r].old # keys

(* Another request has pinned this revision and is about to make it count.   *)
Contested(r) ==
  \E q \in Requests \ {r} :
    At(q, {"revise", "activate", "add", "revoke"}, "write") /\ req[q].n = req[r].n

(* A change of the keys names those it adds or revokes; a definition that    *)
(* comes with keys names them all, and one without, none.                    *)
Named(r) == CASE req[r].asked.op \in {"add", "revoke"} -> req[r].asked.arg
              [] req[r].asked.op = "revise" /\ req[r].asked.arg # {} -> Keys
              [] OTHER -> {}

(* r writes the keys ks, and with the others it carries along may undo what  *)
(* was written since it began.                                               *)
Undone(r, ks) == {k \in missed[r] \ Named(r) : ~(k \in ks <=> k \in keys)}
Overrule(r, ks) ==
  /\ overruled' = (overruled \ Named(r)) \union Undone(r, ks)
  /\ missed' = [q \in Requests |-> IF Live(q) THEN missed[q] \union Named(r) ELSE {}]

(* A write from an outdated copy leaves the pin and the keys to chance; a    *)
(* request served alone puts them right again.                               *)
Judge(r) == raced' = (~req[r].alone /\ (raced \/ Outdated(r)))

------------------------------------------------------------------------------
(* getDeploymentMiddleware reads the deployment, then the handler starts.    *)

Begin(r) ==
  /\ ~Live(r) /\ stored /\ served < MaxRequests
  /\ \E a \in Asked :
       Enter(r, [pc |-> "look", asked |-> a, act |-> active, old |-> keys, n |-> 1,
                 alone |-> AllIdle])
  /\ missed' = [q \in Requests |-> IF q # r /\ Live(q) THEN missed[q] ELSE {}]
  /\ served' = served + 1
  /\ UNCHANGED <<deployment, pin, copy, job, faults, wanted, overruled, raced, adrift, orphaned>>

(* An await fails, or the process ends: what was written stays, the rest is  *)
(* not done.  A push that no node answers ends the request the same way.     *)
CutShort(r) ==
  /\ Fault
  /\ Live(r)
  /\ Finish(r)
  /\ raced' = (raced \/ At(r, {"add", "revoke"}, "write"))
  /\ adrift' = (adrift \/ At(r, {"add", "revoke"}, "jobs") \/ At(r, {"add", "revoke"}, "push"))
  /\ orphaned' = (orphaned \/ At(r, {"revise", "duplicate"}, "write"))
  /\ UNCHANGED <<deployment, pin, copy, job, served, intent>>

------------------------------------------------------------------------------
(* POST /:deployment/create-revision                                         *)

Highest == CHOOSE n \in Numbers \union {0} :
             /\ n > 0 => pin[n] # None
             /\ \A m \in Numbers : m > n => pin[m] = None
ReadLatest(r) ==
  LET n == IF Highest = 0 THEN req[r].act + 1 ELSE Highest + 1
  IN /\ At(r, {"revise"}, "look")
     /\ n \in Numbers
     /\ req' = [req EXCEPT ![r].n = n, ![r].pc = "insert"]
     /\ UNCHANGED <<deployment, pin, copy, job, served, faults, history>>

(* Keys submitted with the definition, or else the current ones.             *)
SubmittedOnly(r) == req[r].asked.arg
Effective(r) == IF req[r].asked.arg = {} THEN req[r].old ELSE req[r].asked.arg
Pinned(ks) == IF confidential THEN {} ELSE ks

(* The number is unique (migration 12): of two requests that read the same   *)
(* latest revision one fails.                                                *)
InsertRevision(r) ==
  /\ At(r, {"revise"}, "insert")
  /\ IF pin[req[r].n] = None
       THEN /\ pin' = [pin EXCEPT ![req[r].n] = Pinned(Effective(r))]
            /\ Goto(r, "write")
       ELSE Finish(r) /\ UNCHANGED pin
  /\ UNCHANGED <<deployment, copy, job, served, faults, history>>

(* ssh_public_keys is written whenever the effective set is not empty, the   *)
(* request's own copy included.  No running job is told.                     *)
KeysWith(r) == IF Effective(r) = {} THEN keys ELSE Effective(r)
MakeActive(r) ==
  /\ At(r, {"revise"}, "write")
  /\ stored
  /\ active' = req[r].n
  /\ keys' = KeysWith(r)
  /\ wanted' = IF req[r].asked.arg # {} THEN req[r].asked.arg ELSE wanted
  /\ Overrule(r, KeysWith(r))
  /\ Judge(r)
  /\ adrift' = (adrift \/ (keys' # keys /\ job # NoJob))
  /\ Finish(r)
  /\ UNCHANGED <<confidential, stored, pin, copy, job, served, faults, orphaned>>

(* The deployment went away under the request: so does its new revision.     *)
LeaveRevision(r) == UNCHANGED pin
RemoveRevision(r) == pin' = [pin EXCEPT ![req[r].n] = None]
DeploymentGone(r) ==
  /\ At(r, {"revise"}, "write")
  /\ ~stored
  /\ RemoveRevision(r)
  /\ Finish(r)
  /\ UNCHANGED <<deployment, copy, job, served, faults, history>>

------------------------------------------------------------------------------
(* PATCH /:deployment/update-active-revision                                 *)

FindRevision(r) ==
  LET n == req[r].asked.arg
  IN /\ At(r, {"activate"}, "look")
     /\ IF pin[n] # None /\ n # req[r].act
          THEN req' = [req EXCEPT ![r].n = n, ![r].pc = "pin"]
          ELSE Finish(r)
     /\ UNCHANGED <<deployment, pin, copy, job, served, faults, history>>

(* The revision is pinned again with the keys the request read.              *)
PinAgain(r, ks) ==
  pin' = IF pin[req[r].n] = None \/ confidential THEN pin ELSE [pin EXCEPT ![req[r].n] = ks]
RepinTarget(r) ==
  /\ At(r, {"activate"}, "pin")
  /\ PinAgain(r, req[r].old)
  /\ Goto(r, "write")
  /\ raced' = (raced \/ (Outdated(r) /\ req[r].n = active) \/ Contested(r))
  /\ UNCHANGED <<deployment, copy, job, served, faults, intent, adrift, orphaned>>

Swap(r) ==
  /\ At(r, {"activate"}, "write")
  /\ IF stored /\ active # req[r].n
       THEN /\ active' = req[r].n
            /\ Judge(r)
       ELSE UNCHANGED <<active, raced>>
  /\ Finish(r)
  /\ UNCHANGED <<confidential, stored, keys, pin, copy, job, served, faults, intent, adrift, orphaned>>

------------------------------------------------------------------------------
(* POST and DELETE /:deployment/ssh-keys, and commitDeploymentSshKeys.       *)

KeyOps == {"add", "revoke"}
Applied(r, ks) == IF req[r].asked.op = "add" THEN ks \union req[r].asked.arg ELSE ks \ req[r].asked.arg
Replaced(r) == req[r].asked.arg
NextKeys(r) == Applied(r, req[r].old)

(* Nothing to change, or the active revision is gone: the request answers.   *)
FindActive(r) ==
  /\ At(r, KeyOps, "look")
  /\ IF NextKeys(r) # req[r].old /\ (confidential \/ pin[req[r].act] # None)
       THEN req' = [req EXCEPT ![r].n = req[r].act, ![r].pc = "pin"]
       ELSE Finish(r)
  /\ UNCHANGED <<deployment, pin, copy, job, served, faults, history>>

RepinActive(r) ==
  /\ At(r, KeyOps, "pin")
  /\ PinAgain(r, NextKeys(r))
  /\ Goto(r, "write")
  /\ raced' = (raced \/ Outdated(r) \/ Contested(r))
  /\ UNCHANGED <<deployment, copy, job, served, faults, intent, adrift, orphaned>>

(* updateOne is acknowledged whether or not the deployment is still there.   *)
WriteKeys(r) ==
  /\ At(r, KeyOps, "write")
  /\ IF stored
       THEN /\ keys' = NextKeys(r)
            /\ wanted' = Applied(r, wanted)
            /\ Overrule(r, NextKeys(r))
            /\ Judge(r)
       ELSE UNCHANGED <<keys, intent, raced>>
  /\ Goto(r, "jobs")
  /\ adrift' = (adrift \/ raced' \/ \E q \in Requests \ {r} : At(q, KeyOps, "jobs") \/ At(q, KeyOps, "push"))
  /\ UNCHANGED <<confidential, stored, active, pin, copy, job, served, faults, orphaned>>

(* The nodes of the jobs whose rows are RUNNING now are told.  Any other job *)
(* that starts with what it was posted with, or whose node has already       *)
(* fetched what it starts with, keeps that.                                  *)
KeysGiven == job # NoJob /\ (job.held \/ ~confidential)
TellNobody(r) ==
  /\ At(r, KeyOps, "jobs")
  /\ Finish(r)
  /\ UNCHANGED <<deployment, pin, copy, job, served, faults, history>>
FindRunning(r) ==
  /\ At(r, KeyOps, "jobs")
  /\ IF job.state = "running" THEN Goto(r, "push") ELSE Finish(r)
  /\ adrift' = (adrift \/ (KeysGiven /\ job.state # "running" /\ Applied(r, job.keys) # job.keys))
  /\ UNCHANGED <<deployment, pin, copy, job, served, faults, intent, raced, orphaned>>

(* A node that has not started the job refuses.                              *)
Push(r) ==
  /\ At(r, KeyOps, "push")
  /\ job' = IF job.state = "running" /\ job.held THEN [job EXCEPT !.keys = Applied(r, @)] ELSE job
  /\ adrift' = (adrift \/ (KeysGiven /\ ~job.held))
  /\ Finish(r)
  /\ UNCHANGED <<deployment, pin, copy, served, faults, intent, raced, orphaned>>

------------------------------------------------------------------------------
(* POST /:deployment/duplicate: the copy's revision, then the copy.          *)

FindSource(r) ==
  /\ At(r, {"duplicate"}, "look")
  /\ IF pin[req[r].act] # None /\ copy = "none" THEN Goto(r, "insert") ELSE Finish(r)
  /\ UNCHANGED <<deployment, pin, copy, job, served, faults, history>>
InsertCopyRevision(r) ==
  /\ At(r, {"duplicate"}, "insert")
  /\ copy = "none"
  /\ copy' = "revision"
  /\ Goto(r, "write")
  /\ UNCHANGED <<deployment, pin, job, served, faults, history>>
InsertCopy(r) ==
  /\ At(r, {"duplicate"}, "write")
  /\ copy' = "whole"
  /\ Finish(r)
  /\ UNCHANGED <<deployment, pin, job, served, faults, history>>

------------------------------------------------------------------------------
(* DELETE /:deployment of a stopped deployment: one transaction.             *)
Delete ==
  /\ stored /\ job = NoJob
  /\ stored' = FALSE
  /\ pin' = [n \in Numbers |-> None]
  /\ UNCHANGED <<confidential, active, keys, copy, req, job, served, faults, history>>

(* LIST freezes the pin of the active revision on its task, and posts it.    *)
ResolvedPin == pin[active]
Freeze ==
  /\ stored /\ job = NoJob /\ ResolvedPin # None
  /\ job' = [state |-> "listing", held |-> FALSE, keys |-> ResolvedPin]
  /\ adrift' = (raced \/ \E r \in Requests : Live(r) /\ req[r].asked.op # "duplicate")
  /\ UNCHANGED <<deployment, pin, copy, req, served, faults, intent, raced, orphaned>>
Post ==
  /\ job.state = "listing"
  /\ job' = [job EXCEPT !.state = "queued"]
  /\ UNCHANGED <<deployment, pin, copy, req, served, faults, history>>

(* The node that took the job starts it, before or after its row says so:    *)
(* with the definition posted, or, of a confidential deployment, with the    *)
(* one and the keys it fetches, whatever the row's state.                    *)
Fetch ==
  /\ job.state \in {"queued", "running"} /\ ~job.held
  /\ job' = [job EXCEPT !.held = TRUE, !.keys = IF confidential THEN keys ELSE @]
  /\ UNCHANGED <<deployment, pin, copy, req, served, faults, history>>

(* The account's event makes the row RUNNING.                                *)
Run ==
  /\ job.state = "queued"
  /\ job' = [job EXCEPT !.state = "running"]
  /\ UNCHANGED <<deployment, pin, copy, req, served, faults, history>>
End ==
  /\ job.state = "running"
  /\ job' = NoJob
  /\ adrift' = FALSE
  /\ UNCHANGED <<deployment, pin, copy, req, served, faults, intent, raced, orphaned>>

------------------------------------------------------------------------------
Revise(r) == ReadLatest(r) \/ InsertRevision(r) \/ MakeActive(r) \/ DeploymentGone(r)
Activate(r) == FindRevision(r) \/ RepinTarget(r) \/ Swap(r)
ChangeKeys(r) == FindActive(r) \/ RepinActive(r) \/ WriteKeys(r) \/ FindRunning(r) \/ Push(r)
Duplicate(r) == FindSource(r) \/ InsertCopyRevision(r) \/ InsertCopy(r)

Next ==
  \/ \E r \in Requests :
       \/ Begin(r) \/ CutShort(r)
       \/ Revise(r) \/ Activate(r) \/ ChangeKeys(r) \/ Duplicate(r)
  \/ Delete \/ Freeze \/ Post \/ Fetch \/ Run \/ End

Spec == Init /\ [][Next]_vars

------------------------------------------------------------------------------
(* Properties. *)

(* Between requests, what LIST would post carries the deployment's keys,     *)
(* whichever revision is active by which way, unless requests raced.         *)
PinsCurrent ==
  stored /\ AllIdle /\ ~confidential /\ ~raced => pin[active] = keys

(* A key is held exactly when the last written request to name it asked for  *)
(* it.  Only a request that was already in flight when that one was written  *)
(* can put a revoked key back or drop an added one, with the copy it carries *)
(* along; once these have ended, the key stays as asked until it is named    *)
(* again, through every create-revision, roll back and change of other keys. *)
KeysAsAsked == stored => \A k \in Keys \ overruled : k \in keys <=> k \in wanted

(* The active revision of a deployment is stored, and no revision outlives   *)
(* its deployment or comes without one.                                      *)
NoOrphans ==
  /\ stored => pin[active] # None
  /\ AllIdle /\ ~orphaned => /\ ~stored => \A n \in Numbers : pin[n] = None
                             /\ copy # "revision"

(* A started job can be entered with the deployment's keys and no others,    *)
(* unless the keys changed where it was passed by.                           *)
JobHasKeys == job.held /\ AllIdle /\ ~adrift => job.keys = keys

------------------------------------------------------------------------------
(* Of the documentation; the code does not meet them. *)

(* A revoked key leaves the deployment's set: between requests none is held  *)
(* that the last one to name it revoked (deploymentRevokeSshKeys).           *)
RevokedIsGone == stored /\ AllIdle => keys \subseteq wanted

(* Access stops at once: between requests that did not race, no confidential *)
(* job that its node has started accepts a key the deployment does not hold  *)
(* (deploymentRevokeSshKeys).                                                *)
AccessStops == confidential /\ job.held /\ AllIdle /\ ~raced => job.keys \subseteq keys
=============================================================================
