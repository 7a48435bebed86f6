------------------------------- MODULE Startup -------------------------------
(****************************************************************************)
(* One job of a RUNNING deployment of the INFINITE strategy that has a      *)
(* startup timeout, and its tunnel.  Three writers share the job's one STOP *)
(* task and its startup_deadline marker, and none of them holds a lock: the *)
(* RUNNING callback of the jobs listener (armStartupDeadline), the FRPS     *)
(* handlers (frpsRegisterHandler, frpsUnregisterHandler), which run one at  *)
(* a time in the order of the stream, and the callbacks of the job's end.   *)
(* Every write of theirs is a step here.  What the end of the job does to   *)
(* the deployment is Infinite's.                                            *)
(****************************************************************************)
EXTENDS Integers, Sequences, SequencesExt

CONSTANTS
  MaxEvents   \* bound on the events of the stream not handled yet

ASSUME StartupAssumption == MaxEvents \in Nat \ {0}

VARIABLES
  active,     \* the deployment is RUNNING (isActiveInfiniteDeployment)
  chain,      \* the job on chain: queued, running, ended, stopped
  row,        \* the state of its row
  writes,     \* change events that wrote the row's state, not delivered yet
  marker,     \* the row carries startup_deadline
  stop,       \* the job's STOP task that is not claimed: none, pending, or due
  stopping,   \* a STOP of the job is being run
  arming,     \* the next step of the RUNNING callback
  verdict,    \* what the end of the job counted it as: none, late, plain
  tunnel,     \* the tunnel's own history, its last two events
  stream,     \* events the FRPS listener has not handled yet
  frps,       \* the next step of the FRPS handler in progress
  up          \* the recorded endpoint status is "up"

job == <<chain, row, writes, verdict>>
proxy == <<tunnel, stream, frps, up>>
tasks == <<stop, stopping>>
vars == <<active, job, marker, tasks, arming, proxy>>

Settled == {"COMPLETED", "STOPPED"}
Running == row = "RUNNING"
Events == {"registered", "lost", "graceful"}

TypeOK ==
  /\ active \in BOOLEAN
  /\ chain \in {"queued", "running", "ended", "stopped"}
  /\ row \in {"QUEUED", "RUNNING"} \cup Settled
  /\ writes \in 0..2 /\ verdict \in {"none", "late", "plain"}
  /\ marker \in BOOLEAN /\ stop \in {"none", "pending", "due"} /\ stopping \in BOOLEAN
  /\ arming \in {"idle", "insert", "mark", "read", "disarm", "unmark"}
  /\ frps \in {"idle", "disarm", "unmark", "grace"}
  /\ tunnel \in Seq(Events) /\ Len(tunnel) <= 2
  /\ stream \in Seq(Events) /\ Len(stream) <= MaxEvents
  /\ up \in BOOLEAN

Init ==
  /\ active = TRUE
  /\ chain = "queued" /\ row = "QUEUED" /\ writes = 0 /\ verdict = "none"
  /\ marker = FALSE /\ stop = "none" /\ stopping = FALSE /\ arming = "idle"
  /\ tunnel = <<>> /\ stream = <<>> /\ frps = "idle" /\ up = FALSE

-----------------------------------------------------------------------------
(* The job on chain, its row, and the events of its row. *)

OnChain(from, to) ==
  /\ chain = from /\ chain' = to
  /\ UNCHANGED <<active, row, writes, verdict, marker, tasks, arming, proxy>>

Take == OnChain("queued", "running")
End == OnChain("running", "ended")

Shown == CASE chain = "queued" -> "QUEUED"   [] chain = "running" -> "RUNNING"
           [] chain = "ended" -> "COMPLETED" [] chain = "stopped" -> "STOPPED"

(* onJobUpdate: a row that has settled is not written again. *)
Observe ==
  /\ row \notin Settled /\ Shown # row
  /\ row' = Shown /\ writes' = writes + 1
  /\ UNCHANGED <<active, chain, verdict, marker, tasks, arming, proxy>>

(* An event carries the row as it is on delivery: a write of RUNNING can     *)
(* come out as one more end.  An end drops the job's STOP, whatever its      *)
(* status (jobAllActiveJobsStop), and counts the job by its marker.          *)
Deliver ==
  /\ writes > 0 /\ writes' = writes - 1
  /\ \/ /\ Running
        /\ arming' = IF active THEN "insert" ELSE arming
        /\ UNCHANGED <<stop, verdict>>
     \/ /\ row \in Settled
        /\ stop' = "none"
        /\ verdict' = IF ~active THEN verdict ELSE IF marker THEN "late" ELSE "plain"
        /\ UNCHANGED arming
  /\ UNCHANGED <<active, chain, row, marker, stopping, proxy>>

-----------------------------------------------------------------------------
(* The STOP task: scheduleTask is idempotent by job among the PENDING ones,  *)
(* disarmStartupDeadline deletes one that is not due, then the marker.       *)

Inserts == stop = "none"
StopInserted == stop' = IF stop = "none" THEN "pending" ELSE stop
Cancels == stop = "pending"
StopDeleted == stop' = IF Cancels THEN "none" ELSE stop

Elapse ==
  /\ stop = "pending" /\ stop' = "due"
  /\ UNCHANGED <<active, job, marker, stopping, arming, proxy>>

Claim ==
  /\ stop = "due" /\ ~stopping
  /\ stop' = "none" /\ stopping' = TRUE
  /\ UNCHANGED <<active, job, marker, arming, proxy>>

Stopped ==
  /\ chain' = IF chain \in {"queued", "running"} THEN "stopped" ELSE chain
  /\ row' = IF row \in Settled THEN row ELSE "STOPPED"
  /\ writes' = IF row \in Settled THEN writes ELSE writes + 1

(* A targeted STOP ends the job and settles its row (onStopExit). *)
RunStop ==
  /\ stopping /\ stopping' = FALSE /\ Stopped
  /\ UNCHANGED <<active, verdict, marker, stop, arming, proxy>>

(* A STOP of another kind (a trim, a swap, a full stop) ends it as well; the *)
(* deployment's lock keeps it apart from the job's own.                      *)
OtherStop ==
  /\ ~stopping /\ row \notin Settled /\ Stopped
  /\ UNCHANGED <<active, verdict, marker, tasks, arming, proxy>>

(* The deployment leaves RUNNING. *)
Deactivate ==
  /\ active /\ active' = FALSE
  /\ UNCHANGED <<job, marker, tasks, arming, proxy>>

-----------------------------------------------------------------------------
(* armStartupDeadline: the insert, the marker, the read of the tunnel, and   *)
(* the disarming of a job that is online already.                            *)

Arm(from, to) ==
  /\ arming = from /\ arming' = to
  /\ UNCHANGED <<active, job, stopping, proxy>>

ArmReadInverted == Arm("read", "disarm") /\ UNCHANGED <<marker, stop>>
ArmReadBlind == Arm("read", "idle") /\ UNCHANGED <<marker, stop>>
ArmMarkSkipped == Arm("mark", "read") /\ UNCHANGED <<marker, stop>>

ArmInsert == Arm("insert", IF Inserts THEN "mark" ELSE "idle") /\ StopInserted /\ UNCHANGED marker
ArmMark == Arm("mark", "read") /\ marker' = TRUE /\ UNCHANGED stop
ArmRead == Arm("read", IF up THEN "disarm" ELSE "idle") /\ UNCHANGED <<marker, stop>>
ArmDisarm == Arm("disarm", IF Cancels THEN "unmark" ELSE "idle") /\ StopDeleted /\ UNCHANGED marker
ArmUnmark == Arm("unmark", "idle") /\ marker' = FALSE /\ UNCHANGED stop

Arming == ArmInsert \/ ArmMark \/ ArmRead \/ ArmDisarm \/ ArmUnmark

-----------------------------------------------------------------------------
(* The tunnel, the stream of its events, and the FRPS listener. *)

Connected == tunnel # <<>> /\ Last(tunnel) = "registered"
Latest(h) == SubSeq(h, IF Len(h) > 2 THEN Len(h) - 1 ELSE 1, Len(h))

Emit(e) ==
  /\ Len(stream) < MaxEvents /\ stream' = Append(stream, e)
  /\ tunnel' = Latest(Append(tunnel, e))
  /\ UNCHANGED <<active, job, marker, tasks, arming, frps, up>>

(* A tunnel comes up while the job runs on chain, perhaps before its row     *)
(* says so; it is lost, or closes gracefully (the end of an op).             *)
Connect == chain = "running" /\ ~Connected /\ Emit("registered")
Disconnect == Connected /\ \E e \in {"lost", "graceful"} : Emit(e)

(* On a reconnect the server sends the last events of the proxy again: those *)
(* not handled yet were sent to the connection that is gone.                 *)
Reconnect ==
  /\ Len(tunnel) <= MaxEvents /\ stream' = tunnel
  /\ UNCHANGED <<active, job, marker, tasks, arming, tunnel, frps, up>>

(* recordEndpointState comes first in either handler. *)
Handle ==
  /\ frps = "idle" /\ stream # <<>> /\ stream' = Tail(stream)
  /\ up' = (Head(stream) = "registered")
  /\ frps' = CASE Head(stream) = "registered" -> "disarm"
               [] Head(stream) = "lost" -> "grace"
               [] OTHER -> "idle"
  /\ UNCHANGED <<active, job, marker, tasks, arming, tunnel>>

FrpsStep(from, to) ==
  /\ frps = from /\ frps' = to
  /\ UNCHANGED <<active, job, stopping, arming, tunnel, stream, up>>

RegisterDisarm == FrpsStep("disarm", IF Cancels THEN "unmark" ELSE "idle") /\ StopDeleted /\ UNCHANGED marker
RegisterUnmark == FrpsStep("unmark", "idle") /\ marker' = FALSE /\ UNCHANGED stop

(* frpsUnregisterHandler: a grace STOP, unless the job has settled. *)
Grace ==
  /\ FrpsStep("grace", "idle")
  /\ IF active /\ row \notin Settled THEN StopInserted ELSE UNCHANGED stop
  /\ UNCHANGED marker

Frps == Handle \/ RegisterDisarm \/ RegisterUnmark \/ Grace

-----------------------------------------------------------------------------
Stops == Claim \/ RunStop

Next ==
  \/ Take \/ End \/ Observe \/ Deliver
  \/ Elapse \/ Stops \/ OtherStop \/ Deactivate
  \/ Arming \/ Connect \/ Disconnect \/ Reconnect \/ Frps

(* The listeners, the clock and the consumers go on; nodes, tunnels and      *)
(* users need not.                                                           *)
Fairness ==
  /\ WF_vars(Observe) /\ WF_vars(Deliver) /\ WF_vars(Arming)
  /\ WF_vars(Elapse) /\ WF_vars(Stops) /\ WF_vars(Frps)

Spec == Init /\ [][Next]_vars
LiveSpec == Spec /\ Fairness

-----------------------------------------------------------------------------
(* Properties. *)

Handled == stream = <<>> /\ frps = "idle"
Rests == writes = 0 /\ arming = "idle"

(* A job that is online, its events handled and its callback through, has no *)
(* STOP that waits for its time: the arming, which reads the tunnel after    *)
(* its insert, or the register handler, which deletes what it finds, removes *)
(* it, whichever came first ("a job that is already online can never keep an *)
(* armed stop", armStartupDeadline.ts).                                      *)
OnlineDisarmed == active /\ up /\ Running /\ Handled /\ Rests => stop # "pending"

(* A job whose tunnel never came up keeps the STOP its RUNNING callback      *)
(* armed until that runs, and the marker by which its end will count as a    *)
(* round of the fail-safe.                                                   *)
Unreached == tunnel = <<>>
OfflineArmed == active /\ Unreached /\ Running /\ Rests => (stop # "none" \/ stopping) /\ marker

(* So the startup deadline ends the job: its tunnel comes up, or it settles, *)
(* or the deployment is stopped, and then Deployment has what follows.       *)
DeadlineEnds == Running /\ Unreached ~> ~Unreached \/ row \in Settled \/ ~active

(* The marker "survives to here only on a job that never came online"        *)
(* (jobStateCompletedOrStopUpdate.ts:38), a STOP that was due excepted.      *)
MarkerOnlyOffline ==
  active /\ up /\ Running /\ Handled /\ Rests /\ marker => stop = "due" \/ stopping
==============================================================================
