---------------------------- MODULE ChangeStream ----------------------------
(* The change stream of one collection (client/listener): the position it    *)
(* was read up to is kept in the database, and whoever reads the collection  *)
(* next resumes after it.  Two kinds of process read it: the worker, whose   *)
(* callbacks schedule tasks (listeners/), and every API replica, which       *)
(* forwards changes to its open SSE connections (router/stream/).  Both are  *)
(* createCollectionListener with the collection's name as key, so all of     *)
(* them share one saved position.                                            *)
(*                                                                           *)
(* The collection holds one document, inserted by event 1 and updated by     *)
(* every later one: event number, stream position and document version are   *)
(* the same number.  Updates that touch no watched field are left out.       *)
EXTENDS Naturals, FiniteSets, FiniteSetsExt

CONSTANTS
  Apis,        \* the API replicas
  Conns,       \* clients that watch the document over SSE
  ApiOf,       \* the replica that answers a client
  None,
  MaxWrites,   \* bound: events of the collection
  MaxFaults    \* bound: crashes, stops, stream failures and failed callbacks

ASSUME StreamAssumption ==
  /\ IsFiniteSet(Apis) /\ IsFiniteSet(Conns)
  /\ ApiOf \in [Conns -> Apis]
  /\ MaxWrites \in Nat \ {0}
  /\ MaxFaults \in Nat

Worker == "worker"
Procs == {Worker} \union Apis
ASSUME WorkerIsNoApi == Worker \notin Apis

Events == 1..MaxWrites
Positions == 0..MaxWrites
(* Names of the sets of listeners.  Only a fault ends a set that late        *)
(* `close` events can still name, so these are enough for a new one.         *)
Sets == 1..(Cardinality(Conns) + MaxFaults + 1)

VARIABLES
  written,  \* events so far, the version of the document
  oldest,   \* positions before this one are no longer held by the server
  saved,    \* change_stream_resume_tokens: the position, or None
  up,       \* of each process: down, reading the position, resuming, open, failed
  pos,      \* stream.resumeToken: delivered up to here
  ckpt,     \* `checkpointed`: the position this process read or wrote last
  fresh,    \* resumed from a position, and nothing delivered since
  busy,     \* events whose callbacks run in the worker
  conn,     \* of each client: none, looking, open
  view,     \* the version its last frame (or its lookup) showed
  member,   \* the set of listeners its unwatch function holds, 0 = none
  ended,    \* those of its earlier connections that have not emitted `close` yet
  entry,    \* deploymentWatchers' map: the set of the document, 0 = none
  closing,  \* replicas past preClose
  faults,
  \* History, read by the properties only.
  savedBy,  \* who wrote the saved position
  reach,    \* the furthest event ever delivered to the worker
  handled,  \* events whose callbacks ran to their end
  lost,     \* events the worker will not handle, by cause
  blind     \* clients that may miss a change; see Subscribe, RestartFromNow

reading == <<up, pos, ckpt, fresh>>
store == <<written, oldest, saved, savedBy>>
work == <<busy, reach, handled, lost>>
sse == <<conn, view, member, ended, entry, closing, blind>>
vars == <<written, oldest, saved, up, pos, ckpt, fresh, busy, conn, view, member,
          ended, entry, closing, faults, savedBy, reach, handled, lost, blind>>

(* Why the worker may not handle an event: its callback was cut short by the *)
(* end of the process, or failed, an API's position lay beyond it, or there  *)
(* was no position to resume from.                                           *)
Causes == {"cut", "failed", "overtaken", "dropped"}
Lost == UNION {lost[c] : c \in Causes}

TypeOK ==
  /\ written \in Positions /\ oldest \in 0..written
  /\ saved \in Positions \union {None}
  /\ up \in [Procs -> {"down", "reading", "resuming", "open", "failed"}]
  /\ pos \in [Procs -> Positions] /\ ckpt \in [Procs -> Positions \union {None}]
  /\ fresh \in [Procs -> BOOLEAN]
  /\ busy \subseteq Events /\ handled \subseteq Events
  /\ conn \in [Conns -> {"none", "looking", "open"}]
  /\ view \in [Conns -> Positions] /\ member \in [Conns -> Sets \union {0}]
  /\ ended \in [Conns -> SUBSET Sets]
  /\ entry \in [Apis -> Sets \union {0}]
  /\ closing \subseteq Apis /\ blind \subseteq Conns
  /\ faults \in 0..MaxFaults
  /\ savedBy \in Procs \union {None} /\ reach \in Positions
  /\ lost \in [Causes -> SUBSET Events]

Init ==
  /\ written = 0 /\ oldest = 0
  /\ saved = None /\ savedBy = None
  /\ up = [p \in Procs |-> "down"]
  /\ pos = [p \in Procs |-> 0]
  /\ ckpt = [p \in Procs |-> None]
  /\ fresh = [p \in Procs |-> FALSE]
  /\ busy = {} /\ handled = {} /\ reach = 0
  /\ lost = [c \in Causes |-> {}]
  /\ conn = [k \in Conns |-> "none"]
  /\ view = [k \in Conns |-> 0]
  /\ member = [k \in Conns |-> 0]
  /\ ended = [k \in Conns |-> {}]
  /\ entry = [a \in Apis |-> 0]
  /\ closing = {} /\ blind = {}
  /\ faults = 0

Fault == faults < MaxFaults /\ faults' = faults + 1

(* The events e with i < e <= j. *)
After(i, j) == {e \in Events : i < e /\ e <= j}
Blame(cause, events) == [lost EXCEPT ![cause] = @ \union events]

------------------------------------------------------------------------------
(* The collection.                                                           *)

Write ==
  /\ written < MaxWrites
  /\ written' = written + 1
  /\ UNCHANGED <<oldest, saved, savedBy, reading, work, sse, faults>>

(* The server keeps its history for hours: only a reader that is not reading *)
(* can fall behind it.                                                       *)
Expire ==
  /\ \E o \in Positions :
       /\ oldest < o /\ o <= written
       /\ \A p \in Procs : up[p] = "open" => o <= pos[p]
       /\ oldest' = o
  /\ UNCHANGED <<written, saved, savedBy, reading, work, sse, faults>>

------------------------------------------------------------------------------
(* start, checkpoint and stop of a listener.                                 *)

(* The document is written when the position moved since this process read   *)
(* or wrote it -- whatever another process made of it in the meantime.       *)
Written(p) == written
Token(p)   == pos[p]
SaveMoved(p) ==
  IF Token(p) # ckpt[p]
    THEN saved' = Token(p) /\ savedBy' = p
    ELSE UNCHANGED <<saved, savedBy>>

(* A listener that is not reading has no state worth telling apart.          *)
Halt(p, s) ==
  /\ up' = [up EXCEPT ![p] = s]
  /\ pos' = [pos EXCEPT ![p] = 0]
  /\ ckpt' = [ckpt EXCEPT ![p] = None]
  /\ fresh' = [fresh EXCEPT ![p] = FALSE]

Start(p) ==
  /\ up[p] = "down"
  /\ Halt(p, "reading")
  /\ UNCHANGED <<store, work, sse, faults>>

(* checkpoints.findOne answers.                                              *)
ReadPosition(p) ==
  /\ up[p] = "reading"
  /\ up' = [up EXCEPT ![p] = "resuming"]
  /\ ckpt' = [ckpt EXCEPT ![p] = saved]
  /\ lost' = IF p = Worker /\ saved # None /\ savedBy # Worker
               THEN Blame("overtaken", After(reach, saved))
               ELSE lost
  /\ UNCHANGED <<pos, fresh, store, busy, reach, handled, sse, faults>>

Resume(p) ==
  /\ up[p] = "resuming" /\ ckpt[p] # None /\ ckpt[p] >= oldest
  /\ up' = [up EXCEPT ![p] = "open"]
  /\ pos' = [pos EXCEPT ![p] = ckpt[p]]
  /\ fresh' = [fresh EXCEPT ![p] = TRUE]
  /\ UNCHANGED <<ckpt, store, work, sse, faults>>

(* Nothing to resume after: the stream begins with what is written next.     *)
WatchFromNow(p) ==
  /\ up[p] = "resuming" /\ ckpt[p] = None
  /\ up' = [up EXCEPT ![p] = "open"]
  /\ pos' = [pos EXCEPT ![p] = written]
  /\ reach' = IF p = Worker THEN Max({reach, written}) ELSE reach
  /\ lost' = IF p = Worker THEN Blame("dropped", After(reach, written)) ELSE lost
  /\ UNCHANGED <<ckpt, fresh, store, busy, handled, sse, faults>>

(* The stream failed before it delivered anything, resumed from a position:  *)
(* the position is taken for one the server no longer holds, is deleted, and *)
(* start begins again.  Nobody is told, so open connections stay as they     *)
(* are.                                                                      *)
KeepPosition(p) ==
  /\ Halt(p, "reading")
  /\ UNCHANGED <<store, work, sse>>
RestartFromNow(p) ==
  /\ saved' = None /\ savedBy' = None
  /\ Halt(p, "reading")
  /\ blind' = blind \union {k \in Conns : ApiOf[k] = p /\ conn[k] = "open"}
  /\ UNCHANGED <<written, oldest, work, conn, view, member, ended, entry, closing>>

PositionGone(p) ==
  /\ up[p] = "resuming" /\ ckpt[p] # None /\ ckpt[p] < oldest
  /\ RestartFromNow(p)
  /\ UNCHANGED faults

QuietStreamFails(p) ==
  /\ Fault
  /\ up[p] = "open" /\ fresh[p]
  /\ RestartFromNow(p)

(* The interval, every ten seconds.                                          *)
Checkpoint(p) ==
  /\ up[p] = "open" /\ Token(p) # ckpt[p]
  /\ SaveMoved(p)
  /\ ckpt' = [ckpt EXCEPT ![p] = Token(p)]
  /\ UNCHANGED <<written, oldest, up, pos, fresh, work, sse, faults>>

------------------------------------------------------------------------------
(* The worker: callbacks are started in order and not awaited.               *)

Advance(p) ==
  /\ up[p] = "open" /\ pos[p] < written
  /\ pos' = [pos EXCEPT ![p] = @ + 1]
  /\ fresh' = [fresh EXCEPT ![p] = FALSE]

DeliverToWorker ==
  /\ Advance(Worker)
  /\ busy' = busy \union {pos[Worker] + 1}
  /\ reach' = Max({reach, pos[Worker] + 1})
  /\ UNCHANGED <<up, ckpt, store, handled, lost, sse, faults>>

CallbackDone(e) ==
  /\ e \in busy
  /\ busy' = busy \ {e}
  /\ handled' = handled \union {e}
  /\ lost' = [c \in Causes |-> lost[c] \ {e}]
  /\ UNCHANGED <<store, reading, reach, sse, faults>>

(* runCallback logs the failure; the event is not delivered again.           *)
CallbackFails(e) ==
  /\ Fault
  /\ e \in busy
  /\ busy' = busy \ {e}
  /\ lost' = Blame("failed", {e} \ handled)
  /\ UNCHANGED <<store, reading, reach, handled, sse>>

(* The process ends, and what its callbacks had not done stays undone.       *)
EndWorker ==
  /\ Halt(Worker, "down")
  /\ busy' = {}
  /\ lost' = Blame("cut", busy \ handled)
  /\ UNCHANGED <<written, oldest, reach, handled, sse>>

(* A crash; also a failure of a stream that is not quiet, which start throws *)
(* into a promise nobody handles.                                            *)
WorkerCrashes ==
  /\ Fault
  /\ up[Worker] # "down"
  /\ EndWorker
  /\ UNCHANGED <<saved, savedBy>>

(* shutdown: the listeners stop last, saving once more, and process.exit     *)
(* does not wait for their callbacks.                                        *)
WorkerStops ==
  /\ Fault
  /\ up[Worker] # "down"
  /\ EndWorker
  /\ IF up[Worker] = "open" THEN SaveMoved(Worker) ELSE UNCHANGED <<saved, savedBy>>

------------------------------------------------------------------------------
(* An API replica: SSE connections and the watchers they register in.        *)

Of(a) == {k \in Conns : ApiOf[k] = a}
MembersOf(a, s) == {k \in Of(a) : conn[k] = "open" /\ member[k] = s}

(* An insert carries the document inserted, an update the one looked up when *)
(* the server read the event: any version since.                             *)
Shown(e) == IF e = 1 THEN {1} ELSE e..written

DeliverToApi(a) ==
  /\ Advance(a)
  /\ \E v \in Shown(pos[a] + 1) :
       view' = [k \in Conns |-> IF k \in MembersOf(a, entry[a]) THEN v ELSE view[k]]
  /\ UNCHANGED <<up, ckpt, store, work, conn, member, ended, entry, closing, blind, faults>>

(* The middleware and the handler look the document up.                      *)
Connect(k) ==
  /\ conn[k] = "none" /\ written > 0
  /\ up[ApiOf[k]] # "down" /\ ApiOf[k] \notin closing
  /\ conn' = [conn EXCEPT ![k] = "looking"]
  /\ view' = [view EXCEPT ![k] = written]
  /\ UNCHANGED <<store, reading, work, member, ended, entry, closing, blind, faults>>

(* A lookup failed (503), or the client left while it ran.                   *)
GiveUp(k) ==
  /\ conn[k] = "looking"
  /\ conn' = [conn EXCEPT ![k] = "none"]
  /\ view' = [view EXCEPT ![k] = 0]
  /\ UNCHANGED <<store, reading, work, member, ended, entry, closing, blind, faults>>

(* deploymentWatchers.watch: into the document's set of listeners, or a new  *)
(* one.  What was delivered since the lookup is not replayed, and while the  *)
(* stream is not open there is nothing to hear: both leave the client blind. *)
NewSet == CHOOSE s \in Sets : \A j \in Conns : member[j] # s /\ s \notin ended[j]
Subscribe(k) ==
  LET a == ApiOf[k]
      s == IF entry[a] = 0 THEN NewSet ELSE entry[a]
  IN /\ conn[k] = "looking"
     /\ conn' = [conn EXCEPT ![k] = "open"]
     /\ entry' = [entry EXCEPT ![a] = s]
     /\ member' = [member EXCEPT ![k] = s]
     /\ blind' = IF up[a] # "open" \/ pos[a] > view[k] THEN blind \union {k} ELSE blind
     /\ UNCHANGED <<store, reading, work, view, ended, closing, faults>>

(* The function watch returned: the listener leaves its set, and the entry   *)
(* goes with the last of them -- unless the entry is another set by now.     *)
UnwatchAny(a, s, rest) == IF rest = {} THEN 0 ELSE entry[a]
Unwatch(a, s, rest)    == IF rest = {} /\ entry[a] = s THEN 0 ELSE entry[a]

(* The client leaves, and the socket's `close` event calls close().          *)
Leave(k) ==
  LET a == ApiOf[k]
  IN /\ conn[k] = "open"
     /\ entry' = [entry EXCEPT ![a] = Unwatch(a, member[k], MembersOf(a, member[k]) \ {k})]
     /\ conn' = [conn EXCEPT ![k] = "none"]
     /\ view' = [view EXCEPT ![k] = 0]
     /\ member' = [member EXCEPT ![k] = 0]
     /\ blind' = blind \ {k}
     /\ UNCHANGED <<store, reading, work, ended, closing, faults>>

(* A response that close() ended is gone: close() runs a second time, maybe  *)
(* after its client is back.                                                 *)
LateClose(k) ==
  /\ \E s \in ended[k] :
       /\ entry' = [entry EXCEPT ![ApiOf[k]] = Unwatch(ApiOf[k], s, MembersOf(ApiOf[k], s))]
       /\ ended' = [ended EXCEPT ![k] = @ \ {s}]
  /\ UNCHANGED <<store, reading, work, conn, view, member, closing, blind, faults>>

(* closeAll: every registered connection is ended; its set is left empty.    *)
CloseAll(a) ==
  LET all == MembersOf(a, entry[a])
  IN /\ conn' = [k \in Conns |-> IF k \in all THEN "none" ELSE conn[k]]
     /\ view' = [k \in Conns |-> IF k \in all THEN 0 ELSE view[k]]
     /\ member' = [k \in Conns |-> IF k \in all THEN 0 ELSE member[k]]
     /\ ended' = [k \in Conns |-> IF k \in all THEN ended[k] \union {member[k]} ELSE ended[k]]
     /\ blind' = blind \ all
     /\ entry' = [entry EXCEPT ![a] = 0]

(* recover: every listener is stopped, which saves its position.             *)
StreamFails(a) ==
  /\ Fault
  /\ up[a] = "open" /\ ~fresh[a]
  /\ SaveMoved(a)
  /\ Halt(a, "failed")
  /\ UNCHANGED <<written, oldest, work, sse>>

(* REOPEN_DELAY_MS later: open() with new listeners, then closeAll().        *)
Reopen(a) ==
  /\ up[a] = "failed" /\ a \notin closing
  /\ Halt(a, "reading")
  /\ CloseAll(a)
  /\ UNCHANGED <<store, work, closing, faults>>

(* server.close: preClose ends the connections, requests in flight go on.    *)
PreClose(a) ==
  /\ Fault
  /\ up[a] # "down" /\ a \notin closing
  /\ closing' = closing \union {a}
  /\ CloseAll(a)
  /\ UNCHANGED <<store, reading, work>>

(* onClose, once no connection is left: the streams stop and save.           *)
OnClose(a) ==
  /\ a \in closing
  /\ \A k \in Of(a) : conn[k] = "none"
  /\ IF up[a] = "open" THEN SaveMoved(a) ELSE UNCHANGED <<saved, savedBy>>
  /\ Halt(a, "down")
  /\ closing' = closing \ {a}
  /\ ended' = [k \in Conns |-> IF k \in Of(a) THEN {} ELSE ended[k]]
  /\ UNCHANGED <<written, oldest, work, conn, view, member, entry, blind, faults>>

(* A crash, or the end of SHUTDOWN_TIMEOUT_MS.                               *)
EndApi(a) ==
  /\ Halt(a, "down")
  /\ conn' = [k \in Conns |-> IF k \in Of(a) THEN "none" ELSE conn[k]]
  /\ view' = [k \in Conns |-> IF k \in Of(a) THEN 0 ELSE view[k]]
  /\ member' = [k \in Conns |-> IF k \in Of(a) THEN 0 ELSE member[k]]
  /\ ended' = [k \in Conns |-> IF k \in Of(a) THEN {} ELSE ended[k]]
  /\ entry' = [entry EXCEPT ![a] = 0]
  /\ closing' = closing \ {a}
  /\ blind' = blind \ Of(a)
  /\ UNCHANGED <<store, work>>
ApiCrashes(a) == Fault /\ up[a] # "down" /\ EndApi(a)
ForceExit(a) == a \in closing /\ EndApi(a) /\ UNCHANGED faults

------------------------------------------------------------------------------
Next ==
  \/ Write \/ Expire
  \/ \E p \in Procs :
       \/ Start(p) \/ ReadPosition(p) \/ Resume(p) \/ WatchFromNow(p)
       \/ PositionGone(p) \/ QuietStreamFails(p) \/ Checkpoint(p)
  \/ DeliverToWorker
  \/ \E e \in Events : CallbackDone(e) \/ CallbackFails(e)
  \/ WorkerCrashes \/ WorkerStops
  \/ \E a \in Apis :
       \/ DeliverToApi(a) \/ StreamFails(a) \/ Reopen(a)
       \/ PreClose(a) \/ OnClose(a) \/ ApiCrashes(a) \/ ForceExit(a)
  \/ \E k \in Conns : Connect(k) \/ GiveUp(k) \/ Subscribe(k) \/ Leave(k) \/ LateClose(k)

Spec == Init /\ [][Next]_vars

(* Kubernetes restarts the worker, its listener opens and goes on reading,   *)
(* and callbacks end.                                                        *)
Fairness ==
  /\ WF_vars(Start(Worker)) /\ WF_vars(ReadPosition(Worker))
  /\ WF_vars(Resume(Worker)) /\ WF_vars(WatchFromNow(Worker))
  /\ WF_vars(PositionGone(Worker)) /\ WF_vars(DeliverToWorker)
  /\ \A e \in Events : WF_vars(CallbackDone(e))
FairSpec == Spec /\ Fairness

------------------------------------------------------------------------------
(* Properties. *)

(* An event the worker has passed over is being handled, was handled, or is  *)
(* lost for one of the causes named at the steps that lose it; all others    *)
(* lie after the position it will resume from.                               *)
WillResumeAfter ==
  CASE up[Worker] = "open" -> pos[Worker]
    [] up[Worker] = "resuming" -> IF ckpt[Worker] = None THEN reach ELSE ckpt[Worker]
    [] OTHER -> IF saved = None \/ savedBy # Worker THEN reach ELSE saved
NothingMissed ==
  After(0, WillResumeAfter) \subseteq handled \union busy \union Lost

(* An open connection whose replica has delivered every event shows the      *)
(* document as it is, if it subscribed to an open stream that was not ahead  *)
(* of its lookup and that was not restarted under it.                        *)
Settles ==
  \A k \in Conns :
    conn[k] = "open" /\ k \notin blind /\ up[ApiOf[k]] = "open" /\ pos[ApiOf[k]] = written
      => view[k] = written

(* Whatever is written is handled in the end or lost for a named cause.      *)
EventuallyHandled ==
  \A e \in Events : (written >= e) ~> (e \in handled \union Lost)
=============================================================================
