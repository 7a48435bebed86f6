---------------------------- MODULE SerialQueue ----------------------------
(****************************************************************************)
(* What the task queue promises the code that schedules tasks and runs      *)
(* them: a task stays queued until a run of it has completed, it is dropped *)
(* as unwanted, or it is given up; runs of one deployment are serial; a     *)
(* task is neither dropped nor given up under a run of it.  A run may be    *)
(* repeated (at-least-once) as long as no run of the task has completed, or *)
(* the record of its completion was lost.                                   *)
(****************************************************************************)
CONSTANTS Tasks, Deployments, DeploymentOf

VARIABLES fate,    \* where each task is
          active,  \* tasks a run of which is in progress
          done     \* tasks whose run completed, not removed yet

vars == <<fate, active, done>>

Init == /\ fate = [t \in Tasks |-> "UNSCHEDULED"]
        /\ active = {} /\ done = {}

Submit(t) == /\ fate[t] = "UNSCHEDULED"
             /\ fate' = [fate EXCEPT ![t] = "QUEUED"]
             /\ UNCHANGED <<active, done>>

Start(t) == /\ fate[t] = "QUEUED" /\ t \notin done
            /\ \A u \in active : DeploymentOf[u] # DeploymentOf[t]
            /\ active' = active \cup {t}
            /\ UNCHANGED <<fate, done>>

Complete(t) == /\ t \in active
               /\ active' = active \ {t} /\ done' = done \cup {t}
               /\ UNCHANGED fate

Remove(t) == /\ t \in done
             /\ done' = done \ {t}
             /\ fate' = [fate EXCEPT ![t] = IF @ = "QUEUED" THEN "COMPLETED" ELSE @]
             /\ UNCHANGED active

(* Retry, park, abort, or a process lost with everything it was doing. *)
GiveBack(S) == /\ S # {}
               /\ active' = active \ S /\ done' = done \ S
               /\ UNCHANGED fate

(* Tasks are dropped or given up while no run of them is in progress; one    *)
(* whose run has just completed may still be swept before it is removed.     *)
Discard(S, why) == /\ S # {}
                   /\ \A t \in S : fate[t] = "QUEUED" /\ t \notin active
                   /\ fate' = [t \in Tasks |-> IF t \in S THEN why ELSE fate[t]]
                   /\ UNCHANGED <<active, done>>

Next == \/ \E t \in Tasks : Submit(t) \/ Start(t) \/ Complete(t) \/ Remove(t)
        \/ \E S \in SUBSET Tasks : \/ GiveBack(S)
                                   \/ \E why \in {"DROPPED", "ABANDONED"} : Discard(S, why)

Spec == Init /\ [][Next]_vars
=============================================================================
