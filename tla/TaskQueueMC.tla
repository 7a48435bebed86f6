---------------------------- MODULE TaskQueueMC ----------------------------
(* Small instances of TaskQueue for TLC. *)
EXTENDS TaskQueue, TLC

CONSTANTS d1, c1, c2, h1, h2, h3, t1, t2

OneDeployment == [t \in Tasks |-> d1]
ListAndStop == (t1 :> "LIST") @@ (t2 :> "STOP")
OneList == [t \in Tasks |-> "LIST"]

(* Two consumers, one handler each. *)
TwoConsumers == (h1 :> c1) @@ (h2 :> c2)
(* Two overlapping cycles of one consumer, and another consumer. *)
OneOverlapping == (h1 :> c1) @@ (h2 :> c1) @@ (h3 :> c2)
Interchangeable == Permutations({h1, h2})
=============================================================================
