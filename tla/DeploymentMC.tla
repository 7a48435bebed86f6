----------------------------- MODULE DeploymentMC -----------------------------
(* Deployment on small instances. *)
EXTENDS Deployment

(* A SIMPLE deployment has its start and a second start, a swap, a failed    *)
(* run or a ban; a SCHEDULED one, whose firings go on, just its start.       *)
OneOrTwo == [s \in Strategies |-> IF s = "SIMPLE" THEN 2 ELSE 1]
Two      == [s \in Strategies |-> 2]
===============================================================================
