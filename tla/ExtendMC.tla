------------------------------ MODULE ExtendMC ------------------------------
(* A job of a deployment whose timeout is 2 or 3 units of time, followed for *)
(* two to three cycles of its chain.                                         *)
EXTENDS Extend

(* The properties promise nothing past these: such states are explored only  *)
(* during the first cycle, to see the run of every task to its end.          *)
Telling == alive /\ lost = "no" /\ ~drift /\ status # "STOPPING"
Bounded == Telling \/ (now <= 1 /\ edits + faults <= 2)
=============================================================================
