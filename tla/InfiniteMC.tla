------------------------------ MODULE InfiniteMC ------------------------------
(* Infinite on small instances: rows are interchangeable. *)
EXTENDS Infinite, TLC

Alike == Permutations(Jobs)
===============================================================================
