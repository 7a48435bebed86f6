--------------------------- MODULE ChangeStreamMC ---------------------------
(* A small instance of ChangeStream for TLC: the worker and one API replica. *)
EXTENDS ChangeStream

CONSTANTS a1, k1

OneReplica == [k \in Conns |-> a1]
=============================================================================
