----------------------------- MODULE ApiBatchMC -----------------------------
(* A small instance of ApiBatch for TLC. *)
EXTENDS ApiBatch, TLC

CONSTANTS u1, u2, u3
=============================================================================
