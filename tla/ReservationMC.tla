---------------------------- MODULE ReservationMC ----------------------------
(* A small instance of Reservation for TLC. *)
EXTENDS Reservation

CONSTANTS n1, n2
=============================================================================
