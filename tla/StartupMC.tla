------------------------------ MODULE StartupMC ------------------------------
(* Startup on a small instance. *)
EXTENDS Startup
==============================================================================
