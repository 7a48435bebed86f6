------------------------------ MODULE RescaleMC ------------------------------
(* Rescale with two markets. *)
EXTENDS Rescale

(* Nothing is claimed of an execution once a callback overlapped. *)
Undisturbed == ~overlapped
=============================================================================
