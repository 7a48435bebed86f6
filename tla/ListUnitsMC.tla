---------------------------- MODULE ListUnitsMC ----------------------------
(* Small instances of ListUnits for TLC: the constants are numbers, so the   *)
(* .cfg files give their values.                                             *)
EXTENDS ListUnits
=============================================================================
