---------------------------- MODULE MCClimateNode ----------------------------
(* Small instances of ClimateNode. *)
EXTENDS ClimateNode
=============================================================================
