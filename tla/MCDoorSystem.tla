---------------------------- MODULE MCDoorSystem ----------------------------
(* Instances of DoorSystem for TLC: the nodes are those of the project. *)
EXTENDS DoorSystem
=============================================================================
