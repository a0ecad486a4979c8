---------------------------- MODULE MCAdafruitIO ----------------------------
(* Small instances of AdafruitIO. *)
EXTENDS AdafruitIO
=============================================================================
