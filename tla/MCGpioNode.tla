----------------------------- MODULE MCGpioNode -----------------------------
(* Small instances of GpioNode. *)
EXTENDS GpioNode
=============================================================================
