---------------------------- MODULE MCCameraNode ----------------------------
(* Instances of CameraNode for TLC: two browsers, and pictures of less than   *)
(* one buffer, of exactly one and of more than one.                           *)
EXTENDS CameraNode
=============================================================================
