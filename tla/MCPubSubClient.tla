--------------------------- MODULE MCPubSubClient ---------------------------
(***************************************************************************)
(* Instances of PubSubClient for TLC.  The values are in the .cfg files:   *)
(* PubSubClientSession.cfg has a link on which packets arrive whole enough *)
(* for readByte() never to give up, PubSubClientSlow.cfg one on which it   *)
(* does, with the fairness that liveness needs.                            *)
(***************************************************************************)
EXTENDS PubSubClient

=============================================================================
