---------------------------- MODULE MCFeedClient ----------------------------
(* Small instances of FeedClient. *)
EXTENDS FeedClient

MCQosOf == [f \in Feeds |-> IF f = "lamp" THEN 0 ELSE 1]
MCMaxSent == [f \in Feeds |-> IF f = "lamp" THEN 2 ELSE 1]
=============================================================================
