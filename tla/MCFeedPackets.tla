---------------------------- MODULE MCFeedPackets ----------------------------
(* The sizes of the code, with lengths about the boundaries of each field. *)
EXTENDS FeedPackets

MCTopics == {1, 42, 119, 140, 145, 146, 160}
MCPayloads == {0, 1} \cup 4 .. 8 \cup 24 .. 32 \cup 80 .. 105 \cup 119 .. 152
=============================================================================
