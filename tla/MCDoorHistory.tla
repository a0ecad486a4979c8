--------------------------- MODULE MCDoorHistory ----------------------------
(***************************************************************************)
(* DoorHistory for TLC.  The log grows with every cycle of the detector,   *)
(* so the instance ends after MaxCommands of them.                         *)
(***************************************************************************)
EXTENDS DoorHistory

CONSTANT MaxCommands

MCNext == HNext /\ Len(log') <= MaxCommands

MCSpec == HInit /\ [][MCNext]_historyVars

=============================================================================
