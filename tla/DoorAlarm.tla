----------------------------- MODULE DoorAlarm ------------------------------
(***************************************************************************)
(* What the motion detector promises its outlets: each of them carries out *)
(* commands the detector issued, in the order it issued them, each at most *)
(* once.  It may miss commands, and a restart switches it off, but it      *)
(* never goes back to an older command and never acts on one of its own.   *)
(***************************************************************************)
EXTENDS Integers, Sequences

CONSTANT Relays

VARIABLES
  log,      \* the commands issued so far
  applied,  \* the last command each outlet has carried out, 0 for none
  pin       \* the level of each outlet's relay pin

vars == <<log, applied, pin>>

Commands == {"on", "off"}
Level(c) == IF c = "on" THEN "HIGH" ELSE "LOW"

Init ==
  /\ log = <<>>
  /\ applied = [r \in Relays |-> 0]
  /\ pin = [r \in Relays |-> "LOW"]

Issue(c) ==
  /\ log' = Append(log, c)
  /\ UNCHANGED <<applied, pin>>

Obey(r, i) ==
  /\ applied[r] < i
  /\ applied' = [applied EXCEPT ![r] = i]
  /\ pin' = [pin EXCEPT ![r] = Level(log[i])]
  /\ UNCHANGED log

Restart(r) ==
  /\ pin' = [pin EXCEPT ![r] = "LOW"]
  /\ UNCHANGED <<log, applied>>

Next ==
  \/ \E c \in Commands : Issue(c)
  \/ \E r \in Relays : Restart(r) \/ \E i \in 1 .. Len(log) : Obey(r, i)

Spec == Init /\ [][Next]_vars

=============================================================================
