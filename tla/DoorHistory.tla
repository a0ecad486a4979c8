---------------------------- MODULE DoorHistory -----------------------------
(***************************************************************************)
(* DoorSystem with the history DoorAlarm speaks of: the log of commands    *)
(* the broker took from the detector, and how far into it each relay is.   *)
(* The history only watches, it restricts no step of DoorSystem.           *)
(***************************************************************************)
EXTENDS DoorSystem

VARIABLES
  log,      \* every command the broker has received
  passed,   \* how far into the log a relay's session is
  applied   \* the last command of the log each relay has handled, 0 for none

history     == <<log, passed, applied>>
historyVars == <<vars, history>>

HInit ==
  /\ Init
  /\ log = <<>>
  /\ passed = [r \in Relays |-> 0]
  /\ applied = [r \in Relays |-> 0]

\* A session begins at the end of the log: MQTT tells it nothing of the past.
HSubscribe(r) ==
  /\ Subscribe(r)
  /\ passed' = [passed EXCEPT ![r] = Len(log)]
  /\ UNCHANGED <<log, applied>>

HPublishRelay(outcome) ==
  /\ PublishRelay(outcome)
  /\ log' = IF Arrives(Detector, outcome) THEN Append(log, Command(seen)) ELSE log
  /\ UNCHANGED <<passed, applied>>

\* Each message handled is the next command of the log.
HHandleMessage(r) ==
  /\ HandleMessage(r)
  /\ passed' = [passed EXCEPT ![r] = @ + 1]
  /\ applied' = [applied EXCEPT ![r] = passed[r] + 1]
  /\ UNCHANGED log

HNext ==
  \/ \E outcome \in Outcomes : HPublishRelay(outcome)
  \/ \E r \in Relays : HSubscribe(r) \/ HHandleMessage(r)
  \/ /\ \/ \E n \in Nodes :
             \/ Connect(n) \/ LeaveConnectLoop(n)
             \/ BreakLink(n) \/ NoticeLoss(n) \/ PowerCycle(n) \/ Repair(n)
        \/ Sample \/ \E outcome \in Outcomes : PublishIR(outcome) \/ PublishRobot(outcome)
        \/ MoveDoor \/ Tick
     /\ UNCHANGED history

HSpec == HInit /\ [][HNext]_historyVars

-----------------------------------------------------------------------------
(* Properties *)

Alarm == INSTANCE DoorAlarm WITH log <- log, applied <- applied, pin <- pin

\* The system implements what DoorAlarm promises, whatever links break and
\* nodes restart.
ImplementsAlarm == Alarm!Spec

=============================================================================
