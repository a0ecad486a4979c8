----------------------------- MODULE DoorSystem -----------------------------
(***************************************************************************)
(* The motion detector of the quadruped robot project, a distributed       *)
(* system of three kinds of node around one MQTT broker:                   *)
(*                                                                         *)
(*  - the detector (IR_Door_Detector.ino) samples the door twice a second  *)
(*    and publishes what it saw on three topics, one publish after another;*)
(*  - the relay nodes (Four_Outlet_Power_Relay_Activation.ino and          *)
(*    ArduCam_Relay_Activation.ino) switch an outlet as they are told;     *)
(*  - the broker keeps one clean session per node and forwards at QoS 0.   *)
(*                                                                         *)
(* Every node connects once, in setup(), and never again: a node whose     *)
(* connection is lost runs on without it.  Links break, with or without    *)
(* the node's TCP stack noticing at once, a write may fail on a connection *)
(* that stays open, and nodes are power cycled.                            *)
(***************************************************************************)
EXTENDS Integers, Sequences

CONSTANTS
  Detector,     \* the detector node
  Relays,       \* the relay nodes
  Interval,     \* timeInterval_IR, in ticks
  MaxQueue,     \* bound: commands under way to one relay when a cycle begins
  MaxFaults     \* bound: broken links, failed writes and power cycles, repairs aside

ASSUME NodesAssumption == Detector \notin Relays
ASSUME BoundsAssumption ==
  Interval \in Nat /\ MaxQueue \in Nat \ {0} /\ MaxFaults \in Nat

VARIABLES
  door,        \* what the infrared sensor would see
  \* every node
  phase,       \* where in its sketch the node is
  link,        \* its TCP connection to the broker
  \* the detector
  cycle,       \* the next publish of IR_sensor(), or "idle"
  seen,        \* the sample the current cycle reports
  waited,      \* ticks since lastTime, counted up to Interval + 1
  \* the broker
  subscribed,  \* the relays that hold a subscription to raspberry/relay
  queue,       \* commands on their way to each relay
  heard,       \* the last message of the detector on each topic
  \* the relay nodes
  pin,         \* the level of the relay pin
  faults

vars == <<door, phase, link, cycle, seen, waited, subscribed, queue, heard,
          pin, faults>>

-----------------------------------------------------------------------------
Nodes    == Relays \cup {Detector}
Doors    == {"closed", "open"}
Topics   == {"ir", "relay", "robot"}
Commands == {"on", "off"}

\* What the detector tells the relays about a sample of the door.  (Faulty: with
\* the robot's word for a closed door.)
CommandMixed(d) == IF d = "open" THEN "on" ELSE "stay"
Command(d) == IF d = "open" THEN "on" ELSE "off"

\* What a relay node makes of a command.  (callback() ignores any other
\* payload; the detector sends none.)
Level(c) == IF c = "on" THEN "HIGH" ELSE "LOW"

Init ==
  /\ door \in Doors
  /\ phase = [n \in Nodes |-> "setup"]
  /\ link = [n \in Nodes |-> "down"]
  /\ cycle = "idle" /\ seen = "closed" /\ waited = Interval + 1
  /\ subscribed = {}
  /\ queue = [r \in Relays |-> <<>>]
  /\ heard = [x \in Topics |-> "nothing"]
  /\ pin = [r \in Relays |-> "LOW"]
  /\ faults = 0

-----------------------------------------------------------------------------
(* setup() *)

\* WiFi is up and client.connect() succeeds; a failed attempt is retried.
Connect(n) ==
  /\ phase[n] = "setup" /\ link[n] = "down"
  /\ link' = [link EXCEPT ![n] = "up"]
  /\ UNCHANGED <<door, phase, cycle, seen, waited, subscribed, queue, heard,
                 pin, faults>>

\* client.connected() holds: the connect loop is left, for good.
LeaveConnectLoop(n) ==
  /\ phase[n] = "setup" /\ link[n] # "down"
  /\ phase' = [phase EXCEPT ![n] = IF n = Detector THEN "run" ELSE "subscribe"]
  /\ UNCHANGED <<door, link, cycle, seen, waited, subscribed, queue, heard,
                 pin, faults>>

\* What becomes of the packet of a publish() or subscribe() of node n: write()
\* sends it whole, and without a connection, or on a dead one that still looks
\* alive, that is nowhere; or the client takes nothing of it, or its beginning
\* only, and the broker ends the session when something else follows.  Nobody
\* looks at the result.
Outcomes == {"whole", "refused", "torn"}
Written(n, outcome) ==
  /\ outcome # "whole" => link[n] = "up" /\ faults < MaxFaults
  /\ faults' = IF outcome = "whole" THEN faults ELSE faults + 1
  /\ link' = IF outcome = "torn" THEN [link EXCEPT ![n] = "limbo"] ELSE link
Arrives(n, outcome) == outcome = "whole" /\ link[n] = "up"

Subscribe(r) ==
  /\ phase[r] = "subscribe"
  /\ phase' = [phase EXCEPT ![r] = "run"]
  /\ \E outcome \in Outcomes :
       /\ Written(r, outcome)
       /\ subscribed' = IF Arrives(r, outcome) THEN subscribed \cup {r} ELSE subscribed
  /\ UNCHANGED <<door, cycle, seen, waited, queue, heard, pin>>

-----------------------------------------------------------------------------
(* IR_sensor(), the loop of the detector *)

\* More than Interval since the last sample: read the sensor.  (Faulty: reporting
\* only what has changed since the last report.)
SampleChange ==
  /\ phase[Detector] = "run" /\ cycle = "idle"
  /\ waited > Interval /\ door # seen
  /\ \A r \in Relays : Len(queue[r]) < MaxQueue
  /\ waited' = 0
  /\ seen' = door
  /\ cycle' = "ir"
  /\ UNCHANGED <<door, phase, link, subscribed, queue, heard, pin, faults>>

Sample ==
  /\ phase[Detector] = "run" /\ cycle = "idle"
  /\ waited > Interval
  /\ \A r \in Relays : Len(queue[r]) < MaxQueue
  /\ waited' = 0
  /\ seen' = door
  /\ cycle' = "ir"
  /\ UNCHANGED <<door, phase, link, subscribed, queue, heard, pin, faults>>

\* One call of client.publish().  Each of a cycle may fail on its own: the next
\* one is made whatever became of it.
Publish(topic, outcome) ==
  /\ Written(Detector, outcome)
  /\ heard' = IF Arrives(Detector, outcome) THEN [heard EXCEPT ![topic] = seen] ELSE heard

PublishIR(outcome) ==
  /\ cycle = "ir" /\ cycle' = "relay"
  /\ Publish("ir", outcome)
  /\ UNCHANGED <<door, phase, seen, waited, subscribed, queue, pin>>

\* The broker's copy of a command for every subscriber.
Forwarded ==
  [r \in Relays |->
     IF r \in subscribed THEN Append(queue[r], Command(seen)) ELSE queue[r]]

PublishRelay(outcome) ==
  /\ cycle = "relay" /\ cycle' = "robot"
  /\ Publish("relay", outcome)
  /\ queue' = IF Arrives(Detector, outcome) THEN Forwarded ELSE queue
  /\ UNCHANGED <<door, phase, seen, waited, subscribed, pin>>

\* (Faulty: telling the robot to move and never to stay.)
PublishRobotMove(outcome) ==
  /\ cycle = "robot" /\ cycle' = "idle"
  /\ IF seen = "open" THEN Publish("robot", outcome) ELSE UNCHANGED <<link, faults, heard>>
  /\ UNCHANGED <<door, phase, seen, waited, subscribed, queue, pin>>

PublishRobot(outcome) ==
  /\ cycle = "robot" /\ cycle' = "idle"
  /\ Publish("robot", outcome)
  /\ UNCHANGED <<door, phase, seen, waited, subscribed, queue, pin>>

-----------------------------------------------------------------------------
(* client.loop() and callback() of a relay node *)

HandleMessage(r) ==
  /\ phase[r] = "run" /\ link[r] = "up"
  /\ queue[r] # <<>>
  /\ pin' = [pin EXCEPT ![r] = Level(Head(queue[r]))]
  /\ queue' = [queue EXCEPT ![r] = Tail(@)]
  /\ UNCHANGED <<door, phase, link, cycle, seen, waited, subscribed, heard,
                 faults>>

-----------------------------------------------------------------------------
(* The world around the sketches *)

MoveDoor ==
  /\ door' \in Doors \ {door}
  /\ UNCHANGED <<phase, link, cycle, seen, waited, subscribed, queue, heard,
                 pin, faults>>

Tick ==
  /\ waited <= Interval
  /\ waited' = waited + 1
  /\ UNCHANGED <<door, phase, link, cycle, seen, subscribed, queue, heard, pin,
                 faults>>

\* The broker drops the node's session and what is queued for it: every session
\* is a clean one.  (Faulty: keeping the queue for the next session.)
ForgetSubscription(n) == subscribed' = subscribed \ {n} /\ UNCHANGED queue

Forget(n) ==
  /\ subscribed' = subscribed \ {n}
  /\ queue' = [r \in Relays |-> IF r = n THEN <<>> ELSE queue[r]]

\* The connection breaks; "limbo" is a break the node has not noticed.  A command
\* that has reached the node by then counts as handled before the break.
BreakLink(n) ==
  /\ faults < MaxFaults /\ faults' = faults + 1
  /\ link[n] = "up"
  /\ \E how \in {"limbo", "down"} : link' = [link EXCEPT ![n] = how]
  /\ Forget(n)
  /\ UNCHANGED <<door, phase, cycle, seen, waited, heard, pin>>

\* The TCP stack, or the keep-alive of loop(), gives the connection up.
NoticeLoss(n) ==
  /\ link[n] = "limbo"
  /\ link' = [link EXCEPT ![n] = "down"]
  /\ UNCHANGED <<door, phase, cycle, seen, waited, subscribed, queue, heard,
                 pin, faults>>

\* The node starts over: pins low, statics at zero, no session.
Restart(n) ==
  /\ phase' = [phase EXCEPT ![n] = "setup"]
  /\ link' = [link EXCEPT ![n] = "down"]
  /\ Forget(n)
  /\ IF n = Detector
       THEN cycle' = "idle" /\ seen' = "closed" /\ waited' = Interval + 1
       ELSE UNCHANGED <<cycle, seen, waited>>
  /\ pin' = [r \in Relays |-> IF r = n THEN "LOW" ELSE pin[r]]
  /\ UNCHANGED <<door, heard>>

PowerCycle(n) ==
  /\ faults < MaxFaults /\ faults' = faults + 1
  /\ Restart(n)

\* Somebody power cycles a node that has lost its connection, and a relay node
\* that runs without a subscription and so does nothing.
Repair(n) ==
  /\ \/ phase[n] # "setup" /\ link[n] = "down"
     \/ n \in Relays \ subscribed /\ phase[n] = "run"
  /\ Restart(n)
  /\ UNCHANGED faults

-----------------------------------------------------------------------------
DetectorLoop ==
  Sample \/ \E outcome \in Outcomes :
              PublishIR(outcome) \/ PublishRelay(outcome) \/ PublishRobot(outcome)

Next ==
  \/ \E n \in Nodes :
       \/ Connect(n) \/ LeaveConnectLoop(n)
       \/ BreakLink(n) \/ NoticeLoss(n) \/ PowerCycle(n) \/ Repair(n)
  \/ \E r \in Relays : Subscribe(r) \/ HandleMessage(r)
  \/ DetectorLoop
  \/ MoveDoor \/ Tick

Spec == Init /\ [][Next]_vars

\* Every sketch runs on, WiFi and broker let a node in that keeps trying, a
\* dead connection is noticed and somebody attends to a node that does not work.
\* Nothing is assumed of the door; of the faults, only that they are bounded.
Attended ==
  /\ WF_vars(Tick) /\ WF_vars(DetectorLoop)
  /\ \A n \in Nodes : /\ WF_vars(Connect(n)) /\ WF_vars(LeaveConnectLoop(n))
                      /\ WF_vars(NoticeLoss(n)) /\ WF_vars(Repair(n))
  /\ \A r \in Relays : WF_vars(Subscribe(r)) /\ WF_vars(HandleMessage(r))

AttendedSpec == Spec /\ Attended

-----------------------------------------------------------------------------
(* Properties *)

TypeOK ==
  /\ door \in Doors
  /\ phase \in [Nodes -> {"setup", "subscribe", "run"}]
  /\ link \in [Nodes -> {"down", "limbo", "up"}]
  /\ cycle \in {"idle", "ir", "relay", "robot"}
  /\ seen \in Doors /\ waited \in 0 .. Interval + 1
  /\ subscribed \in SUBSET Relays
  /\ queue \in [Relays -> Seq(Commands)]
  /\ heard \in [Topics -> Doors \cup {"nothing"}]
  /\ pin \in [Relays -> {"LOW", "HIGH"}]
  /\ faults \in Nat

\* The three publishes of a cycle fail each on its own, and nobody looks at their
\* results, so that the monitor, the relays and the robot may be told different
\* things.  Once the door stays as it is, all three topics end up telling it,
\* because the next cycle repeats all of them, whatever this one has got through.
TopicsFollowDoor ==
  \A d \in Doors : <>[](door = d) => <>[](\A x \in Topics : heard[x] = d)

\* Once the door stays as it is, every outlet ends up in the state that goes
\* with it, whatever was lost before: every cycle repeats the whole state, and
\* a power cycle is enough to bring a node that lost its connection back.
OutletsFollowDoor ==
  \A r \in Relays, d \in Doors :
    <>[](door = d) => <>[](pin[r] = Level(Command(d)))

=============================================================================
