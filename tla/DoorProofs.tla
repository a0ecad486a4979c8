----------------------------- MODULE DoorProofs -----------------------------
(***************************************************************************)
(* The motion detector, for any set of relay nodes and any number of       *)
(* faults: its types, and that the system implements DoorAlarm.            *)
(***************************************************************************)
EXTENDS DoorHistory, SequenceTheorems, TLAPS

(* Types *)

\* Whatever the sensor sees, the relays are told on or off.
LEMMA CommandType == \A d : Command(d) \in Commands
  BY DEF Command, Commands

\* All nodes start in setup(), without a connection.
LEMMA TypeInit == Init => TypeOK
  BY BoundsAssumption DEF Init, TypeOK, Nodes, Doors, Topics

\* Every step of a sketch, of the broker and of the world keeps every variable
\* of the system in its type.
LEMMA TypeStep == TypeOK /\ [Next]_vars => TypeOK'
  <1> SUFFICES ASSUME TypeOK, [Next]_vars PROVE TypeOK'
    OBVIOUS
  <1> USE BoundsAssumption, CommandType DEF TypeOK, Nodes, Doors, Topics
  <1>1. CASE Sample
    BY <1>1 DEF Sample
  <1>2. ASSUME NEW outcome \in Outcomes, PublishIR(outcome) PROVE TypeOK'
    BY <1>2 DEF PublishIR, Publish, Written
  <1>3. ASSUME NEW outcome \in Outcomes, PublishRobot(outcome) PROVE TypeOK'
    BY <1>3 DEF PublishRobot, Publish, Written
  <1>4. ASSUME NEW outcome \in Outcomes, PublishRelay(outcome) PROVE TypeOK'
    <2>1. queue' \in [Relays -> Seq(Commands)]
      BY <1>4 DEF PublishRelay, Forwarded
    <2> QED
      BY <1>4, <2>1 DEF PublishRelay, Publish, Written
  <1>5. CASE MoveDoor
    BY <1>5 DEF MoveDoor
  <1>6. CASE Tick
    BY <1>6 DEF Tick
  <1>7. ASSUME NEW n \in Nodes, Connect(n) PROVE TypeOK'
    BY <1>7 DEF Connect
  <1>8. ASSUME NEW n \in Nodes, LeaveConnectLoop(n) PROVE TypeOK'
    BY <1>8 DEF LeaveConnectLoop
  <1>9. ASSUME NEW n \in Nodes, BreakLink(n) PROVE TypeOK'
    BY <1>9 DEF BreakLink, Forget
  <1>10. ASSUME NEW n \in Nodes, NoticeLoss(n) PROVE TypeOK'
    BY <1>10 DEF NoticeLoss
  <1>11. ASSUME NEW n \in Nodes, PowerCycle(n) PROVE TypeOK'
    BY <1>11 DEF PowerCycle, Restart, Forget
  <1>12. ASSUME NEW n \in Nodes, Repair(n) PROVE TypeOK'
    BY <1>12 DEF Repair, Restart, Forget
  <1>13. ASSUME NEW r \in Relays, Subscribe(r) PROVE TypeOK'
    BY <1>13 DEF Subscribe, Written
  <1>14. ASSUME NEW r \in Relays, HandleMessage(r) PROVE TypeOK'
    BY <1>14 DEF HandleMessage, Level
  <1>15. CASE UNCHANGED vars
    BY <1>15 DEF vars
  <1> QED
    BY <1>1, <1>2, <1>3, <1>4, <1>5, <1>6, <1>7, <1>8, <1>9, <1>10, <1>11, <1>12, <1>13, <1>14, <1>15 DEF Next, DetectorLoop

\* The door system keeps its types for any number of relays and faults; in
\* particular only "on" and "off" are ever under way to a relay.
THEOREM TypeCorrect == Spec => []TypeOK
  BY TypeInit, TypeStep, PTL DEF Spec

-----------------------------------------------------------------------------
(* The history *)

HTypeOK ==
  /\ TypeOK
  /\ log \in Seq(Commands)
  /\ passed \in [Relays -> Nat]
  /\ applied \in [Relays -> Nat]

\* A relay holds a subscription only when setup() is done, so it is not made
\* again, and without one there is nothing under way to it.
SessionShape ==
  \A r \in Relays :
    /\ r \in subscribed => phase[r] = "run"
    /\ r \notin subscribed => queue[r] = <<>>

\* How far into the log the relays are.
Bounded == \A r \in Relays : applied[r] <= passed[r] /\ passed[r] <= Len(log)

\* While its session lasts a relay misses no command and gets none twice or out
\* of order: what is under way to it is what the broker took from the detector
\* since the relay subscribed and the relay has not handled.
NothingSkipped ==
  \A r \in subscribed :
    /\ passed[r] + Len(queue[r]) = Len(log)
    /\ \A i \in 1 .. Len(queue[r]) : queue[r][i] = log[passed[r] + i]

IInv == HTypeOK /\ SessionShape /\ Bounded /\ NothingSkipped

\* The history restricts no step of the system: every step with it is a step
\* without it.
LEMMA HistoryNext == HNext => Next
  BY DEF HNext, HSubscribe, HPublishRelay, HHandleMessage, Next, DetectorLoop

\* The steps that leave the log and the relays' place in it alone, and may end
\* a session, dropping what is under way in it, but never begin one.
Quiet ==
  /\ UNCHANGED history
  /\ subscribed' \in SUBSET subscribed
  /\ \A r \in Relays : queue'[r] = IF r \in subscribed \ subscribed' THEN <<>> ELSE queue[r]
  /\ \A r \in subscribed' : phase'[r] = phase[r]

\* At the start there is no session, no command and no history.
LEMMA HistoryInit == HInit => IInv
  BY TypeInit
     DEF HInit, Init, IInv, HTypeOK, SessionShape, Bounded, NothingSkipped

\* The types and lengths the arithmetic of the following lemmas needs.
LEMMA Lengths ==
  ASSUME IInv, NEW r \in Relays
  PROVE  /\ queue[r] \in Seq(Commands) /\ Len(queue[r]) \in Nat
         /\ log \in Seq(Commands) /\ Len(log) \in Nat
         /\ applied[r] \in Nat /\ passed[r] \in Nat
  <1>1. queue[r] \in Seq(Commands) /\ log \in Seq(Commands)
        /\ applied[r] \in Nat /\ passed[r] \in Nat
    BY DEF IInv, HTypeOK, TypeOK
  <1> QED
    BY <1>1, LenProperties

\* Every step that is not one of the three the history records is quiet.
LEMMA QuietSteps ==
  IInv /\ [HNext]_historyVars =>
    \/ Quiet
    \/ \E outcome \in Outcomes : HPublishRelay(outcome)
    \/ \E r \in Relays : HSubscribe(r) \/ HHandleMessage(r)
  <1> SUFFICES ASSUME IInv, UNCHANGED history,
                      [ \/ \E n \in Nodes :
                             \/ Connect(n) \/ LeaveConnectLoop(n)
                             \/ BreakLink(n) \/ NoticeLoss(n) \/ PowerCycle(n) \/ Repair(n)
                        \/ Sample
                        \/ \E outcome \in Outcomes : PublishIR(outcome) \/ PublishRobot(outcome)
                        \/ MoveDoor \/ Tick ]_vars
               PROVE Quiet
    BY DEF HNext, historyVars
  <1> USE DEF Quiet, IInv, HTypeOK, TypeOK, SessionShape
  <1>1. CASE UNCHANGED <<phase, subscribed, queue>>
    BY <1>1
  <1>2. ASSUME NEW n \in Nodes, LeaveConnectLoop(n) PROVE Quiet
    BY <1>2 DEF LeaveConnectLoop
  <1>3. ASSUME NEW n \in Nodes, Forget(n), \A m \in Nodes \ {n} : phase'[m] = phase[m]
        PROVE Quiet
    BY <1>3 DEF Forget, Nodes
  <1>4. ASSUME NEW n \in Nodes, Restart(n) PROVE Quiet
    BY <1>3, <1>4 DEF Restart
  <1>5. ASSUME NEW n \in Nodes, BreakLink(n) PROVE Quiet
    BY <1>3, <1>5 DEF BreakLink
  <1> QED
    BY <1>1, <1>2, <1>4, <1>5
       DEF vars, Connect, NoticeLoss, PowerCycle, Repair, Sample, PublishIR,
           PublishRobot, MoveDoor, Tick

\* A session that a quiet step leaves alone is where it was; one that it ends is
\* no longer promised anything.
LEMMA QuietStep == IInv /\ Quiet => SessionShape' /\ Bounded' /\ NothingSkipped'
  <1> SUFFICES ASSUME IInv, Quiet PROVE SessionShape' /\ Bounded' /\ NothingSkipped'
    OBVIOUS
  <1>1. SessionShape'
    BY DEF IInv, HTypeOK, TypeOK, SessionShape, Quiet
  <1>2. Bounded'
    BY DEF IInv, Bounded, Quiet, history
  <1>3. NothingSkipped'
    <2>1. \A r \in subscribed' : r \in subscribed /\ r \in Relays /\ queue'[r] = queue[r]
      BY DEF IInv, HTypeOK, TypeOK, Quiet
    <2> QED
      BY <2>1 DEF IInv, NothingSkipped, Quiet, history
  <1> QED
    BY <1>1, <1>2, <1>3

\* An index of a sequence grown by one is the new one or an old one.
LEMMA LastOrBefore == \A m \in Nat : \A i \in 1 .. m + 1 : i = m + 1 \/ i \in 1 .. m
  OBVIOUS

\* A command is logged exactly when every session gets its copy of it.
LEMMA PublishStep ==
  ASSUME IInv, NEW outcome \in Outcomes, HPublishRelay(outcome)
  PROVE  SessionShape' /\ Bounded' /\ NothingSkipped'
  <1>1. /\ queue' = (IF Arrives(Detector, outcome) THEN Forwarded ELSE queue)
        /\ UNCHANGED <<passed, applied, subscribed, phase>>
        /\ Command(seen) \in Commands
    BY CommandType DEF HPublishRelay, PublishRelay
  <1>2. SessionShape'
    BY <1>1 DEF Forwarded, SessionShape, IInv, HTypeOK, TypeOK
  <1>3. Bounded'
    <2> SUFFICES ASSUME NEW r \in Relays
                 PROVE applied'[r] <= passed'[r] /\ passed'[r] <= Len(log')
      BY DEF Bounded
    <2>1. Len(log') \in {Len(log), Len(log) + 1}
      BY <1>1, Lengths, AppendProperties DEF HPublishRelay
    <2> QED
      BY <1>1, <2>1, Lengths DEF IInv, Bounded
  <1>4. NothingSkipped'
    <2> SUFFICES ASSUME NEW r \in subscribed
                 PROVE /\ passed'[r] + Len(queue'[r]) = Len(log')
                       /\ \A i \in 1 .. Len(queue'[r]) : queue'[r][i] = log'[passed'[r] + i]
      BY <1>1 DEF NothingSkipped
    <2>1. r \in Relays
      BY DEF IInv, HTypeOK, TypeOK
    <2>2. /\ passed[r] + Len(queue[r]) = Len(log)
          /\ \A i \in 1 .. Len(queue[r]) : queue[r][i] = log[passed[r] + i]
      BY DEF IInv, NothingSkipped
    <2>3. CASE ~Arrives(Detector, outcome)
      BY <1>1, <2>1, <2>2, <2>3 DEF HPublishRelay
    <2>4. CASE Arrives(Detector, outcome)
      <3>1. queue'[r] = Append(queue[r], Command(seen)) /\ log' = Append(log, Command(seen))
        BY <1>1, <2>1, <2>4 DEF HPublishRelay, Forwarded
      <3>2. /\ queue[r] \in Seq(Commands) /\ Len(queue[r]) \in Nat
            /\ log \in Seq(Commands) /\ Len(log) \in Nat /\ passed[r] \in Nat
        BY <2>1, Lengths
      <3>3. Len(queue'[r]) = Len(queue[r]) + 1 /\ Len(log') = Len(log) + 1
        BY <1>1, <3>1, <3>2, AppendProperties
      <3>5. passed[r] + (Len(queue[r]) + 1) = Len(log) + 1
        BY <2>2, <3>2
      <3>4. ASSUME NEW i \in 1 .. Len(queue'[r])
            PROVE queue'[r][i] = log'[passed'[r] + i]
        <4>1. CASE i = Len(queue[r]) + 1
          <5>1. passed[r] + i = Len(log) + 1
            BY <3>5, <4>1
          <5> QED
            BY <1>1, <3>1, <3>2, <4>1, <5>1, AppendProperties
        <4>2. CASE i \in 1 .. Len(queue[r])
          <5>1. passed[r] + i \in 1 .. Len(log)
            BY <2>2, <3>2, <4>2
          <5>2. log'[passed[r] + i] = log[passed[r] + i]
            BY <1>1, <3>1, <3>2, <5>1, AppendProperties
          <5>3. queue'[r][i] = queue[r][i]
            BY <1>1, <3>1, <3>2, <4>2, AppendProperties
          <5> QED
            BY <1>1, <2>2, <4>2, <5>2, <5>3
        <4> QED
          BY <3>2, <3>3, <4>1, <4>2, LastOrBefore
      <3> QED
        BY <1>1, <3>3, <3>4, <3>5
    <2> QED
      BY <2>3, <2>4
  <1> QED
    BY <1>2, <1>3, <1>4

\* A new session has nothing under way and begins at the end of the log.
LEMMA SubscribeStep ==
  ASSUME IInv, NEW r \in Relays, HSubscribe(r)
  PROVE  SessionShape' /\ Bounded' /\ NothingSkipped'
  <1>1. /\ phase[r] = "subscribe" /\ UNCHANGED <<queue, log, applied>>
        /\ phase' = [phase EXCEPT ![r] = "run"]
        /\ passed' = [passed EXCEPT ![r] = Len(log)]
        /\ subscribed' \in {subscribed, subscribed \cup {r}}
        /\ phase \in [Nodes -> {"setup", "subscribe", "run"}]
        /\ passed \in [Relays -> Nat] /\ r \in Nodes /\ subscribed \in SUBSET Relays
    BY DEF HSubscribe, Subscribe, IInv, HTypeOK, TypeOK, Nodes
  <1>2. r \notin subscribed /\ queue[r] = <<>>
    BY <1>1 DEF IInv, SessionShape
  <1>3. SessionShape'
    BY <1>1, <1>2 DEF IInv, SessionShape, Nodes
  <1>4. Bounded'
    BY <1>1, Lengths DEF IInv, Bounded
  <1>5. NothingSkipped'
    <2> SUFFICES ASSUME NEW q \in subscribed'
                 PROVE /\ passed'[q] + Len(queue'[q]) = Len(log')
                       /\ \A i \in 1 .. Len(queue'[q]) : queue'[q][i] = log'[passed'[q] + i]
      BY DEF NothingSkipped
    <2>1. CASE q = r
      BY <1>1, <1>2, <2>1, Lengths
    <2>2. CASE q # r
      BY <1>1, <2>2 DEF IInv, NothingSkipped
    <2> QED
      BY <2>1, <2>2
  <1> QED
    BY <1>3, <1>4, <1>5

\* The head of what is under way to a relay is the command of the log the relay
\* has not passed yet.
LEMMA HeadIsNext ==
  ASSUME IInv, NEW r \in Relays, queue[r] # <<>>
  PROVE  /\ r \in subscribed
         /\ passed[r] + 1 \in 1 .. Len(log) /\ applied[r] < passed[r] + 1
         /\ Head(queue[r]) = log[passed[r] + 1]
  <1>1. r \in subscribed
    BY DEF IInv, SessionShape
  <1>2. /\ passed[r] + Len(queue[r]) = Len(log)
        /\ \A i \in 1 .. Len(queue[r]) : queue[r][i] = log[passed[r] + i]
    BY <1>1 DEF IInv, NothingSkipped
  <1>3. Len(queue[r]) # 0 /\ Head(queue[r]) = queue[r][1]
    BY Lengths, EmptySeq
  <1>4. 1 \in 1 .. Len(queue[r]) /\ passed[r] + 1 \in 1 .. Len(log)
    BY <1>2, <1>3, Lengths
  <1>5. applied[r] < passed[r] + 1
    BY Lengths DEF IInv, Bounded
  <1> QED
    BY <1>1, <1>2, <1>3, <1>4, <1>5

\* callback() takes the head of the queue, which is the next of the log.
LEMMA HandleStep ==
  ASSUME IInv, NEW r \in Relays, HHandleMessage(r)
  PROVE  SessionShape' /\ Bounded' /\ NothingSkipped'
  <1>1. /\ queue' = [queue EXCEPT ![r] = Tail(queue[r])] /\ queue[r] # <<>>
        /\ passed' = [passed EXCEPT ![r] = passed[r] + 1]
        /\ applied' = [applied EXCEPT ![r] = passed[r] + 1]
        /\ UNCHANGED <<log, subscribed, phase>>
        /\ queue \in [Relays -> Seq(Commands)] /\ applied \in [Relays -> Nat]
        /\ passed \in [Relays -> Nat] /\ subscribed \in SUBSET Relays
    BY DEF HHandleMessage, HandleMessage, IInv, HTypeOK, TypeOK
  <1>2. SessionShape'
    BY <1>1, HeadIsNext DEF IInv, SessionShape
  <1>3. Bounded'
    BY <1>1, HeadIsNext, Lengths DEF IInv, Bounded
  <1>4. NothingSkipped'
    <2> SUFFICES ASSUME NEW q \in subscribed
                 PROVE /\ passed'[q] + Len(queue'[q]) = Len(log')
                       /\ \A i \in 1 .. Len(queue'[q]) : queue'[q][i] = log'[passed'[q] + i]
      BY <1>1 DEF NothingSkipped
    <2>1. q \in Relays
      BY <1>1
    <2>2. /\ passed[q] + Len(queue[q]) = Len(log)
          /\ \A i \in 1 .. Len(queue[q]) : queue[q][i] = log[passed[q] + i]
      BY DEF IInv, NothingSkipped
    <2>3. CASE q # r
      BY <1>1, <2>1, <2>2, <2>3
    <2>4. CASE q = r
      <3>1. queue'[r] = Tail(queue[r]) /\ passed'[r] = passed[r] + 1
            /\ queue[r] \in Seq(Commands)
        BY <1>1
      <3>2. /\ Len(queue'[r]) = Len(queue[r]) - 1
            /\ \A i \in 1 .. Len(queue'[r]) : queue'[r][i] = queue[r][i + 1]
        BY <1>1, <3>1, HeadTailProperties
      <3>3. passed'[r] + Len(queue'[r]) = Len(log')
        BY <1>1, <2>2, <2>4, <3>1, <3>2, Lengths
      <3>4. ASSUME NEW i \in 1 .. Len(queue'[r])
            PROVE queue'[r][i] = log'[passed'[r] + i]
        <4>1. i + 1 \in 1 .. Len(queue[r]) /\ passed'[r] + i = passed[r] + (i + 1)
          BY <3>1, <3>2, Lengths
        <4> QED
          BY <1>1, <2>2, <2>4, <3>2, <4>1
      <3> QED
        BY <2>4, <3>3, <3>4
    <2> QED
      BY <2>3, <2>4
  <1> QED
    BY <1>2, <1>3, <1>4

\* The history keeps its types.
LEMMA HistoryType == IInv /\ [HNext]_historyVars => HTypeOK'
  <1> SUFFICES ASSUME IInv, [HNext]_historyVars PROVE HTypeOK'
    OBVIOUS
  <1> USE DEF IInv, HTypeOK
  <1>1. TypeOK'
    BY TypeStep, HistoryNext DEF historyVars
  <1>2. ASSUME NEW outcome \in Outcomes, HPublishRelay(outcome) PROVE HTypeOK'
    BY <1>1, <1>2, CommandType DEF HPublishRelay
  <1>3. ASSUME NEW r \in Relays, HSubscribe(r) PROVE HTypeOK'
    BY <1>1, <1>3, Lengths DEF HSubscribe
  <1>4. ASSUME NEW r \in Relays, HHandleMessage(r) PROVE HTypeOK'
    BY <1>1, <1>4, Lengths DEF HHandleMessage
  <1>5. CASE UNCHANGED history
    BY <1>1, <1>5 DEF history
  <1> QED
    BY <1>2, <1>3, <1>4, <1>5 DEF HNext, historyVars

\* Every step keeps the invariant.
LEMMA HistoryStep == IInv /\ [HNext]_historyVars => IInv'
  <1> SUFFICES ASSUME IInv, [HNext]_historyVars PROVE IInv'
    OBVIOUS
  <1>1. HTypeOK'
    BY HistoryType
  <1>2. SessionShape' /\ Bounded' /\ NothingSkipped'
    BY QuietSteps, QuietStep, PublishStep, SubscribeStep, HandleStep
  <1> QED
    BY <1>1, <1>2 DEF IInv

\* The invariant holds throughout.
LEMMA HistoryInvariant == HSpec => []IInv
  BY HistoryInit, HistoryStep, PTL DEF HSpec

-----------------------------------------------------------------------------
(* The refinement *)

\* The system starts as the abstract alarm does: nothing issued, all pins low.
LEMMA AlarmInit == HInit => Alarm!Init
  BY DEF HInit, Init, Alarm!Init

\* Sessions that come and go, lost copies and everything the detector does
\* between its publishes are stutters of the abstract alarm.
LEMMA AlarmStep == IInv /\ [HNext]_historyVars => [Alarm!Next]_Alarm!vars
  <1> SUFFICES ASSUME IInv, [HNext]_historyVars PROVE [Alarm!Next]_Alarm!vars
    OBVIOUS
  <1>1. ASSUME NEW outcome \in Outcomes, HPublishRelay(outcome)
        PROVE [Alarm!Next]_Alarm!vars
    <2>1. Command(seen) \in Alarm!Commands
      BY CommandType DEF Alarm!Commands, Commands
    <2>2. UNCHANGED pin
      BY <1>1 DEF HPublishRelay, PublishRelay
    <2>3. CASE Arrives(Detector, outcome)
      BY <1>1, <2>1, <2>2, <2>3 DEF HPublishRelay, Alarm!Issue, Alarm!Next
    <2>4. CASE ~Arrives(Detector, outcome)
      BY <1>1, <2>2, <2>4 DEF HPublishRelay, Alarm!vars
    <2> QED
      BY <2>3, <2>4
  <1>2. ASSUME NEW r \in Relays, HHandleMessage(r) PROVE Alarm!Next
    <2>1. queue[r] # <<>>
      BY <1>2 DEF HHandleMessage, HandleMessage
    <2>2. Alarm!Obey(r, passed[r] + 1)
      BY <1>2, <2>1, HeadIsNext
         DEF HHandleMessage, HandleMessage, Level, Alarm!Obey, Alarm!Level
    <2> QED
      BY <2>1, <2>2, HeadIsNext DEF Alarm!Next
  <1>3. ASSUME NEW n \in Nodes, Restart(n), UNCHANGED history
        PROVE [Alarm!Next]_Alarm!vars
    <2>1. pin \in [Relays -> {"LOW", "HIGH"}]
      BY DEF IInv, HTypeOK, TypeOK
    <2>2. CASE n \in Relays
      <3>1. Alarm!Restart(n)
        BY <1>3, <2>1, <2>2 DEF Restart, history, Alarm!Restart
      <3> QED
        BY <2>2, <3>1 DEF Alarm!Next
    <2>3. CASE n = Detector
      BY <1>3, <2>1, <2>3, NodesAssumption DEF Restart, history, Alarm!vars
    <2> QED
      BY <2>2, <2>3 DEF Nodes
  <1>4. ASSUME UNCHANGED <<log, applied, pin>> PROVE [Alarm!Next]_Alarm!vars
    BY <1>4 DEF Alarm!vars
  <1> QED
    BY <1>1, <1>2, <1>3, <1>4
       DEF HNext, HSubscribe, historyVars, history, vars, Connect, LeaveConnectLoop,
           BreakLink, NoticeLoss, PowerCycle, Repair, Subscribe, Sample, PublishIR,
           PublishRobot, MoveDoor, Tick

\* The system implements the abstract alarm: whatever links break and nodes
\* restart, an outlet never goes back to an older command of the detector and
\* never switches on a command that was not issued.
THEOREM Refinement == HSpec => ImplementsAlarm
  BY AlarmInit, AlarmStep, HistoryInvariant, PTL DEF HSpec, Alarm!Spec, ImplementsAlarm

=============================================================================
