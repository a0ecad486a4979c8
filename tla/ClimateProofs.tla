---------------------------- MODULE ClimateProofs ----------------------------
(***************************************************************************)
(* The two sketches that report a DHT sensor, for every interval, clock    *)
(* and order in which sensor and network fail: a report is whole and of    *)
(* one reading, and the broker is not left silent for too long.            *)
(*                                                                         *)
(* Neither is inductive.  IInv bounds the silence, and the age of the last *)
(* reading from both sides, by where in the pass the sketch is.            *)
(***************************************************************************)
EXTENDS ClimateNode, TLAPS

Age == Since(lastreadtime)

\* Nothing has been read and no session begun before setup() is over, and only
\* the one sketch has a delay().
Phases ==
  /\ pc \in {"begin", "connect"} => session = "none" /\ lastresult = "bad"
  /\ pc = "delay" => sketch = "humidity"

\* Every pass of the relay sketch ends the silence if it has to, every report of
\* the humidity sketch does.
Contact ==
  session = "open" =>
    /\ sketch = "relay" => silence <= KeepAlive + gap
    /\ sketch = "humidity" /\ failed = "no" =>
         silence <= IF pc = "delay" THEN gap ELSE Interval + gap

\* In the humidity sketch a good reading is of this pass, or so old that it is
\* not used again.  Its age does not reach the size of the clock.
Freshness ==
  sketch = "humidity" /\ lastresult = "good" =>
    /\ pc \in {"celsius", "decide", "publish"} => Age <= gap
    /\ pc = "delay" => gap <= Age /\ Age <= MaxGap + gap
    /\ pc \in {"loop", "humidity"} =>
         Interval + gap <= Age /\ Age <= Interval + MaxGap + gap

\* What has been asked of the sensor so far is of one reading.
Asked ==
  /\ pc = "celsius" => humidity = Value(lastresult) /\ behind = 0
  /\ pc = "decide" /\ sketch = "humidity" /\ humidity = "number" => behind = 0

IInv == TypeOK /\ Phases /\ Contact /\ Freshness /\ Asked /\ ReportSound

-----------------------------------------------------------------------------
(* Ages *)

\* An age is a value of the clock.
LEMMA MinusType == \A a, b \in Clock : Minus(a, b) \in Clock
  BY ClimateAssumption DEF Minus, Clock

\* What has just been read has age zero.
LEMMA MinusSelf == \A a \in Clock : Minus(a, a) = 0
  BY ClimateAssumption DEF Minus, Clock

\* An age grows with the clock until it reaches its size.
LEMMA MinusTick ==
  ASSUME NEW a \in Clock, NEW b \in Clock, Minus(a, b) + 1 < ClockSize
  PROVE  Minus(IF a = ClockSize - 1 THEN 0 ELSE a + 1, b) = Minus(a, b) + 1
  BY ClimateAssumption DEF Minus, Clock

-----------------------------------------------------------------------------
(* Types *)

\* A node that is switched on has its types.
LEMMA TypeInit == Init => TypeOK
  BY ClimateAssumption DEF Init, TypeOK, Clock

\* Every step keeps them; the second question finds at most one new
\* reading.
LEMMA TypeStep == TypeOK /\ Asked /\ [Next]_vars => TypeOK'
  <1> SUFFICES ASSUME TypeOK, Asked, [Next]_vars PROVE TypeOK'
    OBVIOUS
  <1>0. 0 \in Clock
    BY ClimateAssumption DEF Clock
  <1> USE <1>0, ClimateAssumption DEF TypeOK, dht, values, timers, contact
  <1>1. CASE Begin
    <2>1. LongAgo \in Clock
      BY MinusType, ClimateAssumption DEF LongAgo, Clock
    <2> QED
      BY <1>1, <2>1 DEF Begin
  <1>2. CASE Connect
    BY <1>2 DEF Connect
  <1>3. CASE StartPass
    BY <1>3 DEF StartPass
  <1>4. CASE ReadHumidity
    BY <1>4 DEF ReadHumidity, Read, Value
  <1>5. CASE ReadTemperature
    BY <1>5 DEF ReadTemperature, Read, Value, Asked
  <1>6. CASE Decide
    BY <1>6 DEF Decide, PassOver
  <1>7. CASE Publish
    BY <1>7 DEF Publish, PassOver
  <1>8. CASE DelayOver
    BY <1>8 DEF DelayOver
  <1>9. CASE Tick
    BY <1>9 DEF Tick, Clock
  <1>10. CASE SensorTurns
    BY <1>10 DEF SensorTurns
  <1>11. CASE Expire \/ Lose
    BY <1>11 DEF Expire, Lose
  <1>12. CASE PowerCycle
    BY <1>12 DEF PowerCycle
  <1>13. CASE UNCHANGED vars
    BY <1>13 DEF vars
  <1> QED
    BY <1>1, <1>2, <1>3, <1>4, <1>5, <1>6, <1>7, <1>8, <1>9, <1>10, <1>11, <1>12, <1>13
       DEF Next, Node

-----------------------------------------------------------------------------
(* The rest of the invariant *)

\* A node that is switched on satisfies it.
LEMMA RestInit == Init => Phases /\ Contact /\ Freshness /\ Asked /\ ReportSound
  BY DEF Init, Phases, Contact, Freshness, Asked, ReportSound

\* setup() comes before everything, and the relay sketch has no delay().
LEMMA PhasesStep == TypeOK /\ Phases /\ [Next]_vars => Phases'
  BY DEF TypeOK, Phases, Next, Node, vars, dht, values, timers, contact,
         Begin, Connect, StartPass, ReadHumidity, ReadTemperature, Decide, PassOver,
         Publish, DelayOver, Tick, SensorTurns, Expire, Lose, PowerCycle

\* The silence is bounded by where in the pass the sketch is.
LEMMA ContactStep == TypeOK /\ Phases /\ Contact /\ [Next]_vars => Contact'
  <1> SUFFICES ASSUME TypeOK, Phases, Contact, [Next]_vars PROVE Contact'
    OBVIOUS
  <1> USE ClimateAssumption DEF TypeOK, Phases, Contact, dht, values, timers, contact
  <1>1. CASE Begin \/ Connect \/ PowerCycle \/ SensorTurns \/ Expire \/ Lose
    BY <1>1 DEF Begin, Connect, PowerCycle, SensorTurns, Expire, Lose
  <1>2. CASE StartPass
    BY <1>2 DEF StartPass, PingDue
  <1>3. CASE ReadHumidity \/ ReadTemperature
    BY <1>3 DEF ReadHumidity, ReadTemperature
  <1>4. CASE Decide
    BY <1>4 DEF Decide, PassOver
  <1>5. CASE Publish
    BY <1>5 DEF Publish, PassOver
  <1>6. CASE DelayOver
    BY <1>6 DEF DelayOver
  <1>7. CASE Tick
    BY <1>7 DEF Tick
  <1>8. CASE UNCHANGED vars
    BY <1>8 DEF vars
  <1> QED
    BY <1>1, <1>2, <1>3, <1>4, <1>5, <1>6, <1>7, <1>8 DEF Next, Node

\* The age of a good reading is bounded by where in the pass the sketch is.
LEMMA FreshnessStep == TypeOK /\ Phases /\ Freshness /\ [Next]_vars => Freshness'
  <1> SUFFICES ASSUME TypeOK, Phases, Freshness, [Next]_vars PROVE Freshness'
    OBVIOUS
  <1>0. Age \in Nat
    BY MinusType, ClimateAssumption DEF Age, Since, TypeOK, Clock
  <1>a. gap \in Nat /\ (pc # "delay" => gap <= MaxGap)
    BY ClimateAssumption DEF TypeOK
  <1>b. ASSUME lastreadtime' = lastreadtime, now' = now PROVE Age' = Age
    BY <1>b DEF Age, Since, Minus
  <1> USE <1>0, <1>a, ClimateAssumption DEF Phases, Freshness, dht, values, timers, contact
  <1>1. CASE Begin \/ Connect \/ PowerCycle
    BY <1>1 DEF Begin, Connect, PowerCycle
  <1>2. CASE ReadHumidity
    <2>1. CASE Cached
      BY <1>2, <1>b, <2>1 DEF ReadHumidity, Read, Cached, Age
    <2>2. CASE ~Cached
      <3>1. lastreadtime' = now /\ now' = now
        BY <1>2, <2>2 DEF ReadHumidity, Read
      <3>2. Age' = 0
        BY <3>1, MinusSelf DEF Age, Since, TypeOK
      <3> QED
        BY <1>2, <3>2 DEF ReadHumidity
    <2> QED
      BY <2>1, <2>2
  <1>3. CASE ReadTemperature
    <2>1. CASE Cached
      BY <1>3, <1>b, <2>1 DEF ReadTemperature, Read
    <2>2. CASE ~Cached
      <3>1. lastreadtime' = now /\ now' = now
        BY <1>3, <2>2 DEF ReadTemperature, Read
      <3>2. Age' = 0
        BY <3>1, MinusSelf DEF Age, Since, TypeOK
      <3> QED
        BY <1>3, <3>2 DEF ReadTemperature
    <2> QED
      BY <2>1, <2>2
  <1>4. CASE Tick
    <2>1. SUFFICES ASSUME sketch = "humidity", lastresult = "good", pc \notin {"begin", "connect"}
                   PROVE  Freshness'
      BY <1>4 DEF Tick
    <2>2. Age + 1 < ClockSize
      BY <2>1, <1>4 DEF Tick, TypeOK
    <2>3. Age' = Age + 1
      <3>1. Minus(now, lastreadtime) + 1 < ClockSize
        BY <2>2 DEF Age, Since
      <3>2. Minus(IF now = ClockSize - 1 THEN 0 ELSE now + 1, lastreadtime)
              = Minus(now, lastreadtime) + 1
        BY <3>1, MinusTick DEF TypeOK
      <3> QED
        BY <3>2, <1>4 DEF Age, Since, Tick
    <2> QED
      BY <2>1, <2>3, <1>4 DEF Tick
  <1>5. CASE StartPass \/ DelayOver
    BY <1>5, <1>b DEF StartPass, DelayOver
  <1>6. CASE Decide
    BY <1>6, <1>b DEF Decide, PassOver
  <1>7. CASE Publish
    BY <1>7, <1>b DEF Publish, PassOver
  <1>8. CASE SensorTurns \/ Expire \/ Lose \/ UNCHANGED vars
    BY <1>8, <1>b DEF SensorTurns, Expire, Lose, vars
  <1> QED
    BY <1>1, <1>2, <1>3, <1>4, <1>5, <1>6, <1>7, <1>8 DEF Next, Node

\* What has been asked is of one reading, or is no number.
LEMMA AskedStep == TypeOK /\ Freshness /\ Asked /\ [Next]_vars => Asked'
  <1> SUFFICES ASSUME TypeOK, Freshness, Asked, [Next]_vars PROVE Asked'
    OBVIOUS
  <1> USE DEF Asked, dht, values, timers, contact
  <1>1. CASE ReadHumidity
    BY <1>1 DEF ReadHumidity
  <1>2. CASE ReadTemperature
    <2>1. CASE humidity = "number" /\ sketch = "humidity"
      <3>1. Age <= gap
        BY <1>2, <2>1 DEF ReadTemperature, Freshness, Value
      <3>2. Cached
        BY <3>1, <1>2, MinusType, ClimateAssumption
           DEF ReadTemperature, Cached, Age, TypeOK, Since, Clock
      <3> QED
        BY <3>2, <1>2 DEF ReadTemperature
    <2>2. CASE ~(humidity = "number" /\ sketch = "humidity")
      BY <1>2, <2>2 DEF ReadTemperature
    <2> QED
      BY <2>1, <2>2
  <1>3. CASE Begin \/ Connect \/ StartPass \/ DelayOver
    BY <1>3 DEF Begin, Connect, StartPass, DelayOver
  <1>4. CASE Decide \/ Publish
    BY <1>4 DEF Decide, Publish, PassOver
  <1>5. CASE Tick \/ SensorTurns \/ Expire \/ Lose \/ PowerCycle
    BY <1>5 DEF Tick, SensorTurns, Expire, Lose, PowerCycle
  <1>6. CASE UNCHANGED vars
    BY <1>6 DEF vars
  <1> QED
    BY <1>1, <1>2, <1>3, <1>4, <1>5, <1>6 DEF Next, Node

\* A report is begun only with two numbers of one reading.
LEMMA ReportStep ==
  TypeOK /\ Asked /\ ReportSound /\ [Next]_vars => ReportSound'
  <1> SUFFICES ASSUME TypeOK, Asked, ReportSound, [Next]_vars PROVE ReportSound'
    OBVIOUS
  <1> USE DEF ReportSound, dht, values, timers, contact
  <1>1. CASE Decide
    BY <1>1 DEF Decide, Fails, PassOver, Asked, TypeOK
  <1>2. CASE Publish
    BY <1>2 DEF Publish, PassOver
  <1>3. CASE Begin \/ Connect \/ StartPass \/ ReadHumidity \/ ReadTemperature \/ DelayOver
    BY <1>3 DEF Begin, Connect, StartPass, ReadHumidity, ReadTemperature, DelayOver
  <1>4. CASE Tick \/ SensorTurns \/ Expire \/ Lose \/ PowerCycle
    BY <1>4 DEF Tick, SensorTurns, Expire, Lose, PowerCycle
  <1>5. CASE UNCHANGED vars
    BY <1>5 DEF vars
  <1> QED
    BY <1>1, <1>2, <1>3, <1>4, <1>5 DEF Next, Node

\* The invariant holds throughout.
LEMMA Inductive == Spec => []IInv
  <1>1. Init => IInv
    BY TypeInit, RestInit DEF IInv
  <1>2. IInv /\ [Next]_vars => IInv'
    <2>1. SUFFICES ASSUME IInv, [Next]_vars PROVE IInv'
      OBVIOUS
    <2> QED
      BY <2>1, TypeStep, PhasesStep, ContactStep, FreshnessStep, AskedStep, ReportStep DEF IInv
  <1> QED
    BY <1>1, <1>2, PTL DEF Spec

\* Every variable has its type, for every interval, clock and sensor.
THEOREM TypeCorrect == Spec => []TypeOK
  <1>1. IInv => TypeOK
    BY DEF IInv
  <1> QED
    BY <1>1, Inductive, PTL

\* Whatever is reported are two numbers, in the humidity sketch of one reading.
THEOREM ReportIsSound == Spec => []ReportSound
  <1>1. IInv => ReportSound
    BY DEF IInv
  <1> QED
    BY <1>1, Inductive, PTL

\* No session ends for its silence unless the sensor of a sketch that never
\* calls loop() has failed.
THEOREM SessionKept == Spec => []KeptWhileRead
  <1>1. IInv => KeptWhileRead
    <2>1. SUFFICES ASSUME IInv, session = "open", sketch = "relay" \/ failed = "no"
                   PROVE  silence < Expiry
      BY DEF KeptWhileRead
    <2>2. gap \in Nat /\ silence \in Nat /\ gap <= (IF pc = "delay" THEN Interval ELSE MaxGap)
      BY <2>1, ClimateAssumption DEF IInv, TypeOK
    <2>3. CASE sketch = "relay"
      BY <2>1, <2>2, <2>3, ClimateAssumption DEF IInv, Phases, Contact
    <2>4. CASE sketch = "humidity"
      BY <2>1, <2>2, <2>4, ClimateAssumption DEF IInv, Contact
    <2> QED
      BY <2>1, <2>3, <2>4 DEF IInv, TypeOK
  <1> QED
    BY <1>1, Inductive, PTL

=============================================================================
