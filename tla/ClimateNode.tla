----------------------------- MODULE ClimateNode -----------------------------
(***************************************************************************)
(* The two sketches that report a DHT sensor.  MQTT_Temp_Humidity reads,   *)
(* reports and waits, and never calls client.loop(); MQTT_Temp_Humid_Relay *)
(* calls it in every pass and reports when enough time has passed.  Both   *)
(* ask the DHT class twice for one report, which reads the sensor only     *)
(* when its last reading is old enough.  What client.loop() does is        *)
(* PubSubClient's; here it sends a ping in time.                           *)
(***************************************************************************)
EXTENDS Integers

CONSTANTS
  MinInterval, \* MIN_INTERVAL of DHT.cpp
  Interval,    \* delay() of the one sketch, timeIntervalDH11 of the other
  KeepAlive,   \* MQTT_KEEPALIVE
  Expiry,      \* after so long a silence the broker ends the session
  MaxGap,      \* ticks a pass of loop() takes, the next one's start included,
               \* but not its delay()
  ClockSize    \* values of millis()

ASSUME ClimateAssumption ==
  /\ MinInterval \in Nat /\ Interval \in Nat /\ KeepAlive \in Nat /\ MaxGap \in Nat
  /\ MaxGap < MinInterval /\ MinInterval <= Interval
  /\ Expiry \in Nat /\ Interval + MaxGap < Expiry /\ KeepAlive + MaxGap < Expiry
  /\ ClockSize \in Nat /\ Interval + MaxGap + MaxGap < ClockSize

VARIABLES
  sketch,        \* "humidity" or "relay"
  pc,            \* where setup() or loop() is
  now, gap,      \* millis(), and the ticks of this pass or this delay()
  \* the DHT object and what it returned, a number or NAN
  lastreadtime, lastresult, humidity, celsius,
  currentTime, previousTime,   \* the relay sketch's
  sensor,        \* "works" or "fails"
  session,       \* "none", "open" or "lost"
  \* history
  silence,       \* ticks since the last packet to the broker
  behind,        \* readings of the sensor since that of humidity
  failed         \* whether a pass since that packet had no numbers to report

dht     == <<lastreadtime, lastresult>>
values  == <<humidity, celsius, behind>>
timers  == <<currentTime, previousTime>>
contact == <<session, silence>>
vars    == <<sketch, pc, now, gap, dht, values, timers, sensor, contact, failed>>

\* The difference of two values of millis(), unsigned as they are.
Minus(a, b) == IF b <= a THEN a - b ELSE a - b + ClockSize

Since(t) == Minus(now, t)

-----------------------------------------------------------------------------
(* setup() *)

Init ==
  /\ sketch \in {"humidity", "relay"} /\ pc = "begin"
  /\ now = 0 /\ gap = 0
  /\ lastreadtime = 0 /\ lastresult = "bad"
  /\ humidity = "NAN" /\ celsius = "NAN" /\ behind = 0
  /\ currentTime = 0 /\ previousTime = 0
  /\ sensor = "works" /\ session = "none" /\ silence = 0 /\ failed = "no"

\* dht.begin() makes the first reading a new one.
LongAgo == Minus(now, MinInterval)

Begin ==
  /\ pc = "begin" /\ pc' = "connect"
  /\ lastreadtime' = LongAgo
  /\ UNCHANGED <<sketch, now, gap, lastresult, values, timers, sensor, contact, failed>>

\* while (!client.connected()), and no more after it has been.
Connect ==
  /\ pc = "connect" /\ pc' = "loop" /\ gap' = 0
  /\ session' = "open" /\ silence' = 0 /\ failed' = "no"
  /\ UNCHANGED <<sketch, now, dht, values, timers, sensor>>

-----------------------------------------------------------------------------
(* loop() *)

\* client.loop() pings after a silence of the keep-alive interval.  (Faulty: not
\* while the sensor has nothing to report.)
PingDueReporting == silence > KeepAlive /\ humidity = "number"
PingDue == silence > KeepAlive

StartPass ==
  /\ pc = "loop" /\ pc' = "humidity"
  /\ IF sketch = "relay"
       THEN /\ silence' = IF session = "open" /\ PingDue THEN 0 ELSE silence
            /\ currentTime' = now /\ gap' = 0
       ELSE UNCHANGED <<silence, currentTime, gap>>
  /\ UNCHANGED <<sketch, now, dht, values, previousTime, sensor, session, failed>>

\* DHT::read() returns the result of the last reading, which it makes anew if
\* MIN_INTERVAL has passed.  (Faulty: always.)
CachedNever == FALSE
Cached == Since(lastreadtime) < MinInterval

Read ==
  IF Cached THEN UNCHANGED dht
            ELSE lastreadtime' = now /\ lastresult' = IF sensor = "works" THEN "good" ELSE "bad"

\* A reading that failed is no number.
Value(result) == IF result = "good" THEN "number" ELSE "NAN"

ReadHumidity ==
  /\ pc = "humidity" /\ pc' = "celsius"
  /\ Read /\ humidity' = Value(lastresult') /\ behind' = 0
  /\ UNCHANGED <<sketch, now, gap, celsius, timers, sensor, contact, failed>>

ReadTemperature ==
  /\ pc = "celsius" /\ pc' = "decide"
  /\ Read /\ celsius' = Value(lastresult') /\ behind' = IF Cached THEN behind ELSE behind + 1
  /\ UNCHANGED <<sketch, now, gap, humidity, timers, sensor, contact, failed>>

\* The relay sketch reports when its interval is over.  (Faulty: a sum is
\* compared.)
ElapsedSum == currentTime > (previousTime + Interval) % ClockSize
Elapsed == Minus(currentTime, previousTime) > Interval

\* It fails to report when celsius is no number, or when humidity is none and
\* the interval is over.  (Faulty: when neither is a number.)
FailsBoth == celsius = "NAN" /\ humidity = "NAN"
Fails ==
  \/ celsius = "NAN"
  \/ humidity = "NAN" /\ (sketch = "humidity" \/ Elapsed)

\* The pass ends, in the one sketch with its delay().
PassOver ==
  /\ pc' = IF sketch = "humidity" THEN "delay" ELSE "loop"
  /\ gap' = IF sketch = "humidity" THEN 0 ELSE gap

Decide ==
  /\ pc = "decide"
  /\ LET reports == ~Fails /\ (sketch = "relay" => Elapsed)
     IN  /\ IF reports THEN pc' = "publish" /\ gap' = gap ELSE PassOver
         /\ previousTime' = IF reports /\ sketch = "relay" THEN currentTime ELSE previousTime
  /\ failed' = IF Fails THEN "yes" ELSE failed
  /\ UNCHANGED <<sketch, now, dht, values, currentTime, sensor, contact>>

\* The three publishes; whether they failed makes no difference to the sketch.
Publish ==
  /\ pc = "publish" /\ PassOver
  /\ IF session = "open" THEN silence' = 0 /\ failed' = "no"
                         ELSE UNCHANGED <<silence, failed>>
  /\ UNCHANGED <<sketch, now, dht, values, timers, sensor, session>>

DelayOver ==
  /\ pc = "delay" /\ gap = Interval /\ pc' = "loop" /\ gap' = 0
  /\ UNCHANGED <<sketch, now, dht, values, timers, sensor, contact, failed>>

Node ==
  \/ Begin \/ Connect \/ StartPass \/ ReadHumidity \/ ReadTemperature
  \/ Decide \/ Publish \/ DelayOver

-----------------------------------------------------------------------------
(* Time, the sensor, the broker and the power (not under src/). *)

Tick ==
  /\ IF pc = "delay" THEN gap < Interval ELSE pc \in {"begin", "connect"} \/ gap < MaxGap
  /\ now' = IF now = ClockSize - 1 THEN 0 ELSE now + 1
  /\ gap' = IF pc \in {"begin", "connect"} THEN gap ELSE gap + 1
  /\ silence' = IF silence < Expiry THEN silence + 1 ELSE silence
  /\ UNCHANGED <<sketch, pc, dht, values, timers, sensor, session, failed>>

SensorTurns ==
  /\ sensor' = IF sensor = "works" THEN "fails" ELSE "works"
  /\ UNCHANGED <<sketch, pc, now, gap, dht, values, timers, contact, failed>>

\* The broker ends a session that is silent for too long, and links break.
Expire ==
  /\ session = "open" /\ silence >= Expiry /\ session' = "lost"
  /\ UNCHANGED <<sketch, pc, now, gap, dht, values, timers, sensor, silence, failed>>

Lose ==
  /\ session = "open" /\ session' = "lost"
  /\ UNCHANGED <<sketch, pc, now, gap, dht, values, timers, sensor, silence, failed>>

PowerCycle ==
  /\ pc' = "begin" /\ now' = 0 /\ gap' = 0
  /\ lastreadtime' = 0 /\ lastresult' = "bad"
  /\ humidity' = "NAN" /\ celsius' = "NAN" /\ behind' = 0
  /\ currentTime' = 0 /\ previousTime' = 0
  /\ session' = "none" /\ silence' = 0 /\ failed' = "no"
  /\ UNCHANGED <<sketch, sensor>>

Next == Node \/ Tick \/ SensorTurns \/ Expire \/ Lose \/ PowerCycle

Spec == Init /\ [][Next]_vars

\* Time passes and the sketch runs on.
FairSpec == Spec /\ WF_vars(Tick) /\ WF_vars(Node)

-----------------------------------------------------------------------------
(* Properties *)

Clock == 0 .. ClockSize - 1

\* Every variable has its type.
TypeOK ==
  /\ sketch \in {"humidity", "relay"}
  /\ pc \in {"begin", "connect", "loop", "humidity", "celsius", "decide", "publish", "delay"}
  /\ now \in Clock /\ lastreadtime \in Clock
  /\ currentTime \in Clock /\ previousTime \in Clock
  /\ gap \in 0 .. IF pc = "delay" THEN Interval ELSE MaxGap
  /\ lastresult \in {"good", "bad"} /\ failed \in {"yes", "no"}
  /\ humidity \in {"number", "NAN"} /\ celsius \in {"number", "NAN"}
  /\ sensor \in {"works", "fails"} /\ session \in {"none", "open", "lost"}
  /\ silence \in 0 .. Expiry /\ behind \in {0, 1}

\* A report consists of numbers, and of one reading of the sensor, although the
\* sketch asks twice and the sensor may have failed in between.  In the relay
\* sketch, which reads in every pass, the last reading may grow too old between
\* the two questions: then the temperature is of the next one.
ReportSound ==
  pc = "publish" =>
    humidity = "number" /\ celsius = "number" /\ (sketch = "humidity" => behind = 0)

\* The broker ends no session for its silence unless the sensor failed: the one
\* sketch is kept connected by its reports alone, which the keep-alive interval
\* just allows, the other by client.loop() whatever the sensor does.
KeptWhileRead ==
  session = "open" /\ (sketch = "relay" \/ failed = "no") => silence < Expiry

\* While the sensor works, reports go on, also when millis() wraps.
ReportsGoOn == <>[](sensor = "works" /\ session = "open") => []<>(pc = "publish")
=============================================================================
