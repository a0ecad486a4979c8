----------------------------- MODULE AdafruitIO -----------------------------
(***************************************************************************)
(* The session of the Adafruit IO sketches: setup() connects and waits,    *)
(* loop() calls io.run(), which repairs the network and the MQTT session,  *)
(* reads packets and pings.  AdafruitIO (status(), mqttStatus(), run())    *)
(* keeps its timers in millis(), and takes an open socket for a session    *)
(* of Adafruit_MQTT, whose connect() may fail at any of its steps.         *)
(***************************************************************************)
EXTENDS Integers

CONSTANTS
  Interval,   \* AIO_PING_INTERVAL and the other intervals, all a minute
  MaxGap,     \* ticks between two steps of the sketch
  ClockSize,  \* values of millis()
  Cap         \* bound: ages are counted up to here

ASSUME TimeAssumption ==
  /\ Interval \in Nat \ {0} /\ MaxGap \in Nat \ {0}
  /\ ClockSize \in Nat /\ Interval + MaxGap < ClockSize
  /\ Cap \in Nat /\ Cap > 2 * Interval + MaxGap

VARIABLES
  pc,           \* where setup() or run() is
  ioStatus,     \* _status
  lastPing, lastConnect,       \* _last_ping, _last_mqtt_connect
  timeStart, started,          \* run()'s
  returned,     \* what run() last returned
  registered,   \* the subscriptions Adafruit_MQTT knows of
  now,          \* millis()
  gap,          \* ticks since the last step of the sketch
  \* the network and the broker
  wifi,         \* "up" or "down"
  socket,       \* client->connected()
  session,      \* whether the broker has accepted the CONNECT on it
  subscribed,   \* what the broker has subscriptions for
  \* history
  silence,      \* age of the last packet sent in the session
  wrapped,      \* whether millis() has come round since lastPing was set
  attempts      \* ages of the last three attempts to connect that failed since the
                \* Wi-Fi was lost or an open connection ended, the last one first

client  == <<ioStatus, lastPing, lastConnect, registered>>
timers  == <<timeStart, started>>
network == <<wifi, socket, session, subscribed>>
ages    == <<silence, wrapped, attempts>>
vars    == <<pc, client, timers, returned, now, gap, network, ages>>

\* The subscriptions of the sketch, and those AdafruitIO is to add.
Feeds  == {"feed"}
Errors == {"errors", "throttle"}

Statuses ==
  {"idle", "net disconnected", "disconnected", "connect failed", "connected"}
Older(age, ticks) == IF age + ticks < Cap THEN age + ticks ELSE Cap
Never == ClockSize \* lastConnect is 0: a tick is long, and 0 but its first instant
Since(t) == (now - t) % ClockSize
Advance(ticks) ==
  now' = (now + ticks) % ClockSize /\ wrapped' = (wrapped \/ now + ticks >= ClockSize)

\* setup() has called io.connect().
Init ==
  /\ pc = "setup" /\ ioStatus = "net disconnected" /\ returned = "idle"
  /\ lastPing = 0 /\ lastConnect = Never /\ timeStart = 0 /\ started = 0
  /\ registered = Feeds /\ now = 0 /\ gap = 0
  /\ wifi = "down" /\ socket = "closed" /\ session = FALSE /\ subscribed = {}
  /\ silence = 0 /\ wrapped = FALSE /\ attempts = <<Cap, Cap, Cap>>

-----------------------------------------------------------------------------
(* Adafruit_MQTT::connect(), what it returns and what it leaves behind. *)

\* No TCP connection; no CONNACK in time, or a wrong one, or no SUBACK, after
\* which the socket stays open; refused for good or for now; all well.
Outcomes ==
  {[code |-> "no tcp",    socket |-> {"closed"}, session |-> {FALSE}],
   [code |-> "no connack", socket |-> {"open", "closed"}, session |-> BOOLEAN],
   [code |-> "no suback", socket |-> {"open", "closed"}, session |-> {TRUE}],
   [code |-> "denied",    socket |-> {"open", "closed"}, session |-> {FALSE}],
   [code |-> "busy",      socket |-> {"open", "closed"}, session |-> {FALSE}],
   [code |-> "ok",        socket |-> {"open"}, session |-> {TRUE}]}

\* mqttStatus() makes of the code; "busy" makes it wait for a minute.
Meaning(code) ==
  IF code = "ok" THEN "connected"
  ELSE IF code = "denied" THEN "connect failed" ELSE "disconnected"
Pause(code) == IF code = "busy" THEN Interval ELSE 0

Attempt(code) ==
  \E o \in Outcomes :
    /\ o.code = code /\ (wifi = "down" => code = "no tcp")
    /\ socket' \in o.socket
    /\ session' \in {s \in o.session : s => socket' = "open"}
    /\ subscribed' \in IF code = "ok" THEN {registered}
                       ELSE IF code = "no suback" /\ session' THEN SUBSET registered
                       ELSE {{}}
    /\ lastConnect' = now
    /\ Advance(Pause(code))
    /\ silence' = 0
    /\ attempts' = IF code = "ok" THEN <<Cap, Cap, Cap>>
                   ELSE <<Pause(code), Older(attempts[1], Pause(code)),
                          Older(attempts[2], Pause(code))>>

\* Whether mqttStatus() lets an attempt be made.  (Faulty: the time since the
\* last one is not looked at.)
MayAttemptAlways == TRUE
MayAttempt == lastConnect = Never \/ Since(lastConnect) > Interval

NoAttempt ==
  UNCHANGED <<socket, session, subscribed, lastConnect, now, ages>>

\* mqttStatus() with result r.
MqttStatus(r) ==
  \/ ioStatus = "connect failed" /\ r = ioStatus /\ NoAttempt
  \/ /\ ioStatus # "connect failed"
     /\ \/ socket = "open" /\ r = "connected" /\ NoAttempt
        \/ /\ socket = "closed" /\ MayAttempt
           /\ \E o \in Outcomes : Attempt(o.code) /\ r = Meaning(o.code)
        \/ socket = "closed" /\ ~MayAttempt /\ r = "disconnected" /\ NoAttempt

\* status() with result r.  (Every network status but AIO_NET_CONNECTED stands
\* for "net disconnected".)
Status(r) ==
  /\ IF wifi = "up" THEN MqttStatus(r) ELSE r = "net disconnected" /\ NoAttempt
  /\ ioStatus' = r

\* _err_sub and _throttle_sub are 0 from the constructor on.
ErrSub == FALSE

\* connect(): start over, with the network down until it comes back; the
\* subscriptions to errors are set up if they exist.  (Faulty: without
\* _disconnect().)
ConnectAtop ==
  /\ ioStatus' = "net disconnected" /\ lastConnect' = Never /\ lastPing' = 0
  /\ wifi' = "down" /\ UNCHANGED <<socket, session, subscribed>>
  /\ registered' = IF ErrSub THEN registered \cup Errors ELSE registered
Connect ==
  /\ ioStatus' = "net disconnected" /\ lastConnect' = Never /\ lastPing' = 0
  /\ wifi' = "down" /\ socket' = "closed" /\ session' = FALSE /\ subscribed' = {}
  /\ registered' = IF ErrSub THEN registered \cup Errors ELSE registered

-----------------------------------------------------------------------------
(* The sketch *)

\* setup() waits for status() to be AIO_CONNECTED, without a time limit.
Setup ==
  /\ pc = "setup"
  /\ \E r \in Statuses : Status(r) /\ pc' = IF r = "connected" THEN "idle" ELSE "setup"
  /\ gap' = 0
  /\ UNCHANGED <<lastPing, registered, timers, returned, wifi>>

\* run() begins with status(), and starts over when the network or the session
\* is not there.
RunStart ==
  /\ pc = "idle"
  /\ timeStart' = now /\ gap' = 0
  /\ \E r \in Statuses : Status(r) /\ pc' = IF r = "connected" THEN "mqtt" ELSE "restart"
  /\ UNCHANGED <<lastPing, registered, started, returned, wifi>>

RunRestart ==
  /\ pc = "restart"
  /\ Connect
  /\ started' = now /\ wrapped' = FALSE
  /\ pc' = "wait" /\ gap' = 0
  /\ UNCHANGED <<timeStart, returned, now, silence, attempts>>

\* It waits for status() to be AIO_CONNECTED for a minute.  (Faulty: for
\* ever.)
WaitForever == FALSE
WaitOver == Since(started) > Interval

RunWait ==
  /\ pc = "wait" /\ gap' = 0
  /\ UNCHANGED <<lastPing, registered, timers, returned, wifi>>
  /\ \E r \in Statuses :
       /\ Status(r)
       /\ pc' = IF r = "connected" THEN "mqtt"
                ELSE IF WaitOver' THEN "return" ELSE "wait"

\* while (mqttStatus() != AIO_CONNECTED && less than a minute has passed)
RunMqtt ==
  /\ pc = "mqtt" /\ gap' = 0
  /\ UNCHANGED <<ioStatus, lastPing, registered, timers, returned, wifi>>
  /\ \E r \in Statuses :
       /\ MqttStatus(r)
       /\ pc' = IF r # "connected" /\ Since(timeStart)' < Interval THEN "mqtt" ELSE "mqtt again"

RunMqttAgain ==
  /\ pc = "mqtt again" /\ gap' = 0
  /\ \E r \in Statuses : MqttStatus(r) /\ pc' = IF r = "connected" THEN "ping" ELSE "return"
  /\ UNCHANGED <<ioStatus, lastPing, registered, timers, returned, wifi>>

\* processPackets(), and a ping when the last is more than a minute ago.
\* (Faulty: a ping needs the session to have been silent for two minutes.)
PingDueLate == now > (lastPing + 2 * Interval) % ClockSize
PingDue == now > (lastPing + Interval) % ClockSize

RunPing ==
  /\ pc = "ping"
  /\ IF PingDue
       THEN /\ lastPing' = now /\ wrapped' = FALSE
            /\ silence' = IF socket = "open" THEN 0 ELSE silence
       ELSE UNCHANGED <<lastPing, silence, wrapped>>
  /\ pc' = "return" /\ gap' = 0
  /\ UNCHANGED <<ioStatus, lastConnect, registered, timers, returned, now, network,
                 attempts>>

RunReturn ==
  /\ pc = "return"
  /\ \E r \in Statuses : Status(r) /\ returned' = r
  /\ pc' = "idle" /\ gap' = 0 /\ timeStart' = 0 /\ started' = 0
  /\ UNCHANGED <<lastPing, registered, wifi>>

Run == RunStart \/ RunRestart \/ RunWait \/ RunMqtt \/ RunMqttAgain \/ RunPing \/ RunReturn

-----------------------------------------------------------------------------
(* Time, the network and the broker (not under src/). *)

\* Time passes between two calls of run() and in the loops that wait.
Tick ==
  /\ pc \in {"setup", "idle", "wait", "mqtt"} /\ gap < MaxGap
  /\ Advance(1) /\ gap' = gap + 1
  /\ silence' = Older(silence, 1)
  /\ attempts' = [i \in 1 .. 3 |-> Older(attempts[i], 1)]
  /\ UNCHANGED <<pc, client, timers, returned, network>>

WifiLost ==
  /\ wifi = "up" /\ wifi' = "down"
  /\ socket' = "closed" /\ session' = FALSE /\ subscribed' = {}
  /\ attempts' = <<Cap, Cap, Cap>>
  /\ UNCHANGED <<pc, client, timers, returned, now, gap, silence, wrapped>>

WifiJoined ==
  /\ wifi = "down" /\ wifi' = "up"
  /\ UNCHANGED <<pc, client, timers, returned, now, gap, socket, session, subscribed, ages>>

\* The broker, or the network, closes the connection, and TCP says so.
Drop ==
  /\ socket = "open"
  /\ socket' = "closed" /\ session' = FALSE /\ subscribed' = {}
  /\ attempts' = <<Cap, Cap, Cap>>
  /\ UNCHANGED <<pc, client, timers, returned, now, gap, wifi, silence, wrapped>>

Next == Setup \/ Run \/ Tick \/ WifiLost \/ WifiJoined \/ Drop

Spec == Init /\ [][Next]_vars

\* Time passes, and the sketch is never stopped.
FairSpec == Spec /\ WF_vars(Tick) /\ WF_vars(Setup \/ Run)

-----------------------------------------------------------------------------
(* Properties *)

Clock == 0 .. ClockSize - 1

\* Every variable has its type.
TypeOK ==
  /\ pc \in {"setup", "idle", "restart", "wait", "mqtt", "mqtt again", "ping", "return"}
  /\ ioStatus \in Statuses /\ returned \in Statuses
  /\ {lastPing, timeStart, started, now} \subseteq Clock /\ lastConnect \in Clock \cup {Never}
  /\ registered \subseteq Feeds \cup Errors /\ subscribed \subseteq registered
  /\ gap \in 0 .. MaxGap
  /\ wifi \in {"up", "down"} /\ socket \in {"open", "closed"} /\ session \in BOOLEAN
  /\ session => socket = "open" /\ wifi = "up"
  /\ silence \in 0 .. Cap /\ wrapped \in BOOLEAN /\ attempts \in [1 .. 3 -> 0 .. Cap]

\* A session is kept alive while the sketch calls run(): the client is never
\* silent for longer than the interval of the pings and a round of loop()
\* (AdafruitIO.cpp:295, "Must be called frequently to keep AIO connections
\* alive"), although run() starts over, waits and reconnects in between.  The
\* exception is when millis() has come round since the last ping: run() compares
\* it with a sum that may then stay out of reach for 49 days.
PingHeld == session /\ ~wrapped => silence <= Interval + 3 * MaxGap

\* Of three attempts to connect that fail within a minute, the first and the third
\* are parted by a loss of the Wi-Fi or by the end of an open connection, whichever
\* calls of status() and mqttStatus() make them.  This is less than the code says of
\* itself (AdafruitIO.cpp:440, "prevent fast reconnect attempts, except for the first
\* time through"), and all it keeps: run() starts over when the network or the
\* session is lost, connect() then zeroes the time of the last attempt
\* (AdafruitIO.cpp:150), and the next one is made at once.  A Wi-Fi that comes and
\* goes has attempts follow each other as fast as it does.
AttemptsSpaced == attempts[3] >= Interval

\* run() comes back, whatever the network and the broker do.
RunReturns == pc # "setup" ~> pc = "idle"
=============================================================================
