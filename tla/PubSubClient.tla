---------------------------- MODULE PubSubClient ----------------------------
(***************************************************************************)
(* The MQTT session every ESP8266 sketch of the repository runs on:        *)
(* libraries/PubSubClient/src/PubSubClient.cpp, release 2.4.  One client,  *)
(* one TCP connection, one broker.  A call of loop() that finds a packet   *)
(* is split where the code blocks: while it waits for the bytes of the     *)
(* packet (readByte) and while the application's callback runs.  Between   *)
(* these points the clock moves, the link may drop and the callback may    *)
(* publish, but `t`, the clock value loop() took on entry, does not move.  *)
(*                                                                         *)
(* Time is the 32-bit millis() counter, scaled: it wraps at TimeMod.       *)
(***************************************************************************)
EXTENDS Integers, Sequences

CONSTANTS
  TimeMod,        \* the counter of millis() is computed modulo TimeMod
  KeepAlive,      \* MQTT_KEEPALIVE
  SocketTimeout,  \* MQTT_SOCKET_TIMEOUT
  IdMod,          \* nextMsgId is a counter modulo IdMod (2^16 in the code)
  LoopGap,        \* most ticks the application leaves between two loop() calls
  LoopMax,        \* most ticks one call of loop() takes on a working link
  AnswerMax,      \* most ticks a live broker takes to answer a PINGREQ
  MaxRx,          \* most packets the broker has under way, PINGRESP aside
  HasCallback,    \* whether the sketch called setCallback
  Horizon         \* bound: how far the histories `quiet` and `deaf` count

ASSUME TimeAssumption ==
  /\ KeepAlive \in Nat /\ SocketTimeout \in Nat \ {0}
  /\ LoopGap \in Nat /\ LoopMax \in Nat /\ AnswerMax \in Nat
  /\ SocketTimeout <= KeepAlive
  /\ TimeMod \in Nat
  /\ 2 * (KeepAlive + SocketTimeout + LoopGap + LoopMax) < TimeMod

ASSUME SizeAssumption ==
  /\ IdMod \in Nat /\ IdMod > 2
  /\ MaxRx \in Nat
  /\ HasCallback \in BOOLEAN

\* The histories count beyond what the properties allow a silence to last.
ASSUME HorizonAssumption ==
  Horizon \in Nat /\ Horizon > 2 * (KeepAlive + LoopGap + LoopMax)

VARIABLES
  \* the fields of the client object
  state,            \* _state
  pingOutstanding,
  lastIn,           \* lastInActivity
  lastOut,          \* lastOutActivity
  nextMsgId,
  \* the call in progress
  pc,               \* where the client's thread of control is
  t,                \* the local t of loop()
  since,            \* previousMillis of the readByte in progress
  packet,           \* the kind of the packet whose callback runs
  \* the platform
  now,              \* millis()
  sock,             \* what _client->connected() reports
  \* the broker's end
  rx,               \* packets sent to the client and not read yet
  peer,             \* whether the broker still answers
  session,          \* whether it accepted this connection's CONNECT
  pong,             \* 0, or 1 + the ticks left to answer a PINGREQ
  \* history, read by no action of the client
  quiet,            \* ticks since the client last wrote
  deaf,             \* ticks since the client last took in a packet
  gap               \* on an open connection: ticks since loop() was entered or left

client == <<state, pingOutstanding, lastIn, lastOut, nextMsgId>>
call   == <<pc, t, since, packet>>
broker == <<rx, peer, session, pong>>
vars   == <<client, call, now, sock, broker, quiet, deaf, gap>>

-----------------------------------------------------------------------------
States == {"DISCONNECTED", "CONNECTED", "LOST", "TIMEOUT", "FAILED", "REFUSED"}

\* What the code tells apart in a packet from the broker.  An answer to CONNECT
\* that is not four bytes long is "short"; "junk" is the rest of a packet whose
\* beginning a timed-out read has thrown away.
Messages == {"publish0", "publish1", "pingreq", "other", "oversize"}
Received == Messages \cup {"pingresp"}
Packets  == Received \cup {"accept", "refuse", "short", "junk"}

\* Unsigned subtraction of two values of the millis() counter.
Elapsed(a, b) == IF a >= b THEN a - b ELSE a - b + TimeMod
Advance(a)    == IF a + 1 = TimeMod THEN 0 ELSE a + 1

\* nextMsgId++, skipping 0.  (Faulty: without the wrap to 1.)
NextIdUnwrapped(i) == i + 1
NextId(i) == IF i + 1 = IdMod THEN 1 ELSE i + 1

Init ==
  /\ state = "DISCONNECTED" /\ pingOutstanding = 0
  /\ lastIn = 0 /\ lastOut = 0 /\ nextMsgId = 0
  /\ pc = "idle" /\ t = 0 /\ since = 0 /\ packet = "other"
  /\ now \in 0 .. TimeMod - 1
  /\ sock = "down"
  /\ rx = <<>> /\ peer = "alive" /\ session = "none" /\ pong = 0
  /\ quiet = 0 /\ deaf = 0 /\ gap = 0

-----------------------------------------------------------------------------
(* connected(), which every other call begins with. *)

\* connected() on a dead socket: a session believed up becomes a lost one.
NoticedLoss == IF state = "CONNECTED" THEN "LOST" ELSE state

\* loop(), publish(), subscribe() or connected() on a dead socket.
CallDead ==
  /\ pc \in {"idle", "callback"}
  /\ sock = "down"
  /\ state' = NoticedLoss
  /\ gap' = IF pc = "idle" THEN 0 ELSE gap
  /\ UNCHANGED <<pingOutstanding, lastIn, lastOut, nextMsgId, call, now, sock,
                 broker, quiet, deaf>>

\* _client->stop(): the broker's end of this connection, and the history of
\* the connection, are gone with it.
Stop ==
  /\ sock' = "down"
  /\ rx' = <<>> /\ session' = "none" /\ pong' = 0 /\ peer' = "alive"
  /\ quiet' = 0 /\ deaf' = 0

\* loop() or connect() returns, and its locals are gone.
Return ==
  /\ pc' = "idle" /\ t' = 0 /\ since' = 0 /\ packet' = "other"
  /\ gap' = 0

\* A wait that began at `from` has lasted SocketTimeout.
Expired(from) == Elapsed(now, from) >= SocketTimeout

-----------------------------------------------------------------------------
(* connect() *)

\* The TCP connection cannot be opened.
ConnectFailed ==
  /\ pc = "idle" /\ sock = "down"
  /\ state' = "FAILED"
  /\ UNCHANGED <<pingOutstanding, lastIn, lastOut, nextMsgId, call, now, sock,
                 broker, quiet, deaf, gap>>

\* TCP is up and the CONNECT is written; connect() now waits for an answer.
ConnectOpen ==
  /\ pc = "idle" /\ sock = "down"
  /\ sock' = "up"
  /\ state' = NoticedLoss
  /\ nextMsgId' = 1
  /\ lastIn' = now /\ lastOut' = now
  /\ pc' = "connack"
  /\ rx' = <<>> /\ session' = "none" /\ pong' = 0
  /\ peer' \in {"alive", "hung"}
  /\ quiet' = 0 /\ deaf' = 0
  /\ UNCHANGED <<pingOutstanding, t, since, packet, now, gap>>

\* Nothing came for SocketTimeout.
ConnectTimeout ==
  /\ pc = "connack" /\ rx = <<>>
  /\ Expired(lastIn)
  /\ state' = "TIMEOUT"
  /\ Stop /\ Return
  /\ UNCHANGED <<pingOutstanding, lastIn, lastOut, nextMsgId, now>>

\* The first byte of an answer is there: readPacket() reads it.
ConnectRead ==
  /\ pc = "connack" /\ rx # <<>>
  /\ pc' = "verdict" /\ since' = now /\ gap' = 0
  /\ UNCHANGED <<client, t, packet, now, sock, broker, quiet, deaf>>

ConnectAccepted ==
  /\ pc = "verdict" /\ rx # <<>> /\ Head(rx) = "accept"
  /\ rx' = Tail(rx)
  /\ lastIn' = now
  /\ pingOutstanding' = 0
  /\ state' = "CONNECTED"
  /\ deaf' = 0
  /\ Return
  /\ UNCHANGED <<lastOut, nextMsgId, now, sock, peer, session, pong, quiet>>

\* (Faulty: returning before the socket is closed.)
ConnectRefusedOpen ==
  /\ pc = "verdict" /\ rx # <<>> /\ Head(rx) = "refuse"
  /\ state' = "REFUSED"
  /\ rx' = Tail(rx)
  /\ Return
  /\ UNCHANGED <<pingOutstanding, lastIn, lastOut, nextMsgId, now, sock, peer,
                 session, pong, quiet, deaf>>

ConnectRefused ==
  /\ pc = "verdict" /\ rx # <<>> /\ Head(rx) = "refuse"
  /\ state' = "REFUSED"
  /\ Stop /\ Return
  /\ UNCHANGED <<pingOutstanding, lastIn, lastOut, nextMsgId, now>>

\* An answer that stalls or is not four bytes long leaves no trace in _state.
ConnectGivenUp ==
  /\ pc = "verdict"
  /\ Expired(since) \/ (rx # <<>> /\ Head(rx) = "short")
  /\ Stop /\ Return
  /\ UNCHANGED <<client, now>>

-----------------------------------------------------------------------------
(* loop() *)

\* Either direction has been silent for too long.  (Faulty: watching only one.)
PingDueIn  == Elapsed(now, lastIn) > KeepAlive
PingDueOut == Elapsed(now, lastOut) > KeepAlive
PingDue == Elapsed(now, lastIn) > KeepAlive \/ Elapsed(now, lastOut) > KeepAlive

\* The previous PINGREQ is still unanswered: the connection is given up.
LoopTimeout ==
  /\ pc = "idle" /\ sock = "up"
  /\ PingDue /\ pingOutstanding = 1
  /\ state' = "TIMEOUT"
  /\ Stop /\ Return
  /\ UNCHANGED <<pingOutstanding, lastIn, lastOut, nextMsgId, now>>

\* The keep-alive check, then a look at what has arrived.
LoopEnter ==
  /\ pc = "idle" /\ sock = "up"
  /\ ~(PingDue /\ pingOutstanding = 1)
  /\ \/ /\ PingDue
        /\ lastIn' = now /\ lastOut' = now
        /\ pingOutstanding' = 1
        /\ quiet' = 0
        /\ pong' = IF peer = "alive" THEN AnswerMax + 1 ELSE 0
     \/ /\ ~PingDue
        /\ UNCHANGED <<lastIn, lastOut, pingOutstanding, quiet, pong>>
  /\ \/ /\ rx # <<>>
        /\ pc' = "reading" /\ t' = now /\ since' = now /\ gap' = 0
        /\ UNCHANGED packet
     \/ rx = <<>> /\ Return
  /\ UNCHANGED <<state, nextMsgId, now, sock, rx, peer, session, deaf>>

\* One more byte, short of the last one: the wait for the next starts afresh.
ReadByte ==
  /\ pc \in {"verdict", "reading"} /\ sock = "up"
  /\ since # now
  /\ since' = now
  /\ UNCHANGED <<client, pc, t, packet, now, sock, broker, quiet, deaf, gap>>

\* readByte() gives up and readPacket() returns 0.  What was read is thrown
\* away; on a link that still works the rest of the packet comes later.
\* (Faulty: starting the wait afresh.)
ReadTimeoutRetry ==
  /\ pc = "reading"
  /\ Expired(since)
  /\ since' = now
  /\ UNCHANGED <<client, pc, t, packet, now, sock, broker, quiet, deaf, gap>>

ReadTimeout ==
  /\ pc = "reading"
  /\ Expired(since)
  /\ rx' \in IF rx = <<>> THEN {rx} ELSE {Tail(rx), <<"junk">> \o Tail(rx)}
  /\ Return
  /\ UNCHANGED <<client, now, sock, peer, session, pong, quiet, deaf>>

\* Only a PINGRESP settles the ping.  (Faulty: nothing does.)
StillOutstandingForever(kind) == pingOutstanding
StillOutstanding(kind) == IF kind = "pingresp" THEN 0 ELSE pingOutstanding

\* The whole packet is in the buffer, and len > 0 unless it is oversize.
ReadPacket(kind) ==
  /\ pc = "reading" /\ sock = "up"
  /\ rx # <<>> /\ Head(rx) \in {kind, "junk"}
  /\ rx' = Tail(rx)
  /\ IF kind = "oversize" THEN UNCHANGED <<lastIn, deaf>>
                          ELSE lastIn' = t /\ deaf' = 0
  /\ pingOutstanding' = StillOutstanding(kind)
  /\ quiet' = IF kind = "pingreq" THEN 0 ELSE quiet  \* PINGRESP is written
  /\ IF kind \in {"publish0", "publish1"} /\ HasCallback
       THEN pc' = "callback" /\ packet' = kind /\ UNCHANGED <<t, since, gap>>
       ELSE Return
  /\ UNCHANGED <<state, lastOut, nextMsgId, now, sock, peer, session, pong>>

\* The callback returns; a QoS 1 message is acknowledged.
CallbackReturn ==
  /\ pc = "callback"
  /\ \/ /\ packet = "publish1"
        /\ lastOut' = t
        /\ quiet' = IF sock = "up" THEN 0 ELSE quiet
     \/ /\ packet = "publish0"
        /\ UNCHANGED <<lastOut, quiet>>
  /\ Return
  /\ UNCHANGED <<state, pingOutstanding, lastIn, nextMsgId, now, sock, broker,
                 deaf>>

-----------------------------------------------------------------------------
(* Calls the application makes between loop() calls or from its callback. *)

\* write(): bytes leave for the broker and lastOutActivity is refreshed.
Write ==
  /\ lastOut' = now
  /\ quiet' = 0

Publish ==
  /\ pc \in {"idle", "callback"} /\ sock = "up"
  /\ Write
  /\ UNCHANGED <<state, pingOutstanding, lastIn, nextMsgId, call, now, sock,
                 broker, deaf, gap>>

\* subscribe() and unsubscribe()
Subscribe ==
  /\ pc \in {"idle", "callback"} /\ sock = "up"
  /\ nextMsgId' = NextId(nextMsgId)
  /\ Write
  /\ UNCHANGED <<state, pingOutstanding, lastIn, call, now, sock, broker, deaf,
                 gap>>

Disconnect ==
  /\ pc = "idle"
  /\ state' = "DISCONNECTED"
  /\ Stop
  /\ lastIn' = now /\ lastOut' = now
  /\ UNCHANGED <<pingOutstanding, nextMsgId, call, now, gap>>

-----------------------------------------------------------------------------
(* The platform and the broker (not under src/). *)

\* A silence, one tick later.
Longer(silence) == IF silence < Horizon THEN silence + 1 ELSE silence

\* A millisecond passes.  The application enters loop() often enough, a call
\* of loop() ends in time unless the link drops under it, and a live broker
\* answers a PINGREQ in time.
Tick ==
  /\ \/ pc = "idle" /\ (sock = "up" => gap < LoopGap)
     \/ pc = "connack" /\ rx = <<>> /\ Elapsed(now, lastIn) < SocketTimeout
     \/ /\ pc \in {"verdict", "reading"} /\ Elapsed(now, since) < SocketTimeout
        /\ sock = "up" => gap < LoopMax
     \/ pc = "callback" /\ (sock = "up" => gap < LoopMax)
  /\ pong # 1
  /\ now' = Advance(now)
  /\ IF sock = "up"
       THEN /\ quiet' = Longer(quiet) /\ deaf' = Longer(deaf)
            /\ pong' = IF pong > 1 THEN pong - 1 ELSE 0
            /\ gap' = gap + 1
       ELSE gap' = 0 /\ UNCHANGED <<quiet, deaf, pong>>
  /\ UNCHANGED <<client, call, sock, rx, peer, session>>

LinkDown ==
  /\ sock = "up"
  /\ Stop
  /\ UNCHANGED <<client, call, now, gap>>

\* The broker stops answering while TCP stays up.
Hang ==
  /\ sock = "up" /\ peer = "alive"
  /\ peer' = "hung"
  /\ pong' = 0
  /\ UNCHANGED <<client, call, now, sock, rx, session, quiet, deaf, gap>>

BrokerConnack(answer) ==
  /\ pc = "connack" /\ sock = "up" /\ peer = "alive" /\ rx = <<>>
  /\ rx' = <<answer>>
  /\ session' = IF answer = "accept" THEN "accepted" ELSE "none"
  /\ UNCHANGED <<client, call, now, sock, peer, pong, quiet, deaf, gap>>

BrokerSend(kind) ==
  /\ sock = "up" /\ session = "accepted" /\ peer = "alive"
  /\ pc \notin {"connack", "verdict"}
  /\ Len(rx) < MaxRx
  /\ rx' = Append(rx, kind)
  /\ UNCHANGED <<client, call, now, sock, peer, session, pong, quiet, deaf, gap>>

BrokerPong ==
  /\ pong > 0
  /\ rx' = Append(rx, "pingresp")
  /\ pong' = 0
  /\ UNCHANGED <<client, call, now, sock, peer, session, quiet, deaf, gap>>

-----------------------------------------------------------------------------
ConnectAnswered == ConnectAccepted \/ ConnectRefused \/ ConnectGivenUp

Library ==
  \/ ConnectTimeout \/ ConnectRead \/ ConnectAnswered
  \/ LoopTimeout \/ LoopEnter
  \/ ReadByte \/ ReadTimeout
  \/ \E kind \in Received : ReadPacket(kind)
  \/ CallbackReturn

Application ==
  CallDead \/ ConnectFailed \/ ConnectOpen \/ Publish \/ Subscribe \/ Disconnect

Environment ==
  \/ Tick \/ LinkDown \/ Hang
  \/ \E answer \in {"accept", "refuse", "short"} : BrokerConnack(answer)
  \/ \E kind \in Messages : BrokerSend(kind)
  \/ BrokerPong

Next == Library \/ Application \/ Environment

Spec == Init /\ [][Next]_vars

\* Time passes; the library's code runs on; the application calls loop() and
\* its callback returns.  Nothing is assumed of the link or of the broker,
\* except that a broker that is alive answers a PINGREQ.
Fairness ==
  /\ WF_vars(Tick) /\ WF_vars(BrokerPong)
  /\ WF_vars(ConnectTimeout) /\ WF_vars(ConnectRead) /\ WF_vars(ConnectAnswered)
  /\ WF_vars(LoopTimeout \/ LoopEnter)
  /\ WF_vars(ReadTimeout) /\ WF_vars(\E kind \in Received : ReadPacket(kind))
  /\ WF_vars(CallbackReturn)

FairSpec == Spec /\ Fairness

-----------------------------------------------------------------------------
(* Properties *)

Clock == 0 .. TimeMod - 1

\* Every variable has its type; in particular the packet identifier that a
\* SUBSCRIBE carries is never outside the counter's range.
TypeOK ==
  /\ state \in States /\ pingOutstanding \in {0, 1}
  /\ lastIn \in Clock /\ lastOut \in Clock /\ nextMsgId \in 0 .. IdMod - 1
  /\ pc \in {"idle", "connack", "verdict", "reading", "callback"}
  /\ t \in Clock /\ since \in Clock /\ packet \in Messages
  /\ now \in Clock /\ sock \in {"up", "down"}
  /\ rx \in Seq(Packets) /\ peer \in {"alive", "hung"}
  /\ session \in {"none", "accepted"} /\ pong \in 0 .. AnswerMax + 1
  /\ quiet \in Nat /\ deaf \in Nat /\ gap \in Nat

\* connected() asks only the TCP socket.  That is right because no call leaves
\* behind an open socket whose CONNECT the broker did not accept: outside
\* connect(), an open socket is a session both ends agree on, with a packet
\* identifier counter that has left 0.
SessionAgrees ==
  sock = "up" /\ pc \notin {"connack", "verdict"} =>
    /\ state = "CONNECTED"
    /\ session = "accepted"
    /\ nextMsgId # 0

\* How long one round of the application takes at most.
Round == LoopGap + LoopMax

\* The keep-alive of loop() holds although it works with the stale t and may
\* move lastOutActivity back in time after a callback that published: on an
\* open connection the client is never silent for longer than the keep-alive
\* interval plus one round of the application.
KeepAliveHeld == quiet <= KeepAlive + Round

\* A connection over which nothing comes in any more is closed within two
\* keep-alive intervals and two rounds, however much the application publishes
\* in the meantime (test/keepalive_spec: "disconnects a hung connection").
HungPeerDropped == deaf <= 2 * (KeepAlive + Round)

\* When packets arrive whole enough for readByte() never to give up, and a backlog
\* of MaxRx packets, of which loop() reads one per call, leaves room for the
\* PINGRESP behind it, a connection to a broker that answers is never given up as
\* timed out.
AnswersReadInTime ==
  /\ LoopMax < SocketTimeout
  /\ AnswerMax + (MaxRx + 1) * Round <= KeepAlive
NoFalseTimeout ==
  [][AnswersReadInTime /\ pc = "idle" /\ sock = "up" /\ peer = "alive"
       => state' # "TIMEOUT"]_vars

\* Every blocking call comes back: connect() whatever the broker does with the
\* CONNECT, and loop() whatever happens to the packet it has begun to read.
BlockingCallsReturn == pc # "idle" ~> pc = "idle"

\* A session whose broker has gone silent for good is eventually given up.
HungSessionEnds == (sock = "up" /\ peer = "hung") ~> sock = "down"

=============================================================================
