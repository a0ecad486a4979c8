# Verification of the ESP8266 / MQTT applications

TLA+ models of the programs in this repository, checked with TLC and proved
about with TLAPS. The repository is a collection of ESP8266 sketches, Raspberry
Pi scripts and vendored Arduino libraries; its largest application is the
motion detector of a quadruped robot (`Project/Quadrupled_Robot_Motion_Detector`).

## 1. The system

### Components

| Component | Code | State it keeps | Operations |
|---|---|---|---|
| MQTT session | `libraries/PubSubClient/src` | `_state`, two activity timers, `pingOutstanding`, `nextMsgId`, one packet buffer | connect, loop (ping, read, callback), publish, publish_P, subscribe, unsubscribe, disconnect, connected |
| Door detector | `IR_Door_Detector.ino` | `lastTime`, the running cycle | setup, sample, three publishes |
| Outlet relay | `Four_Outlet_Power_Relay_Activation.ino` | the relay pin | setup, subscribe, callback |
| Camera relay | `ArduCam_Relay_Activation.ino` | `isStreaming`, `wclient`, the camera's FIFO and CS, the relay pin | /capture, /stream, other URLs, callback |
| Camera, relay, ultrasound | `Arduino_ESP8266_and_RaspberryPI_MQTT` | as the camera relay, distance timer | as above, distance report |
| Temperature and humidity | `Arduino_ESP8266_MQTT`, `libraries/DHT` | last reading and its time, the report timer | begin, read, three publishes |
| GPIO node | `ThingsBoard_ESP8266` | `gpioState`, the pins | reconnect in loop, get, set, answer, announce |
| Adafruit IO client | `libraries/Adafruit_IO_Arduino` | `_status`, `_last_ping`, `_last_mqtt_connect` | connect, status, mqttStatus, run |
| Adafruit MQTT client | `libraries/Adafruit_MQTT_Library` | subscription slots with one message each, `packet_id_counter`, one buffer | connect, publish, subscribe, unsubscribe, ping, processPackets, readSubscription |
| Pi scripts | `Paho_*` (Python) | subscriptions of paho, a byte buffer of the camera viewer | on_connect, on_message, publish from the keyboard |
| Drivers | `ArduCAM`, displays, JSON, web sockets | registers, pixels, documents | left aside |

### How they interact

Every node is one thread: `setup()` connects to WiFi and to the broker in two
loops that retry for ever, subscribes, and is never run again; `loop()` calls
`client.loop()` or publishes, never both in the detector and the humidity
sketch. Nodes speak only through the broker, at QoS 0 and with clean sessions.
Except for the ThingsBoard node and the Adafruit IO client nothing reconnects or
subscribes again. PubSubClient calls the sketch back from inside `loop()`; the
sketch may publish there. In the camera node the web server and PubSubClient
take turns on the one thread. The Adafruit IO sketches call `io.run()`, which
repairs network and session, and leaves the packets to Adafruit_MQTT.

### What is hard

Time (32-bit timers that wrap, a ping that resets both of its timers, a clock
value that is old by the time it is used, sums of times that are compared);
reads that block in the middle of a packet, or give up there; messages that come in while a call
waits for its answer; callbacks in the middle of `loop()`, over a buffer they
overwrite; several publishes that fail one by one; connections that break
unnoticed; power cycles in every phase; browsers that leave in the middle of a
picture; sensors that fail between two readings; lengths about the boundaries of
a length field or a buffer. `PROJECT.json` lists each hazard at its line.

What makes each component correct:

* MQTT session: an open socket is an accepted session; pings keep it alive; a
  silent broker is noticed, an answering one never suspected; calls come back;
  messages come whole and in order out of the one buffer, packets go out of it as
  meant, and what is read and built stays inside it.
* Motion detector: commands reach an outlet in order; the three topics and the
  outlets end up following the door, whichever publish failed.
* Camera node: relay commands never wait for ever; a watched stream is not cut;
  each viewer gets a well-formed response on its own connection.
* Climate nodes: reports are numbers of one reading and go on; the broker does
  not drop a healthy node.
* GPIO node: each request is carried out and answered at most once, and the
  dashboard ends up showing the pins.
* Adafruit IO: the session is pinged in time, attempts to connect are spaced,
  `run()` comes back; of each feed the newest message is kept, newer and newer
  ones are given, and a publish that was acknowledged was taken; of a packet that
  was torn no more is handled than came.

## 2. The modules

| Module | Models | Composition |
|---|---|---|
| `PubSubClient` | the MQTT session, its application, link and broker | |
| `PacketBuffer` | the bytes of PubSubClient's packets and the buffer they share | |
| `DoorSystem` | detector, relays and broker of the motion detector | |
| `DoorAlarm` | what the motion detector promises (abstract) | |
| `DoorHistory` | `DoorSystem` with the history `DoorAlarm` speaks of | EXTENDS `DoorSystem`, INSTANCE `DoorAlarm` |
| `CameraNode` | `loop()` of the two camera sketches | |
| `ClimateNode` | the two sketches that report a DHT sensor, and the DHT class | |
| `RemotePins` | what the GPIO node promises (abstract) | |
| `GpioNode` | the ThingsBoard node, its link and its server | INSTANCE `RemotePins` |
| `AdafruitIO` | the status machine of the Adafruit IO client and its sketches | |
| `FeedPackets` | the lengths of Adafruit_MQTT's packets | |
| `FeedMail` | what an Adafruit_MQTT client promises (abstract) | |
| `FeedClient` | the calls of Adafruit_MQTT and the packets they wait for | INSTANCE `FeedMail` |
| `PubSubClientProofs`, `PacketProofs`, `DoorProofs`, `CameraProofs`, `ClimateProofs`, `GpioProofs`, `FeedProofs`, `FeedClientProofs` | theorems | EXTENDS the module they are about; `FeedProofs` is about `AdafruitIO` and `FeedPackets` |
| `MC...` | instances for TLC | EXTENDS the module they instantiate |

Some definitions have a *faulty* twin just above them, named in its comment. It
is a plausible slip in the same code, used to see that a property can fail.

### PubSubClient

State: the fields of the object, the program counter of the one thread (`pc`),
the locals that matter (`t`, the clock value of `loop()`; `since`, the start of
the `readByte()` in progress), the socket, and the broker's end. The clock is
`millis()` with a small modulus and starts anywhere. `loop()` is split where it
blocks: `LoopTimeout` and `LoopEnter` are the keep-alive check, `ReadByte`,
`ReadTimeout` and `ReadPacket` the reading, `CallbackReturn` the rest of a call
whose callback ran; while it runs, `Publish` and `Subscribe` are possible.
`connect()` is split into `ConnectFailed`, `ConnectOpen`, `ConnectTimeout`,
`ConnectRead` and the three outcomes of reading the answer.

Packets are their kinds. A read that gives up throws away the beginning of the
packet; the rest arrives later as `"junk"`, which `ReadPacket` may take for any
packet. Not modelled: `connect()` and `disconnect()` from a callback, streams,
WILL and credentials, and a broker that starts to answer again after it has gone
silent on the same connection.

Assumed of the environment, as guards of `Tick`: the application enters `loop()`
at most `LoopGap` ticks after the last call ended; one call of `loop()`, or the
reading of a CONNACK, takes at most `LoopMax` on a working link; a live broker
answers a PINGREQ within `AnswerMax`. `quiet`, `deaf` and `gap` are history:
no action of the client reads them.

### PacketBuffer

`buffer` is the array, byte for byte; `wire` the stream from the broker.
`LoopRead` is `readPacket()` and the part of `loop()` up to the callback: it
finds the length field, takes the packet from the stream, stores it in the
buffer (`Stored`) and, for a PUBLISH, works out topic, identifier and
payload by the offsets of the code. `LoopGiveUp` is a read that stops after
`Cuts` bytes, or where the stream does.

The array may be left: `Store` writes wherever it is told, as most of the code
does, and the one comparison of an index with the size, for the bytes after the
length of the topic, is `Overlay`. A write past the end makes the domain of
`buffer` larger, `Intact` is false then, and nothing but a power cycle follows:
what the node does with its memory overwritten is not modelled. Three ways out of
the buffer are in the model because they are in the code, and
`WritesStayInside` names them: a topic of any length in `publish_P()`; the QoS
byte of `subscribe()`, whose test of the length lacks it, for the longest topic
the test lets pass (the library's own test calls that length allowed); and the
digits of a length that has no end, or the length of a topic, once a read gave up
and the middle of a packet is taken for the beginning of one. While the callback runs the application may `Publish`,
`PublishP`, `Subscribe`, or `Republish` the payload from the copy it made, as
the library's example does; `CallbackReturn` builds the PUBACK in the same
buffer. Sizes are scaled: a digit of a length is below `Radix` (128 in the
code), a byte below twice that, and the 16 bits of a length are 4 * Radix^2. The
count of the bytes of a packet has 16 bits in the code as well; `LoopRead` takes
no packet so long that it would wrap. The bytes of CONNECT are not modelled.
`Selected` is what SelectSeq would give, as a recursive function: the provers
cannot look into a RECURSIVE operator.
`publish_P()` compares what was written with the size of a packet of one length
digit, so its result is FALSE for a longer one that went out well; the model
has it so and no property asks otherwise.

### DoorSystem, DoorAlarm, DoorHistory

One action per step of a sketch: `Connect`, `LeaveConnectLoop` and `Subscribe`
are setup(); `Sample`, `PublishIR`, `PublishRelay` and `PublishRobot` the cycle
of the detector, between any two of which the door may move, a link may break or
a node may restart; `HandleMessage` is loop() and callback() of a relay node.
A broken link is `"limbo"` until the node's TCP stack notices. The broker is
external: a subscription lives as long as the connection, every subscriber gets
its copy of a command, in order. A command that has reached the node's TCP
buffer when the link breaks counts as handled before the break.

A publish or the subscribe fails on its own as well, on a link that stays up
(`Written`): `Client::write()` may take nothing of a packet (`"refused"`), and the
next publish of the same cycle may arrive; or it takes the beginning of it
(`"torn"`), and the broker ends the session when the next packet is not the rest.
The sketches print the result of a publish and do not look at that of subscribe(),
so that a relay node may run on without a subscription.

`DoorAlarm` is the promise: an outlet carries out issued commands, in the order
of their issue, each at most once; it may miss commands, and a restart switches
it off. `DoorHistory` adds the log of commands and each relay's place in it, and
implements `DoorAlarm` (`ImplementsAlarm`).

### CameraNode

`loop()` alternates `RelaySensor` with one visit of the web server. `ServeStream`
and `ServeCapture` go up to the wait for the camera, `Frame` and `Picture` from
there to the first piece of the picture, `BadPicture` is the return for an empty
or oversize one, `SendPiece` one round of the sending loop, `SendingLost` and
`SendingDone` the ways out of it. `wclient` is the sketch's own reference to a
connection, `current` the web server's; a connection closes when both are gone.
Browsers ask and leave at any moment. Pictures are lengths. The relay's MQTT
connection is that of `DoorSystem` and stays up here.

`sketch` says which of the two sketches the node runs. The forerunner
`MQTT_ArduCam_Relay_Ultrasound.ino` does not visit the web server while it
streams (`StreamOn`), and measures a distance in between (`Ultrasound`), with a
trigger pin that is the camera's chip select: `cs` is left low by it.

### ClimateNode

One action per step of a pass: `StartPass`, the two readings, `Decide`,
`Publish`, `DelayOver`. The two readings of a pass are one reading of the sensor
when the second comes within `MIN_INTERVAL`, which is what `DHT::read()` keeps
its timer for; the unsigned difference of times is `Minus`. The sensor may turn
at any moment. `silence` is what the broker sees of the node, `failed` whether
a pass since then had no numbers to report: no action reads either.

### GpioNode, RemotePins

`Connect`, `Subscribe` and `Announce` are `reconnect()`; `HandleMessage`, `Reply`
and `Report` are `on_message()`. Its publishes may fail one by one: because the
link is cut between them and the node only learns of it later (`NoticeLoss`), or
because a write is refused or torn on a link that stays up (`Written`). The sketch
looks at no result, so that nothing makes up for a refused write: `refused`, which
no action reads, remembers for the properties that the SUBSCRIBE of this
connection, or the newest attributes, were one. `log` and `done` are the history `RemotePins` speaks of: the
states the pins have been in, and where in it each request left them. Requests
are what the JSON library makes of a message: get, set, set of a pin the node
does not have, or noise.

### AdafruitIO

`Setup` is the wait of `setup()`; `RunStart` to `RunReturn` are `run()`, split
where it waits and where it looks at the status again. `MqttStatus` and `Status`
are the functions of these names, and `Attempt` what `Adafruit_MQTT::connect()`
may leave behind: its return code, a socket that may stay open, and
subscriptions made so far. A tick is long, so that the `_last_mqtt_connect` that
means "never" is told apart from a time (`Never`). `PingDue` is compared as the
code does it, with a sum that wraps. `silence`, `attempts` and `wrapped` are
history. `attempts` begins anew when the Wi-Fi or an open connection is lost:
`run()` starts over then, `connect()` sets `_last_mqtt_connect` to zero, and the
next attempt is made at once, so that a network that comes and goes has attempts
follow each other as fast as it does. `AttemptsSpaced` is about the time between
two such losses; "prevent fast reconnect attempts", as the code says of itself, is
more than that, and more than the code keeps.

What the model shows beyond its properties: an open socket left by a connect
without CONNACK is taken for a session (`MqttStatus`), and the subscriptions to
errors are never made, because they are looked for before they exist (`ErrSub`).

### FeedPackets

Lengths and offsets only, with the sizes of the code. `Publish` is
`publishPacket()`, `Forward` and `Foreign` put a packet on the way to the
subscriber, `Read` is `readFullPacket()` and `handleSubscriptionPacket()`. A read
may stop at any byte, because the next one does not come within the time allowed:
what has come is handled as the packet, with the topic compared to bytes of older
packets where it has not come (`Matched`), and with a length of the data that is
computed in 16 bits and wraps when the data has not begun (`Got`). The stream is
followed until a packet is left over, by a read that gave up or by one that had no
room; `Reconnect` starts another.

Topics have any length of 16 bits. One that leaves no room for the payload makes
the room left wrap (`Fitting`), and the packet leaves the buffer: `stage` is
`"overrun"` then, and only a restart follows. What the model shows beyond its
properties: a payload of exactly `SUBSCRIPTIONDATALEN` bytes is kept whole and has
no nul behind it, although the header promises one for every payload.

### FeedClient, FeedMail

One action per packet that is read or waited for in vain. `pc` is what the
client reads for; `ReadConnack`, `ReadSuback` and `NoSuback` are `connect()`,
`WaitFor` is `processPacketsUntil()`, which puts every message it comes across
into its subscription (`PassOver`); `ReadUnread` and `ReadPacket` are
`readSubscription()` as called by `processPackets()`. A subscription has room for
one message; a newer one replaces it. The history `arrived` is the newest message
of each feed that was taken from the stream, but for those that connect() and
unsubscribe() read in place of their answer and lose. `FeedMail` is the promise that remains:
newer and newer messages, none twice. The broker is external and answers every
packet it takes, in order.

Also in the model: `unsubscribe()` never succeeds for a feed of QoS 1, whose
answer it expects to be a byte longer than it is (`Confirms`); a PUBACK that
comes after its `publish()` gave up makes the next `publish()` return FALSE.

## 3. The runs

| Run | Question | Bounds | States |
|---|---|---|---|
| `session` | does an open socket mean an accepted session; is a live broker ever given up | keep-alive 5, socket timeout 2, clock modulo 19, one packet under way beside a PINGRESP | 0.9 M |
| `slow_link` | do the two bounds on silence hold when reads give up; do calls come back; does a session with a silent broker end | keep-alive 1, socket timeout 1, LoopMax 2, clock modulo 11 | 0.3 M |
| `packet_buffer` | does a callback get what was published; is the right message acknowledged; are packets written as meant; can published messages be received; which writes leave the buffer | digits below 8, packets of at most 16 bytes, two messages, a read that stops after 6 bytes or at the end of the stream | 0.1 M |
| `door_attended` | do the topics and the outlets end up following the door | two relays, two faults (a link, a write or the power), two commands under way | 0.3 M |
| `door_history` | is a command repeated or carried out after a newer one; is `DoorAlarm` implemented | the same, three commands in all | 4.7 M |
| `camera` | do browsers keep the relay from its commands, cut a stream or open a second one, in either sketch | two browsers, pictures of up to one and a half buffers | 13 k |
| `camera_greeting` | does a new viewer get a response header | as above | violated |
| `climate_node` | are reports the numbers of one reading; does the broker drop a healthy node; do reports go on | sensor interval 2, report interval 4, keep-alive 4, clock modulo 9, both sketches | 0.1 M |
| `gpio_node` | do answers and announcements tell the truth; does the dashboard catch up; is `RemotePins` implemented | two pins, two requests, three faults (a link, a write or the power) | 0.2 M |
| `adafruit_io` | is the session pinged in time; are attempts spaced between two losses; does `run()` return | interval 3, one tick between calls, clock modulo 10 | 0.4 M |
| `feed_packets` | do packets fit the buffer; what does a subscriber get of a payload; which packets are handled | buffer 150 and subscription 100, as in the code; topics and payloads about every boundary, reads that stop at any byte | 0.3 M |
| `feed_client` | is an acknowledged publish one that was taken; does a callback's data stay; is the newest message of a feed kept; is `FeedMail` implemented | two feeds, one with QoS 1, two slots, four identifiers, three messages, two publishes, one connection | 2.8 M |

### Why the bounds are enough

*Clocks.* Every modulus is a little more than twice the longest time that is
compared, so that a clock wraps in the middle of every wait. PubSubClient's
clock starts anywhere, the others at 0, the start of the sketch. `Horizon`, `Expiry` and `Cap` stop
histories beyond what the properties speak of; the assumptions of the modules
make sure that they are beyond. In `session` `AnswersReadInTime` holds of the
constants, so that `NoFalseTimeout` is not vacuous: no read gives up, and the
interval has room for the answer, a packet in front of it and a round more. Both
parts are needed. A read that gives up leaves its packet in the backlog, or takes
the PINGRESP with it, and a broker that has answered is given up (keep-alive 3,
socket timeout 1, LoopMax 2, no backlog). In `slow_link` a read may take as long
as the socket timeout, so that reads give up on a working link.

*Lengths.* In `packet_buffer` a length field has one digit below 8 and two from
8 on, so that packets of both sizes fit the buffer of 16; topics and payloads
are chosen about the size where the second digit begins and where the buffer
ends. `feed_packets` has the true sizes and lengths about 126 to 128, about the
size of the buffer and about the size of a subscription.

*Faults.* Two relays and two faults let one relay lose its session while the
other keeps its own and the detector restarts between two publishes; a repair is
not counted, so that a repaired node may fail again. A write that fails is one
of the two. Three faults let the GPIO
node lose its link in the middle of an answer, reconnect, and lose it again
while it announces its pins, or have both publishes of a request refused. `MaxQueue` holds back the detector's next sample
until each relay has room; `MaxCommands` lets a command be overtaken twice.

*Messages.* Four identifiers wrap in `feed_client`, since subscribing to two
feeds with a retry and publishing twice use more. `MaxWire` (2) and `IdSize` (4)
are related as `FeedAssumption` says: packets under way are fewer than
identifiers. The run has one connection; the theorems have any number.

The type invariants of `PacketBuffer`, `GpioNode`, `FeedPackets`, `FeedClient` and
`ClimateNode` are proved, so that no run repeats them.

### What the premises leave out

A property that holds under a condition says nothing where it fails. The
conditions that matter:

* `BlockingCallsReturn`: the guard `LoopMax` of `Tick` keeps a peer that trickles
  single bytes, each within the socket timeout, from stretching one call of loop()
  for ever. The code has no such bound; what is shown is that a peer that stalls
  does not hold it.
* `PingHeld`: until millis() has come round since the last ping. The comparison of
  sums in `AdafruitIO::run()` is wrong once then.
* `RunReturns`: ping() and processPackets() are taken to return.
* `CommandsServed`: the camera finishes the pictures it begins. The wait for it in
  serverStream() and in camCapture() has no timeout, and with a camera that is
  stuck the node is.
* `CallbackDataStable`: a callback publishes without QoS, as save() does. One that
  waits for a PUBACK reads packets into the subscription it is looking at, which
  is the fault the property's mutant puts in.
* `KeptWhileRead`: the sketch without client.loop() has had no failed reading in the
  session; a single one keeps it silent for two report intervals, and the broker may
  end its session. That client.loop() blocks in the middle of a packet, for up to
  15 s, is in `PubSubClient` and not in `ClimateNode`, where `MaxGap` bounds a pass.
* `AttributesCurrent`, `DashboardCatchesUp`: the newest attributes, and the
  SUBSCRIBE, were not refused by a write. The sketch never makes up for those before
  the next change of a pin or the next connection.
* `DeliveredIntact`, `WritesStayInside`: no read of this connection has given up.
* `BuiltInBuffer`: the topic leaves room. `SmallerIsWhole`, `DataHandled`: the read
  did not give up. `GetsPayload`: the read came as far as the payload.

All runs check for deadlock but `gpio_node`, which is over when its requests and
faults are used up.

### Fairness

`PubSubClient`: time passes, the library's code runs on, the application calls
loop() and its callback returns, a live broker answers a ping. Nothing is
assumed of link, broker or application otherwise. `DoorSystem`: every sketch is
an endless loop on its own processor, its connect loop retries for ever, and a
dead connection is noticed in the end. `OutletsFollowDoor` and `TopicsFollowDoor`
also assume that somebody power cycles a node that does not work: one that lost its
connection, and a relay node that has no subscription (`Repair`). The sketches
never reconnect nor subscribe again, and without this an outlet may stay as it is
for ever. Writes that fail are bounded with the other faults (`MaxFaults`).
`CameraNode`: the loop runs on and the camera finishes the pictures it begins.
`ClimateNode`, `AdafruitIO`: the loop runs on and time passes; in the first,
reports are only promised while the sensor works. `GpioNode`: the loop, the
server and the TCP stack run on; faults are bounded, since a link that is cut
for ever never shows a dashboard anything. `PacketBuffer`, `FeedPackets` and
`FeedClient` state safety only and assume nothing.

### What the violation shows

`serverStream()` sends the response header only when `isStreaming` is 0, "if we
are just starting to stream for a new client" says the comment above. The flag
is reset only when a later request finds the old connection closed, since the
loop around the body is commented out. While one viewer stays connected, the
next one gets `--frame` without a response header, and its picture goes to the
first. `camera_greeting` is that trace.

## 4. What is proved

For every value of the constants within the named assumptions:

* `PubSubClientProofs`: `TypeCorrect`, `SessionAgreement`, `KeepAliveIsHeld`,
  `HungPeerIsDropped`, `AnsweredIsKept`. The bounds on silence are not inductive:
  they speak of the true silence, which the client does not know. `IInv` ties each history to the
  client's timer (`quiet <= AgeOut`, `deaf <= AgeIn + Credit`), where `Credit` is
  the silence that had gone by when an unanswered PINGREQ renewed both timers,
  and bounds each timer by where in its round the client is. The stale `t` of
  loop() enters as `Elapsed(now, t) = gap`. `TimeAssumption` needs the clock to
  wrap later than twice the longest wait and the socket timeout not to exceed
  the keep-alive interval; the defaults (2^32 ms, 15 s, 15 s) satisfy it.
  `AnsweredIsKept` is the action property `NoFalseTimeout`. Its invariant
  `PingInv` follows the answer to an outstanding ping. While the broker has not
  sent it, both timers are as old as the broker allows; once it is at place i of
  the backlog, they are at most `Due(i)` old, which grows by a round for every
  packet that is no longer in front of it; and nothing but the answer takes the
  last place of the backlog (`BacklogInv`). The timers may be renewed on the way,
  by what the stale `t` says as well: that makes them younger than the ping.
* `PacketProofs`: `TypeCorrect`, `PacketsAreMeant` (a packet goes out with the
  header that was meant for it, also from a callback), `PublishedReceivable` (a
  message that publish() accepts fits the buffer of a receiver), `AcksAreMatched`,
  `MessagesAreDelivered`, `WritesAreInside`. Any radix that four divides, any buffer
  up to its square, any messages. `WritesAreInside` follows from where each packet
  begins and how long it may be: what is stored without a comparison is, in a
  stream that is still in step, a length field of three digits at most and the
  length of a topic, and what is built was compared before, but for the two calls
  that are named. For `MessagesAreDelivered` a message must be short enough for the 16 bits in which
  readPacket() counts (`LengthAssumption`). `AcksMatch` and
  `DeliveredIntact` are inductive, once `Inductive` gives the types; the work is
  in the data. The length field of every packet is found again and means what was
  written (`FieldValue`, `LengthIsFound`), the first packet of the stream is what
  is taken and leaves the rest (`FlattenFirst`, `PublicationIsTaken`), and the
  offsets of loop() name its topic, identifier and payload
  (`MessageIsGiven`). What `Selected` and the library's FlattenSeq
  make of a sequence that grows is shown from a least counterexample in place of
  induction (`Least`).
* `DoorProofs`: `TypeCorrect`, and `Refinement`, from an invariant that a relay
  without a session has nothing under way and that what is under way is the log
  beyond the relay's place in it, whichever publishes failed. Any set of relays, any
  number of faults, no bound on the log.
* `CameraProofs`: `TypeCorrect` (no step uses a closed connection, the length
  never wraps), `OneStream` and `StreamIsKept`, for any number of browsers and
  any picture.
* `ClimateProofs`: `TypeCorrect`, `ReportIsSound`, and `SessionKept`, from an
  invariant that ties the broker's `silence` to the time since the last pass. It
  needs the sketch's numbers to be as they are: a report interval and a pass
  together are shorter than the broker's patience (`ClimateAssumption`).
* `GpioProofs`: `TypeCorrect`, `TellsTruly`, `StaysCurrent`, and `KeepsPromise`,
  the refinement of `RemotePins`: a request under way was neither carried out nor
  answered, what is announced is in the order of the log, and what an answer
  tells is what its request left. Any pins, requests and number of faults.
  `StaysCurrent` is about attributes whose write was not refused.
* `FeedProofs`, about `AdafruitIO`: `SessionTypeCorrect`, `SessionIsPinged`,
  `AttemptsAreSpaced`, for every interval, round and clock. `SessionInv` bounds the
  silence by where in its round the sketch is (`SilenceAt`), and knows the last
  attempt to connect by its time unless run() has forgotten that; then the one
  before is at least an interval old, because an attempt without a time comes only
  at the beginning of a wait that lasts an interval itself (`InWait`,
  `Elsewhere`). It needs the clock to wrap later than an interval and a round.
  About `FeedPackets`: `TypeCorrect`, `PublishBuildsInBuffer`,
  `PayloadIsGot`, `SmallerAreWhole`, `OthersAreHandled`, for every buffer below
  256 bytes, every topic and payload of 16 bits and every read that stops early,
  under the conditions of the properties.
* `FeedClientProofs`: `TypeCorrect`, `DataStays`, `LastIsGiven` (the subscription
  holds what came last, and has been given it unless it is unread), and
  `KeepsPromise`, the refinement of `FeedMail`: what is in the stream is newer
  than what is in the subscriptions, and that not older than what was given.
  `AcknowledgedIsTaken` is the hard one. From the oldest publish under way on the
  identifiers under way follow each other up to the counter; hence none is older
  than the packets under way are many, which `FeedAssumption` and the guard
  `Calls` keep below the number of identifiers; hence the PUBACK with the
  identifier before the counter's answers the publish that waits. connect() may
  retry SUBSCRIBE more often than there are identifiers, which is why the
  invariant says nothing of them until a publish is under way.

Only model-checked: every liveness property (`BlockingCallsReturn`,
`HungSessionEnds`, `TopicsFollowDoor`, `OutletsFollowDoor`, `CommandsServed`, `DashboardCatchesUp`,
`RunReturns`, `ReportsGoOn`). They hold under fairness, about which the provers
cannot reason (ENABLED). Every invariant, action property and refinement of a
passing run is stated by a theorem. What `camera_greeting` refutes is no theorem.

## 5. Not modelled, and what is left

* The Raspberry Pi scripts. When they reconnect, and what a reconnect keeps, is
  decided by paho, which is not in the repository. What is theirs is a callback
  that prints or switches a pin, and the viewer's search for frame markers.
* The LED, relay and greeting nodes: the same `setup()`, `loop()` and callback as
  the outlet relay of `DoorSystem`, with one LED or a greeting in place of a relay.
* The stand-alone sensor sketches keep no state between two passes.
* Sensor, camera, display, JSON and web socket libraries are vendored drivers:
  registers, pixels and documents. They are most of the lines of the repository,
  and none of them takes part in the protocol between the nodes, the DHT library
  excepted, whose timer `ClimateNode` has.
* Of PubSubClient: `connect()` and `disconnect()` from a callback, the bytes of
  CONNECT, payloads that are streamed. Of the Adafruit IO client: HTTP, feeds and
  groups, `fail_fast`, boards other than the ESP8266.

Left to do, in this order:

1. The session of `AdafruitIO` composed with the calls of `FeedClient`: what a
   `connect()` that fails half way leaves to the next call.
2. What follows a write past the end of a buffer: which fields lie behind it is
   decided by the compiler. The wrap of the count in `readPacket()`, for a packet of
   64 kB that only a broker without a limit sends. The stream after a packet that
   `readFullPacket()` has torn.
3. UNSUBSCRIBE with QoS 1, whose answer is never taken for one, against what the
   broker then still sends.
