---------------------------- MODULE PacketBuffer ----------------------------
(***************************************************************************)
(* The bytes of PubSubClient: one array, `buffer`, serves the packet being *)
(* read, the payload the callback looks at, the packets the callback       *)
(* publishes and the acknowledgement that follows.  Bytes are numbers      *)
(* below 2 * Radix (128 in the code), header bytes are the codes below.    *)
(* Timers and connection states are in PubSubClient.tla; here a read either *)
(* finds its packet or gives up in the middle of it, and a new connection  *)
(* begins with empty streams and the old contents of the buffer.  A write  *)
(* may go past the end of the array where the code does not compare its    *)
(* index: what the node does after that is not followed until it is power  *)
(* cycled.                                                                 *)
(***************************************************************************)
EXTENDS Integers, SequencesExt

CONSTANTS
  Radix,      \* a digit of a packet's length is below Radix
  MaxPacket,  \* MQTT_MAX_PACKET_SIZE
  Messages,   \* what the broker may send: [topic, payload, qos, id]
  Texts,      \* what the application may publish: [topic, payload]
  MaxSent,    \* bound: messages the broker sends per connection
  Cuts        \* bound: after how many bytes a read may give up

\* Fewer than three digits of length are enough for what fits the buffer: with
\* three, a message could be published that comes back too large.
ASSUME SizeAssumption ==
  /\ Radix \in Nat /\ Radix >= 4 /\ Radix % 4 = 0
  /\ MaxPacket \in Nat /\ 8 <= MaxPacket /\ MaxPacket <= Radix * Radix
  /\ MaxSent \in Nat /\ Cuts \subseteq Nat \ {0}

Bytes == 0 .. 2 * Radix - 1

\* A message of QoS 0 has no identifier.
ASSUME MessageAssumption ==
  /\ Messages \subseteq [topic : Seq(Bytes), qos : {0, 1}, id : Bytes, payload : Seq(Bytes)]
  /\ \A m \in Messages : Len(m.topic) < 4 * Radix * Radix /\ (m.qos = 0 => m.id = 0)
  /\ \A text \in Texts : /\ text.topic \in Seq(Bytes) /\ text.payload \in Seq(Bytes)
                         /\ Len(text.topic) < 4 * Radix * Radix

\* The broker sends no packet, header and length field included, that is longer
\* than the 16 bits in which readPacket() counts can say, 4 * Radix^2 in the scale
\* of the model.
ASSUME LengthAssumption ==
  \A m \in Messages :
    6 + Len(m.topic) + 2 * m.qos + Len(m.payload) < 4 * Radix * Radix

VARIABLES
  buffer,   \* the array, and what was written past its end
  wire,     \* bytes on their way to the client
  pc,       \* "idle", or "callback" while the application's callback runs
  view,     \* what loop() knows of the message whose callback runs
  copy,     \* the payload as the callback saved it on entry
  \* the last step, when it was a call of the application
  wrote,    \* the bytes written
  call,     \* which one
  asked,    \* the packet as the application meant it
  reach,    \* one past the last index of the buffer it was built in
  result,   \* what the call returned
  \* history of this connection
  sent,     \* the messages the broker sent
  given,    \* the messages the callback was called with
  acked,    \* the identifiers acknowledged
  torn      \* whether a read gave up in the middle of a packet

calls   == <<call, wrote, asked, reach, result>>
history == <<sent, given, acked, torn>>
vars    == <<buffer, wire, pc, view, copy, calls, history>>

-----------------------------------------------------------------------------
(* The encoding *)

PUBLISH0 == 3
PUBLISH1 == 4
PUBACK == 5
SUBSCRIBE == 6

\* The length field: digits in base Radix, all but the last marked.  (Bound:
\* lengths below Radix^3.)
Digits(n) == IF n < Radix THEN 1 ELSE IF n < Radix * Radix THEN 2 ELSE 3
Place(i) == IF i = 1 THEN 1 ELSE IF i = 2 THEN Radix ELSE Radix * Radix
LengthField(n) ==
  [i \in 1 .. Digits(n) |->
     ((n \div Place(i)) % Radix) + (IF i < Digits(n) THEN Radix ELSE 0)]

\* writeString: two bytes of length and the characters.
Text(s) == <<Len(s) \div (2 * Radix), Len(s) % (2 * Radix)>> \o s

\* A packet as the protocol defines it.
Framed(header, body) == <<header>> \o LengthField(Len(body)) \o body

\* The PUBLISH of message m as the broker sends it.
Publication(m) ==
  Framed(IF m.qos = 1 THEN PUBLISH1 ELSE PUBLISH0,
         Text(m.topic) \o (IF m.qos = 1 THEN <<0, m.id>> ELSE <<>>) \o m.payload)

Fits(m) == Len(Publication(m)) <= MaxPacket

\* Bytes put into the array from index `at` on, past its end when they do not
\* fit: most places that write it compare nothing.
Store(buf, at, bytes) ==
  [i \in DOMAIN buf \cup at .. at + Len(bytes) - 1 |->
     IF i >= at /\ i < at + Len(bytes) THEN bytes[i - at + 1] ELSE buf[i]]

\* The one place that compares the index with MQTT_MAX_PACKET_SIZE: what does not
\* fit is dropped.  (Faulty: without the comparison.)
OverlayUnbounded(buf, at, bytes) == Store(buf, at, bytes)
Overlay(buf, at, bytes) ==
  [i \in DOMAIN buf |->
     IF i >= at /\ i < at + Len(bytes) /\ i < MaxPacket THEN bytes[i - at + 1] ELSE buf[i]]

\* No write has left the array.
Intact == DOMAIN buffer = 0 .. MaxPacket - 1

Segment(buf, at, n) == [i \in 1 .. n |-> buf[at + i - 1]]

-----------------------------------------------------------------------------
None == [topic |-> <<>>, qos |-> 0, id |-> 0, start |-> 0, length |-> 0]

Init ==
  /\ buffer = [i \in 0 .. MaxPacket - 1 |-> 0]
  /\ wire = <<>> /\ pc = "idle" /\ view = None /\ copy = <<>>
  /\ call = "none" /\ wrote = <<>> /\ asked = <<>> /\ reach = 0 /\ result = FALSE
  /\ sent = <<>> /\ given = <<>> /\ acked = <<>> /\ torn = FALSE

\* Nothing written, FALSE returned.
NoCall ==
  call' = "none" /\ wrote' = <<>> /\ asked' = <<>> /\ reach' = 0 /\ result' = FALSE

BrokerSend(m) ==
  /\ Len(sent) < MaxSent
  /\ sent' = Append(sent, m)
  /\ wire' = wire \o Publication(m)
  /\ NoCall
  /\ UNCHANGED <<buffer, pc, view, copy, given, acked, torn>>

\* A new connection: nothing is under way, the buffer keeps its contents.
Reconnect ==
  /\ pc = "idle" /\ sent # <<>>
  /\ wire' = <<>> /\ sent' = <<>> /\ given' = <<>> /\ acked' = <<>> /\ torn' = FALSE
  /\ NoCall
  /\ UNCHANGED <<buffer, pc, view, copy>>

\* The node starts over, with an array of zeros.
PowerCycle ==
  /\ buffer' = [i \in 0 .. MaxPacket - 1 |-> 0]
  /\ wire' = <<>> /\ pc' = "idle" /\ view' = None /\ copy' = <<>>
  /\ sent' = <<>> /\ given' = <<>> /\ acked' = <<>> /\ torn' = FALSE
  /\ NoCall

-----------------------------------------------------------------------------
(* readPacket() *)

\* How many digits the length field at the head of the stream has: up to the
\* first that is not marked, 0 when that one has not come.
LengthDigits(s) ==
  LET ends == {i \in 1 .. Len(s) - 1 : s[i + 1] < Radix}
  IN  IF ends = {} THEN 0 ELSE CHOOSE i \in ends : \A j \in ends : i <= j

\* Their value, in 16 bits (4 * Radix^2 in the scale of the model): a fourth
\* digit is worth a multiple of that.
LengthValue(s, digits) ==
  LET Digit(i) == IF i <= digits THEN s[i + 1] % Radix ELSE 0
  IN  (Digit(1) * Place(1) + Digit(2) * Place(2) + Digit(3) * Place(3)) % (4 * Radix * Radix)

IsPublish(s) == s[1] \in {PUBLISH0, PUBLISH1}

\* What readPacket() takes from the stream, 0 while the length is not known.
\* A PUBLISH is read as having two bytes of topic length, whatever it says.
Extent(s) ==
  LET digits == LengthDigits(s)
      length == LengthValue(s, digits)
  IN  IF digits = 0 THEN 0
      ELSE 1 + digits + (IF IsPublish(s) /\ length < 2 THEN 2 ELSE length)

\* All of it is taken, what the buffer has no room for too.  (Faulty: stopping
\* where the buffer ends.)
TakenIntoBuffer(n) == IF n > MaxPacket THEN MaxPacket ELSE n
Taken(n) == n

\* The header, the digits of the length, however many they are, and the length of
\* a topic are stored without looking at the index, the rest with a comparison.
Unchecked(s) ==
  LET digits == LengthDigits(s)
      head   == 1 + digits + (IF IsPublish(s) THEN 2 ELSE 0)
  IN  IF digits = 0 \/ Len(s) < head THEN Len(s) ELSE head

\* The array once s, the beginning of a packet or all of it, has been read into it.
Stored(buf, s) ==
  LET u == Unchecked(s)
  IN  Overlay(Store(buf, 0, SubSeq(s, 1, u)), u, SubSeq(s, u + 1, Len(s)))

\* loop() reads the packet at the head of the stream.  It is ignored when it is
\* larger than the buffer, which by then holds its beginning; the callback is
\* called for a PUBLISH, with its topic copied and its payload where it lies.
\* (A PUBLISH whose topic is longer than the packet only comes after a read
\* that gave up; what the callback sees then is not modelled.  Bound: the bytes of
\* a packet are counted in 16 bits, and the count does not wrap.)
LoopRead ==
  LET extent == Extent(wire)
      packet == SubSeq(wire, 1, extent)
      llen   == LengthDigits(wire)
      buf    == Stored(buffer, packet)
      tl     == buf[llen + 1] * 2 * Radix + buf[llen + 2]
      qos    == IF buf[0] = PUBLISH1 THEN 1 ELSE 0
      start  == llen + 3 + tl + 2 * qos
  IN  /\ pc = "idle"
      /\ extent \in 1 .. Len(wire) /\ extent < 4 * Radix * Radix
      /\ buffer' = buf
      /\ wire' = SubSeq(wire, Taken(extent) + 1, Len(wire))
      /\ IF extent <= MaxPacket /\ IsPublish(packet) /\ start <= extent
           THEN LET payload == Segment(buf, start, extent - start) IN
                /\ pc' = "callback"
                /\ view' = [topic |-> Segment(buf, llen + 3, tl), qos |-> qos,
                            id |-> IF qos = 1 THEN buf[start - 1] ELSE 0,
                            start |-> start, length |-> extent - start]
                /\ copy' = payload
                /\ given' = Append(given, [topic |-> view'.topic, qos |-> qos,
                                           id |-> view'.id, payload |-> payload])
           ELSE UNCHANGED <<pc, view, copy, given>>
      /\ NoCall
      /\ UNCHANGED <<sent, acked, torn>>

\* The bytes stop coming: readByte() gives up and what was read, k bytes, is
\* lost.  The rest of the packet is read as a packet later, and what is read then
\* as digits of a length may have no end.  (Bound: a second one in a connection
\* only there, when all that came has been read.)
LoopGiveUp(k) ==
  /\ pc = "idle"
  /\ k \in 1 .. Len(wire) /\ (torn => k = Len(wire) /\ Extent(wire) = 0)
  /\ (Extent(wire) = 0 \/ k < Extent(wire))
  /\ buffer' = Stored(buffer, SubSeq(wire, 1, k))
  /\ wire' = SubSeq(wire, k + 1, Len(wire))
  /\ torn' = TRUE
  /\ NoCall
  /\ UNCHANGED <<pc, view, copy, sent, given, acked>>

\* The callback returns.  A QoS 1 message is acknowledged, with the identifier
\* taken before the callback ran.  (Faulty: taking it from the buffer now.)
AckIdLate == buffer[view.start - 1]
AckId == view.id

CallbackReturn ==
  /\ pc = "callback"
  /\ pc' = "idle" /\ view' = None /\ copy' = <<>>
  /\ IF view.qos = 1
       THEN /\ buffer' = Store(buffer, 0, <<PUBACK, 2, 0, AckId>>)
            /\ acked' = Append(acked, AckId)
       ELSE UNCHANGED <<buffer, acked>>
  /\ NoCall
  /\ UNCHANGED <<wire, sent, given, torn>>

-----------------------------------------------------------------------------
(* Calls of the application, from loop() or from its callback *)

\* The index of a body: room for a header and a length field of four digits.
\* (Faulty: of two digits.)
RoomTight == 3
Room == 5

\* write(): the header and the length field are put right before the body.
Build(header, body, buf) ==
  LET field == LengthField(Len(body))
      at    == Room - 1 - Len(field)
      done  == Store(buf, at, <<header>> \o field)
  IN  /\ buffer' = done
      /\ wrote' = Segment(done, at, 1 + Len(field) + Len(body))
      /\ reach' = Room + Len(body)
      /\ result' = TRUE

\* publish() counts the room and the length of the topic.
PublishFits(topic, payload) == Room + 2 + Len(topic) + Len(payload) <= MaxPacket

Publish(text) ==
  /\ IF PublishFits(text.topic, text.payload)
       THEN LET body == Text(text.topic) \o text.payload IN
            /\ Build(PUBLISH0, body, Store(buffer, Room, body))
            /\ asked' = Framed(PUBLISH0, body)
            /\ call' = "publish"
       ELSE NoCall /\ UNCHANGED buffer
  /\ UNCHANGED <<wire, pc, view, copy, history>>

\* The callback publishes the payload it was given, from the copy it made, as
\* examples/mqtt_publish_in_callback does.  (Faulty: from where it lies.)
PayloadInPlace(topic) ==
  LET at == Room + 2 + Len(topic)
      buf == Store(buffer, Room, Text(topic))
      \* payload[i], once the bytes before it have been copied
      Byte[i \in 0 .. view.length - 1] ==
        IF view.start + i >= at /\ view.start + i < at + i
          THEN Byte[view.start + i - at] ELSE buf[view.start + i]
  IN  [i \in 1 .. view.length |-> Byte[i - 1]]
PayloadSaved(topic) == copy

Republish(topic) ==
  /\ pc = "callback"
  /\ PublishFits(topic, copy)
  /\ LET body == Text(topic) \o PayloadSaved(topic) IN
       Build(PUBLISH0, body, Store(buffer, Room, body))
  /\ call' = "publish"
  /\ asked' = Framed(PUBLISH0, Text(topic) \o given[Len(given)].payload)
  /\ UNCHANGED <<wire, pc, view, copy, history>>

\* publish_P() writes the payload past the buffer, and compares the bytes
\* written with those of a packet whose length has one digit.  It puts a topic of
\* any length into the buffer.
PublishP(text) ==
  LET body == Text(text.topic) \o text.payload
      head == <<PUBLISH0>> \o LengthField(Len(body)) \o Text(text.topic)
  IN  /\ buffer' = Store(buffer, 0, head)
      /\ call' = "publish_P"
      /\ wrote' = head \o text.payload
      /\ asked' = Framed(PUBLISH0, body)
      /\ reach' = Len(head)
      /\ result' = (Len(wrote') = Len(text.topic) + 4 + Len(text.payload))
      /\ UNCHANGED <<wire, pc, view, copy, history>>

\* subscribe(), whose body is the identifier, the topic and the QoS.  The length
\* it compares lacks the byte of the QoS.
SubscribeFits(topic) == Room + 4 + Len(topic) <= MaxPacket

Subscribe(topic) ==
  /\ SubscribeFits(topic)
  /\ LET body == <<0, 1>> \o Text(topic) \o <<0>> IN
       /\ buffer' = Store(buffer, Room - 1 - Len(LengthField(Len(body))),
                          Framed(SUBSCRIBE, body))
       /\ call' = "subscribe"
       /\ wrote' = Framed(SUBSCRIBE, body) /\ asked' = Framed(SUBSCRIBE, body)
       /\ reach' = Room + Len(body)
       /\ result' = TRUE
  /\ UNCHANGED <<wire, pc, view, copy, history>>

-----------------------------------------------------------------------------
Loop == LoopRead \/ (\E k \in Cuts \cup {Len(wire)} : LoopGiveUp(k)) \/ CallbackReturn

Application ==
  \/ \E text \in Texts :
       Publish(text) \/ PublishP(text) \/ Republish(text.topic) \/ Subscribe(text.topic)
  \/ Reconnect

Next ==
  \/ Intact /\ (Loop \/ Application \/ \E m \in Messages : BrokerSend(m))
  \/ PowerCycle

Spec == Init /\ [][Next]_vars
-----------------------------------------------------------------------------
(* Properties *)

Views == [topic : Seq(Bytes), qos : {0, 1}, id : Bytes,
          start : 0 .. MaxPacket, length : 0 .. MaxPacket]
Given == [topic : Seq(Bytes), qos : {0, 1}, id : Bytes, payload : Seq(Bytes)]

\* Every variable has its type: whatever is read or built, wherever a read gave up
\* and wherever a write went, every cell of the buffer, and every one written past
\* it, is a byte, and a view of the callback lies in the buffer.
TypeOK ==
  /\ buffer \in [DOMAIN buffer -> Bytes]
  /\ 0 .. MaxPacket - 1 \subseteq DOMAIN buffer /\ DOMAIN buffer \subseteq Nat
  /\ call \in {"none", "publish", "publish_P", "subscribe"}
  /\ wire \in Seq(Bytes) /\ wrote \in Seq(Bytes) /\ asked \in Seq(Bytes)
  /\ pc \in {"idle", "callback"} /\ torn \in BOOLEAN /\ result \in BOOLEAN
  /\ view \in Views
  /\ copy \in Seq(Bytes) /\ reach \in Nat
  /\ sent \in Seq(Messages) /\ acked \in Seq(Bytes)
  /\ given \in Seq(Given)

\* Until a read gives up, no write leaves the buffer, although readPacket() looks
\* at its index only past the length of the topic and most builders of packets not
\* at all: a packet may be larger than the buffer, of any kind, and the callback
\* may build others in it.  What the code does not keep inside is said here: a
\* topic publish_P() is given has no limit but its own, the longest topic
\* subscribe() takes puts the QoS one byte past the end, and after a read that
\* gave up the middle of a packet is read as a length that may have no end.
WritesStayInside ==
  \/ Intact
  \/ torn
  \/ call = "publish_P" /\ reach > MaxPacket
  \/ call = "subscribe" /\ reach = MaxPacket + 1

\* The elements of s that are in S, in their order: SelectSeq, as a function that
\* is known to the provers.
Selected(s, S) ==
  LET upTo[i \in 0 .. Len(s)] ==
        IF i = 0 THEN <<>>
        ELSE IF s[i] \in S THEN Append(upTo[i - 1], s[i]) ELSE upTo[i - 1]
  IN  upTo[Len(s)]

\* Until a read gives up, the callback has been called with the messages of this
\* connection that fit the buffer, whole and in order, and the rest of the stream
\* is the rest of the messages: offsets are right for every length field and both
\* QoS, a message too large does not disturb the next one, and nothing of an
\* earlier packet, an earlier connection or a packet the callback built shows
\* through.
DeliveredIntact ==
  torn \/ \E n \in 0 .. Len(sent) :
            /\ given = Selected(SubSeq(sent, 1, n), {m \in Messages : Fits(m)})
            /\ wire = FlattenSeq([i \in 1 .. Len(sent) - n |-> Publication(sent[n + i])])

\* Each QoS 1 message the callback has returned from is acknowledged once, in
\* order, by its own identifier, although the callback may have built packets
\* in the buffer that the identifier was read into.
Qos1Ids(messages) ==
  LET taken == Selected(messages, {m \in Given : m.qos = 1})
  IN  [i \in 1 .. Len(taken) |-> taken[i].id]
Pending == IF pc = "callback" /\ view.qos = 1 THEN <<view.id>> ELSE <<>>
AcksMatch == acked \o Pending = Qos1Ids(given)

\* What is written to the broker is the packet the application meant: a payload
\* the callback saved on entry survives the packets built since then.
WrittenAsMeant == wrote = asked

\* A message publish() accepts is one that a client with the same buffer size
\* can receive, at either QoS: what one node may say another can hear.
PublishedIsReceivable ==
  LET body == reach - Room
      delivered(n) == 1 + Digits(n) + n
  IN  call = "publish" =>
        delivered(body) <= MaxPacket /\ delivered(body + 2) <= MaxPacket
=============================================================================
