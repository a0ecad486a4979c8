----------------------------- MODULE FeedPackets -----------------------------
(***************************************************************************)
(* A message from one Adafruit_MQTT client to another: how long its parts  *)
(* are when publishPacket() builds it, when the broker forwards it, when   *)
(* readFullPacket() takes it from the stream and when                      *)
(* handleSubscriptionPacket() puts it into the subscription.  Only lengths *)
(* and offsets are modelled, with the sizes of the code.  The bytes of a    *)
(* packet may stop coming at any of them: the reader then gives up and      *)
(* takes what it has for the packet.  (The names of the state machine have  *)
(* a prefix so that a module may extend AdafruitIO too.)                    *)
(***************************************************************************)
EXTENDS Integers

CONSTANTS
  MaxBuffer,  \* MAXBUFFERSIZE, for sending and for receiving
  DataLen,    \* SUBSCRIPTIONDATALEN
  Topics,     \* the lengths of the topics subscribed to
  Payloads    \* the lengths of the payloads

\* A topic and a payload have lengths of 16 bits, the topic with room for the
\* fields counted with it; nothing keeps either below the size of the buffer.
ASSUME SizeAssumption ==
  /\ MaxBuffer \in 11 .. 255 /\ DataLen \in 1 .. 255
  /\ \A topic \in Topics : topic \in Nat \ {0} /\ topic <= 65000
  /\ \A n \in Payloads : n \in Nat /\ n <= 65535

VARIABLES
  stage,  \* "idle", "sent", "under way" or "read"; "overrun" when publishPacket()
          \* has left the buffer
  call,   \* the last message: [topic, payload, qos], as the application meant it
  packet, \* the packet built for it: [topic, payload, qos] and its size in the buffer
  wire,   \* the packet under way to the subscriber
  got,    \* what handleSubscriptionPacket() has made of it
  left    \* bytes of it that are still in the stream after that

packetVars == <<stage, call, packet, wire, got, left>>

Qos == {0, 1}
Nothing == [found |-> FALSE, start |-> 0, datalen |-> 0]

-----------------------------------------------------------------------------
(* Lengths *)

\* packetAdditionalLen: the digits of a length, to the base of 128, after the first.
AdditionalLen(n) ==
  IF n < 128 THEN 0 ELSE IF n < 16384 THEN 1 ELSE IF n < 2097152 THEN 2 ELSE 3

\* What precedes the payload after the fixed header: the topic and its length,
\* and a packet identifier.
Head(topic, qos) == 2 + topic + 2 * qos

Remaining(m) == Head(m.topic, m.qos) + m.payload
FixedHeader(m) == 2 + AdditionalLen(Remaining(m))
Size(m) == FixedHeader(m) + Remaining(m)

\* uint16_t.
Word == 65536

\* publishPacket() cuts the payload down to what fits the buffer, in 16 bits: what
\* is left for it wraps when the topic has left nothing.  (Faulty: the fixed header
\* is left out of what must fit.)
FittingTight(topic, n, qos) ==
  IF Head(topic, qos) + n <= MaxBuffer THEN n ELSE (MaxBuffer - Head(topic, qos)) % Word
Fitting(topic, n, qos) ==
  IF Head(topic, qos) + n + 2 + AdditionalLen(Head(topic, qos) + n) <= MaxBuffer
    THEN n
    ELSE (MaxBuffer - (Head(topic, qos) + 2 + AdditionalLen(MaxBuffer))) % Word

\* Whether a packet of this topic fits the buffer, without a payload.
LeavesRoom(topic, qos) == Head(topic, qos) + 2 + AdditionalLen(MaxBuffer) <= MaxBuffer

\* readFullPacket() takes so many of the bytes after the fixed header, if they
\* come.  (Faulty: stopping two bytes too early.)
TakenEarly(m) ==
  LET room == MaxBuffer - FixedHeader(m) - 2
  IN  IF Remaining(m) > room THEN room ELSE Remaining(m)
Taken(m) ==
  LET room == MaxBuffer - FixedHeader(m) - 1
  IN  IF Remaining(m) > room THEN room ELSE Remaining(m)

-----------------------------------------------------------------------------
(* The publisher, the broker and the subscriber *)

PacketInit ==
  /\ stage = "idle" /\ got = Nothing /\ left = 0
  /\ call = [topic |-> 1, payload |-> 0, qos |-> 0]
  /\ packet = call /\ wire = call

\* publish().  What comes of a packet that leaves the buffer is not followed.
Publish(topic, n, qos) ==
  /\ stage \in {"idle", "read"} /\ left = 0
  /\ call' = [topic |-> topic, payload |-> n, qos |-> qos]
  /\ packet' = [call' EXCEPT !.payload = Fitting(topic, n, qos)]
  /\ wire' = packet'
  /\ stage' = IF Size(packet') <= MaxBuffer THEN "sent" ELSE "overrun"
  /\ got' = Nothing
  /\ UNCHANGED left

\* The broker forwards it with the quality of the subscription, if that is less.
Forward(qos) ==
  /\ stage = "sent"
  /\ wire' = [packet EXCEPT !.qos = IF qos < @ THEN qos ELSE @]
  /\ stage' = "under way"
  /\ UNCHANGED <<call, packet, got, left>>

\* Messages come from other clients as well, which have other limits.
Foreign(topic, n, qos) ==
  /\ stage \in {"idle", "read"} /\ left = 0
  /\ call' = [topic |-> topic, payload |-> n, qos |-> qos]
  /\ packet' = call' /\ wire' = call'
  /\ stage' = "under way" /\ got' = Nothing
  /\ UNCHANGED left

\* handleSubscriptionPacket() works out where the topic begins from the size of
\* what it was given.  (Faulty: the length has one digit.)
TopicOffsetNone(n) == 0
TopicOffset(n) == AdditionalLen(n)

\* It keeps as much of the data as the subscription has room for.  (Faulty: all
\* of it.)
KeptAll(n) == n
Kept(n) == IF n > DataLen THEN DataLen - 1 ELSE n

\* The lengths of the topics that n bytes may be found to be for: nothing is looked
\* at without a header; the length, of which the lower byte is read, is an older
\* packet's when it has not come; and it is a character of the topic, or the upper
\* byte, which no subscription has for a length, when it is looked for where it is
\* not.
Matched(n) ==
  IF n < FixedHeader(wire) \/ n < 3 THEN {}
  ELSE IF n < 4 + TopicOffset(n) THEN Topics
  ELSE IF TopicOffset(n) = AdditionalLen(Remaining(wire))
    THEN {topic \in Topics : topic = wire.topic % 256}
  ELSE {}

\* What is got from n bytes found to be for a topic of this length; the length of
\* the data is computed in 16 bits.
Got(n, topic) ==
  LET start == 2 + TopicOffset(n) + Head(topic, wire.qos)
  IN  [found |-> TRUE, start |-> start, datalen |-> Kept((n - start) % Word)]

\* readFullPacket() and handleSubscriptionPacket(): n bytes have come when the read
\* has all it wants, or gives up, and are handled as a packet.  Where the topic has
\* not come it is compared with bytes of older packets, and may be found or not.
Read(n) ==
  /\ stage = "under way"
  /\ n \in 1 .. FixedHeader(wire) + Taken(wire)
  /\ \/ \E topic \in Matched(n) : got' = Got(n, topic)
     \/ /\ Matched(n) = {} \/ n < FixedHeader(wire) + 2 + wire.topic
        /\ got' = Nothing
  /\ left' = Size(wire) - n
  /\ stage' = "read"
  /\ UNCHANGED <<call, packet, wire>>

\* What is left in the stream is read as the beginning of the next packet; the
\* model follows the stream no further until the connection is a new one.
Reconnect ==
  /\ stage = "read" /\ left > 0
  /\ stage' = "idle" /\ left' = 0 /\ got' = Nothing
  /\ UNCHANGED <<call, packet, wire>>

\* The node starts over.
Restart ==
  /\ stage = "overrun"
  /\ stage' = "idle"
  /\ UNCHANGED <<call, packet, wire, got, left>>

PacketNext ==
  \/ \E topic \in Topics, n \in Payloads, qos \in Qos :
       Publish(topic, n, qos) \/ Foreign(topic, n, qos)
  \/ \E qos \in Qos : Forward(qos)
  \/ \E n \in 1 .. MaxBuffer : Read(n)
  \/ Reconnect
  \/ Restart

PacketSpec == PacketInit /\ [][PacketNext]_packetVars

-----------------------------------------------------------------------------
(* Properties *)

Gots == [found : BOOLEAN, start : Nat, datalen : Nat]
Messages == [topic : Nat \ {0}, payload : Nat, qos : Qos]

\* Every variable has its type.
PacketTypeOK ==
  /\ stage \in {"idle", "sent", "overrun", "under way", "read"}
  /\ call \in Messages /\ packet \in Messages /\ wire \in Messages
  /\ got \in Gots
  /\ left \in Nat

\* The packet of a publish() is built inside the buffer whatever the payload
\* (Adafruit_MQTT.cpp:767, "Instead of corrupting memory"), if its topic leaves room
\* for the fields before the payload.  The code does not see to that: for a longer
\* topic what is left for the payload wraps, and most of 64 kB are copied.
BuiltInBuffer ==
  stage \in {"sent", "overrun"} /\ LeavesRoom(call.topic, call.qos) => Size(packet) <= MaxBuffer

\* How many bytes were read, and whether that is less than the reader wanted.
BytesRead == Size(wire) - left
GaveUp == BytesRead < FixedHeader(wire) + Taken(wire)

\* Of a packet read as far as its payload, whole or not, what a subscription gets is
\* a beginning of the payload as it was meant, is among the bytes that were read,
\* and fits the subscription; a nul follows it there (Adafruit_MQTT.h:312, "Limited
\* to SUBSCRIPTIONDATALEN-1 to ensure nul terminating") unless just as many bytes
\* came as the subscription has, where the code keeps all.  When the read gave up
\* before the payload the length of the data wraps, and all but one byte of the
\* subscription is filled with what lies behind.
GetsPayload ==
  got.found /\ BytesRead >= FixedHeader(wire) + Head(wire.topic, wire.qos) =>
    /\ got.start = Size(wire) - wire.payload
    /\ got.datalen <= call.payload /\ got.start + got.datalen <= BytesRead
    /\ got.datalen < DataLen \/ (got.datalen = DataLen /\ BytesRead = got.start + DataLen)

\* Unless the read gives up, a packet that leaves one byte of the buffer free is
\* taken from the stream whole, and its payload cut only where the subscription has
\* no room for it.
SmallerIsWhole ==
  stage = "read" /\ Size(wire) < MaxBuffer /\ ~GaveUp =>
    left = 0 /\ (got.found => got.datalen = Kept(wire.payload))

\* Every such packet is handled, unless the read gives up (Adafruit_MQTT.h:212,
\* "Handle any data coming in for subscriptions"), but those with two lengths, for
\* which the number of digits of the length and of the size differ.
DataHandled ==
  stage = "read" /\ Size(wire) < MaxBuffer /\ ~GaveUp /\ Remaining(wire) \notin {126, 127} =>
    got.found
=============================================================================
