----------------------------- MODULE FeedProofs -----------------------------
(***************************************************************************)
(* Theorems about FeedPackets, for every size of the buffers, and about    *)
(* AdafruitIO, for every interval, clock and length of a round of loop().  *)
(***************************************************************************)
EXTENDS AdafruitIO, FeedPackets, TLAPS

-----------------------------------------------------------------------------
(* The packets *)

LEMMA Sizes == /\ MaxBuffer \in Int /\ 11 <= MaxBuffer /\ MaxBuffer <= 255
               /\ DataLen \in Int /\ 1 <= DataLen /\ DataLen <= 255
               /\ \A topic \in Topics : topic \in Int /\ 1 <= topic /\ topic <= 65000
               /\ \A n \in Payloads : n \in Int /\ 0 <= n /\ n <= 65535
<1>1. /\ MaxBuffer \in 11 .. 255 /\ DataLen \in 1 .. 255
      /\ \A topic \in Topics : topic \in Nat \ {0} /\ topic <= 65000
      /\ \A n \in Payloads : n \in Nat /\ n <= 65535
  BY SizeAssumption DEF SizeAssumption
<1>2. \A n \in Nat : n \in Int /\ 0 <= n /\ (n # 0 => 1 <= n)
  BY SMT
<1>3. /\ MaxBuffer \in Int /\ 11 <= MaxBuffer /\ MaxBuffer <= 255
      /\ DataLen \in Int /\ 1 <= DataLen /\ DataLen <= 255
  BY <1>1, SMT
<1> QED BY <1>1, <1>2, <1>3

\* One digit more from 128 on; 16384 exceeds every buffer.
LEMMA Additional ==
  ASSUME NEW n \in Int
  PROVE  /\ AdditionalLen(n) \in Int /\ 0 <= AdditionalLen(n) /\ AdditionalLen(n) <= 3
         /\ n < 128 => AdditionalLen(n) = 0
         /\ 128 <= n => 1 <= AdditionalLen(n)
         /\ 128 <= n /\ n < 16384 => AdditionalLen(n) = 1
BY SMT DEF AdditionalLen

LEMMA InWord == \A k \in Int : k % Word \in Nat /\ (0 <= k /\ k < Word => k % Word = k)
BY SMT DEF Word

\* If the topic leaves room, a payload that is cut is shorter than it was, not
\* negative, and its packet fits the buffer.
LEMMA FittingFits ==
  ASSUME NEW topic \in Topics, NEW n \in Payloads, NEW qos \in Qos
  PROVE  /\ Fitting(topic, n, qos) \in Nat
         /\ LeavesRoom(topic, qos) =>
              /\ Fitting(topic, n, qos) \in 0 .. n
              /\ LET rest == Head(topic, qos) + Fitting(topic, n, qos)
                 IN  2 + AdditionalLen(rest) + rest <= MaxBuffer
<1> DEFINE h == Head(topic, qos)
           f == Fitting(topic, n, qos)
           b == AdditionalLen(MaxBuffer)
           w == MaxBuffer - (h + 2 + b)
<1>1. h \in Int /\ 3 <= h
  BY Sizes, SMT DEF Head, Qos
<1>2. f = IF h + n + 2 + AdditionalLen(h + n) <= MaxBuffer THEN n ELSE w % Word
  BY DEF Fitting
<1>21. LeavesRoom(topic, qos) => h + 2 + b <= MaxBuffer
  BY DEF LeavesRoom
<1>22. b \in Int /\ 0 <= b /\ (MaxBuffer < 128 => b = 0) /\ (128 <= MaxBuffer => b = 1)
  BY Additional, Sizes, SMT
<1> HIDE DEF h, f, b
<1>3. n \in Int /\ 0 <= n
  BY Sizes
<1>31. w \in Int
  BY <1>1, <1>22, Sizes, SMT
<1>32. w % Word \in Nat /\ (0 <= w /\ w < Word => w % Word = w)
  BY <1>31, InWord
<1>33. f \in Nat
  <2>1. n \in Nat
    BY <1>3, SMT
  <2> QED BY <1>2, <1>32, <2>1
<1> SUFFICES ASSUME LeavesRoom(topic, qos)
             PROVE  f \in 0 .. n /\ 2 + AdditionalLen(h + f) + (h + f) <= MaxBuffer
  BY <1>33 DEF h, f
<1>4. CASE h + n + 2 + AdditionalLen(h + n) <= MaxBuffer
  <2>1. f = n
    BY <1>2, <1>4
  <2>2. AdditionalLen(h + n) \in Int
    BY <1>1, <1>3, Additional, SMT
  <2> QED BY <2>1, <2>2, <1>1, <1>3, <1>4, SMT
<1>5. CASE ~(h + n + 2 + AdditionalLen(h + n) <= MaxBuffer)
  <2> DEFINE a == AdditionalLen(h + n)
             c == AdditionalLen(h + f)
  <2>1. /\ a \in Int /\ (h + n < 128 => a = 0)
        /\ (128 <= h + n => 1 <= a) /\ (128 <= h + n /\ h + n < 16384 => a = 1)
    BY Additional, <1>1, <1>3, Sizes, SMT
  <2>2. 0 <= w /\ w < Word
    BY <1>1, <1>21, <1>22, Sizes, SMT DEF Word
  <2>3. ~(h + n + 2 + a <= MaxBuffer) /\ f = MaxBuffer - (h + 2 + b)
    BY <1>2, <1>32, <1>5, <2>2
  <2> HIDE DEF a
  <2>4. f \in Int /\ 0 <= f /\ f <= n
    BY <2>1, <2>2, <2>3, <1>1, <1>22, <1>3, Sizes, SMT
  <2>7. h + f \in Int /\ h + f < 16384
    BY <1>22, <2>3, <1>1, Sizes, SMT
  <2>5. c \in Int /\ (h + f < 128 => c = 0) /\ (128 <= h + f => c = 1)
    BY Additional, <2>7, SMT
  <2> HIDE DEF c
  <2>6. 2 + c + (h + f) <= MaxBuffer
    BY <1>22, <2>3, <2>4, <2>5, <1>1, Sizes, SMT
  <2> QED BY <2>4, <2>6, <1>3, SMT DEF c
<1> QED BY <1>4, <1>5

\* readFullPacket() takes no more than there is, leaves a byte of the buffer
\* free, and wants all of a packet that does so as well.
LEMMA TakenFits ==
  ASSUME NEW m \in Messages
  PROVE  /\ Remaining(m) \in Int /\ Taken(m) \in Int /\ FixedHeader(m) \in Int
         /\ FixedHeader(m) = 2 + AdditionalLen(Remaining(m))
         /\ 2 <= FixedHeader(m) /\ FixedHeader(m) <= 5
         /\ 0 <= Taken(m) /\ Taken(m) <= Remaining(m)
         /\ FixedHeader(m) + Taken(m) < MaxBuffer
         /\ Size(m) < MaxBuffer => Taken(m) = Remaining(m)
         /\ Size(m) = FixedHeader(m) + Remaining(m)
         /\ Head(m.topic, m.qos) \in Int /\ 3 <= Head(m.topic, m.qos)
         /\ Head(m.topic, m.qos) >= 2 + m.topic
         /\ m.payload \in Int /\ 0 <= m.payload /\ m.topic \in Int /\ 1 <= m.topic
         /\ Remaining(m) = Head(m.topic, m.qos) + m.payload
<1> DEFINE h == Head(m.topic, m.qos)
           r == Remaining(m)
           a == AdditionalLen(r)
<1>1. h \in Int /\ 3 <= h /\ h >= 2 + m.topic /\ m.topic \in Int /\ 1 <= m.topic
  <2>1. m.topic \in Int /\ 1 <= m.topic /\ m.qos \in {0, 1}
    BY SMT DEF Messages, Qos
  <2> QED BY <2>1, SMT DEF Head
<1>2. m.payload \in Int /\ 0 <= m.payload
  BY SMT DEF Messages
<1>3. r = h + m.payload
  BY DEF Remaining
<1> HIDE DEF h, r
<1>4. a \in Int /\ 0 <= a /\ a <= 3
  BY Additional, <1>1, <1>2, <1>3, SMT
<1>5. FixedHeader(m) = 2 + a /\ Size(m) = 2 + a + r
  BY DEF FixedHeader, Size, r
<1>6. Taken(m) = IF r > MaxBuffer - (2 + a) - 1 THEN MaxBuffer - (2 + a) - 1 ELSE r
  BY <1>5 DEF Taken, r
<1> HIDE DEF a
<1>7. /\ 0 <= Taken(m) /\ Taken(m) <= r /\ 2 + a + Taken(m) < MaxBuffer
      /\ (2 + a + r < MaxBuffer => Taken(m) = r) /\ Taken(m) \in Int /\ r \in Int
  BY <1>1, <1>2, <1>3, <1>4, <1>6, Sizes, SMT
<1> QED BY <1>1, <1>2, <1>3, <1>4, <1>5, <1>7, SMT DEF h, r, a

-----------------------------------------------------------------------------
(* The invariant: before it is read, a message is on its way as it was meant,  *)
(* or shorter. *)

LEMMA RecordTypes ==
  /\ \A topic \in Nat \ {0}, n \in Nat, qos \in Qos :
       [topic |-> topic, payload |-> n, qos |-> qos] \in Messages
  /\ \A m \in Messages : m.topic \in Nat \ {0} /\ m.payload \in Nat /\ m.qos \in Qos
  /\ \A m \in Messages, qos \in Qos :
       LET f == [m EXCEPT !.qos = IF qos < m.qos THEN qos ELSE m.qos]
       IN  f \in Messages /\ f.topic = m.topic /\ f.payload = m.payload
  /\ \A s, d \in Nat : [found |-> TRUE, start |-> s, datalen |-> d] \in Gots
  /\ Nothing \in Gots /\ Nothing.found = FALSE
<1>1. \A topic \in Nat \ {0}, n \in Nat, qos \in Qos :
        [topic |-> topic, payload |-> n, qos |-> qos] \in Messages
  BY DEF Messages
<1>2. \A m \in Messages : m.topic \in Nat \ {0} /\ m.payload \in Nat /\ m.qos \in Qos
  BY DEF Messages
<1>3. ASSUME NEW m \in Messages, NEW qos \in Qos
      PROVE  LET f == [m EXCEPT !.qos = IF qos < m.qos THEN qos ELSE m.qos]
             IN  f \in Messages /\ f.topic = m.topic /\ f.payload = m.payload
  BY DEF Messages
<1>4. \A s, d \in Nat : [found |-> TRUE, start |-> s, datalen |-> d] \in Gots
  BY DEF Gots
<1>5. Nothing \in Gots /\ Nothing.found = FALSE
  BY DEF Gots, Nothing
<1> QED BY <1>1, <1>2, <1>3, <1>4, <1>5

LEMMA Reflexive == \A n \in Nat : n <= n
BY SMT

LEMMA Numbers ==
  \A topic \in Topics, n \in Payloads : topic \in Nat \ {0} /\ n \in Nat
BY Sizes, SMT

\* What is got from a packet whose topic has come is found by its topic.
FromTopic(n) ==
  n >= FixedHeader(wire) + 2 + wire.topic =>
    IF TopicOffset(n) = AdditionalLen(Remaining(wire)) /\ wire.topic \in Topics /\ wire.topic < 256
      THEN got = Got(n, wire.topic) ELSE ~got.found

OnItsWay == wire.payload <= call.payload /\ packet.payload <= call.payload

Invariant ==
  /\ PacketTypeOK /\ BuiltInBuffer
  /\ stage \in {"sent", "under way", "read"} =>
       OnItsWay /\ packet.topic \in Topics /\ wire.topic \in Topics
  /\ stage # "read" => got = Nothing
  /\ stage = "read" =>
       /\ FromTopic(BytesRead)
       /\ BytesRead \in 1 .. FixedHeader(wire) + Taken(wire)

LEMMA Start == PacketInit => Invariant
<1> SUFFICES ASSUME PacketInit PROVE Invariant
  OBVIOUS
<1>1. /\ call = [topic |-> 1, payload |-> 0, qos |-> 0] /\ packet = call /\ wire = call
      /\ stage = "idle" /\ got = Nothing /\ left = 0
  BY DEF PacketInit
<1>2. call \in Messages
  BY <1>1 DEF Messages, Qos
<1>3. PacketTypeOK
  BY <1>1, <1>2, RecordTypes DEF PacketTypeOK
<1> QED BY <1>1, <1>3 DEF Invariant, BuiltInBuffer

\* The topic has come with n bytes: then its length is where it is looked for, or is
\* looked for where no subscription's can be.
LEMMA TopicHasCome ==
  ASSUME PacketTypeOK, wire.topic \in Topics, NEW n \in 1 .. FixedHeader(wire) + Taken(wire),
         n >= FixedHeader(wire) + 2 + wire.topic
  PROVE  /\ ~(n < FixedHeader(wire)) /\ ~(n < 3) /\ ~(n < 4 + TopicOffset(n))
         /\ wire.topic < 256 /\ wire.topic % 256 = wire.topic
         /\ Matched(n) = IF TopicOffset(n) = AdditionalLen(Remaining(wire))
                           THEN {wire.topic} ELSE {}
<1> DEFINE f == FixedHeader(wire)
           k == Taken(wire)
           o == TopicOffset(n)
           l == wire.topic
<1>1. /\ k \in Int /\ f \in Int /\ 2 <= f /\ f + k < MaxBuffer /\ l \in Int /\ 1 <= l
  BY TakenFits DEF PacketTypeOK
<1>2. n \in Int /\ n >= f + 2 + l /\ n <= f + k
  BY <1>1, SMT
<1>3. o \in Int /\ 0 <= o /\ o <= 3 /\ (n < 128 => o = 0) /\ (128 <= n /\ n < 16384 => o = 1)
  BY <1>2, Additional DEF TopicOffset
<1> HIDE DEF f, k, o, l
<1>4. ~(n < f) /\ ~(n < 3) /\ ~(n < 4 + o) /\ l < 256 /\ l % 256 = l
  BY <1>1, <1>2, <1>3, Sizes, SMT
<1>5. {topic \in Topics : topic = wire.topic % 256} = {wire.topic}
  BY <1>4 DEF l
<1> QED BY <1>4, <1>5, Zenon DEF Matched, f, o, l

\* What fits the buffer has not been lengthened, even if the topic leaves no room.
LEMMA FitsIsShorter ==
  ASSUME NEW topic \in Topics, NEW n \in Payloads, NEW qos \in Qos,
         LET rest == Head(topic, qos) + Fitting(topic, n, qos)
         IN  2 + AdditionalLen(rest) + rest <= MaxBuffer
  PROVE  Fitting(topic, n, qos) <= n
<1> DEFINE h == Head(topic, qos)
           f == Fitting(topic, n, qos)
           b == AdditionalLen(MaxBuffer)
           c == AdditionalLen(h + f)
<1>1. h \in Int /\ 3 <= h
  BY Sizes, SMT DEF Head, Qos
<1>2. n \in Int /\ 0 <= n
  BY Sizes
<1>3. b \in Int /\ (MaxBuffer < 128 => b = 0) /\ (128 <= MaxBuffer => b = 1)
  BY Additional, Sizes, SMT
<1>4. f \in Nat /\ (LeavesRoom(topic, qos) => f \in 0 .. n)
  BY FittingFits
<1>5. 2 + c + (h + f) <= MaxBuffer
  OBVIOUS
<1>6. LeavesRoom(topic, qos) \/ ~ (h + 2 + b <= MaxBuffer)
  BY DEF LeavesRoom
<1> HIDE DEF h, f, b
<1>7. c \in Int /\ 0 <= c /\ (128 <= h + f => 1 <= c)
  BY <1>1, <1>4, Additional, SMT
<1> HIDE DEF c
<1>8. ASSUME ~ (h + 2 + b <= MaxBuffer) PROVE f = 0
  BY <1>1, <1>3, <1>4, <1>5, <1>7, <1>8, Sizes, SMT
<1>9. f <= n
  <2>1. CASE LeavesRoom(topic, qos)
    <3>1. f \in 0 .. n
      BY <1>4, <2>1
    <3> QED BY <1>2, <3>1, SMT
  <2>2. CASE ~ (h + 2 + b <= MaxBuffer)
    BY <1>2, <1>8, <2>2, SMT
  <2> QED BY <1>6, <2>1, <2>2
<1> QED BY <1>9 DEF f

LEMMA PublishStep ==
  ASSUME Invariant, NEW topic \in Topics, NEW n \in Payloads, NEW qos \in Qos,
         Publish(topic, n, qos)
  PROVE  Invariant'
<1> DEFINE f == Fitting(topic, n, qos)
           m == [topic |-> topic, payload |-> f, qos |-> qos]
           rest == Head(topic, qos) + f
           fits == 2 + AdditionalLen(rest) + rest <= MaxBuffer
<1>1. Size(m) = 2 + AdditionalLen(rest) + rest
  BY DEF Size, FixedHeader, Remaining
<1>2. /\ call' = [topic |-> topic, payload |-> n, qos |-> qos]
      /\ packet' = m /\ wire' = m /\ got' = Nothing /\ left' = left
      /\ stage' = IF fits THEN "sent" ELSE "overrun"
  <2>1. call' = [topic |-> topic, payload |-> n, qos |-> qos]
    BY DEF Publish
  <2>2. packet' = m
    BY <2>1 DEF Publish
  <2>3. stage' = IF Size(packet') <= MaxBuffer THEN "sent" ELSE "overrun"
    BY DEF Publish
  <2>4. wire' = packet' /\ got' = Nothing /\ left' = left
    BY DEF Publish
  <2> QED BY <1>1, <2>1, <2>2, <2>3, <2>4
<1>3. f \in Nat /\ (LeavesRoom(topic, qos) => fits) /\ (fits => f <= n)
  BY FittingFits, FitsIsShorter
<1>4. m.topic = topic /\ m.payload = f
  OBVIOUS
<1>5. (Size(m) <= MaxBuffer) = fits
  BY <1>1
<1>6. topic \in Nat \ {0} /\ n \in Nat
  BY Numbers
<1>7. call'.topic = topic /\ call'.payload = n /\ call'.qos = qos
  BY <1>2
<1>8. m \in Messages /\ call' \in Messages
  BY <1>2, <1>3, <1>6, RecordTypes
<1>9. left \in Nat
  BY DEF Invariant, PacketTypeOK
<1> HIDE DEF f, m, fits
<1>10. PacketTypeOK'
  BY <1>2, <1>8, <1>9, RecordTypes DEF PacketTypeOK
<1>11. fits => OnItsWay'
  BY <1>2, <1>3, <1>4, <1>7 DEF OnItsWay
<1>12. BuiltInBuffer'
  BY <1>2, <1>3, <1>5, <1>7 DEF BuiltInBuffer
<1>13. stage' \in {"sent", "overrun"} /\ (stage' = "sent" => fits)
  BY <1>2
<1> QED BY <1>2, <1>4, <1>10, <1>11, <1>12, <1>13 DEF Invariant

\* What is got has its type.
LEMMA GotType ==
  ASSUME NEW n \in Nat, NEW topic \in Topics, wire \in Messages
  PROVE  Got(n, topic) \in Gots /\ Got(n, topic).found
<1> DEFINE o == TopicOffset(n)
           h == Head(topic, wire.qos)
           start == 2 + o + h
           d == Kept((n - start) % Word)
<1>1. Got(n, topic) = [found |-> TRUE, start |-> start, datalen |-> d]
  BY DEF Got
<1>2. o \in Int /\ 0 <= o
  <2>1. n \in Int
    BY SMT
  <2> QED BY <2>1, Additional DEF TopicOffset
<1>3. h \in Int /\ 0 <= h
  <2>1. wire.qos \in {0, 1}
    BY RecordTypes DEF Qos
  <2> QED BY <2>1, Sizes, SMT DEF Head
<1> HIDE DEF o, h
<1>4. start \in Nat /\ n - start \in Int
  BY <1>2, <1>3, SMT
<1> HIDE DEF start
<1>5. (n - start) % Word \in Nat
  BY <1>4, InWord
<1>6. \A x \in Nat : Kept(x) \in Nat
  BY Sizes, SMT DEF Kept
<1>7. d \in Nat
  BY <1>5, <1>6
<1> HIDE DEF d
<1> QED BY <1>1, <1>4, <1>7, RecordTypes

LEMMA ReadStep ==
  ASSUME Invariant, NEW n \in 1 .. MaxBuffer, Read(n)
  PROVE  Invariant'
<1> DEFINE f == FixedHeader(wire)
           k == Taken(wire)
           s == Size(wire)
<1>1. /\ stage = "under way" /\ stage' = "read" /\ call' = call /\ packet' = packet
      /\ wire' = wire /\ n \in 1 .. f + k /\ left' = s - n
  BY DEF Read
<1>2. \/ \E topic \in Matched(n) : got' = Got(n, topic)
      \/ (Matched(n) = {} \/ n < f + 2 + wire.topic) /\ got' = Nothing
  BY DEF Read
<1>3. /\ wire \in Messages /\ wire.topic \in Topics /\ OnItsWay /\ PacketTypeOK
      /\ call \in Messages /\ packet \in Messages /\ packet.topic \in Topics
  BY <1>1 DEF Invariant, PacketTypeOK
<1>4. /\ k \in Int /\ f \in Int /\ 2 <= f /\ 0 <= k /\ s \in Int /\ f + k <= s
      /\ wire.topic \in Int
  <2>1. /\ Remaining(wire) \in Int /\ k \in Int /\ f \in Int /\ 2 <= f
        /\ 0 <= k /\ k <= Remaining(wire) /\ s = f + Remaining(wire)
        /\ wire.topic \in Int
    BY <1>3, TakenFits
  <2> HIDE DEF f, k, s
  <2> QED BY <2>1, SMT
<1>5. n \in Nat /\ s - n \in Nat /\ s - (s - n) = n
  <2>1. n \in 1 .. f + k /\ f \in Int /\ k \in Int /\ s \in Int /\ f + k <= s
    BY <1>1, <1>4
  <2>2. \A x, y \in Int : \A j \in 1 .. x : x <= y => /\ j \in Nat /\ y - j \in Nat
                                                   /\ y - (y - j) = j
    BY SMT
  <2>3. f + k \in Int
    BY <2>1
  <2> HIDE DEF f, k, s
  <2> QED BY <2>1, <2>2, <2>3
<1>6. Matched(n) \subseteq Topics
  BY Zenon DEF Matched
<1>7. got' \in Gots
  <2>1. \A topic \in Topics : Got(n, topic) \in Gots
    BY <1>3, <1>5, GotType
  <2> QED BY <1>2, <1>6, <2>1, RecordTypes
<1>8. PacketTypeOK'
  BY <1>1, <1>3, <1>5, <1>7 DEF PacketTypeOK
<1>9. ASSUME n >= f + 2 + wire.topic
      PROVE  IF TopicOffset(n) = AdditionalLen(Remaining(wire)) /\ wire.topic \in Topics
                  /\ wire.topic < 256
               THEN got' = Got(n, wire.topic) ELSE ~got'.found
  <2>1. /\ wire.topic < 256
        /\ Matched(n) = IF TopicOffset(n) = AdditionalLen(Remaining(wire))
                          THEN {wire.topic} ELSE {}
    BY <1>1, <1>3, <1>9, TopicHasCome
  <2>2. ~(n < f + 2 + wire.topic)
    <3> DEFINE p == f + 2 + wire.topic
    <3>1. p \in Int
      BY <1>4
    <3>2. n \in Int /\ n >= p
      BY <1>5, <1>9
    <3> HIDE DEF p
    <3>3. ~(n < p)
      BY <3>1, <3>2, SMT
    <3> QED BY <3>3 DEF p
  <2>3. CASE TopicOffset(n) = AdditionalLen(Remaining(wire))
    BY <1>2, <1>3, <2>1, <2>2, <2>3
  <2>4. CASE TopicOffset(n) # AdditionalLen(Remaining(wire))
    BY <1>2, <2>1, <2>4, RecordTypes
  <2> QED BY <2>3, <2>4
<1>10. BytesRead' = n
  <2>1. BytesRead' = Size(wire') - left'
    BY DEF BytesRead
  <2>2. Size(wire') = s
    BY <1>1
  <2> HIDE DEF s
  <2> QED BY <1>1, <1>5, <2>1, <2>2
<1>11. FromTopic(BytesRead)'
  <2>1. Got(n, wire.topic)' = Got(n, wire.topic)
    BY <1>1 DEF Got
  <2> HIDE DEF k, s
  <2> QED BY <1>1, <1>9, <1>10, <2>1 DEF FromTopic, Got
<1>12. OnItsWay' /\ BuiltInBuffer'
  BY <1>1, <1>3 DEF OnItsWay, BuiltInBuffer
<1>13. BytesRead' \in 1 .. FixedHeader(wire') + Taken(wire')
  BY <1>1, <1>10
<1>14. wire'.topic \in Topics /\ packet'.topic \in Topics
  BY <1>1, <1>3
<1> QED BY <1>1, <1>8, <1>11, <1>12, <1>13, <1>14 DEF Invariant

LEMMA Step == Invariant /\ [PacketNext]_packetVars => Invariant'
<1> SUFFICES ASSUME Invariant, [PacketNext]_packetVars PROVE Invariant'
  OBVIOUS
<1> USE DEF Invariant
<1>1. ASSUME NEW topic \in Topics, NEW n \in Payloads, NEW qos \in Qos,
             Publish(topic, n, qos)
      PROVE  Invariant'
  BY <1>1, PublishStep
<1>2. ASSUME NEW topic \in Topics, NEW n \in Payloads, NEW qos \in Qos,
             Foreign(topic, n, qos)
      PROVE  Invariant'
  <2>1. /\ call' = [topic |-> topic, payload |-> n, qos |-> qos]
        /\ packet' = call' /\ wire' = call'
        /\ stage' = "under way" /\ got' = Nothing /\ left' = left
    BY <1>2 DEF Foreign
  <2>4. topic \in Nat \ {0} /\ n \in Nat
    BY Numbers
  <2>2. call' \in Messages
    BY <2>1, <2>4, RecordTypes
  <2>3. PacketTypeOK'
    BY <2>1, <2>2, RecordTypes DEF PacketTypeOK
  <2>5. OnItsWay' /\ call'.topic = topic
    <3>1. call'.topic = topic /\ call'.payload = n
      BY <2>1
    <3>2. n <= n
      BY <2>4, Reflexive
    <3> QED BY <2>1, <3>1, <3>2 DEF OnItsWay
  <2> QED BY <2>1, <2>3, <2>5 DEF BuiltInBuffer
<1>3. ASSUME NEW qos \in Qos, Forward(qos) PROVE Invariant'
  <2>1. /\ wire' = [packet EXCEPT !.qos = IF qos < packet.qos THEN qos ELSE packet.qos]
        /\ stage = "sent" /\ stage' = "under way"
        /\ UNCHANGED <<call, packet, got, left>>
    BY <1>3 DEF Forward
  <2>2. wire' \in Messages /\ wire'.topic = packet.topic /\ wire'.payload = packet.payload
    BY <2>1, RecordTypes DEF PacketTypeOK
  <2>3. PacketTypeOK' /\ OnItsWay'
    BY <2>1, <2>2 DEF PacketTypeOK, OnItsWay
  <2> QED BY <2>1, <2>2, <2>3 DEF BuiltInBuffer
<1>4. ASSUME NEW n \in 1 .. MaxBuffer, Read(n) PROVE Invariant'
  BY <1>4, ReadStep
<1>5. CASE Reconnect
  <2>1. stage' = "idle" /\ left' = 0 /\ got' = Nothing /\ UNCHANGED <<call, packet, wire>>
    BY <1>5 DEF Reconnect
  <2>2. PacketTypeOK'
    BY <2>1, RecordTypes DEF PacketTypeOK
  <2> QED BY <2>1, <2>2 DEF BuiltInBuffer
<1>6. CASE Restart
  <2>1. stage = "overrun" /\ stage' = "idle" /\ UNCHANGED <<call, packet, wire, got, left>>
    BY <1>6 DEF Restart
  <2>2. PacketTypeOK'
    BY <2>1 DEF PacketTypeOK
  <2> QED BY <2>1, <2>2 DEF BuiltInBuffer
<1>7. CASE UNCHANGED packetVars
  BY <1>7 DEF packetVars, PacketTypeOK, OnItsWay, BuiltInBuffer, FromTopic, BytesRead, Got
<1> QED BY <1>1, <1>2, <1>3, <1>4, <1>5, <1>6, <1>7 DEF PacketNext

LEMMA Invariance == PacketSpec => []Invariant
BY Start, Step, PTL DEF PacketSpec

-----------------------------------------------------------------------------
(* What follows from it. *)

\* The lengths of every message keep their types, torn ones too.
THEOREM TypeCorrect == PacketSpec => []PacketTypeOK
<1>1. Invariant => PacketTypeOK
  BY DEF Invariant
<1> QED BY <1>1, Invariance, PTL

\* What publish() builds fits the buffer, if its topic leaves room.
THEOREM PublishBuildsInBuffer == PacketSpec => []BuiltInBuffer
<1>1. Invariant => BuiltInBuffer
  BY DEF Invariant
<1> QED BY <1>1, Invariance, PTL

\* Where a read takes up the packet and where it ends.
LEMMA ReadFacts ==
  ASSUME Invariant, stage = "read"
  PROVE  /\ wire \in Messages /\ wire.topic \in Topics /\ wire.payload <= call.payload
         /\ BytesRead \in Int /\ 1 <= BytesRead /\ BytesRead <= FixedHeader(wire) + Taken(wire)
         /\ call.payload \in Int /\ left \in Int /\ BytesRead = Size(wire) - left
<1>1. /\ wire \in Messages /\ wire.topic \in Topics /\ wire.payload <= call.payload
      /\ BytesRead \in 1 .. FixedHeader(wire) + Taken(wire) /\ call \in Messages /\ left \in Nat
  BY DEF Invariant, PacketTypeOK, OnItsWay
<1>2. FixedHeader(wire) \in Int /\ Taken(wire) \in Int
  BY <1>1, TakenFits
<1>3. call.payload \in Nat
  BY <1>1, RecordTypes
<1> QED BY <1>1, <1>2, <1>3, SMT DEF BytesRead

\* A subscription gets a beginning of the payload that was published, from the bytes
\* that were read, whenever the read came as far as the payload.
THEOREM PayloadIsGot == PacketSpec => []GetsPayload
<1>1. ASSUME Invariant PROVE GetsPayload
  <2> DEFINE n == BytesRead
             h == Head(wire.topic, wire.qos)
             f == FixedHeader(wire)
             start == 2 + TopicOffset(n) + h
  <2> SUFFICES ASSUME got.found, n >= f + h
               PROVE  /\ got.start = Size(wire) - wire.payload
                      /\ got.datalen <= call.payload /\ got.start + got.datalen <= n
                      /\ got.datalen < DataLen \/ (got.datalen = DataLen /\ n = got.start + DataLen)
    BY DEF GetsPayload
  <2>1. stage = "read"
    BY <1>1, RecordTypes DEF Invariant
  <2>2. /\ wire \in Messages /\ wire.topic \in Topics /\ wire.payload <= call.payload
        /\ n \in Int /\ n <= f + Taken(wire) /\ call.payload \in Int
    BY <1>1, <2>1, ReadFacts
  <2>3. /\ Remaining(wire) \in Int /\ Taken(wire) \in Int /\ f \in Int
        /\ f = 2 + AdditionalLen(Remaining(wire))
        /\ Taken(wire) <= Remaining(wire) /\ f + Taken(wire) < MaxBuffer
        /\ h \in Int /\ h >= 2 + wire.topic /\ 2 <= f
        /\ wire.payload \in Int /\ wire.topic \in Int
        /\ Remaining(wire) = h + wire.payload /\ Size(wire) = f + Remaining(wire)
    BY <2>2, TakenFits
  <2>4. n >= f + 2 + wire.topic
    BY <2>2, <2>3, SMT
  <2>5. TopicOffset(n) = AdditionalLen(Remaining(wire)) /\ got = Got(n, wire.topic)
    BY <1>1, <2>1, <2>4 DEF Invariant, FromTopic
  <2>6. start = f + h
    BY <2>3, <2>5
  <2>7. got.start = start /\ got.datalen = Kept((n - start) % Word)
    BY <2>5 DEF Got
  <2> HIDE DEF n, h, f, start
  <2>8. 0 <= n - start /\ n - start < Word /\ n - start \in Int
    BY <2>2, <2>3, <2>6, Sizes, SMT DEF Word
  <2>9. got.datalen = Kept(n - start)
    BY <2>7, <2>8, InWord
  <2>10. got.start = Size(wire) - wire.payload
    BY <2>3, <2>6, <2>7, SMT
  <2>11. n - start <= wire.payload
    BY <2>2, <2>3, <2>6, SMT
  <2> DEFINE d == n - start
  <2>12. d \in Int /\ 0 <= d /\ d <= wire.payload
    BY <2>8, <2>11
  <2> HIDE DEF d
  <2>13. /\ Kept(d) <= d /\ Kept(d) \in Int
         /\ Kept(d) < DataLen \/ (Kept(d) = DataLen /\ d = DataLen)
    BY <2>12, Sizes, SMT DEF Kept
  <2>14. Kept(n - start) = Kept(d) /\ d = n - start
    BY DEF d
  <2> QED BY <2>2, <2>3, <2>6, <2>7, <2>9, <2>10, <2>12, <2>13, <2>14, Sizes, SMT
<1> QED BY <1>1, Invariance, PTL

\* A packet smaller than the buffer that keeps coming is read whole.
THEOREM SmallerAreWhole == PacketSpec => []SmallerIsWhole
<1>1. ASSUME Invariant PROVE SmallerIsWhole
  <2> SUFFICES ASSUME stage = "read", Size(wire) < MaxBuffer, ~GaveUp
               PROVE  left = 0 /\ (got.found => got.datalen = Kept(wire.payload))
    BY DEF SmallerIsWhole
  <2> DEFINE n == BytesRead
             h == Head(wire.topic, wire.qos)
             f == FixedHeader(wire)
             start == 2 + TopicOffset(n) + h
  <2>1. /\ wire \in Messages /\ wire.topic \in Topics
        /\ n \in Int /\ n <= f + Taken(wire) /\ left \in Int /\ n = Size(wire) - left
    BY <1>1, ReadFacts
  <2>2. /\ Remaining(wire) \in Int /\ Taken(wire) = Remaining(wire)
        /\ f \in Int /\ h \in Int /\ h >= 2 + wire.topic
        /\ f = 2 + AdditionalLen(Remaining(wire)) /\ wire.topic \in Int
        /\ wire.payload \in Int /\ 0 <= wire.payload /\ f + Taken(wire) < MaxBuffer
        /\ Remaining(wire) = h + wire.payload /\ Size(wire) = f + Remaining(wire)
    BY <2>1, TakenFits
  <2>3. n = f + Taken(wire)
    BY <2>1, <2>2, SMT DEF GaveUp
  <2>4. left = 0
    <3> HIDE DEF n, f
    <3> QED BY <2>1, <2>2, <2>3, SMT
  <2>5. n >= f + 2 + wire.topic
    <3> HIDE DEF n, f, h
    <3> QED BY <2>2, <2>3, SMT
  <2>6. ASSUME got.found PROVE got.datalen = Kept(wire.payload)
    <3>1. TopicOffset(n) = AdditionalLen(Remaining(wire)) /\ got = Got(n, wire.topic)
      BY <1>1, <2>5, <2>6 DEF Invariant, FromTopic
    <3>2. start = f + h
      BY <2>2, <3>1
    <3>3. got.datalen = Kept((n - start) % Word)
      BY <3>1 DEF Got
    <3> HIDE DEF n, h, f, start
    <3>4. n - start = wire.payload /\ wire.payload < Word
      <4>1. \A a, b, p \in Int : (a + (b + p)) - (a + b) = p
        BY SMT
      <4>2. n = f + (h + wire.payload)
        BY <2>2, <2>3
      <4>3. wire.payload < MaxBuffer
        <5> DEFINE p == wire.payload
                   r == Remaining(wire)
                   l == wire.topic
        <5>1. /\ p \in Int /\ 0 <= p /\ l \in Int /\ 1 <= l /\ h \in Int /\ h >= 2 + l /\ r = h + p
              /\ f \in Int /\ 2 <= f /\ f + r < MaxBuffer
          BY <2>1, <2>2, TakenFits
        <5> HIDE DEF p, r, l
        <5>2. p < MaxBuffer
          BY <5>1, Sizes, SMT
        <5> QED BY <5>2 DEF p
      <4> QED BY <2>2, <3>2, <4>1, <4>2, <4>3, Sizes, SMT DEF Word
    <3>5. wire.payload % Word = wire.payload
      BY <2>2, <3>4, InWord
    <3> QED BY <3>3, <3>4, <3>5
  <2> QED BY <2>4, <2>6
<1> QED BY <1>1, Invariance, PTL

\* Every packet with a byte of the buffer to spare that keeps coming is handled,
\* unless 126 or 127 bytes follow its fixed header.
THEOREM OthersAreHandled == PacketSpec => []DataHandled
<1>1. ASSUME Invariant PROVE DataHandled
  <2> SUFFICES ASSUME stage = "read", Size(wire) < MaxBuffer, ~GaveUp,
                      Remaining(wire) \notin {126, 127}
               PROVE  got.found
    BY DEF DataHandled
  <2> DEFINE n == BytesRead
             r == Remaining(wire)
             f == FixedHeader(wire)
  <2>1. /\ wire \in Messages /\ wire.topic \in Topics /\ n \in Int /\ n <= f + Taken(wire)
    BY <1>1, ReadFacts
  <2>2. /\ r \in Int /\ 0 <= r /\ f \in Int
        /\ f = 2 + AdditionalLen(r) /\ Taken(wire) = r
        /\ Size(wire) = f + r /\ wire.topic \in Int /\ 1 <= wire.topic /\ r >= 2 + wire.topic
    BY <2>1, TakenFits, SMT
  <2>3. n = f + r
    BY <2>1, <2>2, SMT DEF GaveUp
  <2>4. f + r < MaxBuffer
    BY <2>2
  <2>5. r # 126 /\ r # 127
    OBVIOUS
  <2> HIDE DEF r, n, f
  <2>6. AdditionalLen(n) = AdditionalLen(r)
    <3>1. 2 + AdditionalLen(r) + r < MaxBuffer /\ n = 2 + AdditionalLen(r) + r
      BY <2>2, <2>3, <2>4
    <3> QED BY <2>2, <2>5, <3>1, Sizes, SMT DEF AdditionalLen
  <2>7. n >= f + 2 + wire.topic /\ wire.topic < 256
    <3> DEFINE l == wire.topic
    <3>1. /\ l \in Int /\ r >= 2 + l /\ f \in Int /\ 2 <= f /\ r \in Int
          /\ n = f + r /\ f + r < MaxBuffer
      BY <2>1, <2>2, <2>3, <2>4, TakenFits DEF f
    <3> HIDE DEF l
    <3>2. n >= f + 2 + l /\ l < 256
      BY <3>1, Sizes, SMT
    <3> QED BY <3>2 DEF l
  <2>8. got = Got(n, wire.topic)
    BY <1>1, <2>1, <2>6, <2>7 DEF Invariant, FromTopic, TopicOffset, n, r, f
  <2> QED BY <2>8 DEF Got
<1> QED BY <1>1, Invariance, PTL

-----------------------------------------------------------------------------
(* The session *)

LEMMA Times == /\ Interval \in Int /\ 1 <= Interval /\ MaxGap \in Int /\ 1 <= MaxGap
               /\ ClockSize \in Int /\ Interval + MaxGap < ClockSize
               /\ Cap \in Int /\ 2 * Interval + MaxGap < Cap
BY TimeAssumption, SMT DEF TimeAssumption

\* A clock that comes round.
LEMMA Modulo ==
  /\ \A m \in Nat : m > 0 => \A a \in 0 .. m - 1 : a % m = a
  /\ \A m \in Nat : m > 0 => \A a \in m .. 2 * m - 1 : a % m = a - m
  /\ \A m \in Nat : m > 0 => \A a \in -m .. -1 : a % m = a + m
<1>1. \A m \in Nat : m > 0 => \A a \in 0 .. m - 1 : a % m = a
  BY SMT
<1>2. \A m \in Nat : m > 0 => \A a \in m .. 2 * m - 1 : a % m = a - m
  BY SMT
<1>3. \A m \in Nat : m > 0 => \A a \in -m .. -1 : a % m = a + m
  BY SMT
<1> QED BY <1>1, <1>2, <1>3

LEMMA After ==
  ASSUME NEW n \in Clock, NEW k \in 0 .. Interval
  PROVE  /\ (n + k) % ClockSize \in Clock
         /\ n + k < ClockSize => (n + k) % ClockSize = n + k
         /\ \A t \in Clock :
              /\ (n - t) % ClockSize \in Nat /\ (((n + k) % ClockSize) - t) % ClockSize \in Nat
              /\ (((n + k) % ClockSize) - t) % ClockSize <= ((n - t) % ClockSize) + k
         /\ (((n + k) % ClockSize) - n) % ClockSize <= k
<1>1. /\ \A a \in 0 .. ClockSize - 1 : a % ClockSize = a
      /\ \A a \in ClockSize .. 2 * ClockSize - 1 : a % ClockSize = a - ClockSize
      /\ \A a \in -ClockSize .. -1 : a % ClockSize = a + ClockSize
  BY Modulo, Times, SMT
<1> DEFINE m == (n + k) % ClockSize
<1>2. m = IF n + k < ClockSize THEN n + k ELSE n + k - ClockSize
  BY <1>1, Times, SMT DEF Clock
<1>3. m \in Clock
  BY <1>2, Times, SMT DEF Clock
<1> HIDE DEF m
<1>4. \A a, b \in Clock : (a - b) % ClockSize = IF b <= a THEN a - b ELSE a - b + ClockSize
  BY <1>1, Times, SMT DEF Clock
<1>5. ASSUME NEW t \in Clock
      PROVE  /\ (n - t) % ClockSize \in Nat /\ (m - t) % ClockSize \in Nat
             /\ (m - t) % ClockSize <= ((n - t) % ClockSize) + k
  BY <1>2, <1>3, <1>4, Times, SMT DEF Clock
<1>6. (m - n) % ClockSize <= k
  BY <1>2, <1>3, <1>4, Times, SMT DEF Clock
<1> QED BY <1>2, <1>3, <1>5, <1>6 DEF m

-----------------------------------------------------------------------------
(* The invariant of the session *)

AtLeast(age, t) == age >= Interval \/ age >= Since(t)
Forgotten == <<Cap, Cap, Cap>>

OpenOnNetwork == socket = "open" => wifi = "up"

\* A broker that refuses for good has no session.
RefusedForGood == ioStatus = "connect failed" => ~session

\* The silence is no longer than the time since the last ping.
SinceLastPing ==
  ~wrapped => lastPing <= now /\ (session => silence <= now - lastPing)

\* Where in its round the sketch is bounds the silence.
SilenceAt ==
  IF pc \in {"setup", "wait"} THEN gap
  ELSE IF pc \in {"return", "restart"} THEN Interval
  ELSE IF pc = "idle" THEN Interval + MaxGap + gap
  ELSE IF pc = "mqtt" THEN Interval + 2 * MaxGap + gap
  ELSE Interval + 3 * MaxGap
SilenceBounded == session /\ ~wrapped => silence <= SilenceAt

\* The last attempt is as old as its time says, when that is not forgotten.
SinceLastAttempt ==
  /\ attempts[1] <= attempts[2]
  /\ lastConnect # Never => AtLeast(attempts[1], lastConnect)

\* run() has forgotten the time of the last attempt: the first one in its wait
\* may come at once, hence the one before the last must be old; the second one
\* is spaced again, and the wait ends not before a minute.
InWait ==
  pc = "wait" =>
    /\ lastConnect = Never =>
         socket = "closed" /\ AtLeast(attempts[1], started) /\ attempts[2] >= Interval
    /\ lastConnect # Never => AtLeast(attempts[2], started)

\* Elsewhere one attempt may be made at once, and another after starting over.
Elsewhere ==
  pc # "wait" =>
    /\ lastConnect = Never => attempts[1] >= Interval
    /\ socket = "closed" \/ ioStatus = "connect failed" \/ pc = "restart" => attempts[2] >= Interval

SessionInv ==
  /\ TypeOK /\ OpenOnNetwork /\ RefusedForGood
  /\ SinceLastPing /\ SilenceBounded
  /\ SinceLastAttempt /\ InWait /\ Elsewhere /\ AttemptsSpaced

LEMMA Ages ==
  ASSUME NEW a \in 0 .. Cap, NEW b \in 0 .. Cap, NEW c \in 0 .. Cap
  PROVE  /\ <<a, b, c>> \in [1 .. 3 -> 0 .. Cap]
         /\ <<a, b, c>>[1] = a /\ <<a, b, c>>[2] = b /\ <<a, b, c>>[3] = c
<1>1. /\ DOMAIN <<a, b, c>> = 1 .. 3
      /\ <<a, b, c>>[1] = a /\ <<a, b, c>>[2] = b /\ <<a, b, c>>[3] = c
  BY SMT
<1>2. <<a, b, c>> = [i \in 1 .. 3 |-> <<a, b, c>>[i]]
  BY SMT
<1>3. \A i \in 1 .. 3 : i = 1 \/ i = 2 \/ i = 3
  BY SMT
<1>4. \A i \in 1 .. 3 : <<a, b, c>>[i] \in 0 .. Cap
  BY <1>1, <1>3
<1> QED BY <1>1, <1>2, <1>4

LEMMA ForgottenAges ==
  /\ Forgotten \in [1 .. 3 -> 0 .. Cap]
  /\ Forgotten[1] = Cap /\ Forgotten[2] = Cap /\ Forgotten[3] = Cap
  /\ Cap >= Interval /\ Cap <= Cap
<1>1. Cap \in 0 .. Cap /\ Cap >= Interval /\ Cap <= Cap
  BY Times, SMT
<1> QED BY <1>1, Ages DEF Forgotten

LEMMA SessionStart == Init => SessionInv
<1> SUFFICES ASSUME Init PROVE SessionInv
  OBVIOUS
<1>1. attempts = <<Cap, Cap, Cap>> /\ now = 0 /\ lastPing = 0 /\ silence = 0 /\ gap = 0
      /\ lastConnect = Never /\ pc = "setup" /\ session = FALSE /\ socket = "closed"
      /\ timeStart = 0 /\ started = 0 /\ ioStatus = "net disconnected"
      /\ wifi = "down" /\ subscribed = {} /\ registered = Feeds /\ returned = "idle"
      /\ wrapped = FALSE
  BY DEF Init
<1>2. TypeOK
  <2>1. 0 \in Clock /\ 0 \in 0 .. Cap /\ 0 \in 0 .. MaxGap
    BY Times, SMT DEF Clock
  <2> QED BY <1>1, <2>1, ForgottenAges DEF TypeOK, Statuses, Forgotten
<1>3. SinceLastPing /\ SilenceBounded
  <2>1. 0 <= 0
    BY SMT
  <2> QED BY <1>1, <2>1 DEF SinceLastPing, SilenceBounded
<1>4. SinceLastAttempt /\ Elsewhere /\ AttemptsSpaced
  BY <1>1, ForgottenAges DEF SinceLastAttempt, Elsewhere, AttemptsSpaced, Forgotten
<1> QED BY <1>1, <1>2, <1>3, <1>4 DEF SessionInv, OpenOnNetwork, RefusedForGood, InWait

-----------------------------------------------------------------------------
(* A look at the status *)

Tried(p) ==
  /\ lastConnect' = now /\ silence' = 0
  /\ now' = (now + p) % ClockSize /\ wrapped' = (wrapped \/ now + p >= ClockSize)
  /\ \/ attempts' = Forgotten
     \/ attempts' = <<p, Older(attempts[1], p), Older(attempts[2], p)>>

LEMMA OutcomeFacts ==
  \A q \in Outcomes :
    /\ q.socket \subseteq {"open", "closed"} /\ q.session \subseteq BOOLEAN
    /\ q.code = "no tcp" => q.socket = {"closed"}
    /\ q.code = "denied" => q.session = {FALSE}
<1> SUFFICES ASSUME NEW q \in Outcomes
             PROVE  /\ q.socket \subseteq {"open", "closed"} /\ q.session \subseteq BOOLEAN
                    /\ q.code = "no tcp" => q.socket = {"closed"}
                    /\ q.code = "denied" => q.session = {FALSE}
  OBVIOUS
<1>1. CASE q = [code |-> "no tcp", socket |-> {"closed"}, session |-> {FALSE}]
  BY <1>1, Zenon
<1>2. CASE q = [code |-> "no connack", socket |-> {"open", "closed"}, session |-> BOOLEAN]
  BY <1>2, Zenon
<1>3. CASE q = [code |-> "no suback", socket |-> {"open", "closed"}, session |-> {TRUE}]
  BY <1>3, Zenon
<1>4. CASE q = [code |-> "denied", socket |-> {"open", "closed"}, session |-> {FALSE}]
  BY <1>4, Zenon
<1>5. CASE q = [code |-> "busy", socket |-> {"open", "closed"}, session |-> {FALSE}]
  BY <1>5, Zenon
<1>6. CASE q = [code |-> "ok", socket |-> {"open"}, session |-> {TRUE}]
  BY <1>6, Zenon
<1> QED BY <1>1, <1>2, <1>3, <1>4, <1>5, <1>6, Zenon DEF Outcomes

LEMMA Typed ==
  ASSUME TypeOK
  PROVE  /\ now \in Clock /\ lastPing \in Clock /\ timeStart \in Clock /\ started \in Clock
         /\ attempts \in [1 .. 3 -> 0 .. Cap]
         /\ attempts[1] \in 0 .. Cap /\ attempts[2] \in 0 .. Cap /\ attempts[3] \in 0 .. Cap
         /\ silence \in 0 .. Cap /\ gap \in 0 .. MaxGap
<1>1. 1 \in 1 .. 3 /\ 2 \in 1 .. 3 /\ 3 \in 1 .. 3
  BY SMT
<1> QED BY <1>1, Zenon DEF TypeOK

LEMMA Pauses == \A p \in {0, Interval} : p \in 0 .. Interval /\ p \in 0 .. Cap
BY Times, SMT

\* What an attempt leaves behind.
LEMMA AttemptTried ==
  ASSUME TypeOK, NEW o \in Outcomes, Attempt(o.code)
  PROVE  /\ \E p \in {0, Interval} : Tried(p)
         /\ socket' \in {"open", "closed"} /\ session' \in BOOLEAN
         /\ session' => socket' = "open"
         /\ socket' = "open" => wifi = "up"
         /\ subscribed' \subseteq registered
         /\ Meaning(o.code) \in Statuses
         /\ Meaning(o.code) = "connect failed" => ~session'
         /\ Meaning(o.code) = "connected" => attempts' = Forgotten
<1>1. PICK q \in Outcomes :
        /\ q.code = o.code /\ (wifi = "down" => o.code = "no tcp")
        /\ socket' \in q.socket
        /\ session' \in {s \in q.session : s => socket' = "open"}
  BY DEF Attempt
<1>2. /\ q.socket \subseteq {"open", "closed"} /\ q.session \subseteq BOOLEAN
      /\ q.code = "no tcp" => q.socket = {"closed"}
      /\ q.code = "denied" => q.session = {FALSE}
  BY OutcomeFacts
<1>3. wifi = "up" \/ wifi = "down"
  BY DEF TypeOK
<1>4. subscribed' \subseteq registered
  BY DEF Attempt
<1>5. Pause(o.code) \in {0, Interval} /\ Tried(Pause(o.code))
  BY DEF Attempt, Advance, Tried, Pause, Forgotten
<1>6. Meaning(o.code) \in Statuses /\ (Meaning(o.code) = "connect failed" => o.code = "denied")
      /\ (Meaning(o.code) = "connected" => o.code = "ok")
  BY DEF Meaning, Statuses
<1>7. o.code = "ok" => attempts' = Forgotten
  BY DEF Attempt, Forgotten
<1>8. session' \in BOOLEAN /\ (session' => socket' = "open") /\ (o.code = "denied" => ~session')
  BY <1>1, <1>2
<1>9. socket' \in {"open", "closed"} /\ (socket' = "open" => wifi = "up")
  BY <1>1, <1>2, <1>3
<1> QED BY <1>4, <1>5, <1>6, <1>7, <1>8, <1>9

LEMMA Old ==
  ASSUME NEW a \in 0 .. Cap, NEW k \in 0 .. Interval
  PROVE  /\ Older(a, k) \in 0 .. Cap /\ Older(a, k) >= a /\ Older(a, k) >= k
         /\ Older(a, k) >= Interval \/ Older(a, k) = a + k
         /\ \A b \in 0 .. Cap : a <= b => Older(a, k) <= Older(b, k)
BY Times, SMT DEF Older

LEMMA TriedAges ==
  ASSUME TypeOK, SinceLastAttempt, NEW p \in {0, Interval}, Tried(p)
  PROVE  /\ attempts' \in [1 .. 3 -> 0 .. Cap]
         /\ attempts'[1] <= attempts'[2]
         /\ attempts'[1] >= p
         /\ attempts'[2] >= attempts[1]
         /\ attempts'[2] >= Interval \/ attempts'[2] = attempts[1] + p
         /\ attempts'[3] >= attempts[2]
         /\ p \in 0 .. Interval
<1>1. /\ attempts[1] \in 0 .. Cap /\ attempts[2] \in 0 .. Cap /\ attempts[1] <= attempts[2]
      /\ p \in 0 .. Interval /\ p \in 0 .. Cap
  BY Typed, Pauses DEF SinceLastAttempt
<1> DEFINE a == Older(attempts[1], p)
           b == Older(attempts[2], p)
<1>2. /\ a \in 0 .. Cap /\ b \in 0 .. Cap /\ a >= attempts[1] /\ b >= attempts[2] /\ a >= p
      /\ a >= Interval \/ a = attempts[1] + p
  BY <1>1, Old
<1>3. CASE attempts' = <<p, a, b>>
  <2>1. attempts'[1] = p /\ attempts'[2] = a /\ attempts'[3] = b
        /\ attempts' \in [1 .. 3 -> 0 .. Cap]
    BY <1>1, <1>2, <1>3, Ages
  <2> HIDE DEF a, b
  <2>2. p >= p /\ p <= a
    BY <1>1, <1>2, SMT
  <2> QED BY <1>1, <1>2, <2>1, <2>2
<1>4. CASE attempts' = Forgotten
  <2>1. attempts'[1] = Cap /\ attempts'[2] = Cap /\ attempts'[3] = Cap
        /\ attempts' \in [1 .. 3 -> 0 .. Cap] /\ Cap >= Interval /\ Cap <= Cap
    BY <1>4, ForgottenAges
  <2>2. Cap >= p /\ Cap >= attempts[1] /\ Cap >= attempts[2]
    BY <1>1, Times, SMT
  <2> QED BY <1>1, <2>1, <2>2
<1> QED BY <1>3, <1>4 DEF Tried

LEMMA TriedTimes ==
  ASSUME TypeOK, SinceLastAttempt, NEW p \in {0, Interval}, Tried(p)
  PROVE  /\ now' \in Clock /\ lastConnect' \in Clock /\ lastConnect' # Never
         /\ wrapped' \in BOOLEAN /\ silence' \in 0 .. Cap /\ silence' = 0
         /\ ~wrapped' => ~wrapped /\ now' >= now
         /\ \A t \in Clock : /\ Since(t) \in Nat /\ ((now' - t) % ClockSize) \in Nat
                             /\ (now' - t) % ClockSize <= Since(t) + p
         /\ (now' - lastConnect') % ClockSize <= p
<1>1. now \in Clock /\ p \in 0 .. Interval
  BY Typed, Pauses
<1>2. now' = (now + p) % ClockSize /\ lastConnect' = now
  BY DEF Tried
<1>3. 0 \in 0 .. Cap
  BY Times, SMT
<1>4. lastConnect' # Never
  BY <1>1, <1>2, Times, SMT DEF Clock, Never
<1>5. ~wrapped' => ~wrapped /\ ~(now + p >= ClockSize)
  BY DEF Tried
<1>6. ~(now + p >= ClockSize) => now' >= now
  <2>1. ~(now + p >= ClockSize) => now + p < ClockSize /\ now + p >= now
    BY <1>1, Times, SMT DEF Clock
  <2> QED BY <1>1, <1>2, <2>1, After
<1>7. wrapped' \in BOOLEAN /\ silence' = 0
  BY DEF Tried, TypeOK
<1> QED BY <1>1, <1>2, <1>3, <1>4, <1>5, <1>6, <1>7, After DEF Since

\* status(), or mqttStatus() called by run() itself.
Look(r) == Status(r) \/ (MqttStatus(r) /\ UNCHANGED ioStatus)

LEMMA LookCases ==
  ASSUME TypeOK, NEW r \in Statuses, Look(r)
  PROVE  /\ ioStatus' \in Statuses
         /\ \/ NoAttempt /\ wifi = "down" /\ r = "net disconnected" /\ ioStatus' = r
            \/ NoAttempt /\ r = "connect failed" /\ ioStatus = r /\ ioStatus' = r
            \/ NoAttempt /\ socket = "open" /\ r = "connected" /\ ioStatus' # "connect failed"
            \/ /\ NoAttempt /\ socket = "closed" /\ ~MayAttempt /\ r = "disconnected"
               /\ ioStatus' # "connect failed"
            \/ /\ socket = "closed" /\ MayAttempt
               /\ \E o \in Outcomes : Attempt(o.code) /\ r = Meaning(o.code)
               /\ ioStatus' = "connect failed" => r = "connect failed"
<1>1. wifi = "up" \/ wifi = "down"
  BY DEF TypeOK
<1>2. CASE Status(r) /\ wifi = "down"
  BY <1>2 DEF Status
<1>3. CASE Status(r) /\ wifi = "up"
  BY <1>3 DEF Status, MqttStatus
<1>4. CASE MqttStatus(r) /\ UNCHANGED ioStatus
  BY <1>4 DEF MqttStatus, TypeOK
<1> QED BY <1>1, <1>2, <1>3, <1>4 DEF Look

\* Where the status is looked at, no time passes, or the pause of a broker that
\* is busy.
LEMMA LookKeeps ==
  ASSUME SessionInv, NEW r \in Statuses, Look(r), UNCHANGED <<lastPing, registered, wifi>>
  PROVE  /\ socket' \in {"open", "closed"} /\ session' \in BOOLEAN
         /\ session' => socket' = "open" /\ wifi' = "up"
         /\ subscribed' \subseteq registered'
         /\ now' \in Clock /\ lastConnect' \in Clock \cup {Never} /\ ioStatus' \in Statuses
         /\ silence' \in 0 .. Cap /\ wrapped' \in BOOLEAN /\ attempts' \in [1 .. 3 -> 0 .. Cap]
         /\ OpenOnNetwork' /\ RefusedForGood' /\ SinceLastPing'
         /\ session' /\ ~wrapped' =>
              silence' = 0 \/ (r = "connected" /\ session /\ ~wrapped /\ silence' = silence)
<1>1. TypeOK /\ OpenOnNetwork /\ RefusedForGood /\ SinceLastPing /\ SinceLastAttempt
  BY DEF SessionInv
<1>2. CASE NoAttempt /\ (ioStatus' = "connect failed" => ioStatus = "connect failed")
                     /\ (session => r = "connected")
  <2>1. UNCHANGED <<socket, session, subscribed, lastConnect, now, silence, wrapped, attempts>>
    BY <1>2 DEF NoAttempt, ages
  <2>2. SinceLastPing'
    BY <1>1, <2>1 DEF SinceLastPing
  <2>3. ioStatus' \in Statuses
    BY <1>1, LookCases
  <2> QED BY <1>1, <1>2, <2>1, <2>2, <2>3 DEF TypeOK, OpenOnNetwork, RefusedForGood
<1>3. ASSUME NEW o \in Outcomes, Attempt(o.code), r = Meaning(o.code),
             ioStatus' = "connect failed" => r = "connect failed"
      PROVE  /\ socket' \in {"open", "closed"} /\ session' \in BOOLEAN
             /\ session' => socket' = "open" /\ wifi' = "up"
             /\ subscribed' \subseteq registered'
             /\ now' \in Clock /\ lastConnect' \in Clock \cup {Never} /\ ioStatus' \in Statuses
             /\ silence' \in 0 .. Cap /\ wrapped' \in BOOLEAN /\ attempts' \in [1 .. 3 -> 0 .. Cap]
             /\ OpenOnNetwork' /\ RefusedForGood' /\ SinceLastPing' /\ silence' = 0
  <2>1. /\ socket' \in {"open", "closed"} /\ session' \in BOOLEAN
        /\ session' => socket' = "open"
        /\ socket' = "open" => wifi = "up"
        /\ subscribed' \subseteq registered
        /\ Meaning(o.code) = "connect failed" => ~session'
    BY <1>1, <1>3, AttemptTried
  <2>2. PICK p \in {0, Interval} : Tried(p)
    BY <1>1, <1>3, AttemptTried
  <2>3. /\ now' \in Clock /\ lastConnect' \in Clock /\ wrapped' \in BOOLEAN
        /\ silence' \in 0 .. Cap /\ silence' = 0 /\ (~wrapped' => ~wrapped /\ now' >= now)
    BY <1>1, <2>2, TriedTimes
  <2>4. attempts' \in [1 .. 3 -> 0 .. Cap]
    BY <1>1, <2>2, TriedAges
  <2>5. SinceLastPing'
    <3> SUFFICES ASSUME ~wrapped' PROVE lastPing' <= now' /\ silence' <= now' - lastPing'
      BY DEF SinceLastPing
    <3>1. lastPing <= now /\ now' >= now /\ lastPing' = lastPing /\ silence' = 0
      BY <1>1, <2>3 DEF SinceLastPing
    <3>2. lastPing \in Clock /\ now \in Clock /\ now' \in Clock
      BY <1>1, <2>3, Typed
    <3>3. \A a, b, c \in Clock : a <= b /\ c >= b => a <= c /\ 0 <= c - a
      BY Times, SMT DEF Clock
    <3> QED BY <3>1, <3>2, <3>3, Zenon
  <2>6. ioStatus' \in Statuses
    BY <1>1, LookCases
  <2> QED BY <1>3, <2>1, <2>3, <2>4, <2>5, <2>6 DEF OpenOnNetwork, RefusedForGood
<1>4. NoAttempt => UNCHANGED session
  BY DEF NoAttempt
<1>5. session => socket = "open" /\ wifi = "up"
  BY <1>1 DEF TypeOK
<1>6. "up" # "down" /\ "open" # "closed" /\ "net disconnected" # "connect failed"
  OBVIOUS
<1>7. \/ NoAttempt /\ (ioStatus' = "connect failed" => ioStatus = "connect failed")
                   /\ (session => r = "connected")
      \/ \E o \in Outcomes : /\ Attempt(o.code) /\ r = Meaning(o.code)
                             /\ ioStatus' = "connect failed" => r = "connect failed"
  BY <1>1, <1>5, LookCases DEF RefusedForGood
<1> QED BY <1>2, <1>3, <1>7

\* The ages of the attempts, wherever the status is looked at but in the wait.
LEMMA LookAges ==
  ASSUME SessionInv, NEW r \in Statuses, Look(r)
  PROVE  /\ SinceLastAttempt' /\ AttemptsSpaced'
         /\ pc # "wait" =>
              /\ lastConnect' = Never => attempts'[1] >= Interval
              /\ \/ socket' = "closed" \/ ioStatus' = "connect failed" \/ r # "connected"
                 => attempts'[2] >= Interval
<1>1. /\ TypeOK /\ OpenOnNetwork /\ SinceLastAttempt /\ AttemptsSpaced /\ InWait /\ Elsewhere
  BY DEF SessionInv
<1>2. CASE /\ NoAttempt
           /\ \/ socket = "closed" \/ ioStatus = "connect failed"
              \/ r = "connected" /\ ioStatus' # "connect failed" /\ socket = "open"
  <2>1. UNCHANGED <<socket, lastConnect, now, attempts>>
    BY <1>2 DEF NoAttempt, ages
  <2>2. SinceLastAttempt' /\ AttemptsSpaced'
    BY <1>1, <2>1 DEF SinceLastAttempt, AttemptsSpaced, AtLeast, Since
  <2> QED BY <1>1, <1>2, <2>1, <2>2 DEF Elsewhere
<1>3. ASSUME NEW o \in Outcomes, Attempt(o.code), MayAttempt
      PROVE  /\ SinceLastAttempt' /\ AttemptsSpaced'
             /\ pc # "wait" => lastConnect' # Never /\ attempts'[2] >= Interval
  <2>1. PICK p \in {0, Interval} : Tried(p)
    BY <1>1, <1>3, AttemptTried
  <2>2. /\ attempts' \in [1 .. 3 -> 0 .. Cap]
        /\ attempts'[1] <= attempts'[2]
        /\ attempts'[1] >= p
        /\ attempts'[2] >= attempts[1]
        /\ attempts'[3] >= attempts[2]
        /\ p \in 0 .. Interval
    BY <1>1, <2>1, TriedAges
  <2>3. /\ lastConnect' \in Clock /\ lastConnect' # Never /\ now' \in Clock
        /\ (now' - lastConnect') % ClockSize <= p
        /\ ((now' - lastConnect') % ClockSize) \in Nat
    <3>1. now \in Clock /\ lastConnect' = now
      BY <1>1, <2>1, Typed DEF Tried
    <3> QED BY <1>1, <2>1, <3>1, TriedTimes
  <2>4. /\ attempts[1] \in 0 .. Cap /\ attempts[2] \in 0 .. Cap /\ attempts[1] <= attempts[2]
        /\ attempts'[1] \in 0 .. Cap /\ attempts'[2] \in 0 .. Cap /\ attempts'[3] \in 0 .. Cap
    <3>1. 1 \in 1 .. 3 /\ 2 \in 1 .. 3 /\ 3 \in 1 .. 3
      BY SMT
    <3> QED BY <1>1, <2>2, <3>1, Typed DEF SinceLastAttempt
  <2>5. SinceLastAttempt'
    <3> DEFINE s == (now' - lastConnect') % ClockSize
               a == attempts'[1]
    <3>1. s <= p /\ a >= p /\ s \in Nat /\ a \in 0 .. Cap /\ p \in 0 .. Interval
      BY <2>2, <2>3, <2>4, Zenon
    <3> HIDE DEF s, a
    <3>2. a >= s
      BY <3>1, Times, SMT
    <3>3. attempts'[1] >= Since(lastConnect)'
      BY <3>2 DEF Since, s, a
    <3> QED BY <2>2, <3>3, Zenon DEF SinceLastAttempt, AtLeast
  <2>6. lastConnect # Never => attempts[1] >= Interval
    <3> SUFFICES ASSUME lastConnect # Never PROVE attempts[1] >= Interval
      OBVIOUS
    <3>1. AtLeast(attempts[1], lastConnect) /\ Since(lastConnect) > Interval
      BY <1>1, <1>3 DEF SinceLastAttempt, MayAttempt
    <3>2. Since(lastConnect) \in Nat
      <4>1. lastConnect \in Clock /\ now \in Clock /\ 0 \in 0 .. Interval
        BY <1>1, Pauses, Typed DEF TypeOK
      <4> QED BY <4>1, After DEF Since
    <3> DEFINE s == Since(lastConnect)
               a == attempts[1]
    <3>3. (a >= Interval \/ a >= s) /\ s > Interval /\ s \in Nat /\ a \in 0 .. Cap
      BY <2>4, <3>1, <3>2 DEF AtLeast
    <3> HIDE DEF s, a
    <3>4. a >= Interval
      BY <3>3, Times, SMT
    <3> QED BY <3>4 DEF a
  <2>7. attempts[2] >= Interval
    <3>1. attempts[1] >= Interval => attempts[2] >= Interval
      BY <2>4, Times, SMT
    <3> QED BY <1>1, <2>6, <3>1 DEF InWait, Elsewhere
  <2>8. pc # "wait" => attempts[1] >= Interval
    BY <1>1, <2>6 DEF Elsewhere
  <2>9. attempts'[3] >= Interval /\ (pc # "wait" => attempts'[2] >= Interval)
    <3>1. attempts[1] >= Interval => attempts'[2] >= Interval
      BY <2>2, <2>4, Times, SMT
    <3>2. attempts'[3] >= Interval
      BY <2>2, <2>4, <2>7, Times, SMT
    <3> QED BY <2>8, <3>1, <3>2
  <2> QED BY <2>3, <2>5, <2>9 DEF AttemptsSpaced
<1>4. "up" # "down" /\ "open" # "closed" /\ (socket = "open" \/ socket = "closed")
  BY <1>1 DEF TypeOK
<1>5. \/ /\ NoAttempt
         /\ \/ socket = "closed" \/ ioStatus = "connect failed"
            \/ r = "connected" /\ ioStatus' # "connect failed" /\ socket = "open"
      \/ MayAttempt /\ \E o \in Outcomes : Attempt(o.code)
  BY <1>1, <1>4, LookCases DEF OpenOnNetwork
<1> QED BY <1>2, <1>3, <1>5

\* The ages of the attempts where run() waits.
LEMMA LookInWait ==
  ASSUME SessionInv, NEW r \in Statuses, Look(r), pc = "wait", UNCHANGED started
  PROVE  /\ lastConnect' = Never =>
              /\ socket' = "closed" /\ r # "connected"
              /\ AtLeast(attempts[1], started)' /\ attempts'[2] >= Interval
         /\ lastConnect' # Never => AtLeast(attempts[2], started)'
         /\ attempts' = Forgotten \/ socket' = "open" \/ r # "connected"
<1>1. TypeOK /\ SinceLastAttempt /\ InWait /\ started \in Clock /\ started' = started
  BY Typed DEF SessionInv
<1>2. CASE NoAttempt /\ (r = "connected" => socket = "open")
  <2>1. UNCHANGED <<socket, lastConnect, now, attempts>>
    BY <1>2 DEF NoAttempt, ages
  <2>2. Since(started)' = Since(started)
    BY <1>1, <2>1 DEF Since
  <2> QED BY <1>1, <1>2, <2>1, <2>2 DEF InWait, AtLeast
<1>3. ASSUME NEW o \in Outcomes, Attempt(o.code), MayAttempt, r = Meaning(o.code)
      PROVE  /\ lastConnect' # Never /\ AtLeast(attempts[2], started)'
             /\ attempts' = Forgotten \/ r # "connected"
  <2>1. PICK p \in {0, Interval} : Tried(p)
    BY <1>1, <1>3, AttemptTried
  <2>2. /\ attempts' \in [1 .. 3 -> 0 .. Cap]
        /\ attempts'[2] >= attempts[1]
        /\ attempts'[2] >= Interval \/ attempts'[2] = attempts[1] + p
        /\ p \in 0 .. Interval
    BY <1>1, <2>1, TriedAges
  <2>3. /\ lastConnect' # Never
        /\ Since(started) \in Nat /\ Since(started)' \in Nat
        /\ Since(started)' <= Since(started) + p
    BY <1>1, <2>1, TriedTimes DEF Since
  <2> DEFINE a == attempts[1]
             b == attempts'[2]
             s == Since(started)
             z == Since(started)'
  <2>4. a \in 0 .. Cap /\ b \in 0 .. Cap
    <3>1. 1 \in 1 .. 3 /\ 2 \in 1 .. 3
      BY SMT
    <3> QED BY <1>1, <2>2, <3>1, Typed
  <2>5. a >= Interval \/ a >= s
    <3>1. lastConnect # Never => a >= Interval
      <4> SUFFICES ASSUME lastConnect # Never PROVE a >= Interval
        OBVIOUS
      <4>1. AtLeast(attempts[1], lastConnect) /\ Since(lastConnect) > Interval
        BY <1>1, <1>3 DEF SinceLastAttempt, MayAttempt
      <4>2. Since(lastConnect) \in Nat
        <5>1. lastConnect \in Clock /\ now \in Clock /\ 0 \in 0 .. Interval
          BY <1>1, Pauses, Typed DEF TypeOK
        <5> QED BY <5>1, After DEF Since
      <4>3. \A x \in 0 .. Cap, y \in Nat : (x >= Interval \/ x >= y) /\ y > Interval => x >= Interval
        BY Times, SMT
      <4> QED BY <2>4, <4>1, <4>2, <4>3, Zenon DEF AtLeast
    <3>2. lastConnect = Never => a >= Interval \/ a >= s
      BY <1>1 DEF InWait, AtLeast
    <3> QED BY <3>1, <3>2
  <2>6. b >= a /\ (b >= Interval \/ b = a + p) /\ s \in Nat /\ z \in Nat /\ z <= s + p
    BY <2>2, <2>3
  <2> HIDE DEF a, b, s, z
  <2>7. b >= Interval \/ b >= z
    BY <2>2, <2>4, <2>5, <2>6, Times, SMT
  <2>8. AtLeast(attempts[2], started)'
    BY <2>7 DEF AtLeast, b, z
  <2> QED BY <1>1, <1>3, <2>3, <2>8, AttemptTried
<1>4. \/ NoAttempt /\ (r = "connected" => socket = "open")
      \/ MayAttempt /\ \E o \in Outcomes : Attempt(o.code) /\ r = Meaning(o.code)
  BY <1>1, LookCases
<1> QED BY <1>2, <1>3, <1>4

-----------------------------------------------------------------------------
(* The steps of the sketch *)

Places == {"setup", "idle", "restart", "wait", "mqtt", "mqtt again", "ping", "return"}

LEMMA SilenceMoves ==
  ASSUME NEW g \in 0 .. MaxGap
  PROVE  /\ g <= Interval + MaxGap + 0
         /\ Interval + MaxGap + g <= Interval + 2 * MaxGap + 0
         /\ g <= Interval + 2 * MaxGap + 0
         /\ Interval + 2 * MaxGap + g <= Interval + 3 * MaxGap
         /\ Interval <= Interval + MaxGap + 0
         /\ {0, Interval, Interval + MaxGap + 0, Interval + 2 * MaxGap + 0, Interval + 3 * MaxGap}
              \subseteq Nat
         /\ Interval + 3 * MaxGap <= Interval + 3 * MaxGap
BY Times, SMT

\* A step in which the status is looked at, but for what it does to the wait.
LEMMA LookStep ==
  ASSUME SessionInv, NEW r \in Statuses, Look(r), UNCHANGED <<lastPing, registered, wifi>>,
         pc' \in Places, gap' = 0, timeStart' \in Clock, started' \in Clock, returned' \in Statuses,
         r = "connected" => SilenceAt <= SilenceAt',
         InWait', Elsewhere'
  PROVE  SessionInv'
<1>1. TypeOK /\ SilenceBounded
  BY DEF SessionInv
<1>2. /\ socket' \in {"open", "closed"} /\ session' \in BOOLEAN
      /\ session' => socket' = "open" /\ wifi' = "up"
      /\ subscribed' \subseteq registered'
      /\ now' \in Clock /\ lastConnect' \in Clock \cup {Never} /\ ioStatus' \in Statuses
      /\ silence' \in 0 .. Cap /\ wrapped' \in BOOLEAN /\ attempts' \in [1 .. 3 -> 0 .. Cap]
      /\ OpenOnNetwork' /\ RefusedForGood' /\ SinceLastPing'
      /\ session' /\ ~wrapped' =>
           silence' = 0 \/ (r = "connected" /\ session /\ ~wrapped /\ silence' = silence)
  BY LookKeeps
<1>3. gap' \in 0 .. MaxGap /\ gap \in 0 .. MaxGap /\ silence \in 0 .. Cap
  <2>1. 0 \in 0 .. MaxGap
    BY Times, SMT
  <2> QED BY <1>1, <2>1, Typed
<1>4. TypeOK'
  <2>1. {lastPing', timeStart', started', now'} \subseteq Clock
    BY <1>1, <1>2, Typed
  <2>2. wifi' \in {"up", "down"} /\ registered' \subseteq Feeds \cup Errors
    BY <1>1 DEF TypeOK
  <2> QED BY <1>2, <1>3, <2>1, <2>2 DEF TypeOK, Places
<1>5. SilenceAt' \in Nat /\ SilenceAt \in Nat
  <2>1. \A g \in 0 .. MaxGap : {g, Interval, Interval + MaxGap + g, Interval + 2 * MaxGap + g,
                                Interval + 3 * MaxGap} \subseteq Nat
    BY Times, SMT
  <2> QED BY <1>3, <2>1, Zenon DEF SilenceAt
<1>6. SilenceBounded'
  <2> SUFFICES ASSUME session', ~wrapped' PROVE silence' <= SilenceAt'
    BY DEF SilenceBounded
  <2>1. \A a, b, c \in Nat : a <= b /\ b <= c => a <= c
    BY SMT
  <2>2. \A b \in Nat : 0 <= b
    BY SMT
  <2>3. silence \in Nat
    BY <1>3, SMT
  <2>4. CASE silence' = 0
    BY <1>5, <2>2, <2>4
  <2>5. CASE r = "connected" /\ session /\ ~wrapped /\ silence' = silence
    <3>1. silence <= SilenceAt
      BY <1>1, <2>5 DEF SilenceBounded
    <3> QED BY <1>5, <2>1, <2>3, <2>5, <3>1, Zenon
  <2> QED BY <1>2, <2>4, <2>5
<1>7. SinceLastAttempt' /\ AttemptsSpaced'
  BY LookAges
<1> QED BY <1>2, <1>4, <1>6, <1>7 DEF SessionInv

\* Outside the wait the ages are as they must be when the status is looked at.
LEMMA LookElsewhere ==
  ASSUME SessionInv, NEW r \in Statuses, Look(r), pc # "wait",
         pc' = "restart" => r # "connected"
  PROVE  Elsewhere'
<1>1. /\ lastConnect' = Never => attempts'[1] >= Interval
      /\ \/ socket' = "closed" \/ ioStatus' = "connect failed" \/ r # "connected"
         => attempts'[2] >= Interval
  BY LookAges
<1> QED BY <1>1 DEF Elsewhere

LEMMA StepSetup == ASSUME SessionInv, Setup PROVE SessionInv'
<1>1. PICK r \in Statuses : Status(r) /\ pc' = IF r = "connected" THEN "idle" ELSE "setup"
  BY DEF Setup
<1>2. pc = "setup" /\ gap' = 0 /\ UNCHANGED <<lastPing, registered, timers, returned, wifi>>
  BY DEF Setup
<1>3. TypeOK /\ Look(r) /\ timeStart' \in Clock /\ started' \in Clock /\ returned' \in Statuses
  BY <1>1, <1>2, Typed DEF SessionInv, Look, TypeOK, timers
<1>4. r = "connected" => SilenceAt <= SilenceAt'
  <2>1. SilenceAt = gap /\ (r = "connected" => SilenceAt' = Interval + MaxGap + 0) /\ gap \in 0 .. MaxGap
    BY <1>1, <1>2, <1>3, Typed DEF SilenceAt
  <2> QED BY <2>1, SilenceMoves
<1>5. Elsewhere' /\ InWait'
  BY <1>1, <1>2, <1>3, LookElsewhere DEF InWait
<1>6. pc' \in Places
  BY <1>1 DEF Places
<1> QED BY <1>2, <1>3, <1>4, <1>5, <1>6, LookStep

LEMMA StepRunStart == ASSUME SessionInv, RunStart PROVE SessionInv'
<1>1. PICK r \in Statuses : Status(r) /\ pc' = IF r = "connected" THEN "mqtt" ELSE "restart"
  BY DEF RunStart
<1>2. pc = "idle" /\ gap' = 0 /\ UNCHANGED <<lastPing, registered, started, returned, wifi>>
      /\ timeStart' = now
  BY DEF RunStart
<1>3. TypeOK /\ Look(r) /\ timeStart' \in Clock /\ started' \in Clock /\ returned' \in Statuses
  BY <1>1, <1>2, Typed DEF SessionInv, Look, TypeOK
<1>4. r = "connected" => SilenceAt <= SilenceAt'
  <2>1. /\ SilenceAt = Interval + MaxGap + gap /\ gap \in 0 .. MaxGap
        /\ (r = "connected" => SilenceAt' = Interval + 2 * MaxGap + 0)
    BY <1>1, <1>2, <1>3, Typed DEF SilenceAt
  <2> QED BY <2>1, SilenceMoves
<1>5. Elsewhere' /\ InWait'
  BY <1>1, <1>2, <1>3, LookElsewhere DEF InWait
<1>6. pc' \in Places
  BY <1>1 DEF Places
<1> QED BY <1>2, <1>3, <1>4, <1>5, <1>6, LookStep

LEMMA StepRunMqtt == ASSUME SessionInv, RunMqtt PROVE SessionInv'
<1>1. PICK r \in Statuses :
        /\ MqttStatus(r)
        /\ pc' = IF r # "connected" /\ Since(timeStart)' < Interval THEN "mqtt" ELSE "mqtt again"
  BY DEF RunMqtt
<1>2. /\ pc = "mqtt" /\ gap' = 0
      /\ UNCHANGED <<ioStatus, lastPing, registered, timers, returned, wifi>>
  BY DEF RunMqtt
<1>3. TypeOK /\ Look(r) /\ timeStart' \in Clock /\ started' \in Clock /\ returned' \in Statuses
  BY <1>1, <1>2, Typed DEF SessionInv, Look, TypeOK, timers
<1>4. r = "connected" => SilenceAt <= SilenceAt'
  <2>1. /\ SilenceAt = Interval + 2 * MaxGap + gap /\ gap \in 0 .. MaxGap
        /\ (r = "connected" => SilenceAt' = Interval + 3 * MaxGap)
    BY <1>1, <1>2, <1>3, Typed DEF SilenceAt
  <2> QED BY <2>1, SilenceMoves
<1>5. Elsewhere' /\ InWait'
  BY <1>1, <1>2, <1>3, LookElsewhere DEF InWait
<1>6. pc' \in Places
  BY <1>1 DEF Places
<1> QED BY <1>2, <1>3, <1>4, <1>5, <1>6, LookStep

LEMMA StepRunMqttAgain == ASSUME SessionInv, RunMqttAgain PROVE SessionInv'
<1>1. PICK r \in Statuses : MqttStatus(r) /\ pc' = IF r = "connected" THEN "ping" ELSE "return"
  BY DEF RunMqttAgain
<1>2. /\ pc = "mqtt again" /\ gap' = 0
      /\ UNCHANGED <<ioStatus, lastPing, registered, timers, returned, wifi>>
  BY DEF RunMqttAgain
<1>3. TypeOK /\ Look(r) /\ timeStart' \in Clock /\ started' \in Clock /\ returned' \in Statuses
  BY <1>1, <1>2, Typed DEF SessionInv, Look, TypeOK, timers
<1>4. r = "connected" => SilenceAt <= SilenceAt'
  <2>1. /\ SilenceAt = Interval + 3 * MaxGap /\ gap \in 0 .. MaxGap
        /\ (r = "connected" => SilenceAt' = Interval + 3 * MaxGap)
    BY <1>1, <1>2, <1>3, Typed DEF SilenceAt
  <2> QED BY <2>1, SilenceMoves
<1>5. Elsewhere' /\ InWait'
  BY <1>1, <1>2, <1>3, LookElsewhere DEF InWait
<1>6. pc' \in Places
  BY <1>1 DEF Places
<1> QED BY <1>2, <1>3, <1>4, <1>5, <1>6, LookStep

LEMMA StepRunReturn == ASSUME SessionInv, RunReturn PROVE SessionInv'
<1>1. PICK r \in Statuses : Status(r) /\ returned' = r
  BY DEF RunReturn
<1>2. /\ pc = "return" /\ pc' = "idle" /\ gap' = 0 /\ timeStart' = 0 /\ started' = 0
      /\ UNCHANGED <<lastPing, registered, wifi>>
  BY DEF RunReturn
<1>3. TypeOK /\ Look(r) /\ timeStart' \in Clock /\ started' \in Clock /\ returned' \in Statuses
  <2>1. 0 \in Clock
    BY Times, SMT DEF Clock
  <2> QED BY <1>1, <1>2, <2>1 DEF SessionInv, Look
<1>4. r = "connected" => SilenceAt <= SilenceAt'
  <2>1. SilenceAt = Interval /\ gap \in 0 .. MaxGap /\ SilenceAt' = Interval + MaxGap + 0
    BY <1>1, <1>2, <1>3, Typed DEF SilenceAt
  <2> QED BY <2>1, SilenceMoves
<1>5. Elsewhere' /\ InWait'
  BY <1>1, <1>2, <1>3, LookElsewhere DEF InWait
<1>6. pc' \in Places
  BY <1>2 DEF Places
<1> QED BY <1>2, <1>3, <1>4, <1>5, <1>6, LookStep

LEMMA StepRunWait == ASSUME SessionInv, RunWait PROVE SessionInv'
<1>1. PICK r \in Statuses :
        /\ Status(r)
        /\ pc' = IF r = "connected" THEN "mqtt" ELSE IF WaitOver' THEN "return" ELSE "wait"
  BY DEF RunWait
<1>2. /\ pc = "wait" /\ gap' = 0
      /\ UNCHANGED <<lastPing, registered, timers, returned, wifi>>
  BY DEF RunWait
<1>3. TypeOK /\ Look(r) /\ timeStart' \in Clock /\ started' \in Clock /\ returned' \in Statuses
      /\ started' = started
  BY <1>1, <1>2, Typed DEF SessionInv, Look, TypeOK, timers
<1>4. r = "connected" => SilenceAt <= SilenceAt'
  <2>1. /\ SilenceAt = gap /\ gap \in 0 .. MaxGap
        /\ (r = "connected" => SilenceAt' = Interval + 2 * MaxGap + 0)
    BY <1>1, <1>2, <1>3, Typed DEF SilenceAt
  <2> QED BY <2>1, SilenceMoves
<1>5. /\ lastConnect' = Never =>
           /\ socket' = "closed" /\ r # "connected"
           /\ AtLeast(attempts[1], started)' /\ attempts'[2] >= Interval
      /\ lastConnect' # Never => AtLeast(attempts[2], started)'
      /\ attempts' = Forgotten \/ socket' = "open" \/ r # "connected"
  BY <1>2, <1>3, LookInWait
<1>6. pc' \in Places
  BY <1>1 DEF Places
<1>7. InWait'
  BY <1>5 DEF InWait
<1>8. Elsewhere'
  <2>1. CASE r = "connected"
    <3>1. pc' # "restart" /\ ioStatus' # "connect failed"
      BY <1>1, <2>1 DEF Status
    <3>2. attempts' = Forgotten => attempts'[2] >= Interval
      BY ForgottenAges
    <3>3. socket' = "open" => socket' # "closed"
      OBVIOUS
    <3> QED BY <1>5, <2>1, <3>1, <3>2, <3>3 DEF Elsewhere
  <2>2. CASE r # "connected" /\ WaitOver'
    <3>1. Since(started)' > Interval /\ Since(started)' \in Nat
      <4>1. now' \in Clock /\ 0 \in 0 .. Interval
        BY <1>2, <1>3, Pauses, LookKeeps
      <4> QED BY <1>3, <2>2, <4>1, After DEF WaitOver, Since
    <3>2. attempts'[1] \in 0 .. Cap /\ attempts'[2] \in 0 .. Cap
      <4>1. attempts' \in [1 .. 3 -> 0 .. Cap]
        BY <1>2, <1>3, LookKeeps
      <4>2. 1 \in 1 .. 3 /\ 2 \in 1 .. 3
        BY SMT
      <4> QED BY <4>1, <4>2
    <3>3. \A x \in 0 .. Cap, y \in Nat : (x >= Interval \/ x >= y) /\ y > Interval => x >= Interval
      BY Times, SMT
    <3>4. /\ AtLeast(attempts[1], started)' => attempts'[1] >= Interval
          /\ AtLeast(attempts[2], started)' => attempts'[2] >= Interval
      BY <3>1, <3>2, <3>3, Zenon DEF AtLeast
    <3> QED BY <1>5, <3>4 DEF Elsewhere
  <2>3. CASE r # "connected" /\ ~WaitOver'
    BY <1>1, <2>3 DEF Elsewhere
  <2> QED BY <2>1, <2>2, <2>3
<1> QED BY <1>2, <1>3, <1>4, <1>6, <1>7, <1>8, LookStep

\* run() starts over, and forgets the last attempt.
LEMMA StepRunRestart == ASSUME SessionInv, RunRestart PROVE SessionInv'
<1>1. /\ TypeOK /\ SinceLastAttempt /\ Elsewhere /\ AttemptsSpaced
      /\ attempts[1] \in 0 .. Cap /\ now \in Clock
  BY Typed DEF SessionInv
<1>2. /\ pc = "restart" /\ pc' = "wait" /\ gap' = 0 /\ started' = now /\ wrapped' = FALSE
      /\ ioStatus' = "net disconnected" /\ lastConnect' = Never /\ lastPing' = 0
      /\ wifi' = "down" /\ socket' = "closed" /\ session' = FALSE /\ subscribed' = {}
      /\ registered' = registered
      /\ UNCHANGED <<timeStart, returned, now, silence, attempts>>
  BY DEF RunRestart, Connect, ErrSub
<1>3. 0 \in Clock /\ 0 \in 0 .. MaxGap /\ 0 <= now /\ Since(now) = 0 /\ attempts[1] >= 0
  <2>1. 0 \in Clock /\ 0 \in 0 .. MaxGap /\ (\A a \in 0 .. Cap : a >= 0)
        /\ (\A n \in Clock : 0 <= n /\ n - n = 0 /\ 0 \in 0 .. ClockSize - 1 /\ ClockSize \in Nat
                             /\ ClockSize > 0)
    BY Times, SMT DEF Clock
  <2> QED BY <1>1, <2>1, Modulo DEF Since
<1>4. TypeOK'
  BY <1>1, <1>2, <1>3 DEF TypeOK, Statuses
<1>5. SinceLastPing' /\ SilenceBounded' /\ OpenOnNetwork' /\ RefusedForGood'
  BY <1>2, <1>3 DEF SinceLastPing, SilenceBounded, OpenOnNetwork, RefusedForGood
<1>6. SinceLastAttempt' /\ AttemptsSpaced'
  BY <1>1, <1>2 DEF SinceLastAttempt, AttemptsSpaced
<1>7. InWait'
  <2>1. attempts'[2] >= Interval
    BY <1>1, <1>2 DEF Elsewhere
  <2>2. AtLeast(attempts[1], started)'
    BY <1>2, <1>3 DEF AtLeast, Since
  <2> QED BY <1>2, <2>1, <2>2 DEF InWait
<1>8. Elsewhere'
  BY <1>2 DEF Elsewhere
<1> QED BY <1>4, <1>5, <1>6, <1>7, <1>8 DEF SessionInv

\* When the clock has not come round, no ping is due only within a minute of the
\* last one.
LEMMA NotDue ==
  ASSUME TypeOK, lastPing <= now, ~PingDue
  PROVE  now - lastPing <= Interval
<1>1. lastPing \in Clock /\ now \in Clock /\ Interval \in 0 .. Interval
  <2>1. Interval \in 0 .. Interval
    BY Times, SMT
  <2> QED BY <2>1, Typed
<1> DEFINE m == (lastPing + Interval) % ClockSize
<1>2. m \in Clock /\ (lastPing + Interval < ClockSize => m = lastPing + Interval)
  BY <1>1, After
<1>3. ~(now > m)
  BY DEF PingDue
<1>4. lastPing + Interval >= ClockSize => now - lastPing <= Interval
  BY <1>1, Times, SMT DEF Clock
<1> HIDE DEF m
<1>5. lastPing + Interval < ClockSize => now - lastPing <= Interval
  BY <1>1, <1>2, <1>3, Times, SMT DEF Clock
<1>6. lastPing + Interval < ClockSize \/ lastPing + Interval >= ClockSize
  BY <1>1, Times, SMT DEF Clock
<1> QED BY <1>4, <1>5, <1>6

LEMMA StepRunPing == ASSUME SessionInv, RunPing PROVE SessionInv'
<1>1. /\ TypeOK /\ SinceLastPing /\ SilenceBounded /\ silence \in 0 .. Cap /\ now \in Clock
      /\ lastPing \in Clock /\ (session => socket = "open")
  BY Typed DEF SessionInv, TypeOK
<1>2. /\ pc = "ping" /\ pc' = "return" /\ gap' = 0
      /\ UNCHANGED <<ioStatus, lastConnect, registered, timers, returned, now, network, attempts>>
  BY DEF RunPing
<1>3. /\ UNCHANGED <<wifi, socket, session, subscribed, timeStart, started>>
      /\ SilenceAt' = Interval
  BY <1>2 DEF network, timers, SilenceAt
<1>4. \/ PingDue /\ lastPing' = now /\ wrapped' = FALSE /\ silence' = IF socket = "open" THEN 0 ELSE silence
      \/ ~PingDue /\ UNCHANGED <<lastPing, silence, wrapped>>
  BY DEF RunPing
<1>5. /\ 0 \in 0 .. MaxGap /\ 0 \in 0 .. Cap /\ 0 <= Interval
      /\ \A n \in Clock : n <= n /\ 0 <= n - n
  BY Times, SMT DEF Clock
<1>6. TypeOK'
  BY <1>1, <1>2, <1>3, <1>4, <1>5 DEF TypeOK
<1>7. SinceLastPing'
  BY <1>1, <1>2, <1>3, <1>4, <1>5 DEF SinceLastPing
<1>8. SilenceBounded'
  <2>1. CASE PingDue
    BY <1>1, <1>3, <1>4, <1>5, <2>1 DEF SilenceBounded
  <2>2. CASE ~PingDue
    <3> SUFFICES ASSUME session', ~wrapped' PROVE silence' <= SilenceAt'
      BY DEF SilenceBounded
    <3>1. session /\ ~wrapped /\ silence' = silence
      BY <1>3, <1>4, <2>2
    <3>2. lastPing <= now /\ silence <= now - lastPing
      BY <1>1, <3>1 DEF SinceLastPing
    <3>3. now - lastPing <= Interval
      BY <1>1, <2>2, <3>2, NotDue
    <3>4. \A a \in 0 .. Cap : \A n, l \in Clock :
            a <= n - l /\ n - l <= Interval => a <= Interval
      BY Times, SMT DEF Clock
    <3> QED BY <1>1, <1>3, <3>1, <3>2, <3>3, <3>4, Zenon
  <2> QED BY <2>1, <2>2
<1>9. /\ OpenOnNetwork' /\ RefusedForGood' /\ SinceLastAttempt' /\ InWait' /\ Elsewhere'
      /\ AttemptsSpaced'
  BY <1>2, <1>3 DEF SessionInv, OpenOnNetwork, RefusedForGood, SinceLastAttempt, InWait,
     Elsewhere, AttemptsSpaced, AtLeast, Since
<1> QED BY <1>6, <1>7, <1>8, <1>9 DEF SessionInv

-----------------------------------------------------------------------------
(* Time, the network and the broker *)

LEMMA StepTick == ASSUME SessionInv, Tick PROVE SessionInv'
<1>1. /\ TypeOK /\ SinceLastPing /\ SilenceBounded /\ SinceLastAttempt /\ InWait /\ Elsewhere
      /\ AttemptsSpaced
  BY DEF SessionInv
<1>2. /\ pc \in {"setup", "idle", "wait", "mqtt"} /\ gap < MaxGap /\ gap' = gap + 1
      /\ now' = (now + 1) % ClockSize /\ wrapped' = (wrapped \/ now + 1 >= ClockSize)
      /\ silence' = Older(silence, 1)
      /\ attempts' = [i \in 1 .. 3 |-> Older(attempts[i], 1)]
      /\ UNCHANGED <<pc, client, timers, returned, network>>
  BY DEF Tick, Advance
<1>3. UNCHANGED <<pc, ioStatus, lastPing, lastConnect, registered, timeStart, started, returned,
                  wifi, socket, session, subscribed>>
  BY <1>2 DEF client, timers, network
<1>4. /\ now \in Clock /\ 1 \in 0 .. Interval /\ started \in Clock /\ lastPing \in Clock
      /\ attempts[1] \in 0 .. Cap /\ attempts[2] \in 0 .. Cap /\ attempts[3] \in 0 .. Cap
      /\ silence \in 0 .. Cap /\ gap \in 0 .. MaxGap /\ attempts \in [1 .. 3 -> 0 .. Cap]
  BY <1>1, Typed, Times, SMT
<1>5. /\ now' \in Clock /\ (now + 1 < ClockSize => now' = now + 1)
      /\ \A t \in Clock : Since(t) \in Nat /\ Since(t)' \in Nat
                          /\ (now' - t) % ClockSize <= Since(t) + 1
  BY <1>2, <1>4, After DEF Since
<1>6. /\ attempts'[1] = Older(attempts[1], 1) /\ attempts'[2] = Older(attempts[2], 1)
      /\ attempts'[3] = Older(attempts[3], 1)
  <2>1. 1 \in 1 .. 3 /\ 2 \in 1 .. 3 /\ 3 \in 1 .. 3
    BY SMT
  <2> QED BY <1>2, <2>1
<1>7. \A a \in 0 .. Cap : /\ Older(a, 1) \in 0 .. Cap /\ (a >= Interval => Older(a, 1) >= Interval)
                          /\ Older(a, 1) <= a + 1
                          /\ \A b \in 0 .. Cap : a <= b => Older(a, 1) <= Older(b, 1)
                          /\ \A s, z \in Nat : a >= s /\ z <= s + 1 =>
                               Older(a, 1) >= Interval \/ Older(a, 1) >= z
  BY Times, SMT DEF Older
<1>8. TypeOK'
  <2>1. gap' \in 0 .. MaxGap
    BY <1>2, <1>4, Times, SMT
  <2>2. attempts' \in [1 .. 3 -> 0 .. Cap] /\ silence' \in 0 .. Cap
    BY <1>2, <1>4, <1>7
  <2>3. wrapped' \in BOOLEAN
    BY <1>2
  <2> QED BY <1>1, <1>3, <1>5, <2>1, <2>2, <2>3 DEF TypeOK
<1>9. SinceLastPing'
  <2> SUFFICES ASSUME ~wrapped'
               PROVE  lastPing' <= now' /\ (session' => silence' <= now' - lastPing')
    BY DEF SinceLastPing
  <2>1. ~wrapped /\ ~(now + 1 >= ClockSize)
    BY <1>2
  <2>2. \A n \in Clock : ~(n + 1 >= ClockSize) => n + 1 < ClockSize
    BY Times, SMT DEF Clock
  <2>3. now' = now + 1
    BY <1>4, <1>5, <2>1, <2>2
  <2>4. \A l, n \in Clock : l <= n => l <= n + 1
    BY Times, SMT DEF Clock
  <2>5. \A l, n \in Clock : \A a, b \in 0 .. Cap : a <= n - l /\ b <= a + 1 => b <= (n + 1) - l
    BY Times, SMT DEF Clock
  <2>6. silence' \in 0 .. Cap /\ silence' <= silence + 1
    BY <1>2, <1>4, <1>7
  <2>7. lastPing <= now /\ (session => silence <= now - lastPing)
    BY <1>1, <2>1 DEF SinceLastPing
  <2>8. lastPing' <= now'
    BY <1>3, <1>4, <2>3, <2>4, <2>7, Zenon
  <2>9. ASSUME session' PROVE silence' <= now' - lastPing'
    <3>1. silence <= now - lastPing
      BY <1>3, <2>7, <2>9
    <3>2. silence' <= (now + 1) - lastPing
      <4>1. now \in Clock /\ lastPing \in Clock /\ silence \in 0 .. Cap
        BY <1>4
      <4> QED BY <2>5, <2>6, <3>1, <4>1, Zenon
    <3>3. lastPing' = lastPing
      BY <1>3
    <3> QED BY <2>3, <3>2, <3>3, Zenon
  <2> QED BY <2>8, <2>9
<1>10. SilenceBounded'
  <2> SUFFICES ASSUME session', ~wrapped' PROVE silence' <= SilenceAt'
    BY DEF SilenceBounded
  <2>1. session /\ ~wrapped
    BY <1>2, <1>3
  <2>2. silence <= SilenceAt
    BY <1>1, <2>1 DEF SilenceBounded
  <2>3. SilenceAt' = SilenceAt + 1 /\ SilenceAt \in Nat
    <3>1. gap \in Int /\ Interval \in Int /\ MaxGap \in Int /\ gap >= 0 /\ Interval >= 0 /\ MaxGap >= 0
      BY <1>4, Times, SMT
    <3>2. \A g, i, m \in Int :
            /\ g >= 0 /\ i >= 0 /\ m >= 0 => g \in Nat /\ i + m + g \in Nat /\ i + 2 * m + g \in Nat
            /\ i + m + (g + 1) = (i + m + g) + 1
            /\ i + 2 * m + (g + 1) = (i + 2 * m + g) + 1
      BY SMT
    <3>3. gap' = gap + 1 /\ pc' = pc
      BY <1>2, <1>3
    <3>4. CASE pc \in {"setup", "wait"}
      <4>1. SilenceAt = gap /\ SilenceAt' = gap'
        BY <3>3, <3>4, Zenon DEF SilenceAt
      <4> QED BY <3>1, <3>2, <3>3, <4>1, Zenon
    <3>5. CASE pc = "idle"
      <4>1. SilenceAt = Interval + MaxGap + gap /\ SilenceAt' = Interval + MaxGap + gap'
        BY <3>3, <3>5 DEF SilenceAt
      <4> QED BY <3>1, <3>2, <3>3, <4>1, Zenon
    <3>6. CASE pc = "mqtt"
      <4>1. SilenceAt = Interval + 2 * MaxGap + gap /\ SilenceAt' = Interval + 2 * MaxGap + gap'
        BY <3>3, <3>6 DEF SilenceAt
      <4> QED BY <3>1, <3>2, <3>3, <4>1, Zenon
    <3> QED BY <1>2, <3>4, <3>5, <3>6
  <2>4. silence' \in 0 .. Cap /\ silence' <= silence + 1
    BY <1>2, <1>4, <1>7
  <2>5. \A a, b \in 0 .. Cap, c \in Nat : a <= c /\ b <= a + 1 => b <= c + 1
    BY Times, SMT
  <2> QED BY <1>4, <2>2, <2>3, <2>4, <2>5, Zenon
<1>11. SinceLastAttempt'
  <2>1. lastConnect # Never => lastConnect \in Clock
    BY <1>1 DEF TypeOK
  <2>2. lastConnect # Never => AtLeast(attempts[1], lastConnect)'
    <3> SUFFICES ASSUME lastConnect # Never PROVE AtLeast(attempts[1], lastConnect)'
      OBVIOUS
    <3>1. attempts[1] >= Interval \/ attempts[1] >= Since(lastConnect)
      BY <1>1 DEF SinceLastAttempt, AtLeast
    <3>2. /\ Since(lastConnect) \in Nat /\ ((now' - lastConnect) % ClockSize) \in Nat
          /\ (now' - lastConnect) % ClockSize <= Since(lastConnect) + 1
      BY <1>5, <2>1 DEF Since
    <3>3. \/ Older(attempts[1], 1) >= Interval
          \/ Older(attempts[1], 1) >= (now' - lastConnect) % ClockSize
      BY <1>4, <1>7, <3>1, <3>2
    <3> QED BY <1>3, <1>6, <3>3 DEF AtLeast, Since
  <2> QED BY <1>1, <1>3, <1>4, <1>6, <1>7, <2>2 DEF SinceLastAttempt
<1>12. InWait'
  <2>1. ASSUME NEW i \in {1, 2}, AtLeast(attempts[i], started)
        PROVE  AtLeast(attempts[i], started)'
    <3>1. attempts[i] >= Interval \/ attempts[i] >= Since(started)
      BY <2>1 DEF AtLeast
    <3>2. attempts[i] \in 0 .. Cap /\ attempts'[i] = Older(attempts[i], 1)
      BY <1>4, <1>6
    <3>3. /\ Since(started) \in Nat /\ ((now' - started) % ClockSize) \in Nat
          /\ (now' - started) % ClockSize <= Since(started) + 1
      BY <1>4, <1>5 DEF Since
    <3>4. \/ Older(attempts[i], 1) >= Interval
          \/ Older(attempts[i], 1) >= (now' - started) % ClockSize
      BY <1>7, <3>1, <3>2, <3>3
    <3> QED BY <1>3, <3>2, <3>4 DEF AtLeast, Since
  <2>2. 1 \in {1, 2} /\ 2 \in {1, 2}
    OBVIOUS
  <2> QED BY <1>1, <1>3, <1>4, <1>6, <1>7, <2>1, <2>2 DEF InWait
<1>13. Elsewhere' /\ AttemptsSpaced'
  BY <1>1, <1>3, <1>4, <1>6, <1>7 DEF Elsewhere, AttemptsSpaced
<1> QED BY <1>1, <1>3, <1>8, <1>9, <1>10, <1>11, <1>12, <1>13
     DEF SessionInv, OpenOnNetwork, RefusedForGood

\* The connection goes, and with it what was counted.
LEMMA StepLost ==
  ASSUME SessionInv, wifi' \in {"up", "down"}, socket' = "closed", session' = FALSE,
         subscribed' = {}, attempts' = <<Cap, Cap, Cap>>,
         UNCHANGED <<pc, client, timers, returned, now, gap, silence, wrapped>>
  PROVE  SessionInv'
<1>1. TypeOK
  BY DEF SessionInv
<1>2. UNCHANGED <<ioStatus, lastPing, lastConnect, registered, timeStart, started>>
  BY DEF client, timers
<1>3. /\ attempts' \in [1 .. 3 -> 0 .. Cap] /\ attempts'[1] = Cap /\ attempts'[2] = Cap
      /\ attempts'[3] = Cap /\ Cap >= Interval /\ Cap <= Cap
  BY ForgottenAges DEF Forgotten
<1>4. TypeOK'
  BY <1>1, <1>2, <1>3 DEF TypeOK
<1>5. SinceLastPing' /\ SilenceBounded'
  BY <1>2 DEF SessionInv, SinceLastPing, SilenceBounded
<1>6. SinceLastAttempt' /\ InWait' /\ Elsewhere' /\ AttemptsSpaced'
  BY <1>3 DEF SinceLastAttempt, InWait, Elsewhere, AttemptsSpaced, AtLeast
<1> QED BY <1>4, <1>5, <1>6 DEF SessionInv, OpenOnNetwork, RefusedForGood

LEMMA StepWifiJoined == ASSUME SessionInv, WifiJoined PROVE SessionInv'
<1>1. /\ wifi' = "up"
      /\ UNCHANGED <<pc, client, timers, returned, now, gap, socket, session, subscribed, ages>>
  BY DEF WifiJoined
<1>2. UNCHANGED <<ioStatus, lastPing, lastConnect, registered, timeStart, started, silence,
                  wrapped, attempts>>
  BY <1>1 DEF client, timers, ages
<1> QED BY <1>1, <1>2 DEF SessionInv, TypeOK, OpenOnNetwork, RefusedForGood, SinceLastPing,
      SilenceBounded, SilenceAt, SinceLastAttempt, InWait, Elsewhere, AttemptsSpaced, AtLeast, Since

LEMMA SessionStep == SessionInv /\ [Next]_vars => SessionInv'
<1> SUFFICES ASSUME SessionInv, [Next]_vars PROVE SessionInv'
  OBVIOUS
<1>1. CASE Setup
  BY <1>1, StepSetup
<1>2. CASE Run
  BY <1>2, StepRunStart, StepRunRestart, StepRunWait, StepRunMqtt, StepRunMqttAgain, StepRunPing,
     StepRunReturn DEF Run
<1>3. CASE Tick
  BY <1>3, StepTick
<1>4. CASE WifiLost
  BY <1>4, StepLost DEF WifiLost
<1>5. CASE WifiJoined
  BY <1>5, StepWifiJoined
<1>6. CASE Drop
  <2>1. wifi' \in {"up", "down"}
    BY <1>6 DEF Drop, SessionInv, TypeOK
  <2> QED BY <1>6, <2>1, StepLost DEF Drop
<1>7. CASE UNCHANGED vars
  <2>1. UNCHANGED <<pc, ioStatus, lastPing, lastConnect, registered, timeStart, started, returned,
                    now, gap, wifi, socket, session, subscribed, silence, wrapped, attempts>>
    BY <1>7 DEF vars, client, timers, network, ages
  <2> QED BY <2>1 DEF SessionInv, TypeOK, OpenOnNetwork, RefusedForGood, SinceLastPing,
        SilenceBounded, SilenceAt, SinceLastAttempt, InWait, Elsewhere, AttemptsSpaced, AtLeast, Since
<1> QED BY <1>1, <1>2, <1>3, <1>4, <1>5, <1>6, <1>7 DEF Next

LEMMA SessionInvariance == Spec => []SessionInv
BY SessionStart, SessionStep, PTL DEF Spec

\* Every variable of the session has its type: an accepted session is one on an
\* open socket and a network that is up, whatever connect() left behind.
THEOREM SessionTypeCorrect == Spec => []TypeOK
<1>1. SessionInv => TypeOK
  BY DEF SessionInv
<1> QED BY <1>1, SessionInvariance, PTL

\* A session is pinged in time while the clock has not come round since the last
\* ping, for every interval, clock and length of a round of loop().
THEOREM SessionIsPinged == Spec => []PingHeld
<1>1. ASSUME SessionInv PROVE PingHeld
  <2> SUFFICES ASSUME session, ~wrapped PROVE silence <= Interval + 3 * MaxGap
    BY DEF PingHeld
  <2>1. silence <= SilenceAt /\ silence \in 0 .. Cap /\ gap \in 0 .. MaxGap
    BY <1>1, Typed DEF SessionInv, SilenceBounded
  <2>2. \A g \in 0 .. MaxGap : /\ g <= Interval + 3 * MaxGap
                               /\ Interval <= Interval + 3 * MaxGap
                               /\ Interval + MaxGap + g <= Interval + 3 * MaxGap
                               /\ Interval + 2 * MaxGap + g <= Interval + 3 * MaxGap
                               /\ Interval + 3 * MaxGap <= Interval + 3 * MaxGap
                               /\ {g, Interval, Interval + MaxGap + g, Interval + 2 * MaxGap + g,
                                   Interval + 3 * MaxGap} \subseteq Int
    BY Times, SMT
  <2>3. SilenceAt <= Interval + 3 * MaxGap /\ SilenceAt \in Int
    BY <2>1, <2>2, Zenon DEF SilenceAt
  <2>4. \A a \in 0 .. Cap, b \in Int : a <= b /\ b <= Interval + 3 * MaxGap => a <= Interval + 3 * MaxGap
    BY Times, SMT
  <2> QED BY <2>1, <2>3, <2>4, Zenon
<1> QED BY <1>1, SessionInvariance, PTL

\* While attempts to connect fail there are no more than two within the interval,
\* although run() forgets the time of the last one whenever it starts over: of the
\* attempts since the network, or an open connection, was last lost.  Across a loss
\* the code does not space them, because connect() sets the time stamp to zero.
THEOREM AttemptsAreSpaced == Spec => []AttemptsSpaced
<1>1. SessionInv => AttemptsSpaced
  BY DEF SessionInv
<1> QED BY <1>1, SessionInvariance, PTL
=============================================================================
