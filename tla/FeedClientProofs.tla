-------------------------- MODULE FeedClientProofs --------------------------
(***************************************************************************)
(* Theorems about FeedClient.  The inductive invariant has two arguments.  *)
(*                                                                         *)
(* Messages: those in the stream are newer than the one in their           *)
(* subscription and in order (Streams), and what was given is not newer    *)
(* than that one (Mails), whence newer and newer ones are given.           *)
(*                                                                         *)
(* Identifiers: from the oldest publish under way on, the identifiers      *)
(* under way follow each other up to the counter (Chain).  An identifier   *)
(* is therefore not older than the packets under way are many              *)
(* (ChainBounds), and these are fewer than the identifiers, so that none   *)
(* comes round (ChainAsked); the acknowledgement with the identifier before*)
(* the counter's is the one that publish() waits for (Awaited).  While     *)
(* connect() subscribes, its retries may use any number of identifiers     *)
(* since no publish is under way (QuietBefore).                            *)
(***************************************************************************)
EXTENDS FeedClient, SequenceTheorems, WellFoundedInduction, TLAPS

-----------------------------------------------------------------------------
(* Numbers and packets *)

Ids == 0 .. IdSize - 1

LEMMA Sizes ==
  /\ NoFeed \notin Feeds
  /\ QosOf \in [Feeds -> {0, 1}] /\ MaxSent \in [Feeds -> Nat]
  /\ MaxSlots \in Nat /\ MaxSlots >= 1 /\ MaxTries \in Nat /\ MaxTries >= 1
  /\ MaxCalls \in Nat /\ MaxConnects \in Nat /\ MaxWire \in Nat
  /\ IdSize \in Nat /\ MaxWire + 1 < IdSize
BY FeedAssumption DEF FeedAssumption, NoFeed

\* The counter goes round.
LEMMA AfterIs ==
  ASSUME NEW id \in Ids
  PROVE  After(id) = (IF id = IdSize - 1 THEN 0 ELSE id + 1) /\ After(id) \in Ids
<1>1. \A m \in Nat : m > 0 => m % m = 0 /\ \A a \in 0 .. m - 1 : a % m = a
  BY SMT
<1> QED BY <1>1, Sizes DEF After, Ids

\* The least of a set of slots.
LEMMA MinIn ==
  ASSUME NEW S, S \subseteq Nat, S # {}
  PROVE  Min(S) \in S
<1>1. PICK x \in S : \A y \in S : ~ (<<y, x>> \in OpToRel(<, Nat))
  BY NatLessThanWellFounded, WFMin
<1>2. ASSUME NEW y \in S PROVE x <= y
  <2>1. x \in Nat /\ y \in Nat
    OBVIOUS
  <2>2. ~ (y < x)
    BY <1>1, <2>1 DEF OpToRel
  <2> QED BY <2>1, <2>2, SMT
<1> QED BY <1>2 DEF Min

LEMMA PacketFields ==
  ASSUME NEW type, NEW f, NEW n, NEW id
  PROVE  /\ Packet(type, f, n, id).type = type /\ Packet(type, f, n, id).feed = f
         /\ Packet(type, f, n, id).n = n /\ Packet(type, f, n, id).id = id
         /\ Control(type, id) = Packet(type, NoFeed, 0, id)
BY DEF Packet, Control

LEMMA PacketType ==
  ASSUME NEW type \in Types, NEW f \in Feeds \cup {NoFeed}, NEW n \in Nat, NEW id \in 0 .. IdSize
  PROVE  Packet(type, f, n, id) \in Packets
BY DEF Packet, Packets

-----------------------------------------------------------------------------
(* The parts of the invariant *)

\* The client's packets name feeds and messages there are.
Outgoing == {"connect", "subscribe", "unsubscribe", "pingreq", "publication", "puback"}
Sound(p, n) ==
  /\ p.type \in Outgoing
  /\ p.type = "subscribe" => p.feed \in Feeds
  /\ p.type = "publication" => p.n \in 1 .. n
Requests == \A i \in 1 .. Len(toBroker) : Sound(toBroker[i], calls)

\* No call that waits is made in a callback, whose data is the subscription's.
Phases ==
  /\ back = "idle"
  /\ pc = "suback" => slots[index] \in Feeds
  /\ IF pc = "callback" THEN feed \in Feeds /\ last[feed] = view ELSE view = 0

\* The messages in the stream are newer than those read, and in order.
Publishes(i) == toClient[i].type = "publish"
Streams ==
  /\ \A i \in 1 .. Len(toClient) : Publishes(i) =>
       /\ toClient[i].feed \in Feeds
       /\ last[toClient[i].feed] < toClient[i].n /\ toClient[i].n <= sent[toClient[i].feed]
  /\ \A i, j \in 1 .. Len(toClient) :
       i < j /\ Publishes(i) /\ Publishes(j) /\ toClient[i].feed = toClient[j].feed =>
         toClient[i].n < toClient[j].n

\* The message in a subscription is the newest given unless it is still to be.
Mailed(f) ==
  /\ last[f] <= sent[f]
  /\ f \in new => last[f] >= 1
  /\ \A i \in 1 .. Len(given[f]) :
       given[f][i] <= last[f] /\ (f \in new => given[f][i] < last[f])
  /\ f \in new \/ IF given[f] = <<>> THEN last[f] = 0 ELSE last[f] = given[f][Len(given[f])]
Mails == \A f \in Feeds : Mailed(f)

\* What a call sends reaches the wire of an open socket.
LEMMA SendCases ==
  ASSUME TypeOK, NEW p \in Packets, Send(p)
  PROVE  /\ toBroker' \in Seq(Packets)
         /\ \/ socket = "open" /\ toBroker' = Append(toBroker, p)
            \/ socket = "closed" /\ toBroker' = toBroker
BY DEF TypeOK, Send

\* A packet that is passed over, or taken for a message.
LEMMA HeadFacts ==
  ASSUME TypeOK, Take
  PROVE  /\ Head(toClient) \in Packets /\ Head(toClient) = toClient[1]
         /\ 1 \in 1 .. Len(toClient)
         /\ toClient' \in Seq(Packets) /\ Len(toClient') = Len(toClient) - 1
         /\ \A i \in 1 .. Len(toClient') : toClient'[i] = toClient[i + 1]
BY HeadTailProperties DEF TypeOK, Take

LEMMA HandleCases ==
  ASSUME TypeOK, Streams, Take, Matches(Head(toClient)), Handle(Head(toClient))
  PROVE  LET p == Head(toClient)
         IN  /\ p.type = "publish" /\ p.feed \in Feeds /\ p.n \in Nat
             /\ last' = [last EXCEPT ![p.feed] = p.n] /\ last' \in [Feeds -> Nat]
             /\ toBroker' \in Seq(Packets)
             /\ \/ socket = "open" /\ toBroker' = Append(toBroker, Control("puback", p.id))
                \/ toBroker' = toBroker
<1> DEFINE p == Head(toClient)
<1>1. p \in Packets /\ p.type = "publish"
  BY HeadFacts DEF Matches
<1>2. p.feed \in Feeds
  BY <1>1, HeadFacts DEF Streams, Publishes
<1>3. p.n \in Nat /\ p.id \in 0 .. IdSize
  BY <1>1 DEF Packets
<1>4. Control("puback", p.id) \in Packets
  BY <1>3, PacketFields, PacketType DEF Types
<1>5. last' = [last EXCEPT ![p.feed] = p.n] /\ last' \in [Feeds -> Nat]
  BY <1>2, <1>3 DEF Handle, TypeOK
<1>6. Send(Control("puback", p.id)) \/ toBroker' = toBroker
  BY DEF Handle
<1> QED BY <1>1, <1>2, <1>3, <1>4, <1>5, <1>6, SendCases DEF TypeOK

LEMMA PassOverCases ==
  ASSUME TypeOK, Streams, Take, PassOver(Head(toClient))
  PROVE  LET p == Head(toClient)
         IN  \/ UNCHANGED <<last, new, toBroker>>
             \/ /\ p.type = "publish" /\ p.feed \in Feeds /\ p.n \in Nat
                /\ last' = [last EXCEPT ![p.feed] = p.n] /\ last' \in [Feeds -> Nat]
                /\ new' = new \cup {p.feed}
                /\ toBroker' \in Seq(Packets)
                /\ \/ socket = "open" /\ toBroker' = Append(toBroker, Control("puback", p.id))
                   \/ toBroker' = toBroker
BY HandleCases DEF PassOver

\* The feed in the slot to be subscribed is a feed.
LEMMA SendSubscribeFacts ==
  ASSUME TypeOK, NEW i \in 1 .. MaxSlots, slots[i] \in Feeds, SendSubscribe(i)
  PROVE  LET p == Packet("subscribe", slots[i], 0, counter)
         IN  /\ p \in Packets /\ p.type = "subscribe" /\ p.feed \in Feeds
             /\ toBroker' \in Seq(Packets)
             /\ \/ socket = "open" /\ toBroker' = Append(toBroker, p)
                \/ socket = "closed" /\ toBroker' = toBroker
             /\ counter' = After(counter) /\ counter' \in 0 .. IdSize - 1
<1> DEFINE p == Packet("subscribe", slots[i], 0, counter)
<1>1. counter \in Ids /\ counter \in 0 .. IdSize
  BY Sizes DEF TypeOK, Ids
<1>2. p \in Packets /\ p.type = "subscribe" /\ p.feed \in Feeds
  BY <1>1, PacketFields, PacketType DEF Types
<1>3. Send(p) /\ counter' = After(counter)
  BY DEF SendSubscribe
<1> QED BY <1>1, <1>2, <1>3, SendCases, AfterIs DEF Ids

LEMMA SubscribeFromCases ==
  ASSUME TypeOK, NEW i \in Nat, i >= 1, SubscribeFrom(i), Phases
  PROVE  \/ Return(TRUE) /\ UNCHANGED <<counter, toBroker>>
         \/ \E k \in 1 .. MaxSlots :
              slots[k] \in Feeds /\ SendSubscribe(k) /\ ReadFor("suback", k, 1) /\ UNCHANGED back
<1> DEFINE rest == {j \in i .. MaxSlots : slots[j] # NoFeed}
<1>1. CASE rest = {}
  BY <1>1 DEF SubscribeFrom
<1>2. CASE rest # {}
  <2>1. rest \subseteq Nat
    BY Sizes, SMT
  <2>2. Min(rest) \in rest
    BY <1>2, <2>1, MinIn
  <2>3. Min(rest) \in 1 .. MaxSlots /\ slots[Min(rest)] \in Feeds
    BY <2>2, Sizes DEF TypeOK
  <2>4. SendSubscribe(Min(rest)) /\ ReadFor("suback", Min(rest), 1) /\ UNCHANGED back
    BY <1>2 DEF SubscribeFrom
  <2> QED BY <2>3, <2>4
<1> QED BY <1>1, <1>2

-----------------------------------------------------------------------------
(* Types *)

LEMMA TypeInit == Init => TypeOK
BY Sizes, EmptySeq, SMT DEF Init, TypeOK

\* What a return, and the next packet to be read for, leave of a call.
CallTypes(where) ==
  /\ pc' = where /\ index' \in 1 .. MaxSlots /\ tries' \in 1 .. MaxTries
  /\ result' \in BOOLEAN

LEMMA ReturnTypes ==
  ASSUME NEW r \in BOOLEAN, NEW where, ReturnTo(where, r)
  PROVE  CallTypes(where) /\ back' = "idle"
BY Sizes, SMT DEF ReturnTo, CallTypes

LEMMA ReturnsTypes ==
  ASSUME Phases, NEW r \in BOOLEAN, Return(r)
  PROVE  CallTypes("idle") /\ back' = "idle"
BY ReturnTypes DEF Return, Phases

LEMMA ReadForTypes ==
  ASSUME NEW what, NEW i \in 1 .. MaxSlots, NEW try \in 1 .. MaxTries, ReadFor(what, i, try)
  PROVE  CallTypes(what)
BY DEF ReadFor, CallTypes

LEMMA Ones == 1 \in 1 .. MaxSlots /\ 1 \in 1 .. MaxTries
BY Sizes, SMT

LEMMA SubscribeFromTypes ==
  ASSUME TypeOK, Phases, NEW i \in Nat, i >= 1, SubscribeFrom(i)
  PROVE  /\ toBroker' \in Seq(Packets) /\ (socket = "closed" => toBroker' = <<>>)
         /\ counter' \in 0 .. IdSize - 1 /\ back' = "idle"
         /\ CallTypes("idle") \/ CallTypes("suback")
<1>1. CASE Return(TRUE) /\ UNCHANGED <<counter, toBroker>>
  BY <1>1, ReturnsTypes DEF TypeOK
<1>2. ASSUME NEW k \in 1 .. MaxSlots, slots[k] \in Feeds, SendSubscribe(k),
             ReadFor("suback", k, 1), UNCHANGED back
      PROVE  /\ toBroker' \in Seq(Packets) /\ (socket = "closed" => toBroker' = <<>>)
             /\ counter' \in 0 .. IdSize - 1 /\ back' = "idle"
             /\ CallTypes("suback")
  BY <1>2, Ones, ReadForTypes, SendSubscribeFacts DEF TypeOK, Phases
<1> QED BY <1>1, <1>2, SubscribeFromCases

\* The broker answers a packet with one or none.
LEMMA ReplyCases ==
  ASSUME TypeOK, Requests, toBroker # <<>>
  PROVE  LET p == Head(toBroker)
         IN  /\ p \in Packets /\ p = toBroker[1] /\ 1 \in 1 .. Len(toBroker)
             /\ p.type \in Outgoing
             /\ p.type = "subscribe" => p.feed \in Feeds
             /\ p.type = "publication" => p.n \in 1 .. calls
             /\ Tail(toBroker) \in Seq(Packets) /\ Len(Tail(toBroker)) = Len(toBroker) - 1
             /\ \A i \in 1 .. Len(Tail(toBroker)) : Tail(toBroker)[i] = toBroker[i + 1]
             /\ \/ Reply(p) = <<>>
                \/ \E q \in Packets :
                     /\ Reply(p) = <<q>> /\ q.type # "publish"
                     /\ q.type = "puback" =>
                          p.type = "publication" /\ p.id < IdSize /\ q.id = p.id
<1> DEFINE p == Head(toBroker)
<1>1. /\ p \in Packets /\ p = toBroker[1] /\ 1 \in 1 .. Len(toBroker)
      /\ Tail(toBroker) \in Seq(Packets) /\ Len(Tail(toBroker)) = Len(toBroker) - 1
      /\ \A i \in 1 .. Len(Tail(toBroker)) : Tail(toBroker)[i] = toBroker[i + 1]
  BY HeadTailProperties DEF TypeOK
<1>2. /\ p.type \in Outgoing
      /\ p.type = "subscribe" => p.feed \in Feeds
      /\ p.type = "publication" => p.n \in 1 .. calls
  BY <1>1 DEF Requests, Sound
<1>3. p.id \in 0 .. IdSize /\ 0 \in 0 .. IdSize
  BY <1>1, Sizes DEF Packets
<1>4. \A t \in Types : \A id \in 0 .. IdSize :
        Control(t, id) \in Packets /\ Control(t, id).type = t /\ Control(t, id).id = id
  BY PacketFields, PacketType
<1> HIDE DEF p
<1>5. \/ Reply(p) = <<>>
      \/ \E q \in Packets :
           /\ Reply(p) = <<q>> /\ q.type # "publish"
           /\ q.type = "puback" => p.type = "publication" /\ p.id < IdSize /\ q.id = p.id
  <2>1. CASE p.type = "connect"
    <3>1. Reply(p) = <<Control("connack", 0)>>
      BY <2>1 DEF Reply
    <3> QED BY <3>1, <1>3, <1>4 DEF Types
  <2>2. CASE p.type = "subscribe"
    <3>1. Reply(p) = <<Control("suback", p.id)>>
      BY <2>2 DEF Reply
    <3> QED BY <3>1, <1>3, <1>4 DEF Types
  <2>3. CASE p.type = "unsubscribe"
    <3>1. Reply(p) = <<Control("unsuback", p.id)>>
      BY <2>3 DEF Reply
    <3> QED BY <3>1, <1>3, <1>4 DEF Types
  <2>4. CASE p.type = "pingreq"
    <3>1. Reply(p) = <<Control("pingresp", 0)>>
      BY <2>4 DEF Reply
    <3> QED BY <3>1, <1>3, <1>4 DEF Types
  <2>5. CASE p.type = "publication"
    <3>1. Reply(p) = IF p.id < IdSize THEN <<Control("puback", p.id)>> ELSE <<>>
      BY <2>5 DEF Reply
    <3> QED BY <2>5, <3>1, <1>3, <1>4 DEF Types
  <2>6. CASE p.type = "puback"
    <3>1. Reply(p) = <<>>
      BY <2>6 DEF Reply
    <3> QED BY <3>1
  <2> QED BY <1>2, <2>1, <2>2, <2>3, <2>4, <2>5, <2>6 DEF Outgoing
<1> QED BY <1>1, <1>2, <1>5 DEF p

LEMMA TypeStep == TypeOK /\ Phases /\ Streams /\ Requests /\ [Next]_vars => TypeOK'
<1> SUFFICES ASSUME TypeOK, Phases, Streams, Requests, [Next]_vars PROVE TypeOK'
  OBVIOUS
<1> USE Sizes
<1>1. CASE Connect
  <2>1. Control("connect", 0) \in Packets
    BY PacketFields, PacketType DEF Types
  <2>2. toBroker' \in Seq(Packets) /\ toClient' \in Seq(Packets)
    BY <1>1, <2>1 DEF Connect
  <2>3. CallTypes("connack")
    BY <1>1, Ones, ReadForTypes DEF Connect
  <2>4. connects' \in 0 .. MaxConnects
    BY <1>1, SMT DEF Connect, TypeOK
  <2> QED BY <1>1, <2>2, <2>3, <2>4 DEF Connect, CallTypes, TypeOK, store, inside
<1>2. CASE ReadConnack
  <2>1. toClient' \in Seq(Packets) /\ (socket = "closed" => toClient' = <<>>)
    BY <1>2, HeadFacts DEF ReadConnack, TypeOK, Take, TakeNone
  <2>2. CASE SubscribeFrom(1)
    BY <1>2, <2>1, <2>2, SubscribeFromTypes, SMT
       DEF ReadConnack, CallTypes, TypeOK, store, inside, history
  <2>3. CASE Return(FALSE) /\ UNCHANGED <<counter, toBroker>>
    BY <1>2, <2>1, <2>3, ReturnsTypes DEF ReadConnack, CallTypes, TypeOK, store, inside, history
  <2> QED BY <1>2, <2>2, <2>3 DEF ReadConnack
<1>3. CASE ReadSuback
  <2>1. Take
    BY <1>3 DEF ReadSuback
  <2>2. toClient' \in Seq(Packets) /\ (socket = "closed" => toClient' = <<>>)
    BY <2>1, HeadFacts DEF TypeOK, Take
  <2>3. CASE SubscribeFrom(index + 1) /\ UNCHANGED <<last, new>>
    <3>1. index + 1 \in Nat /\ index + 1 >= 1
      BY SMT DEF TypeOK
    <3> QED BY <1>3, <2>2, <2>3, <3>1, SubscribeFromTypes
            DEF ReadSuback, CallTypes, TypeOK, inside, history
  <2>4. CASE PassOver(Head(toClient)) /\ ReadOn /\ UNCHANGED counter
    <3>1. /\ last' \in [Feeds -> Nat] /\ new' \subseteq Feeds
          /\ toBroker' \in Seq(Packets) /\ (socket = "closed" => toBroker' = <<>>)
      BY <2>1, <2>4, PassOverCases DEF TypeOK
    <3> QED BY <1>3, <2>2, <2>4, <3>1 DEF ReadSuback, ReadOn, call, TypeOK, inside, history
  <2> QED BY <1>3, <2>3, <2>4 DEF ReadSuback
<1>4. CASE NoSuback
  <2>1. CASE SendSubscribe(index) /\ ReadFor("suback", index, tries + 1) /\ UNCHANGED back /\ tries < MaxTries
    <3>1. tries + 1 \in 1 .. MaxTries /\ index \in 1 .. MaxSlots
      BY <2>1, SMT DEF TypeOK
    <3>2. CallTypes("suback")
      BY <2>1, <3>1, ReadForTypes
    <3>3. slots[index] \in Feeds
      BY <1>4 DEF NoSuback, Phases
    <3>4. /\ toBroker' \in Seq(Packets) /\ (socket = "closed" => toBroker' = <<>>)
          /\ counter' \in 0 .. IdSize - 1
      BY <2>1, <3>1, <3>3, SendSubscribeFacts DEF TypeOK
    <3> QED BY <1>4, <2>1, <3>2, <3>4 DEF NoSuback, TakeNone, CallTypes, TypeOK, store, inside, history
  <2>2. CASE Return(FALSE) /\ UNCHANGED <<toBroker, counter>>
    BY <1>4, <2>2, ReturnsTypes DEF NoSuback, TakeNone, CallTypes, TypeOK, store, inside, history
  <2> QED BY <1>4, <2>1, <2>2 DEF NoSuback
<1>5. ASSUME NEW qos \in {0, 1}, Publish(qos), pc = "idle" \/ (pc = "callback" /\ qos = 0)
      PROVE  TypeOK'
  <2> DEFINE p == Packet("publication", NoFeed, calls', IF qos = 1 THEN counter ELSE IdSize)
  <2>1. calls' \in 0 .. MaxCalls /\ calls' \in Nat /\ calls <= calls' /\ calls \in Nat
    BY <1>5, SMT DEF Publish, TypeOK
  <2>2. (IF qos = 1 THEN counter ELSE IdSize) \in 0 .. IdSize
    BY SMT DEF TypeOK
  <2>3. p \in Packets
    BY <2>1, <2>2, PacketType DEF Types
  <2>4. Send(p)
    BY <1>5 DEF Publish
  <2>5. toBroker' \in Seq(Packets) /\ (socket = "closed" => toBroker' = <<>>)
    BY <2>3, <2>4, SendCases DEF TypeOK
  <2>6. counter' \in 0 .. IdSize - 1
    BY <1>5, AfterIs DEF Publish, TypeOK, Ids
  <2>7. taken' \subseteq 1 .. calls'
    BY <1>5, <2>1, SMT DEF Publish, TypeOK
  <2>8. CASE qos = 1 /\ socket = "open"
    <3>1. pc = "idle" /\ ReadFor("puback", 1, 1) /\ back' = pc
      BY <1>5, <2>8 DEF Publish
    <3>2. CallTypes("puback") /\ back' = "idle"
      BY <3>1, Ones, ReadForTypes
    <3> QED BY <1>5, <2>1, <2>5, <2>6, <2>7, <3>2 DEF Publish, CallTypes, TypeOK, store, inside
  <2>9. CASE ~(qos = 1 /\ socket = "open")
    <3>1. ReturnTo(pc, socket = "open")
      BY <1>5, <2>9 DEF Publish
    <3>2. CallTypes(pc) /\ back' = "idle"
      BY <3>1, ReturnTypes
    <3> QED BY <1>5, <2>1, <2>5, <2>6, <2>7, <3>2 DEF Publish, CallTypes, TypeOK, store, inside
  <2> QED BY <2>8, <2>9
<1>6. ASSUME NEW type \in {"puback", "pingresp"}, NEW r \in BOOLEAN, WaitFor(type, r)
      PROVE  TypeOK'
  <2>1. toClient' \in Seq(Packets) /\ (socket = "closed" => toClient' = <<>>)
    BY <1>6, HeadFacts DEF WaitFor, TypeOK, Take, TakeNone
  <2>2. CASE \E b \in BOOLEAN : Return(b) /\ UNCHANGED <<last, new, toBroker>>
    BY <1>6, <2>1, <2>2, ReturnsTypes DEF WaitFor, CallTypes, TypeOK, inside, history
  <2>3. CASE Take /\ PassOver(Head(toClient)) /\ ReadOn
    <3>1. /\ last' \in [Feeds -> Nat] /\ new' \subseteq Feeds
          /\ toBroker' \in Seq(Packets) /\ (socket = "closed" => toBroker' = <<>>)
      BY <2>3, PassOverCases DEF TypeOK
    <3> QED BY <1>6, <2>1, <2>3, <3>1 DEF WaitFor, ReadOn, call, TypeOK, inside, history
  <2> QED BY <1>6, <2>2, <2>3 DEF WaitFor
<1>7. CASE Ping
  <2>1. Control("pingreq", 0) \in Packets
    BY PacketFields, PacketType DEF Types
  <2>2. toBroker' \in Seq(Packets) /\ (socket = "closed" => toBroker' = <<>>)
    BY <1>7, <2>1, SendCases DEF Ping, TypeOK
  <2>3. CallTypes("pingresp") \/ CallTypes("idle")
    BY <1>7, Ones, ReadForTypes, ReturnTypes DEF Ping
  <2> QED BY <1>7, <2>2, <2>3 DEF Ping, CallTypes, TypeOK, store, inside, history
<1>8. ASSUME NEW f \in Feeds, Subscribe(f) PROVE TypeOK'
  <2>1. CallTypes("idle") /\ back' = "idle"
    BY <1>8, ReturnTypes DEF Subscribe
  <2>2. CASE slots' = slots
    BY <1>8, <2>1, <2>2 DEF Subscribe, CallTypes, TypeOK, inside, wires, history
  <2>3. CASE SlotOf(NoFeed) # {} /\ slots' = [slots EXCEPT ![Min(SlotOf(NoFeed))] = f]
    <3>1. SlotOf(NoFeed) \subseteq Nat /\ SlotOf(NoFeed) \subseteq 1 .. MaxSlots
      BY DEF SlotOf, TypeOK
    <3>2. Min(SlotOf(NoFeed)) \in 1 .. MaxSlots
      BY <2>3, <3>1, MinIn
    <3>3. \A i \in 1 .. MaxSlots : slots[i] # f
      BY <1>8 DEF Subscribe, SlotOf, TypeOK
    <3>4. /\ slots' \in [1 .. MaxSlots -> Feeds \cup {NoFeed}]
          /\ \A i, j \in 1 .. MaxSlots : slots'[i] = slots'[j] /\ slots'[i] # NoFeed => i = j
      BY <2>3, <3>2, <3>3 DEF TypeOK
    <3> QED BY <1>8, <2>1, <3>4 DEF Subscribe, CallTypes, TypeOK, inside, wires, history
  <2> QED BY <1>8, <2>2, <2>3 DEF Subscribe
<1>9. ASSUME NEW f \in Feeds, Unsubscribe(f) PROVE TypeOK'
  <2> DEFINE i == Min(SlotOf(f))
  <2>1. i \in 1 .. MaxSlots
    <3>1. SlotOf(f) \subseteq Nat /\ SlotOf(f) \subseteq 1 .. MaxSlots /\ SlotOf(f) # {}
      BY <1>9 DEF SlotOf, TypeOK, Unsubscribe
    <3> QED BY <3>1, MinIn
  <2>2. Packet("unsubscribe", f, 0, counter) \in Packets
    <3>1. counter \in 0 .. IdSize
      BY SMT DEF TypeOK
    <3> QED BY <3>1, PacketType DEF Types
  <2>3. toBroker' \in Seq(Packets) /\ (socket = "closed" => toBroker' = <<>>)
    BY <1>9, <2>2, SendCases DEF Unsubscribe, TypeOK
  <2>4. counter' \in 0 .. IdSize - 1
    BY <1>9, AfterIs DEF Unsubscribe, TypeOK, Ids
  <2>5. CASE ReadFor("unsuback", i, 1) /\ UNCHANGED <<slots, back>>
    <3>1. CallTypes("unsuback")
      BY <2>1, <2>5, Ones, ReadForTypes
    <3> QED BY <1>9, <2>3, <2>4, <2>5, <3>1 DEF Unsubscribe, CallTypes, TypeOK, inside, history
  <2>6. CASE ReturnTo("idle", socket = "open") /\ slots' = (IF socket = "open" THEN [slots EXCEPT ![i] = NoFeed] ELSE slots)
    <3>1. CallTypes("idle") /\ back' = "idle"
      BY <2>6, ReturnTypes
    <3>2. /\ slots' \in [1 .. MaxSlots -> Feeds \cup {NoFeed}]
          /\ \A k, j \in 1 .. MaxSlots : slots'[k] = slots'[j] /\ slots'[k] # NoFeed => k = j
      BY <2>1, <2>6 DEF TypeOK
    <3> QED BY <1>9, <2>3, <2>4, <3>1, <3>2 DEF Unsubscribe, CallTypes, TypeOK, inside, history
  <2> QED BY <1>9, <2>5, <2>6 DEF Unsubscribe
<1>10. CASE ReadUnsuback
  <2>1. toClient' \in Seq(Packets) /\ (socket = "closed" => toClient' = <<>>)
    BY <1>10, HeadFacts DEF ReadUnsuback, TypeOK, Take, TakeNone
  <2>2. PICK r \in BOOLEAN : Return(r)
    BY <1>10 DEF ReadUnsuback, Confirms
  <2>3. CallTypes("idle") /\ back' = "idle"
    BY <2>2, ReturnsTypes
  <2>4. /\ slots' \in [1 .. MaxSlots -> Feeds \cup {NoFeed}]
        /\ \A k, j \in 1 .. MaxSlots : slots'[k] = slots'[j] /\ slots'[k] # NoFeed => k = j
    BY <1>10 DEF ReadUnsuback, TypeOK
  <2> QED BY <1>10, <2>1, <2>3, <2>4 DEF ReadUnsuback, CallTypes, TypeOK, inside, history
<1>11. CASE ProcessPackets \/ ProcessDone \/ CallbackReturn
  <2>1. CallTypes("process") \/ CallTypes("idle")
    BY <1>11, Ones, ReadForTypes DEF ProcessPackets, ProcessDone, CallbackReturn
  <2>2. feed' \in Feeds \cup {NoFeed} /\ view' \in Nat
    BY <1>11 DEF ProcessPackets, ProcessDone, CallbackReturn, TypeOK, inside
  <2> QED BY <1>11, <2>1, <2>2
          DEF ProcessPackets, ProcessDone, CallbackReturn, CallTypes, TypeOK, store, wires, history
<1>12. CASE ReadUnread
  <2> DEFINE f == slots[Min(Unread)]
  <2>1. Min(Unread) \in Unread
    <3>1. Unread \subseteq Nat /\ Unread # {}
      BY <1>12 DEF ReadUnread, Unread, TypeOK
    <3> QED BY <3>1, MinIn
  <2>2. f \in new /\ f \in Feeds /\ last[f] \in Nat
    BY <2>1 DEF Unread, TypeOK
  <2>3. new' \subseteq Feeds /\ Give(f, last[f])
    BY <1>12 DEF ReadUnread, Marked, TypeOK
  <2> HIDE DEF f
  <2>4. given' \in [Feeds -> Seq(Nat)] /\ pc' = "callback" /\ feed' \in Feeds /\ view' \in Nat
    BY <2>2, <2>3 DEF Give, TypeOK
  <2> QED BY <1>12, <2>3, <2>4 DEF ReadUnread, TypeOK, wires
<1>13. CASE ReadPacket
  <2>1. Take
    BY <1>13 DEF ReadPacket
  <2>2. toClient' \in Seq(Packets) /\ (socket = "closed" => toClient' = <<>>)
    BY <2>1, HeadFacts DEF TypeOK, Take
  <2> DEFINE p == Head(toClient)
  <2>3. CASE Matches(p) /\ Handle(p) /\ Give(p.feed, p.n)
    <3>1. /\ p.feed \in Feeds /\ p.n \in Nat /\ last' \in [Feeds -> Nat]
          /\ toBroker' \in Seq(Packets) /\ (socket = "closed" => toBroker' = <<>>)
      BY <2>1, <2>3, HandleCases DEF TypeOK
    <3> HIDE DEF p
    <3>2. given' \in [Feeds -> Seq(Nat)] /\ pc' = "callback" /\ feed' \in Feeds /\ view' \in Nat
      BY <2>3, <3>1 DEF Give, TypeOK
    <3> QED BY <1>13, <2>2, <3>1, <3>2 DEF ReadPacket, TypeOK
  <2>4. CASE UNCHANGED <<last, toBroker, pc, feed, view, given>>
    BY <1>13, <2>2, <2>4 DEF ReadPacket, TypeOK
  <2> QED BY <1>13, <2>3, <2>4 DEF ReadPacket
<1>14. CASE Disconnect \/ Drop
  <2>1. /\ socket' = "closed" /\ toClient' = <<>> /\ toBroker' = <<>> /\ subscribed' = {}
        /\ UNCHANGED <<store, counter, call, inside, history>>
    BY <1>14 DEF Disconnect, Drop
  <2>2. <<>> \in Seq(Packets)
    BY EmptySeq
  <2> QED BY <2>1, <2>2 DEF TypeOK, store, call, inside, history
<1>15. CASE BrokerTake
  <2>1. toBroker # <<>> /\ socket = "open"
    BY <1>15 DEF BrokerTake, TypeOK
  <2>2. toClient' \in Seq(Packets)
    <3>1. toClient' = toClient \o Reply(Head(toBroker))
      BY <1>15 DEF BrokerTake
    <3>2. Reply(Head(toBroker)) \in Seq(Packets)
      <4>1. Reply(Head(toBroker)) = <<>> \/ \E q \in Packets : Reply(Head(toBroker)) = <<q>>
        BY <2>1, ReplyCases
      <4>2. \A q \in Packets : <<q>> \in Seq(Packets)
        OBVIOUS
      <4> QED BY <4>1, <4>2, EmptySeq
    <3> QED BY <3>1, <3>2, ConcatProperties DEF TypeOK
  <2>3. subscribed' \subseteq Feeds
    BY <1>15, <2>1, ReplyCases DEF BrokerTake, TypeOK
  <2>4. taken' \subseteq 1 .. calls
    BY <1>15, <2>1, ReplyCases DEF BrokerTake, TypeOK
  <2>5. toBroker' \in Seq(Packets)
    BY <1>15, <2>1, ReplyCases DEF BrokerTake
  <2> QED BY <1>15, <2>1, <2>2, <2>3, <2>4, <2>5 DEF BrokerTake, TypeOK, store, call, inside
<1>16. ASSUME NEW f \in Feeds, BrokerSend(f) PROVE TypeOK'
  <2>1. sent' \in [Feeds -> Nat] /\ sent'[f] \in Nat
    BY <1>16 DEF BrokerSend, TypeOK
  <2>2. Packet("publish", f, sent'[f], 0) \in Packets
    BY <2>1, PacketType DEF Types
  <2>3. toClient' \in Seq(Packets) /\ (socket = "closed" => toClient' = <<>>)
    BY <1>16, <2>2 DEF BrokerSend, TypeOK
  <2> QED BY <1>16, <2>1, <2>3 DEF BrokerSend, TypeOK, store, call, inside
<1>17. CASE UNCHANGED vars
  BY <1>17 DEF vars, store, call, inside, wires, history, TypeOK
<1>18. CASE ReadPuback \/ ReadPingresp
  <2>1. (toClient # <<>> /\ Answers(Head(toClient))) \in BOOLEAN
    BY DEF Answers
  <2> QED BY <1>6, <1>18, <2>1 DEF ReadPuback, ReadPingresp
<1>19. CASE CallbackPublishes \/ \E qos \in {0, 1} : Calls("idle") /\ Publish(qos)
  BY <1>5, <1>19 DEF CallbackPublishes, SaveQos, Calls
<1> QED
  BY <1>1, <1>2, <1>3, <1>4, <1>7, <1>8, <1>9, <1>10, <1>11, <1>12, <1>13, <1>14, <1>15,
     <1>16, <1>17, <1>18, <1>19 DEF Next, Client

-----------------------------------------------------------------------------
(* Requests *)

LEMMA RequestsGrow ==
  ASSUME TypeOK, Requests, NEW p \in Packets, calls' \in Nat, calls <= calls',
         Sound(p, calls'), toBroker' = Append(toBroker, p) \/ toBroker' = toBroker
  PROVE  Requests'
<1>1. calls \in Nat /\ toBroker \in Seq(Packets)
  BY SMT DEF TypeOK
<1>2. \A q \in Packets : Sound(q, calls) => Sound(q, calls')
  <2>1. 1 .. calls \subseteq 1 .. calls'
    BY <1>1, SMT
  <2> QED BY <2>1 DEF Sound
<1>3. \A i \in 1 .. Len(toBroker) : toBroker[i] \in Packets /\ Sound(toBroker[i], calls')
  BY <1>1, <1>2, ElementOfSeq DEF Requests
<1>4. \A i \in 1 .. Len(toBroker') :
        toBroker'[i] = p \/ (i \in 1 .. Len(toBroker) /\ toBroker'[i] = toBroker[i])
  BY <1>1, SMT
<1> QED BY <1>3, <1>4 DEF Requests

LEMMA RequestsSame ==
  ASSUME TypeOK, Requests, calls' = calls,
         \/ toBroker' = toBroker \/ toBroker' = <<>>
         \/ toBroker # <<>> /\ toBroker' = Tail(toBroker)
  PROVE  Requests'
<1>1. CASE toBroker' = <<>>
  BY <1>1 DEF Requests
<1>2. CASE toBroker # <<>> /\ toBroker' = Tail(toBroker)
  <2>1. \A i \in 1 .. Len(toBroker') :
          i + 1 \in 1 .. Len(toBroker) /\ toBroker'[i] = toBroker[i + 1]
    BY <1>2, HeadTailProperties, SMT DEF TypeOK
  <2> QED BY <2>1 DEF Requests
<1> QED BY <1>1, <1>2 DEF Requests

LEMMA Pubacks == \A id \in 0 .. IdSize : Control("puback", id) \in Packets /\ Sound(Control("puback", id), calls)
BY PacketFields, PacketType DEF Types, Sound, Outgoing

LEMMA RequestsStep == TypeOK /\ Phases /\ Streams /\ Requests /\ [Next]_vars => Requests'
<1> SUFFICES ASSUME TypeOK, Phases, Streams, Requests, [Next]_vars PROVE Requests'
  OBVIOUS
<1>0. calls \in Nat /\ calls <= calls
  BY SMT DEF TypeOK
<1>1. CASE Connect
  <2>1. toBroker' = <<Control("connect", 0)>> /\ Sound(Control("connect", 0), calls')
    BY <1>1, PacketFields DEF Connect, Sound, Outgoing
  <2> QED BY <2>1 DEF Requests
<1>2. ASSUME NEW i \in 1 .. MaxSlots, slots[i] \in Feeds, SendSubscribe(i), calls' = calls
      PROVE  Requests'
  <2> DEFINE p == Packet("subscribe", slots[i], 0, counter)
  <2>1. p \in Packets /\ p.type = "subscribe" /\ p.feed \in Feeds
    BY <1>2, SendSubscribeFacts
  <2>2. Sound(p, calls')
    BY <2>1 DEF Sound, Outgoing
  <2>3. toBroker' = Append(toBroker, p) \/ toBroker' = toBroker
    BY <1>2, SendSubscribeFacts
  <2> QED BY <1>0, <1>2, <2>1, <2>2, <2>3, RequestsGrow
<1>3. ASSUME NEW i \in Nat, i >= 1, SubscribeFrom(i), calls' = calls PROVE Requests'
  BY <1>2, <1>3, SubscribeFromCases, RequestsSame
<1>4. ASSUME Take, PassOver(Head(toClient)), calls' = calls PROVE Requests'
  <2>1. Head(toClient).id \in 0 .. IdSize
    BY <1>4, HeadFacts DEF Packets
  <2>2. \/ toBroker' = toBroker
        \/ toBroker' = Append(toBroker, Control("puback", Head(toClient).id))
    BY <1>4, PassOverCases
  <2> QED BY <1>0, <1>4, <2>1, <2>2, Pubacks, RequestsGrow
<1>5. CASE ReadConnack
  <2>1. calls' = calls /\ (SubscribeFrom(1) \/ toBroker' = toBroker)
    BY <1>5 DEF ReadConnack, history
  <2>2. 1 \in Nat /\ 1 >= 1
    BY SMT
  <2> QED BY <1>3, <2>1, <2>2, RequestsSame
<1>6. CASE ReadSuback
  <2>1. index + 1 \in Nat /\ index + 1 >= 1
    BY SMT DEF TypeOK
  <2> QED BY <1>3, <1>4, <1>6, <2>1 DEF ReadSuback, history
<1>7. CASE NoSuback
  <2>1. index \in 1 .. MaxSlots /\ slots[index] \in Feeds
    BY <1>7 DEF NoSuback, Phases, TypeOK
  <2> QED BY <1>2, <1>7, <2>1, RequestsSame DEF NoSuback, history
<1>8. ASSUME NEW qos \in {0, 1}, Publish(qos) PROVE Requests'
  <2> DEFINE p == Packet("publication", NoFeed, calls', IF qos = 1 THEN counter ELSE IdSize)
  <2>1. calls' = calls + 1
    BY <1>8 DEF Publish
  <2>2. calls' \in Nat /\ calls <= calls' /\ calls' \in 1 .. calls'
    BY <1>0, <2>1, SMT
  <2>3. (IF qos = 1 THEN counter ELSE IdSize) \in 0 .. IdSize
    BY Sizes, SMT DEF TypeOK
  <2>4. p \in Packets
    BY <2>2, <2>3, PacketType DEF Types
  <2>5. p.type = "publication" /\ p.n = calls'
    BY PacketFields
  <2>6. Sound(p, calls')
    BY <2>2, <2>5 DEF Sound, Outgoing
  <2>7. toBroker' = Append(toBroker, p) \/ toBroker' = toBroker
    BY <1>8 DEF Publish, Send
  <2> QED BY <2>2, <2>4, <2>6, <2>7, RequestsGrow
<1>9. ASSUME NEW type, NEW r, WaitFor(type, r) PROVE Requests'
  BY <1>4, <1>9, RequestsSame DEF WaitFor, history
<1>10. CASE Ping
  <2>1. Control("pingreq", 0) \in Packets /\ Sound(Control("pingreq", 0), calls')
    BY Sizes, PacketFields, PacketType DEF Types, Sound, Outgoing
  <2> QED BY <1>0, <1>10, <2>1, RequestsGrow DEF Ping, Send, history
<1>11. ASSUME NEW f \in Feeds, Unsubscribe(f) PROVE Requests'
  <2> DEFINE p == Packet("unsubscribe", f, 0, counter)
  <2>1. counter \in 0 .. IdSize
    BY Sizes, SMT DEF TypeOK
  <2>2. p \in Packets /\ Sound(p, calls')
    BY <2>1, PacketFields, PacketType DEF Types, Sound, Outgoing
  <2> QED BY <1>0, <1>11, <2>2, RequestsGrow DEF Unsubscribe, Send, history
<1>12. CASE ReadPacket
  <2>1. Take /\ calls' = calls
    BY <1>12 DEF ReadPacket
  <2>2. Head(toClient).id \in 0 .. IdSize
    BY <2>1, HeadFacts DEF Packets
  <2>3. \/ toBroker' = toBroker
        \/ toBroker' = Append(toBroker, Control("puback", Head(toClient).id))
    BY <1>12, <2>1, HandleCases DEF ReadPacket
  <2> QED BY <1>0, <2>1, <2>2, <2>3, Pubacks, RequestsGrow
<1>13. CASE BrokerTake
  BY <1>13, RequestsSame DEF BrokerTake
<1>14. CASE \/ ReadUnsuback \/ ProcessPackets \/ ReadUnread \/ ProcessDone \/ CallbackReturn
            \/ Disconnect \/ Drop \/ (\E f \in Feeds : Subscribe(f) \/ BrokerSend(f))
            \/ UNCHANGED vars
  <2>1. calls' = calls /\ (toBroker' = toBroker \/ toBroker' = <<>>)
    BY <1>14 DEF ReadUnsuback, ProcessPackets, ReadUnread, ProcessDone, CallbackReturn,
                 Disconnect, Drop, Subscribe, BrokerSend, vars, wires, history
  <2> QED BY <2>1, RequestsSame
<1> QED
  BY <1>1, <1>5, <1>6, <1>7, <1>8, <1>9, <1>10, <1>11, <1>12, <1>13, <1>14
     DEF Next, Client, CallbackPublishes, ReadPuback, ReadPingresp, SaveQos

-----------------------------------------------------------------------------
(* Phases *)

\* The callback's data stays while packets are passed over, since nothing is
\* read in a callback.
LEMMA PhasesStep == TypeOK /\ Phases /\ Streams /\ Requests /\ [Next]_vars => Phases'
<1> SUFFICES ASSUME TypeOK, Phases, Streams, Requests, [Next]_vars PROVE Phases'
  OBVIOUS
<1>1. ASSUME NEW r, Return(r), view' = view, view = 0 PROVE Phases'
  BY <1>1 DEF Return, ReturnTo, Phases
<1>2. ASSUME NEW i \in Nat, i >= 1, SubscribeFrom(i), slots' = slots, view' = view, view = 0
      PROVE  Phases'
  <2>1. ASSUME NEW k \in 1 .. MaxSlots, slots[k] \in Feeds, ReadFor("suback", k, 1), UNCHANGED back
        PROVE  Phases'
    BY <1>2, <2>1 DEF ReadFor, Phases
  <2> QED BY <1>1, <1>2, <2>1, SubscribeFromCases
<1>3. CASE Connect
  BY <1>3 DEF Connect, ReadFor, Phases, inside
<1>4. CASE ReadConnack
  <2>1. view' = view /\ view = 0 /\ slots' = slots
    BY <1>4 DEF ReadConnack, Phases, inside, store
  <2>2. 1 \in Nat /\ 1 >= 1
    BY SMT
  <2> QED BY <1>1, <1>2, <1>4, <2>1, <2>2 DEF ReadConnack
<1>5. CASE ReadSuback
  <2>1. view' = view /\ view = 0 /\ slots' = slots
    BY <1>5 DEF ReadSuback, Phases, inside
  <2>2. index + 1 \in Nat /\ index + 1 >= 1
    BY SMT DEF TypeOK
  <2>3. CASE ReadOn
    BY <1>5, <2>1, <2>3 DEF ReadOn, call, Phases, ReadSuback
  <2> QED BY <1>2, <1>5, <2>1, <2>2, <2>3 DEF ReadSuback
<1>6. CASE NoSuback
  <2>1. view' = view /\ view = 0 /\ slots' = slots /\ slots[index] \in Feeds
    BY <1>6 DEF NoSuback, Phases, inside, store
  <2>2. CASE ReadFor("suback", index, tries + 1) /\ UNCHANGED back
    BY <2>1, <2>2 DEF ReadFor, Phases
  <2> QED BY <1>1, <1>6, <2>1, <2>2 DEF NoSuback
<1>7. ASSUME NEW qos \in {0, 1}, Publish(qos), pc = "idle" \/ (pc = "callback" /\ qos = 0)
      PROVE  Phases'
  <2>1. UNCHANGED <<slots, last, feed, view>>
    BY <1>7 DEF Publish, inside, store
  <2>2. CASE qos = 1 /\ socket = "open"
    BY <1>7, <2>1, <2>2 DEF Publish, ReadFor, Phases
  <2>3. CASE ~ (qos = 1 /\ socket = "open")
    BY <1>7, <2>1, <2>3 DEF Publish, ReturnTo, Phases
  <2> QED BY <2>2, <2>3
<1>8. ASSUME NEW type \in {"puback", "pingresp"}, NEW r, WaitFor(type, r) PROVE Phases'
  <2>1. view' = view /\ view = 0
    BY <1>8 DEF WaitFor, Phases, inside
  <2>2. CASE ReadOn
    BY <1>8, <2>1, <2>2 DEF ReadOn, call, Phases, WaitFor
  <2> QED BY <1>1, <1>8, <2>1, <2>2 DEF WaitFor
<1>9. CASE Ping
  BY <1>9 DEF Ping, Calls, ReadFor, ReturnTo, Phases, inside
<1>10. CASE \E f \in Feeds : Subscribe(f) \/ Unsubscribe(f)
  BY <1>10 DEF Subscribe, Unsubscribe, Calls, ReadFor, ReturnTo, Phases, inside
<1>11. CASE ReadUnsuback
  BY <1>11 DEF ReadUnsuback, Return, ReturnTo, Phases, inside
<1>12. CASE ProcessPackets \/ ProcessDone \/ CallbackReturn
  BY <1>12 DEF ProcessPackets, ProcessDone, CallbackReturn, ReadFor, Phases, inside
<1>13. CASE ReadUnread
  <2> DEFINE f == slots[Min(Unread)]
  <2>1. Unread \subseteq Nat /\ Unread # {}
    BY <1>13 DEF ReadUnread, Unread, TypeOK
  <2>2. f \in Feeds
    BY <2>1, MinIn DEF Unread, TypeOK
  <2>3. Give(f, last[f]) /\ UNCHANGED <<last, back>>
    BY <1>13 DEF ReadUnread
  <2> QED BY <2>2, <2>3 DEF Give, Phases
<1>14. CASE ReadPacket
  <2>1. Take /\ back' = back
    BY <1>14 DEF ReadPacket
  <2> DEFINE p == Head(toClient)
  <2>2. CASE Matches(p) /\ Handle(p) /\ Give(p.feed, p.n)
    <3>1. p.feed \in Feeds /\ last' = [last EXCEPT ![p.feed] = p.n]
      BY <2>1, <2>2, HandleCases
    <3>2. last'[p.feed] = p.n
      BY <3>1 DEF TypeOK
    <3> QED BY <2>1, <2>2, <3>1, <3>2 DEF Give, Phases
  <2>3. CASE UNCHANGED <<pc, feed, view>>
    BY <1>14, <2>1, <2>3 DEF ReadPacket, Phases
  <2> QED BY <1>14, <2>2, <2>3 DEF ReadPacket
<1>15. CASE \/ Disconnect \/ Drop \/ BrokerTake \/ (\E f \in Feeds : BrokerSend(f))
            \/ UNCHANGED vars
  <2>1. UNCHANGED <<store, call, inside>>
    BY <1>15 DEF Disconnect, Drop, BrokerTake, BrokerSend, vars
  <2> QED BY <2>1 DEF store, call, inside, Phases
<1> QED
  BY <1>3, <1>4, <1>5, <1>6, <1>7, <1>8, <1>9, <1>10, <1>11, <1>12, <1>13, <1>14, <1>15
     DEF Next, Client, CallbackPublishes, ReadPuback, ReadPingresp, SaveQos, Calls

-----------------------------------------------------------------------------
(* What a step does to messages *)

\* A message is taken from the stream into its subscription.
Received(p) ==
  /\ Take /\ p = Head(toClient) /\ p.type = "publish" /\ p.feed \in Feeds /\ p.n \in Nat
  /\ last' = [last EXCEPT ![p.feed] = p.n]
  /\ sent' = sent
Given(f, n) == given' = [given EXCEPT ![f] = Append(@, n)]

\* The stream without messages to the client's subscriptions.
Passed ==
  \/ toClient' = toClient \/ toClient' = <<>> \/ Take
  \/ \E q \in Packets : q.type # "publish" /\ toClient' = Append(toClient, q)

Effects ==
  \/ Passed /\ UNCHANGED <<last, new, sent, given>>
  \/ \E p \in Packets : Received(p) /\ new' = new \cup {p.feed} /\ given' = given
  \/ \E f \in new : /\ new' = new \ {f} /\ Given(f, last[f])
                    /\ UNCHANGED <<last, sent, toClient>>
  \/ \E p \in Packets : Received(p) /\ p.feed \notin new /\ new' = new /\ Given(p.feed, p.n)
  \/ \E f \in Feeds : BrokerSend(f)

LEMMA EffectsOf == TypeOK /\ Phases /\ Streams /\ Requests /\ [Next]_vars => Effects
<1> SUFFICES ASSUME TypeOK, Phases, Streams, Requests, [Next]_vars PROVE Effects
  OBVIOUS
<1>1. ASSUME Take, PassOver(Head(toClient)), UNCHANGED <<sent, given>> PROVE Effects
  <2>1. CASE UNCHANGED <<last, new, toBroker>>
    BY <1>1, <2>1 DEF Effects, Passed
  <2>2. CASE ~ UNCHANGED <<last, new, toBroker>>
    BY <1>1, <2>2, PassOverCases, HeadFacts DEF Effects, Received
  <2> QED BY <2>1, <2>2
<1>2. CASE ReadConnack \/ NoSuback \/ ReadUnsuback
  BY <1>2 DEF ReadConnack, NoSuback, ReadUnsuback, TakeNone, Effects, Passed, store, history
<1>3. CASE ReadSuback
  BY <1>1, <1>3 DEF ReadSuback, Effects, Passed, history
<1>4. ASSUME NEW type, NEW r, WaitFor(type, r) PROVE Effects
  BY <1>1, <1>4 DEF WaitFor, TakeNone, Effects, Passed, history
<1>5. CASE \/ Connect \/ Ping \/ ProcessPackets \/ ProcessDone \/ CallbackReturn
           \/ Disconnect \/ Drop \/ (\E f \in Feeds : Subscribe(f) \/ Unsubscribe(f))
           \/ (\E qos \in {0, 1} : Publish(qos)) \/ UNCHANGED vars
  <2>1. /\ toClient' = toClient \/ toClient' = <<>>
        /\ UNCHANGED <<last, new, sent, given>>
    BY <1>5 DEF Connect, Ping, ProcessPackets, ProcessDone, CallbackReturn, Disconnect, Drop,
                Subscribe, Unsubscribe, Publish, vars, wires, store, history
  <2> QED BY <2>1 DEF Effects, Passed
<1>6. CASE ReadUnread
  <2>1. Unread \subseteq Nat /\ Unread # {}
    BY <1>6 DEF ReadUnread, Unread, TypeOK
  <2>2. slots[Min(Unread)] \in new
    BY <2>1, MinIn DEF Unread
  <2> QED BY <1>6, <2>2 DEF ReadUnread, Marked, Give, Given, Effects, wires
<1>7. CASE ReadPacket
  <2> DEFINE p == Head(toClient)
  <2>1. Take /\ UNCHANGED <<new, sent>>
    BY <1>7 DEF ReadPacket
  <2>2. CASE Matches(p) /\ Handle(p) /\ Give(p.feed, p.n)
    <3>1. p \in Packets /\ Received(p)
      BY <2>1, <2>2, HandleCases, HeadFacts DEF Received
    <3>2. p.feed \notin new
      BY <1>7, <2>2 DEF ReadPacket, Matches, SlotOf, Unread
    <3> QED BY <2>1, <2>2, <3>1, <3>2 DEF Effects, Give, Given
  <2>3. CASE UNCHANGED <<last, given>>
    BY <2>1, <2>3 DEF Effects, Passed
  <2> QED BY <1>7, <2>2, <2>3 DEF ReadPacket
<1>8. CASE BrokerTake
  <2>1. toBroker # <<>> /\ toClient' = toClient \o Reply(Head(toBroker))
    BY <1>8 DEF BrokerTake
  <2>2. toClient' = toClient \/ \E q \in Packets : q.type # "publish" /\ toClient' = Append(toClient, q)
    <3>1. CASE Reply(Head(toBroker)) = <<>>
      BY <2>1, <3>1, ConcatEmptySeq DEF TypeOK
    <3>2. ASSUME NEW q \in Packets, Reply(Head(toBroker)) = <<q>>, q.type # "publish"
          PROVE  toClient' = Append(toClient, q)
      BY <2>1, <3>2, AppendIsConcat DEF TypeOK
    <3> QED BY <2>1, <3>1, <3>2, ReplyCases
  <2> QED BY <1>8, <2>2 DEF BrokerTake, Effects, Passed, store
<1>9. CASE \E f \in Feeds : BrokerSend(f)
  BY <1>9 DEF Effects
<1> QED
  BY <1>2, <1>3, <1>4, <1>5, <1>6, <1>7, <1>8, <1>9
     DEF Next, Client, CallbackPublishes, ReadPuback, ReadPingresp, SaveQos

\* The stream stays in order, whatever is taken from it or added.
LEMMA StreamsStep == TypeOK /\ TypeOK' /\ Streams /\ Mails /\ Effects => Streams'
<1> SUFFICES ASSUME TypeOK, TypeOK', Streams, Mails, Effects PROVE Streams'
  OBVIOUS
<1>0. last \in [Feeds -> Nat] /\ sent \in [Feeds -> Nat] /\ toClient \in Seq(Packets)
  BY DEF TypeOK
<1>1. CASE Passed /\ UNCHANGED <<last, sent>>
  <2>1. CASE toClient' = toClient \/ toClient' = <<>>
    BY <1>1, <2>1 DEF Streams, Publishes
  <2>2. CASE Take
    <3>1. \A i \in 1 .. Len(toClient') : i + 1 \in 1 .. Len(toClient) /\ toClient'[i] = toClient[i + 1]
      BY <1>0, <2>2, HeadFacts, SMT
    <3>2. \A i, j \in 1 .. Len(toClient') : i < j => i + 1 < j + 1
      BY SMT
    <3> QED BY <1>1, <3>1, <3>2 DEF Streams, Publishes
  <2>3. ASSUME NEW q \in Packets, q.type # "publish", toClient' = Append(toClient, q)
        PROVE  Streams'
    <3>1. \A i \in 1 .. Len(toClient') :
            \/ toClient'[i] = q
            \/ i \in 1 .. Len(toClient) /\ toClient'[i] = toClient[i]
      BY <1>0, <2>3, SMT
    <3> QED BY <1>1, <2>3, <3>1 DEF Streams, Publishes
  <2> QED BY <1>1, <2>1, <2>2, <2>3 DEF Passed
<1>2. ASSUME NEW p \in Packets, Received(p) PROVE Streams'
  <2>1. /\ Take /\ p = toClient[1] /\ 1 \in 1 .. Len(toClient) /\ p.type = "publish"
        /\ p.feed \in Feeds /\ p.n \in Nat
        /\ last' = [last EXCEPT ![p.feed] = p.n] /\ sent' = sent
    BY <1>2, HeadFacts DEF Received
  <2>2. \A i \in 1 .. Len(toClient') :
          i + 1 \in 1 .. Len(toClient) /\ 1 < i + 1 /\ toClient'[i] = toClient[i + 1]
    BY <1>0, <2>1, HeadFacts, SMT
  <2>3. \A i, j \in 1 .. Len(toClient') : i < j => i + 1 < j + 1
    BY SMT
  <2>4. ASSUME NEW i \in 1 .. Len(toClient'), toClient'[i].type = "publish"
        PROVE  /\ toClient'[i].feed \in Feeds
               /\ last'[toClient'[i].feed] < toClient'[i].n
               /\ toClient'[i].n <= sent'[toClient'[i].feed]
    <3>1. /\ toClient[i + 1].feed \in Feeds
          /\ last[toClient[i + 1].feed] < toClient[i + 1].n
          /\ toClient[i + 1].n <= sent[toClient[i + 1].feed]
          /\ toClient[i + 1].feed = p.feed => p.n < toClient[i + 1].n
      BY <2>1, <2>2, <2>4 DEF Streams, Publishes
    <3> QED BY <1>0, <2>1, <2>2, <3>1
  <2>5. ASSUME NEW i \in 1 .. Len(toClient'), NEW j \in 1 .. Len(toClient'), i < j,
               toClient'[i].type = "publish", toClient'[j].type = "publish",
               toClient'[i].feed = toClient'[j].feed
        PROVE  toClient'[i].n < toClient'[j].n
    <3>1. /\ i + 1 \in 1 .. Len(toClient) /\ toClient'[i] = toClient[i + 1]
          /\ j + 1 \in 1 .. Len(toClient) /\ toClient'[j] = toClient[j + 1]
          /\ i + 1 < j + 1
      BY <2>2, <2>3, <2>5
    <3> QED BY <2>5, <3>1 DEF Streams, Publishes
  <2> QED BY <2>4, <2>5 DEF Streams, Publishes
<1>3. ASSUME NEW f \in Feeds, BrokerSend(f) PROVE Streams'
  <2> DEFINE q == Packet("publish", f, sent'[f], 0)
  <2>1. /\ sent' = [sent EXCEPT ![f] = @ + 1] /\ last' = last
        /\ toClient' = Append(toClient, q) \/ toClient' = toClient
    BY <1>3 DEF BrokerSend, store
  <2>2. q \in Packets /\ q.type = "publish" /\ q.feed = f /\ q.n = sent'[f] /\ sent'[f] = sent[f] + 1
    BY <1>0, <2>1, PacketType, PacketFields, Sizes, SMT DEF Types
  <2> HIDE DEF q
  <2>3. \A g \in Feeds : sent[g] \in Nat /\ sent'[g] \in Nat /\ sent[g] <= sent'[g]
    BY <1>0, <2>1, SMT
  <2>4. \A i \in 1 .. Len(toClient') :
          \/ i \in 1 .. Len(toClient) /\ toClient'[i] = toClient[i]
          \/ i = Len(toClient) + 1 /\ toClient'[i] = q
    <3>1. Len(toClient) \in Nat
      BY <1>0, LenProperties
    <3>2. CASE toClient' = Append(toClient, q)
      BY <1>0, <2>2, <3>1, <3>2, AppendProperties, SMT
    <3> QED BY <2>1, <3>2
  <2>5. \A i \in 1 .. Len(toClient) :
          i < Len(toClient) + 1 /\ toClient[i] \in Packets /\ toClient[i].n \in Nat
    <3>1. Len(toClient) \in Nat /\ \A i \in 1 .. Len(toClient) : toClient[i] \in Packets
      BY <1>0, ElementOfSeq, LenProperties
    <3>2. \A i \in 1 .. Len(toClient) : i < Len(toClient) + 1
      BY <3>1, SMT
    <3> QED BY <3>1, <3>2 DEF Packets
  <2>6. last[f] < q.n
    <3>1. last[f] <= sent[f]
      BY DEF Mails, Mailed
    <3> QED BY <1>0, <2>2, <3>1
  <2>7. ASSUME NEW i \in 1 .. Len(toClient'), toClient'[i].type = "publish"
        PROVE  /\ toClient'[i].feed \in Feeds
               /\ last'[toClient'[i].feed] < toClient'[i].n
               /\ toClient'[i].n <= sent'[toClient'[i].feed]
    <3>1. CASE i \in 1 .. Len(toClient) /\ toClient'[i] = toClient[i]
      BY <2>1, <2>3, <2>5, <2>7, <3>1 DEF Streams, Publishes
    <3>2. CASE toClient'[i] = q
      BY <2>1, <2>2, <2>3, <2>6, <3>2
    <3> QED BY <2>4, <3>1, <3>2
  <2>8. ASSUME NEW i \in 1 .. Len(toClient'), NEW j \in 1 .. Len(toClient'), i < j,
               toClient'[i].type = "publish", toClient'[j].type = "publish",
               toClient'[i].feed = toClient'[j].feed
        PROVE  toClient'[i].n < toClient'[j].n
    <3>1. i \in 1 .. Len(toClient) /\ toClient'[i] = toClient[i]
      BY <1>0, <2>4, <2>8
    <3>2. CASE j \in 1 .. Len(toClient) /\ toClient'[j] = toClient[j]
      BY <2>8, <3>1, <3>2 DEF Streams, Publishes
    <3>3. CASE toClient'[j] = q
      <4>1. toClient[i].n <= sent[f]
        BY <2>2, <2>8, <3>1, <3>3 DEF Streams, Publishes
      <4> QED BY <1>0, <2>2, <2>5, <3>1, <3>3, <4>1
    <3> QED BY <2>4, <3>2, <3>3
  <2> QED BY <2>7, <2>8 DEF Streams, Publishes
<1>4. CASE \E f \in new : UNCHANGED <<last, sent, toClient>>
  BY <1>4 DEF Streams, Publishes
<1> QED BY <1>1, <1>2, <1>3, <1>4 DEF Effects

LEMMA Appended ==
  ASSUME NEW s \in Seq(Nat), NEW n \in Nat
  PROVE  /\ Len(Append(s, n)) = Len(s) + 1 /\ Append(s, n) # <<>>
         /\ \A i \in 1 .. Len(s) : Append(s, n)[i] = s[i]
         /\ Append(s, n)[Len(s) + 1] = n
<1>1. \A i \in 1 .. Len(s) : Append(s, n)[i] = s[i]
  BY AppendProperties
<1>2. Len(Append(s, n)) = Len(s) + 1 /\ Append(s, n)[Len(s) + 1] = n
  BY AppendProperties
<1>3. Append(s, n) # <<>>
  BY AppendProperties
<1> QED BY <1>1, <1>2, <1>3

\* What is given is newer than all that was, and the newest there is.
LEMMA MailsStep == TypeOK /\ TypeOK' /\ Streams /\ Mails /\ Effects => Mails'
<1> SUFFICES ASSUME TypeOK, TypeOK', Streams, Mails, Effects, NEW g \in Feeds PROVE Mailed(g)'
  BY DEF Mails
<1>0. /\ last \in [Feeds -> Nat] /\ sent \in [Feeds -> Nat] /\ given \in [Feeds -> Seq(Nat)]
      /\ last[g] \in Nat /\ sent[g] \in Nat /\ given[g] \in Seq(Nat) /\ Len(given[g]) \in Nat
      /\ \A i \in 1 .. Len(given[g]) : given[g][i] \in Nat
      /\ last'[g] \in Nat /\ sent'[g] \in Nat /\ given'[g] \in Seq(Nat) /\ Mailed(g)
  BY ElementOfSeq, LenProperties DEF TypeOK, Mails
<1>1. ASSUME NEW f \in Feeds, NEW n \in Nat, Given(f, n), last'[f] = n, f \notin new',
             g = f, n <= sent'[f], \A i \in 1 .. Len(given[f]) : given[f][i] <= n
      PROVE  Mailed(g)'
  <2>1. given'[g] = Append(given[g], n)
    BY <1>0, <1>1 DEF Given
  <2>2. /\ Len(given'[g]) = Len(given[g]) + 1 /\ given'[g] # <<>>
        /\ \A i \in 1 .. Len(given[g]) : given'[g][i] = given[g][i]
        /\ given'[g][Len(given[g]) + 1] = n
    <3>1. given[g] \in Seq(Nat) /\ n \in Nat
      BY <1>0, <1>1
    <3> QED BY <2>1, <3>1, Appended
  <2>3. \A i \in 1 .. Len(given'[g]) : i \in 1 .. Len(given[g]) \/ i = Len(given[g]) + 1
    BY <1>0, <2>2
  <2>4. \A i \in 1 .. Len(given'[g]) : given'[g][i] <= n
    BY <1>1, <2>2, <2>3
  <2> QED BY <1>1, <2>2, <2>4 DEF Mailed
<1>2. ASSUME NEW p \in Packets, Received(p)
      PROVE  /\ last[p.feed] < p.n /\ p.n <= sent[p.feed] /\ last'[p.feed] = p.n
             /\ g # p.feed => last'[g] = last[g]
             /\ p.n \in Nat /\ sent' = sent
  BY <1>0, <1>2, HeadFacts DEF Received, Streams, Publishes
<1>3. CASE UNCHANGED <<last, new, sent, given>>
  BY <1>0, <1>3 DEF Mailed
<1>4. ASSUME NEW p \in Packets, Received(p), new' = new \cup {p.feed}, given' = given
      PROVE  Mailed(g)'
  <2>1. CASE g = p.feed
    <3>1. \A i \in 1 .. Len(given[g]) : given[g][i] < p.n
      BY <1>0, <1>2, <1>4, <2>1 DEF Mailed
    <3>2. g \in new' /\ last'[g] = p.n /\ p.n <= sent'[g] /\ p.n >= 1 /\ given'[g] = given[g]
      BY <1>0, <1>2, <1>4, <2>1
    <3>3. \A i \in 1 .. Len(given[g]) : given[g][i] <= p.n
      BY <1>0, <1>2, <1>4, <3>1
    <3> QED BY <3>1, <3>2, <3>3 DEF Mailed
  <2>2. CASE g # p.feed
    BY <1>0, <1>2, <1>4, <2>2 DEF Mailed
  <2> QED BY <2>1, <2>2
<1>5. ASSUME NEW f \in new, new' = new \ {f}, Given(f, last[f]), UNCHANGED <<last, sent>>
      PROVE  Mailed(g)'
  <2>1. f \in Feeds /\ last[f] \in Nat
    BY <1>0 DEF TypeOK
  <2>2. CASE g = f
    BY <1>0, <1>1, <1>5, <2>1, <2>2 DEF Mailed
  <2>3. CASE g # f
    BY <1>0, <1>5, <2>1, <2>3 DEF Given, Mailed
  <2> QED BY <2>2, <2>3
<1>6. ASSUME NEW p \in Packets, Received(p), p.feed \notin new, new' = new, Given(p.feed, p.n)
      PROVE  Mailed(g)'
  <2>1. p.feed \in Feeds
    BY <1>6 DEF Received
  <2>2. CASE g = p.feed
    <3>1. \A i \in 1 .. Len(given[g]) : given[g][i] <= p.n
      BY <1>0, <1>2, <1>6, <2>2 DEF Mailed
    <3> QED BY <1>1, <1>2, <1>6, <2>1, <2>2, <3>1
  <2>3. CASE g # p.feed
    <3>1. last'[g] = last[g] /\ sent' = sent /\ given'[g] = given[g]
      BY <1>0, <1>2, <1>6, <2>3 DEF Given
    <3> QED BY <1>0, <1>6, <3>1 DEF Mailed
  <2> QED BY <2>2, <2>3
<1>7. ASSUME NEW f \in Feeds, BrokerSend(f) PROVE Mailed(g)'
  <2>1. UNCHANGED <<last, new, given>> /\ sent' = [sent EXCEPT ![f] = @ + 1]
    BY <1>7 DEF BrokerSend, store
  <2>2. sent[g] <= sent'[g]
    BY <1>0, <2>1
  <2> QED BY <1>0, <2>1, <2>2 DEF Mailed
<1> QED BY <1>3, <1>4, <1>5, <1>6, <1>7 DEF Effects

-----------------------------------------------------------------------------
(* Identifiers *)

\* How many identifiers were used since id was, itself counted.
AgeOf(id, c) == IF id < c THEN c - id ELSE c + IdSize - id

LEMMA AgeIs ==
  ASSUME NEW id \in Ids, NEW c \in Ids
  PROVE  /\ AgeOf(id, c) \in 1 .. IdSize
         /\ After(id) = c <=> AgeOf(id, c) = 1
         /\ AgeOf(c, After(c)) = 1
         /\ AgeOf(id, c) < IdSize => AgeOf(id, After(c)) = AgeOf(id, c) + 1
<1>1. /\ IdSize \in Nat /\ IdSize >= 2 /\ id \in Nat /\ c \in Nat /\ id < IdSize /\ c < IdSize
  BY Sizes DEF Ids
<1>2. /\ After(id) = (IF id = IdSize - 1 THEN 0 ELSE id + 1)
      /\ After(c) = (IF c = IdSize - 1 THEN 0 ELSE c + 1)
  BY AfterIs
<1> QED BY <1>1, <1>2 DEF AgeOf

\* The packets under way in both directions, those to the client first, and which
\* of them carry an identifier of the client's.
Acks(p) == p.type \in {"suback", "unsuback", "puback"}
Asks(p) ==
  \/ p.type \in {"subscribe", "unsubscribe"}
  \/ p.type = "publication" /\ p.id < IdSize
OfPublish(p) == p.type \in {"puback", "publication"}

Under == Len(toClient) + Len(toBroker)
At(i) == IF i <= Len(toClient) THEN toClient[i] ELSE toBroker[i - Len(toClient)]
Carries(i) == IF i <= Len(toClient) THEN Acks(At(i)) ELSE Asks(At(i))
AgeAt(i) == AgeOf(At(i).id, counter)

\* From a publish on, the identifiers under way follow each other up to the counter.
Linked(i) ==
  /\ At(i).id \in Ids
  /\ AgeAt(i) = 1 \/ \E j \in i + 1 .. Under : Carries(j) /\ AgeAt(j) = AgeAt(i) - 1
Chain ==
  \A k, i \in 1 .. Under :
    k <= i /\ Carries(k) /\ OfPublish(At(k)) /\ Carries(i) => Linked(i)

\* So that none of them is older than the packets under way are many.
LEMMA ChainBounds ==
  ASSUME TypeOK, Chain, NEW k \in 1 .. Under, Carries(k), OfPublish(At(k))
  PROVE  \A i \in k .. Under : Carries(i) => AgeAt(i) <= Under - i + 1
<1> DEFINE Bad == {d \in 0 .. Under : \E i \in k .. Under :
                     d = Under - i /\ Carries(i) /\ AgeAt(i) > Under - i + 1}
<1>0. Under \in Nat /\ k \in Nat /\ k >= 1
  <2>1. Len(toClient) \in Nat /\ Len(toBroker) \in Nat
    BY LenProperties DEF TypeOK
  <2> QED BY <2>1, SMT DEF Under
<1>1. ASSUME Bad # {} PROVE FALSE
  <2>1. Bad \subseteq Nat
    BY <1>0, SMT
  <2>2. PICK d \in Bad : \A e \in Bad : ~ (<<e, d>> \in OpToRel(<, Nat))
    BY <1>1, <2>1, NatLessThanWellFounded, WFMin
  <2>3. \A e \in Bad : ~ (e < d)
    BY <2>1, <2>2 DEF OpToRel
  <2>4. PICK i \in k .. Under : d = Under - i /\ Carries(i) /\ AgeAt(i) > Under - i + 1
    BY <2>2
  <2>5. i \in 1 .. Under /\ k <= i /\ i \in Nat
    BY <1>0, SMT
  <2>6. Linked(i)
    BY <2>4, <2>5 DEF Chain
  <2>7. AgeAt(i) \in 1 .. IdSize /\ IdSize \in Nat
    <3>1. counter \in Ids
      BY DEF TypeOK, Ids
    <3> QED BY <2>6, <3>1, AgeIs, Sizes DEF Linked, AgeAt
  <2>8. AgeAt(i) # 1
    BY <1>0, <2>4, <2>5, <2>7, SMT
  <2>9. PICK j \in i + 1 .. Under : Carries(j) /\ AgeAt(j) = AgeAt(i) - 1
    BY <2>6, <2>8 DEF Linked
  <2>10. j \in k .. Under /\ Under - j \in 0 .. Under /\ Under - j < d
    BY <1>0, <2>4, <2>5, SMT
  <2>11. AgeAt(j) > Under - j + 1
    BY <1>0, <2>4, <2>5, <2>7, <2>9, SMT
  <2>12. Under - j \in Bad
    BY <2>9, <2>10, <2>11
  <2> QED BY <2>3, <2>10, <2>12
<1>2. ASSUME NEW i \in k .. Under, Carries(i) PROVE AgeAt(i) <= Under - i + 1
  <2>1. Under - i \in 0 .. Under /\ i \in 1 .. Under /\ k <= i
    BY <1>0, SMT
  <2>2. ~ (AgeAt(i) > Under - i + 1)
    BY <1>1, <1>2, <2>1
  <2>3. AgeAt(i) \in 1 .. IdSize /\ IdSize \in Nat
    <3>1. counter \in Ids
      BY DEF TypeOK, Ids
    <3>2. At(i).id \in Ids
      BY <1>2, <2>1 DEF Chain, Linked
    <3> QED BY <3>1, <3>2, AgeIs, Sizes DEF AgeAt
  <2> QED BY <1>0, <2>1, <2>2, <2>3, SMT
<1> QED BY <1>2

\* The chain holds of what is left when its oldest packets, or packets that carry
\* no identifier, are gone or added: m says where each packet was before.
LEMMA ChainKept ==
  ASSUME Chain, counter' = counter, Under \in Nat, Under' \in Nat,
         NEW m,
         \A i \in 1 .. Under' : Carries(i)' =>
           /\ m[i] \in 1 .. Under /\ Carries(m[i])
           /\ At(i)'.id = At(m[i]).id /\ (OfPublish(At(i)') => OfPublish(At(m[i]))),
         \A i, j \in 1 .. Under' : Carries(i)' /\ Carries(j)' /\ i <= j => m[i] <= m[j],
         \A i \in 1 .. Under' : \A j \in 1 .. Under :
           Carries(i)' /\ Carries(j) /\ m[i] < j =>
             \E l \in 1 .. Under' : i < l /\ Carries(l)' /\ m[l] = j
  PROVE  Chain'
<1> SUFFICES ASSUME NEW k \in 1 .. Under', NEW i \in 1 .. Under', k <= i,
                    Carries(k)', OfPublish(At(k))', Carries(i)'
             PROVE  Linked(i)'
  BY DEF Chain
<1>1. m[i] \in 1 .. Under /\ m[k] \in 1 .. Under /\ m[k] <= m[i]
  OBVIOUS
<1>2. Carries(m[i]) /\ Carries(m[k]) /\ OfPublish(At(m[k])) /\ At(i)'.id = At(m[i]).id
  OBVIOUS
<1>3. Linked(m[i])
  BY <1>1, <1>2 DEF Chain
<1>4. AgeAt(i)' = AgeAt(m[i])
  BY <1>2 DEF AgeAt
<1>5. CASE AgeAt(m[i]) = 1
  BY <1>2, <1>3, <1>4, <1>5 DEF Linked
<1>6. ASSUME NEW j \in m[i] + 1 .. Under, Carries(j), AgeAt(j) = AgeAt(m[i]) - 1
      PROVE  Linked(i)'
  <2>1. j \in 1 .. Under /\ m[i] < j
    BY <1>1, SMT
  <2>2. PICK l \in 1 .. Under' : i < l /\ Carries(l)' /\ m[l] = j
    BY <1>6, <2>1
  <2>3. l \in i + 1 .. Under'
    BY <2>2, SMT
  <2>4. At(l)'.id = At(j).id
    BY <2>2
  <2>5. AgeAt(l)' = AgeAt(i)' - 1
    BY <1>4, <1>6, <2>4 DEF AgeAt
  <2> QED BY <1>2, <1>3, <2>2, <2>3, <2>5 DEF Linked
<1> QED BY <1>3, <1>5, <1>6 DEF Linked

\* No publish is under way while connect() subscribes, so that the identifiers of
\* its retries may go round.
Quiet ==
  /\ \A i \in 1 .. Len(toClient) : toClient[i].type # "puback"
  /\ \A i \in 1 .. Len(toBroker) : ~ (Asks(toBroker[i]) /\ OfPublish(toBroker[i]))
Subscribing == pc \in {"connack", "suback"}
QuietBefore == Subscribing => Quiet

\* What a step does to the packets under way.
Cleared == toClient' = <<>> /\ (toBroker' = <<>> \/ toBroker' = <<Control("connect", 0)>>)
Sends(p) == p \in Packets /\ toBroker' = Append(toBroker, p)
SendsNone == toBroker' = toBroker \/ \E p \in Packets : ~ Asks(p) /\ Sends(p)
Traffic ==
  \/ Cleared
  \/ (toClient' = toClient \/ Take) /\ SendsNone /\ counter' = counter
  \/ BrokerTake
  \/ \E f \in Feeds : BrokerSend(f)
  \/ /\ pc = "idle" /\ Under < IdSize /\ toClient' = toClient /\ counter' = After(counter)
     /\ \E p \in Packets : Asks(p) /\ p.id = counter /\ Sends(p)
  \/ /\ Subscribing /\ (toClient' = toClient \/ Take)
     /\ \E p \in Packets : p.type = "subscribe" /\ Sends(p)

LEMMA PubackAsksNot == \A id \in 0 .. IdSize : ~ Asks(Control("puback", id)) /\ Control("puback", id) \in Packets
BY Pubacks, PacketFields DEF Asks

LEMMA TrafficOf == TypeOK /\ Phases /\ Streams /\ Requests /\ [Next]_vars => Traffic
<1> SUFFICES ASSUME TypeOK, Phases, Streams, Requests, [Next]_vars PROVE Traffic
  OBVIOUS
<1>0. counter \in 0 .. IdSize /\ MaxWire < IdSize
  BY Sizes, SMT DEF TypeOK
<1>1. ASSUME Take, PassOver(Head(toClient)), counter' = counter PROVE Traffic
  <2>1. Head(toClient).id \in 0 .. IdSize
    BY <1>1, HeadFacts DEF Packets
  <2>2. SendsNone
    BY <1>1, <2>1, PassOverCases, PubackAsksNot DEF SendsNone, Sends
  <2> QED BY <1>1, <2>2 DEF Traffic
<1>2. ASSUME socket = "closed", toBroker' = toBroker, toClient' = toClient PROVE Traffic
  BY <1>2 DEF TypeOK, Traffic, Cleared
<1>3. ASSUME Subscribing, toClient' = toClient \/ Take, NEW i \in 1 .. MaxSlots,
             slots[i] \in Feeds, SendSubscribe(i)
      PROVE  Traffic
  <2>1. \E p \in Packets : p.type = "subscribe" /\ (Sends(p) \/ (socket = "closed" /\ toBroker' = toBroker))
    BY <1>3, SendSubscribeFacts DEF Sends
  <2>2. CASE socket = "closed" /\ toBroker' = toBroker
    BY <1>2, <1>3, <2>2 DEF Take, TypeOK
  <2> QED BY <1>3, <2>1, <2>2 DEF Traffic
<1>4. ASSUME Subscribing, Take, NEW i \in Nat, i >= 1, SubscribeFrom(i) PROVE Traffic
  <2>1. CASE UNCHANGED <<counter, toBroker>>
    BY <1>4, <2>1 DEF Traffic, SendsNone
  <2> QED BY <1>3, <1>4, <2>1, SubscribeFromCases
<1>5. CASE ReadConnack
  <2>1. Subscribing /\ 1 \in Nat /\ 1 >= 1
    BY <1>5, SMT DEF ReadConnack, Subscribing
  <2>2. CASE UNCHANGED <<counter, toBroker>>
    BY <1>5, <2>2 DEF ReadConnack, TakeNone, Traffic, SendsNone
  <2> QED BY <1>4, <1>5, <2>1, <2>2 DEF ReadConnack
<1>6. CASE ReadSuback
  <2>1. Subscribing /\ index + 1 \in Nat /\ index + 1 >= 1
    BY <1>6, SMT DEF ReadSuback, Subscribing, TypeOK
  <2> QED BY <1>1, <1>4, <1>6, <2>1 DEF ReadSuback
<1>7. CASE NoSuback
  <2>1. Subscribing /\ index \in 1 .. MaxSlots /\ slots[index] \in Feeds /\ toClient' = toClient
    BY <1>7 DEF NoSuback, Subscribing, TypeOK, Phases, TakeNone
  <2>2. CASE UNCHANGED <<toBroker, counter>>
    BY <2>1, <2>2 DEF Traffic, SendsNone
  <2> QED BY <1>3, <1>7, <2>1, <2>2 DEF NoSuback
<1>8. ASSUME NEW from, Calls(from) PROVE Under < IdSize
  BY <1>0, <1>8, LenProperties, Sizes, SMT DEF Calls, Under, TypeOK
<1>9. ASSUME NEW p \in Packets, Send(p), toClient' = toClient, pc = "idle", Under < IdSize,
             Asks(p), p.id = counter, counter' = After(counter)
      PROVE  Traffic
  <2>1. CASE socket = "open"
    BY <1>9, <2>1 DEF Send, Sends, Traffic
  <2>2. CASE socket # "open"
    <3>1. socket = "closed"
      BY <2>2 DEF TypeOK
    <3> QED BY <1>2, <1>9, <3>1 DEF Send
  <2> QED BY <2>1, <2>2
<1>10. ASSUME NEW p \in Packets, Send(p), toClient' = toClient, counter' = counter, ~ Asks(p)
       PROVE  Traffic
  BY <1>10 DEF Send, Sends, SendsNone, Traffic
<1>11. ASSUME NEW qos \in {0, 1}, Publish(qos), pc = "idle" \/ qos = 0, Under < IdSize
       PROVE  Traffic
  <2> DEFINE id == IF qos = 1 THEN counter ELSE IdSize
             p == Packet("publication", NoFeed, calls', id)
  <2>1. calls' \in Nat
    BY <1>11, SMT DEF Publish, TypeOK
  <2>2. id \in 0 .. IdSize /\ (id < IdSize <=> qos = 1)
    BY Sizes, SMT DEF TypeOK
  <2>3. p \in Packets
    BY <2>1, <2>2, PacketType DEF Types
  <2>4. p.type = "publication" /\ p.id = id
    BY PacketFields
  <2>5. Send(p) /\ toClient' = toClient /\ counter' = IF qos = 1 THEN After(counter) ELSE counter
    BY <1>11 DEF Publish
  <2> HIDE DEF p
  <2>6. Asks(p) <=> qos = 1
    BY <2>2, <2>4 DEF Asks
  <2>7. CASE qos = 1
    BY <1>9, <1>11, <2>3, <2>4, <2>5, <2>6, <2>7
  <2>8. CASE qos # 1
    BY <1>10, <2>3, <2>5, <2>6, <2>8
  <2> QED BY <2>7, <2>8
<1>12. CASE Ping
  <2>1. Control("pingreq", 0) \in Packets /\ ~ Asks(Control("pingreq", 0))
    BY Sizes, PacketFields, PacketType DEF Types, Asks
  <2> QED BY <1>10, <1>12, <2>1 DEF Ping
<1>13. ASSUME NEW f \in Feeds, Unsubscribe(f) PROVE Traffic
  <2> DEFINE p == Packet("unsubscribe", f, 0, counter)
  <2>1. p \in Packets /\ Asks(p) /\ p.id = counter
    BY <1>0, PacketFields, PacketType DEF Types, Asks
  <2>2. Send(p) /\ toClient' = toClient /\ counter' = After(counter) /\ pc = "idle" /\ Under < IdSize
    BY <1>8, <1>13 DEF Unsubscribe, Calls
  <2> QED BY <1>9, <2>1, <2>2
<1>14. CASE ReadPacket
  <2>1. Take /\ counter' = counter
    BY <1>14 DEF ReadPacket
  <2>2. Head(toClient).id \in 0 .. IdSize
    BY <2>1, HeadFacts DEF Packets
  <2>3. SendsNone
    BY <1>14, <2>1, <2>2, HandleCases, PubackAsksNot DEF ReadPacket, SendsNone, Sends
  <2> QED BY <2>1, <2>3 DEF Traffic
<1>15. ASSUME NEW type, NEW r, WaitFor(type, r) PROVE Traffic
  <2>1. CASE toBroker' = toBroker
    BY <1>15, <2>1 DEF WaitFor, TakeNone, Traffic, SendsNone
  <2> QED BY <1>1, <1>15, <2>1 DEF WaitFor
<1>16. CASE \/ ReadUnsuback \/ ProcessPackets \/ ReadUnread \/ ProcessDone \/ CallbackReturn
            \/ (\E f \in Feeds : Subscribe(f)) \/ UNCHANGED vars
  <2>1. (toClient' = toClient \/ Take) /\ toBroker' = toBroker /\ counter' = counter
    BY <1>16 DEF ReadUnsuback, ProcessPackets, ReadUnread, ProcessDone, CallbackReturn,
                 Subscribe, TakeNone, vars, wires
  <2> QED BY <2>1 DEF Traffic, SendsNone
<1>17. CASE Connect \/ Disconnect \/ Drop
  BY <1>17 DEF Connect, Disconnect, Drop, Traffic, Cleared
<1>18. CASE BrokerTake \/ \E f \in Feeds : BrokerSend(f)
  BY <1>18 DEF Traffic
<1>19. CASE CallbackPublishes \/ \E qos \in {0, 1} : Calls("idle") /\ Publish(qos)
  BY <1>8, <1>11, <1>19 DEF CallbackPublishes, SaveQos, Calls
<1> QED
  BY <1>5, <1>6, <1>7, <1>12, <1>13, <1>14, <1>15, <1>16, <1>17, <1>18, <1>19
     DEF Next, Client, ReadPuback, ReadPingresp

\* The broker's answer carries the identifier of what it answers.
LEMMA ReplyCarries ==
  ASSUME TypeOK, Requests, BrokerTake
  PROVE  LET p == Head(toBroker)
         IN  /\ toBroker # <<>> /\ p = toBroker[1] /\ toBroker' = Tail(toBroker)
             /\ Len(toBroker') = Len(toBroker) - 1
             /\ \A i \in 1 .. Len(toBroker') : toBroker'[i] = toBroker[i + 1]
             /\ \/ toClient' = toClient /\ ~ Asks(p)
                \/ \E q \in Packets :
                     /\ toClient' = Append(toClient, q) /\ (Acks(q) <=> Asks(p))
                     /\ Asks(p) => q.id = p.id
                     /\ OfPublish(q) => OfPublish(p)
                     /\ q.type = "puback" => Asks(p) /\ p.type = "publication"
<1> DEFINE p == Head(toBroker)
<1>1. toBroker # <<>> /\ toBroker' = Tail(toBroker) /\ toClient' = toClient \o Reply(p)
  BY DEF BrokerTake
<1>2. p \in Packets /\ p.type \in Outgoing /\ p.id \in 0 .. IdSize /\ 0 \in 0 .. IdSize
  BY <1>1, ReplyCases, Sizes DEF Packets
<1>3. \A t \in Types : \A id \in 0 .. IdSize :
        Control(t, id) \in Packets /\ Control(t, id).type = t /\ Control(t, id).id = id
  BY PacketFields, PacketType
<1>4. \A q \in Packets : Reply(p) = <<q>> => toClient' = Append(toClient, q)
  BY <1>1, AppendIsConcat DEF TypeOK
<1>5. Reply(p) = <<>> => toClient' = toClient
  BY <1>1, ConcatEmptySeq DEF TypeOK
<1> HIDE DEF p
<1>6. \/ Reply(p) = <<>> /\ ~ Asks(p)
      \/ \E q \in Packets :
           /\ Reply(p) = <<q>> /\ (Acks(q) <=> Asks(p))
           /\ Asks(p) => q.id = p.id
           /\ OfPublish(q) => OfPublish(p)
           /\ q.type = "puback" => Asks(p) /\ p.type = "publication"
  <2>1. CASE p.type = "connect"
    <3>1. Reply(p) = <<Control("connack", 0)>>
      BY <2>1 DEF Reply
    <3> QED BY <2>1, <3>1, <1>2, <1>3 DEF Types, Acks, Asks, OfPublish
  <2>2. CASE p.type = "subscribe"
    <3>1. Reply(p) = <<Control("suback", p.id)>>
      BY <2>2 DEF Reply
    <3> QED BY <2>2, <3>1, <1>2, <1>3 DEF Types, Acks, Asks, OfPublish
  <2>3. CASE p.type = "unsubscribe"
    <3>1. Reply(p) = <<Control("unsuback", p.id)>>
      BY <2>3 DEF Reply
    <3> QED BY <2>3, <3>1, <1>2, <1>3 DEF Types, Acks, Asks, OfPublish
  <2>4. CASE p.type = "pingreq"
    <3>1. Reply(p) = <<Control("pingresp", 0)>>
      BY <2>4 DEF Reply
    <3> QED BY <2>4, <3>1, <1>2, <1>3 DEF Types, Acks, Asks, OfPublish
  <2>5. CASE p.type = "publication"
    <3>1. Reply(p) = IF p.id < IdSize THEN <<Control("puback", p.id)>> ELSE <<>>
      BY <2>5 DEF Reply
    <3> QED BY <2>5, <3>1, <1>2, <1>3 DEF Types, Acks, Asks, OfPublish
  <2>6. CASE p.type = "puback"
    <3>1. Reply(p) = <<>>
      BY <2>6 DEF Reply
    <3> QED BY <2>6, <3>1 DEF Asks
  <2> QED BY <1>2, <2>1, <2>2, <2>3, <2>4, <2>5, <2>6 DEF Outgoing
<1> QED BY <1>1, <1>4, <1>5, <1>6, ReplyCases DEF p

\* Of a sequence that grows by one.
LEMMA Grown ==
  ASSUME NEW s \in Seq(Packets), NEW p \in Packets
  PROVE  /\ Len(Append(s, p)) = Len(s) + 1 /\ Append(s, p)[Len(s) + 1] = p
         /\ \A i \in 1 .. Len(s) : Append(s, p)[i] = s[i]
         /\ \A i \in 1 .. Len(Append(s, p)) : i \in 1 .. Len(s) \/ i = Len(s) + 1
<1>1. Len(s) \in Nat /\ Len(Append(s, p)) = Len(s) + 1 /\ Append(s, p)[Len(s) + 1] = p
  BY AppendProperties, LenProperties
<1>2. \A i \in 1 .. Len(s) : Append(s, p)[i] = s[i]
  BY AppendProperties
<1>3. \A i \in 1 .. Len(s) + 1 : i \in 1 .. Len(s) \/ i = Len(s) + 1
  BY <1>1, SMT
<1> QED BY <1>1, <1>2, <1>3

LEMMA QuietKept ==
  ASSUME TypeOK, Requests, Quiet, Traffic, pc # "idle"
  PROVE  Quiet'
<1>0. toClient \in Seq(Packets) /\ toBroker \in Seq(Packets)
  BY DEF TypeOK
<1>1. ASSUME toBroker' = toBroker \/ \E p \in Packets : ~ (Asks(p) /\ OfPublish(p)) /\ Sends(p)
      PROVE  \A i \in 1 .. Len(toBroker') : ~ (Asks(toBroker'[i]) /\ OfPublish(toBroker'[i]))
  <2>1. CASE toBroker' = toBroker
    BY <2>1 DEF Quiet
  <2>2. ASSUME NEW p \in Packets, ~ (Asks(p) /\ OfPublish(p)), toBroker' = Append(toBroker, p),
               NEW i \in 1 .. Len(toBroker')
        PROVE  ~ (Asks(toBroker'[i]) /\ OfPublish(toBroker'[i]))
    <3>1. toBroker'[i] = p \/ (i \in 1 .. Len(toBroker) /\ toBroker'[i] = toBroker[i])
      BY <1>0, <2>2, Grown
    <3> QED BY <2>2, <3>1 DEF Quiet
  <2> QED BY <1>1, <2>1, <2>2 DEF Sends
<1>2. ASSUME \/ toClient' = toClient \/ Take
             \/ \E q \in Packets : q.type # "puback" /\ toClient' = Append(toClient, q)
      PROVE  \A i \in 1 .. Len(toClient') : toClient'[i].type # "puback"
  <2>1. CASE toClient' = toClient
    BY <2>1 DEF Quiet
  <2>2. CASE Take
    <3>1. \A i \in 1 .. Len(toClient') : i + 1 \in 1 .. Len(toClient) /\ toClient'[i] = toClient[i + 1]
      BY <1>0, <2>2, HeadFacts, SMT
    <3> QED BY <3>1 DEF Quiet
  <2>3. ASSUME NEW q \in Packets, q.type # "puback", toClient' = Append(toClient, q),
               NEW i \in 1 .. Len(toClient')
        PROVE  toClient'[i].type # "puback"
    <3>1. toClient'[i] = q \/ (i \in 1 .. Len(toClient) /\ toClient'[i] = toClient[i])
      BY <1>0, <2>3, Grown
    <3> QED BY <2>3, <3>1 DEF Quiet
  <2> QED BY <1>2, <2>1, <2>2, <2>3
<1>3. CASE Cleared
  <2>1. ~ Asks(Control("connect", 0))
    BY PacketFields DEF Asks
  <2> QED BY <1>3, <2>1 DEF Cleared, Quiet
<1>4. CASE (toClient' = toClient \/ Take) /\ SendsNone
  BY <1>1, <1>2, <1>4 DEF SendsNone, Quiet
<1>5. CASE BrokerTake
  <2>1. \A i \in 1 .. Len(toBroker') : i + 1 \in 1 .. Len(toBroker) /\ toBroker'[i] = toBroker[i + 1]
    BY <1>0, <1>5, ReplyCarries, LenProperties, SMT
  <2>2. 1 \in 1 .. Len(toBroker) /\ Head(toBroker) = toBroker[1]
    BY <1>5, ReplyCarries, ReplyCases
  <2>3. \/ toClient' = toClient
        \/ \E q \in Packets : q.type # "puback" /\ toClient' = Append(toClient, q)
    <3>1. ~ (Asks(Head(toBroker)) /\ OfPublish(Head(toBroker)))
      BY <2>2 DEF Quiet
    <3>2. ~ (Asks(Head(toBroker)) /\ Head(toBroker).type = "publication")
      BY <3>1 DEF OfPublish
    <3> QED BY <1>5, <3>2, ReplyCarries
  <2> QED BY <1>2, <2>1, <2>3 DEF Quiet
<1>6. CASE \E f \in Feeds : BrokerSend(f)
  <2>1. PICK f \in Feeds : BrokerSend(f)
    BY <1>6
  <2>2. sent'[f] \in Nat
    BY <2>1, SMT DEF BrokerSend, TypeOK
  <2>3. Packet("publish", f, sent'[f], 0) \in Packets /\ Packet("publish", f, sent'[f], 0).type # "puback"
    BY <2>2, PacketType, PacketFields, Sizes DEF Types
  <2>4. \/ toClient' = toClient
        \/ \E q \in Packets : q.type # "puback" /\ toClient' = Append(toClient, q)
    BY <2>1, <2>3 DEF BrokerSend
  <2>5. toBroker' = toBroker
    BY <2>1 DEF BrokerSend
  <2> QED BY <1>2, <2>4, <2>5 DEF Quiet
<1>7. CASE (toClient' = toClient \/ Take) /\ \E p \in Packets : p.type = "subscribe" /\ Sends(p)
  BY <1>1, <1>2, <1>7 DEF Quiet, OfPublish
<1> QED BY <1>3, <1>4, <1>5, <1>6, <1>7 DEF Traffic

LEMMA QuietStep ==
  TypeOK /\ Phases /\ Streams /\ Requests /\ QuietBefore /\ [Next]_vars => QuietBefore'
<1> SUFFICES ASSUME TypeOK, Phases, Streams, Requests, QuietBefore, [Next]_vars, Subscribing'
             PROVE  Quiet'
  BY DEF QuietBefore
<1>1. CASE Connect
  <2>1. toClient' = <<>> /\ toBroker' = <<Control("connect", 0)>> /\ ~ Asks(Control("connect", 0))
    BY <1>1, PacketFields DEF Connect, Asks
  <2> QED BY <2>1 DEF Quiet
<1>2. CASE ~ Connect
  <2>1. Subscribing
    <3>1. CASE ReadConnack \/ ReadSuback \/ NoSuback
      BY <3>1 DEF ReadConnack, ReadSuback, NoSuback, Subscribing
    <3>2. ASSUME NEW type, NEW r, WaitFor(type, r), type \in {"puback", "pingresp"} PROVE Subscribing
      BY <3>2 DEF WaitFor, Return, ReturnTo, ReadOn, call, Phases, Subscribing
    <3>3. CASE \/ Ping \/ ReadUnsuback \/ ProcessPackets \/ ReadUnread \/ ReadPacket \/ ProcessDone
               \/ CallbackReturn \/ (\E f \in Feeds : Subscribe(f) \/ Unsubscribe(f))
      BY <3>3 DEF Ping, ReadUnsuback, ProcessPackets, ReadUnread, ReadPacket, ProcessDone, Give,
                  CallbackReturn, Subscribe, Unsubscribe, ReadFor, Return, ReturnTo, Phases, Subscribing
    <3>4. CASE CallbackPublishes \/ \E qos \in {0, 1} : Calls("idle") /\ Publish(qos)
      BY <3>4 DEF CallbackPublishes, Calls, Publish, ReadFor, ReturnTo, Subscribing
    <3>5. CASE \/ Disconnect \/ Drop \/ BrokerTake \/ (\E f \in Feeds : BrokerSend(f)) \/ UNCHANGED vars
      BY <3>5 DEF Disconnect, Drop, BrokerTake, BrokerSend, vars, call, Subscribing
    <3> QED BY <1>2, <3>1, <3>2, <3>3, <3>4, <3>5 DEF Next, Client, ReadPuback, ReadPingresp
  <2> QED BY <2>1, QuietKept, TrafficOf DEF QuietBefore, Subscribing
<1> QED BY <1>1, <1>2

\* Where the packets under way stand.
PlacesAre ==
  /\ Len(toClient) \in Nat /\ Len(toBroker) \in Nat /\ Under \in Nat
  /\ Under = Len(toClient) + Len(toBroker)
  /\ \A i \in 1 .. Len(toClient) :
       i \in 1 .. Under /\ At(i) = toClient[i] /\ (Carries(i) <=> Acks(toClient[i]))
  /\ \A i \in 1 .. Under : i > Len(toClient) =>
       /\ i - Len(toClient) \in 1 .. Len(toBroker)
       /\ At(i) = toBroker[i - Len(toClient)]
       /\ Carries(i) <=> Asks(toBroker[i - Len(toClient)])

LEMMA Places == TypeOK => PlacesAre
<1> SUFFICES ASSUME TypeOK PROVE PlacesAre
  OBVIOUS
<1>1. Len(toClient) \in Nat /\ Len(toBroker) \in Nat
  BY LenProperties DEF TypeOK
<1>2. Under \in Nat /\ Under = Len(toClient) + Len(toBroker)
  BY <1>1, SMT DEF Under
<1>3. ASSUME NEW i \in 1 .. Len(toClient)
      PROVE  i \in 1 .. Under /\ At(i) = toClient[i] /\ (Carries(i) <=> Acks(toClient[i]))
  <2>1. i \in 1 .. Under /\ i <= Len(toClient)
    BY <1>1, <1>2, SMT
  <2> QED BY <2>1 DEF At, Carries
<1>4. ASSUME NEW i \in 1 .. Under, i > Len(toClient)
      PROVE  /\ i - Len(toClient) \in 1 .. Len(toBroker)
             /\ At(i) = toBroker[i - Len(toClient)]
             /\ Carries(i) <=> Asks(toBroker[i - Len(toClient)])
  <2>1. i - Len(toClient) \in 1 .. Len(toBroker) /\ ~ (i <= Len(toClient))
    BY <1>1, <1>2, <1>4, SMT
  <2> QED BY <2>1 DEF At, Carries
<1> QED BY <1>1, <1>2, <1>3, <1>4 DEF PlacesAre

LEMMA PlacesNext == TypeOK' => PlacesAre'
BY Places, PTL

\* The client takes a packet, or sends one that carries no identifier.
LEMMA ChainTaken ==
  ASSUME TypeOK, TypeOK', Chain, toClient' = toClient \/ Take, SendsNone, counter' = counter
  PROVE  Chain'
<1>1. PICK d \in {0, 1} :
        /\ Len(toClient) \in Nat /\ Len(toClient)' = Len(toClient) - d
        /\ \A i \in 1 .. Len(toClient)' : i + d \in 1 .. Len(toClient) /\ toClient'[i] = toClient[i + d]
  <2>1. Len(toClient) \in Nat
    BY LenProperties DEF TypeOK
  <2>2. CASE toClient' = toClient
    <3>1. \A i \in 1 .. Len(toClient) : i + 0 = i
      BY <2>1, SMT
    <3> QED BY <2>1, <2>2, <3>1
  <2>3. CASE Take
    <3>1. Len(toClient') = Len(toClient) - 1 /\ \A i \in 1 .. Len(toClient') : toClient'[i] = toClient[i + 1]
      BY <2>3, HeadFacts
    <3>2. \A i \in 1 .. Len(toClient') : i + 1 \in 1 .. Len(toClient)
      BY <2>1, <3>1, SMT
    <3> QED BY <2>1, <3>1, <3>2
  <2> QED BY <2>2, <2>3
<1>2. /\ Len(toBroker) \in Nat /\ Len(toBroker)' \in Nat /\ Len(toBroker)' >= Len(toBroker)
      /\ \A i \in 1 .. Len(toBroker) : toBroker'[i] = toBroker[i]
      /\ \A i \in 1 .. Len(toBroker)' : i > Len(toBroker) => ~ Asks(toBroker'[i])
  <2>1. toBroker \in Seq(Packets) /\ Len(toBroker) \in Nat
    BY LenProperties DEF TypeOK
  <2>2. CASE toBroker' = toBroker
    BY <2>1, <2>2
  <2>3. ASSUME NEW p \in Packets, ~ Asks(p), toBroker' = Append(toBroker, p)
        PROVE  /\ Len(toBroker)' = Len(toBroker) + 1
               /\ \A i \in 1 .. Len(toBroker) : toBroker'[i] = toBroker[i]
               /\ \A i \in 1 .. Len(toBroker)' : i \in 1 .. Len(toBroker) \/ ~ Asks(toBroker'[i])
    BY <2>1, <2>3, Grown
  <2>4. CASE toBroker' # toBroker
    BY <2>1, <2>3, <2>4 DEF SendsNone, Sends
  <2> QED BY <2>2, <2>4
<1>3. PlacesAre /\ PlacesAre'
  BY Places, PlacesNext
<1>4. ASSUME NEW i \in 1 .. Under', Carries(i)'
      PROVE  i + d \in 1 .. Under /\ Carries(i + d) /\ At(i)' = At(i + d)
  <2>1. CASE i <= Len(toClient)'
    <3>1. i \in 1 .. Len(toClient)' /\ i + d \in 1 .. Len(toClient)
      BY <1>1, <2>1, SMT
    <3> QED BY <1>1, <1>3, <1>4, <3>1 DEF PlacesAre
  <2>2. CASE i > Len(toClient)'
    <3>1. /\ i - Len(toClient)' \in 1 .. Len(toBroker)'
          /\ At(i)' = toBroker'[i - Len(toClient)'] /\ Asks(toBroker'[i - Len(toClient)'])
      BY <1>3, <1>4, <2>2 DEF PlacesAre
    <3>2. i - Len(toClient)' \in 1 .. Len(toBroker)
      BY <1>1, <1>2, <3>1
    <3>3. i + d \in 1 .. Under /\ i + d > Len(toClient) /\ i + d - Len(toClient) = i - Len(toClient)'
      BY <1>1, <1>2, <1>3, <2>2, <3>2 DEF PlacesAre
    <3>4. At(i + d) = toBroker[i + d - Len(toClient)] /\ (Carries(i + d) <=> Asks(toBroker[i + d - Len(toClient)]))
      BY <1>3, <3>3 DEF PlacesAre
    <3>5. toBroker'[i - Len(toClient)'] = toBroker[i - Len(toClient)']
      BY <1>2, <3>2
    <3> QED BY <3>1, <3>3, <3>4, <3>5
  <2> QED BY <1>1, <1>3, <2>1, <2>2 DEF PlacesAre
<1>5. ASSUME NEW j \in 1 .. Under, j > d, Carries(j)
      PROVE  j - d \in 1 .. Under' /\ Carries(j - d)'
  <2>1. CASE j <= Len(toClient)
    <3>1. j \in 1 .. Len(toClient) /\ j - d \in 1 .. Len(toClient)' /\ (j - d) + d = j
      BY <1>1, <1>5, <2>1
    <3>2. toClient'[j - d] = toClient[j]
      BY <1>1, <3>1
    <3> QED BY <1>3, <1>5, <3>1, <3>2 DEF PlacesAre
  <2>2. CASE j > Len(toClient)
    <3>1. j - Len(toClient) \in 1 .. Len(toBroker) /\ Asks(toBroker[j - Len(toClient)])
      BY <1>3, <1>5, <2>2 DEF PlacesAre
    <3>2. /\ j - d \in 1 .. Under' /\ j - d > Len(toClient)'
          /\ (j - d) - Len(toClient)' = j - Len(toClient)
      BY <1>1, <1>2, <1>3, <1>5, <2>2, <3>1 DEF PlacesAre
    <3> QED BY <1>2, <1>3, <3>1, <3>2 DEF PlacesAre
  <2> QED BY <1>1, <1>3, <2>1, <2>2 DEF PlacesAre
<1> DEFINE m == [i \in 1 .. Under' |-> i + d]
<1>6. \A i \in 1 .. Under' : m[i] = i + d
  OBVIOUS
<1> HIDE DEF m
<1>7. \A i, j \in 1 .. Under' : Carries(i)' /\ Carries(j)' /\ i <= j => m[i] <= m[j]
  BY <1>6
<1>8. ASSUME NEW i \in 1 .. Under', NEW j \in 1 .. Under, Carries(i)', Carries(j), m[i] < j
      PROVE  \E l \in 1 .. Under' : i < l /\ Carries(l)' /\ m[l] = j
  <2>1. j > d /\ i < j - d /\ (j - d) + d = j
    BY <1>6, <1>8
  <2> QED BY <1>5, <1>6, <1>8, <2>1
<1>9. \A i \in 1 .. Under' : Carries(i)' =>
        /\ m[i] \in 1 .. Under /\ Carries(m[i])
        /\ At(i)'.id = At(m[i]).id /\ (OfPublish(At(i)') => OfPublish(At(m[i])))
  BY <1>4, <1>6
<1>10. Under \in Nat /\ Under' \in Nat
  BY <1>3 DEF PlacesAre
<1> QED BY <1>7, <1>8, <1>9, <1>10, ChainKept

\* The broker sends the client a message.
LEMMA ChainSent ==
  ASSUME TypeOK, TypeOK', Chain, NEW q \in Packets, ~ Acks(q),
         toClient' = Append(toClient, q), toBroker' = toBroker, counter' = counter
  PROVE  Chain'
<1>c. PICK c \in Nat : c = Len(toClient)
  BY Places DEF PlacesAre
<1> DEFINE m == [i \in 1 .. Under' |-> IF i <= c THEN i ELSE i - 1]
<1>1. PlacesAre /\ PlacesAre' /\ toClient \in Seq(Packets)
  BY Places, PlacesNext DEF TypeOK
<1>2. /\ Len(toClient') = c + 1 /\ toClient'[c + 1] = q
      /\ \A i \in 1 .. c : toClient'[i] = toClient[i]
  BY <1>c, <1>1, Grown
<1>3. c \in Nat /\ Len(toBroker) \in Nat /\ Under = c + Len(toBroker) /\ Under' = Under + 1
  BY <1>c, <1>1, <1>2 DEF PlacesAre
<1>4. \A i \in 1 .. Under' : m[i] = IF i <= c THEN i ELSE i - 1
  OBVIOUS
<1> HIDE DEF m
<1>5. ASSUME NEW i \in 1 .. c
      PROVE  i \in 1 .. Under /\ i \in 1 .. Under' /\ At(i)' = At(i) /\ (Carries(i)' <=> Carries(i))
  <2>1. i \in 1 .. Len(toClient') /\ i \in 1 .. Len(toClient)
    BY <1>c, <1>2, <1>3, SMT
  <2>2. At(i)' = toClient'[i] /\ (Carries(i)' <=> Acks(toClient'[i])) /\ i \in 1 .. Under'
    BY <1>c, <1>1, <2>1 DEF PlacesAre
  <2>3. At(i) = toClient[i] /\ (Carries(i) <=> Acks(toClient[i])) /\ i \in 1 .. Under
    BY <1>c, <1>1, <2>1 DEF PlacesAre
  <2> QED BY <1>2, <2>2, <2>3
<1>6. ~ Carries(c + 1)'
  <2>1. c + 1 \in 1 .. Len(toClient')
    BY <1>c, <1>2, <1>3, SMT
  <2> QED BY <1>c, <1>1, <1>2, <2>1 DEF PlacesAre
<1>7. ASSUME NEW j \in 1 .. Under, j > c
      PROVE  j + 1 \in 1 .. Under' /\ At(j + 1)' = At(j) /\ (Carries(j + 1)' <=> Carries(j))
  <2>1. j + 1 \in 1 .. Under' /\ j + 1 > Len(toClient)' /\ (j + 1) - Len(toClient)' = j - c
    BY <1>c, <1>2, <1>3, <1>7
  <2>2. At(j) = toBroker[j - c] /\ (Carries(j) <=> Asks(toBroker[j - c]))
    BY <1>c, <1>1, <1>7 DEF PlacesAre
  <2>3. /\ At(j + 1)' = toBroker'[(j + 1) - Len(toClient)']
        /\ Carries(j + 1)' <=> Asks(toBroker'[(j + 1) - Len(toClient)'])
    BY <1>c, <1>1, <2>1 DEF PlacesAre
  <2> QED BY <2>1, <2>2, <2>3
<1>8. ASSUME NEW i \in 1 .. Under', Carries(i)'
      PROVE  m[i] \in 1 .. Under /\ Carries(m[i]) /\ At(i)' = At(m[i]) /\ i # c + 1
  <2>1. i # c + 1
    BY <1>6, <1>8
  <2>2. CASE i <= c
    BY <1>3, <1>4, <1>5, <1>8, <2>1, <2>2
  <2>3. CASE i > c
    <3>1. i - 1 \in 1 .. Under /\ i - 1 > c /\ (i - 1) + 1 = i /\ m[i] = i - 1
      BY <1>3, <1>4, <2>1, <2>3
    <3> QED BY <1>7, <1>8, <2>1, <3>1
  <2> QED BY <1>3, <2>2, <2>3
<1>9. \A i, j \in 1 .. Under' : Carries(i)' /\ Carries(j)' /\ i <= j => m[i] <= m[j]
  BY <1>3, <1>4, <1>8
<1>10. ASSUME NEW i \in 1 .. Under', NEW j \in 1 .. Under, Carries(i)', Carries(j), m[i] < j
       PROVE  \E l \in 1 .. Under' : i < l /\ Carries(l)' /\ m[l] = j
  <2>1. CASE j <= c
    <3>1. j \in 1 .. c /\ i < j
      BY <1>3, <1>4, <1>8, <1>10, <2>1
    <3> QED BY <1>4, <1>5, <1>10, <3>1
  <2>2. CASE j > c
    <3>1. i < j + 1
      BY <1>3, <1>4, <1>10, <2>2
    <3>2. j + 1 \in 1 .. Under' /\ Carries(j + 1)'
      BY <1>7, <1>10, <2>2
    <3>3. m[j + 1] = j
      BY <1>3, <1>4, <2>2, <3>2
    <3> QED BY <3>1, <3>2, <3>3
  <2> QED BY <1>3, <2>1, <2>2
<1>11. Under \in Nat /\ Under' \in Nat
  BY <1>c, <1>1 DEF PlacesAre
<1> QED BY <1>8, <1>9, <1>10, <1>11, ChainKept

\* The broker takes a packet and answers it, or takes one that needs no answer.
LEMMA ChainAnswered ==
  ASSUME TypeOK, TypeOK', Requests, Chain, BrokerTake
  PROVE  Chain'
<1>c. PICK c \in Nat : c = Len(toClient)
  BY Places DEF PlacesAre
<1> DEFINE p == toBroker[1]
<1>1. PlacesAre /\ PlacesAre' /\ toClient \in Seq(Packets) /\ toBroker \in Seq(Packets)
  BY Places, PlacesNext DEF TypeOK
<1>2. /\ Len(toBroker') = Len(toBroker) - 1 /\ counter' = counter /\ 1 \in 1 .. Len(toBroker)
      /\ \A i \in 1 .. Len(toBroker') : toBroker'[i] = toBroker[i + 1]
  BY ReplyCarries, ReplyCases DEF BrokerTake
<1>3. PICK e \in {0, 1} :
        /\ Len(toClient') = c + e
        /\ \A i \in 1 .. c : toClient'[i] = toClient[i]
        /\ e = 0 => ~ Asks(p)
        /\ e = 1 => /\ Acks(toClient'[c + 1]) <=> Asks(p)
                    /\ Asks(p) => toClient'[c + 1].id = p.id
                    /\ OfPublish(toClient'[c + 1]) => OfPublish(p)
  <2>1. CASE toClient' = toClient /\ ~ Asks(p)
    <3>1. 0 # 1 /\ Len(toClient') = c + 0
      BY <1>c, <2>1
    <3> QED BY <2>1, <3>1
  <2>2. ASSUME NEW q \in Packets, toClient' = Append(toClient, q)
        PROVE  /\ Len(toClient') = c + 1 /\ toClient'[c + 1] = q
               /\ \A i \in 1 .. c : toClient'[i] = toClient[i]
    BY <1>c, <1>1, <2>2, Grown
  <2>3. ASSUME NEW q \in Packets, toClient' = Append(toClient, q), Acks(q) <=> Asks(p),
               Asks(p) => q.id = p.id, OfPublish(q) => OfPublish(p)
        PROVE  /\ Len(toClient') = c + 1
               /\ \A i \in 1 .. c : toClient'[i] = toClient[i]
               /\ Acks(toClient'[c + 1]) <=> Asks(p)
               /\ Asks(p) => toClient'[c + 1].id = p.id
               /\ OfPublish(toClient'[c + 1]) => OfPublish(p)
    BY <2>2, <2>3
  <2> QED BY <2>1, <2>3, ReplyCarries
<1> DEFINE m == [i \in 1 .. Under' |-> IF i <= c THEN i ELSE i + 1 - e]
<1>4. /\ c \in Nat /\ Len(toBroker) \in Nat /\ Under = c + Len(toBroker) /\ Len(toBroker) >= 1
      /\ Under' = Under + e - 1
  BY <1>c, <1>1, <1>2, <1>3 DEF PlacesAre
<1>5. \A i \in 1 .. Under' : m[i] = IF i <= c THEN i ELSE i + 1 - e
  OBVIOUS
<1> HIDE DEF m
<1>6. ASSUME NEW i \in 1 .. c
      PROVE  i \in 1 .. Under /\ i \in 1 .. Under' /\ At(i)' = At(i) /\ (Carries(i)' <=> Carries(i))
  <2>1. i \in 1 .. Len(toClient') /\ i \in 1 .. Len(toClient)
    BY <1>c, <1>3, <1>4, SMT
  <2>2. At(i)' = toClient'[i] /\ (Carries(i)' <=> Acks(toClient'[i])) /\ i \in 1 .. Under'
    BY <1>c, <1>1, <2>1 DEF PlacesAre
  <2>3. At(i) = toClient[i] /\ (Carries(i) <=> Acks(toClient[i])) /\ i \in 1 .. Under
    BY <1>c, <1>1, <2>1 DEF PlacesAre
  <2> QED BY <1>3, <2>2, <2>3
<1>7. c + 1 \in 1 .. Under /\ At(c + 1) = p /\ (Carries(c + 1) <=> Asks(p))
  <2>1. c + 1 \in 1 .. Under /\ c + 1 > c /\ (c + 1) - c = 1
    BY <1>4, SMT
  <2> QED BY <1>c, <1>1, <2>1 DEF PlacesAre
<1>8. ASSUME e = 1
      PROVE  /\ c + 1 \in 1 .. Under' /\ (Carries(c + 1)' <=> Asks(p))
             /\ Asks(p) => At(c + 1)'.id = p.id
             /\ OfPublish(At(c + 1)') => OfPublish(p)
  <2>1. c + 1 \in 1 .. Len(toClient')
    BY <1>3, <1>4, <1>8, SMT
  <2>2. /\ c + 1 \in 1 .. Under' /\ At(c + 1)' = toClient'[c + 1]
        /\ Carries(c + 1)' <=> Acks(toClient'[c + 1])
    BY <1>c, <1>1, <2>1 DEF PlacesAre
  <2> QED BY <1>3, <1>8, <2>2
<1>9. ASSUME NEW j \in 1 .. Under, j > c + 1
      PROVE  /\ j - 1 + e \in 1 .. Under' /\ j - 1 + e > c /\ At(j - 1 + e)' = At(j)
             /\ Carries(j - 1 + e)' <=> Carries(j)
  <2>1. /\ j - 1 + e \in 1 .. Under' /\ j - 1 + e > Len(toClient)'
        /\ (j - 1 + e) - Len(toClient)' = j - c - 1 /\ (j - c - 1) + 1 = j - c /\ j > c
        /\ j - c - 1 \in 1 .. Len(toBroker')
    BY <1>c, <1>2, <1>3, <1>4, <1>9
  <2>2. At(j) = toBroker[j - c] /\ (Carries(j) <=> Asks(toBroker[j - c]))
    BY <1>c, <1>1, <2>1 DEF PlacesAre
  <2>3. /\ At(j - 1 + e)' = toBroker'[(j - 1 + e) - Len(toClient)']
        /\ Carries(j - 1 + e)' <=> Asks(toBroker'[(j - 1 + e) - Len(toClient)'])
    BY <1>c, <1>1, <2>1 DEF PlacesAre
  <2>4. toBroker'[j - c - 1] = toBroker[j - c]
    BY <1>2, <2>1
  <2>5. j - 1 + e > c
    BY <1>4, <1>9
  <2> QED BY <2>1, <2>2, <2>3, <2>4, <2>5
<1>10. ASSUME NEW i \in 1 .. Under', Carries(i)'
       PROVE  /\ m[i] \in 1 .. Under /\ Carries(m[i]) /\ At(i)'.id = At(m[i]).id
              /\ OfPublish(At(i)') => OfPublish(At(m[i]))
  <2>1. CASE i <= c
    BY <1>4, <1>5, <1>6, <1>10, <2>1
  <2>2. CASE i = c + 1 /\ e = 1
    <3>1. m[i] = c + 1
      BY <1>4, <1>5, <2>2
    <3> QED BY <1>7, <1>8, <1>10, <2>2, <3>1
  <2>3. CASE i > c /\ ~ (i = c + 1 /\ e = 1)
    <3>1. /\ i + 1 - e \in 1 .. Under /\ i + 1 - e > c + 1 /\ (i + 1 - e) - 1 + e = i
          /\ m[i] = i + 1 - e
      BY <1>4, <1>5, <2>3
    <3> QED BY <1>9, <1>10, <3>1
  <2> QED BY <1>4, <2>1, <2>2, <2>3
<1>11. \A i, j \in 1 .. Under' : Carries(i)' /\ Carries(j)' /\ i <= j => m[i] <= m[j]
  BY <1>4, <1>5
<1>12. ASSUME NEW i \in 1 .. Under', NEW j \in 1 .. Under, Carries(i)', Carries(j), m[i] < j
       PROVE  \E l \in 1 .. Under' : i < l /\ Carries(l)' /\ m[l] = j
  <2>1. CASE j <= c
    <3>1. j \in 1 .. c /\ i < j
      BY <1>4, <1>5, <1>12, <2>1
    <3> QED BY <1>5, <1>6, <1>12, <3>1
  <2>2. CASE j = c + 1
    <3>1. e = 1
      BY <1>3, <1>7, <1>12, <2>2
    <3>2. c + 1 \in 1 .. Under' /\ Carries(c + 1)' /\ i < c + 1 /\ m[c + 1] = c + 1
      BY <1>4, <1>5, <1>7, <1>8, <1>12, <2>2, <3>1
    <3> QED BY <2>2, <3>2
  <2>3. CASE j > c + 1
    <3>1. j - 1 + e \in 1 .. Under' /\ Carries(j - 1 + e)' /\ j - 1 + e > c
      BY <1>9, <1>12, <2>3
    <3>2. m[j - 1 + e] = j /\ i < j - 1 + e
      BY <1>4, <1>5, <1>12, <2>3, <3>1
    <3> QED BY <3>1, <3>2
  <2> QED BY <1>4, <2>1, <2>2, <2>3
<1>13. Under \in Nat /\ Under' \in Nat
  BY <1>c, <1>1 DEF PlacesAre
<1> QED BY <1>2, <1>10, <1>11, <1>12, <1>13, ChainKept

\* The client uses an identifier: the others are one older, and none comes round.
LEMMA ChainAsked ==
  ASSUME TypeOK, TypeOK', Chain, Under < IdSize, toClient' = toClient,
         counter' = After(counter), NEW p \in Packets, Asks(p), p.id = counter,
         toBroker' = Append(toBroker, p)
  PROVE  /\ Chain'
         /\ \A i \in 1 .. Under :
              /\ At(i)' = At(i) /\ (Carries(i)' <=> Carries(i))
              /\ Carries(i) /\ OfPublish(At(i)) => AgeAt(i)' # 1
<1>c. PICK c \in Nat : c = Len(toClient)
  BY Places DEF PlacesAre
<1>u. PICK u \in Nat : u = Under
  BY Places DEF PlacesAre
<1>1. PlacesAre /\ PlacesAre' /\ toBroker \in Seq(Packets) /\ IdSize \in Nat
  BY Places, PlacesNext, Sizes DEF TypeOK
<1>2. counter \in Ids /\ counter' \in Ids
  BY DEF TypeOK, Ids
<1>3. /\ Len(toBroker') = Len(toBroker) + 1 /\ toBroker'[Len(toBroker) + 1] = p
      /\ \A i \in 1 .. Len(toBroker) : toBroker'[i] = toBroker[i]
  BY <1>1, Grown
<1>4. Under' = u + 1 /\ u = c + Len(toBroker) /\ Len(toBroker) \in Nat
  BY <1>c, <1>u, <1>1, <1>3 DEF PlacesAre
<1>5. ASSUME NEW i \in 1 .. u
      PROVE  At(i)' = At(i) /\ (Carries(i)' <=> Carries(i)) /\ i \in 1 .. Under'
  <2>1. i \in 1 .. Under /\ i \in 1 .. Under'
    BY <1>u, <1>4, SMT
  <2>2. CASE i <= c
    <3>1. i \in 1 .. Len(toClient) /\ i \in 1 .. Len(toClient)'
      BY <1>c, <2>2, SMT
    <3>2. At(i) = toClient[i] /\ (Carries(i) <=> Acks(toClient[i]))
      BY <1>1, <3>1 DEF PlacesAre
    <3>3. At(i)' = toClient'[i] /\ (Carries(i)' <=> Acks(toClient'[i]))
      BY <1>1, <3>1 DEF PlacesAre
    <3> QED BY <2>1, <3>2, <3>3
  <2>3. CASE i > c
    <3>1. i > Len(toClient) /\ i > Len(toClient)' /\ i - c \in 1 .. Len(toBroker)
      BY <1>c, <1>u, <1>4, <2>3
    <3>2. At(i) = toBroker[i - c] /\ (Carries(i) <=> Asks(toBroker[i - c]))
      BY <1>c, <1>1, <2>1, <3>1 DEF PlacesAre
    <3>3. At(i)' = toBroker'[i - c] /\ (Carries(i)' <=> Asks(toBroker'[i - c]))
      BY <1>c, <1>1, <2>1, <3>1 DEF PlacesAre
    <3> QED BY <1>3, <2>1, <3>1, <3>2, <3>3
  <2> QED BY <2>2, <2>3
<1>6. At(u + 1)' = p /\ Carries(u + 1)' /\ u + 1 \in 1 .. Under'
  <2>1. u + 1 \in 1 .. Under' /\ u + 1 > Len(toClient)' /\ (u + 1) - Len(toClient)' = Len(toBroker) + 1
    BY <1>c, <1>4
  <2>2. /\ At(u + 1)' = toBroker'[(u + 1) - Len(toClient)']
        /\ Carries(u + 1)' <=> Asks(toBroker'[(u + 1) - Len(toClient)'])
    BY <1>1, <2>1 DEF PlacesAre
  <2> QED BY <1>3, <2>1, <2>2
<1>7. AgeAt(u + 1)' = 1
  BY <1>2, <1>6, AgeIs DEF AgeAt
<1>8. ASSUME NEW k \in 1 .. u, NEW i \in 1 .. u, k <= i, Carries(k), OfPublish(At(k)), Carries(i)
      PROVE  Linked(i) /\ AgeAt(i) \in Nat /\ AgeAt(i) >= 1 /\ AgeAt(i)' = AgeAt(i) + 1
  <2>1. k \in 1 .. Under /\ i \in 1 .. Under /\ i \in k .. Under
    BY <1>u, <1>8
  <2>2. Linked(i)
    BY <1>8, <2>1 DEF Chain
  <2>3. AgeAt(i) <= Under - i + 1
    BY <1>8, <2>1, ChainBounds
  <2>4. At(i).id \in Ids /\ At(i)' = At(i)
    BY <1>5, <2>2 DEF Linked
  <2>5. AgeAt(i) \in 1 .. IdSize
    BY <1>2, <2>4, AgeIs DEF AgeAt
  <2>6. AgeAt(i) < IdSize /\ AgeAt(i) \in Nat /\ AgeAt(i) >= 1
    BY <1>u, <1>1, <2>1, <2>3, <2>5
  <2>7. AgeAt(i)' = AgeAt(i) + 1
    BY <1>2, <2>4, <2>6, AgeIs DEF AgeAt
  <2> QED BY <2>2, <2>6, <2>7
<1>9. Chain'
  <2> SUFFICES ASSUME NEW k \in 1 .. Under', NEW i \in 1 .. Under', k <= i,
                      Carries(k)', OfPublish(At(k))', Carries(i)'
               PROVE  Linked(i)'
    BY DEF Chain
  <2>1. CASE i = u + 1
    BY <1>2, <1>6, <1>7, <2>1 DEF Linked
  <2>2. CASE i # u + 1
    <3>1. k \in 1 .. u /\ i \in 1 .. u
      BY <1>4, <2>2
    <3>2. Carries(k) /\ OfPublish(At(k)) /\ Carries(i)
      BY <1>5, <3>1
    <3>3. Linked(i) /\ AgeAt(i) \in Nat /\ AgeAt(i) >= 1 /\ AgeAt(i)' = AgeAt(i) + 1
      BY <1>8, <3>1, <3>2
    <3>4. At(i)'.id \in Ids
      BY <1>5, <3>1, <3>3 DEF Linked
    <3>5. CASE AgeAt(i) = 1
      <4>1. AgeAt(u + 1)' = AgeAt(i)' - 1 /\ u + 1 \in i + 1 .. Under'
        BY <1>4, <1>7, <3>1, <3>3, <3>5
      <4> QED BY <1>6, <3>4, <4>1 DEF Linked
    <3>6. ASSUME NEW j \in i + 1 .. Under, Carries(j), AgeAt(j) = AgeAt(i) - 1 PROVE Linked(i)'
      <4>1. j \in 1 .. u /\ k <= j /\ j \in i + 1 .. Under'
        BY <1>u, <1>4, <3>1
      <4>2. AgeAt(j)' = AgeAt(j) + 1 /\ AgeAt(j) \in Nat
        BY <1>8, <3>1, <3>2, <3>6, <4>1
      <4>3. AgeAt(j)' = AgeAt(i)' - 1 /\ Carries(j)'
        BY <1>5, <3>3, <3>6, <4>1, <4>2
      <4> QED BY <3>4, <4>1, <4>3 DEF Linked
    <3> QED BY <3>3, <3>5, <3>6 DEF Linked
  <2> QED BY <2>1, <2>2
<1>10. ASSUME NEW i \in 1 .. Under, Carries(i), OfPublish(At(i)) PROVE AgeAt(i)' # 1
  <2>1. i \in 1 .. u /\ i <= i
    BY <1>u, <1>10
  <2>2. AgeAt(i) \in Nat /\ AgeAt(i) >= 1 /\ AgeAt(i)' = AgeAt(i) + 1
    BY <1>8, <1>10, <2>1
  <2> QED BY <2>2
<1> QED BY <1>u, <1>5, <1>9, <1>10

LEMMA QuietChain == TypeOK /\ Quiet => Chain
<1> SUFFICES ASSUME TypeOK, Quiet, NEW k \in 1 .. Under, Carries(k), OfPublish(At(k)) PROVE FALSE
  BY DEF Chain
<1>1. PlacesAre
  BY Places
<1>2. CASE k <= Len(toClient)
  <2>1. k \in 1 .. Len(toClient)
    BY <1>1, <1>2, SMT DEF PlacesAre
  <2>2. At(k) = toClient[k] /\ Acks(toClient[k])
    BY <1>1, <2>1 DEF PlacesAre
  <2> QED BY <2>1, <2>2 DEF Quiet, Acks, OfPublish
<1>3. CASE k > Len(toClient)
  <2>1. /\ k - Len(toClient) \in 1 .. Len(toBroker) /\ At(k) = toBroker[k - Len(toClient)]
        /\ Asks(toBroker[k - Len(toClient)])
    BY <1>1, <1>3 DEF PlacesAre
  <2> QED BY <2>1 DEF Quiet
<1> QED BY <1>1, <1>2, <1>3, SMT DEF PlacesAre

LEMMA ChainStep == TypeOK /\ TypeOK' /\ Requests /\ QuietBefore /\ Chain /\ Traffic => Chain'
<1> SUFFICES ASSUME TypeOK, TypeOK', Requests, QuietBefore, Chain, Traffic PROVE Chain'
  OBVIOUS
<1>1. ASSUME Quiet' PROVE Chain'
  BY <1>1, QuietChain, PTL
<1>2. CASE Cleared
  <2>1. Quiet'
    BY <1>2, PacketFields DEF Cleared, Quiet, Asks
  <2> QED BY <1>1, <2>1
<1>3. CASE (toClient' = toClient \/ Take) /\ SendsNone /\ counter' = counter
  BY <1>3, ChainTaken
<1>4. CASE BrokerTake
  BY <1>4, ChainAnswered
<1>5. ASSUME NEW f \in Feeds, BrokerSend(f) PROVE Chain'
  <2> DEFINE q == Packet("publish", f, sent'[f], 0)
  <2>1. sent'[f] \in Nat
    BY <1>5, SMT DEF BrokerSend, TypeOK
  <2>2. q \in Packets /\ ~ Acks(q)
    BY <2>1, PacketType, PacketFields, Sizes DEF Types, Acks
  <2>3. (toClient' = Append(toClient, q) \/ toClient' = toClient) /\ toBroker' = toBroker /\ counter' = counter
    BY <1>5 DEF BrokerSend
  <2> QED BY <2>2, <2>3, ChainSent, ChainTaken DEF SendsNone
<1>6. CASE /\ pc = "idle" /\ Under < IdSize /\ toClient' = toClient /\ counter' = After(counter)
           /\ \E p \in Packets : Asks(p) /\ p.id = counter /\ Sends(p)
  BY <1>6, ChainAsked DEF Sends
<1>7. CASE Subscribing
  BY <1>1, <1>7, QuietKept DEF QuietBefore, Subscribing
<1> QED BY <1>2, <1>3, <1>4, <1>5, <1>6, <1>7 DEF Traffic

\* While publish() waits, the packet with the identifier before the counter's is its
\* own message, or the acknowledgement of it.
Awaited ==
  pc = "puback" =>
    /\ \A i \in 1 .. Len(toClient) :
         toClient[i].type = "puback" /\ AgeOf(toClient[i].id, counter) = 1 => calls \in taken
    /\ \A i \in 1 .. Len(toBroker) :
         Asks(toBroker[i]) /\ OfPublish(toBroker[i]) /\ AgeOf(toBroker[i].id, counter) = 1 =>
           toBroker[i].n = calls

\* publish() waits from where it is called with QoS 1.
LEMMA WaitBegins ==
  ASSUME TypeOK, Phases, [Next]_vars, pc' = "puback"
  PROVE  \/ pc = "puback" /\ calls' = calls /\ taken \subseteq taken'
         \/ Calls("idle") /\ Publish(1) /\ socket = "open"
<1>1. CASE ReadConnack \/ ReadSuback \/ NoSuback
  BY <1>1 DEF ReadConnack, ReadSuback, NoSuback, SubscribeFrom, ReadFor, ReadOn, call, Return, ReturnTo, Phases
<1>2. ASSUME NEW type \in {"puback", "pingresp"}, NEW r, WaitFor(type, r)
      PROVE  pc = "puback" /\ calls' = calls /\ taken \subseteq taken'
  BY <1>2 DEF WaitFor, Return, ReturnTo, ReadOn, call, Phases, history
<1>3. CASE \/ Connect \/ Ping \/ ReadUnsuback \/ ProcessPackets \/ ReadUnread \/ ReadPacket
           \/ ProcessDone \/ CallbackReturn \/ (\E f \in Feeds : Subscribe(f) \/ Unsubscribe(f))
  BY <1>3 DEF Connect, Ping, ReadUnsuback, ProcessPackets, ReadUnread, ReadPacket, ProcessDone, Give,
              CallbackReturn, Subscribe, Unsubscribe, ReadFor, Return, ReturnTo, Phases
<1>4. CASE CallbackPublishes
  BY <1>4 DEF CallbackPublishes, Calls, Publish, SaveQos, ReadFor, ReturnTo
<1>5. ASSUME NEW qos \in {0, 1}, Calls("idle"), Publish(qos)
      PROVE  Calls("idle") /\ Publish(1) /\ socket = "open"
  <2>1. qos = 1 /\ socket = "open"
    BY <1>5 DEF Publish, Calls, ReadFor, ReturnTo
  <2> QED BY <1>5, <2>1
<1>6. CASE Disconnect \/ Drop \/ (\E f \in Feeds : BrokerSend(f)) \/ UNCHANGED vars
  BY <1>6 DEF Disconnect, Drop, BrokerSend, vars, call, history
<1>7. CASE BrokerTake
  BY <1>7 DEF BrokerTake, call
<1> QED BY <1>1, <1>2, <1>3, <1>4, <1>5, <1>6, <1>7 DEF Next, Client, ReadPuback, ReadPingresp

LEMMA AwaitedKept ==
  ASSUME TypeOK, Requests, Awaited, Traffic, pc = "puback", calls' = calls, taken \subseteq taken'
  PROVE  Awaited'
<1>0. toClient \in Seq(Packets) /\ toBroker \in Seq(Packets) /\ pc # "idle" /\ ~ Subscribing
  BY DEF TypeOK, Subscribing
<1> DEFINE Own(p) == Asks(p) /\ OfPublish(p) /\ AgeOf(p.id, counter) = 1 => p.n = calls
           Acked(p) == p.type = "puback" /\ AgeOf(p.id, counter) = 1 => calls \in taken'
<1>1. /\ \A i \in 1 .. Len(toClient) : Acked(toClient[i])
      /\ \A i \in 1 .. Len(toBroker) : Own(toBroker[i])
  BY DEF Awaited
<1>2. ASSUME counter' = counter,
             \A i \in 1 .. Len(toClient') : Acked(toClient'[i]),
             \A i \in 1 .. Len(toBroker') : Own(toBroker'[i])
      PROVE  Awaited'
  BY <1>2 DEF Awaited
<1>3. ASSUME NEW q \in Packets, Acked(q), toClient' = Append(toClient, q)
      PROVE  \A i \in 1 .. Len(toClient') : Acked(toClient'[i])
  <2>1. \A i \in 1 .. Len(toClient') :
          toClient'[i] = q \/ (i \in 1 .. Len(toClient) /\ toClient'[i] = toClient[i])
    BY <1>0, <1>3, Grown
  <2> QED BY <1>1, <1>3, <2>1
<1>4. CASE Cleared
  BY <1>4, PacketFields DEF Cleared, Awaited, Asks
<1>5. CASE (toClient' = toClient \/ Take) /\ SendsNone /\ counter' = counter
  <2>1. \A i \in 1 .. Len(toClient') : Acked(toClient'[i])
    <3>1. CASE Take
      <4>1. \A i \in 1 .. Len(toClient') : i + 1 \in 1 .. Len(toClient) /\ toClient'[i] = toClient[i + 1]
        BY <1>0, <3>1, HeadFacts, SMT
      <4> QED BY <1>1, <4>1
    <3> QED BY <1>1, <1>5, <3>1
  <2>2. \A i \in 1 .. Len(toBroker') : Own(toBroker'[i])
    <3>1. ASSUME NEW p \in Packets, ~ Asks(p), toBroker' = Append(toBroker, p)
          PROVE  \A i \in 1 .. Len(toBroker') : Own(toBroker'[i])
      <4>1. \A i \in 1 .. Len(toBroker') :
              toBroker'[i] = p \/ (i \in 1 .. Len(toBroker) /\ toBroker'[i] = toBroker[i])
        BY <1>0, <3>1, Grown
      <4> QED BY <1>1, <3>1, <4>1
    <3> QED BY <1>1, <1>5, <3>1 DEF SendsNone, Sends
  <2> QED BY <1>2, <1>5, <2>1, <2>2
<1>6. CASE BrokerTake
  <2> DEFINE p == toBroker[1]
  <2>1. /\ counter' = counter /\ p = Head(toBroker) /\ 1 \in 1 .. Len(toBroker)
        /\ p.type = "publication" => p.n \in taken'
    BY <1>6, ReplyCarries, ReplyCases DEF BrokerTake
  <2>2. \A i \in 1 .. Len(toBroker') : Own(toBroker'[i])
    <3>1. \A i \in 1 .. Len(toBroker') : i + 1 \in 1 .. Len(toBroker) /\ toBroker'[i] = toBroker[i + 1]
      BY <1>0, <1>6, ReplyCarries, LenProperties, SMT
    <3> QED BY <1>1, <3>1
  <2>3. Own(p)
    BY <1>1, <2>1
  <2>4. ASSUME NEW q \in Packets, Asks(p) => q.id = p.id,
               q.type = "puback" => Asks(p) /\ p.type = "publication"
        PROVE  Acked(q)
    BY <2>1, <2>3, <2>4 DEF OfPublish
  <2>5. \A i \in 1 .. Len(toClient') : Acked(toClient'[i])
    <3>1. CASE toClient' = toClient
      BY <1>1, <3>1
    <3>2. CASE \E q \in Packets : /\ toClient' = Append(toClient, q) /\ (Asks(p) => q.id = p.id)
                                  /\ q.type = "puback" => Asks(p) /\ p.type = "publication"
      BY <1>3, <2>4, <3>2
    <3> QED BY <1>6, <2>1, <3>1, <3>2, ReplyCarries
  <2> QED BY <1>2, <2>1, <2>2, <2>5
<1>7. ASSUME NEW f \in Feeds, BrokerSend(f) PROVE Awaited'
  <2> DEFINE q == Packet("publish", f, sent'[f], 0)
  <2>1. sent'[f] \in Nat
    BY <1>7, SMT DEF BrokerSend, TypeOK
  <2>2. q \in Packets /\ Acked(q)
    BY <2>1, PacketType, PacketFields, Sizes DEF Types
  <2>3. toClient' = Append(toClient, q) \/ toClient' = toClient
    BY <1>7 DEF BrokerSend
  <2>4. toBroker' = toBroker /\ counter' = counter
    BY <1>7 DEF BrokerSend
  <2> QED BY <1>1, <1>2, <1>3, <2>2, <2>3, <2>4
<1> QED BY <1>0, <1>4, <1>5, <1>6, <1>7 DEF Traffic

\* When it begins, the older identifiers are not the one before the counter's.
LEMMA AwaitedBegins ==
  ASSUME TypeOK, TypeOK', Chain, Calls("idle"), Publish(1), socket = "open"
  PROVE  Awaited'
<1> DEFINE p == Packet("publication", NoFeed, calls', counter)
<1>1. calls' \in Nat /\ counter \in 0 .. IdSize /\ counter < IdSize
  BY Sizes, SMT DEF Publish, TypeOK
<1>2. p \in Packets /\ Asks(p) /\ p.id = counter /\ p.n = calls'
  BY <1>1, PacketType, PacketFields DEF Types, Asks
<1>3. toBroker' = Append(toBroker, p) /\ toClient' = toClient /\ counter' = After(counter)
  BY DEF Publish, Send
<1>4. Under < IdSize
  BY LenProperties, Sizes, SMT DEF Calls, Under, TypeOK
<1> HIDE DEF p
<1>5. \A i \in 1 .. Under :
        /\ At(i)' = At(i) /\ (Carries(i)' <=> Carries(i))
        /\ Carries(i) /\ OfPublish(At(i)) => AgeAt(i)' # 1
  BY <1>2, <1>3, <1>4, ChainAsked
<1>6. PlacesAre /\ toBroker \in Seq(Packets)
  BY Places DEF TypeOK
<1>7. ASSUME NEW i \in 1 .. Len(toClient), toClient[i].type = "puback"
      PROVE  AgeOf(toClient[i].id, counter') # 1
  <2>1. i \in 1 .. Under /\ At(i) = toClient[i] /\ Carries(i) /\ OfPublish(At(i))
    BY <1>6, <1>7 DEF PlacesAre, Acks, OfPublish
  <2> QED BY <1>5, <2>1 DEF AgeAt
<1>8. ASSUME NEW i \in 1 .. Len(toBroker), Asks(toBroker[i]), OfPublish(toBroker[i])
      PROVE  AgeOf(toBroker[i].id, counter') # 1
  <2>1. PICK j \in 1 .. Under : j > Len(toClient) /\ j - Len(toClient) = i
    <3>1. /\ Len(toClient) + i \in 1 .. Under /\ Len(toClient) + i > Len(toClient)
          /\ (Len(toClient) + i) - Len(toClient) = i
      BY <1>6, SMT DEF PlacesAre
    <3> QED BY <3>1
  <2>2. At(j) = toBroker[i] /\ Carries(j) /\ OfPublish(At(j))
    BY <1>6, <1>8, <2>1 DEF PlacesAre
  <2> QED BY <1>5, <2>1, <2>2 DEF AgeAt
<1>9. \A i \in 1 .. Len(toBroker') :
        toBroker'[i] = p \/ (i \in 1 .. Len(toBroker) /\ toBroker'[i] = toBroker[i])
  BY <1>2, <1>3, <1>6, Grown
<1> QED BY <1>2, <1>3, <1>7, <1>8, <1>9 DEF Awaited

-----------------------------------------------------------------------------
(* The theorems *)

IInv ==
  /\ TypeOK /\ Requests /\ Phases /\ Streams /\ Mails
  /\ QuietBefore /\ Chain /\ Awaited

LEMMA InvInit == Init => IInv
<1> SUFFICES ASSUME Init PROVE IInv
  OBVIOUS
<1>1. TypeOK
  BY TypeInit
<1>2. Requests /\ Streams /\ Quiet
  BY DEF Init, Requests, Streams, Quiet
<1>3. Phases
  BY DEF Init, Phases
<1>4. Mails
  BY Sizes DEF Init, Mails, Mailed
<1>5. Chain
  BY <1>1, <1>2, QuietChain
<1>6. Awaited
  BY DEF Init, Awaited
<1> QED BY <1>1, <1>2, <1>3, <1>4, <1>5, <1>6 DEF IInv, QuietBefore

LEMMA InvStep == IInv /\ [Next]_vars => IInv'
<1> SUFFICES ASSUME IInv, [Next]_vars PROVE IInv'
  OBVIOUS
<1>0. TypeOK /\ Requests /\ Phases /\ Streams /\ Mails /\ QuietBefore /\ Chain /\ Awaited
  BY DEF IInv
<1>1. TypeOK' /\ Requests' /\ Phases' /\ QuietBefore'
  BY <1>0, TypeStep, RequestsStep, PhasesStep, QuietStep
<1>2. Effects /\ Traffic
  BY <1>0, EffectsOf, TrafficOf
<1>3. Streams' /\ Mails' /\ Chain'
  BY <1>0, <1>1, <1>2, StreamsStep, MailsStep, ChainStep
<1>4. Awaited'
  <2>1. CASE pc' # "puback"
    BY <2>1 DEF Awaited
  <2>2. CASE pc' = "puback"
    BY <1>0, <1>1, <1>2, <2>2, WaitBegins, AwaitedKept, AwaitedBegins
  <2> QED BY <2>1, <2>2
<1> QED BY <1>1, <1>3, <1>4 DEF IInv

LEMMA Inductive == Spec => []IInv
BY InvInit, InvStep, PTL DEF Spec

\* Every variable has its type, and no feed has two slots, for any number of feeds,
\* slots and packets under way.
THEOREM TypeCorrect == Spec => []TypeOK
BY Inductive, PTL DEF IInv

\* What a callback looks at does not change before it returns, although it is the
\* subscription's own data and the callback may publish.
THEOREM DataStays == Spec => []CallbackDataStable
<1>1. IInv => CallbackDataStable
  BY DEF IInv, Phases, CallbackDataStable
<1> QED BY <1>1, Inductive, PTL

-----------------------------------------------------------------------------
(* What is taken from the stream is kept, the newest for each subscription. *)

Newest == last = arrived

\* Reading on, a call keeps what it comes across.
LEMMA PassedIsKept ==
  ASSUME TypeOK, Newest, Take, PassOver(Head(toClient)), pc \notin {"connack", "unsuback"}
  PROVE  Newest'
<1> DEFINE p == Head(toClient)
<1>1. CASE Matches(p)
  BY <1>1 DEF PassOver, Handle, Take, Newest
<1>2. CASE ~ Matches(p)
  BY <1>2 DEF PassOver, Take, Newest
<1> QED BY <1>1, <1>2

LEMMA NewestStep == TypeOK /\ Newest /\ [Next]_vars => Newest'
<1> SUFFICES ASSUME TypeOK, Newest, [Next]_vars PROVE Newest'
  OBVIOUS
<1>1. CASE ReadConnack
  <2>1. arrived' = arrived /\ last' = last
    BY <1>1 DEF ReadConnack, Take, TakeNone, store
  <2> QED BY <2>1 DEF Newest
<1>2. CASE ReadUnsuback
  <2>1. arrived' = arrived /\ last' = last
    BY <1>2 DEF ReadUnsuback, Take, TakeNone
  <2> QED BY <2>1 DEF Newest
<1>3. CASE ReadSuback
  <2>1. CASE Head(toClient).type = "suback"
    BY <1>3, <2>1 DEF ReadSuback, Take, Matches, Newest
  <2>2. CASE Head(toClient).type # "suback"
    BY <1>3, <2>2, PassedIsKept DEF ReadSuback
  <2> QED BY <2>1, <2>2
<1>4. ASSUME NEW type \in {"puback", "pingresp"}, NEW r, WaitFor(type, r) PROVE Newest'
  <2>1. pc \notin {"connack", "unsuback"}
    BY <1>4 DEF WaitFor
  <2>2. CASE Take /\ Head(toClient).type = type /\ last' = last
    <3>1. ~ Matches(Head(toClient))
      BY <2>2 DEF Matches
    <3> QED BY <2>2, <3>1 DEF Take, Newest
  <2>3. CASE Take /\ PassOver(Head(toClient))
    BY <2>1, <2>3, PassedIsKept
  <2>4. CASE TakeNone /\ last' = last
    BY <2>4 DEF TakeNone, Newest
  <2> QED BY <1>4, <2>2, <2>3, <2>4 DEF WaitFor
<1>5. CASE ReadPacket
  <2>1. Take /\ pc \notin {"connack", "unsuback"}
    BY <1>5 DEF ReadPacket
  <2>2. CASE Matches(Head(toClient))
    BY <1>5, <2>1, <2>2 DEF ReadPacket, Handle, Take, Newest
  <2>3. CASE ~ Matches(Head(toClient))
    BY <1>5, <2>1, <2>3 DEF ReadPacket, Take, Newest
  <2> QED BY <2>2, <2>3
<1>6. CASE \/ Connect \/ NoSuback \/ Ping \/ ProcessPackets \/ ReadUnread \/ ProcessDone
           \/ CallbackReturn \/ Disconnect \/ Drop \/ BrokerTake
           \/ (\E f \in Feeds : Subscribe(f) \/ Unsubscribe(f) \/ BrokerSend(f))
           \/ (\E qos \in {0, 1} : Publish(qos)) \/ UNCHANGED vars
  <2>1. arrived' = arrived /\ last' = last
    BY <1>6 DEF Connect, NoSuback, TakeNone, Ping, ProcessPackets, ReadUnread, ProcessDone,
                CallbackReturn, Disconnect, Drop, BrokerTake, Subscribe, Unsubscribe, BrokerSend,
                Publish, vars, store
  <2> QED BY <2>1 DEF Newest
<1> QED
  BY <1>1, <1>2, <1>3, <1>4, <1>5, <1>6
     DEF Next, Client, CallbackPublishes, ReadPuback, ReadPingresp, SaveQos

LEMMA NewestIsKept == Spec => []Newest
<1>1. Init => Newest
  BY DEF Init, Newest
<1>2. IInv => TypeOK
  BY DEF IInv
<1> QED BY <1>1, <1>2, NewestStep, Inductive, PTL DEF Spec

\* A subscription has the newest message that was taken from the stream for it, and
\* without an unread one it has been given that.
THEOREM LastIsGiven == Spec => []GivenIsLast
<1>1. IInv /\ Newest => GivenIsLast
  BY DEF IInv, Mails, Mailed, GivenIsLast, Last, Newest
<1> QED BY <1>1, Inductive, NewestIsKept, PTL

\* publish() with QoS 1 returns true only for a message that the broker has taken,
\* though identifiers wrap and acknowledgements of earlier messages come late.
LEMMA TakenStep ==
  IInv /\ [Next]_vars => [pc = "puback" /\ pc' = back /\ result' => calls \in taken]_vars
<1> SUFFICES ASSUME IInv, [Next]_vars, pc = "puback", pc' = back, result' PROVE calls \in taken
  OBVIOUS
<1>0. TypeOK /\ Phases /\ Chain /\ Awaited /\ back = "idle" /\ pc' = "idle" /\ pc # "idle"
  BY DEF IInv, Phases
<1>1. ASSUME NEW r, WaitFor("puback", r), r = (toClient # <<>> /\ Answers(Head(toClient)))
      PROVE  calls \in taken
  <2>1. CASE TakeNone /\ Return(FALSE)
    BY <2>1 DEF Return, ReturnTo
  <2>2. CASE ReadOn
    BY <1>0, <2>2 DEF ReadOn, call
  <2>3. CASE Take /\ Head(toClient).type = "puback" /\ Return(r)
    <3>1. /\ Answers(Head(toClient)) /\ Head(toClient) = toClient[1] /\ 1 \in 1 .. Len(toClient)
          /\ toClient[1].type = "puback"
      BY <1>0, <1>1, <2>3, HeadFacts DEF Return, ReturnTo
    <3>2. 1 \in 1 .. Under /\ At(1) = toClient[1] /\ Carries(1)
      BY <1>0, <3>1, Places DEF PlacesAre, Acks
    <3>3. toClient[1].id \in Ids
      BY <1>0, <3>1, <3>2, SMT DEF Chain, Linked, OfPublish
    <3>4. AgeOf(toClient[1].id, counter) = 1
      BY <1>0, <3>1, <3>3, AgeIs DEF Answers, TypeOK, Ids
    <3> QED BY <1>0, <3>1, <3>4 DEF Awaited
  <2> QED BY <1>1, <2>1, <2>2, <2>3 DEF WaitFor
<1>2. CASE ReadPuback
  BY <1>1, <1>2 DEF ReadPuback
<1>3. CASE \/ Connect \/ ReadConnack \/ ReadSuback \/ NoSuback \/ Ping \/ ReadUnsuback
           \/ (\E f \in Feeds : Subscribe(f) \/ Unsubscribe(f)) \/ ProcessPackets \/ ReadUnread
           \/ ReadPacket \/ ProcessDone \/ CallbackPublishes \/ CallbackReturn \/ Disconnect
           \/ (\E qos \in {0, 1} : Calls("idle") /\ Publish(qos)) \/ ReadPingresp
  BY <1>3 DEF Connect, ReadConnack, ReadSuback, NoSuback, Ping, ReadUnsuback, Subscribe,
              Unsubscribe, ProcessPackets, ReadUnread, ReadPacket, ProcessDone, CallbackPublishes,
              CallbackReturn, Disconnect, Calls, ReadPingresp, WaitFor
<1>4. CASE Drop \/ BrokerTake \/ (\E f \in Feeds : BrokerSend(f)) \/ UNCHANGED vars
  BY <1>0, <1>4 DEF Drop, BrokerTake, BrokerSend, vars, call
<1> QED BY <1>2, <1>3, <1>4 DEF Next, Client

\* When publish() with QoS 1 returns true, the broker has taken that very message.
THEOREM AcknowledgedIsTaken == Spec => PublishedIsTaken
BY TakenStep, Inductive, PTL DEF Spec, PublishedIsTaken

LEMMA MailInit == Init => Mail!Init
BY DEF Init, Mail!Init

LEMMA MailStep == IInv /\ [Next]_vars => [Mail!Next]_<<sent, given>>
<1> SUFFICES ASSUME IInv, [Next]_vars PROVE [Mail!Next]_<<sent, given>>
  OBVIOUS
<1>0. TypeOK /\ Streams /\ Mails /\ Effects
  BY EffectsOf DEF IInv
<1>1. ASSUME NEW f \in Feeds, NEW n \in Nat, n >= 1, n <= sent[f], Given(f, n), sent' = sent,
             \A i \in 1 .. Len(given[f]) : given[f][i] < n
      PROVE  Mail!Next
  <2>1. sent[f] \in Nat /\ n \in 1 .. sent[f]
    BY <1>0, <1>1, SMT DEF TypeOK
  <2>2. DOMAIN given[f] = 1 .. Len(given[f])
    BY <1>0, LenProperties DEF TypeOK
  <2>3. Mail!Give(f)
    BY <1>1, <2>1, <2>2 DEF Mail!Give, Given
  <2> QED BY <2>3 DEF Mail!Next
<1>2. CASE UNCHANGED <<sent, given>>
  BY <1>2
<1>3. ASSUME NEW f \in new, Given(f, last[f]), sent' = sent PROVE Mail!Next
  <2>1. f \in Feeds /\ last[f] \in Nat
    BY <1>0 DEF TypeOK
  <2> QED BY <1>0, <1>1, <1>3, <2>1 DEF Mails, Mailed
<1>4. ASSUME NEW p \in Packets, Received(p), p.feed \notin new, Given(p.feed, p.n) PROVE Mail!Next
  <2>1. p.feed \in Feeds /\ p.n \in Nat /\ sent' = sent
    BY <1>4 DEF Received
  <2>2. last[p.feed] < p.n /\ p.n <= sent[p.feed]
    BY <1>0, <1>4, HeadFacts DEF Received, Streams, Publishes
  <2>3. given[p.feed] \in Seq(Nat) /\ last[p.feed] \in Nat
    BY <1>0, <2>1 DEF TypeOK
  <2>4. \A i \in 1 .. Len(given[p.feed]) : given[p.feed][i] <= last[p.feed] /\ given[p.feed][i] \in Nat
    BY <1>0, <2>1, <2>3, ElementOfSeq DEF Mails, Mailed
  <2>5. \A i \in 1 .. Len(given[p.feed]) : given[p.feed][i] < p.n
    BY <2>1, <2>2, <2>3, <2>4
  <2>6. p.n >= 1
    BY <2>1, <2>2, <2>3
  <2> QED BY <1>1, <1>4, <2>1, <2>2, <2>5, <2>6
<1>5. ASSUME NEW f \in Feeds, BrokerSend(f) PROVE Mail!Next
  BY <1>5 DEF BrokerSend, Mail!Next, Mail!Publish
<1> QED BY <1>0, <1>2, <1>3, <1>4, <1>5 DEF Effects, Received

\* The application is given newer and newer messages of each feed: none twice, and
\* none older than one it had, whatever it misses.
THEOREM KeepsPromise == Spec => ImplementsMail
BY MailInit, MailStep, Inductive, PTL DEF Spec, Mail!Spec, ImplementsMail
=============================================================================
