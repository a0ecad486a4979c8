----------------------------- MODULE FeedClient -----------------------------
(***************************************************************************)
(* The calls of an Adafruit_MQTT client and the packets they wait for.     *)
(* Every call sends a packet and reads until its answer comes or nothing   *)
(* more does; messages that come in between go into their subscription,    *)
(* which has room for one, and wait there for readSubscription().  Times,  *)
(* lengths and refused connections are left to AdafruitIO and FeedPackets. *)
(***************************************************************************)
EXTENDS Naturals, FiniteSetsExt, SequencesExt

CONSTANTS
  Feeds,      \* the Adafruit_MQTT_Subscribe objects
  QosOf,      \* QosOf[f]: the quality of service each subscribes with
  MaxSlots,   \* MAXSUBSCRIPTIONS
  IdSize,     \* values of packet_id_counter
  MaxTries,   \* connect() sends a SUBSCRIBE so many times
  MaxSent,    \* bound: MaxSent[f] messages are published to feed f
  MaxCalls,   \* bound: messages the application publishes
  MaxConnects,\* bound: connections
  MaxWire     \* bound: packets under way when a call begins

ASSUME FeedAssumption ==
  /\ "none" \notin Feeds /\ QosOf \in [Feeds -> {0, 1}] /\ MaxSlots \in Nat \ {0} /\ MaxTries \in Nat \ {0}
  /\ MaxSent \in [Feeds -> Nat] /\ {MaxCalls, MaxConnects, MaxWire} \subseteq Nat
  /\ IdSize \in Nat /\ MaxWire + 1 < IdSize \* 65536 packets are not under way at once

VARIABLES
  \* the client
  slots,      \* subscriptions[]: the feed in each, or NoFeed
  new,        \* the feeds whose new_message is set
  last,       \* the message in each feed's lastread
  counter,    \* packet_id_counter
  pc,         \* what the client reads for, "idle", or "callback"
  index, tries,  \* connect()'s
  back,       \* where the call under way was made: "idle" or "callback"
  feed, view, \* the subscription whose callback runs, and its data as it was
  result,     \* what the last call returned
  \* the connection and the broker
  socket,     \* "open" or "closed"
  toBroker, toClient,
  subscribed, \* the feeds the broker sends
  \* history
  sent,       \* how many messages were published to each feed
  given,      \* the numbers of those the application was given, in order
  arrived,    \* the number of the newest that was taken from the stream for each
  calls,      \* how many messages the application published
  taken,      \* which of them the broker has taken
  connects    \* how many connections there were

store   == <<slots, new, last>>
call    == <<pc, index, tries, back, result>>
inside  == <<feed, view>>
wires   == <<socket, toBroker, toClient>>
history == <<sent, given, calls, taken, connects>>
vars    == <<store, counter, call, inside, wires, subscribed, history, arrived>>

NoFeed == "none"
\* uint16_t packet_id_counter wraps.
After(id) == (id + 1) % IdSize

\* A packet; f and n are its feed and the number of its message, where it has one.
Packet(type, f, n, id) == [type |-> type, feed |-> f, n |-> n, id |-> id]
Control(type, id) == Packet(type, NoFeed, 0, id)

-----------------------------------------------------------------------------
(* The steps calls are made of *)

\* sendPacket() fails when the socket is closed.
Send(p) == toBroker' = IF socket = "open" THEN Append(toBroker, p) ELSE toBroker

\* The packets under way are bounded where the application makes a call.
Calls(from) == pc = from /\ Len(toBroker) + Len(toClient) < MaxWire

\* A call begins or goes on to read for something, or returns r.
ReadFor(what, i, try) == pc' = what /\ index' = i /\ tries' = try /\ result' = TRUE
ReadOn == UNCHANGED call
ReturnTo(where, r) ==
  pc' = where /\ result' = r /\ index' = 1 /\ tries' = 1 /\ back' = "idle"
Return(r) == ReturnTo(back, r)

SlotOf(f) == {i \in DOMAIN slots : slots[i] = f}
Unread == {i \in DOMAIN slots : slots[i] \in new}

\* handleSubscriptionPacket(): the data is put into the subscription whether or
\* not the last one was read, and acknowledged.  (Faulty: a message that waits to be
\* read is kept.)
Matches(p) == p.type = "publish" /\ SlotOf(p.feed) # {}
HandleIfRead(p) ==
  /\ last' = [last EXCEPT ![p.feed] = IF p.feed \in new THEN @ ELSE p.n]
  /\ IF QosOf[p.feed] = 1 THEN Send(Control("puback", p.id)) ELSE UNCHANGED toBroker
Handle(p) ==
  /\ last' = [last EXCEPT ![p.feed] = p.n]
  /\ IF QosOf[p.feed] = 1 THEN Send(Control("puback", p.id)) ELSE UNCHANGED toBroker

\* processPacketsUntil() comes across another packet than it waits for.
PassOver(p) ==
  IF Matches(p)
    THEN Handle(p) /\ new' = new \cup {p.feed}
    ELSE UNCHANGED <<last, new, toBroker>>

\* The next packet is taken from the stream, or none comes in time.  (connect() and
\* unsubscribe() look at one packet only, and for their answer: a message is lost.)
Take ==
  /\ toClient # <<>> /\ toClient' = Tail(toClient)
  /\ arrived' = IF Matches(Head(toClient)) /\ pc \notin {"connack", "unsuback"}
                  THEN [arrived EXCEPT ![Head(toClient).feed] = Head(toClient).n] ELSE arrived
TakeNone == toClient = <<>> /\ UNCHANGED <<toClient, arrived>>

-----------------------------------------------------------------------------
(* Calls of the application *)

\* connect(): a new TCP connection, and CONNECT with a clean session.
Connect ==
  /\ pc = "idle" /\ socket = "closed" /\ connects < MaxConnects
  /\ socket' = "open" /\ toClient' = <<>>
  /\ toBroker' = <<Control("connect", 0)>>
  /\ ReadFor("connack", 1, 1) /\ back' = "idle" /\ connects' = connects + 1
  /\ UNCHANGED <<store, counter, inside, subscribed, sent, given, arrived, calls, taken>>

\* It subscribes what is in the slots from i on, or is done.
SendSubscribe(i) ==
  /\ Send(Packet("subscribe", slots[i], 0, counter))
  /\ counter' = After(counter)
SubscribeFrom(i) ==
  LET rest == {j \in i .. MaxSlots : slots[j] # NoFeed}
  IN  IF rest = {}
        THEN Return(TRUE) /\ UNCHANGED <<counter, toBroker>>
        ELSE SendSubscribe(Min(rest)) /\ ReadFor("suback", Min(rest), 1) /\ UNCHANGED back

ReadConnack ==
  /\ pc = "connack"
  /\ \/ Take /\ Head(toClient).type = "connack" /\ SubscribeFrom(1)
     \/ /\ (Take /\ Head(toClient).type # "connack") \/ TakeNone
        /\ Return(FALSE) /\ UNCHANGED <<counter, toBroker>>
  /\ UNCHANGED <<store, inside, socket, subscribed, history>>

ReadSuback ==
  /\ pc = "suback" /\ Take
  /\ IF Head(toClient).type = "suback"
       THEN SubscribeFrom(index + 1) /\ UNCHANGED <<last, new>>
       ELSE PassOver(Head(toClient)) /\ ReadOn /\ UNCHANGED counter
  /\ UNCHANGED <<slots, inside, socket, subscribed, history>>

NoSuback ==
  /\ pc = "suback" /\ TakeNone
  /\ IF tries < MaxTries /\ socket = "open"
       THEN SendSubscribe(index) /\ ReadFor("suback", index, tries + 1) /\ UNCHANGED back
       ELSE Return(FALSE) /\ UNCHANGED <<toBroker, counter>>
  /\ UNCHANGED <<store, inside, socket, subscribed, history>>

\* publish(): with QoS 1 it waits for the PUBACK.
Publish(qos) ==
  /\ calls < MaxCalls
  /\ calls' = calls + 1
  /\ Send(Packet("publication", NoFeed, calls', IF qos = 1 THEN counter ELSE IdSize))
  /\ counter' = IF qos = 1 THEN After(counter) ELSE counter
  /\ IF qos = 1 /\ socket = "open"
       THEN ReadFor("puback", 1, 1) /\ back' = pc
       ELSE ReturnTo(pc, socket = "open")
  /\ UNCHANGED <<store, inside, socket, toClient, subscribed, sent, given, arrived, taken, connects>>

\* The answer is the one to this message if its identifier is the one before the
\* counter.  (Faulty: any PUBACK will do.)
AnswersAny(p) == TRUE
Answers(p) == After(p.id) = counter

\* A call waits for a packet of the type, and returns r when it comes.
WaitFor(type, r) ==
  /\ pc = type
  /\ \/ /\ Take
        /\ IF Head(toClient).type = type
             THEN Return(r) /\ UNCHANGED <<last, new, toBroker>>
             ELSE PassOver(Head(toClient)) /\ ReadOn
     \/ TakeNone /\ Return(FALSE) /\ UNCHANGED <<last, new, toBroker>>
  /\ UNCHANGED <<slots, counter, inside, socket, subscribed, history>>

ReadPuback == WaitFor("puback", toClient # <<>> /\ Answers(Head(toClient)))

\* subscribe(): a slot for the feed; the broker is told by the next connect(), so
\* that it is called while there is one to come.
Subscribe(f) ==
  /\ pc = "idle" /\ SlotOf(f) = {} /\ connects < MaxConnects
  /\ LET free == SlotOf(NoFeed)
     IN  /\ slots' = IF free = {} THEN slots ELSE [slots EXCEPT ![Min(free)] = f]
         /\ ReturnTo("idle", free # {})
  /\ UNCHANGED <<new, last, counter, inside, wires, subscribed, history, arrived>>

\* unsubscribe(): with QoS 1 the very next packet must be the UNSUBACK, and five
\* bytes long; readFullPacket() returns all of a packet's bytes, and an UNSUBACK
\* has four.
UnsubackLen == 4
Confirms(p) == p.type = "unsuback" /\ UnsubackLen = 5

Unsubscribe(f) ==
  /\ Calls("idle") /\ SlotOf(f) # {}
  /\ Send(Packet("unsubscribe", f, 0, counter))
  /\ counter' = After(counter)
  /\ LET i == Min(SlotOf(f))
     IN  IF QosOf[f] = 1 /\ socket = "open"
           THEN ReadFor("unsuback", i, 1) /\ UNCHANGED <<slots, back>>
           ELSE /\ slots' = IF socket = "open" THEN [slots EXCEPT ![i] = NoFeed] ELSE slots
                /\ ReturnTo("idle", socket = "open")
  /\ UNCHANGED <<new, last, inside, socket, toClient, subscribed, history, arrived>>

ReadUnsuback ==
  /\ pc = "unsuback"
  /\ \/ /\ Take /\ Return(Confirms(Head(toClient)))
        /\ slots' = IF result' THEN [slots EXCEPT ![index] = NoFeed] ELSE slots
     \/ TakeNone /\ Return(FALSE) /\ UNCHANGED slots
  /\ UNCHANGED <<new, last, counter, inside, socket, toBroker, subscribed, history>>

Ping ==
  /\ Calls("idle") /\ Send(Control("pingreq", 0))
  /\ IF socket = "open" THEN ReadFor("pingresp", 1, 1) ELSE ReturnTo("idle", FALSE)
  /\ back' = "idle"
  /\ UNCHANGED <<store, counter, inside, socket, toClient, subscribed, history, arrived>>

ReadPingresp == WaitFor("pingresp", TRUE)

\* processPackets() calls readSubscription() until its time is over.
ProcessPackets ==
  /\ pc = "idle" /\ ReadFor("process", 1, 1)
  /\ UNCHANGED <<store, counter, back, inside, wires, subscribed, history, arrived>>

Give(f, n) ==
  /\ pc' = "callback" /\ feed' = f /\ view' = n
  /\ given' = [given EXCEPT ![f] = Append(@, n)]

\* readSubscription() marks a message as read when it returns it.  (Faulty: only
\* one that comes from the stream.)
MarkedNot(f) == new
Marked(f) == new \ {f}

\* readSubscription() with an unread message: that of the first slot.
ReadUnread ==
  /\ pc = "process" /\ Unread # {}
  /\ LET f == slots[Min(Unread)]
     IN  new' = Marked(f) /\ Give(f, last[f])
  /\ UNCHANGED <<slots, last, counter, index, tries, back, result, wires, subscribed, sent,
                 arrived, calls, taken, connects>>

\* Without one, it reads a packet.
ReadPacket ==
  /\ pc = "process" /\ Unread = {} /\ Take
  /\ IF Matches(Head(toClient))
       THEN Handle(Head(toClient)) /\ Give(Head(toClient).feed, Head(toClient).n)
       ELSE UNCHANGED <<last, toBroker, pc, feed, view, given>>
  /\ UNCHANGED <<slots, new, counter, index, tries, back, result, socket, subscribed, sent,
                 calls, taken, connects>>

ProcessDone ==
  /\ pc = "process" /\ ReadFor("idle", 1, 1)
  /\ UNCHANGED <<store, counter, back, inside, wires, subscribed, history, arrived>>

\* A callback may publish: AdafruitIO_Feed::save() does so without QoS.  (Faulty:
\* with QoS 1.)
SaveQos1 == 1
SaveQos == 0

CallbackPublishes == Calls("callback") /\ Publish(SaveQos)

CallbackReturn ==
  /\ pc = "callback" /\ ReadFor("process", 1, 1) /\ view' = 0 /\ feed' = NoFeed
  /\ UNCHANGED <<store, counter, back, wires, subscribed, history, arrived>>

Disconnect ==
  /\ pc = "idle" /\ socket = "open"
  /\ socket' = "closed" /\ toClient' = <<>> /\ toBroker' = <<>> /\ subscribed' = {}
  /\ UNCHANGED <<store, counter, call, inside, history, arrived>>

-----------------------------------------------------------------------------
(* The broker and the connection (not under src/). *)

Init ==
  /\ slots = [i \in 1 .. MaxSlots |-> NoFeed]
  /\ new = {} /\ last = [f \in Feeds |-> 0]
  /\ counter = 0
  /\ pc = "idle" /\ back = "idle" /\ index = 1 /\ tries = 1 /\ result = TRUE
  /\ feed = NoFeed /\ view = 0
  /\ socket = "closed" /\ toBroker = <<>> /\ toClient = <<>> /\ subscribed = {}
  /\ sent = [f \in Feeds |-> 0] /\ given = [f \in Feeds |-> <<>>]
  /\ arrived = [f \in Feeds |-> 0] /\ calls = 0 /\ taken = {} /\ connects = 0

Reply(p) ==
  CASE p.type = "connect"     -> <<Control("connack", 0)>>
    [] p.type = "subscribe"   -> <<Control("suback", p.id)>>
    [] p.type = "unsubscribe" -> <<Control("unsuback", p.id)>>
    [] p.type = "pingreq"     -> <<Control("pingresp", 0)>>
    [] p.type = "publication" -> IF p.id < IdSize THEN <<Control("puback", p.id)>> ELSE <<>>
    [] p.type = "puback"      -> <<>>

BrokerTake ==
  /\ toBroker # <<>>
  /\ LET p == Head(toBroker)
     IN  /\ toClient' = toClient \o Reply(p)
         /\ subscribed' = CASE p.type = "subscribe"   -> subscribed \cup {p.feed}
                            [] p.type = "unsubscribe" -> subscribed \ {p.feed}
                            [] OTHER                  -> subscribed
         /\ taken' = IF p.type = "publication" THEN taken \cup {p.n} ELSE taken
  /\ toBroker' = Tail(toBroker)
  /\ UNCHANGED <<store, counter, call, inside, socket, sent, given, arrived, calls,
                 connects>>

\* A message is published to feed f, and the broker sends it if it is subscribed.
BrokerSend(f) ==
  /\ sent[f] < MaxSent[f]
  /\ sent' = [sent EXCEPT ![f] = @ + 1]
  /\ toClient' = IF f \in subscribed
                   THEN Append(toClient, Packet("publish", f, sent'[f], 0)) ELSE toClient
  /\ UNCHANGED <<store, counter, call, inside, socket, toBroker, subscribed, given, arrived,
                 calls, taken, connects>>

Drop ==
  /\ socket = "open"
  /\ socket' = "closed" /\ toClient' = <<>> /\ toBroker' = <<>> /\ subscribed' = {}
  /\ UNCHANGED <<store, counter, call, inside, history, arrived>>

Client ==
  \/ Connect \/ ReadConnack \/ ReadSuback \/ NoSuback
  \/ \E qos \in {0, 1} : Calls("idle") /\ Publish(qos)
  \/ ReadPuback \/ Ping \/ ReadPingresp
  \/ \E f \in Feeds : Subscribe(f) \/ Unsubscribe(f)
  \/ ReadUnsuback
  \/ ProcessPackets \/ ReadUnread \/ ReadPacket \/ ProcessDone
  \/ CallbackPublishes \/ CallbackReturn
  \/ Disconnect

Next == Client \/ BrokerTake \/ (\E f \in Feeds : BrokerSend(f)) \/ Drop

Spec == Init /\ [][Next]_vars

-----------------------------------------------------------------------------
(* Properties *)

Types == {"connect", "connack", "subscribe", "suback", "unsubscribe", "unsuback",
          "pingreq", "pingresp", "publish", "publication", "puback"}
Packets == [type : Types, feed : Feeds \cup {NoFeed}, n : Nat, id : 0 .. IdSize]

\* Every variable has its type, and no feed has two slots.
TypeOK ==
  /\ slots \in [1 .. MaxSlots -> Feeds \cup {NoFeed}]
  /\ \A i, j \in DOMAIN slots : slots[i] = slots[j] /\ slots[i] # NoFeed => i = j
  /\ new \subseteq Feeds /\ last \in [Feeds -> Nat]
  /\ counter \in 0 .. IdSize - 1
  /\ pc \in {"idle", "connack", "suback", "puback", "unsuback", "pingresp", "process",
             "callback"}
  /\ back \in {"idle", "callback"} /\ index \in 1 .. MaxSlots /\ tries \in 1 .. MaxTries
  /\ feed \in Feeds \cup {NoFeed} /\ view \in Nat /\ result \in BOOLEAN
  /\ socket \in {"open", "closed"} /\ subscribed \subseteq Feeds
  /\ toBroker \in Seq(Packets) /\ toClient \in Seq(Packets)
  /\ socket = "closed" => toBroker = <<>> /\ toClient = <<>> /\ subscribed = {}
  /\ sent \in [Feeds -> Nat] /\ given \in [Feeds -> Seq(Nat)]
  /\ calls \in 0 .. MaxCalls /\ taken \subseteq 1 .. calls /\ connects \in 0 .. MaxConnects

\* When publish() with QoS 1 returns true, the broker has taken that message,
\* whatever else was acknowledged late and however the identifiers wrap.
PublishedIsTaken == [][pc = "puback" /\ pc' = back /\ result' => calls \in taken]_vars

\* What the callback looks at stays as it was until it returns, although it may
\* publish and its data is the subscription's own.
CallbackDataStable == view # 0 => last[feed] = view

\* The message in a subscription is the newest that was taken from the stream for
\* it, whichever call took it and whether or not the one before was read, and a
\* subscription without an unread message has been given it.
GivenIsLast ==
  \A f \in Feeds :
    /\ last[f] = arrived[f]
    /\ f \notin new => arrived[f] = IF given[f] = <<>> THEN 0 ELSE Last(given[f])

\* The client implements FeedMail: newer and newer messages of each feed.
Mail == INSTANCE FeedMail
ImplementsMail == Mail!Spec
=============================================================================
